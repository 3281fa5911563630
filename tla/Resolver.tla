------------------------------ MODULE Resolver ------------------------------
(***************************************************************************)
(* From a Nostr key to a WebID, once the request's own owner did not match *)
(* (the second and third lookup of verifyNostrAuth):                       *)
(*   - the in-process index of idp/well-known-did-nostr.js, rebuilt from   *)
(*     the profiles of all accounts when older than IndexTtl, by one       *)
(*     rebuild that every waiting caller shares; a key that two accounts   *)
(*     claim is left out;                                                  *)
(*   - resolveDidNostrToWebId of auth/did-nostr.js: the key's DID document *)
(*     at an external resolver, and the profile it points to, which must   *)
(*     link back; cached for Ttl, transient failures for FailureTtl.       *)
(*                                                                         *)
(* One key.  What the outside says is a set of named facts that may change *)
(* at any time, each with the time of its last change.                     *)
(***************************************************************************)
EXTENDS Naturals

CONSTANTS
  Seekers,     \* requests being authenticated
  Holders,     \* local accounts
  Remote,      \* the WebID the DID document points to
  Nobody,      \* no WebID: the request falls back to did:nostr
  IndexTtl, DidTtl, DidFailureTtl,
  MaxWork,     \* how long a rebuild, or a resolution's fetches, may take
  MaxHours,    \* bound: ticks
  MaxTurns     \* bound: changes of the outside

ASSUME ResolverAssumption ==
  /\ {Remote, Nobody} \cap Holders = {} /\ Remote # Nobody
  /\ Holders \cap {"up", "linked", "backlink"} = {}
  /\ {IndexTtl, MaxWork, MaxHours, MaxTurns} \subseteq Nat
  /\ {DidTtl, DidFailureTtl} \subseteq Nat \ {0}

VARIABLES
  hour,        \* Date.now()
  fact,        \* name |-> [holds, since]
  index,       \* [built, who]: accounts' WebID in pubkeyIndex, Nobody when there is none
  rebuild,     \* rebuildInFlight: [on, began, todo, found]
  didCache,    \* {} or one entry [webId, at, failure]
  seeker,      \* seeker |-> [at, began, answer, when]
  turns

resolverVars == <<hour, fact, index, rebuild, didCache, seeker, turns>>

\* A local profile lists the key; the resolver and the remote host answer; the DID
\* document names the remote profile; that profile claims the key.
FactNames == Holders \cup {"up", "linked", "backlink"}

Holds(f) == fact[f].holds

\* Long enough after the facts that nothing about them is recent.
FirstHour == DidTtl + IndexTtl + MaxWork

Fresh == [at |-> "idle", began |-> 0, answer |-> Nobody, when |-> 0]
NoRebuild == [on |-> FALSE, began |-> 0, todo |-> {}, found |-> {}]

Answer(s, w) == seeker' = [seeker EXCEPT ![s] = [at |-> "answered", began |-> 0, answer |-> w, when |-> hour]]
-----------------------------------------------------------------------------
(* The index of local accounts. *)

\* Variant: the rebuild's time is that of its last use
IndexFreshOnUse == index.built + IndexTtl + IndexTtl >= hour /\ index.built # 0

\* indexBuiltAt is 0 until there is an index.
IndexFresh == index.built # 0 /\ index.built + IndexTtl >= hour

StartResolve(s) ==
  /\ seeker[s].at = "idle"
  /\ seeker' = [seeker EXCEPT ![s].at = IF IndexFresh THEN "lookup" ELSE "rebuild"]
  /\ rebuild' = IF IndexFresh \/ rebuild.on THEN rebuild
                ELSE [on |-> TRUE, began |-> hour, todo |-> Holders, found |-> {}]
  /\ UNCHANGED <<hour, fact, index, didCache, turns>>

\* One account of the scan: findById, its profile, and the checks of the key in it.
ReadProfile(h) ==
  /\ rebuild.on /\ h \in rebuild.todo
  /\ rebuild' = [rebuild EXCEPT !.todo = @ \ {h}, !.found = IF Holds(h) THEN @ \cup {h} ELSE @]
  /\ UNCHANGED <<hour, fact, index, didCache, seeker, turns>>

OwnerAmong(found) == IF \E h \in found : found = {h} THEN CHOOSE h \in found : TRUE ELSE Nobody

EndRebuild ==
  /\ rebuild.on /\ rebuild.todo = {}
  /\ index' = [built |-> hour, who |-> OwnerAmong(rebuild.found)]
  /\ rebuild' = NoRebuild
  /\ seeker' = [s \in Seekers |-> IF seeker[s].at = "rebuild" THEN [seeker[s] EXCEPT !.at = "lookup"] ELSE seeker[s]]
  /\ UNCHANGED <<hour, fact, didCache, turns>>

DidLives(e) == hour < e.at + (IF e.failure THEN DidFailureTtl ELSE DidTtl)

\* The index's entry, or the cached resolution, or a fetch.
Look(s) ==
  /\ seeker[s].at = "lookup"
  /\ IF index.who # Nobody
     THEN Answer(s, index.who) /\ didCache' = didCache
     ELSE IF \E e \in didCache : DidLives(e)
          THEN \E e \in didCache : Answer(s, e.webId) /\ didCache' = didCache
          ELSE /\ didCache' = {}
               /\ seeker' = [seeker EXCEPT ![s] = [at |-> "doc", began |-> hour, answer |-> Nobody, when |-> 0]]
  /\ UNCHANGED <<hour, fact, index, rebuild, turns>>
-----------------------------------------------------------------------------
(* The external resolver: two fetches, the answer cached by its class. *)

Resolved(s, w, failed) ==
  /\ didCache' = {[webId |-> w, at |-> hour, failure |-> failed]}
  /\ Answer(s, w)

FetchDidDoc(s) ==
  /\ seeker[s].at = "doc"
  /\ \/ ~Holds("up") /\ Resolved(s, Nobody, TRUE)
     \/ Holds("up") /\ ~Holds("linked") /\ Resolved(s, Nobody, FALSE)
     \/ /\ Holds("up") /\ Holds("linked")
        /\ seeker' = [seeker EXCEPT ![s].at = "backlink"]
        /\ didCache' = didCache
  /\ UNCHANGED <<hour, fact, index, rebuild, turns>>

Backlink(s) ==
  Resolved(s, IF Holds("up") /\ Holds("backlink") THEN Remote ELSE Nobody, ~Holds("up"))

VerifyBacklink(s) ==
  /\ seeker[s].at = "backlink"
  /\ Backlink(s)
  /\ UNCHANGED <<hour, fact, index, rebuild, turns>>

GoOn(s) ==
  /\ seeker[s].at = "answered"
  /\ seeker' = [seeker EXCEPT ![s] = Fresh]
  /\ UNCHANGED <<hour, fact, index, rebuild, didCache, turns>>
-----------------------------------------------------------------------------
Turn(f) ==
  /\ turns < MaxTurns
  /\ turns' = turns + 1
  /\ fact' = [fact EXCEPT ![f] = [holds |-> ~@.holds, since |-> hour]]
  /\ UNCHANGED <<hour, index, rebuild, didCache, seeker>>

\* Deadlines bound the fetches; the scan is of local files.
Pass ==
  /\ hour < FirstHour + MaxHours
  /\ rebuild.on => hour < rebuild.began + MaxWork
  /\ \A s \in Seekers : seeker[s].at \in {"doc", "backlink"} => hour < seeker[s].began + MaxWork
  /\ \A s \in Seekers : seeker[s].at # "lookup"
  /\ hour' = hour + 1
  /\ UNCHANGED <<fact, index, rebuild, didCache, seeker, turns>>

ResolverInit ==
  /\ hour = FirstHour
  /\ \E yes \in SUBSET FactNames : fact = [f \in FactNames |-> [holds |-> f \in yes, since |-> 0]]
  /\ index = [built |-> 0, who |-> Nobody]
  /\ rebuild = NoRebuild
  /\ didCache = {}
  /\ seeker = [s \in Seekers |-> Fresh]
  /\ turns = 0

ResolverNext ==
  \/ \E s \in Seekers : \/ StartResolve(s) \/ Look(s) \/ FetchDidDoc(s)
                        \/ VerifyBacklink(s) \/ GoOn(s)
  \/ \E h \in Holders : ReadProfile(h)
  \/ EndRebuild
  \/ \E f \in FactNames : Turn(f)
  \/ Pass

ResolverSpec == ResolverInit /\ [][ResolverNext]_resolverVars
-----------------------------------------------------------------------------
ResolverTypeOK ==
  /\ hour \in FirstHour..(FirstHour + MaxHours)
  /\ index.who \in Holders \cup {Nobody} /\ index.built <= hour
  /\ rebuild.todo \subseteq Holders /\ rebuild.found \subseteq Holders \ rebuild.todo
  /\ \A e \in didCache : e.webId \in {Remote, Nobody} /\ e.at <= hour /\ (e.failure => e.webId = Nobody)
  /\ \A d, e \in didCache : d = e
  /\ \A s \in Seekers : /\ seeker[s].answer \in Holders \cup {Remote, Nobody}
                        /\ seeker[s].at = "rebuild" => rebuild.on

\* When a fact last held, and last did not.
LastTrue(f) == IF Holds(f) THEN hour ELSE fact[f].since
LastFalse(f) == IF Holds(f) THEN fact[f].since ELSE hour

Told(s, w) == seeker[s].at = "answered" /\ seeker[s].answer = w

(* A request is authenticated as a WebID only if, within one lifetime and  *)
(* the time it takes to look, the profile claimed the key (and the DID     *)
(* document pointed to it): a revoked key stops working in that time,      *)
(* shared rebuilds and cache hits included.                                *)
RevokedKeyStops ==
  \A s \in Seekers :
    /\ \A h \in Holders : Told(s, h) => seeker[s].when <= LastTrue(h) + IndexTtl + MaxWork
    /\ Told(s, Remote) => \A f \in {"linked", "backlink"} : seeker[s].when < LastTrue(f) + DidTtl + MaxWork

(* A key that two accounts have claimed for as long authenticates as       *)
(* neither.                                                                *)
SharedKeyRefused ==
  \A s \in Seekers : \A h \in Holders :
    Told(s, h) => \A o \in Holders \ {h} : seeker[s].when <= LastFalse(o) + IndexTtl + MaxWork

(* A key that is linked both ways is recognised: within DidTtl of being    *)
(* linked, and within DidFailureTtl of the hosts' recovery.                *)
LinkedKeyRecognised ==
  \A s \in Seekers : Told(s, Nobody) =>
    \/ \E f \in {"linked", "backlink"} : seeker[s].when < LastFalse(f) + DidTtl + MaxWork
    \/ seeker[s].when < LastFalse("up") + DidFailureTtl + MaxWork

\* Who a key speaks for is settled by what its holders published recently.
KeysRecent == ResolverTypeOK /\ RevokedKeyStops /\ SharedKeyRefused /\ LinkedKeyRecognised
=============================================================================
