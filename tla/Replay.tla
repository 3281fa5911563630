------------------------------- MODULE Replay -------------------------------
(***************************************************************************)
(* What keeps a signed request header from being used twice.               *)
(*                                                                         *)
(* NIP-98 (auth/nostr.js): an event signed by a Nostr key is good for one  *)
(* request while the clock is within Tolerance of the time in it.  Its id  *)
(* is noted in seenEventIds with the time of the request, and a timer      *)
(* drops ids noted more than twice the tolerance ago.  Git's smart-HTTP    *)
(* routes are exempt: git presents one token on every request of a push.   *)
(*                                                                         *)
(* DPoP (auth/solid-oidc.js): a proof's jti is kept with the proof's own   *)
(* iat, and dropped once that is older than MaxAge.  The jti is recorded   *)
(* before the access token is verified, which awaits the issuer's keys.    *)
(*                                                                         *)
(* Time is in whole seconds, as both verifiers compute it, and does not    *)
(* run backwards.  An event stands for its own id, the hash of it.         *)
(***************************************************************************)
EXTENDS Naturals, Sequences, SequencesExt

CONSTANTS
  Events,     \* signed NIP-98 events: what was put in the tags u, method and payload, and when
  Requests,   \* requests a header may come with: url is the whole URL, page the URL without its query
  Proofs,     \* DPoP proofs: [jti, iat]
  Absent,     \* no such tag, no body
  Tolerance,  \* TIMESTAMP_TOLERANCE
  MaxAge,     \* DPOP_MAX_AGE
  MaxTime     \* bound: the last second

ASSUME EventsAssumption == \A e \in Events : e.at \in Nat \ {0}
ASSUME ProofsAssumption == \A p \in Proofs : p.iat \in Nat \ {0}
ASSUME WindowsAssumption == Tolerance \in Nat /\ MaxAge \in Nat /\ MaxTime \in Nat

VARIABLES
  now,         \* Date.now() in seconds
  seenEventIds,\* id of an accepted event |-> when it was accepted
  dpopJtiCache,\* jti |-> the iat of the proof that brought it
  checking,    \* proofs whose access token is being verified
  granted,     \* ghost: requests off the git routes each event has authorised, newest last
  proved       \* ghost: how often each proof has authorised a request

replayVars == <<now, seenEventIds, dpopJtiCache, checking, granted, proved>>

Apart(a, b) == IF a < b THEN b - a ELSE a - b

KeepOnly(f, S) == [x \in S |-> f[x]]

Put(f, x, v) == [y \in DOMAIN f \cup {x} |-> IF y = x THEN v ELSE f[y]]
-----------------------------------------------------------------------------
(* Which requests an event may authorise. *)

Writes == {"PUT", "POST", "PATCH"}

UrlMatches(e, r) ==
  \/ e.u \in {r.url, r.page}
  \/ r.git /\ IsStrictPrefix(e.u, r.page)

MethodMatches(e, r) ==
  \/ e.method = r.method
  \/ r.git /\ e.method \in {Absent, "*"}

PayloadMatches(e, r) ==
  IF e.payload = Absent
  THEN r.git \/ r.body = Absent \/ r.method \notin Writes
  ELSE r.body = Absent \/ e.payload = r.body

Covers(e, r) == UrlMatches(e, r) /\ MethodMatches(e, r) /\ PayloadMatches(e, r)
-----------------------------------------------------------------------------
\* Variant: ids are forgotten after one tolerance
Stale1(id) == now - seenEventIds[id] > Tolerance

Stale(id) == now - seenEventIds[id] > 2 * Tolerance

\* verifyNostrAuth up to the signature and the note: one turn of the event loop.
VerifyNostr(e, r) ==
  /\ Apart(now, e.at) <= Tolerance
  /\ Covers(e, r)
  /\ \/ /\ r.git
        /\ UNCHANGED <<seenEventIds, granted>>
     \/ /\ ~r.git
        /\ e \notin DOMAIN seenEventIds
        /\ seenEventIds' = Put(seenEventIds, e, now)
        /\ granted' = [granted EXCEPT ![e] = Append(@, r)]
  /\ UNCHANGED <<now, dpopJtiCache, checking, proved>>

SweepEventIds ==
  /\ seenEventIds' = KeepOnly(seenEventIds, {id \in DOMAIN seenEventIds : ~Stale(id)})
  /\ UNCHANGED <<now, dpopJtiCache, checking, granted, proved>>
-----------------------------------------------------------------------------
\* verifyDpopProof: the claims hold, the jti is new and is recorded.
VerifyDpop(p) ==
  /\ Apart(now, p.iat) <= MaxAge
  /\ p.jti \notin DOMAIN dpopJtiCache
  /\ dpopJtiCache' = Put(dpopJtiCache, p.jti, p.iat)
  /\ checking' = checking \cup {p}
  /\ UNCHANGED <<now, seenEventIds, granted, proved>>

\* verifySolidOidc after its awaits: the token is good, or it is not and the jti stays used.
VerifyToken(p, good) ==
  /\ p \in checking
  /\ checking' = checking \ {p}
  /\ proved' = IF good THEN [proved EXCEPT ![p] = @ + 1] ELSE proved
  /\ UNCHANGED <<now, seenEventIds, dpopJtiCache, granted>>

Expired(jti) == dpopJtiCache[jti] + MaxAge < now

CleanupJtiCache ==
  /\ dpopJtiCache' = KeepOnly(dpopJtiCache, {jti \in DOMAIN dpopJtiCache : ~Expired(jti)})
  /\ UNCHANGED <<now, seenEventIds, checking, granted, proved>>
-----------------------------------------------------------------------------
Tick ==
  /\ now < MaxTime
  /\ now' = now + 1
  /\ UNCHANGED <<seenEventIds, dpopJtiCache, checking, granted, proved>>

ReplayInit ==
  /\ now = 0
  /\ seenEventIds = <<>>
  /\ dpopJtiCache = <<>>
  /\ checking = {}
  /\ granted = [e \in Events |-> <<>>]
  /\ proved = [p \in Proofs |-> 0]

ReplayNext ==
  \/ \E e \in Events, r \in Requests : VerifyNostr(e, r)
  \/ SweepEventIds
  \/ \E p \in Proofs : VerifyDpop(p)
  \/ \E p \in Proofs, good \in BOOLEAN : VerifyToken(p, good)
  \/ CleanupJtiCache
  \/ Tick

ReplaySpec == ReplayInit /\ [][ReplayNext]_replayVars
-----------------------------------------------------------------------------
(* The caches hold events and jtis with times already reached. *)
ReplayTypeOK ==
  /\ now \in 0..MaxTime
  /\ DOMAIN seenEventIds \subseteq Events
  /\ \A e \in DOMAIN seenEventIds : seenEventIds[e] \in 0..now
  /\ \A jti \in DOMAIN dpopJtiCache : \E p \in Proofs : p.jti = jti /\ p.iat = dpopJtiCache[jti]
  /\ checking \subseteq Proofs
  /\ granted \in [Events -> Seq(Requests)]
  /\ proved \in [Proofs -> Nat]

(* Off the git routes one event authorises one request, however the sweep  *)
(* and the clock fall: an id is never dropped while its event still        *)
(* verifies.                                                               *)
EventsGrantOnce == \A e \in Events : Len(granted[e]) <= 1

(* One DPoP proof authorises one request, though its token is verified     *)
(* after awaits and the cache is cleaned meanwhile.                        *)
ProofsGrantOnce == \A p \in Proofs : proved[p] + (IF p \in checking THEN 1 ELSE 0) <= 1

(* An event is spent only by a request it authorised: one that fails (the  *)
(* wrong URL, method or body) leaves it good for the request it was        *)
(* signed for.                                                             *)
OnlyGrantsSpend == \A e \in DOMAIN seenEventIds : granted[e] # <<>>

(* Off the git routes a request is authorised only with the method, the    *)
(* URL up to its query and, for a write, the body that were signed, so     *)
(* that a helper's repository token (a base URL, any method, no payload)   *)
(* works nowhere else.  The query too is the one that was signed, unless   *)
(* the event names the bare URL: that one serves for whatever query the    *)
(* request has.                                                            *)
GrantedAsSigned ==
  \A e \in Events : \A i \in DOMAIN granted[e] :
    LET r == granted[e][i] IN
    /\ e.u # r.url => e.u = r.page
    /\ e.method = r.method
    /\ r.method \in Writes => r.body \in {Absent, e.payload}

\* A signed event or a proof lets in one request, one it was signed for.
ReplaySafe == ReplayTypeOK /\ EventsGrantOnce /\ ProofsGrantOnce /\ OnlyGrantsSpend /\ GrantedAsSigned
=============================================================================
