---------------------------- MODULE ProfileCache ----------------------------
(***************************************************************************)
(* fetchCidDocument (auth/cid-doc-fetch.js): the bounded cache of WebID    *)
(* profiles that every verifier of keys reads through.  A document is kept *)
(* for Ttl, a failure for the shorter FailureTtl; a hit moves the entry to *)
(* the tail of the Map, and the head is evicted.  Callers that miss        *)
(* together fetch together, and each stores what it got when it ends.      *)
(*                                                                         *)
(* A document's history is a sequence of states, the last one current; an  *)
(* answer is the index of the state it was read from.  A host that does    *)
(* not answer in time, answers with an error, another content type or too  *)
(* much, or redirects elsewhere is one that is not up.                     *)
(***************************************************************************)
EXTENDS Naturals, Sequences, SequencesExt

CONSTANTS
  Urls, Callers, Nothing,
  Ttl,         \* PROFILE_CACHE_TTL
  FailureTtl,  \* PROFILE_FAILURE_TTL
  Room,        \* PROFILE_CACHE_MAX
  MaxFetch,    \* how long the deadlines let one fetch take
  MaxClock,    \* bound: the last tick
  MaxChanges   \* bound: changes of the documents, together

ASSUME CacheAssumption ==
  /\ Room \in Nat \ {0}
  /\ FailureTtl \in Nat \ {0} /\ Ttl \in Nat /\ FailureTtl <= Ttl
  /\ MaxFetch \in Nat /\ MaxClock \in Nat

VARIABLES
  clock,        \* Date.now()
  history,      \* url |-> what its host has served: [up, from], newest last
  profileCache, \* entries in the Map's order: [url, read, at]
  caller        \* caller |-> [at, url, read, began, answer, when]

cacheVars == <<clock, history, profileCache, caller>>

Asleep == [at |-> "idle", url |-> Nothing, read |-> 0, began |-> 0, answer |-> 0, when |-> 0]

Up(u, i) == history[u][i].up

Cached(u) == \E i \in DOMAIN profileCache : profileCache[i].url = u
Place(u) == CHOOSE i \in DOMAIN profileCache : profileCache[i].url = u
Entry(u) == profileCache[Place(u)]
Others(u) == IF Cached(u) THEN RemoveAt(profileCache, Place(u)) ELSE profileCache

\* Variant: a failure is kept as long as a document
LivesAlike(e) == clock < e.at + Ttl

Lives(e) == clock < e.at + (IF Up(e.url, e.read) THEN Ttl ELSE FailureTtl)

Answered(c, u, i) == caller' = [caller EXCEPT ![c] = [Asleep EXCEPT !.at = "answered", !.url = u,
                                                                    !.answer = i, !.when = clock]]
-----------------------------------------------------------------------------
\* A hit: the entry goes to the tail as it is.
Moved(u) == Append(Others(u), Entry(u))

Ask(c, u) ==
  /\ caller[c].at = "idle"
  /\ \/ /\ Cached(u) /\ Lives(Entry(u))
        /\ profileCache' = Moved(u)
        /\ Answered(c, u, Entry(u).read)
     \/ /\ ~(Cached(u) /\ Lives(Entry(u)))
        /\ profileCache' = Others(u)
        /\ caller' = [caller EXCEPT ![c] = [Asleep EXCEPT !.at = "fetching", !.url = u, !.began = clock]]
  /\ UNCHANGED <<clock, history>>

\* The host answers, or the attempt fails, with what it has now.
Read(c) ==
  /\ caller[c].at = "fetching"
  /\ caller' = [caller EXCEPT ![c].at = "read", ![c].read = Len(history[caller[c].url])]
  /\ UNCHANGED <<clock, history, profileCache>>

Evicted(s) == IF Len(s) > Room THEN Tail(s) ELSE s

\* setCached: an entry already there keeps its place in the Map.
Stored(e) ==
  IF Cached(e.url) THEN [i \in DOMAIN profileCache |-> IF profileCache[i].url = e.url THEN e ELSE profileCache[i]]
  ELSE Evicted(Append(profileCache, e))

Store(c) ==
  LET me == caller[c] IN
  /\ me.at = "read"
  /\ profileCache' = Stored([url |-> me.url, read |-> me.read, at |-> clock])
  /\ Answered(c, me.url, me.read)
  /\ UNCHANGED <<clock, history>>

Leave(c) ==
  /\ caller[c].at = "answered"
  /\ caller' = [caller EXCEPT ![c] = Asleep]
  /\ UNCHANGED <<clock, history, profileCache>>
-----------------------------------------------------------------------------
\* The owner edits the profile, or its host goes down or comes back.
Serve(u, up) ==
  /\ FoldFunction(LAMBDA h, n : n + Len(h) - 1, 0, history) < MaxChanges
  /\ history' = [history EXCEPT ![u] = Append(@, [up |-> up, from |-> clock])]
  /\ UNCHANGED <<clock, profileCache, caller>>

\* The deadlines end a fetch before it has taken longer than MaxFetch.
CacheTick ==
  /\ clock < MaxClock
  /\ \A c \in Callers : caller[c].at \in {"fetching", "read"} => clock < caller[c].began + MaxFetch
  /\ clock' = clock + 1
  /\ UNCHANGED <<history, profileCache, caller>>

CacheInit ==
  /\ clock = 0
  /\ history = [u \in Urls |-> <<[up |-> TRUE, from |-> 0]>>]
  /\ profileCache = <<>>
  /\ caller = [c \in Callers |-> Asleep]

CacheNext ==
  \/ \E c \in Callers : \/ \E u \in Urls : Ask(c, u)
                        \/ Read(c) \/ Store(c) \/ Leave(c)
  \/ \E u \in Urls, up \in BOOLEAN : Serve(u, up)
  \/ CacheTick

CacheSpec == CacheInit /\ [][CacheNext]_cacheVars
-----------------------------------------------------------------------------
(* The Map holds at most Room documents, each once, and what somebody has  *)
(* just been told is among them.                                           *)
CacheTypeOK ==
  /\ clock \in 0..MaxClock
  /\ Len(profileCache) <= Room
  /\ \A i \in DOMAIN profileCache :
       /\ profileCache[i].url \in Urls /\ profileCache[i].at <= clock
       /\ profileCache[i].read \in DOMAIN history[profileCache[i].url]
  /\ \A i, j \in DOMAIN profileCache : profileCache[i].url = profileCache[j].url => i = j
  /\ \A c \in Callers : caller[c].at \in {"idle", "fetching", "read", "answered"}

(* What a caller is told was still so within the entry's lifetime and one  *)
(* fetch: a document taken down or a key revoked is believed no longer     *)
(* than Ttl + MaxFetch, and a host that recovers is refused no longer than *)
(* FailureTtl + MaxFetch, however many hits and concurrent fetches         *)
(* prolong the entry.                                                      *)
AnswersRecent ==
  \A c \in Callers :
    LET a == caller[c]
        h == history[a.url]
    IN  a.at = "answered" /\ a.answer < Len(h) =>
          a.when < h[a.answer + 1].from + MaxFetch + (IF Up(a.url, a.answer) THEN Ttl ELSE FailureTtl)

\* The cache keeps its bounds and answers with nothing that is too old.
CacheSafe == CacheTypeOK /\ AnswersRecent
=============================================================================
