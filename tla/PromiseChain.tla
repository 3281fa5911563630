---------------------------- MODULE PromiseChain ----------------------------
(***************************************************************************)
(* The two in-process queues of the server: a Map from a key to the tail   *)
(* promise of a chain. serialised() in src/handlers/resource.js queues the *)
(* writes to one resource, withPodLock() in src/storage/quota.js the       *)
(* updates of one pod's .quota.json. A request chains itself behind the    *)
(* tail it finds, becomes the tail, and runs when its predecessor has      *)
(* settled, however that one ended. They differ in when the map entry goes *)
(* away: serialised deletes it in the `finally` of the request, withPodLock*)
(* in a reaction to the tail, after the successor may have been released.  *)
(***************************************************************************)
EXTENDS Naturals, FiniteSets

CONSTANTS
  Requests,
  Keys,           \* lock paths, or pod names
  NoRequest,      \* no entry in the map, a promise resolved from the start
  NoKey,          \* the key of a request that has not arrived
  PathKeys        \* the lock paths of serialised; the others belong to withPodLock

ASSUME SentinelAssumption == /\ NoRequest \notin Requests
                             /\ NoKey \notin Keys
                             /\ PathKeys \subseteq Keys

VARIABLES
  tail,       \* the Map: the request whose tail promise is stored at each key
  key,        \* the key of each request that has arrived
  previous,   \* the request whose tail promise it awaits
  before,     \* the requests for its key that arrived before it
  status,     \* where each request is
  outcome     \* how its function ended

chainVars == <<tail, key, previous, before, status, outcome>>

Statuses == {"new", "waiting", "running", "settled", "done"}
Outcomes == {"none", "fulfilled", "rejected"}

ChainTypeOK ==
  /\ tail \in [Keys -> Requests \cup {NoRequest}]
  /\ key \in [Requests -> Keys \cup {NoKey}]
  /\ previous \in [Requests -> Requests \cup {NoRequest}]
  /\ before \in [Requests -> SUBSET Requests]
  /\ status \in [Requests -> Statuses]
  /\ outcome \in [Requests -> Outcomes]
  /\ \A r \in Requests : (key[r] = NoKey) <=> (status[r] = "new")
  /\ \A r \in Requests : (outcome[r] = "none") <=> (status[r] \in {"new", "waiting", "running"})

ChainInit ==
  /\ tail = [k \in Keys |-> NoRequest]
  /\ key = [r \in Requests |-> NoKey]
  /\ previous = [r \in Requests |-> NoRequest]
  /\ before = [r \in Requests |-> {}]
  /\ status = [r \in Requests |-> "new"]
  /\ outcome = [r \in Requests |-> "none"]
-----------------------------------------------------------------------------
\* The request takes the tail of its key as its predecessor and becomes the tail.
Arrive(r, k) ==
  /\ status[r] = "new"
  /\ key' = [key EXCEPT ![r] = k]
  /\ previous' = [previous EXCEPT ![r] = tail[k]]
  /\ before' = [before EXCEPT ![r] = {s \in Requests : key[s] = k}]
  /\ tail' = [tail EXCEPT ![k] = r]
  /\ status' = [status EXCEPT ![r] = "waiting"]
  /\ UNCHANGED outcome

\* Variant: prev.then(fn), which a predecessor that fails leaves waiting.
ResolvedIfFulfilled(x) ==
  x # NoRequest => status[x] \in {"settled", "done"} /\ outcome[x] = "fulfilled"

\* The tail promise of x resolves when x has settled: it waits for x's own
\* predecessor too, but x ran only after that one had resolved.
Resolved(x) == x # NoRequest => status[x] \in {"settled", "done"}

\* `await previous` returns; the function of the request starts.
Resume(r) ==
  /\ status[r] = "waiting"
  /\ Resolved(previous[r])
  /\ status' = [status EXCEPT ![r] = "running"]
  /\ UNCHANGED <<tail, key, previous, before, outcome>>

\* Variants: the entry is deleted whoever's it is, or never.
DeleteAny(r) == tail' = [tail EXCEPT ![key[r]] = NoRequest]
DeleteNever(r) == tail' = tail

\* The entry is deleted only while it is still this request's own tail.
Delete(r) ==
  tail' = [k \in Keys |-> IF tail[k] = r THEN NoRequest ELSE tail[k]]

\* serialised: the function ends, with an answer, ELOCKED or another error; the
\* finally block releases the successor and deletes the entry.
SettleAndDelete(r) ==
  /\ key[r] \in PathKeys
  /\ status[r] = "running"
  /\ status' = [status EXCEPT ![r] = "done"]
  /\ \E o \in {"fulfilled", "rejected"} : outcome' = [outcome EXCEPT ![r] = o]
  /\ Delete(r)
  /\ UNCHANGED <<key, previous, before>>

\* withPodLock: the function ends, one way or the other, and the tail resolves.
Settle(r) ==
  /\ key[r] \notin PathKeys
  /\ status[r] = "running"
  /\ status' = [status EXCEPT ![r] = "settled"]
  /\ \E o \in {"fulfilled", "rejected"} : outcome' = [outcome EXCEPT ![r] = o]
  /\ UNCHANGED <<tail, key, previous, before>>

\* withPodLock: the reaction to the tail deletes the entry.
Cleanup(r) ==
  /\ status[r] = "settled"
  /\ status' = [status EXCEPT ![r] = "done"]
  /\ Delete(r)
  /\ UNCHANGED <<key, previous, before, outcome>>

ChainStep(r) == Resume(r) \/ SettleAndDelete(r) \/ Settle(r) \/ Cleanup(r)

ChainNext == \E r \in Requests : ChainStep(r) \/ \E k \in Keys : Arrive(r, k)

ChainSpec == ChainInit /\ [][ChainNext]_chainVars

\* Every function settles and the event loop runs every reaction.
ChainFairness == \A r \in Requests : WF_chainVars(ChainStep(r))
-----------------------------------------------------------------------------
Unfinished(r) == status[r] \in {"waiting", "running"}

\* At no time do two requests for one key run: a conditional write's check and
\* its write are not split, and no two updates of one quota file overlap.
OneAtATime ==
  \A r, s \in Requests :
    /\ status[r] = "running" /\ status[s] = "running"
    /\ key[r] = key[s]
    => r = s

\* A request runs only after every earlier request for its key has settled,
\* wherever the map entry was deleted and made again in between.
ArrivalOrder ==
  \A r \in Requests :
    status[r] \notin {"new", "waiting"} => \A s \in before[r] : ~ Unfinished(s)

\* The map keeps an entry for a key as long as somebody waits or runs, so that a
\* newcomer chains itself behind him, and drops it when the last one is through.
MapExact ==
  \A k \in Keys :
    /\ tail[k] = NoRequest => \A r \in Requests : key[r] = k => ~ Unfinished(r)
    /\ (\A r \in Requests : key[r] = k => status[r] = "done") => tail[k] = NoRequest

\* A request that fails does not wedge the chain: every request that arrives is
\* run to its end.
EveryRequestRuns ==
  \A r \in Requests : status[r] = "waiting" ~> status[r] = "done"

\* Whoever arrives, ends, fails or is cleaned up behind in whatever order, the requests
\* of a key run alone and in turn, and the map has an entry exactly while it is needed.
ChainSafe == ChainTypeOK /\ OneAtATime /\ ArrivalOrder /\ MapExact
=============================================================================
