------------------------------- MODULE Mutex -------------------------------
(***************************************************************************)
(* What a caller of storage.withLock is promised: the callbacks of one     *)
(* path run one at a time, whatever process they run in. A holder leaves   *)
(* by finishing or by crashing; nobody is ever put out by somebody else.   *)
(***************************************************************************)
CONSTANT Procs      \* everything that may ask for the lock

VARIABLE holders    \* those whose callback is running

MutexInit == holders = {}

\* The callback of p starts: only while no other one runs.
Acquire(p) == /\ holders = {}
              /\ holders' = {p}

\* The callback of p ends, or its process dies.
Leave(p) == /\ p \in holders
            /\ holders' = holders \ {p}

MutexNext == \E p \in Procs : Acquire(p) \/ Leave(p)

MutexSpec == MutexInit /\ [][MutexNext]_holders
=============================================================================
