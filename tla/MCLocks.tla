------------------------------- MODULE MCLocks -------------------------------
(* Instances for TLC of what keeps writes apart: the lock file that processes share and
   the queues inside a process. `part` says which of them a behaviour is about; the other
   stays as it began, where none of the steps that have to be fair is possible. *)
EXTENDS FileLock, PromiseChain, TLC

VARIABLE part

allVars == <<part, lockVars, chainVars>>

PartsInit == part \in {"lock file", "queues"} /\ LockInit /\ ChainInit

PartsNext ==
  /\ UNCHANGED part
  /\ \/ part = "lock file" /\ LockNext /\ UNCHANGED chainVars
     \/ part = "queues" /\ ChainNext /\ UNCHANGED lockVars

PartsSpec == PartsInit /\ [][PartsNext]_allVars /\ LockFairness /\ ChainFairness
=============================================================================
