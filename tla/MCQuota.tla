------------------------------ MODULE MCQuota ------------------------------
(* Instances of Quota for TLC. *)
EXTENDS Quota, TLC

CONSTANTS f1, f2

\* A pod with one file of size 1 that was there before the quota.
OldPod == f1 :> 1 @@ f2 :> 0

Symmetry == Permutations(Requests)
=============================================================================
