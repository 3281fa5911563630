-------------------------- MODULE MCResourceWrites --------------------------
(* Instances of ResourceWrites for TLC. *)
EXTENDS ResourceWrites, TLC

Symmetry == Permutations(Clients)

FairSpec == Spec /\ Fairness
=============================================================================
