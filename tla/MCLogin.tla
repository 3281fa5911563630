------------------------------- MODULE MCLogin -------------------------------
(* An instance for TLC of the login pages: two tabs of one browser, two accounts. *)
EXTENDS Login

CONSTANT bob

\* Symmetry between the accounts, broken by hand (the run has liveness properties): if the
\* browser has been through an account's consent page before, it is bob's.
OneSide == LoginInit /\ settled = {bob} /\ session # bob

LoginSpecOneSide == OneSide /\ [][LoginNext]_loginVars /\ LoginFairness
=============================================================================
