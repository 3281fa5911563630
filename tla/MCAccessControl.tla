--------------------------- MODULE MCAccessControl ---------------------------
(* Instances of AccessControl for TLC: an inbox and a message in it. *)
EXTENDS AccessControl, TLC

CONSTANTS inbox, note, alice

Tree == note :> <<note, inbox>> @@ inbox :> <<inbox>>

Owner(r) == [agents |-> {alice}, classes |-> {}, modes |-> {"read", "write", "control"},
             accessTo |-> {r}, default |-> {r}, condition |-> "none"]
PublicRule(r, below, m, c) ==
  [agents |-> {}, classes |-> {"public"}, modes |-> {m}, accessTo |-> {r}, default |-> below,
   condition |-> c]

\* generateInboxAcl; an owner's ACL that sells what it protects to the public.
Inbox(r) == {Owner(r), PublicRule(r, {r}, "append", "none")}
PaidRead(r) == {Owner(r), PublicRule(r, {}, "read", "payment")}

Generated == inbox :> {Inbox(inbox)} @@ note :> {PaidRead(note)}

Symmetry == Permutations(Requests)
=============================================================================
