\* Two requests at a time for an inbox, a message in it and the ACLs of both.
CONSTANTS
  inbox = inbox
  note = note
  alice = alice
  Resources = {inbox, note}
  Root = inbox
  Up <- Tree
  Users = {alice}
  Nobody = Nobody
  Methods = {"GET", "PUT", "POST", "DELETE"}
  Documents <- Generated
  Requests = {q1, q2}
  NoAcl = NoAcl
SYMMETRY Symmetry
SPECIFICATION Spec
INVARIANTS AccessSafe HeaderAgrees
 
