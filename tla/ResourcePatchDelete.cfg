\* A PATCH races a DELETE with the same ETag.
CONSTANTS
  Clients = {c1, c2}
  Methods = {"PATCH", "DELETE"}
  Sizes = {1}
  DistinctTimes = TRUE
  NoClient = NoClient
  NoTag = NoTag
  Absent = Absent
SYMMETRY Symmetry
SPECIFICATION Spec
INVARIANTS AtMostOneWinner
CHECK_DEADLOCK FALSE
