\* Two clients, every method and precondition; the resource may be there at the start.
CONSTANTS
  Clients = {c1, c2}
  Methods = {"PUT", "PATCH", "DELETE"}
  Sizes = {1, 2}
  DistinctTimes = TRUE
  NoClient = NoClient
  NoTag = NoTag
  Absent = Absent
SPECIFICATION FairSpec
INVARIANTS ResourceSafe
PROPERTIES NoLostUpdate ImplementsAtomicResource EveryWriteAnswered
CHECK_DEADLOCK FALSE
