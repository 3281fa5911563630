\* Two processes, of which one may die once and be started again, and inode numbers that
\* are not given out again; three requests for a resource and a pod.
CONSTANTS
  Procs = {p1, p2}
  Inodes = {i1, i2, i3, i4, i5}
  NoInode = NoInode
  StaleTicks = 1
  WaitTicks = 2
  InodeReuse = FALSE
  MayRestart = TRUE
  MaxCrashes = 1
  Requests = {r1, r2, r3}
  Keys = {k1, k2}
  PathKeys = {k1}
  NoRequest = NoRequest
  NoKey = NoKey
SPECIFICATION PartsSpec
INVARIANTS LockSafe ChainSafe
PROPERTIES ImplementsMutex BreaksOnlyStale GivesUpOnlyIfContended RequestsEnd EveryRequestRuns
CHECK_DEADLOCK FALSE
