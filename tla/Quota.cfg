\* One process that may die; writes may fail half way; the pod is older than its quota and is
\* reconciled while the server is down.
CONSTANTS
  Requests = {r1, r2, r3}
  Procs = {p1}
  f1 = f1
  f2 = f2
  Files = {f1, f2}
  Sizes = {1, 2}
  Methods = {"PUT", "POST", "DELETE", "PATCH"}
  DefaultQuota = 2
  InitialSize <- OldPod
  MayTruncate = TRUE
  Reconcile = "offline"
  MaxCrashes = 1
  NoRequest = NoRequest
  NoFile = NoFile
SYMMETRY Symmetry
SPECIFICATION Spec
INVARIANTS QuotaSafe ExactWhenQuiet
PROPERTIES NoLostQuotaUpdate
CHECK_DEADLOCK FALSE
