------------------------------- MODULE Quota -------------------------------
(***************************************************************************)
(* The storage quota of one pod: src/storage/quota.js as PUT, DELETE and   *)
(* PATCH (src/handlers/resource.js) and POST (src/handlers/container.js)   *)
(* use it, and `jss quota reconcile`, which runs in a process of its own.  *)
(* Growth is reserved before the write, released if the write fails, and a *)
(* shrink or a removal is recorded afterwards. Each access to .quota.json  *)
(* is a load and a save with other processes in between; the pod lock is a *)
(* promise chain of one process (PromiseChain).                            *)
(***************************************************************************)
EXTENDS Integers, FiniteSets, Functions

CONSTANTS
  Requests,
  Procs,          \* processes that share the data directory
  Files,
  Sizes,          \* content lengths that clients send
  Methods,
  DefaultQuota,   \* --default-quota
  InitialSize,    \* what the pod was created with, by file; never accounted
  MayTruncate,    \* a write may fail after it has emptied the file
  Reconcile,      \* `jss quota reconcile` is run once: "never", while the server is
                  \* stopped ("offline") or while it runs ("online")
  MaxCrashes,     \* bound: how often a process dies
  NoRequest,
  NoFile

ASSUME QuotaAssumption ==
  /\ Sizes \subseteq Nat
  /\ Methods \subseteq {"PUT", "POST", "PATCH", "DELETE"}
  /\ DefaultQuota \in Nat \ {0}
  /\ IsFiniteSet(Requests) /\ IsFiniteSet(Files)
  /\ InitialSize \in [Files -> Nat]
  /\ MayTruncate \in BOOLEAN
  /\ Reconcile \in {"never", "offline", "online"}
  /\ MaxCrashes \in Nat
  /\ NoRequest \notin Requests
  /\ NoFile \notin Files

VARIABLES
  size,      \* bytes of each file on disk
  files,     \* the files that exist
  quota,     \* .quota.json; no file reads as limit 0
  writer,    \* the request that holds each file: serialised, or its fresh name
  podLock,   \* the request inside withPodLock, by process
  pc,        \* where each request is
  req,       \* what it asks for: method, process, file, length
  change,    \* the bytes it has to add to `used`
  loaded,    \* the quota it has loaded
  admin,     \* the reconcile command: where it is and what it has loaded
  crashes,
  untracked, \* bytes that are in no account: of older files, and what PATCHes have
             \* added, or taken away (negative)
  unreserved,\* bytes that were written without asking, accounted since or not
  drift      \* the account may have gone wrong: a write has failed half way, a process
             \* has died, or a subtraction was cut off or left out

vars == <<size, files, quota, writer, podLock, pc, req, change, loaded, admin, crashes, untracked,
          unreserved, drift>>
diskVars == <<size, files>>
requestVars == <<writer, podLock, pc, req, change, loaded>>
restVars == <<admin, crashes, untracked, unreserved, drift>>

Quotas == [limit : Nat, used : Nat]
NoQuota == [limit |-> 0, used |-> 0]
Locations == {"new", "start", "reserve", "reserving", "write", "fill", "unlink",
              "update", "updating", "done"}
NoReq == [method |-> "none", proc |-> NoRequest, file |-> NoFile, len |-> 0]

TypeOK ==
  /\ size \in [Files -> Nat]
  /\ files \subseteq Files
  /\ quota \in Quotas
  /\ writer \in [Files -> Requests \cup {NoRequest}]
  /\ podLock \in [Procs -> Requests \cup {NoRequest}]
  /\ pc \in [Requests -> Locations]
  /\ req \in [Requests -> [method : Methods, proc : Procs, file : Files, len : Sizes] \cup {NoReq}]
  /\ change \in [Requests -> Int]
  /\ loaded \in [Requests -> Quotas]
  /\ admin \in [at : {"idle", "scan", "save", "done"}, quota : Quotas]
  /\ crashes \in 0 .. MaxCrashes
  /\ untracked \in Int
  /\ unreserved \in Nat
  /\ drift \in BOOLEAN
  /\ \A r \in Requests : (req[r] = NoReq) <=> (pc[r] = "new")
  /\ \A f \in Files \ files : size[f] = 0

\* initializeQuota has run, or the pod is older than the quota option.
Init ==
  /\ size = InitialSize
  /\ files = {f \in Files : InitialSize[f] > 0}
  /\ quota \in {NoQuota, [limit |-> DefaultQuota, used |-> 0]}
  /\ writer = [f \in Files |-> NoRequest]
  /\ podLock = [p \in Procs |-> NoRequest]
  /\ pc = [r \in Requests |-> "new"]
  /\ req = [r \in Requests |-> NoReq]
  /\ change = [r \in Requests |-> 0]
  /\ loaded = [r \in Requests |-> NoQuota]
  /\ admin = [at |-> "idle", quota |-> NoQuota]
  /\ crashes = 0
  /\ untracked = FoldFunction(+, 0, InitialSize)
  /\ unreserved = untracked
  /\ drift = FALSE

Goto(r, l) == pc' = [pc EXCEPT ![r] = l]

\* The request leaves the queue of its file.
Drop(r) == writer' = [f \in Files |-> IF writer[f] = r THEN NoRequest ELSE writer[f]]

\* The handler goes on at l; at "done" it has answered.
Proceed(r, l) ==
  /\ Goto(r, l)
  /\ IF l = "done" THEN Drop(r) ELSE UNCHANGED writer
-----------------------------------------------------------------------------
Busy == \E r \in Requests : pc[r] \notin {"new", "done"}

\* The handlers of a running server.
Arrive(r, p, m, f, n) ==
  /\ pc[r] = "new"
  /\ admin.at \in {"scan", "save"} => Reconcile = "online"
  /\ m = "DELETE" => n = CHOOSE s \in Sizes : TRUE
  /\ req' = [req EXCEPT ![r] = [method |-> m, proc |-> p, file |-> f, len |-> n]]
  /\ Goto(r, "start")
  /\ UNCHANGED <<diskVars, quota, writer, podLock, change, loaded, restVars>>

\* Under the resource lock: stat, then what the method makes of it. PUT and PATCH
\* create a file that is not there; PATCH asks for no room either way.
BeginWrite(r) ==
  LET q == req[r]
      growth == q.len - size[q.file]
  IN
  /\ pc[r] = "start"
  /\ q.method \in {"PUT", "PATCH"}
  /\ writer[q.file] = NoRequest
  /\ writer' = [writer EXCEPT ![q.file] = r]
  /\ change' = [change EXCEPT ![r] = growth]
  /\ Goto(r, IF q.method = "PUT" /\ growth > 0 THEN "reserve" ELSE "write")
  /\ UNCHANGED <<diskVars, quota, podLock, req, loaded, restVars>>

\* POST writes under a name that nobody has.
BeginPost(r) ==
  LET q == req[r] IN
  /\ pc[r] = "start"
  /\ q.method = "POST"
  /\ q.file \notin files
  /\ writer[q.file] = NoRequest
  /\ writer' = [writer EXCEPT ![q.file] = r]
  /\ change' = [change EXCEPT ![r] = q.len]
  /\ Goto(r, "reserve")
  /\ UNCHANGED <<diskVars, quota, podLock, req, loaded, restVars>>

BeginDelete(r) ==
  LET q == req[r] IN
  /\ pc[r] = "start"
  /\ q.method = "DELETE"
  /\ writer[q.file] = NoRequest
  /\ q.file \in files
  /\ writer' = [writer EXCEPT ![q.file] = r]
  /\ change' = [change EXCEPT ![r] = - size[q.file]]
  /\ Goto(r, "unlink")
  /\ UNCHANGED <<diskVars, quota, podLock, req, loaded, restVars>>

\* A request that comes to nothing: 404, 409 or 412, or for a POST a name that is
\* taken; the quota is not involved.
NothingToDo(r) ==
  /\ pc[r] = "start"
  /\ req[r].method = "POST" => req[r].file \in files
  /\ Proceed(r, "done")
  /\ UNCHANGED <<diskVars, quota, podLock, req, change, loaded, restVars>>

\* Variant: the load does not wait for the pod lock.
LoadUnlocked(r) ==
  LET p == req[r].proc IN
  /\ pc[r] \in {"reserve", "update"}
  /\ podLock' = [podLock EXCEPT ![p] = r]
  /\ loaded' = [loaded EXCEPT ![r] = quota]
  /\ Goto(r, IF pc[r] = "reserve" THEN "reserving" ELSE "updating")
  /\ UNCHANGED <<diskVars, quota, writer, req, change, restVars>>

\* withPodLock lets the request in, which loads the quota.
Load(r) ==
  LET p == req[r].proc IN
  /\ pc[r] \in {"reserve", "update"}
  /\ podLock[p] = NoRequest
  /\ podLock' = [podLock EXCEPT ![p] = r]
  /\ loaded' = [loaded EXCEPT ![r] = quota]
  /\ Goto(r, IF pc[r] = "reserve" THEN "reserving" ELSE "updating")
  /\ UNCHANGED <<diskVars, quota, writer, req, change, restVars>>

Unlock(r) == podLock' = [p \in Procs |-> IF podLock[p] = r THEN NoRequest ELSE podLock[p]]

\* reserveQuota fills in the default limit on first use.
Limited(q) == IF q.limit = 0 THEN [q EXCEPT !.limit = DefaultQuota] ELSE q

NonNegative(n) == IF n < 0 THEN 0 ELSE n

\* Variant: the usage before the write is compared with the limit.
ReserveBeforehand(r) ==
  LET q == Limited(loaded[r])
      projected == q.used + change[r]
  IN
  /\ pc[r] = "reserving"
  /\ change[r] > 0 => q.used <= q.limit
  /\ quota' = [q EXCEPT !.used = NonNegative(projected)]
  /\ Unlock(r)
  /\ Goto(r, "write")
  /\ UNCHANGED <<diskVars, writer, req, change, loaded, restVars>>

\* reserveQuota: the projected usage fits and is saved.
Reserve(r) ==
  LET q == Limited(loaded[r])
      projected == q.used + change[r]
  IN
  /\ pc[r] = "reserving"
  /\ change[r] > 0 => projected <= q.limit
  /\ quota' = [q EXCEPT !.used = NonNegative(projected)]
  /\ Unlock(r)
  /\ Goto(r, "write")
  /\ UNCHANGED <<diskVars, writer, req, change, loaded, restVars>>

\* reserveQuota: it does not fit; the handler answers 507.
Refuse(r) ==
  LET q == Limited(loaded[r]) IN
  /\ pc[r] = "reserving"
  /\ change[r] > 0
  /\ q.used + change[r] > q.limit
  /\ Unlock(r)
  /\ Proceed(r, "done")
  /\ UNCHANGED <<diskVars, quota, req, change, loaded, restVars>>

\* updateQuotaUsage; a pod without a limit is not accounted.
Update(r) ==
  LET q == loaded[r]
      used == q.used + change[r]
  IN
  /\ pc[r] = "updating"
  /\ quota' = IF q.limit = 0 THEN quota ELSE [q EXCEPT !.used = NonNegative(used)]
  /\ Unlock(r)
  /\ Proceed(r, "done")
  /\ drift' = (drift \/ q.limit = 0 \/ used < 0)
  /\ UNCHANGED <<diskVars, req, change, loaded, admin, crashes, untracked, unreserved>>

\* saveQuota throws: a reservation is refused with 500, an update is missed.
SaveFails(r) ==
  /\ pc[r] \in {"reserving", "updating"}
  /\ Unlock(r)
  /\ Proceed(r, "done")
  /\ drift' = (drift \/ pc[r] = "updating")
  /\ UNCHANGED <<diskVars, quota, req, change, loaded, admin, crashes, untracked, unreserved>>

\* storage.write: the file is opened and emptied, then filled.
Open(r) ==
  /\ pc[r] = "write"
  /\ size' = [size EXCEPT ![req[r].file] = 0]
  /\ files' = files \cup {req[r].file}
  /\ Goto(r, "fill")
  /\ UNCHANGED <<quota, writer, podLock, req, change, loaded, restVars>>

\* Only a PUT that shrinks the file has something left to record; PATCH records
\* nothing at all.
Fill(r) ==
  /\ pc[r] = "fill"
  /\ size' = [size EXCEPT ![req[r].file] = req[r].len]
  /\ Proceed(r, IF req[r].method = "PUT" /\ change[r] < 0 THEN "update" ELSE "done")
  /\ IF req[r].method = "PATCH"
     THEN /\ untracked' = untracked + change[r]
          /\ unreserved' = unreserved + NonNegative(change[r])
     ELSE UNCHANGED <<untracked, unreserved>>
  /\ UNCHANGED <<files, quota, podLock, req, change, loaded, admin, crashes, drift>>

\* storage.write fails, before or after it has emptied the file. A reservation is
\* released: PUT made one for growth, POST always.
HasReserved(r) == \/ req[r].method = "PUT" /\ change[r] > 0
                  \/ req[r].method = "POST"

\* Variant: a failed write does not give back its reservation.
WriteFailsLeaking(r) ==
  /\ \/ pc[r] = "write" /\ UNCHANGED drift
     \/ pc[r] = "fill" /\ MayTruncate /\ drift' = TRUE
  /\ Proceed(r, "done")
  /\ UNCHANGED <<diskVars, quota, podLock, req, change, loaded, admin, crashes, untracked, unreserved>>

WriteFails(r) ==
  /\ \/ pc[r] = "write" /\ UNCHANGED drift
     \/ pc[r] = "fill" /\ MayTruncate /\ drift' = TRUE
  /\ IF HasReserved(r)
     THEN /\ Proceed(r, "update")
          /\ change' = [change EXCEPT ![r] = - change[r]]
     ELSE Proceed(r, "done") /\ UNCHANGED change
  /\ UNCHANGED <<diskVars, quota, podLock, req, loaded, admin, crashes, untracked, unreserved>>

\* DELETE removes the file, and records its size if it had one.
Unlink(r) ==
  /\ pc[r] = "unlink"
  /\ size' = [size EXCEPT ![req[r].file] = 0]
  /\ files' = files \ {req[r].file}
  /\ Proceed(r, IF change[r] < 0 THEN "update" ELSE "done")
  /\ UNCHANGED <<quota, podLock, req, change, loaded, restVars>>

UnlinkFails(r) ==
  /\ pc[r] = "unlink"
  /\ Proceed(r, "done")
  /\ UNCHANGED <<diskVars, quota, podLock, req, change, loaded, restVars>>

\* A process dies and is started again; its requests and its pod locks are gone.
Crash(p) ==
  LET lost == {r \in Requests : pc[r] \notin {"new", "done"} /\ req[r].proc = p} IN
  /\ crashes < MaxCrashes
  /\ lost # {}
  /\ pc' = [r \in Requests |-> IF r \in lost THEN "done" ELSE pc[r]]
  /\ writer' = [f \in Files |-> IF writer[f] \in lost THEN NoRequest ELSE writer[f]]
  /\ podLock' = [podLock EXCEPT ![p] = NoRequest]
  /\ crashes' = crashes + 1
  /\ drift' = TRUE
  /\ UNCHANGED <<diskVars, quota, req, change, loaded, admin, untracked, unreserved>>
-----------------------------------------------------------------------------
\* calculatePodSize: the bytes of all files.
Disk == FoldFunction(+, 0, size)

\* reconcileQuota: load, add up the files, save; without a lock.
ReconcileLoad ==
  /\ admin.at = "idle"
  /\ Reconcile # "never"
  /\ Reconcile = "offline" => ~ Busy
  /\ admin' = [at |-> IF quota.limit = 0 THEN "done" ELSE "scan", quota |-> quota]
  /\ UNCHANGED <<diskVars, quota, requestVars, crashes, untracked, unreserved, drift>>

ReconcileScan ==
  /\ admin.at = "scan"
  /\ admin' = [at |-> "save", quota |-> [admin.quota EXCEPT !.used = Disk]]
  /\ UNCHANGED <<diskVars, quota, requestVars, crashes, untracked, unreserved, drift>>

ReconcileSave ==
  /\ admin.at = "save"
  /\ quota' = admin.quota
  /\ admin' = [admin EXCEPT !.at = "done"]
  /\ untracked' = 0
  /\ drift' = FALSE
  /\ UNCHANGED <<diskVars, requestVars, crashes, unreserved>>

Handle(r) ==
  \/ BeginWrite(r) \/ BeginPost(r) \/ BeginDelete(r) \/ NothingToDo(r)
  \/ Load(r) \/ Reserve(r) \/ Refuse(r) \/ Update(r) \/ SaveFails(r)
  \/ Open(r) \/ Fill(r) \/ WriteFails(r)
  \/ Unlink(r) \/ UnlinkFails(r)

Next ==
  \/ \E r \in Requests :
       \/ Handle(r)
       \/ \E p \in Procs, m \in Methods, f \in Files, n \in Sizes : Arrive(r, p, m, f, n)
  \/ \E p \in Procs : Crash(p)
  \/ ReconcileLoad \/ ReconcileScan \/ ReconcileSave

Spec == Init /\ [][Next]_vars
-----------------------------------------------------------------------------
\* However requests overlap, fail or die half way, the files never take more room
\* than the account says, apart from what was never accounted: a mistake is always on
\* the safe side.
NeverUndercounted == quota.limit > 0 => Disk <= quota.used + untracked

\* Apart from what was written without asking, the files of a pod never outgrow its
\* limit, however many writers pass the check at once (507 otherwise).
WithinLimit == quota.limit > 0 => Disk <= quota.limit + unreserved

\* Nothing is leaked: when no request is under way and none has been cut short,
\* the account equals the files, but for what PATCHes have added or taken away, so
\* every reservation was used or given back; and reconciling makes it so again after
\* it has drifted. A DELETE that takes more off than is in the account (a file that
\* PATCH made, or one older than the quota) is such a drift.
ExactWhenQuiet ==
  ~ Busy /\ ~ drift /\ quota.limit > 0 => Disk = quota.used + untracked

\* No update of .quota.json is lost: what a request saves is based on what the
\* file holds at that moment.
NoLostQuotaUpdate ==
  [][\A r \in Requests : Reserve(r) \/ Update(r) => loaded[r] = quota]_vars

\* The account is never below what is on the disk, nor that above the limit, through
\* concurrent writers, failures half way and crashes (but for what asked nobody).
QuotaSafe == TypeOK /\ NeverUndercounted /\ WithinLimit
=============================================================================
