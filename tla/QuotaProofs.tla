---------------------------- MODULE QuotaProofs ----------------------------
(***************************************************************************)
(* Theorems about Quota, checked by TLAPS: no update of the account is     *)
(* lost, the types, the account is never below the disk nor above the      *)
(* limit, and nothing leaks.                                               *)
(***************************************************************************)
EXTENDS Quota, Sums
-----------------------------------------------------------------------------
(* The pod lock. *)

\* The server is one process, and nobody reconciles while it runs.
OneWriter == /\ \A p, q \in Procs : p = q
             /\ Reconcile # "online"

InQuota(r) == pc[r] \in {"reserving", "updating"}

\* Who is between the load and the save holds the pod lock of the one process,
\* so nobody has saved since it loaded, and no reconcile is going on.
QuotaInv ==
  /\ pc \in [Requests -> Locations]
  /\ podLock \in [Procs -> Requests \cup {NoRequest}]
  /\ DOMAIN loaded = Requests
  /\ DOMAIN req = Requests
  /\ \A r \in Requests : pc[r] # "new" => req[r].proc \in Procs
  /\ \A r \in Requests : InQuota(r) => /\ podLock[req[r].proc] = r
                                       /\ loaded[r] = quota
  /\ admin.at \in {"scan", "save"} => ~ Busy

USE DEF InQuota

LEMMA QuotaInit == Init => QuotaInv
<1>1. Init => /\ pc = [r \in Requests |-> "new"]
              /\ podLock = [p \in Procs |-> NoRequest]
              /\ loaded = [r \in Requests |-> NoQuota]
              /\ req = [r \in Requests |-> NoReq]
              /\ admin.at = "idle"
  <2>1. Init => admin = [at |-> "idle", quota |-> NoQuota]
    BY Zenon DEF Init
  <2>2. Init => /\ pc = [r \in Requests |-> "new"]
                /\ podLock = [p \in Procs |-> NoRequest]
                /\ loaded = [r \in Requests |-> NoQuota]
                /\ req = [r \in Requests |-> NoReq]
    BY Zenon DEF Init
  <2> QED
    BY <2>1, <2>2
<1> QED
  BY <1>1 DEF QuotaInv, Locations

\* A step of one request that only moves it on: pc, and perhaps who writes a file.
LEMMA Moves ==
  ASSUME OneWriter, QuotaInv, NEW r \in Requests, NEW l \in Locations,
         pc[r] # "new", pc[r] # "done", l \notin {"new", "reserving", "updating"},
         Goto(r, l), podLock' = podLock \/ Unlock(r),
         quota' = quota \/ podLock[req[r].proc] = r,
         UNCHANGED <<req, loaded, admin>>
  PROVE  QuotaInv'
<1>1. pc' \in [Requests -> Locations]
  BY DEF QuotaInv, Goto
<1>2. podLock' \in [Procs -> Requests \cup {NoRequest}]
  BY DEF QuotaInv, Unlock
<1>3. ASSUME NEW s \in Requests, pc'[s] # "new"
      PROVE  req'[s].proc \in Procs
  BY <1>3 DEF QuotaInv, Goto
<1>4. ASSUME NEW s \in Requests, InQuota(s)'
      PROVE  podLock'[req'[s].proc] = s /\ loaded'[s] = quota'
  <2>1. s # r /\ InQuota(s)
    BY <1>4 DEF QuotaInv, Goto
  <2>2. podLock[req[s].proc] = s /\ loaded[s] = quota /\ req[s].proc \in Procs
    BY <2>1 DEF QuotaInv
  <2>3. req[r].proc = req[s].proc
    BY <2>2 DEF QuotaInv, OneWriter
  <2>4. quota' = quota
    BY <2>1, <2>2, <2>3
  <2> QED
    BY <2>1, <2>2, <2>4 DEF Unlock
<1>5. ~ (admin.at \in {"scan", "save"})
  BY DEF QuotaInv, Busy
<1> QED
  BY <1>1, <1>2, <1>3, <1>4, <1>5 DEF QuotaInv

LEMMA ArrivePreserves ==
  ASSUME OneWriter, QuotaInv, QuotaAssumption, NEW r \in Requests, NEW p \in Procs,
         NEW m, NEW f, NEW n, Arrive(r, p, m, f, n)
  PROVE  QuotaInv'
<1>1. pc' = [pc EXCEPT ![r] = "start"] /\ pc[r] = "new"
  BY DEF Arrive, Goto
<1>2. ~ (admin'.at \in {"scan", "save"})
  BY DEF Arrive, OneWriter, restVars
<1>3. req' = [req EXCEPT ![r] = [method |-> m, proc |-> p, file |-> f, len |-> n]]
  BY DEF Arrive
<1>4. ASSUME NEW s \in Requests, InQuota(s)'
      PROVE  podLock'[req'[s].proc] = s /\ loaded'[s] = quota'
  BY <1>1, <1>3, <1>4 DEF QuotaInv, Arrive
<1> QED
  BY <1>1, <1>2, <1>3, <1>4 DEF QuotaInv, Arrive, Locations

LEMMA LoadPreserves ==
  ASSUME OneWriter, QuotaInv, QuotaAssumption, NEW r \in Requests, Load(r)
  PROVE  QuotaInv'
<1>1. req[r].proc \in Procs /\ podLock[req[r].proc] = NoRequest
  BY DEF Load, QuotaInv
<1>2. ASSUME NEW s \in Requests
      PROVE  ~ InQuota(s)
  BY <1>1 DEF QuotaInv, OneWriter, QuotaAssumption
<1>3. ~ (admin.at \in {"scan", "save"})
  BY DEF QuotaInv, Busy, Load
<1> QED
  BY <1>1, <1>2, <1>3 DEF QuotaInv, Load, Goto, Locations, restVars

LEMMA CrashPreserves ==
  ASSUME OneWriter, QuotaInv, NEW p \in Procs, Crash(p)
  PROVE  QuotaInv'
<1> DEFINE lost == {r \in Requests : pc[r] \notin {"new", "done"} /\ req[r].proc = p}
<1>1. pc' = [r \in Requests |-> IF r \in lost THEN "done" ELSE pc[r]]
  BY DEF Crash
<1>2. ASSUME NEW s \in Requests
      PROVE  ~ InQuota(s)'
  BY <1>1 DEF QuotaInv, OneWriter
<1>3. ~ (admin.at \in {"scan", "save"})
  BY DEF Crash, QuotaInv, Busy
<1> QED
  BY <1>1, <1>2, <1>3 DEF QuotaInv, Crash, Locations

LEMMA ReconcilePreserves ==
  ASSUME OneWriter, QuotaInv, ReconcileLoad \/ ReconcileScan \/ ReconcileSave
  PROVE  QuotaInv'
<1>1. CASE ReconcileLoad
  BY <1>1, QuotaAssumption DEF ReconcileLoad, QuotaInv, OneWriter, QuotaAssumption, Busy, requestVars
<1>2. CASE ReconcileScan
  BY <1>2 DEF ReconcileScan, QuotaInv, Busy, requestVars
<1>3. CASE ReconcileSave
  BY <1>3 DEF ReconcileSave, QuotaInv, Busy, requestVars
<1> QED
  BY <1>1, <1>2, <1>3

LEMMA HandlePreserves ==
  ASSUME OneWriter, QuotaInv, NEW r \in Requests, Handle(r), ~ Load(r)
  PROVE  QuotaInv'
<1> USE DEF Proceed, Locations, restVars
<1>1. CASE BeginWrite(r)
  BY <1>1, Moves DEF BeginWrite
<1>2. CASE BeginPost(r)
  BY <1>2, Moves DEF BeginPost
<1>3. CASE BeginDelete(r)
  BY <1>3, Moves DEF BeginDelete
<1>4. CASE NothingToDo(r)
  BY <1>4, Moves DEF NothingToDo
<1>5. CASE Reserve(r)
  BY <1>5, Moves DEF Reserve, QuotaInv
<1>6. CASE Refuse(r)
  BY <1>6, Moves DEF Refuse
<1>7. CASE Update(r)
  BY <1>7, Moves DEF Update, QuotaInv
<1>8. CASE Open(r)
  BY <1>8, Moves DEF Open
<1>9. CASE Fill(r)
  BY <1>9, Moves DEF Fill
<1>10. CASE WriteFails(r)
  <2>1. pc[r] \in {"write", "fill"}
    BY <1>10 DEF WriteFails
  <2>2. UNCHANGED <<quota, podLock, req, loaded, admin>>
    BY <1>10 DEF WriteFails
  <2>3. Goto(r, "update") \/ Goto(r, "done")
    BY <1>10 DEF WriteFails
  <2> QED
    BY <2>1, <2>2, <2>3, Moves
<1>11. CASE Unlink(r)
  BY <1>11, Moves DEF Unlink
<1>12. CASE UnlinkFails(r)
  BY <1>12, Moves DEF UnlinkFails
<1>13. CASE SaveFails(r)
  BY <1>13, Moves DEF SaveFails
<1> QED
  BY <1>1, <1>2, <1>3, <1>4, <1>5, <1>6, <1>7, <1>8, <1>9, <1>10, <1>11, <1>12, <1>13 DEF Handle

LEMMA QuotaStep == ASSUME OneWriter PROVE QuotaInv /\ [Next]_vars => QuotaInv'
<1> SUFFICES ASSUME QuotaInv, [Next]_vars PROVE QuotaInv'
  OBVIOUS
<1>1. CASE UNCHANGED vars
  BY <1>1 DEF vars, QuotaInv, Busy
<1>2. ASSUME NEW r \in Requests, Handle(r) PROVE QuotaInv'
  BY <1>2, HandlePreserves, LoadPreserves, QuotaAssumption
<1>3. ASSUME NEW r \in Requests, NEW p \in Procs, NEW m, NEW f, NEW n, Arrive(r, p, m, f, n)
      PROVE  QuotaInv'
  BY <1>3, ArrivePreserves, QuotaAssumption
<1>4. ASSUME NEW p \in Procs, Crash(p) PROVE QuotaInv'
  BY <1>4, CrashPreserves
<1>5. CASE ReconcileLoad \/ ReconcileScan \/ ReconcileSave
  BY <1>5, ReconcilePreserves
<1> QED
  BY <1>1, <1>2, <1>3, <1>4, <1>5 DEF Next

LEMMA SavesWhatItLoaded ==
  QuotaInv => \A r \in Requests : Reserve(r) \/ Update(r) => loaded[r] = quota
BY DEF QuotaInv, Reserve, Update

\* With one server process, and no reconcile while it runs, no update of
\* .quota.json is lost, for any number of requests, files and crashes: withPodLock
\* makes load and save one step.
THEOREM NoLostQuotaUpdateTheorem ==
  ASSUME OneWriter
  PROVE  Spec => NoLostQuotaUpdate
<1>1. QuotaInv /\ [Next]_vars => QuotaInv'
  BY QuotaStep
<1>2. QuotaInv /\ [Next]_vars
        => [\A r \in Requests : Reserve(r) \/ Update(r) => loaded[r] = quota]_vars
  BY SavesWhatItLoaded
<1> QED
  BY <1>1, <1>2, QuotaInit, PTL DEF Spec, NoLostQuotaUpdate
-----------------------------------------------------------------------------
(* The files and who writes them. *)

Asked == [method : Methods, proc : Procs, file : Files, len : Sizes]

\* What is known of a request that works on a file.
InFile(r) == pc[r] \in {"reserve", "reserving", "write", "fill", "unlink", "update", "updating"}
HasFile(r) ==
  LET f == req[r].file
      n == req[r].len IN
  /\ InFile(r) => writer[f] = r
  /\ pc[r] \in {"reserve", "reserving"} => req[r].method \in {"PUT", "POST"} /\ HasReserved(r)
  /\ pc[r] \in {"reserve", "reserving", "write"} => change[r] = n - size[f]
  /\ pc[r] \in {"reserve", "reserving", "write"} /\ req[r].method = "POST" => size[f] = 0
  /\ pc[r] = "fill" =>
       /\ size[f] = 0 /\ f \in files /\ change[r] <= n
       /\ req[r].method = "POST" => change[r] = n
  /\ pc[r] = "unlink" => change[r] = - size[f]
  /\ pc[r] \in {"write", "fill"} => req[r].method # "DELETE"
  /\ pc[r] \in {"update", "updating"} => change[r] <= 0

WriterInv == TypeOK /\ \A r \in Requests : HasFile(r)

\* The types as the provers like them: the sets of functions, the record sets, the rest.
LEMMA QuotaTypes ==
  ASSUME TypeOK
  PROVE  /\ size \in [Files -> Nat] /\ files \subseteq Files
         /\ writer \in [Files -> Requests \cup {NoRequest}]
         /\ podLock \in [Procs -> Requests \cup {NoRequest}]
         /\ pc \in [Requests -> Locations] /\ change \in [Requests -> Int]
         /\ req \in [Requests -> Asked \cup {NoReq}] /\ loaded \in [Requests -> Quotas]
         /\ quota \in Quotas /\ untracked \in Int /\ unreserved \in Nat
         /\ \A r \in Requests : (req[r] = NoReq) <=> (pc[r] = "new")
         /\ \A f \in Files \ files : size[f] = 0
BY DEF TypeOK, Asked

LEMMA AskedTypes ==
  ASSUME TypeOK, NEW r \in Requests, pc[r] # "new"
  PROVE  /\ req[r] \in Asked /\ req[r].method \in Methods /\ req[r].proc \in Procs
         /\ req[r].file \in Files /\ req[r].len \in Nat
<1>1. req[r] \in Asked
  BY QuotaTypes
<1>. QED
  BY <1>1, QuotaAssumption DEF Asked

\* A step of one request that has no file but its own.
LEMMA OthersKeepFiles ==
  ASSUME WriterInv, NEW r \in Requests,
         \A s \in Requests \ {r} : pc'[s] = pc[s] /\ req'[s] = req[s] /\ change'[s] = change[s],
         \A f \in Files : writer[f] \in Requests \ {r} =>
           writer'[f] = writer[f] /\ size'[f] = size[f] /\ (f \in files => f \in files')
  PROVE  \A s \in Requests \ {r} : HasFile(s)'
<1>. SUFFICES ASSUME NEW s \in Requests \ {r} PROVE HasFile(s)'
  OBVIOUS
<1>0. HasFile(s) /\ pc'[s] = pc[s] /\ req'[s] = req[s] /\ change'[s] = change[s]
  BY DEF WriterInv
<1>1. CASE ~ InFile(s)
  BY <1>0, <1>1 DEF HasFile, InFile
<1>2. CASE InFile(s)
  <2>1. req[s].file \in Files /\ writer[req[s].file] = s
    BY <1>0, <1>2, AskedTypes DEF WriterInv, HasFile, InFile
  <2>2. /\ writer'[req[s].file] = s /\ size'[req[s].file] = size[req[s].file]
        /\ req[s].file \in files => req[s].file \in files'
    BY <2>1
  <2>. QED
    BY <1>0, <2>2 DEF HasFile, InFile, HasReserved
<1>. QED
  BY <1>1, <1>2

USE QuotaAssumption

\* What Proceed and Drop do to the files of the others.
LEMMA DropKeeps ==
  ASSUME TypeOK, NEW r \in Requests, writer' = writer \/ Drop(r)
  PROVE  /\ \A f \in Files : writer[f] \in Requests \ {r} => writer'[f] = writer[f]
         /\ writer' \in [Files -> Requests \cup {NoRequest}]
BY QuotaTypes DEF Drop

\* The types after a step of one request.
LEMMA RequestTypes ==
  ASSUME TypeOK, NEW r \in Requests, NEW l \in Locations \ {"new"}, Goto(r, l), pc[r] # "new",
         size' \in [Files -> Nat], files' \subseteq Files, \A f \in Files \ files' : size'[f] = 0,
         quota' \in Quotas,
         writer' \in [Files -> Requests \cup {NoRequest}],
         podLock' \in [Procs -> Requests \cup {NoRequest}],
         UNCHANGED <<req, admin, crashes>>, change' \in [Requests -> Int], loaded' \in [Requests -> Quotas],
         untracked' \in Int, unreserved' \in Nat, drift' \in BOOLEAN
  PROVE  TypeOK'
<1>1. pc' \in [Requests -> Locations]
  BY QuotaTypes DEF Goto
<1>2. \A s \in Requests : (req'[s] = NoReq) <=> (pc'[s] = "new")
  BY QuotaTypes DEF Goto
<1>3. req' \in [Requests -> [method : Methods, proc : Procs, file : Files, len : Sizes] \cup {NoReq}]
      /\ admin' \in [at : {"idle", "scan", "save", "done"}, quota : Quotas] /\ crashes' \in 0 .. MaxCrashes
  BY DEF TypeOK
<1>. QED
  BY <1>1, <1>2, <1>3 DEF TypeOK

\* A request begins, waits for nothing but its file, and then has it.
LEMMA BeginFiles ==
  ASSUME WriterInv, NEW r \in Requests, BeginWrite(r) \/ BeginPost(r) \/ BeginDelete(r)
  PROVE  WriterInv'
<1>0. TypeOK /\ pc[r] = "start" /\ req[r].file \in Files /\ req[r].len \in Nat /\ writer[req[r].file] = NoRequest
      /\ size[req[r].file] \in Nat
  BY AskedTypes, QuotaTypes DEF WriterInv, BeginWrite, BeginPost, BeginDelete
<1>1. PICK f : f = req[r].file
  OBVIOUS
<1>2. PICK l : l \in {"reserve", "write", "unlink"} /\ Goto(r, l)
               /\ (l = "reserve" => BeginPost(r) \/ (BeginWrite(r) /\ req[r].method = "PUT" /\ change'[r] > 0))
               /\ (l = "write" => BeginWrite(r)) /\ (l = "unlink" => BeginDelete(r))
  BY <1>0, QuotaTypes DEF BeginWrite, BeginPost, BeginDelete
<1>3. /\ writer' = [writer EXCEPT ![f] = r]
      /\ change' = [change EXCEPT ![r] = IF BeginWrite(r) THEN req[r].len - size[f]
                                         ELSE IF BeginPost(r) THEN req[r].len ELSE - size[f]]
      /\ UNCHANGED <<size, files, quota, podLock, req, loaded, admin, crashes, untracked, unreserved, drift>>
  BY <1>0, <1>1 DEF BeginWrite, BeginPost, BeginDelete, diskVars, restVars
<1>4. change'[r] = (IF BeginWrite(r) THEN req[r].len - size[f]
                    ELSE IF BeginPost(r) THEN req[r].len ELSE - size[f])
      /\ change' \in [Requests -> Int] /\ writer'[f] = r /\ pc'[r] = l
      /\ writer' \in [Files -> Requests \cup {NoRequest}]
  BY <1>0, <1>1, <1>2, <1>3, QuotaTypes DEF Goto
<1>5. BeginPost(r) => size[f] = 0 /\ req[r].method = "POST"
  BY <1>0, <1>1, QuotaTypes DEF BeginPost
<1>55. BeginWrite(r) => req[r].method \in {"PUT", "PATCH"}
  BY DEF BeginWrite
<1>6. HasFile(r)'
  <2>. USE <1>0, <1>1, <1>2, <1>3, <1>4, <1>5, <1>55
  <2>1. CASE l = "reserve"
    BY <2>1 DEF HasFile, InFile, HasReserved
  <2>2. CASE l = "write"
    BY <2>2 DEF HasFile, InFile, HasReserved
  <2>3. CASE l = "unlink"
    <3>1. ~ BeginWrite(r) /\ ~ BeginPost(r)
      BY <2>3 DEF BeginWrite, BeginPost, BeginDelete
    <3>. QED
      BY <2>3, <3>1 DEF HasFile, InFile, HasReserved
  <2>. QED
    BY <2>1, <2>2, <2>3
<1>7. TypeOK'
  <2>1. drift' \in BOOLEAN
    BY <1>0, <1>3 DEF TypeOK
  <2>2. l \in Locations \ {"new"}
    BY <1>2 DEF Locations
  <2>. QED
    BY <1>0, <1>2, <1>3, <1>4, <2>1, <2>2, QuotaTypes, RequestTypes
<1>8. \A s \in Requests \ {r} : HasFile(s)'
  <2>1. \A s \in Requests \ {r} : pc'[s] = pc[s] /\ req'[s] = req[s] /\ change'[s] = change[s]
    BY <1>0, <1>2, <1>3, QuotaTypes DEF Goto
  <2>2. \A g \in Files : writer[g] \in Requests \ {r} => writer'[g] = writer[g]
    BY <1>0, <1>1, <1>3, QuotaTypes
  <2>. QED
    BY <1>3, <2>1, <2>2, OthersKeepFiles
<1>. QED
  BY <1>6, <1>7, <1>8 DEF WriterInv

\* A step with the pod lock: nothing on the disk changes.
LEMMA LockFiles ==
  ASSUME WriterInv, NEW r \in Requests,
         NothingToDo(r) \/ Load(r) \/ Reserve(r) \/ Refuse(r) \/ Update(r) \/ SaveFails(r)
  PROVE  WriterInv'
<1>0. TypeOK /\ HasFile(r) /\ change[r] \in Int
  BY QuotaTypes DEF WriterInv
<1>1. /\ UNCHANGED <<size, files, req, change, admin, crashes, untracked, unreserved>>
      /\ pc[r] # "new"
  BY DEF NothingToDo, Load, Reserve, Refuse, Update, SaveFails, diskVars, restVars
<1>2. writer' = writer \/ Drop(r)
  BY <1>0 DEF NothingToDo, Load, Reserve, Refuse, Update, SaveFails, Proceed
<1>3. podLock' \in [Procs -> Requests \cup {NoRequest}] /\ loaded' \in [Requests -> Quotas]
  BY <1>0, QuotaTypes DEF NothingToDo, Load, Reserve, Refuse, Update, SaveFails, Unlock
<1>4. quota' \in Quotas
  <2>1. CASE Reserve(r)
    <3>1. Limited(loaded[r]) \in Quotas
      BY <1>0, QuotaTypes DEF Limited, Quotas
    <3>2. quota' = [Limited(loaded[r]) EXCEPT !.used = NonNegative(Limited(loaded[r]).used + change[r])]
      BY <2>1 DEF Reserve
    <3>3. NonNegative(Limited(loaded[r]).used + change[r]) \in Nat
      BY <1>0, <3>1 DEF NonNegative, Quotas
    <3>. QED
      BY <3>1, <3>2, <3>3 DEF Quotas
  <2>2. CASE Update(r)
    <3>1. loaded[r] \in Quotas
      BY <1>0, QuotaTypes
    <3>2. quota' = IF loaded[r].limit = 0 THEN quota
                   ELSE [loaded[r] EXCEPT !.used = NonNegative(loaded[r].used + change[r])]
      BY <2>2 DEF Update
    <3>3. NonNegative(loaded[r].used + change[r]) \in Nat
      BY <1>0, <3>1 DEF NonNegative, Quotas
    <3>. QED
      BY <1>0, <3>1, <3>2, <3>3, QuotaTypes DEF Quotas
  <2>. QED
    BY <1>0, <2>1, <2>2, QuotaTypes DEF NothingToDo, Load, Refuse, SaveFails
<1>5. PICK l \in Locations \ {"new"} :
        /\ Goto(r, l)
        /\ \/ l = "done"
           \/ l = "reserving" /\ pc[r] = "reserve" /\ writer' = writer
           \/ l = "updating" /\ pc[r] = "update" /\ writer' = writer
           \/ l = "write" /\ pc[r] = "reserving" /\ writer' = writer
  BY DEF NothingToDo, Load, Reserve, Refuse, Update, SaveFails, Proceed, Locations
<1>6. HasFile(r)'
  <2>1. pc'[r] = l
    BY <1>0, <1>5, QuotaTypes DEF Goto
  <2>2. CASE l = "done"
    BY <2>1, <2>2 DEF HasFile, InFile
  <2>3. CASE l # "done"
    BY <1>0, <1>1, <1>5, <2>1, <2>3 DEF HasFile, InFile, HasReserved
  <2>. QED
    BY <2>2, <2>3
<1>7. TypeOK'
  <2>1. writer' \in [Files -> Requests \cup {NoRequest}]
    BY <1>0, <1>2, DropKeeps
  <2>2. size' \in [Files -> Nat] /\ files' \subseteq Files /\ (\A f \in Files \ files' : size'[f] = 0)
        /\ change' \in [Requests -> Int] /\ untracked' \in Int /\ unreserved' \in Nat
    BY <1>0, <1>1, QuotaTypes
  <2>3. drift' \in BOOLEAN
    BY <1>0 DEF NothingToDo, Load, Reserve, Refuse, Update, SaveFails, restVars, TypeOK
  <2>. QED
    BY <1>0, <1>1, <1>3, <1>4, <1>5, <2>1, <2>2, <2>3, RequestTypes
<1>8. \A s \in Requests \ {r} : HasFile(s)'
  <2>1. \A s \in Requests \ {r} : pc'[s] = pc[s]
    BY <1>0, <1>5, QuotaTypes DEF Goto
  <2>. QED
    BY <1>0, <1>1, <1>2, <2>1, DropKeeps, OthersKeepFiles
<1>. QED
  BY <1>6, <1>7, <1>8 DEF WriterInv

\* A step on the file itself.
LEMMA DiskFiles ==
  ASSUME WriterInv, NEW r \in Requests,
         Open(r) \/ Fill(r) \/ WriteFails(r) \/ Unlink(r) \/ UnlinkFails(r)
  PROVE  WriterInv'
<1>0. TypeOK /\ HasFile(r) /\ change[r] \in Int /\ pc[r] \in {"write", "fill", "unlink"} /\ InFile(r)
  BY QuotaTypes DEF WriterInv, Open, Fill, WriteFails, Unlink, UnlinkFails, InFile
<1>1. req[r].file \in Files /\ req[r].len \in Nat /\ writer[req[r].file] = r /\ size[req[r].file] \in Nat
  BY <1>0, AskedTypes, QuotaTypes DEF HasFile
<1>2. PICK f : f = req[r].file
  OBVIOUS
<1>3. UNCHANGED <<quota, podLock, req, loaded, admin, crashes>>
  BY DEF Open, Fill, WriteFails, Unlink, UnlinkFails, diskVars, restVars
<1>4. writer' = writer \/ Drop(r)
  BY DEF Open, Fill, WriteFails, Unlink, UnlinkFails, Proceed
<1>5. /\ \E n \in Nat : size' = [size EXCEPT ![f] = n]
      /\ \/ files' = files /\ (f \in files \/ size' = size)
         \/ files' = files \cup {f}
         \/ files' = files \ {f} /\ size'[f] = 0
  BY <1>0, <1>1, <1>2, QuotaTypes DEF Open, Fill, WriteFails, Unlink, UnlinkFails, diskVars, HasFile
<1>6. change' \in [Requests -> Int] /\ \A s \in Requests \ {r} : change'[s] = change[s]
  BY <1>0, QuotaTypes DEF Open, Fill, WriteFails, Unlink, UnlinkFails
<1>7. untracked' \in Int /\ unreserved' \in Nat
  BY <1>0, QuotaTypes DEF Open, Fill, WriteFails, Unlink, UnlinkFails, restVars, NonNegative
<1>8. drift' \in BOOLEAN
  BY <1>0 DEF Open, Fill, WriteFails, Unlink, UnlinkFails, restVars, TypeOK
<1>9. PICK l \in {"fill", "update", "done"} : Goto(r, l) /\ (l = "fill" => Open(r))
        /\ (l = "update" => writer' = writer /\ ~ Open(r) /\ ~ UnlinkFails(r))
  BY DEF Open, Fill, WriteFails, Unlink, UnlinkFails, Proceed
<1>10. HasFile(r)'
  <2>1. pc'[r] = l
    BY <1>0, <1>9, QuotaTypes DEF Goto
  <2>2. CASE l = "done"
    BY <2>1, <2>2 DEF HasFile, InFile
  <2>3. CASE l = "fill"
    <3>1. Open(r)
      BY <1>9, <2>3
    <3>2. pc[r] = "write" /\ size' = [size EXCEPT ![f] = 0] /\ files' = files \cup {f} /\ UNCHANGED <<change, writer>>
      BY <1>2, <3>1 DEF Open
    <3>3. change[r] = req[r].len - size[f] /\ (req[r].method = "POST" => size[f] = 0)
          /\ req[r].method # "DELETE"
      BY <1>0, <1>2, <3>2 DEF HasFile
    <3>4. size'[f] = 0
      BY <1>0, <1>1, <1>2, <3>2, QuotaTypes
    <3>. QED
      BY <1>1, <1>2, <1>3, <2>1, <2>3, <3>2, <3>3, <3>4 DEF HasFile, InFile
  <2>4. CASE l = "update"
    <3>1. change'[r] <= 0
      <4>1. CASE Fill(r)
        <5>1. change' = change
          BY <4>1 DEF Fill
        <5>2. change[r] < 0
          BY <1>0, <2>4, <2>1, <4>1, QuotaTypes DEF Fill, Proceed, Goto
        <5>. QED
          BY <1>0, <5>1, <5>2
      <4>2. CASE WriteFails(r)
        <5>1. HasReserved(r) /\ change' = [change EXCEPT ![r] = - change[r]] /\ pc[r] \in {"write", "fill"}
          BY <1>0, <2>4, <2>1, <4>2, QuotaTypes DEF WriteFails, Proceed, Goto
        <5>2. change[r] >= 0
          BY <1>0, <1>1, <5>1 DEF HasFile, HasReserved
        <5>. QED
          BY <1>0, <5>1, <5>2, QuotaTypes
      <4>3. CASE Unlink(r)
        <5>1. change' = change
          BY <4>3 DEF Unlink
        <5>2. change[r] < 0
          BY <1>0, <2>4, <2>1, <4>3, QuotaTypes DEF Unlink, Proceed, Goto
        <5>. QED
          BY <1>0, <5>1, <5>2
      <4>. QED
        BY <1>9, <2>4, <4>1, <4>2, <4>3
    <3>. QED
      BY <1>1, <1>3, <1>9, <2>1, <2>4, <3>1 DEF HasFile, InFile
  <2>. QED
    BY <1>9, <2>2, <2>3, <2>4
<1>11. TypeOK'
  <2>1. size' \in [Files -> Nat] /\ files' \subseteq Files /\ \A g \in Files \ files' : size'[g] = 0
    BY <1>0, <1>1, <1>2, <1>5, QuotaTypes
  <2>2. writer' \in [Files -> Requests \cup {NoRequest}]
    BY <1>0, <1>4, DropKeeps
  <2>3. l \in Locations \ {"new"} /\ quota' \in Quotas /\ loaded' \in [Requests -> Quotas]
        /\ podLock' \in [Procs -> Requests \cup {NoRequest}]
    BY <1>0, <1>3, <1>9, QuotaTypes DEF Locations
  <2>. QED
    BY <1>0, <1>3, <1>6, <1>7, <1>8, <1>9, <2>1, <2>2, <2>3, RequestTypes
<1>12. \A s \in Requests \ {r} : HasFile(s)'
  <2>1. \A s \in Requests \ {r} : pc'[s] = pc[s]
    BY <1>0, <1>9, QuotaTypes DEF Goto
  <2>2. \A g \in Files : writer[g] \in Requests \ {r} =>
           writer'[g] = writer[g] /\ size'[g] = size[g] /\ (g \in files => g \in files')
    BY <1>0, <1>1, <1>2, <1>4, <1>5, DropKeeps, QuotaTypes
  <2>. QED
    BY <1>3, <1>6, <2>1, <2>2, OthersKeepFiles
<1>. QED
  BY <1>10, <1>11, <1>12 DEF WriterInv

LEMMA ArriveFiles ==
  ASSUME WriterInv, NEW r \in Requests, NEW p \in Procs, NEW m \in Methods, NEW f \in Files,
         NEW n \in Sizes, Arrive(r, p, m, f, n)
  PROVE  WriterInv'
<1>0. TypeOK /\ pc[r] = "new"
  BY DEF WriterInv, Arrive
<1>1. /\ req' = [req EXCEPT ![r] = [method |-> m, proc |-> p, file |-> f, len |-> n]]
      /\ pc' = [pc EXCEPT ![r] = "start"]
      /\ UNCHANGED <<size, files, quota, writer, podLock, change, loaded, admin, crashes, untracked,
                     unreserved, drift>>
  BY DEF Arrive, Goto, diskVars, restVars
<1>2. [method |-> m, proc |-> p, file |-> f, len |-> n] \in Asked
      /\ [method |-> m, proc |-> p, file |-> f, len |-> n] # NoReq
  <2>1. NoReq.file = NoFile
    BY DEF NoReq
  <2>2. [method |-> m, proc |-> p, file |-> f, len |-> n].file = f
    OBVIOUS
  <2>. QED
    BY <2>1, <2>2 DEF Asked
<1>3. req' \in [Requests -> Asked \cup {NoReq}] /\ pc' \in [Requests -> Locations]
      /\ \A s \in Requests : (req'[s] = NoReq) <=> (pc'[s] = "new")
  BY <1>0, <1>1, <1>2, QuotaTypes DEF Locations
<1>4. TypeOK'
  BY <1>0, <1>1, <1>3 DEF TypeOK, Asked
<1>5. HasFile(r)'
  <2>1. pc'[r] = "start"
    BY <1>0, <1>1, QuotaTypes
  <2>. QED
    BY <2>1 DEF HasFile, InFile
<1>6. \A s \in Requests \ {r} : HasFile(s)'
  <2>1. \A s \in Requests \ {r} : pc'[s] = pc[s] /\ req'[s] = req[s] /\ change'[s] = change[s]
    BY <1>0, <1>1, QuotaTypes
  <2>. QED
    BY <1>1, <2>1, OthersKeepFiles
<1>. QED
  BY <1>4, <1>5, <1>6 DEF WriterInv

LEMMA CrashFiles == ASSUME WriterInv, NEW p \in Procs, Crash(p) PROVE WriterInv'
<1>0. TypeOK
  BY DEF WriterInv
<1>1. PICK lost \in SUBSET Requests : lost = {r \in Requests : pc[r] \notin {"new", "done"} /\ req[r].proc = p}
  OBVIOUS
<1>2. /\ pc' = [r \in Requests |-> IF r \in lost THEN "done" ELSE pc[r]]
      /\ writer' = [f \in Files |-> IF writer[f] \in lost THEN NoRequest ELSE writer[f]]
      /\ podLock' = [podLock EXCEPT ![p] = NoRequest] /\ crashes < MaxCrashes /\ crashes' = crashes + 1
      /\ UNCHANGED <<size, files, quota, req, change, loaded, admin, untracked, unreserved>>
  BY <1>1 DEF Crash, diskVars
<1>22. drift' \in BOOLEAN
  BY DEF Crash
<1>3. pc' \in [Requests -> Locations] /\ writer' \in [Files -> Requests \cup {NoRequest}]
      /\ podLock' \in [Procs -> Requests \cup {NoRequest}] /\ \A r \in lost : pc[r] # "new"
  BY <1>0, <1>1, <1>2, QuotaTypes DEF Locations
<1>4. crashes' \in 0 .. MaxCrashes
  BY <1>0, <1>2 DEF TypeOK
<1>5. TypeOK'
  BY <1>0, <1>2, <1>22, <1>3, <1>4 DEF TypeOK
<1>6. ASSUME NEW s \in Requests PROVE HasFile(s)'
  <2>1. CASE s \in lost
    <3>1. pc'[s] = "done"
      BY <1>2, <2>1
    <3>. QED
      BY <3>1 DEF HasFile, InFile
  <2>2. CASE s \notin lost
    <3>1. pc'[s] = pc[s] /\ HasFile(s)
      BY <1>2, <2>2 DEF WriterInv
    <3>2. InFile(s) => req[s].file \in Files
      BY <1>0, AskedTypes DEF InFile
    <3>3. InFile(s) => writer'[req[s].file] = s
      BY <1>2, <2>2, <3>1, <3>2 DEF HasFile
    <3>. QED
      BY <1>2, <3>1, <3>3 DEF HasFile, InFile, HasReserved
  <2>. QED
    BY <2>1, <2>2
<1>. QED
  BY <1>5, <1>6 DEF WriterInv

\* The bytes on the disk are a sum, and a natural.
LEMMA DiskIsSum ==
  ASSUME TypeOK PROVE Disk = SumFunctionOnSet(size, Files) /\ Disk \in Nat
<1>1. DOMAIN size = Files /\ \A f \in Files : size[f] \in Nat
  BY QuotaTypes
<1>2. Disk = SumFunctionOnSet(size, DOMAIN size)
  BY DEF Disk, FoldFunction, SumFunctionOnSet, FoldFunctionOnSet, MapThenFoldSet
<1>3. SumFunctionOnSet(size, Files) \in Nat
  BY <1>1, SumNat
<1>. QED
  BY <1>1, <1>2, <1>3

LEMMA ReconcileFiles ==
  ASSUME WriterInv, ReconcileLoad \/ ReconcileScan \/ ReconcileSave PROVE WriterInv'
<1>0. TypeOK
  BY DEF WriterInv
<1>1. UNCHANGED <<size, files, writer, podLock, pc, req, change, loaded, crashes, unreserved>>
  BY DEF ReconcileLoad, ReconcileScan, ReconcileSave, diskVars, requestVars
<1>2. quota' \in Quotas /\ untracked' \in Int
  BY <1>0 DEF ReconcileLoad, ReconcileScan, ReconcileSave, TypeOK
<1>3. admin' \in [at : {"idle", "scan", "save", "done"}, quota : Quotas]
  <2>1. CASE ReconcileLoad
    BY <1>0, <2>1 DEF ReconcileLoad, TypeOK
  <2>2. CASE ReconcileScan
    <3>1. [admin.quota EXCEPT !.used = Disk] \in Quotas
      BY <1>0, DiskIsSum DEF TypeOK, Quotas
    <3>. QED
      BY <2>2, <3>1 DEF ReconcileScan
  <2>3. CASE ReconcileSave
    BY <1>0, <2>3 DEF ReconcileSave, TypeOK
  <2>. QED
    BY <2>1, <2>2, <2>3
<1>4. drift' \in BOOLEAN
  BY <1>0 DEF ReconcileLoad, ReconcileScan, ReconcileSave, TypeOK
<1>5. TypeOK'
  BY <1>0, <1>1, <1>2, <1>3, <1>4 DEF TypeOK
<1>6. \A s \in Requests : HasFile(s)'
  BY <1>1 DEF WriterInv, HasFile, InFile, HasReserved
<1>. QED
  BY <1>5, <1>6 DEF WriterInv

LEMMA WriterStart == Init => WriterInv
<1>. SUFFICES ASSUME Init PROVE WriterInv
  OBVIOUS
<1>0. /\ size = InitialSize /\ files = {f \in Files : InitialSize[f] > 0}
      /\ quota \in {NoQuota, [limit |-> DefaultQuota, used |-> 0]}
      /\ writer = [f \in Files |-> NoRequest] /\ podLock = [p \in Procs |-> NoRequest]
      /\ pc = [r \in Requests |-> "new"] /\ req = [r \in Requests |-> NoReq]
      /\ change = [r \in Requests |-> 0] /\ loaded = [r \in Requests |-> NoQuota]
      /\ admin = [at |-> "idle", quota |-> NoQuota] /\ crashes = 0 /\ unreserved = untracked
  BY Zenon DEF Init
<1>1. quota \in Quotas /\ NoQuota \in Quotas
  BY <1>0 DEF NoQuota, Quotas
<1>2. untracked \in Nat
  <2>1. untracked = SumFunctionOnSet(InitialSize, DOMAIN InitialSize)
    BY DEF Init, FoldFunction, SumFunctionOnSet, FoldFunctionOnSet, MapThenFoldSet
  <2>2. SumFunctionOnSet(InitialSize, Files) \in Nat
    BY SumNat
  <2>. QED
    BY <2>1, <2>2
<1>3. drift \in BOOLEAN
  BY DEF Init
<1>35. unreserved \in Nat
  BY <1>0, <1>2
<1>4. TypeOK
  BY <1>0, <1>1, <1>2, <1>3, <1>35 DEF TypeOK, Locations
<1>5. \A r \in Requests : HasFile(r)
  BY <1>0 DEF HasFile, InFile
<1>. QED
  BY <1>4, <1>5 DEF WriterInv

LEMMA WriterStep == WriterInv /\ [Next]_vars => WriterInv'
<1>. SUFFICES ASSUME WriterInv, [Next]_vars PROVE WriterInv'
  OBVIOUS
<1>1. CASE UNCHANGED vars
  BY <1>1 DEF vars, WriterInv, TypeOK, HasFile, InFile, HasReserved
<1>2. ASSUME NEW r \in Requests, Handle(r) PROVE WriterInv'
  BY <1>2, BeginFiles, LockFiles, DiskFiles DEF Handle
<1>3. ASSUME NEW r \in Requests, NEW p \in Procs, NEW m \in Methods, NEW f \in Files, NEW n \in Sizes,
             Arrive(r, p, m, f, n)
      PROVE  WriterInv'
  BY <1>3, ArriveFiles
<1>. QED
  BY <1>1, <1>2, <1>3, CrashFiles, ReconcileFiles DEF Next
-----------------------------------------------------------------------------
(* The account. *)

\* What the account holds for a request that is not on the disk yet, or not any more.
Slack(r) ==
  IF pc[r] = "write" THEN IF HasReserved(r) THEN change[r] ELSE 0
  ELSE IF pc[r] = "fill" THEN IF HasReserved(r) THEN req[r].len ELSE req[r].len - change[r]
  ELSE IF pc[r] \in {"update", "updating"} THEN - change[r]
  ELSE 0

SlackOf == [r \in Requests |-> Slack(r)]
Slacks == SumFunctionOnSet(SlackOf, Requests)

\* The account covers the files and what is held for the requests under way; exactly, as long
\* as nothing has gone wrong. And it is no higher than the limit, but for what asked nobody.
Covered == /\ Disk + Slacks <= quota.used + untracked
           /\ ~ drift => Disk + Slacks = quota.used + untracked
Limits == /\ untracked <= unreserved
          /\ quota.limit = 0 => quota.used = 0
          /\ quota.limit > 0 => quota.used + untracked <= quota.limit + unreserved
Scanned == /\ admin.at = "save" => admin.quota.used = Disk
           /\ admin.at \in {"scan", "save"} => admin.quota.limit = quota.limit /\ quota.limit > 0

AccountInv == WriterInv /\ QuotaInv /\ Covered /\ Limits /\ Scanned

LEMMA SlackNat == ASSUME WriterInv, NEW r \in Requests PROVE Slack(r) \in Nat
<1>1. HasFile(r) /\ TypeOK /\ change[r] \in Int
  BY QuotaTypes DEF WriterInv
<1>2. CASE pc[r] \in {"write", "fill"}
  <2>1. req[r].len \in Nat /\ size[req[r].file] \in Nat
    BY <1>1, <1>2, AskedTypes, QuotaTypes
  <2>. QED
    BY <1>1, <1>2, <2>1 DEF Slack, HasFile, HasReserved
<1>3. CASE pc[r] \notin {"write", "fill"}
  BY <1>1, <1>3 DEF Slack, HasFile
<1>. QED
  BY <1>2, <1>3

Held == Slacks \in Nat /\ \A r \in Requests : SlackOf[r] = Slack(r) /\ Slack(r) \in Nat

LEMMA SlacksNat == WriterInv => Held
<1>. SUFFICES ASSUME WriterInv PROVE Held
  OBVIOUS
<1>1. \A r \in Requests : SlackOf[r] = Slack(r) /\ Slack(r) \in Nat
  BY SlackNat DEF SlackOf
<1>2. Slacks \in Nat
  BY <1>1, SumNat DEF Slacks
<1>. QED
  BY <1>1, <1>2 DEF Held

\* A step of one request that changes one file: the disk and what is held change by as much as
\* that file and that request do.
LEMMA OneChanges ==
  ASSUME WriterInv, WriterInv', NEW r \in Requests, NEW f \in Files,
         \A s \in Requests \ {r} : pc'[s] = pc[s] /\ req'[s] = req[s] /\ change'[s] = change[s],
         \A g \in Files \ {f} : size'[g] = size[g]
  PROVE  /\ Disk' = Disk - size[f] + size'[f] /\ Slacks' = Slacks - Slack(r) + Slack(r)'
         /\ Disk \in Nat /\ Disk' \in Nat /\ Slacks \in Nat /\ Slacks' \in Nat
         /\ Slack(r) \in Nat /\ Slack(r)' \in Nat /\ size[f] \in Nat /\ size'[f] \in Nat
<1>1. size \in [Files -> Nat] /\ size' \in [Files -> Nat]
  BY DEF WriterInv, TypeOK
<1>2. Disk' = Disk - size[f] + size'[f]
  <2>1. Disk = SumFunctionOnSet(size, Files)
    BY DiskIsSum DEF WriterInv
  <2>2. Disk' = SumFunctionOnSet(size', DOMAIN size')
    BY DEF Disk, FoldFunction, SumFunctionOnSet, FoldFunctionOnSet, MapThenFoldSet
  <2>3. SumFunctionOnSet(size', Files) = SumFunctionOnSet(size, Files) - size[f] + size'[f]
    BY <1>1, SumChange
  <2>. QED
    BY <1>1, <2>1, <2>2, <2>3
<1>3. Disk \in Nat /\ Disk' \in Nat
  <2>1. Disk \in Nat
    BY DiskIsSum DEF WriterInv
  <2>2. Disk' = SumFunctionOnSet(size', DOMAIN size')
    BY DEF Disk, FoldFunction, SumFunctionOnSet, FoldFunctionOnSet, MapThenFoldSet
  <2>3. SumFunctionOnSet(size', Files) \in Nat
    BY <1>1, SumNat
  <2>. QED
    BY <1>1, <2>1, <2>2, <2>3
<1>4. \A s \in Requests : SlackOf[s] = Slack(s) /\ Slack(s) \in Nat
  BY SlacksNat DEF Held
<1>0. Held'
  BY SlacksNat, PTL
<1>5. \A s \in Requests : SlackOf'[s] = Slack(s)' /\ Slack(s)' \in Nat
  BY <1>0 DEF Held
<1>6. \A s \in Requests \ {r} : Slack(s)' = Slack(s)
  BY DEF Slack, HasReserved
<1>7. Slacks' = Slacks - Slack(r) + Slack(r)'
  <2>1. SumFunctionOnSet(SlackOf', Requests) = SumFunctionOnSet(SlackOf, Requests) - SlackOf[r] + SlackOf'[r]
    BY <1>4, <1>5, <1>6, SumChange
  <2>. QED
    BY <1>4, <1>5, <2>1 DEF Slacks
<1>8. Slacks \in Nat
  BY SlacksNat DEF Held
<1>9. Slacks' \in Nat
  BY <1>0 DEF Held
<1>. QED
  BY <1>1, <1>2, <1>3, <1>4, <1>5, <1>7, <1>8, <1>9

LEMMA StaysCovered ==
  ASSUME WriterInv, WriterInv', Covered, NEW r \in Requests, NEW f \in Files,
         \A s \in Requests \ {r} : pc'[s] = pc[s] /\ req'[s] = req[s] /\ change'[s] = change[s],
         \A g \in Files \ {f} : size'[g] = size[g],
         quota.used + untracked - size[f] - Slack(r)
           <= quota'.used + untracked' - size'[f] - Slack(r)',
         ~ drift' => /\ ~ drift
                     /\ quota.used + untracked - size[f] - Slack(r)
                          = quota'.used + untracked' - size'[f] - Slack(r)'
  PROVE  Covered'
<1>1. quota.used \in Nat /\ quota'.used \in Nat /\ untracked \in Int /\ untracked' \in Int
  BY DEF WriterInv, TypeOK, Quotas
<1>2. /\ Disk' = Disk - size[f] + size'[f] /\ Slacks' = Slacks - Slack(r) + Slack(r)'
      /\ Disk \in Nat /\ Disk' \in Nat /\ Slacks \in Nat /\ Slacks' \in Nat
      /\ Slack(r) \in Nat /\ Slack(r)' \in Nat /\ size[f] \in Nat /\ size'[f] \in Nat
  BY OneChanges
<1>3. Disk' + Slacks' <= quota'.used + untracked'
  BY <1>1, <1>2 DEF Covered
<1>4. ASSUME ~ drift' PROVE Disk' + Slacks' = quota'.used + untracked'
  BY <1>1, <1>2, <1>4 DEF Covered
<1>. QED
  BY <1>3, <1>4 DEF Covered

\* The request gets its file, or has the pod lock; it asks for room, or gives it back.
LEMMA LockAccount ==
  ASSUME AccountInv, WriterInv', NEW r \in Requests,
         \/ BeginWrite(r) \/ BeginPost(r) \/ BeginDelete(r) \/ NothingToDo(r)
         \/ Load(r) \/ Reserve(r) \/ Refuse(r) \/ Update(r) \/ SaveFails(r)
  PROVE  Covered' /\ Limits'
<1>0. /\ TypeOK /\ HasFile(r) /\ change[r] \in Int /\ pc[r] # "new" /\ req[r].file \in Files
      /\ req[r].len \in Nat /\ quota.used \in Nat /\ quota.limit \in Nat /\ untracked \in Int /\ unreserved \in Nat
      /\ size[req[r].file] \in Nat /\ loaded[r] \in Quotas /\ quota \in Quotas
  <2>1. pc[r] # "new"
    BY DEF BeginWrite, BeginPost, BeginDelete, NothingToDo, Load, Reserve, Refuse, Update, SaveFails
  <2>. QED
    BY <2>1, AskedTypes, QuotaTypes DEF AccountInv, WriterInv, Quotas
<1>1. UNCHANGED <<size, req, untracked, unreserved>>
  BY DEF BeginWrite, BeginPost, BeginDelete, NothingToDo, Load, Reserve, Refuse, Update, SaveFails,
         diskVars, restVars
<1>2. \A s \in Requests \ {r} : pc'[s] = pc[s] /\ req'[s] = req[s] /\ change'[s] = change[s]
  <2>1. \E l : Goto(r, l)
    BY DEF BeginWrite, BeginPost, BeginDelete, NothingToDo, Load, Reserve, Refuse, Update, SaveFails, Proceed
  <2>2. \A s \in Requests \ {r} : change'[s] = change[s]
    BY <1>0, QuotaTypes DEF BeginWrite, BeginPost, BeginDelete, NothingToDo, Load, Reserve, Refuse, Update,
       SaveFails
  <2>. QED
    BY <1>0, <1>1, <2>1, <2>2, QuotaTypes DEF Goto
<1>3. pc[r] \in {"reserving", "updating"} => loaded[r] = quota
  BY DEF AccountInv, QuotaInv
<1>00. Held'
  BY SlacksNat, PTL
\* Nothing is accounted.
<1>4. ASSUME UNCHANGED quota, Slack(r)' <= Slack(r), ~ drift' => ~ drift /\ Slack(r)' = Slack(r)
      PROVE  Covered' /\ Limits'
  <2>1. Slack(r) \in Nat
    BY SlackNat DEF AccountInv
  <2>2. Slack(r)' \in Nat
    BY <1>00 DEF Held
  <2>3. Covered'
    BY <1>0, <1>1, <1>2, <1>4, <2>1, <2>2, StaysCovered DEF AccountInv
  <2>. QED
    BY <1>1, <1>4, <2>3 DEF AccountInv, Limits
<1>5. ASSUME NEW l \in Locations, Goto(r, l) PROVE pc'[r] = l
  BY <1>0, <1>5, QuotaTypes DEF Goto
<1>6. Slack(r) = IF pc[r] \in {"update", "updating"} THEN - change[r] ELSE 0
  <2>1. pc[r] \in {"start", "reserve", "reserving", "update", "updating"}
    BY DEF BeginWrite, BeginPost, BeginDelete, NothingToDo, Load, Reserve, Refuse, Update, SaveFails
  <2>. QED
    BY <2>1 DEF Slack
<1>7. Slack(r) \in Nat
  BY SlackNat DEF AccountInv
<1>8. CASE BeginWrite(r)
  <2>1. change'[r] = req[r].len - size[req[r].file] /\ UNCHANGED <<quota, drift>>
        /\ pc[r] = "start" /\ pc'[r] \in {"reserve", "write"}
        /\ (pc'[r] = "write" => ~ (req[r].method = "PUT" /\ change'[r] > 0)) /\ req[r].method # "POST"
    BY <1>0, <1>8, QuotaTypes DEF BeginWrite, Goto, restVars
  <2>2. Slack(r)' = 0
    BY <1>1, <2>1 DEF Slack, HasReserved
  <2>. QED
    BY <1>4, <1>6, <2>1, <2>2
<1>9. CASE BeginPost(r) \/ BeginDelete(r) \/ NothingToDo(r)
  <2>1. UNCHANGED <<quota, drift>> /\ pc[r] = "start" /\ pc'[r] \in {"reserve", "unlink", "done"}
    BY <1>0, <1>9, QuotaTypes DEF BeginPost, BeginDelete, NothingToDo, Goto, Proceed, restVars
  <2>2. Slack(r)' = 0
    BY <2>1 DEF Slack
  <2>. QED
    BY <1>4, <1>6, <2>1, <2>2
<1>10. CASE Load(r)
  <2>1. UNCHANGED <<quota, drift, change>> /\ pc[r] \in {"reserve", "update"}
        /\ pc'[r] = IF pc[r] = "reserve" THEN "reserving" ELSE "updating"
    BY <1>0, <1>10, QuotaTypes DEF Load, Goto, restVars
  <2>2. Slack(r)' = Slack(r)
    BY <1>6, <2>1 DEF Slack
  <2>. QED
    BY <1>4, <1>7, <2>1, <2>2
<1>11. CASE Refuse(r) \/ SaveFails(r)
  <2>1. UNCHANGED quota /\ pc[r] \in {"reserving", "updating"} /\ pc'[r] = "done"
    BY <1>0, <1>11, QuotaTypes DEF Refuse, SaveFails, Goto, Proceed
  <2>2. ~ drift' => ~ drift /\ pc[r] = "reserving"
    BY <1>11, <2>1 DEF Refuse, SaveFails, restVars
  <2>3. Slack(r)' = 0
    BY <2>1 DEF Slack
  <2>. QED
    BY <1>4, <1>6, <1>7, <2>1, <2>2, <2>3
<1>12. CASE Reserve(r)
  <2>1. PICK q : q = Limited(quota)
    OBVIOUS
  <2>2. q \in Quotas /\ q.used = quota.used /\ q.limit > 0
        /\ (quota.limit > 0 => q = quota) /\ q.limit \in Nat
    BY <1>0, <2>1 DEF Limited, Quotas
  <2>3. /\ pc[r] = "reserving" /\ pc'[r] = "write" /\ UNCHANGED <<change, drift>>
        /\ change[r] > 0 => q.used + change[r] <= q.limit
        /\ quota' = [q EXCEPT !.used = NonNegative(q.used + change[r])]
    BY <1>0, <1>3, <1>12, <2>1, QuotaTypes DEF Reserve, Goto, restVars
  <2>4. HasReserved(r) /\ HasReserved(r)' /\ change[r] >= 0
    BY <1>0, <1>1, <2>3 DEF HasFile, HasReserved
  <2>5. quota'.used = quota.used + change[r] /\ quota'.limit = q.limit
    BY <1>0, <2>2, <2>3, <2>4 DEF NonNegative, Quotas
  <2>6. Slack(r) = 0 /\ Slack(r)' = change[r]
    BY <1>6, <2>3, <2>4 DEF Slack
  <2>7. Covered'
    BY <1>0, <1>1, <1>2, <2>3, <2>5, <2>6, StaysCovered DEF AccountInv
  <2>8. Limits'
    <3>1. CASE quota.limit > 0
      BY <1>0, <1>1, <2>2, <2>3, <2>4, <2>5, <3>1 DEF AccountInv, Limits
    <3>2. CASE quota.limit = 0
      BY <1>0, <1>1, <2>2, <2>3, <2>4, <2>5, <3>2 DEF AccountInv, Limits
    <3>. QED
      BY <1>0, <3>1, <3>2
  <2>. QED
    BY <2>7, <2>8
<1>13. CASE Update(r)
  <2>1. /\ pc[r] = "updating" /\ pc'[r] = "done"
        /\ quota' = IF quota.limit = 0 THEN quota
                    ELSE [quota EXCEPT !.used = NonNegative(quota.used + change[r])]
    BY <1>0, <1>3, <1>13, QuotaTypes DEF Update, Goto, Proceed
  <2>2. ~ drift' => ~ drift /\ quota.limit # 0 /\ quota.used + change[r] >= 0
    <3>1. drift' = (drift \/ quota.limit = 0 \/ quota.used + change[r] < 0)
      BY <1>3, <1>13, <2>1 DEF Update
    <3>2. ~ drift' => ~ drift /\ quota.limit # 0 /\ ~ (quota.used + change[r] < 0)
      BY Zenon, <3>1
    <3>. QED
      BY <1>0, <3>2
  <2>3. change[r] <= 0 /\ Slack(r) = - change[r] /\ Slack(r)' = 0
    BY <1>0, <1>6, <2>1 DEF Slack, HasFile
  <2>4. CASE quota.limit = 0
    BY <1>0, <1>4, <1>7, <2>1, <2>2, <2>3, <2>4
  <2>5. CASE quota.limit # 0
    <3>1. quota'.used = NonNegative(quota.used + change[r]) /\ quota'.limit = quota.limit
      BY <1>0, <2>1, <2>5 DEF Quotas
    <3>2. /\ quota'.used >= quota.used + change[r] /\ quota'.used <= quota.used /\ quota'.used \in Nat
          /\ quota.used + change[r] >= 0 => quota'.used = quota.used + change[r]
      BY <1>0, <2>3, <3>1 DEF NonNegative
    <3>3. Covered'
      BY <1>0, <1>1, <1>2, <2>2, <2>3, <3>2, StaysCovered DEF AccountInv
    <3>4. Limits'
      BY <1>0, <1>1, <3>1, <3>2, <2>5 DEF AccountInv, Limits
    <3>. QED
      BY <3>3, <3>4
  <2>. QED
    BY <2>4, <2>5
<1>. QED
  BY <1>8, <1>9, <1>10, <1>11, <1>12, <1>13

\* The write, its failure half way, and the removal.
LEMMA DiskAccount ==
  ASSUME AccountInv, WriterInv', NEW r \in Requests,
         Open(r) \/ Fill(r) \/ WriteFails(r) \/ Unlink(r) \/ UnlinkFails(r)
  PROVE  Covered' /\ Limits'
<1>0. /\ TypeOK /\ HasFile(r) /\ change[r] \in Int /\ pc[r] # "new" /\ req[r].file \in Files
      /\ req[r].len \in Nat /\ quota.used \in Nat /\ quota.limit \in Nat /\ untracked \in Int
      /\ unreserved \in Nat /\ size[req[r].file] \in Nat
  <2>1. pc[r] # "new"
    BY DEF Open, Fill, WriteFails, Unlink, UnlinkFails
  <2>. QED
    BY <2>1, AskedTypes, QuotaTypes DEF AccountInv, WriterInv, Quotas
<1>00. Held'
  BY SlacksNat, PTL
<1>1. UNCHANGED <<req, quota>>
  BY DEF Open, Fill, WriteFails, Unlink, UnlinkFails
<1>2. PICK f \in Files : f = req[r].file
  BY <1>0
<1>3. /\ \A s \in Requests \ {r} : pc'[s] = pc[s] /\ req'[s] = req[s] /\ change'[s] = change[s]
      /\ \A g \in Files \ {f} : size'[g] = size[g]
  <2>1. \E l : Goto(r, l)
    BY DEF Open, Fill, WriteFails, Unlink, UnlinkFails, Proceed
  <2>2. \A s \in Requests \ {r} : change'[s] = change[s]
    BY <1>0, QuotaTypes DEF Open, Fill, WriteFails, Unlink, UnlinkFails
  <2>3. \A g \in Files \ {f} : size'[g] = size[g]
    BY <1>0, <1>2, QuotaTypes DEF Open, Fill, WriteFails, Unlink, UnlinkFails, diskVars
  <2>. QED
    BY <1>0, <1>1, <2>1, <2>2, <2>3, QuotaTypes DEF Goto
<1>4. ASSUME NEW l \in Locations, Goto(r, l) PROVE pc'[r] = l
  BY <1>0, <1>4, QuotaTypes DEF Goto
<1>5. Slack(r) \in Nat /\ Slack(r)' \in Nat /\ size[f] \in Nat /\ size'[f] \in Nat /\ untracked' \in Int
  <2>1. Slack(r) \in Nat
    BY SlackNat DEF AccountInv
  <2>2. size'[f] \in Nat /\ untracked' \in Int
    BY DEF WriterInv, TypeOK
  <2>. QED
    BY <1>0, <1>2, <1>00, <2>1, <2>2 DEF Held
\* The bytes move between the disk and what is held, or are given up.
<1>6. ASSUME UNCHANGED <<untracked, unreserved>>, size'[f] + Slack(r)' <= size[f] + Slack(r),
             ~ drift' => ~ drift /\ size'[f] + Slack(r)' = size[f] + Slack(r)
      PROVE  Covered' /\ Limits'
  <2>1. quota.used + untracked - size[f] - Slack(r) <= quota'.used + untracked' - size'[f] - Slack(r)'
    BY <1>0, <1>1, <1>5, <1>6
  <2>2. ~ drift' => /\ ~ drift
                    /\ quota.used + untracked - size[f] - Slack(r)
                         = quota'.used + untracked' - size'[f] - Slack(r)'
    <3>1. ASSUME ~ drift' PROVE ~ drift
      BY <1>6, <3>1
    <3>2. ASSUME ~ drift'
          PROVE  quota.used + untracked - size[f] - Slack(r)
                   = quota'.used + untracked' - size'[f] - Slack(r)'
      BY <1>0, <1>1, <1>5, <1>6, <3>2
    <3>. QED
      BY <3>1, <3>2
  <2>3. Covered'
    BY <1>3, <2>1, <2>2, StaysCovered DEF AccountInv
  <2>. QED
    BY <1>1, <1>6, <2>3 DEF AccountInv, Limits
<1>7. CASE Open(r)
  <2>1. /\ pc[r] = "write" /\ pc'[r] = "fill" /\ size'[f] = 0 /\ UNCHANGED <<change, untracked, unreserved, drift>>
    BY <1>0, <1>2, <1>7, QuotaTypes DEF Open, Goto, restVars
  <2>2. change[r] = req[r].len - size[f] /\ (req[r].method = "POST" => size[f] = 0)
    BY <1>0, <1>2, <2>1 DEF HasFile
  <2>3. Slack(r) = IF HasReserved(r) THEN change[r] ELSE 0
    BY <2>1 DEF Slack
  <2>4. Slack(r)' = IF HasReserved(r) THEN req[r].len ELSE req[r].len - change[r]
    BY <1>1, <2>1 DEF Slack, HasReserved
  <2>5. size'[f] + Slack(r)' = size[f] + Slack(r)
    BY <1>0, <1>5, <2>1, <2>2, <2>3, <2>4
  <2>. QED
    BY <1>5, <1>6, <2>1, <2>5
<1>8. CASE Fill(r)
  <2>1. pc[r] = "fill" /\ size[f] = 0 /\ size'[f] = req[r].len /\ UNCHANGED change
    BY <1>0, <1>2, <1>8, QuotaTypes DEF Fill, HasFile
  <2>2. Slack(r) = IF HasReserved(r) THEN req[r].len ELSE req[r].len - change[r]
    BY <2>1 DEF Slack
  <2>3. pc'[r] = IF req[r].method = "PUT" /\ change[r] < 0 THEN "update" ELSE "done"
    BY <1>4, <1>8 DEF Fill, Proceed, Locations
  <2>4. Slack(r)' = IF req[r].method = "PUT" /\ change[r] < 0 THEN - change[r] ELSE 0
    BY <2>1, <2>3 DEF Slack
  <2>5. CASE req[r].method = "PATCH"
    <3>1. drift' = drift /\ untracked' = untracked + change[r]
          /\ unreserved' = unreserved + NonNegative(change[r])
      BY <1>8, <2>5 DEF Fill
    <3>2. Slack(r) = req[r].len - change[r] /\ Slack(r)' = 0
      BY <2>2, <2>4, <2>5 DEF HasReserved
    <3>3. NonNegative(change[r]) \in Nat /\ NonNegative(change[r]) >= change[r]
      BY <1>0 DEF NonNegative
    <3>4. quota.used + untracked - size[f] - Slack(r) = quota'.used + untracked' - size'[f] - Slack(r)'
      BY <1>0, <1>1, <2>1, <3>1, <3>2, <3>3
    <3>5. Covered'
      <4>1. ~ drift' => ~ drift
        BY <3>1
      <4>2. quota.used + untracked - size[f] - Slack(r) <= quota'.used + untracked' - size'[f] - Slack(r)'
        BY <1>0, <1>1, <1>5, <3>4
      <4>. QED
        BY <1>3, <3>4, <4>1, <4>2, StaysCovered DEF AccountInv
    <3>6. Limits'
      <4>1. Limits
        BY DEF AccountInv
      <4>. QED
        BY <1>0, <1>1, <3>1, <3>3, <4>1 DEF Limits
    <3>. QED
      BY <3>5, <3>6
  <2>6. CASE req[r].method # "PATCH"
    <3>1. UNCHANGED <<drift, untracked, unreserved>>
      BY <1>8, <2>6 DEF Fill
    <3>2. size'[f] + Slack(r)' = size[f] + Slack(r)
      <4>1. req[r].method \in {"PUT", "POST", "DELETE"}
        BY <1>0, <2>6, AskedTypes
      <4>2. req[r].method # "DELETE"
        BY <1>0, <2>1 DEF HasFile
      <4>3. req[r].method = "POST" => HasReserved(r)
        BY DEF HasReserved
      <4>4. req[r].method = "PUT" => (HasReserved(r) <=> change[r] > 0)
        BY DEF HasReserved
      <4>. QED
        BY <1>0, <2>1, <2>2, <2>4, <4>1, <4>2, <4>3, <4>4
    <3>. QED
      BY <1>5, <1>6, <3>1, <3>2
  <2>. QED
    BY <2>5, <2>6
<1>9. CASE WriteFails(r)
  <2>1. /\ UNCHANGED <<size, untracked, unreserved>>
        /\ \/ pc[r] = "write" /\ UNCHANGED drift
           \/ pc[r] = "fill" /\ drift' = TRUE
    BY <1>9 DEF WriteFails, diskVars
  <2>2. CASE HasReserved(r)
    <3>1. pc'[r] = "update" /\ change'[r] = - change[r]
      BY <1>0, <1>4, <1>9, <2>2, QuotaTypes DEF WriteFails, Proceed, Locations
    <3>2. Slack(r)' = - change'[r]
      BY <3>1 DEF Slack
    <3>3. Slack(r)' = change[r]
      BY <1>0, <3>1, <3>2
    <3>4. Slack(r) = IF pc[r] = "write" THEN change[r] ELSE req[r].len
      BY <2>1, <2>2 DEF Slack
    <3>5. pc[r] = "fill" => change[r] <= req[r].len
      BY <1>0 DEF HasFile
    <3>6. Slack(r)' <= Slack(r) /\ (pc[r] = "write" => Slack(r)' = Slack(r))
      BY <1>0, <2>1, <3>3, <3>4, <3>5
    <3>. QED
      BY <1>5, <1>6, <2>1, <3>6
  <2>3. CASE ~ HasReserved(r)
    <3>1. pc'[r] = "done"
      BY <1>4, <1>9, <2>3 DEF WriteFails, Proceed, Locations
    <3>2. Slack(r)' = 0
      BY <3>1 DEF Slack
    <3>3. pc[r] = "write" => Slack(r) = 0
      BY <2>3 DEF Slack
    <3>. QED
      BY <1>5, <1>6, <2>1, <3>2, <3>3
  <2>. QED
    BY <2>2, <2>3
<1>10. CASE Unlink(r)
  <2>1. /\ UNCHANGED <<untracked, unreserved, drift, change>> /\ pc[r] = "unlink" /\ size'[f] = 0
        /\ pc'[r] = IF change[r] < 0 THEN "update" ELSE "done"
    BY <1>0, <1>2, <1>4, <1>10, QuotaTypes DEF Unlink, Proceed, Locations, restVars
  <2>2. change[r] = - size[f]
    BY <1>0, <1>2, <2>1 DEF HasFile
  <2>3. Slack(r) = 0 /\ Slack(r)' = IF change[r] < 0 THEN - change[r] ELSE 0
    BY <2>1 DEF Slack
  <2>4. size'[f] + Slack(r)' = size[f] + Slack(r)
    BY <1>5, <2>1, <2>2, <2>3
  <2>. QED
    BY <1>5, <1>6, <2>1, <2>4
<1>11. CASE UnlinkFails(r)
  <2>1. UNCHANGED <<size, untracked, unreserved, drift, change>> /\ pc[r] = "unlink" /\ pc'[r] = "done"
    BY <1>4, <1>11 DEF UnlinkFails, Proceed, Locations, restVars, diskVars
  <2>2. Slack(r) = 0 /\ Slack(r)' = 0
    BY <2>1 DEF Slack
  <2>. QED
    BY <1>5, <1>6, <2>1, <2>2
<1>. QED
  BY <1>7, <1>8, <1>9, <1>10, <1>11

LEMMA NoSlack == ASSUME WriterInv, ~ Busy PROVE Slacks = 0
<1>1. \A r \in Requests : Slack(r) = 0
  BY DEF Busy, Slack
<1>. QED
  BY <1>1, SlacksNat, SumZero DEF Held, Slacks

LEMMA DiskStays ==
  ASSUME WriterInv, UNCHANGED size PROVE Disk' = Disk
<1>1. Disk' = SumFunctionOnSet(size', DOMAIN size') /\ Disk = SumFunctionOnSet(size, DOMAIN size)
  BY DEF Disk, FoldFunction, SumFunctionOnSet, FoldFunctionOnSet, MapThenFoldSet
<1>. QED
  BY <1>1

\* What is held can only shrink when nothing is written and no account is saved.
LEMMA SlackShrinks ==
  ASSUME WriterInv, WriterInv', Covered, Limits, UNCHANGED <<size, quota, untracked, unreserved>>,
         \A r \in Requests : Slack(r)' <= Slack(r),
         ~ drift' => ~ drift /\ \A r \in Requests : Slack(r)' = Slack(r)
  PROVE  Covered' /\ Limits'
<1>0. Held /\ Held'
  BY SlacksNat, PTL
<1>1. Disk' = Disk /\ Disk \in Nat
  BY DiskStays, DiskIsSum DEF WriterInv
<1>2. Slacks' <= Slacks /\ Slacks \in Nat /\ Slacks' \in Nat
  <2>1. SumFunctionOnSet(SlackOf', Requests) <= SumFunctionOnSet(SlackOf, Requests)
    BY <1>0, SumMonotone DEF Held
  <2>. QED
    BY <1>0, <2>1 DEF Slacks, Held
<1>3. ASSUME ~ drift' PROVE ~ drift /\ Slacks' = Slacks
  <2>1. SumFunctionOnSet(SlackOf, Requests) = SumFunctionOnSet(SlackOf', Requests)
    BY <1>0, <1>3, SumSame DEF Held
  <2>. QED
    BY <1>3, <2>1 DEF Slacks
<1>4. quota.used \in Nat /\ untracked \in Int
  BY QuotaTypes DEF WriterInv, Quotas
<1>5. Disk' + Slacks' <= quota'.used + untracked'
  BY <1>1, <1>2, <1>4 DEF Covered
<1>6. ASSUME ~ drift' PROVE Disk' + Slacks' = quota'.used + untracked'
  BY <1>1, <1>3, <1>6 DEF Covered
<1>. QED
  BY <1>5, <1>6 DEF Covered, Limits

LEMMA ArriveAccount ==
  ASSUME AccountInv, WriterInv', NEW r \in Requests, NEW p, NEW m, NEW f, NEW n, Arrive(r, p, m, f, n)
  PROVE  Covered' /\ Limits'
<1>0. WriterInv /\ Covered /\ Limits
  BY DEF AccountInv
<1>1. UNCHANGED <<size, quota, untracked, unreserved, drift, change>>
  BY DEF Arrive, diskVars, restVars
<1>2. pc[r] = "new" /\ pc'[r] = "start" /\ \A s \in Requests \ {r} : pc'[s] = pc[s] /\ req'[s] = req[s]
  BY <1>0, QuotaTypes DEF Arrive, Goto, WriterInv
<1>3. \A s \in Requests \ {r} : Slack(s)' = Slack(s)
  BY <1>1, <1>2 DEF Slack, HasReserved
<1>4. Slack(r)' = 0 /\ Slack(r) = 0
  BY <1>2 DEF Slack
<1>5. \A s \in Requests : Slack(s)' = Slack(s) /\ Slack(s)' <= Slack(s)
  BY <1>0, <1>3, <1>4, SlackNat
<1>. QED
  BY <1>0, <1>1, <1>5, SlackShrinks

LEMMA CrashAccount ==
  ASSUME AccountInv, WriterInv', NEW p \in Procs, Crash(p)
  PROVE  Covered' /\ Limits'
<1>0. WriterInv /\ Covered /\ Limits
  BY DEF AccountInv
<1>1. UNCHANGED <<size, quota, untracked, unreserved, change, req>> /\ drift' = TRUE
  BY DEF Crash, diskVars
<1>2. ASSUME NEW r \in Requests PROVE Slack(r)' <= Slack(r)
  <2>1. pc'[r] = pc[r] \/ pc'[r] = "done"
    BY DEF Crash
  <2>2. Slack(r) \in Nat
    BY <1>0, SlackNat
  <2>3. CASE pc'[r] = pc[r]
    <3>1. Slack(r)' = Slack(r)
      BY <1>1, <2>3 DEF Slack, HasReserved
    <3>. QED
      BY <2>2, <3>1
  <2>4. CASE pc'[r] = "done"
    <3>1. Slack(r)' = 0
      BY <2>4 DEF Slack
    <3>. QED
      BY <2>2, <3>1
  <2>. QED
    BY <2>1, <2>3, <2>4
<1>3. drift'
  BY <1>1
<1>. QED
  BY <1>0, <1>1, <1>2, <1>3, SlackShrinks

\* Reconciling puts right what has drifted: nothing is under way while it scans and saves.
LEMMA ReconcileAccount ==
  ASSUME AccountInv, WriterInv', ReconcileLoad \/ ReconcileScan \/ ReconcileSave
  PROVE  Covered' /\ Limits' /\ Scanned'
<1>0. WriterInv /\ TypeOK /\ QuotaInv /\ Covered /\ Limits /\ Scanned
  BY DEF AccountInv, WriterInv
<1>1. UNCHANGED <<size, pc, req, change, unreserved>>
  BY DEF ReconcileLoad, ReconcileScan, ReconcileSave, diskVars, requestVars
<1>2. Disk' = Disk /\ Disk \in Nat
  BY <1>0, <1>1, DiskStays, DiskIsSum
<1>3. quota \in Quotas /\ quota.limit \in Nat
  BY <1>0, QuotaTypes DEF Quotas
<1>4. ASSUME UNCHANGED <<quota, untracked, drift>> PROVE Covered' /\ Limits'
  <2>1. \A r \in Requests : Slack(r)' = Slack(r) /\ Slack(r) \in Nat
    BY <1>0, <1>1, SlackNat DEF Slack, HasReserved
  <2>2. \A r \in Requests : Slack(r)' <= Slack(r)
    BY <2>1
  <2>. QED
    BY <1>0, <1>1, <1>4, <2>1, <2>2, SlackShrinks
<1>5. CASE ReconcileLoad
  <2>1. UNCHANGED <<quota, untracked, drift>>
    BY <1>5 DEF ReconcileLoad
  <2>2. admin' = [at |-> IF quota.limit = 0 THEN "done" ELSE "scan", quota |-> quota]
    BY <1>5 DEF ReconcileLoad
  <2>3. Scanned'
    BY <1>3, <2>1, <2>2 DEF Scanned
  <2>. QED
    BY <1>4, <2>1, <2>3
<1>6. CASE ReconcileScan
  <2>1. UNCHANGED <<quota, untracked, drift>> /\ admin.at = "scan"
    BY <1>6 DEF ReconcileScan
  <2>2. admin' = [at |-> "save", quota |-> [admin.quota EXCEPT !.used = Disk]]
    BY <1>6 DEF ReconcileScan
  <2>3. admin.quota \in Quotas
    BY <1>0 DEF TypeOK
  <2>4. admin'.quota.used = Disk /\ admin'.quota.limit = admin.quota.limit
    BY <2>2, <2>3 DEF Quotas
  <2>5. admin.quota.limit = quota.limit /\ quota.limit > 0
    BY <1>0, <2>1 DEF Scanned
  <2>6. Scanned'
    BY <1>2, <2>1, <2>4, <2>5 DEF Scanned
  <2>. QED
    BY <1>4, <2>1, <2>6
<1>7. CASE ReconcileSave
  <2>1. admin.at = "save" /\ quota' = admin.quota /\ admin'.at = "done" /\ untracked' = 0 /\ drift' = FALSE
    <3>1. admin \in [at : {"idle", "scan", "save", "done"}, quota : Quotas]
      BY <1>0 DEF TypeOK
    <3>. QED
      BY <1>7, <3>1 DEF ReconcileSave
  <2>2. Slacks' = 0
    <3>1. ~ Busy
      BY <1>0, <2>1 DEF QuotaInv
    <3>2. \A r \in Requests : Slack(r)' = 0
      BY <1>1, <3>1 DEF Busy, Slack
    <3>3. Held'
      BY SlacksNat, PTL
    <3>. QED
      BY <3>2, <3>3, SumZero DEF Held, Slacks
  <2>3. quota'.used = Disk /\ quota'.limit = quota.limit /\ quota.limit > 0
    BY <1>0, <2>1 DEF Scanned
  <2>4. Covered'
    <3>1. Disk' + Slacks' = quota'.used + untracked'
      BY <1>2, <2>1, <2>2, <2>3
    <3>2. Disk' + Slacks' <= quota'.used + untracked'
      BY <1>2, <2>1, <2>2, <2>3
    <3>. QED
      BY <3>1, <3>2 DEF Covered
  <2>5. Limits'
    <3>1. Disk <= quota.used + untracked /\ quota.used + untracked <= quota.limit + unreserved
      <4>1. quota.used \in Nat /\ untracked \in Int /\ Slacks \in Nat
        BY <1>0, <1>3, SlacksNat DEF Held, Quotas, TypeOK
      <4>. QED
        BY <1>0, <1>2, <1>3, <2>3, <4>1 DEF Covered, Limits
    <3>2. unreserved \in Nat /\ quota.used \in Nat /\ untracked \in Int
      BY <1>0, <1>3 DEF TypeOK, Quotas
    <3>. QED
      BY <1>1, <1>2, <1>3, <2>1, <2>3, <3>1, <3>2 DEF Limits
  <2>6. Scanned'
    BY <2>1 DEF Scanned
  <2>. QED
    BY <2>4, <2>5, <2>6
<1>. QED
  BY <1>5, <1>6, <1>7

LEMMA AccountStart == Init => AccountInv
<1>. SUFFICES ASSUME Init PROVE AccountInv
  OBVIOUS
<1>1. WriterInv /\ QuotaInv
  BY WriterStart, QuotaInit
<1>2. /\ size = InitialSize /\ pc = [r \in Requests |-> "new"] /\ unreserved = untracked
      /\ admin = [at |-> "idle", quota |-> NoQuota]
      /\ quota \in {NoQuota, [limit |-> DefaultQuota, used |-> 0]}
  BY Zenon DEF Init
<1>3. quota.used = 0 /\ quota.limit \in Nat
  BY <1>2 DEF NoQuota
<1>4. Disk = untracked /\ untracked \in Int
  <2>1. Disk = untracked
    BY DEF Init, Disk
  <2>. QED
    BY <1>1, <2>1, DiskIsSum DEF WriterInv
<1>5. Slacks = 0
  <2>1. ~ Busy
    BY <1>2 DEF Busy
  <2>. QED
    BY <1>1, <2>1, NoSlack
<1>6. Covered /\ Limits
  BY <1>2, <1>3, <1>4, <1>5 DEF Covered, Limits
<1>7. Scanned
  BY <1>2 DEF Scanned
<1>. QED
  BY <1>1, <1>6, <1>7 DEF AccountInv

\* What is not the reconcile command leaves it alone, and comes to the disk and the limit only
\* when it is not at work.
LEMMA ScannedStays ==
  ASSUME AccountInv, OneWriter, NEW r \in Requests,
         \/ Handle(r)
         \/ \E p \in Procs, m \in Methods, f \in Files, n \in Sizes : Arrive(r, p, m, f, n)
         \/ \E p \in Procs : Crash(p)
  PROVE  Scanned'
<1>1. admin' = admin
  BY DEF Handle, BeginWrite, BeginPost, BeginDelete, NothingToDo, Load, Reserve, Refuse, Update, SaveFails,
         Open, Fill, WriteFails, Unlink, UnlinkFails, Arrive, Crash, restVars
<1>2. admin.at \notin {"scan", "save"}
  <2>1. admin.at \in {"scan", "save"} => ~ Busy
    BY DEF AccountInv, QuotaInv
  <2>2. CASE Handle(r)
    <3>1. pc[r] \notin {"new", "done"}
      BY <2>2 DEF Handle, BeginWrite, BeginPost, BeginDelete, NothingToDo, Load, Reserve, Refuse, Update,
         SaveFails, Open, Fill, WriteFails, Unlink, UnlinkFails
    <3>. QED
      BY <2>1, <3>1 DEF Busy
  <2>3. CASE \E p \in Procs, m \in Methods, f \in Files, n \in Sizes : Arrive(r, p, m, f, n)
    BY <2>3 DEF Arrive, OneWriter
  <2>4. CASE \E p \in Procs : Crash(p)
    BY <2>1, <2>4 DEF Crash, Busy
  <2>. QED
    BY <2>2, <2>3, <2>4
<1>. QED
  BY <1>1, <1>2 DEF Scanned

LEMMA AccountStep == ASSUME OneWriter PROVE AccountInv /\ [Next]_vars => AccountInv'
<1>. SUFFICES ASSUME AccountInv, [Next]_vars PROVE AccountInv'
  OBVIOUS
<1>1. WriterInv' /\ QuotaInv'
  BY WriterStep, QuotaStep DEF AccountInv
<1>2. CASE UNCHANGED vars
  <2>1. UNCHANGED <<size, quota, untracked, unreserved, admin, pc, req, change, drift>>
    BY <1>2 DEF vars
  <2>2. \A r \in Requests : Slack(r)' = Slack(r) /\ Slack(r) \in Nat
    BY <2>1, SlackNat DEF Slack, HasReserved, AccountInv
  <2>3. \A r \in Requests : Slack(r)' <= Slack(r)
    BY <2>2
  <2>4. Covered' /\ Limits'
    BY <1>1, <2>1, <2>2, <2>3, SlackShrinks DEF AccountInv
  <2>5. Disk' = Disk
    BY <2>1, DiskStays DEF AccountInv
  <2>6. Scanned'
    BY <2>1, <2>5 DEF AccountInv, Scanned
  <2>. QED
    BY <1>1, <2>4, <2>6 DEF AccountInv
<1>3. ASSUME NEW r \in Requests, Handle(r) PROVE AccountInv'
  <2>1. Covered' /\ Limits'
    BY <1>1, <1>3, LockAccount, DiskAccount DEF Handle
  <2>2. Scanned'
    BY <1>3, ScannedStays
  <2>. QED
    BY <1>1, <2>1, <2>2 DEF AccountInv
<1>4. ASSUME NEW r \in Requests, NEW p \in Procs, NEW m \in Methods, NEW f \in Files, NEW n \in Sizes,
             Arrive(r, p, m, f, n)
      PROVE  AccountInv'
  <2>1. Covered' /\ Limits'
    BY <1>1, <1>4, ArriveAccount
  <2>2. Scanned'
    BY <1>4, ScannedStays
  <2>. QED
    BY <1>1, <2>1, <2>2 DEF AccountInv
<1>5. ASSUME NEW p \in Procs, Crash(p) PROVE AccountInv'
  <2>1. Covered' /\ Limits'
    BY <1>1, <1>5, CrashAccount
  <2>2. PICK r \in Requests : pc[r] \notin {"new", "done"}
    BY <1>5 DEF Crash
  <2>3. Scanned'
    BY <1>5, ScannedStays
  <2>. QED
    BY <1>1, <2>1, <2>3 DEF AccountInv
<1>6. CASE ReconcileLoad \/ ReconcileScan \/ ReconcileSave
  BY <1>1, <1>6, ReconcileAccount DEF AccountInv
<1>. QED
  BY <1>2, <1>3, <1>4, <1>5, <1>6 DEF Next

\* The types hold for any number of processes and for a reconcile at any time.
THEOREM QuotaTypeTheorem == Spec => []TypeOK
<1>1. WriterInv => TypeOK
  BY DEF WriterInv
<1>. QED
  BY <1>1, WriterStart, WriterStep, PTL DEF Spec

LEMMA AccountSafe == AccountInv => QuotaSafe
<1>. SUFFICES ASSUME AccountInv PROVE QuotaSafe
  OBVIOUS
<1>1. TypeOK /\ WriterInv /\ Covered /\ Limits
  BY DEF AccountInv, WriterInv
<1>2. Disk \in Nat /\ Slacks \in Nat /\ quota.used \in Nat /\ quota.limit \in Nat /\ untracked \in Int
      /\ unreserved \in Nat
  BY <1>1, DiskIsSum, SlacksNat, QuotaTypes DEF Held, Quotas
<1>3. NeverUndercounted
  BY <1>1, <1>2 DEF NeverUndercounted, Covered
<1>4. WithinLimit
  BY <1>1, <1>2 DEF WithinLimit, Covered, Limits
<1>. QED
  BY <1>1, <1>3, <1>4 DEF QuotaSafe

\* reserveQuota before the write, updateQuotaUsage after it: the files never take more room than
\* the account says, nor that more than the limit, however the requests overlap, fail half way or
\* die, as long as one process serves the pod and nobody reconciles meanwhile.
THEOREM QuotaSafeTheorem ==
  ASSUME OneWriter
  PROVE  Spec => []QuotaSafe
<1>1. AccountInv /\ [Next]_vars => AccountInv'
  BY AccountStep
<1>. QED
  BY <1>1, AccountStart, AccountSafe, PTL DEF Spec

LEMMA AccountExact == AccountInv => ExactWhenQuiet
<1>. SUFFICES ASSUME AccountInv, ~ Busy, ~ drift PROVE Disk = quota.used + untracked
  BY DEF ExactWhenQuiet
<1>1. WriterInv /\ TypeOK /\ Disk + Slacks = quota.used + untracked
  BY DEF AccountInv, Covered, WriterInv
<1>2. Slacks = 0
  BY <1>1, NoSlack
<1>3. Disk \in Nat
  BY <1>1, DiskIsSum
<1>. QED
  BY <1>1, <1>2, <1>3

\* No reservation is leaked: once every request has been answered and none was cut short, the
\* account equals the files, and reconciling makes it so again.
THEOREM ExactWhenQuietTheorem ==
  ASSUME OneWriter
  PROVE  Spec => []ExactWhenQuiet
<1>1. AccountInv /\ [Next]_vars => AccountInv'
  BY AccountStep
<1>. QED
  BY <1>1, AccountStart, AccountExact, PTL DEF Spec
=============================================================================
