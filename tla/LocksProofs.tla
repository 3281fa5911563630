----------------------------- MODULE LocksProofs -----------------------------
(***************************************************************************)
(* The lock file (FileLock), the promise chains (PromiseChain) and what is *)
(* written under the lock (ResourceWrites).                                *)
(*                                                                         *)
(* The lock file without crashes, for any number of processes and inodes:  *)
(* mutual exclusion and the refinement of Mutex. No lock is ever taken for *)
(* stale, so breakStaleLock never runs; the two facts that keep each other *)
(* up are that the file is there exactly while somebody holds the lock and *)
(* that the holder's heartbeat keeps it young. With any number of crashes: *)
(* types, and that nobody gives up on a lock that was left behind. For two *)
(* processes and one crash: the same promises, through breakStaleLock.     *)
(*                                                                         *)
(* The promise chain is a first-come first-served queue per key, for any   *)
(* number of requests and keys. The map shows only the last request of a   *)
(* key, so the argument is about the links: a request's predecessor is the *)
(* last one that was unfinished when it arrived (Chained), the entry is the*)
(* last arrival or everybody is through (Entry), and arrivals for a key    *)
(* are totally ordered (Ordered).                                          *)
(***************************************************************************)
EXTENDS FileLock, PromiseChain, ResourceWrites, FiniteSetTheorems, TLAPS

LEMMA ConstantTypes == /\ StaleTicks \in Nat /\ WaitTicks \in Nat
                       /\ MaxCrashes \in Nat
BY TicksAssumption, CrashAssumption

LEMMA ContendType == ASSUME LockTypeOK, NEW p \in Procs, Contend(p)
                     PROVE contended' \in [Procs -> BOOLEAN]
<1>1. contended \in [Procs -> BOOLEAN]
  BY DEF LockTypeOK
<1>2. \A q \in Procs : (IF q # p /\ at[q] \in Contending
                        THEN TRUE ELSE contended[q]) \in BOOLEAN
  BY <1>1
<1>. QED
  BY <1>2, Zenon DEF Contend

\* Every reachable state of withLock is well formed, crashes included.
THEOREM TypeTheorem == LockSpec => []LockTypeOK
<1>1. LockInit => LockTypeOK
  BY ConstantTypes DEF LockInit, LockTypeOK, LockLocations
<1>2. LockTypeOK /\ [LockNext]_lockVars => LockTypeOK'
  <2>. SUFFICES ASSUME LockTypeOK, [LockNext]_lockVars PROVE LockTypeOK'
    OBVIOUS
  <2>. USE ConstantTypes DEF LockTypeOK, LockLocations
  <2>1. ASSUME NEW p \in Procs, Request(p) PROVE LockTypeOK'
    BY <2>1 DEF Request
  <2>2. ASSUME NEW p \in Procs, OpenCreates(p) PROVE LockTypeOK'
    <3>1. FreeInodes \subseteq Inodes
      BY DEF FreeInodes
    <3>. QED
      BY <2>2, <3>1, ContendType DEF OpenCreates
  <2>3. ASSUME NEW p \in Procs, OpenExists(p) PROVE LockTypeOK'
    BY <2>3 DEF OpenExists
  <2>4. ASSUME NEW p \in Procs, StatStale(p) PROVE LockTypeOK'
    BY <2>4 DEF StatStale
  <2>5. ASSUME NEW p \in Procs, Sleep(p) PROVE LockTypeOK'
    BY <2>5 DEF Sleep
  <2>6. ASSUME NEW p \in Procs, GiveUp(p) PROVE LockTypeOK'
    BY <2>6 DEF GiveUp
  <2>7. ASSUME NEW p \in Procs, RenameAside(p) PROVE LockTypeOK'
    BY <2>7, ContendType DEF RenameAside
  <2>8. ASSUME NEW p \in Procs, RenameGone(p) PROVE LockTypeOK'
    BY <2>8 DEF RenameGone
  <2>9. ASSUME NEW p \in Procs, InspectSame(p) PROVE LockTypeOK'
    BY <2>9 DEF InspectSame
  <2>10. ASSUME NEW p \in Procs, InspectOther(p) PROVE LockTypeOK'
    BY <2>10 DEF InspectOther
  <2>11. ASSUME NEW p \in Procs, PutBack(p) PROVE LockTypeOK'
    BY <2>11 DEF PutBack
  <2>12. ASSUME NEW p \in Procs, DropAside(p) PROVE LockTypeOK'
    BY <2>12 DEF DropAside
  <2>13. ASSUME NEW p \in Procs, Release(p) PROVE LockTypeOK'
    BY <2>13 DEF Release
  <2>14. ASSUME NEW p \in Procs, Crash(p) PROVE LockTypeOK'
    BY <2>14 DEF Crash
  <2>15. ASSUME NEW p \in Procs, Restart(p) PROVE LockTypeOK'
    BY <2>15 DEF Restart
  <2>16. CASE Tick
    <3>1. age' \in [Inodes -> 0 .. StaleTicks + 1]
      BY <2>16 DEF Tick
    <3>2. waited' \in [Procs -> 0 .. WaitTicks + 1]
      BY <2>16 DEF Tick
    <3>. QED
      BY <2>16, <3>1, <3>2 DEF Tick
  <2>17. CASE UNCHANGED lockVars
    BY <2>17 DEF lockVars
  <2>. QED
    BY <2>1, <2>2, <2>3, <2>4, <2>5, <2>6, <2>7, <2>8, <2>9, <2>10, <2>11, <2>12,
       <2>13, <2>14, <2>15, <2>16, <2>17 DEF LockNext, LockStep
<1>. QED
  BY <1>1, <1>2, PTL DEF LockSpec
-----------------------------------------------------------------------------
\* Where processes can be when nobody has ever died.
Sound == {"idle", "open", "stat", "critical"}

\* The inductive invariant of the crash-free lock.
LockInv ==
  /\ LockTypeOK
  /\ \A p \in Procs : at[p] \in Sound
  /\ \A p, q \in Procs : at[p] = "critical" /\ at[q] = "critical" => p = q
  /\ lockFile = NoInode <=> \A p \in Procs : at[p] # "critical"
  /\ lockFile # NoInode => age[lockFile] = 0

LEMMA LockInvInit == LockInit => LockInv
BY ConstantTypes DEF LockInit, LockInv, LockTypeOK, LockLocations, Sound

\* A lock that exists is young, so it is never judged stale.
LEMMA NeverStale == ASSUME LockInv, lockFile # NoInode PROVE ~ IsStale(lockFile)
BY ConstantTypes DEF LockInv, IsStale

\* Every step keeps the invariant but for a death.
LEMMA LockInvStep ==
  ASSUME \A p \in Procs : ~ Crash(p), LockInv, LockTypeOK', [LockNext]_lockVars PROVE LockInv'
<1>. USE DEF LockInv, Sound
<1>1. ASSUME NEW p \in Procs, Request(p) PROVE LockInv'
  BY <1>1 DEF Request, LockTypeOK
<1>2. ASSUME NEW p \in Procs, OpenCreates(p) PROVE LockInv'
  <2>1. PICK i \in Inodes : lockFile' = i /\ age' = [age EXCEPT ![i] = 0]
    BY <1>2 DEF OpenCreates, FreeInodes
  <2>2. lockFile' # NoInode /\ age'[lockFile'] = 0
    BY <2>1, NoInodeAssumption DEF LockTypeOK
  <2>. QED
    BY <1>2, <2>2 DEF OpenCreates, LockTypeOK
<1>3. ASSUME NEW p \in Procs, OpenExists(p) PROVE LockInv'
  BY <1>3 DEF OpenExists, LockTypeOK
<1>4. ASSUME NEW p \in Procs, StatStale(p) PROVE FALSE
  BY <1>4, NeverStale DEF StatStale
<1>5. ASSUME NEW p \in Procs, Sleep(p) PROVE LockInv'
  BY <1>5 DEF Sleep, LockTypeOK
<1>6. ASSUME NEW p \in Procs, GiveUp(p) PROVE LockInv'
  BY <1>6 DEF GiveUp, LockTypeOK
<1>7. ASSUME NEW p \in Procs, \/ RenameAside(p) \/ RenameGone(p)
                              \/ InspectSame(p) \/ InspectOther(p)
                              \/ PutBack(p) \/ DropAside(p)
      PROVE FALSE
  BY <1>7 DEF RenameAside, RenameGone, InspectSame, InspectOther, PutBack, DropAside
<1>8. ASSUME NEW p \in Procs, Release(p) PROVE LockInv'
  BY <1>8 DEF Release, LockTypeOK
<1>9. ASSUME NEW p \in Procs, Crash(p) \/ Restart(p) PROVE FALSE
  BY <1>9 DEF Restart, LockTypeOK
<1>10. CASE Tick
  <2>1. lockFile # NoInode => age'[lockFile] = 0
    <3>. SUFFICES ASSUME lockFile # NoInode PROVE age'[lockFile] = 0
      OBVIOUS
    <3>1. Touched(lockFile)
      BY DEF Touched, Holders
    <3>. QED
      BY <1>10, <3>1 DEF Tick, LockTypeOK
  <2>. QED
    BY <1>10, <2>1 DEF Tick, LockTypeOK
<1>11. CASE UNCHANGED lockVars
  BY <1>11 DEF lockVars, LockTypeOK
<1>. QED
  BY <1>1, <1>2, <1>3, <1>4, <1>5, <1>6, <1>7, <1>8, <1>9, <1>10, <1>11
  DEF LockNext, LockStep

\* Without crashes the invariant holds throughout.
LEMMA LockInvariance == ASSUME MaxCrashes = 0 PROVE LockSpec => []LockInv
<1>1. LockInv => \A p \in Procs : ~ Crash(p)
  BY ConstantTypes DEF Crash, LockInv, LockTypeOK
<1>2. LockInv /\ LockTypeOK' /\ [LockNext]_lockVars => LockInv'
  BY <1>1, LockInvStep
<1>. QED
  BY <1>2, LockInvInit, TypeTheorem, PTL DEF LockSpec
-----------------------------------------------------------------------------
\* In the invariant's states at most one process is in its callback.
LEMMA LockInvMutex == LockInv => MutualExclusion
<1>. SUFFICES ASSUME LockInv PROVE Cardinality(Holders) <= 1
  BY DEF MutualExclusion
<1>1. CASE Holders = {}
  BY <1>1, FS_EmptySet
<1>2. CASE Holders # {}
  <2>1. PICK p \in Procs : Holders = {p}
    BY <1>2 DEF LockInv, Holders
  <2>. QED
    BY <2>1, FS_Singleton
<1>. QED
  BY <1>1, <1>2

\* As long as no process dies, the callbacks of one path run one at a time, for
\* any number of processes.
THEOREM MutualExclusionTheorem ==
  ASSUME MaxCrashes = 0 PROVE LockSpec => []MutualExclusion
BY LockInvariance, LockInvMutex, PTL

\* As long as no process dies, the lock implements Mutex: entering is entering an
\* empty critical section and nobody is put out.
THEOREM RefinementTheorem ==
  ASSUME MaxCrashes = 0 PROVE LockSpec => ImplementsMutex
<1>1. LockInit => Abstract!MutexInit
  BY DEF LockInit, Abstract!MutexInit, Holders
<1>2. ASSUME MaxCrashes = 0, LockInv, LockInv', [LockNext]_lockVars
      PROVE [Abstract!MutexNext]_Holders
  <2>0. at \in [Procs -> LockLocations] /\ \A p \in Procs : at[p] \in Sound
    BY <1>2 DEF LockInv, LockTypeOK
  <2>1. ASSUME NEW p \in Procs, OpenCreates(p) PROVE Abstract!Acquire(p)
    <3>1. \A q \in Procs : at[q] # "critical"
      BY <1>2, <2>1 DEF OpenCreates, LockInv
    <3>2. at' = [at EXCEPT ![p] = "critical"]
      BY <2>1 DEF OpenCreates
    <3>3. Holders = {} /\ Holders' = {p}
      BY <2>0, <3>1, <3>2 DEF Holders
    <3>. QED
      BY <3>3 DEF Abstract!Acquire
  <2>2. ASSUME NEW p \in Procs, Release(p) PROVE Abstract!Leave(p)
    <3>1. at[p] = "critical" /\ at' = [at EXCEPT ![p] = "idle"]
      BY <2>2 DEF Release
    <3>2. p \in Holders /\ Holders' = Holders \ {p}
      BY <2>0, <3>1 DEF Holders
    <3>. QED
      BY <3>2 DEF Abstract!Leave
  <2>3. ASSUME NEW p \in Procs,
               \/ Request(p) \/ OpenExists(p) \/ Sleep(p) \/ GiveUp(p)
        PROVE Holders' = Holders
    <3>1. /\ at[p] # "critical"
          /\ \/ at' = [at EXCEPT ![p] = "open"]
             \/ at' = [at EXCEPT ![p] = "stat"]
             \/ at' = [at EXCEPT ![p] = "idle"]
      BY <2>3 DEF Request, OpenExists, Sleep, GiveUp
    <3>. QED
      BY <2>0, <3>1 DEF Holders
  <2>4. ASSUME NEW p \in Procs, StatStale(p) PROVE FALSE
    BY <1>2, <2>4, NeverStale DEF StatStale
  <2>5. ASSUME NEW p \in Procs,
               \/ RenameAside(p) \/ RenameGone(p) \/ InspectSame(p)
               \/ InspectOther(p) \/ PutBack(p) \/ DropAside(p)
               \/ Crash(p) \/ Restart(p)
        PROVE FALSE
    <3>1. at[p] \in Sound /\ ~ Crash(p)
      BY <1>2, <2>0, ConstantTypes DEF Crash, LockInv, LockTypeOK
    <3>. QED
      BY <2>5, <3>1 DEF Sound, RenameAside, RenameGone, InspectSame, InspectOther,
                        PutBack, DropAside, Restart
  <2>6. CASE Tick \/ UNCHANGED lockVars
    BY <2>6 DEF Tick, lockVars, Holders
  <2>. QED
    BY <1>2, <2>1, <2>2, <2>3, <2>4, <2>5, <2>6 DEF LockNext, LockStep, Abstract!MutexNext
<1>. QED
  BY <1>1, <1>2, LockInvariance, PTL DEF LockSpec, ImplementsMutex, Abstract!MutexSpec
-----------------------------------------------------------------------------
\* A lock at least as old as the wait of p, as far as the clock is counted.
AsOldAs(i, p) == age[i] >= waited[p] \/ age[i] > StaleTicks

\* What p can rely on while nobody else has held, taken or broken the lock since it
\* began to wait: whatever is at the path has been there all along.
Uncontended(p) ==
  /\ Holders = {}
  /\ at[p] = "stat" => lockFile # NoInode
  /\ lockFile # NoInode => AsOldAs(lockFile, p)
  /\ aside[p] # NoInode => AsOldAs(aside[p], p)
  /\ \A q \in Breaking : q # p => waited[p] = 0

Patience == \A p \in Procs : at[p] \in Contending /\ ~ contended[p] => Uncontended(p)

LEMMA PatienceInit == LockInit => Patience
BY DEF LockInit, Patience, Contending

\* Who sees the path change hands is contended.
LEMMA ContendOthers ==
  ASSUME LockTypeOK, NEW p \in Procs, Contend(p), NEW q \in Procs, q # p, at[q] \in Contending
  PROVE  contended'[q]
BY DEF Contend

\* The clock does not tick during a break, and a lock that nobody touches ages as fast as
\* the wait.
LEMMA PatienceStep ==
  ASSUME LockTypeOK, LockTypeOK', Patience, [LockNext]_lockVars PROVE Patience'
<1>. USE ConstantTypes
<1>. SUFFICES ASSUME NEW p \in Procs, at'[p] \in Contending, ~ contended'[p]
              PROVE  Uncontended(p)'
  BY DEF Patience
<1>0. /\ at \in [Procs -> LockLocations] /\ contended \in [Procs -> BOOLEAN]
      /\ waited \in [Procs -> 0 .. WaitTicks + 1] /\ age \in [Inodes -> 0 .. StaleTicks + 1]
      /\ lockFile \in Inodes \cup {NoInode} /\ aside \in [Procs -> Inodes \cup {NoInode}]
      /\ \A q \in Procs : aside[q] # NoInode => at[q] \in {"inspect", "putback", "drop"}
  BY DEF LockTypeOK
<1>00. at[p] \in Contending /\ ~ contended[p] => Uncontended(p)
  BY DEF Patience
<1>. USE DEF Uncontended, AsOldAs, Contending, Holders, Breaking
<1>1. ASSUME NEW q \in Procs, Request(q) PROVE Uncontended(p)'
  <2>1. CASE q = p
    <3>1. waited'[p] = 0 /\ at'[p] = "open" /\ aside'[p] = NoInode
      BY <1>0, <1>1, <2>1 DEF Request
    <3>2. Holders = {}
      <4>1. contended'[p] = (Holders # {})
        BY <1>0, <1>1, <2>1 DEF Request
      <4>. QED
        BY <4>1
    <3>3. Holders' = {}
      BY <1>0, <1>1, <3>2 DEF Request
    <3>4. lockFile # NoInode => age[lockFile] \in Nat
      BY <1>0
    <3>. QED
      BY <1>1, <3>1, <3>3, <3>4 DEF Request
  <2>2. CASE q # p
    BY <1>0, <1>00, <1>1, <2>2 DEF Request
  <2>. QED
    BY <2>1, <2>2
<1>2. ASSUME NEW q \in Procs, OpenCreates(q) PROVE Uncontended(p)'
  <2>1. q # p /\ at[p] \in Contending
    BY <1>0, <1>2 DEF OpenCreates
  <2>. QED
    BY <1>2, <2>1, ContendOthers DEF OpenCreates
<1>3. ASSUME NEW q \in Procs, OpenExists(q) PROVE Uncontended(p)'
  BY <1>0, <1>00, <1>3 DEF OpenExists
<1>4. ASSUME NEW q \in Procs, StatStale(q) PROVE Uncontended(p)'
  BY <1>0, <1>00, <1>4 DEF StatStale
<1>5. ASSUME NEW q \in Procs, Sleep(q) PROVE Uncontended(p)'
  BY <1>0, <1>00, <1>5 DEF Sleep
<1>6. ASSUME NEW q \in Procs, GiveUp(q) PROVE Uncontended(p)'
  BY <1>0, <1>00, <1>6 DEF GiveUp
<1>7. ASSUME NEW q \in Procs, RenameAside(q) PROVE Uncontended(p)'
  <2>1. q = p
    BY <1>0, <1>7, ContendOthers DEF RenameAside
  <2>2. ~ contended[p] /\ at[p] = "rename"
    BY <1>0, <1>7, <2>1 DEF RenameAside, Contend
  <2>. QED
    BY <1>0, <1>00, <1>7, <2>1, <2>2 DEF RenameAside
<1>8. ASSUME NEW q \in Procs, RenameGone(q) PROVE Uncontended(p)'
  BY <1>0, <1>00, <1>8 DEF RenameGone
<1>9. ASSUME NEW q \in Procs, InspectSame(q) PROVE Uncontended(p)'
  BY <1>0, <1>00, <1>9 DEF InspectSame
<1>10. ASSUME NEW q \in Procs, InspectOther(q) PROVE Uncontended(p)'
  BY <1>0, <1>00, <1>10 DEF InspectOther
<1>11. ASSUME NEW q \in Procs, PutBack(q) PROVE Uncontended(p)'
  <2>1. at[p] \in Contending /\ ~ contended[p]
    BY <1>0, <1>11 DEF PutBack
  <2>2. q # p => waited[p] = 0
    BY <1>0, <1>00, <1>11, <2>1 DEF PutBack
  <2>3. Holders' = {} /\ lockFile # NoInode => lockFile' = lockFile
    BY <1>0, <1>00, <1>11, <2>1 DEF PutBack
  <2>4. lockFile' # NoInode => AsOldAs(lockFile, p)'
    BY <1>0, <1>00, <1>11, <2>1, <2>2 DEF PutBack
  <2>. QED
    BY <1>0, <1>00, <1>11, <2>1, <2>2, <2>3, <2>4 DEF PutBack
<1>12. ASSUME NEW q \in Procs, DropAside(q) PROVE Uncontended(p)'
  BY <1>0, <1>00, <1>12 DEF DropAside
<1>13. ASSUME NEW q \in Procs, Release(q) PROVE Uncontended(p)'
  BY <1>0, <1>00, <1>13 DEF Release
<1>14. ASSUME NEW q \in Procs, Crash(q) PROVE Uncontended(p)'
  BY <1>0, <1>00, <1>14 DEF Crash
<1>15. ASSUME NEW q \in Procs, Restart(q) PROVE Uncontended(p)'
  BY <1>0, <1>00, <1>15 DEF Restart
<1>16. CASE Tick
  <2>1. Holders = {} /\ Breaking = {} /\ at' = at /\ lockFile' = lockFile /\ aside' = aside
    BY <1>0, <1>00, <1>16 DEF Tick
  <2>2. aside[p] = NoInode
    BY <1>0, <2>1
  <2>3. ASSUME lockFile # NoInode PROVE AsOldAs(lockFile, p)'
    <3>1. ~ Touched(lockFile) /\ lockFile \in Linked
      BY <2>1 DEF Touched, Linked
    <3>2. age'[lockFile] = IF age[lockFile] <= StaleTicks THEN age[lockFile] + 1 ELSE age[lockFile]
      BY <1>0, <1>16, <2>3, <3>1 DEF Tick
    <3>3. waited'[p] <= waited[p] + 1
      BY <1>0, <1>16 DEF Tick
    <3>4. AsOldAs(lockFile, p)
      BY <1>0, <1>00, <1>16, <2>3 DEF Tick
    <3>5. /\ age[lockFile] \in 0 .. StaleTicks + 1 /\ waited[p] \in 0 .. WaitTicks + 1
          /\ waited'[p] \in 0 .. WaitTicks + 1
      BY <1>0, <2>3 DEF LockTypeOK
    <3>. QED
      BY <2>1, <3>2, <3>3, <3>4, <3>5
  <2>. QED
    BY <1>0, <1>00, <1>16, <2>1, <2>2, <2>3 DEF Tick
<1>17. CASE UNCHANGED lockVars
  BY <1>0, <1>00, <1>17 DEF lockVars
<1>. QED
  BY <1>1, <1>2, <1>3, <1>4, <1>5, <1>6, <1>7, <1>8, <1>9, <1>10, <1>11, <1>12,
     <1>13, <1>14, <1>15, <1>16, <1>17 DEF LockNext, LockStep

\* ELOCKED, whoever dies and whenever: a lock that a dead process left is broken before
\* LOCK_WAIT_MS are over, so who gives up has been outrun by somebody alive.
THEOREM PatienceTheorem == LockSpec => GivesUpOnlyIfContended
<1>1. ASSUME LockTypeOK, Patience
      PROVE  \A p \in Procs : GiveUp(p) => contended[p]
  <2>. SUFFICES ASSUME NEW p \in Procs, GiveUp(p), ~ contended[p] PROVE FALSE
    OBVIOUS
  <2>1. Uncontended(p)
    BY <1>1 DEF Patience, GiveUp, Contending
  <2>2. waited[p] > StaleTicks /\ age[lockFile] \in Nat
    BY <1>1, <2>1, ConstantTypes, TicksAssumption DEF GiveUp, LockTypeOK, Uncontended
  <2>. QED
    BY <1>1, <2>1, <2>2, ConstantTypes, TicksAssumption
    DEF GiveUp, Uncontended, AsOldAs, NotStale, IsStale, LockTypeOK
<1>2. LockTypeOK /\ LockTypeOK' /\ Patience /\ [LockNext]_lockVars => Patience'
  BY PatienceStep
<1>. QED
  BY <1>1, <1>2, PatienceInit, TypeTheorem, PTL DEF LockSpec, GivesUpOnlyIfContended
-----------------------------------------------------------------------------
\* Two processes at one lock, the server and a command-line tool, of which one may die
\* once, on a file system that gives no inode number out again while somebody
\* remembers it.
Pair == /\ \A p, q, r \in Procs : p = q \/ q = r \/ p = r
        /\ MaxCrashes <= 1 /\ InodeReuse = FALSE

\* At the lock file of p, or at that which somebody else is about to give back to it.
InTheWay(q) == at[q] \in {"inspect", "putback"} /\ aside[q] \in Inodes /\ age[aside[q]] = 0

\* The inductive invariant: before the first death that of the lock without crashes;
\* whatever a contender is about to break is stale, and stays so; and a callback has a
\* fresh lock file, at its place or with the other one, which will give it back.
PairInv ==
  /\ LockTypeOK
  /\ crashes = 0 => LockInv
  /\ \A p \in Procs :
       /\ (at[p] \in {"rename", "inspect", "putback", "drop"}) <=> observed[p] # NoInode
       /\ observed[p] # NoInode => IsStale(observed[p])
       /\ at[p] = "critical" =>
            /\ \A q \in Procs : at[q] = "critical" => q = p
            /\ lockFile # NoInode => age[lockFile] = 0
            /\ lockFile = NoInode => \E q \in Procs : q # p /\ InTheWay(q)

LEMMA PairInit == LockInit => PairInv
<1>. SUFFICES ASSUME LockInit PROVE PairInv
  OBVIOUS
<1>1. LockInv
  BY LockInvInit
<1>. QED
  BY <1>1 DEF LockInit, PairInv, LockInv

\* The one crash: there is nothing to break yet.
LEMMA PairCrash ==
  ASSUME Pair, PairInv, LockTypeOK', NEW p \in Procs, Crash(p) PROVE PairInv'
<1>1. crashes = 0 /\ crashes' = 1
  BY ConstantTypes DEF Pair, PairInv, LockTypeOK, Crash
<1>2. LockInv
  BY <1>1 DEF PairInv
<1>3. \A q \in Procs : at[q] \in Sound /\ observed[q] = NoInode
  BY <1>2 DEF LockInv, Sound, PairInv
<1>4. /\ at' = [at EXCEPT ![p] = "dead"] /\ observed' = [observed EXCEPT ![p] = NoInode]
      /\ lockFile' = lockFile /\ age' = age
  BY DEF Crash
<1>5. ASSUME NEW q \in Procs, at'[q] = "critical"
      PROVE  /\ \A r \in Procs : at'[r] = "critical" => r = q
             /\ lockFile' # NoInode /\ age'[lockFile'] = 0
  BY <1>2, <1>4, <1>5 DEF LockInv, LockTypeOK
<1>6. \A q \in Procs : at'[q] \in Sound \cup {"dead"} /\ observed'[q] = NoInode
  BY <1>3, <1>4 DEF PairInv, LockTypeOK
<1>. QED
  BY <1>1, <1>5, <1>6 DEF PairInv, Sound

\* Every step keeps the invariant.
LEMMA PairStep ==
  ASSUME Pair, PairInv, LockTypeOK', [LockNext]_lockVars, crashes = 0 => crashes' = 1 \/ LockInv'
  PROVE  PairInv'
<1>. USE ConstantTypes, NoInodeAssumption
<1>0. /\ at \in [Procs -> LockLocations] /\ aside \in [Procs -> Inodes \cup {NoInode}]
      /\ age \in [Inodes -> 0 .. StaleTicks + 1] /\ observed \in [Procs -> Inodes \cup {NoInode}]
      /\ lockFile \in Inodes \cup {NoInode} /\ crashes \in Nat
  BY DEF PairInv, LockTypeOK
<1>1. \A p, q, r \in Procs : p = q \/ q = r \/ p = r
  BY DEF Pair
<1>2. crashes' = 0 => LockInv'
  BY <1>0 DEF LockNext, LockStep, lockVars, Request, OpenCreates, OpenExists, StatStale, Sleep, GiveUp, RenameAside, RenameGone, InspectSame, InspectOther, PutBack, DropAside, Release, Crash, Restart, Tick
<1>. USE DEF PairInv, InTheWay, IsStale
<1>3. ASSUME NEW q \in Procs, Request(q) PROVE PairInv'
  BY <1>0, <1>2, <1>3 DEF Request
<1>4. ASSUME NEW q \in Procs, OpenCreates(q) PROVE PairInv'
  <2>1. PICK i \in FreeInodes : lockFile' = i /\ age' = [age EXCEPT ![i] = 0]
    BY <1>4 DEF OpenCreates
  <2>2. i \in Inodes /\ \A p \in Procs : observed[p] # i
    BY <2>1 DEF FreeInodes, Pair
  <2>3. \A p \in Procs : at[p] # "critical"
    BY <1>0, <1>1, <1>4 DEF OpenCreates
  <2>. QED
    BY <1>0, <1>2, <1>4, <2>1, <2>2, <2>3 DEF OpenCreates
<1>5. ASSUME NEW q \in Procs, OpenExists(q) PROVE PairInv'
  BY <1>0, <1>2, <1>5 DEF OpenExists
<1>6. ASSUME NEW q \in Procs, StatStale(q) PROVE PairInv'
  BY <1>0, <1>2, <1>6 DEF StatStale
<1>7. ASSUME NEW q \in Procs, Sleep(q) PROVE PairInv'
  BY <1>0, <1>2, <1>7 DEF Sleep
<1>8. ASSUME NEW q \in Procs, GiveUp(q) PROVE PairInv'
  BY <1>0, <1>2, <1>8 DEF GiveUp
<1>9. ASSUME NEW q \in Procs, RenameAside(q) PROVE PairInv'
  BY <1>0, <1>2, <1>9 DEF RenameAside
<1>10. ASSUME NEW q \in Procs, RenameGone(q) PROVE PairInv'
  BY <1>0, <1>2, <1>10 DEF RenameGone
<1>11. ASSUME NEW q \in Procs, InspectSame(q) PROVE PairInv'
  BY <1>0, <1>1, <1>2, <1>11 DEF InspectSame
<1>12. ASSUME NEW q \in Procs, InspectOther(q) PROVE PairInv'
  BY <1>0, <1>2, <1>12 DEF InspectOther
<1>13. ASSUME NEW q \in Procs, PutBack(q) PROVE PairInv'
  BY <1>0, <1>1, <1>2, <1>13 DEF PutBack
<1>14. ASSUME NEW q \in Procs, DropAside(q) PROVE PairInv'
  BY <1>0, <1>1, <1>2, <1>14 DEF DropAside
<1>15. ASSUME NEW q \in Procs, Release(q) PROVE PairInv'
  BY <1>0, <1>2, <1>15 DEF Release
<1>16. ASSUME NEW q \in Procs, Restart(q) PROVE PairInv'
  BY <1>0, <1>2, <1>16 DEF Restart
<1>17. CASE Tick
  <2>1. ASSUME NEW p \in Procs, observed[p] # NoInode PROVE age'[observed[p]] > StaleTicks
    <3>1. ~ Touched(observed[p])
      BY <1>0, <2>1 DEF Touched, Holders
    <3>. QED
      BY <1>0, <1>17, <2>1, <3>1 DEF Tick
  <2>2. ASSUME NEW p \in Procs, at[p] = "critical" PROVE lockFile # NoInode /\ age'[lockFile] = 0
    <3>1. lockFile # NoInode
      BY <1>17, <2>2 DEF Tick, Breaking
    <3>2. Touched(lockFile)
      BY <2>2 DEF Touched, Holders
    <3>. QED
      BY <1>0, <1>17, <3>1, <3>2 DEF Tick
  <2>3. at' = at /\ lockFile' = lockFile /\ observed' = observed
    BY <1>17 DEF Tick
  <2>. QED
    BY <1>2, <2>1, <2>2, <2>3
<1>18. CASE UNCHANGED lockVars
  BY <1>2, <1>18 DEF lockVars
<1>. QED
  BY <1>3, <1>4, <1>5, <1>6, <1>7, <1>8, <1>9, <1>10, <1>11, <1>12, <1>13, <1>14, <1>15,
     <1>16, <1>17, <1>18, PairCrash DEF LockNext, LockStep

LEMMA PairInvariance == ASSUME Pair PROVE LockSpec => []PairInv
<1>1. ASSUME Pair, PairInv, LockTypeOK', [LockNext]_lockVars PROVE PairInv'
  <2>1. crashes = 0 => crashes' = 1 \/ LockInv'
    <3>. SUFFICES ASSUME crashes = 0 PROVE crashes' = 1 \/ LockInv'
      OBVIOUS
    <3>1. CASE \E p \in Procs : Crash(p)
      BY <3>1 DEF Crash
    <3>2. CASE \A p \in Procs : ~ Crash(p)
      BY <1>1, <3>2, LockInvStep DEF PairInv
    <3>. QED
      BY <3>1, <3>2
  <2>. QED
    BY <1>1, <2>1, PairStep
<1>. QED
  BY <1>1, PairInit, TypeTheorem, PTL DEF LockSpec

\* Between two such processes a callback always has a lock file that keeps the other
\* out, or the other is about to give it back: what withLock relies on when a lock was
\* left behind and is broken.
THEOREM LockSafeTheorem == ASSUME Pair PROVE LockSpec => []LockSafe
<1>1. PairInv => LockSafe
  <2>. SUFFICES ASSUME PairInv PROVE HolderHasLock
    BY DEF PairInv, LockSafe
  <2>. QED
    BY DEF PairInv, InTheWay, HolderHasLock, Holders, Breaking
<1>. QED
  BY <1>1, PairInvariance, PTL

\* And breakStaleLock removes only a lock that is stale then, not only when it was
\* looked at: "and only that lock".
THEOREM BreaksOnlyStaleTheorem == ASSUME Pair PROVE LockSpec => BreaksOnlyStale
<1>1. PairInv => \A p \in Procs : InspectSame(p) => IsStale(aside[p])
  BY DEF PairInv, InspectSame
<1>. QED
  BY <1>1, PairInvariance, PTL DEF LockSpec, BreaksOnlyStale

\* They too implement Mutex: entering, leaving and dying are its only steps.
THEOREM PairTheorem == ASSUME Pair PROVE LockSpec => ImplementsMutex
<1>1. LockInit => Abstract!MutexInit
  BY DEF LockInit, Abstract!MutexInit, Holders
<1>2. ASSUME Pair, PairInv, [LockNext]_lockVars PROVE [Abstract!MutexNext]_Holders
  <2>0. at \in [Procs -> LockLocations]
    BY <1>2 DEF PairInv, LockTypeOK
  <2>1. ASSUME NEW p \in Procs, OpenCreates(p) PROVE Abstract!Acquire(p)
    <3>1. \A q \in Procs : at[q] # "critical"
      BY <1>2, <2>1 DEF OpenCreates, PairInv, InTheWay, Pair
    <3>2. at' = [at EXCEPT ![p] = "critical"]
      BY <2>1 DEF OpenCreates
    <3>3. Holders = {} /\ Holders' = {p}
      BY <2>0, <3>1, <3>2 DEF Holders
    <3>. QED
      BY <3>3 DEF Abstract!Acquire
  <2>2. ASSUME NEW p \in Procs, Release(p) \/ Crash(p), at[p] = "critical"
        PROVE  Abstract!Leave(p)
    <3>1. at' = [at EXCEPT ![p] = "idle"] \/ at' = [at EXCEPT ![p] = "dead"]
      BY <2>2 DEF Release, Crash
    <3>2. p \in Holders /\ Holders' = Holders \ {p}
      BY <2>0, <2>2, <3>1 DEF Holders
    <3>. QED
      BY <3>2 DEF Abstract!Leave
  <2>3. ASSUME NEW p \in Procs, at[p] # "critical",
               Request(p) \/ Crash(p) \/ Restart(p) \/ (LockStep(p) /\ ~ OpenCreates(p))
        PROVE  Holders' = Holders
    <3>1. \E l \in LockLocations \ {"critical"} : at' = [at EXCEPT ![p] = l]
      BY <2>3 DEF Request, Crash, Restart, LockStep, OpenExists, StatStale, Sleep, GiveUp, RenameAside,
                  RenameGone, InspectSame, InspectOther, PutBack, DropAside, Release, LockLocations
    <3>. QED
      BY <2>0, <2>3, <3>1 DEF Holders
  <2>4. ASSUME NEW p \in Procs, at[p] = "critical", LockStep(p) \/ Request(p) \/ Restart(p)
        PROVE  Release(p)
    BY <2>4 DEF Request, Restart, LockStep, OpenCreates, OpenExists, StatStale, Sleep, GiveUp,
                RenameAside, RenameGone, InspectSame, InspectOther, PutBack, DropAside
  <2>5. CASE Tick \/ UNCHANGED lockVars
    BY <2>5 DEF Tick, lockVars, Holders
  <2>. QED
    BY <1>2, <2>1, <2>2, <2>3, <2>4, <2>5 DEF LockNext, Abstract!MutexNext
<1>. QED
  BY <1>1, <1>2, PairInvariance, PTL DEF LockSpec, ImplementsMutex, Abstract!MutexSpec
-----------------------------------------------------------------------------
\* Any two requests for a key arrived one before the other.
Ordered ==
  \A r, s \in Requests :
    r # s /\ key[r] # NoKey /\ key[r] = key[s] => r \in before[s] \/ s \in before[r]

SameKey ==
  \A r \in Requests : \A s \in before[r] : key[r] # NoKey /\ key[s] = key[r]

\* Whoever is unfinished among those before r is r's predecessor or before it.
Chained ==
  \A r \in Requests : \A s \in before[r] :
    Unfinished(s) => /\ previous[r] # NoRequest
                     /\ s = previous[r] \/ s \in before[previous[r]]

\* A request that has started had a predecessor that has settled.
Started ==
  \A r \in Requests : status[r] \notin {"new", "waiting"} => Resolved(previous[r])

\* The entry of a key is the last arrival, or nobody there is unfinished.
Entry ==
  \A k \in Keys :
    \A s \in Requests :
      key[s] = k /\ Unfinished(s) =>
        /\ tail[k] # NoRequest
        /\ s = tail[k] \/ s \in before[tail[k]]

EntryKey == \A k \in Keys : tail[k] # NoRequest => key[tail[k]] = k /\ status[tail[k]] # "done"

ChainInv ==
  /\ ChainTypeOK /\ Ordered /\ SameKey /\ Chained
  /\ Started /\ Entry /\ EntryKey /\ ArrivalOrder

LEMMA ChainInvInit == ChainInit => ChainInv
BY SentinelAssumption
DEF ChainInit, ChainInv, ChainTypeOK, Statuses, Outcomes, Ordered, SameKey, Chained, Started, Entry,
    EntryKey, ArrivalOrder, Resolved, Unfinished

\* An arrival keeps the invariant: it comes after everybody for its key.
LEMMA ArriveInv == ASSUME NEW r \in Requests, NEW k \in Keys, ChainInv, Arrive(r, k)
                   PROVE ChainInv'
<1>. USE SentinelAssumption DEF ChainInv, Arrive
<1>1. /\ key \in [Requests -> Keys \cup {NoKey}] /\ status \in [Requests -> Statuses]
      /\ tail \in [Keys -> Requests \cup {NoRequest}]
      /\ previous \in [Requests -> Requests \cup {NoRequest}]
      /\ before \in [Requests -> SUBSET Requests]
  BY DEF ChainTypeOK
<1>2. key[r] = NoKey /\ \A s \in Requests : r \notin before[s] /\ key[r] # k
  BY DEF ChainTypeOK, SameKey
<1>3. ChainTypeOK'
  BY <1>1 DEF ChainTypeOK, Statuses, Outcomes
<1>4. Ordered'
  BY <1>1, <1>2 DEF Ordered
<1>5. SameKey'
  BY <1>1, <1>2 DEF SameKey
<1>6. \A s \in Requests : s # r => (Unfinished(s)' <=> Unfinished(s))
  BY <1>1 DEF Unfinished
<1>7. Chained'
  <2>. SUFFICES ASSUME NEW q \in Requests, NEW s \in before'[q], Unfinished(s)'
                PROVE /\ previous'[q] # NoRequest
                      /\ s = previous'[q] \/ s \in before'[previous'[q]]
    BY DEF Chained
  <2>1. CASE q = r
    <3>1. s \in Requests /\ s # r /\ key[s] = k /\ Unfinished(s)
      BY <1>1, <1>2, <1>6, <2>1
    <3>2. tail[k] # NoRequest /\ (s = tail[k] \/ s \in before[tail[k]])
      BY <3>1 DEF Entry
    <3>3. tail[k] # r
      BY <1>2, <3>2 DEF EntryKey
    <3>. QED
      BY <1>1, <2>1, <3>2, <3>3
  <2>2. CASE q # r
    <3>1. s \in before[q] /\ s # r /\ s \in Requests /\ Unfinished(s)
      BY <1>1, <1>2, <1>6, <2>2
    <3>2. previous[q] # NoRequest /\ (s = previous[q] \/ s \in before[previous[q]])
      BY <3>1 DEF Chained
    <3>3. previous[q] \in Requests /\ previous[q] # r
      BY <1>1, <1>2, <3>2, <3>1 DEF SameKey
    <3>. QED
      BY <1>1, <2>2, <3>1, <3>2, <3>3
  <2>. QED
    BY <2>1, <2>2
<1>8. Started'
  BY <1>1 DEF Started, Resolved, ChainTypeOK, Statuses
<1>9. Entry'
  <2>. SUFFICES ASSUME NEW j \in Keys, NEW s \in Requests, key'[s] = j, Unfinished(s)'
                PROVE  tail'[j] # NoRequest /\ (s = tail'[j] \/ s \in before'[tail'[j]])
    BY DEF Entry
  <2>1. CASE j = k
    <3>1. tail'[j] = r /\ r # NoRequest
      BY <1>1, <2>1
    <3>2. s = r \/ s \in before'[r]
      BY <1>1, <2>1
    <3>. QED
      BY <3>1, <3>2
  <2>2. CASE j # k
    <3>1. s # r /\ key[s] = j /\ Unfinished(s) /\ tail'[j] = tail[j]
      BY <1>1, <1>6, <2>2
    <3>2. tail[j] # NoRequest /\ (s = tail[j] \/ s \in before[tail[j]])
      BY <3>1 DEF Entry
    <3>3. tail[j] \in Requests /\ tail[j] # r
      BY <1>1, <1>2, <3>2 DEF EntryKey
    <3>. QED
      BY <1>1, <3>1, <3>2, <3>3
  <2>. QED
    BY <2>1, <2>2
<1>10. EntryKey'
  <2>. SUFFICES ASSUME NEW j \in Keys, tail'[j] # NoRequest
                PROVE  key'[tail'[j]] = j /\ status'[tail'[j]] # "done"
    BY DEF EntryKey
  <2>1. CASE j = k
    BY <1>1, <2>1
  <2>2. CASE j # k
    <3>1. tail'[j] = tail[j] /\ tail[j] \in Requests /\ key[tail[j]] = j
      BY <1>1, <2>2 DEF EntryKey
    <3>2. tail[j] # r
      BY <1>2, <3>1
    <3>. QED
      BY <1>1, <3>1, <3>2 DEF EntryKey
  <2>. QED
    BY <2>1, <2>2
<1>11. ArrivalOrder'
  BY <1>1, <1>2, <1>6 DEF ArrivalOrder
<1>. QED
  BY <1>3, <1>4, <1>5, <1>7, <1>8, <1>9, <1>10, <1>11

\* A request that starts is next: whoever came before it has settled.
LEMMA ResumeInv == ASSUME NEW r \in Requests, ChainInv, Resume(r) PROVE ChainInv'
<1>. USE SentinelAssumption DEF ChainInv, Resume
<1>1. /\ status \in [Requests -> Statuses]
      /\ previous \in [Requests -> Requests \cup {NoRequest}]
      /\ before \in [Requests -> SUBSET Requests]
  BY DEF ChainTypeOK
<1>2. \A s \in before[r] : ~ Unfinished(s)
  <2>. SUFFICES ASSUME NEW s \in before[r], Unfinished(s) PROVE FALSE
    OBVIOUS
  <2>1. previous[r] # NoRequest /\ (s = previous[r] \/ s \in before[previous[r]])
    BY DEF Chained
  <2>2. status[previous[r]] \in {"settled", "done"}
    BY <2>1 DEF Resolved
  <2>. QED
    BY <1>1, <2>1, <2>2 DEF ArrivalOrder, Unfinished
<1>3. \A s \in Requests : Unfinished(s)' <=> Unfinished(s)
  BY <1>1 DEF Unfinished
<1>4. ChainTypeOK'
  BY DEF ChainTypeOK, Statuses
<1>5. Ordered' /\ SameKey'
  BY DEF Ordered, SameKey
<1>6. Chained'
  BY <1>1, <1>3 DEF Chained
<1>7. Started'
  BY <1>1 DEF Started, Resolved
<1>8. Entry' /\ EntryKey'
  BY <1>1, <1>3 DEF Entry, EntryKey, ChainTypeOK
<1>9. ArrivalOrder'
  BY <1>1, <1>2, <1>3 DEF ArrivalOrder
<1>. QED
  BY <1>4, <1>5, <1>6, <1>7, <1>8, <1>9

\* What the three ways of ending a request have in common.
Ends(r, from, to) ==
  /\ status[r] = from
  /\ status' = [status EXCEPT ![r] = to]
  /\ UNCHANGED <<key, previous, before>>

\* A request that settles, or whose entry is cleaned up, keeps the links.
LEMMA EndInv ==
  ASSUME ChainInv, NEW r \in Requests, NEW from \in {"running", "settled"},
         NEW to \in {"settled", "done"}, Ends(r, from, to), ChainTypeOK',
         Delete(r) \/ (tail' = tail /\ to = "settled")
  PROVE  ChainInv'
<1>. USE DEF ChainInv, Ends
<1>1. /\ status \in [Requests -> Statuses] /\ tail \in [Keys -> Requests \cup {NoRequest}]
      /\ before \in [Requests -> SUBSET Requests]
      /\ previous \in [Requests -> Requests \cup {NoRequest}]
  BY DEF ChainTypeOK
<1>2. \A s \in Requests : Unfinished(s)' => Unfinished(s) /\ s # r
  BY <1>1 DEF Unfinished
<1>3. \A s \in before[r] : ~ Unfinished(s)
  BY DEF ArrivalOrder
<1>4. Ordered' /\ SameKey'
  BY DEF Ordered, SameKey
<1>5. Chained'
  BY <1>1, <1>2 DEF Chained
<1>6. Started'
  BY <1>1 DEF Started, Resolved
<1>7. \A k \in Keys : tail'[k] = tail[k] \/ (tail[k] = r /\ tail'[k] = NoRequest)
  BY <1>1 DEF Delete
<1>8. Entry'
  <2>. SUFFICES ASSUME NEW k \in Keys, NEW s \in Requests, key[s] = k, Unfinished(s)'
                PROVE  tail'[k] # NoRequest /\ (s = tail'[k] \/ s \in before[tail'[k]])
    BY DEF Entry
  <2>1. tail[k] # NoRequest /\ (s = tail[k] \/ s \in before[tail[k]])
    BY <1>2 DEF Entry
  <2>2. tail[k] # r
    BY <1>1, <1>2, <1>3, <2>1
  <2>. QED
    BY <1>7, <2>1, <2>2
<1>9. EntryKey'
  <2>. SUFFICES ASSUME NEW k \in Keys, tail'[k] # NoRequest
                PROVE  key[tail'[k]] = k /\ status'[tail'[k]] # "done"
    BY DEF EntryKey
  <2>1. tail'[k] = tail[k] /\ tail[k] \in Requests /\ (Delete(r) => tail[k] # r)
    BY <1>1, <1>7, SentinelAssumption DEF Delete
  <2>. QED
    BY <1>1, <2>1 DEF EntryKey
<1>10. ArrivalOrder'
  BY <1>1, <1>2 DEF ArrivalOrder
<1>. QED
  BY <1>4, <1>5, <1>6, <1>8, <1>9, <1>10

LEMMA ChainInvStep == ChainInv /\ [ChainNext]_chainVars => ChainInv'
<1>. SUFFICES ASSUME ChainInv, [ChainNext]_chainVars PROVE ChainInv'
  OBVIOUS
<1>1. ASSUME NEW r \in Requests, NEW k \in Keys, Arrive(r, k) PROVE ChainInv'
  BY <1>1, ArriveInv
<1>2. ASSUME NEW r \in Requests, Resume(r) PROVE ChainInv'
  BY <1>2, ResumeInv
<1>3. ASSUME NEW r \in Requests, SettleAndDelete(r) PROVE ChainInv'
  <2>1. ChainTypeOK'
    BY <1>3, SentinelAssumption
    DEF SettleAndDelete, Delete, ChainInv, ChainTypeOK, Statuses, Outcomes
  <2>2. Ends(r, "running", "done") /\ Delete(r)
    BY <1>3 DEF SettleAndDelete, Ends
  <2>. QED
    BY <2>1, <2>2, EndInv
<1>4. ASSUME NEW r \in Requests, Settle(r) PROVE ChainInv'
  <2>1. ChainTypeOK'
    BY <1>4, SentinelAssumption DEF Settle, ChainInv, ChainTypeOK, Statuses, Outcomes
  <2>2. Ends(r, "running", "settled") /\ tail' = tail
    BY <1>4 DEF Settle, Ends
  <2>. QED
    BY <2>1, <2>2, EndInv
<1>5. ASSUME NEW r \in Requests, Cleanup(r) PROVE ChainInv'
  <2>1. ChainTypeOK'
    BY <1>5, SentinelAssumption DEF Cleanup, Delete, ChainInv, ChainTypeOK, Statuses, Outcomes
  <2>2. Ends(r, "settled", "done") /\ Delete(r)
    BY <1>5 DEF Cleanup, Ends
  <2>. QED
    BY <2>1, <2>2, EndInv
<1>6. CASE UNCHANGED chainVars
  BY <1>6 DEF chainVars, ChainInv, ChainTypeOK, Ordered, SameKey, Chained, Started, Entry, EntryKey,
              ArrivalOrder, Resolved, Unfinished
<1>. QED
  BY <1>1, <1>2, <1>3, <1>4, <1>5, <1>6 DEF ChainNext, ChainStep
-----------------------------------------------------------------------------
\* Requests for a key run in the order in which they arrived.
THEOREM ArrivalOrderTheorem == ChainSpec => []ArrivalOrder
<1>1. ChainInv => ArrivalOrder
  BY DEF ChainInv
<1>. QED
  BY <1>1, ChainInvInit, ChainInvStep, PTL DEF ChainSpec

\* At most one request for a key runs at any time.
THEOREM OneAtATimeTheorem == ChainSpec => []OneAtATime
<1>1. ChainInv => OneAtATime
  BY DEF ChainInv, ChainTypeOK, Ordered, ArrivalOrder, Unfinished, OneAtATime
<1>. QED
  BY <1>1, ChainInvInit, ChainInvStep, PTL DEF ChainSpec

\* The map has an entry for a key while somebody there waits or runs, and none
\* once everybody is through: it neither loses a waiting request nor leaks.
THEOREM MapExactTheorem == ChainSpec => []MapExact
<1>1. ChainInv => MapExact
  BY DEF ChainInv, ChainTypeOK, Entry, EntryKey, MapExact
<1>. QED
  BY <1>1, ChainInvInit, ChainInvStep, PTL DEF ChainSpec

\* The promise chain is safe, for any number of requests and keys.
THEOREM ChainSafeTheorem == ChainSpec => []ChainSafe
<1>1. ChainInv => ChainTypeOK
  BY DEF ChainInv
<1>2. ChainTypeOK /\ OneAtATime /\ ArrivalOrder /\ MapExact => ChainSafe
  BY DEF ChainSafe
<1>. QED
  BY <1>1, <1>2, ChainInvInit, ChainInvStep, OneAtATimeTheorem, ArrivalOrderTheorem, MapExactTheorem,
     PTL DEF ChainSpec
-----------------------------------------------------------------------------
(***************************************************************************)
(* Conditional writes of one resource, for any number of clients and sizes,*)
(* any methods and preconditions, if two writes never fall in one tick of  *)
(* the file system's clock. The invariant follows an ETag: a recorded one  *)
(* is never younger than the clock (Times), only the lock's holder touches *)
(* the file (Locked, Emptied), and what a holder has checked stays true    *)
(* until its write (Checked).                                              *)
(***************************************************************************)
UnderLock == {"check", "read", "write", "writing", "remove"}

\* The lock protects the handlers.
Locked == \A c \in Clients : pc[c] \in UnderLock => holder = c

\* No ETag is from the future; while a file is being written nobody has the
\* ETag that it is going to have.
Times ==
  /\ tag # NoTag => tag[1] <= clock
  /\ \A c \in Clients : seenTag[c] # NoTag => seenTag[c][1] <= clock
  /\ \A c, d \in Clients :
       pc[c] = "writing" /\ seenTag[d] # NoTag /\ seenTag[d][1] = clock => seenTag[d][2] = 0

Emptied ==
  /\ \A c \in Clients : pc[c] = "writing" => tag = <<clock, 0>> /\ content = {}
  /\ tag = NoTag => content = {}

\* What the methods have to do with the steps.
Shape ==
  \A c \in Clients :
       /\ pc[c] \notin {"write", "writing", "done"} => base[c] = {}
       /\ pc[c] \notin {"idle", "fetching"} => method[c] \in Methods
       /\ pc[c] = "remove" => method[c] = "DELETE"
       /\ pc[c] \in {"read", "write", "writing"} => method[c] \in {"PUT", "PATCH"}
       /\ cond[c] = "match" => seenTag[c] # NoTag
       /\ pc[c] = "idle" => cond[c] = "none"
       /\ pc[c] = "fetching" => cond[c] = "none" /\ seenTag[c] # NoTag

\* What was checked under the lock, before the file is emptied and after.
Creates(c) == method[c] = "PATCH" /\ tag = NoTag

Checked ==
  \A c \in Clients :
    /\ pc[c] \in {"read", "write", "remove"} => Creates(c) \/ PreconditionHolds(c)
    /\ pc[c] = "write" /\ method[c] = "PATCH" => base[c] = content
    /\ pc[c] = "writing" =>
         /\ \/ method[c] = "PATCH" /\ old = Absent
            \/ /\ cond[c] = "match" => old = seen[c] /\ old # Absent /\ tag # seenTag[c]
               /\ cond[c] = "any" => old # Absent
               /\ method[c] = "PUT" /\ cond[c] = "absent" => old = Absent
         /\ method[c] = "PATCH" => base[c] = IF old = Absent THEN {} ELSE old

\* The ETag of a write that has replaced something is spent, and nobody who is still
\* writing is replacing the same body.
Won(c) == cond[c] = "match" /\ result[c] = "ok"

Spent ==
  \A c \in Clients : Won(c) =>
    /\ tag # seenTag[c]
    /\ \A d \in Clients :
         c # d /\ cond[d] = "match" /\ ((pc[d] = "writing" /\ old # Absent) \/ Won(d)) =>
           seenTag[c] # seenTag[d]

WritesInv ==
  /\ TypeOK /\ Locked /\ Times /\ Emptied /\ Shape /\ Checked /\ Spent
  /\ ETagNamesOneBody

LEMMA InitialTag ==
  ASSUME Init
  PROVE  /\ tag \in Tags \cup {NoTag}
         /\ tag # NoTag => tag[1] = 0
<1>1. CASE tag \in {0} \X Sizes
  <2>2. tag = <<tag[1], tag[2]>> /\ tag[1] = 0 /\ tag[2] \in Sizes
    BY <1>1
  <2>3. tag[2] \in Nat
    BY <2>2, ResourceAssumption
  <2>4. tag \in Nat \X Nat
    BY <2>2, <2>3
  <2>. QED
    BY <2>2, <2>4, ResourceAssumption DEF Tags
<1>. QED
  BY <1>1 DEF Init

LEMMA WritesInvInit == Init => WritesInv
<1>. SUFFICES ASSUME Init PROVE WritesInv
  OBVIOUS
<1>1. TypeOK
  BY ResourceAssumption, InitialTag DEF Init, TypeOK, Locations, Results, Conds
<1>2. tag # NoTag => tag[1] = 0
  BY InitialTag
<1>4. \A c \in Clients :
        /\ pc[c] = "idle" /\ cond[c] = "none" /\ seenTag[c] = NoTag
        /\ base[c] = {} /\ result[c] = "none"
  BY DEF Init
<1>5. clock = 0 /\ content = {}
  BY DEF Init
<1>6. Times
  BY <1>2, <1>4, <1>5 DEF Times
<1>7. Locked /\ Emptied /\ Spent /\ ETagNamesOneBody
  BY <1>4, <1>5 DEF Locked, UnderLock, Emptied, Spent, Won, ETagNamesOneBody
<1>8. Shape /\ Checked
  BY <1>4 DEF Shape, Checked
<1>. QED
  BY <1>1, <1>6, <1>7, <1>8 DEF WritesInv
-----------------------------------------------------------------------------
LEMMA TypeStep == TypeOK /\ [Next]_vars => TypeOK'
<1>. SUFFICES ASSUME TypeOK, [Next]_vars PROVE TypeOK'
  OBVIOUS
<1>. USE ResourceAssumption DEF TypeOK, Locations, Results, Conds, Goto, Answer, Leave
<1>1. ASSUME NEW c \in Clients, Client(c) PROVE TypeOK'
  BY <1>1 DEF Client, FetchStat, FetchBody, FetchFails, Send, fileVars
<1>2. ASSUME NEW c \in Clients, ProbeFails(c) \/ Refused(c) \/ CheckFails(c)
                                \/ PatchConflict(c) \/ WriteFails(c) \/ RemoveFails(c) \/ Die(c)
      PROVE TypeOK'
  BY <1>2 DEF ProbeFails, Refused, CheckFails, PatchConflict, WriteFails, RemoveFails, Die,
              fileVars, clientVars
<1>3. ASSUME NEW c \in Clients, ProbePasses(c) \/ Enter(c) \/ CheckPasses(c) \/ ReadBase(c)
      PROVE TypeOK'
  <2>1. CASE ProbePasses(c)
    BY <2>1 DEF ProbePasses, fileVars, clientVars
  <2>2. CASE Enter(c)
    BY <2>2 DEF Enter, fileVars, clientVars
  <2>3. CASE CheckPasses(c)
    BY <2>3 DEF CheckPasses, fileVars, clientVars
  <2>4. CASE ReadBase(c)
    BY <2>4 DEF ReadBase, fileVars, clientVars
  <2>. QED
    BY <1>3, <2>1, <2>2, <2>3, <2>4
<1>4. ASSUME NEW c \in Clients, Truncate(c) PROVE TypeOK'
  <2>1. clock' \in Nat /\ tag' \in Tags
    BY <1>4 DEF Truncate, NextWrite, Tags
  <2>2. old' \in (SUBSET Clients) \cup {Absent} /\ content' = {}
    BY <1>4 DEF Truncate
  <2>3. pc' = [pc EXCEPT ![c] = "writing"] /\ pc[c] = "write"
    BY <1>4 DEF Truncate
  <2>4. UNCHANGED <<holder, method, cond, seenTag, seen, base, result>>
    BY <1>4 DEF Truncate, clientVars
  <2>. QED
    BY <2>1, <2>2, <2>3, <2>4
<1>5. ASSUME NEW c \in Clients, Fill(c) PROVE TypeOK'
  <2>1. clock' \in Nat
    BY <1>5 DEF Fill, SameWrite
  <2>3. tag' \in Tags \cup {NoTag} /\ content' \in SUBSET Clients
    BY <1>5, <2>1, ResourceAssumption DEF Fill, Tags, Written
  <2>. QED
    BY <1>5, <2>1, <2>3 DEF Fill, clientVars
<1>6. ASSUME NEW c \in Clients, Remove(c) PROVE TypeOK'
  BY <1>6 DEF Remove, clientVars
<1>7. CASE UNCHANGED vars
  BY <1>7 DEF vars
<1>. QED
  BY <1>1, <1>2, <1>3, <1>4, <1>5, <1>6, <1>7 DEF Next, Handle
-----------------------------------------------------------------------------
\* Answering a request, whoever holds the lock, leaves the lock to its holder.
LEMMA LeaveLocked ==
  ASSUME TypeOK, Locked, NEW c \in Clients, NEW r \in Results, Answer(c, r)
  PROVE  Locked'
BY DEF Answer, Goto, Leave, Locked, UnderLock, TypeOK

\* A step of c that touches neither the file nor what anybody knows, and that
\* takes c to a place where nothing is claimed of it.
Silent(c) ==
  /\ pc[c] \notin {"idle", "fetching", "done"}
  /\ \E l \in {"queued", "check", "done"} :
       /\ pc' = [pc EXCEPT ![c] = l]
       /\ l = "done" \/ pc[c] \in {"sent", "queued"}
  /\ \/ result' = result
     \/ \E r \in Results \ {"ok"} : result' = [result EXCEPT ![c] = r]
  /\ UNCHANGED <<fileVars, clientVars, base>>

LEMMA SilentStep ==
  ASSUME WritesInv, TypeOK', Locked', NEW c \in Clients, Silent(c) PROVE WritesInv'
<1>. USE DEF WritesInv
<1>1. /\ pc \in [Clients -> Locations] /\ result \in [Clients -> Results]
  BY DEF TypeOK
<1>2. UNCHANGED <<tag, content, old, clock, method, cond, seenTag, seen, base>>
  BY DEF Silent, fileVars, clientVars
<1>3. /\ pc[c] \notin {"idle", "fetching", "done"}
      /\ pc'[c] \in {"queued", "check", "done"}
      /\ pc'[c] = "done" \/ pc[c] \in {"sent", "queued"}
      /\ \A d \in Clients \ {c} : pc'[d] = pc[d]
  BY <1>1 DEF Silent
<1>4. \A d \in Clients : Won(d)' => Won(d)
  BY <1>1, <1>2 DEF Silent, Won
<1>5. Times'
  BY <1>2, <1>3 DEF Times
<1>6. Emptied'
  BY <1>2, <1>3 DEF Emptied
<1>7. Shape'
  BY <1>2, <1>3 DEF Shape
<1>8. Checked'
  BY <1>2, <1>3 DEF Checked, Creates, Shape, PreconditionHolds
<1>9. Spent'
  BY <1>2, <1>3, <1>4 DEF Spent
<1>10. ETagNamesOneBody'
  BY <1>2, <1>3 DEF ETagNamesOneBody
<1>. QED
  BY <1>5, <1>6, <1>7, <1>8, <1>9, <1>10

\* The steps of a handler that change nothing but its own place.
LEMMA HandlerSilent ==
  ASSUME WritesInv, TypeOK', NEW c \in Clients,
         \/ ProbeFails(c) \/ ProbePasses(c) \/ Enter(c) \/ Refused(c) \/ CheckFails(c)
         \/ PatchConflict(c) \/ WriteFails(c) \/ RemoveFails(c) \/ Die(c)
  PROVE  WritesInv'
<1>. USE DEF WritesInv
<1>1. CASE ProbePasses(c)
  <2>1. Silent(c)
    BY <1>1 DEF ProbePasses, Goto, Silent
  <2>2. Locked'
    BY <1>1 DEF ProbePasses, Goto, Locked, UnderLock, TypeOK
  <2>. QED
    BY <2>1, <2>2, SilentStep
<1>2. CASE Enter(c)
  <2>1. Silent(c)
    BY <1>2 DEF Enter, Goto, Silent
  <2>2. Locked'
    BY <1>2, ResourceAssumption DEF Enter, Goto, Locked, UnderLock, TypeOK
  <2>. QED
    BY <2>1, <2>2, SilentStep
<1>3. ASSUME NEW r \in Results \ {"ok"}, Answer(c, r),
             pc[c] \notin {"idle", "fetching", "done"},
             UNCHANGED <<fileVars, clientVars, base>>
      PROVE WritesInv'
  <2>1. Silent(c)
    BY <1>3 DEF Answer, Goto, Silent
  <2>2. Locked'
    BY <1>3, LeaveLocked
  <2>. QED
    BY <2>1, <2>2, SilentStep
<1>4. CASE ProbeFails(c)
  BY <1>3, <1>4 DEF ProbeFails, Results
<1>5. CASE Refused(c)
  BY <1>3, <1>5 DEF Refused, Results
<1>6. CASE CheckFails(c)
  BY <1>3, <1>6 DEF CheckFails, Results
<1>7. CASE PatchConflict(c)
  BY <1>3, <1>7 DEF PatchConflict, Results
<1>8. CASE WriteFails(c)
  BY <1>3, <1>8 DEF WriteFails, Results
<1>9. CASE RemoveFails(c)
  BY <1>3, <1>9 DEF RemoveFails, Results
<1>10. CASE Die(c)
  BY <1>3, <1>10 DEF Die, Results
<1>. QED
  BY <1>1, <1>2, <1>4, <1>5, <1>6, <1>7, <1>8, <1>9, <1>10
-----------------------------------------------------------------------------
\* Reading and sending: only the client's own view changes.
LEMMA ClientStep ==
  ASSUME WritesInv, TypeOK', NEW c \in Clients, Client(c) PROVE WritesInv'
<1>. USE DEF WritesInv, Goto
<1>1. /\ pc \in [Clients -> Locations] /\ result \in [Clients -> Results]
      /\ seenTag \in [Clients -> Tags \cup {NoTag}]
      /\ cond \in [Clients -> Conds] /\ method \in [Clients -> {"none", "PUT", "PATCH", "DELETE"}]
      /\ seen \in [Clients -> (SUBSET Clients) \cup {Absent}]
  BY DEF TypeOK
<1>2. UNCHANGED <<tag, content, old, clock, holder, base, result>>
  BY DEF Client, FetchStat, FetchBody, FetchFails, Send, fileVars
<1>3. /\ pc[c] \in {"idle", "fetching"} /\ pc'[c] \in {"idle", "fetching", "sent"}
      /\ pc' = [pc EXCEPT ![c] = pc'[c]]
      /\ cond[c] = "none" /\ result[c] = "none"
  BY <1>1 DEF Client, FetchStat, FetchBody, FetchFails, Send, Shape, TypeOK
<1>4. \A d \in Clients \ {c} :
        UNCHANGED <<pc[d], method[d], cond[d], seenTag[d], seen[d], base[d], result[d]>>
  BY <1>1, <1>2, <1>3 DEF Client, FetchStat, FetchBody, FetchFails, Send
<1>5. /\ seenTag'[c] \in {seenTag[c], tag, NoTag}
      /\ pc'[c] \in {"idle", "fetching"} => cond'[c] = "none" /\ method'[c] = method[c]
      /\ pc'[c] = "sent" => seenTag'[c] = seenTag[c] /\ method'[c] \in Methods
                            /\ (cond'[c] = "match" => seenTag[c] # NoTag)
  BY <1>1, <1>3 DEF Client, FetchStat, FetchBody, FetchFails, Send
<1>6. Locked'
  BY <1>2, <1>3, <1>4 DEF Locked, UnderLock
<1>7. Times'
  <2>1. \A d \in Clients : seenTag'[d] # NoTag => seenTag'[d][1] <= clock
    BY <1>4, <1>5 DEF Times
  <2>2. ASSUME NEW w \in Clients, NEW d \in Clients, pc'[w] = "writing",
               seenTag'[d] # NoTag, seenTag'[d][1] = clock
        PROVE  seenTag'[d][2] = 0
    <3>1. pc[w] = "writing" /\ tag = <<clock, 0>>
      BY <1>3, <1>4, <2>2 DEF Emptied
    <3>2. CASE d = c
      BY <1>5, <2>2, <3>1, <3>2 DEF Times
    <3>3. CASE d # c
      BY <1>4, <2>2, <3>1, <3>3 DEF Times
    <3>. QED
      BY <3>2, <3>3
  <2>. QED
    BY <1>2, <2>1, <2>2 DEF Times
<1>8. Emptied'
  BY <1>2, <1>3, <1>4 DEF Emptied
<1>9. Shape'
  <2>2. base[c] = {} /\ base'[c] = {}
    BY <1>2, <1>3 DEF Shape
  <2>3. pc'[c] = "fetching" => seenTag'[c] # NoTag
    BY <1>1 DEF Client, FetchStat, FetchBody, FetchFails, Send
  <2>. QED
    BY <1>2, <1>3, <1>4, <1>5, <2>2, <2>3 DEF Shape
<1>10. Checked'
  BY <1>2, <1>3, <1>4 DEF Checked, Creates, Shape, PreconditionHolds
<1>11. Spent'
  BY <1>2, <1>3, <1>4, <1>5 DEF Spent, Won
<1>12. ETagNamesOneBody'
  <2>1. pc'[c] = "idle" /\ seenTag'[c] # NoTag => seen'[c] = content
    BY <1>1 DEF Client, FetchStat, FetchBody, FetchFails, Send
  <2>2. pc'[c] = "sent" => seen'[c] = seen[c] /\ pc[c] # "fetching" /\ seenTag'[c] = seenTag[c]
    BY <1>1 DEF Client, FetchStat, FetchBody, FetchFails, Send
  <2>. QED
    BY <1>2, <1>3, <1>4, <2>1, <2>2 DEF ETagNamesOneBody
<1>. QED
  BY <1>6, <1>7, <1>8, <1>9, <1>10, <1>11, <1>12
-----------------------------------------------------------------------------
\* The check under the lock: what it finds holds for the step that follows.
LEMMA CheckStep ==
  ASSUME WritesInv, TypeOK', NEW c \in Clients, CheckPasses(c) PROVE WritesInv'
<1>. USE DEF WritesInv, CheckPasses, Goto
<1>1. pc \in [Clients -> Locations] /\ pc[c] = "check"
  BY DEF TypeOK
<1>2. UNCHANGED <<tag, content, old, clock, holder, method, cond, seenTag, seen, base, result>>
  BY DEF fileVars, clientVars
<1>3. /\ pc'[c] \in {"write", "read", "remove"}
      /\ \A d \in Clients \ {c} : pc'[d] = pc[d]
      /\ pc'[c] = "remove" => method[c] = "DELETE"
      /\ pc'[c] \in {"write", "read"} => method[c] \in {"PUT", "PATCH"}
  BY <1>1
<1>4. method[c] \in Methods
  BY <1>1 DEF Shape
<1>5. method[c] = "PATCH" =>
        (pc'[c] = "read" /\ tag # NoTag) \/ (base[c] = content /\ tag = NoTag)
  BY <1>1 DEF Shape, Emptied
<1>6. Creates(c) \/ PreconditionHolds(c)
  BY DEF MayProceed, Creates, TypeOK
<1>7. Locked' /\ Times' /\ Emptied'
  BY <1>1, <1>2, <1>3 DEF Locked, UnderLock, Times, Emptied
<1>8. Shape'
  BY <1>1, <1>2, <1>3, <1>4 DEF Shape
<1>9. Checked'
  BY <1>2, <1>3, <1>5, <1>6 DEF Checked, Creates, Shape, PreconditionHolds
<1>10. Spent' /\ ETagNamesOneBody'
  BY <1>1, <1>2, <1>3 DEF Spent, Won, ETagNamesOneBody
<1>. QED
  BY <1>7, <1>8, <1>9, <1>10

LEMMA ReadStep ==
  ASSUME WritesInv, TypeOK', NEW c \in Clients, ReadBase(c) PROVE WritesInv'
<1>. USE DEF WritesInv, ReadBase, Goto
<1>1. pc \in [Clients -> Locations] /\ base \in [Clients -> SUBSET Clients] /\ pc[c] = "read"
  BY DEF TypeOK
<1>2. UNCHANGED <<tag, content, old, clock, holder, method, cond, seenTag, seen, result>>
  BY DEF fileVars, clientVars
<1>3. /\ pc'[c] = "write" /\ base'[c] = content
      /\ \A d \in Clients \ {c} : pc'[d] = pc[d] /\ base'[d] = base[d]
  BY <1>1
<1>4. Locked' /\ Times' /\ Emptied'
  BY <1>1, <1>2, <1>3 DEF Locked, UnderLock, Times, Emptied
<1>5. Shape'
  BY <1>1, <1>2, <1>3 DEF Shape
<1>6. Checked'
  BY <1>1, <1>2, <1>3 DEF Checked, Creates, Shape, PreconditionHolds
<1>7. Spent' /\ ETagNamesOneBody'
  BY <1>1, <1>2, <1>3 DEF Spent, Won, ETagNamesOneBody
<1>. QED
  BY <1>4, <1>5, <1>6, <1>7
-----------------------------------------------------------------------------
\* Only the holder is under the lock.
LEMMA Alone ==
  ASSUME Locked, NEW c \in Clients, pc[c] \in UnderLock,
         NEW d \in Clients, d # c
  PROVE  pc[d] \notin UnderLock
BY DEF Locked

\* Emptying the file gives it an ETag that nobody has, at a time that nobody has
\* seen; what the writer has checked is now true of the body it replaces.
LEMMA TruncateStep ==
  ASSUME DistinctTimes, WritesInv, TypeOK', NEW c \in Clients, Truncate(c) PROVE WritesInv'
<1>. USE DEF WritesInv, Truncate, Goto
<1>1. /\ pc \in [Clients -> Locations] /\ pc[c] = "write" /\ clock \in Nat
      /\ clock' = clock + 1 /\ tag' = <<clock + 1, 0>> /\ tag' # NoTag /\ content' = {}
      /\ old' = IF tag = NoTag THEN Absent ELSE content
  BY ResourceAssumption DEF TypeOK, NextWrite
<1>2. UNCHANGED <<holder, method, cond, seenTag, seen, base, result>>
  BY DEF clientVars
<1>3. pc'[c] = "writing" /\ \A d \in Clients \ {c} : pc'[d] = pc[d] /\ pc[d] \notin UnderLock
  BY <1>1, Alone DEF UnderLock
<1>4. \A d \in Clients : seenTag[d] # NoTag => seenTag[d] # tag' /\ seenTag[d][1] < clock'
  <2>. SUFFICES ASSUME NEW d \in Clients, seenTag[d] # NoTag
                PROVE  seenTag[d] # tag' /\ seenTag[d][1] < clock'
    OBVIOUS
  <2>1. seenTag[d] \in Nat \X Nat /\ seenTag[d][1] <= clock
    BY DEF TypeOK, Tags, Times
  <2>. QED
    BY <1>1, <2>1
<1>5. Locked'
  BY <1>1, <1>2, <1>3 DEF Locked, UnderLock
<1>6. Times'
  <2>1. tag'[1] <= clock'
    BY <1>1
  <2>2. \A d \in Clients : seenTag'[d] # NoTag => seenTag'[d][1] <= clock' /\ seenTag'[d][1] # clock'
    BY <1>1, <1>2, <1>4 DEF TypeOK, Tags
  <2>. QED
    BY <2>1, <2>2 DEF Times
<1>7. Emptied'
  BY <1>1, <1>3 DEF Emptied, UnderLock
<1>8. Shape'
  BY <1>1, <1>2, <1>3 DEF Shape
<1>9. (Creates(c) \/ PreconditionHolds(c)) /\ (method[c] = "PATCH" => base[c] = content)
  BY <1>1 DEF Checked
<1>10. Checked'
  <2>1. \A d \in Clients : d # c => pc'[d] \notin {"read", "write", "remove", "writing"}
    BY <1>3 DEF UnderLock
  <2>2. ASSUME PreconditionHolds(c)
        PROVE  /\ cond[c] = "match" => old' = seen[c] /\ old' # Absent /\ tag' # seenTag[c]
               /\ cond[c] = "any" => old' # Absent
               /\ method[c] = "PUT" /\ cond[c] = "absent" => old' = Absent
    <3>1. content # Absent
      BY ResourceAssumption DEF TypeOK
    <3>2. cond[c] = "match" => tag # NoTag /\ seenTag[c] = tag /\ seen[c] = content
      BY <1>1, <2>2 DEF PreconditionHolds, ETagNamesOneBody
    <3>. QED
      BY <1>1, <1>4, <2>2, <3>1, <3>2 DEF PreconditionHolds
  <2>3. Creates(c) => method[c] = "PATCH" /\ old' = Absent
    BY <1>1 DEF Creates
  <2>4. method[c] = "PATCH" => base[c] = IF old' = Absent THEN {} ELSE old'
    BY <1>1, <1>9, ResourceAssumption DEF TypeOK, Emptied
  <2>. QED
    BY <1>2, <1>3, <1>9, <2>1, <2>2, <2>3, <2>4 DEF Checked
<1>11. Spent'
  <2>. SUFFICES ASSUME NEW d \in Clients, Won(d)'
                PROVE  /\ tag' # seenTag[d]
                       /\ \A e \in Clients :
                            d # e /\ cond[e] = "match" /\ ((pc'[e] = "writing" /\ old' # Absent) \/ Won(e)) =>
                              seenTag[d] # seenTag[e]
    BY <1>2 DEF Spent, Won
  <2>1. Won(d) /\ d # c /\ seenTag[d] # NoTag /\ tag # seenTag[d]
    BY <1>1, <1>2 DEF Won, Spent, Shape, TypeOK
  <2>2. cond[c] = "match" /\ old' # Absent => seenTag[c] = tag
    BY <1>1, <1>9 DEF PreconditionHolds, Creates
  <2>. QED
    BY <1>3, <1>4, <2>1, <2>2 DEF Spent, UnderLock
<1>12. ETagNamesOneBody'
  BY <1>2, <1>4 DEF ETagNamesOneBody
<1>. QED
  BY <1>5, <1>6, <1>7, <1>8, <1>10, <1>11, <1>12
-----------------------------------------------------------------------------
\* The complete body gets an ETag that nobody has: those who saw the file while
\* it was empty have one with size 0.
LEMMA FillStep ==
  ASSUME WritesInv, TypeOK', NEW c \in Clients, Fill(c) PROVE WritesInv'
<1>. USE DEF WritesInv
<1>1. PICK n \in Sizes : tag' = <<clock', n>>
  BY DEF Fill
<1>2. /\ clock' \in {clock, clock + 1} /\ clock \in Nat /\ clock' \in Nat /\ tag' # NoTag
      /\ content' = Written(c) /\ n # 0
  BY <1>1, ResourceAssumption DEF Fill, SameWrite, TypeOK
<1>3. /\ pc \in [Clients -> Locations] /\ pc[c] = "writing" /\ tag = <<clock, 0>>
      /\ result \in [Clients -> Results]
  BY DEF Fill, TypeOK, Emptied
<1>4. UNCHANGED <<old, method, cond, seenTag, seen, base>>
  BY DEF Fill, clientVars
<1>5. /\ pc'[c] = "done" /\ result'[c] = IF old = Absent THEN "created" ELSE "ok"
      /\ \A d \in Clients \ {c} : /\ pc'[d] = pc[d] /\ result'[d] = result[d]
                                 /\ pc[d] \notin UnderLock
  BY <1>3, Alone DEF Fill, Answer, Goto, UnderLock
<1>6. \A d \in Clients : seenTag[d] # NoTag => seenTag[d] # tag' /\ seenTag[d][1] <= clock'
  <2>. SUFFICES ASSUME NEW d \in Clients, seenTag[d] # NoTag
                PROVE  seenTag[d] # tag' /\ seenTag[d][1] <= clock'
    OBVIOUS
  <2>1. seenTag[d] \in Nat \X Nat /\ seenTag[d][1] <= clock
    BY DEF TypeOK, Tags, Times
  <2>2. seenTag[d][1] = clock => seenTag[d][2] = 0
    BY <1>3 DEF Times
  <2>3. seenTag[d] = tag' => seenTag[d][1] = clock' /\ seenTag[d][2] = n
    BY <1>1
  <2>. QED
    BY <1>2, <2>1, <2>2, <2>3
<1>7. Locked'
  BY LeaveLocked DEF Fill, Results
<1>8. Times' /\ Emptied'
  <2>1. \A d \in Clients : pc'[d] # "writing"
    BY <1>5 DEF UnderLock
  <2>2. tag'[1] <= clock'
    BY <1>1, <1>2
  <2>. QED
    BY <1>2, <1>4, <1>6, <2>1, <2>2 DEF Times, Emptied
<1>9. Shape'
  BY <1>2, <1>3, <1>4, <1>5 DEF Shape
<1>10. Checked'
  BY <1>5 DEF Checked, UnderLock
<1>11. Spent'
  <2>. SUFFICES ASSUME NEW d \in Clients, Won(d)'
                PROVE  /\ tag' # seenTag[d]
                       /\ \A e \in Clients :
                            d # e /\ cond[e] = "match" /\ ((pc'[e] = "writing" /\ old # Absent) \/ Won(e)') =>
                              seenTag[d] # seenTag[e]
    BY <1>4 DEF Spent
  <2>1. seenTag[d] # NoTag
    BY <1>4 DEF Won, Shape
  <2>2. \A e \in Clients : pc'[e] # "writing"
    BY <1>5 DEF UnderLock
  <2>3. \A e \in Clients \ {c} : Won(e)' <=> Won(e)
    BY <1>4, <1>5 DEF Won
  <2>4. cond[c] = "match" /\ old # Absent =>
          \A e \in Clients \ {c} : Won(e) => seenTag[c] # seenTag[e]
    BY <1>3 DEF Spent
  <2>. QED
    BY <1>4, <1>5, <1>6, <2>1, <2>2, <2>3, <2>4 DEF Spent, Won
<1>12. ETagNamesOneBody'
  BY <1>4, <1>6 DEF ETagNamesOneBody
<1>. QED
  BY <1>7, <1>8, <1>9, <1>10, <1>11, <1>12

\* A removal leaves no ETag that could be current.
LEMMA RemoveStep ==
  ASSUME WritesInv, TypeOK', NEW c \in Clients, Remove(c) PROVE WritesInv'
<1>. USE DEF WritesInv
<1>1. /\ pc \in [Clients -> Locations] /\ pc[c] = "remove"
      /\ result \in [Clients -> Results] /\ tag' = NoTag /\ content' = {}
  BY DEF Remove, TypeOK
<1>2. UNCHANGED <<old, clock, method, cond, seenTag, seen, base>>
  BY DEF Remove, clientVars
<1>3. /\ pc'[c] = "done" /\ result'[c] = "ok"
      /\ \A d \in Clients \ {c} : /\ pc'[d] = pc[d] /\ result'[d] = result[d]
                                 /\ pc[d] \notin UnderLock
  BY <1>1, Alone DEF Remove, Answer, Goto, UnderLock
<1>4. Locked'
  BY LeaveLocked DEF Remove, Results
<1>5. \A d \in Clients : pc'[d] \notin UnderLock
  BY <1>3 DEF UnderLock
<1>7. Times' /\ Emptied' /\ Checked'
  BY <1>1, <1>2, <1>5 DEF Times, Emptied, Checked, UnderLock
<1>8. Shape'
  BY <1>1, <1>2, <1>3 DEF Shape
<1>9. Spent'
  <2>1. cond[c] = "match" => seenTag[c] = tag
    BY <1>1 DEF Checked, Creates, Shape, PreconditionHolds
  <2>2. \A d \in Clients \ {c} : Won(d)' <=> Won(d)
    BY <1>2, <1>3 DEF Won
  <2>3. \A d \in Clients : cond[d] = "match" => seenTag[d] # NoTag
    BY DEF Shape
  <2>. QED
    BY <1>1, <1>2, <1>5, <2>1, <2>2, <2>3 DEF Spent, Won, UnderLock
<1>10. ETagNamesOneBody'
  BY <1>1, <1>2 DEF ETagNamesOneBody
<1>. QED
  BY <1>4, <1>7, <1>8, <1>9, <1>10

LEMMA WritesInvStep == DistinctTimes /\ WritesInv /\ [Next]_vars => WritesInv'
<1>. SUFFICES ASSUME DistinctTimes, WritesInv, [Next]_vars PROVE WritesInv'
  OBVIOUS
<1>1. TypeOK'
  BY TypeStep DEF WritesInv
<1>2. CASE UNCHANGED vars
  BY <1>2 DEF vars, WritesInv, TypeOK, Locked, Times, Emptied, Shape, Checked, Creates,
              PreconditionHolds, Spent, Won, ETagNamesOneBody
<1>3. ASSUME NEW c \in Clients, Client(c) \/ Handle(c) \/ Die(c) PROVE WritesInv'
  BY <1>1, <1>3, ClientStep, HandlerSilent, CheckStep, ReadStep, TruncateStep, FillStep,
     RemoveStep DEF Handle
<1>. QED
  BY <1>2, <1>3 DEF Next

LEMMA WritesInvariance == ASSUME DistinctTimes PROVE Spec => []WritesInv
BY WritesInvInit, WritesInvStep, PTL DEF Spec
-----------------------------------------------------------------------------
\* Whoever has the current ETag has read the stored body, for any number of
\* clients, whatever writes their unlocked GETs ran into.
THEOREM ETagTheorem == ASSUME DistinctTimes PROVE Spec => []ETagNamesOneBody
<1>1. WritesInv => ETagNamesOneBody
  BY DEF WritesInv
<1>. QED
  BY <1>1, WritesInvariance, PTL

\* Of the writes whose If-Match names one ETag at most one replaces what it names, for any
\* number of clients.
THEOREM OneWinnerTheorem == ASSUME DistinctTimes PROVE Spec => []AtMostOneReplaces
<1>1. WritesInv => AtMostOneReplaces
  BY DEF WritesInv, Spent, Won, AtMostOneReplaces
<1>. QED
  BY <1>1, WritesInvariance, PTL

\* A write that is let through by If-Match replaces the body its client has read.
THEOREM NoLostUpdateTheorem == ASSUME DistinctTimes PROVE Spec => NoLostUpdate
<1>1. WritesInv => \A c \in Clients :
               cond[c] = "match" /\ (Truncate(c) \/ Remove(c)) =>
                 \/ tag # NoTag /\ content = seen[c]
                 \/ tag = NoTag /\ method[c] = "PATCH"
  BY DEF WritesInv, Truncate, Remove, Shape, Checked, Creates, PreconditionHolds, ETagNamesOneBody
<1>. QED
  BY <1>1, WritesInvariance, PTL DEF NoLostUpdate
-----------------------------------------------------------------------------
\* Nobody else is writing while c's handler runs.
LEMMA NotWriting ==
  ASSUME WritesInv, NEW c \in Clients, pc[c] \in UnderLock \ {"writing"}
  PROVE  ~ Writing
BY Alone DEF WritesInv, Writing, UnderLock

\* The precondition that was checked is the one the atomic resource asks for.
LEMMA CheckedAllowed ==
  ASSUME WritesInv, NEW c \in Clients,
         pc[c] \in {"writing", "remove"}
  PROVE  Atomic!Allowed(c)
<1>. USE DEF WritesInv
<1>1. CASE pc[c] = "writing"
  <2>1. Current = old
    BY <1>1 DEF Current, Writing
  <2>. QED
    BY <1>1, <2>1 DEF Checked, Atomic!Allowed
<1>2. CASE pc[c] = "remove"
  <2>1. ~ Writing
    BY <1>2, NotWriting DEF UnderLock
  <2>2. PreconditionHolds(c)
    BY <1>2 DEF Checked, Creates, Shape
  <2>3. cond[c] = "match" => tag # NoTag /\ content = seen[c]
    BY <1>2, <2>2 DEF PreconditionHolds, ETagNamesOneBody
  <2>4. content # Absent
    BY ResourceAssumption DEF TypeOK
  <2>. QED
    BY <2>1, <2>2, <2>3, <2>4 DEF Current, Atomic!Allowed, PreconditionHolds
<1>. QED
  BY <1>1, <1>2

\* A step that neither begins nor ends a write nor touches the file.
LEMMA SameCurrent ==
  ASSUME UNCHANGED <<tag, content, old>>, Writing' <=> Writing
  PROVE  Current' = Current
BY DEF Current

\* Every step of the handlers is a step of the atomic resource or a stutter.
LEMMA AtomicStep ==
  ASSUME WritesInv, WritesInv', [Next]_vars
  PROVE  [Atomic!AtomicNext]_(Atomic!avars)
<1>. USE DEF WritesInv
<1>0. pc \in [Clients -> Locations]
  BY DEF TypeOK
<1>1. ASSUME NEW c \in Clients, FetchStat(c) \/ FetchFails(c)
      PROVE  UNCHANGED Atomic!avars
  <2>1. Writing' <=> Writing
    BY <1>0, <1>1 DEF FetchStat, FetchFails, Goto, Writing
  <2>. QED
    BY <1>1, <2>1, SameCurrent DEF FetchStat, FetchFails, fileVars, Atomic!avars
<1>2. ASSUME NEW c \in Clients, FetchBody(c) PROVE Atomic!Look(c)
  <2>1. Writing' <=> Writing
    BY <1>0, <1>2 DEF FetchBody, Goto, Writing
  <2>2. Current' = Current /\ cond' = cond /\ method' = method
    BY <1>2, <2>1, SameCurrent DEF FetchBody, fileVars
  <2>3. seen' = [seen EXCEPT ![c] = content] /\ tag # NoTag
    BY <1>2 DEF FetchBody
  <2>4. content = Current \/ content = {}
    BY <2>3 DEF Current, Writing, Emptied
  <2>. QED
    BY <2>2, <2>3, <2>4 DEF Atomic!Look
<1>3. ASSUME NEW c \in Clients, NEW m \in Methods, NEW k \in Conds, Send(c, m, k)
      PROVE  Atomic!Ask(c, m, k)
  <2>1. Writing' <=> Writing
    BY <1>0, <1>3 DEF Send, Goto, Writing
  <2>. QED
    BY <1>3, <2>1, SameCurrent DEF Send, fileVars, Atomic!Ask
<1>4. ASSUME NEW c \in Clients,
             \/ ProbeFails(c) \/ ProbePasses(c) \/ Enter(c) \/ Refused(c) \/ CheckPasses(c)
             \/ CheckFails(c) \/ ReadBase(c) \/ PatchConflict(c) \/ RemoveFails(c)
      PROVE  UNCHANGED Atomic!avars
  <2>1. /\ UNCHANGED <<fileVars, clientVars>>
        /\ pc[c] # "writing"
        /\ \E l \in Locations \ {"writing"} : pc' = [pc EXCEPT ![c] = l]
    BY <1>4 DEF ProbeFails, ProbePasses, Enter, Refused, CheckPasses, CheckFails, ReadBase,
                PatchConflict, RemoveFails, Goto, Answer, Locations
  <2>2. Writing' <=> Writing
    BY <1>0, <2>1 DEF Writing
  <2>. QED
    BY <2>1, <2>2, SameCurrent DEF fileVars, clientVars, Atomic!avars
<1>5. ASSUME NEW c \in Clients, Truncate(c) PROVE UNCHANGED Atomic!avars
  <2>1. ~ Writing
    BY <1>5, NotWriting DEF Truncate, UnderLock
  <2>2. Writing'
    BY <1>0, <1>5 DEF Truncate, Goto, Writing
  <2>. QED
    BY <1>5, <2>1, <2>2 DEF Truncate, Current, clientVars, Atomic!avars
<1>6. ASSUME NEW c \in Clients, Fill(c) PROVE Atomic!Change(c)
  <2>1. pc[c] = "writing" /\ Current = old /\ UNCHANGED <<seen, cond, method>>
    BY <1>6 DEF Fill, Current, Writing, clientVars
  <2>2. ~ Writing'
    BY <1>0, <1>6, Alone DEF Fill, Answer, Goto, Writing, UnderLock
  <2>3. tag' # NoTag /\ content' = Written(c)
    BY <1>6, ResourceAssumption DEF Fill, TypeOK
  <2>4. Current' = Written(c)
    BY <2>2, <2>3 DEF Current
  <2>5. method[c] = "PATCH" => Atomic!Body = base[c]
    BY <2>1 DEF Checked, Atomic!Body
  <2>6. Atomic!Allowed(c)
    BY <2>1, CheckedAllowed
  <2>. QED
    BY <2>1, <2>4, <2>5, <2>6
    DEF Shape, Written, Atomic!Change, Atomic!Replace, Atomic!Extend
<1>7. ASSUME NEW c \in Clients, WriteFails(c) \/ Die(c), pc[c] = "writing"
      PROVE  Atomic!Change(c)
  <2>1. UNCHANGED <<tag, content, seen, cond, method>> /\ tag # NoTag /\ content = {}
    BY <1>7, ResourceAssumption DEF WriteFails, Die, fileVars, clientVars, Emptied, TypeOK
  <2>2. ~ Writing'
    BY <1>0, <1>7, Alone DEF WriteFails, Die, Answer, Goto, Writing, UnderLock
  <2>3. Current' = {}
    BY <2>1, <2>2 DEF Current
  <2>4. Atomic!Allowed(c)
    BY <1>7, CheckedAllowed
  <2>. QED
    BY <1>7, <2>1, <2>3, <2>4 DEF Shape, Atomic!Change, Atomic!Damage
<1>8. ASSUME NEW c \in Clients, WriteFails(c) \/ Die(c), pc[c] # "writing"
      PROVE  UNCHANGED Atomic!avars
  <2>1. UNCHANGED <<fileVars, clientVars>> /\ pc' = [pc EXCEPT ![c] = "done"]
    BY <1>8 DEF WriteFails, Die, Answer, Goto
  <2>2. Writing' <=> Writing
    BY <1>0, <1>8, <2>1 DEF Writing
  <2>. QED
    BY <2>1, <2>2, SameCurrent DEF fileVars, clientVars, Atomic!avars
<1>9. ASSUME NEW c \in Clients, Remove(c) PROVE Atomic!Change(c)
  <2>1. pc[c] = "remove" /\ tag' = NoTag /\ UNCHANGED <<seen, cond, method>>
    BY <1>9 DEF Remove, clientVars
  <2>2. ~ Writing'
    BY <1>0, <1>9, Alone DEF Remove, Answer, Goto, Writing, UnderLock
  <2>3. Current' = Absent
    BY <2>1, <2>2 DEF Current
  <2>4. Atomic!Allowed(c)
    BY <2>1, CheckedAllowed
  <2>. QED
    BY <2>1, <2>3, <2>4 DEF Shape, Atomic!Change, Atomic!Remove
<1>10. CASE UNCHANGED vars
  BY <1>10 DEF vars, Current, Writing, Atomic!avars
<1>11. Methods \subseteq {"PUT", "PATCH", "DELETE"}
  BY ResourceAssumption
<1>. QED
  BY <1>1, <1>2, <1>3, <1>4, <1>5, <1>6, <1>7, <1>8, <1>9, <1>10, <1>11
  DEF Next, Client, Handle, Atomic!AtomicNext, Conds

\* The handlers implement the atomic resource, for any number of clients: the
\* check and the write of a conditional request are one step.
THEOREM AtomicTheorem == ASSUME DistinctTimes PROVE Spec => ImplementsAtomicResource
<1>1. Init => Atomic!AtomicInit
  BY DEF Init, Atomic!AtomicInit, Current, Writing
<1>. QED
  BY <1>1, AtomicStep, WritesInvariance, PTL DEF Spec, ImplementsAtomicResource, Atomic!AtomicSpec

\* Conditional requests are safe, for any number of clients, if two writes never fall in
\* one tick of the clock.
THEOREM ResourceSafeTheorem == ASSUME DistinctTimes PROVE Spec => []ResourceSafe
<1>1. WritesInv => TypeOK
  BY DEF WritesInv
<1>2. TypeOK /\ ETagNamesOneBody /\ AtMostOneReplaces => ResourceSafe
  BY DEF ResourceSafe
<1>. QED
  BY <1>1, <1>2, WritesInvariance, ETagTheorem, OneWinnerTheorem, PTL
=============================================================================
