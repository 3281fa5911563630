------------------------------ MODULE FileLock ------------------------------
(***************************************************************************)
(* The lock file of src/storage/filesystem.js (withLock, breakStaleLock):  *)
(* one path `.<name>.lock`, created with O_EXCL by every process that      *)
(* shares the data directory. One action is one file system call, because  *)
(* another process can run between any two of them. A process has at most  *)
(* one request at this lock: the queue of its own process (PromiseChain)   *)
(* sees to that.                                                           *)
(*                                                                         *)
(* Time passes in ticks of some fraction of LOCK_STALE_MS. A heartbeat is  *)
(* due three times per LOCK_STALE_MS, so a lock whose holder is alive is   *)
(* touched within every tick.                                              *)
(***************************************************************************)
EXTENDS Naturals, FiniteSets

CONSTANTS
  Procs,        \* processes that share the data directory
  Inodes,       \* inode numbers of the file system
  NoInode,      \* no such file
  StaleTicks,   \* LOCK_STALE_MS
  WaitTicks,    \* LOCK_WAIT_MS
  InodeReuse,   \* a new file may get the number of one that was just deleted
  MayRestart,   \* a dead process may be started again
  MaxCrashes    \* bound: how many times processes die

ASSUME NoInodeAssumption == NoInode \notin Inodes
ASSUME TicksAssumption ==
  /\ StaleTicks \in Nat
  /\ WaitTicks \in Nat
  /\ StaleTicks < WaitTicks
ASSUME CrashAssumption == /\ MaxCrashes \in Nat
                          /\ InodeReuse \in BOOLEAN
                          /\ MayRestart \in BOOLEAN

VARIABLES
  at,         \* where each process is in withLock
  lockFile,   \* the inode linked at lockPath
  aside,      \* the inode a contender has renamed to its private aside path
  observed,   \* the inode of the stale lock a contender decided to break
  age,        \* ticks since the mtime of each inode, up to StaleTicks + 1
  waited,     \* ticks since `started` of each contender, up to WaitTicks + 1
  contended,  \* while p waited, another process held, took or broke the lock
  orphans,    \* inodes left at aside paths by processes that died
  crashes     \* how many processes have died so far

lockVars == <<at, lockFile, aside, observed, age, waited, contended, orphans, crashes>>

LockLocations == {"idle", "open", "stat", "rename", "inspect", "putback", "drop",
              "critical", "dead"}

Contending == {"open", "stat", "rename", "inspect", "putback", "drop"}

LockTypeOK ==
  /\ at \in [Procs -> LockLocations]
  /\ lockFile \in Inodes \cup {NoInode}
  /\ aside \in [Procs -> Inodes \cup {NoInode}]
  /\ observed \in [Procs -> Inodes \cup {NoInode}]
  /\ age \in [Inodes -> 0 .. StaleTicks + 1]
  /\ waited \in [Procs -> 0 .. WaitTicks + 1]
  /\ contended \in [Procs -> BOOLEAN]
  /\ orphans \in SUBSET Inodes
  /\ crashes \in 0 .. MaxCrashes
  /\ \A p \in Procs : aside[p] # NoInode => at[p] \in {"inspect", "putback", "drop"}

LockInit ==
  /\ at = [p \in Procs |-> "idle"]
  /\ lockFile = NoInode
  /\ aside = [p \in Procs |-> NoInode]
  /\ observed = [p \in Procs |-> NoInode]
  /\ age = [i \in Inodes |-> 0]
  /\ waited = [p \in Procs |-> 0]
  /\ contended = [p \in Procs |-> FALSE]
  /\ orphans = {}
  /\ crashes = 0

-----------------------------------------------------------------------------
Holders == {p \in Procs : at[p] = "critical"}

Linked == {lockFile} \cup {aside[p] : p \in Procs} \cup orphans

\* Numbers the file system may give a new file. Reuse matters only to a
\* contender that remembers the number of a deleted lock.
FreeInodes ==
  IF InodeReuse THEN Inodes \ Linked
                ELSE Inodes \ (Linked \cup {observed[p] : p \in Procs})

\* Variant: a lock is never taken to be stale.
IsStaleNever(i) == FALSE

IsStale(i) == age[i] > StaleTicks

\* A request reaches withLock: `started` is taken.
Request(p) ==
  /\ at[p] = "idle"
  /\ at' = [at EXCEPT ![p] = "open"]
  /\ waited' = [waited EXCEPT ![p] = 0]
  /\ contended' = [contended EXCEPT ![p] = Holders # {}]
  /\ UNCHANGED <<lockFile, aside, observed, age, orphans, crashes>>

\* p made the path change hands: everyone else who waits has been contended.
Contend(p) ==
  contended' = [q \in Procs |-> IF q # p /\ at[q] \in Contending
                                THEN TRUE ELSE contended[q]]

\* open(lockPath, 'wx') succeeds; the heartbeat starts.
OpenCreates(p) ==
  /\ at[p] = "open"
  /\ lockFile = NoInode
  /\ \E i \in FreeInodes :
       /\ lockFile' = i
       /\ age' = [age EXCEPT ![i] = 0]
  /\ at' = [at EXCEPT ![p] = "critical"]
  /\ Contend(p)
  /\ UNCHANGED <<aside, observed, waited, orphans, crashes>>

\* open(lockPath, 'wx') fails with EEXIST.
OpenExists(p) ==
  /\ at[p] = "open"
  /\ lockFile # NoInode
  /\ at' = [at EXCEPT ![p] = "stat"]
  /\ UNCHANGED <<lockFile, aside, observed, age, waited, contended, orphans, crashes>>

\* stat(lockPath) finds a lock nobody has touched for LOCK_STALE_MS.
StatStale(p) ==
  /\ at[p] = "stat"
  /\ lockFile # NoInode
  /\ IsStale(lockFile)
  /\ observed' = [observed EXCEPT ![p] = lockFile]
  /\ at' = [at EXCEPT ![p] = "rename"]
  /\ UNCHANGED <<lockFile, aside, age, waited, contended, orphans, crashes>>

NotStale == lockFile # NoInode => ~ IsStale(lockFile)

\* The lock is fresh or gone: sleep 10 to 50 ms and try again.
Sleep(p) ==
  /\ at[p] = "stat"
  /\ NotStale
  /\ waited[p] <= WaitTicks
  /\ at' = [at EXCEPT ![p] = "open"]
  /\ UNCHANGED <<lockFile, aside, observed, age, waited, contended, orphans, crashes>>

\* Variant: the `finally` of withLock covers the wait, and removes a lock that the
\* contender never got.
GiveUpRemoves(p) ==
  /\ at[p] = "stat"
  /\ NotStale
  /\ waited[p] > WaitTicks
  /\ at' = [at EXCEPT ![p] = "idle"]
  /\ lockFile' = NoInode
  /\ UNCHANGED <<aside, observed, age, waited, contended, orphans, crashes>>

\* The lock is fresh or gone and LOCK_WAIT_MS are over: throw ELOCKED.
GiveUp(p) ==
  /\ at[p] = "stat"
  /\ NotStale
  /\ waited[p] > WaitTicks
  /\ at' = [at EXCEPT ![p] = "idle"]
  /\ UNCHANGED <<lockFile, aside, observed, age, waited, contended, orphans, crashes>>

\* Variant: the rename fails every time, and the error is swallowed.
RenameAsideFails(p) ==
  /\ at[p] = "rename"
  /\ lockFile # NoInode
  /\ observed' = [observed EXCEPT ![p] = NoInode]
  /\ at' = [at EXCEPT ![p] = "open"]
  /\ UNCHANGED <<lockFile, aside, age, waited, contended, orphans, crashes>>

\* breakStaleLock: rename(lockPath, aside) moves whatever is at the path now.
RenameAside(p) ==
  /\ at[p] = "rename"
  /\ lockFile # NoInode
  /\ aside' = [aside EXCEPT ![p] = lockFile]
  /\ lockFile' = NoInode
  /\ at' = [at EXCEPT ![p] = "inspect"]
  /\ Contend(p)
  /\ UNCHANGED <<observed, age, waited, orphans, crashes>>

\* breakStaleLock: rename fails with ENOENT, somebody else broke the lock.
RenameGone(p) ==
  /\ at[p] = "rename"
  /\ lockFile = NoInode
  /\ observed' = [observed EXCEPT ![p] = NoInode]
  /\ at' = [at EXCEPT ![p] = "open"]
  /\ UNCHANGED <<lockFile, aside, age, waited, contended, orphans, crashes>>

\* Variant: whatever was moved is removed.
InspectAny(p) ==
  /\ at[p] = "inspect"
  /\ aside' = [aside EXCEPT ![p] = NoInode]
  /\ observed' = [observed EXCEPT ![p] = NoInode]
  /\ at' = [at EXCEPT ![p] = "open"]
  /\ UNCHANGED <<lockFile, age, waited, contended, orphans, crashes>>

\* breakStaleLock: the file moved has the observed inode number; remove it.
InspectSame(p) ==
  /\ at[p] = "inspect"
  /\ aside[p] = observed[p]
  /\ aside' = [aside EXCEPT ![p] = NoInode]
  /\ observed' = [observed EXCEPT ![p] = NoInode]
  /\ at' = [at EXCEPT ![p] = "open"]
  /\ UNCHANGED <<lockFile, age, waited, contended, orphans, crashes>>

\* breakStaleLock: the file moved is another one; it has to go back.
InspectOther(p) ==
  /\ at[p] = "inspect"
  /\ aside[p] # observed[p]
  /\ at' = [at EXCEPT ![p] = "putback"]
  /\ UNCHANGED <<lockFile, aside, observed, age, waited, contended, orphans, crashes>>

\* breakStaleLock: link(aside, lockPath); EEXIST is ignored.
PutBack(p) ==
  /\ at[p] = "putback"
  /\ lockFile' = IF lockFile = NoInode THEN aside[p] ELSE lockFile
  /\ at' = [at EXCEPT ![p] = "drop"]
  /\ UNCHANGED <<aside, observed, age, waited, contended, orphans, crashes>>

\* breakStaleLock: remove(aside).
DropAside(p) ==
  /\ at[p] = "drop"
  /\ aside' = [aside EXCEPT ![p] = NoInode]
  /\ observed' = [observed EXCEPT ![p] = NoInode]
  /\ at' = [at EXCEPT ![p] = "open"]
  /\ UNCHANGED <<lockFile, age, waited, contended, orphans, crashes>>

\* fn() has settled: stop the heartbeat, remove(lockPath), whoever's it is.
Release(p) ==
  /\ at[p] = "critical"
  /\ lockFile' = NoInode
  /\ at' = [at EXCEPT ![p] = "idle"]
  /\ UNCHANGED <<aside, observed, age, waited, contended, orphans, crashes>>
-----------------------------------------------------------------------------
\* The process dies: its files stay, its heartbeat stops.
Crash(p) ==
  /\ crashes < MaxCrashes
  /\ at[p] # "dead"
  /\ at' = [at EXCEPT ![p] = "dead"]
  /\ aside' = [aside EXCEPT ![p] = NoInode]
  /\ observed' = [observed EXCEPT ![p] = NoInode]
  /\ orphans' = orphans \cup ({aside[p]} \ {NoInode})
  /\ crashes' = crashes + 1
  /\ UNCHANGED <<lockFile, age, waited, contended>>

Restart(p) ==
  /\ MayRestart
  /\ at[p] = "dead"
  /\ at' = [at EXCEPT ![p] = "idle"]
  /\ UNCHANGED <<lockFile, aside, observed, age, waited, contended, orphans, crashes>>

\* A tick of the clock. Every callback that runs touches lockPath.
Touched(i) == i = lockFile /\ Holders # {}

\* The file system calls that put a lock aside and back follow one another at
\* once: no tick falls between them.
Breaking == {p \in Procs : at[p] \in {"inspect", "putback", "drop"}}

Tick ==
  /\ Breaking = {}
  /\ age' = [i \in Inodes |->
               IF Touched(i) THEN 0
               ELSE IF i \in Linked /\ age[i] <= StaleTicks THEN age[i] + 1
               ELSE age[i]]
  /\ waited' = [p \in Procs |->
                  IF at[p] \in Contending /\ waited[p] <= WaitTicks
                  THEN waited[p] + 1 ELSE waited[p]]
  /\ UNCHANGED <<at, lockFile, aside, observed, contended, orphans, crashes>>

LockStep(p) ==
  \/ OpenCreates(p) \/ OpenExists(p)
  \/ StatStale(p) \/ Sleep(p) \/ GiveUp(p)
  \/ RenameAside(p) \/ RenameGone(p)
  \/ InspectSame(p) \/ InspectOther(p) \/ PutBack(p) \/ DropAside(p)
  \/ Release(p)

LockNext ==
  \/ \E p \in Procs : Request(p) \/ LockStep(p) \/ Crash(p) \/ Restart(p)
  \/ Tick

LockSpec == LockInit /\ [][LockNext]_lockVars

\* The event loop runs whatever is ready and every callback settles; the clock
\* goes on. Requests and crashes are nobody's duty.
LockFairness == SF_lockVars(Tick) /\ \A p \in Procs : WF_lockVars(LockStep(p))
-----------------------------------------------------------------------------
\* The callbacks of one path never run at the same time: what serialised() in
\* src/handlers/resource.js relies on across processes.
MutualExclusion == Cardinality(Holders) <= 1

\* breakStaleLock deletes only a lock that is stale, never one whose holder is
\* working ("and only that lock").
BreaksOnlyStale ==
  [][\A p \in Procs : InspectSame(p) => IsStale(aside[p])]_lockVars

\* A contender is answered ELOCKED (503) only when, while it waited, somebody
\* else held, took or broke the lock: a lock left behind by a crash is waited out,
\* because LOCK_WAIT_MS is longer than LOCK_STALE_MS.
GivesUpOnlyIfContended ==
  [][\A p \in Procs : GiveUp(p) => contended[p]]_lockVars

\* A running callback has a lock file at the path, or a contender that took it
\* by mistake and is about to put it back.
HolderHasLock ==
  Holders # {} => lockFile # NoInode \/ Breaking # {}

\* Once no new request arrives, every request that has reached withLock gets the
\* lock, or is answered ELOCKED, or its process dies: contenders that break and
\* put back each other's locks do not keep each other out for ever. (While
\* requests keep arriving they may: the `continue` after breakStaleLock looks at
\* no deadline.)
Quiet == <>[][\A q \in Procs : ~ Request(q)]_lockVars

RequestsEnd ==
  Quiet => \A p \in Procs :
             at[p] \in Contending ~> at[p] \in {"critical", "idle", "dead"}

\* The lock keeps the promise of Mutex.
Abstract == INSTANCE Mutex WITH holders <- Holders
ImplementsMutex == Abstract!MutexSpec

\* The files and the processes agree: types, and no callback runs without a lock file
\* that keeps the others out, or is on its way back to its place.
LockSafe == LockTypeOK /\ HolderHasLock
=============================================================================
