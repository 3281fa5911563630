--------------------------- MODULE ResourceWrites ---------------------------
(***************************************************************************)
(* Conditional reads and writes of one resource: GET, PUT, PATCH and       *)
(* DELETE of src/handlers/resource.js over src/storage/filesystem.js. The  *)
(* queue and the lock file around the writers (PromiseChain, FileLock)     *)
(* appear as a mutex. One action is the code between two awaits; a write is*)
(* two, because fs.writeFile empties the file before it fills it.          *)
(*                                                                         *)
(* An ETag hashes the mtime (in ms) and the size, here the pair of them. A *)
(* body is the set of the clients whose writes went into it: PUT makes it  *)
(* {c}, PATCH adds c. Every client makes any number of GETs and then one   *)
(* write.                                                                  *)
(***************************************************************************)
EXTENDS Naturals, FiniteSets

CONSTANTS
  Clients,
  Methods,          \* the methods the clients use
  Sizes,            \* the sizes of complete bodies
  DistinctTimes,    \* writes fall in different ticks of the file system's clock
  NoClient,
  NoTag,            \* the ETag of a resource that does not exist
  Absent            \* its body

ASSUME ResourceAssumption ==
  /\ Methods \subseteq {"PUT", "PATCH", "DELETE"}
  /\ Sizes \subseteq Nat \ {0}
  /\ Sizes # {}
  /\ DistinctTimes \in BOOLEAN
  /\ NoClient \notin Clients
  /\ NoTag \notin Nat \X Nat
  /\ \A body \in SUBSET Clients : body # Absent

VARIABLES
  tag,       \* <<mtime, size>> of the file, or NoTag
  content,   \* its body
  old,       \* the body that the write going on replaces, or Absent
  clock,     \* the time of the last write
  holder,    \* whose handler runs under the lock
  pc,        \* where each client's request is
  method,    \* what it asks for
  cond,      \* its precondition
  seenTag,   \* the ETag each client got last
  seen,      \* the body that came with it
  base,      \* the body a PATCH has read
  result     \* how each client's write was answered

vars == <<tag, content, old, clock, holder, pc, method, cond, seenTag, seen, base, result>>
fileVars == <<tag, content, old, clock>>
clientVars == <<method, cond, seenTag, seen>>

Tags == Nat \X Nat
Conds == {"none", "match", "any", "absent", "changed"}
Locations == {"idle", "fetching", "sent", "queued", "check", "read", "write",
              "writing", "remove", "done"}
Results == {"none", "ok", "created", "404", "409", "412", "500", "503", "lost"}

TypeOK ==
  /\ tag \in Tags \cup {NoTag}
  /\ content \in SUBSET Clients
  /\ old \in (SUBSET Clients) \cup {Absent}
  /\ clock \in Nat
  /\ holder \in Clients \cup {NoClient}
  /\ pc \in [Clients -> Locations]
  /\ method \in [Clients -> {"none", "PUT", "PATCH", "DELETE"}]
  /\ cond \in [Clients -> Conds]
  /\ seenTag \in [Clients -> Tags \cup {NoTag}]
  /\ seen \in [Clients -> (SUBSET Clients) \cup {Absent}]
  /\ base \in [Clients -> SUBSET Clients]
  /\ result \in [Clients -> Results]
  /\ \A c \in Clients : (result[c] # "none") <=> (pc[c] = "done")

Init ==
  /\ tag \in ({0} \X Sizes) \cup {NoTag}
  /\ content = {}
  /\ old = Absent
  /\ clock = 0
  /\ holder = NoClient
  /\ pc = [c \in Clients |-> "idle"]
  /\ method = [c \in Clients |-> "none"]
  /\ cond = [c \in Clients |-> "none"]
  /\ seenTag = [c \in Clients |-> NoTag]
  /\ seen = [c \in Clients |-> Absent]
  /\ base = [c \in Clients |-> {}]
  /\ result = [c \in Clients |-> "none"]
-----------------------------------------------------------------------------
Goto(c, l) == pc' = [pc EXCEPT ![c] = l]

\* serialised and withLock let the next writer in when the handler returns.
Leave(c) == holder' = IF holder = c THEN NoClient ELSE holder

Answer(c, r) ==
  /\ Goto(c, "done")
  /\ result' = [result EXCEPT ![c] = r]
  /\ Leave(c)

\* GET: the stat that makes the ETag header.
FetchStat(c) ==
  /\ pc[c] = "idle"
  /\ tag # NoTag
  /\ seenTag' = [seenTag EXCEPT ![c] = tag]
  /\ Goto(c, "fetching")
  /\ UNCHANGED <<fileVars, holder, method, cond, seen, base, result>>

\* GET: the read that makes the body, without a lock.
FetchBody(c) ==
  /\ pc[c] = "fetching"
  /\ tag # NoTag
  /\ seen' = [seen EXCEPT ![c] = content]
  /\ Goto(c, "idle")
  /\ UNCHANGED <<fileVars, holder, method, cond, seenTag, base, result>>

\* GET: the file has gone between stat and read; the answer has no ETag.
FetchFails(c) ==
  /\ pc[c] = "fetching"
  /\ tag = NoTag
  /\ seenTag' = [seenTag EXCEPT ![c] = NoTag]
  /\ Goto(c, "idle")
  /\ UNCHANGED <<fileVars, holder, method, cond, seen, base, result>>

\* The client sends its write, with any method and any precondition: If-Match
\* ("match", "any") or If-None-Match ("absent", "changed") names the ETag it has
\* seen, or "*".
Send(c, m, k) ==
  /\ pc[c] = "idle"
  /\ m \in Methods
  /\ k \in {"match", "changed"} => seenTag[c] # NoTag
  /\ method' = [method EXCEPT ![c] = m]
  /\ cond' = [cond EXCEPT ![c] = k]
  /\ Goto(c, "sent")
  /\ UNCHANGED <<fileVars, holder, seenTag, seen, base, result>>

IfMatch(c) == cond[c] \in {"match", "any"}

\* The probe before the lock: 404 for DELETE, 412 for a PUT with If-Match.
ProbeFails(c) ==
  /\ pc[c] = "sent"
  /\ tag = NoTag
  /\ \/ method[c] = "DELETE" /\ Answer(c, "404")
     \/ method[c] = "PUT" /\ IfMatch(c) /\ Answer(c, "412")
  /\ UNCHANGED <<fileVars, clientVars, base>>

ProbePasses(c) ==
  /\ pc[c] = "sent"
  /\ method[c] = "DELETE" => tag # NoTag
  /\ method[c] = "PUT" /\ IfMatch(c) => tag # NoTag
  /\ Goto(c, "queued")
  /\ UNCHANGED <<fileVars, clientVars, holder, base, result>>

\* Variant: the handler does not wait for the one before it.
EnterUnlocked(c) ==
  /\ pc[c] = "queued"
  /\ holder' = c
  /\ Goto(c, "check")
  /\ UNCHANGED <<fileVars, clientVars, base, result>>

Enter(c) ==
  /\ pc[c] = "queued"
  /\ holder = NoClient
  /\ holder' = c
  /\ Goto(c, "check")
  /\ UNCHANGED <<fileVars, clientVars, base, result>>

\* withLock throws ELOCKED: another writer has had the lock for too long.
Refused(c) ==
  /\ pc[c] = "queued"
  /\ holder # NoClient
  /\ Answer(c, "503")
  /\ UNCHANGED <<fileVars, clientVars, base>>

\* checkIfMatch and, for PUT alone, checkIfNoneMatchForWrite on the ETag of the
\* stat. PATCH and DELETE do not look at If-None-Match.
PreconditionHolds(c) ==
  /\ cond[c] = "match" => tag # NoTag /\ tag = seenTag[c]
  /\ cond[c] = "any" => tag # NoTag
  /\ method[c] = "PUT" /\ cond[c] = "absent" => tag = NoTag
  /\ method[c] = "PUT" /\ cond[c] = "changed" => tag # seenTag[c]

\* Variant: PATCH does not look at If-Match.
MayProceedUnchecked(c) ==
  CASE method[c] = "PUT" -> PreconditionHolds(c)
    [] method[c] = "PATCH" -> TRUE
    [] method[c] = "DELETE" -> tag # NoTag /\ PreconditionHolds(c)

\* applyPatchRequest checks If-Match only if the resource exists.
MayProceed(c) ==
  CASE method[c] = "PUT" -> PreconditionHolds(c)
    [] method[c] = "PATCH" -> tag # NoTag => PreconditionHolds(c)
    [] method[c] = "DELETE" -> tag # NoTag /\ PreconditionHolds(c)

CheckPasses(c) ==
  /\ pc[c] = "check"
  /\ MayProceed(c)
  /\ \/ method[c] = "PUT" /\ Goto(c, "write")
     \/ method[c] = "PATCH" /\ Goto(c, IF tag = NoTag THEN "write" ELSE "read")
     \/ method[c] = "DELETE" /\ Goto(c, "remove")
  /\ UNCHANGED <<fileVars, clientVars, holder, base, result>>

\* Variant: a DELETE that is refused returns without a reply.
CheckFailsSilently(c) ==
  /\ pc[c] = "check"
  /\ ~ MayProceed(c)
  /\ method[c] # "DELETE"
  /\ Answer(c, "412")
  /\ UNCHANGED <<fileVars, clientVars, base>>

CheckFails(c) ==
  /\ pc[c] = "check"
  /\ ~ MayProceed(c)
  /\ Answer(c, IF method[c] = "DELETE" /\ tag = NoTag THEN "404" ELSE "412")
  /\ UNCHANGED <<fileVars, clientVars, base>>

\* PATCH reads the document it changes.
ReadBase(c) ==
  /\ pc[c] = "read"
  /\ tag # NoTag
  /\ base' = [base EXCEPT ![c] = content]
  /\ Goto(c, "write")
  /\ UNCHANGED <<fileVars, clientVars, holder, result>>

\* The patch does not parse, does not apply (a resource that does not exist is an
\* empty graph), or would leave a useless ACL.
PatchConflict(c) ==
  /\ \/ pc[c] = "read"
     \/ pc[c] = "check" /\ method[c] = "PATCH" /\ tag = NoTag
  /\ Answer(c, "409")
  /\ UNCHANGED <<fileVars, clientVars, base>>

\* Variant: the ETag is made of a coarser time.
NextWriteCoarse == clock' \in {clock, clock + 1}

\* The clock of the file system between two modifications.
NextWrite == clock' \in IF DistinctTimes THEN {clock + 1} ELSE {clock, clock + 1}
SameWrite == clock' \in {clock, clock + 1}

\* fs.writeFile opens the file with O_TRUNC.
Truncate(c) ==
  /\ pc[c] = "write"
  /\ NextWrite
  /\ tag' = <<clock', 0>>
  /\ content' = {}
  /\ old' = IF tag = NoTag THEN Absent ELSE content
  /\ Goto(c, "writing")
  /\ UNCHANGED <<clientVars, holder, base, result>>

Written(c) == IF method[c] = "PATCH" THEN base[c] \cup {c} ELSE {c}

\* fs.writeFile writes the bytes, then the handler answers: 204, or 201 if it found
\* nothing before.
Fill(c) ==
  /\ pc[c] = "writing"
  /\ SameWrite
  /\ content' = Written(c)
  /\ \E n \in Sizes : tag' = <<clock', n>>
  /\ Answer(c, IF old = Absent THEN "created" ELSE "ok")
  /\ UNCHANGED <<clientVars, old, base>>

\* The quota is exhausted (507), or fs.writeFile fails, at the open or after it (then
\* the file stays empty).
WriteFails(c) ==
  /\ pc[c] \in {"write", "writing"}
  /\ Answer(c, "500")
  /\ UNCHANGED <<fileVars, clientVars, base>>

Remove(c) ==
  /\ pc[c] = "remove"
  /\ tag' = NoTag
  /\ content' = {}
  /\ Answer(c, "ok")
  /\ UNCHANGED <<clientVars, old, clock, base>>

RemoveFails(c) ==
  /\ pc[c] = "remove"
  /\ Answer(c, "500")
  /\ UNCHANGED <<fileVars, clientVars, base>>

\* The process dies under the request; a later contender breaks its lock.
Die(c) ==
  /\ pc[c] \in {"check", "read", "write", "writing", "remove"}
  /\ Answer(c, "lost")
  /\ UNCHANGED <<fileVars, clientVars, base>>

Handle(c) ==
  \/ ProbeFails(c) \/ ProbePasses(c) \/ Enter(c) \/ Refused(c)
  \/ CheckPasses(c) \/ CheckFails(c)
  \/ ReadBase(c) \/ PatchConflict(c)
  \/ Truncate(c) \/ Fill(c) \/ WriteFails(c)
  \/ Remove(c) \/ RemoveFails(c)

Client(c) ==
  \/ FetchStat(c) \/ FetchBody(c) \/ FetchFails(c)
  \/ \E m \in Methods, k \in Conds : Send(c, m, k)

Next == \E c \in Clients : Client(c) \/ Handle(c) \/ Die(c)

Spec == Init /\ [][Next]_vars

\* A request that has been sent is handled; a lock that is held too long is
\* answered 503.
Fairness == \A c \in Clients : WF_vars(Handle(c))
-----------------------------------------------------------------------------
\* An ETag never names two bodies: a client whose ETag is the current one has
\* read exactly the bytes that are stored, whatever write the unlocked GET ran
\* into. What 304 Not Modified and If-Match rest on.
ETagNamesOneBody ==
  \A c \in Clients :
    pc[c] # "fetching" /\ seenTag[c] # NoTag /\ seenTag[c] = tag => seen[c] = content

\* "Two clients racing with the same, still valid, ETag get one 2xx and one 412":
\* of the writes whose If-Match names the same ETag at most one succeeds.
AtMostOneWinner ==
  \A c, d \in Clients :
    /\ cond[c] = "match" /\ cond[d] = "match"
    /\ {result[c], result[d]} \subseteq {"ok", "created"}
    /\ seenTag[c] = seenTag[d]
    => c = d

\* Of the writes whose If-Match names the same ETag at most one replaces or removes
\* what is stored, whatever writes come between them and however they fail.
AtMostOneReplaces ==
  \A c, d \in Clients :
    /\ cond[c] = "match" /\ cond[d] = "match"
    /\ result[c] = "ok" /\ result[d] = "ok"
    /\ seenTag[c] = seenTag[d]
    => c = d

\* A write whose If-Match holds replaces the body its client has read. PATCH alone
\* goes on if there is none.
NoLostUpdate ==
  [][\A c \in Clients :
       cond[c] = "match" /\ (Truncate(c) \/ Remove(c)) =>
         \/ tag # NoTag /\ content = seen[c]
         \/ tag = NoTag /\ method[c] = "PATCH"]_vars

\* Every write that is sent is answered, or lost with its process.
EveryWriteAnswered ==
  \A c \in Clients : pc[c] \in {"sent", "check"} ~> pc[c] = "done"

\* The handlers implement the atomic resource: during a write it still has the
\* body it had before.
Writing == \E c \in Clients : pc[c] = "writing"
Current == IF Writing THEN old ELSE IF tag = NoTag THEN Absent ELSE content

Atomic == INSTANCE AtomicResource
            WITH current <- Current, known <- seen, wants <- cond, verb <- method
ImplementsAtomicResource == Atomic!AtomicSpec

\* What a conditional request rests on: an ETag that is current names the bytes its
\* holder has read, and lets one write through.
ResourceSafe == TypeOK /\ ETagNamesOneBody /\ AtMostOneReplaces
=============================================================================
