--------------------------- MODULE AtomicResource ---------------------------
(***************************************************************************)
(* What the conditional writes of one resource amount to (docs/security.md,*)
(* "Conditional writes are atomic"): the check of If-Match, or of a PUT's  *)
(* If-None-Match, and the write are one step, and If-Match lets a write    *)
(* through only when it replaces the very body the client has read.        *)
(* If-None-Match binds no PATCH and no DELETE, though the document says    *)
(* that it does. A body is the set of the clients whose writes went into   *)
(* it.                                                                     *)
(***************************************************************************)
CONSTANTS
  Clients,
  Absent      \* the body of a resource that does not exist

VARIABLES
  current,    \* the body, or Absent
  known,      \* the body each client has read last
  wants,      \* the precondition each client has sent
  verb        \* its method

avars == <<current, known, wants, verb>>

AtomicInit ==
  /\ current \in {Absent, {}}
  /\ known = [c \in Clients |-> Absent]
  /\ wants = [c \in Clients |-> "none"]
  /\ verb = [c \in Clients |-> "none"]

\* A client reads the resource; while a write is going on it may see the file
\* when it has just been emptied.
Look(c) ==
  /\ \/ known' = [known EXCEPT ![c] = current]
     \/ known' = [known EXCEPT ![c] = {}]
  /\ UNCHANGED <<current, wants, verb>>

Ask(c, m, k) ==
  /\ wants' = [wants EXCEPT ![c] = k]
  /\ verb' = [verb EXCEPT ![c] = m]
  /\ UNCHANGED <<current, known>>

\* PATCH asks for nothing of a resource that does not exist.
Allowed(c) ==
  \/ verb[c] = "PATCH" /\ current = Absent
  \/ /\ wants[c] = "match" => current # Absent /\ current = known[c]
     /\ wants[c] = "any" => current # Absent
     /\ verb[c] = "PUT" /\ wants[c] = "absent" => current = Absent

Body == IF current = Absent THEN {} ELSE current

\* PUT, PATCH, DELETE, and a write that breaks off after emptying the file.
Replace(c) == verb[c] = "PUT" /\ current' = {c}
Extend(c) == verb[c] = "PATCH" /\ current' = Body \cup {c}
Remove(c) == verb[c] = "DELETE" /\ current' = Absent
Damage(c) == verb[c] # "DELETE" /\ current' = {}

Change(c) ==
  /\ Allowed(c)
  /\ Replace(c) \/ Extend(c) \/ Remove(c) \/ Damage(c)
  /\ UNCHANGED <<known, wants, verb>>

AtomicNext ==
  \E c \in Clients :
    \/ Look(c)
    \/ Change(c)
    \/ \E m \in {"PUT", "PATCH", "DELETE"},
          k \in {"none", "match", "any", "absent", "changed"} : Ask(c, m, k)

AtomicSpec == AtomicInit /\ [][AtomicNext]_avars
=============================================================================
