--------------------------- MODULE AccessControl ---------------------------
(***************************************************************************)
(* Web Access Control: authorize in src/auth/middleware.js, checkAccess in *)
(* src/wac/checker.js, and what the handlers do to resources and to their  *)
(* ACL files once a request has passed. The search for the ACL in force    *)
(* walks from the resource up to the root and awaits `exists` and `read` at*)
(* every level, so that ACLs come and go beside it.                        *)
(*                                                                         *)
(* An ACL document is the set of its authorizations; a file that has been  *)
(* emptied and not yet filled parses to none. In which order they stand in *)
(* it, and whether an agent can pay where a condition asks for it, is left *)
(* open; agent groups are left out. The tools of MCP and remoteStorage,    *)
(* which write files without these handlers, are not in this module.       *)
(***************************************************************************)
EXTENDS Naturals, Sequences

CONSTANTS
  Resources,    \* documents and containers
  Root,
  Up,           \* each resource, its container, the container's container ... the root
  Users,        \* WebIDs
  Nobody,       \* the agent of a request without credentials
  Methods,      \* "INSERT" is a PATCH that only inserts
  Documents,    \* the ACLs that clients send for each resource
  Requests,
  NoAcl

Modes == {"read", "write", "append", "control"}
Classes == {"public", "authenticated"}
Agents == Users \cup {Nobody}
Conditions == {"none", "payment", "unsupported"}
Authorizations == [agents : SUBSET Users, classes : SUBSET Classes, modes : SUBSET Modes,
                   accessTo : SUBSET Resources, default : SUBSET Resources,
                   condition : Conditions]

ASSUME AccessAssumption ==
  /\ Root \in Resources
  /\ Up \in [Resources -> Seq(Resources)]
  /\ \A r \in Resources :
       /\ Len(Up[r]) > 0
       /\ Up[r][1] = r
       /\ Up[r][Len(Up[r])] = Root
       /\ \A i, j \in 1 .. Len(Up[r]) : Up[r][i] = Up[r][j] => i = j
  /\ Up[Root] = <<Root>>
  /\ Nobody \notin Users
  /\ Methods \subseteq {"GET", "PUT", "POST", "PATCH", "INSERT", "DELETE"}
  /\ Documents \in [Resources -> SUBSET SUBSET Authorizations]
  /\ \A r \in Resources : NoAcl \notin Documents[r] \cup {{}}

VARIABLES
  acl,       \* the ACL file of each resource, or NoAcl
  exists,    \* the resources that exist
  pc,        \* where each request is
  ask,       \* what it asks for
  walk,      \* its check: the resource, the mode, the level of the search
  header,    \* the modes of `user` in its WAC-Allow header
  tolls,     \* the modes that the same document gives under a condition
  moments,   \* what a check in one step might have answered, since the search began
  edits      \* the resources whose ACL has changed since then

vars == <<acl, exists, pc, ask, walk, header, tolls, moments, edits>>

Bodies == {{}} \cup UNION {Documents[r] : r \in Resources}
Asks == [agent : Agents, method : Methods \cup {"none"}, target : Resources, sidecar : BOOLEAN,
         doc : Bodies]

\* The files and the containers above a resource, and what is below it.
Above(r) == {Up[r][i] : i \in 1 .. Len(Up[r])}
Below(r) == {s \in Resources : r \in Above(s)}
Container(r) == IF Len(Up[r]) > 1 THEN Up[r][2] ELSE Root
IsContainer(r) == r = Root \/ Below(r) # {r}
-----------------------------------------------------------------------------
\* urlMatches: accessTo names the resource itself, default a prefix of its URL.
Applies(z, inherited, r) ==
  IF inherited THEN z.default \cap Above(r) # {} ELSE r \in z.accessTo

IsAgentAuthorized(z, a) ==
  \/ a \in z.agents
  \/ "public" \in z.classes
  \/ a # Nobody /\ "authenticated" \in z.classes

\* Write includes Append.
Gives(z, m) == m \in z.modes \/ (m = "append" /\ "write" \in z.modes)

\* The rules of a document for an agent.
Rules(doc, inherited, r, a) == {z \in doc : Applies(z, inherited, r) /\ IsAgentAuthorized(z, a)}

\* The answer of a rule: a payment is made from the ledger or refused, and nobody has
\* no account there.
Answers(z, a) ==
  IF z.condition # "payment" THEN {TRUE} ELSE IF a = Nobody THEN {FALSE} ELSE BOOLEAN

\* checkAuthorizations: rules with a condition it does not know are skipped; of the
\* others the first that gives the mode answers.
Grants(doc, inherited, r, a, m) ==
  LET able == {z \in Rules(doc, inherited, r, a) : Gives(z, m) /\ z.condition # "unsupported"}
  IN IF able = {} THEN {FALSE} ELSE UNION {Answers(z, a) : z \in able}

\* Variant: calculateWacAllow does not tell inherited rules from others.
WacAllowEverywhere(doc, inherited, r, a) == UNION {z.modes : z \in Rules(doc, FALSE, r, a)}

\* calculateWacAllow: the modes listed for `user`, the public ones among them. It does
\* not look at conditions.
WacAllow(doc, inherited, r, a) == UNION {z.modes : z \in Rules(doc, inherited, r, a)}

\* The modes that some rule gives under a condition only.
Tolls(doc, inherited, r, a) ==
  {m \in Modes : \E z \in Rules(doc, inherited, r, a) : Gives(z, m) /\ z.condition # "none"}

\* grantsAccess of src/wac/parser.js
GrantsAccess(doc) == \E z \in doc : z.modes # {} /\ (z.agents # {} \/ z.classes # {})

\* What the ACL files may say of an access: the nearest ACL decides, and it alone.
Nearest(files, r, i) ==
  /\ files[Up[r][i]] # NoAcl
  /\ \A j \in 1 .. i - 1 : files[Up[r][j]] = NoAcl

Permits(files, a, r, m) ==
  {yes \in BOOLEAN :
     \/ \E i \in 1 .. Len(Up[r]) :
          Nearest(files, r, i) /\ yes \in Grants(files[Up[r][i]], i > 1, r, a, m)
     \/ (\A i \in 1 .. Len(Up[r]) : files[Up[r][i]] = NoAcl) /\ ~ yes}

TypeOK ==
  /\ acl \in [Resources -> Bodies \cup {NoAcl}]
  /\ exists \in SUBSET Resources
  /\ pc \in [Requests -> {"idle", "stat", "probe", "read", "granted", "refused", "writing"}]
  /\ ask \in [Requests -> Asks]
  /\ walk \in [Requests -> [check : Resources, mode : Modes, level : Nat]]
  /\ header \in [Requests -> SUBSET Modes]
  /\ tolls \in [Requests -> SUBSET Modes]
  /\ moments \in [Requests -> SUBSET BOOLEAN]
  /\ edits \in [Requests -> SUBSET Resources]
  /\ \A q \in Requests : walk[q].level \in 1 .. Len(Up[walk[q].check]) + 1
  /\ \A q \in Requests :
       /\ pc[q] # "idle" => ask[q].method # "none"
       /\ pc[q] = "writing" => ask[q].sidecar /\ ask[q].method \notin {"GET", "DELETE"}

NoAsk == [agent |-> Nobody, method |-> "none", target |-> Root, sidecar |-> FALSE, doc |-> {}]
NoWalk == [check |-> Root, mode |-> "read", level |-> 1]

\* createPodStructure writes an ACL beside every resource that has one of its own.
Init ==
  /\ acl \in [Resources -> Bodies \cup {NoAcl}]
  /\ \A r \in Resources : acl[r] \in Documents[r] \cup {NoAcl}
  /\ exists = {r \in Resources : IsContainer(r)}
  /\ pc = [q \in Requests |-> "idle"]
  /\ ask = [q \in Requests |-> NoAsk]
  /\ walk = [q \in Requests |-> NoWalk]
  /\ header = [q \in Requests |-> {}]
  /\ tolls = [q \in Requests |-> {}]
  /\ moments = [q \in Requests |-> {}]
  /\ edits = [q \in Requests |-> {}]
-----------------------------------------------------------------------------
Goto(q, l) == pc' = [pc EXCEPT ![q] = l]

\* checkAccess(r, m) starts.
BeginWalk(q, a, r, m) ==
  /\ Goto(q, "probe")
  /\ walk' = [walk EXCEPT ![q] = [check |-> r, mode |-> m, level |-> 1]]
  /\ moments' = [moments EXCEPT ![q] = Permits(acl, a, r, m)]
  /\ edits' = [edits EXCEPT ![q] = {}]

\* The walks under way; what the files say of the access of each, now and before.
Walking == {q \in Requests : pc[q] \in {"probe", "read"}}
Seen(q) ==
  IF q \in Walking
  THEN moments[q] \cup Permits(acl', ask[q].agent, walk[q].check, walk[q].mode)
  ELSE moments[q]
Edited(q, changed) == IF q \in Walking THEN edits[q] \cup changed ELSE edits[q]

\* The request is over, and has changed these ACLs.
Finish(q, changed) ==
  /\ Goto(q, "idle")
  /\ ask' = [ask EXCEPT ![q] = NoAsk]
  /\ walk' = [walk EXCEPT ![q] = NoWalk]
  /\ header' = [header EXCEPT ![q] = {}]
  /\ tolls' = [tolls EXCEPT ![q] = {}]
  /\ moments' = [p \in Requests |-> IF p = q THEN {} ELSE Seen(p)]
  /\ edits' = [p \in Requests |-> IF p = q THEN {} ELSE Edited(p, changed)]

\* A request arrives. The URL of an ACL file needs Control of what it protects; POST
\* goes to the container and asks for a name there.
Arrive(q, a, m, t, s, doc) ==
  /\ pc[q] = "idle"
  /\ m = "POST" => s \/ t # Root
  /\ doc \in IF s /\ m \notin {"GET", "DELETE"} THEN Documents[t] ELSE {{}}
  /\ ask' = [ask EXCEPT ![q] = [agent |-> a, method |-> m, target |-> t, sidecar |-> s,
                                doc |-> doc]]
  /\ IF s /\ m # "POST"
     THEN BeginWalk(q, a, t, "control")
     ELSE Goto(q, "stat") /\ UNCHANGED <<walk, moments, edits>>
  /\ UNCHANGED <<acl, exists, header, tolls>>

\* getRequiredMode; a PATCH that only inserts needs no more than Append.
RequiredMode(m) ==
  CASE m = "GET" -> "read"
    [] m \in {"POST", "INSERT"} -> "append"
    [] m \in {"PUT", "PATCH", "DELETE"} -> "write"

\* The resource a request names in its URL. The ACL file of a container is in it.
Named(q) ==
  IF ask[q].method # "POST" \/ (ask[q].sidecar /\ IsContainer(ask[q].target))
  THEN ask[q].target ELSE Container(ask[q].target)

\* authorize: what does not exist is created in its container, whose ACL counts.
Stat(q) ==
  /\ pc[q] = "stat"
  /\ BeginWalk(q, ask[q].agent,
               IF Named(q) \notin exists /\ ask[q].method \notin {"GET", "DELETE"}
               THEN Container(Named(q)) ELSE Named(q),
               RequiredMode(ask[q].method))
  /\ UNCHANGED <<acl, exists, ask, header, tolls>>

\* findApplicableAcl: the ACL of the resource, of every container above it, and of the
\* root once more.
Levels(q) == Len(Up[walk[q].check])
File(q) == Up[walk[q].check][IF walk[q].level > Levels(q) THEN Levels(q) ELSE walk[q].level]
Inherited(q) == walk[q].level > 1

AclFound(q) ==
  /\ pc[q] = "probe"
  /\ acl[File(q)] # NoAcl
  /\ Goto(q, "read")
  /\ UNCHANGED <<acl, exists, ask, walk, header, tolls, moments, edits>>

\* The file is not there, or no longer: go on one level up, or give up at the root.
AclMissing(q) ==
  /\ pc[q] \in {"probe", "read"}
  /\ acl[File(q)] = NoAcl
  /\ IF walk[q].level <= Levels(q)
     THEN /\ Goto(q, "probe")
          /\ walk' = [walk EXCEPT ![q].level = @ + 1]
     ELSE Goto(q, "refused") /\ UNCHANGED walk
  /\ UNCHANGED <<acl, exists, ask, header, tolls, moments, edits>>

\* Variant: an ACL that turns out empty is taken for none.
DecideNonEmpty(q) ==
  /\ pc[q] = "read"
  /\ acl[File(q)] # NoAcl
  /\ LET doc == acl[File(q)]
         r == walk[q].check
         a == ask[q].agent
     IN /\ \E yes \in Grants(doc, Inherited(q), r, a, walk[q].mode) :
             Goto(q, IF doc = {} \/ yes THEN "granted" ELSE "refused")
        /\ header' = [header EXCEPT ![q] = WacAllow(doc, Inherited(q), r, a)]
        /\ tolls' = [tolls EXCEPT ![q] = Tolls(doc, Inherited(q), r, a)]
  /\ UNCHANGED <<acl, exists, ask, walk, moments, edits>>

\* The first ACL that is found decides.
Decide(q) ==
  /\ pc[q] = "read"
  /\ acl[File(q)] # NoAcl
  /\ LET doc == acl[File(q)]
         r == walk[q].check
         a == ask[q].agent
     IN /\ \E yes \in Grants(doc, Inherited(q), r, a, walk[q].mode) :
             Goto(q, IF yes THEN "granted" ELSE "refused")
        /\ header' = [header EXCEPT ![q] = WacAllow(doc, Inherited(q), r, a)]
        /\ tolls' = [tolls EXCEPT ![q] = Tolls(doc, Inherited(q), r, a)]
  /\ UNCHANGED <<acl, exists, ask, walk, moments, edits>>

\* The reply: 401, 403, or the handler's own, which may be an error.
Answer(q) ==
  /\ pc[q] \in {"granted", "refused"}
  /\ UNCHANGED <<acl, exists>>
  /\ Finish(q, {})
-----------------------------------------------------------------------------
\* PUT, PATCH and POST: the resource and the containers above it exist from now on.
Create(q) ==
  /\ pc[q] = "granted"
  /\ ~ ask[q].sidecar
  /\ ask[q].method \notin {"GET", "DELETE"}
  /\ exists' = exists \cup Above(ask[q].target)
  /\ UNCHANGED acl
  /\ Finish(q, {})

\* handlePost: a Slug that names an ACL file needs Control of what it protects.
RecheckSlug(q) ==
  /\ pc[q] = "granted"
  /\ ask[q].sidecar /\ ask[q].method = "POST"
  /\ walk[q].mode = "append"
  /\ acl[ask[q].target] = NoAcl
  /\ BeginWalk(q, ask[q].agent, ask[q].target, "control")
  /\ UNCHANGED <<acl, exists, ask, header, tolls>>

\* serialised: one writer of an ACL file at a time. POST takes no lock.
Locked(q) ==
  \E p \in Requests : pc[p] = "writing" /\ ask[p].method # "POST" /\ ask[p].target = ask[q].target

\* Variant: a Slug is not looked at.
MayStoreUnchecked(q) ==
  ask[q].method = "POST" \/ (GrantsAccess(ask[q].doc) /\ ~ Locked(q))

\* PUT and PATCH refuse an ACL that grants nobody access.
MayStore(q) ==
  IF ask[q].method = "POST" THEN walk[q].mode = "control"
  ELSE GrantsAccess(ask[q].doc) /\ ~ Locked(q)

\* fs.writeFile empties the file.
TruncateAcl(q) ==
  /\ pc[q] = "granted"
  /\ ask[q].sidecar
  /\ ask[q].method \notin {"GET", "DELETE"}
  /\ MayStore(q)
  /\ Goto(q, "writing")
  /\ acl' = [acl EXCEPT ![ask[q].target] = {}]
  /\ exists' = exists \cup Above(Container(ask[q].target))
  /\ moments' = [p \in Requests |-> Seen(p)]
  /\ edits' = [p \in Requests |-> Edited(p, {ask[q].target})]
  /\ UNCHANGED <<ask, walk, header, tolls>>

\* ... and fills it.
FillAcl(q) ==
  /\ pc[q] = "writing"
  /\ acl' = [acl EXCEPT ![ask[q].target] = ask[q].doc]
  /\ Finish(q, {ask[q].target})
  /\ UNCHANGED exists

\* The write fails, or the process dies, with the file empty.
WriteFails(q) ==
  /\ pc[q] = "writing"
  /\ UNCHANGED <<acl, exists>>
  /\ Finish(q, {})

RemoveAcl(q) ==
  /\ pc[q] = "granted"
  /\ ask[q].sidecar /\ ask[q].method = "DELETE"
  /\ ~ Locked(q)
  /\ acl' = [acl EXCEPT ![ask[q].target] = NoAcl]
  /\ Finish(q, {ask[q].target})
  /\ UNCHANGED exists

\* DELETE: a container goes with all that is in it; the ACL file beside a document stays.
Delete(q) ==
  /\ pc[q] = "granted"
  /\ ~ ask[q].sidecar /\ ask[q].method = "DELETE"
  /\ ask[q].target \in exists
  /\ LET gone == IF IsContainer(ask[q].target) THEN Below(ask[q].target) ELSE {}
     IN /\ acl' = [r \in Resources |-> IF r \in gone THEN NoAcl ELSE acl[r]]
        /\ Finish(q, gone)
  /\ exists' = exists \ Below(ask[q].target)

Next ==
  \E q \in Requests :
    \/ \E a \in Agents, m \in Methods, t \in Resources, s \in BOOLEAN :
         \E doc \in Documents[t] \cup {{}} : Arrive(q, a, m, t, s, doc)
    \/ Stat(q) \/ AclFound(q) \/ AclMissing(q) \/ Decide(q) \/ Answer(q)
    \/ Create(q) \/ RecheckSlug(q)
    \/ TruncateAcl(q) \/ FillAcl(q) \/ WriteFails(q) \/ RemoveAcl(q) \/ Delete(q)

Spec == Init /\ [][Next]_vars
-----------------------------------------------------------------------------
\* The search is not one step, but as long as the ACL of no more than one resource
\* changes under it, its answer is the one a check in one step would have given at some
\* moment between its beginning and its end: no mixture of the old and the new rules,
\* and nothing is granted by a file that is just being written. (The root's own ACL is
\* read a second time, as if inherited; there the answer holds if nothing changes.)
Comparable(q) ==
  /\ \A r, s \in edits[q] : r = s
  /\ walk[q].check = Root => edits[q] = {}

AnswerWasRight ==
  \A q \in Requests :
    Comparable(q) =>
      /\ pc[q] = "granted" => TRUE \in moments[q]
      /\ pc[q] = "refused" => FALSE \in moments[q]

\* The handlers of PUT, PATCH, POST and DELETE write an ACL file only for a request that
\* has been granted Control of the very resource the file protects, whatever its URL or
\* Slug. (The tools of MCP ask for Write or Append only, and remoteStorage for its own
\* token: what they write is outside.)
AclWrittenUnderControl ==
  [][\A r \in Resources :
       acl'[r] \notin {acl[r], NoAcl} =>
         \E q \in Requests :
           /\ ask[q].target = r
           /\ walk[q].check = r /\ walk[q].mode = "control"
           /\ Comparable(q) => TRUE \in moments[q]]_vars

\* The WAC-Allow header and the check, which go through the rules apart, disagree only
\* over conditions: the header lists the mode that was granted (Write stands for Append),
\* and what it lists was not refused, unless some rule gives it under a condition, which
\* only the check looks at. It is made once, by authorize.
Listed(q) == walk[q].mode \in header[q] \/ (walk[q].mode = "append" /\ "write" \in header[q])

HeaderAgrees ==
  \A q \in Requests :
    (ask[q].method = "POST" => walk[q].mode = "append") =>
      /\ pc[q] = "granted" => Listed(q)
      /\ pc[q] = "refused" /\ Listed(q) => walk[q].mode \in tolls[q]

\* "Writes that would leave a resource with such an ACL are refused": no write leaves an
\* ACL that grants nobody access. (POST does not look: this fails as soon as Documents
\* has such an ACL.)
NoUselessAcl ==
  [][\A q \in Requests : FillAcl(q) => GrantsAccess(ask[q].doc)]_vars

\* What authorize answers is what the rules said at some moment of its search.
AccessSafe == TypeOK /\ AnswerWasRight
=============================================================================
