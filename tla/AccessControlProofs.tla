------------------------ MODULE AccessControlProofs ------------------------
(* Theorems about AccessControl, checked by TLAPS. *)
EXTENDS AccessControl, TLAPS

Asking(q, files) == Permits(files, ask[q].agent, walk[q].check, walk[q].mode)

\* What the search has found missing so far.
Passed(q) ==
  {Up[walk[q].check][j] : j \in {i \in 1 .. Len(Up[walk[q].check]) : i < walk[q].level}}

\* The ACL files as they were before the change that the search has missed, if it has.
Before(q) ==
  [s \in Resources |-> IF s \in edits[q] /\ s \in Passed(q) THEN NoAcl ELSE acl[s]]

\* While the search goes on, the files of now and the files as the search has met them
\* are both among the moments since its beginning, and those it has passed are missing.
SearchInv(q) ==
  pc[q] \in {"probe", "read"} =>
    /\ Asking(q, acl) \subseteq moments[q]
    /\ Comparable(q) =>
         /\ Asking(q, Before(q)) \subseteq moments[q]
         /\ \A s \in Passed(q) : Before(q)[s] = NoAcl

\* Afterwards the answer is one of them.
AnswerInv(q) ==
  Comparable(q) =>
    /\ pc[q] \in {"granted", "writing"} => TRUE \in moments[q]
    /\ pc[q] = "refused" => FALSE \in moments[q]

\* Nobody comes to write an ACL file but by a check for Control of what it protects.
ControlInv(q) ==
  /\ ask[q].sidecar /\ pc[q] \notin {"idle", "stat"} =>
       \/ walk[q].check = ask[q].target /\ walk[q].mode = "control"
       \/ ask[q].method = "POST" /\ walk[q].mode = "append"
  /\ pc[q] = "stat" /\ ask[q].sidecar => ask[q].method = "POST"
  /\ pc[q] = "writing" => walk[q].mode = "control"

CheckInv == TypeOK /\ \A q \in Requests : SearchInv(q) /\ AnswerInv(q) /\ ControlInv(q)
-----------------------------------------------------------------------------
\* The way up from a resource.
LEMMA UpFacts ==
  ASSUME NEW r \in Resources
  PROVE  /\ Up[r] \in Seq(Resources)
         /\ Len(Up[r]) \in Nat /\ Len(Up[r]) > 0
         /\ \A i \in 1 .. Len(Up[r]) : Up[r][i] \in Resources
         /\ Up[r][1] = r
         /\ Up[r][Len(Up[r])] = Root
         /\ \A i, j \in 1 .. Len(Up[r]) : Up[r][i] = Up[r][j] => i = j
         /\ Above(r) \in SUBSET Resources
         /\ Container(r) \in Resources
<1>1. /\ Up[r] \in Seq(Resources)
      /\ Len(Up[r]) > 0
      /\ Up[r][1] = r
      /\ Up[r][Len(Up[r])] = Root
      /\ \A i, j \in 1 .. Len(Up[r]) : Up[r][i] = Up[r][j] => i = j
  BY AccessAssumption DEF AccessAssumption
<1>2. Len(Up[r]) \in Nat /\ \A i \in 1 .. Len(Up[r]) : Up[r][i] \in Resources
  BY <1>1
<1>3. Above(r) \in SUBSET Resources
  BY <1>2 DEF Above
<1>4. Container(r) \in Resources
  BY <1>1, <1>2, AccessAssumption DEF Container, AccessAssumption
<1> QED
  BY <1>1, <1>2, <1>3, <1>4

LEMMA DocumentFacts ==
  /\ NoAcl \notin Bodies
  /\ \A r \in Resources : Documents[r] \subseteq Bodies
  /\ {} \in Bodies
  /\ \A doc \in Bodies : \A z \in doc : z.modes \in SUBSET Modes
<1>1. \A r \in Resources :
        /\ Documents[r] \in SUBSET SUBSET Authorizations
        /\ NoAcl \notin Documents[r] \cup {{}}
  BY AccessAssumption DEF AccessAssumption
<1>2. Root \in Resources
  BY AccessAssumption DEF AccessAssumption
<1>3. NoAcl # {}
  BY <1>1, <1>2
<1>4. \A doc \in Bodies : doc \in SUBSET Authorizations /\ doc # NoAcl
  BY <1>1, <1>3 DEF Bodies
<1>5. \A z \in Authorizations : z.modes \in SUBSET Modes
  BY DEF Authorizations
<1> QED
  BY <1>4, <1>5 DEF Bodies

\* Some answer there is always.
LEMMA GrantsType ==
  ASSUME NEW doc, NEW inherited, NEW r, NEW a, NEW m
  PROVE  Grants(doc, inherited, r, a, m) \in SUBSET BOOLEAN
BY DEF Grants, Answers

\* The nearest ACL decides.
LEMMA NearestDecides ==
  ASSUME NEW files, NEW a, NEW r \in Resources, NEW mode, NEW k \in 1 .. Len(Up[r]),
         files[Up[r][k]] # NoAcl,
         \A j \in 1 .. Len(Up[r]) : j < k => files[Up[r][j]] = NoAcl,
         NEW inherited, inherited = (k > 1)
  PROVE  Permits(files, a, r, mode) = Grants(files[Up[r][k]], inherited, r, a, mode)
<1>1. ASSUME NEW i \in 1 .. Len(Up[r]), files[Up[r][i]] # NoAcl,
             \A j \in 1 .. i - 1 : files[Up[r][j]] = NoAcl
      PROVE  i = k
  <2>1. ~ i < k
    BY <1>1
  <2>2. k \in Nat /\ i \in Nat /\ Len(Up[r]) \in Nat
    BY UpFacts
  <2>3. ~ k < i
    <3>1. SUFFICES ASSUME k < i PROVE FALSE
      OBVIOUS
    <3>2. k \in 1 .. i - 1
      BY <2>2, <3>1
    <3> QED
      BY <1>1, <3>2
  <2> QED
    BY <2>1, <2>2, <2>3
<1>2. \A j \in 1 .. k - 1 : files[Up[r][j]] = NoAcl
  <2>1. Len(Up[r]) \in Nat
    BY UpFacts
  <2>2. \A j \in 1 .. k - 1 : j \in 1 .. Len(Up[r]) /\ j < k
    BY <2>1
  <2> QED
    BY <2>2
<1>3. Nearest(files, r, k) /\ \A i \in 1 .. Len(Up[r]) : Nearest(files, r, i) => i = k
  BY <1>1, <1>2 DEF Nearest
<1>4. ASSUME NEW yes \in BOOLEAN
      PROVE  yes \in Permits(files, a, r, mode)
               <=> yes \in Grants(files[Up[r][k]], inherited, r, a, mode)
  <2>1. yes \in Permits(files, a, r, mode) <=>
          \/ \E i \in 1 .. Len(Up[r]) :
               Nearest(files, r, i) /\ yes \in Grants(files[Up[r][i]], i > 1, r, a, mode)
          \/ (\A i \in 1 .. Len(Up[r]) : files[Up[r][i]] = NoAcl) /\ ~ yes
    BY Zenon DEF Permits
  <2>. QED
    BY <1>3, <2>1
<1>5. Grants(files[Up[r][k]], inherited, r, a, mode) \subseteq BOOLEAN
  BY GrantsType
<1>6. Permits(files, a, r, mode) \subseteq BOOLEAN
  BY DEF Permits
<1>7. ASSUME NEW x \in Permits(files, a, r, mode) PROVE x \in Grants(files[Up[r][k]], inherited, r, a, mode)
  BY <1>4, <1>6
<1>8. ASSUME NEW x \in Grants(files[Up[r][k]], inherited, r, a, mode) PROVE x \in Permits(files, a, r, mode)
  BY <1>4, <1>5
<1> QED
  BY Zenon, <1>7, <1>8

\* Without any ACL there is no access.
LEMMA NoneAtAll ==
  ASSUME NEW files, NEW a, NEW r \in Resources, NEW mode,
         \A j \in 1 .. Len(Up[r]) : files[Up[r][j]] = NoAcl
  PROVE  FALSE \in Permits(files, a, r, mode)
BY DEF Permits
-----------------------------------------------------------------------------
\* Type correctness. Every action is a change of one request's fields.
LEMMA TypeInit == Init => TypeOK
<1> SUFFICES ASSUME Init PROVE TypeOK
  OBVIOUS
<1>1. Root \in Resources /\ {} \in Bodies
  BY AccessAssumption, DocumentFacts DEF AccessAssumption
<1>2. NoAsk \in Asks
  BY <1>1 DEF NoAsk, Asks, Agents
<1>3. NoWalk \in [check : Resources, mode : Modes, level : Nat]
  BY <1>1 DEF NoWalk, Modes
<1>4. \A q \in Requests : walk[q].level \in 1 .. Len(Up[walk[q].check]) + 1
  BY <1>1, UpFacts DEF Init, NoWalk
<1> QED
  BY <1>2, <1>3, <1>4 DEF Init, TypeOK

LEMMA TypeFacts ==
  ASSUME TypeOK, NEW q \in Requests
  PROVE  /\ ask[q].target \in Resources
         /\ ask[q].agent \in Agents
         /\ ask[q].method \in Methods \cup {"none"}
         /\ ask[q].sidecar \in BOOLEAN
         /\ ask[q].doc \in Bodies
         /\ walk[q].check \in Resources
         /\ walk[q].mode \in Modes
         /\ walk[q].level \in Nat
         /\ walk[q].level \in 1 .. Len(Up[walk[q].check]) + 1
         /\ Levels(q) \in Nat /\ Levels(q) > 0
         /\ File(q) \in Resources
         /\ Named(q) \in Resources
<1>1. /\ ask[q] \in Asks
      /\ walk[q] \in [check : Resources, mode : Modes, level : Nat]
      /\ walk[q].level \in 1 .. Len(Up[walk[q].check]) + 1
  BY DEF TypeOK
<1>2. /\ ask[q].target \in Resources
      /\ ask[q].agent \in Agents
      /\ ask[q].method \in Methods \cup {"none"}
      /\ ask[q].sidecar \in BOOLEAN
      /\ ask[q].doc \in Bodies
  BY <1>1 DEF Asks
<1>3. walk[q].check \in Resources /\ walk[q].mode \in Modes /\ walk[q].level \in Nat
  BY <1>1
<1>4. Levels(q) \in Nat /\ Levels(q) > 0
  BY <1>3, UpFacts DEF Levels
<1>5. File(q) \in Resources
  <2>1. (IF walk[q].level > Levels(q) THEN Levels(q) ELSE walk[q].level)
          \in 1 .. Len(Up[walk[q].check])
    BY <1>1, <1>3, <1>4 DEF Levels
  <2> QED
    BY <2>1, <1>3, UpFacts DEF File
<1>6. Named(q) \in Resources
  BY <1>2, UpFacts DEF Named
<1> QED
  BY <1>1, <1>2, <1>3, <1>4, <1>5, <1>6

LEMMA BeginType ==
  ASSUME TypeOK, NEW q \in Requests, NEW a, NEW r \in Resources, NEW mode \in Modes,
         NEW new \in Asks, new.method # "none", ask' = [ask EXCEPT ![q] = new],
         BeginWalk(q, a, r, mode), acl' = acl, exists' = exists, header' = header, tolls' = tolls
  PROVE  TypeOK'
<1>1. [check |-> r, mode |-> mode, level |-> 1] \in [check : Resources, mode : Modes, level : Nat]
  OBVIOUS
<1>2. walk' \in [Requests -> [check : Resources, mode : Modes, level : Nat]]
  BY <1>1 DEF BeginWalk, TypeOK
<1>3. \A p \in Requests : walk'[p].level \in 1 .. Len(Up[walk'[p].check]) + 1
  BY UpFacts DEF BeginWalk, TypeOK
<1>4. moments' \in [Requests -> SUBSET BOOLEAN]
  <2>1. Permits(acl, a, r, mode) \in SUBSET BOOLEAN
    BY DEF Permits
  <2> QED
    BY <2>1 DEF BeginWalk, TypeOK
<1>5. edits' \in [Requests -> SUBSET Resources]
  BY DEF BeginWalk, TypeOK
<1>6. pc' \in [Requests -> {"idle", "stat", "probe", "read", "granted", "refused", "writing"}]
  BY DEF BeginWalk, Goto, TypeOK
<1>7. ask' \in [Requests -> Asks]
  BY DEF TypeOK
<1>8. \A p \in Requests :
        /\ pc'[p] # "idle" => ask'[p].method # "none"
        /\ pc'[p] = "writing" => ask'[p].sidecar /\ ask'[p].method \notin {"GET", "DELETE"}
  BY DEF BeginWalk, Goto, TypeOK
<1>9. /\ acl' \in [Resources -> Bodies \cup {NoAcl}]
      /\ exists' \in SUBSET Resources
      /\ header' \in [Requests -> SUBSET Modes] /\ tolls' \in [Requests -> SUBSET Modes]
  BY DEF TypeOK
<1> QED
  BY <1>2, <1>3, <1>4, <1>5, <1>6, <1>7, <1>8, <1>9 DEF TypeOK

LEMMA SeenType ==
  ASSUME TypeOK, NEW p \in Requests, NEW changed \in SUBSET Resources
  PROVE  Seen(p) \in SUBSET BOOLEAN /\ Edited(p, changed) \in SUBSET Resources
<1>1. Permits(acl', ask[p].agent, walk[p].check, walk[p].mode) \in SUBSET BOOLEAN
  BY DEF Permits
<1>2. moments[p] \in SUBSET BOOLEAN /\ edits[p] \in SUBSET Resources
  BY DEF TypeOK
<1> QED
  BY <1>1, <1>2 DEF Seen, Edited

LEMMA FinishType ==
  ASSUME TypeOK, NEW q \in Requests, NEW changed \in SUBSET Resources, Finish(q, changed),
         acl' \in [Resources -> Bodies \cup {NoAcl}], exists' \in SUBSET Resources
  PROVE  TypeOK'
<1>1. Root \in Resources /\ {} \in Bodies
  BY AccessAssumption, DocumentFacts DEF AccessAssumption
<1>2. NoAsk \in Asks
  BY <1>1 DEF NoAsk, Asks, Agents
<1>3. NoWalk \in [check : Resources, mode : Modes, level : Nat]
  BY <1>1 DEF NoWalk, Modes
<1>4. NoWalk.level \in 1 .. Len(Up[NoWalk.check]) + 1
  BY <1>1, UpFacts DEF NoWalk
<1>5. /\ ask' \in [Requests -> Asks]
      /\ walk' \in [Requests -> [check : Resources, mode : Modes, level : Nat]]
      /\ \A p \in Requests : walk'[p].level \in 1 .. Len(Up[walk'[p].check]) + 1
  BY <1>2, <1>3, <1>4 DEF Finish, TypeOK
<1>6. /\ header' \in [Requests -> SUBSET Modes] /\ tolls' \in [Requests -> SUBSET Modes]
      /\ pc' \in [Requests -> {"idle", "stat", "probe", "read", "granted", "refused", "writing"}]
  BY DEF Finish, Goto, TypeOK
<1>7. \A p \in Requests :
        /\ pc'[p] # "idle" => ask'[p].method # "none"
        /\ pc'[p] = "writing" => ask'[p].sidecar /\ ask'[p].method \notin {"GET", "DELETE"}
  BY DEF Finish, Goto, TypeOK
<1>8. moments' \in [Requests -> SUBSET BOOLEAN] /\ edits' \in [Requests -> SUBSET Resources]
  BY SeenType DEF Finish
<1> QED
  BY <1>5, <1>6, <1>7, <1>8 DEF TypeOK

LEMMA TypeStep == TypeOK /\ [Next]_vars => TypeOK'
<1> SUFFICES ASSUME TypeOK, [Next]_vars PROVE TypeOK'
  OBVIOUS
<1>1. CASE UNCHANGED vars
  BY <1>1 DEF vars, TypeOK
<1>2. ASSUME NEW q \in Requests, NEW a \in Agents, NEW m \in Methods, NEW t \in Resources,
             NEW s \in BOOLEAN, NEW doc \in Documents[t] \cup {{}}, Arrive(q, a, m, t, s, doc)
      PROVE  TypeOK'
  <2> DEFINE new == [agent |-> a, method |-> m, target |-> t, sidecar |-> s, doc |-> doc]
  <2>1. doc \in Bodies
    BY DocumentFacts
  <2>2. new \in Asks
    BY <2>1 DEF Asks
  <2>6. new.method # "none"
    BY AccessAssumption DEF AccessAssumption
  <2>3. ask' = [ask EXCEPT ![q] = new] /\ acl' = acl /\ exists' = exists /\ header' = header /\ tolls' = tolls
    BY <1>2 DEF Arrive
  <2>4. CASE s /\ m # "POST"
    <3>1. BeginWalk(q, a, t, "control")
      BY <1>2, <2>4 DEF Arrive
    <3>2. "control" \in Modes
      BY DEF Modes
    <3> HIDE DEF new
    <3> QED
      BY <2>2, <2>3, <2>6, <3>1, <3>2, BeginType
  <2>5. CASE ~ (s /\ m # "POST")
    <3>1. pc' = [pc EXCEPT ![q] = "stat"] /\ UNCHANGED <<walk, moments, edits>>
      BY <1>2, <2>5 DEF Arrive, Goto
    <3> HIDE DEF new
    <3>2. /\ ask' \in [Requests -> Asks]
          /\ pc' \in [Requests -> {"idle", "stat", "probe", "read", "granted", "refused",
                                   "writing"}]
      BY <2>2, <2>3, <3>1 DEF TypeOK
    <3>3. \A p \in Requests :
            /\ pc'[p] # "idle" => ask'[p].method # "none"
            /\ pc'[p] = "writing" => ask'[p].sidecar /\ ask'[p].method \notin {"GET", "DELETE"}
      BY <2>2, <2>3, <2>6, <3>1 DEF TypeOK
    <3> QED
      BY <2>3, <3>1, <3>2, <3>3 DEF TypeOK
  <2> QED
    BY <2>4, <2>5
<1>3. ASSUME NEW q \in Requests, Stat(q) PROVE TypeOK'
  <2> DEFINE r == IF Named(q) \notin exists /\ ask[q].method \notin {"GET", "DELETE"}
                  THEN Container(Named(q)) ELSE Named(q)
  <2>1. r \in Resources
    BY TypeFacts, UpFacts
  <2>2. ask[q].method \in Methods /\ ask[q].method # "none"
    BY <1>3, TypeFacts DEF Stat, TypeOK
  <2>3. RequiredMode(ask[q].method) \in Modes
    BY <2>2, AccessAssumption DEF RequiredMode, Modes, AccessAssumption
  <2>4. BeginWalk(q, ask[q].agent, r, RequiredMode(ask[q].method))
    BY <1>3 DEF Stat
  <2>5. ask[q] \in Asks /\ ask' = [ask EXCEPT ![q] = ask[q]]
    BY <1>3 DEF Stat, TypeOK
  <2> HIDE DEF r
  <2> QED
    BY <1>3, <2>1, <2>2, <2>3, <2>4, <2>5, BeginType DEF Stat
<1>4. ASSUME NEW q \in Requests, AclFound(q) PROVE TypeOK'
  BY <1>4 DEF AclFound, Goto, TypeOK
<1>5. ASSUME NEW q \in Requests, AclMissing(q) PROVE TypeOK'
  <2>1. CASE walk[q].level <= Levels(q)
    <3>1. /\ pc' = [pc EXCEPT ![q] = "probe"]
          /\ walk' = [walk EXCEPT ![q].level = @ + 1]
          /\ UNCHANGED <<acl, exists, ask, header, tolls, moments, edits>>
      BY <1>5, <2>1 DEF AclMissing, Goto
    <3>2. walk' \in [Requests -> [check : Resources, mode : Modes, level : Nat]]
      <4> DEFINE next == [walk[q] EXCEPT !.level = @ + 1]
      <4>1. walk[q] \in [check : Resources, mode : Modes, level : Nat]
        BY DEF TypeOK
      <4>2. next \in [check : Resources, mode : Modes, level : Nat]
        BY <4>1
      <4>3. walk' = [walk EXCEPT ![q] = next]
        BY <3>1
      <4> HIDE DEF next
      <4> QED
        BY <4>2, <4>3 DEF TypeOK
    <3>3. \A p \in Requests : walk'[p].level \in 1 .. Len(Up[walk'[p].check]) + 1
      <4>1. walk[q].level \in Nat /\ Levels(q) \in Nat /\ walk[q].level >= 1
        BY TypeFacts
      <4>2. walk'[q].check = walk[q].check /\ walk'[q].level = walk[q].level + 1
        BY <3>1 DEF TypeOK
      <4>3. walk'[q].level \in 1 .. Len(Up[walk'[q].check]) + 1
        BY <2>1, <4>1, <4>2 DEF Levels
      <4>4. \A p \in Requests \ {q} : walk'[p] = walk[p]
        BY <3>1 DEF TypeOK
      <4> QED
        BY <4>3, <4>4 DEF TypeOK
    <3>4. /\ pc' \in [Requests -> {"idle", "stat", "probe", "read", "granted", "refused",
                                   "writing"}]
          /\ pc[q] # "idle"
      BY <1>5, <3>1 DEF TypeOK, AclMissing
    <3> QED
      BY <3>1, <3>2, <3>3, <3>4 DEF TypeOK
  <2>2. CASE ~ walk[q].level <= Levels(q)
    BY <1>5, <2>2 DEF AclMissing, Goto, TypeOK
  <2> QED
    BY <2>1, <2>2
<1>6. ASSUME NEW q \in Requests, Decide(q) PROVE TypeOK'
  <2> DEFINE h == WacAllow(acl[File(q)], Inherited(q), walk[q].check, ask[q].agent)
  <2>1. h \in SUBSET Modes
    <3>1. acl[File(q)] \in Bodies
      BY <1>6, TypeFacts DEF Decide, TypeOK
    <3> QED
      BY <3>1, DocumentFacts DEF WacAllow, Rules
  <2>2. header' = [header EXCEPT ![q] = h]
    BY <1>6 DEF Decide
  <2> HIDE DEF h
  <2>3. header' \in [Requests -> SUBSET Modes]
    BY <2>1, <2>2 DEF TypeOK
  <2>4. tolls' \in [Requests -> SUBSET Modes]
    <3>1. \A doc, inherited, r, a : Tolls(doc, inherited, r, a) \in SUBSET Modes
      BY DEF Tolls
    <3>2. \E t \in SUBSET Modes : tolls' = [tolls EXCEPT ![q] = t]
      BY <1>6, <3>1 DEF Decide
    <3> QED
      BY <3>2 DEF TypeOK
  <2>5. \E l \in {"granted", "refused"} : pc' = [pc EXCEPT ![q] = l]
    BY <1>6 DEF Decide, Goto
  <2> QED
    BY <1>6, <2>3, <2>4, <2>5 DEF Decide, TypeOK
<1>7. ASSUME NEW q \in Requests, Answer(q) PROVE TypeOK'
  <2>1. acl' = acl /\ exists' = exists /\ Finish(q, {})
    BY <1>7 DEF Answer
  <2> QED
    BY <2>1, FinishType DEF TypeOK
<1>8. ASSUME NEW q \in Requests, Create(q) PROVE TypeOK'
  <2>1. acl' = acl /\ exists' = exists \cup Above(ask[q].target) /\ Finish(q, {})
    BY <1>8 DEF Create
  <2>2. Above(ask[q].target) \in SUBSET Resources
    BY TypeFacts, UpFacts
  <2> QED
    BY <2>1, <2>2, FinishType DEF TypeOK
<1>9. ASSUME NEW q \in Requests, RecheckSlug(q) PROVE TypeOK'
  <2>1. BeginWalk(q, ask[q].agent, ask[q].target, "control")
    BY <1>9 DEF RecheckSlug
  <2>2. ask[q] \in Asks /\ ask' = [ask EXCEPT ![q] = ask[q]] /\ ask[q].method # "none"
    BY <1>9 DEF RecheckSlug, TypeOK
  <2>3. "control" \in Modes
    BY DEF Modes
  <2> QED
    BY <1>9, <2>1, <2>2, <2>3, TypeFacts, BeginType DEF RecheckSlug
<1>10. ASSUME NEW q \in Requests, TruncateAcl(q) PROVE TypeOK'
  <2>1. ask[q].target \in Resources /\ {} \in Bodies
    BY TypeFacts, DocumentFacts
  <2>2. acl' \in [Resources -> Bodies \cup {NoAcl}]
    BY <1>10, <2>1 DEF TruncateAcl, TypeOK
  <2>3. exists' \in SUBSET Resources
    BY <1>10, <2>1, UpFacts DEF TruncateAcl, TypeOK
  <2>4. moments' \in [Requests -> SUBSET BOOLEAN] /\ edits' \in [Requests -> SUBSET Resources]
    BY <1>10, <2>1, SeenType DEF TruncateAcl
  <2> QED
    BY <1>10, <2>2, <2>3, <2>4 DEF TruncateAcl, Goto, TypeOK
<1>11. ASSUME NEW q \in Requests, FillAcl(q) PROVE TypeOK'
  <2>1. ask[q].target \in Resources /\ ask[q].doc \in Bodies
    BY TypeFacts
  <2>2. acl' \in [Resources -> Bodies \cup {NoAcl}] /\ exists' \in SUBSET Resources
    BY <1>11, <2>1 DEF FillAcl, TypeOK
  <2> QED
    BY <1>11, <2>1, <2>2, FinishType DEF FillAcl
<1>12. ASSUME NEW q \in Requests, WriteFails(q) PROVE TypeOK'
  <2>1. acl' = acl /\ exists' = exists /\ Finish(q, {})
    BY <1>12 DEF WriteFails
  <2> QED
    BY <2>1, FinishType DEF TypeOK
<1>13. ASSUME NEW q \in Requests, RemoveAcl(q) PROVE TypeOK'
  <2>1. ask[q].target \in Resources
    BY TypeFacts
  <2>2. acl' \in [Resources -> Bodies \cup {NoAcl}] /\ exists' \in SUBSET Resources
    BY <1>13, <2>1 DEF RemoveAcl, TypeOK
  <2> QED
    BY <1>13, <2>1, <2>2, FinishType DEF RemoveAcl
<1>14. ASSUME NEW q \in Requests, Delete(q) PROVE TypeOK'
  <2> DEFINE gone == IF IsContainer(ask[q].target) THEN Below(ask[q].target) ELSE {}
  <2>1. gone \in SUBSET Resources
    BY DEF Below
  <2>2. /\ acl' = [r \in Resources |-> IF r \in gone THEN NoAcl ELSE acl[r]]
        /\ Finish(q, gone)
        /\ exists' = exists \ Below(ask[q].target)
    BY <1>14 DEF Delete
  <2> HIDE DEF gone
  <2>3. acl' \in [Resources -> Bodies \cup {NoAcl}] /\ exists' \in SUBSET Resources
    BY <2>2 DEF TypeOK
  <2> QED
    BY <2>1, <2>2, <2>3, FinishType
<1> QED
  BY <1>1, <1>2, <1>3, <1>4, <1>5, <1>6, <1>7, <1>8, <1>9, <1>10, <1>11, <1>12, <1>13, <1>14
  DEF Next

\* Type correctness, for any tree of resources, any ACLs and any number of requests.
THEOREM AccessTypeTheorem == Spec => []TypeOK
BY TypeInit, TypeStep, PTL DEF Spec
-----------------------------------------------------------------------------
GoodCheck(q) == SearchInv(q) /\ AnswerInv(q) /\ ControlInv(q)

\* A search that goes on while another request changes ACL files: either it has the
\* change before it, or it knows the files without it.
LEMMA OthersChange ==
  ASSUME TypeOK, TypeOK', NEW p \in Requests, GoodCheck(p), NEW changed \in SUBSET Resources,
         \A r \in Resources \ changed : acl'[r] = acl[r],
         pc'[p] = pc[p], ask'[p] = ask[p], walk'[p] = walk[p],
         moments'[p] = Seen(p), edits'[p] = Edited(p, changed)
  PROVE  GoodCheck(p)'
<1>1. ControlInv(p)'
  BY DEF GoodCheck, ControlInv
<1>2. CASE p \notin Walking
  <2>1. moments'[p] = moments[p] /\ edits'[p] = edits[p]
    BY <1>2 DEF Seen, Edited
  <2>2. AnswerInv(p)'
    BY <2>1 DEF GoodCheck, AnswerInv, Comparable
  <2>3. SearchInv(p)'
    BY <1>2 DEF SearchInv, Walking
  <2> QED
    BY <1>1, <2>2, <2>3 DEF GoodCheck
<1>3. CASE p \in Walking
  <2>1. /\ pc[p] \in {"probe", "read"}
        /\ moments'[p] = moments[p] \cup Asking(p, acl')
        /\ edits'[p] = edits[p] \cup changed
    BY <1>3 DEF Walking, Seen, Edited, Asking
  <2>2. AnswerInv(p)'
    BY <2>1 DEF AnswerInv
  <2>3. /\ Asking(p, acl)' = Asking(p, acl')
        /\ Asking(p, Before(p))' = Asking(p, Before(p)')
        /\ Passed(p)' = Passed(p)
    BY DEF Asking, Passed
  <2>4. Asking(p, acl') \subseteq moments'[p]
    BY <2>1
  <2>5. ASSUME Comparable(p)'
        PROVE  /\ Asking(p, Before(p)') \subseteq moments'[p]
               /\ \A s \in Passed(p) : Before(p)'[s] = NoAcl
    <3>1. \A r, s \in edits[p] \cup changed : r = s
      BY <2>1, <2>5 DEF Comparable
    <3>2. Comparable(p)
      BY <2>1, <2>5 DEF Comparable
    <3>3. /\ Asking(p, Before(p)) \subseteq moments[p]
          /\ \A s \in Passed(p) : Before(p)[s] = NoAcl
      BY <2>1, <3>2 DEF GoodCheck, SearchInv
    <3>4. /\ edits[p] \in SUBSET Resources
          /\ acl \in [Resources -> Bodies \cup {NoAcl}]
          /\ acl' \in [Resources -> Bodies \cup {NoAcl}]
      BY DEF TypeOK
    <3>5. Passed(p) \in SUBSET Resources
      BY TypeFacts, UpFacts DEF Passed
    <3>6. Before(p)' =
            [s \in Resources |->
               IF s \in edits[p] \cup changed /\ s \in Passed(p) THEN NoAcl ELSE acl'[s]]
      BY <2>1, <2>3 DEF Before
    <3>7. CASE changed = {}
      <4>1. acl' = acl
        BY <3>4, <3>7
      <4>2. Before(p)' = Before(p)
        BY <3>6, <3>7, <4>1 DEF Before
      <4> QED
        BY <2>1, <3>3, <4>2
    <3>8. ASSUME NEW t \in changed PROVE <2>5!2
      <4>1. changed = {t} /\ edits[p] \subseteq {t} /\ t \in Resources
        BY <3>1, <3>8
      <4>2. CASE t \in Passed(p)
        <5>1. Before(p)[t] = NoAcl
          BY <3>3, <4>2
        <5>2. \A s \in Resources : Before(p)'[s] = Before(p)[s]
          BY <3>6, <4>1, <4>2, <5>1 DEF Before
        <5>3. Before(p)' = Before(p)
          BY <3>6, <5>2 DEF Before
        <5> QED
          BY <2>1, <3>3, <5>3
      <4>3. CASE t \notin Passed(p)
        <5>1. Before(p)' = acl'
          BY <3>4, <3>6, <4>1, <4>3
        <5>2. \A s \in Passed(p) : Before(p)[s] = acl[s] /\ acl'[s] = acl[s]
          BY <3>5, <4>1, <4>3 DEF Before
        <5> QED
          BY <2>4, <3>3, <5>1, <5>2
      <4> QED
        BY <4>2, <4>3
    <3> QED
      BY <3>7, <3>8
  <2>6. SearchInv(p)'
    BY <2>3, <2>4, <2>5 DEF SearchInv
  <2> QED
    BY <1>1, <2>2, <2>6 DEF GoodCheck
<1> QED
  BY <1>2, <1>3

LEMMA OthersRest ==
  ASSUME NEW p \in Requests, GoodCheck(p), acl' = acl, pc'[p] = pc[p], ask'[p] = ask[p],
         walk'[p] = walk[p], moments'[p] = moments[p], edits'[p] = edits[p]
  PROVE  GoodCheck(p)'
<1>1. Passed(p)' = Passed(p) /\ Comparable(p)' = Comparable(p)
  BY DEF Passed, Comparable
<1>2. Before(p)' = Before(p)
  BY <1>1 DEF Before
<1>3. Asking(p, acl)' = Asking(p, acl) /\ Asking(p, Before(p))' = Asking(p, Before(p))
  BY <1>2 DEF Asking
<1>4. SearchInv(p)'
  BY <1>1, <1>2, <1>3 DEF GoodCheck, SearchInv
<1>5. AnswerInv(p)' /\ ControlInv(p)'
  BY <1>1 DEF GoodCheck, AnswerInv, ControlInv
<1> QED
  BY <1>4, <1>5 DEF GoodCheck

LEMMA BeginGood ==
  ASSUME TypeOK, NEW q \in Requests, NEW a, NEW r \in Resources, NEW mode,
         BeginWalk(q, a, r, mode), acl' = acl, ask'[q].agent = a,
         ask'[q].sidecar =>
           \/ r = ask'[q].target /\ mode = "control"
           \/ ask'[q].method = "POST" /\ mode = "append"
  PROVE  GoodCheck(q)'
<1>1. /\ pc'[q] = "probe"
      /\ walk'[q] = [check |-> r, mode |-> mode, level |-> 1]
      /\ moments'[q] = Permits(acl, a, r, mode)
      /\ edits'[q] = {}
  BY DEF BeginWalk, Goto, TypeOK
<1>2. Asking(q, acl)' \subseteq moments'[q]
  BY <1>1 DEF Asking
<1>3. Before(q)' = acl'
  BY <1>1 DEF Before, TypeOK
<1>4. Passed(q)' = {}
  BY <1>1, UpFacts DEF Passed
<1>5. SearchInv(q)'
  BY <1>2, <1>3, <1>4 DEF SearchInv, Asking
<1>6. AnswerInv(q)' /\ ControlInv(q)'
  BY <1>1 DEF AnswerInv, ControlInv
<1> QED
  BY <1>5, <1>6 DEF GoodCheck

LEMMA FinishGood ==
  ASSUME TypeOK, TypeOK', NEW q \in Requests, NEW changed \in SUBSET Resources,
         \A p \in Requests : GoodCheck(p), Finish(q, changed),
         \A r \in Resources \ changed : acl'[r] = acl[r]
  PROVE  \A p \in Requests : GoodCheck(p)'
<1>1. GoodCheck(q)'
  <2>1. pc'[q] = "idle"
    BY DEF Finish, Goto, TypeOK
  <2> QED
    BY <2>1 DEF GoodCheck, SearchInv, AnswerInv, ControlInv
<1>2. ASSUME NEW p \in Requests \ {q} PROVE GoodCheck(p)'
  <2>1. /\ pc'[p] = pc[p] /\ ask'[p] = ask[p] /\ walk'[p] = walk[p]
        /\ moments'[p] = Seen(p) /\ edits'[p] = Edited(p, changed)
    BY DEF Finish, Goto, TypeOK
  <2> QED
    BY <2>1, OthersChange
<1> QED
  BY <1>1, <1>2

LEMMA CheckInit == Init => CheckInv
<1>1. ASSUME Init, NEW q \in Requests PROVE SearchInv(q) /\ AnswerInv(q) /\ ControlInv(q)
  BY <1>1 DEF Init, SearchInv, AnswerInv, ControlInv
<1> QED
  BY <1>1, TypeInit DEF CheckInv

LEMMA CheckStep == CheckInv /\ [Next]_vars => CheckInv'
<1> SUFFICES ASSUME CheckInv, [Next]_vars PROVE CheckInv'
  OBVIOUS
<1>a. TypeOK /\ TypeOK' /\ \A p \in Requests : GoodCheck(p)
  BY TypeStep DEF CheckInv, GoodCheck
<1>b. SUFFICES \A p \in Requests : GoodCheck(p)'
  BY <1>a DEF CheckInv, GoodCheck
<1>1. CASE UNCHANGED vars
  BY <1>1, <1>a, OthersRest DEF vars
<1>2. ASSUME NEW q \in Requests, NEW a \in Agents, NEW m \in Methods, NEW t \in Resources,
             NEW s \in BOOLEAN, NEW doc \in Documents[t] \cup {{}}, Arrive(q, a, m, t, s, doc)
      PROVE  \A p \in Requests : GoodCheck(p)'
  <2>1. /\ ask'[q] = [agent |-> a, method |-> m, target |-> t, sidecar |-> s, doc |-> doc]
        /\ \A p \in Requests \ {q} : ask'[p] = ask[p]
        /\ acl' = acl
    BY <1>2, <1>a DEF Arrive, TypeOK
  <2>2. CASE s /\ m # "POST"
    <3>1. BeginWalk(q, a, t, "control")
      BY <1>2, <2>2 DEF Arrive
    <3>2. GoodCheck(q)'
      BY <1>a, <2>1, <3>1, BeginGood
    <3>3. ASSUME NEW p \in Requests \ {q} PROVE GoodCheck(p)'
      <4>1. /\ pc'[p] = pc[p] /\ walk'[p] = walk[p] /\ moments'[p] = moments[p]
            /\ edits'[p] = edits[p]
        BY <1>a, <3>1 DEF BeginWalk, Goto, TypeOK
      <4> QED
        BY <1>a, <2>1, <4>1, OthersRest
    <3> QED
      BY <3>2, <3>3
  <2>3. CASE ~ (s /\ m # "POST")
    <3>1. pc' = [pc EXCEPT ![q] = "stat"] /\ UNCHANGED <<walk, moments, edits>>
      BY <1>2, <2>3 DEF Arrive, Goto
    <3>2. GoodCheck(q)'
      BY <1>a, <2>1, <2>3, <3>1 DEF GoodCheck, SearchInv, AnswerInv, ControlInv, TypeOK
    <3>3. ASSUME NEW p \in Requests \ {q} PROVE GoodCheck(p)'
      <4>1. pc'[p] = pc[p]
        BY <1>a, <3>1 DEF TypeOK
      <4> QED
        BY <1>a, <2>1, <3>1, <4>1, OthersRest
    <3> QED
      BY <3>2, <3>3
  <2> QED
    BY <2>2, <2>3
<1>3. ASSUME NEW q \in Requests, Stat(q) PROVE \A p \in Requests : GoodCheck(p)'
  <2> DEFINE r == IF Named(q) \notin exists /\ ask[q].method \notin {"GET", "DELETE"}
                  THEN Container(Named(q)) ELSE Named(q)
  <2>1. r \in Resources
    BY <1>a, TypeFacts, UpFacts
  <2>2. BeginWalk(q, ask[q].agent, r, RequiredMode(ask[q].method)) /\ acl' = acl /\ ask' = ask
    BY <1>3 DEF Stat
  <2>3. ask[q].sidecar => ask[q].method = "POST" /\ RequiredMode(ask[q].method) = "append"
    BY <1>3, <1>a DEF Stat, GoodCheck, ControlInv, RequiredMode
  <2> HIDE DEF r
  <2>4. GoodCheck(q)'
    BY <1>a, <2>1, <2>2, <2>3, BeginGood
  <2>5. ASSUME NEW p \in Requests \ {q} PROVE GoodCheck(p)'
    <3>1. /\ pc'[p] = pc[p] /\ walk'[p] = walk[p] /\ moments'[p] = moments[p]
          /\ edits'[p] = edits[p]
      BY <1>a, <2>2 DEF BeginWalk, Goto, TypeOK
    <3> QED
      BY <1>a, <2>2, <3>1, OthersRest
  <2> QED
    BY <2>4, <2>5
<1>4. ASSUME NEW q \in Requests, AclFound(q) PROVE \A p \in Requests : GoodCheck(p)'
  <2>1. /\ pc' = [pc EXCEPT ![q] = "read"] /\ pc[q] = "probe"
        /\ UNCHANGED <<acl, ask, walk, moments, edits>>
    BY <1>4 DEF AclFound, Goto
  <2>2. /\ Passed(q)' = Passed(q) /\ Comparable(q)' = Comparable(q)
        /\ Before(q)' = Before(q)
        /\ Asking(q, acl)' = Asking(q, acl) /\ Asking(q, Before(q))' = Asking(q, Before(q))
    BY <2>1 DEF Passed, Comparable, Before, Asking
  <2>3. pc'[q] = "read" /\ \A p \in Requests \ {q} : pc'[p] = pc[p]
    BY <1>a, <2>1 DEF TypeOK
  <2>4. SearchInv(q)'
    BY <1>a, <2>1, <2>2, <2>3 DEF GoodCheck, SearchInv
  <2>5. AnswerInv(q)' /\ ControlInv(q)'
    BY <1>a, <2>1, <2>3 DEF GoodCheck, AnswerInv, ControlInv
  <2>6. \A p \in Requests \ {q} : GoodCheck(p)'
    BY <1>a, <2>1, <2>3, OthersRest
  <2> QED
    BY <2>4, <2>5, <2>6 DEF GoodCheck
<1>5. ASSUME NEW q \in Requests, AclMissing(q) PROVE \A p \in Requests : GoodCheck(p)'
  <2> DEFINE u == Up[walk[q].check]
             k == walk[q].level
  <2>1. /\ pc[q] \in {"probe", "read"}
        /\ acl[File(q)] = NoAcl
        /\ UNCHANGED <<acl, ask, moments, edits>>
    BY <1>5 DEF AclMissing
  <2>2. /\ k \in 1 .. Len(u) + 1
        /\ Len(u) \in Nat /\ Len(u) > 0
        /\ walk[q].check \in Resources
        /\ \A i \in 1 .. Len(u) : u[i] \in Resources
    BY <1>a, TypeFacts, UpFacts
  <2>3. /\ \A p \in Requests \ {q} : pc'[p] = pc[p] /\ walk'[p] = walk[p]
    BY <1>5, <1>a DEF AclMissing, Goto, TypeOK
  <2>4. \A p \in Requests \ {q} : GoodCheck(p)'
    BY <1>a, <2>1, <2>3, OthersRest
  <2>5. CASE k <= Len(u)
    <3>1. /\ pc'[q] = "probe"
          /\ walk'[q].check = walk[q].check
          /\ walk'[q].mode = walk[q].mode
          /\ walk'[q].level = k + 1
      BY <1>5, <1>a, <2>5 DEF AclMissing, Goto, Levels, TypeOK
    <3>2. File(q) = u[k]
      BY <2>2, <2>5 DEF File, Levels
    <3>3. Passed(q)' = Passed(q) \cup {u[k]}
      <4>1. {i \in 1 .. Len(u) : i < k + 1} = {i \in 1 .. Len(u) : i < k} \cup {k}
        BY <2>2, <2>5
      <4>2. Passed(q)' = {u[j] : j \in {i \in 1 .. Len(u) : i < k + 1}}
        BY <3>1 DEF Passed
      <4>3. Passed(q) = {u[j] : j \in {i \in 1 .. Len(u) : i < k}}
        BY DEF Passed
      <4> HIDE DEF u, k
      <4> QED
        BY <4>1, <4>2, <4>3
    <3>4. Before(q)' = Before(q)
      <4>1. \A s \in Resources : Before(q)'[s] = Before(q)[s]
        BY <2>1, <3>2, <3>3 DEF Before
      <4> QED
        BY <4>1 DEF Before
    <3>5. /\ Comparable(q)' = Comparable(q)
          /\ Asking(q, acl)' = Asking(q, acl) /\ Asking(q, Before(q))' = Asking(q, Before(q))
      BY <2>1, <3>1, <3>4 DEF Comparable, Asking
    <3>6. Before(q)[u[k]] = NoAcl
      BY <2>1, <2>2, <2>5, <3>2 DEF Before
    <3>7. SearchInv(q)'
      BY <1>a, <2>1, <3>1, <3>3, <3>4, <3>5, <3>6 DEF GoodCheck, SearchInv
    <3>8. AnswerInv(q)' /\ ControlInv(q)'
      BY <1>a, <2>1, <3>1 DEF GoodCheck, AnswerInv, ControlInv
    <3> QED
      BY <2>4, <3>7, <3>8 DEF GoodCheck
  <2>6. CASE ~ k <= Len(u)
    <3>1. pc'[q] = "refused" /\ walk' = walk
      BY <1>5, <1>a, <2>6 DEF AclMissing, Goto, Levels, TypeOK
    <3>2. ASSUME Comparable(q) PROVE FALSE \in moments[q]
      <4>1. \A i \in 1 .. Len(u) : u[i] \in Passed(q)
        BY <2>2, <2>6 DEF Passed
      <4>2. \A i \in 1 .. Len(u) : Before(q)[u[i]] = NoAcl
        BY <1>a, <2>1, <3>2, <4>1 DEF GoodCheck, SearchInv
      <4>3. FALSE \in Asking(q, Before(q))
        BY <2>2, <4>2, NoneAtAll DEF Asking
      <4> QED
        BY <1>a, <2>1, <3>2, <4>3 DEF GoodCheck, SearchInv
    <3>3. Comparable(q)' = Comparable(q)
      BY <2>1, <3>1 DEF Comparable
    <3>4. SearchInv(q)' /\ AnswerInv(q)' /\ ControlInv(q)'
      BY <1>a, <2>1, <3>1, <3>2, <3>3 DEF GoodCheck, SearchInv, AnswerInv, ControlInv
    <3> QED
      BY <2>4, <3>4 DEF GoodCheck
  <2> QED
    BY <2>5, <2>6
<1>6. ASSUME NEW q \in Requests, Decide(q) PROVE \A p \in Requests : GoodCheck(p)'
  <2> DEFINE u == Up[walk[q].check]
             k == walk[q].level
             all == Grants(acl[File(q)], Inherited(q), walk[q].check, ask[q].agent, walk[q].mode)
  <2>0. PICK yes \in all : pc' = [pc EXCEPT ![q] = IF yes THEN "granted" ELSE "refused"]
    BY <1>6 DEF Decide, Goto
  <2>1. /\ pc[q] = "read"
        /\ acl[File(q)] # NoAcl
        /\ UNCHANGED <<acl, ask, walk, moments, edits>>
        /\ pc' = [pc EXCEPT ![q] = IF yes THEN "granted" ELSE "refused"]
    BY <1>6, <2>0 DEF Decide
  <2>2. /\ k \in 1 .. Len(u) + 1
        /\ Len(u) \in Nat /\ Len(u) > 0
        /\ walk[q].check \in Resources
        /\ \A i \in 1 .. Len(u) : u[i] \in Resources
        /\ u[1] = walk[q].check /\ u[Len(u)] = Root
        /\ \A i, j \in 1 .. Len(u) : u[i] = u[j] => i = j
    BY <1>a, TypeFacts, UpFacts
  <2>3. yes \in BOOLEAN
    BY GrantsType
  <2>4. \A p \in Requests \ {q} : GoodCheck(p)'
    BY <1>a, <2>1, OthersRest DEF TypeOK
  <2>5. ASSUME Comparable(q) 
        PROVE  yes \in moments[q]
    <3>1. /\ Asking(q, acl) \subseteq moments[q]
          /\ Asking(q, Before(q)) \subseteq moments[q]
          /\ \A s \in Passed(q) : Before(q)[s] = NoAcl
      BY <1>a, <2>1, <2>5 DEF GoodCheck, SearchInv
    <3>2. CASE k <= Len(u)
      <4>1. File(q) = u[k] /\ k \in 1 .. Len(u)
        BY <2>2, <3>2 DEF File, Levels
      <4>2. u[k] \notin Passed(q)
        BY <2>2, <4>1 DEF Passed
      <4>3. Before(q)[u[k]] = acl[u[k]]
        BY <2>2, <4>1, <4>2 DEF Before
      <4>4. \A j \in 1 .. Len(u) : j < k => Before(q)[u[j]] = NoAcl
        BY <3>1 DEF Passed
      <4>5. Permits(Before(q), ask[q].agent, walk[q].check, walk[q].mode)
              = Grants(Before(q)[u[k]], k > 1, walk[q].check, ask[q].agent, walk[q].mode)
        <5>1. Before(q)[u[k]] # NoAcl
          BY <2>1, <4>1, <4>3
        <5>2. walk[q].check \in Resources
          BY <2>2
        <5>3. PICK c, n, f, i : c = walk[q].check /\ n = walk[q].level /\ f = Before(q) /\ i = (n > 1)
          OBVIOUS
        <5>4. n \in 1 .. Len(Up[c]) /\ f[Up[c][n]] # NoAcl /\ \A j \in 1 .. Len(Up[c]) : j < n => f[Up[c][j]] = NoAcl
          BY <4>1, <4>4, <5>1, <5>3
        <5>5. Permits(f, ask[q].agent, c, walk[q].mode) = Grants(f[Up[c][n]], i, c, ask[q].agent, walk[q].mode)
          <6>1. c \in Resources /\ i = (n > 1)
            BY <5>2, <5>3
          <6>2. \A j \in 1 .. Len(Up[c]) : j < n => f[Up[c][j]] = NoAcl
            BY <5>4
          <6>3. n \in 1 .. Len(Up[c]) /\ f[Up[c][n]] # NoAcl
            BY <5>4
          <6> QED
            BY <6>1, <6>2, <6>3, NearestDecides
        <5> QED
          BY <5>3, <5>5
      <4> QED
        BY <3>1, <4>1, <4>3, <4>5 DEF Asking, Inherited
    <3>3. CASE ~ k <= Len(u)
      <4>1. File(q) = u[Len(u)] /\ k = Len(u) + 1 /\ Len(u) \in 1 .. Len(u)
        BY <2>2, <3>3 DEF File, Levels
      <4>2. u[Len(u)] \in Passed(q)
        BY <4>1, <2>2 DEF Passed
      <4>3. Root \in edits[q]
        BY <2>1, <2>2, <3>1, <4>1, <4>2 DEF Before
      <4>4. walk[q].check # Root
        BY <2>5, <4>3 DEF Comparable
      <4>5. Len(u) > 1
        BY <2>2, <4>4
      <4>6. ASSUME NEW j \in 1 .. Len(u), j < Len(u) PROVE acl[u[j]] = NoAcl
        <5>1. u[j] # Root /\ u[j] \in Resources
          BY <2>2, <4>1, <4>6
        <5>2. u[j] \notin edits[q]
          BY <2>5, <4>3, <5>1 DEF Comparable
        <5>3. u[j] \in Passed(q)
          BY <2>2, <4>1, <4>6 DEF Passed
        <5> QED
          BY <3>1, <5>1, <5>2, <5>3 DEF Before
      <4>7. Permits(acl, ask[q].agent, walk[q].check, walk[q].mode)
              = Grants(acl[u[Len(u)]], Len(u) > 1, walk[q].check, ask[q].agent, walk[q].mode)
        <5>1. acl[u[Len(u)]] # NoAcl
          BY <2>1, <4>1
        <5>2. walk[q].check \in Resources
          BY <2>2
        <5>3. \A j \in 1 .. Len(u) : j < Len(u) => acl[u[j]] = NoAcl
          BY <4>6
        <5>4. PICK c, n, i : c = walk[q].check /\ n = Len(u) /\ i = (n > 1)
          OBVIOUS
        <5>5. n \in 1 .. Len(Up[c]) /\ acl[Up[c][n]] # NoAcl /\ \A j \in 1 .. Len(Up[c]) : j < n => acl[Up[c][j]] = NoAcl
          BY <4>1, <5>1, <5>3, <5>4
        <5>6. Permits(acl, ask[q].agent, c, walk[q].mode) = Grants(acl[Up[c][n]], i, c, ask[q].agent, walk[q].mode)
          BY <5>2, <5>4, <5>5, NearestDecides
        <5> QED
          BY <5>4, <5>6
      <4>8. Inherited(q) = (Len(u) > 1)
        BY <2>2, <4>1, <4>5 DEF Inherited
      <4> QED
        BY <3>1, <4>1, <4>7, <4>8 DEF Asking
    <3> QED
      BY <3>2, <3>3
  <2> HIDE DEF all
  <2>6. pc'[q] = IF yes THEN "granted" ELSE "refused"
    BY <1>a, <2>1 DEF TypeOK
  <2>7. Comparable(q)' = Comparable(q)
    BY <2>1 DEF Comparable
  <2>8. SearchInv(q)'
    BY <2>6 DEF SearchInv
  <2>10. AnswerInv(q)'
    <3>1. moments'[q] = moments[q] /\ (Comparable(q)' => Comparable(q))
      BY <2>1, <2>7
    <3>2. CASE yes
      <4>1. pc'[q] = "granted"
        BY <2>6, <3>2
      <4>2. yes = TRUE
        BY <2>3, <3>2
      <4> QED
        BY <2>5, <3>1, <3>2, <4>1, <4>2 DEF AnswerInv
    <3>3. CASE ~ yes
      <4>1. pc'[q] = "refused"
        BY <2>6, <3>3
      <4>2. yes = FALSE
        BY <2>3, <3>3
      <4> QED
        BY <2>5, <3>1, <3>3, <4>1, <4>2 DEF AnswerInv
    <3> QED
      BY <3>2, <3>3
  <2>9. ControlInv(q)'
    BY <1>a, <2>1, <2>6 DEF GoodCheck, ControlInv
  <2> QED
    BY <2>4, <2>8, <2>9, <2>10 DEF GoodCheck
<1>7. ASSUME NEW q \in Requests, Answer(q) PROVE \A p \in Requests : GoodCheck(p)'
  BY <1>7, <1>a, FinishGood DEF Answer
<1>8. ASSUME NEW q \in Requests, Create(q) PROVE \A p \in Requests : GoodCheck(p)'
  BY <1>8, <1>a, FinishGood DEF Create
<1>9. ASSUME NEW q \in Requests, RecheckSlug(q) PROVE \A p \in Requests : GoodCheck(p)'
  <2>1. /\ BeginWalk(q, ask[q].agent, ask[q].target, "control")
        /\ acl' = acl /\ ask' = ask
    BY <1>9 DEF RecheckSlug
  <2>2. GoodCheck(q)'
    BY <1>a, <2>1, TypeFacts, BeginGood
  <2>3. ASSUME NEW p \in Requests \ {q} PROVE GoodCheck(p)'
    <3>1. /\ pc'[p] = pc[p] /\ walk'[p] = walk[p] /\ moments'[p] = moments[p]
          /\ edits'[p] = edits[p]
      BY <1>a, <2>1 DEF BeginWalk, Goto, TypeOK
    <3> QED
      BY <1>a, <2>1, <3>1, OthersRest
  <2> QED
    BY <2>2, <2>3
<1>10. ASSUME NEW q \in Requests, TruncateAcl(q) PROVE \A p \in Requests : GoodCheck(p)'
  <2>1. /\ pc[q] = "granted" /\ ask[q].sidecar
        /\ MayStore(q)
        /\ pc' = [pc EXCEPT ![q] = "writing"]
        /\ acl' = [acl EXCEPT ![ask[q].target] = {}]
        /\ moments' = [p \in Requests |-> Seen(p)]
        /\ edits' = [p \in Requests |-> Edited(p, {ask[q].target})]
        /\ UNCHANGED <<ask, walk>>
    BY <1>10 DEF TruncateAcl, Goto
  <2>2. \A r \in Resources \ {ask[q].target} : acl'[r] = acl[r]
    BY <1>a, <2>1 DEF TypeOK
  <2>3. ask[q].target \in Resources
    BY <1>a, TypeFacts
  <2>4. ASSUME NEW p \in Requests \ {q} PROVE GoodCheck(p)'
    <3>1. pc'[p] = pc[p] /\ ask'[p] = ask[p] /\ walk'[p] = walk[p]
      BY <1>a, <2>1 DEF TypeOK
    <3>2. moments'[p] = Seen(p) /\ edits'[p] = Edited(p, {ask[q].target})
      BY <2>1
    <3> QED
      BY <1>a, <2>2, <2>3, <3>1, <3>2, OthersChange
  <2>5. pc'[q] = "writing" /\ moments'[q] = moments[q] /\ edits'[q] = edits[q]
    BY <1>a, <2>1 DEF TypeOK, Seen, Edited, Walking
  <2>6. walk[q].mode = "control"
    BY <1>a, <2>1 DEF GoodCheck, ControlInv, MayStore
  <2>7. Comparable(q)' = Comparable(q)
    BY <2>1, <2>5 DEF Comparable
  <2>8. SearchInv(q)' /\ AnswerInv(q)'
    BY <1>a, <2>1, <2>5, <2>7 DEF GoodCheck, SearchInv, AnswerInv
  <2>9. ControlInv(q)'
    BY <1>a, <2>1, <2>5, <2>6 DEF GoodCheck, ControlInv
  <2> QED
    BY <2>4, <2>8, <2>9 DEF GoodCheck
<1>11. ASSUME NEW q \in Requests, FillAcl(q) PROVE \A p \in Requests : GoodCheck(p)'
  <2>1. \A r \in Resources \ {ask[q].target} : acl'[r] = acl[r]
    BY <1>11, <1>a DEF FillAcl, TypeOK
  <2> QED
    BY <1>11, <1>a, <2>1, TypeFacts, FinishGood DEF FillAcl
<1>12. ASSUME NEW q \in Requests, WriteFails(q) PROVE \A p \in Requests : GoodCheck(p)'
  BY <1>12, <1>a, FinishGood DEF WriteFails
<1>13. ASSUME NEW q \in Requests, RemoveAcl(q) PROVE \A p \in Requests : GoodCheck(p)'
  <2>1. \A r \in Resources \ {ask[q].target} : acl'[r] = acl[r]
    BY <1>13, <1>a DEF RemoveAcl, TypeOK
  <2> QED
    BY <1>13, <1>a, <2>1, TypeFacts, FinishGood DEF RemoveAcl
<1>14. ASSUME NEW q \in Requests, Delete(q) PROVE \A p \in Requests : GoodCheck(p)'
  <2> DEFINE gone == IF IsContainer(ask[q].target) THEN Below(ask[q].target) ELSE {}
  <2>1. gone \in SUBSET Resources
    BY DEF Below
  <2>2. /\ acl' = [r \in Resources |-> IF r \in gone THEN NoAcl ELSE acl[r]]
        /\ Finish(q, gone)
    BY <1>14 DEF Delete
  <2> HIDE DEF gone
  <2> QED
    BY <1>a, <2>1, <2>2, FinishGood
<1> QED
  BY <1>1, <1>2, <1>3, <1>4, <1>5, <1>6, <1>7, <1>8, <1>9, <1>10, <1>11, <1>12, <1>13, <1>14
  DEF Next

LEMMA CheckTheorem == Spec => []CheckInv
BY CheckInit, CheckStep, PTL DEF Spec

\* findApplicableAcl walks while ACLs come and go, and yet answers as one step would have,
\* as long as the ACL of no more than one resource changes under it: for any tree, any
\* ACLs and any number of requests.
THEOREM AnswerWasRightTheorem == Spec => []AnswerWasRight
<1>1. CheckInv => AnswerWasRight
  BY DEF CheckInv, AnswerInv, AnswerWasRight
<1> QED
  BY <1>1, CheckTheorem, PTL

\* An ACL file is written only after a check for Control of the resource it protects.
THEOREM AclWrittenTheorem == Spec => AclWrittenUnderControl
<1> DEFINE Written ==
      \A r \in Resources :
        acl'[r] \notin {acl[r], NoAcl} =>
          \E q \in Requests :
            /\ ask[q].target = r
            /\ walk[q].check = r /\ walk[q].mode = "control"
            /\ Comparable(q) => TRUE \in moments[q]
<1>1. ASSUME CheckInv, Next PROVE Written
  <2> SUFFICES ASSUME NEW r \in Resources, acl'[r] \notin {acl[r], NoAcl}
               PROVE  \E q \in Requests :
                        /\ ask[q].target = r
                        /\ walk[q].check = r /\ walk[q].mode = "control"
                        /\ Comparable(q) => TRUE \in moments[q]
    OBVIOUS
  <2>1. TypeOK /\ \A q \in Requests : AnswerInv(q) /\ ControlInv(q)
    BY <1>1 DEF CheckInv
  <2>2. ASSUME NEW q \in Requests, pc[q] = "granted", ask[q].sidecar, MayStore(q),
               acl' = [acl EXCEPT ![ask[q].target] = {}]
        PROVE  \E p \in Requests :
                 /\ ask[p].target = r
                 /\ walk[p].check = r /\ walk[p].mode = "control"
                 /\ Comparable(p) => TRUE \in moments[p]
    <3>1. ask[q].target = r
      BY <2>1, <2>2 DEF TypeOK
    <3>2. walk[q].check = ask[q].target /\ walk[q].mode = "control"
      BY <2>1, <2>2 DEF ControlInv, MayStore
    <3>3. Comparable(q) => TRUE \in moments[q]
      BY <2>1, <2>2 DEF AnswerInv
    <3> QED
      BY <3>1, <3>2, <3>3
  <2>3. ASSUME NEW q \in Requests, FillAcl(q)
        PROVE  \E p \in Requests :
                 /\ ask[p].target = r
                 /\ walk[p].check = r /\ walk[p].mode = "control"
                 /\ Comparable(p) => TRUE \in moments[p]
    <3>1. pc[q] = "writing" /\ ask[q].target = r
      BY <2>1, <2>3 DEF FillAcl, TypeOK
    <3>2. walk[q].check = ask[q].target /\ walk[q].mode = "control"
      BY <2>1, <3>1 DEF ControlInv, TypeOK
    <3>3. Comparable(q) => TRUE \in moments[q]
      BY <2>1, <3>1 DEF AnswerInv
    <3> QED
      BY <3>1, <3>2, <3>3
  <2>4. ASSUME NEW q \in Requests,
               AclFound(q) \/ AclMissing(q) \/ Decide(q) \/ Answer(q) \/ Create(q)
                 \/ RecheckSlug(q) \/ WriteFails(q) \/ Stat(q)
        PROVE  FALSE
    BY <2>4 DEF AclFound, AclMissing, Decide, Answer, Create, RecheckSlug, WriteFails, Stat
  <2>5. ASSUME NEW q \in Requests, RemoveAcl(q) \/ Delete(q) PROVE FALSE
    BY <2>1, <2>5 DEF RemoveAcl, Delete, TypeOK
  <2>6. ASSUME NEW q \in Requests, NEW a \in Agents, NEW m \in Methods, NEW t \in Resources,
               NEW s \in BOOLEAN, NEW doc \in Documents[t] \cup {{}},
               Arrive(q, a, m, t, s, doc)
        PROVE  FALSE
    BY <2>6 DEF Arrive
  <2>7. ASSUME NEW q \in Requests, TruncateAcl(q)
        PROVE  \E p \in Requests :
                 /\ ask[p].target = r
                 /\ walk[p].check = r /\ walk[p].mode = "control"
                 /\ Comparable(p) => TRUE \in moments[p]
    BY <2>2, <2>7 DEF TruncateAcl
  <2> QED
    BY <1>1, <2>3, <2>4, <2>5, <2>6, <2>7 DEF Next
<1>2. CheckInv /\ [Next]_vars => [Written]_vars
  BY <1>1
<1>3. AclWrittenUnderControl <=> [][Written]_vars
  BY PTL DEF AclWrittenUnderControl
<1> HIDE DEF Written
<1> QED
  BY <1>2, <1>3, CheckTheorem, PTL DEF Spec

\* The check is safe, for any agents, resources, ACLs and number of requests.
THEOREM AccessSafeTheorem == Spec => []AccessSafe
<1>1. TypeOK /\ AnswerWasRight => AccessSafe
  BY DEF AccessSafe
<1> QED
  BY <1>1, AccessTypeTheorem, AnswerWasRightTheorem, PTL
-----------------------------------------------------------------------------
\* What HeaderAgrees says of one request.
Agrees(q) ==
  (ask[q].method = "POST" => walk[q].mode = "append") =>
    /\ pc[q] = "granted" => Listed(q)
    /\ pc[q] = "refused" /\ Listed(q) => walk[q].mode \in tolls[q]

\* There is no header until the check is over; the second check of a POST is the one that is made
\* under the header of the first.
HeaderLate(q) ==
  /\ pc[q] \in {"idle", "stat"} => header[q] = {}
  /\ pc[q] \in {"probe", "read"} => header[q] = {} \/ (ask[q].method = "POST" /\ walk[q].mode = "control")

HeaderInv ==
  /\ header \in [Requests -> SUBSET Modes]
  /\ DOMAIN pc = Requests /\ DOMAIN ask = Requests
  /\ walk \in [Requests -> [check : Resources, mode : Modes, level : Nat]]
  /\ \A q \in Requests : Agrees(q) /\ HeaderLate(q)

LEMMA HeaderOf ==
  ASSUME TypeOK', HeaderInv, NEW q \in Requests, Agrees(q)', HeaderLate(q)',
         \A p \in Requests \ {q} : /\ pc'[p] = pc[p] /\ ask'[p] = ask[p] /\ walk'[p] = walk[p]
                                   /\ header'[p] = header[p] /\ tolls'[p] = tolls[p]
  PROVE  HeaderInv'
<1>1. ASSUME NEW p \in Requests \ {q} PROVE Agrees(p)' /\ HeaderLate(p)'
  BY DEF HeaderInv, Agrees, HeaderLate, Listed
<1>. QED
  BY <1>1 DEF HeaderInv, TypeOK

\* authorize computes the answer and the header from one document.
LEMMA DecideAgrees ==
  ASSUME TypeOK, HeaderInv, NEW q \in Requests, Decide(q)
  PROVE  Agrees(q)' /\ HeaderLate(q)'
<1>. DEFINE doc == acl[File(q)]
            r == walk[q].check
            a == ask[q].agent
            rules == Rules(doc, Inherited(q), r, a)
            all == Grants(doc, Inherited(q), r, a, walk[q].mode)
<1>1. /\ header'[q] = WacAllow(doc, Inherited(q), r, a) /\ tolls'[q] = Tolls(doc, Inherited(q), r, a)
      /\ ask' = ask /\ walk' = walk
  BY DEF Decide, TypeOK
<1>2. PICK yes \in all : pc'[q] = IF yes THEN "granted" ELSE "refused"
  BY DEF Decide, Goto, TypeOK
<1>3. yes \in BOOLEAN /\ walk[q].mode \in Modes
  BY GrantsType DEF TypeOK
<1>. HIDE DEF doc, r, a, rules
<1>4. \A m : m \in header'[q] <=> \E z \in rules : m \in z.modes
  BY <1>1 DEF WacAllow, rules
<1>5. \A m \in Modes : m \in tolls'[q] <=> \E z \in rules : Gives(z, m) /\ z.condition # "none"
  BY <1>1 DEF Tolls, rules
<1>6. Listed(q)' <=> \E z \in rules : Gives(z, walk[q].mode)
  BY <1>1, <1>4 DEF Listed, Gives
<1>7. ASSUME yes PROVE Listed(q)'
  <2>1. \E z \in rules : Gives(z, walk[q].mode)
    BY <1>2, <1>7 DEF Grants, rules
  <2>. QED
    BY <1>6, <2>1
<1>8. ASSUME ~ yes, NEW z \in rules, Gives(z, walk[q].mode)
      PROVE  \E y \in rules : Gives(y, walk[q].mode) /\ y.condition # "none"
  <2>1. CASE z.condition # "none"
    BY <1>8, <2>1
  <2>2. CASE z.condition = "none"
    <3>0. z \in {y \in rules : Gives(y, walk[q].mode) /\ y.condition # "unsupported"}
      BY <1>8, <2>2
    <3>a. yes \in UNION {Answers(y, a) : y \in {x \in rules : Gives(x, walk[q].mode) /\ x.condition # "unsupported"}}
      BY <1>2, <3>0 DEF Grants, rules
    <3>1. PICK y \in rules : Gives(y, walk[q].mode) /\ yes \in Answers(y, a)
      BY <3>a
    <3>2. y.condition = "payment"
      BY <1>8, <3>1 DEF Answers
    <3>. QED
      BY <3>1, <3>2
  <2>. QED
    BY <2>1, <2>2
<1>9. ~ yes /\ Listed(q)' => walk[q].mode \in tolls'[q]
  BY <1>3, <1>5, <1>6, <1>8
<1>. HIDE DEF all
<1>. QED
  BY <1>1, <1>2, <1>7, <1>9 DEF Agrees, HeaderLate

LEMMA HeaderStart == Init => HeaderInv
BY AccessAssumption DEF Init, HeaderInv, Agrees, HeaderLate, Listed, NoWalk, NoAsk, Modes

LEMMA HeaderStep == TypeOK /\ TypeOK' /\ HeaderInv /\ [Next]_vars => HeaderInv'
<1>. SUFFICES ASSUME TypeOK, TypeOK', HeaderInv, [Next]_vars PROVE HeaderInv'
  OBVIOUS
<1>. USE DEF Goto
<1>0. /\ pc \in [Requests -> {"idle", "stat", "probe", "read", "granted", "refused", "writing"}]
      /\ ask \in [Requests -> Asks] /\ walk \in [Requests -> [check : Resources, mode : Modes, level : Nat]]
      /\ header \in [Requests -> SUBSET Modes]
  BY DEF TypeOK
<1>1. ASSUME NEW q \in Requests, NEW a \in Agents, NEW m \in Methods, NEW t \in Resources,
             NEW s \in BOOLEAN, NEW doc \in Documents[t] \cup {{}}, Arrive(q, a, m, t, s, doc)
      PROVE  HeaderInv'
  <2>1. pc[q] = "idle" /\ header[q] = {} /\ header' = header /\ tolls' = tolls
    BY <1>1 DEF Arrive, HeaderInv, HeaderLate
  <2>2. pc'[q] \in {"probe", "stat"}
    BY <1>0, <1>1 DEF Arrive, BeginWalk
  <2>3. Agrees(q)' /\ HeaderLate(q)'
    BY <2>1, <2>2 DEF Agrees, HeaderLate, Listed
  <2>4. \A p \in Requests \ {q} : pc'[p] = pc[p] /\ ask'[p] = ask[p] /\ walk'[p] = walk[p]
    BY <1>0, <1>1 DEF Arrive, BeginWalk
  <2>. QED
    BY <2>1, <2>3, <2>4, HeaderOf
<1>2. ASSUME NEW q \in Requests, Stat(q) PROVE HeaderInv'
  <2>1. header[q] = {} /\ header' = header /\ tolls' = tolls /\ pc'[q] = "probe"
    BY <1>0, <1>2 DEF Stat, BeginWalk, HeaderInv, HeaderLate
  <2>2. \A p \in Requests \ {q} : pc'[p] = pc[p] /\ ask'[p] = ask[p] /\ walk'[p] = walk[p]
    BY <1>0, <1>2 DEF Stat, BeginWalk
  <2>3. Agrees(q)' /\ HeaderLate(q)'
    BY <2>1 DEF Agrees, HeaderLate, Listed
  <2>. QED
    BY <2>1, <2>2, <2>3, HeaderOf
<1>3. ASSUME NEW q \in Requests, AclFound(q) PROVE HeaderInv'
  <2>1. header' = header /\ tolls' = tolls /\ ask' = ask /\ walk' = walk /\ pc[q] = "probe" /\ pc' = [pc EXCEPT ![q] = "read"]
    BY <1>3 DEF AclFound
  <2>2. Agrees(q)' /\ HeaderLate(q)'
    BY <1>0, <2>1 DEF HeaderInv, Agrees, HeaderLate, Listed
  <2>. QED
    BY <1>0, <2>1, <2>2, HeaderOf
<1>4. ASSUME NEW q \in Requests, AclMissing(q) PROVE HeaderInv'
  <2>1. /\ header' = header /\ tolls' = tolls /\ ask' = ask /\ pc[q] \in {"probe", "read"}
        /\ pc' = [pc EXCEPT ![q] = "probe"] \/ (pc' = [pc EXCEPT ![q] = "refused"] /\ walk' = walk)
        /\ walk'[q].mode = walk[q].mode /\ \A p \in Requests \ {q} : walk'[p] = walk[p]
    BY <1>0, <1>4 DEF AclMissing
  <2>2. Agrees(q)' /\ HeaderLate(q)'
    BY <1>0, <2>1 DEF HeaderInv, Agrees, HeaderLate, Listed
  <2>3. \A p \in Requests \ {q} : pc'[p] = pc[p]
    BY <1>0, <2>1
  <2>. QED
    BY <2>1, <2>2, <2>3, HeaderOf
<1>5. ASSUME NEW q \in Requests, Decide(q) PROVE HeaderInv'
  <2>1. \A p \in Requests \ {q} : pc'[p] = pc[p] /\ ask'[p] = ask[p] /\ walk'[p] = walk[p]
                                  /\ header'[p] = header[p] /\ tolls'[p] = tolls[p]
    BY <1>0, <1>5 DEF Decide
  <2>. QED
    BY <1>5, <2>1, DecideAgrees, HeaderOf
<1>6. ASSUME NEW q \in Requests, NEW changed, Finish(q, changed) PROVE HeaderInv'
  <2>1. pc'[q] = "idle" /\ header'[q] = {}
    BY <1>0, <1>6 DEF Finish
  <2>2. Agrees(q)' /\ HeaderLate(q)'
    BY <2>1 DEF Agrees, HeaderLate, Listed
  <2>3. \A p \in Requests \ {q} : pc'[p] = pc[p] /\ ask'[p] = ask[p] /\ walk'[p] = walk[p]
                                  /\ header'[p] = header[p] /\ tolls'[p] = tolls[p]
    BY <1>0, <1>6 DEF Finish
  <2>. QED
    BY <2>2, <2>3, HeaderOf
<1>7. ASSUME NEW q \in Requests, RecheckSlug(q) PROVE HeaderInv'
  <2>1. /\ ask' = ask /\ header' = header /\ tolls' = tolls /\ ask[q].method = "POST" /\ pc'[q] = "probe" /\ walk'[q].mode = "control"
        /\ \A p \in Requests \ {q} : pc'[p] = pc[p] /\ walk'[p] = walk[p]
    BY <1>0, <1>7 DEF RecheckSlug, BeginWalk
  <2>2. Agrees(q)' /\ HeaderLate(q)'
    BY <2>1 DEF Agrees, HeaderLate, Listed
  <2>. QED
    BY <2>1, <2>2, HeaderOf
<1>8. ASSUME NEW q \in Requests, TruncateAcl(q) PROVE HeaderInv'
  <2>1. ask' = ask /\ header' = header /\ tolls' = tolls /\ walk' = walk /\ pc' = [pc EXCEPT ![q] = "writing"]
    BY <1>8 DEF TruncateAcl
  <2>2. Agrees(q)' /\ HeaderLate(q)'
    BY <1>0, <2>1 DEF Agrees, HeaderLate, Listed
  <2>. QED
    BY <1>0, <2>1, <2>2, HeaderOf
<1>9. ASSUME NEW q \in Requests,
             Answer(q) \/ Create(q) \/ FillAcl(q) \/ WriteFails(q) \/ RemoveAcl(q) \/ Delete(q)
      PROVE  HeaderInv'
  <2>1. \E changed : Finish(q, changed)
    BY Zenon, <1>9 DEF Answer, Create, FillAcl, WriteFails, RemoveAcl, Delete
  <2>. QED
    BY <1>6, <2>1
<1>10. CASE UNCHANGED vars
  BY <1>10 DEF vars, HeaderInv, Agrees, HeaderLate, Listed
<1>. QED
  BY <1>1, <1>2, <1>3, <1>4, <1>5, <1>7, <1>8, <1>9, <1>10 DEF Next

\* authorize computes its answer and the WAC-Allow header from one document: whatever happens to
\* the ACL files meanwhile, the header lists what was granted, and what was refused only where a
\* rule gives it under a condition.
THEOREM HeaderAgreesTheorem == Spec => []HeaderAgrees
<1>1. HeaderInv => HeaderAgrees
  BY DEF HeaderInv, HeaderAgrees, Agrees
<1>. QED
  BY <1>1, HeaderStart, HeaderStep, AccessTypeTheorem, PTL DEF Spec
=============================================================================
