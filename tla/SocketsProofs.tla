---------------------------- MODULE SocketsProofs ----------------------------
(***************************************************************************)
(* Theorems about Notifications, Tunnel, Signalling and Relay, checked by  *)
(* TLAPS: for any number of sockets, users, names, visitors and groups,    *)
(* the maps follow the sockets through reconnections and late closes; for  *)
(* any events, filters and limits, subscribers miss nothing that is kept.  *)
(***************************************************************************)
EXTENDS Notifications, Tunnel, Signalling, Relay, TLAPS

LEMMA TypeInit == Init => TypeOK
BY DEF Init, TypeOK

LEMMA TypeStep == TypeOK /\ [Next]_vars => TypeOK'
<1> SUFFICES ASSUME TypeOK, [Next]_vars PROVE TypeOK'
  OBVIOUS
<1> USE DEF TypeOK
<1>1. CASE UNCHANGED vars
  BY <1>1 DEF vars
<1>2. ASSUME NEW s \in Sockets, Connect(s) PROVE TypeOK'
  BY <1>2 DEF Connect
<1>3. ASSUME NEW s \in Sockets, Close(s) PROVE TypeOK'
  BY <1>3 DEF Close
<1>4. ASSUME NEW s \in Sockets, NEW r \in Resources, Sub(s, r) PROVE TypeOK'
  BY <1>4 DEF Sub
<1>5. ASSUME NEW s \in Sockets, NEW r \in Resources, Grant(s, r) PROVE TypeOK'
  BY <1>5 DEF Grant
<1>6. ASSUME NEW s \in Sockets, NEW r \in Resources, Refuse(s, r) PROVE TypeOK'
  BY <1>6 DEF Refuse
<1>7. ASSUME NEW s \in Sockets, NEW r \in Resources, Unsub(s, r) PROVE TypeOK'
  BY <1>7 DEF Unsub
<1>8. ASSUME NEW s \in Sockets, NEW r \in Resources, Read(s, r) PROVE TypeOK'
  BY <1>8 DEF Read
<1>9. ASSUME NEW r \in Resources, Write(r) PROVE TypeOK'
  BY <1>9 DEF Write, Outdate
<1>10. ASSUME NEW r \in Resources, Announce(r) PROVE TypeOK'
  BY <1>10 DEF Announce
<1>11. ASSUME NEW r \in Resources, MakeContainer(r) PROVE TypeOK'
  BY <1>11 DEF MakeContainer, Outdate
<1>12. ASSUME NEW r \in Resources, NEW agents \in SUBSET Sockets, SetAcl(r, agents)
       PROVE  TypeOK'
  BY <1>12 DEF SetAcl
<1> QED
  BY <1>1, <1>2, <1>3, <1>4, <1>5, <1>6, <1>7, <1>8, <1>9, <1>10, <1>11, <1>12 DEF Next

\* Type correctness, for any number of sockets and resources.
THEOREM NotificationsTypeTheorem == Spec => []TypeOK
BY TypeInit, TypeStep, PTL DEF Spec
-----------------------------------------------------------------------------
\* A socket that has not connected yet is in no map and has no check under way; what
\* makes MapsAgree inductive, since a socket may leave ghosts behind when it closes.
Fresh ==
  \A s \in Sockets, r \in Resources :
    status[s] = "new" => s \notin subscribers[r] /\ <<s, r>> \notin checking

MapsInv == TypeOK /\ Fresh /\ MapsAgree

LEMMA MapsInit == Init => MapsInv
<1>1. Init => MapsAgree
  BY DEF Init, MapsAgree
<1>2. Init => Fresh
  BY DEF Init, Fresh
<1> QED
  BY <1>1, <1>2, TypeInit DEF MapsInv

LEMMA FreshStep == TypeOK /\ Fresh /\ [Next]_vars => Fresh'
<1> SUFFICES ASSUME TypeOK, Fresh, [Next]_vars,
                    NEW x \in Sockets, NEW y \in Resources, status'[x] = "new"
             PROVE  x \notin subscribers'[y] /\ <<x, y>> \notin checking'
  BY DEF Fresh
<1>0. status[x] = "new" => x \notin subscribers[y] /\ <<x, y>> \notin checking
  BY DEF Fresh
<1> USE DEF TypeOK
<1>1. CASE UNCHANGED <<status, checking, subscribers>>
  BY <1>0, <1>1
<1>2. ASSUME NEW s \in Sockets, Connect(s) \/ Close(s)
      PROVE  x \notin subscribers'[y] /\ <<x, y>> \notin checking'
  <2>1. status[x] = "new"
    BY <1>2 DEF Connect, Close
  <2> QED
    BY <1>0, <1>2, <2>1 DEF Connect, Close
<1>3. ASSUME NEW s \in Sockets, NEW r \in Resources, Sub(s, r)
      PROVE  x \notin subscribers'[y] /\ <<x, y>> \notin checking'
  <2>1. status[x] = "new" /\ x # s
    BY <1>3 DEF Sub
  <2>2. <<x, y>> # <<s, r>>
    BY <2>1
  <2> QED
    BY <1>0, <1>3, <2>1, <2>2 DEF Sub
<1>4. ASSUME NEW s \in Sockets, NEW r \in Resources, Grant(s, r)
      PROVE  x \notin subscribers'[y] /\ <<x, y>> \notin checking'
  <2>1. status[x] = "new" /\ x # s
    BY <1>4 DEF Grant, Fresh
  <2> QED
    BY <1>0, <1>4, <2>1 DEF Grant
<1>5. ASSUME NEW s \in Sockets, NEW r \in Resources, Refuse(s, r) \/ Unsub(s, r)
      PROVE  x \notin subscribers'[y] /\ <<x, y>> \notin checking'
  BY <1>0, <1>5 DEF Refuse, Unsub
<1> QED
  BY <1>1, <1>2, <1>3, <1>4, <1>5 DEF Next, vars, Read, Write, Announce, MakeContainer, SetAcl

LEMMA MapsStep == TypeOK /\ Fresh /\ MapsAgree /\ [Next]_vars => MapsAgree'
<1> SUFFICES ASSUME TypeOK, Fresh, MapsAgree, [Next]_vars PROVE MapsAgree'
  OBVIOUS
<1> USE DEF TypeOK, MapsAgree
<1>1. CASE UNCHANGED <<status, subs, subscribers>>
  BY <1>1
<1>2. ASSUME NEW s \in Sockets, Connect(s) PROVE MapsAgree'
  <2>1. subs[s] = {} /\ \A r \in Resources : s \notin subscribers[r]
    BY <1>2 DEF Connect, Fresh
  <2>2. \A x \in Sockets : x # s => status'[x] = status[x]
    BY <1>2 DEF Connect
  <2>3. subs' = subs /\ subscribers' = subscribers
    BY <1>2 DEF Connect
  <2> QED
    BY <2>1, <2>2, <2>3
<1>3. ASSUME NEW s \in Sockets, Close(s) PROVE MapsAgree'
  BY <1>3 DEF Close
<1>4. ASSUME NEW s \in Sockets, NEW r \in Resources, Grant(s, r) PROVE MapsAgree'
  BY <1>4 DEF Grant
<1>5. ASSUME NEW s \in Sockets, NEW r \in Resources, Unsub(s, r) PROVE MapsAgree'
  BY <1>5 DEF Unsub
<1> QED
  BY <1>1, <1>2, <1>3, <1>4, <1>5
     DEF Next, vars, Sub, Refuse, Read, Write, Announce, MakeContainer, SetAcl

LEMMA MapsInvariance == Spec => []MapsInv
<1>1. MapsInv /\ [Next]_vars => MapsInv'
  BY TypeStep, FreshStep, MapsStep DEF MapsInv
<1> QED
  BY <1>1, MapsInit, PTL DEF Spec

\* The two maps agree about every open socket, for any number of sockets, resources
\* and checks in flight, and however containers are made.
THEOREM MapsAgreeTheorem == Spec => []MapsAgree
<1>1. MapsInv => MapsAgree
  BY DEF MapsInv
<1> QED
  BY <1>1, MapsInvariance, PTL
-----------------------------------------------------------------------------
LEMMA NoMissedInit == Init => NoMissedWrite
BY DEF Init, NoMissedWrite, NoneMissed

LEMMA NoMissedStep ==
  MapsInv /\ NoMissedWrite /\ [Next]_vars => NoMissedWrite'
<1> SUFFICES ASSUME MapsInv, NoMissedWrite, [Next]_vars PROVE NoMissedWrite'
  OBVIOUS
<1> USE DEF NoMissedWrite, NoneMissed
<1>0. TypeOK /\ MapsAgree
  BY DEF MapsInv
<1>1. CASE UNCHANGED <<subs, unannounced, inbox, stale>>
  BY <1>1
<1>2. ASSUME NEW s \in Sockets, Close(s) PROVE NoMissedWrite'
  BY <1>0, <1>2 DEF Close, TypeOK
<1>3. ASSUME NEW s \in Sockets, NEW r \in Resources, Grant(s, r) PROVE NoMissedWrite'
  BY <1>0, <1>3 DEF Grant, TypeOK
<1>4. ASSUME NEW s \in Sockets, NEW r \in Resources, Unsub(s, r) PROVE NoMissedWrite'
  BY <1>0, <1>4 DEF Unsub, TypeOK
<1>5. ASSUME NEW s \in Sockets, NEW v \in Resources, Read(s, v) PROVE NoMissedWrite'
  BY <1>0, <1>5 DEF Read, TypeOK
<1>6. ASSUME NEW r \in Resources, Write(r) PROVE NoMissedWrite'
  BY <1>0, <1>6 DEF Write, Outdate, TypeOK
<1>7. ASSUME NEW x \in Resources, Announce(x) PROVE NoMissedWrite'
  <2> SUFFICES ASSUME NEW s \in Sockets, NEW u \in Resources,
                      NEW r \in Resources \ Containers,
                      u \in subs[s], Covers(u, r), r \in stale[s], r \notin unannounced'
               PROVE  \E v \in inbox'[s] : Covers(v, r)
    BY <1>7 DEF Announce
  <2>1. status[s] = "open" /\ s \in subscribers[u]
    BY <1>0 DEF TypeOK, MapsAgree
  <2>2. inbox'[s] = inbox[s] \cup {w \in Resources : Covers(w, x) /\ s \in subscribers[w]}
    BY <1>7, <2>1 DEF Announce
  <2>3. CASE r = x
    BY <2>1, <2>2, <2>3
  <2>4. CASE r # x
    BY <1>7, <2>2, <2>4 DEF Announce
  <2> QED
    BY <2>3, <2>4
<1>8. ASSUME NEW x \in Resources, MakeContainer(x) PROVE NoMissedWrite'
  BY <1>0, <1>8 DEF MakeContainer, Outdate, TypeOK
<1> QED
  BY <1>1, <1>2, <1>3, <1>4, <1>5, <1>6, <1>7, <1>8
     DEF Next, vars, Connect, Sub, Refuse, SetAcl

\* No change of a document is missed, for any number of clients, any tree of
\* containers and any interleaving of writes, announcements, checks and messages.
THEOREM NoMissedWriteTheorem == Spec => []NoMissedWrite
BY MapsInvariance, NoMissedInit, NoMissedStep, PTL DEF Spec

\* Subscriptions are safe, for any sockets, resources and access rules.
THEOREM NotifySafeTheorem == Spec => []NotifySafe
<1>1. TypeOK /\ MapsAgree /\ NoMissedWrite => NotifySafe
  BY DEF NotifySafe
<1> QED
  BY <1>1, NotificationsTypeTheorem, MapsAgreeTheorem, NoMissedWriteTheorem, PTL
-----------------------------------------------------------------------------
\* A request that has not come has no socket and no answer; one that waits came under a
\* name, and was sent to a socket whose handlers were attached; after the shutdown none
\* waits.
VisitsInOrder ==
  /\ \A v \in Visits : visited[v] = NoName => sentTo[v] = NoClient /\ reply[v] = "none"
  /\ \A v \in pendingOf : visited[v] # NoName /\ link[sentTo[v]] \notin {"new", "auth"}
  /\ downT => pendingOf = {}

TunnelInv == TunnelSafe /\ VisitsInOrder

USE TunnelAssumption

LEMMA TunnelStarts == TunnelInit => TunnelInv
BY DEF TunnelInit, TunnelInv, TunnelSafe, TunnelTypeOK, NameFollowsNewest,
       NobodyWaitsInVain, VisitsInOrder

\* Steps of one socket before it is attached, and the start of a close.
LEMMA LinkStep ==
  ASSUME TunnelInv, NEW c \in Clients,
         \/ TunnelConnect(c) \/ TunnelAuthenticated(c) \/ TunnelVanishes(c) \/ TunnelLeaves(c)
  PROVE  TunnelInv'
<1>1. /\ UNCHANGED <<tunnelName, tunnels, newest, downT, pendingOf, visited, sentTo, reply>>
      /\ link' \in [Clients -> {"new", "auth", "open", "closing", "closed"}]
      /\ \A d \in Clients : link'[d] = "closed" => link[d] \in {"closed", "auth"}
      /\ \A d \in Clients : link'[d] \in {"new", "auth"} => link[d] \in {"new", "auth"}
      /\ \A d \in Clients : link[d] = "closed" => link'[d] = "closed"
  BY DEF TunnelInv, TunnelSafe, TunnelTypeOK, TunnelConnect, TunnelAuthenticated,
         TunnelVanishes, TunnelLeaves, unchangedVisits
<1>2. TunnelTypeOK'
  BY <1>1 DEF TunnelInv, TunnelSafe, TunnelTypeOK
<1>3. NameFollowsNewest'
  BY <1>1 DEF TunnelInv, TunnelSafe, TunnelTypeOK, NameFollowsNewest
<1>4. \A v \in pendingOf : sentTo[v] \in Clients
  BY DEF TunnelInv, TunnelSafe, TunnelTypeOK
<1>5. NobodyWaitsInVain' /\ VisitsInOrder'
  BY <1>1, <1>4 DEF TunnelInv, TunnelSafe, NobodyWaitsInVain, VisitsInOrder
<1> QED
  BY <1>2, <1>3, <1>5 DEF TunnelInv, TunnelSafe

LEMMA RegisterStep ==
  ASSUME TunnelInv, NEW c \in Clients, NEW n \in TunnelNames, TunnelRegister(c, n)
  PROVE  TunnelInv'
<1>1. /\ UNCHANGED <<downT, pendingOf, visited, sentTo, reply>>
      /\ tunnelName' = [tunnelName EXCEPT ![c] = n]
      /\ tunnels' = [tunnels EXCEPT ![n] = c]
      /\ newest' = [newest EXCEPT ![n] = c]
  BY DEF TunnelRegister, unchangedVisits
<1>2. /\ link' \in [Clients -> {"new", "auth", "open", "closing", "closed"}]
      /\ \A d \in Clients : link'[d] = "closed" <=> link[d] = "closed"
      /\ \A d \in Clients : link'[d] \in {"new", "auth"} => link[d] \in {"new", "auth"}
      /\ link[c] # "closed"
  BY DEF TunnelRegister, Attached, TunnelInv, TunnelSafe, TunnelTypeOK
<1>3. TunnelTypeOK'
  BY <1>1, <1>2 DEF TunnelInv, TunnelSafe, TunnelTypeOK
<1>4. NameFollowsNewest'
  BY <1>1, <1>2 DEF TunnelInv, TunnelSafe, TunnelTypeOK, NameFollowsNewest
<1>5. \A v \in pendingOf : sentTo[v] \in Clients /\ visited[v] \in TunnelNames
  BY DEF TunnelInv, TunnelSafe, TunnelTypeOK, VisitsInOrder
<1>6. NobodyWaitsInVain'
  BY <1>1, <1>2, <1>5 DEF TunnelInv, TunnelSafe, TunnelTypeOK, NobodyWaitsInVain
<1>7. VisitsInOrder'
  BY <1>1, <1>2, <1>5 DEF TunnelInv, TunnelSafe, TunnelTypeOK, VisitsInOrder
<1> QED
  BY <1>3, <1>4, <1>6, <1>7 DEF TunnelInv, TunnelSafe

\* A request leaves the pending ones with an answer.
LEMMA AnswerStep ==
  ASSUME TunnelInv, NEW v \in Visits,
         (\E c \in Clients : TunnelResponse(c, v)) \/ TunnelTimeout(v)
  PROVE  TunnelInv'
<1>1. /\ UNCHANGED <<link, tunnelName, tunnels, visited, sentTo, newest, downT>>
      /\ v \in pendingOf
      /\ pendingOf' = pendingOf \ {v}
      /\ \E a \in {"answered", "504"} : reply' = [reply EXCEPT ![v] = a]
  BY DEF TunnelResponse, TunnelTimeout
<1>2. TunnelTypeOK'
  BY <1>1 DEF TunnelInv, TunnelSafe, TunnelTypeOK
<1>3. NameFollowsNewest' /\ NobodyWaitsInVain'
  BY <1>1 DEF TunnelInv, TunnelSafe, NameFollowsNewest, NobodyWaitsInVain
<1>4. VisitsInOrder'
  BY <1>1 DEF TunnelInv, TunnelSafe, TunnelTypeOK, VisitsInOrder
<1> QED
  BY <1>2, <1>3, <1>4 DEF TunnelInv, TunnelSafe

LEMMA VisitStep ==
  ASSUME TunnelInv, NEW v \in Visits, NEW n \in TunnelNames, TunnelVisit(v, n)
  PROVE  TunnelInv'
<1>1. /\ UNCHANGED <<link, tunnelName, tunnels, newest, downT>>
      /\ ~ downT /\ visited[v] = NoName
      /\ visited' = [visited EXCEPT ![v] = n]
      /\ v \notin pendingOf /\ sentTo[v] = NoClient /\ reply[v] = "none"
  BY DEF TunnelVisit, TunnelInv, TunnelSafe, TunnelTypeOK, VisitsInOrder
<1>2. NameFollowsNewest'
  BY <1>1 DEF TunnelInv, TunnelSafe, NameFollowsNewest
<1>3. CASE /\ tunnels[n] # NoClient /\ link[tunnels[n]] = "open"
           /\ pendingOf' = pendingOf \cup {v}
           /\ sentTo' = [sentTo EXCEPT ![v] = tunnels[n]]
           /\ UNCHANGED reply
  <2>1. tunnels[n] \in Clients
    BY <1>3 DEF TunnelInv, TunnelSafe, TunnelTypeOK
  <2>2. TunnelTypeOK'
    BY <1>1, <1>3, <2>1 DEF TunnelInv, TunnelSafe, TunnelTypeOK
  <2>3. NobodyWaitsInVain'
    BY <1>1, <1>3 DEF TunnelInv, TunnelSafe, TunnelTypeOK, NobodyWaitsInVain
  <2>4. VisitsInOrder'
    BY <1>1, <1>3 DEF TunnelInv, TunnelSafe, TunnelTypeOK, VisitsInOrder
  <2> QED
    BY <1>2, <2>2, <2>3, <2>4 DEF TunnelInv, TunnelSafe
<1>4. CASE reply' = [reply EXCEPT ![v] = "502"] /\ UNCHANGED <<pendingOf, sentTo>>
  <2>1. TunnelTypeOK'
    BY <1>1, <1>4 DEF TunnelInv, TunnelSafe, TunnelTypeOK
  <2>2. NobodyWaitsInVain'
    BY <1>1, <1>4 DEF TunnelInv, TunnelSafe, TunnelTypeOK, NobodyWaitsInVain
  <2>3. VisitsInOrder'
    BY <1>1, <1>4 DEF TunnelInv, TunnelSafe, TunnelTypeOK, VisitsInOrder
  <2> QED
    BY <1>2, <2>1, <2>2, <2>3 DEF TunnelInv, TunnelSafe
<1> QED
  BY <1>3, <1>4 DEF TunnelVisit

\* The close of a socket: if it is still the newest of the name it registered last, it
\* holds it, and everybody who waits under that name is told.
LEMMA CloseStep ==
  ASSUME TunnelInv, NEW c \in Clients, TunnelClosed(c)
  PROVE  TunnelInv'
<1> DEFINE n == tunnelName[c]
<1>1. /\ UNCHANGED <<tunnelName, visited, sentTo, newest, downT>>
      /\ link' = [link EXCEPT ![c] = "closed"]
      /\ link[c] \in {"open", "closing"}
  BY DEF TunnelClosed, Attached
<1>2. \A v \in pendingOf : sentTo[v] \in Clients /\ visited[v] \in TunnelNames
  BY DEF TunnelInv, TunnelSafe, TunnelTypeOK, VisitsInOrder
<1>3. CASE Holds(c)
  <2>1. /\ n \in TunnelNames /\ tunnels[n] = c
        /\ tunnels' = [tunnels EXCEPT ![n] = NoClient]
        /\ pendingOf' = pendingOf \ WaitingFor(n)
        /\ reply' = [v \in Visits |-> IF v \in pendingOf \cap WaitingFor(n) THEN "502" ELSE reply[v]]
    BY <1>3 DEF TunnelClosed, Release, Abandon, Holds, TunnelInv, TunnelSafe, TunnelTypeOK
  <2>2. TunnelTypeOK'
    BY <1>1, <2>1 DEF TunnelInv, TunnelSafe, TunnelTypeOK
  <2>3. NameFollowsNewest'
    BY <1>1, <2>1 DEF TunnelInv, TunnelSafe, TunnelTypeOK, NameFollowsNewest
  <2>4. NobodyWaitsInVain'
    BY <1>1, <1>2, <2>1 DEF TunnelInv, TunnelSafe, TunnelTypeOK, NobodyWaitsInVain, WaitingFor
  <2>5. VisitsInOrder'
    BY <1>1, <1>2, <2>1 DEF TunnelInv, TunnelSafe, TunnelTypeOK, VisitsInOrder
  <2> QED
    BY <2>2, <2>3, <2>4, <2>5 DEF TunnelInv, TunnelSafe
<1>4. CASE ~ Holds(c)
  <2>1. UNCHANGED <<tunnels, pendingOf, reply>>
    BY <1>4 DEF TunnelClosed, Release
  <2>2. TunnelTypeOK' /\ NameFollowsNewest'
    BY <1>1, <2>1 DEF TunnelInv, TunnelSafe, TunnelTypeOK, NameFollowsNewest
  <2>3. NobodyWaitsInVain'
    <3> SUFFICES ASSUME NEW v \in pendingOf, sentTo[v] = c, newest[visited[v]] = c, n = visited[v]
                 PROVE  FALSE
      BY <1>1, <1>2, <2>1 DEF TunnelInv, TunnelSafe, TunnelTypeOK, NobodyWaitsInVain
    <3>1. ~ downT /\ n \in TunnelNames
      BY <1>2 DEF TunnelInv, VisitsInOrder
    <3>2. tunnels[n] = c
      BY <1>1, <3>1 DEF TunnelInv, TunnelSafe, NameFollowsNewest
    <3> QED
      BY <1>4, <3>1, <3>2 DEF Holds
  <2>4. VisitsInOrder'
    BY <1>1, <1>2, <2>1 DEF TunnelInv, TunnelSafe, TunnelTypeOK, VisitsInOrder
  <2> QED
    BY <2>2, <2>3, <2>4 DEF TunnelInv, TunnelSafe
<1> QED
  BY <1>3, <1>4

LEMMA ShutdownStep == ASSUME TunnelInv, TunnelShutdown PROVE TunnelInv'
<1>1. /\ UNCHANGED <<tunnelName, visited, sentTo, newest>>
      /\ downT' = TRUE /\ pendingOf' = {}
      /\ tunnels' = [n \in TunnelNames |-> NoClient]
      /\ reply' = [v \in Visits |-> IF v \in pendingOf THEN "502" ELSE reply[v]]
      /\ link' \in [Clients -> {"new", "auth", "open", "closing", "closed"}]
  BY DEF TunnelShutdown, Abandon, TunnelInv, TunnelSafe, TunnelTypeOK
<1>2. TunnelTypeOK'
  BY <1>1 DEF TunnelInv, TunnelSafe, TunnelTypeOK
<1>3. NameFollowsNewest' /\ NobodyWaitsInVain'
  BY <1>1 DEF NameFollowsNewest, NobodyWaitsInVain
<1>4. VisitsInOrder'
  BY <1>1 DEF TunnelInv, TunnelSafe, TunnelTypeOK, VisitsInOrder
<1> QED
  BY <1>2, <1>3, <1>4 DEF TunnelInv, TunnelSafe

LEMMA TunnelStep == TunnelInv /\ [TunnelNext]_tunnelVars => TunnelInv'
<1> SUFFICES ASSUME TunnelInv, [TunnelNext]_tunnelVars PROVE TunnelInv'
  OBVIOUS
<1>1. CASE TunnelNext
  BY <1>1, LinkStep, RegisterStep, AnswerStep, VisitStep, CloseStep, ShutdownStep DEF TunnelNext
<1>2. CASE UNCHANGED tunnelVars
  BY <1>2 DEF tunnelVars, TunnelInv, TunnelSafe, TunnelTypeOK, NameFollowsNewest,
              NobodyWaitsInVain, VisitsInOrder
<1> QED
  BY <1>1, <1>2

\* A name leads to the connection that took it last and nobody waits for one that has
\* gone, for any number of sockets, names and visitors (src/tunnel/index.js).
THEOREM TunnelSafeTheorem == TunnelSpec => []TunnelSafe
<1>1. TunnelInv => TunnelSafe
  BY DEF TunnelInv
<1> QED
  BY TunnelStarts, TunnelStep, <1>1, PTL DEF TunnelSpec
-----------------------------------------------------------------------------
USE SignallingAssumption

LEMMA SignallingStarts == SigInit => SignallingSafe
BY DEF SigInit, SignallingSafe, SigTypeOK, PresenceExact, MembersLive,
       GroupsAgree, PeersOwn

\* Steps of one socket that leave the maps alone.
LEMMA WireStep ==
  ASSUME SignallingSafe, NEW p \in Peers, SigConnect(p) \/ SigVanishes(p) \/ SigCloses(p)
  PROVE  SignallingSafe'
<1>1. /\ UNCHANGED <<peers, resources, peerResources, online, downW>>
      /\ \E s \in {"auth", "gone", "closing"} : wire' = [wire EXCEPT ![p] = s]
      /\ wire[p] = "open" <=> wire'[p] = "closing"
      /\ wire[p] \in {"new", "auth", "open"}
  BY DEF SigConnect, SigVanishes, SigCloses, SignallingSafe, SigTypeOK
<1>2. SigTypeOK'
  BY <1>1 DEF SignallingSafe, SigTypeOK
<1>3. PresenceExact' /\ PeersOwn'
  BY <1>1 DEF SignallingSafe, SigTypeOK, PresenceExact, PeersOwn
<1>4. MembersLive' /\ GroupsAgree'
  BY <1>1 DEF SignallingSafe, SigTypeOK, MembersLive, GroupsAgree, Listens
<1> QED
  BY <1>2, <1>3, <1>4 DEF SignallingSafe

\* A socket joins or leaves a group.
LEMMA GroupStep ==
  ASSUME SignallingSafe, NEW p \in Peers, NEW h \in Hashes,
         SigAnnounce(p, h) \/ SigTrackerAnnounce(p, h) \/ SigLeave(p, h)
  PROVE  SignallingSafe'
<1>1. /\ UNCHANGED <<wire, peers, online, downW>>
      /\ wire[p] \in {"open", "closing"}
      /\ \/ /\ resources' = [resources EXCEPT ![h] = @ \cup {p}]
            /\ peerResources' = [peerResources EXCEPT ![p] = @ \cup {h}]
         \/ /\ resources' = [resources EXCEPT ![h] = @ \ {p}]
            /\ peerResources' = [peerResources EXCEPT ![p] = @ \ {h}]
  BY DEF SigAnnounce, SigTrackerAnnounce, SigLeave, Join, Listens
<1>2. SigTypeOK'
  BY <1>1 DEF SignallingSafe, SigTypeOK
<1>3. PresenceExact' /\ PeersOwn'
  BY <1>1 DEF SignallingSafe, PresenceExact, PeersOwn
<1>4. MembersLive' /\ GroupsAgree'
  BY <1>1 DEF SignallingSafe, SigTypeOK, MembersLive, GroupsAgree, Listens
<1> QED
  BY <1>2, <1>3, <1>4 DEF SignallingSafe

\* removePeerFromAllResources leaves a socket in no group, and the others where they were.
LEMMA WithoutLemma ==
  ASSUME SigTypeOK, GroupsAgree, NEW p \in Peers, Without(p)
  PROVE  /\ resources' \in [Hashes -> SUBSET Peers]
         /\ peerResources' \in [Peers -> SUBSET Hashes]
         /\ GroupsAgree'
         /\ peerResources'[p] = {}
         /\ \A h \in Hashes : p \notin resources'[h] /\ resources'[h] \subseteq resources[h]
         /\ \A q \in Peers : peerResources[q] = {} => peerResources'[q] = {}
BY DEF SigTypeOK, GroupsAgree, Without

\* The token is verified: the socket takes the place of the user's last one, and those who
\* are there are told unless they know the user already.
LEMMA AuthenticatedStep ==
  ASSUME SignallingSafe, NEW p \in Peers, SigAuthenticated(p)
  PROVE  SignallingSafe'
<1>1. wire[p] \in {"auth", "gone"} /\ peerResources[p] = {} /\ downW' = downW
  BY DEF SigAuthenticated, SignallingSafe, SigTypeOK
<1>2. CASE UserOf[p] = NoUser
  <2>1. /\ UNCHANGED <<peers, resources, peerResources, online>>
        /\ \E s \in {"open", "lost"} : wire' = [wire EXCEPT ![p] = s]
    BY <1>2 DEF SigAuthenticated
  <2>2. SigTypeOK'
    BY <1>1, <2>1 DEF SignallingSafe, SigTypeOK
  <2>3. PresenceExact' /\ PeersOwn'
    BY <1>1, <1>2, <2>1 DEF SignallingSafe, SigTypeOK, PresenceExact, PeersOwn
  <2>4. MembersLive' /\ GroupsAgree'
    BY <1>1, <2>1 DEF SignallingSafe, SigTypeOK, MembersLive, GroupsAgree, Listens
  <2> QED
    BY <2>2, <2>3, <2>4 DEF SignallingSafe
<1>3. CASE UserOf[p] # NoUser
  <2> DEFINE u == UserOf[p]
             others == {v \in PeerUsers \ {u} : peers[v] # NoPeer}
  <2>1. u \in PeerUsers /\ Register(u, p)
    BY <1>3 DEF SigAuthenticated
  <2>2. peers' = [peers EXCEPT ![u] = p] /\ peers[u] # p
    BY <1>1, <2>1 DEF Register, SignallingSafe, PeersOwn, SigTypeOK
  <2>3. /\ wire' \in [Peers -> {"new", "auth", "gone", "open", "closing", "closed", "lost"}]
        /\ wire'[p] \in {"open", "lost"}
        /\ peers[u] # NoPeer => wire'[peers[u]] \in {"closing", "lost"}
        /\ \A q \in Peers \ {p, peers[u]} : wire'[q] = wire[q]
        /\ \A q \in Peers \ {p} : wire'[q] # wire[q] => wire[q] = "open" /\ wire'[q] = "closing"
    BY <2>1, <2>2 DEF Register, SignallingSafe, PeersOwn, SigTypeOK
  <2>4. /\ resources' \in [Hashes -> SUBSET Peers]
        /\ peerResources' \in [Peers -> SUBSET Hashes]
        /\ GroupsAgree'
        /\ \A h \in Hashes : resources'[h] \subseteq resources[h]
        /\ \A q \in Peers : peerResources[q] = {} => peerResources'[q] = {}
    <3>1. CASE peers[u] = NoPeer
      BY <2>1, <3>1 DEF Register, SignallingSafe, SigTypeOK, GroupsAgree
    <3>2. CASE peers[u] # NoPeer
      <4>1. peers[u] \in Peers /\ Without(peers[u])
        BY <2>1, <3>2 DEF Register, SignallingSafe, SigTypeOK
      <4> QED
        BY <4>1, WithoutLemma DEF SignallingSafe
    <3> QED
      BY <3>1, <3>2
  <2>5. /\ online' \in [Peers -> SUBSET PeerUsers]
        /\ online'[p] = others
        /\ \A q \in Peers \ {p} :
             online'[q] = IF peers[u] = NoPeer /\ Hears(q, u) THEN online[q] \cup {u} ELSE online[q]
    BY <2>1 DEF Register, Joined, SignallingSafe, SigTypeOK
  <2>6. SigTypeOK'
    <3>1. peers' \in [PeerUsers -> Peers \cup {NoPeer}]
      BY <2>2 DEF SignallingSafe, SigTypeOK
    <3>2. \A q \in Peers : wire'[q] \in {"new", "auth", "gone"} => wire[q] = wire'[q]
      BY <2>3
    <3> QED
      BY <1>1, <2>3, <2>4, <2>5, <3>1, <3>2 DEF SignallingSafe, SigTypeOK
  <2>7. PresenceExact'
    <3> SUFFICES ASSUME NEW q \in Peers, wire'[q] = "open", UserOf[q] # NoUser
                 PROVE  /\ peers'[UserOf[q]] = q
                        /\ online'[q] = {v \in PeerUsers \ {UserOf[q]} : peers'[v] # NoPeer}
      BY DEF PresenceExact
    <3>1. CASE q = p
      BY <2>1, <2>2, <2>5, <3>1 DEF SignallingSafe, SigTypeOK
    <3>2. CASE q # p
      <4>1. wire[q] = "open" /\ UserOf[q] \in PeerUsers
        BY <2>3, <3>2
      <4>2. /\ peers[UserOf[q]] = q
            /\ online[q] = {v \in PeerUsers \ {UserOf[q]} : peers[v] # NoPeer}
        BY <4>1 DEF SignallingSafe, PresenceExact
      <4>3. UserOf[q] # u
        BY <2>3, <4>1, <4>2
      <4>4. Hears(q, u)
        BY <4>1, <4>2, <4>3 DEF Hears
      <4>5. online'[q] = IF peers[u] = NoPeer THEN online[q] \cup {u} ELSE online[q]
        BY <2>5, <3>2, <4>4
      <4>6. peers'[UserOf[q]] = q
        BY <2>2, <4>2, <4>3, <4>1 DEF SignallingSafe, SigTypeOK
      <4>7. \A v \in PeerUsers : peers'[v] # NoPeer <=> v = u \/ peers[v] # NoPeer
        BY <2>1, <2>2 DEF SignallingSafe, SigTypeOK
      <4> QED
        BY <2>1, <4>2, <4>3, <4>5, <4>6, <4>7
    <3> QED
      BY <3>1, <3>2
  <2>8. PeersOwn'
    BY <2>1, <2>2, <2>3 DEF SignallingSafe, SigTypeOK, PeersOwn
  <2>9. MembersLive'
    BY <1>1, <2>3, <2>4 DEF SignallingSafe, SigTypeOK, MembersLive, GroupsAgree, Listens
  <2> QED
    BY <2>4, <2>6, <2>7, <2>8, <2>9 DEF SignallingSafe
<1> QED
  BY <1>2, <1>3

\* The close of a socket, which takes the user along only if it is still the user's.
LEMMA SignallingCloseStep ==
  ASSUME SignallingSafe, NEW p \in Peers, SigClosed(p)
  PROVE  SignallingSafe'
<1>1. /\ wire[p] \in {"open", "closing"} /\ wire' = [wire EXCEPT ![p] = "closed"]
      /\ Without(p) /\ downW' = downW
  BY DEF SigClosed, Listens
<1>2. /\ resources' \in [Hashes -> SUBSET Peers]
      /\ peerResources' \in [Peers -> SUBSET Hashes]
      /\ GroupsAgree'
      /\ \A h \in Hashes : p \notin resources'[h] /\ resources'[h] \subseteq resources[h]
      /\ \A q \in Peers : peerResources[q] = {} => peerResources'[q] = {}
  BY <1>1, WithoutLemma DEF SignallingSafe
<1>3. MembersLive'
  BY <1>1, <1>2 DEF SignallingSafe, SigTypeOK, MembersLive, Listens
<1>4. CASE ~ StillThere(p)
  <2>1. UNCHANGED <<peers, online>>
    BY <1>4 DEF SigClosed
  <2>2. SigTypeOK'
    BY <1>1, <1>2, <2>1 DEF SignallingSafe, SigTypeOK
  <2>3. PresenceExact'
    BY <1>1, <2>1 DEF SignallingSafe, SigTypeOK, PresenceExact
  <2>4. \A u \in PeerUsers : peers[u] # p
    BY <1>4, SignallingAssumption DEF SignallingSafe, SigTypeOK, PeersOwn, StillThere
  <2>5. PeersOwn'
    BY <1>1, <2>1, <2>4 DEF SignallingSafe, SigTypeOK, PeersOwn
  <2> QED
    BY <1>2, <1>3, <2>2, <2>3, <2>5 DEF SignallingSafe
<1>5. CASE StillThere(p)
  <2> DEFINE u == UserOf[p]
  <2>1. /\ u \in PeerUsers /\ peers[u] = p
        /\ peers' = [peers EXCEPT ![u] = NoPeer]
        /\ online' = [q \in Peers |-> IF Hears(q, u) THEN online[q] \ {u} ELSE online[q]]
    BY <1>5 DEF SigClosed, StillThere
  <2>2. SigTypeOK'
    BY <1>1, <1>2, <2>1 DEF SignallingSafe, SigTypeOK
  <2>3. PresenceExact'
    <3> SUFFICES ASSUME NEW q \in Peers, wire'[q] = "open", UserOf[q] # NoUser
                 PROVE  /\ peers'[UserOf[q]] = q
                        /\ online'[q] = {v \in PeerUsers \ {UserOf[q]} : peers'[v] # NoPeer}
      BY DEF PresenceExact
    <3>1. q # p /\ wire[q] = "open" /\ UserOf[q] \in PeerUsers
      BY <1>1 DEF SignallingSafe, SigTypeOK
    <3>2. /\ peers[UserOf[q]] = q
          /\ online[q] = {v \in PeerUsers \ {UserOf[q]} : peers[v] # NoPeer}
      BY <3>1 DEF SignallingSafe, PresenceExact
    <3>3. UserOf[q] # u
      BY <2>1, <3>1, <3>2
    <3>4. online'[q] = online[q] \ {u}
      BY <2>1, <3>1, <3>2, <3>3 DEF Hears
    <3>5. \A v \in PeerUsers : peers'[v] # NoPeer <=> v # u /\ peers[v] # NoPeer
      BY <2>1 DEF SignallingSafe, SigTypeOK
    <3>6. peers'[UserOf[q]] = q
      BY <2>1, <3>1, <3>2, <3>3 DEF SignallingSafe, SigTypeOK
    <3> QED
      BY <3>2, <3>4, <3>5, <3>6
  <2>4. PeersOwn'
    BY <1>1, <2>1 DEF SignallingSafe, SigTypeOK, PeersOwn
  <2> QED
    BY <1>2, <1>3, <2>2, <2>3, <2>4 DEF SignallingSafe
<1> QED
  BY <1>4, <1>5

LEMMA SignallingShutdownStep == ASSUME SignallingSafe, SigShutdown PROVE SignallingSafe'
<1>1. /\ downW' \in BOOLEAN /\ online' = online
      /\ peers' = [u \in PeerUsers |-> NoPeer]
      /\ resources' = [h \in Hashes |-> {}]
      /\ peerResources' = [p \in Peers |-> {}]
      /\ wire' \in [Peers -> {"new", "auth", "gone", "open", "closing", "closed", "lost"}]
  BY DEF SigShutdown, SignallingSafe, SigTypeOK
<1>2. SigTypeOK'
  BY <1>1 DEF SignallingSafe, SigTypeOK
<1>3. \A p \in Peers : UserOf[p] # NoUser => wire'[p] # "open"
  BY DEF SigShutdown, SignallingSafe, SigTypeOK, PresenceExact
<1>4. PresenceExact' /\ PeersOwn' /\ MembersLive' /\ GroupsAgree'
  BY <1>1, <1>3 DEF PresenceExact, PeersOwn, MembersLive, GroupsAgree
<1> QED
  BY <1>2, <1>4 DEF SignallingSafe

LEMMA SignallingStep == SignallingSafe /\ [SigNext]_sigVars => SignallingSafe'
<1> SUFFICES ASSUME SignallingSafe, [SigNext]_sigVars PROVE SignallingSafe'
  OBVIOUS
<1>1. CASE SigNext
  BY <1>1, WireStep, GroupStep, AuthenticatedStep, SignallingCloseStep, SignallingShutdownStep
     DEF SigNext
<1>2. CASE UNCHANGED sigVars
  BY <1>2 DEF sigVars, SignallingSafe, SigTypeOK, PresenceExact, MembersLive,
              GroupsAgree, PeersOwn, Listens
<1> QED
  BY <1>1, <1>2

\* For any number of users, sockets and groups (src/webrtc/index.js): clients know exactly
\* who is in the map of users, whose sockets have not been heard to close, and groups hold
\* sockets that still listen.
THEOREM SignallingSafeTheorem == SigSpec => []SignallingSafe
BY SignallingStarts, SignallingStep, PTL DEF SigSpec
-----------------------------------------------------------------------------
\* What is kept of the replaceable events is in the history, and it was accepted.
SlotsKnown == \A i \in DOMAIN events : Replaceable(events[i]) => Slot(events[i]) \in DOMAIN latest

RelayInv == RelaySafe /\ SlotsKnown

USE RelayAssumption

LEMMA RelayStarts == RelayInit => RelayInv
BY DEF RelayInit, RelayInv, RelaySafe, RelayTypeOK, LastOfSlotKept, SubscribersMissNothing, SlotsKnown

\* The list moves up by one at most, and the newest event comes last.
LEMMA PushedLemma ==
  ASSUME RelayTypeOK, NEW e \in Events
  PROVE  /\ Pushed(e) \in Seq(Events)
         /\ Len(Pushed(e)) \in 1..MaxEvents
         /\ Pushed(e)[Len(Pushed(e))] = e
         /\ \E k \in {0, 1} : \A i \in 1..(Len(Pushed(e)) - 1) :
              i + k \in DOMAIN events /\ Pushed(e)[i] = events[i + k]
<1>1. CASE Len(events) >= MaxEvents
  <2>1. /\ Pushed(e) = Append(Tail(events), e)
        /\ Tail(events) \in Seq(Events) /\ Len(Tail(events)) = Len(events) - 1
        /\ Len(events) = MaxEvents
        /\ \A i \in 1..Len(Tail(events)) : Tail(events)[i] = events[i + 1]
    BY <1>1 DEF Pushed, RelayTypeOK
  <2> QED
    BY <2>1 DEF RelayTypeOK
<1>2. CASE Len(events) < MaxEvents
  <2>1. Pushed(e) = Append(events, e)
    BY <1>2 DEF Pushed, RelayTypeOK
  <2> QED
    BY <1>2, <2>1 DEF RelayTypeOK
<1> QED
  BY <1>1, <1>2 DEF RelayTypeOK

\* Whatever becomes of the list, what is kept was kept before or is the new event; and a
\* replaceable event is the only one of its slot.
LEMMA StoredLemma ==
  ASSUME RelayTypeOK, LastOfSlotKept, NEW e \in Events
  PROVE  /\ Stored(e) \in Seq(Events) /\ Len(Stored(e)) <= MaxEvents
         /\ \A i \in DOMAIN Stored(e) : Stored(e)[i] = e \/ \E j \in DOMAIN events : Stored(e)[i] = events[j]
         /\ \A i, j \in DOMAIN Stored(e) :
              Replaceable(Stored(e)[i]) /\ SameSlot(Stored(e)[i], Stored(e)[j]) => i = j
         /\ Replaceable(e) => \A i \in DOMAIN Stored(e) :
              SameSlot(e, Stored(e)[i]) => Stored(e)[i] = e
<1> DEFINE same == {i \in DOMAIN events : SameSlot(e, events[i])}
           first == CHOOSE i \in same : \A j \in same : i <= j
<1>1. events \in Seq(Events) /\ Len(events) <= MaxEvents
  BY DEF RelayTypeOK
<1>2. \A i, j \in DOMAIN events : Replaceable(events[i]) /\ SameSlot(events[i], events[j]) => i = j
  BY DEF LastOfSlotKept
<1>3. \A i, j \in same : i = j
  BY <1>2 DEF SameSlot
<1>4. CASE e.kind = "ephemeral"
  <2>1. Stored(e) = events /\ ~ Replaceable(e)
    BY <1>4 DEF Stored, Replaceable
  <2> QED
    BY <1>1, <1>2, <2>1
<1>5. CASE Replaceable(e) /\ same # {}
  <2>1. e.kind # "ephemeral"
    BY <1>5 DEF Replaceable
  <2>2. first \in same /\ same = {first}
    <3>1. PICK i \in same : TRUE
      BY <1>5
    <3>2. i \in Nat /\ \A j \in same : i <= j
      BY <1>1, <1>3, <3>1
    <3> QED
      BY <1>3, <3>1, <3>2
  <2>3. Stored(e) = [events EXCEPT ![first] = e]
    BY <1>5, <2>1 DEF Stored
  <2> HIDE DEF first
  <2>4. first \in DOMAIN events /\ \A i \in DOMAIN events : SameSlot(e, events[i]) => i = first
    BY <2>2
  <2>5. /\ Stored(e) \in Seq(Events) /\ Len(Stored(e)) = Len(events) /\ DOMAIN Stored(e) = DOMAIN events
        /\ \A i \in DOMAIN events : Stored(e)[i] = IF i = first THEN e ELSE events[i]
    BY <1>1, <2>3, <2>4
  <2>6. \A i \in DOMAIN events : SameSlot(events[i], e) /\ Replaceable(events[i]) => i = first
    BY <2>4 DEF SameSlot
  <2> QED
    BY <1>1, <1>2, <2>4, <2>5, <2>6
<1>6. CASE e.kind # "ephemeral" /\ ~ (Replaceable(e) /\ same # {})
  <2>1. Stored(e) = Pushed(e)
    BY <1>6 DEF Stored
  <2>2. \A i \in DOMAIN events : Replaceable(e) => ~ SameSlot(e, events[i])
    BY <1>6
  <2>3. PICK k \in {0, 1} : \A i \in 1..(Len(Pushed(e)) - 1) :
              i + k \in DOMAIN events /\ Pushed(e)[i] = events[i + k]
    BY PushedLemma
  <2>4. /\ Pushed(e) \in Seq(Events) /\ Len(Pushed(e)) \in 1..MaxEvents
        /\ Pushed(e)[Len(Pushed(e))] = e
    BY PushedLemma
  <2> DEFINE n == Len(Pushed(e))
  <2>5. \A i \in DOMAIN Pushed(e) : i \in Nat /\ (i = n \/ i \in 1..(n - 1))
    BY <2>4
  <2>6. \A i \in 1..(n - 1) : /\ ~ (Replaceable(Pushed(e)[i]) /\ SameSlot(Pushed(e)[i], e))
                             /\ ~ (Replaceable(e) /\ SameSlot(e, Pushed(e)[i]))
    BY <2>2, <2>3 DEF SameSlot
  <2>7. \A i, j \in 1..(n - 1) :
          Replaceable(Pushed(e)[i]) /\ SameSlot(Pushed(e)[i], Pushed(e)[j]) => i = j
    <3> TAKE i, j \in 1..(n - 1)
    <3> HAVE Replaceable(Pushed(e)[i]) /\ SameSlot(Pushed(e)[i], Pushed(e)[j])
    <3>1. i + k = j + k
      BY <1>2, <2>3
    <3> QED
      BY <2>4, <3>1
  <2> HIDE DEF n
  <2>8. \A i, j \in DOMAIN Pushed(e) :
              Replaceable(Pushed(e)[i]) /\ SameSlot(Pushed(e)[i], Pushed(e)[j]) => i = j
    BY <2>4, <2>5, <2>6, <2>7 DEF n
  <2>9. \A i \in DOMAIN Pushed(e) : Pushed(e)[i] = e \/ \E j \in DOMAIN events : Pushed(e)[i] = events[j]
    BY <2>3, <2>4, <2>5 DEF n
  <2>10. Replaceable(e) => \A i \in DOMAIN Pushed(e) : SameSlot(e, Pushed(e)[i]) => Pushed(e)[i] = e
    BY <2>4, <2>5, <2>6 DEF n
  <2> QED
    BY <2>1, <2>4, <2>8, <2>9, <2>10
<1> QED
  BY <1>4, <1>5, <1>6

\* An event is accepted: it is the last of its slot, and everybody who asks for it has it.
LEMMA EventAccepted ==
  ASSUME RelayInv, NEW s \in RelayClients, NEW e \in Events, Event(s, e)
  PROVE  RelayInv'
<1>1. /\ UNCHANGED <<session, subscribersOf>>
      /\ rate' \in [RelayClients -> 0..(RateLimit + 1)]
  BY DEF Event, RelayInv, RelaySafe, RelayTypeOK
<1>2. CASE UNCHANGED <<events, got, latest>>
  BY <1>1, <1>2 DEF RelayInv, RelaySafe, RelayTypeOK, LastOfSlotKept, SubscribersMissNothing,
                    SlotsKnown, Kept
<1>3. CASE /\ events' = Stored(e)
           /\ got' = Broadcast(s, e)
           /\ latest' = IF Replaceable(e)
                        THEN [k \in DOMAIN latest \cup {Slot(e)} |-> IF k = Slot(e) THEN e ELSE latest[k]]
                        ELSE latest
  <2>1. /\ events' \in Seq(Events) /\ Len(events') <= MaxEvents
        /\ \A i \in DOMAIN events' : events'[i] = e \/ \E j \in DOMAIN events : events'[i] = events[j]
        /\ \A i, j \in DOMAIN events' :
              Replaceable(events'[i]) /\ SameSlot(events'[i], events'[j]) => i = j
        /\ Replaceable(e) => \A i \in DOMAIN events' : SameSlot(e, events'[i]) => events'[i] = e
    BY <1>3, StoredLemma DEF RelayInv, RelaySafe
  <2>2. got' \in [RelayClients -> SUBSET (SubIds \X Events)]
    BY <1>3 DEF Broadcast, RelayInv, RelaySafe, RelayTypeOK, Entries
  <2>3. /\ DOMAIN latest' \subseteq Slots /\ DOMAIN latest \subseteq DOMAIN latest'
        /\ Replaceable(e) => Slot(e) \in DOMAIN latest' /\ latest'[Slot(e)] = e
        /\ \A k \in DOMAIN latest : ~ (Replaceable(e) /\ k = Slot(e)) => latest'[k] = latest[k]
    BY <1>3 DEF RelayInv, RelaySafe, RelayTypeOK, Slots
  <2>4. RelayTypeOK'
    BY <1>1, <2>1, <2>2, <2>3 DEF RelayInv, RelaySafe, RelayTypeOK
  <2>5. \A i \in DOMAIN events' : Replaceable(events'[i]) =>
          /\ Slot(events'[i]) \in DOMAIN latest' /\ events'[i] = latest'[Slot(events'[i])]
    <3> SUFFICES ASSUME NEW i \in DOMAIN events', Replaceable(events'[i])
                 PROVE  Slot(events'[i]) \in DOMAIN latest' /\ events'[i] = latest'[Slot(events'[i])]
      OBVIOUS
    <3>1. CASE events'[i] = e
      BY <2>3, <3>1
    <3>2. CASE events'[i] # e
      <4>1. PICK j \in DOMAIN events : events'[i] = events[j]
        BY <2>1, <3>2
      <4>2. Slot(events[j]) \in DOMAIN latest /\ events[j] = latest[Slot(events[j])]
        BY <4>1 DEF RelayInv, RelaySafe, SlotsKnown, LastOfSlotKept
      <4>3. ~ (Replaceable(e) /\ Slot(events[j]) = Slot(e))
        BY <2>1, <3>2, <4>1 DEF SameSlot
      <4> QED
        BY <2>3, <4>1, <4>2, <4>3
    <3> QED
      BY <3>1, <3>2
  <2>6. LastOfSlotKept' /\ SlotsKnown'
    BY <2>1, <2>5 DEF LastOfSlotKept, SlotsKnown
  <2>7. SubscribersMissNothing'
    <3> SUFFICES ASSUME NEW t \in RelayClients, NEW x \in subscribersOf[t], NEW i \in DOMAIN events',
                        Passes(events'[i], x.filter), Unlimited(x.filter)
                 PROVE  <<x.sub, events'[i]>> \in got'[t]
      BY <1>1 DEF SubscribersMissNothing, Kept
    <3>1. got'[t] = got[t] \cup {<<y.sub, e>> : y \in {z \in subscribersOf[t] : Passes(e, z.filter)}}
      BY <1>3 DEF Broadcast
    <3>2. CASE events'[i] = e
      BY <3>1, <3>2
    <3>3. CASE \E j \in DOMAIN events : events'[i] = events[j]
      BY <3>1, <3>3 DEF RelayInv, RelaySafe, SubscribersMissNothing, Kept
    <3> QED
      BY <2>1, <3>2, <3>3
  <2> QED
    BY <2>4, <2>6, <2>7 DEF RelayInv, RelaySafe
<1> QED
  BY <1>2, <1>3 DEF Event

\* The messages that change what a socket asks for, and its opening and end.
LEMMA SubscriptionStep ==
  ASSUME RelayInv, NEW s \in RelayClients,
         \/ RelayConnect(s) \/ RelayClose(s) \/ WindowEnds(s)
         \/ \E id \in SubIds : CloseSub(s, id) \/ \E fs \in SUBSET Filters : Req(s, id, fs)
  PROVE  RelayInv'
<1>1. UNCHANGED <<events, latest>>
  BY DEF RelayConnect, RelayClose, WindowEnds, CloseSub, Req
<1>2. LastOfSlotKept' /\ SlotsKnown'
  BY <1>1 DEF RelayInv, RelaySafe, LastOfSlotKept, SlotsKnown
<1>3. CASE RelayConnect(s) \/ WindowEnds(s)
  <2>1. SubscribersMissNothing'
    BY <1>1, <1>3 DEF RelayConnect, WindowEnds, RelayInv, RelaySafe, SubscribersMissNothing, Kept
  <2>2. RelayTypeOK'
    <3>. USE DEF RelayInv, RelaySafe, RelayTypeOK
    <3>1. CASE RelayConnect(s)
      BY <1>1, <3>1 DEF RelayConnect
    <3>2. CASE WindowEnds(s)
      BY <1>1, <3>2 DEF WindowEnds
    <3>. QED
      BY <1>3, <3>1, <3>2
  <2>. QED
    BY <1>2, <2>1, <2>2 DEF RelayInv, RelaySafe
<1>4. CASE RelayClose(s)
  BY <1>1, <1>2, <1>4 DEF RelayClose, RelayInv, RelaySafe, RelayTypeOK, SubscribersMissNothing, Kept
<1>5. ASSUME NEW id \in SubIds, CloseSub(s, id) PROVE RelayInv'
  BY <1>1, <1>2, <1>5 DEF CloseSub, RelayInv, RelaySafe, RelayTypeOK, SubscribersMissNothing, Kept
<1>6. ASSUME NEW id \in SubIds, NEW fs \in SUBSET Filters, Req(s, id, fs) PROVE RelayInv'
  <2>1. /\ UNCHANGED <<session, rate>>
        /\ subscribersOf' = [subscribersOf EXCEPT ![s] = {[sub |-> id, filter |-> f] : f \in fs}]
        /\ got' = [got EXCEPT ![s] = UNION {{<<id, e>> : e \in History(f)} : f \in fs}]
    BY <1>6 DEF Req
  <2>2. \A f \in fs : History(f) \subseteq Events
    <3>1. \A i \in DOMAIN events : events[i] \in Events
      BY DEF RelayInv, RelaySafe, RelayTypeOK
    <3>2. \A f \in fs : \A e \in History(f) : \E i \in DOMAIN events : e = events[i]
      BY Zenon DEF History
    <3> QED
      BY <3>1, <3>2
  <2>3. \A f \in fs : \A e \in Kept : Passes(e, f) /\ Unlimited(f) => e \in History(f)
    BY DEF History, Kept
  <2>4. RelayTypeOK'
    BY <1>1, <2>1, <2>2 DEF RelayInv, RelaySafe, RelayTypeOK, Entries
  <2>5. SubscribersMissNothing'
    <3> SUFFICES ASSUME NEW t \in RelayClients, NEW x \in subscribersOf'[t], NEW e \in Kept,
                        Passes(e, x.filter), Unlimited(x.filter)
                 PROVE  <<x.sub, e>> \in got'[t]
      BY <1>1 DEF SubscribersMissNothing, Kept
    <3>1. CASE t = s
      <4>1. PICK f \in fs : x = [sub |-> id, filter |-> f]
        BY <2>1, <3>1 DEF RelayInv, RelaySafe, RelayTypeOK
      <4>2. e \in History(f) /\ x.sub = id
        BY <2>3, <4>1
      <4>3. got'[t] = UNION {{<<id, d>> : d \in History(g)} : g \in fs}
        BY <2>1, <3>1 DEF RelayInv, RelaySafe, RelayTypeOK
      <4> QED
        BY <4>2, <4>3
    <3>2. CASE t # s
      BY <2>1, <3>2 DEF RelayInv, RelaySafe, RelayTypeOK, SubscribersMissNothing
    <3> QED
      BY <3>1, <3>2
  <2> QED
    BY <1>2, <2>4, <2>5 DEF RelayInv, RelaySafe
<1> QED
  BY <1>3, <1>4, <1>5, <1>6

LEMMA RelayStep == RelayInv /\ [RelayNext]_relayVars => RelayInv'
<1> SUFFICES ASSUME RelayInv, [RelayNext]_relayVars PROVE RelayInv'
  OBVIOUS
<1>1. CASE RelayNext
  BY <1>1, EventAccepted, SubscriptionStep DEF RelayNext
<1>2. CASE UNCHANGED relayVars
  BY <1>2 DEF relayVars, RelayInv, RelaySafe, RelayTypeOK, LastOfSlotKept, SubscribersMissNothing,
              SlotsKnown, Kept
<1> QED
  BY <1>1, <1>2

\* The last event of each slot is the one that is kept, and a subscriber has whatever is kept
\* and passes a filter without a limit, for any events and filters and any length of the list
\* (src/nostr/relay.js).
THEOREM RelaySafeTheorem == RelaySpec => []RelaySafe
<1>1. RelayInv => RelaySafe
  BY DEF RelayInv
<1> QED
  BY RelayStarts, RelayStep, <1>1, PTL DEF RelaySpec
=============================================================================
