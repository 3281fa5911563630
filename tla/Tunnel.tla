------------------------------- MODULE Tunnel -------------------------------
(***************************************************************************)
(* The reverse tunnel (src/tunnel): a client opens a WebSocket, registers  *)
(* a name, and answers the HTTP requests that visitors send under that     *)
(* name. Each WebSocket message, each close and each timer runs to its     *)
(* end; they interleave freely. close() of a socket is not its end: the    *)
(* messages that the client had sent are still handled until the close     *)
(* event.                                                                  *)
(***************************************************************************)
EXTENDS Naturals

CONSTANTS
  Clients,        \* tunnel sockets
  OwnerOf,        \* the WebID each authenticates as, or Anonymous
  Anonymous,
  TunnelNames,
  Visits,         \* HTTP requests to /tunnel/<name>/
  NoClient,
  NoName

ASSUME TunnelAssumption == NoClient \notin Clients /\ NoName \notin TunnelNames

VARIABLES
  link,       \* state of each socket
  tunnelName, \* the name that each socket registered last
  tunnels,    \* the Map of tunnels: the socket of each name
  pendingOf,  \* the Map of pending requests
  visited,    \* the name that each request is for
  sentTo,     \* the socket that it was sent to
  reply,      \* how it was answered
  newest,     \* history: the last socket that registered each name
  downT       \* the server is shutting down

tunnelVars == <<link, tunnelName, tunnels, pendingOf, visited, sentTo, reply, newest, downT>>

TunnelTypeOK ==
  /\ link \in [Clients -> {"new", "auth", "open", "closing", "closed"}]
  /\ tunnelName \in [Clients -> TunnelNames \cup {NoName}]
  /\ tunnels \in [TunnelNames -> Clients \cup {NoClient}]
  /\ pendingOf \in SUBSET Visits
  /\ visited \in [Visits -> TunnelNames \cup {NoName}]
  /\ sentTo \in [Visits -> Clients \cup {NoClient}]
  /\ reply \in [Visits -> {"none", "answered", "502", "504"}]
  /\ newest \in [TunnelNames -> Clients \cup {NoClient}]
  /\ downT \in BOOLEAN
  /\ \A v \in Visits : v \in pendingOf <=> sentTo[v] # NoClient /\ reply[v] = "none"

TunnelInit ==
  /\ link = [c \in Clients |-> "new"]
  /\ tunnelName = [c \in Clients |-> NoName]
  /\ tunnels = [n \in TunnelNames |-> NoClient]
  /\ pendingOf = {}
  /\ visited = [v \in Visits |-> NoName]
  /\ sentTo = [v \in Visits |-> NoClient]
  /\ reply = [v \in Visits |-> "none"]
  /\ newest = [n \in TunnelNames |-> NoClient]
  /\ downT = FALSE
-----------------------------------------------------------------------------
unchangedVisits == UNCHANGED <<pendingOf, visited, sentTo, reply>>

\* The upgrade; the token is awaited.
TunnelConnect(c) ==
  /\ link[c] = "new" /\ ~ downT
  /\ link' = [link EXCEPT ![c] = "auth"]
  /\ UNCHANGED <<tunnelName, tunnels, newest, downT>> /\ unchangedVisits

\* The token is verified: the handlers are attached, or the socket is closed.
TunnelAuthenticated(c) ==
  /\ link[c] = "auth"
  /\ link' = [link EXCEPT ![c] = IF OwnerOf[c] = Anonymous THEN "closed" ELSE "open"]
  /\ UNCHANGED <<tunnelName, tunnels, newest, downT>> /\ unchangedVisits

\* The client goes away meanwhile: nobody listens for the event.
TunnelVanishes(c) ==
  /\ link[c] = "auth"
  /\ link' = [link EXCEPT ![c] = "closed"]
  /\ UNCHANGED <<tunnelName, tunnels, newest, downT>> /\ unchangedVisits

Attached(c) == link[c] \in {"open", "closing"}

\* A name that another user holds is refused.
TakesOver(c, n) == tunnels[n] # NoClient => OwnerOf[tunnels[n]] = OwnerOf[c]

\* `register`: the socket that held the name before is closed, be it this one.
TunnelRegister(c, n) ==
  /\ Attached(c) /\ TakesOver(c, n)
  /\ link' = [d \in Clients |->
                IF d = tunnels[n] /\ link[d] = "open" THEN "closing" ELSE link[d]]
  /\ tunnelName' = [tunnelName EXCEPT ![c] = n]
  /\ tunnels' = [tunnels EXCEPT ![n] = c]
  /\ newest' = [newest EXCEPT ![n] = c]
  /\ UNCHANGED downT /\ unchangedVisits

\* `response`: whoever names a pending request answers it.
TunnelResponse(c, v) ==
  /\ Attached(c)
  /\ sentTo[v] = c
  /\ v \in pendingOf
  /\ pendingOf' = pendingOf \ {v}
  /\ reply' = [reply EXCEPT ![v] = "answered"]
  /\ UNCHANGED <<link, tunnelName, tunnels, visited, sentTo, newest, downT>>

\* The client starts the closing handshake.
TunnelLeaves(c) ==
  /\ link[c] = "open"
  /\ link' = [link EXCEPT ![c] = "closing"]
  /\ UNCHANGED <<tunnelName, tunnels, newest, downT>> /\ unchangedVisits

\* Variant: whoever holds the name now is forgotten.
HoldsAnyway(c) == tunnelName[c] # NoName

\* It is still the socket of its name.
Holds(c) == tunnelName[c] # NoName /\ tunnels[tunnelName[c]] = c

\* Variant: the requests are forgotten with the timers cleared.
AbandonSilently(vs) ==
  /\ pendingOf' = pendingOf \ vs
  /\ UNCHANGED reply

\* 502 for some pending requests.
Abandon(vs) ==
  /\ pendingOf' = pendingOf \ vs
  /\ reply' = [v \in Visits |-> IF v \in pendingOf \cap vs THEN "502" ELSE reply[v]]

\* The requests under a name.
WaitingFor(n) == {v \in Visits : visited[v] = n}

Release(c) ==
  IF Holds(c)
  THEN /\ tunnels' = [tunnels EXCEPT ![tunnelName[c]] = NoClient]
       /\ Abandon(WaitingFor(tunnelName[c]))
  ELSE UNCHANGED <<tunnels, pendingOf, reply>>

\* The close event: a socket that still holds its name gives it up, and the requests
\* under that name get 502.
TunnelClosed(c) ==
  /\ Attached(c)
  /\ link' = [link EXCEPT ![c] = "closed"]
  /\ Release(c)
  /\ UNCHANGED <<tunnelName, visited, sentTo, newest, downT>>

\* A visitor's request: 502 unless the tunnel is there and open, or sending fails.
TunnelVisit(v, n) ==
  /\ visited[v] = NoName /\ ~ downT
  /\ visited' = [visited EXCEPT ![v] = n]
  /\ \/ /\ tunnels[n] # NoClient
        /\ link[tunnels[n]] = "open"
        /\ pendingOf' = pendingOf \cup {v}
        /\ sentTo' = [sentTo EXCEPT ![v] = tunnels[n]]
        /\ UNCHANGED reply
     \/ /\ reply' = [reply EXCEPT ![v] = "502"]
        /\ UNCHANGED <<pendingOf, sentTo>>
  /\ UNCHANGED <<link, tunnelName, tunnels, newest, downT>>

\* REQUEST_TIMEOUT after the request.
TunnelTimeout(v) ==
  /\ v \in pendingOf
  /\ pendingOf' = pendingOf \ {v}
  /\ reply' = [reply EXCEPT ![v] = "504"]
  /\ UNCHANGED <<link, tunnelName, tunnels, visited, sentTo, newest, downT>>

\* The onClose hook of the server.
TunnelShutdown ==
  /\ ~ downT
  /\ downT' = TRUE
  /\ link' = [c \in Clients |->
                IF \E n \in TunnelNames : tunnels[n] = c /\ link[c] = "open"
                THEN "closing" ELSE link[c]]
  /\ tunnels' = [n \in TunnelNames |-> NoClient]
  /\ Abandon(Visits)
  /\ UNCHANGED <<tunnelName, visited, sentTo, newest>>

TunnelNext ==
  \/ \E c \in Clients :
       \/ TunnelConnect(c) \/ TunnelAuthenticated(c) \/ TunnelVanishes(c)
       \/ TunnelLeaves(c) \/ TunnelClosed(c)
       \/ \E n \in TunnelNames : TunnelRegister(c, n)
       \/ \E v \in Visits : TunnelResponse(c, v)
  \/ \E v \in Visits :
       TunnelTimeout(v) \/ \E n \in TunnelNames : TunnelVisit(v, n)
  \/ TunnelShutdown

\* Timers fire.
TunnelFairness == \A v \in Visits : WF_tunnelVars(TunnelTimeout(v))

TunnelSpec == TunnelInit /\ [][TunnelNext]_tunnelVars /\ TunnelFairness
-----------------------------------------------------------------------------
\* A name leads to the last socket that registered it for as long as that socket
\* lives: the close of a socket that was replaced, however late, leaves its
\* successor alone (the test of the socket in the close handler).
NameFollowsNewest ==
  \A n \in TunnelNames :
    ~ downT /\ newest[n] # NoClient /\ link[newest[n]] # "closed"
    => tunnels[n] = newest[n]

\* A visitor waits for a socket that is gone only if that socket had given the name
\* up before: another socket had taken it, or it had registered a second name. All
\* the others got 502 when it closed and did not wait for the timer.
NobodyWaitsInVain ==
  \A v \in pendingOf :
    link[sentTo[v]] = "closed"
    => newest[visited[v]] # sentTo[v] \/ tunnelName[sentTo[v]] # visited[v]

\* Every visitor gets an answer, whatever the clients do: nothing takes a request out
\* of the pending ones without one.
VisitorsAnswered == \A v \in Visits : visited[v] # NoName ~> reply[v] # "none"

\* A name is served by the connection that took it last, and no visitor waits for a
\* connection that has gone, through take-overs, disconnects and timeouts.
TunnelSafe == TunnelTypeOK /\ NameFollowsNewest /\ NobodyWaitsInVain
=============================================================================
