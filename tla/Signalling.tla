----------------------------- MODULE Signalling -----------------------------
(***************************************************************************)
(* WebRTC signalling (src/webrtc): one WebSocket per user in `peers`, told *)
(* about the others' coming and going, and groups of sockets that share a  *)
(* resource. A socket's peerId is the socket itself here. The token is     *)
(* awaited before the handlers are attached; everything else is one step.  *)
(* Messages that are only passed on (offers, answers, candidates) leave    *)
(* the server's state alone and are left out.                              *)
(***************************************************************************)
EXTENDS Naturals, FiniteSets

CONSTANTS
  Peers,      \* sockets
  UserOf,     \* the WebID of each, or NoUser
  PeerUsers,
  NoUser,
  NoPeer,
  Hashes,     \* shared resources
  MaxJoined   \* MAX_RESOURCES_PER_PEER

ASSUME SignallingAssumption ==
  /\ NoUser \notin PeerUsers /\ NoPeer \notin Peers
  /\ UserOf \in [Peers -> PeerUsers \cup {NoUser}]
  /\ MaxJoined \in Nat \ {0}

VARIABLES
  wire,           \* state of each socket; "gone": closed before the handlers were attached,
                  \* "lost" once they are: nobody will hear that it closed
  peers,          \* the socket of each user
  resources,      \* the members of each group
  peerResources,  \* the groups of each socket
  online,         \* what each client believes: the other users that are online
  downW           \* the server is shutting down

sigVars == <<wire, peers, resources, peerResources, online, downW>>

SigTypeOK ==
  /\ wire \in [Peers -> {"new", "auth", "gone", "open", "closing", "closed", "lost"}]
  /\ peers \in [PeerUsers -> Peers \cup {NoPeer}]
  /\ resources \in [Hashes -> SUBSET Peers]
  /\ peerResources \in [Peers -> SUBSET Hashes]
  /\ online \in [Peers -> SUBSET PeerUsers]
  /\ downW \in BOOLEAN
  /\ \A p \in Peers : wire[p] \in {"new", "auth", "gone"} => peerResources[p] = {}

SigInit ==
  /\ wire = [p \in Peers |-> "new"]
  /\ peers = [u \in PeerUsers |-> NoPeer]
  /\ resources = [h \in Hashes |-> {}]
  /\ peerResources = [p \in Peers |-> {}]
  /\ online = [p \in Peers |-> {}]
  /\ downW = FALSE
-----------------------------------------------------------------------------
\* The upgrade; the token is awaited.
SigConnect(p) ==
  /\ wire[p] = "new" /\ ~ downW
  /\ wire' = [wire EXCEPT ![p] = "auth"]
  /\ UNCHANGED <<peers, resources, peerResources, online, downW>>

\* The client goes away meanwhile: nobody listens for the event.
SigVanishes(p) ==
  /\ wire[p] = "auth"
  /\ wire' = [wire EXCEPT ![p] = "gone"]
  /\ UNCHANGED <<peers, resources, peerResources, online, downW>>

\* removePeerFromAllResources, by the list of the peer's own groups.
Without(p) ==
  /\ resources' = [h \in Hashes |->
                     IF h \in peerResources[p] THEN resources[h] \ {p} ELSE resources[h]]
  /\ peerResources' = [peerResources EXCEPT ![p] = {}]

\* broadcast: the open sockets of the other users.
Hears(q, u) == \E v \in PeerUsers \ {u} : peers[v] = q /\ wire[q] = "open"

\* `peers` to the newcomer; `peer-joined` to the others unless it replaces a socket.
Joined(u, p, others) ==
  online' = [q \in Peers |->
               CASE q = p -> others
                 [] q # p /\ peers[u] = NoPeer /\ Hears(q, u) -> online[q] \cup {u}
                 [] OTHER -> online[q]]

\* An identified socket takes the place of the user's socket, which leaves its groups
\* and is closed. A socket that has gone is registered just the same, and stays until its
\* user comes back.
Register(u, p) ==
  /\ wire' = [q \in Peers |->
                CASE q = p -> IF wire[p] = "gone" THEN "lost" ELSE "open"
                  [] q = peers[u] /\ q # p /\ wire[q] = "open" -> "closing"
                  [] OTHER -> wire[q]]
  /\ peers' = [peers EXCEPT ![u] = p]
  /\ IF peers[u] # NoPeer THEN Without(peers[u]) ELSE UNCHANGED <<resources, peerResources>>
  /\ Joined(u, p, {v \in PeerUsers \ {u} : peers[v] # NoPeer})

\* The token is verified; the handlers are attached.
SigAuthenticated(p) ==
  /\ wire[p] \in {"auth", "gone"}
  /\ \/ /\ UserOf[p] # NoUser
        /\ Register(UserOf[p], p)
     \/ /\ UserOf[p] = NoUser
        /\ wire' = [wire EXCEPT ![p] = IF @ = "gone" THEN "lost" ELSE "open"]
        /\ UNCHANGED <<peers, resources, peerResources, online>>
  /\ UNCHANGED downW

Listens(p) == wire[p] \in {"open", "closing"}

\* addPeerToResource.
Join(p, h) ==
  /\ resources' = [resources EXCEPT ![h] = @ \cup {p}]
  /\ peerResources' = [peerResources EXCEPT ![p] = @ \cup {h}]
  /\ UNCHANGED <<wire, peers, online, downW>>

\* `announce`: limited, unless the socket is a member already.
SigAnnounce(p, h) ==
  /\ Listens(p)
  /\ h \in peerResources[p] \/ Cardinality(peerResources[p]) < MaxJoined
  /\ Join(p, h)

\* The announce of the WebTorrent tracker protocol: no limit.
SigTrackerAnnounce(p, h) ==
  /\ Listens(p)
  /\ Join(p, h)

\* `leave`.
SigLeave(p, h) ==
  /\ Listens(p)
  /\ resources' = [resources EXCEPT ![h] = @ \ {p}]
  /\ peerResources' = [peerResources EXCEPT ![p] = @ \ {h}]
  /\ UNCHANGED <<wire, peers, online, downW>>

\* The client starts the closing handshake.
SigCloses(p) ==
  /\ wire[p] = "open"
  /\ wire' = [wire EXCEPT ![p] = "closing"]
  /\ UNCHANGED <<peers, resources, peerResources, online, downW>>

\* Variant: the user leaves whichever of its sockets closes.
StillThereAnyway(p) == UserOf[p] # NoUser

\* It is still the socket of its user.
StillThere(p) == UserOf[p] # NoUser /\ peers[UserOf[p]] = p

\* The close event: out of the groups, and `peer-left` unless it was replaced.
SigClosed(p) ==
  /\ Listens(p)
  /\ wire' = [wire EXCEPT ![p] = "closed"]
  /\ Without(p)
  /\ IF StillThere(p)
     THEN /\ peers' = [peers EXCEPT ![UserOf[p]] = NoPeer]
          /\ online' = [q \in Peers |->
                          IF Hears(q, UserOf[p]) THEN online[q] \ {UserOf[p]} ELSE online[q]]
     ELSE UNCHANGED <<peers, online>>
  /\ UNCHANGED downW

\* The onClose hook of the server.
SigShutdown ==
  /\ ~ downW
  /\ downW' = TRUE
  /\ wire' = [p \in Peers |->
                IF wire[p] = "open" /\ \E u \in PeerUsers : peers[u] = p
                THEN "closing" ELSE wire[p]]
  /\ peers' = [u \in PeerUsers |-> NoPeer]
  /\ resources' = [h \in Hashes |-> {}]
  /\ peerResources' = [p \in Peers |-> {}]
  /\ UNCHANGED online

SigNext ==
  \/ \E p \in Peers :
       \/ SigConnect(p) \/ SigVanishes(p) \/ SigAuthenticated(p)
       \/ SigCloses(p) \/ SigClosed(p)
       \/ \E h \in Hashes : SigAnnounce(p, h) \/ SigTrackerAnnounce(p, h) \/ SigLeave(p, h)
  \/ SigShutdown

SigSpec == SigInit /\ [][SigNext]_sigVars
-----------------------------------------------------------------------------
\* A user's open connection is the one that others reach, and what it has been told by
\* `peers`, `peer-joined` and `peer-left` is exactly who else is in the map, through
\* reconnections whose old socket closes late. It is not who is connected: see PeersOwn.
PresenceExact ==
  \A p \in Peers :
    wire[p] = "open" /\ UserOf[p] # NoUser
    => /\ peers[UserOf[p]] = p
       /\ online[p] = {v \in PeerUsers \ {UserOf[p]} : peers[v] # NoPeer}

\* A user is in the map with a socket of its own whose close is still to be heard; the one
\* socket that stays there although it has closed is one that closed while its token was
\* awaited, before there was a handler to hear it. The close of a replaced socket, however
\* late, neither takes its successor away nor leaves itself behind.
PeersOwn ==
  \A u \in PeerUsers :
    peers[u] # NoPeer => /\ UserOf[peers[u]] = u
                         /\ wire[peers[u]] \in {"open", "closing", "lost"}

\* No group has a member whose connection is gone: a socket that is replaced, leaves,
\* closes, or still speaks after it was replaced ends up in no group.
MembersLive == \A h \in Hashes : \A p \in resources[h] : Listens(p)

\* The groups and the list that each peer keeps of its own agree, or the next cleanup
\* would leave it behind.
GroupsAgree == \A h \in Hashes, p \in Peers : p \in resources[h] <=> h \in peerResources[p]

\* The map of users, what clients are told of it, the groups and the lists of groups agree,
\* whoever reconnects under a name in use, leaves or is cut off; groups hold sockets that
\* still listen, and the map of users does but for those cut off during authentication.
SignallingSafe == SigTypeOK /\ PresenceExact /\ PeersOwn /\ MembersLive /\ GroupsAgree
=============================================================================
