\* Each service alone: a subscriber at three levels; four tunnel sockets of three users,
\* two names and a visitor; four peers of two users; two relay clients.
CONSTANTS
  Sockets = {s1}
  c = c
  d1 = d1
  d2 = d2
  Resources = {c, d1, d2}
  Parent <- Tree
  NoResource = NoResource
  MaxSubs = 2
  c1 = c1
  c2 = c2
  c3 = c3
  c4 = c4
  ann = ann
  bob = bob
  Clients = {c1, c2, c3, c4}
  OwnerOf <- TunnelOwners
  Anonymous = Anonymous
  TunnelNames = {n1, n2}
  Visits = {v1}
  NoClient = NoClient
  NoName = NoName
  p1 = p1
  p2 = p2
  p3 = p3
  p4 = p4
  Peers = {p1, p2, p3, p4}
  PeerUsers = {ann, bob}
  UserOf <- SocketUsers
  NoUser = NoUser
  NoPeer = NoPeer
  Hashes = {h1, h2}
  MaxJoined = 1
  RelayClients = {r1, r2}
  Events <- NostrEvents
  Filters <- NostrFilters
  SubIds = {"a", "b"}
  MaxEvents = 2
  RateLimit = 1
SPECIFICATION PartsSpec
INVARIANTS NotifySafe TunnelSafe SignallingSafe RelaySafe
PROPERTIES VisitorsAnswered
CHECK_DEADLOCK FALSE
