\* Replay: three events, four requests, two proofs with one jti, seven ticks. Profiles: two
\* hosts, two callers, a cache of one, four ticks. Keys: two accounts, two requests, three
\* hours. Binding: all profiles of at most two methods. Patch: eight patches of seven
\* documents, up to three triples. remoteStorage: two clients, one without a token, two
\* documents and an ACL, four writes.
CONSTANTS
  Absent = Absent
  Events <- MCEvents
  Requests <- MCSignedRequests
  Proofs <- MCProofs
  Tolerance = 1
  MaxAge = 2
  MaxTime = 7
  Urls = {z1, z2}
  Callers = {y1, y2}
  Nothing = Nothing
  Ttl = 2
  FailureTtl = 1
  Room = 1
  MaxFetch = 1
  MaxClock = 4
  MaxChanges = 2
  Seekers = {y1, y2}
  Holders = {z1, z2}
  Remote = Remote
  Nobody = Nobody
  IndexTtl = 1
  DidTtl = 3
  DidFailureTtl = 1
  MaxWork = 1
  MaxHours = 3
  MaxTurns = 2
  Profiles <- MCProfiles
  WebId = WebId
  Key = Key
  Undeclared = Undeclared
  Them = Them
  Other = Other
  k1 = k1
  k2 = k2
  Base <- MCBase
  Origins <- MCOrigins
  Fragments <- MCFragments
  Common <- MCCommon
  RdfType <- MCRdfType
  Printed <- MCPrinted
  Whole <- MCWhole
  JsonDocuments <- MCJsonDocuments
  Turtles <- MCTurtles
  Patches <- MCPatches
  MaxTick = 1
  MaxTriples = 3
  Clients = {"a", "s"}
  Strangers = {"s"}
  Docs = {"d", "e"}
  Dotfiles = {".acl"}
  InPublic = FALSE
  ReadOnly = FALSE
  MaxWrites = 4
CHECK_DEADLOCK FALSE
SYMMETRY Alike
SPECIFICATION PartsSpec
INVARIANTS ReplaySafe CacheSafe KeysRecent BindingSafe WritesDoWhatTheySay RemoteSafe
