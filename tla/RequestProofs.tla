--------------------------- MODULE RequestProofs ---------------------------
(***************************************************************************)
(* Theorems about Replay, RemoteStorage, Resolver, KeyBinding,             *)
(* ProfileCache and Patch, checked by TLAPS. For every tolerance, every    *)
(* set of events and proofs, and every schedule of the sweeps, a signed    *)
(* header authorises one request; for any number of clients and documents, *)
(* a sync client can rely on the ETags it was given; a key speaks for whom *)
(* its holders named recently, and for nobody whose profile does not bind  *)
(* it, for any lifetimes of the caches on the way; for any documents,      *)
(* prefixes and patches, a write does what it says.                        *)
(***************************************************************************)
EXTENDS Replay, RemoteStorage, Resolver, KeyBinding, ProfileCache, Patch, Sums, SequenceTheorems, TLAPS

\* What was authorised is still in the cache, or will never verify again: the two
\* windows, of the clock check and of the sweep, meet without a gap.
EventsCovered ==
  \A e \in Events :
    /\ e \in DOMAIN seenEventIds => e.at <= seenEventIds[e] + Tolerance
    /\ granted[e] # <<>> => e \in DOMAIN seenEventIds \/ e.at + Tolerance < now

Used(p) == proved[p] # 0 \/ p \in checking

ProofsCovered ==
  \A p \in Proofs :
    Used(p) => \/ p.jti \in DOMAIN dpopJtiCache /\ dpopJtiCache[p.jti] = p.iat
               \/ p.iat + MaxAge < now

Facts == /\ ReplayTypeOK /\ EventsGrantOnce /\ ProofsGrantOnce
         /\ OnlyGrantsSpend /\ GrantedAsSigned

ReplayInv == Facts /\ EventsCovered /\ ProofsCovered

USE EventsAssumption, ProofsAssumption, WindowsAssumption

LEMMA ReplayStarts == ReplayInit => ReplayInv
BY DEF ReplayInit, ReplayInv, Facts, ReplayTypeOK, EventsGrantOnce, ProofsGrantOnce,
       OnlyGrantsSpend, GrantedAsSigned, EventsCovered, ProofsCovered, Used

\* What an accepted request matches, once the git routes are left out.
LEMMA StrictCover ==
  ASSUME NEW e, NEW r, Covers(e, r), ~r.git
  PROVE  /\ e.u # r.url => e.u = r.page
         /\ e.method = r.method
         /\ r.method \in Writes => r.body \in {Absent, e.payload}
BY DEF Covers, UrlMatches, MethodMatches, PayloadMatches

LEMMA EventStep ==
  ASSUME ReplayInv, NEW e \in Events, NEW r \in Requests, VerifyNostr(e, r)
  PROVE  ReplayInv'
<1>1. UNCHANGED <<now, dpopJtiCache, checking, proved>>
  BY DEF VerifyNostr
<1>2. ProofsCovered' /\ ProofsGrantOnce'
  BY <1>1 DEF ReplayInv, Facts, ProofsCovered, ProofsGrantOnce, Used
<1>3. CASE r.git
  <2>1. UNCHANGED <<seenEventIds, granted>>
    BY <1>3 DEF VerifyNostr
  <2> QED
    BY <1>1, <1>2, <2>1 DEF ReplayInv, Facts, ReplayTypeOK, EventsGrantOnce, OnlyGrantsSpend,
                            GrantedAsSigned, EventsCovered
<1>4. CASE ~r.git
  <2>1. /\ e \notin DOMAIN seenEventIds /\ e.at <= now + Tolerance
        /\ now <= e.at + Tolerance /\ now \in Nat /\ now \in 0..MaxTime
        /\ seenEventIds' = Put(seenEventIds, e, now)
        /\ granted' = [granted EXCEPT ![e] = Append(@, r)]
    BY <1>4 DEF VerifyNostr, Apart, ReplayInv, Facts, ReplayTypeOK
  <2>2. granted[e] = <<>> /\ granted \in [Events -> Seq(Requests)]
    BY <2>1 DEF ReplayInv, Facts, ReplayTypeOK, EventsCovered
  <2>3. granted' = [granted EXCEPT ![e] = <<r>>]
    BY <2>1, <2>2
  <2>4. /\ DOMAIN seenEventIds' = DOMAIN seenEventIds \cup {e}
        /\ seenEventIds'[e] = now
        /\ \A x \in DOMAIN seenEventIds : seenEventIds'[x] = seenEventIds[x]
    BY <2>1 DEF Put
  <2>5. ReplayTypeOK'
    <3>1. granted' \in [Events -> Seq(Requests)]
      BY <2>2, <2>3
    <3> QED
      BY <1>1, <2>1, <2>4, <3>1 DEF ReplayTypeOK, ReplayInv, Facts
  <2>6. EventsGrantOnce' /\ OnlyGrantsSpend'
    BY <2>2, <2>3, <2>4 DEF EventsGrantOnce, OnlyGrantsSpend, ReplayInv, Facts, ReplayTypeOK
  <2>7. EventsCovered'
    BY <1>1, <2>1, <2>2, <2>3, <2>4 DEF EventsCovered, ReplayInv
  <2>8. GrantedAsSigned'
    <3>1. SUFFICES ASSUME NEW x \in Events, NEW i \in DOMAIN granted'[x]
          PROVE  /\ x.u # granted'[x][i].url => x.u = granted'[x][i].page
                 /\ x.method = granted'[x][i].method
                 /\ granted'[x][i].method \in Writes => granted'[x][i].body \in {Absent, x.payload}
      BY DEF GrantedAsSigned
    <3>2. CASE x = e
      <4>1. granted'[x][i] = r
        BY <2>2, <2>3, <3>1, <3>2
      <4> QED
        BY <1>4, <3>2, <4>1, StrictCover DEF VerifyNostr
    <3>3. CASE x # e
      <4>1. granted'[x] = granted[x]
        BY <2>2, <2>3, <3>3
      <4> QED
        BY <3>1, <4>1 DEF GrantedAsSigned, ReplayInv, Facts
    <3> QED
      BY <3>2, <3>3
  <2> QED
    BY <1>2, <2>5, <2>6, <2>7, <2>8 DEF ReplayInv, Facts
<1> QED
  BY <1>3, <1>4

LEMMA SweepStep ==
  ASSUME ReplayInv, SweepEventIds
  PROVE  ReplayInv'
<1>1. /\ UNCHANGED <<now, dpopJtiCache, checking, granted, proved>>
      /\ DOMAIN seenEventIds' = {id \in DOMAIN seenEventIds : ~Stale(id)}
      /\ \A x \in DOMAIN seenEventIds' : seenEventIds'[x] = seenEventIds[x]
  BY DEF SweepEventIds, KeepOnly
<1>2. EventsCovered'
  <2>1. SUFFICES ASSUME NEW e \in Events, e \in DOMAIN seenEventIds, Stale(e)
        PROVE  e.at + Tolerance < now
    BY <1>1 DEF EventsCovered, ReplayInv
  <2>2. now \in Nat /\ seenEventIds[e] \in Nat /\ e.at \in Nat /\ seenEventIds[e] <= now
    BY <2>1 DEF ReplayInv, Facts, ReplayTypeOK
  <2>3. e.at <= seenEventIds[e] + Tolerance
    BY <2>1 DEF ReplayInv, EventsCovered
  <2> QED
    BY <2>1, <2>2, <2>3 DEF Stale
<1>3. Facts' /\ ProofsCovered'
  BY <1>1 DEF ReplayInv, Facts, ReplayTypeOK, EventsGrantOnce, ProofsGrantOnce, OnlyGrantsSpend,
              GrantedAsSigned, ProofsCovered, Used
<1> QED
  BY <1>2, <1>3 DEF ReplayInv

LEMMA ProofStep ==
  ASSUME ReplayInv, NEW p \in Proofs, VerifyDpop(p)
  PROVE  ReplayInv'
<1>1. /\ UNCHANGED <<now, seenEventIds, granted, proved>>
      /\ now <= p.iat + MaxAge /\ p.jti \notin DOMAIN dpopJtiCache
      /\ DOMAIN dpopJtiCache' = DOMAIN dpopJtiCache \cup {p.jti}
      /\ dpopJtiCache'[p.jti] = p.iat
      /\ \A j \in DOMAIN dpopJtiCache : dpopJtiCache'[j] = dpopJtiCache[j]
      /\ checking' = checking \cup {p}
      /\ now \in Nat
  BY DEF VerifyDpop, Put, Apart, ReplayInv, Facts, ReplayTypeOK
<1>2. ~Used(p)
  BY <1>1 DEF ReplayInv, ProofsCovered
<1>3. ProofsCovered'
  BY <1>1 DEF ReplayInv, ProofsCovered, Used
<1>4. ProofsGrantOnce'
  BY <1>1, <1>2 DEF ReplayInv, Facts, ProofsGrantOnce, Used
<1>5. ReplayTypeOK'
  BY <1>1 DEF ReplayInv, Facts, ReplayTypeOK
<1>6. EventsGrantOnce' /\ OnlyGrantsSpend' /\ GrantedAsSigned' /\ EventsCovered'
  BY <1>1 DEF ReplayInv, Facts, EventsGrantOnce, OnlyGrantsSpend, GrantedAsSigned, EventsCovered
<1> QED
  BY <1>3, <1>4, <1>5, <1>6 DEF ReplayInv, Facts

LEMMA TokenStep ==
  ASSUME ReplayInv, NEW p \in Proofs, NEW good \in BOOLEAN, VerifyToken(p, good)
  PROVE  ReplayInv'
<1>1. /\ UNCHANGED <<now, seenEventIds, dpopJtiCache, granted>>
      /\ p \in checking /\ checking' = checking \ {p}
      /\ proved' = IF good THEN [proved EXCEPT ![p] = @ + 1] ELSE proved
  BY DEF VerifyToken
<1>2. proved \in [Proofs -> Nat] /\ proved[p] = 0
  BY <1>1 DEF ReplayInv, Facts, ReplayTypeOK, ProofsGrantOnce
<1>3. /\ proved' \in [Proofs -> Nat]
      /\ proved'[p] \in {0, 1}
      /\ \A x \in Proofs : x # p => proved'[x] = proved[x]
  BY <1>1, <1>2
<1>4. ProofsGrantOnce'
  BY <1>1, <1>3 DEF ReplayInv, Facts, ProofsGrantOnce
<1>5. ProofsCovered'
  BY <1>1, <1>3 DEF ReplayInv, ProofsCovered, Used
<1>6. ReplayTypeOK' /\ EventsGrantOnce' /\ OnlyGrantsSpend' /\ GrantedAsSigned' /\ EventsCovered'
  BY <1>1, <1>3 DEF ReplayInv, Facts, ReplayTypeOK, EventsGrantOnce, OnlyGrantsSpend,
                    GrantedAsSigned, EventsCovered
<1> QED
  BY <1>4, <1>5, <1>6 DEF ReplayInv, Facts

LEMMA CleanupStep ==
  ASSUME ReplayInv, CleanupJtiCache
  PROVE  ReplayInv'
<1>1. /\ UNCHANGED <<now, seenEventIds, checking, granted, proved>>
      /\ DOMAIN dpopJtiCache' = {j \in DOMAIN dpopJtiCache : ~Expired(j)}
      /\ \A j \in DOMAIN dpopJtiCache' : dpopJtiCache'[j] = dpopJtiCache[j]
  BY DEF CleanupJtiCache, KeepOnly
<1>2. ProofsCovered'
  BY <1>1 DEF ReplayInv, ProofsCovered, Used, Expired
<1>3. ReplayTypeOK'
  BY <1>1 DEF ReplayInv, Facts, ReplayTypeOK
<1>4. EventsGrantOnce' /\ ProofsGrantOnce' /\ OnlyGrantsSpend' /\ GrantedAsSigned' /\ EventsCovered'
  BY <1>1 DEF ReplayInv, Facts, EventsGrantOnce, ProofsGrantOnce, OnlyGrantsSpend, GrantedAsSigned,
              EventsCovered
<1> QED
  BY <1>2, <1>3, <1>4 DEF ReplayInv, Facts

LEMMA TickStep ==
  ASSUME ReplayInv, Tick
  PROVE  ReplayInv'
<1>1. /\ UNCHANGED <<seenEventIds, dpopJtiCache, checking, granted, proved>>
      /\ now' = now + 1 /\ now \in Nat /\ now' \in 0..MaxTime
  BY DEF Tick, ReplayInv, Facts, ReplayTypeOK
<1>2. EventsCovered' /\ ProofsCovered'
  BY <1>1 DEF ReplayInv, EventsCovered, ProofsCovered, Used
<1>3. ReplayTypeOK'
  BY <1>1 DEF ReplayInv, Facts, ReplayTypeOK
<1>4. EventsGrantOnce' /\ ProofsGrantOnce' /\ OnlyGrantsSpend' /\ GrantedAsSigned'
  BY <1>1 DEF ReplayInv, Facts, EventsGrantOnce, ProofsGrantOnce, OnlyGrantsSpend, GrantedAsSigned
<1> QED
  BY <1>2, <1>3, <1>4 DEF ReplayInv, Facts

LEMMA ReplayKept == ReplayInv /\ [ReplayNext]_replayVars => ReplayInv'
<1> SUFFICES ASSUME ReplayInv, [ReplayNext]_replayVars
    PROVE  ReplayInv'
  OBVIOUS
<1>1. CASE UNCHANGED replayVars
  BY <1>1 DEF replayVars, ReplayInv, Facts, ReplayTypeOK, EventsGrantOnce, ProofsGrantOnce,
              OnlyGrantsSpend, GrantedAsSigned, EventsCovered, ProofsCovered, Used
<1>2. CASE ReplayNext
  BY <1>2, EventStep, SweepStep, ProofStep, TokenStep, CleanupStep, TickStep DEF ReplayNext
<1> QED
  BY <1>1, <1>2

LEMMA ReplayHolds == ReplaySpec => []ReplayInv
BY ReplayStarts, ReplayKept, PTL DEF ReplaySpec

\* The caches hold only events and jtis the verifiers were given, at times already reached.
THEOREM ReplayTypeCorrect == ReplaySpec => []ReplayTypeOK
BY ReplayHolds, PTL DEF ReplayInv, Facts

\* Off the git routes a NIP-98 event authorises at most one request, whatever the
\* tolerance and whenever the sweep runs.
THEOREM EventsOnce == ReplaySpec => []EventsGrantOnce
BY ReplayHolds, PTL DEF ReplayInv, Facts

\* A DPoP proof authorises at most one request, whatever its maximal age.
THEOREM ProofsOnce == ReplaySpec => []ProofsGrantOnce
BY ReplayHolds, PTL DEF ReplayInv, Facts

\* Only a request that was authorised uses an event up.
THEOREM SpentByGrants == ReplaySpec => []OnlyGrantsSpend
BY ReplayHolds, PTL DEF ReplayInv, Facts

\* Off the git routes what was authorised is what was signed, whatever query is asked where the
\* event names the bare URL.
THEOREM SignedGrants == ReplaySpec => []GrantedAsSigned
BY ReplayHolds, PTL DEF ReplayInv, Facts

\* Replay is refused, for any events, proofs and requests, whatever the windows.
THEOREM ReplaySafeTheorem == ReplaySpec => []ReplaySafe
<1>1. Facts => ReplaySafe
  BY DEF Facts, ReplaySafe
<1> QED
  BY <1>1, ReplayHolds, PTL DEF ReplayInv
-----------------------------------------------------------------------------
\* A request under way: its fields, and that no ETag or moment in it is of the future.
AskInOrder ==
  /\ DOMAIN ask = Clients
  /\ \A c \in Clients :
       LET r == ask[c] IN
       /\ r.step \in {"look", "do"} =>
            /\ r.x \in Names \cup {TheFolder} /\ r.x \notin Dotfiles
            /\ r.method = "PUT" => r.x # TheFolder
       /\ r.step \in {"do", "items"} => r.tag \in 0 .. time
       /\ r.step = "do" => r.at \in 0 .. time

\* What a client knows is of the past.
KnownInOrder ==
  /\ DOMAIN known = Clients
  /\ \A c \in Clients :
       /\ DOMAIN known[c] = Docs \cup {TheFolder}
       /\ \A x \in Docs \cup {TheFolder} : known[c][x].tag \in 0 .. time

\* A listing that is being made has the names that go with its ETag.
ItemsAsTagged ==
  \A c \in Clients :
    ask[c].step = "items" /\ ask[c].tag # 0 /\ ask[c].tag = folder => DOMAIN ask[c].items = Listed

\* Between the look and the write of a PUT that names a version, the file is that version,
\* gone, or newer than the look.
MatchedSinceLook ==
  \A c \in Clients :
    ask[c].step = "do" /\ ask[c].method = "PUT" /\ ask[c].cond = "match" =>
      files[ask[c].x] \in {0, ask[c].given} \/ files[ask[c].x] > ask[c].at

RemoteInv == /\ RemoteSafe /\ time \in Nat \ {0}
             /\ AskInOrder /\ KnownInOrder /\ ItemsAsTagged /\ MatchedSinceLook

USE RemoteAssumption DEF TheFolder, Names

LEMMA RemoteStarts == RemoteInit => RemoteInv
BY DEF RemoteInit, RemoteInv, RemoteSafe, RemoteTypeOK, TagNamesBody, TagNamesListing,
       LostOnlySinceLook, AskInOrder, KnownInOrder, ItemsAsTagged, MatchedSinceLook, Idle, Unknown

\* What a change of the files may do: new versions are of the new time, and the folder keeps
\* its ETag only if it keeps its names.
Changed ==
  /\ time' = time + 1
  /\ files' \in [Names -> 0 .. time'] /\ folder' \in {0, folder, time'}
  /\ folder' = 0 => \A n \in Names : files'[n] = 0
  /\ \A n \in Names : files'[n] \in {0, files[n], time'}
  /\ folder' = folder /\ folder # 0 => \A n \in Names : files[n] = 0 <=> files'[n] = 0

LEMMA ElsewhereChanges == ASSUME RemoteInv, NEW n \in Names, Elsewhere(n) PROVE Changed
BY DEF Elsewhere, RemoteInv, RemoteSafe, RemoteTypeOK, Changed

LEMMA WriteChanges == ASSUME RemoteInv, NEW n \in Names, Write(n) PROVE Changed
BY DEF Write, RemoteInv, RemoteSafe, RemoteTypeOK, Changed

LEMMA UnlinkChanges == ASSUME RemoteInv, NEW x \in Names \cup {TheFolder}, Unlink(x) PROVE Changed
<1>1. CASE x = TheFolder
  BY <1>1 DEF Unlink, RemoteInv, RemoteSafe, RemoteTypeOK, Changed
<1>2. CASE x \in Names
  BY <1>2 DEF Unlink, RemoteInv, RemoteSafe, RemoteTypeOK, Changed
<1> QED
  BY <1>1, <1>2

\* A change of the files leaves true what clients know and what requests under way rely on.
LEMMA ChangeKeeps ==
  ASSUME RemoteInv, Changed, UNCHANGED known, DOMAIN ask' = Clients,
         NEW c0, \A c \in Clients \ {c0} : ask'[c] = ask[c],
         c0 \in Clients =>
           \/ ask'[c0] = ask[c0]
           \/ ask'[c0].step = "idle"
           \/ /\ ask'[c0].step = "written"
              /\ ask'[c0].cond = "match" =>
                   ask'[c0].over \in {0, ask'[c0].given} \/ ask'[c0].over > ask'[c0].at
  PROVE  RemoteInv'
<1>1. time' = time + 1 /\ time' \in Nat \ {0} /\ time \in Nat
  BY DEF Changed, RemoteInv
<1>2. \A c \in Clients : ask'[c] = ask[c] \/ ask'[c].step \in {"idle", "written"}
  OBVIOUS
<1>3. RemoteTypeOK'
  BY <1>1, <1>2 DEF Changed, RemoteInv, RemoteSafe, RemoteTypeOK
<1>4. TagNamesBody'
  BY <1>1 DEF Changed, RemoteInv, RemoteSafe, RemoteTypeOK, TagNamesBody, KnownInOrder
<1>5. folder' = folder /\ folder # 0 => Listed' = Listed
  BY DEF Changed, Listed
<1>6. TagNamesListing'
  BY <1>1, <1>5 DEF Changed, RemoteInv, RemoteSafe, RemoteTypeOK, TagNamesListing, KnownInOrder
<1>7. LostOnlySinceLook'
  BY <1>2 DEF RemoteInv, RemoteSafe, LostOnlySinceLook
<1>8. AskInOrder' /\ KnownInOrder'
  <2>1. AskInOrder'
    <3> SUFFICES ASSUME NEW c \in Clients, ask'[c] = ask[c]
                 PROVE  LET r == ask[c] IN
                        /\ r.step \in {"look", "do"} =>
                             /\ r.x \in Names \cup {TheFolder} /\ r.x \notin Dotfiles
                             /\ r.method = "PUT" => r.x # TheFolder
                        /\ r.step \in {"do", "items"} => r.tag \in 0 .. time'
                        /\ r.step = "do" => r.at \in 0 .. time'
                       BY <1>2 DEF AskInOrder
    <3> QED
      BY <1>1 DEF RemoteInv, AskInOrder
  <2>2. KnownInOrder'
    BY <1>1 DEF RemoteInv, KnownInOrder
  <2> QED
    BY <2>1, <2>2
<1>9. ItemsAsTagged'
  BY <1>1, <1>2, <1>5 DEF Changed, RemoteInv, ItemsAsTagged, AskInOrder
<1>10. MatchedSinceLook'
  <2> SUFFICES ASSUME NEW c \in Clients, ask'[c] = ask[c], ask[c].step = "do",
                      ask[c].method = "PUT", ask[c].cond = "match"
               PROVE  files'[ask[c].x] \in {0, ask[c].given} \/ files'[ask[c].x] > ask[c].at
    BY <1>2 DEF MatchedSinceLook
  <2>1. ask[c].x \in Names /\ ask[c].at \in 0 .. time
    BY DEF RemoteInv, AskInOrder
  <2>2. files[ask[c].x] \in {0, ask[c].given} \/ files[ask[c].x] > ask[c].at
    BY DEF RemoteInv, MatchedSinceLook
  <2> QED
    BY <1>1, <2>1, <2>2 DEF Changed
<1> QED
  BY <1>1, <1>3, <1>4, <1>6, <1>7, <1>8, <1>9, <1>10 DEF RemoteInv, RemoteSafe

LEMMA ElsewhereStep == ASSUME RemoteInv, NEW n \in Names, Elsewhere(n) PROVE RemoteInv'
<1>1. UNCHANGED <<ask, known>>
  BY DEF Elsewhere
<1>2. \A c \in Clients : ask'[c] = ask[c]
  BY <1>1
<1>3. DOMAIN ask' = Clients
  BY <1>1 DEF RemoteInv, AskInOrder
<1> QED
  BY <1>1, <1>2, <1>3, ElsewhereChanges, ChangeKeeps

LEMMA PutStep == ASSUME RemoteInv, NEW c \in Clients, PutFile(c) PROVE RemoteInv'
<1>1. /\ ask[c].step = "do" /\ ask[c].method = "PUT" /\ Write(ask[c].x) /\ UNCHANGED known
      /\ ask' = [ask EXCEPT ![c] = [step |-> "written", x |-> ask[c].x, cond |-> ask[c].cond,
                                    given |-> ask[c].given, at |-> ask[c].at, over |-> files[ask[c].x]]]
  BY DEF PutFile
<1>2. ask[c].x \in Names
  BY <1>1 DEF RemoteInv, AskInOrder
<1>3. ask[c].cond = "match" => files[ask[c].x] \in {0, ask[c].given} \/ files[ask[c].x] > ask[c].at
  BY <1>1 DEF RemoteInv, MatchedSinceLook
<1>4. DOMAIN ask' = Clients /\ \A d \in Clients \ {c} : ask'[d] = ask[d]
  BY <1>1 DEF RemoteInv, AskInOrder
<1>5. /\ ask'[c].step = "written" /\ ask'[c].cond = ask[c].cond /\ ask'[c].given = ask[c].given
      /\ ask'[c].at = ask[c].at /\ ask'[c].over = files[ask[c].x]
  BY <1>1 DEF RemoteInv, AskInOrder
<1> QED
  BY <1>1, <1>2, <1>3, <1>4, <1>5, WriteChanges, ChangeKeeps

LEMMA DeleteStep == ASSUME RemoteInv, NEW c \in Clients, DeleteIt(c) PROVE RemoteInv'
<1>1. /\ ask[c].step = "do" /\ Unlink(ask[c].x) /\ UNCHANGED known
      /\ ask' = [ask EXCEPT ![c] = Idle]
  BY DEF DeleteIt, Respond
<1>2. ask[c].x \in Names \cup {TheFolder}
  BY <1>1 DEF RemoteInv, AskInOrder
<1>3. /\ DOMAIN ask' = Clients /\ \A d \in Clients \ {c} : ask'[d] = ask[d]
      /\ ask'[c].step = "idle"
  BY <1>1 DEF RemoteInv, AskInOrder, Idle
<1> QED
  BY <1>1, <1>2, <1>3, UnlinkChanges, ChangeKeeps

\* A request arrives, and one that looks goes on or is answered.
LEMMA LookStep ==
  ASSUME RemoteInv, NEW c \in Clients, UNCHANGED <<files, folder, time, known>>,
         \/ \E method \in {"GET", "PUT", "DELETE"}, x \in Names \cup {TheFolder},
              cond \in {"none", "match", "any", "changed", "absent"} :
                \E given \in {0} \cup TagsKnown(c, x) : Request(c, method, x, cond, given)
         \/ StatAndCheck(c) \/ Written(c)
  PROVE  RemoteInv'
<1>1. TagNamesBody' /\ TagNamesListing' /\ KnownInOrder' /\ time' \in Nat \ {0}
  BY DEF RemoteInv, RemoteSafe, TagNamesBody, TagNamesListing, Listed, KnownInOrder
<1>2. ASSUME NEW r, ask' = [ask EXCEPT ![c] = r], r.step \in {"idle", "look"},
             r.step = "look" => /\ r.x \in Names \cup {TheFolder} /\ r.x \notin Dotfiles
                                /\ r.method = "PUT" => r.x # TheFolder
      PROVE  RemoteInv'
  <2>1. /\ DOMAIN ask' = Clients /\ ask'[c] = r
        /\ \A d \in Clients \ {c} : ask'[d] = ask[d]
    BY <1>2 DEF RemoteInv, AskInOrder
  <2>2. RemoteTypeOK' /\ LostOnlySinceLook' /\ ItemsAsTagged' /\ MatchedSinceLook'
    BY <1>2, <2>1 DEF RemoteInv, RemoteSafe, RemoteTypeOK, LostOnlySinceLook, ItemsAsTagged,
                      MatchedSinceLook, Listed
  <2>3. AskInOrder'
    BY <1>2, <2>1 DEF RemoteInv, AskInOrder
  <2> QED
    BY <1>1, <2>2, <2>3 DEF RemoteInv, RemoteSafe
<1>3. CASE Written(c)
  BY <1>2, <1>3 DEF Written, Respond, Idle
<1>4. ASSUME NEW method, NEW x \in Names \cup {TheFolder}, NEW cond, NEW given,
             Request(c, method, x, cond, given)
      PROVE  RemoteInv'
  <2> DEFINE r == [step |-> "look", method |-> method, x |-> x, cond |-> cond, given |-> given]
  <2>1. CASE TurnedAway(c, method, x)
    <3>1. UNCHANGED ask
      BY <1>4, <2>1 DEF Request
    <3> QED
      BY <1>1, <3>1 DEF RemoteInv, RemoteSafe, RemoteTypeOK, LostOnlySinceLook, ItemsAsTagged,
                        MatchedSinceLook, AskInOrder, Listed
  <2>2. CASE ~ TurnedAway(c, method, x)
    <3>1. ask' = [ask EXCEPT ![c] = r]
      BY <1>4, <2>2 DEF Request
    <3>2. x \notin Dotfiles /\ (method = "PUT" => x # TheFolder)
      BY <2>2 DEF TurnedAway
    <3> QED
      BY <1>2, <3>1, <3>2
  <2> QED
    BY <2>1, <2>2
<1>5. CASE StatAndCheck(c)
  <2> DEFINE q == ask[c]
             tag == TagOf(q.x)
             r == [step |-> "do", method |-> q.method, x |-> q.x, cond |-> q.cond,
                   given |-> q.given, tag |-> tag, at |-> time]
  <2>1. /\ q.x \in Names \cup {TheFolder} /\ q.x \notin Dotfiles
        /\ q.method = "PUT" => q.x # TheFolder
    BY <1>5 DEF StatAndCheck, RemoteInv, AskInOrder
  <2>2. CASE Respond(c)
    BY <1>2, <2>2 DEF Respond, Idle
  <2>3. CASE Passes(q, tag) /\ ask' = [ask EXCEPT ![c] = r]
    <3>1. /\ DOMAIN ask' = Clients /\ ask'[c] = r
          /\ \A d \in Clients \ {c} : ask'[d] = ask[d]
      BY <2>3 DEF RemoteInv, AskInOrder
    <3>2. tag \in 0 .. time
      BY <2>1 DEF TagOf, RemoteInv, RemoteSafe, RemoteTypeOK
    <3>3. q.method = "PUT" /\ q.cond = "match" => files[q.x] = q.given
      BY <2>1, <2>3 DEF Passes, TagOf
    <3>4. RemoteTypeOK' /\ LostOnlySinceLook' /\ ItemsAsTagged'
      BY <3>1 DEF RemoteInv, RemoteSafe, RemoteTypeOK, LostOnlySinceLook, ItemsAsTagged, Listed
    <3>5. MatchedSinceLook'
      BY <3>1, <3>3 DEF RemoteInv, MatchedSinceLook
    <3>6. AskInOrder'
      BY <1>1, <2>1, <3>1, <3>2 DEF RemoteInv, AskInOrder
    <3> QED
      BY <1>1, <3>4, <3>5, <3>6 DEF RemoteInv, RemoteSafe
  <2> QED
    BY <1>5, <2>2, <2>3 DEF StatAndCheck
<1> QED
  BY <1>3, <1>4, <1>5

\* A document or a listing is read under the ETag of the look, and the client learns it.
LEMMA ReadStep ==
  ASSUME RemoteInv, NEW c \in Clients, Stream(c) \/ List(c) \/ Item(c) \/ SendItems(c)
  PROVE  RemoteInv'
<1>1. UNCHANGED <<files, folder, time>> /\ time' \in Nat \ {0} /\ Listed' = Listed
  BY DEF Stream, List, Item, SendItems, RemoteInv, Listed
<1>2. ASSUME NEW r, ask' = [ask EXCEPT ![c] = r],
             \/ r.step = "idle"
             \/ /\ r.step = "items"
                /\ r.tag \in 0 .. time
                /\ r.tag # 0 /\ r.tag = folder => DOMAIN r.items = Listed
      PROVE  /\ RemoteTypeOK' /\ LostOnlySinceLook' /\ ItemsAsTagged' /\ MatchedSinceLook'
             /\ AskInOrder'
  <2>1. /\ DOMAIN ask' = Clients /\ ask'[c] = r
        /\ \A d \in Clients \ {c} : ask'[d] = ask[d]
        /\ r.step \in {"idle", "items"}
    BY <1>2 DEF RemoteInv, AskInOrder
  <2>2. RemoteTypeOK' /\ LostOnlySinceLook' /\ MatchedSinceLook'
    BY <1>1, <2>1 DEF RemoteInv, RemoteSafe, RemoteTypeOK, LostOnlySinceLook, MatchedSinceLook
  <2>3. ItemsAsTagged'
    BY <1>1, <1>2, <2>1 DEF RemoteInv, ItemsAsTagged
  <2>4. AskInOrder'
    BY <1>1, <1>2, <2>1 DEF RemoteInv, AskInOrder
  <2> QED
    BY <2>2, <2>3, <2>4
<1>3. ASSUME UNCHANGED known PROVE TagNamesBody' /\ TagNamesListing' /\ KnownInOrder'
  BY <1>1, <1>3 DEF RemoteInv, RemoteSafe, TagNamesBody, TagNamesListing, KnownInOrder
<1>4. ASSUME NEW x \in Docs \cup {TheFolder}, NEW k, known' = [known EXCEPT ![c][x] = k],
             k.tag \in 0 .. time,
             x \in Docs => k.body = files[x],
             x = TheFolder /\ k.tag # 0 /\ k.tag = folder => DOMAIN k.body = Listed
      PROVE  TagNamesBody' /\ TagNamesListing' /\ KnownInOrder'
  <2>1. /\ DOMAIN known' = Clients /\ known'[c][x] = k
        /\ \A d \in Clients : DOMAIN known'[d] = Docs \cup {TheFolder}
        /\ \A d \in Clients, y \in Docs \cup {TheFolder} :
             d # c \/ y # x => known'[d][y] = known[d][y]
    BY <1>4 DEF RemoteInv, KnownInOrder
  <2>2. TagNamesBody'
    BY <1>1, <1>4, <2>1 DEF RemoteInv, RemoteSafe, TagNamesBody
  <2>3. TagNamesListing'
    BY <1>1, <1>4, <2>1 DEF RemoteInv, RemoteSafe, TagNamesListing
  <2>4. KnownInOrder'
    BY <1>1, <1>4, <2>1 DEF RemoteInv, KnownInOrder
  <2> QED
    BY <2>2, <2>3, <2>4
<1>5. CASE Stream(c)
  <2>1. ask[c].step = "do" /\ ask[c].x \in Docs /\ ask[c].tag \in 0 .. time
    BY <1>5 DEF Stream, RemoteInv, AskInOrder
  <2>2. /\ ask' = [ask EXCEPT ![c] = Idle]
        /\ \/ UNCHANGED known
           \/ known' = [known EXCEPT ![c][ask[c].x] = [tag |-> ask[c].tag, body |-> files[ask[c].x]]]
    BY <1>5 DEF Stream, Respond
  <2>3. TagNamesBody' /\ TagNamesListing' /\ KnownInOrder'
    BY <1>3, <1>4, <2>1, <2>2
  <2> QED
    BY <1>1, <1>2, <2>2, <2>3 DEF RemoteInv, RemoteSafe, Idle
<1>6. CASE List(c)
  <2> DEFINE r == [step |-> "items", tag |-> ask[c].tag, left |-> Listed, items |-> [n \in Listed |-> 0]]
  <2>1. ask[c].tag \in 0 .. time /\ ask' = [ask EXCEPT ![c] = r] /\ UNCHANGED known
    BY <1>6 DEF List, RemoteInv, AskInOrder
  <2> QED
    BY <1>1, <1>2, <1>3, <2>1 DEF RemoteInv, RemoteSafe
<1>7. CASE Item(c)
  <2>1. PICK n \in ask[c].left :
          /\ ask' = [ask EXCEPT ![c] = [step |-> "items", tag |-> ask[c].tag, left |-> ask[c].left \ {n},
                                        items |-> [ask[c].items EXCEPT ![n] = files[n]]]]
          /\ ask[c].step = "items" /\ UNCHANGED known
    BY <1>7 DEF Item
  <2> DEFINE q == ask[c]
             r == [step |-> "items", tag |-> q.tag, left |-> q.left \ {n},
                   items |-> [q.items EXCEPT ![n] = files[n]]]
  <2>2. /\ q.tag \in 0 .. time
        /\ q.tag # 0 /\ q.tag = folder => DOMAIN q.items = Listed
    BY <2>1 DEF RemoteInv, AskInOrder, ItemsAsTagged
  <2>3. DOMAIN r.items = DOMAIN q.items /\ ask' = [ask EXCEPT ![c] = r]
    BY <2>1
  <2> QED
    BY <1>1, <1>2, <1>3, <2>1, <2>2, <2>3 DEF RemoteInv, RemoteSafe
<1>8. CASE SendItems(c)
  <2>1. /\ ask[c].step = "items" /\ ask' = [ask EXCEPT ![c] = Idle]
        /\ known' = [known EXCEPT ![c][TheFolder] = [tag |-> ask[c].tag, body |-> ask[c].items]]
    BY <1>8 DEF SendItems, Respond
  <2>2. /\ ask[c].tag \in 0 .. time
        /\ ask[c].tag # 0 /\ ask[c].tag = folder => DOMAIN ask[c].items = Listed
    BY <2>1 DEF RemoteInv, AskInOrder, ItemsAsTagged
  <2> DEFINE k == [tag |-> ask[c].tag, body |-> ask[c].items]
  <2>3. /\ known' = [known EXCEPT ![c][TheFolder] = k] /\ k.tag \in 0 .. time
        /\ TheFolder \notin Docs
        /\ k.tag # 0 /\ k.tag = folder => DOMAIN k.body = Listed
    BY <2>1, <2>2
  <2> HIDE DEF k
  <2>4. TagNamesBody' /\ TagNamesListing' /\ KnownInOrder'
    BY <1>4, <2>3
  <2> QED
    BY <1>1, <1>2, <2>1, <2>4 DEF RemoteInv, RemoteSafe, Idle
<1> QED
  BY <1>5, <1>6, <1>7, <1>8

LEMMA RemoteStep == RemoteInv /\ [RemoteNext]_remoteVars => RemoteInv'
<1> SUFFICES ASSUME RemoteInv, [RemoteNext]_remoteVars PROVE RemoteInv'
  OBVIOUS
<1>1. CASE RemoteNext
  <2>1. ASSUME NEW n \in Names, Elsewhere(n) PROVE RemoteInv'
    BY <2>1, ElsewhereStep
  <2>2. ASSUME NEW c \in Clients, NEW method \in {"GET", "PUT", "DELETE"},
               NEW x \in Names \cup {TheFolder}, NEW cond \in {"none", "match", "any", "changed", "absent"},
               NEW given \in {0} \cup TagsKnown(c, x), Request(c, method, x, cond, given)
        PROVE  RemoteInv'
    <3>1. UNCHANGED <<files, folder, time, known>>
      BY <2>2 DEF Request
    <3> QED
      BY <2>2, <3>1, LookStep
  <2>3. ASSUME NEW c \in Clients, StatAndCheck(c) \/ Written(c) PROVE RemoteInv'
    <3>1. UNCHANGED <<files, folder, time, known>>
      BY <2>3 DEF StatAndCheck, Written
    <3> QED
      BY <2>3, <3>1, LookStep
  <2>4. ASSUME NEW c \in Clients, Stream(c) \/ List(c) \/ Item(c) \/ SendItems(c) PROVE RemoteInv'
    BY <2>4, ReadStep
  <2>5. ASSUME NEW c \in Clients, PutFile(c) \/ DeleteIt(c) PROVE RemoteInv'
    BY <2>5, PutStep, DeleteStep
  <2> QED
    BY <1>1, <2>1, <2>2, <2>3, <2>4, <2>5 DEF RemoteNext
<1>2. CASE UNCHANGED remoteVars
  BY <1>2 DEF remoteVars, RemoteInv, RemoteSafe, RemoteTypeOK, TagNamesBody, TagNamesListing, Listed,
              LostOnlySinceLook, AskInOrder, KnownInOrder, ItemsAsTagged, MatchedSinceLook
<1> QED
  BY <1>1, <1>2

\* A client can rely on the ETags it was given for documents and listings, and what a write
\* with If-Match loses was written after its handler looked: for any number of clients and
\* documents, without a lock (src/remotestorage.js).
THEOREM RemoteSafeTheorem == RemoteSpec => []RemoteSafe
<1>1. RemoteInv => RemoteSafe
  BY DEF RemoteInv
<1> QED
  BY RemoteStarts, RemoteStep, <1>1, PTL DEF RemoteSpec
-----------------------------------------------------------------------------
(* Resolver. *)

Steps == {"idle", "rebuild", "lookup", "doc", "backlink", "answered"}

\* What the records hold.
ResolverShape ==
  /\ hour \in Nat
  /\ fact \in [FactNames -> [holds : BOOLEAN, since : Nat]]
  /\ \A f \in FactNames : fact[f].since <= hour
  /\ index \in [built : Nat, who : Holders \cup {Nobody}]
  /\ rebuild \in [on : BOOLEAN, began : Nat, todo : SUBSET Holders, found : SUBSET Holders]
  /\ didCache \subseteq [webId : {Remote, Nobody}, at : Nat, failure : BOOLEAN]
  /\ seeker \in [Seekers -> [at : Steps, began : Nat, answer : Holders \cup {Remote, Nobody}, when : Nat]]

\* What a scan has read was so when it began or later.
ScanRecent ==
  rebuild.on =>
    /\ rebuild.began <= hour /\ hour <= rebuild.began + MaxWork
    /\ \A h \in Holders :
         /\ h \in rebuild.found => rebuild.began <= LastTrue(h)
         /\ h \notin rebuild.found \cup rebuild.todo => rebuild.began <= LastFalse(h)

\* The index was right during the scan that built it.
IndexRecent ==
  \A h \in Holders : index.who = h =>
    /\ index.built <= LastTrue(h) + MaxWork
    /\ \A o \in Holders \ {h} : index.built <= LastFalse(o) + MaxWork

Links == {"linked", "backlink"}

\* A cached resolution was right while it was fetched.
CacheRecent ==
  \A e \in didCache :
    /\ e.webId = Remote => ~e.failure /\ \A f \in Links : e.at <= LastTrue(f) + MaxWork
    /\ e.webId = Nobody /\ e.failure => e.at <= LastFalse("up")
    /\ e.webId = Nobody /\ ~e.failure => \E f \in Links : e.at <= LastFalse(f)

SeekersInTime ==
  \A s \in Seekers :
    /\ seeker[s].at = "lookup" => hour <= index.built + IndexTtl
    /\ seeker[s].at \in {"doc", "backlink"} =>
         seeker[s].began <= hour /\ hour <= seeker[s].began + MaxWork
    /\ seeker[s].at = "backlink" => seeker[s].began <= LastTrue("linked")

\* The answer of one seeker, as the three properties ask of it.
SeekerInTime(s) ==
  /\ \A h \in Holders : Told(s, h) =>
       /\ seeker[s].when <= LastTrue(h) + IndexTtl + MaxWork
       /\ \A o \in Holders \ {h} : seeker[s].when <= LastFalse(o) + IndexTtl + MaxWork
  /\ Told(s, Remote) => \A f \in Links : seeker[s].when < LastTrue(f) + DidTtl + MaxWork
  /\ Told(s, Nobody) =>
       \/ \E f \in Links : seeker[s].when < LastFalse(f) + DidTtl + MaxWork
       \/ seeker[s].when < LastFalse("up") + DidFailureTtl + MaxWork

ToldInTime == \A s \in Seekers : SeekerInTime(s)

ResolverInv ==
  /\ ResolverShape /\ ResolverTypeOK
  /\ ScanRecent /\ IndexRecent /\ CacheRecent /\ SeekersInTime /\ ToldInTime

HIDE DEF TheFolder, Names
USE ResolverAssumption

\* The two last times are of the past, and the later of them is now.
LEMMA LastTimes ==
  ASSUME ResolverShape
  PROVE  \A f \in FactNames :
           /\ LastTrue(f) \in Nat /\ LastTrue(f) <= hour
           /\ LastFalse(f) \in Nat /\ LastFalse(f) <= hour
           /\ Holds(f) => LastTrue(f) = hour
           /\ ~Holds(f) => LastFalse(f) = hour
BY DEF ResolverShape, LastTrue, LastFalse, Holds

\* They only grow.
Onward ==
  /\ hour' >= hour
  /\ \A f \in FactNames : LastTrue(f)' >= LastTrue(f) /\ LastFalse(f)' >= LastFalse(f)

LEMMA StillOnward ==
  ASSUME ResolverShape, UNCHANGED <<hour, fact>>
  PROVE  Onward
BY DEF ResolverShape, Onward, LastTrue, LastFalse, Holds

LEMMA TheFacts == Holders \subseteq FactNames /\ Links \subseteq FactNames /\ "up" \in FactNames
BY DEF FactNames, Links

\* An answer given stays recent.
LEMMA AnswersKept ==
  ASSUME ResolverInv, ResolverShape', Onward, NEW s \in Seekers, seeker'[s] = seeker[s]
  PROVE  SeekerInTime(s)'
<1>1. \A f \in FactNames : /\ LastTrue(f) \in Nat /\ LastFalse(f) \in Nat
                           /\ LastTrue(f)' \in Nat /\ LastFalse(f)' \in Nat
  BY DEF ResolverInv, ResolverShape, LastTrue, LastFalse, Holds
<1>2. seeker[s].when \in Nat /\ SeekerInTime(s)
  BY DEF ResolverInv, ResolverShape, ToldInTime
<1>3. \A w : Told(s, w)' <=> Told(s, w)
  BY DEF Told
<1>4. \A h \in Holders : Told(s, h)' =>
        /\ seeker'[s].when <= LastTrue(h)' + IndexTtl + MaxWork
        /\ \A o \in Holders \ {h} : seeker'[s].when <= LastFalse(o)' + IndexTtl + MaxWork
  BY <1>1, <1>2, <1>3, TheFacts DEF SeekerInTime, Onward
<1>5. Told(s, Remote)' => \A f \in Links : seeker'[s].when < LastTrue(f)' + DidTtl + MaxWork
  BY <1>1, <1>2, <1>3, TheFacts DEF SeekerInTime, Onward
<1>6. Told(s, Nobody)' =>
        \/ \E f \in Links : seeker'[s].when < LastFalse(f)' + DidTtl + MaxWork
        \/ seeker'[s].when < LastFalse("up")' + DidFailureTtl + MaxWork
  BY <1>1, <1>2, <1>3, TheFacts DEF SeekerInTime, Onward
<1> QED
  BY <1>4, <1>5, <1>6 DEF SeekerInTime

\* What is recent of the index, the scan and the cache is so until they are set anew.
LEMMA RecentKept ==
  ASSUME ResolverInv, ResolverShape', Onward
  PROVE  /\ index' = index => IndexRecent'
         /\ didCache' = didCache => CacheRecent'
         /\ rebuild' = rebuild /\ hour' = hour => ScanRecent'
<1>1. \A f \in FactNames : /\ LastTrue(f) \in Nat /\ LastFalse(f) \in Nat
                           /\ LastTrue(f)' \in Nat /\ LastFalse(f)' \in Nat
  BY DEF ResolverInv, ResolverShape, LastTrue, LastFalse, Holds
<1>2. index.built \in Nat /\ rebuild.began \in Nat /\ \A e \in didCache : e.at \in Nat
  BY DEF ResolverInv, ResolverShape
<1>3. index' = index => IndexRecent'
  BY <1>1, <1>2, TheFacts DEF ResolverInv, IndexRecent, Onward
<1>4. didCache' = didCache => CacheRecent'
  BY <1>1, <1>2, TheFacts DEF ResolverInv, CacheRecent, Onward
<1>5. rebuild' = rebuild /\ hour' = hour => ScanRecent'
  BY <1>1, <1>2, TheFacts DEF ResolverInv, ScanRecent, Onward
<1> QED
  BY <1>3, <1>4, <1>5

\* An answer given now: of the index, of the cache, or of the resolver.
LEMMA AnswersAsCached ==
  ASSUME ResolverInv, ResolverShape', Onward, hour' = hour, NEW s \in Seekers,
         NEW e \in didCache', CacheRecent', DidLives(e)',
         seeker'[s].when = hour', seeker'[s].answer = e.webId
  PROVE  SeekerInTime(s)'
<1>1. \A f \in FactNames : LastTrue(f)' \in Nat /\ LastFalse(f)' \in Nat
  BY DEF ResolverShape, LastTrue, LastFalse, Holds
<1>2. /\ e.at \in Nat /\ hour' \in Nat /\ e.webId \in {Remote, Nobody} /\ e.failure \in BOOLEAN
      /\ hour' < e.at + (IF e.failure THEN DidFailureTtl ELSE DidTtl)
  BY DEF ResolverShape, DidLives
<1>3. CASE e.webId = Remote
  <2>1. ~e.failure /\ \A f \in Links : e.at <= LastTrue(f)' + MaxWork
    BY <1>3 DEF CacheRecent
  <2> QED
    BY <1>1, <1>2, <1>3, <2>1, TheFacts DEF SeekerInTime, Told
<1>4. CASE e.webId = Nobody
  <2>1. e.failure => e.at <= LastFalse("up")'
    BY <1>4 DEF CacheRecent
  <2>2. ~e.failure => \E f \in Links : e.at <= LastFalse(f)'
    BY <1>4 DEF CacheRecent
  <2>3. CASE e.failure
    BY <1>1, <1>2, <1>4, <2>1, <2>3, TheFacts DEF SeekerInTime, Told
  <2>4. CASE ~e.failure
    <3>1. PICK f \in Links : e.at <= LastFalse(f)'
      BY <2>2, <2>4
    <3>2. hour' < LastFalse(f)' + DidTtl + MaxWork
      BY <1>1, <1>2, <2>4, <3>1, TheFacts
    <3> QED
      BY <1>4, <3>2 DEF SeekerInTime, Told
  <2> QED
    BY <2>3, <2>4
<1> QED
  BY <1>2, <1>3, <1>4

\* What the rest of the invariant asks of a step.
LEMMA StartKeeps == ResolverInv /\ (\E s \in Seekers : StartResolve(s)) => ResolverInv'
<1> SUFFICES ASSUME ResolverInv, NEW s \in Seekers, StartResolve(s)
             PROVE  ResolverInv'
  OBVIOUS
<1>1. ResolverShape' /\ Onward
  BY StillOnward DEF StartResolve, ResolverInv, ResolverShape, Steps
<1>2. ResolverTypeOK'
  BY DEF StartResolve, ResolverInv, ResolverShape, ResolverTypeOK
<1>3. IndexRecent' /\ CacheRecent'
  BY <1>1, RecentKept DEF StartResolve
<1>4. ScanRecent'
  <2>1. CASE rebuild' = rebuild
    BY <1>1, <2>1, RecentKept DEF StartResolve
  <2>2. CASE rebuild' # rebuild
    BY <1>1, <2>2 DEF StartResolve, ScanRecent, ResolverInv, ResolverShape
  <2> QED
    BY <2>1, <2>2
<1>5. SeekersInTime'
  BY DEF StartResolve, SeekersInTime, IndexFresh, ResolverInv, ResolverShape, LastTrue, Holds
<1>6. \A o \in Seekers : SeekerInTime(o)'
  <2> SUFFICES ASSUME NEW o \in Seekers
               PROVE  SeekerInTime(o)'
    OBVIOUS
  <2>1. CASE o = s
    BY <2>1 DEF StartResolve, SeekerInTime, Told, ResolverInv, ResolverShape
  <2>2. CASE o # s
    BY <1>1, <2>2, AnswersKept DEF StartResolve, ResolverInv, ResolverShape
  <2> QED
    BY <2>1, <2>2
<1> QED
  BY <1>1, <1>2, <1>3, <1>4, <1>5, <1>6 DEF ResolverInv, ToldInTime

\* A profile read now says what is so now.
LEMMA ReadKeeps == ResolverInv /\ (\E h \in Holders : ReadProfile(h)) => ResolverInv'
<1> SUFFICES ASSUME ResolverInv, NEW h \in Holders, ReadProfile(h)
             PROVE  ResolverInv'
  OBVIOUS
<1>1. ResolverShape' /\ Onward
  BY StillOnward DEF ReadProfile, ResolverInv, ResolverShape
<1>2. ResolverTypeOK'
  BY DEF ReadProfile, ResolverInv, ResolverShape, ResolverTypeOK
<1>3. IndexRecent' /\ CacheRecent'
  BY <1>1, RecentKept DEF ReadProfile
<1>4. ScanRecent'
  <2>1. \A f \in FactNames : LastTrue(f)' = LastTrue(f) /\ LastFalse(f)' = LastFalse(f)
    BY DEF ReadProfile, LastTrue, LastFalse, Holds
  <2>2. /\ rebuild'.began = rebuild.began /\ rebuild'.todo = rebuild.todo \ {h}
        /\ rebuild'.found = IF Holds(h) THEN rebuild.found \cup {h} ELSE rebuild.found
        /\ rebuild'.on /\ rebuild.on /\ hour' = hour
    BY DEF ReadProfile, ResolverInv, ResolverShape
  <2>3. rebuild.began <= hour /\ hour <= rebuild.began + MaxWork
    BY <2>2 DEF ResolverInv, ScanRecent
  <2>4. Holds(h) => LastTrue(h) = hour
    BY LastTimes, TheFacts DEF ResolverInv
  <2>5. ~Holds(h) => LastFalse(h) = hour
    BY LastTimes, TheFacts DEF ResolverInv
  <2> QED
    BY <2>1, <2>2, <2>3, <2>4, <2>5, TheFacts DEF ResolverInv, ScanRecent
<1>5. SeekersInTime' /\ \A o \in Seekers : SeekerInTime(o)'
  BY <1>1, AnswersKept DEF ReadProfile, SeekersInTime, ResolverInv, LastTrue, Holds
<1> QED
  BY <1>1, <1>2, <1>3, <1>4, <1>5 DEF ResolverInv, ToldInTime

LEMMA OwnerIsAlone ==
  ASSUME NEW found \in SUBSET Holders
  PROVE  /\ OwnerAmong(found) \in Holders \cup {Nobody}
         /\ OwnerAmong(found) \in Holders => found = {OwnerAmong(found)}
BY DEF OwnerAmong

\* The scan that ends began at most MaxWork ago, and read every account once.
LEMMA EndKeeps == ResolverInv /\ EndRebuild => ResolverInv'
<1> SUFFICES ASSUME ResolverInv, EndRebuild
             PROVE  ResolverInv'
  OBVIOUS
<1>1. OwnerAmong(rebuild.found) \in Holders \cup {Nobody} /\ rebuild.found \subseteq Holders
  BY OwnerIsAlone DEF ResolverInv, ResolverShape
<1>2. ResolverShape' /\ Onward
  <2>1. Onward
    BY StillOnward DEF EndRebuild, ResolverInv
  <2>2. seeker' \in [Seekers -> [at : Steps, began : Nat, answer : Holders \cup {Remote, Nobody}, when : Nat]]
    <3>1. \A s \in Seekers : seeker[s] \in [at : Steps, began : Nat, answer : Holders \cup {Remote, Nobody}, when : Nat]
      BY DEF ResolverInv, ResolverShape
    <3>2. \A s \in Seekers :
            [seeker[s] EXCEPT !.at = "lookup"] \in [at : Steps, began : Nat, answer : Holders \cup {Remote, Nobody}, when : Nat]
      BY <3>1 DEF Steps
    <3> QED
      BY <3>1, <3>2 DEF EndRebuild
  <2> QED
    BY <1>1, <2>1, <2>2 DEF EndRebuild, NoRebuild, ResolverInv, ResolverShape
<1>3. ResolverTypeOK'
  BY <1>1 DEF EndRebuild, NoRebuild, ResolverInv, ResolverShape, ResolverTypeOK
<1>4. CacheRecent'
  BY <1>2, RecentKept DEF EndRebuild
<1>5. ScanRecent'
  BY DEF EndRebuild, NoRebuild, ScanRecent
<1>6. IndexRecent'
  <2> SUFFICES ASSUME NEW h \in Holders, index'.who = h
               PROVE  /\ index'.built <= LastTrue(h)' + MaxWork
                      /\ \A o \in Holders \ {h} : index'.built <= LastFalse(o)' + MaxWork
    BY DEF IndexRecent
  <2>1. rebuild.found = {h} /\ rebuild.todo = {} /\ rebuild.on /\ index'.built = hour
    BY <1>1, OwnerIsAlone DEF EndRebuild
  <2>2. \A f \in FactNames : LastTrue(f)' = LastTrue(f) /\ LastFalse(f)' = LastFalse(f)
    BY DEF EndRebuild, LastTrue, LastFalse, Holds
  <2>3. \A f \in FactNames : LastTrue(f) \in Nat /\ LastFalse(f) \in Nat
    BY LastTimes DEF ResolverInv
  <2>4. /\ rebuild.began \in Nat /\ hour \in Nat /\ hour <= rebuild.began + MaxWork
        /\ rebuild.began <= LastTrue(h)
        /\ \A o \in Holders \ {h} : rebuild.began <= LastFalse(o)
    BY <2>1 DEF ResolverInv, ResolverShape, ScanRecent
  <2> QED
    BY <2>1, <2>2, <2>3, <2>4, TheFacts
<1>7. SeekersInTime'
  BY DEF EndRebuild, SeekersInTime, ResolverInv, ResolverShape, LastTrue, Holds
<1>8. \A o \in Seekers : SeekerInTime(o)'
  <2> SUFFICES ASSUME NEW o \in Seekers
               PROVE  SeekerInTime(o)'
    OBVIOUS
  <2>1. CASE seeker[o].at = "rebuild"
    BY <2>1 DEF EndRebuild, SeekerInTime, Told, ResolverInv, ResolverShape
  <2>2. CASE seeker[o].at # "rebuild"
    BY <1>2, <2>2, AnswersKept DEF EndRebuild, ResolverInv, ResolverShape
  <2> QED
    BY <2>1, <2>2
<1> QED
  BY <1>2, <1>3, <1>4, <1>5, <1>6, <1>7, <1>8 DEF ResolverInv, ToldInTime

\* An answer of the index is right as far back as the index is old.
LEMMA LookKeeps == ResolverInv /\ (\E s \in Seekers : Look(s)) => ResolverInv'
<1> SUFFICES ASSUME ResolverInv, NEW s \in Seekers, Look(s)
             PROVE  ResolverInv'
  OBVIOUS
<1>1. /\ index \in [built : Nat, who : Holders \cup {Nobody}]
      /\ \A e \in didCache : e.webId \in {Remote, Nobody}
      /\ UNCHANGED <<hour, fact, index, rebuild>> /\ didCache' \subseteq didCache
  BY DEF Look, ResolverInv, ResolverShape
<1>2. ResolverShape' /\ Onward
  <2>1. Onward
    BY <1>1, StillOnward DEF ResolverInv
  <2>2. seeker' \in [Seekers -> [at : Steps, began : Nat, answer : Holders \cup {Remote, Nobody}, when : Nat]]
    BY <1>1 DEF Look, Answer, ResolverInv, ResolverShape, Steps
  <2> QED
    BY <1>1, <2>1, <2>2 DEF ResolverInv, ResolverShape
<1>3. ResolverTypeOK'
  BY <1>1 DEF Look, Answer, Fresh, ResolverInv, ResolverShape, ResolverTypeOK
<1>4. IndexRecent' /\ ScanRecent'
  BY <1>1, <1>2, RecentKept
<1>5. CacheRecent'
  BY <1>1, <1>2, RecentKept DEF CacheRecent, Look
<1>6. SeekersInTime'
  BY DEF Look, Answer, Fresh, SeekersInTime, ResolverInv, ResolverShape, LastTrue, Holds
<1>7. SeekerInTime(s)'
  <2>1. CASE index.who # Nobody
    <3>1. PICK h \in Holders : index.who = h
      BY <1>1, <2>1
    <3>2. seeker'[s].answer = h /\ seeker'[s].when = hour
      BY <1>1, <2>1, <3>1 DEF Look, Answer, ResolverInv, ResolverShape
    <3>3. /\ hour <= index.built + IndexTtl
          /\ index.built <= LastTrue(h) + MaxWork
          /\ \A o \in Holders \ {h} : index.built <= LastFalse(o) + MaxWork
      BY <3>1 DEF Look, ResolverInv, SeekersInTime, IndexRecent
    <3>4. /\ hour \in Nat /\ index.built \in Nat
          /\ \A f \in FactNames : /\ LastTrue(f)' = LastTrue(f) /\ LastFalse(f)' = LastFalse(f)
                                  /\ LastTrue(f) \in Nat /\ LastFalse(f) \in Nat
      BY <1>1, LastTimes DEF ResolverInv, ResolverShape, LastTrue, LastFalse, Holds
    <3>5. hour <= LastTrue(h)' + IndexTtl + MaxWork
      BY <3>3, <3>4, TheFacts
    <3>6. \A o \in Holders \ {h} : hour <= LastFalse(o)' + IndexTtl + MaxWork
      BY <3>3, <3>4, TheFacts
    <3> QED
      BY <3>2, <3>5, <3>6 DEF SeekerInTime, Told
  <2>2. CASE index.who = Nobody /\ \E e \in didCache : DidLives(e)
    <3>1. PICK e \in didCache : Answer(s, e.webId) /\ didCache' = didCache
      BY <2>2 DEF Look
    <3>2. DidLives(e)
      BY <2>2 DEF ResolverInv, ResolverTypeOK
    <3>3. seeker'[s].answer = e.webId /\ seeker'[s].when = hour'
      BY <1>1, <3>1 DEF Answer, Fresh, ResolverInv, ResolverShape
    <3> QED
      BY <1>1, <1>2, <1>5, <3>1, <3>2, <3>3, AnswersAsCached DEF DidLives
  <2>3. CASE index.who = Nobody /\ ~\E e \in didCache : DidLives(e)
    BY <2>3 DEF Look, Fresh, SeekerInTime, Told, ResolverInv, ResolverShape
  <2> QED
    BY <2>1, <2>2, <2>3
<1>8. \A o \in Seekers : SeekerInTime(o)'
  <2>1. ASSUME NEW o \in Seekers, o # s
        PROVE  SeekerInTime(o)'
    <3>1. seeker'[o] = seeker[o]
      BY <2>1 DEF Look, Answer, ResolverInv, ResolverShape
    <3> QED
      BY <1>2, <3>1, AnswersKept
  <2> QED
    BY <1>7, <2>1
<1> QED
  BY <1>2, <1>3, <1>4, <1>5, <1>6, <1>8 DEF ResolverInv, ToldInTime

\* What a resolution caches is what it answers, and was so while it fetched.
LEMMA ResolvedKeeps ==
  ASSUME ResolverInv, NEW s \in Seekers, NEW w \in {Remote, Nobody}, NEW failed \in BOOLEAN,
         Resolved(s, w, failed), UNCHANGED <<hour, fact, index, rebuild, turns>>,
         w = Remote => /\ ~failed /\ \A f \in Links : hour <= LastTrue(f) + MaxWork,
         w = Nobody /\ failed => hour <= LastFalse("up"),
         w = Nobody /\ ~failed => \E f \in Links : hour <= LastFalse(f)
  PROVE  ResolverInv'
<1>1. ResolverShape' /\ Onward
  BY StillOnward DEF Resolved, Answer, Fresh, ResolverInv, ResolverShape, Steps
<1>2. ResolverTypeOK'
  BY DEF Resolved, Answer, Fresh, ResolverInv, ResolverShape, ResolverTypeOK
<1>3. IndexRecent' /\ ScanRecent'
  BY <1>1, RecentKept
<1>4. CacheRecent'
  <2>1. \A f \in FactNames : LastTrue(f)' = LastTrue(f) /\ LastFalse(f)' = LastFalse(f)
    BY DEF LastTrue, LastFalse, Holds
  <2>2. /\ w = Remote => \A f \in Links : hour <= LastTrue(f)' + MaxWork
        /\ w = Nobody /\ failed => hour <= LastFalse("up")'
        /\ w = Nobody /\ ~failed => \E f \in Links : hour <= LastFalse(f)'
    BY <2>1, TheFacts
  <2> QED
    BY <2>2 DEF Resolved, CacheRecent
<1>5. SeekersInTime'
  BY DEF Resolved, Answer, Fresh, SeekersInTime, ResolverInv, ResolverShape, LastTrue, Holds
<1>6. SeekerInTime(s)'
  <2>1. PICK e \in didCache' : e = [webId |-> w, at |-> hour, failure |-> failed]
    BY DEF Resolved
  <2>2. seeker'[s].answer = e.webId /\ seeker'[s].when = hour'
    BY <2>1 DEF Resolved, Answer, ResolverInv, ResolverShape
  <2>3. DidLives(e)'
    BY <2>1 DEF DidLives, ResolverInv, ResolverShape
  <2> QED
    BY <1>1, <1>4, <2>2, <2>3, AnswersAsCached
<1>7. \A o \in Seekers : SeekerInTime(o)'
  <2>1. ASSUME NEW o \in Seekers, o # s
        PROVE  SeekerInTime(o)'
    <3>1. seeker'[o] = seeker[o]
      BY <2>1 DEF Resolved, Answer, ResolverInv, ResolverShape
    <3> QED
      BY <1>1, <3>1, AnswersKept
  <2> QED
    BY <1>6, <2>1
<1> QED
  BY <1>1, <1>2, <1>3, <1>4, <1>5, <1>7 DEF ResolverInv, ToldInTime

LEMMA FetchKeeps == ResolverInv /\ (\E s \in Seekers : FetchDidDoc(s)) => ResolverInv'
<1> SUFFICES ASSUME ResolverInv, NEW s \in Seekers, FetchDidDoc(s)
             PROVE  ResolverInv'
  OBVIOUS
<1>1. \A f \in FactNames : /\ Holds(f) => LastTrue(f) = hour
                           /\ ~Holds(f) => LastFalse(f) = hour
  BY LastTimes DEF ResolverInv
<1>2. hour \in Nat /\ UNCHANGED <<hour, fact, index, rebuild, turns>>
  BY DEF FetchDidDoc, ResolverInv, ResolverShape
<1>3. CASE ~Holds("up") /\ Resolved(s, Nobody, TRUE)
  <2>1. hour <= LastFalse("up")
    BY <1>1, <1>2, <1>3, TheFacts
  <2> QED
    BY <1>2, <1>3, <2>1, ResolvedKeeps
<1>4. CASE ~Holds("linked") /\ Resolved(s, Nobody, FALSE)
  <2>1. \E f \in Links : hour <= LastFalse(f)
    BY <1>1, <1>2, <1>4, TheFacts DEF Links
  <2> QED
    BY <1>2, <1>4, <2>1, ResolvedKeeps
<1>5. CASE /\ Holds("linked") /\ didCache' = didCache
           /\ seeker' = [seeker EXCEPT ![s].at = "backlink"]
  <2>1. ResolverShape' /\ Onward
    BY <1>2, <1>5, StillOnward DEF ResolverInv, ResolverShape, Steps
  <2>2. ResolverTypeOK'
    BY <1>2, <1>5 DEF ResolverInv, ResolverShape, ResolverTypeOK
  <2>3. IndexRecent' /\ ScanRecent' /\ CacheRecent'
    BY <1>2, <1>5, <2>1, RecentKept
  <2>4. SeekersInTime'
    <3>1. LastTrue("linked")' = hour /\ seeker[s].at = "doc"
      BY <1>2, <1>5 DEF LastTrue, Holds, FetchDidDoc
    <3>2. \A o \in Seekers \ {s} : seeker'[o] = seeker[o]
      BY <1>5
    <3>3. seeker'[s].at = "backlink" /\ seeker'[s].began = seeker[s].began
      BY <1>5 DEF ResolverInv, ResolverShape
    <3>4. LastTrue("linked")' = LastTrue("linked")
      BY <1>2 DEF LastTrue, Holds
    <3> QED
      BY <1>2, <3>1, <3>2, <3>3, <3>4 DEF SeekersInTime, ResolverInv
  <2>5. \A o \in Seekers : SeekerInTime(o)'
    <3>1. SeekerInTime(s)'
      BY <1>5 DEF SeekerInTime, Told, ResolverInv, ResolverShape
    <3>2. ASSUME NEW o \in Seekers, o # s
          PROVE  SeekerInTime(o)'
      BY <1>5, <2>1, <3>2, AnswersKept DEF ResolverInv, ResolverShape
    <3> QED
      BY <3>1, <3>2
  <2> QED
    BY <2>1, <2>2, <2>3, <2>4, <2>5 DEF ResolverInv, ToldInTime
<1> QED
  BY <1>3, <1>4, <1>5 DEF FetchDidDoc

LEMMA BacklinkKeeps == ResolverInv /\ (\E s \in Seekers : VerifyBacklink(s)) => ResolverInv'
<1> SUFFICES ASSUME ResolverInv, NEW s \in Seekers, VerifyBacklink(s)
             PROVE  ResolverInv'
  OBVIOUS
<1>1. \A f \in FactNames : /\ Holds(f) => LastTrue(f) = hour
                           /\ ~Holds(f) => LastFalse(f) = hour
                           /\ LastTrue(f) \in Nat
  BY LastTimes DEF ResolverInv
<1>2. /\ hour \in Nat /\ UNCHANGED <<hour, fact, index, rebuild, turns>>
      /\ Resolved(s, IF Holds("up") /\ Holds("backlink") THEN Remote ELSE Nobody, ~Holds("up"))
  BY DEF VerifyBacklink, Backlink, ResolverInv, ResolverShape
<1>3. CASE ~Holds("up")
  <2>1. Resolved(s, Nobody, TRUE)
    BY <1>2, <1>3
  <2>2. hour <= LastFalse("up")
    BY <1>1, <1>2, <1>3, TheFacts
  <2> QED
    BY <1>2, <2>1, <2>2, ResolvedKeeps
<1>4. CASE Holds("up") /\ ~Holds("backlink")
  <2>1. Resolved(s, Nobody, FALSE)
    BY <1>2, <1>4
  <2>2. \E f \in Links : hour <= LastFalse(f)
    BY <1>1, <1>2, <1>4, TheFacts DEF Links
  <2> QED
    BY <1>2, <2>1, <2>2, ResolvedKeeps
<1>5. CASE Holds("up") /\ Holds("backlink")
  <2>1. Resolved(s, Remote, FALSE)
    BY <1>2, <1>5
  <2>2. hour <= LastTrue("linked") + MaxWork
    <3>1. /\ seeker[s].began \in Nat /\ hour <= seeker[s].began + MaxWork
          /\ seeker[s].began <= LastTrue("linked")
      BY DEF VerifyBacklink, ResolverInv, ResolverShape, SeekersInTime
    <3> QED
      BY <1>1, <1>2, <3>1, TheFacts DEF Links
  <2>3. \A f \in Links : hour <= LastTrue(f) + MaxWork
    BY <1>1, <1>2, <1>5, <2>2, TheFacts DEF Links
  <2> QED
    BY <1>2, <2>1, <2>3, ResolvedKeeps
<1> QED
  BY <1>3, <1>4, <1>5

LEMMA GoOnKeeps == ResolverInv /\ (\E s \in Seekers : GoOn(s)) => ResolverInv'
<1> SUFFICES ASSUME ResolverInv, NEW s \in Seekers, GoOn(s)
             PROVE  ResolverInv'
  OBVIOUS
<1>1. ResolverShape' /\ Onward
  BY StillOnward DEF GoOn, Fresh, ResolverInv, ResolverShape, Steps
<1>2. ResolverTypeOK'
  BY DEF GoOn, Fresh, ResolverInv, ResolverShape, ResolverTypeOK
<1>3. IndexRecent' /\ ScanRecent' /\ CacheRecent'
  BY <1>1, RecentKept DEF GoOn
<1>4. SeekersInTime'
  BY DEF GoOn, Fresh, SeekersInTime, ResolverInv, ResolverShape, LastTrue, Holds
<1>5. SeekerInTime(s)'
  BY DEF GoOn, Fresh, SeekerInTime, Told, ResolverInv, ResolverShape
<1>6. \A o \in Seekers : SeekerInTime(o)'
  <2>1. ASSUME NEW o \in Seekers, o # s
        PROVE  SeekerInTime(o)'
    BY <1>1, <2>1, AnswersKept DEF GoOn, ResolverInv, ResolverShape
  <2> QED
    BY <1>5, <2>1
<1> QED
  BY <1>1, <1>2, <1>3, <1>4, <1>6 DEF ResolverInv, ToldInTime

LEMMA TurnKeeps == ResolverInv /\ (\E f \in FactNames : Turn(f)) => ResolverInv'
<1> SUFFICES ASSUME ResolverInv, NEW f \in FactNames, Turn(f)
             PROVE  ResolverInv'
  OBVIOUS
<1>1. ResolverShape' /\ Onward
  BY DEF Turn, ResolverInv, ResolverShape, Onward, LastTrue, LastFalse, Holds
<1>2. ResolverTypeOK'
  BY DEF Turn, ResolverInv, ResolverTypeOK
<1>3. IndexRecent' /\ ScanRecent' /\ CacheRecent'
  BY <1>1, RecentKept DEF Turn
<1>4. SeekersInTime'
  <2>1. /\ LastTrue("linked") \in Nat /\ LastTrue("linked")' \in Nat
        /\ LastTrue("linked")' >= LastTrue("linked")
    BY <1>1, TheFacts DEF Onward, Links, ResolverInv, ResolverShape, LastTrue, Holds
  <2>2. \A s \in Seekers : seeker[s].began \in Nat
    BY DEF ResolverInv, ResolverShape
  <2> QED
    BY <2>1, <2>2 DEF Turn, SeekersInTime, ResolverInv
<1>5. \A o \in Seekers : SeekerInTime(o)'
  BY <1>1, AnswersKept DEF Turn
<1> QED
  BY <1>1, <1>2, <1>3, <1>4, <1>5 DEF ResolverInv, ToldInTime

LEMMA PassKeeps == ResolverInv /\ Pass => ResolverInv'
<1> SUFFICES ASSUME ResolverInv, Pass
             PROVE  ResolverInv'
  OBVIOUS
<1>1. ResolverShape' /\ Onward
  BY DEF Pass, ResolverInv, ResolverShape, Onward, LastTrue, LastFalse, Holds
<1>2. ResolverTypeOK'
  BY DEF Pass, ResolverInv, ResolverShape, ResolverTypeOK, FirstHour
<1>3. IndexRecent' /\ CacheRecent'
  BY <1>1, RecentKept DEF Pass
<1>4. /\ hour \in Nat /\ hour' = hour + 1 /\ UNCHANGED <<fact, index, rebuild, didCache, seeker>>
      /\ rebuild.began \in Nat /\ \A s \in Seekers : seeker[s].began \in Nat
      /\ \A f \in FactNames : /\ LastTrue(f) \in Nat /\ LastFalse(f) \in Nat
                              /\ LastTrue(f)' \in Nat /\ LastFalse(f)' \in Nat
  BY <1>1 DEF Pass, ResolverInv, ResolverShape, LastTrue, LastFalse, Holds
<1>5. ScanRecent'
  BY <1>1, <1>4, TheFacts DEF Pass, ScanRecent, Onward, ResolverInv
<1>6. SeekersInTime'
  BY <1>1, <1>4, TheFacts DEF Pass, SeekersInTime, Onward, ResolverInv, Links
<1>7. \A o \in Seekers : SeekerInTime(o)'
  BY <1>1, <1>4, AnswersKept
<1> QED
  BY <1>1, <1>2, <1>3, <1>5, <1>6, <1>7 DEF ResolverInv, ToldInTime

LEMMA ResolverStarts == ResolverInit => ResolverInv
<1> SUFFICES ASSUME ResolverInit
             PROVE  ResolverInv
  OBVIOUS
<1>1. hour \in Nat /\ hour = FirstHour
  BY DEF ResolverInit, FirstHour
<1>2. ResolverShape
  BY <1>1 DEF ResolverInit, ResolverShape, NoRebuild, Fresh, Steps
<1>3. ResolverTypeOK
  BY <1>1 DEF ResolverInit, ResolverTypeOK, NoRebuild, Fresh
<1>4. ScanRecent /\ IndexRecent /\ CacheRecent /\ SeekersInTime /\ ToldInTime
  BY DEF ResolverInit, NoRebuild, Fresh, ScanRecent, IndexRecent, CacheRecent, SeekersInTime,
         ToldInTime, SeekerInTime, Told
<1> QED
  BY <1>2, <1>3, <1>4 DEF ResolverInv

LEMMA ResolverStutters == ResolverInv /\ UNCHANGED resolverVars => ResolverInv'
<1> SUFFICES ASSUME ResolverInv, UNCHANGED resolverVars
             PROVE  ResolverInv'
  OBVIOUS
<1>1. ResolverShape' /\ ResolverTypeOK' /\ Onward
  BY StillOnward DEF resolverVars, ResolverInv, ResolverShape, ResolverTypeOK
<1>2. IndexRecent' /\ CacheRecent' /\ ScanRecent'
  BY <1>1, RecentKept DEF resolverVars
<1>3. SeekersInTime' /\ \A o \in Seekers : SeekerInTime(o)'
  BY <1>1, AnswersKept DEF resolverVars, SeekersInTime, ResolverInv, LastTrue, Holds
<1> QED
  BY <1>1, <1>2, <1>3 DEF ResolverInv, ToldInTime

(* Who a key speaks for was published within one lifetime and the time of  *)
(* one look: for any number of requests and accounts, any lifetimes and    *)
(* any schedule of the changes, scans and fetches.                         *)
THEOREM KeysRecentTheorem == ResolverSpec => []KeysRecent
<1>1. ResolverInv /\ [ResolverNext]_resolverVars => ResolverInv'
  BY StartKeeps, ReadKeeps, EndKeeps, LookKeeps, FetchKeeps, BacklinkKeeps, GoOnKeeps,
     TurnKeeps, PassKeeps, ResolverStutters DEF ResolverNext
<1>2. ResolverInv => KeysRecent
  BY DEF ResolverInv, ToldInTime, SeekerInTime, KeysRecent, RevokedKeyStops, SharedKeyRefused,
         LinkedKeyRecognised, Links
<1> QED
  BY <1>1, <1>2, ResolverStarts, PTL DEF ResolverSpec
-----------------------------------------------------------------------------
(* KeyBinding: the four copies of the check of a key against a profile. *)

\* The first that passes a test, and 0 when none does.
LEMMA FirstOf ==
  ASSUME NEW S, S \subseteq Nat \ {0}, NEW n, n = IF S # {} THEN Min(S) ELSE 0
  PROVE  (S = {} => n = 0) /\ (S # {} => n \in S)
<1>1. CASE S # {}
  <2>1. \E i \in S : \A j \in S : i <= j
    BY <1>1, SmallestNumber
  <2>. QED
    BY <1>1, <2>1 DEF Min
<1>. QED
  BY <1>1

Carrying(p) == {i \in 1 .. Len(p.methods) : CarriesEither(p.methods[i])}
Named(p, kid) == {i \in 1 .. Len(p.methods) : p.methods[i].id = kid}

LEMMA FirstCarrying ==
  ASSUME NEW p
  PROVE  (Carrying(p) = {} => FirstOfKey(p) = 0) /\ (Carrying(p) # {} => FirstOfKey(p) \in Carrying(p))
<1>1. FirstOfKey(p) = IF Carrying(p) # {} THEN Min(Carrying(p)) ELSE 0
  BY DEF FirstOfKey, SelectInSeq, Carrying
<1>2. Carrying(p) \subseteq Nat \ {0}
  BY DEF Carrying
<1>. QED
  BY <1>1, <1>2, FirstOf

LEMMA FirstNamed ==
  ASSUME NEW p, NEW kid
  PROVE  (Named(p, kid) = {} => FirstWithId(p, kid) = 0) /\ (Named(p, kid) # {} => FirstWithId(p, kid) \in Named(p, kid))
<1>1. FirstWithId(p, kid) = IF Named(p, kid) # {} THEN Min(Named(p, kid)) ELSE 0
  BY DEF FirstWithId, SelectInSeq, Named
<1>2. Named(p, kid) \subseteq Nat \ {0}
  BY DEF Named
<1>. QED
  BY <1>1, <1>2, FirstOf

\* A method that carries the key, is listed for authentication and is controlled by who controls
\* the profile.
LEMMA AcceptedBinds ==
  ASSUME NEW p, NEW m \in Methods(p), Key \in {m.multibase, m.jwk}, Accepted(p, m) \/ (m.id \in p.authentication /\ Controlled(p, m))
  PROVE  Binds(p)
<1>1. m.id \in p.authentication
  BY DEF Accepted, InAuthentication
<1>2. m.controller # Undeclared
  BY DEF Accepted, Controlled, Normal, Meets
<1>3. \E c \in m.controller : IF p.controller \in {Undeclared, {}} THEN c = p.subject ELSE c \in p.controller
  <2>1. CASE Accepted(p, m)
    BY <1>2, <2>1 DEF Accepted, Normal, Meets, ExpectedControllers
  <2>2. CASE Controlled(p, m)
    BY <1>2, <2>2 DEF Controlled, Normal, Meets, ControllersOrSubject
  <2>. QED
    BY <2>1, <2>2
<1>. QED
  BY <1>1, <1>2, <1>3 DEF Binds

Numbered(p) == Len(p.methods) \in Nat /\ DOMAIN p.methods = 1 .. Len(p.methods)

LEMMA ResourceTakes ==
  ASSUME NEW p, Numbered(p), ResourceAccepts(p)
  PROVE  /\ FirstOfKey(p) \in DOMAIN p.methods /\ p.methods[FirstOfKey(p)] \in Methods(p)
         /\ CarriesEither(p.methods[FirstOfKey(p)])
         /\ Accepted(p, p.methods[FirstOfKey(p)]) /\ p.subject = WebId
<1>1. FirstOfKey(p) \in Carrying(p)
  BY FirstCarrying DEF ResourceAccepts
<1>. QED
  BY <1>1 DEF Carrying, Numbered, Methods, ToSet, ResourceAccepts

LEMMA LwsTakes ==
  ASSUME NEW p, Numbered(p), NEW kid, LwsAccepts(p, kid)
  PROVE  \E i \in DOMAIN p.methods :
           /\ p.methods[i].id = kid /\ p.methods[i] \in Methods(p) /\ p.methods[i].jwk = Key
           /\ Accepted(p, p.methods[i]) /\ p.subject = WebId
<1>1. FirstWithId(p, kid) \in Named(p, kid)
  BY FirstNamed DEF LwsAccepts
<1>. QED
  BY <1>1 DEF Named, Numbered, Methods, ToSet, LwsAccepts

\* No copy of the check takes a key that the profile does not bind.
LEMMA NoneTakesTooMuch ==
  ASSUME NEW p, Numbered(p)
  PROVE  /\ ResourceAccepts(p) => Binds(p) /\ p.subject = WebId
         /\ BacklinkAccepts(p) => Binds(p) \/ p.sameAs
         /\ Indexed(p) => Binds(p) /\ p.subject = WebId
         /\ \A kid : LwsAccepts(p, kid) => Binds(p) /\ p.subject = WebId
<1>1. ResourceAccepts(p) => Binds(p) /\ p.subject = WebId
  BY ResourceTakes, AcceptedBinds DEF CarriesEither
<1>2. \A m : Extracted(m) => Key \in {m.multibase, m.jwk}
  BY DEF Extracted
<1>3. BacklinkAccepts(p) => Binds(p) \/ p.sameAs
  BY <1>2, AcceptedBinds DEF BacklinkAccepts, CidVmBacklink
<1>4. Indexed(p) => Binds(p) /\ p.subject = WebId
  BY <1>2, AcceptedBinds DEF Indexed
<1>5. ASSUME NEW kid, LwsAccepts(p, kid) PROVE Binds(p) /\ p.subject = WebId
  BY <1>5, LwsTakes, AcceptedBinds
<1>. QED
  BY <1>1, <1>3, <1>4, <1>5

\* On a plain profile the first method of the key is the only one, its two encodings do not hide
\* each other, and the two readings of the controllers are one.
LEMMA PlainAgree ==
  ASSUME NEW p, Numbered(p), PlainProfile(p)
  PROVE  /\ ResourceAccepts(p) <=> CidVmBacklink(p)
         /\ ResourceAccepts(p) <=> Indexed(p)
         /\ \A kid : LwsAccepts(p, kid) => ResourceAccepts(p)
         /\ ResourceAccepts(p) /\ p.methods[FirstOfKey(p)].jwk = Key
              => LwsAccepts(p, p.methods[FirstOfKey(p)].id) /\ p.methods[FirstOfKey(p)] \in Methods(p)
<1>1. ASSUME NEW m \in Methods(p) PROVE Extracted(m) <=> CarriesEither(m)
  BY <1>1, BindingAssumption DEF PlainProfile, Extracted, CarriesEither
<1>2. ASSUME NEW m \in Methods(p)
      PROVE  Accepted(p, m) <=> (m.id \in p.authentication /\ Controlled(p, m))
  <2>1. ExpectedControllers(p) = ControllersOrSubject(p)
    BY DEF PlainProfile, ExpectedControllers, ControllersOrSubject, Normal
  <2>. QED
    BY <2>1 DEF Accepted, InAuthentication, Controlled
<1>3. ASSUME NEW i \in DOMAIN p.methods, CarriesEither(p.methods[i]) PROVE FirstOfKey(p) = i
  <2>1. i \in Carrying(p)
    BY <1>3 DEF Carrying, Numbered
  <2>2. FirstOfKey(p) \in DOMAIN p.methods /\ CarriesEither(p.methods[FirstOfKey(p)])
    BY <2>1, FirstCarrying DEF Carrying, Numbered
  <2>. QED
    BY <1>3, <2>2 DEF PlainProfile
<1>4. p.subject = WebId
  BY DEF PlainProfile
<1>5. ASSUME NEW i \in DOMAIN p.methods, CarriesEither(p.methods[i]), Accepted(p, p.methods[i])
      PROVE  ResourceAccepts(p)
  <2>1. FirstOfKey(p) = i /\ i # 0
    BY <1>3, <1>5 DEF Numbered
  <2>. QED
    BY <1>4, <1>5, <2>1 DEF ResourceAccepts
<1>6. CidVmBacklink(p) => ResourceAccepts(p)
  BY <1>1, <1>2, <1>5 DEF CidVmBacklink, Methods, ToSet
<1>7. ResourceAccepts(p) => CidVmBacklink(p)
  BY <1>1, <1>2, ResourceTakes DEF CidVmBacklink
<1>8. Indexed(p) <=> CidVmBacklink(p)
  BY <1>4 DEF Indexed, CidVmBacklink
<1>9. ASSUME NEW kid, LwsAccepts(p, kid) PROVE ResourceAccepts(p)
  BY <1>5, <1>9, LwsTakes DEF CarriesEither
<1>10. ASSUME ResourceAccepts(p), p.methods[FirstOfKey(p)].jwk = Key
       PROVE  LwsAccepts(p, p.methods[FirstOfKey(p)].id) /\ p.methods[FirstOfKey(p)] \in Methods(p)
  <2>1. PICK i \in DOMAIN p.methods : i = FirstOfKey(p)
    BY <1>10, ResourceTakes
  <2>2. i \in Named(p, p.methods[i].id)
    BY DEF Named, Numbered
  <2>3. FirstWithId(p, p.methods[i].id) \in Named(p, p.methods[i].id)
    BY <2>2, FirstNamed
  <2>4. FirstWithId(p, p.methods[i].id) = i
    BY <2>3 DEF Named, PlainProfile, Numbered
  <2>5. i # 0
    BY DEF Numbered
  <2>. QED
    BY <1>4, <1>10, <2>1, <2>4, <2>5, ResourceTakes DEF LwsAccepts
<1>. QED
  BY <1>6, <1>7, <1>8, <1>9, <1>10

\* What Verify has said of the profile, which is one of those that are considered.
Verdict(p) == [resource |-> ResourceAccepts(p), backlink |-> BacklinkAccepts(p), indexed |-> Indexed(p),
               lws |-> {m.id : m \in {n \in Methods(p) : LwsAccepts(p, n.id)}}]
BindingInv == profile \in Profiles /\ verdict \in {{}, {Verdict(profile)}}

LEMMA VerdictsSafe == BindingInv => BindingSafe
<1>. SUFFICES ASSUME BindingInv, NEW v \in verdict
              PROVE  /\ v.resource \/ v.indexed \/ v.lws # {} => Binds(profile) /\ profile.subject = WebId
                     /\ v.backlink => Binds(profile) \/ profile.sameAs
                     /\ PlainProfile(profile) =>
                          /\ v.resource = v.indexed
                          /\ v.backlink <=> v.resource \/ profile.sameAs
                          /\ v.lws # {} => v.resource
                          /\ v.resource /\ profile.methods[FirstOfKey(profile)].jwk = Key => v.lws # {}
  BY DEF BindingSafe, AcceptedAreBound, VerifiersAgree
<1>1. Numbered(profile) /\ v = Verdict(profile)
  BY BindingAssumption DEF BindingInv, Numbered
<1>2. v.lws = {m.id : m \in {n \in Methods(profile) : LwsAccepts(profile, n.id)}}
  BY <1>1 DEF Verdict
<1>3. /\ v.resource = ResourceAccepts(profile) /\ v.backlink = BacklinkAccepts(profile)
      /\ v.indexed = Indexed(profile)
  BY Zenon, <1>1 DEF Verdict
<1>4. v.lws # {} => \E kid : LwsAccepts(profile, kid)
  BY <1>2
<1>5. ASSUME NEW m \in Methods(profile), LwsAccepts(profile, m.id) PROVE v.lws # {}
  BY <1>2, <1>5
<1>6. ResourceAccepts(profile) \in BOOLEAN /\ BacklinkAccepts(profile) \in BOOLEAN /\ Indexed(profile) \in BOOLEAN
  BY DEF ResourceAccepts, BacklinkAccepts, Indexed
<1>7. /\ v.resource \/ v.indexed \/ v.lws # {} => Binds(profile) /\ profile.subject = WebId
      /\ v.backlink => Binds(profile) \/ profile.sameAs
  BY <1>1, <1>3, <1>4, NoneTakesTooMuch
<1>8. ASSUME PlainProfile(profile)
      PROVE  /\ v.resource = v.indexed
             /\ v.backlink <=> v.resource \/ profile.sameAs
             /\ v.lws # {} => v.resource
             /\ v.resource /\ profile.methods[FirstOfKey(profile)].jwk = Key => v.lws # {}
  <2>1. v.resource = v.indexed
    BY <1>1, <1>3, <1>6, <1>8, PlainAgree
  <2>4. v.backlink <=> v.resource \/ profile.sameAs
    BY <1>1, <1>3, <1>8, PlainAgree DEF BacklinkAccepts
  <2>2. v.lws # {} => v.resource
    BY <1>1, <1>3, <1>4, <1>8, PlainAgree
  <2>3. v.resource /\ profile.methods[FirstOfKey(profile)].jwk = Key => v.lws # {}
    BY <1>1, <1>3, <1>5, <1>8, PlainAgree
  <2>. QED
    BY <2>1, <2>2, <2>3, <2>4
<1>. QED
  BY <1>7, <1>8

\* For every profile and every key, whatever encodings its methods use: a key is taken for
\* somebody's only where his profile binds it or, when a DID document points to it, links to the
\* key by sameAs; and on plain profiles the four copies of the check (auth/nostr.js,
\* auth/did-nostr.js, idp/well-known-did-nostr.js, auth/lws-cid.js) differ in nothing else.
THEOREM BindingSafeTheorem == BindingSpec => []BindingSafe
<1>1. BindingInit => BindingInv
  BY DEF BindingInit, BindingInv
<1>2. BindingInv /\ [Verify]_bindingVars => BindingInv'
  <2>. SUFFICES ASSUME BindingInv, [Verify]_bindingVars PROVE BindingInv'
    OBVIOUS
  <2>1. CASE UNCHANGED bindingVars
    BY <2>1 DEF bindingVars, BindingInv
  <2>2. CASE Verify
    <3>1. profile' = profile /\ verdict' = {Verdict(profile)}
      BY <2>2 DEF Verify, Verdict
    <3>. QED
      BY <3>1 DEF BindingInv
  <2>. QED
    BY <2>1, <2>2
<1>. QED
  BY <1>1, <1>2, VerdictsSafe, PTL DEF BindingSpec
-----------------------------------------------------------------------------
(* ProfileCache *)

HIDE EventsAssumption
HIDE ProofsAssumption
HIDE WindowsAssumption
HIDE RemoteAssumption
HIDE ResolverAssumption
USE CacheAssumption

Served == [up : BOOLEAN, from : Nat]
Kept == [url : Urls, read : Nat, at : Nat]
CallerState == [at : {"idle", "fetching", "read", "answered"}, url : Urls \cup {Nothing}, read : Nat,
                began : Nat, answer : Nat, when : Nat]

Once(s) == \A i, j \in DOMAIN s : s[i].url = s[j].url => i = j

\* How long an answer is believed.
Life(u, n) == IF Up(u, n) THEN Ttl ELSE FailureTtl

\* State n of a document was the current one at t, or later.
ReadSince(u, n, t) ==
  /\ n \in DOMAIN history[u]
  /\ n < Len(history[u]) => t <= history[u][n + 1].from

\* What is kept was current when its fetch began; who fetches does so for MaxFetch at most.
KeptRecent(e) == e.at <= clock /\ \E b \in Nat : b <= e.at /\ e.at <= b + MaxFetch /\ ReadSince(e.url, e.read, b)

CallerRecent(a) ==
  /\ a.at \in {"fetching", "read"} => a.url \in Urls /\ a.began <= clock /\ clock <= a.began + MaxFetch
  /\ a.at = "read" => ReadSince(a.url, a.read, a.began)
  /\ a.at = "answered" => /\ a.url \in Urls /\ a.when <= clock /\ a.answer \in DOMAIN history[a.url]
                          /\ a.answer < Len(history[a.url]) =>
                               a.when < history[a.url][a.answer + 1].from + MaxFetch + Life(a.url, a.answer)

CacheTyped ==
  /\ clock \in 0 .. MaxClock
  /\ history \in [Urls -> Seq(Served)]
  /\ profileCache \in Seq(Kept)
  /\ caller \in [Callers -> CallerState]

GoodCache(s) == /\ s \in Seq(Kept) /\ Len(s) <= Room /\ Once(s)
                /\ \A i \in DOMAIN s : KeptRecent(s[i])

CacheInv ==
  /\ CacheTyped
  /\ \A u \in Urls : Len(history[u]) > 0
  /\ GoodCache(profileCache)
  /\ \A c \in Callers : CallerRecent(caller[c])

\* Taking one entry out.
LEMMA OneOut ==
  ASSUME NEW S, NEW s \in Seq(S), NEW i \in DOMAIN s
  PROVE  /\ RemoveAt(s, i) \in Seq(S) /\ Len(RemoveAt(s, i)) = Len(s) - 1
         /\ \A j \in 1 .. Len(s) - 1 : RemoveAt(s, i)[j] = IF j < i THEN s[j] ELSE s[j + 1]
<1>1. i \in 1 .. Len(s) /\ Len(s) \in Nat /\ \A j \in 1 .. Len(s) : s[j] \in S
  BY LenProperties, ElementOfSeq
<1>2. PICK a : a = SubSeq(s, 1, i - 1)
  OBVIOUS
<1>3. PICK b : b = SubSeq(s, i + 1, Len(s))
  OBVIOUS
<1>4. a \in Seq(S) /\ Len(a) = i - 1 /\ \A j \in 1 .. i - 1 : a[j] = s[j]
  <2>1. i - 1 \in Int /\ 1 \in Int /\ \A j \in 1 .. i - 1 : s[j] \in S
    BY <1>1
  <2>2. /\ a \in Seq(S) /\ Len(a) = IF 1 <= i - 1 THEN i - 1 - 1 + 1 ELSE 0
        /\ \A j \in 1 .. i - 1 - 1 + 1 : a[j] = s[1 + j - 1]
    BY <1>2, <2>1, SubSeqProperties
  <2>. QED
    BY <1>1, <2>2
<1>5. b \in Seq(S) /\ Len(b) = Len(s) - i /\ \A j \in 1 .. Len(s) - i : b[j] = s[i + j]
  <2>1. i + 1 \in Int /\ Len(s) \in Int /\ \A j \in i + 1 .. Len(s) : s[j] \in S
    BY <1>1
  <2>2. /\ b \in Seq(S) /\ Len(b) = IF i + 1 <= Len(s) THEN Len(s) - (i + 1) + 1 ELSE 0
        /\ \A j \in 1 .. Len(s) - (i + 1) + 1 : b[j] = s[i + 1 + j - 1]
    BY <1>3, <2>1, SubSeqProperties
  <2>. QED
    BY <1>1, <2>2
<1>6. RemoveAt(s, i) = a \o b
  BY <1>2, <1>3 DEF RemoveAt
<1>7. /\ a \o b \in Seq(S) /\ Len(a \o b) = Len(a) + Len(b)
      /\ \A j \in 1 .. Len(a) + Len(b) : (a \o b)[j] = IF j <= Len(a) THEN a[j] ELSE b[j - Len(a)]
  BY <1>4, <1>5, ConcatProperties
<1>8. ASSUME NEW j \in 1 .. Len(s) - 1
      PROVE  RemoveAt(s, i)[j] = IF j < i THEN s[j] ELSE s[j + 1]
  <2>1. RemoveAt(s, i)[j] = IF j <= i - 1 THEN a[j] ELSE b[j - (i - 1)]
    <3>1. j \in 1 .. Len(a) + Len(b)
      BY <1>1, <1>4, <1>5
    <3>2. (a \o b)[j] = IF j <= Len(a) THEN a[j] ELSE b[j - Len(a)]
      BY <1>7, <3>1
    <3>3. Len(a) = i - 1
      BY <1>4
    <3>. QED
      BY <1>6, <3>2, <3>3
  <2>2. CASE j < i
    BY <1>1, <1>4, <2>1, <2>2
  <2>3. CASE ~ (j < i)
    <3>1. PICK k : k = j - (i - 1)
      OBVIOUS
    <3>2. k \in 1 .. Len(s) - i /\ ~ (j <= i - 1) /\ i + k = j + 1
      BY <1>1, <2>3, <3>1
    <3>3. b[k] = s[i + k]
      BY <1>5, <3>2
    <3>. QED
      BY <2>1, <2>3, <3>1, <3>2, <3>3
  <2>. QED
    BY <2>2, <2>3
<1>9. RemoveAt(s, i) \in Seq(S) /\ Len(RemoveAt(s, i)) = Len(s) - 1
  BY <1>1, <1>4, <1>5, <1>6, <1>7
<1>. QED
  BY <1>8, <1>9

\* Putting one at the end.
LEMMA OneMoreKept ==
  ASSUME NEW s \in Seq(Kept), NEW e \in Kept, Once(s), \A i \in DOMAIN s : KeptRecent(s[i]) /\ s[i].url # e.url,
         KeptRecent(e)
  PROVE  /\ Append(s, e) \in Seq(Kept) /\ Len(Append(s, e)) = Len(s) + 1 /\ Once(Append(s, e))
         /\ \A i \in DOMAIN Append(s, e) : KeptRecent(Append(s, e)[i])
<1>1. Len(s) \in Nat /\ DOMAIN s = 1 .. Len(s)
  BY LenProperties
<1>2. PICK t : t = Append(s, e)
  OBVIOUS
<1>3. t \in Seq(Kept) /\ Len(t) = Len(s) + 1 /\ (\A i \in 1 .. Len(s) : t[i] = s[i]) /\ t[Len(s) + 1] = e
  BY <1>2, AppendProperties
<1>4. DOMAIN t = 1 .. Len(s) + 1
  BY <1>3, LenProperties
<1>5. ASSUME NEW i \in DOMAIN t PROVE (i \in DOMAIN s /\ t[i] = s[i]) \/ (i = Len(s) + 1 /\ t[i] = e)
  BY <1>1, <1>3, <1>4
<1>6. Once(t)
  BY <1>5 DEF Once
<1>7. \A i \in DOMAIN t : KeptRecent(t[i])
  BY <1>5
<1>. QED
  BY <1>2, <1>3, <1>6, <1>7

LEMMA KeptTypes ==
  ASSUME NEW s, GoodCache(s)
  PROVE  /\ Len(s) \in Nat /\ DOMAIN s = 1 .. Len(s) /\ \A i \in DOMAIN s : s[i] \in Kept
BY LenProperties, ElementOfSeq DEF GoodCache

LEMMA OthersGood ==
  ASSUME GoodCache(profileCache), NEW u
  PROVE  /\ GoodCache(Others(u)) /\ \A i \in DOMAIN Others(u) : Others(u)[i].url # u
         /\ Cached(u) => /\ Len(Others(u)) = Len(profileCache) - 1
                         /\ Entry(u) \in Kept /\ KeptRecent(Entry(u)) /\ Entry(u).url = u
<1>0. PICK s : s = profileCache
  OBVIOUS
<1>1. /\ s \in Seq(Kept) /\ Len(s) <= Room /\ Once(s) /\ (\A i \in DOMAIN s : KeptRecent(s[i]))
      /\ Len(s) \in Nat /\ DOMAIN s = 1 .. Len(s) /\ \A i \in DOMAIN s : s[i] \in Kept
  BY <1>0, KeptTypes DEF GoodCache
<1>2. CASE Cached(u)
  <2>1. PICK k \in DOMAIN s : k = Place(u) /\ s[k].url = u
    BY <1>0, <1>2 DEF Cached, Place
  <2>2. PICK t : t = RemoveAt(s, k)
    OBVIOUS
  <2>3. /\ t \in Seq(Kept) /\ Len(t) = Len(s) - 1
        /\ \A j \in 1 .. Len(s) - 1 : t[j] = IF j < k THEN s[j] ELSE s[j + 1]
    BY <1>1, <2>1, <2>2, OneOut
  <2>4. DOMAIN t = 1 .. Len(s) - 1
    BY <2>3, LenProperties
  <2>5. ASSUME NEW j \in DOMAIN t
        PROVE  \E m \in DOMAIN s : t[j] = s[m] /\ m # k /\ m = IF j < k THEN j ELSE j + 1
    BY <1>1, <2>1, <2>3, <2>4
  <2>6. ASSUME NEW i \in DOMAIN t, NEW j \in DOMAIN t, t[i].url = t[j].url PROVE i = j
    <3>1. PICK m \in DOMAIN s : t[i] = s[m] /\ m = IF i < k THEN i ELSE i + 1
      BY <2>5
    <3>2. PICK n \in DOMAIN s : t[j] = s[n] /\ n = IF j < k THEN j ELSE j + 1
      BY <2>5
    <3>3. m = n
      BY <1>1, <2>6, <3>1, <3>2 DEF Once
    <3>. QED
      BY <1>1, <2>1, <2>4, <3>1, <3>2, <3>3
  <2>7. \A j \in DOMAIN t : t[j].url # u /\ KeptRecent(t[j])
    BY <1>1, <2>1, <2>5 DEF Once
  <2>8. GoodCache(t)
    BY <1>1, <2>3, <2>6, <2>7 DEF GoodCache, Once
  <2>9. Others(u) = t /\ Entry(u) = s[k]
    BY <1>0, <1>2, <2>1, <2>2 DEF Others, Entry
  <2>. QED
    BY <1>0, <1>1, <2>1, <2>3, <2>7, <2>8, <2>9
<1>3. CASE ~ Cached(u)
  BY <1>3 DEF Others, Cached
<1>. QED
  BY <1>2, <1>3

LEMMA MovedGood ==
  ASSUME GoodCache(profileCache), NEW u, Cached(u)
  PROVE  GoodCache(Moved(u))
<1>1. /\ GoodCache(Others(u)) /\ \A i \in DOMAIN Others(u) : Others(u)[i].url # u
      /\ Len(Others(u)) = Len(profileCache) - 1
      /\ Entry(u) \in Kept /\ KeptRecent(Entry(u)) /\ Entry(u).url = u
  BY OthersGood
<1>2. PICK s, e : s = Others(u) /\ e = Entry(u)
  OBVIOUS
<1>3. Len(profileCache) \in Nat /\ Len(profileCache) <= Room
  BY KeptTypes DEF GoodCache
<1>4. /\ Append(s, e) \in Seq(Kept) /\ Len(Append(s, e)) = Len(s) + 1 /\ Once(Append(s, e))
      /\ \A i \in DOMAIN Append(s, e) : KeptRecent(Append(s, e)[i])
  BY <1>1, <1>2, OneMoreKept DEF GoodCache
<1>. QED
  BY <1>1, <1>2, <1>3, <1>4 DEF Moved, GoodCache

LEMMA StoredGood ==
  ASSUME GoodCache(profileCache), NEW e \in Kept, KeptRecent(e)
  PROVE  GoodCache(Stored(e))
<1>0. PICK s : s = profileCache
  OBVIOUS
<1>1. /\ s \in Seq(Kept) /\ Len(s) <= Room /\ Once(s) /\ (\A i \in DOMAIN s : KeptRecent(s[i]))
      /\ Len(s) \in Nat /\ DOMAIN s = 1 .. Len(s) /\ \A i \in DOMAIN s : s[i] \in Kept
  BY <1>0, KeptTypes DEF GoodCache
<1>2. CASE Cached(e.url)
  <2>1. PICK t : t = [i \in 1 .. Len(s) |-> IF s[i].url = e.url THEN e ELSE s[i]]
    OBVIOUS
  <2>2. Stored(e) = t
    BY <1>0, <1>1, <1>2, <2>1 DEF Stored
  <2>3. t \in Seq(Kept) /\ Len(t) = Len(s) /\ DOMAIN t = DOMAIN s
    <3>1. t \in [1 .. Len(s) -> Kept]
      BY <1>1, <2>1
    <3>. QED
      BY <1>1, <3>1, SeqDef
  <2>4. \A i \in DOMAIN s : t[i].url = s[i].url /\ KeptRecent(t[i])
    BY <1>1, <2>1
  <2>. QED
    BY <1>1, <2>2, <2>3, <2>4 DEF GoodCache, Once
<1>3. CASE ~ Cached(e.url)
  <2>1. PICK t : t = Append(s, e)
    OBVIOUS
  <2>2. /\ t \in Seq(Kept) /\ Len(t) = Len(s) + 1 /\ Once(t) /\ \A i \in DOMAIN t : KeptRecent(t[i])
    BY <1>0, <1>1, <1>3, <2>1, OneMoreKept DEF Cached
  <2>3. Stored(e) = IF Len(t) > Room THEN Tail(t) ELSE t
    BY <1>0, <1>3, <2>1 DEF Stored, Evicted
  <2>4. CASE Len(t) <= Room
    BY <1>1, <2>2, <2>3, <2>4 DEF GoodCache
  <2>5. CASE Len(t) > Room
    <3>1. PICK w : w = Tail(t)
      OBVIOUS
    <3>2. t # << >>
      BY <2>1, <1>1, AppendProperties
    <3>3. w \in Seq(Kept) /\ Len(w) = Len(t) - 1 /\ \A i \in 1 .. Len(w) : w[i] = t[i + 1]
      BY <2>2, <3>1, <3>2, HeadTailProperties
    <3>4. Len(w) \in Nat /\ DOMAIN w = 1 .. Len(w) /\ DOMAIN t = 1 .. Len(t)
      BY <2>2, <3>3, LenProperties
    <3>5. \A i \in DOMAIN w : w[i] = t[i + 1] /\ i + 1 \in DOMAIN t
      BY <1>1, <2>2, <3>3, <3>4
    <3>6. Once(w)
      <4>1. ASSUME NEW i \in DOMAIN w, NEW j \in DOMAIN w, w[i].url = w[j].url PROVE i = j
        <5>1. i + 1 = j + 1
          BY <2>2, <3>5, <4>1 DEF Once
        <5>. QED
          BY <3>4, <5>1
      <4>. QED
        BY <4>1 DEF Once
    <3>7. \A i \in DOMAIN w : KeptRecent(w[i])
      BY <2>2, <3>5
    <3>. QED
      BY <1>1, <2>2, <2>3, <2>5, <3>1, <3>3, <3>6, <3>7 DEF GoodCache
  <2>. QED
    BY <1>1, <2>2, <2>4, <2>5
<1>. QED
  BY <1>2, <1>3

\* A step of one caller, while no document changes and no time passes.
LEMMA CallerStep ==
  ASSUME CacheInv, NEW c \in Callers, NEW a \in CallerState, CallerRecent(a), caller' = [caller EXCEPT ![c] = a],
         GoodCache(profileCache'), UNCHANGED <<clock, history>>
  PROVE  CacheInv'
<1>1. caller' \in [Callers -> CallerState] /\ \A d \in Callers : caller'[d] = IF d = c THEN a ELSE caller[d]
  BY DEF CacheInv, CacheTyped
<1>2. GoodCache(profileCache)'
  BY DEF GoodCache, KeptRecent, ReadSince
<1>3. CacheTyped'
  BY <1>1 DEF CacheInv, CacheTyped, GoodCache
<1>4. \A d \in Callers : CallerRecent(caller[d])'
  BY <1>1 DEF CacheInv, CallerRecent, ReadSince, Life, Up
<1>. QED
  BY <1>2, <1>3, <1>4 DEF CacheInv

\* The answer is as recent as the entry or the fetch it comes from.
LEMMA AnswerRecent ==
  ASSUME CacheInv, NEW u \in Urls, NEW n \in Nat, NEW t \in Nat, NEW b \in Nat, NEW a \in CallerState,
         a.at = "answered", a.url = u, a.answer = n, a.when = clock,
         ReadSince(u, n, b), t <= b + MaxFetch, clock < t + Life(u, n)
  PROVE  CallerRecent(a)
<1>1. clock \in Nat /\ history[u] \in Seq(Served) /\ Life(u, n) \in Nat
  BY DEF CacheInv, CacheTyped, Life
<1>2. Len(history[u]) \in Nat /\ DOMAIN history[u] = 1 .. Len(history[u])
  BY <1>1, LenProperties
<1>3. ASSUME n < Len(history[u]) PROVE clock < history[u][n + 1].from + MaxFetch + Life(u, n)
  <2>1. n + 1 \in 1 .. Len(history[u])
    BY <1>2, <1>3
  <2>2. history[u][n + 1] \in Served
    BY <1>1, <2>1, ElementOfSeq
  <2>3. history[u][n + 1].from \in Nat
    BY <2>2 DEF Served
  <2>4. b <= history[u][n + 1].from
    BY <1>3 DEF ReadSince
  <2>5. PICK f \in Nat, k \in Nat : f = history[u][n + 1].from /\ k = Life(u, n)
    BY <1>1, <2>3
  <2>6. b <= f /\ clock < t + k /\ t <= b + MaxFetch
    BY <2>4, <2>5
  <2>7. clock < f + MaxFetch + k
    BY <1>1, <2>6
  <2>. QED
    BY <2>5, <2>7
<1>. QED
  BY <1>1, <1>3 DEF CallerRecent, ReadSince

LEMMA AskRecent ==
  ASSUME CacheInv, NEW c \in Callers, NEW u \in Urls, Ask(c, u)
  PROVE  CacheInv'
<1>0. clock \in Nat /\ GoodCache(profileCache) /\ UNCHANGED <<clock, history>>
  BY DEF CacheInv, CacheTyped, Ask
<1>1. CASE Cached(u) /\ Lives(Entry(u)) /\ profileCache' = Moved(u) /\ Answered(c, u, Entry(u).read)
  <2>1. PICK e : e = Entry(u)
    OBVIOUS
  <2>2. e \in Kept /\ KeptRecent(e) /\ e.url = u
    BY <1>0, <1>1, <2>1, OthersGood
  <2>3. PICK a : a = [Asleep EXCEPT !.at = "answered", !.url = u, !.answer = e.read, !.when = clock]
    OBVIOUS
  <2>4. caller' = [caller EXCEPT ![c] = a]
    BY <1>1, <2>1, <2>3 DEF Answered
  <2>5. a = [at |-> "answered", url |-> u, read |-> 0, began |-> 0, answer |-> e.read, when |-> clock]
    BY <2>3 DEF Asleep
  <2>6. a \in CallerState
    BY <1>0, <2>2, <2>5 DEF CallerState, Kept
  <2>7. PICK b \in Nat : b <= e.at /\ e.at <= b + MaxFetch /\ ReadSince(u, e.read, b)
    BY <2>2 DEF KeptRecent
  <2>8. clock < e.at + Life(u, e.read) /\ e.at \in Nat /\ e.read \in Nat
    BY <1>1, <2>1, <2>2 DEF Lives, Life, Kept
  <2>9. CallerRecent(a)
    BY <2>5, <2>6, <2>7, <2>8, AnswerRecent
  <2>10. GoodCache(profileCache')
    BY <1>0, <1>1, MovedGood
  <2>. QED
    BY <1>0, <2>4, <2>6, <2>9, <2>10, CallerStep
<1>2. CASE profileCache' = Others(u)
           /\ caller' = [caller EXCEPT ![c] = [Asleep EXCEPT !.at = "fetching", !.url = u, !.began = clock]]
  <2>1. PICK a : a = [Asleep EXCEPT !.at = "fetching", !.url = u, !.began = clock]
    OBVIOUS
  <2>2. a = [at |-> "fetching", url |-> u, read |-> 0, began |-> clock, answer |-> 0, when |-> 0]
    BY <2>1 DEF Asleep
  <2>3. a \in CallerState /\ CallerRecent(a)
    BY <1>0, <2>2 DEF CallerState, CallerRecent
  <2>4. GoodCache(profileCache')
    BY <1>0, <1>2, OthersGood
  <2>5. caller' = [caller EXCEPT ![c] = a]
    BY <1>2, <2>1
  <2>. QED
    BY <1>0, <2>3, <2>4, <2>5, CallerStep
<1>. QED
  BY <1>1, <1>2 DEF Ask

LEMMA HistoryTypes ==
  ASSUME CacheInv, NEW u \in Urls
  PROVE  /\ history[u] \in Seq(Served) /\ Len(history[u]) \in Nat \ {0}
         /\ DOMAIN history[u] = 1 .. Len(history[u])
         /\ \A n \in DOMAIN history[u] : history[u][n] \in Served /\ history[u][n].from \in Nat
<1>1. history[u] \in Seq(Served) /\ Len(history[u]) > 0
  BY DEF CacheInv, CacheTyped
<1>2. Len(history[u]) \in Nat /\ DOMAIN history[u] = 1 .. Len(history[u])
  BY <1>1, LenProperties
<1>3. \A n \in DOMAIN history[u] : history[u][n] \in Served
  BY <1>1, <1>2, ElementOfSeq
<1>. QED
  BY <1>1, <1>2, <1>3 DEF Served

LEMMA ReadRecent ==
  ASSUME CacheInv, NEW c \in Callers, Read(c)
  PROVE  CacheInv'
<1>1. PICK b \in CallerState : b = caller[c]
  BY DEF CacheInv, CacheTyped
<1>2. b.at = "fetching" /\ CallerRecent(b) /\ UNCHANGED <<clock, history, profileCache>>
  BY <1>1 DEF Read, CacheInv
<1>3. b.url \in Urls /\ b.began <= clock /\ clock <= b.began + MaxFetch
  BY <1>2 DEF CallerRecent
<1>4. PICK n \in Nat : n = Len(history[b.url]) /\ n \in DOMAIN history[b.url]
  BY <1>3, HistoryTypes
<1>5. PICK a : a = [at |-> "read", url |-> b.url, read |-> n, began |-> b.began, answer |-> b.answer, when |-> b.when]
  OBVIOUS
<1>6. caller' = [caller EXCEPT ![c] = a]
  <2>1. caller' = [caller EXCEPT ![c].at = "read", ![c].read = n]
    BY <1>1, <1>4 DEF Read
  <2>2. caller'[c] = a
    <3>1. caller \in [Callers -> CallerState]
      BY DEF CacheInv, CacheTyped
    <3>2. caller'[c] = [[caller[c] EXCEPT !.at = "read"] EXCEPT !.read = n]
      BY Zenon, <2>1, <3>1
    <3>3. PICK d : d = [b EXCEPT !.at = "read"]
      OBVIOUS
    <3>4. d = [at |-> "read", url |-> b.url, read |-> b.read, began |-> b.began, answer |-> b.answer, when |-> b.when]
      BY <3>3 DEF CallerState
    <3>5. [d EXCEPT !.read = n] = a
      BY <1>5, <3>4
    <3>. QED
      BY Zenon, <1>1, <3>2, <3>3, <3>5
  <2>3. caller \in [Callers -> CallerState]
    BY DEF CacheInv, CacheTyped
  <2>4. caller' = [d \in Callers |-> caller'[d]] /\ \A d \in Callers \ {c} : caller'[d] = caller[d]
    BY Zenon, <2>1, <2>3
  <2>. QED
    BY <2>2, <2>3, <2>4
<1>7. a \in CallerState
  BY <1>5 DEF CallerState
<1>8. CallerRecent(a)
  BY <1>3, <1>4, <1>5 DEF CallerRecent, ReadSince
<1>9. GoodCache(profileCache')
  BY <1>2 DEF CacheInv
<1>. QED
  BY <1>2, <1>6, <1>7, <1>8, <1>9, CallerStep

LEMMA StoreRecent ==
  ASSUME CacheInv, NEW c \in Callers, Store(c)
  PROVE  CacheInv'
<1>1. PICK b \in CallerState : b = caller[c]
  BY DEF CacheInv, CacheTyped
<1>2. b.at = "read" /\ CallerRecent(b) /\ UNCHANGED <<clock, history>>
  BY <1>1 DEF Store, CacheInv
<1>3. /\ b.url \in Urls /\ b.began <= clock /\ clock <= b.began + MaxFetch /\ ReadSince(b.url, b.read, b.began)
      /\ b.read \in Nat /\ b.began \in Nat /\ clock \in Nat
  BY <1>2 DEF CallerRecent, CallerState, CacheInv, CacheTyped
<1>4. PICK e : e = [url |-> b.url, read |-> b.read, at |-> clock]
  OBVIOUS
<1>5. e \in Kept
  BY <1>3, <1>4 DEF Kept
<1>6. KeptRecent(e)
  BY <1>3, <1>4 DEF KeptRecent
<1>7. GoodCache(profileCache')
  <2>1. profileCache' = Stored(e)
    BY <1>1, <1>4 DEF Store
  <2>. QED
    BY <1>5, <1>6, <2>1, StoredGood DEF CacheInv
<1>8. PICK a : a = [Asleep EXCEPT !.at = "answered", !.url = b.url, !.answer = b.read, !.when = clock]
  OBVIOUS
<1>9. caller' = [caller EXCEPT ![c] = a]
  BY <1>1, <1>8 DEF Store, Answered
<1>10. a = [at |-> "answered", url |-> b.url, read |-> 0, began |-> 0, answer |-> b.read, when |-> clock]
  BY <1>8 DEF Asleep
<1>11. a \in CallerState
  BY <1>3, <1>10 DEF CallerState
<1>12. clock < clock + Life(b.url, b.read)
  BY <1>3 DEF Life
<1>13. CallerRecent(a)
  BY <1>3, <1>10, <1>11, <1>12, AnswerRecent
<1>. QED
  BY <1>2, <1>7, <1>9, <1>11, <1>13, CallerStep

LEMMA LeaveRecent ==
  ASSUME CacheInv, NEW c \in Callers, Leave(c)
  PROVE  CacheInv'
<1>1. Asleep \in CallerState /\ CallerRecent(Asleep)
  BY DEF Asleep, CallerState, CallerRecent
<1>2. caller' = [caller EXCEPT ![c] = Asleep] /\ UNCHANGED <<clock, history, profileCache>>
  BY DEF Leave
<1>. QED
  BY <1>1, <1>2, CallerStep DEF CacheInv

LEMMA ServeRecent ==
  ASSUME CacheInv, NEW u \in Urls, NEW up \in BOOLEAN, Serve(u, up)
  PROVE  CacheInv'
<1>1. PICK g : g = [up |-> up, from |-> clock]
  OBVIOUS
<1>2. history' = [history EXCEPT ![u] = Append(history[u], g)] /\ UNCHANGED <<clock, profileCache, caller>>
  BY Zenon, <1>1 DEF Serve
<1>3. g \in Served /\ clock \in Nat /\ history \in [Urls -> Seq(Served)]
  BY <1>1 DEF Served, CacheInv, CacheTyped
<1>4. PICK h : h = Append(history[u], g)
  OBVIOUS
<1>5. /\ h \in Seq(Served) /\ Len(h) = Len(history[u]) + 1 /\ h[Len(history[u]) + 1] = g
      /\ \A i \in 1 .. Len(history[u]) : h[i] = history[u][i]
  BY <1>3, <1>4, HistoryTypes, AppendProperties
<1>6. DOMAIN h = 1 .. Len(h) /\ Len(history[u]) \in Nat /\ DOMAIN history[u] = 1 .. Len(history[u])
  BY <1>5, LenProperties, HistoryTypes
<1>7. history'[u] = h /\ history' \in [Urls -> Seq(Served)] /\ \A v \in Urls \ {u} : history'[v] = history[v]
  BY <1>2, <1>3, <1>4, <1>5
<1>8. ASSUME NEW v \in Urls, NEW n \in DOMAIN history[v]
      PROVE  /\ n \in DOMAIN history'[v] /\ Life(v, n)' = Life(v, n)
             /\ n < Len(history'[v]) => IF n < Len(history[v]) THEN history'[v][n + 1] = history[v][n + 1]
                                        ELSE history'[v][n + 1].from = clock
  <2>1. CASE v # u
    BY <1>7, <2>1 DEF Life, Up
  <2>2. CASE v = u
    <3>1. n \in DOMAIN h /\ h[n] = history[u][n] /\ n \in Nat
      BY <1>5, <1>6, <2>2
    <3>2. CASE n < Len(history[u])
      <4>1. n + 1 \in 1 .. Len(history[u])
        BY <1>6, <3>1, <3>2
      <4>. QED
        BY <1>5, <1>7, <2>2, <3>1, <3>2, <4>1 DEF Life, Up
    <3>3. CASE ~ (n < Len(history[u]))
      <4>1. n < Len(h) => n = Len(history[u])
        BY <1>5, <1>6, <3>1, <3>3
      <4>. QED
        BY <1>1, <1>5, <1>6, <1>7, <2>2, <3>1, <3>3, <4>1 DEF Life, Up
    <3>. QED
      BY <3>2, <3>3
  <2>. QED
    BY <2>1, <2>2
<1>9. ASSUME NEW v \in Urls, NEW n, NEW t \in Nat, t <= clock, ReadSince(v, n, t)
      PROVE  ReadSince(v, n, t)'
  BY <1>3, <1>8, <1>9 DEF ReadSince
<1>10. \A i \in DOMAIN profileCache : KeptRecent(profileCache[i])'
  <2>. SUFFICES ASSUME NEW i \in DOMAIN profileCache, NEW e, e = profileCache[i] PROVE KeptRecent(e)'
    BY <1>2 DEF KeptRecent, ReadSince
  <2>1. e \in Kept /\ KeptRecent(e)
    BY KeptTypes DEF CacheInv, GoodCache
  <2>2. PICK b \in Nat : b <= e.at /\ e.at <= b + MaxFetch /\ ReadSince(e.url, e.read, b)
    BY <2>1 DEF KeptRecent
  <2>3. b <= clock /\ e.url \in Urls /\ e.at <= clock
    BY <1>3, <2>1, <2>2 DEF Kept, KeptRecent
  <2>4. ReadSince(e.url, e.read, b)'
    BY <1>9, <2>2, <2>3
  <2>. QED
    BY <1>2, <2>2, <2>3, <2>4 DEF KeptRecent
<1>11. GoodCache(profileCache)'
  BY <1>2, <1>10 DEF CacheInv, GoodCache
<1>12. ASSUME NEW c \in Callers PROVE CallerRecent(caller[c])'
  <2>1. PICK a \in CallerState : a = caller[c]
    BY DEF CacheInv, CacheTyped
  <2>2. CallerRecent(a) /\ a.began \in Nat /\ a.when \in Nat
    BY <2>1 DEF CacheInv, CallerState
  <2>3. a.at = "read" => ReadSince(a.url, a.read, a.began)'
    BY <1>9, <2>2 DEF CallerRecent
  <2>4. ASSUME a.at = "answered"
        PROVE  /\ a.answer \in DOMAIN history'[a.url]
               /\ a.answer < Len(history'[a.url]) =>
                    a.when < history'[a.url][a.answer + 1].from + MaxFetch + Life(a.url, a.answer)'
    <3>1. /\ a.url \in Urls /\ a.when <= clock /\ a.answer \in DOMAIN history[a.url]
          /\ a.answer < Len(history[a.url]) =>
               a.when < history[a.url][a.answer + 1].from + MaxFetch + Life(a.url, a.answer)
      BY <2>2, <2>4 DEF CallerRecent
    <3>2. /\ a.answer \in DOMAIN history'[a.url] /\ Life(a.url, a.answer)' = Life(a.url, a.answer)
          /\ a.answer < Len(history'[a.url]) =>
               IF a.answer < Len(history[a.url]) THEN history'[a.url][a.answer + 1] = history[a.url][a.answer + 1]
               ELSE history'[a.url][a.answer + 1].from = clock
      BY <1>8, <3>1
    <3>3. a.when < clock + MaxFetch + Life(a.url, a.answer)
      BY <1>3, <2>2, <3>1 DEF Life
    <3>. QED
      BY <3>1, <3>2, <3>3
  <2>5. CallerRecent(a)'
    BY <1>2, <2>2, <2>3, <2>4 DEF CallerRecent
  <2>. QED
    BY <1>2, <2>1, <2>5 DEF CallerRecent, ReadSince, Life, Up
<1>13. CacheTyped'
  BY <1>2, <1>7 DEF CacheInv, CacheTyped
<1>14. \A v \in Urls : Len(history'[v]) > 0
  <2>1. Len(h) > 0 /\ \A v \in Urls \ {u} : Len(history[v]) > 0
    BY <1>5, <1>6 DEF CacheInv
  <2>. QED
    BY <1>7, <2>1
<1>. QED
  BY <1>11, <1>12, <1>13, <1>14 DEF CacheInv

LEMMA TickRecent ==
  ASSUME CacheInv, CacheTick
  PROVE  CacheInv'
<1>1. clock' = clock + 1 /\ clock < MaxClock /\ UNCHANGED <<history, profileCache, caller>> /\ clock \in Nat
  BY DEF CacheTick, CacheInv, CacheTyped
<1>2. \A i \in DOMAIN profileCache : KeptRecent(profileCache[i])'
  <2>. SUFFICES ASSUME NEW i \in DOMAIN profileCache, NEW e, e = profileCache[i] PROVE KeptRecent(e)'
    BY <1>1 DEF KeptRecent, ReadSince
  <2>1. e \in Kept /\ KeptRecent(e) /\ e.at \in Nat
    BY KeptTypes DEF CacheInv, GoodCache, Kept
  <2>2. e.at <= clock + 1
    BY <1>1, <2>1 DEF KeptRecent
  <2>. QED
    BY <1>1, <2>1, <2>2 DEF KeptRecent, ReadSince
<1>3. GoodCache(profileCache)'
  BY <1>1, <1>2 DEF CacheInv, GoodCache
<1>4. ASSUME NEW c \in Callers PROVE CallerRecent(caller[c])'
  <2>1. PICK a \in CallerState : a = caller[c]
    BY DEF CacheInv, CacheTyped
  <2>2. CallerRecent(a) /\ a.began \in Nat /\ a.when \in Nat
    BY <2>1 DEF CacheInv, CallerState
  <2>3. a.at \in {"fetching", "read"} => clock < a.began + MaxFetch
    BY <2>1 DEF CacheTick
  <2>4. a.at \in {"fetching", "read"} => a.began <= clock + 1 /\ clock + 1 <= a.began + MaxFetch
    BY <1>1, <2>2, <2>3 DEF CallerRecent
  <2>5. a.at = "answered" => a.when <= clock + 1
    BY <1>1, <2>2 DEF CallerRecent
  <2>6. CallerRecent(a)'
    BY <1>1, <2>2, <2>4, <2>5 DEF CallerRecent, ReadSince, Life, Up
  <2>. QED
    BY <1>1, <2>1, <2>6 DEF CallerRecent, ReadSince, Life, Up
<1>5. CacheTyped'
  BY <1>1 DEF CacheInv, CacheTyped
<1>. QED
  BY <1>1, <1>3, <1>4, <1>5 DEF CacheInv

LEMMA CacheStart == CacheInit => CacheInv
<1>. SUFFICES ASSUME CacheInit PROVE CacheInv
  OBVIOUS
<1>1. /\ clock = 0 /\ history = [u \in Urls |-> <<[up |-> TRUE, from |-> 0]>>] /\ profileCache = <<>>
      /\ caller = [c \in Callers |-> Asleep]
  BY DEF CacheInit
<1>2. PICK h : h = <<[up |-> TRUE, from |-> 0]>>
  OBVIOUS
<1>3. h \in Seq(Served) /\ Len(h) = 1
  BY <1>2 DEF Served
<1>4. Asleep \in CallerState /\ CallerRecent(Asleep)
  BY DEF Asleep, CallerState, CallerRecent
<1>5. profileCache \in Seq(Kept) /\ Len(profileCache) = 0 /\ DOMAIN profileCache = {}
  BY <1>1, EmptySeq, LenProperties
<1>6. GoodCache(profileCache)
  BY <1>5 DEF GoodCache, Once
<1>. QED
  BY <1>1, <1>2, <1>3, <1>4, <1>5, <1>6 DEF CacheInv, CacheTyped

LEMMA CacheStep == CacheInv /\ [CacheNext]_cacheVars => CacheInv'
<1>. SUFFICES ASSUME CacheInv, [CacheNext]_cacheVars PROVE CacheInv'
  OBVIOUS
<1>1. CASE UNCHANGED cacheVars
  BY <1>1 DEF cacheVars, CacheInv, CacheTyped, GoodCache, KeptRecent, CallerRecent, ReadSince, Life, Up
<1>2. CASE CacheNext
  BY <1>2, AskRecent, ReadRecent, StoreRecent, LeaveRecent, ServeRecent, TickRecent DEF CacheNext
<1>. QED
  BY <1>1, <1>2

LEMMA RecentSafe == CacheInv => CacheSafe
<1>. SUFFICES ASSUME CacheInv PROVE CacheSafe
  OBVIOUS
<1>1. CacheTypeOK
  <2>1. GoodCache(profileCache) /\ clock \in 0 .. MaxClock /\ caller \in [Callers -> CallerState]
    BY DEF CacheInv, CacheTyped
  <2>2. ASSUME NEW i \in DOMAIN profileCache
        PROVE  /\ profileCache[i].url \in Urls /\ profileCache[i].at <= clock
               /\ profileCache[i].read \in DOMAIN history[profileCache[i].url]
    BY <2>1, KeptTypes DEF GoodCache, Kept, KeptRecent, ReadSince
  <2>3. \A c \in Callers : caller[c].at \in {"idle", "fetching", "read", "answered"}
    BY <2>1 DEF CallerState
  <2>. QED
    BY <2>1, <2>2, <2>3 DEF CacheTypeOK, GoodCache, Once
<1>2. AnswersRecent
  BY DEF CacheInv, CallerRecent, AnswersRecent, Life
<1>. QED
  BY <1>1, <1>2 DEF CacheSafe

\* fetchCidDocument: for any lifetimes, any number of hosts and of callers that miss together, the
\* Map keeps its bounds, and what a caller is told was so within the lifetime and one fetch.
THEOREM CacheSafeTheorem == CacheSpec => []CacheSafe
<1>. QED
  BY CacheStart, CacheStep, RecentSafe, PTL DEF CacheSpec
HIDE CacheAssumption
-----------------------------------------------------------------------------
(* Patch. Folds over sequences: step[<<n, x>>] is what the n-th element    *)
(* makes of x.                                                             *)

\* The largest element is what FoldLeft takes first.
OneLess(base, step, g, s) == IF s = {} THEN base ELSE step[<<Max(s), g[s \ {Max(s)}]>>]

FoldsUpTo(N, U, base, step, n, g) ==
  /\ g \in [SUBSET (1 .. N) -> U]
  /\ \A s \in SUBSET (1 .. n) : g[s] = OneLess(base, step, g, s)

LEMMA MaxOf ==
  ASSUME NEW N \in Nat, NEW s \in SUBSET (1 .. N), s # {}
  PROVE  Max(s) \in s /\ \A x \in s : x <= Max(s)
<1>. DEFINE F == {n \in 0 .. N : \A x \in s : x <= n}
<1>1. N \in F
  OBVIOUS
<1>2. F # {} /\ F \subseteq Nat
  BY <1>1
<1>3. PICK n \in F : \A k \in F : n <= k
  <2>. HIDE DEF F
  <2>. QED
    BY <1>2, SmallestNumber
<1>4. n \in s
  <2>. SUFFICES ASSUME n \notin s PROVE FALSE
    OBVIOUS
  <2>1. \A x \in s : x <= n - 1 /\ 1 <= x
    BY <1>3
  <2>2. PICK x \in s : TRUE
    OBVIOUS
  <2>3. n \in 0 .. N /\ x \in 1 .. N /\ x <= n - 1
    BY <2>1, <2>2
  <2>4. n - 1 \in 0 .. N
    BY <2>3
  <2>5. n - 1 \in F
    BY <2>1, <2>4
  <2>. QED
    BY <1>3, <2>3, <2>5
<1>5. \E m \in s : \A x \in s : m >= x
  BY <1>3, <1>4
<1>. QED
  BY <1>5 DEF Max

LEMMA FoldExists ==
  ASSUME NEW N \in Nat, NEW U, NEW base \in U, NEW step \in [(1 .. N) \X U -> U]
  PROVE  \E g : FoldsUpTo(N, U, base, step, N, g)
<1>. DEFINE Good == {n \in Nat : n <= N => \E g : FoldsUpTo(N, U, base, step, n, g)}
<1>1. 0 \in Good
  <2>. DEFINE g == [s \in SUBSET (1 .. N) |-> base]
  <2>1. \A s \in SUBSET (1 .. 0) : s = {} /\ s \in SUBSET (1 .. N)
    OBVIOUS
  <2>2. \A s \in SUBSET (1 .. 0) : g[s] = OneLess(base, step, g, s)
    BY <2>1 DEF OneLess
  <2>3. g \in [SUBSET (1 .. N) -> U]
    OBVIOUS
  <2>4. FoldsUpTo(N, U, base, step, 0, g)
    BY <2>2, <2>3 DEF FoldsUpTo
  <2>. QED
    BY <2>4
<1>2. ASSUME NEW n \in Nat, n \in Good PROVE n + 1 \in Good
  <2>1. SUFFICES ASSUME n + 1 <= N
                 PROVE  \E h : FoldsUpTo(N, U, base, step, n + 1, h)
    OBVIOUS
  <2>2. PICK g : FoldsUpTo(N, U, base, step, n, g)
    BY <1>2, <2>1
  <2>. DEFINE h == [s \in SUBSET (1 .. N) |-> OneLess(base, step, g, s)]
  <2>3. ASSUME NEW s \in SUBSET (1 .. n + 1) PROVE h[s] = OneLess(base, step, h, s)
    <3>1. s \in SUBSET (1 .. N) /\ n + 1 \in Nat
      BY <2>1
    <3>2. CASE s = {}
      BY <3>1, <3>2 DEF OneLess
    <3>3. CASE s # {}
      <4>1. Max(s) \in s /\ \A x \in s : x <= Max(s)
        BY <3>1, <3>3, MaxOf
      <4>2. PICK m, t : m = Max(s) /\ t = s \ {m}
        OBVIOUS
      <4>3. t \in SUBSET (1 .. n) /\ t \in SUBSET (1 .. N)
        <5>1. ASSUME NEW x \in t PROVE x \in 1 .. n
          <6>1. x \in 1 .. n + 1 /\ m \in 1 .. n + 1 /\ x <= m /\ x # m
            BY <4>1, <4>2
          <6>. QED
            BY <6>1
        <5>. QED
          BY <3>1, <4>2, <5>1
      <4>4. h[t] = g[t]
        BY <2>2, <4>3 DEF FoldsUpTo
      <4>. QED
        BY <3>1, <3>3, <4>2, <4>4 DEF OneLess
    <3>. QED
      BY <3>2, <3>3
  <2>4. h \in [SUBSET (1 .. N) -> U]
    <3>1. SUFFICES ASSUME NEW s \in SUBSET (1 .. N) PROVE OneLess(base, step, g, s) \in U
      OBVIOUS
    <3>2. CASE s = {}
      BY <3>2 DEF OneLess
    <3>3. CASE s # {}
      <4>1. Max(s) \in 1 .. N /\ s \ {Max(s)} \in SUBSET (1 .. N)
        BY <3>3, MaxOf
      <4>. QED
        BY <2>2, <3>3, <4>1 DEF FoldsUpTo, OneLess
    <3>. QED
      BY <3>2, <3>3
  <2>. HIDE DEF h
  <2>. QED
    BY <2>3, <2>4 DEF FoldsUpTo
<1>3. N \in Good
  <2>1. Nat \subseteq Good
    <3>1. \A n \in Nat : n \in Good => n + 1 \in Good
      BY <1>2
    <3>. HIDE DEF Good
    <3>. QED
      BY <1>1, <3>1, NatSetInduction
  <2>. QED
    BY <2>1
<1>. QED
  BY <1>3

LEMMA FirstNumbers ==
  ASSUME NEW N \in Nat, NEW n \in 1 .. N
  PROVE  /\ 1 .. n \in SUBSET (1 .. N) /\ 1 .. n # {} /\ Max(1 .. n) = n
         /\ (1 .. n) \ {n} = 1 .. n - 1 /\ 1 .. n - 1 \in SUBSET (1 .. N)
<1>1. PICK s : s = 1 .. n
  OBVIOUS
<1>2. s \in SUBSET (1 .. N) /\ s # {} /\ n \in s /\ \A x \in s : x <= n
  BY <1>1
<1>3. Max(s) \in s /\ \A x \in s : x <= Max(s)
  BY <1>2, MaxOf
<1>4. Max(s) = n
  BY <1>1, <1>2, <1>3
<1>. QED
  BY <1>1, <1>2, <1>4

\* Without: one delete after the other.
LEMMA WithoutFolds ==
  ASSUME NEW S, NEW quads \in Seq(S), NEW deletes \in Seq(S),
         \A s \in Seq(S), e \in S : RemoveFirst(s, e) \in Seq(S)
  PROVE  \E r : /\ r[0] = quads /\ r[Len(deletes)] = Without(quads, deletes)
                /\ \A n \in 1 .. Len(deletes) : r[n] = RemoveFirst(r[n - 1], deletes[n])
<1>. DEFINE N == Len(deletes)
            step == [z \in (1 .. N) \X Seq(S) |-> RemoveFirst(z[2], deletes[z[1]])]
            Next(g, s) == IF s = {} THEN quads ELSE RemoveFirst(g[s \ {Max(s)}], deletes[Max(s)])
            iter == CHOOSE g : g = [s \in SUBSET (DOMAIN deletes) |-> Next(g, s)]
<1>1. N \in Nat /\ DOMAIN deletes = 1 .. N
  OBVIOUS
<1>2. \E g : g = [s \in SUBSET (1 .. N) |-> Next(g, s)]
  <2>1. step \in [(1 .. N) \X Seq(S) -> Seq(S)]
    BY <1>1
  <2>2. PICK g : FoldsUpTo(N, Seq(S), quads, step, N, g)
    <3>. HIDE DEF step, N
    <3>. QED
      BY <1>1, <2>1, FoldExists
  <2>3. ASSUME NEW s \in SUBSET (1 .. N) PROVE OneLess(quads, step, g, s) = Next(g, s)
    <3>1. CASE s = {}
      BY <3>1 DEF OneLess
    <3>2. CASE s # {}
      <4>1. PICK m, t : m = Max(s) /\ t = s \ {m}
        OBVIOUS
      <4>2. m \in 1 .. N /\ t \in SUBSET (1 .. N)
        BY <1>1, <3>2, <4>1, MaxOf
      <4>3. step[<<m, g[t]>>] = RemoveFirst(g[t], deletes[m])
        BY <2>2, <4>2 DEF FoldsUpTo
      <4>. QED
        BY <3>2, <4>1, <4>3 DEF OneLess
    <3>. QED
      BY <3>1, <3>2
  <2>4. g = [s \in SUBSET (1 .. N) |-> Next(g, s)]
    <3>. HIDE DEF Next, step, N
    <3>. QED
      BY <2>2, <2>3 DEF FoldsUpTo
  <2>. QED
    BY <2>4
<1>3. iter = [s \in SUBSET (1 .. N) |-> Next(iter, s)]
  <2>. HIDE DEF Next, N
  <2>. QED
    BY <1>1, <1>2
<1>4. Without(quads, deletes) = iter[DOMAIN deletes]
  BY DEF Without, FoldLeft, MapThenFoldSet
<1>. DEFINE r == [n \in 0 .. N |-> iter[1 .. n]]
<1>5. r[0] = quads
  <2>1. 1 .. 0 = {} /\ {} \in SUBSET (1 .. N) /\ 0 \in 0 .. N
    BY <1>1
  <2>2. iter[{}] = quads
    <3>. HIDE DEF iter, N
    <3>. QED
      BY <1>3, <2>1
  <2>. HIDE DEF iter
  <2>. QED
    BY <2>1, <2>2
<1>6. ASSUME NEW n \in 1 .. N PROVE r[n] = RemoveFirst(r[n - 1], deletes[n])
  <2>1. PICK s, t : s = 1 .. n /\ t = 1 .. n - 1
    OBVIOUS
  <2>2. s \in SUBSET (1 .. N) /\ s # {} /\ Max(s) = n /\ s \ {n} = t
    BY <1>1, <2>1, FirstNumbers
  <2>3. iter[s] = RemoveFirst(iter[t], deletes[n])
    <3>. HIDE DEF iter, N
    <3>. QED
      BY <1>3, <2>2
  <2>4. n \in 0 .. N /\ n - 1 \in 0 .. N
    BY <1>1
  <2>. HIDE DEF iter, N
  <2>. QED
    BY <2>1, <2>3, <2>4
<1>7. r[N] = iter[1 .. N]
  <2>. HIDE DEF iter
  <2>. QED
    BY <1>1
<1>. HIDE DEF r, iter
<1>. QED
  BY <1>1, <1>4, <1>5, <1>6, <1>7

\* With: one insert after the other.
Inserted(qs, i) == IF Contains(qs, i) THEN qs ELSE Append(qs, i)

LEMMA WithFolds ==
  ASSUME NEW S, NEW quads \in Seq(S), NEW inserts \in Seq(S)
  PROVE  \E r : /\ r[0] = quads /\ r[Len(inserts)] = With(quads, inserts)
                /\ \A n \in 1 .. Len(inserts) : r[n] = Inserted(r[n - 1], inserts[n])
<1>. DEFINE N == Len(inserts)
            step == [z \in (1 .. N) \X Seq(S) |-> Inserted(z[2], inserts[z[1]])]
            Next(g, s) == IF s = {} THEN quads ELSE Inserted(g[s \ {Max(s)}], inserts[Max(s)])
            iter == CHOOSE g : g = [s \in SUBSET (DOMAIN inserts) |-> Next(g, s)]
<1>1. N \in Nat /\ DOMAIN inserts = 1 .. N
  OBVIOUS
<1>2. \E g : g = [s \in SUBSET (1 .. N) |-> Next(g, s)]
  <2>1. step \in [(1 .. N) \X Seq(S) -> Seq(S)]
    BY <1>1 DEF Inserted
  <2>2. PICK g : FoldsUpTo(N, Seq(S), quads, step, N, g)
    <3>. HIDE DEF step, N
    <3>. QED
      BY <1>1, <2>1, FoldExists
  <2>3. ASSUME NEW s \in SUBSET (1 .. N) PROVE OneLess(quads, step, g, s) = Next(g, s)
    <3>1. CASE s = {}
      BY <3>1 DEF OneLess
    <3>2. CASE s # {}
      <4>1. PICK m, t : m = Max(s) /\ t = s \ {m}
        OBVIOUS
      <4>2. m \in 1 .. N /\ t \in SUBSET (1 .. N)
        BY <1>1, <3>2, <4>1, MaxOf
      <4>3. step[<<m, g[t]>>] = Inserted(g[t], inserts[m])
        BY <2>2, <4>2 DEF FoldsUpTo
      <4>. QED
        BY <3>2, <4>1, <4>3 DEF OneLess
    <3>. QED
      BY <3>1, <3>2
  <2>4. g = [s \in SUBSET (1 .. N) |-> Next(g, s)]
    <3>. HIDE DEF Next, step, N
    <3>. QED
      BY <2>2, <2>3 DEF FoldsUpTo
  <2>. QED
    BY <2>4
<1>3. iter = [s \in SUBSET (1 .. N) |-> Next(iter, s)]
  <2>. HIDE DEF Next, N
  <2>. QED
    BY <1>1, <1>2
<1>4. With(quads, inserts) = iter[DOMAIN inserts]
  BY DEF With, FoldLeft, MapThenFoldSet, Inserted
<1>. DEFINE r == [n \in 0 .. N |-> iter[1 .. n]]
<1>5. r[0] = quads
  <2>1. 1 .. 0 = {} /\ {} \in SUBSET (1 .. N) /\ 0 \in 0 .. N
    BY <1>1
  <2>2. iter[{}] = quads
    <3>. HIDE DEF iter, N
    <3>. QED
      BY <1>3, <2>1
  <2>. HIDE DEF iter
  <2>. QED
    BY <2>1, <2>2
<1>6. ASSUME NEW n \in 1 .. N PROVE r[n] = Inserted(r[n - 1], inserts[n])
  <2>1. PICK s, t : s = 1 .. n /\ t = 1 .. n - 1
    OBVIOUS
  <2>2. s \in SUBSET (1 .. N) /\ s # {} /\ Max(s) = n /\ s \ {n} = t
    BY <1>1, <2>1, FirstNumbers
  <2>3. iter[s] = Inserted(iter[t], inserts[n])
    <3>. HIDE DEF iter, N
    <3>. QED
      BY <1>3, <2>2
  <2>4. n \in 0 .. N /\ n - 1 \in 0 .. N
    BY <1>1
  <2>. HIDE DEF iter, N
  <2>. QED
    BY <2>1, <2>3, <2>4
<1>7. r[N] = iter[1 .. N]
  <2>. HIDE DEF iter
  <2>. QED
    BY <1>1
<1>. HIDE DEF r, iter
<1>. QED
  BY <1>1, <1>4, <1>5, <1>6, <1>7

\* Solutions: one pattern after the other.
MatchAll(bs, w, quads) == UNION {Matches(w, q, b) : q \in ToSet(quads), b \in bs}

LEMMA SolutionsFold ==
  ASSUME NEW S, NEW where \in Seq(S), NEW quads, NEW V, <<>> \in V,
         \A w \in S, q \in ToSet(quads), b \in V : Matches(w, q, b) \subseteq V
  PROVE  \E r : /\ r[0] = {<<>>} /\ r[Len(where)] = Solutions(where, quads)
                /\ \A n \in 1 .. Len(where) : r[n] = MatchAll(r[n - 1], where[n], quads)
<1>. DEFINE N == Len(where)
            step == [z \in (1 .. N) \X SUBSET V |-> MatchAll(z[2], where[z[1]], quads)]
            Next(g, s) == IF s = {} THEN {<<>>} ELSE MatchAll(g[s \ {Max(s)}], where[Max(s)], quads)
            iter == CHOOSE g : g = [s \in SUBSET (DOMAIN where) |-> Next(g, s)]
<1>1. N \in Nat /\ DOMAIN where = 1 .. N
  OBVIOUS
<1>2. \E g : g = [s \in SUBSET (1 .. N) |-> Next(g, s)]
  <2>1. step \in [(1 .. N) \X SUBSET V -> SUBSET V]
    BY <1>1 DEF MatchAll
  <2>2. PICK g : FoldsUpTo(N, SUBSET V, {<<>>}, step, N, g)
    <3>. HIDE DEF step, N
    <3>. QED
      BY <1>1, <2>1, FoldExists
  <2>3. ASSUME NEW s \in SUBSET (1 .. N) PROVE OneLess({<<>>}, step, g, s) = Next(g, s)
    <3>1. CASE s = {}
      BY <3>1 DEF OneLess
    <3>2. CASE s # {}
      <4>1. PICK m, t : m = Max(s) /\ t = s \ {m}
        OBVIOUS
      <4>2. m \in 1 .. N /\ t \in SUBSET (1 .. N)
        BY <1>1, <3>2, <4>1, MaxOf
      <4>3. step[<<m, g[t]>>] = MatchAll(g[t], where[m], quads)
        BY <2>2, <4>2 DEF FoldsUpTo
      <4>. QED
        BY <3>2, <4>1, <4>3 DEF OneLess
    <3>. QED
      BY <3>1, <3>2
  <2>4. g = [s \in SUBSET (1 .. N) |-> Next(g, s)]
    <3>. HIDE DEF Next, step, N
    <3>. QED
      BY <2>2, <2>3 DEF FoldsUpTo
  <2>. QED
    BY <2>4
<1>3. iter = [s \in SUBSET (1 .. N) |-> Next(iter, s)]
  <2>. HIDE DEF Next, N
  <2>. QED
    BY <1>1, <1>2
<1>4. Solutions(where, quads) = iter[DOMAIN where]
  BY DEF Solutions, FoldLeft, MapThenFoldSet, MatchAll
<1>. DEFINE r == [n \in 0 .. N |-> iter[1 .. n]]
<1>5. r[0] = {<<>>}
  <2>1. 1 .. 0 = {} /\ {} \in SUBSET (1 .. N) /\ 0 \in 0 .. N
    BY <1>1
  <2>2. iter[{}] = {<<>>}
    <3>. HIDE DEF iter, N
    <3>. QED
      BY <1>3, <2>1
  <2>. HIDE DEF iter
  <2>. QED
    BY <2>1, <2>2
<1>6. ASSUME NEW n \in 1 .. N PROVE r[n] = MatchAll(r[n - 1], where[n], quads)
  <2>1. PICK s, t : s = 1 .. n /\ t = 1 .. n - 1
    OBVIOUS
  <2>2. s \in SUBSET (1 .. N) /\ s # {} /\ Max(s) = n /\ s \ {n} = t
    BY <1>1, <2>1, FirstNumbers
  <2>3. iter[s] = MatchAll(iter[t], where[n], quads)
    <3>. HIDE DEF iter, N
    <3>. QED
      BY <1>3, <2>2
  <2>4. n \in 0 .. N /\ n - 1 \in 0 .. N
    BY <1>1
  <2>. HIDE DEF iter, N
  <2>. QED
    BY <2>1, <2>3, <2>4
<1>7. r[N] = iter[1 .. N]
  <2>. HIDE DEF iter
  <2>. QED
    BY <1>1
<1>. HIDE DEF r, iter
<1>. QED
  BY <1>1, <1>4, <1>5, <1>6, <1>7

\* FlattenSeq: the sequences one after the other.
LEMMA FlattenFolds ==
  ASSUME NEW S, NEW seqs \in Seq(Seq(S))
  PROVE  \E r : /\ r[0] = <<>> /\ r[Len(seqs)] = FlattenSeq(seqs)
                /\ \A n \in 1 .. Len(seqs) : r[n] = r[n - 1] \o seqs[n]
<1>. DEFINE N == Len(seqs)
            step == [z \in (1 .. N) \X Seq(S) |-> z[2] \o seqs[z[1]]]
            Next(f, i) == IF i = 1 THEN seqs[i] ELSE f[i - 1] \o seqs[i]
            flatten == CHOOSE f : f = [i \in 1 .. Len(seqs) |-> Next(f, i)]
<1>1. N \in Nat /\ DOMAIN seqs = 1 .. N /\ \A n \in 1 .. N : seqs[n] \in Seq(S)
  OBVIOUS
<1>2. \E f : f = [i \in 1 .. Len(seqs) |-> Next(f, i)]
  <2>1. step \in [(1 .. N) \X Seq(S) -> Seq(S)]
    BY <1>1
  <2>2. PICK g : FoldsUpTo(N, Seq(S), <<>>, step, N, g)
    <3>1. <<>> \in Seq(S)
      OBVIOUS
    <3>. HIDE DEF step, N
    <3>. QED
      BY <1>1, <2>1, <3>1, FoldExists
  <2>. DEFINE f == [i \in 1 .. Len(seqs) |-> g[1 .. i]]
  <2>3. ASSUME NEW i \in 1 .. N PROVE g[1 .. i] = g[1 .. i - 1] \o seqs[i] /\ g[1 .. i] \in Seq(S)
    <3>1. PICK s, t : s = 1 .. i /\ t = 1 .. i - 1
      OBVIOUS
    <3>2. s \in SUBSET (1 .. N) /\ s # {} /\ Max(s) = i /\ s \ {i} = t /\ t \in SUBSET (1 .. N)
      BY <1>1, <3>1, FirstNumbers
    <3>3. g[s] = step[<<i, g[t]>>] /\ g[t] \in Seq(S) /\ g[s] \in Seq(S)
      <4>. HIDE DEF step, N
      <4>. QED
        BY <2>2, <3>2 DEF FoldsUpTo, OneLess
    <3>. QED
      BY <3>1, <3>3
  <2>4. ASSUME NEW i \in 1 .. N PROVE f[i] = Next(f, i)
    <3>1. CASE i = 1
      <4>1. 1 .. i - 1 = {} /\ {} \in SUBSET (1 .. N)
        BY <3>1
      <4>2. g[{}] = <<>>
        <5>. HIDE DEF step, N
        <5>. QED
          BY <2>2, <4>1 DEF FoldsUpTo, OneLess
      <4>3. g[1 .. i] = <<>> \o seqs[i]
        BY <2>3, <4>1, <4>2
      <4>. QED
        BY <1>1, <3>1, <4>3
    <3>2. CASE i # 1
      <4>1. i - 1 \in 1 .. N
        BY <1>1, <3>2
      <4>. QED
        BY <2>3, <3>2, <4>1
    <3>. QED
      BY <3>1, <3>2
  <2>5. f = [i \in 1 .. Len(seqs) |-> Next(f, i)]
    BY <2>4
  <2>. HIDE DEF f, Next
  <2>. QED
    BY <2>5
<1>3. flatten = [i \in 1 .. Len(seqs) |-> Next(flatten, i)]
  <2>. HIDE DEF Next, N
  <2>. QED
    BY <1>2
<1>4. FlattenSeq(seqs) = IF Len(seqs) = 0 THEN seqs ELSE flatten[Len(seqs)]
  BY DEF FlattenSeq
<1>. DEFINE r == [n \in 0 .. N |-> IF n = 0 THEN <<>> ELSE flatten[n]]
<1>5. r[0] = <<>> /\ r[N] = FlattenSeq(seqs)
  <2>1. Len(seqs) = 0 => seqs = <<>>
    OBVIOUS
  <2>. HIDE DEF flatten
  <2>. QED
    BY <1>1, <1>4, <2>1
<1>6. ASSUME NEW n \in 1 .. N PROVE r[n] = r[n - 1] \o seqs[n]
  <2>1. n \in 0 .. N /\ n - 1 \in 0 .. N /\ n # 0 /\ seqs[n] \in Seq(S)
    BY <1>1
  <2>2. flatten[n] = IF n = 1 THEN seqs[n] ELSE flatten[n - 1] \o seqs[n]
    <3>. HIDE DEF flatten
    <3>. QED
      BY <1>3
  <2>. HIDE DEF flatten, N
  <2>3. CASE n = 1
    <3>1. <<>> \o seqs[n] = seqs[n]
      BY <2>1
    <3>. QED
      BY <2>1, <2>2, <2>3, <3>1
  <2>4. CASE n # 1
    <3>1. n - 1 # 0
      BY <2>1, <2>4
    <3>. QED
      BY <2>1, <2>2, <2>4, <3>1
  <2>. QED
    BY <2>3, <2>4
<1>. HIDE DEF r, flatten
<1>. QED
  BY <1>1, <1>5, <1>6

LEMMA RemoveAtParts ==
  ASSUME NEW S, NEW s \in Seq(S), NEW i \in 1 .. Len(s)
  PROVE  /\ RemoveAt(s, i) \in Seq(S) /\ Len(RemoveAt(s, i)) = Len(s) - 1
         /\ \A k \in 1 .. Len(s) - 1 : RemoveAt(s, i)[k] = IF k < i THEN s[k] ELSE s[k + 1]
<1>1. PICK a, b : a = SubSeq(s, 1, i - 1) /\ b = SubSeq(s, i + 1, Len(s))
  OBVIOUS
<1>2. a \in Seq(S) /\ Len(a) = i - 1 /\ \A k \in 1 .. i - 1 : a[k] = s[k]
  BY <1>1
<1>3. b \in Seq(S) /\ Len(b) = Len(s) - i /\ \A k \in 1 .. Len(s) - i : b[k] = s[i + k]
  BY <1>1
<1>4. RemoveAt(s, i) = a \o b
  BY <1>1 DEF RemoveAt
<1>5. a \o b \in Seq(S) /\ Len(a \o b) = Len(s) - 1
  <2>1. a \o b \in Seq(S) /\ Len(a \o b) = Len(a) + Len(b)
    BY <1>2, <1>3, ConcatProperties
  <2>2. Len(s) \in Nat /\ i \in Nat
    OBVIOUS
  <2>3. (i - 1) + (Len(s) - i) = Len(s) - 1
    BY <2>2
  <2>. QED
    BY <1>2, <1>3, <2>1, <2>3
<1>6. ASSUME NEW k \in 1 .. Len(s) - 1
      PROVE  (a \o b)[k] = IF k < i THEN s[k] ELSE s[k + 1]
  <2>1. CASE k < i
    BY <1>2, <1>3, <2>1
  <2>2. CASE ~ (k < i)
    <3>1. (a \o b)[k] = b[k - (i - 1)] /\ k - (i - 1) \in 1 .. Len(s) - i
      BY <1>2, <1>3, <2>2
    <3>2. b[k - (i - 1)] = s[i + (k - (i - 1))] /\ i + (k - (i - 1)) = k + 1
      BY <1>3, <3>1
    <3>. QED
      BY <2>2, <3>1, <3>2
  <2>. QED
    BY <2>1, <2>2
<1>. QED
  BY <1>4, <1>5, <1>6

\* A triple that is there once is not there any more.
LEMMA RemoveFirstIs ==
  ASSUME NEW S, NEW s \in Seq(S), NEW e
  PROVE  /\ RemoveFirst(s, e) \in Seq(S)
         /\ IsInjective(s) => /\ IsInjective(RemoveFirst(s, e))
                              /\ ToSet(RemoveFirst(s, e)) = ToSet(s) \ {e}
<1>1. CASE ~ \E i \in 1 .. Len(s) : s[i] = e
  BY <1>1 DEF RemoveFirst, ToSet
<1>2. CASE \E i \in 1 .. Len(s) : s[i] = e
  <2>. DEFINE I == {i \in 1 .. Len(s) : s[i] = e}
  <2>1. PICK m : m = Min(I)
    OBVIOUS
  <2>2. m \in I
    <3>1. I # {} /\ I \subseteq Nat
      BY <1>2
    <3>2. PICK n \in I : \A k \in I : n <= k
      <4>. HIDE DEF I
      <4>. QED
        BY <3>1, SmallestNumber
    <3>3. \E k \in I : \A j \in I : k <= j
      BY <3>2
    <3>. QED
      BY <2>1, <3>3 DEF Min
  <2>3. RemoveFirst(s, e) = RemoveAt(s, m)
    BY <1>2, <2>1 DEF RemoveFirst, SelectInSeq
  <2>4. PICK r : r = RemoveAt(s, m)
    OBVIOUS
  <2>5. /\ r \in Seq(S) /\ Len(r) = Len(s) - 1
        /\ \A k \in 1 .. Len(s) - 1 : r[k] = IF k < m THEN s[k] ELSE s[k + 1]
    BY <2>2, <2>4, RemoveAtParts
  <2>6. PICK f : \A k \in 1 .. Len(s) - 1 : f[k] = IF k < m THEN k ELSE k + 1
    <3>. DEFINE f == [k \in 1 .. Len(s) - 1 |-> IF k < m THEN k ELSE k + 1]
    <3>1. \A k \in 1 .. Len(s) - 1 : f[k] = IF k < m THEN k ELSE k + 1
      OBVIOUS
    <3>. HIDE DEF f
    <3>. QED
      BY <3>1
  <2>7. m \in 1 .. Len(s) /\ s[m] = e /\ Len(s) \in Nat /\ DOMAIN s = 1 .. Len(s) /\ DOMAIN r = 1 .. Len(s) - 1
    BY <2>2, <2>5
  <2>8. \A k \in 1 .. Len(s) - 1 : r[k] = s[f[k]] /\ f[k] \in 1 .. Len(s) /\ f[k] # m
    BY <2>5, <2>6, <2>7
  <2>9. \A j, k \in 1 .. Len(s) - 1 : f[j] = f[k] => j = k
    BY <2>6, <2>7
  <2>10. \A i \in 1 .. Len(s) : i # m => \E k \in 1 .. Len(s) - 1 : f[k] = i
    <3>1. SUFFICES ASSUME NEW i \in 1 .. Len(s), i # m PROVE \E k \in 1 .. Len(s) - 1 : f[k] = i
      OBVIOUS
    <3>2. CASE i < m
      BY <2>6, <2>7, <3>2
    <3>3. CASE i > m
      <4>1. i - 1 \in 1 .. Len(s) - 1 /\ ~ (i - 1 < m) /\ (i - 1) + 1 = i
        BY <2>7, <3>3
      <4>. QED
        BY <2>6, <4>1
    <3>. QED
      BY <2>7, <3>1, <3>2, <3>3
  <2>11. ASSUME IsInjective(s) PROVE IsInjective(r) /\ ToSet(r) = ToSet(s) \ {e}
    <3>1. IsInjective(r)
      BY <2>7, <2>8, <2>9, <2>11 DEF IsInjective
    <3>2. ASSUME NEW k \in DOMAIN r PROVE r[k] \in ToSet(s) \ {e}
      BY <2>7, <2>8, <2>11 DEF IsInjective, ToSet
    <3>3. ASSUME NEW x \in ToSet(s) \ {e} PROVE x \in ToSet(r)
      <4>1. PICK i \in 1 .. Len(s) : x = s[i] /\ i # m
        BY <2>7 DEF ToSet
      <4>2. PICK k \in 1 .. Len(s) - 1 : f[k] = i
        BY <2>10, <4>1
      <4>. QED
        BY <2>7, <2>8, <4>1, <4>2 DEF ToSet
    <3>. QED
      BY <3>1, <3>2, <3>3 DEF ToSet
  <2>. QED
    BY <2>3, <2>4, <2>5, <2>11
<1>. QED
  BY <1>1, <1>2
LEMMA WithoutSteps ==
  ASSUME NEW S, NEW quads \in Seq(S), NEW deletes \in Seq(S)
  PROVE  \E r : /\ r[0] = quads /\ r[Len(deletes)] = Without(quads, deletes)
                /\ \A n \in 1 .. Len(deletes) : r[n] = RemoveFirst(r[n - 1], deletes[n])
<1>1. \A s \in Seq(S), e \in S : RemoveFirst(s, e) \in Seq(S)
  BY RemoveFirstIs
<1>. QED
  BY <1>1, WithoutFolds

LEMMA WithoutIs ==
  ASSUME NEW S, NEW quads \in Seq(S), NEW deletes \in Seq(S)
  PROVE  /\ Without(quads, deletes) \in Seq(S)
         /\ IsInjective(quads) => ToSet(Without(quads, deletes)) = ToSet(quads) \ ToSet(deletes)
<1>1. PICK N \in Nat : N = Len(deletes) /\ DOMAIN deletes = 1 .. N
  OBVIOUS
<1>2. PICK r : /\ r[0] = quads /\ r[N] = Without(quads, deletes)
               /\ \A n \in 1 .. N : r[n] = RemoveFirst(r[n - 1], deletes[n])
  <2>2. \E r : /\ r[0] = quads /\ r[Len(deletes)] = Without(quads, deletes)
              /\ \A n \in 1 .. Len(deletes) : r[n] = RemoveFirst(r[n - 1], deletes[n])
    BY WithoutSteps
  <2>. QED
    BY <1>1, <2>2
<1>. DEFINE Gone(n) == {deletes[k] : k \in 1 .. n}
            T == {n \in Nat : n <= N => /\ r[n] \in Seq(S)
                                        /\ IsInjective(quads) => /\ IsInjective(r[n])
                                                                 /\ ToSet(r[n]) = ToSet(quads) \ Gone(n)}
<1>3. 0 \in T
  <2>1. Gone(0) = {}
    OBVIOUS
  <2>. HIDE DEF Gone
  <2>. QED
    BY <1>2, <2>1
<1>4. ASSUME NEW n \in Nat, n \in T PROVE n + 1 \in T
  <2>1. SUFFICES ASSUME n + 1 <= N
                 PROVE  /\ r[n + 1] \in Seq(S)
                        /\ IsInjective(quads) => /\ IsInjective(r[n + 1])
                                                 /\ ToSet(r[n + 1]) = ToSet(quads) \ Gone(n + 1)
    OBVIOUS
  <2>2. n + 1 \in 1 .. N /\ (n + 1) - 1 = n /\ n <= N
    BY <2>1
  <2>3. r[n + 1] = RemoveFirst(r[n], deletes[n + 1])
    BY <1>2, <2>2
  <2>4. /\ r[n] \in Seq(S)
        /\ IsInjective(quads) => IsInjective(r[n]) /\ ToSet(r[n]) = ToSet(quads) \ Gone(n)
    BY <1>4, <2>2
  <2>5. Gone(n + 1) = Gone(n) \cup {deletes[n + 1]}
    OBVIOUS
  <2>. HIDE DEF Gone, T
  <2>6. /\ RemoveFirst(r[n], deletes[n + 1]) \in Seq(S)
        /\ IsInjective(r[n]) => /\ IsInjective(RemoveFirst(r[n], deletes[n + 1]))
                                /\ ToSet(RemoveFirst(r[n], deletes[n + 1])) = ToSet(r[n]) \ {deletes[n + 1]}
    BY <2>4, RemoveFirstIs
  <2>. QED
    BY <2>3, <2>4, <2>5, <2>6
<1>5. N \in T
  <2>1. Nat \subseteq T
    <3>. HIDE DEF T
    <3>. QED
      BY <1>3, <1>4, NatSetInduction
  <2>. QED
    BY <2>1
<1>6. Gone(N) = ToSet(deletes)
  BY <1>1 DEF ToSet
<1>7. r[N] \in Seq(S) /\ (IsInjective(quads) => ToSet(r[N]) = ToSet(quads) \ Gone(N))
  BY <1>5
<1>. HIDE DEF Gone
<1>. QED
  BY <1>2, <1>6, <1>7

LEMMA InsertedIs ==
  ASSUME NEW S, NEW s \in Seq(S), NEW e \in S
  PROVE  Inserted(s, e) \in Seq(S) /\ ToSet(Inserted(s, e)) = ToSet(s) \cup {e}
<1>1. DOMAIN s = 1 .. Len(s) /\ Len(s) \in Nat
  OBVIOUS
<1>2. CASE Contains(s, e)
  BY <1>1, <1>2 DEF Inserted, Contains, ToSet
<1>3. CASE ~ Contains(s, e)
  <2>1. PICK t \in Seq(S) : t = Append(s, e)
    BY AppendProperties
  <2>2. /\ DOMAIN t = 1 .. Len(s) + 1 /\ t[Len(s) + 1] = e
        /\ \A i \in 1 .. Len(s) : t[i] = s[i]
    BY <2>1
  <2>3. ASSUME NEW x \in ToSet(t) PROVE x \in ToSet(s) \cup {e}
    <3>1. PICK i \in 1 .. Len(s) + 1 : x = t[i]
      BY <2>2 DEF ToSet
    <3>2. i = Len(s) + 1 \/ i \in 1 .. Len(s)
      BY <1>1
    <3>. QED
      BY <1>1, <2>2, <3>1, <3>2 DEF ToSet
  <2>4. ASSUME NEW x \in ToSet(s) \cup {e} PROVE x \in ToSet(t)
    <3>1. CASE x = e
      BY <1>1, <2>2, <3>1 DEF ToSet
    <3>2. CASE x # e
      <4>1. PICK i \in 1 .. Len(s) : x = s[i]
        BY <1>1, <3>2 DEF ToSet
      <4>2. i \in 1 .. Len(s) + 1
        BY <1>1
      <4>. QED
        BY <2>2, <4>1, <4>2 DEF ToSet
    <3>. QED
      BY <3>1, <3>2
  <2>. QED
    BY <1>3, <2>1, <2>3, <2>4 DEF Inserted
<1>. QED
  BY <1>2, <1>3

LEMMA WithIs ==
  ASSUME NEW S, NEW quads \in Seq(S), NEW inserts \in Seq(S)
  PROVE  /\ With(quads, inserts) \in Seq(S)
         /\ ToSet(With(quads, inserts)) = ToSet(quads) \cup ToSet(inserts)
<1>1. PICK N \in Nat : N = Len(inserts) /\ DOMAIN inserts = 1 .. N /\ \A n \in 1 .. N : inserts[n] \in S
  OBVIOUS
<1>2. PICK r : /\ r[0] = quads /\ r[N] = With(quads, inserts)
               /\ \A n \in 1 .. N : r[n] = Inserted(r[n - 1], inserts[n])
  BY <1>1, WithFolds
<1>. DEFINE New(n) == {inserts[k] : k \in 1 .. n}
            T == {n \in Nat : n <= N => r[n] \in Seq(S) /\ ToSet(r[n]) = ToSet(quads) \cup New(n)}
<1>3. 0 \in T
  <2>1. New(0) = {}
    OBVIOUS
  <2>. HIDE DEF New
  <2>. QED
    BY <1>2, <2>1
<1>4. ASSUME NEW n \in Nat, n \in T PROVE n + 1 \in T
  <2>1. SUFFICES ASSUME n + 1 <= N
                 PROVE  r[n + 1] \in Seq(S) /\ ToSet(r[n + 1]) = ToSet(quads) \cup New(n + 1)
    OBVIOUS
  <2>2. n + 1 \in 1 .. N /\ (n + 1) - 1 = n /\ n <= N
    BY <2>1
  <2>3. r[n + 1] = Inserted(r[n], inserts[n + 1])
    BY <1>2, <2>2
  <2>4. r[n] \in Seq(S) /\ ToSet(r[n]) = ToSet(quads) \cup New(n)
    BY <1>4, <2>2
  <2>5. New(n + 1) = New(n) \cup {inserts[n + 1]}
    OBVIOUS
  <2>. HIDE DEF New, T
  <2>6. /\ Inserted(r[n], inserts[n + 1]) \in Seq(S)
        /\ ToSet(Inserted(r[n], inserts[n + 1])) = ToSet(r[n]) \cup {inserts[n + 1]}
    <3>1. PICK x \in Seq(S), e \in S : x = r[n] /\ e = inserts[n + 1]
      BY <1>1, <2>2, <2>4
    <3>2. Inserted(x, e) \in Seq(S) /\ ToSet(Inserted(x, e)) = ToSet(x) \cup {e}
      BY InsertedIs
    <3>. QED
      BY <3>1, <3>2
  <2>. QED
    BY <2>3, <2>4, <2>5, <2>6
<1>5. N \in T
  <2>1. Nat \subseteq T
    <3>. HIDE DEF T
    <3>. QED
      BY <1>3, <1>4, NatSetInduction
  <2>. QED
    BY <2>1
<1>6. New(N) = ToSet(inserts)
  BY <1>1 DEF ToSet
<1>. HIDE DEF New
<1>. QED
  BY <1>2, <1>5, <1>6

LEMMA ConcatIs ==
  ASSUME NEW S, NEW a \in Seq(S), NEW b \in Seq(S)
  PROVE  a \o b \in Seq(S) /\ ToSet(a \o b) = ToSet(a) \cup ToSet(b)
<1>1. PICK c \in Seq(S) : c = a \o b
  BY ConcatProperties
<1>2. /\ Len(a) \in Nat /\ Len(b) \in Nat /\ DOMAIN a = 1 .. Len(a) /\ DOMAIN b = 1 .. Len(b)
      /\ DOMAIN c = 1 .. Len(a) + Len(b)
      /\ \A i \in 1 .. Len(a) : c[i] = a[i]
      /\ \A i \in 1 .. Len(b) : c[Len(a) + i] = b[i]
  BY <1>1
<1>3. ASSUME NEW x \in ToSet(c) PROVE x \in ToSet(a) \cup ToSet(b)
  <2>1. PICK i \in 1 .. Len(a) + Len(b) : x = c[i]
    BY <1>2 DEF ToSet
  <2>2. CASE i \in 1 .. Len(a)
    BY <1>2, <2>1, <2>2 DEF ToSet
  <2>3. CASE i \notin 1 .. Len(a)
    <3>1. i - Len(a) \in 1 .. Len(b) /\ Len(a) + (i - Len(a)) = i
      BY <1>2, <2>1, <2>3
    <3>. QED
      BY <1>2, <2>1, <3>1 DEF ToSet
  <2>. QED
    BY <2>2, <2>3
<1>4. ASSUME NEW x \in ToSet(a) PROVE x \in ToSet(c)
  <2>1. PICK i \in 1 .. Len(a) : x = a[i]
    BY <1>2 DEF ToSet
  <2>2. i \in DOMAIN c
    BY <1>2
  <2>. QED
    BY <1>2, <2>1, <2>2 DEF ToSet
<1>5. ASSUME NEW x \in ToSet(b) PROVE x \in ToSet(c)
  <2>1. PICK i \in 1 .. Len(b) : x = b[i]
    BY <1>2 DEF ToSet
  <2>2. Len(a) + i \in DOMAIN c
    BY <1>2
  <2>. QED
    BY <1>2, <2>1, <2>2 DEF ToSet
<1>. QED
  BY <1>1, <1>3, <1>4, <1>5

LEMMA FlattenIs ==
  ASSUME NEW S, NEW seqs \in Seq(Seq(S))
  PROVE  /\ FlattenSeq(seqs) \in Seq(S)
         /\ ToSet(FlattenSeq(seqs)) = UNION {ToSet(seqs[i]) : i \in DOMAIN seqs}
<1>1. PICK N \in Nat : N = Len(seqs) /\ DOMAIN seqs = 1 .. N /\ \A n \in 1 .. N : seqs[n] \in Seq(S)
  OBVIOUS
<1>2. PICK r : /\ r[0] = <<>> /\ r[N] = FlattenSeq(seqs)
               /\ \A n \in 1 .. N : r[n] = r[n - 1] \o seqs[n]
  BY <1>1, FlattenFolds
<1>. DEFINE All(n) == UNION {ToSet(seqs[k]) : k \in 1 .. n}
            T == {n \in Nat : n <= N => r[n] \in Seq(S) /\ ToSet(r[n]) = All(n)}
<1>3. 0 \in T
  <2>1. All(0) = {} /\ ToSet(<<>>) = {} /\ <<>> \in Seq(S)
    BY DEF ToSet
  <2>. HIDE DEF All
  <2>. QED
    BY <1>2, <2>1
<1>4. ASSUME NEW n \in Nat, n \in T PROVE n + 1 \in T
  <2>1. SUFFICES ASSUME n + 1 <= N
                 PROVE  r[n + 1] \in Seq(S) /\ ToSet(r[n + 1]) = All(n + 1)
    OBVIOUS
  <2>2. n + 1 \in 1 .. N /\ (n + 1) - 1 = n /\ n <= N
    BY <2>1
  <2>3. r[n + 1] = r[n] \o seqs[n + 1]
    BY <1>2, <2>2
  <2>4. r[n] \in Seq(S) /\ ToSet(r[n]) = All(n)
    BY <1>4, <2>2
  <2>5. All(n + 1) = All(n) \cup ToSet(seqs[n + 1])
    <3>1. 1 .. n + 1 = (1 .. n) \cup {n + 1}
      OBVIOUS
    <3>. QED
      BY <3>1
  <2>. HIDE DEF All, T
  <2>6. r[n] \o seqs[n + 1] \in Seq(S) /\ ToSet(r[n] \o seqs[n + 1]) = ToSet(r[n]) \cup ToSet(seqs[n + 1])
    BY <1>1, <2>2, <2>4, ConcatIs
  <2>. QED
    BY <1>1, <2>2, <2>3, <2>4, <2>5, <2>6
<1>5. N \in T
  <2>1. Nat \subseteq T
    <3>. HIDE DEF T
    <3>. QED
      BY <1>3, <1>4, NatSetInduction
  <2>. QED
    BY <2>1
<1>. HIDE DEF All
<1>6. ToSet(r[N]) = All(N) /\ r[N] \in Seq(S)
  BY <1>5
<1>. QED
  BY <1>1, <1>2, <1>6 DEF All
-----------------------------------------------------------------------------
(* URLs are cut and put together again. *)

LEMMA Single ==
  ASSUME NEW S, NEW x \in S
  PROVE  /\ <<x>> \in Seq(S) /\ <<x>> # <<>> /\ Len(<<x>>) = 1 /\ DOMAIN <<x>> = {1} /\ <<x>>[1] = x
         /\ ToSet(<<x>>) = {x}
<1>1. <<x>> \in Seq(S) /\ <<x>> # <<>> /\ Len(<<x>>) = 1 /\ DOMAIN <<x>> = {1} /\ <<x>>[1] = x
  OBVIOUS
<1>. QED
  BY <1>1 DEF ToSet

LEMMA IsSequence ==
  ASSUME NEW S, NEW n \in Nat, NEW f \in [1 .. n -> S]
  PROVE  f \in Seq(S) /\ Len(f) = n
OBVIOUS

LEMMA Cut ==
  ASSUME NEW u \in Seq(STRING), NEW n \in 1 .. Len(u) + 1
  PROVE  /\ From(u, n) \in Seq(STRING) /\ Len(From(u, n)) = Len(u) - n + 1
         /\ \A k \in 1 .. Len(u) - n + 1 : From(u, n)[k] = u[n + k - 1]
<1>1. Len(u) \in Nat /\ \A i \in 1 .. Len(u) : u[i] \in STRING
  OBVIOUS
<1>2. n \in Int /\ Len(u) \in Int /\ \A i \in n .. Len(u) : u[i] \in STRING
  BY <1>1
<1>3. /\ SubSeq(u, n, Len(u)) \in Seq(STRING)
      /\ Len(SubSeq(u, n, Len(u))) = IF n <= Len(u) THEN Len(u) - n + 1 ELSE 0
      /\ \A k \in 1 .. Len(u) - n + 1 : SubSeq(u, n, Len(u))[k] = u[n + k - 1]
  BY <1>2, SubSeqProperties
<1>4. (IF n <= Len(u) THEN Len(u) - n + 1 ELSE 0) = Len(u) - n + 1
  BY <1>1
<1>. QED
  BY <1>3, <1>4 DEF From

\* What a URL begins with, and the rest, make the URL.
LEMMA Joined ==
  ASSUME NEW s \in Seq(STRING), NEW u \in Seq(STRING), IsPrefix(s, u)
  PROVE  /\ Len(s) + 1 \in 1 .. Len(u) + 1
         /\ From(u, Len(s) + 1) \in Seq(STRING)
         /\ s \o From(u, Len(s) + 1) = u
         /\ u # s => From(u, Len(s) + 1) # <<>>
<1>1. Len(s) \in Nat /\ Len(u) \in Nat /\ Len(s) <= Len(u) /\ SubSeq(s, 1, Len(s)) = SubSeq(u, 1, Len(s))
  BY DEF IsPrefix
<1>2. \A k \in 1 .. Len(s) : s[k] = u[k]
  <2>1. \A k \in 1 .. Len(s) : SubSeq(s, 1, Len(s))[k] = s[k] /\ SubSeq(u, 1, Len(s))[k] = u[k]
    BY <1>1
  <2>. QED
    BY <1>1, <2>1
<1>3. PICK r : r = From(u, Len(s) + 1)
  OBVIOUS
<1>4. Len(s) + 1 \in 1 .. Len(u) + 1
  BY <1>1
<1>5. /\ r \in Seq(STRING) /\ Len(r) = Len(u) - Len(s)
      /\ \A k \in 1 .. Len(u) - Len(s) : r[k] = u[Len(s) + k]
  <2>1. /\ r \in Seq(STRING) /\ Len(r) = Len(u) - (Len(s) + 1) + 1
        /\ \A k \in 1 .. Len(u) - (Len(s) + 1) + 1 : r[k] = u[(Len(s) + 1) + k - 1]
    BY <1>3, <1>4, Cut
  <2>2. Len(u) - (Len(s) + 1) + 1 = Len(u) - Len(s) /\ \A k \in Nat : (Len(s) + 1) + k - 1 = Len(s) + k
    BY <1>1
  <2>. QED
    BY <2>1, <2>2
<1>6. PICK v : v = s \o r
  OBVIOUS
<1>7. /\ v \in Seq(STRING) /\ Len(v) = Len(s) + Len(r)
      /\ \A k \in 1 .. Len(s) + Len(r) : v[k] = IF k <= Len(s) THEN s[k] ELSE r[k - Len(s)]
  BY <1>5, <1>6, ConcatProperties
<1>8. Len(v) = Len(u)
  BY <1>1, <1>5, <1>7
<1>9. ASSUME NEW k \in 1 .. Len(u) PROVE v[k] = u[k]
  <2>1. v[k] = IF k <= Len(s) THEN s[k] ELSE r[k - Len(s)]
    BY <1>1, <1>5, <1>7
  <2>2. CASE k <= Len(s)
    BY <1>1, <1>2, <2>1, <2>2
  <2>3. CASE ~ (k <= Len(s))
    <3>1. k - Len(s) \in 1 .. Len(u) - Len(s) /\ Len(s) + (k - Len(s)) = k
      BY <1>1, <2>3
    <3>. QED
      BY <1>5, <2>1, <2>3, <3>1
  <2>. QED
    BY <2>2, <2>3
<1>10. v = u
  BY <1>7, <1>8, <1>9
<1>11. u # s => r # <<>>
  <2>1. SUFFICES ASSUME r = <<>> PROVE u = s
    OBVIOUS
  <2>2. s \o r = s
    BY <2>1, ConcatEmptySeq
  <2>. QED
    BY <1>6, <1>10, <2>2
<1>. QED
  BY <1>3, <1>4, <1>5, <1>6, <1>10, <1>11

LEMMA DirectoryIs ==
  Directory \in Uris /\ Head(Directory) \in Origins
<1>1. Base \in Seq(STRING) /\ Base # <<>> /\ Base[1] \in Origins /\ "/" \in ToSet(Base) /\ "/" \notin Origins
  BY RdfAssumption DEF Uris
<1>. DEFINE I == {n \in DOMAIN Base : Base[n] = "/"}
            J == {k \in 0 .. Len(Base) : Len(Base) - k \in I}
<1>2. DOMAIN Base = 1 .. Len(Base) /\ Len(Base) \in Nat
  BY <1>1
<1>3. I # {} /\ I \subseteq 1 .. Len(Base)
  BY <1>1, <1>2 DEF ToSet
<1>4. PICK n \in DOMAIN Base : Base[n] = "/" /\ \A m \in DOMAIN Base : Base[m] = "/" => m <= n
  <2>1. Max(I) \in I /\ \A x \in I : x <= Max(I)
    <3>. HIDE DEF I
    <3>. QED
      BY <1>2, <1>3, MaxOf
  <2>. QED
    BY <2>1
<1>5. PICK slash : /\ slash = CHOOSE m \in DOMAIN Base :
                               Base[m] = "/" /\ \A k \in DOMAIN Base : Base[k] = "/" => k <= m
                  /\ slash \in DOMAIN Base /\ Base[slash] = "/"
  BY <1>4
<1>6. Directory = SubSeq(Base, 1, slash)
  BY <1>5 DEF Directory
<1>7. slash \in 1 .. Len(Base)
  BY <1>2, <1>5
<1>8. /\ Directory \in Seq(STRING) /\ Len(Directory) = slash
      /\ Directory[1] = Base[1]
  BY <1>1, <1>2, <1>6, <1>7
<1>9. Directory # <<>>
  BY <1>7, <1>8
<1>. QED
  BY <1>1, <1>8, <1>9 DEF Uris

LEMMA UriTypes ==
  ASSUME NEW u \in Uris
  PROVE  MakeRelative(u) \in Uris /\ ResolveUri(u) \in Uris
<1>1. u \in Seq(STRING) /\ u # <<>> /\ Base \in Seq(STRING) /\ Base # <<>> /\ Head(Base) \in STRING
  BY RdfAssumption DEF Uris
<1>2. Directory \in Seq(STRING) /\ Directory # <<>>
  BY DirectoryIs DEF Uris
<1>3. \A a, b \in Seq(STRING) : a # <<>> => a \o b \in Seq(STRING) /\ a \o b # <<>>
  <2>1. SUFFICES ASSUME NEW a \in Seq(STRING), NEW b \in Seq(STRING), a # <<>>
                 PROVE  a \o b \in Seq(STRING) /\ a \o b # <<>>
    OBVIOUS
  <2>2. a \o b \in Seq(STRING) /\ Len(a \o b) = Len(a) + Len(b)
    BY ConcatProperties
  <2>3. Len(a) \in Nat /\ Len(b) \in Nat /\ Len(a) # 0
    BY <2>1
  <2>4. Len(a \o b) # 0
    BY <2>2, <2>3
  <2>. QED
    BY <2>2, <2>4
<1>4. MakeRelative(u) \in Uris
  <2>1. CASE IsPrefix(Base, u) /\ u # Base
    BY <1>1, <2>1, Joined DEF MakeRelative, Uris
  <2>2. CASE ~ (IsPrefix(Base, u) /\ u # Base)
    <3>1. PICK x \in STRING : x = "."
      BY StringAssumption
    <3>2. <<x>> \in Seq(STRING) /\ <<x>> # <<>>
      BY Single
    <3>3. <<x>> \in Uris
      BY <3>2 DEF Uris
    <3>. QED
      BY <2>2, <3>1, <3>3 DEF MakeRelative
  <2>. QED
    BY <2>1, <2>2
<1>5. ResolveUri(u) \in Uris
  <2>1. <<Head(Base)>> \in Seq(STRING) /\ <<Head(Base)>> # <<>>
    BY <1>1
  <2>2. /\ Base \o u \in Uris /\ <<Head(Base)>> \o u \in Uris
        /\ Directory \o u \in Uris /\ Directory \in Uris
    BY <1>1, <1>2, <1>3, <2>1 DEF Uris
  <2>. QED
    BY <2>2 DEF ResolveUri
<1>. QED
  BY <1>4, <1>5

\* A plain IRI is read back.
LEMMA IriBack ==
  ASSUME NEW u \in Uris, PlainIri(u)
  PROVE  ResolveUri(MakeRelative(u)) = u
<1>1. /\ u \in Seq(STRING) /\ u # <<>> /\ Base \in Seq(STRING) /\ Base # <<>>
      /\ Origins \cap (Fragments \cup {"/", "."}) = {} /\ Fragments \cap {"/", "."} = {}
      /\ Head(u) \in Origins
  BY RdfAssumption DEF Uris, PlainIri, IsAbsolute
<1>2. CASE ~ IsPrefix(Base, u)
  BY <1>1, <1>2 DEF MakeRelative, ResolveUri, IsAbsolute
<1>3. CASE IsPrefix(Base, u) /\ u = Base
  <2>1. MakeRelative(u) = <<".">> /\ Directory = Base
    BY <1>3 DEF MakeRelative, PlainIri
  <2>2. Head(<<".">>) = "."
    OBVIOUS
  <2>3. ResolveUri(<<".">>) = Directory
    BY <1>1, <2>2 DEF ResolveUri, IsAbsolute
  <2>. QED
    BY <1>3, <2>1, <2>3
<1>4. CASE IsPrefix(Base, u) /\ u # Base
  <2>1. PICK r : r = From(u, Len(Base) + 1)
    OBVIOUS
  <2>2. r \in Seq(STRING) /\ r # <<>> /\ Base \o r = u /\ Len(Base) + 1 \in 1 .. Len(u) + 1
    BY <1>1, <1>4, <2>1, Joined
  <2>3. MakeRelative(u) = r
    BY <1>4, <2>1 DEF MakeRelative
  <2>4. PICK h : h = Head(r) /\ h = u[Len(Base) + 1]
    <3>1. Len(r) = Len(u) - (Len(Base) + 1) + 1
          /\ \A k \in 1 .. Len(u) - (Len(Base) + 1) + 1 : r[k] = u[(Len(Base) + 1) + k - 1]
      BY <1>1, <2>1, <2>2, Cut
    <3>2. Len(r) \in Nat /\ Len(r) # 0 /\ Len(Base) \in Nat
      BY <1>1, <2>2
    <3>3. r[1] = u[Len(Base) + 1]
      BY <3>1, <3>2
    <3>. QED
      BY <2>2, <3>3
  <2>5. h \in Fragments \/ (Directory = Base /\ h \notin Origins \cup {"/", "."})
    BY <1>4, <2>4 DEF PlainIri
  <2>6. CASE h \in Fragments
    BY <1>1, <2>2, <2>3, <2>4, <2>6 DEF ResolveUri, IsAbsolute
  <2>7. CASE h \notin Fragments
    <3>1. r # <<".">>
      BY <2>4, <2>5, <2>7
    <3>. QED
      BY <2>2, <2>3, <2>4, <2>5, <2>7, <3>1 DEF ResolveUri, IsAbsolute
  <2>. QED
    BY <2>6, <2>7
<1>. QED
  BY <1>2, <1>3, <1>4
-----------------------------------------------------------------------------
(* Names are abbreviated and expanded. *)

LEMMA KeyParts ==
  ASSUME NEW x \in STRING, NEW rest \in Seq(STRING), NEW key, key = <<x, ":">> \o rest
  PROVE  /\ key \in Uris \ {<<"@type">>} /\ key[1] = x
         /\ From(key, 3) = rest /\ ToSet(key) = {x, ":"} \cup ToSet(rest)
<1>1. PICK c \in STRING : c = ":"
  <2>1. ":" \in STRING
    BY StringAssumption
  <2>. QED
    BY <2>1, Zenon
<1>2. PICK a : a = <<x, c>>
  OBVIOUS
<1>3. <<x>> \in Seq(STRING)
  BY Single
<1>4. a = Append(<<x>>, c)
  BY <1>2
<1>5. a \in Seq(STRING) /\ Len(a) = 2 /\ a[1] = x /\ a[2] = c
  <2>1. a \in Seq(STRING)
    BY <1>3, <1>4, AppendProperties
  <2>. QED
    BY <1>2, <2>1
<1>6. /\ key \in Seq(STRING) /\ Len(key) = Len(rest) + 2
      /\ \A i \in 1 .. Len(rest) + 2 : key[i] = IF i <= 2 THEN a[i] ELSE rest[i - 2]
  <2>1. key = a \o rest
    BY <1>1, <1>2
  <2>2. /\ a \o rest \in Seq(STRING) /\ Len(a \o rest) = Len(a) + Len(rest)
        /\ \A i \in 1 .. Len(a) + Len(rest) : (a \o rest)[i] = IF i <= Len(a) THEN a[i] ELSE rest[i - Len(a)]
    BY <1>5, ConcatProperties
  <2>3. Len(a) + Len(rest) = Len(rest) + 2
    BY <1>5
  <2>. QED
    BY <1>5, <2>1, <2>2, <2>3
<1>7. Len(rest) \in Nat /\ DOMAIN rest = 1 .. Len(rest) /\ DOMAIN key = 1 .. Len(rest) + 2
  BY <1>6
<1>8. key[1] = x /\ key[2] = c /\ \A i \in 1 .. Len(rest) : key[i + 2] = rest[i]
  <2>1. 1 \in 1 .. Len(rest) + 2 /\ 2 \in 1 .. Len(rest) + 2
    BY <1>7
  <2>2. \A i \in 1 .. Len(rest) : i + 2 \in 1 .. Len(rest) + 2 /\ ~ (i + 2 <= 2) /\ (i + 2) - 2 = i
    BY <1>7
  <2>. QED
    BY <1>5, <1>6, <2>1, <2>2
<1>9. key # <<>> /\ key # <<"@type">>
  <2>1. Len(key) # 0 /\ Len(key) # 1
    BY <1>6, <1>7
  <2>2. Len(<<"@type">>) = 1
    OBVIOUS
  <2>. QED
    BY <2>1, <2>2
<1>10. From(key, 3) = rest
  <2>1. 3 \in 1 .. Len(key) + 1
    BY <1>6, <1>7
  <2>2. PICK r : r = From(key, 3)
    OBVIOUS
  <2>3. /\ r \in Seq(STRING) /\ Len(r) = Len(key) - 3 + 1
        /\ \A k \in 1 .. Len(key) - 3 + 1 : r[k] = key[3 + k - 1]
    BY <1>6, <2>1, <2>2, Cut
  <2>4. Len(key) - 3 + 1 = Len(rest) /\ \A k \in Nat : 3 + k - 1 = k + 2
    BY <1>6, <1>7
  <2>5. Len(r) = Len(rest) /\ \A k \in 1 .. Len(rest) : r[k] = rest[k]
    BY <1>7, <1>8, <2>3, <2>4
  <2>6. r = rest
    BY <2>3, <2>5
  <2>. QED
    BY <2>2, <2>6
<1>11. ToSet(key) = {x, c} \cup ToSet(rest)
  <2>1. ASSUME NEW y \in ToSet(key) PROVE y \in {x, c} \cup ToSet(rest)
    <3>1. PICK i \in 1 .. Len(rest) + 2 : y = key[i]
      BY <1>7 DEF ToSet
    <3>2. i = 1 \/ i = 2 \/ i - 2 \in 1 .. Len(rest)
      BY <1>7
    <3>3. CASE i = 1 \/ i = 2
      BY <1>8, <3>1, <3>3
    <3>4. CASE i - 2 \in 1 .. Len(rest)
      <4>1. (i - 2) + 2 = i
        BY <1>7
      <4>2. y = rest[i - 2]
        BY <1>8, <3>1, <3>4, <4>1
      <4>. QED
        BY <1>7, <3>4, <4>2 DEF ToSet
    <3>. QED
      BY <3>2, <3>3, <3>4
  <2>2. ASSUME NEW y \in {x, c} \cup ToSet(rest) PROVE y \in ToSet(key)
    <3>1. 1 \in DOMAIN key /\ 2 \in DOMAIN key /\ \A i \in 1 .. Len(rest) : i + 2 \in DOMAIN key
      BY <1>7
    <3>2. CASE y \in {x, c}
      BY <1>8, <3>1, <3>2 DEF ToSet
    <3>3. CASE y \notin {x, c}
      <4>1. PICK i \in 1 .. Len(rest) : y = rest[i]
        BY <1>7, <3>3 DEF ToSet
      <4>2. y = key[i + 2]
        BY <1>8, <4>1
      <4>. QED
        BY <3>1, <4>2 DEF ToSet
    <3>. QED
      BY <3>2, <3>3
  <2>. QED
    BY <2>1, <2>2
<1>. QED
  BY <1>1, <1>6, <1>8, <1>9, <1>10, <1>11 DEF Uris

LEMMA CommonIs ==
  /\ DOMAIN Common \subseteq STRING \ Origins
  /\ \A x \in DOMAIN Common : Common[x] \in Uris /\ Head(Common[x]) \in Origins
<1>1. Origins \cap DOMAIN Common = {} /\ DOMAIN Common \subseteq STRING
  BY RdfAssumption
<1>. QED
  BY <1>1, RdfAssumption

\* An abbreviation is a prefix of a namespace with which the URL begins, and the rest.
IsKeyOf(key, u, table, x) ==
  /\ x \in DOMAIN table /\ IsPrefix(table[x], u)
  /\ key = <<x, ":">> \o From(u, Len(table[x]) + 1)

LEMMA CompactIs ==
  ASSUME NEW u, NEW prefixes
  PROVE  \/ Compact(u, prefixes) = u
         \/ Fitting(u, prefixes) # {} /\ \E x : IsKeyOf(Compact(u, prefixes), u, prefixes, x)
         \/ Fitting(u, prefixes) = {} /\ \E x : IsKeyOf(Compact(u, prefixes), u, Common, x)
<1>1. ASSUME NEW table, table = IF Fitting(u, prefixes) # {} THEN prefixes ELSE Common,
             Fitting(u, table) # {}
      PROVE  \E x : IsKeyOf(Compact(u, prefixes), u, table, x)
  <2>1. PICK x : x = CHOOSE y \in Fitting(u, table) : TRUE
    OBVIOUS
  <2>2. x \in Fitting(u, table)
    BY <1>1, <2>1
  <2>3. Compact(u, prefixes) = <<x, ":">> \o From(u, Len(table[x]) + 1)
    BY <1>1, <2>1 DEF Compact
  <2>. QED
    BY <2>2, <2>3 DEF IsKeyOf, Fitting
<1>2. CASE Fitting(u, prefixes) # {}
  <2>1. \E x : IsKeyOf(Compact(u, prefixes), u, prefixes, x)
    BY <1>1, <1>2
  <2>. QED
    BY <1>2, <2>1
<1>3. CASE Fitting(u, prefixes) = {}
  <2>1. CASE Fitting(u, Common) # {}
    BY <1>1, <1>3, <2>1
  <2>2. CASE Fitting(u, Common) = {}
    BY <1>3, <2>2 DEF Compact
  <2>. QED
    BY <2>1, <2>2
<1>. QED
  BY <1>2, <1>3

LEMMA KeyType ==
  ASSUME NEW u \in Uris, NEW table, NEW x, NEW key, IsKeyOf(key, u, table, x),
         table[x] \in Uris, x \in STRING
  PROVE  /\ key \in Uris \ {<<"@type">>} /\ key[1] = x
         /\ table[x] \o From(key, 3) = u /\ ToSet(key) = {x, ":"} \cup ToSet(From(key, 3))
         /\ From(key, 3) \in Seq(STRING)
<1>1. PICK s \in Seq(STRING) : s = table[x]
  BY DEF Uris
<1>2. u \in Seq(STRING) /\ IsPrefix(s, u)
  BY <1>1 DEF IsKeyOf, Uris
<1>3. PICK rest \in Seq(STRING) : rest = From(u, Len(s) + 1) /\ s \o rest = u
  BY <1>2, Joined
<1>4. key = <<x, ":">> \o rest
  BY <1>1, <1>3 DEF IsKeyOf
<1>5. /\ key \in Uris \ {<<"@type">>} /\ key[1] = x
      /\ From(key, 3) = rest /\ ToSet(key) = {x, ":"} \cup ToSet(rest)
  BY <1>4, KeyParts
<1>. QED
  BY <1>1, <1>3, <1>5

LEMMA CompactType ==
  ASSUME NEW u \in Uris, NEW prefixes, IsNamespaces(prefixes)
  PROVE  /\ Compact(u, prefixes) \in Uris
         /\ u # <<"@type">> => Compact(u, prefixes) # <<"@type">>
<1>1. PICK key : key = Compact(u, prefixes)
  OBVIOUS
<1>2. \A x \in DOMAIN prefixes : prefixes[x] \in Uris /\ x \in STRING
  BY DEF IsNamespaces
<1>3. \A x \in DOMAIN Common : Common[x] \in Uris /\ x \in STRING
  BY CommonIs
<1>4. CASE key = u
  BY <1>1, <1>4
<1>5. ASSUME NEW x, IsKeyOf(key, u, prefixes, x) PROVE key \in Uris \ {<<"@type">>}
  <2>1. prefixes[x] \in Uris /\ x \in STRING
    BY <1>2, <1>5 DEF IsKeyOf
  <2>. QED
    BY <1>5, <2>1, KeyType
<1>6. ASSUME NEW x, IsKeyOf(key, u, Common, x) PROVE key \in Uris \ {<<"@type">>}
  <2>1. Common[x] \in Uris /\ x \in STRING
    BY <1>3, <1>6 DEF IsKeyOf
  <2>. QED
    BY <1>6, <2>1, KeyType
<1>. QED
  BY <1>1, <1>4, <1>5, <1>6, CompactIs

LEMMA ContextIs ==
  ASSUME NEW prefixes, IsNamespaces(prefixes)
  PROVE  /\ IsNamespaces(Context(prefixes))
         /\ DOMAIN Context(prefixes) = DOMAIN prefixes \ {""}
         /\ \A x \in DOMAIN prefixes \ {""} : Context(prefixes)[x] = prefixes[x]
         /\ "" \notin DOMAIN prefixes => Context(prefixes) = prefixes
<1>. USE DEF Context, IsNamespaces
<1>1. /\ DOMAIN Context(prefixes) = DOMAIN prefixes \ {""}
      /\ \A x \in DOMAIN prefixes \ {""} : Context(prefixes)[x] = prefixes[x]
  OBVIOUS
<1>2. IsNamespaces(Context(prefixes))
  <2>1. Context(prefixes) = [x \in DOMAIN Context(prefixes) |-> Context(prefixes)[x]]
    BY <1>1
  <2>. QED
    BY <1>1, <2>1
<1>3. "" \notin DOMAIN prefixes => Context(prefixes) = prefixes
  <2>1. SUFFICES ASSUME "" \notin DOMAIN prefixes PROVE Context(prefixes) = prefixes
    OBVIOUS
  <2>2. DOMAIN prefixes \ {""} = DOMAIN prefixes
    BY <2>1
  <2>3. Context(prefixes) = [x \in DOMAIN prefixes |-> prefixes[x]]
    BY <2>2
  <2>. QED
    BY <2>3
<1>. QED
  BY <1>1, <1>2, <1>3

\* A plain name is expanded to what it was.
LEMMA NameBack ==
  ASSUME NEW u \in Uris, NEW prefixes, IsNamespaces(prefixes), PlainName(u, prefixes)
  PROVE  Expand(Compact(u, prefixes), Context(prefixes)) = u
<1>1. PICK key, context : key = Compact(u, prefixes) /\ context = Context(prefixes)
  OBVIOUS
<1>2. /\ DOMAIN context = DOMAIN prefixes \ {""}
      /\ \A x \in DOMAIN prefixes \ {""} : context[x] = prefixes[x]
  BY <1>1, ContextIs
<1>3. \A x \in DOMAIN prefixes : prefixes[x] \in Uris /\ x \in STRING \ Origins
  BY DEF IsNamespaces
<1>4. \A x \in DOMAIN Common : Common[x] \in Uris /\ x \in STRING \ Origins
  BY CommonIs
<1>5. CASE key = u
  <2>1. u \in Seq(STRING) /\ u # <<>> /\ Head(u) \in Origins
    BY DEF PlainName, IsAbsolute, Uris
  <2>2. 1 \in DOMAIN u /\ u[1] \in Origins
    <3>1. Len(u) \in Nat /\ Len(u) # 0 /\ DOMAIN u = 1 .. Len(u)
      BY <2>1
    <3>. QED
      BY <2>1, <3>1
  <2>3. HasOrigin(u)
    BY <2>2 DEF HasOrigin, ToSet
  <2>. QED
    BY <1>1, <1>5, <2>3 DEF Expand
<1>6. CASE key # u
  <2>1. /\ key[1] # "" /\ ToSet(From(key, 3)) \cap (Origins \cup {":"}) = {}
        /\ key[1] \in DOMAIN prefixes => Fitting(u, prefixes) # {}
    BY <1>1, <1>6 DEF PlainName
  <2>2. ASSUME NEW x \in STRING \ Origins, NEW table, IsKeyOf(key, u, table, x), table[x] \in Uris
        PROVE  /\ key[1] = x /\ ~ HasOrigin(key) /\ table[x] \o LocalName(key) = u
    <3>1. PICK rest \in Seq(STRING) : rest = From(key, 3)
      BY <2>2, KeyType
    <3>2. key[1] = x /\ table[x] \o rest = u /\ ToSet(key) = {x, ":"} \cup ToSet(rest)
      BY <2>2, <3>1, KeyType
    <3>3. ":" \notin Origins
      BY RdfAssumption
    <3>4. ~ HasOrigin(key)
      BY <2>1, <2>2, <3>1, <3>2, <3>3 DEF HasOrigin
    <3>5. {n \in DOMAIN rest : rest[n] = ":"} = {}
      BY <2>1, <3>1 DEF ToSet
    <3>6. LocalName(key) = rest
      BY <3>1, <3>5 DEF LocalName
    <3>. QED
      BY <3>2, <3>4, <3>6
  <2>3. CASE Fitting(u, prefixes) # {} /\ \E x : IsKeyOf(key, u, prefixes, x)
    <3>1. PICK x : IsKeyOf(key, u, prefixes, x)
      BY <2>3
    <3>2. x \in DOMAIN prefixes /\ x \in STRING \ Origins /\ prefixes[x] \in Uris
      BY <1>3, <3>1 DEF IsKeyOf
    <3>3. key[1] = x /\ ~ HasOrigin(key) /\ prefixes[x] \o LocalName(key) = u
      BY <2>2, <3>1, <3>2
    <3>4. x \in DOMAIN context /\ context[x] = prefixes[x]
      BY <1>2, <2>1, <3>2, <3>3
    <3>. QED
      BY <1>1, <3>3, <3>4 DEF Expand
  <2>4. CASE Fitting(u, prefixes) = {} /\ \E x : IsKeyOf(key, u, Common, x)
    <3>1. PICK x : IsKeyOf(key, u, Common, x)
      BY <2>4
    <3>2. x \in DOMAIN Common /\ x \in STRING \ Origins /\ Common[x] \in Uris
      BY <1>4, <3>1 DEF IsKeyOf
    <3>3. key[1] = x /\ ~ HasOrigin(key) /\ Common[x] \o LocalName(key) = u
      BY <2>2, <3>1, <3>2
    <3>4. x \notin DOMAIN context
      BY <1>2, <2>1, <2>4, <3>3
    <3>. QED
      BY <1>1, <3>2, <3>3, <3>4 DEF Expand
  <2>. QED
    BY <1>1, <1>6, <2>3, <2>4, CompactIs
<1>. QED
  BY <1>5, <1>6
-----------------------------------------------------------------------------
(* Terms are written as JSON and read back. *)

LEMMA TermForms ==
  ASSUME NEW t \in Terms
  PROVE  \/ t \in Iris /\ DOMAIN t = {"iri"} /\ t.iri \in Uris /\ t = Iri(t.iri)
         \/ t \in Blanks /\ DOMAIN t = {"blank"}
         \/ /\ t \in Literals /\ DOMAIN t = {"literal", "kind"}
            /\ t.literal \in STRING /\ t.kind \in STRING /\ t = Literal(t.literal, t.kind)
            /\ t.kind \in Numeric => t.literal \in DOMAIN Printed
<1>1. CASE t \in Iris
  BY <1>1 DEF Iris, Iri
<1>2. CASE t \in Blanks
  BY <1>2 DEF Blanks
<1>3. CASE t \in Literals
  BY <1>3 DEF Literals, Literal
<1>. QED
  BY <1>1, <1>2, <1>3 DEF Terms

LEMMA ValueForms ==
  ASSUME NEW j \in Values
  PROVE  \/ j \in [id : Uris] /\ DOMAIN j = {"id"} /\ j.id \in Uris
         \/ j \in Blanks /\ DOMAIN j = {"blank"}
         \/ DOMAIN j = {"number"} /\ j.number \in DOMAIN Printed
         \/ DOMAIN j = {"boolean"} /\ j.boolean \in {"true", "false"}
         \/ DOMAIN j = {"string"} /\ j.string \in STRING
         \/ /\ DOMAIN j = {"value", "kind"} /\ j.value \in STRING /\ j.kind \in STRING
            /\ j.kind \in Numeric => j.value \in DOMAIN Printed
<1>1. CASE j \in [id : Uris]
  BY <1>1
<1>2. CASE j \in Blanks
  BY <1>2 DEF Blanks
<1>3. CASE j \in [number : DOMAIN Printed]
  BY <1>3
<1>4. CASE j \in [boolean : {"true", "false"}]
  BY <1>4
<1>5. CASE j \in [string : STRING]
  BY <1>5
<1>6. CASE j \in {v \in [value : STRING, kind : STRING] : v.kind \in Numeric => v.value \in DOMAIN Printed}
  BY <1>6
<1>. QED
  BY <1>1, <1>2, <1>3, <1>4, <1>5, <1>6 DEF Values, Refs

LEMMA ToJsonType ==
  ASSUME NEW t \in Terms
  PROVE  ToJson(t) \in Values
<1>1. CASE t \in Iris /\ DOMAIN t = {"iri"} /\ t.iri \in Uris
  <2>1. PICK u \in Uris : u = MakeRelative(t.iri)
    BY <1>1, UriTypes
  <2>2. ToJson(t) = [id |-> u]
    BY <1>1, <2>1 DEF ToJson
  <2>. QED
    BY <2>2 DEF Values, Refs
<1>2. CASE t \in Blanks /\ DOMAIN t = {"blank"}
  <2>1. ToJson(t) = t
    BY <1>2 DEF ToJson
  <2>. QED
    BY <1>2, <2>1 DEF Values, Refs
<1>3. CASE /\ DOMAIN t = {"literal", "kind"}
           /\ t.literal \in STRING /\ t.kind \in STRING
           /\ t.kind \in Numeric => t.literal \in DOMAIN Printed
  <2>1. CASE t.kind \in Numeric
    <3>1. PICK n \in DOMAIN Printed : n = Printed[t.literal]
      BY <1>3, <2>1, RdfAssumption
    <3>2. ToJson(t) = [number |-> n]
      BY <1>3, <2>1, <3>1 DEF ToJson, Numeric
    <3>. QED
      BY <3>2 DEF Values
  <2>2. CASE t.kind = "boolean"
    <3>1. ToJson(t) = [boolean |-> IF t.literal = "true" THEN "true" ELSE "false"]
      BY <1>3, <2>2 DEF ToJson, Numeric
    <3>. QED
      BY <3>1 DEF Values
  <2>3. CASE t.kind = "string"
    <3>1. ToJson(t) = [string |-> t.literal]
      BY <1>3, <2>3 DEF ToJson, Numeric
    <3>. QED
      BY <1>3, <3>1 DEF Values
  <2>4. CASE t.kind \notin Numeric \cup {"boolean", "string"}
    <3>1. ToJson(t) = [value |-> t.literal, kind |-> t.kind]
      BY <1>3, <2>4 DEF ToJson, Numeric
    <3>. QED
      BY <1>3, <2>4, <3>1 DEF Values
  <2>. QED
    BY <2>1, <2>2, <2>3, <2>4
<1>. QED
  BY <1>1, <1>2, <1>3, TermForms

LEMMA LiteralType ==
  ASSUME NEW v \in STRING, NEW kind \in STRING, kind \in Numeric => v \in DOMAIN Printed
  PROVE  Literal(v, kind) \in Terms
<1>1. Literal(v, kind) \in [literal : STRING, kind : STRING]
  BY DEF Literal
<1>2. Literal(v, kind).kind = kind /\ Literal(v, kind).literal = v
  BY DEF Literal
<1>. QED
  BY <1>1, <1>2 DEF Terms, Literals

LEMMA FromJsonType ==
  ASSUME NEW j \in Values
  PROVE  /\ FromJson(j) \in Seq(Terms)
         /\ j \in Refs => FromJson(j)[1] \in Terms
<1>1. CASE j \in [id : Uris] /\ DOMAIN j = {"id"} /\ j.id \in Uris
  <2>1. PICK t : t = Iri(ResolveUri(j.id))
    OBVIOUS
  <2>2. t \in Terms
    BY <1>1, <2>1, UriTypes DEF Iri, Terms, Iris
  <2>3. FromJson(j) = <<t>>
    BY <1>1, <2>1 DEF FromJson
  <2>. QED
    BY <2>2, <2>3, Single
<1>2. CASE j \in Blanks /\ DOMAIN j = {"blank"}
  <2>1. FromJson(j) = <<j>> /\ j \in Terms
    BY <1>2 DEF FromJson, Terms
  <2>. QED
    BY <2>1, Single
<1>3. ASSUME DOMAIN j \notin {{"id"}, {"blank"}} PROVE j \notin Refs
  <2>1. CASE j \in [id : Uris]
    BY <1>3, <2>1
  <2>2. CASE j \in Blanks
    BY <1>3, <2>2 DEF Blanks
  <2>. QED
    BY <2>1, <2>2 DEF Refs
<1>4. CASE DOMAIN j = {"number"} /\ j.number \in DOMAIN Printed
  <2>1. PICK k \in {"integer", "decimal"} : k = IF j.number \in Whole THEN "integer" ELSE "decimal"
    OBVIOUS
  <2>2. FromJson(j) = <<Literal(j.number, k)>>
    BY <1>4, <2>1 DEF FromJson
  <2>3. Literal(j.number, k) \in Terms
    BY <1>4, StringAssumption, RdfAssumption, LiteralType
  <2>. QED
    BY <1>3, <1>4, <2>2, <2>3, Single
<1>5. CASE DOMAIN j = {"boolean"} /\ j.boolean \in {"true", "false"}
  <2>1. FromJson(j) = <<Literal(j.boolean, "boolean")>>
    BY <1>5 DEF FromJson
  <2>2. "boolean" \notin Numeric /\ j.boolean \in STRING /\ "boolean" \in STRING
    BY <1>5, StringAssumption DEF Numeric
  <2>3. Literal(j.boolean, "boolean") \in Terms
    BY <2>2, LiteralType
  <2>. QED
    BY <1>3, <1>5, <2>1, <2>3, Single
<1>6. CASE DOMAIN j = {"string"} /\ j.string \in STRING
  <2>1. FromJson(j) = <<Literal(j.string, "string")>>
    BY <1>6 DEF FromJson
  <2>2. "string" \notin Numeric /\ "string" \in STRING
    BY StringAssumption DEF Numeric
  <2>3. Literal(j.string, "string") \in Terms
    BY <1>6, <2>2, LiteralType
  <2>. QED
    BY <1>3, <1>6, <2>1, <2>3, Single
<1>7. CASE /\ DOMAIN j = {"value", "kind"} /\ j.value \in STRING /\ j.kind \in STRING
           /\ j.kind \in Numeric => j.value \in DOMAIN Printed
  <2>1. FromJson(j) = IF j.value = "" THEN <<>> ELSE <<Literal(j.value, j.kind)>>
    BY <1>7 DEF FromJson
  <2>2. Literal(j.value, j.kind) \in Terms
    BY <1>7, LiteralType
  <2>3. <<Literal(j.value, j.kind)>> \in Seq(Terms) /\ <<>> \in Seq(Terms)
    BY <2>2, Single, EmptySeq
  <2>. QED
    BY <1>3, <1>7, <2>1, <2>3
<1>. QED
  BY <1>1, <1>2, <1>4, <1>5, <1>6, <1>7, ValueForms

\* A plain value is read back.
LEMMA ValueBack ==
  ASSUME NEW t \in Terms, PlainValue(t)
  PROVE  FromJson(ToJson(t)) = <<t>>
<1>1. CASE t \in Iris /\ DOMAIN t = {"iri"} /\ t.iri \in Uris /\ t = Iri(t.iri)
  <2>1. PlainIri(t.iri)
    BY <1>1 DEF PlainValue
  <2>2. ResolveUri(MakeRelative(t.iri)) = t.iri
    BY <1>1, <2>1, IriBack
  <2>3. PICK u : u = MakeRelative(t.iri)
    OBVIOUS
  <2>4. ToJson(t) = [id |-> u]
    BY <1>1, <2>3 DEF ToJson
  <2>5. FromJson([id |-> u]) = <<Iri(ResolveUri(u))>>
    BY DEF FromJson
  <2>. QED
    BY <1>1, <2>2, <2>3, <2>4, <2>5
<1>2. CASE t \in Blanks /\ DOMAIN t = {"blank"}
  BY <1>2 DEF ToJson, FromJson
<1>3. CASE DOMAIN t = {"literal", "kind"} /\ t = Literal(t.literal, t.kind)
  <2>1. CASE t.kind \in Numeric
    <3>1. Printed[t.literal] = t.literal /\ t.kind = IF t.literal \in Whole THEN "integer" ELSE "decimal"
      BY <1>3, <2>1 DEF PlainValue, Numeric
    <3>2. ToJson(t) = [number |-> t.literal]
      BY <1>3, <2>1, <3>1 DEF ToJson, Numeric
    <3>3. FromJson(ToJson(t)) = <<Literal(t.literal, IF t.literal \in Whole THEN "integer" ELSE "decimal")>>
      BY <3>2 DEF FromJson
    <3>. QED
      BY <1>3, <3>1, <3>3
  <2>2. CASE t.kind = "boolean"
    <3>1. t.literal \in {"true", "false"}
      BY <1>3, <2>2 DEF PlainValue, Numeric
    <3>2. ToJson(t) = [boolean |-> t.literal]
      BY <1>3, <2>2, <3>1 DEF ToJson, Numeric
    <3>3. FromJson(ToJson(t)) = <<Literal(t.literal, "boolean")>>
      BY <3>2 DEF FromJson
    <3>. QED
      BY <1>3, <2>2, <3>3
  <2>3. CASE t.kind = "string"
    <3>1. ToJson(t) = [string |-> t.literal]
      BY <1>3, <2>3 DEF ToJson, Numeric
    <3>2. FromJson(ToJson(t)) = <<Literal(t.literal, "string")>>
      BY <3>1 DEF FromJson
    <3>. QED
      BY <1>3, <2>3, <3>2
  <2>4. CASE t.kind \notin Numeric \cup {"boolean", "string"}
    <3>1. t.literal # ""
      BY <1>3, <2>4 DEF PlainValue, Numeric
    <3>2. PICK j : j = [value |-> t.literal, kind |-> t.kind]
      OBVIOUS
    <3>3. DOMAIN j = {"value", "kind"} /\ j.value = t.literal /\ j.kind = t.kind
      BY <3>2
    <3>4. ToJson(t) = j
      BY <1>3, <2>4, <3>2 DEF ToJson, Numeric
    <3>5. FromJson(j) = <<Literal(j.value, j.kind)>>
      BY <3>1, <3>3 DEF FromJson
    <3>. QED
      BY <1>3, <3>3, <3>4, <3>5
  <2>. QED
    BY <2>1, <2>2, <2>3, <2>4
<1>. QED
  BY <1>1, <1>2, <1>3, TermForms
-----------------------------------------------------------------------------
(* Triples are written as rows and read back. *)

LEMMA TripleParts ==
  ASSUME NEW t \in Triples
  PROVE  /\ t.s \in Terms /\ t.p \in Predicates /\ t.o \in Terms /\ t = Triple(t.s, t.p, t.o)
         /\ t.p.iri \in Uris /\ t.p.iri # <<"@type">> /\ t.p = Iri(t.p.iri)
BY DEF Triples, Predicates, Triple, Iri

LEMMA IriParts ==
  ASSUME NEW u
  PROVE  Iri(u).iri = u /\ DOMAIN Iri(u) = {"iri"} /\ (u \in Uris => Iri(u) \in Terms)
         /\ (u \in Uris \ {<<"@type">>} => Iri(u) \in Predicates)
BY DEF Iri, Terms, Iris, Predicates

LEMMA RdfTypeIs ==
  RdfType \in Uris /\ RdfType # <<"@type">>
<1>1. RdfType \in Uris /\ Head(RdfType) \in Origins /\ "@type" \notin Origins
  BY RdfAssumption
<1>2. Head(<<"@type">>) = "@type"
  OBVIOUS
<1>. QED
  BY <1>1, <1>2

LEMMA ValueType ==
  ASSUME NEW t \in Terms
  PROVE  Value(t) \in Uris
<1>1. CASE t \in Iris /\ DOMAIN t = {"iri"} /\ t.iri \in Uris
  BY <1>1 DEF Value
<1>2. CASE DOMAIN t = {"blank"}
  <2>1. Value(t) = <<"label">>
    BY <1>2 DEF Value
  <2>2. PICK x \in STRING : x = "label"
    <3>1. "label" \in STRING
      BY StringAssumption
    <3>. QED
      BY <3>1, Zenon
  <2>3. <<x>> \in Uris
    BY Single DEF Uris
  <2>. QED
    BY <2>1, <2>2, <2>3
<1>3. CASE DOMAIN t = {"literal", "kind"} /\ t.literal \in STRING
  <2>1. Value(t) = <<t.literal>>
    BY <1>3 DEF Value
  <2>2. PICK x \in STRING : x = t.literal
    BY <1>3
  <2>3. <<x>> \in Uris
    BY Single DEF Uris
  <2>. QED
    BY <2>1, <2>2, <2>3
<1>. QED
  BY <1>1, <1>2, <1>3, TermForms

LEMMA ToRowType ==
  ASSUME NEW t \in Triples, NEW prefixes, IsNamespaces(prefixes)
  PROVE  ToRow(t, prefixes) \in Rows
<1>1. t.s \in Terms /\ t.o \in Terms /\ t.p.iri \in Uris /\ t.p.iri # <<"@type">>
  BY TripleParts
<1>2. PICK s : s = IF "blank" \in DOMAIN t.s THEN t.s ELSE [id |-> MakeRelative(Value(t.s))]
  OBVIOUS
<1>3. s \in Refs
  <2>1. CASE "blank" \in DOMAIN t.s
    <3>1. t.s \in Blanks
      BY <1>1, <2>1, TermForms
    <3>. QED
      BY <1>2, <2>1, <3>1 DEF Refs
  <2>2. CASE "blank" \notin DOMAIN t.s
    <3>1. MakeRelative(Value(t.s)) \in Uris
      BY <1>1, ValueType, UriTypes
    <3>. QED
      BY <1>2, <2>2, <3>1 DEF Refs
  <2>. QED
    BY <2>1, <2>2
<1>4. CASE t.p = Iri(RdfType)
  <2>1. PICK u \in Uris : u = Compact(Value(t.o), prefixes)
    BY <1>1, ValueType, CompactType
  <2>2. ToRow(t, prefixes) = [s |-> s, key |-> <<"@type">>, o |-> [type |-> u]]
    BY <1>2, <1>4, <2>1 DEF ToRow
  <2>. QED
    BY <1>3, <2>2 DEF Rows
<1>5. CASE t.p # Iri(RdfType)
  <2>1. PICK k \in Uris \ {<<"@type">>} : k = Compact(t.p.iri, prefixes)
    BY <1>1, CompactType
  <2>2. PICK o \in Values : o = ToJson(t.o)
    BY <1>1, ToJsonType
  <2>3. ToRow(t, prefixes) = [s |-> s, key |-> k, o |-> o]
    BY <1>2, <1>5, <2>1, <2>2 DEF ToRow
  <2>. QED
    BY <1>3, <2>3 DEF Rows
<1>. QED
  BY <1>4, <1>5

LEMMA LocalNameType ==
  ASSUME NEW key \in Seq(STRING)
  PROVE  LocalName(key) \in Seq(STRING)
<1>1. PICK rest : rest = From(key, 3)
  OBVIOUS
<1>2. Len(key) \in Nat /\ \A i \in 3 .. Len(key) : key[i] \in STRING
  OBVIOUS
<1>3. rest \in Seq(STRING)
  <2>1. SubSeq(key, 3, Len(key)) \in Seq(STRING)
    BY <1>2, SubSeqProperties
  <2>. QED
    BY <1>1, <2>1 DEF From
<1>. DEFINE colons == {n \in DOMAIN rest : rest[n] = ":"}
            k == CHOOSE n \in colons : \A m \in colons : n <= m
<1>4. CASE colons = {}
  BY <1>1, <1>3, <1>4 DEF LocalName
<1>5. CASE colons # {}
  <2>1. DOMAIN rest = 1 .. Len(rest) /\ Len(rest) \in Nat /\ \A i \in 1 .. Len(rest) : rest[i] \in STRING
    BY <1>3
  <2>2. colons \subseteq 1 .. Len(rest) /\ colons \subseteq Nat
    BY <2>1
  <2>3. PICK n \in colons : \A m \in colons : n <= m
    <3>. HIDE DEF colons
    <3>. QED
      BY <1>5, <2>2, SmallestNumber
  <2>4. k \in colons
    <3>. HIDE DEF colons
    <3>. QED
      BY <2>3
  <2>5. LocalName(key) = SubSeq(rest, 1, k - 1)
    BY <1>1, <1>5 DEF LocalName
  <2>6. PICK m \in 1 .. Len(rest) : m = k
    <3>. HIDE DEF colons, k
    <3>. QED
      BY <2>2, <2>4
  <2>7. m - 1 \in Int /\ \A i \in 1 .. m - 1 : rest[i] \in STRING
    BY <2>1
  <2>8. SubSeq(rest, 1, m - 1) \in Seq(STRING)
    BY <2>7, SubSeqProperties
  <2>. HIDE DEF k, colons
  <2>. QED
    BY <2>5, <2>6, <2>8
<1>. QED
  BY <1>4, <1>5

LEMMA ExpandType ==
  ASSUME NEW key \in Uris, NEW context, IsNamespaces(context)
  PROVE  /\ Expand(key, context) \in Uris
         /\ key # <<"@type">> => Expand(key, context) # <<"@type">>
<1>1. key \in Seq(STRING)
  BY DEF Uris
<1>2. PICK local \in Seq(STRING) : local = LocalName(key)
  BY <1>1, LocalNameType
<1>3. ASSUME NEW u \in Uris, Head(u) \in Origins
      PROVE  u \o local \in Uris /\ u \o local # <<"@type">>
  <2>1. u \in Seq(STRING) /\ u # <<>> /\ u[1] \in Origins
    BY <1>3 DEF Uris
  <2>2. Len(u) \in Nat /\ Len(u) # 0 /\ Len(local) \in Nat
    BY <2>1
  <2>3. PICK v : v = u \o local
    OBVIOUS
  <2>4. /\ v \in Seq(STRING) /\ Len(v) = Len(u) + Len(local)
        /\ \A i \in 1 .. Len(u) + Len(local) : v[i] = IF i <= Len(u) THEN u[i] ELSE local[i - Len(u)]
    BY <2>1, <2>3, ConcatProperties
  <2>5. Len(v) # 0 /\ v[1] = u[1]
    BY <2>2, <2>4
  <2>6. v # <<>> /\ v[1] \in Origins
    BY <2>1, <2>5
  <2>7. "@type" \notin Origins /\ <<"@type">>[1] = "@type"
    <3>1. "@type" \notin Origins
      BY RdfAssumption
    <3>. QED
      BY <3>1
  <2>. QED
    BY <2>3, <2>4, <2>6, <2>7 DEF Uris
<1>4. CASE HasOrigin(key)
  BY <1>4 DEF Expand
<1>5. CASE ~ HasOrigin(key) /\ key[1] \in DOMAIN context
  <2>1. context[key[1]] \in Uris /\ Head(context[key[1]]) \in Origins
    BY <1>5 DEF IsNamespaces
  <2>2. Expand(key, context) = context[key[1]] \o local
    BY <1>2, <1>5 DEF Expand
  <2>. QED
    BY <1>3, <2>1, <2>2
<1>6. CASE ~ HasOrigin(key) /\ key[1] \notin DOMAIN context /\ key[1] \in DOMAIN Common
  <2>1. Common[key[1]] \in Uris /\ Head(Common[key[1]]) \in Origins
    BY <1>6, CommonIs
  <2>2. Expand(key, context) = Common[key[1]] \o local
    BY <1>2, <1>6 DEF Expand
  <2>. QED
    BY <1>3, <2>1, <2>2
<1>7. CASE ~ HasOrigin(key) /\ key[1] \notin DOMAIN context /\ key[1] \notin DOMAIN Common
  BY <1>7 DEF Expand
<1>. QED
  BY <1>4, <1>5, <1>6, <1>7

LEMMA FromRowType ==
  ASSUME NEW r \in Rows, NEW context, IsNamespaces(context)
  PROVE  FromRow(r, context) \in Seq(Triples)
<1>1. PICK subject : subject = FromJson(r.s)[1]
  OBVIOUS
<1>2. r.s \in Refs
  BY DEF Rows
<1>3. subject \in Terms
  BY <1>1, <1>2, FromJsonType DEF Values
<1>4. CASE r.key = <<"@type">>
  <2>1. r.o.type \in Uris
    BY <1>4 DEF Rows
  <2>2. Iri(Expand(r.o.type, context)) \in Terms
    BY <2>1, ExpandType, IriParts
  <2>3. Iri(RdfType) \in Predicates
    BY RdfTypeIs, IriParts
  <2>4. PICK t : t = Triple(subject, Iri(RdfType), Iri(Expand(r.o.type, context)))
    OBVIOUS
  <2>5. t \in Triples
    BY <1>3, <2>2, <2>3, <2>4 DEF Triple, Triples
  <2>6. FromRow(r, context) = <<t>>
    BY <1>1, <1>4, <2>4 DEF FromRow
  <2>. QED
    BY <2>5, <2>6, Single
<1>5. CASE r.key # <<"@type">>
  <2>1. r.key \in Uris /\ r.o \in Values
    BY <1>5 DEF Rows
  <2>2. PICK p \in Predicates : p = Iri(Expand(r.key, context))
    BY <1>5, <2>1, ExpandType, IriParts
  <2>3. PICK objects \in Seq(Terms) : objects = FromJson(r.o)
    BY <2>1, FromJsonType
  <2>4. FromRow(r, context) = [i \in DOMAIN objects |-> Triple(subject, p, objects[i])]
    BY <1>1, <1>5, <2>2, <2>3 DEF FromRow
  <2>5. \A o \in Terms : Triple(subject, p, o) \in Triples
    BY <1>3 DEF Triple, Triples
  <2>6. DOMAIN objects = 1 .. Len(objects) /\ Len(objects) \in Nat
    BY <2>3
  <2>7. \A i \in 1 .. Len(objects) : Triple(subject, p, objects[i]) \in Triples
    BY <2>3, <2>5
  <2>8. [i \in 1 .. Len(objects) |-> Triple(subject, p, objects[i])] \in Seq(Triples)
    BY <2>6, <2>7
  <2>. QED
    BY <2>4, <2>6, <2>8
<1>. QED
  BY <1>4, <1>5

\* A triple that survives is read back.
LEMMA RowBack ==
  ASSUME NEW t \in Triples, NEW graph, NEW prefixes, IsNamespaces(prefixes), Plain(t, graph, prefixes)
  PROVE  FromRow(ToRow(t, prefixes), Context(prefixes)) = <<t>>
<1>1. /\ t.s \in Terms /\ t.p \in Predicates /\ t.o \in Terms /\ t = Triple(t.s, t.p, t.o)
      /\ t.p.iri \in Uris /\ t.p.iri # <<"@type">> /\ t.p = Iri(t.p.iri)
  BY TripleParts
<1>2. PICK r, context : r = ToRow(t, prefixes) /\ context = Context(prefixes)
  OBVIOUS
<1>3. "literal" \notin DOMAIN t.s /\ PlainValue(t.s) /\ PlainName(t.p.iri, prefixes)
  BY DEF Plain
<1>4. r.s = ToJson(t.s)
  <2>1. CASE "blank" \in DOMAIN t.s
    <3>1. DOMAIN t.s = {"blank"}
      BY <1>1, <2>1, TermForms
    <3>. QED
      BY <1>2, <2>1, <3>1 DEF ToRow, ToJson
  <2>2. CASE "blank" \notin DOMAIN t.s
    <3>1. DOMAIN t.s = {"iri"}
      BY <1>1, <1>3, <2>2, TermForms
    <3>. QED
      BY <1>2, <2>2, <3>1 DEF ToRow, ToJson, Value
  <2>. QED
    BY <2>1, <2>2
<1>5. FromJson(r.s)[1] = t.s
  <2>1. FromJson(ToJson(t.s)) = <<t.s>>
    BY <1>1, <1>3, ValueBack
  <2>. QED
    BY <1>4, <2>1
<1>6. CASE t.p = Iri(RdfType)
  <2>1. "iri" \in DOMAIN t.o /\ PlainName(t.o.iri, prefixes)
    BY <1>6 DEF Plain
  <2>2. t.o.iri \in Uris /\ t.o = Iri(t.o.iri)
    BY <1>1, <2>1, TermForms
  <2>3. r.key = <<"@type">> /\ r.o = [type |-> Compact(t.o.iri, prefixes)]
    <3>1. DOMAIN t.o = {"iri"}
      BY <1>1, <2>1, TermForms
    <3>2. Value(t.o) = t.o.iri
      BY <3>1 DEF Value
    <3>. QED
      BY <1>2, <1>6, <3>2 DEF ToRow
  <2>4. Expand(r.o.type, context) = t.o.iri
    BY <1>2, <2>1, <2>2, <2>3, NameBack
  <2>5. FromRow(r, context) = <<Triple(t.s, t.p, t.o)>>
    BY <1>5, <1>6, <2>2, <2>3, <2>4 DEF FromRow
  <2>. QED
    BY <1>1, <1>2, <2>5
<1>7. CASE t.p # Iri(RdfType)
  <2>1. PlainValue(t.o)
    BY <1>7 DEF Plain
  <2>2. FromJson(ToJson(t.o)) = <<t.o>>
    BY <1>1, <2>1, ValueBack
  <2>3. r.key = Compact(t.p.iri, prefixes) /\ r.o = ToJson(t.o)
    BY <1>2, <1>7 DEF ToRow
  <2>4. r.key # <<"@type">>
    BY <1>1, <2>3, CompactType
  <2>5. Expand(r.key, context) = t.p.iri
    BY <1>1, <1>2, <1>3, <2>3, NameBack
  <2>6. PICK objects : objects = <<t.o>>
    OBVIOUS
  <2>7. FromRow(r, context) = [i \in DOMAIN objects |-> Triple(t.s, t.p, objects[i])]
    BY <1>1, <1>5, <2>2, <2>3, <2>4, <2>5, <2>6 DEF FromRow
  <2>8. [i \in DOMAIN objects |-> Triple(t.s, t.p, objects[i])] = <<Triple(t.s, t.p, t.o)>>
    <3>. HIDE DEF Triple
    <3>. QED
      BY <2>6
  <2>. QED
    BY <1>1, <1>2, <2>7, <2>8
<1>. QED
  BY <1>6, <1>7
-----------------------------------------------------------------------------
(* Documents are written and read. *)

LEMMA ToQuadsIs ==
  ASSUME NEW rows \in Seq(Rows), NEW context, IsNamespaces(context)
  PROVE  /\ ToQuads(rows, context) \in Seq(Triples)
         /\ ToSet(ToQuads(rows, context)) = UNION {ToSet(FromRow(r, context)) : r \in ToSet(rows)}
<1>1. PICK seqs : seqs = [i \in DOMAIN rows |-> FromRow(rows[i], context)]
  OBVIOUS
<1>2. DOMAIN rows = 1 .. Len(rows) /\ Len(rows) \in Nat /\ \A i \in 1 .. Len(rows) : rows[i] \in Rows
  OBVIOUS
<1>3. \A i \in 1 .. Len(rows) : FromRow(rows[i], context) \in Seq(Triples)
  BY <1>2, FromRowType
<1>4. seqs \in Seq(Seq(Triples)) /\ DOMAIN seqs = DOMAIN rows
  BY <1>1, <1>2, <1>3
<1>5. /\ FlattenSeq(seqs) \in Seq(Triples)
      /\ ToSet(FlattenSeq(seqs)) = UNION {ToSet(seqs[i]) : i \in DOMAIN seqs}
  BY <1>4, FlattenIs
<1>6. ToQuads(rows, context) = FlattenSeq(seqs)
  BY <1>1 DEF ToQuads
<1>7. {ToSet(seqs[i]) : i \in DOMAIN seqs} = {ToSet(FromRow(r, context)) : r \in ToSet(rows)}
  <2>1. \A i \in DOMAIN seqs : seqs[i] = FromRow(rows[i], context)
    BY <1>1, <1>4
  <2>2. {ToSet(seqs[i]) : i \in DOMAIN seqs} = {ToSet(FromRow(rows[i], context)) : i \in DOMAIN rows}
    BY <1>4, <2>1
  <2>. DEFINE InRow(r) == ToSet(FromRow(r, context))
  <2>3. ToSet(rows) = {rows[i] : i \in DOMAIN rows}
    BY DEF ToSet
  <2>4. {InRow(rows[i]) : i \in DOMAIN rows} = {InRow(r) : r \in ToSet(rows)}
    <3>. HIDE DEF InRow
    <3>. QED
      BY <2>3
  <2>. QED
    BY <2>2, <2>4
<1>. QED
  BY <1>5, <1>6, <1>7

\* The rows that are not replaced by others.
LEMMA ToRowsIs ==
  ASSUME NEW quads \in Seq(Triples), NEW prefixes, IsNamespaces(prefixes),
         NEW rows, rows = [i \in DOMAIN quads |-> ToRow(quads[i], prefixes)]
  PROVE  /\ rows \in Seq(Rows) /\ DOMAIN rows = DOMAIN quads
         /\ ToRows(quads, prefixes) \in Seq(Rows)
         /\ ToSet(ToRows(quads, prefixes)) = {rows[i] : i \in {i \in DOMAIN quads : Stays(rows, i)}}
<1>1. DOMAIN quads = 1 .. Len(quads) /\ Len(quads) \in Nat /\ \A i \in 1 .. Len(quads) : quads[i] \in Triples
  OBVIOUS
<1>2. \A i \in 1 .. Len(quads) : ToRow(quads[i], prefixes) \in Rows
  BY <1>1, ToRowType
<1>3. rows \in Seq(Rows) /\ DOMAIN rows = 1 .. Len(quads) /\ \A i \in 1 .. Len(quads) : rows[i] \in Rows
  BY <1>1, <1>2
<1>4. PICK seqs : seqs = [i \in DOMAIN rows |-> IF Stays(rows, i) THEN <<rows[i]>> ELSE <<>>]
  OBVIOUS
<1>5. /\ DOMAIN seqs = 1 .. Len(quads)
      /\ \A i \in 1 .. Len(quads) : seqs[i] = IF Stays(rows, i) THEN <<rows[i]>> ELSE <<>>
  BY <1>3, <1>4
<1>6. ASSUME NEW i \in 1 .. Len(quads)
      PROVE  seqs[i] \in Seq(Rows) /\ ToSet(seqs[i]) = IF Stays(rows, i) THEN {rows[i]} ELSE {}
  <2>1. <<>> \in Seq(Rows) /\ ToSet(<<>>) = {}
    BY EmptySeq DEF ToSet
  <2>2. <<rows[i]>> \in Seq(Rows) /\ ToSet(<<rows[i]>>) = {rows[i]}
    BY <1>3, Single
  <2>. QED
    BY <1>5, <2>1, <2>2
<1>7. seqs \in Seq(Seq(Rows))
  <2>1. seqs = [i \in 1 .. Len(quads) |-> seqs[i]]
    BY <1>3, <1>4
  <2>2. PICK S : S = Seq(Rows)
    OBVIOUS
  <2>3. \A i \in 1 .. Len(quads) : seqs[i] \in S
    BY <1>6, <2>2
  <2>4. seqs \in [1 .. Len(quads) -> S]
    BY <2>1, <2>3, Zenon
  <2>. QED
    BY <1>1, <2>2, <2>4, IsSequence
<1>8. /\ FlattenSeq(seqs) \in Seq(Rows)
      /\ ToSet(FlattenSeq(seqs)) = UNION {ToSet(seqs[i]) : i \in DOMAIN seqs}
  BY <1>7, FlattenIs
<1>9. ToRows(quads, prefixes) = FlattenSeq(seqs)
  BY <1>4 DEF ToRows
<1>10. UNION {ToSet(seqs[i]) : i \in DOMAIN seqs} = {rows[i] : i \in {i \in DOMAIN quads : Stays(rows, i)}}
  <2>1. ASSUME NEW r, NEW i \in 1 .. Len(quads) PROVE r \in ToSet(seqs[i]) <=> Stays(rows, i) /\ r = rows[i]
    BY <1>6
  <2>2. ASSUME NEW r
        PROVE  r \in UNION {ToSet(seqs[i]) : i \in DOMAIN seqs} <=>
                 \E i \in 1 .. Len(quads) : r \in ToSet(seqs[i])
    BY <1>5
  <2>3. ASSUME NEW r
        PROVE  r \in {rows[i] : i \in {i \in DOMAIN quads : Stays(rows, i)}} <=>
                 \E i \in 1 .. Len(quads) : Stays(rows, i) /\ r = rows[i]
    BY <1>1
  <2>. QED
    BY <2>1, <2>2, <2>3
<1>. QED
  BY <1>1, <1>3, <1>8, <1>9, <1>10

\* A plain triple is in a row that is not replaced.
LEMMA PlainStays ==
  ASSUME NEW quads \in Seq(Triples), NEW prefixes, IsNamespaces(prefixes),
         NEW t \in ToSet(quads), Plain(t, ToSet(quads), prefixes)
  PROVE  ToRow(t, prefixes) \in ToSet(ToRows(quads, prefixes))
<1>1. PICK rows : rows = [i \in DOMAIN quads |-> ToRow(quads[i], prefixes)]
  OBVIOUS
<1>2. /\ DOMAIN rows = DOMAIN quads
      /\ ToSet(ToRows(quads, prefixes)) = {rows[i] : i \in {i \in DOMAIN quads : Stays(rows, i)}}
  <2>1. DOMAIN rows = DOMAIN quads
    BY <1>1
  <2>2. /\ ToRows(quads, prefixes) \in Seq(Rows)
        /\ ToSet(ToRows(quads, prefixes)) = {rows[i] : i \in {i \in DOMAIN quads : Stays(rows, i)}}
    BY <1>1, ToRowsIs
  <2>. QED
    BY <2>1, <2>2
<1>3. DOMAIN quads = 1 .. Len(quads) /\ Len(quads) \in Nat
  OBVIOUS
<1>4. \A i \in DOMAIN quads : rows[i] = ToRow(quads[i], prefixes)
  BY <1>1
<1>. DEFINE I == {i \in DOMAIN quads : quads[i] = t}
<1>5. PICK j \in I : \A i \in I : i <= j
  <2>1. I # {} /\ I \in SUBSET (1 .. Len(quads))
    BY <1>3 DEF ToSet
  <2>2. Max(I) \in I /\ \A i \in I : i <= Max(I)
    <3>. HIDE DEF I
    <3>. QED
      BY <1>3, <2>1, MaxOf
  <2>. QED
    BY <2>2
<1>6. j \in DOMAIN quads /\ quads[j] = t /\ rows[j] = ToRow(t, prefixes)
  BY <1>4, <1>5
<1>7. Stays(rows, j)
  <2>1. PICK same : same = {i \in DOMAIN rows : rows[i].s = rows[j].s /\ rows[i].key = rows[j].key}
    OBVIOUS
  <2>2. Stays(rows, j) <=> (\E i \in same : i <= j /\ ~ Falsy(rows[i].o)) \/ \A i \in same : i <= j
    BY <2>1 DEF Stays
  <2>3. j \in same /\ j <= j
    BY <1>2, <1>3, <1>6, <2>1
  <2>4. CASE ~ Falsy(rows[j].o)
    BY <2>2, <2>3, <2>4
  <2>5. CASE Falsy(rows[j].o)
    <3>1. t.p # Iri(RdfType)
      <4>1. SUFFICES ASSUME t.p = Iri(RdfType) PROVE FALSE
        OBVIOUS
      <4>2. rows[j].o = [type |-> Compact(Value(t.o), prefixes)]
        BY <1>6, <4>1 DEF ToRow
      <4>3. DOMAIN rows[j].o = {"type"}
        BY <4>2
      <4>4. DOMAIN rows[j].o \in {{"number"}, {"boolean"}, {"string"}}
        <5>1. PICK v : v = rows[j].o /\ Falsy(v)
          BY <2>5
        <5>2. DOMAIN v \in {{"number"}, {"boolean"}, {"string"}}
          BY <5>1 DEF Falsy
        <5>. QED
          BY <5>1, <5>2
      <4>. QED
        BY <4>3, <4>4
    <3>2. rows[j].o = ToJson(t.o)
      BY <1>6, <3>1 DEF ToRow
    <3>3. \A u \in ToSet(quads) : SameKey(u, t, prefixes) => u = t
      BY <2>5, <3>1, <3>2 DEF Plain
    <3>4. ASSUME NEW i \in same PROVE i \in I
      <4>1. i \in DOMAIN quads /\ rows[i].s = rows[j].s /\ rows[i].key = rows[j].key
        BY <1>2, <2>1
      <4>2. quads[i] \in ToSet(quads) /\ rows[i] = ToRow(quads[i], prefixes)
        BY <1>4, <4>1 DEF ToSet
      <4>3. SameKey(quads[i], t, prefixes)
        BY <1>6, <4>1, <4>2 DEF SameKey
      <4>. QED
        BY <3>3, <4>1, <4>2, <4>3
    <3>. QED
      BY <1>5, <2>2, <3>4
  <2>. QED
    BY <2>4, <2>5
<1>. QED
  BY <1>2, <1>6, <1>7

\* What a reader gets of triples that were written: those that survive, and if all do, no others.
LEMMA WrittenAndRead ==
  ASSUME NEW quads \in Seq(Triples), NEW prefixes, IsNamespaces(prefixes),
         NEW kept, kept = {t \in ToSet(quads) : Plain(t, ToSet(quads), prefixes)},
         NEW read, read = ToSet(ToQuads(ToRows(quads, prefixes), Context(prefixes)))
  PROVE  kept \subseteq read /\ (kept = ToSet(quads) => read = ToSet(quads))
<1>1. PICK rows : rows = [i \in DOMAIN quads |-> ToRow(quads[i], prefixes)]
  OBVIOUS
<1>2. /\ ToRows(quads, prefixes) \in Seq(Rows)
      /\ ToSet(ToRows(quads, prefixes)) = {rows[i] : i \in {i \in DOMAIN quads : Stays(rows, i)}}
  BY <1>1, ToRowsIs
<1>3. IsNamespaces(Context(prefixes))
  BY ContextIs
<1>4. read = UNION {ToSet(FromRow(r, Context(prefixes))) : r \in ToSet(ToRows(quads, prefixes))}
  BY <1>2, <1>3, ToQuadsIs
<1>5. ToSet(quads) \subseteq Triples
  <2>1. DOMAIN quads = 1 .. Len(quads) /\ \A i \in 1 .. Len(quads) : quads[i] \in Triples
    OBVIOUS
  <2>. QED
    BY <2>1 DEF ToSet
<1>6. ASSUME NEW t \in kept
      PROVE  /\ ToRow(t, prefixes) \in ToSet(ToRows(quads, prefixes))
             /\ ToSet(FromRow(ToRow(t, prefixes), Context(prefixes))) = {t}
  <2>1. t \in ToSet(quads) /\ t \in Triples /\ Plain(t, ToSet(quads), prefixes)
    BY <1>5
  <2>2. FromRow(ToRow(t, prefixes), Context(prefixes)) = <<t>>
    BY <2>1, RowBack
  <2>3. ToSet(<<t>>) = {t}
    BY Single
  <2>. QED
    BY <2>1, <2>2, <2>3, PlainStays
<1>7. kept \subseteq read
  BY <1>4, <1>6
<1>8. ASSUME kept = ToSet(quads) PROVE read \subseteq ToSet(quads)
  <2>1. SUFFICES ASSUME NEW r \in ToSet(ToRows(quads, prefixes))
                 PROVE  ToSet(FromRow(r, Context(prefixes))) \subseteq ToSet(quads)
    BY <1>4
  <2>2. PICK i \in DOMAIN quads : r = rows[i]
    BY <1>2
  <2>3. r = ToRow(quads[i], prefixes) /\ quads[i] \in ToSet(quads)
    BY <1>1, <2>2 DEF ToSet
  <2>4. ToSet(FromRow(r, Context(prefixes))) = {quads[i]}
    BY <1>6, <1>8, <2>3
  <2>. QED
    BY <2>3, <2>4
<1>. QED
  BY <1>7, <1>8
-----------------------------------------------------------------------------
(* Matching: the solutions are the bindings under which the clause is in   *)
(* the graph.                                                              *)

VarIn(t) == IF IsVar(t) THEN {t.var} ELSE {}
VarsIn(w) == VarIn(w.s) \cup VarIn(w.p) \cup VarIn(w.o)
NoBlank(t) == "blank" \notin DOMAIN t
Agree(b, c, V) == \A x \in V : b[x] = c[x]
Instance(w, b) == Triple(Term(w.s, b, 0), Term(w.p, b, 0), Term(w.o, b, 0))

LEMMA TermAgrees ==
  ASSUME NEW t, NoBlank(t), NEW b, NEW c, Agree(b, c, VarIn(t))
  PROVE  Term(t, b, 0) = Term(t, c, 0)
<1>1. CASE IsVar(t)
  BY <1>1 DEF Agree, VarIn, NoBlank, Term
<1>2. CASE ~ IsVar(t)
  BY <1>2 DEF NoBlank, Term
<1>. QED
  BY <1>1, <1>2

LEMMA MatchTermIs ==
  ASSUME NEW t, NoBlank(t), NEW V, NEW T, NEW term \in T, NEW b \in [V -> T], NEW c
  PROVE  c \in MatchTerm(t, term, b) <=>
           c \in [V \cup VarIn(t) -> T] /\ Agree(c, b, V) /\ Term(t, c, 0) = term
<1>1. ASSUME VarIn(t) \subseteq V
      PROVE  c \in [V \cup VarIn(t) -> T] /\ Agree(c, b, V) /\ Term(t, c, 0) = term
               <=> c = b /\ Term(t, b, 0) = term
  <2>1. V \cup VarIn(t) = V
    BY <1>1
  <2>2. c \in [V -> T] /\ Agree(c, b, V) <=> c = b
    BY DEF Agree
  <2>. QED
    BY <2>1, <2>2
<1>2. CASE ~ IsVar(t)
  <2>1. VarIn(t) = {} /\ Term(t, b, 0) = t /\ MatchTerm(t, term, b) = IF t = term THEN {b} ELSE {}
    BY <1>2 DEF VarIn, Term, NoBlank, MatchTerm
  <2>. QED
    BY <1>1, <2>1
<1>3. CASE IsVar(t) /\ t.var \in V
  <2>1. VarIn(t) \subseteq V
    BY <1>3 DEF VarIn
  <2>2. Term(t, b, 0) = b[t.var]
    BY <1>3 DEF Term, NoBlank
  <2>3. MatchTerm(t, term, b) = IF b[t.var] = term THEN {b} ELSE {}
    BY <1>3 DEF MatchTerm
  <2>. QED
    BY <1>1, <2>1, <2>2, <2>3
<1>4. CASE IsVar(t) /\ t.var \notin V
  <2>1. PICK v : v = t.var
    OBVIOUS
  <2>2. VarIn(t) = {v} /\ v \notin V
    BY <1>4, <2>1 DEF VarIn
  <2>3. PICK d : d = [x \in V \cup {v} |-> IF x = v THEN term ELSE b[x]]
    OBVIOUS
  <2>4. MatchTerm(t, term, b) = {d}
    BY <1>4, <2>1, <2>3 DEF MatchTerm
  <2>5. Term(t, c, 0) = c[v]
    BY <1>4, <2>1 DEF Term, NoBlank
  <2>6. d \in [V \cup {v} -> T] /\ Agree(d, b, V) /\ d[v] = term
    BY <2>2, <2>3 DEF Agree
  <2>7. c \in [V \cup {v} -> T] /\ Agree(c, b, V) /\ c[v] = term => c = d
    <3>1. SUFFICES ASSUME c \in [V \cup {v} -> T], Agree(c, b, V), c[v] = term
                   PROVE  c = d
      OBVIOUS
    <3>2. \A x \in V \cup {v} : c[x] = d[x]
      BY <2>2, <2>6, <3>1 DEF Agree
    <3>. QED
      BY <2>6, <3>1, <3>2
  <2>. QED
    BY <2>2, <2>4, <2>5, <2>6, <2>7
<1>. QED
  BY <1>2, <1>3, <1>4

Maps(V, T) == [V -> T]

LEMMA MatchTermAt ==
  ASSUME NEW t, NoBlank(t), NEW V, NEW W, W = V \cup VarIn(t), NEW T, NEW term \in T,
         NEW b \in Maps(V, T), NEW c
  PROVE  c \in MatchTerm(t, term, b) <=> c \in Maps(W, T) /\ Agree(c, b, V) /\ Term(t, c, 0) = term
BY MatchTermIs DEF Maps

LEMMA MatchesAre ==
  ASSUME NEW w, NoBlank(w.s), NoBlank(w.p), NoBlank(w.o), NEW V, NEW T,
         NEW q, q.s \in T, q.p \in T, q.o \in T, NEW b \in Maps(V, T), NEW c
  PROVE  c \in Matches(w, q, b) <=>
           /\ c \in Maps(V \cup VarsIn(w), T) /\ Agree(c, b, V)
           /\ Term(w.s, c, 0) = q.s /\ Term(w.p, c, 0) = q.p /\ Term(w.o, c, 0) = q.o
<1>1. PICK V1, V2, V3 : V1 = V \cup VarIn(w.s) /\ V2 = V1 \cup VarIn(w.p) /\ V3 = V2 \cup VarIn(w.o)
  OBVIOUS
<1>2. V \cup VarsIn(w) = V3
  BY <1>1 DEF VarsIn
<1>3. ASSUME NEW b3 \in Maps(V, T), NEW d
      PROVE  d \in MatchTerm(w.s, q.s, b3) <=> d \in Maps(V1, T) /\ Agree(d, b3, V) /\ Term(w.s, d, 0) = q.s
  BY <1>1, MatchTermAt
<1>4. ASSUME NEW b4 \in Maps(V1, T), NEW d
      PROVE  d \in MatchTerm(w.p, q.p, b4) <=> d \in Maps(V2, T) /\ Agree(d, b4, V1) /\ Term(w.p, d, 0) = q.p
  <2>1. NoBlank(w.p) /\ q.p \in T /\ V2 = V1 \cup VarIn(w.p)
    BY <1>1
  <2>. QED
    BY <2>1, MatchTermAt
<1>5. ASSUME NEW b5 \in Maps(V2, T), NEW d
      PROVE  d \in MatchTerm(w.o, q.o, b5) <=> d \in Maps(V3, T) /\ Agree(d, b5, V2) /\ Term(w.o, d, 0) = q.o
  BY <1>1, MatchTermAt
<1>6. ASSUME c \in Matches(w, q, b)
      PROVE  /\ c \in Maps(V3, T) /\ Agree(c, b, V)
             /\ Term(w.s, c, 0) = q.s /\ Term(w.p, c, 0) = q.p /\ Term(w.o, c, 0) = q.o
  <2>1. PICK b1 \in MatchTerm(w.s, q.s, b) :
          c \in UNION {MatchTerm(w.o, q.o, b2) : b2 \in MatchTerm(w.p, q.p, b1)}
    BY <1>6 DEF Matches
  <2>2. PICK b2 \in MatchTerm(w.p, q.p, b1) : c \in MatchTerm(w.o, q.o, b2)
    BY <2>1
  <2>3. b1 \in Maps(V1, T) /\ Agree(b1, b, V) /\ Term(w.s, b1, 0) = q.s
    BY <1>3, <2>1
  <2>4. b2 \in Maps(V2, T) /\ Agree(b2, b1, V1) /\ Term(w.p, b2, 0) = q.p
    BY <1>4, <2>2, <2>3
  <2>5. c \in Maps(V3, T) /\ Agree(c, b2, V2) /\ Term(w.o, c, 0) = q.o
    BY <1>5, <2>2, <2>4
  <2>6. Agree(c, b, V) /\ Agree(c, b1, VarIn(w.s)) /\ Agree(c, b2, VarIn(w.p))
    BY <1>1, <2>3, <2>4, <2>5 DEF Agree
  <2>7. Term(w.s, c, 0) = Term(w.s, b1, 0) /\ Term(w.p, c, 0) = Term(w.p, b2, 0)
    BY <2>6, TermAgrees
  <2>. QED
    BY <2>3, <2>4, <2>5, <2>6, <2>7
<1>7. ASSUME c \in Maps(V3, T), Agree(c, b, V),
             Term(w.s, c, 0) = q.s, Term(w.p, c, 0) = q.p, Term(w.o, c, 0) = q.o
      PROVE  c \in Matches(w, q, b)
  <2>1. PICK b1, b2 : b1 = [x \in V1 |-> c[x]] /\ b2 = [x \in V2 |-> c[x]]
    OBVIOUS
  <2>2. b1 \in Maps(V1, T) /\ b2 \in Maps(V2, T)
    BY <1>1, <1>7, <2>1 DEF Maps
  <2>3. /\ Agree(b1, b, V) /\ Agree(b1, c, VarIn(w.s))
        /\ Agree(b2, b1, V1) /\ Agree(b2, c, VarIn(w.p)) /\ Agree(c, b2, V2)
    BY <1>1, <1>7, <2>1 DEF Agree
  <2>4. Term(w.s, b1, 0) = q.s /\ Term(w.p, b2, 0) = q.p
    BY <1>7, <2>3, TermAgrees
  <2>5. b1 \in MatchTerm(w.s, q.s, b)
    BY <1>3, <2>2, <2>3, <2>4
  <2>6. b2 \in MatchTerm(w.p, q.p, b1)
    BY <1>4, <2>2, <2>3, <2>4
  <2>7. c \in MatchTerm(w.o, q.o, b2)
    BY <1>5, <1>7, <2>2, <2>3
  <2>. QED
    BY <2>5, <2>6, <2>7 DEF Matches
<1>. QED
  BY <1>2, <1>6, <1>7

LEMMA MatchesFew ==
  ASSUME NEW w, NEW q, NEW b
  PROVE  \E c : Matches(w, q, b) \subseteq {c}
<1>1. \A t, term, b1 : \E c : MatchTerm(t, term, b1) \subseteq {c}
  <2>1. SUFFICES ASSUME NEW t, NEW term, NEW b1 PROVE \E c : MatchTerm(t, term, b1) \subseteq {c}
    OBVIOUS
  <2>2. CASE ~ IsVar(t)
    BY <2>2 DEF MatchTerm
  <2>3. CASE IsVar(t) /\ t.var \in DOMAIN b1
    BY <2>3 DEF MatchTerm
  <2>4. CASE IsVar(t) /\ t.var \notin DOMAIN b1
    BY <2>4 DEF MatchTerm
  <2>. QED
    BY <2>2, <2>3, <2>4
<1>2. PICK b1 : MatchTerm(w.s, q.s, b) \subseteq {b1}
  BY <1>1
<1>3. PICK b2 : MatchTerm(w.p, q.p, b1) \subseteq {b2}
  BY <1>1
<1>4. PICK c : MatchTerm(w.o, q.o, b2) \subseteq {c}
  BY <1>1
<1>. QED
  BY <1>2, <1>3, <1>4 DEF Matches

LEMMA MatchesIn ==
  ASSUME NEW w, NoBlank(w.s), NoBlank(w.p), NoBlank(w.o), NEW V, NEW T,
         NEW q, q.s \in T, q.p \in T, q.o \in T, NEW b \in [V -> T], NEW c
  PROVE  c \in Matches(w, q, b) <=>
           /\ c \in [V \cup VarsIn(w) -> T] /\ Agree(c, b, V)
           /\ Term(w.s, c, 0) = q.s /\ Term(w.p, c, 0) = q.p /\ Term(w.o, c, 0) = q.o
<1>1. b \in Maps(V, T)
  BY DEF Maps
<1>2. c \in Matches(w, q, b) <=>
        /\ c \in Maps(V \cup VarsIn(w), T) /\ Agree(c, b, V)
        /\ Term(w.s, c, 0) = q.s /\ Term(w.p, c, 0) = q.p /\ Term(w.o, c, 0) = q.o
  BY <1>1, MatchesAre
<1>. QED
  BY <1>2 DEF Maps

\* The bindings of a set of patterns.
VarsOfAll(W) == UNION {VarsIn(w) : w \in W}
BindingsOf(W, G, T) == {c \in [VarsOfAll(W) -> T] : \A w \in W : Instance(w, c) \in G}

LEMMA UnionOfMatches ==
  ASSUME NEW w, NEW G, NEW B, NEW c
  PROVE  c \in UNION {Matches(w, q, b) : q \in G, b \in B} <=> \E q \in G, b \in B : c \in Matches(w, q, b)
OBVIOUS

LEMMA MatchStep ==
  ASSUME NEW W, NEW w, \A v \in W \cup {w} : NoBlank(v.s) /\ NoBlank(v.p) /\ NoBlank(v.o),
         NEW T, NEW G, \A q \in G : q = Triple(q.s, q.p, q.o) /\ q.s \in T /\ q.p \in T /\ q.o \in T,
         NEW M, \A c : c \in M <=> \E q \in G, b \in BindingsOf(W, G, T) : c \in Matches(w, q, b)
  PROVE  M = BindingsOf(W \cup {w}, G, T)
<1>1. PICK V : V = VarsOfAll(W)
  OBVIOUS
<1>2. VarsOfAll(W \cup {w}) = V \cup VarsIn(w)
  BY <1>1 DEF VarsOfAll
<1>3. \A v \in W \cup {w} : VarsIn(v) \subseteq V \cup VarsIn(w)
  BY <1>1 DEF VarsOfAll
<1>4. \A v \in W : VarsIn(v) \subseteq V
  BY <1>1 DEF VarsOfAll
<1>5. ASSUME NEW q \in G, NEW b \in [V -> T], NEW c
      PROVE  c \in Matches(w, q, b) <=>
               /\ c \in [V \cup VarsIn(w) -> T] /\ Agree(c, b, V)
               /\ Term(w.s, c, 0) = q.s /\ Term(w.p, c, 0) = q.p /\ Term(w.o, c, 0) = q.o
  <2>1. q.s \in T /\ q.p \in T /\ q.o \in T /\ NoBlank(w.s) /\ NoBlank(w.p) /\ NoBlank(w.o)
    OBVIOUS
  <2>. QED
    BY <2>1, MatchesIn
<1>6. ASSUME NEW v \in W, NEW b, NEW c, Agree(c, b, V) PROVE Instance(v, c) = Instance(v, b)
  <2>1. Agree(c, b, VarIn(v.s)) /\ Agree(c, b, VarIn(v.p)) /\ Agree(c, b, VarIn(v.o))
    BY <1>4, <1>6 DEF VarsIn, Agree
  <2>2. NoBlank(v.s) /\ NoBlank(v.p) /\ NoBlank(v.o)
    OBVIOUS
  <2>3. /\ Term(v.s, c, 0) = Term(v.s, b, 0) /\ Term(v.p, c, 0) = Term(v.p, b, 0)
        /\ Term(v.o, c, 0) = Term(v.o, b, 0)
    BY <2>1, <2>2, TermAgrees
  <2>. QED
    BY <2>3 DEF Instance
<1>7. ASSUME NEW q \in G, NEW b \in BindingsOf(W, G, T), NEW c \in Matches(w, q, b)
      PROVE  c \in BindingsOf(W \cup {w}, G, T)
  <2>1. b \in [V -> T] /\ \A v \in W : Instance(v, b) \in G
    BY <1>1 DEF BindingsOf
  <2>2. /\ c \in [V \cup VarsIn(w) -> T] /\ Agree(c, b, V)
        /\ Term(w.s, c, 0) = q.s /\ Term(w.p, c, 0) = q.p /\ Term(w.o, c, 0) = q.o
    BY <1>5, <1>7, <2>1
  <2>3. Instance(w, c) = q
    BY <2>2 DEF Instance
  <2>4. \A v \in W : Instance(v, c) \in G
    BY <1>6, <2>1, <2>2
  <2>. QED
    BY <1>2, <2>2, <2>3, <2>4 DEF BindingsOf
<1>8. ASSUME NEW c \in BindingsOf(W \cup {w}, G, T)
      PROVE  \E q \in G, b \in BindingsOf(W, G, T) : c \in Matches(w, q, b)
  <2>1. c \in [V \cup VarsIn(w) -> T] /\ \A v \in W \cup {w} : Instance(v, c) \in G
    BY <1>2 DEF BindingsOf
  <2>2. PICK q \in G : q = Instance(w, c)
    BY <2>1
  <2>3. Term(w.s, c, 0) = q.s /\ Term(w.p, c, 0) = q.p /\ Term(w.o, c, 0) = q.o
    BY <2>2 DEF Instance, Triple
  <2>4. PICK b : b = [x \in V |-> c[x]]
    OBVIOUS
  <2>5. b \in [V -> T] /\ Agree(c, b, V)
    BY <2>1, <2>4 DEF Agree
  <2>6. b \in BindingsOf(W, G, T)
    BY <1>1, <1>6, <2>1, <2>5 DEF BindingsOf
  <2>7. c \in Matches(w, q, b)
    BY <1>5, <2>1, <2>3, <2>5
  <2>. QED
    BY <2>6, <2>7
<1>9. M \subseteq BindingsOf(W \cup {w}, G, T)
  BY <1>7
<1>10. BindingsOf(W \cup {w}, G, T) \subseteq M
  BY <1>8
<1>. QED
  BY <1>9, <1>10
LEMMA ToSetFinite ==
  ASSUME NEW S, NEW s \in Seq(S)
  PROVE  /\ IsFiniteSet(ToSet(s)) /\ ToSet(s) \subseteq S
         /\ s \in Surjection(1 .. Len(s), ToSet(s)) /\ Cardinality(1 .. Len(s)) = Len(s)
         /\ IsFiniteSet(1 .. Len(s))
<1>1. DOMAIN s = 1 .. Len(s) /\ Len(s) \in Nat /\ s \in [1 .. Len(s) -> S]
  BY LenProperties
<1>2. ToSet(s) = {s[i] : i \in 1 .. Len(s)}
  BY <1>1 DEF ToSet
<1>3. s \in [1 .. Len(s) -> ToSet(s)] /\ ToSet(s) \subseteq S
  BY <1>1, <1>2
<1>4. s \in Surjection(1 .. Len(s), ToSet(s))
  BY <1>2, <1>3 DEF Surjection
<1>5. IsFiniteSet(1 .. Len(s)) /\ Cardinality(1 .. Len(s)) = Len(s)
  <2>1. /\ IsFiniteSet(1 .. Len(s))
        /\ Cardinality(1 .. Len(s)) = IF 1 > Len(s) THEN 0 ELSE Len(s) - 1 + 1
    BY <1>1, FS_Interval
  <2>2. (IF 1 > Len(s) THEN 0 ELSE Len(s) - 1 + 1) = Len(s)
    BY <1>1
  <2>. QED
    BY <2>1, <2>2
<1>. QED
  BY <1>3, <1>4, <1>5, FS_Surjection

LEMMA MatchAllIs ==
  ASSUME NEW w, NEW quads, NEW bs, NEW c
  PROVE  c \in MatchAll(bs, w, quads) <=> \E q \in ToSet(quads), b \in bs : c \in Matches(w, q, b)
BY UnionOfMatches DEF MatchAll

LEMMA MatchAllFinite ==
  ASSUME NEW w, NEW quads, IsFiniteSet(ToSet(quads)), NEW bs, IsFiniteSet(bs)
  PROVE  IsFiniteSet(MatchAll(bs, w, quads))
<1>1. PICK D : D = ToSet(quads) \X bs
  OBVIOUS
<1>2. IsFiniteSet(D)
  BY <1>1, FS_Product
<1>3. PICK f : f = [z \in D |-> Matches(w, z[1], z[2])]
  OBVIOUS
<1>4. PICK R : R = {f[z] : z \in D}
  OBVIOUS
<1>5. f \in Surjection(D, R)
  BY <1>3, <1>4 DEF Surjection
<1>6. IsFiniteSet(R)
  BY <1>2, <1>5, FS_Surjection
<1>7. ASSUME NEW M \in R PROVE IsFiniteSet(M)
  <2>1. PICK z \in D : M = Matches(w, z[1], z[2])
    BY <1>3, <1>4
  <2>2. PICK c : M \subseteq {c}
    BY <2>1, MatchesFew
  <2>. QED
    BY <2>2, FS_Singleton, FS_Subset
<1>8. IsFiniteSet(UNION R)
  BY <1>6, <1>7, FS_UNION
<1>9. \A c : c \in UNION R <=> \E q \in ToSet(quads), b \in bs : c \in Matches(w, q, b)
  <2>1. ASSUME NEW c \in UNION R PROVE \E q \in ToSet(quads), b \in bs : c \in Matches(w, q, b)
    <3>1. PICK z \in D : c \in Matches(w, z[1], z[2])
      BY <1>3, <1>4
    <3>. QED
      BY <1>1, <3>1
  <2>2. ASSUME NEW c, NEW q \in ToSet(quads), NEW b \in bs, c \in Matches(w, q, b) PROVE c \in UNION R
    <3>1. PICK z \in D : z[1] = q /\ z[2] = b
      <4>1. <<q, b>> \in D /\ <<q, b>>[1] = q /\ <<q, b>>[2] = b
        BY <1>1
      <4>. QED
        BY <4>1
    <3>2. f[z] \in R /\ f[z] = Matches(w, q, b)
      BY <1>3, <1>4, <3>1
    <3>. QED
      BY <2>2, <3>2
  <2>. QED
    BY <2>1, <2>2
<1>10. \A c : c \in MatchAll(bs, w, quads) <=> \E q \in ToSet(quads), b \in bs : c \in Matches(w, q, b)
  BY MatchAllIs
<1>11. MatchAll(bs, w, quads) = UNION R
  BY <1>9, <1>10
<1>. QED
  BY <1>8, <1>11

LEMMA VarsAre ==
  ASSUME NEW where
  PROVE  VarsOf(where) = VarsOfAll(ToSet(where))
<1>1. ASSUME NEW x \in VarsOf(where) PROVE x \in VarsOfAll(ToSet(where))
  <2>1. PICK w \in ToSet(where) : \E t \in TermsOf(w) : IsVar(t) /\ x = t.var
    BY DEF VarsOf
  <2>2. x \in VarsIn(w)
    BY <2>1 DEF TermsOf, VarsIn, VarIn
  <2>. QED
    BY <2>2 DEF VarsOfAll
<1>2. ASSUME NEW x \in VarsOfAll(ToSet(where)) PROVE x \in VarsOf(where)
  <2>1. PICK w \in ToSet(where) : x \in VarsIn(w)
    BY DEF VarsOfAll
  <2>2. PICK t \in TermsOf(w) : IsVar(t) /\ x = t.var
    BY <2>1 DEF TermsOf, VarsIn, VarIn
  <2>. QED
    BY <2>2 DEF VarsOf
<1>. QED
  BY <1>1, <1>2

LEMMA SubstitutedIs ==
  ASSUME NEW S, NEW qs \in Seq(S), NEW b, NEW ms
  PROVE  /\ DOMAIN Substituted(qs, b, ms) = DOMAIN qs
         /\ \A i \in DOMAIN qs : Substituted(qs, b, ms)[i] =
              Triple(Term(qs[i].s, b, ms), Term(qs[i].p, b, ms), Term(qs[i].o, b, ms))
BY DEF Substituted

\* The solutions are the bindings under which the where clause is in the graph.
LEMMA SolutionsAre ==
  ASSUME NEW where \in Seq(Patterns),
         \A w \in ToSet(where) : NoBlank(w.s) /\ NoBlank(w.p) /\ NoBlank(w.o),
         NEW quads \in Seq(Triples)
  PROVE  /\ Solutions(where, quads) = Bindings(where, ToSet(quads))
         /\ IsFiniteSet(Solutions(where, quads))
<1>1. PICK G : G = ToSet(quads)
  OBVIOUS
<1>2. PICK T : T = UNION {TermsOf(t) : t \in G}
  OBVIOUS
<1>3. G \subseteq Triples /\ IsFiniteSet(G)
  BY <1>1, ToSetFinite
<1>4. \A q \in G : q = Triple(q.s, q.p, q.o) /\ q.s \in T /\ q.p \in T /\ q.o \in T
  <2>1. \A q \in G : q.s \in T /\ q.p \in T /\ q.o \in T
    BY <1>2 DEF TermsOf
  <2>. QED
    BY <1>3, <2>1, TripleParts
<1>. DEFINE P == {w \in Patterns : NoBlank(w.s) /\ NoBlank(w.p) /\ NoBlank(w.o)}
            V == UNION {Maps(X, T) : X \in SUBSET STRING}
            N == Len(where)
<1>5. N \in Nat /\ DOMAIN where = 1 .. N /\ \A i \in 1 .. N : where[i] \in P
  <2>1. N \in Nat /\ DOMAIN where = 1 .. N /\ \A i \in 1 .. N : where[i] \in Patterns
    OBVIOUS
  <2>2. \A i \in 1 .. N : where[i] \in ToSet(where)
    BY <2>1 DEF ToSet
  <2>. QED
    BY <2>1, <2>2
<1>6. where \in Seq(P)
  <2>1. where = [i \in 1 .. N |-> where[i]]
    OBVIOUS
  <2>2. where \in [1 .. N -> P]
    <3>. HIDE DEF P, N
    <3>. QED
      BY <1>5, <2>1
  <2>. HIDE DEF P, N
  <2>. QED
    BY <1>5, <2>2, IsSequence
<1>7. {<<>>} = Maps({}, T) /\ {<<>>} \subseteq V
  <2>1. <<>> \in Maps({}, T)
    <3>1. <<>> \in Seq(T) /\ Len(<<>>) = 0
      BY EmptySeq
    <3>2. <<>> \in [1 .. Len(<<>>) -> T] /\ 1 .. 0 = {}
      BY <3>1, LenProperties
    <3>. QED
      BY <3>1, <3>2 DEF Maps
  <2>2. \A f \in Maps({}, T) : f = <<>>
    <3>1. \A f, g \in Maps({}, T) : f = g
      BY DEF Maps
    <3>. QED
      BY <2>1, <3>1
  <2>. QED
    BY <2>1, <2>2
<1>8. ASSUME NEW w \in P PROVE VarsIn(w) \subseteq STRING
  <2>1. w.s \in PatternTerms /\ w.o \in PatternTerms /\ w.p \in Predicates \cup [var : STRING]
    BY DEF Patterns
  <2>2. \A t \in PatternTerms \cup Predicates : IsVar(t) => t.var \in STRING
    BY DEF PatternTerms, Predicates, Iris, Literals, IsVar
  <2>3. VarIn(w.s) \subseteq STRING /\ VarIn(w.o) \subseteq STRING /\ VarIn(w.p) \subseteq STRING
    BY <2>1, <2>2 DEF VarIn
  <2>. QED
    BY <2>3 DEF VarsIn
<1>9. ASSUME NEW w \in P, NEW q \in G, NEW b \in V PROVE Matches(w, q, b) \subseteq V
  <2>1. PICK X \in SUBSET STRING : b \in Maps(X, T)
    OBVIOUS
  <2>2. X \cup VarsIn(w) \in SUBSET STRING
    BY <1>8
  <2>3. ASSUME NEW c \in Matches(w, q, b) PROVE c \in Maps(X \cup VarsIn(w), T)
    <3>1. NoBlank(w.s) /\ NoBlank(w.p) /\ NoBlank(w.o) /\ q.s \in T /\ q.p \in T /\ q.o \in T
      BY <1>4
    <3>. HIDE DEF P, V
    <3>. QED
      BY <2>1, <2>3, <3>1, MatchesAre
  <2>. QED
    BY <2>2, <2>3
<1>10. PICK r : /\ r[0] = {<<>>} /\ r[N] = Solutions(where, quads)
                /\ \A n \in 1 .. N : r[n] = MatchAll(r[n - 1], where[n], quads)
  <2>1. <<>> \in V
    BY <1>7
  <2>. HIDE DEF P, V
  <2>. QED
    BY <1>1, <1>6, <1>9, <2>1, SolutionsFold
<1>. DEFINE First(n) == {where[k] : k \in 1 .. n}
            I == {n \in Nat : n <= N => r[n] = BindingsOf(First(n), G, T) /\ IsFiniteSet(r[n])}
<1>11. 0 \in I
  <2>1. First(0) = {}
    OBVIOUS
  <2>2. BindingsOf({}, G, T) = Maps({}, T)
    <3>1. VarsOfAll({}) = {}
      BY DEF VarsOfAll
    <3>2. \A c : c \in BindingsOf({}, G, T) <=> c \in Maps({}, T)
      BY <3>1 DEF BindingsOf, Maps
    <3>. QED
      BY <3>2
  <2>3. IsFiniteSet({<<>>})
    BY FS_Singleton
  <2>. HIDE DEF First
  <2>. QED
    BY <1>7, <1>10, <2>1, <2>2, <2>3
<1>12. ASSUME NEW n \in Nat, n \in I PROVE n + 1 \in I
  <2>1. SUFFICES ASSUME n + 1 <= N
                 PROVE  r[n + 1] = BindingsOf(First(n + 1), G, T) /\ IsFiniteSet(r[n + 1])
    OBVIOUS
  <2>2. n + 1 \in 1 .. N /\ (n + 1) - 1 = n /\ n <= N
    BY <1>5, <2>1
  <2>3. PICK w : w = where[n + 1]
    OBVIOUS
  <2>4. PICK M : M = r[n + 1] /\ M = MatchAll(r[n], w, quads)
    BY <1>10, <2>2, <2>3
  <2>5. PICK W, B : W = First(n) /\ B = r[n] /\ B = BindingsOf(W, G, T) /\ IsFiniteSet(B)
    BY <1>12, <2>2
  <2>6. First(n + 1) = W \cup {w}
    <3>1. 1 .. n + 1 = (1 .. n) \cup {n + 1}
      OBVIOUS
    <3>. QED
      BY <2>3, <2>5, <3>1
  <2>7. \A v \in W \cup {w} : NoBlank(v.s) /\ NoBlank(v.p) /\ NoBlank(v.o)
    <3>1. \A k \in 1 .. n + 1 : k \in 1 .. N
      BY <1>5, <2>1
    <3>2. \A v \in First(n + 1) : v \in P
      BY <1>5, <3>1
    <3>. QED
      BY <2>6, <3>2
  <2>8. \A c : c \in M <=> \E q \in G, b \in BindingsOf(W, G, T) : c \in Matches(w, q, b)
    <3>1. M = MatchAll(B, w, quads)
      BY <2>4, <2>5
    <3>2. \A c : c \in M <=> \E q \in G, b \in B : c \in Matches(w, q, b)
      BY <1>1, <3>1, MatchAllIs
    <3>. QED
      BY <2>5, <3>2
  <2>9. M = BindingsOf(W \cup {w}, G, T)
    BY <1>4, <2>7, <2>8, MatchStep
  <2>10. IsFiniteSet(M)
    BY <1>1, <1>3, <2>4, <2>5, MatchAllFinite
  <2>. QED
    BY <2>4, <2>6, <2>9, <2>10
<1>13. N \in I
  <2>1. Nat \subseteq I
    <3>. HIDE DEF I
    <3>. QED
      BY <1>11, <1>12, NatSetInduction
  <2>. QED
    BY <1>5, <2>1
<1>14. First(N) = ToSet(where)
  BY <1>5 DEF ToSet
<1>15. PICK sol : sol = Solutions(where, quads) /\ sol = BindingsOf(ToSet(where), G, T) /\ IsFiniteSet(sol)
  <2>1. r[N] = BindingsOf(First(N), G, T) /\ IsFiniteSet(r[N])
    <3>1. N <= N
      BY <1>5
    <3>. QED
      BY <1>13, <3>1
  <2>. HIDE DEF First
  <2>. QED
    BY <1>10, <1>14, <2>1
<1>16. ASSUME NEW b PROVE b \in sol <=> b \in Bindings(where, G)
  <2>1. b \in sol <=> b \in [VarsOf(where) -> T] /\ \A w \in ToSet(where) : Instance(w, b) \in G
    BY <1>15, VarsAre DEF BindingsOf
  <2>2. b \in Bindings(where, G) <=> b \in [VarsOf(where) -> T] /\ ToSet(Substituted(where, b, 0)) \subseteq G
    BY <1>2 DEF Bindings
  <2>3. ToSet(Substituted(where, b, 0)) = {Instance(where[i], b) : i \in 1 .. N}
    <3>1. PICK qs : qs = Substituted(where, b, 0)
      OBVIOUS
    <3>2. DOMAIN qs = 1 .. N /\ \A i \in 1 .. N : qs[i] = Instance(where[i], b)
      BY <1>5, <3>1, SubstitutedIs DEF Instance
    <3>3. ToSet(qs) = {qs[i] : i \in 1 .. N}
      BY <3>2 DEF ToSet
    <3>. QED
      BY <3>1, <3>2, <3>3
  <2>4. ToSet(where) = {where[i] : i \in 1 .. N}
    BY <1>5 DEF ToSet
  <2>5. (\A w \in ToSet(where) : Instance(w, b) \in G) <=> ToSet(Substituted(where, b, 0)) \subseteq G
    BY <2>3, <2>4
  <2>. QED
    BY <2>1, <2>2, <2>5
<1>. QED
  BY <1>1, <1>15, <1>16
-----------------------------------------------------------------------------
(* A patch, applied.                                                       *)

PatchOK(p) ==
  /\ p.where \in Seq(Patterns) /\ p.deletes \in Seq(Patterns) /\ p.inserts \in Seq(Patterns)
  /\ \A w \in ToSet(p.where) : NoBlank(w.s) /\ NoBlank(w.p) /\ NoBlank(w.o)
  /\ \A q \in ToSet(p.deletes) \cup ToSet(p.inserts) :
       IsVar(q.p) /\ q.p.var \in VarsOf(p.where) => \E w \in ToSet(p.where) : w.p = q.p

LEMMA EmptyIs ==
  ToSet(<<>>) = {} /\ VarsOf(<<>>) = {}
<1>1. ToSet(<<>>) = {}
  BY DEF ToSet
<1>. QED
  BY <1>1 DEF VarsOf

LEMMA PatternTermForms ==
  ASSUME NEW t \in PatternTerms
  PROVE  \/ t \in Iris /\ DOMAIN t = {"iri"}
         \/ /\ t \in Literals /\ DOMAIN t = {"literal", "kind"} /\ t.literal \in STRING
         \/ DOMAIN t = {"blank"} /\ t.blank \in STRING
         \/ DOMAIN t = {"var"} /\ t.var \in STRING
<1>1. CASE t \in Iris
  BY <1>1 DEF Iris
<1>2. CASE t \in Literals
  BY <1>2 DEF Literals
<1>3. CASE t \in [blank : STRING]
  BY <1>3
<1>4. CASE t \in [var : STRING]
  BY <1>4
<1>. QED
  BY <1>1, <1>2, <1>3, <1>4 DEF PatternTerms

LEMMA WithoutVariablesType ==
  ASSUME NEW qs \in Seq(Patterns)
  PROVE  WithoutVariables(qs) \in Seq(Patterns)
<1>. DEFINE Known(q) == IF IsVar(q.s) \/ IsVar(q.p) THEN <<>> ELSE <<Triple(q.s, q.p, Bare(q.o))>>
<1>1. DOMAIN qs = 1 .. Len(qs) /\ Len(qs) \in Nat /\ \A i \in 1 .. Len(qs) : qs[i] \in Patterns
  OBVIOUS
<1>2. ASSUME NEW t \in PatternTerms PROVE Bare(t) \in PatternTerms
  <2>1. ASSUME NEW x \in STRING PROVE Iri(<<x>>) \in PatternTerms
    <3>1. <<x>> \in Uris
      BY Single DEF Uris
    <3>. QED
      BY <3>1 DEF Iri, Iris, PatternTerms
  <2>2. CASE DOMAIN t = {"var"} /\ t.var \in STRING
    <3>1. Bare(t) = Iri(<<t.var>>)
      BY <2>2 DEF Bare, IsVar
    <3>. QED
      BY <2>1, <2>2, <3>1
  <2>3. CASE /\ DOMAIN t = {"literal", "kind"} /\ t.literal \in STRING
             /\ t.kind \in Numeric \cup {"boolean"}
    <3>1. Bare(t) = Iri(<<t.literal>>)
      BY <2>3 DEF Bare, IsVar
    <3>. QED
      BY <2>1, <2>3, <3>1
  <2>4. CASE /\ "var" \notin DOMAIN t
             /\ ~ ("literal" \in DOMAIN t /\ t.kind \in Numeric \cup {"boolean"})
    BY <2>4 DEF Bare, IsVar
  <2>. QED
    BY <2>2, <2>3, <2>4, PatternTermForms
<1>3. ASSUME NEW q \in Patterns PROVE Known(q) \in Seq(Patterns)
  <2>1. Triple(q.s, q.p, Bare(q.o)) \in Patterns
    BY <1>2 DEF Patterns, Triple
  <2>2. <<Triple(q.s, q.p, Bare(q.o))>> \in Seq(Patterns)
    BY <2>1, Single
  <2>3. <<>> \in Seq(Patterns)
    BY EmptySeq
  <2>. QED
    BY <2>2, <2>3
<1>4. PICK seqs : seqs = [i \in DOMAIN qs |-> Known(qs[i])]
  OBVIOUS
<1>5. PICK S : S = Seq(Patterns)
  OBVIOUS
<1>6. seqs \in Seq(S)
  <2>1. \A i \in 1 .. Len(qs) : Known(qs[i]) \in S
    BY <1>1, <1>3, <1>5
  <2>. HIDE DEF Known
  <2>2. seqs \in [1 .. Len(qs) -> S]
    BY <1>1, <1>4, <2>1
  <2>. QED
    BY <1>1, <2>2, IsSequence
<1>7. FlattenSeq(seqs) \in Seq(Patterns)
  BY <1>5, <1>6, FlattenIs
<1>8. WithoutVariables(qs) = IF VarsOf(qs) = {} THEN qs ELSE FlattenSeq(seqs)
  BY <1>4 DEF WithoutVariables
<1>. QED
  BY <1>7, <1>8

LEMMA ParsedIs ==
  ASSUME NEW request \in Patches
  PROVE  PatchOK(Parsed(request))
<1>1. PICK p : p = request
  OBVIOUS
<1>2. /\ p.where \in Seq(Patterns) /\ p.deletes \in Seq(Patterns) /\ p.inserts \in Seq(Patterns)
      /\ \A w \in ToSet(p.where) : \A t \in TermsOf(w) : "blank" \notin DOMAIN t
      /\ \A q \in ToSet(p.deletes \o p.inserts) :
           IsVar(q.p) /\ q.p.var \in VarsOf(p.where) => \E w \in ToSet(p.where) : w.p = q.p
  BY <1>1, PatchAssumption
<1>3. ToSet(p.deletes \o p.inserts) = ToSet(p.deletes) \cup ToSet(p.inserts)
  BY <1>2, ConcatIs
<1>4. CASE p.language = "n3"
  <2>1. PatchOK(p)
    BY <1>2, <1>3 DEF PatchOK, NoBlank, TermsOf
  <2>. QED
    BY <1>1, <1>4, <2>1 DEF Parsed
<1>5. CASE p.language # "n3"
  <2>1. PICK r : r = Parsed(p)
    OBVIOUS
  <2>2. r.where = <<>> /\ r.deletes = WithoutVariables(p.deletes) /\ r.inserts = WithoutVariables(p.inserts)
    BY <1>5, <2>1 DEF Parsed
  <2>3. <<>> \in Seq(Patterns)
    BY EmptySeq
  <2>4. r.deletes \in Seq(Patterns) /\ r.inserts \in Seq(Patterns)
    BY <1>2, <2>2, WithoutVariablesType
  <2>5. PatchOK(r)
    BY <2>2, <2>3, <2>4, EmptyIs DEF PatchOK
  <2>. QED
    BY <1>1, <2>1, <2>5
<1>. QED
  BY <1>4, <1>5

\* What the solution puts for the variables of a patch are triples.
LEMMA SubstitutedType ==
  ASSUME NEW where, NEW G, G \subseteq Triples, NEW b \in Bindings(where, G), NEW ms \in Nat,
         where \in Seq(Patterns), \A w \in ToSet(where) : NoBlank(w.p),
         NEW qs \in Seq(Patterns), VarsOf(qs) \subseteq VarsOf(where),
         \A q \in ToSet(qs) : IsVar(q.p) /\ q.p.var \in VarsOf(where) => \E w \in ToSet(where) : w.p = q.p
  PROVE  Substituted(qs, b, ms) \in Seq(Triples)
<1>1. PICK T : T = UNION {TermsOf(t) : t \in G}
  OBVIOUS
<1>2. \A x \in VarsOf(where) : b[x] \in T
  BY <1>1 DEF Bindings
<1>3. T \subseteq Terms \cup Predicates
  <2>1. \A q \in G : q.s \in Terms /\ q.p \in Predicates /\ q.o \in Terms
    BY TripleParts
  <2>. QED
    BY <1>1, <2>1 DEF TermsOf
<1>4. Predicates \subseteq Terms
  BY DEF Predicates, Terms, Iris
<1>5. ASSUME NEW t \in PatternTerms, IsVar(t) => t.var \in VarsOf(where)
      PROVE  Term(t, b, ms) \in Terms
  <2>1. CASE DOMAIN t = {"var"}
    <3>1. Term(t, b, ms) = b[t.var] /\ IsVar(t)
      BY <2>1 DEF Term, IsVar
    <3>. QED
      BY <1>2, <1>3, <1>4, <1>5, <3>1
  <2>2. CASE DOMAIN t = {"blank"} /\ t.blank \in STRING
    <3>1. Term(t, b, ms) = Blank(<<"p", t.blank, ms>>)
      BY <2>2 DEF Term, IsVar
    <3>2. Blank(<<"p", t.blank, ms>>) \in Blanks
      BY <2>2 DEF Blank, Blanks
    <3>. QED
      BY <3>1, <3>2 DEF Terms
  <2>3. CASE t \in Iris \cup Literals /\ "var" \notin DOMAIN t /\ "blank" \notin DOMAIN t
    <3>1. Term(t, b, ms) = t
      BY <2>3 DEF Term, IsVar
    <3>. QED
      BY <2>3, <3>1 DEF Terms
  <2>. QED
    BY <2>1, <2>2, <2>3, PatternTermForms
<1>6. ASSUME NEW q \in ToSet(qs) PROVE Term(q.p, b, ms) \in Predicates
  <2>1. q \in Patterns
    BY ToSetFinite
  <2>2. CASE IsVar(q.p)
    <3>1. q.p.var \in VarsOf(qs)
      BY <2>2 DEF VarsOf, TermsOf
    <3>2. PICK w \in ToSet(where) : w.p = q.p
      BY <2>2, <3>1
    <3>3. PICK i \in DOMAIN where : w = where[i]
      BY DEF ToSet
    <3>4. Instance(w, b) \in G
      <4>1. PICK u : u = Substituted(where, b, 0)
        OBVIOUS
      <4>2. DOMAIN u = DOMAIN where /\ u[i] = Instance(w, b)
        BY <3>3, <4>1, SubstitutedIs DEF Instance
      <4>3. ToSet(u) \subseteq G
        BY <4>1 DEF Bindings
      <4>. QED
        BY <3>3, <4>2, <4>3 DEF ToSet
    <3>5. Instance(w, b).p = Term(w.p, b, 0)
      BY DEF Instance, Triple
    <3>6. Term(w.p, b, 0) \in Predicates
      BY <3>4, <3>5, TripleParts
    <3>7. Term(q.p, b, ms) = Term(w.p, b, 0)
      BY <2>2, <3>2 DEF Term, NoBlank
    <3>. QED
      BY <3>6, <3>7
  <2>3. CASE ~ IsVar(q.p)
    <3>1. q.p \in Predicates
      BY <2>1, <2>3 DEF Patterns, IsVar
    <3>2. DOMAIN q.p = {"iri"}
      BY <3>1 DEF Predicates
    <3>3. Term(q.p, b, ms) = q.p
      BY <2>3, <3>2 DEF Term
    <3>. QED
      BY <3>1, <3>3
  <2>. QED
    BY <2>2, <2>3
<1>7. ASSUME NEW q \in ToSet(qs)
      PROVE  Triple(Term(q.s, b, ms), Term(q.p, b, ms), Term(q.o, b, ms)) \in Triples
  <2>1. q \in Patterns
    BY ToSetFinite
  <2>2. q.s \in PatternTerms /\ q.o \in PatternTerms
    BY <2>1 DEF Patterns
  <2>3. (IsVar(q.s) => q.s.var \in VarsOf(qs)) /\ (IsVar(q.o) => q.o.var \in VarsOf(qs))
    BY DEF VarsOf, TermsOf
  <2>4. Term(q.s, b, ms) \in Terms /\ Term(q.o, b, ms) \in Terms
    BY <1>5, <2>2, <2>3
  <2>. QED
    BY <1>6, <2>4 DEF Triple, Triples
<1>8. DOMAIN qs = 1 .. Len(qs) /\ Len(qs) \in Nat /\ \A i \in 1 .. Len(qs) : qs[i] \in ToSet(qs)
  <2>1. DOMAIN qs = 1 .. Len(qs) /\ Len(qs) \in Nat
    OBVIOUS
  <2>. QED
    BY <2>1 DEF ToSet
<1>9. PICK u : u = Substituted(qs, b, ms)
  OBVIOUS
<1>10. u \in [1 .. Len(qs) -> Triples]
  <2>1. \A i \in 1 .. Len(qs) :
          Triple(Term(qs[i].s, b, ms), Term(qs[i].p, b, ms), Term(qs[i].o, b, ms)) \in Triples
    BY <1>7, <1>8
  <2>. QED
    BY <1>8, <1>9, <2>1 DEF Substituted
<1>. QED
  BY <1>8, <1>9, <1>10, IsSequence
LEMMA TimesIs ==
  ASSUME NEW S, NEW qs \in Seq(S), NEW q
  PROVE  /\ Times(q, qs) \in Nat /\ (Times(q, qs) = 0 <=> q \notin ToSet(qs))
         /\ Times(q, qs) <= 1 <=> \A i, j \in DOMAIN qs : qs[i] = q /\ qs[j] = q => i = j
<1>1. PICK I : I = {i \in DOMAIN qs : qs[i] = q}
  OBVIOUS
<1>2. Times(q, qs) = Cardinality(I)
  BY <1>1 DEF Times
<1>3. DOMAIN qs = 1 .. Len(qs) /\ IsFiniteSet(1 .. Len(qs))
  BY ToSetFinite, LenProperties
<1>4. IsFiniteSet(I) /\ Cardinality(I) \in Nat
  <2>1. I \in SUBSET (1 .. Len(qs))
    BY <1>1, <1>3
  <2>. QED
    BY <1>3, <2>1, FS_Subset, FS_CardinalityType
<1>5. Cardinality(I) = 0 <=> I = {}
  BY <1>4, FS_EmptySet
<1>6. I = {} <=> q \notin ToSet(qs)
  BY <1>1 DEF ToSet
<1>7. ASSUME \A i, j \in I : i = j PROVE Cardinality(I) <= 1
  <2>1. CASE I = {}
    BY <1>5, <2>1
  <2>2. CASE I # {}
    <3>1. PICK i \in I : TRUE
      BY <2>2
    <3>2. I = {i}
      BY <1>7, <3>1
    <3>3. Cardinality(I) = 1
      BY <3>2, FS_Singleton
    <3>. QED
      BY <3>3
  <2>. QED
    BY <2>1, <2>2
<1>8. ASSUME Cardinality(I) <= 1 PROVE \A i, j \in I : i = j
  <2>1. Cardinality(I) = 0 \/ Cardinality(I) = 1
    BY <1>4, <1>8
  <2>2. CASE Cardinality(I) = 0
    BY <1>5, <2>2
  <2>3. CASE Cardinality(I) = 1
    <3>1. PICK x : I = {x}
      BY <1>4, <2>3, FS_Singleton
    <3>. QED
      BY <3>1
  <2>. QED
    BY <2>1, <2>2, <2>3
<1>9. (\A i, j \in I : i = j) <=> \A i, j \in DOMAIN qs : qs[i] = q /\ qs[j] = q => i = j
  BY <1>1
<1>. QED
  BY <1>2, <1>4, <1>5, <1>6, <1>7, <1>8, <1>9

LEMMA AllThereIs ==
  ASSUME NEW S, NEW quads \in Seq(S), NEW deletes \in Seq(S), IsInjective(quads)
  PROVE  AllThere(quads, deletes) <=> IsInjective(deletes) /\ ToSet(deletes) \subseteq ToSet(quads)
<1>1. \A d : /\ Times(d, deletes) \in Nat /\ (Times(d, deletes) = 0 <=> d \notin ToSet(deletes))
             /\ Times(d, quads) \in Nat /\ (Times(d, quads) = 0 <=> d \notin ToSet(quads))
  BY TimesIs
<1>2. \A d : Times(d, quads) <= 1
  <2>1. \A d : \A i, j \in DOMAIN quads : quads[i] = d /\ quads[j] = d => i = j
    BY DEF IsInjective
  <2>. QED
    BY <2>1, TimesIs
<1>3. ASSUME AllThere(quads, deletes) PROVE IsInjective(deletes) /\ ToSet(deletes) \subseteq ToSet(quads)
  <2>1. \A d \in ToSet(deletes) : Times(d, deletes) <= Times(d, quads)
    BY <1>3 DEF AllThere
  <2>2. ASSUME NEW i \in DOMAIN deletes, NEW j \in DOMAIN deletes, deletes[i] = deletes[j]
        PROVE  i = j
    <3>1. PICK d \in ToSet(deletes) : d = deletes[i]
      BY DEF ToSet
    <3>2. Times(d, deletes) <= 1
      BY <1>1, <1>2, <2>1
    <3>3. \A k, l \in DOMAIN deletes : deletes[k] = d /\ deletes[l] = d => k = l
      BY <3>2, TimesIs
    <3>. QED
      BY <2>2, <3>1, <3>3
  <2>3. ASSUME NEW d \in ToSet(deletes) PROVE d \in ToSet(quads)
    <3>1. Times(d, deletes) # 0 /\ Times(d, deletes) <= Times(d, quads)
      BY <1>1, <2>1
    <3>2. Times(d, quads) # 0
      BY <1>1, <3>1
    <3>. QED
      BY <1>1, <3>2
  <2>. QED
    BY <2>2, <2>3 DEF IsInjective
<1>4. ASSUME IsInjective(deletes), ToSet(deletes) \subseteq ToSet(quads) PROVE AllThere(quads, deletes)
  <2>1. SUFFICES ASSUME NEW d \in ToSet(deletes) PROVE Times(d, deletes) <= Times(d, quads)
    BY DEF AllThere
  <2>2. \A i, j \in DOMAIN deletes : deletes[i] = d /\ deletes[j] = d => i = j
    BY <1>4 DEF IsInjective
  <2>3. Times(d, deletes) <= 1
    BY <2>2, TimesIs
  <2>4. Times(d, quads) # 0
    BY <1>1, <1>4, <2>1
  <2>. QED
    BY <1>1, <2>3, <2>4
<1>. QED
  BY <1>3, <1>4

LEMMA NotTwice ==
  ASSUME NEW S, NEW quads \in Seq(S), Len(quads) = Cardinality(ToSet(quads))
  PROVE  IsInjective(quads)
<1>1. /\ quads \in Surjection(1 .. Len(quads), ToSet(quads)) /\ Cardinality(1 .. Len(quads)) = Len(quads)
      /\ IsFiniteSet(1 .. Len(quads))
  BY ToSetFinite
<1>2. quads \in Injection(1 .. Len(quads), ToSet(quads))
  BY <1>1, FS_SurjSameCardinalityImpliesInj
<1>. QED
  BY <1>2 DEF Injection
-----------------------------------------------------------------------------
DocumentOK(d) ==
  /\ IsNamespaces(d.prefixes)
  /\ \/ /\ d.form = "json" /\ d.top \in Seq(Rows) /\ d.graph \in Seq(Rows) /\ d.named \in BOOLEAN
        /\ "" \notin DOMAIN d.prefixes
     \/ d.form = "turtle" /\ d.quads \in Seq(Triples)

LEMMA NoNamespaces ==
  IsNamespaces(<<>>) /\ DOMAIN <<>> = {}
<1>1. DOMAIN <<>> = {}
  OBVIOUS
<1>2. <<>> = [x \in DOMAIN <<>> |-> <<>>[x]]
  BY <1>1
<1>. QED
  BY <1>1, <1>2 DEF IsNamespaces

\* What is read of a document for a patch is what a GET says.
LEMMA LoadedIs ==
  ASSUME NEW d, DocumentOK(d)
  PROVE  Loaded(d) \in Seq(Triples) /\ ToSet(Loaded(d)) = Says(d)
<1>1. CASE d.form = "turtle"
  <2>1. d.quads \in Seq(Triples)
    BY <1>1 DEF DocumentOK
  <2>. QED
    BY <1>1, <2>1 DEF Loaded, Says
<1>2. CASE d.form # "turtle"
  <2>1. d.top \in Seq(Rows) /\ d.graph \in Seq(Rows) /\ d.named \in BOOLEAN
    BY <1>2 DEF DocumentOK
  <2>2. PICK context : context = Context(d.prefixes) /\ IsNamespaces(context)
    BY ContextIs DEF DocumentOK
  <2>3. PICK top \in Seq(Rows) : top = IF d.named THEN d.top ELSE <<>>
    BY <2>1, EmptySeq
  <2>4. PICK more \in Seq(Rows) :
          /\ more = IF d.named THEN d.top \o d.graph ELSE <<>>
          /\ ToSet(more) = IF d.named THEN ToSet(d.top) \cup ToSet(d.graph) ELSE {}
    <3>1. <<>> \in Seq(Rows) /\ ToSet(<<>>) = {}
      BY EmptySeq, EmptyIs
    <3>2. d.top \o d.graph \in Seq(Rows) /\ ToSet(d.top \o d.graph) = ToSet(d.top) \cup ToSet(d.graph)
      BY <2>1, ConcatIs
    <3>. QED
      BY <3>1, <3>2
  <2>5. ToSet(top) = IF d.named THEN ToSet(d.top) ELSE {}
    BY <2>3, EmptyIs
  <2>6. PICK r1, r2 : r1 = d.graph \o more /\ r2 = top \o d.graph
    OBVIOUS
  <2>7. r1 \in Seq(Rows) /\ ToSet(r1) = ToSet(d.graph) \cup ToSet(more)
    BY <2>1, <2>6, ConcatIs
  <2>8. r2 \in Seq(Rows) /\ ToSet(r2) = ToSet(top) \cup ToSet(d.graph)
    BY <2>1, <2>6, ConcatIs
  <2>9. ToSet(r1) = ToSet(r2)
    BY <2>4, <2>5, <2>7, <2>8
  <2>10. Loaded(d) = ToQuads(r1, context) /\ Says(d) = ToSet(ToQuads(r2, context))
    BY <1>2, <2>2, <2>3, <2>4, <2>6 DEF Loaded, Says
  <2>11. /\ ToQuads(r1, context) \in Seq(Triples)
         /\ ToSet(ToQuads(r1, context)) = UNION {ToSet(FromRow(r, context)) : r \in ToSet(r1)}
    BY <2>2, <2>7, ToQuadsIs
  <2>12. ToSet(ToQuads(r2, context)) = UNION {ToSet(FromRow(r, context)) : r \in ToSet(r2)}
    BY <2>2, <2>8, ToQuadsIs
  <2>13. ToSet(ToQuads(r1, context)) = ToSet(ToQuads(r2, context))
    BY <2>9, <2>11, <2>12
  <2>. QED
    BY <2>10, <2>11, <2>13
<1>. QED
  BY <1>1, <1>2

LEMMA TurtleIs ==
  ASSUME NEW quads \in Seq(Triples), NEW prefixes, IsNamespaces(prefixes)
  PROVE  /\ DocumentOK(TurtleDocument(quads, prefixes))
         /\ SaysOf(TurtleDocument(quads, prefixes), ToSet(quads), prefixes)
<1>1. PICK d : d = TurtleDocument(quads, prefixes)
  OBVIOUS
<1>2. d.form = "turtle" /\ d.quads = quads /\ d.prefixes = prefixes
  BY <1>1 DEF TurtleDocument
<1>3. Says(d) = ToSet(quads)
  BY <1>2 DEF Says
<1>4. SaysOf(d, ToSet(quads), prefixes)
  BY <1>2, <1>3 DEF SaysOf
<1>. QED
  BY <1>1, <1>2, <1>4 DEF DocumentOK

\* A document that is written says what was written, but for what does not survive.
LEMMA RewrittenIs ==
  ASSUME NEW d, d.form \in {"json", "turtle"}, NEW prefixes, prefixes = d.prefixes, IsNamespaces(prefixes),
         NEW quads \in Seq(Triples)
  PROVE  /\ DocumentOK(Rewritten(d, quads))
         /\ Rewritten(d, quads).prefixes = IF d.form = "turtle" THEN prefixes ELSE Context(prefixes)
         /\ SaysOf(Rewritten(d, quads), ToSet(quads), prefixes)
<1>1. PICK e : e = Rewritten(d, quads)
  OBVIOUS
<1>2. CASE d.form = "turtle"
  <2>1. e = TurtleDocument(quads, prefixes)
    BY <1>1, <1>2 DEF Rewritten
  <2>2. e.prefixes = prefixes
    BY <2>1 DEF TurtleDocument
  <2>. QED
    BY <1>1, <1>2, <2>1, <2>2, TurtleIs
<1>3. CASE d.form # "turtle"
  <2>1. PICK rows \in Seq(Rows) : rows = ToRows(quads, prefixes)
    <3>1. ToRows(quads, prefixes) \in Seq(Rows)
      BY ToRowsIs
    <3>. QED
      BY <3>1
  <2>2. PICK context : context = Context(prefixes)
    OBVIOUS
  <2>3. /\ IsNamespaces(context) /\ "" \notin DOMAIN context
    BY <2>2, ContextIs
  <2>4. Context(context) = context
    BY <2>3, ContextIs
  <2>5. \/ e = JsonDocument(<<>>, FALSE, TRUE, rows, context)
        \/ e = JsonDocument(rows, rows # <<>>, FALSE, <<>>, context)
    BY <1>1, <1>3, <2>1, <2>2 DEF Rewritten
  <2>6. /\ <<>> \in Seq(Rows) /\ <<>> \o rows = rows /\ rows \o <<>> = rows /\ <<>> \o <<>> = <<>>
    <3>1. <<>> \in Seq(Rows)
      BY EmptySeq
    <3>. QED
      BY <3>1, ConcatEmptySeq
  <2>7. /\ e.form = "json" /\ e.prefixes = context /\ DocumentOK(e)
        /\ (IF e.named THEN e.top ELSE <<>>) \o e.graph = rows
    <3>1. CASE e = JsonDocument(<<>>, FALSE, TRUE, rows, context)
      <4>1. /\ e.form = "json" /\ e.prefixes = context /\ e.named = FALSE /\ e.top = <<>> /\ e.graph = rows
        BY <3>1 DEF JsonDocument
      <4>. QED
        BY <2>1, <2>3, <2>6, <4>1 DEF DocumentOK
    <3>2. CASE e = JsonDocument(rows, rows # <<>>, FALSE, <<>>, context)
      <4>1. /\ e.form = "json" /\ e.prefixes = context /\ e.named = (rows # <<>>) /\ e.top = rows
            /\ e.graph = <<>>
        BY <3>2 DEF JsonDocument
      <4>2. DocumentOK(e)
        BY <2>1, <2>3, <2>6, <4>1 DEF DocumentOK
      <4>3. (IF e.named THEN e.top ELSE <<>>) \o e.graph = rows
        BY <2>6, <4>1
      <4>. QED
        BY <4>1, <4>2, <4>3
    <3>. QED
      BY <2>5, <3>1, <3>2
  <2>8. Says(e) = ToSet(ToQuads(rows, context))
    BY <2>4, <2>7 DEF Says
  <2>9. PICK kept : kept = {t \in ToSet(quads) : Plain(t, ToSet(quads), prefixes)}
    OBVIOUS
  <2>10. kept \subseteq Says(e) /\ (kept = ToSet(quads) => Says(e) = ToSet(quads))
    BY <2>1, <2>2, <2>8, <2>9, WrittenAndRead
  <2>11. SaysOf(e, ToSet(quads), prefixes)
    BY <2>7, <2>9, <2>10 DEF SaysOf
  <2>. QED
    BY <1>1, <1>3, <2>2, <2>7, <2>11
<1>. QED
  BY <1>2, <1>3
-----------------------------------------------------------------------------
PatchInv == DocumentOK(doc) /\ stamp \in Nat /\ WritesDoWhatTheySay

LEMMA InitWrites ==
  PatchInit => PatchInv
<1>. SUFFICES ASSUME PatchInit PROVE PatchInv
  OBVIOUS
<1>1. doc = NoDocument /\ stamp = 0 /\ last = NoRequest
  BY DEF PatchInit
<1>2. /\ doc.form = "json" /\ doc.top = <<>> /\ doc.graph = <<>> /\ doc.named = FALSE
      /\ doc.prefixes = <<>>
  BY <1>1 DEF NoDocument, JsonDocument
<1>3. <<>> \in Seq(Rows)
  BY EmptySeq
<1>4. DocumentOK(doc)
  BY <1>2, <1>3, NoNamespaces DEF DocumentOK
<1>5. last.answer = "none"
  BY <1>1 DEF NoRequest
<1>6. WritesDoWhatTheySay
  BY <1>5 DEF WritesDoWhatTheySay
<1>. QED
  BY <1>1, <1>4, <1>6 DEF PatchInv

LEMMA JsonWrites ==
  ASSUME PatchInv, NEW d \in JsonDocuments, PutJson(d)
  PROVE  PatchInv'
<1>1. /\ d = JsonDocument(d.top, d.named, d.hasGraph, d.graph, d.prefixes)
      /\ d.named \in BOOLEAN /\ d.top \in Seq(Rows) /\ d.graph \in Seq(Rows)
      /\ IsNamespaces(d.prefixes) /\ "" \notin DOMAIN d.prefixes
  BY PatchAssumption
<1>2. d.form = "json"
  <2>1. PICK e : e = JsonDocument(d.top, d.named, d.hasGraph, d.graph, d.prefixes)
    OBVIOUS
  <2>2. e.form = "json"
    BY <2>1 DEF JsonDocument
  <2>. QED
    BY <1>1, <2>1, <2>2
<1>3. DocumentOK(d)
  BY <1>1, <1>2 DEF DocumentOK
<1>4. doc' = d /\ last' = NoRequest /\ stamp' = stamp
  BY DEF PutJson
<1>5. last'.answer = "none"
  BY <1>4 DEF NoRequest
<1>6. WritesDoWhatTheySay'
  BY <1>5 DEF WritesDoWhatTheySay
<1>7. DocumentOK(doc') /\ stamp' \in Nat
  BY <1>3, <1>4 DEF PatchInv
<1>. QED
  BY <1>6, <1>7 DEF PatchInv

LEMMA TurtleWrites ==
  ASSUME PatchInv, NEW g \in Turtles, PutTurtle(g)
  PROVE  PatchInv'
<1>1. PICK quads, prefixes : quads = g.quads /\ prefixes = g.prefixes
  OBVIOUS
<1>2. quads \in Seq(Triples) /\ IsNamespaces(prefixes)
  BY <1>1, PatchAssumption
<1>3. /\ \/ doc' = TurtleDocument(quads, prefixes)
         \/ doc' = Rewritten(JsonDocument(<<>>, FALSE, FALSE, <<>>, prefixes), quads)
      /\ last' = [answer |-> "put", graph |-> ToSet(quads), prefixes |-> prefixes]
      /\ stamp' = stamp
  BY <1>1 DEF PutTurtle
<1>4. DocumentOK(doc') /\ SaysOf(doc', ToSet(quads), prefixes)
  <2>1. CASE doc' = TurtleDocument(quads, prefixes)
    BY <1>2, <2>1, TurtleIs
  <2>2. CASE doc' = Rewritten(JsonDocument(<<>>, FALSE, FALSE, <<>>, prefixes), quads)
    <3>1. PICK d : d = JsonDocument(<<>>, FALSE, FALSE, <<>>, prefixes)
      OBVIOUS
    <3>2. d.form = "json" /\ d.prefixes = prefixes
      BY <3>1 DEF JsonDocument
    <3>3. d.form \in {"json", "turtle"} /\ doc' = Rewritten(d, quads)
      BY <2>2, <3>1, <3>2
    <3>4. DocumentOK(Rewritten(d, quads)) /\ SaysOf(Rewritten(d, quads), ToSet(quads), prefixes)
      BY <1>2, <3>2, <3>3, RewrittenIs
    <3>. QED
      BY <3>3, <3>4
  <2>. QED
    BY <1>3, <2>1, <2>2
<1>5. last'.answer = "put" /\ last'.graph = ToSet(quads) /\ last'.prefixes = prefixes
  BY <1>3
<1>6. WritesDoWhatTheySay'
  BY <1>4, <1>5 DEF WritesDoWhatTheySay
<1>7. stamp' \in Nat
  BY <1>3 DEF PatchInv
<1>. QED
  BY <1>4, <1>6, <1>7 DEF PatchInv

\* As many solutions as there are distinct ones, of which there is one.
LEMMA OneSolution ==
  ASSUME NEW found, IsFiniteSet(found), Cardinality(found) = 1, NEW b \in found
  PROVE  found = {b}
<1>1. PICK x : found = {x}
  BY FS_Singleton
<1>. QED
  BY <1>1

LEMMA PatchTyped ==
  ASSUME NEW p, PatchOK(p), NEW quads \in Seq(Triples), NEW ms \in Nat,
         NEW b \in Bindings(p.where, ToSet(quads)), VarsOf(p.deletes \o p.inserts) \subseteq DOMAIN b
  PROVE  Substituted(p.deletes, b, ms) \in Seq(Triples) /\ Substituted(p.inserts, b, ms) \in Seq(Triples)
<1>1. PICK where, deletes, inserts : where = p.where /\ deletes = p.deletes /\ inserts = p.inserts
  OBVIOUS
<1>2. /\ where \in Seq(Patterns) /\ deletes \in Seq(Patterns) /\ inserts \in Seq(Patterns)
      /\ \A w \in ToSet(where) : NoBlank(w.s) /\ NoBlank(w.p) /\ NoBlank(w.o)
      /\ \A q \in ToSet(deletes) \cup ToSet(inserts) :
           IsVar(q.p) /\ q.p.var \in VarsOf(where) => \E w \in ToSet(where) : w.p = q.p
  BY <1>1 DEF PatchOK
<1>3. PICK G : G = ToSet(quads)
  OBVIOUS
<1>4. G \subseteq Triples
  BY <1>3, ToSetFinite
<1>5. b \in Bindings(where, G) /\ DOMAIN b = VarsOf(where)
  BY <1>1, <1>3 DEF Bindings
<1>6. ToSet(deletes \o inserts) = ToSet(deletes) \cup ToSet(inserts)
  BY <1>2, ConcatIs
<1>7. VarsOf(deletes) \subseteq VarsOf(where) /\ VarsOf(inserts) \subseteq VarsOf(where)
  <2>1. VarsOf(deletes) \subseteq VarsOf(deletes \o inserts) /\ VarsOf(inserts) \subseteq VarsOf(deletes \o inserts)
    BY <1>6 DEF VarsOf
  <2>. QED
    BY <1>1, <1>5, <2>1
<1>8. Substituted(deletes, b, ms) \in Seq(Triples)
  BY <1>2, <1>4, <1>5, <1>7, SubstitutedType
<1>9. Substituted(inserts, b, ms) \in Seq(Triples)
  BY <1>2, <1>4, <1>5, <1>7, SubstitutedType
<1>. QED
  BY <1>1, <1>8, <1>9

\* What the bindings of a patch make of it, in a graph that says nothing twice.
LEMMA FitsIs ==
  ASSUME NEW p, PatchOK(p), NEW quads \in Seq(Triples), stamp \in Nat, IsInjective(quads),
         NEW b \in Bindings(p.where, ToSet(quads))
  PROVE  Fits(p, b, quads) <=>
           /\ VarsOf(p.deletes \o p.inserts) \subseteq DOMAIN b
           /\ IsInjective(Substituted(p.deletes, b, stamp))
           /\ ToSet(Substituted(p.deletes, b, stamp)) \subseteq ToSet(quads)
<1>1. CASE VarsOf(p.deletes \o p.inserts) \subseteq DOMAIN b
  <2>1. PICK deletes : deletes = Substituted(p.deletes, b, stamp)
    OBVIOUS
  <2>2. deletes \in Seq(Triples)
    BY <1>1, <2>1, PatchTyped
  <2>3. AllThere(quads, deletes) <=> IsInjective(deletes) /\ ToSet(deletes) \subseteq ToSet(quads)
    BY <2>2, AllThereIs
  <2>. QED
    BY <1>1, <2>1, <2>3 DEF Fits
<1>2. CASE ~ (VarsOf(p.deletes \o p.inserts) \subseteq DOMAIN b)
  BY <1>2 DEF Fits
<1>. QED
  BY <1>1, <1>2

\* A patch that is accepted.
LEMMA AcceptedWrites ==
  ASSUME PatchInv, NEW p, PatchOK(p), NEW quads, quads = Loaded(doc),
         NEW found, found = Solutions(p.where, quads), Cardinality(Distinct(found)) = 1,
         NEW b \in found, Fits(p, b, quads),
         doc' = Rewritten(doc, Applied(quads, Substituted(p.deletes, b, stamp),
                                     Substituted(p.inserts, b, stamp))),
         Replies(p, "2xx")
  PROVE  DocumentOK(doc') /\ WritesDoWhatTheySay'
<1>1. PICK d, ms : d = doc /\ ms = stamp /\ ms \in Nat
  BY DEF PatchInv
<1>2. DocumentOK(d)
  BY <1>1 DEF PatchInv
<1>3. PICK G : G = Says(d)
  OBVIOUS
<1>4. quads \in Seq(Triples) /\ ToSet(quads) = G
  BY <1>1, <1>2, <1>3, LoadedIs
<1>5. p.where \in Seq(Patterns) /\ \A w \in ToSet(p.where) : NoBlank(w.s) /\ NoBlank(w.p) /\ NoBlank(w.o)
  BY DEF PatchOK
<1>6. found = Bindings(p.where, G) /\ IsFiniteSet(found)
  BY <1>4, <1>5, SolutionsAre
<1>7. VarsOf(p.deletes \o p.inserts) \subseteq DOMAIN b
  BY DEF Fits
<1>8. PICK deletes, inserts :
        deletes = Substituted(p.deletes, b, ms) /\ inserts = Substituted(p.inserts, b, ms)
  OBVIOUS
<1>9. b \in Bindings(p.where, ToSet(quads))
  BY <1>4, <1>6
<1>10. deletes \in Seq(Triples) /\ inserts \in Seq(Triples)
  <2>1. Substituted(p.deletes, b, ms) \in Seq(Triples) /\ Substituted(p.inserts, b, ms) \in Seq(Triples)
    BY <1>1, <1>4, <1>7, <1>9, PatchTyped
  <2>. QED
    BY <1>8, <2>1
<1>11. PICK less : less = Without(quads, deletes)
  OBVIOUS
<1>12. PICK after : after = With(less, inserts)
  OBVIOUS
<1>13. /\ less \in Seq(Triples)
       /\ IsInjective(quads) => ToSet(less) = G \ ToSet(deletes)
  BY <1>4, <1>10, <1>11, WithoutIs
<1>14. after \in Seq(Triples) /\ ToSet(after) = ToSet(less) \cup ToSet(inserts)
  BY <1>10, <1>12, <1>13, WithIs
<1>15. doc' = Rewritten(d, after)
  BY <1>1, <1>8, <1>11, <1>12 DEF Applied
<1>16. PICK prefixes : prefixes = d.prefixes
  OBVIOUS
<1>17. d.form \in {"json", "turtle"} /\ IsNamespaces(prefixes)
       /\ (d.form = "json" => "" \notin DOMAIN prefixes)
  <2>1. d.form \in {"json", "turtle"}
    BY <1>2 DEF DocumentOK
  <2>2. d.form = "json" => "" \notin DOMAIN prefixes
    BY <1>2, <1>16 DEF DocumentOK
  <2>3. IsNamespaces(prefixes)
    BY <1>2, <1>16 DEF DocumentOK
  <2>. QED
    BY <2>1, <2>2, <2>3
<1>18. PICK e : e = Rewritten(d, after)
  OBVIOUS
<1>19. /\ DocumentOK(e)
       /\ e.prefixes = IF d.form = "turtle" THEN prefixes ELSE Context(prefixes)
       /\ SaysOf(e, ToSet(after), prefixes)
  <2>1. /\ DocumentOK(Rewritten(d, after))
        /\ Rewritten(d, after).prefixes = IF d.form = "turtle" THEN prefixes ELSE Context(prefixes)
        /\ SaysOf(Rewritten(d, after), ToSet(after), prefixes)
    <3>1. d.form \in {"json", "turtle"} /\ IsNamespaces(prefixes) /\ after \in Seq(Triples)
      BY <1>14, <1>17
    <3>. QED
      BY <1>16, <3>1, RewrittenIs
  <2>. QED
    BY <1>18, <2>1
<1>20. e.prefixes = prefixes
  <2>1. d.form = "json" => Context(prefixes) = prefixes
    BY <1>17, ContextIs
  <2>. QED
    BY <1>17, <1>19, <2>1
<1>21. /\ last'.answer = "2xx" /\ last'.patch = p /\ last'.before = G /\ last'.at = ms
       /\ last'.twice = (Len(quads) # Cardinality(ToSet(quads)))
  BY <1>1, <1>3 DEF Replies
<1>22. doc' = e
  BY <1>15, <1>18
<1>23. ASSUME ~ last'.twice, Cardinality(Distinct(found)) = Cardinality(found)
       PROVE  /\ Cardinality(found) = 1
              /\ \A x \in found :
                   /\ VarsOf(p.deletes \o p.inserts) \subseteq DOMAIN x
                   /\ IsInjective(Substituted(p.deletes, x, ms))
                   /\ ToSet(Substituted(p.deletes, x, ms)) \subseteq G
                   /\ SaysOf(e, (G \ ToSet(Substituted(p.deletes, x, ms)))
                                  \cup ToSet(Substituted(p.inserts, x, ms)), e.prefixes)
  <2>1. Cardinality(found) = 1
    BY <1>23
  <2>2. found = {b}
    BY <1>6, <2>1, OneSolution
  <2>3. IsInjective(quads)
    BY <1>4, <1>21, <1>23, NotTwice
  <2>4. IsInjective(deletes) /\ ToSet(deletes) \subseteq G
    BY <1>1, <1>4, <1>8, <1>9, <2>3, FitsIs
  <2>5. ToSet(after) = (G \ ToSet(deletes)) \cup ToSet(inserts)
    BY <1>13, <1>14, <2>3
  <2>6. SaysOf(e, (G \ ToSet(deletes)) \cup ToSet(inserts), e.prefixes)
    BY <1>19, <1>20, <2>5
  <2>. QED
    BY <1>7, <1>8, <2>1, <2>2, <2>4, <2>6
<1>24. PICK fitting : fitting = {x \in found : /\ VarsOf(p.deletes \o p.inserts) \subseteq DOMAIN x
                                              /\ IsInjective(Substituted(p.deletes, x, ms))
                                              /\ ToSet(Substituted(p.deletes, x, ms)) \subseteq G}
  OBVIOUS
<1>25. \/ last'.twice \/ Cardinality(Distinct(found)) # Cardinality(found)
       \/ /\ Cardinality(found) = 1 /\ fitting = found
          /\ \A x \in found : SaysOf(e, (G \ ToSet(Substituted(p.deletes, x, ms)))
                                          \cup ToSet(Substituted(p.inserts, x, ms)), e.prefixes)
  BY <1>23, <1>24
<1>26. WritesDoWhatTheySay'
  BY <1>6, <1>21, <1>22, <1>24, <1>25 DEF WritesDoWhatTheySay
<1>. QED
  BY <1>19, <1>22, <1>26

\* A patch that is refused.
LEMMA RefusedWrites ==
  ASSUME PatchInv, NEW p, PatchOK(p), NEW quads, quads = Loaded(doc),
         NEW found, found = Solutions(p.where, quads),
         Cardinality(Distinct(found)) = 1 => \E b \in found : ~ Fits(p, b, quads),
         doc' = doc, Replies(p, "409")
  PROVE  DocumentOK(doc') /\ WritesDoWhatTheySay'
<1>1. PICK d, ms : d = doc /\ ms = stamp /\ ms \in Nat
  BY DEF PatchInv
<1>2. DocumentOK(d)
  BY <1>1 DEF PatchInv
<1>3. PICK G : G = Says(d)
  OBVIOUS
<1>4. quads \in Seq(Triples) /\ ToSet(quads) = G
  BY <1>1, <1>2, <1>3, LoadedIs
<1>5. p.where \in Seq(Patterns) /\ \A w \in ToSet(p.where) : NoBlank(w.s) /\ NoBlank(w.p) /\ NoBlank(w.o)
  BY DEF PatchOK
<1>6. found = Bindings(p.where, G) /\ IsFiniteSet(found)
  BY <1>4, <1>5, SolutionsAre
<1>7. /\ last'.answer = "409" /\ last'.patch = p /\ last'.before = G /\ last'.at = ms
      /\ last'.twice = (Len(quads) # Cardinality(ToSet(quads)))
  BY <1>1, <1>3 DEF Replies
<1>8. PICK fitting : fitting = {x \in found : /\ VarsOf(p.deletes \o p.inserts) \subseteq DOMAIN x
                                             /\ IsInjective(Substituted(p.deletes, x, ms))
                                             /\ ToSet(Substituted(p.deletes, x, ms)) \subseteq G}
  OBVIOUS
<1>9. ASSUME ~ last'.twice, Cardinality(Distinct(found)) = Cardinality(found), Cardinality(found) = 1
      PROVE  fitting = {}
  <2>1. PICK b \in found : ~ Fits(p, b, quads)
    BY <1>9
  <2>2. found = {b}
    BY <1>6, <1>9, OneSolution
  <2>3. IsInjective(quads)
    BY <1>4, <1>7, <1>9, NotTwice
  <2>4. b \in Bindings(p.where, ToSet(quads))
    BY <1>4, <1>6
  <2>5. ~ (/\ VarsOf(p.deletes \o p.inserts) \subseteq DOMAIN b
           /\ IsInjective(Substituted(p.deletes, b, ms))
           /\ ToSet(Substituted(p.deletes, b, ms)) \subseteq G)
    BY <1>1, <1>4, <2>1, <2>3, <2>4, FitsIs
  <2>. QED
    BY <1>8, <2>2, <2>5
<1>10. \/ last'.twice \/ Cardinality(Distinct(found)) # Cardinality(found)
       \/ Says(d) = G /\ (Cardinality(found) = 1 => fitting = {})
  BY <1>3, <1>9
<1>11. doc' = d
  BY <1>1
<1>12. WritesDoWhatTheySay'
  BY <1>6, <1>7, <1>8, <1>10, <1>11 DEF WritesDoWhatTheySay
<1>. QED
  BY <1>2, <1>11, <1>12

LEMMA PatchWrites ==
  ASSUME PatchInv, NEW request \in Patches, ApplyPatch(request)
  PROVE  PatchInv'
<1>1. PICK p : p = Parsed(request)
  OBVIOUS
<1>2. PatchOK(p)
  BY <1>1, ParsedIs
<1>3. PICK quads : quads = Loaded(doc)
  OBVIOUS
<1>4. PICK found : found = Solutions(p.where, quads)
  OBVIOUS
<1>5. /\ \/ /\ Cardinality(Distinct(found)) = 1
            /\ \E b \in found :
                 /\ Fits(p, b, quads)
                 /\ doc' = Rewritten(doc, Applied(quads, Substituted(p.deletes, b, stamp),
                                               Substituted(p.inserts, b, stamp)))
            /\ Replies(p, "2xx")
         \/ /\ Cardinality(Distinct(found)) = 1 => \E b \in found : ~ Fits(p, b, quads)
            /\ Replies(p, "409") /\ UNCHANGED doc
      /\ stamp' \in {stamp, stamp + 1}
  BY <1>1, <1>3, <1>4, Zenon DEF ApplyPatch
<1>6. stamp' \in Nat
  BY <1>5 DEF PatchInv
<1>7. DocumentOK(doc') /\ WritesDoWhatTheySay'
  <2>1. CASE Replies(p, "2xx") /\ Cardinality(Distinct(found)) = 1
             /\ \E b \in found :
                  /\ Fits(p, b, quads)
                  /\ doc' = Rewritten(doc, Applied(quads, Substituted(p.deletes, b, stamp),
                                                Substituted(p.inserts, b, stamp)))
    <3>1. PICK b \in found :
            /\ Fits(p, b, quads)
            /\ doc' = Rewritten(doc, Applied(quads, Substituted(p.deletes, b, stamp),
                                          Substituted(p.inserts, b, stamp)))
      BY <2>1
    <3>. QED
      BY <1>2, <1>3, <1>4, <2>1, <3>1, AcceptedWrites
  <2>2. CASE /\ Cardinality(Distinct(found)) = 1 => \E b \in found : ~ Fits(p, b, quads)
             /\ Replies(p, "409") /\ UNCHANGED doc
    BY <1>2, <1>3, <1>4, <2>2, RefusedWrites
  <2>. QED
    BY <1>5, <2>1, <2>2
<1>. QED
  BY <1>6, <1>7 DEF PatchInv

\* A write does what it says (PUT and PATCH, applyPatchRequest): what is read afterwards is what
\* was put, or what was there without what the patch deletes and with what it inserts; a patch
\* that is refused changes nothing.
THEOREM WritesDoWhatTheySayTheorem == PatchSpec => []WritesDoWhatTheySay
<1>1. PatchInit => PatchInv
  BY InitWrites
<1>2. PatchInv /\ [PatchNext]_patchVars => PatchInv'
  <2>. SUFFICES ASSUME PatchInv, [PatchNext]_patchVars PROVE PatchInv'
    OBVIOUS
  <2>1. ASSUME NEW d \in JsonDocuments, PutJson(d) PROVE PatchInv'
    BY <2>1, JsonWrites
  <2>2. ASSUME NEW g \in Turtles, PutTurtle(g) PROVE PatchInv'
    BY <2>2, TurtleWrites
  <2>3. ASSUME NEW p \in Patches, ApplyPatch(p) PROVE PatchInv'
    BY <2>3, PatchWrites
  <2>4. CASE UNCHANGED patchVars
    <3>1. doc' = doc /\ stamp' = stamp /\ last' = last
      BY <2>4 DEF patchVars
    <3>. QED
      BY <3>1 DEF PatchInv, WritesDoWhatTheySay
  <2>. QED
    BY <2>1, <2>2, <2>3, <2>4 DEF PatchNext
<1>3. PatchInv => WritesDoWhatTheySay
  BY DEF PatchInv
<1>. QED
  BY <1>1, <1>2, <1>3, PTL DEF PatchSpec
=============================================================================
