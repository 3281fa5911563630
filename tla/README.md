# Verification of JavaScriptSolidServer

TLA+ models of the parts of the server where several requests, processes, clients or servers
meet. TLC checks each on small instances; TLAPS proves the most important properties of some
for every value of the constants. The reference is the code under `src/src`; the documentation
under `src/docs` and the comments are used only for what they promise.

1. [The system](#1-the-system): inventory of the components
2. [Modules](#2-modules): which module models which code, and how
3. [Runs](#3-runs): what TLC checks, the bounds, the fairness
4. [Proofs](#4-proofs)
5. [Findings and limits of the code](#5-findings-and-limits-of-the-code)
6. [What is not modelled](#6-what-is-not-modelled)
7. [Plan](#7-plan)

To run: `tlc -config Locks.cfg MCLocks.tla`, `tlapm LocksProofs.tla`, and so on.
`PROJECT.json` lists every run, mutant, hazard and theorem, and maps each definition to the
lines of code it stands for.

## 1. The system

The server is one Node process per listening port, built on Fastify (`server.js`). Code
between two awaits is atomic; everything between requests is interleaved at awaits. Several
processes may share one data directory (a cluster, the `jss` command beside a server); they
meet in the file system only. All persistent state is files: documents, `.acl` files,
`.quota.json`, accounts, invites, the provider's items, the ledger, the ActivityPub store. Most
in-memory state is in module-level `Map`s.

A request passes: hooks (CORS, rate limit, dotfile guard) → `authorize` (token verification,
then Web Access Control) → handler → (for PUT, PATCH, DELETE) `serialised` → `withLock` →
storage → quota → `emitChange` → WebSocket clients. The identity provider, the payments, the
remoteStorage routes, the relay, the tunnel, WebRTC and ActivityPub bring routes of their own
and share storage, tokens and accounts with the rest.

### Modelled components

| component (code) | state | hard behaviour | must hold |
|---|---|---|---|
| Resource lock (`storage/filesystem.js`) | a lock file per path, its inode and mtime, a heartbeat | two processes' file system calls interleave; a holder dies; two break one stale lock | callbacks exclude one another; only dead locks are deleted; waiting ends |
| In-process queues (`handlers/resource.js`, `storage/quota.js`) | a `Map` from path or pod to the tail of a promise chain | the entry goes while others are chained; a handler throws | one at a time, in order, no leak, no wedge |
| Resource handlers (`handlers/resource.js`, `utils/conditional.js`) | the file: mtime, size, bytes | GET takes no lock; `writeFile` empties before it fills; death in between | an ETag names one body; check and write are one step |
| Storage quota (`storage/quota.js`) | `.quota.json` (limit, used), sizes on disk | load and save are two steps; a write fails after its reservation; PATCH asks nobody | files within the account, account within the limit, but for what PATCH writes; nothing leaks |
| Change notifications (`notifications/*`) | subscriptions by socket and by URL | ACL checks end in any order, after `unsub` or close | maps agree; no write is missed |
| Web Access Control (`auth/middleware.js`, `wac/*`) | ACL files | two awaits per level of the search while ACLs change; conditions, which one of two computations ignores | the answer is one that a single step would have given; the LDP handlers write ACLs under Control |
| Token verification (`auth/nostr.js`, `solid-oidc.js`, `cid-doc-fetch.js`, `did-nostr.js`, `lws-cid.js`, `idp/well-known-did-nostr.js`) | seen ids, caches of profiles and keys, an index of keys | boundaries of time windows; stale answers; shared rebuilds; four copies of one check | a signature is used once, for what was signed; a revoked key stops in time; the verifiers agree |
| Accounts and invites (`idp/accounts.js`, `credentials.js`, `invites.js`) | a file per account, four indexes, uses of an invite | unlocked read-modify-writes, write-back after bcrypt, a crash between files or in the middle of one | a name has one account; every index finds it; an invite is counted |
| Registration, pods (`handlers/container.js`, `idp/interactions.js`, `keys/provision.js`) | pod directories, ACLs, keys, profiles | a failure or crash at each step; two requests for one name; a rollback | no key before its ACLs; none advertised that is not stored; an account has its pod, with the exceptions of section 5 |
| OpenID provider (`idp/interactions.js`, `passkey.js`, `adapter.js`) | interaction files, cookies, sessions, challenges | tabs overwrite each other's copies; an expiry or an exception half way | a tab logs in whom it has proved; switching starts cold; every page is answered |
| Payments (`handlers/pay.js`, `webledger.js`, `token.js`, `wac/checker.js`) | ledger, outputs, claimed deposits, offers, pool, token trail | files are saved after awaits on the network; lost answers; files cut off; a TXO URI that is presented again | a deposit that is noted counts once; the books balance; the files follow the chain |
| remoteStorage (`remotestorage.js`) | the same documents | stat, read and write with no lock | an ETag names a body; what is lost was written since the handler looked |
| Patch and RDF (`patch/quads.js`, `sparql-update.js`, `rdf/turtle.js`) | none | reading triples from each form and writing them back | a patch does what it says and nothing else |
| WebRTC signalling (`webrtc/index.js`) | peers, groups | token awaited before the handlers are attached; a replaced socket closes late | the newest open socket of a user is the one others reach; groups hold live sockets |
| Reverse tunnel (`tunnel/index.js`) | names, pending requests | take-over, late answers and closes, timers | a name follows its newest socket; every visitor is answered |
| Nostr relay (`nostr/relay.js`) | a bounded list of events, subscriptions | replaceable events, filters that replace filters | the last of a slot stays; subscribers miss nothing |
| ActivityPub (`ap/*`) | followers, posts, cached actors; OAuth codes | restarts, repeats, lost deliveries, a database that is cut off | an accepted follower stays; a note is sent once under one id; a code gives one token |

### Components without a model

Request pipeline (`server.js`, `utils/`: hooks, rate limits by a library, error mapping), the
MCP server (`mcp/*`: its tools read and write one file per call without lock, precondition or
the check for Control that the HTTP handlers make for ACL files, section 5),
MongoDB routes, plugins, git, CORS proxy, terminal, user interface, command line. Their reasons
are in section 6 and in `PROJECT.json`, next to every hazard at the line where it bites.

## 2. Modules

```
MCLocks       Mutex <--- FileLock   PromiseChain
MCResourceWrites  AtomicResource <--- ResourceWrites
MCQuota       Quota
MCAccessControl   AccessControl
MCSockets     Notifications | Tunnel | Signalling | Relay
MCIdentity    Accounts | Registration | Passkey | Federation
MCPayments    Payments
MCLogin       Login
MCRequests    Replay | ProfileCache | Resolver | KeyBinding | Patch (over Rdf) | RemoteStorage
LocksProofs       FileLock, PromiseChain, ResourceWrites
QuotaProofs       Quota, over Sums (lemmas on sums over finite sets)
AccessControlProofs   AccessControl
SocketsProofs     Notifications, Tunnel, Signalling, Relay
IdentityProofs    Accounts, Registration, Passkey, Federation, Login
RequestProofs     Replay, RemoteStorage, Resolver, KeyBinding, ProfileCache, Patch
PaymentsProofs    Payments, over Sums
<---              is the specification that the right side implements
```

The models are layered and not one product. FileLock and PromiseChain establish mutual
exclusion; ResourceWrites, Quota and Patch assume it and add what happens inside. The
abstraction is the one that the refinement of Mutex states: acquire an empty critical section,
leave it by finishing or dying. One action is the code between two awaits (or one file system
call, when processes share files); where half-written files matter a write is two actions,
because `fs.writeFile` opens with `O_TRUNC` before it writes.

Where an MC module holds several components, its variable `part` says which of them a behaviour
is about; the others stay in their initial state. The union of their state spaces is checked,
not the product: these components share no state.

An invariant named `…Safe` is the conjunction of a module's type invariant with the named parts
that are listed with the runs.

Several modules carry *history variables* that no action reads: what a client has been told
(`stale`, `copies`, `welcomed`), what an ideal server would have answered (`moments`), and
whether a race has happened (`raced`, `contested`, `mixed`, `upset`). The last kind lets a
property say exactly up to which point the code, which takes no lock there, keeps its promise.

### Locks, queues, resources, quota, notifications, access

**FileLock** (`withLock`, `breakStaleLock`). `at` is the await a process is at: `open`, `stat`,
then `rename`, `inspect`, `putback`, `drop` inside `breakStaleLock`, `critical` inside the
callback. `lockFile` is the inode at the lock path, `aside` the one a contender has moved,
`observed` the inode number it saw in `stat`, `age` the mtime, `waited` the time since
`started`. `OpenCreates`/`OpenExists` are `open(…, 'wx')`; `StatStale`/`Sleep`/`GiveUp` the
three ways on from the stat; `RenameAside`/`RenameGone`, `InspectSame`/`InspectOther`,
`PutBack`, `DropAside` the body of `breakStaleLock`; `Release` the `finally`, which removes
whatever is at the path. `Tick` is the clock: the heartbeat fires three times per
`LOCK_STALE_MS`, so a lock with a live callback is touched in every tick. The calls of one
`breakStaleLock` take no tick: they follow each other at once while `LOCK_STALE_MS` is
fifteen seconds; other processes still run between them.

**PromiseChain** (`serialised`, `withPodLock`). `tail` is the `Map`, `previous` the promise a
request awaits, `before` a history of who had arrived. The two queues differ in when the entry
goes: `SettleAndDelete` is the `finally` of `serialised`, `Settle` and `Cleanup` the settled
promise of `withPodLock` and the reaction to it, which runs after a successor may have started.
`PathKeys` says which kind a key is.

**ResourceWrites** (the handlers over one resource). `tag` is the ETag, the pair that the code hashes:
mtime in ms and size. A body is abstracted to the set of the clients whose writes went into it: PUT
makes `{c}`, PATCH adds `c`, which is all that lost updates need. `FetchStat` and `FetchBody` are the
unlocked GET; `ProbeFails`/`ProbePasses` the check before the queue; `Enter`/`Refused` the lock or
ELOCKED; `CheckPasses`/`CheckFails` the preconditions on a fresh stat. Clients send any precondition
with any method (`Send`); PUT looks at both, PATCH and DELETE at If-Match alone (`PreconditionHolds`).
Then `ReadBase`, `PatchConflict`; `Truncate`, `Fill`; `Remove`; the failures of each; `Die`, the death
of the process. `DistinctTimes` says whether two writes may share a millisecond.

**AtomicResource** is its specification: check and change in one step.
`ImplementsAtomicResource` maps the body during a write to the one from before (`Current`), so
that the change takes effect when it is complete, or when it breaks off and leaves an empty
file (`Damage`).

**Quota**. `size` and `files` are the disk, `quota` the file `.quota.json`, `loaded` what a
request has read from it, `podLock` the `withPodLock` of each process, `writer` the queue of
each file. PUT: `BeginWrite`, `Load`, `Reserve` or `Refuse` (507), `Open`, `Fill`, and `Load`,
`Update` for a shrink or for the release after `WriteFails`. POST reserves its whole length.
DELETE: `BeginDelete`, `Unlink`, `Load`, `Update`. PATCH writes without asking, also a file that
is not there yet, and a later DELETE gives back bytes that were never taken. `Crash` ends
all requests of a process. `ReconcileLoad/Scan/Save` are `reconcileQuota`, which takes no lock.
Three history variables say what the code does not account: `untracked` (the bytes on the disk
less those in the account; negative after such a DELETE), `unreserved` (bytes written without a
reservation), `drift` (something was cut short).

**Notifications**. `Sub` is the message until the await of the ACL check, `Grant`/`Refuse` the
rest; `Unsub`, `Close`; `Write` the change on disk and `Announce` the `emitChange` that follows
under the same lock; `MakeContainer` the PUT of a container, which announces the origin.
`stale` and `inbox` are the clients: a client reads again what an `ack` or `pub` names, and
`stale` is what it has an old copy of.

**AccessControl**. A request is `Arrive`, `Stat` (does the resource exist? which container
counts?), then at each level `AclFound` (`storage.exists`) and `Decide` (`storage.read`), or
`AclMissing`; `Answer`, or what the handler does: `Create`, `TruncateAcl` and `FillAcl`,
`RemoveAcl`, `Delete` (of a container: the tree and its ACLs), `RecheckSlug` (the second check
of `handlePost`). An ACL is a set of authorizations with agents, classes, modes, `accessTo`,
`default` and a condition: none, a payment, or one the server does not know. `Grants` is the
check, which skips rules with unknown conditions and lets a payment succeed or fail; `WacAllow`
is the header, which looks at no condition; `tolls` are the modes that the document in force
gives under one. An emptied file is the empty set. `moments` records what a check in one step
might have answered at each moment since the search began, `edits` which ACLs have changed since.

### Connections

**Tunnel**. `link` is the state of each socket, `tunnels` the `Map` of names, `pendingOf` the pending
requests, `visited`, `sentTo` and `reply` the HTTP side; `newest` remembers who registered a name last.
A message, a close and a timer are each one action. A `close()` called by the server is not the end of a
socket: messages that were on their way are handled until the close event.

**Signalling**. A socket's token is awaited before its handlers are attached, so it may be
closed by then; one that is registered all the same is `lost`: nobody hears its close, and it stays
in `peers` until its user connects again. `peers` has one socket per user and replaces it at a
reconnect; `resources` and
`peerResources` are the two sides of the tracker's groups. `online` is what each client
believes after the messages it was sent.

**Relay**. EVENT, REQ and CLOSE are one action each, with the rate limit and the bounded list;
replaceable kinds remove their predecessor of the same slot first. A client's received events
are a history.

### Identity

**Accounts**. An operation of `accounts.js` or `credentials.js` is a *sequence of steps* (`load` an
index, `find` in it, require it `absent`, `put` a file, `enter` or `leave` an index, `verify` a
password, `write` a file back, `remove`, `purge`), put together as the functions call each other, and
one action takes the first step of a task. `files` are the account files, `index` the four indexes,
`podOf` the pods. Registration, login, password change, passkey changes and deletion with or without
purge run at once and die between any two steps. A write empties its file first: who reads it meanwhile
throws (`Throws`), a crash or a failed write may leave it `torn`, and from then on whoever has to read
it throws. A registration that throws has its pod removed, even where its account is already on the
disk; `failed` are the accounts whose registration or deletion threw. `mishaps` counts crashes and
failed writes. `raced` is set when a step acts on something that is no longer so, as when an index is
saved from an outdated copy.

**Registration**. Each request walks through: invite read, invite consumed, name validated, pod absent,
directories, ACLs, key, profile, account, and the rollback of `POST /.pods` (the form has none). A
folder, an ACL or the profile may fail to be written without anybody noticing (`lost`); a key that
cannot be written ends the request; `MakeAccount` may throw before or after its account is made, and the
rollback then leaves the account without its pod (`abandoned`). Pod names differ from user names in that
the latter ignore case. `contested` pods are those that two requests were making at once; `mixed` says
that an invite was written from an outdated copy.

**Passkey**. The `Map` of challenges with its limit and expiry, the ceremonies of several
browsers and the account file. A challenge is read, the account and verification awaited, and
only then dropped by key.

**Federation**. `store` is the in-memory database, `file` its copy on disk: every statement empties it
and writes it whole. One that fails (`FailStmt`) has run in memory, leaves the file cut off
(`truncated`) and throws. A delivery verifies its signature, for which it fetches and caches the signer,
and goes on whatever the outcome; it is stored under its id; Follow stores the follower, then sends the
Accept; Undo removes the row of whoever the activity names. A Create of a Note is stored under the id
that it brings (`Post`), a bare Note under a new one each time (`PostBare`), then both are delivered
once per inbox. `RestartServer` loses what is under way and the codes of OAuth, and may find the file
cut off, with a statement of its own or of the last run in the middle: what the database held then is
`dropped`. The codes are those which `RegisterApp`, `Authorize`, `Exchange` and `SweepCodes` model.

**Login**. The tabs of one browser share cookies and a session. Each handler reads the
interaction's file, awaits accounts or signatures (`LoginChecked`, `SchnorrChecked`,
`CompletionChecked`, `ConsentChecked`), writes its own copy back (`SaveInteraction`) and hands
over to oidc-provider (`FinishInteraction`, `Resume`), which is external. Faults: the flow
expires, the cookie is lost.

### Payments

**Payments**. Files are loaded and saved whole; a handler is a sequence of loads, saves and steps in the
outside world. A save empties the file first: a load beside it, or after a death or a failure in the
middle, finds it `Blank`, which the code takes for a file never written. The handlers: balance scans,
claims, token deposits, deposits of TXO URIs, buying and selling tokens, withdrawals, swap offers,
liquidity added and removed, pool swaps, and paid access of `checkAccess`. `chain` is the outside world
(which outputs are spent, where the token's trail is). Histories: `due`, what the pod owes, and `upset`,
which of {lost, string, txo, failed, death} have happened so far: a file was overwritten from an
outdated copy, read half written or cut off; satoshis took the place of the chains' currencies; a TXO
URI was credited, for which nobody has paid; an answer or a write was lost; the server died.

### Requests

**Replay**. NIP-98 event ids with their timer, DPoP `jti`s with theirs, seconds as time. An
event may be signed for the URL of the request, for that URL without its query (`page`), or, on
the git routes, for a prefix.
**ProfileCache** is `fetchCidDocument` with its bound, two lifetimes and the order of its `Map`.
**Resolver** is the way from a key to a WebID through the local index (one shared rebuild) and
an external DID resolver with its cache; what the outside says is a set of facts with the time
of their last change. **KeyBinding** holds the four copies of the check of a key against a
profile as operators side by side, with the reference `Binds`; the backlink check of DID documents
has two halves, the method (`CidVmBacklink`) and a sameAs link (`BacklinkAccepts`).

**Rdf** is the conversion between triples and JSON-LD rows (`quadsToJsonLd`, `jsonLdToQuads`,
prefixes, relative URLs, literals); **Patch** puts and patches documents in each of their forms
and compares each write with the triples it was to leave. **RemoteStorage** is GET, PUT and
DELETE of documents and of their folder next to the other handlers' writes.

## 3. Runs

| run | instance | states | asks |
|---|---|---|---|
| Locks | 2 processes, 5 inodes, 1 crash, restarts, stale after 1 tick, wait 2; 3 requests over one key of each queue | 2 parts, about 2 min | `LockSafe` (`HolderHasLock`), `ImplementsMutex`, `BreaksOnlyStale`, `GivesUpOnlyIfContended`, `RequestsEnd`; `ChainSafe` (`OneAtATime`, `ArrivalOrder`, `MapExact`), `EveryRequestRuns` |
| Resource | 2 clients, all methods with all preconditions, 2 sizes | 284,210 | `ResourceSafe` (`ETagNamesOneBody`, `AtMostOneReplaces`), `NoLostUpdate`, `ImplementsAtomicResource`, `EveryWriteAnswered` |
| Quota | 3 requests, 2 files, all methods, crash, reconcile offline, old pod | 2.89 M | `QuotaSafe` (`NeverUndercounted`, `WithinLimit`), `ExactWhenQuiet`, `NoLostQuotaUpdate` |
| Access | 2 requests, an inbox and a message, their ACLs with conditions, GET PUT POST DELETE | 2.62 M | `AccessSafe` (`AnswerWasRight`), `HeaderAgrees`, `AclWrittenUnderControl` |
| Sockets | a subscriber at 3 levels; 4 tunnel sockets of 3 users, 2 names, a visit; 4 peers, 2 groups; 2 relay clients, 6 events, 2 filters | 850,886 | `NotifySafe`, `TunnelSafe`, `VisitorsAnswered`, `SignallingSafe`, `RelaySafe` |
| Identity | 3 account tasks, two at once, a crash or failed write; 2 registrations with failures, an invite, a restart; 2 browsers with a passkey; 2 actors, failing writes, a restart; 2 OAuth clients | 1.07 M | `AccountsSafe`, `RegistrationSafe`, `PasskeySafe`, `FollowersTold`, `CodeGivesOneToken` |
| Payments | 2 requests at a time, 2 users, 2 chains, 2 outputs, 2 proofs, 3 starting ledgers, 1 death or failed write | 2.05 M | `DepositsOnce`, `BooksBalance`, `FilesFollowChain`, `PoolSound` |
| Login | 2 tabs, 2 accounts, 2 interactions, 2 forms, 1 fault | 395,729 | `LoginSafe` (`SwitchedCold`), `OwnAccount`, `PagesAnswered` |
| Requests | the six modules of section 2, "Requests" | 1.65 M | `ReplaySafe`, `CacheSafe`, `KeysRecent`, `BindingSafe`, `WritesDoWhatTheySay`, `RemoteSafe` |
| LoginJson | as Login, a program that asks for JSON | *violation* | `ProgramsAnswered` |
| PatchAppend | as Requests, patches only | *violation* | `AppendOnlyAdds` |
| ResourcePatchDelete | 2 clients, PATCH and DELETE | *violation* | `AtMostOneWinner` |

**What the passing runs show.**

*Locks.* `ImplementsMutex`: entering is entering an empty critical section, through every
interleaving of the calls of a contender that breaks a lock left by a crash. `BreaksOnlyStale`:
the file that is deleted is stale; a fresh one that was moved by mistake goes back.
`GivesUpOnlyIfContended`: with `LOCK_WAIT_MS` > `LOCK_STALE_MS` a dead lock alone never causes
a 503. `RequestsEnd`: the `continue` after `breakStaleLock` looks at no deadline, so contenders
might break and put back for ever; once arrivals stop they do not. `HolderHasLock`: a running
callback always has its file at the path or with a contender about to put it back.
`EveryRequestRuns` though any function in a queue may throw.

*Resource.* `ETagNamesOneBody` is the subtle one: GET makes its ETag from a stat and its body
from a later read, without a lock, and may run into any write; still a client whose ETag is the
current one has the stored bytes, because a write in between changes the tag for good. A client
that stats the emptied file has an ETag with size 0, which never comes back (an empty body has
the tag that truncation gives it, and is the same body). `NoLostUpdate` is about the steps that
replace: what they replace is what the client has read.

*Quota.* `WithinLimit` and `NeverUndercounted` through failures at every step and a crash: apart from
what PATCH writes without asking, a mistake is always on the safe side. `ExactWhenQuiet`: if nothing was
cut short, account and files differ by just what PATCH has written and its files gave back; no
reservation leaks, and reconciling repairs what was cut short. `NoLostQuotaUpdate`: what is saved is
based on what the file holds.

*Access.* `AnswerWasRight`: as long as the ACL of no more than one resource changes under a
search, its answer is one that a check in one step would have given at some moment of it. With
two changes it need not be (an ACL that appears below and one that goes above are seen in
neither state), hence the condition `Comparable`. `AclWrittenUnderControl` covers PUT, PATCH
and the POST whose Slug names an ACL, for which `RecheckSlug` is the only check; the writers of
MCP and remoteStorage are not in this model and keep to no such rule (section 5).
`HeaderAgrees`: `calculateWacAllow` and `checkAuthorizations` are two computations over one
document, and conditions are the only thing they disagree on: what was granted is listed, and
what is listed was not refused unless some rule gives it under a condition.

*Sockets.* `NotifySafe` = types, `MapsAgree`, `NoMissedWrite`: whatever a subscribed client
has an old copy of is about to be announced, or a message that makes it read again is on its
way; `ack` closes the gap between check and subscription. `TunnelSafe` = `NameFollowsNewest`
(the late close of a replaced socket leaves its successor alone) and `NobodyWaitsInVain` (when
a socket closes, those who wait for it get 502 at once, unless it had given the name up before).
`VisitorsAnswered`: everybody is, by the client, the close, the timer or the shutdown.
`SignallingSafe` = `PresenceExact` (an open socket of a user is the one in the map, and what it
has been told is who else is there), `PeersOwn` (the map holds a user's own socket, whose close is
still to be heard, or one that closed while its token was looked at), `MembersLive`,
`GroupsAgree`, through replaced sockets that close late. `RelaySafe` =
`LastOfSlotKept`, and `SubscribersMissNothing` across the change of a filter, a broadcast and
the list running over.

*Identity.* `AccountsSafe` = `IndexedExist` (a name in an index leads to an account of that
name at every moment and after a crash, because a file is made before and removed after its
names), `NamesUnique`, which holds with a torn index too because nobody is registered who cannot
be looked for, `AllIndexed` and `PodsKept`, all up to the first race of two saves. The last two
except the accounts whose own operation threw; that a registration for a taken name which fails
for whatever reason leaves the other's pod alone they do not except. `RegistrationSafe` =
`KeyUnderAcls`, `AdvertisedKeyStored`, `AccountHasPod`, `InviteCounted` at every step, after every
failure, crash and rollback, for all but parts of a pod that could not be written and accounts
whose pod was rolled back. `PasskeySafe` =
`RegistrationUndisturbed`, `NobodyKeptOut` (expired challenges do not count against the limit,
however late the timer is). `FollowersTold` = `AcceptedStaysFollower` (the row is on disk
before the Accept leaves), `NoteSentOnce` (under one id, with shared inboxes, repeated Creates,
restarts), both for all that a database which was cut off has not `dropped`.

*Payments.* `DepositsOnce` = `ScanCountsOnce` in every ledger whatever is overwritten or cut off,
`SeenIsCounted` through a death and `DepositsCountedOnce` between requests as long as no file has
lost anything. They are about outputs that are scanned or claimed and about token states; a TXO URI
is credited as often as it is presented (section 5). `BooksBalance`: what ledger and pool hold is
what was paid in and not used, as long as nothing has come in between; the credit of a TXO URI
is one of those things, because nothing is owed for it. `FilesFollowChain`: the
outputs listed as unspent are, and the trail ends where the chain does, so that the next
transfer is accepted. `PoolSound`: shares add up and stand for something, in every state.

*Login.* `SwitchedCold`: after "sign in as a different user" the interaction belongs to nobody.
`OwnAccount`: a tab that finishes the login it proved leaves the answer that names this
account, whatever the other tab wrote. `PagesAnswered` under weak fairness of the tabs' steps.

*Requests.* `ReplaySafe` = `EventsGrantOnce`, `ProofsGrantOnce`, `OnlyGrantsSpend`,
`GrantedAsSigned` (off the git routes method and body are those that were signed, and the URL is,
or it is without its query). `CacheSafe` (`AnswersRecent`): nothing older than a lifetime and one fetch
is believed, however many hits and fetches overlap. `KeysRecent` = `RevokedKeyStops`,
`SharedKeyRefused`, `LinkedKeyRecognised`, each within the lifetimes. `BindingSafe` =
`AcceptedAreBound`, `VerifiersAgree` over every profile of at most two methods, with and without a
sameAs link, which satisfies the backlink check alone.
`WritesDoWhatTheySay`: after a PUT of Turtle, what was sent; after an accepted patch, the triples
without the deletes and with the inserts; after a refused one, nothing has changed. `Plain` and
the operators before it name the triples that do not survive being written as JSON-LD.
`RemoteSafe` = `TagNamesBody`, `TagNamesListing`, `LostOnlySinceLook`.

Every property of a passing run has a mutant in `PROJECT.json`: a plausible mistake in one
mapped definition (next to what it replaces, under a comment "Variant: …") that TLC finds to
violate it.

**Bounds, and why they are enough.** Two processes show every pairwise race of the lock; the break
protocol compares one observed with one moved inode, so that two contenders and a dead holder are all it
can tell apart. With *two* crashes or *three* contenders on the same stale lock the protocol's known gap
opens (section 5), so these are not in the passing run. Five inodes suffice for two locks, two aside
files and one orphan. `StaleTicks = 1`, `WaitTicks = 2` keep the order of the two constants, which is
all the code relies on. Three requests on a chain give a running or settling one, one chained to it and
a newcomer. Two clients are enough for lost updates and winners, which are statements about pairs. Three
quota requests are two that race and one that finds the result; a limit of 2 with lengths 1 and 2 has
the boundary and the overshoot. Two requests in AccessControl are a search and what changes beneath it;
an ACL is one of a few documents per resource, among them one that sells to the public what it protects;
a rule with an unknown condition is to the check as if it were not there, and is left to the theorem.
Four tunnel sockets are an old and a new one of one user, another's, and an anonymous one; four peers
likewise. The relay's list has room for two of six events, so that it runs over. Three account tasks are
a registration, what races it and what comes after, two at once (`AtOnce`), with one mishap (`MaxMishaps`): a crash or a failed
write, and whatever reads the torn file later. The tasks are alike (`Alike`, which swaps the deliveries
along), and the account that is there first has one form. Of two registrations that may have the same
forms one order is looked at (`InOrder`); an ill-formed one has an invite to lose, and whoever uses the
form asks for a key. The theorems are about all forms. The replay windows are cut to `Tolerance = 1`,
`MaxAge = 2`, with seven seconds to pass: every boundary is met from both sides, and the theorems cover
all lengths. The caches' lifetimes are 1 to 3 with their order kept. Two payment requests are every pair
of handlers; amounts 1 and 3 at a cost of 1, a rate of 2 and a fee of 1 have payments that suffice, do
not, and leave change. One death or failed write (`MaxMishaps`) leaves one request to go on with what it
has left behind.

Named bounds: `MaxCrashes`, `MaxRestarts`, `MaxStarts`, `MaxMishaps`, `MaxFaults` (how often
something dies or fails), `MaxTime`, `MaxClock`, `MaxHours`, `MaxMinutes` (how long a behaviour is
watched), `MaxChanges`, `MaxTurns` (how often the outside changes), `MaxOptions`, `MaxFlows`,
`MaxForms` (how often a client begins again), `WaitTicks + 1` and `StaleTicks + 1` (counters
saturate). `MaxSubs`, `MaxJoined`, `MaxEvents`, `RateLimit`, `MaxChallenges`, `Room`, `MaxUses`
are limits of the code, made small.

**Symmetry** is used in runs without liveness only; in Login, which has liveness, the symmetry
of the two accounts is broken by hand (`LoginSpecOneSide`: the account settled beforehand is
`bob`, and nobody begins with `bob`'s session).

**Fairness.** FileLock: weak fairness of each process's next step (a call returns, a callback
settles, a timer fires) and strong fairness of the clock (it stops only for the short time a
lock is being moved). Nothing is assumed about arrivals, crashes and restarts; the property is
conditional on arrivals stopping, because the code's waiting has no queue. PromiseChain: weak
fairness of each request's steps. ResourceWrites: weak fairness of each handler; `Enter` may
lose the race for ever, but then `Refused` (503 after `LOCK_WAIT_MS`) is possible all the time.
Tunnel: weak fairness of the timeout of a pending request, nothing else: clients are obliged to
nothing. Login: weak fairness of each handler's steps. The other modules have no liveness. A
part that stays in its initial state has no enabled fair step.

**Deadlock** is checked in Access, which never stops. The other instances end when their
requests are answered or their bounds are reached.

## 4. Proofs

All with TLAPS, for every value of the constants that the `ASSUME`s of the modules allow.

| theorem | says | assumes |
|---|---|---|
| LocksProofs: TypeTheorem | types, crashes and restarts included | – |
| MutualExclusion-, RefinementTheorem | the lock implements Mutex, any number of processes | `MaxCrashes = 0` |
| LockSafe-, BreaksOnlyStale-, PairTheorem | the lock keeps its promises through a death and the breaking of the stale lock | `Pair`: two processes, one death, inode numbers not reused while one remembers them |
| PatienceTheorem | nobody gives up while a dead lock is the only obstacle; any processes, any crashes | – |
| ArrivalOrder-, OneAtATime-, MapExact-, ChainSafeTheorem | both queues, any number of requests and keys | – |
| ETag-, OneWinner-, NoLostUpdate-, Atomic-, ResourceSafeTheorem | any number of clients; the refinement of AtomicResource | `DistinctTimes` |
| QuotaProofs: QuotaTypeTheorem | types, any number of processes | – |
| NoLostQuotaUpdate-, QuotaSafe-, ExactWhenQuietTheorem | load and save are one step; files within the account but for what PATCH does, account within the limit, nothing leaks: any number of requests, files and sizes | `OneWriter`: one server process, no reconcile beside it |
| AccessControlProofs: AccessType-, AnswerWasRight-, AclWritten-, HeaderAgrees-, AccessSafeTheorem | any tree, any ACLs, any number of requests | – |
| SocketsProofs: NotificationsType-, MapsAgree-, NoMissedWrite-, NotifySafeTheorem | any tree, any number of sockets | – |
| TunnelSafe-, SignallingSafe-, RelaySafeTheorem | any number of sockets, users, names and visitors; any events, filters and limits | – |
| IdentityProofs: RegistrationSafe-, PasskeySafeTheorem | any number of requests, names, accounts and challenges | – |
| FollowersTold-, CodeGivesOneTokenTheorem | any number of actors, notes, codes and restarts | – |
| LoginSafe-, OwnAccountTheorem | any number of tabs, accounts and sessions | – |
| AccountsSafeTheorem | any number of requests and passkeys, any names, any crashes and failed writes, torn files; up to the first race | – |
| RequestProofs: EventsOnce, ProofsOnce, SpentByGrants, SignedGrants, ReplaySafeTheorem | any length of the windows, any events and proofs, any clock that does not run backwards | – |
| RemoteSafeTheorem | any number of clients and documents | – |
| KeysRecentTheorem | any number of requests and accounts, any lifetimes of the caches | a rebuild or a resolution ends within `MaxWork` |
| BindingSafeTheorem | the four verifiers, over every profile | – |
| CacheSafeTheorem | any number of requests and profiles, any lifetime and size of the cache | – |
| WritesDoWhatTheySayTheorem | any documents, prefixes, values and patches of any length | URLs, prefixes and numerals of different shapes (`RdfAssumption`); no blank nodes in a where clause, predicates that are variables come from it (`PatchAssumption`) |
| PaymentsProofs: PoolSound-, DepositsOnce-, FilesFollowChain-, BooksBalanceTheorem | any number of requests, users, outputs, proofs, deaths and failed writes; any amounts, prices and fees; DepositsCountedOnce and the books as long as no file has lost anything | – |

The `…SafeTheorem`s put a module's parts together into the property that a run checks.

**FileLock.** Without crashes: the file is there exactly while somebody is in the callback,
there is one at most, and its age is 0, because the heartbeat touches it in every tick. The
last conjunct keeps the first: a lock that is young is never judged stale, so `breakStaleLock`
never runs. With a crash that no longer holds, and with three contenders or a second crash the lock
itself does not (section 5). `PairInv` is the invariant for two processes and one death: before the
death the above; after it what the survivor is about to break is stale and stays so, and
whoever is in its callback has a fresh lock at the path, or aside with the other who has taken it by
mistake and puts it back. `Patience` is about waiting: unless others contend, the lock at the
path is at least as old as the wait, so that it is stale before the patience is over.

**PromiseChain.** `MapExact` and `OneAtATime` are not inductive. The invariant orders the
requests of a key by `before` (a total order, `Ordered`), says that whoever is unfinished
before a request is its predecessor or before that one (`Linked`), that the entry of a key with
anyone unfinished is the last of that order (`Entry`), and that nobody starts before its
predecessor has settled (`Started`). Exclusion follows: of two running requests one is before
the other, and would have settled.

**ResourceWrites.** `Locked` (only the holder is past `Enter`), `Times` (no tag is later than
the clock, and nobody has the one a write under way is going to make), `Emptied` (a file being
written has the current time, size 0 and no body), `Checked` (the precondition that was checked
is true until the write), `Spent` (the ETag of a write that has replaced something is not
current again, and nobody still writing is replacing the same body), and `ETagNamesOneBody`
itself. `Spent` is where distinct times are needed (section 5). The refinement proof goes
action by action: `Fill`, `Remove`, a broken-off write are `Change`; everything else is a
stutter of `Current`.

**Quota.** A request inside `withPodLock` is the one its process's `podLock` names, and has loaded what
the file holds; with one process there is one such request. `OneWriter` is what makes it true. The
numbers rest on one equation, `Covered`: the bytes on the disk and those held for the requests at work
(`Slacks`) are what the account says and what is `untracked`, and no more than that when something has
failed. PATCH adds to `untracked`, and a DELETE takes from it what it gives back without its ever having
been taken, so that it may be negative; `Limits` keeps it at or under `unreserved`, and account and
`untracked` together within the limit and `unreserved`. `Scanned` is about a scan at work. Both sides
are sums over all files and over all requests. Sums holds what is needed of them: the library's
induction takes a property as an argument, which the provers cannot handle, and so the lemmas look at a
smallest set of which they fail.

**Notifications.** `MapsAgree` needs `Fresh` (a socket that has not connected is in no map): a
closed socket may stay in `subscribers`, and would disagree if it could open again.
`NoMissedWrite` is inductive together with it.

**AccessControl.** `CheckInv` relates the place of the search to the history. `Before(q)` is
the ACL files as they were before the one change that the search has missed: all levels passed
so far were empty in the present files or in those, so that the ACL now found decides either
now or then, and `moments` holds both answers. The case of a file that goes between `exists`
and `read` is the one that makes a weaker invariant fail. `ControlInv` says which check stands
behind each place of a request for an ACL file. `HeaderInv`: the WAC-Allow header is empty until a
check has decided; only the second check of a POST, for Control, runs under the header of the first.
`Agrees` ties both to `tolls`, the modes the same document gives under a condition.

**Replay.** An id must not be dropped while its signature still verifies. For events: the time
noted is no earlier than the event's time less `Tolerance`, and ids are kept for twice that, so
an id that is due for dropping belongs to an event older than `Tolerance`. For proofs the
`jti` is kept with the proof's own `iat`, and what is older than `MaxAge` is refused before the
look at the cache. `EventsCovered` and `ProofsCovered` say just this of whatever has been
granted so far: its id is kept, or its time is over; a `jti` counts from when it is recorded,
before the access token is verified (`Used`).

**RemoteStorage.** An ETag names a body because each change takes a new moment and nothing that
is known, or asked for, is of a later one (`KnownInOrder`, `AskInOrder`). A listing is made in
two reads: as long as the folder's ETag is the one it began with, the names are those of now
(`ItemsAsTagged`). Between the look of a conditional PUT and its write nobody holds a lock;
`MatchedSinceLook` says that what is there instead is newer than the look, which is all that
`LostOnlySinceLook` promises. Every change of a file, by whomever, is one lemma (`ChangeKeeps`).

**Resolver.** `LastTrue` and `LastFalse` of a fact only grow (`Onward`), so whatever was recent
stays so, and each place an answer passes through needs one bound: what a scan has read was so
since it began (`ScanRecent`), the index was right up to `MaxWork` before it was built
(`IndexRecent`), a cached resolution likewise (`CacheRecent`), and a seeker at work uses neither
beyond its lifetime (`SeekersInTime`). An account is the index's owner only if the finished scan
found it alone (`OwnerIsAlone`): all others were read and did not list the key.

**KeyBinding.** No state beyond a profile: each verifier is a function of it, and the theorem
compares the functions for all profiles. The verifiers of a method agree; the backlink check
accepts a profile that has a sameAs link besides, and the theorem says that this is the only way in
which it goes beyond them.

**ProfileCache.** `CacheInv`: what is kept was current when its fetch began, is kept once per URL and in
no more than `Room` entries (`GoodCache`); an answer is no older than the fetch and the lifetime
together (`CallerRecent`).

**Patch.** `PatchInv` adds to the property only that a document is well formed (`DocumentOK`): each
write says all there is to say of the one before. What is long is the way from the operators to the sets
that the property compares. The folds of the code (a solution set refined by one pattern after another,
triples taken out and put in one by one) are unrolled into a sequence of intermediate results
(`FoldsUpTo`), about which induction over the natural numbers is possible, since the statement is
written out as a set of numbers. So `Solutions` are exactly the bindings of which the property speaks
(`SolutionsAre`), and `Without` and `With` are difference and union (`WithoutIs`, `WithIs`) where no
triple is there twice; `AllThereIs` turns the code's counting of copies into a statement on sets. The
conversion is a chain of inverse lemmas, from a URL (`IriBack`), a name (`NameBack`) and a value
(`ValueBack`) to a triple (`RowBack`) and a document (`WrittenAndRead`). Two of their hypotheses, that a
URL below a container goes on with a name and that a prefix has one meaning, TLC had not met in its
instance: the limits in section 5 that `PlainIri` and `PlainName` now state. `StringAssumption` says of
ten string literals that they are strings, for which TLAPS has no rule.

**Accounts.** An operation is a sequence of steps, so the first thing to know is what the steps still to
do look like, whatever has been done (`Shape`): a load is followed by the step that uses it, the rest
comes in the order of `Rank`, and what is begun is to be finished (`Whole`: who makes sure that a name
is free is going to write the file and enter the indexes, who clears the indexes is going to remove the
file). Then `NamesInv`, which assumes nothing of races: there is *one form for each id*, which is why
the proof quantifies over an assignment `g` of forms to ids. Nobody has an id before its file is written
(`Born`), and every file, every entry of an index, every copy of an index or account in a request's hand
agrees with `g` (`NamedBy`): a save of an outdated index may lose entries and bring others back, but
none is wrong. The rest holds until a step acts on what is no longer so (`UpToRace`). An entry leads to
a file (`NamesLead`) only because of how far deletions have come (`DeletesInOrder`: an index that a
deletion has passed does not have the id again, the file goes after all of them); names differ
(`Distinct`) because a registration that is not overtaken has found them absent; a pod is held by the
account, or by the registration that has made it and has not written its file (`PodsHeld`); and whoever
is missing in an index is about to enter it or is being deleted (`AllListed`, while nothing has died or
failed). Writes that fail or are cut short leave a file `torn`. What the next reader does is throw, so
that the invariants about what was last written whole go on; the accounts whose operation threw with
their file in place (`failed`) are the exception in `PodsHeld`, because the rollback has taken their
pod.

**Registration.** `PodsInv`: while nobody contests a name, whoever builds its pod is alone, and the parts on
the disk are those that its place in the program says (`Progress`), less those whose write has
failed unnoticed (`lost`). User names whose account was written by a request that threw are
`abandoned`: the rollback has removed their pod. An invite has been counted for no
more than the requests that are past it (`AdmittedBeyond`).

**Passkey.** No two clients wait for one challenge (`Apart`), and an authenticator has signed no more often
than there are challenges that no page is open for (`Signed`), which bounds its counter.

**Federation.** The database in memory is the one on the disk, unless its last write has failed
(`truncated`); what a restart then finds missing is `dropped`, and the theorem excepts it. What is still
to be sent to an inbox has not been (`FollowersInv`, `SendsInOrder`). A code that can be exchanged is as
it was minted and has given nothing (`CodesInv`).

**Login.** `LoginInv` has an invariant for each tab. A copy of the interaction that is about to be saved
after a switch has no account in it (`OkTab`); the answer on its way to the browser names the
account that this tab has proved (`Owed`).

**Tunnel.** `VisitsInOrder` adds that a request that waits came under a name and was sent to a
socket that had been attached. The step that matters is the close: a socket that is
the newest of the name it has last registered still holds it (`NameFollowsNewest`), so that
all who wait under that name are answered with 502.

**Signalling.** `PeersOwn`: the socket in `peers` belongs to that user, and it is open, or its close
is still to be heard, or it was `lost` before its handlers were attached. A late close of a replaced
socket then leaves the user's groups alone, and `WithoutLemma` says what taking a user out of
all groups does to them.

**Relay.** `StoredLemma`: the list after an event has it, nothing else that is new, and one event
of its slot. `SlotsKnown` (what is kept of a slot is in the history) makes `LastOfSlotKept`
inductive.

**Payments.** A request is a program of loads, saves and steps outside, so first comes `Order`: what has
been done when a step of each kind is next, for the thirteen programs. `FilesInv` looks at each file on
its own and assumes nothing of races: what a request has loaded was good when it did, the checks after a
load have held (`Checked`), what it makes of that is good, and a save replaces the whole file. A file
that is cut off reads as a blank one, which is good too. Types, `ScanCountsOnce` and `PoolSound` follow
from it. Files agree with each other only until one loses something, overwritten or cut off (`upset` has
"lost"): till then a save finds the file as it was loaded. `DepositsInv` says that whatever is being
counted is recorded, and whatever was credited is recorded or about to be by the request that has
credited it (`Watched`). `TrailInv`: between the broadcast of a transfer and the save of the trail
nobody else gets a transfer accepted, since the copy in hand must be at the tip, and a trail that was
overwritten or cut off is behind it for good. `OutputsInv`: an output that is listed is unspent, or
spent, or an input of the one request that is about to record it as spent (`Sending`), whose change
waits under its own name. `BooksInv` is about money in the middle of requests: what each has done by
halves (`Owing`: a withdrawal that has broadcast and not saved the ledger, a swap in the pool that has
saved the ledger and not the pool), summed over the requests at work (`Tally`), is what separates ledger
and pool from what was deposited and is due. There is one exception, and it had to be part of the
invariant (`Doomed`): two scans that have both credited one output. Nothing is overwritten yet, but the
second to record it will overwrite the first; until then, or until one of them dies, somebody is at
work.

**Left to TLC**: liveness (`RequestsEnd`, `EveryRequestRuns`, `EveryWriteAnswered`,
`VisitorsAnswered`, `PagesAnswered`), which is out of the prover's reach;
the lock with three contenders or two deaths and the quota with several
processes, where the promises fail (section 5).

## 5. Findings and limits of the code

Three runs show disagreements of the code with what the repository says of it:

1. **PATCH after DELETE** (`resource.js:1290`, ResourcePatchDelete). PATCH looks at If-Match
   only if the resource exists; both requests succeed where `docs/security.md` promises one
   412.
2. **An insert that removes** (`turtle.js:205`, PatchAppend). `quadsToJsonLd` takes a value 0,
   false or "" for none, so that the next value replaces it; a patch that only inserts, for
   which `acl:Append` is enough, loses a triple.
3. **The JSON fallback** (`interactions.js:302`, LoginJson). When `interactionFinished` throws
   after the reply was hijacked, the fallback answers through the reply it has given up: the
   program waits.

Limits that the models show when a constant is changed; no run is kept for them:

- *Reused inode numbers* (`filesystem.js:167`; FileLock with three processes and `InodeReuse =
  TRUE` violates `ImplementsMutex`). A fresh lock may have the number of the dead one that
  another contender has just removed; it is deleted under its holder.
- *Third contender, second crash* (`filesystem.js:171`). While a live lock is moved aside by
  mistake the path is free; a third contender may open it, and a contender that dies before
  linking it back takes it along. The comment in the code accepts the first.
- *One millisecond, one size* (`filesystem.js:32`; `DistinctTimes = FALSE` violates
  `NoLostUpdate`). Two such writes have one ETag.
- *Quota across processes* (`quota.js:29`; two `Procs` violate `WithinLimit`). The pod lock is a
  `Map` of one process. `Reconcile = "online"` loses what is reserved between its load and save.
- *PUT of a container* (`resource.js:986`; `NoMissedChange` in Notifications) announces the URL
  of the origin.
- *POST of an ACL* (`container.js:171`; `NoUselessAcl` with an empty ACL among the
  `Documents`) is not refused when it grants nobody access, as PUT and PATCH are.
- *Changed passwords* (`accounts.js:177`; `ChangedPasswordStays`): a login that began before a
  change writes the account it has read back, with the old hash.
- *Invites* (`invites.js:151`; `InviteWithinUses`): two registrations that read an invite before
  either saves both pass.
- *Currencies* (`webledger.js:114`; `ChainsSeparate`): an amount that is set without a currency
  becomes one string of satoshis.
- *Published keys* (`IndexedVerifies` in KeyBinding): a key of which an earlier method is not
  listed or not controlled is in the index and not accepted.

Limits the models keep as the code has them, or leave out:

- Accounts, invites, ledger, outputs, offers and pool are saved from copies that may be
  outdated; the properties about them say what holds up to the first such race. A purge may
  remove a pod whose name has been registered again. Registration by the form has no rollback.
- `adapter.js:166`: `consume` reads an item and writes it again, so that what was destroyed or
  revoked in between comes back, and two exchanges may both find a code unused. The
  interaction file is recreated likewise by a slow `interaction.save`.
- Passkeys: logins by user name share the key of the account; the next replaces the challenge,
  and one's success removes the other's.
- If-None-Match is looked at by PUT only: PATCH and DELETE ignore it (`resource.js:1187`, `:1289`),
  although `docs/security.md:65` promises a 412 on mutation. `PreconditionHolds` is as the code.
- WAC-Allow lists modes whatever their conditions (`checker.js:278`); the check skips a rule with a
  condition it does not know and refuses who cannot pay (`checker.js:174`).
- ACLs without Control: `write_resource` and `create_resource` of the MCP server store an ACL on Write or
  Append (`mcp/tools.js:132`; its comments at `:8` and `:61` claim the semantics of the HTTP routes), and
  remoteStorage refuses names that begin with a dot, not `x.acl` (`remotestorage.js:52`).
  `AclWrittenUnderControl` is about the LDP handlers.
- Account files: an index that a write has left half written makes every look into it throw, so that
  nobody can register or log in by it; a registration whose account file was written before one
  of the indexes failed is rolled back to an account without a pod (`container.js:485`).
- Pods: `storage.write` and `createContainer` answer false where the disk fails, which
  `createPodStructure` ignores (`container.js:272`): a pod may lack an ACL, a folder or its profile and be
  reported as made. `KeyUnderAcls` and the others except the parts that were `lost`.
- Federation: the database is truncated and then written (`store.js:96`); if the process ends between,
  its next start finds it empty, with half of it it does not start. Follow and Undo are accepted
  unsigned, or signed by another (`inbox.js:131`). A Note posted without its Create gets a new id
  each time (`outbox.js:79`), so a repeated one is sent twice; only a Create with an id is once.
- Signalling: a socket that closes while its token is looked at stays in `peers` until its
  user connects again (`webrtc/index.js:308`).
- Nostr: an event that was signed for a URL without a query holds for every query
  (`nostr.js:266`), and on the git routes for what is below the URL.
- A key that is linked by sameAs from a profile is accepted by the backlink check without method,
  authentication or controller (`did-nostr.js:380`).
- Passkeys: outside the prompt after a login `passkey-complete` takes its account from the query
  (`interactions.js:629`), and Login treats that account as proved: `OwnAccount` says nothing of whether a
  passkey was shown for it, and leaves out the skip of the prompt.
- Payments: a claim that dies after it is recorded and before it is credited is lost. A TXO
  URI is credited as often as it is presented, scanned and claimed outputs included, and need not
  pay the pod (`pay.js:457`). A file that is half written reads as an empty one
  (`pay.js:56`, `:109`, `webledger.js:69`): outputs, ledger or replay set are lost, and the proofs that were
  in it hold again. Whether the ledger could be written nobody asks.
- PATCH is not charged to the quota, the file it creates included (`resource.js:1285`, `:1439`), and DELETE
  gives back the whole of such a file (`resource.js:1205`), so that the account may fall below the bytes on
  the disk. `unreserved` counts what was written so, `untracked` what is still there of it.
- Notifications: a socket that closes while its ACL check is under way stays in `subscribers`
  under that URL; `broadcast` skips it. The limit on subscriptions is looked at before the
  await. A reader who has lost access is still told of changes. `unsub` can be overtaken by the
  check of an earlier `sub`. A `sub` sent before the greeting is not heard
  (`notifications/index.js:42`).
- `authorize` runs before the queue: its answer may be old when the write happens.
- A `.quota.json` that is empty or corrupt is replaced by limit 0 and the size of the files.
  DELETE of a container gives back the size of its directory entry only.
- Patches: two solutions of a where clause that differ in language or type only count as one
  (`quads.js:120`); blank nodes of two patches in one millisecond may get one name; nodes
  without `@id` are dropped; a document with both a top-level `@id` and an `@graph` is read twice, so
  that a delete leaves a copy (`resource.js:1368`); 1.0 becomes 1; `makeRelative` cuts a URL at
  no boundary (`turtle.js:508`), and what it leaves is read as another URL if it begins with a slash or a dot
  or is one itself; a name with a common prefix that the document binds to something else is
  written with the common meaning and read with the other (`turtle.js:599`, `:557`); a patch that names a triple
  twice among what it deletes is refused (`quads.js:160`). `applySparqlUpdate` and `patch/n3-patch.js` are called by no
  handler.
- remoteStorage: two `If-None-Match: *` may both create; the answer to a PUT carries the ETag
  of whatever is there by then; a folder's ETag does not change when a document in it is
  overwritten in place; `server.js:504` passes no owner, so that the test for the owner never
  refuses.
- The pod's owner is looked for under a host without port (`nostr.js:495`), while a single-user
  server names its profiles with it (`server.js:1068`), and a user name with a dot is refused
  as a path.

## 6. What is not modelled

Within the modelled components: container listings, Range, HEAD, content negotiation and the parsers of
Turtle, N3, SPARQL and ACLs; `setQuotaLimit` and the recovery of a corrupt `.quota.json`; the file
watcher of live reload; agent groups, subdomain and public mode; the signatures themselves, the simple
bearer token, the cache of issuers' keys, WebID-TLS; the grants, codes and tokens of oidc-provider,
signing keys, views, export; the creation of invites and what the files of a pod say; the building of
transactions, the pod's key file, a chain whose unit is the satoshi itself (btc, `pay.js:76`:
`PaymentsAssumption` keeps the chains' units apart from "sat"); posts that are neither a Note nor its
Create, which are sent and not saved; incoming notes, likes and announces; discovery and the OAuth page
of remoteStorage. Names, bodies and URLs are model values or the parts at which the code cuts them.
Fastify, oidc-provider, the file system and WebSockets are taken as their documentation describes them:
O_EXCL and rename are atomic, messages of a socket arrive in order while it is open.

Without a model: the *request pipeline* (of the preHandler chain only `authorize`; rate limits
are a library, the rest keeps no state); the *MCP server* (its writers are the writers
elsewhere of RemoteStorage, without preconditions; its checks are those of `authorize` except for
ACLs, which it writes without Control: section 5); the
*MongoDB routes* (one call of the database each); *plugins* (activated in order, stateless
after start); *git, CORS proxy, terminal* (child processes and foreign hosts); the *user
interface*; the *command line* (`quota reconcile` is in Quota, the revoking of an invite in
Registration). Three hazards in `PROJECT.json` have no property: the slug race of two
POSTs (`filesystem.js:304`), `consume` of the adapter, and the ACLs that the MCP tools write
(`mcp/tools.js:132`).

## 7. Plan

1. A module of the containers: POST and its slug race, listings, recursive DELETE, PUT of
   containers, with quota and notifications of directories.
2. The provider's adapter: codes, grants and revocation over "used at most once before it
   expires", from what oidc-provider is seen to call.
3. Abstract specifications: a directory with unique names for Accounts, a conserved sum for
   Payments, with a refinement up to the first race.
4. Larger instances of Locks (a third process with inode numbers that stay unique) if the time
   for a run allows it.
