----------------------------- MODULE Federation -----------------------------
(***************************************************************************)
(* ActivityPub (src/ap): the inbox, the outbox, and the store of followers,*)
(* cached actors and posts. Every activity first fetches the actor named   *)
(* by its signature (the outcome is only logged), and a Follow needs its   *)
(* own actor; actors are cached and never fetched twice. The store is an   *)
(* in-memory database, written whole to its file after every statement:    *)
(* writeFileSync truncates the file first, so that a process that ends in  *)
(* the middle, or a disk that is full, leaves nothing of it.               *)
(*                                                                         *)
(* Also the OAuth flow of its clients (ap/routes/oauth.js, mastodon.js):   *)
(* a client registers, a login gives it a code or, without registration,   *)
(* a token, and a code is exchanged for a token.                           *)
(***************************************************************************)
EXTENDS Naturals, Sequences

CONSTANTS
  Actors,      \* remote actors
  InboxOf,     \* actor |-> the inbox its document names, which may be shared
  Deliveries,  \* requests to the inbox
  NoActor,
  Notes,       \* posts, by their ids
  Apps, CodeIds,
  CodeLife,    \* ticks an authorisation code lives
  MaxStarts, MaxMinutes   \* bounds

ASSUME FederationAssumption == CodeLife \in Nat

VARIABLES
  store,       \* the in-memory database: [followers, actors, posts]
  file,        \* the database on disk
  truncated,   \* the last write of the file has failed after the truncation
  dropped,     \* history: what was lost with a file that was truncated: [followers, posts]
  delivery,    \* delivery |-> [at, kind, actor, signer]
  sending,     \* note |-> inboxes its request has still to send to
  copies,      \* note |-> inbox |-> how often it was sent
  welcomed,    \* who was sent an Accept and has not undone its Follow since
  starts,
  clients,     \* clientId of each registration
  authCodes,   \* code |-> [client, redirect, expires]
  minted,      \* codes ever given, as in authCodes
  issued,      \* code |-> tokens given for it, as [client, redirect, at]
  minute

storeVars == <<store, file, truncated>>
apVars == <<store, file, truncated, dropped, delivery, sending, copies, welcomed, starts>>
oauthVars == <<clients, authCodes, minted, issued, minute>>
federationVars == <<store, file, truncated, dropped, delivery, sending, copies, welcomed, starts,
                    clients, authCodes, minted, issued, minute>>

Inboxes == {InboxOf[a] : a \in Actors}
NoDelivery == [at |-> "none", kind |-> "none", actor |-> NoActor, signer |-> NoActor]
EmptyStore == [followers |-> {}, actors |-> {}, posts |-> {}]

\* Variant: the database is written at the next statement
RunStmtLazily(s) == store' = s /\ file' = store /\ truncated' = FALSE

\* runStmt: every statement saves the database.
RunStmt(s) == store' = s /\ file' = s /\ truncated' = FALSE

\* It throws where the file cannot be written; the statement itself has run.
FailStmt(s) == store' = s /\ file' = EmptyStore /\ truncated' = TRUE

Move(d, l) == delivery' = [delivery EXCEPT ![d].at = l]
Answered(d) == delivery' = [delivery EXCEPT ![d] = NoDelivery]
-----------------------------------------------------------------------------
(* The inbox. *)

\* Whoever signs it. (One that nobody signs is like one whose signer cannot be fetched.)
Receive(d, kind, a, signer) ==
  /\ delivery[d].at = "none"
  /\ delivery' = [delivery EXCEPT ![d] = [at |-> "verify", kind |-> kind, actor |-> a, signer |-> signer]]
  /\ UNCHANGED <<storeVars, dropped, sending, copies, welcomed, starts>> /\ UNCHANGED oauthVars

\* fetchActor: from the cache, or from its host, which may not answer.
Known(a, reached) == a \in store.actors \/ reached
WithActor(a) == [store EXCEPT !.actors = @ \cup {a}]

\* The signer is not needed any more.
Handle(d) == delivery' = [delivery EXCEPT ![d] = [@ EXCEPT !.at = "handle", !.signer = NoActor]]

\* verifySignature, whose outcome does not matter, and saveActivity, for an activity with an
\* id. An error of cacheActor is caught; one of saveActivity ends the request.
VerifySignature(d, reached) ==
  LET a == delivery[d].signer
      s == IF Known(a, reached) THEN WithActor(a) ELSE store
  IN
  /\ delivery[d].at = "verify"
  /\ \/ RunStmt(s) /\ Handle(d)
     \/ FailStmt(s) /\ Answered(d)
     \/ s # store /\ FailStmt(s) /\ Handle(d)
     \/ s = store /\ UNCHANGED storeVars /\ Handle(d)
  /\ UNCHANGED <<dropped, sending, copies, welcomed, starts>> /\ UNCHANGED oauthVars

\* handleFollow, up to the follower's row: nothing without the actor's document, or where it
\* cannot be cached. An error of addFollower ends the request.
Follow(d, reached) ==
  LET a == delivery[d].actor
      s == [WithActor(a) EXCEPT !.followers = @ \cup {a}]
  IN
  /\ delivery[d].at = "handle" /\ delivery[d].kind = "Follow"
  /\ \/ Known(a, reached) /\ RunStmt(s) /\ Move(d, "accept")
     \/ Known(a, reached) /\ FailStmt(s) /\ Answered(d)
     \/ a \notin store.actors /\ reached /\ FailStmt(WithActor(a)) /\ Answered(d)
     \/ ~ Known(a, reached) /\ UNCHANGED storeVars /\ Answered(d)
  /\ UNCHANGED <<dropped, sending, copies, welcomed, starts>> /\ UNCHANGED oauthVars

\* outbox.send of the Accept: it arrives, or the error is logged.
SendAccept(d, arrives) ==
  LET a == delivery[d].actor IN
  /\ delivery[d].at = "accept"
  /\ Answered(d)
  /\ welcomed' = IF arrives /\ a \in store.followers THEN welcomed \cup {a} ELSE welcomed
  /\ UNCHANGED <<storeVars, dropped, sending, copies, starts>> /\ UNCHANGED oauthVars

\* handleUndo of a Follow: of whoever the activity names, though another has signed it.
Undo(d) ==
  LET a == delivery[d].actor IN
  /\ delivery[d].at = "handle" /\ delivery[d].kind = "Undo"
  /\ LET s == [store EXCEPT !.followers = @ \ {a}] IN RunStmt(s) \/ FailStmt(s)
  /\ welcomed' = welcomed \ {a}
  /\ Answered(d)
  /\ UNCHANGED <<dropped, sending, copies, starts>> /\ UNCHANGED oauthVars
-----------------------------------------------------------------------------
(* The outbox. *)

\* savePost: the id is the table's key.
IsNew(n) == n \notin store.posts

\* getFollowerInboxes: DISTINCT.
FollowerInboxes == {InboxOf[a] : a \in store.followers}

\* savePost, and the sends that follow unless it throws.
SaveAndSend(n) ==
  /\ LET s == [store EXCEPT !.posts = @ \cup {n}]
     IN  \/ RunStmt(s) /\ sending' = [sending EXCEPT ![n] = FollowerInboxes]
         \/ FailStmt(s) /\ UNCHANGED sending
  /\ UNCHANGED <<dropped, delivery, copies, welcomed, starts>> /\ UNCHANGED oauthVars

\* A Create of a Note, with the id its author gives it. If the id is taken it is refused; so
\* its author may send one again.
Post(n) ==
  /\ sending[n] = {}
  /\ IsNew(n)
  /\ SaveAndSend(n)

\* A bare Note gets an id that nobody has used; if its author sends it again, another.
PostBare(n) ==
  /\ n \notin store.posts \cup dropped.posts
  /\ SaveAndSend(n)

\* One of the sends of Promise.allSettled; one that fails is not tried again.
Deliver(n, inbox, arrives) ==
  /\ inbox \in sending[n]
  /\ sending' = [sending EXCEPT ![n] = @ \ {inbox}]
  /\ copies' = IF arrives THEN [copies EXCEPT ![n][inbox] = @ + 1] ELSE copies
  /\ UNCHANGED <<storeVars, dropped, delivery, welcomed, starts>> /\ UNCHANGED oauthVars

\* The process ends and starts again: initStore reads the file; everything else is lost. The
\* file is what the last statement left, or empty: a statement, or initStore itself, was cut
\* off. (Where half of it was written initStore throws, until somebody removes the file.)
RestartServer ==
  /\ starts < MaxStarts
  /\ starts' = starts + 1
  /\ \E whole \in BOOLEAN :
       /\ store' = (IF whole THEN file ELSE EmptyStore) /\ file' = store'
       /\ dropped' = IF whole /\ ~ truncated THEN dropped
                     ELSE [followers |-> dropped.followers \cup store.followers,
                           posts |-> dropped.posts \cup store.posts]
  /\ truncated' = FALSE
  /\ delivery' = [d \in Deliveries |-> NoDelivery]
  /\ sending' = [n \in Notes |-> {}]
  /\ clients' = {} /\ authCodes' = <<>>
  /\ UNCHANGED <<copies, welcomed, minted, issued, minute>>
-----------------------------------------------------------------------------
(* OAuth. *)

Redirects == {"registered", "oob"}

\* createAppsHandler.
RegisterApp(c) ==
  /\ c \notin clients
  /\ clients' = clients \cup {c}
  /\ UNCHANGED <<authCodes, minted, issued, minute>> /\ UNCHANGED apVars

Grant(c, redirect) == [client |-> c, redirect |-> redirect, expires |-> minute + CodeLife]

\* The login form: validateClient, authenticate, a code for the redirect asked for.
Authorize(c, redirect, code) ==
  /\ c \in clients
  /\ code \notin DOMAIN minted
  /\ LET given(codes) == [x \in DOMAIN codes \cup {code} |->
                            IF x = code THEN Grant(c, redirect) ELSE codes[x]]
     IN  authCodes' = given(authCodes) /\ minted' = given(minted)
  /\ UNCHANGED <<clients, issued, minute>> /\ UNCHANGED apVars

Forgotten(code) == [x \in DOMAIN authCodes \ {code} |-> authCodes[x]]
Token(c, redirect) == [client |-> c, redirect |-> redirect, at |-> minute]

\* Variant: whoever presents a code
GoodForAnyone(grant, c, redirect) == minute <= grant.expires

GoodFor(grant, c, redirect) ==
  minute <= grant.expires /\ grant.client = c /\ grant.redirect = redirect

\* POST /oauth/token with the client's own secret: the code is consumed whatever follows.
Exchange(c, redirect, code) ==
  /\ c \in clients /\ code \in DOMAIN authCodes
  /\ authCodes' = Forgotten(code)
  /\ issued' = IF GoodFor(authCodes[code], c, redirect)
               THEN [issued EXCEPT ![code] = Append(@, Token(c, redirect))] ELSE issued
  /\ UNCHANGED <<clients, minted, minute>> /\ UNCHANGED apVars

\* The timer that drops expired codes.
SweepCodes ==
  /\ \E x \in DOMAIN authCodes : authCodes[x].expires < minute
  /\ authCodes' = [x \in {y \in DOMAIN authCodes : authCodes[y].expires >= minute} |-> authCodes[x]]
  /\ UNCHANGED <<clients, minted, issued, minute>> /\ UNCHANGED apVars

Minute ==
  /\ minute < MaxMinutes
  /\ minute' = minute + 1
  /\ UNCHANGED <<clients, authCodes, minted, issued>> /\ UNCHANGED apVars
-----------------------------------------------------------------------------
FederationInit ==
  /\ store = EmptyStore /\ file = EmptyStore /\ truncated = FALSE
  /\ dropped = [followers |-> {}, posts |-> {}]
  /\ delivery = [d \in Deliveries |-> NoDelivery]
  /\ sending = [n \in Notes |-> {}]
  /\ copies = [n \in Notes |-> [i \in Inboxes |-> 0]]
  /\ welcomed = {} /\ starts = 0
  /\ clients = {} /\ authCodes = <<>> /\ minted = <<>>
  /\ issued = [x \in CodeIds |-> <<>>] /\ minute = 0

ActivityNext ==
  \/ \E d \in Deliveries :
       \/ \E kind \in {"Follow", "Undo"}, a \in Actors, signer \in Actors : Receive(d, kind, a, signer)
       \/ \E ok \in BOOLEAN : VerifySignature(d, ok) \/ Follow(d, ok) \/ SendAccept(d, ok)
       \/ Undo(d)
  \/ \E n \in Notes : Post(n) \/ PostBare(n) \/ \E i \in Inboxes, ok \in BOOLEAN : Deliver(n, i, ok)

OauthNext ==
  \/ \E c \in Apps :
       \/ RegisterApp(c)
       \/ \E r \in Redirects, code \in CodeIds : Authorize(c, r, code) \/ Exchange(c, r, code)
  \/ SweepCodes
  \/ Minute

FederationNext == ActivityNext \/ OauthNext \/ RestartServer

FederationSpec == FederationInit /\ [][FederationNext]_federationVars
-----------------------------------------------------------------------------
(* Whoever was told that its Follow is accepted is a follower until an     *)
(* Undo in its name arrives, whatever restarts come between: the row is on *)
(* disk before the Accept leaves. A database that was cut off while it was      *)
(* written is lost with all its followers.                                 *)
AcceptedStaysFollower == welcomed \subseteq store.followers \cup dropped.followers

(* No inbox is sent a note twice: not for two followers that share it, and *)
(* not when a Create is repeated, before or after a restart, unless its    *)
(* database was lost. (A bare Note that is repeated is another note.)      *)
NoteSentOnce == \A n \in Notes \ dropped.posts : \A i \in Inboxes : copies[n][i] <= 1

(* A code gives one token, to the client it was minted for, at the         *)
(* redirect it was minted for, and while it lives.                         *)
CodeGivesOneToken ==
  \A x \in CodeIds :
    /\ Len(issued[x]) <= 1
    /\ \A i \in DOMAIN issued[x] :
         /\ issued[x][i].client = minted[x].client
         /\ issued[x][i].redirect = minted[x].redirect
         /\ issued[x][i].at <= minted[x].expires

\* A follower that was told of its acceptance stays one, and no inbox gets a note twice
\* under one id, whatever is repeated and whatever the server forgets but its database.
FollowersTold == AcceptedStaysFollower /\ NoteSentOnce
=============================================================================
