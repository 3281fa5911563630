--------------------------- MODULE Notifications ---------------------------
(***************************************************************************)
(* Change notifications over WebSocket (src/notifications): who subscribes *)
(* to what, and the broadcasts that the write handlers trigger with        *)
(* emitChange. A subscription is granted after an asynchronous ACL check;  *)
(* messages, closes and broadcasts run between its start and its end. The  *)
(* write to disk and the emitChange that follows it are two steps.         *)
(*                                                                         *)
(* A client keeps copies of what it has read. It reads again everything at *)
(* or below a URL when it gets `ack` or `pub` for it.                      *)
(***************************************************************************)
EXTENDS Naturals, FiniteSets

CONSTANTS
  Sockets,
  Resources,        \* URLs, of documents and containers
  Parent,           \* the container of each, or NoResource
  NoResource,
  MaxSubs           \* MAX_SUBSCRIPTIONS_PER_CONNECTION

ASSUME NotificationsAssumption ==
  /\ NoResource \notin Resources
  /\ Parent \in [Resources -> Resources \cup {NoResource}]
  /\ MaxSubs \in Nat \ {0}

VARIABLES
  status,       \* of each socket
  subs,         \* subscriptions: the URLs of each socket
  subscribers,  \* the reverse map
  checking,     \* the ACL checks under way
  readers,      \* the sockets whose agent may read each resource
  unannounced,  \* resources written by a handler that has not called emitChange yet
  inbox,        \* URLs of the `ack` and `pub` messages on their way to each client
  stale         \* resources that have changed since each client read them

vars == <<status, subs, subscribers, checking, readers, unannounced, inbox, stale>>

TypeOK ==
  /\ status \in [Sockets -> {"new", "open", "closed"}]
  /\ subs \in [Sockets -> SUBSET Resources]
  /\ subscribers \in [Resources -> SUBSET Sockets]
  /\ checking \in SUBSET (Sockets \X Resources)
  /\ readers \in [Resources -> SUBSET Sockets]
  /\ unannounced \in SUBSET Resources
  /\ inbox \in [Sockets -> SUBSET Resources]
  /\ stale \in [Sockets -> SUBSET Resources]
  /\ \A s \in Sockets : status[s] # "open" => subs[s] = {}

Init ==
  /\ status = [s \in Sockets |-> "new"]
  /\ subs = [s \in Sockets |-> {}]
  /\ subscribers = [r \in Resources |-> {}]
  /\ checking = {}
  /\ readers \in [Resources -> SUBSET Sockets]
  /\ unannounced = {}
  /\ inbox = [s \in Sockets |-> {}]
  /\ stale = [s \in Sockets |-> Resources]
-----------------------------------------------------------------------------
\* broadcast walks from the changed URL up to the root of the origin.
Above[r \in Resources] ==
  {r} \cup IF Parent[r] = NoResource THEN {} ELSE Above[Parent[r]]

Covers(u, r) == u \in Above[r]

Connect(s) ==
  /\ status[s] = "new"
  /\ status' = [status EXCEPT ![s] = "open"]
  /\ UNCHANGED <<subs, subscribers, checking, readers, unannounced, inbox, stale>>

\* `sub`: the limit is looked at, then the ACL check starts.
Sub(s, r) ==
  /\ status[s] = "open"
  /\ Cardinality(subs[s]) < MaxSubs
  /\ checking' = checking \cup {<<s, r>>}
  /\ UNCHANGED <<status, subs, subscribers, readers, unannounced, inbox, stale>>

\* The check allows it: subscribe() and `ack`. The socket may have closed since;
\* then it has no entry in subscriptions any more.
Grant(s, r) ==
  /\ <<s, r>> \in checking
  /\ s \in readers[r]
  /\ checking' = checking \ {<<s, r>>}
  /\ subscribers' = [subscribers EXCEPT ![r] = @ \cup {s}]
  /\ IF status[s] = "open"
     THEN /\ subs' = [subs EXCEPT ![s] = @ \cup {r}]
          /\ inbox' = [inbox EXCEPT ![s] = @ \cup {r}]
     ELSE UNCHANGED <<subs, inbox>>
  /\ UNCHANGED <<status, readers, unannounced, stale>>

\* The check does not allow it, or fails: `err`.
Refuse(s, r) ==
  /\ <<s, r>> \in checking
  /\ checking' = checking \ {<<s, r>>}
  /\ UNCHANGED <<status, subs, subscribers, readers, unannounced, inbox, stale>>

\* `unsub`; a check for the same URL goes on.
Unsub(s, r) ==
  /\ status[s] = "open"
  /\ subs' = [subs EXCEPT ![s] = @ \ {r}]
  /\ subscribers' = [subscribers EXCEPT ![r] = @ \ {s}]
  /\ UNCHANGED <<status, checking, readers, unannounced, inbox, stale>>

\* The socket closes, or fails: cleanup removes it wherever its own entry says.
Close(s) ==
  /\ status[s] = "open"
  /\ status' = [status EXCEPT ![s] = "closed"]
  /\ subs' = [subs EXCEPT ![s] = {}]
  /\ subscribers' = [r \in Resources |->
                       IF r \in subs[s] THEN subscribers[r] \ {s} ELSE subscribers[r]]
  /\ inbox' = [inbox EXCEPT ![s] = {}]
  /\ UNCHANGED <<checking, readers, unannounced, stale>>

Outdate(r) == stale' = [s \in Sockets |-> stale[s] \cup {r}]

\* A handler has written, patched or removed the resource; it holds its lock until
\* it has announced the change.
Write(r) ==
  /\ r \notin unannounced
  /\ Outdate(r)
  /\ unannounced' = unannounced \cup {r}
  /\ UNCHANGED <<status, subs, subscribers, checking, readers, inbox>>

\* Variant: only the subscribers of the URL itself are told.
AnnounceDirect(r) ==
  /\ r \in unannounced
  /\ unannounced' = unannounced \ {r}
  /\ inbox' = [s \in Sockets |->
                 IF status[s] = "open"
                 THEN inbox[s] \cup {u \in Resources : u = r /\ s \in subscribers[u]}
                 ELSE inbox[s]]
  /\ UNCHANGED <<status, subs, subscribers, checking, readers, stale>>

\* emitChange: `pub` to the subscribers of the URL and of the containers above it.
Announce(r) ==
  /\ r \in unannounced
  /\ unannounced' = unannounced \ {r}
  /\ inbox' = [s \in Sockets |->
                 IF status[s] = "open"
                 THEN inbox[s] \cup {u \in Resources : Covers(u, r) /\ s \in subscribers[u]}
                 ELSE inbox[s]]
  /\ UNCHANGED <<status, subs, subscribers, checking, readers, stale>>

Containers == {Parent[c] : c \in Resources} \cap Resources

\* PUT of a container calls emitChange(origin, path, 'created'), which announces the
\* URL of the origin: nobody's.
MakeContainer(r) ==
  /\ r \in Containers
  /\ Outdate(r)
  /\ UNCHANGED <<status, subs, subscribers, checking, readers, unannounced, inbox>>

\* The client gets a message and reads what it is about.
Read(s, u) ==
  /\ u \in inbox[s]
  /\ inbox' = [inbox EXCEPT ![s] = @ \ {u}]
  /\ stale' = [stale EXCEPT ![s] = {r \in @ : ~ Covers(u, r)}]
  /\ UNCHANGED <<status, subs, subscribers, checking, readers, unannounced>>

\* An ACL is edited.
SetAcl(r, agents) ==
  /\ readers' = [readers EXCEPT ![r] = agents]
  /\ UNCHANGED <<status, subs, subscribers, checking, unannounced, inbox, stale>>

Next ==
  \/ \E s \in Sockets :
       \/ Connect(s) \/ Close(s)
       \/ \E r \in Resources :
            Sub(s, r) \/ Grant(s, r) \/ Refuse(s, r) \/ Unsub(s, r) \/ Read(s, r)
  \/ \E r \in Resources :
       \/ Write(r) \/ Announce(r) \/ MakeContainer(r)
       \/ \E agents \in SUBSET Sockets : SetAcl(r, agents)

Spec == Init /\ [][Next]_vars
-----------------------------------------------------------------------------
\* Whatever a subscribed client has an old copy of is about to be announced, or a
\* message that makes it read again is on its way.
NoneMissed(documents) ==
  \A s \in Sockets, u \in Resources, r \in documents :
    u \in subs[s] /\ Covers(u, r) /\ r \in stale[s]
    => r \in unannounced \/ \E v \in inbox[s] : Covers(v, r)

\* "On any change (PUT, PATCH, DELETE), server broadcasts": no change is missed. (That of a
\* container made with PUT is.)
NoMissedChange == NoneMissed(Resources)

\* No change of a document is missed: `ack` and `pub` leave no gap between them,
\* wherever the write falls between the checks, the subscription and the messages.
NoMissedWrite == NoneMissed(Resources \ Containers)

\* The two maps agree about every open socket: what it has subscribed to is what it
\* is told about, through checks that end in any order.
MapsAgree ==
  \A s \in Sockets, r \in Resources :
    status[s] = "open" => (r \in subs[s] <=> s \in subscribers[r])

\* Whoever subscribes, leaves or is refused while writes go on, the two maps agree and
\* no subscriber is left with an old document and nothing on its way.
NotifySafe == TypeOK /\ MapsAgree /\ NoMissedWrite
=============================================================================
