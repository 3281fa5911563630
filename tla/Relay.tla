------------------------------- MODULE Relay -------------------------------
(***************************************************************************)
(* The Nostr relay (src/nostr/relay.js): clients publish events, which are *)
(* kept in a bounded list, and subscribe with filters. Every message is    *)
(* handled in one step; the messages of the clients come in every order.   *)
(* Signatures are not computed: an event is valid or it is not.            *)
(***************************************************************************)
EXTENDS Naturals, Sequences, FiniteSets

CONSTANTS
  RelayClients,   \* sockets
  Events,         \* records [flaw, pubkey, kind, d, created_at]
  Filters,        \* records with some of the fields kinds, authors, d, since, until, limit
  SubIds,         \* subscription ids
  MaxEvents,      \* maxEvents
  RateLimit       \* DEFAULT_RATE_LIMIT

ASSUME RelayAssumption ==
  /\ MaxEvents \in Nat \ {0}
  /\ RateLimit \in Nat
  /\ \A f \in Filters : "limit" \in DOMAIN f => f.limit \in Nat
  /\ \A e \in Events : e.kind \in {"regular", "replaceable", "parameterized", "ephemeral"}

VARIABLES
  session,        \* state of each socket
  events,         \* the events kept, oldest first
  subscribersOf,  \* the filters of each socket, with the id of their subscription
  rate,           \* events of each socket in its window
  got,            \* the events that each client has got for the filters it has now
  latest          \* history: the last accepted event of each slot

relayVars == <<session, events, subscribersOf, rate, got, latest>>

Entries == [sub : SubIds, filter : Filters]
Kept == {events[i] : i \in DOMAIN events}

\* What a replaceable event replaces.
Replaceable(e) == e.kind \in {"replaceable", "parameterized"}
Slot(e) == IF e.kind = "parameterized" THEN <<e.pubkey, e.kind, e.d>> ELSE <<e.pubkey, e.kind, "any">>
Slots == {Slot(e) : e \in {x \in Events : Replaceable(x)}}

RelayTypeOK ==
  /\ session \in [RelayClients -> {"new", "open", "closed"}]
  /\ events \in Seq(Events) /\ Len(events) <= MaxEvents
  /\ subscribersOf \in [RelayClients -> SUBSET Entries]
  /\ rate \in [RelayClients -> 0..(RateLimit + 1)]
  /\ got \in [RelayClients -> SUBSET (SubIds \X Events)]
  /\ DOMAIN latest \subseteq Slots

RelayInit ==
  /\ session = [s \in RelayClients |-> "new"]
  /\ events = <<>>
  /\ subscribersOf = [s \in RelayClients |-> {}]
  /\ rate = [s \in RelayClients |-> 0]
  /\ got = [s \in RelayClients |-> {}]
  /\ latest = <<>>
-----------------------------------------------------------------------------
\* eventPassesFilter: a field that is absent, or a time that is zero, does not count.
Passes(e, f) ==
  /\ "authors" \in DOMAIN f => e.pubkey \in f.authors
  /\ "kinds" \in DOMAIN f => e.kind \in f.kinds
  /\ "since" \in DOMAIN f /\ f.since # 0 => e.created_at >= f.since
  /\ "until" \in DOMAIN f /\ f.until # 0 => e.created_at <= f.until
  /\ "d" \in DOMAIN f => e.d \in f.d

\* validateEvent and verifyEvent: the shape, the id and the signature are right.
Valid(e) == e.flaw \notin {"shape", "id", "signature"}

RelayConnect(s) ==
  /\ session[s] = "new"
  /\ session' = [session EXCEPT ![s] = "open"]
  /\ UNCHANGED <<events, subscribersOf, rate, got, latest>>

\* The first event of a client after RATE_WINDOW_MS starts a new window.
WindowEnds(s) ==
  /\ rate[s] > 0
  /\ rate' = [rate EXCEPT ![s] = 0]
  /\ UNCHANGED <<session, events, subscribersOf, got, latest>>

\* events.shift() and events.push().
Pushed(e) == Append(IF Len(events) >= MaxEvents THEN Tail(events) ELSE events, e)

SameSlot(e, x) == Replaceable(x) /\ Slot(e) = Slot(x)

\* A replaceable event takes the place of the first one of its slot.
Stored(e) ==
  LET same == {i \in DOMAIN events : SameSlot(e, events[i])}
      first == CHOOSE i \in same : \A j \in same : i <= j
  IN CASE e.kind = "ephemeral" -> events
       [] Replaceable(e) /\ same # {} -> [events EXCEPT ![first] = e]
       [] OTHER -> Pushed(e)

\* Variant: the author gets no copy.
BroadcastToOthers(s, e) ==
  [t \in RelayClients |->
     got[t] \cup {<<x.sub, e>> : x \in {y \in subscribersOf[t] : t # s /\ Passes(e, y.filter)}}]

\* To every subscriber, for each of its filters that the event passes.
Broadcast(s, e) ==
  [t \in RelayClients |->
     got[t] \cup {<<x.sub, e>> : x \in {y \in subscribersOf[t] : Passes(e, y.filter)}}]

\* EVENT: the rate limit, the signature, the list, the subscribers.
Event(s, e) ==
  /\ session[s] = "open"
  /\ rate' = [rate EXCEPT ![s] = IF @ > RateLimit THEN @ ELSE @ + 1]
  /\ IF rate[s] < RateLimit /\ Valid(e)
     THEN /\ events' = Stored(e)
          /\ got' = Broadcast(s, e)
          /\ latest' = IF Replaceable(e)
                       THEN [k \in DOMAIN latest \cup {Slot(e)} |->
                               IF k = Slot(e) THEN e ELSE latest[k]]
                       ELSE latest
     ELSE UNCHANGED <<events, got, latest>>
  /\ UNCHANGED <<session, subscribersOf>>

\* The events that a filter selects, the last `limit` of them; a limit of 0 is none.
Unlimited(f) == "limit" \in DOMAIN f => f.limit = 0
History(f) ==
  LET all == {i \in DOMAIN events : Passes(events[i], f)}
  IN {events[i] : i \in {j \in all : Unlimited(f) \/ Cardinality({k \in all : j <= k}) <= f.limit}}

\* REQ: its filters take the place of all that the socket had, whatever their
\* subscription; the events kept follow.
Req(s, id, fs) ==
  /\ session[s] = "open"
  /\ subscribersOf' = [subscribersOf EXCEPT ![s] = {[sub |-> id, filter |-> f] : f \in fs}]
  /\ got' = [got EXCEPT ![s] = UNION {{<<id, e>> : e \in History(f)} : f \in fs}]
  /\ UNCHANGED <<session, events, rate, latest>>

\* CLOSE of a subscription.
CloseSub(s, id) ==
  /\ session[s] = "open"
  /\ subscribersOf' = [subscribersOf EXCEPT ![s] = {x \in @ : x.sub # id}]
  /\ got' = [got EXCEPT ![s] = {g \in @ : g[1] # id}]
  /\ UNCHANGED <<session, events, rate, latest>>

\* The socket closes or fails.
RelayClose(s) ==
  /\ session[s] = "open"
  /\ session' = [session EXCEPT ![s] = "closed"]
  /\ subscribersOf' = [subscribersOf EXCEPT ![s] = {}]
  /\ rate' = [rate EXCEPT ![s] = 0]
  /\ got' = [got EXCEPT ![s] = {}]
  /\ UNCHANGED <<events, latest>>

RelayNext ==
  \E s \in RelayClients :
    \/ RelayConnect(s) \/ RelayClose(s) \/ WindowEnds(s)
    \/ \E e \in Events : Event(s, e)
    \/ \E id \in SubIds :
         CloseSub(s, id) \/ \E fs \in SUBSET Filters : Req(s, id, fs)

RelaySpec == RelayInit /\ [][RelayNext]_relayVars
-----------------------------------------------------------------------------
\* A slot has one event at most, and it is the one that was accepted last: whatever
\* was pushed, shifted out or replaced before ("Replaceable events replace previous
\* events by the same pubkey").
LastOfSlotKept ==
  \A i \in DOMAIN events :
    Replaceable(events[i])
    => /\ events[i] = latest[Slot(events[i])]
       /\ \A j \in DOMAIN events : SameSlot(events[i], events[j]) => i = j

\* A client has every event that is kept and passes one of its filters, unless the
\* filter has a limit: whichever of the events kept and the broadcasts it came with.
SubscribersMissNothing ==
  \A s \in RelayClients : \A x \in subscribersOf[s] : \A e \in Kept :
    Passes(e, x.filter) /\ Unlimited(x.filter) => <<x.sub, e>> \in got[s]

\* The newest event of each replaceable slot stays, and a subscriber is sent what
\* matches its filters, from the store or as it comes.
RelaySafe == RelayTypeOK /\ LastOfSlotKept /\ SubscribersMissNothing
=============================================================================
