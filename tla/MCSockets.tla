----------------------------- MODULE MCSockets -----------------------------
(* Instances for TLC of the four services behind WebSockets: change notifications,
   the reverse tunnel, the Nostr relay and WebRTC signalling. They have no state in
   common: `part` says which of them a behaviour is about. *)
EXTENDS Notifications, Tunnel, Signalling, Relay, TLC

CONSTANTS c, d1, d2, c1, c2, c3, c4, p1, p2, p3, p4, ann, bob

VARIABLE part

Tree == c :> NoResource @@ d1 :> c @@ d2 :> d1

TunnelOwners == c1 :> ann @@ c2 :> ann @@ c3 :> bob @@ c4 :> Anonymous
SocketUsers == p1 :> ann @@ p2 :> ann @@ p3 :> bob @@ p4 :> NoUser

NostrEvent(kind, d, time, flaw) ==
  [flaw |-> flaw, pubkey |-> ann, kind |-> kind, d |-> d, created_at |-> time]
NostrEvents ==
  {NostrEvent("regular", "", 1, "none"), NostrEvent("regular", "", 2, "id"),
   NostrEvent("replaceable", "", 1, "none"), NostrEvent("replaceable", "", 2, "none"),
   NostrEvent("parameterized", "x", 2, "none"), NostrEvent("ephemeral", "", 2, "none")}
NostrFilters ==
  {[since |-> 2, until |-> 0, authors |-> {ann}, limit |-> 0],
   [kinds |-> {"regular", "parameterized"}, d |-> {"x", ""}, limit |-> 1]}

allVars == <<part, vars, tunnelVars, sigVars, relayVars>>

PartsInit ==
  /\ part \in {"notifications", "tunnel", "signalling", "relay"}
  /\ Init /\ TunnelInit /\ SigInit /\ RelayInit
  /\ part # "notifications" => \A r \in Resources : readers[r] = {}

PartsNext ==
  /\ UNCHANGED part
  /\ \/ /\ part = "notifications" /\ Next
        /\ UNCHANGED <<tunnelVars, sigVars, relayVars>>
     \/ /\ part = "tunnel" /\ TunnelNext
        /\ UNCHANGED <<vars, sigVars, relayVars>>
     \/ /\ part = "signalling" /\ SigNext
        /\ UNCHANGED <<vars, tunnelVars, relayVars>>
     \/ /\ part = "relay" /\ RelayNext
        /\ UNCHANGED <<vars, tunnelVars, sigVars>>

PartsSpec == PartsInit /\ [][PartsNext]_allVars /\ TunnelFairness
=============================================================================
