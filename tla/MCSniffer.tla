----------------------------- MODULE MCSniffer ------------------------------
(***************************************************************************)
(* Instances of Sniffer: flow tables of two entries.                       *)
(***************************************************************************)
EXTENDS Sniffer, TLC

CONSTANTS f1, f2, f3, u1

R(id, protocol, ports, metric, match) ==
  [id |-> id, protocol |-> protocol, ports |-> ports, metric |-> metric, match |-> match]

NoSets == [guests |-> {}]
Guests == [guests |-> {"bob"}]

\* Three TCP flows and one UDP flow of two clients.
FlowPort == f1 :> 80 @@ f2 :> 80 @@ f3 :> 80 @@ u1 :> 21105
FlowClient == f1 :> "alice" @@ f2 :> "alice" @@ f3 :> "bob" @@ u1 :> "bob"

\* Connections over TCP and UDP, and the services on their ports.  A reload
\* changes the set that the UDP rule tests and drops a rule.
MixedRules ==
  LET kept == << R("conn", "tcp", None, "connections", None),
                 R("udp", "udp", {21105}, "connections", "guests"),
                 R("http", "http", {80}, "requests", None),
                 R("ws", "websocket", {80}, "requests", None),
                 R("wi", "withrottle", {80}, "bytes", None) >>
  IN << [rules |-> Append(kept, R("z21", "z21", {21105}, "requests", None)), sets |-> NoSets],
        [rules |-> kept, sets |-> Guests] >>

\* What the theorems about the counters ask of the configurations holds of these.
ASSUME StableReloads == StableRules /\ WsRules
=============================================================================
