------------------------------- MODULE Sniffer ------------------------------
(***************************************************************************)
(* The AF_PACKET sniffer: from a captured frame to the counters of the     *)
(* rules that select it.                                                   *)
(*                                                                         *)
(*   microwaf/src/sniffer.rs   FlowTable, handle_frame, dispatch_tcp/udp   *)
(*   mw-core/src/rule.rs       Rule::matches_port, RuleSet::matching       *)
(*                                                                         *)
(* A flow is a 4-tuple with its L4 protocol.  A payload is known by what   *)
(* the detectors of mw-sniffer make of it.  A match expression is None or  *)
(* the name of a set that the client must belong to.  One thread handles   *)
(* the frames; a reload may come between its two reads of the live         *)
(* configuration.  Saturation of the counters is in module Daemon.         *)
(***************************************************************************)
EXTENDS Integers, Sequences, FiniteSetsExt

CONSTANTS Flows,      \* FlowKey values
          UdpFlows,   \* those of L4 protocol UDP
          Port,       \* Port[f]: destination port of a flow
          Client,     \* Client[f]: ClientId of its source
          RuleIds,    \* ids of the rules
          Configs,    \* sequence of the configurations a reload may install
          Payloads,   \* kinds of payload that are sent
          MaxFlows,   \* FlowTable::max
          Idle,       \* FlowTable::idle
          None,       \* Option::None
          MaxFrames,  \* bound: frames captured
          MaxTime     \* bound: the clock stops here

VARIABLES now,       \* the monotonic clock
          live,      \* index of the configuration in the ArcSwap
          frame,     \* the frame in hand, or None
          flows,     \* FlowTable::flows
          ws_conns,  \* WsConns
          counters,  \* CounterStore.by_rule, per client and rule
          upgraded,  \* environment: flows whose end points speak WebSocket
          captured,  \* history: frames captured
          heard,     \* history: when a connection rule last saw a flow
          lives,     \* history: times a flow began or resumed
          sent       \* history: WebSocket frames of each client

vars == <<now, live, frame, flows, ws_conns, counters, upgraded, captured, heard, lives, sent>>

Clients == {Client[f] : f \in Flows}

\* What the detectors find in each kind of payload.  A POST also passes for a
\* WebSocket header; any line of text passes for a WiThrottle command.
Http(p) == p \in {"get", "post", "upgrade"}
WsHeader(p) == p \in {"post", "wsframe"}
Units(p) == IF p \in {"text", "records"} THEN 2 ELSE 1
Bytes(p) == IF p = "empty" THEN 0 ELSE 3
UnitBytes(p) == IF p = "text" THEN 2 ELSE Bytes(p)

Rule == [id : RuleIds, protocol : {"tcp", "udp", "http", "websocket", "withrottle", "z21"},
         ports : (SUBSET Int) \cup {None}, metric : {"requests", "bytes", "connections"},
         match : STRING \cup {None}]

\* Rule::validate
Valid(rule) ==
  IF rule.protocol \in {"tcp", "udp"} THEN rule.metric # "requests"
  ELSE rule.metric # "connections" /\ rule.ports \notin {None, {}}

ASSUME SnifferAssumption ==
  /\ UdpFlows \subseteq Flows
  /\ Payloads \subseteq {"empty", "get", "post", "upgrade", "wsframe", "text", "records", "noise"}
  /\ 1 \in DOMAIN Configs
  /\ \A i \in DOMAIN Configs :
       /\ Configs[i].rules \in Seq(Rule)
       /\ \A j \in DOMAIN Configs[i].rules : Valid(Configs[i].rules[j])
  /\ MaxFlows \in Nat \ {0} /\ Idle \in Nat \ {0}
  /\ None \notin Nat
  /\ None \notin [flow : Flows, syn : BOOLEAN, payload : Payloads, at : Nat, rules : Seq(Rule)]

Init ==
  /\ now = 0 /\ live = 1 /\ frame = None
  /\ flows = [f \in Flows |-> None] /\ ws_conns = {}
  /\ counters = [c \in Clients |-> [r \in RuleIds |-> 0]]
  /\ upgraded = {} /\ captured = 0
  /\ heard = [f \in Flows |-> None]
  /\ lives = [f \in Flows |-> 0]
  /\ sent = [c \in Clients |-> 0]

Clock ==
  /\ now < MaxTime
  /\ now' = now + 1
  /\ UNCHANGED <<live, frame, flows, ws_conns, counters, upgraded, captured, heard, lives, sent>>

Reload ==
  /\ \E i \in DOMAIN Configs \ {live} : live' = i
  /\ UNCHANGED <<now, frame, flows, ws_conns, counters, upgraded, captured, heard, lives, sent>>

(***************************************************************************)
(* The environment sends HTTP or WiThrottle on a TCP connection until an   *)
(* upgrade, then WebSocket frames, and starts anew with the next SYN.      *)
(***************************************************************************)
Sendable(f, syn, p) ==
  \/ f \in UdpFlows /\ ~syn /\ p \in {"records", "noise"}
  \/ f \notin UdpFlows /\ syn /\ p = "empty"
  \/ f \notin UdpFlows /\ ~syn /\ p \in IF f \in upgraded THEN {"wsframe"}
                                        ELSE {"get", "post", "upgrade", "text", "noise"}

\* recv(), handle_frame() and state.rules() at the start of dispatch_tcp/udp.
Capture(f, syn, p) ==
  /\ frame = None /\ captured < MaxFrames
  /\ Sendable(f, syn, p)
  /\ frame' = [flow |-> f, syn |-> syn, payload |-> p, at |-> now,
               rules |-> Configs[live].rules]
  /\ captured' = captured + 1
  /\ upgraded' = IF syn THEN upgraded \ {f}
                 ELSE IF p = "upgrade" THEN upgraded \cup {f} ELSE upgraded
  /\ sent' = [sent EXCEPT ![Client[f]] = @ + IF p = "wsframe" THEN 1 ELSE 0]
  /\ UNCHANGED <<now, live, flows, ws_conns, counters, heard, lives>>

(***************************************************************************)
(* FlowTable::observe                                                      *)
(***************************************************************************)
Present(table) == {f \in Flows : table[f] # None}

\* Fault: a flow silent for exactly the idle time is kept.
RetainedLate(at) ==
  [f \in Flows |-> IF flows[f] # None /\ at - flows[f] <= Idle THEN flows[f] ELSE None]

Retained(at) ==
  [f \in Flows |-> IF flows[f] # None /\ at - flows[f] < Idle THEN flows[f] ELSE None]

IsNew(f, at) == Retained(at)[f] = None

\* Fault: drops the newest flow (max_by_key).
Newest(table) ==
  {f \in Present(table) : \A g \in Present(table) : table[f] >= table[g]}

\* The flows that may be dropped: the oldest ones, in the order of a HashMap.
Oldest(table) ==
  {f \in Present(table) : \A g \in Present(table) : table[f] <= table[g]}

\* Fault: off by one.
FullLate(table) == Cardinality(Present(table)) > MaxFlows

Full(table) == Cardinality(Present(table)) >= MaxFlows

\* Fault: an occupied entry keeps its old time.
ObserveNoRefresh(f, at) ==
  LET kept == Retained(at) IN
  IF kept[f] # None THEN {kept}
  ELSE IF Full(kept) THEN {[kept EXCEPT ![old] = None, ![f] = at] : old \in Oldest(kept)}
  ELSE {[kept EXCEPT ![f] = at]}

\* The tables observe() may leave behind.
Observe(f, at) ==
  LET kept == Retained(at) IN
  IF kept[f] = None /\ Full(kept)
  THEN {[kept EXCEPT ![old] = None, ![f] = at] : old \in Oldest(kept)}
  ELSE {[kept EXCEPT ![f] = at]}

(***************************************************************************)
(* dispatch_tcp and dispatch_udp                                           *)
(***************************************************************************)
L4(f) == IF f \in UdpFlows THEN "udp" ELSE "tcp"

\* RuleSet::matching
Selects(rule, protocol, port) ==
  rule.protocol = protocol /\ (rule.ports # None => port \in rule.ports)

\* match_ok, with the sets of the configuration that is live now.
MatchOk(rule, c) ==
  rule.match # None =>
    LET sets == Configs[live].sets
    IN rule.match \in DOMAIN sets /\ c \in sets[rule.match]

\* The connection rules that call observe() for the frame, by their place in load order.
Observers ==
  {i \in DOMAIN frame.rules :
     /\ frame.flow \in UdpFlows \/ frame.syn
     /\ frame.rules[i].metric = "connections"
     /\ Selects(frame.rules[i], L4(frame.flow), Port[frame.flow])}

\* Only the first call of a frame can find the flow new.
Opens(i) ==
  /\ i \in Observers /\ \A j \in Observers : i <= j
  /\ IsNew(frame.flow, frame.at)

\* The protocol whose rules count the payload.
L7 ==
  LET p == frame.payload IN
  IF frame.flow \in UdpFlows THEN IF p = "records" THEN "z21" ELSE "none"
  ELSE IF frame.flow \in ws_conns THEN IF WsHeader(p) THEN "websocket" ELSE "none"
  ELSE IF p = "upgrade" THEN "none"
  ELSE IF Http(p) THEN "http"
  ELSE IF p = "text" THEN "withrottle" ELSE "none"

\* Fault: looks for the handshake in the first frame of a connection only.
HandshakeOnSyn == frame.flow \notin ws_conns \cup UdpFlows /\ frame.payload = "upgrade" /\ frame.syn

Handshake == frame.flow \notin ws_conns \cup UdpFlows /\ frame.payload = "upgrade"

\* What the frame adds to a counter for the rule at place i.
Amount(i) ==
  LET p == frame.payload
      rule == frame.rules[i]
      generic == Selects(rule, L4(frame.flow), Port[frame.flow])
      parsed == Selects(rule, L7, Port[frame.flow])
  IN IF ~MatchOk(rule, Client[frame.flow]) \/ ~(generic \/ parsed) THEN 0
     ELSE IF rule.metric = "connections" THEN IF Opens(i) THEN 1 ELSE 0
     ELSE IF rule.metric = "requests" THEN Units(p)
     ELSE IF generic THEN Bytes(p) ELSE UnitBytes(p)

\* What the frame adds to each counter.
Added ==
  LET amounts == [i \in DOMAIN frame.rules |-> Amount(i)]
  IN [r \in RuleIds |->
        SumFunctionOnSet(amounts, {i \in DOMAIN frame.rules : frame.rules[i].id = r})]

\* The flow table after the frame, and its history.
Track ==
  IF Observers = {} THEN UNCHANGED <<flows, heard, lives>>
  ELSE LET f == frame.flow IN
       /\ flows' \in Observe(f, frame.at)
       /\ heard' = [g \in Flows |->
            IF g = f THEN frame.at
            ELSE IF flows'[g] = None /\ Retained(frame.at)[g] # None THEN None ELSE heard[g]]
       /\ lives' = [lives EXCEPT ![f] =
            @ + IF heard[f] = None \/ frame.at - heard[f] >= Idle THEN 1 ELSE 0]

\* The rest of dispatch_tcp or dispatch_udp, from state.sets() on.
Dispatch ==
  /\ frame # None
  /\ Track
  /\ counters' = [counters EXCEPT ![Client[frame.flow]] = [r \in RuleIds |-> @[r] + Added[r]]]
  /\ ws_conns' = IF Handshake THEN ws_conns \cup {frame.flow} ELSE ws_conns
  /\ frame' = None
  /\ UNCHANGED <<now, live, upgraded, captured, sent>>

Next ==
  \/ Clock \/ Reload \/ Dispatch
  \/ \E f \in Flows, syn \in BOOLEAN, p \in Payloads : Capture(f, syn, p)

Spec == Init /\ [][Next]_vars

-----------------------------------------------------------------------------
(***************************************************************************)
(* Properties                                                              *)
(***************************************************************************)
RulesOf(i) == {Configs[i].rules[j] : j \in DOMAIN Configs[i].rules}
AllRules == UNION {RulesOf(i) : i \in DOMAIN Configs}
IdsWhere(metric, protocol) ==
  {r.id : r \in {x \in AllRules : x.metric = metric /\ x.protocol = protocol}}
Total(c, ids) == SumFunctionOnSet(counters[c], ids)

\* Reloads keep what a rule counts: rules of one id have one metric and protocol.
StableRules ==
  \A r, s \in AllRules : r.id = s.id => r.metric = s.metric /\ r.protocol = s.protocol

\* Reloads keep the rules that count WebSocket frames, on the port of every TCP flow
\* and of every client.
WsRules ==
  \A k \in DOMAIN Configs, r \in IdsWhere("requests", "websocket"), f \in Flows \ UdpFlows :
    \E rule \in RulesOf(k) :
      /\ rule.id = r /\ rule.metric = "requests" /\ rule.match = None
      /\ Selects(rule, "websocket", Port[f])

\* The flow table never outgrows its maximum (FlowTable::observe).
TableBounded == Cardinality(Present(flows)) <= MaxFlows

\* A flow that is not idle leaves the table only for a new one, when the table
\* is full of flows that are not idle, and only if none was heard longer ago
\* (retain and min_by_key in FlowTable::observe).
EvictsOldest ==
  [][\A f \in Present(flows) :
       flows'[f] = None /\ frame.at - flows[f] < Idle =>
         LET active == {g \in Present(flows) : frame.at - flows[g] < Idle} IN
         /\ Cardinality(active) = MaxFlows /\ frame.flow \notin active
         /\ \A g \in active : flows[f] <= flows[g]]_vars

\* observe() finds a flow new exactly when no connection rule has seen it for the
\* idle time, or not since it was evicted, although idle flows stay in the table
\* until some later frame removes them (retain in FlowTable::observe).
NewWhenSilent ==
  frame # None =>
    LET last == heard[frame.flow]
    IN IsNew(frame.flow, frame.at) <=> (last = None \/ frame.at - last >= Idle)

\* Connections are counted when a flow begins or resumes after the idle time or
\* after its eviction, and then once, although the table is pruned only as a
\* side effect of later frames; a match expression can only make it fewer
\* (FlowTable::observe, dispatch_tcp, dispatch_udp).
ConnectionsCountedOnce ==
  \A c \in Clients, l4 \in {"tcp", "udp"} :
    LET counted == Total(c, IdsWhere("connections", l4))
        begun == SumFunctionOnSet(lives, {f \in Flows : Client[f] = c /\ L4(f) = l4})
    IN /\ counted <= begun
       /\ (\A r \in AllRules : r.protocol = l4 => r.match = None) => counted = begun

\* A WebSocket frame that was handled is counted by the rules of its port, from
\* the handshake on (ws_conns in dispatch_tcp).
WsFramesCounted ==
  frame = None => \A c \in Clients, r \in IdsWhere("requests", "websocket") :
                    counters[c][r] >= sent[c]
=============================================================================
