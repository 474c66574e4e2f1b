\* A flow table of two entries; four flows of five protocols that pause, resume,
\* are upgraded and evict each other while reloads come in.
SPECIFICATION Spec
CONSTANTS
  None = None
  f1 = f1
  f2 = f2
  f3 = f3
  u1 = u1
  Flows = {f1, f2, f3, u1}
  UdpFlows = {u1}
  Port <- FlowPort
  Client <- FlowClient
  RuleIds = {"conn", "udp", "http", "ws", "wi", "z21"}
  Configs <- MixedRules
  Payloads = {"empty", "get", "upgrade", "wsframe", "text", "records"}
  MaxFlows = 2
  Idle = 2
  MaxFrames = 4
  MaxTime = 3
INVARIANTS
  TableBounded
  NewWhenSilent
  ConnectionsCountedOnce
  WsFramesCounted
PROPERTIES
  EvictsOldest
CHECK_DEADLOCK FALSE
