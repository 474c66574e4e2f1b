\* Liveness: measures are lifted once clients are quiet.
SPECIFICATION FairSpec
CONSTANTS
  None = None
  Second = 1
  U64Max = 2
  Buckets = 2
  RuleIds = {"burst"}
  Clients = {c1}
  V4Clients = {c1}
  Conns = {k1}
  Configs <- OneRule
  Mode = "enforce"
  Ops = {"block"}
  Rates = {20}
  Durations = {1}
  Amounts = {2}
  MayCrash = FALSE
  StoreMayFail = TRUE
  RedisMayBeDown = TRUE
  QuietAfter = 2
  MaxStall = 1
  MaxTime = 6
PROPERTIES
  DecisionMatchesPolicy
  ImplementsEnforcement
  QuietClientsReleased
CHECK_DEADLOCK FALSE
