\* Traffic, a manual policy and configuration reloads together, permissive mode.
SPECIFICATION Spec
CONSTANTS
  None = None
  Second = 1
  U64Max = 3
  Buckets = 3
  RuleIds = {"burst", "flood"}
  Clients = {c1}
  V4Clients = {c1}
  Conns = {k1}
  Configs <- Reloads
  Mode = "permissive"
  Ops = {"throttle"}
  Rates = {20}
  Durations = {1}
  Amounts = {2}
  MayCrash = FALSE
  StoreMayFail = FALSE
  RedisMayBeDown = FALSE
  QuietAfter = 2
  MaxStall = 2
  MaxTime = 4
INVARIANTS
  TypeOK
  CountedOnce
  WouldBeOnlyPermissive
PROPERTIES
  ImplementsEnforcement
  DecisionMatchesPolicy
  CooldownHolds
CHECK_DEADLOCK FALSE
