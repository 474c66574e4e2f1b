\* Two operators and crashes, with a Redis that never fails; the clock counts half seconds.
SPECIFICATION Spec
CONSTANTS
  None = None
  Second = 2
  U64Max = 3
  Buckets = 3
  RuleIds = {}
  Clients = {c1}
  V4Clients = {}
  Conns = {k1, k2}
  Configs <- NoRules
  Mode = "enforce"
  Ops = {"throttle", "block", "unthrottle", "unblock"}
  Rates = {60}
  Durations = {None, 1}
  Amounts = {}
  MayCrash = TRUE
  StoreMayFail = FALSE
  RedisMayBeDown = FALSE
  QuietAfter = 3
  MaxStall = 9
  MaxTime = 3
SYMMETRY Symmetry
INVARIANTS
  NoEmptyManual
  StoreMirrorsMemory
PROPERTIES
  ImplementsEnforcement
  ClearedStaysCleared
  ManualNotLost
CHECK_DEADLOCK FALSE
