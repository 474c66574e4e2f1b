\* Binaries of two schema versions start, die and start again on one path and database.
SPECIFICATION FairSpec
CONSTANTS
  None = None
  old = old
  new = new
  Procs = {old, new}
  Version <- TwoVersions
  Mode <- Modes
  Clients = {c1, c2}
  Ifaces = {"eth0", "wlan0"}
  MaxCrashes = 2
  MaxFailures = 1
  MaxUnits = 2
  MaxRequests = 1
INVARIANTS
  OneDaemon
  NeverMisreads
  AttachedWhole
  StatsWithinTraffic
PROPERTIES
  DiscardsOnlyForeign
  StatsCatchUp
CHECK_DEADLOCK FALSE
