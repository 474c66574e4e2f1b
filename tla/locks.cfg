\* One IPC connection at a time: no deadlock, every operation ends.
SPECIFICATION FairSpec
CONSTANTS
  Conns = {k1}
  IpcJobs = {"mutate", "clear_nothing", "list_clients", "top"}
  NoOne = NoOne
INVARIANTS
  NoCircularWait
PROPERTIES
  EveryJobEnds
