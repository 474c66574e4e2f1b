\* Two IPC connections: listClients against top.
SPECIFICATION Spec
CONSTANTS
  Conns = {k1, k2}
  IpcJobs = {"mutate", "clear_nothing", "list_clients", "top"}
  NoOne = NoOne
INVARIANTS
  NoCircularWait
