\* A user of the live view whose calls to the daemon may all fail.
SPECIFICATION Spec
CONSTANTS
  Chunk = 2
  MaxKeys = 4
INVARIANTS
  TerminalRestored
PROPERTIES
  QuitHeeded
CHECK_DEADLOCK FALSE
