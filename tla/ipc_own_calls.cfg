\* What becomes of the requests the clients of the repository send.
SPECIFICATION Spec
CONSTANTS
  None = None
  Conns = {k1}
  Allowed = {k1}
  Timed = {k1}
  Foreign <- ForeignBodies
  StoreMayFail = FALSE
INVARIANTS
  OwnCallsServed
CHECK_DEADLOCK FALSE
