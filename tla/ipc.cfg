\* Every decodable and undecodable body on a connection that is admitted, beside
\* one that is not.
SPECIFICATION Spec
CONSTANTS
  None = None
  Conns = {k1, k2}
  Allowed = {k1}
  Timed = {k1}
  Foreign <- ForeignBodies
  StoreMayFail = TRUE
INVARIANTS
  AnswersUnderstood
PROPERTIES
  EffectsMatchRequests
  CallsReturn
CHECK_DEADLOCK FALSE
