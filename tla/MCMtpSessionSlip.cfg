SPECIFICATION Spec
CONSTANTS
  Requests = {1, 2}
  IdsBuffer = 1
  MaxEvents = 2
CHECK_DEADLOCK FALSE
INVARIANT NoLostRequest
