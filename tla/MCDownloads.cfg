SPECIFICATION Spec
CONSTANTS
  Files = {"file"}
  Streams = {"stream"}
  Parts <- MCParts
  Cdn = {"file"}
  StartWaited = 2
  MaxWaited = 3
  MaxSessions = 2
  RetrySuccesses = 1
  MaxRemoves = 2
  RemoveAfter = 1
  MaxTroubles = 1
  MaxByUser = 2
CHECK_DEADLOCK FALSE
INVARIANT AmountsRight
INVARIANT PartsKept
INVARIANT NoneStranded
