SPECIFICATION Spec
CONSTANTS
  Items = {"photo", "video", "cover"}
  Parts <- MCParts
  DocParts <- MCDocParts
  CoverOf <- MCCoverOf
  PartSize = 1
  DocPartSize = 2
  MaxPerSession = 4
  AcceptAsFast = 2
  MaxSessions = 2
  MaxCalls = 24
  MaxFailures = 0
  MaxByUser = 0
CHECK_DEADLOCK FALSE
INVARIANT SlicedComplete
