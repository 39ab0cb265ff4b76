SPECIFICATION Spec
CONSTANTS
  Chats = {h1}
  MaxTop = 3
  MaxRequests = 0
  MaxEntries = 0
  MaxFailures = 0
  MaxUnended = 0
  MaxToggles = 2
  Elsewhere = {h1}
  MaxInbox = 1
INVARIANTS FinishedAssert
CHECK_DEADLOCK FALSE
