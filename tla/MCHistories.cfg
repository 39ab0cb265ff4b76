SPECIFICATION FairSpec
CONSTANTS
  Chats = {h1}
  MaxTop = 1
  MaxRequests = 2
  MaxEntries = 1
  MaxFailures = 1
  MaxUnended = 0
  MaxToggles = 0
  Elsewhere = {h1}
  MaxInbox = 1
CHECK_DEADLOCK FALSE
INVARIANTS NoPageWithDelete EntryAsserts
PROPERTIES PageComes EntryComes ReadComes
