SPECIFICATION Spec
CONSTANTS
  Chats = {h1, h2}
  MaxTop = 3
  MaxRequests = 0
  MaxEntries = 1
  MaxFailures = 1
  MaxUnended = 1
  MaxToggles = 1
  Elsewhere = {h1, h2}
  MaxInbox = 2
INVARIANTS ReadsInOrder ReadTold CountRight ReadsWatched
PROPERTIES ReadsHidden
SYMMETRY Symmetry
CONSTRAINT Bounded
CHECK_DEADLOCK FALSE
