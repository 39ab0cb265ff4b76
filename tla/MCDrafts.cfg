SPECIFICATION FairSpec
CONSTANTS
  Names = {"map", "k1", "k2"}
  Peers = {p1}
  MaxTexts = 2
  MaxStarts = 1
  MaxFailures = 1
INVARIANTS
  Settled
PROPERTIES
  SavedStays
  DraftSaved
CHECK_DEADLOCK FALSE
