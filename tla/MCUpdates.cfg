SPECIFICATION FairSpec
CONSTANTS
  FirstPts = 1
  MaxPts = 4
  MixedPts = 2
  Counts = {1, 2}
  MaxSeq = 4
  MaxInFlight = 2
  MaxDisturbances = 1
CHECK_DEADLOCK FALSE
INVARIANT TypeOK
INVARIANT NoLostEvent
INVARIANT NotAhead
INVARIANT GapWatched
INVARIANT RequestAlive
INVARIANT SeqInOrder
INVARIANT SeqWatched
PROPERTY BoxSpec
PROPERTY RequestEnds
PROPERTY GapRepaired
