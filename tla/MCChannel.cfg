SPECIFICATION FairSpec
CONSTANTS
  MaxPts = 3
  Counts = {1, 2}
  Windows = {w1, w2}
  PtsKnown = {TRUE, FALSE}
  MaxInFlight = 2
  MaxDisturbances = 1
CHECK_DEADLOCK FALSE
INVARIANT RequestAlive
INVARIANT QueueWatched
PROPERTY BoxSpec
INVARIANT PollKept
PROPERTY RequestEnds
PROPERTY ShownCatchesUp
