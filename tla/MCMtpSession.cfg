SPECIFICATION FairSpec
CONSTANTS
  Requests = {1, 2}
  IdsBuffer = 1
  MaxEvents = 3
CHECK_DEADLOCK FALSE
INVARIANT RequestKept
INVARIANT AnsweredGone
INVARIANT SendWatched
PROPERTY Answered
