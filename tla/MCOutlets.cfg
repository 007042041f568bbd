SPECIFICATION FairSpec
CONSTANTS
  Sockets = {"socket1"}
  QSize = 3
  PollCycles = 2
  MaxTrouble = 3
INVARIANTS OnePoll StoredAgrees
PROPERTIES LedCatchesUp StoredIsReached
CHECK_DEADLOCK FALSE
