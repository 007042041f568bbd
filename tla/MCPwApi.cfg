SPECIFICATION FairSpec
CONSTANTS
  Tasks = {t1, t2}
  NoTask = NoTask
  Sockets = {"socket1"}
  QSize = 2
  MaxFail = 1
  MaxTrouble = 3
INVARIANTS AllOrNothing
PROPERTIES StopsWhenDown ServedWhenConnected GatewayCatchesUp
CHECK_DEADLOCK FALSE
