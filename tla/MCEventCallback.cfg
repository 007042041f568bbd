SPECIFICATION EvtSpec
CONSTANTS
  Entries = {1, 2, 3, 4, 5, 6}
  MaxOps = 6
INVARIANTS GoneIsNotCalled NobodyIsStuck
PROPERTIES ImplementsRegistry
CHECK_DEADLOCK FALSE
