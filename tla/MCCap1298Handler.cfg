SPECIFICATION FairSpec
CONSTANTS
  Outlets = {A, B}
  Center = Center
  NoButton = NoButton
  NoMsg = NoMsg
  QSize = 2
  TimeMod = 4
  ExpireTime = 1
  HoldReboot = 1
  HoldFactory = 2
INVARIANTS HeldButtonIsKnown GestureConsistent
PROPERTIES ResetNeedsGesture ToggleNeedsDoubleTap PressEnds
