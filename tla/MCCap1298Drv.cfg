SPECIFICATION FairSpec
CONSTANTS
  A = A
  B = B
  Center = Center
  NoButton = NoButton
  DEBOUNCE_LIMIT = 2
  PRESS_POLLS = 2
  CAL_POLLS = 3
  ERROR_POLLS = 3
PROPERTIES AlternatesPerButton RequestedCalibrationStarts ReleaseIsReported
