SPECIFICATION FairSpec
CONSTANTS
  QSize = 3
  WifiTimeout = 2
  MaxTrouble = 3
INVARIANTS OneTryPerRequest
PROPERTIES BootReasonTrue HeardLossIsRepaired RebootHappens
