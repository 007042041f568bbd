SPECIFICATION FairSpec
CONSTANTS
  N = 6
  BlockMod = 4
  Retries = 3
  MaxTrouble = 4
INVARIANTS MeterIsProgrammed
