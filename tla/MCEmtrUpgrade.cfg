SPECIFICATION FairSpec
CONSTANTS
  N = 7
  BlockMod = 6
  Retries = 3
  MaxTrouble = 4
INVARIANTS AckedIsReceived VersionTrue UnracedStartRepairs
PROPERTIES ImplementsTransfer StartEnds
