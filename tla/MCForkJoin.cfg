CONSTANTS
  kNumThreads = 3
  MaxDocs = 8
  Sizes <- MCSizes
SPECIFICATION FairSpec
INVARIANTS
  NoSlotRace
  CompleteOnReturn
  ThreadBound
  IInv
PROPERTIES
  CallEnds
  ImplementsMap
