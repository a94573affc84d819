CONSTANTS
  Modes <- BothModes
  FMBlocks = 4
  AMBlocks = 4
  Depth = 2
  Diversity = 2
  CfoWait = 3
  MaxUpsets = 2
SPECIFICATION FairSpec
INVARIANTS
  TypeOK
  FramesWhole
  LossBounded
PROPERTIES
  ResyncFM
