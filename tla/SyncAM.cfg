CONSTANTS
  Modes <- OnlyAM
  FMBlocks = 8
  AMBlocks = 8
  Depth = 3
  Diversity = 4
  CfoWait = 8
  MaxUpsets = 1
SPECIFICATION FairSpec
PROPERTIES
  ResyncAM
