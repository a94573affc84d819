CONSTANTS
  MAX_LOT_FILES = 2
  Files <- MCFiles
  Lineups <- MCLineups
  Kinds <- AllKinds
  MaxChanges = 3
SPECIFICATION FairSpec
INVARIANTS
  SlotsConsistent
  ReportedRight
PROPERTIES
  OldestGoes
  CarouselCompletes
