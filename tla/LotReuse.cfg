CONSTANTS
  MAX_LOT_FILES = 2
  Files <- Namesakes
  Lineups <- OneByOne
  Kinds <- OnlyLegal
  MaxChanges = 2
SPECIFICATION Spec
INVARIANTS
  ReportedWhole
