CONSTANTS
  Sources <- AllSources
  Frequencies <- MCFrequencies
  ScanBegin <- MCScanBegin
  GainSteps = 2
  GainMayFail = FALSE
  StopFirst = TRUE
SPECIFICATION FairSpec
INVARIANTS
  TypeOK
  NoResetUnderDecoder
  GainFitsTuning
  LostOnce
PROPERTIES
  StopReturnsQuiet
  LossNoticed
  CallsServed
