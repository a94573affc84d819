CONSTANTS
  Sources <- AllSources
  Frequencies <- MCFrequencies
  ScanBegin <- MCScanBegin
  GainSteps = 2
  GainMayFail = TRUE
  StopFirst = TRUE
SPECIFICATION FairSpec
PROPERTIES
  StopReturns
