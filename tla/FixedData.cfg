SPECIFICATION Spec
CONSTANTS
  MAX_AAS_LEN = 2
  CCC_BUF = 3
  BBM_LEN = 2
  PAYLOAD = 4
  Width = 2
  Lengths <- MCLengths
  FrameLen = 2
  CccLen = 2
  NFrames = 2
  Idle = 2
  MaxErrors = 2
INVARIANTS TypeOK WidthTrue CleanDelivers Opens
PROPERTIES FramesInOrder
