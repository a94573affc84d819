CONSTANTS
  AUDIO_BUFFERS = 2
  ChunkPackets = 2
  Programs <- MCPrograms
  Modes <- FileWithKeys
SPECIFICATION FairSpec
PROPERTIES
  QuitExits
CHECK_DEADLOCK FALSE
