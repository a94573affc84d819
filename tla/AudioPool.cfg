CONSTANTS
  AUDIO_BUFFERS = 3
  ChunkPackets = 2
  Programs <- MCPrograms
  Modes <- AllModes
SPECIFICATION FairSpec
INVARIANTS
  TypeOK
  PoolPartition
  LiveQueueIsCurrent
  NoMutualWait
  BatchPlaysAll
  CleanupIsLast
PROPERTIES
  AudioIntact
  QueueSpec
  PoolRunsOn
CHECK_DEADLOCK FALSE
