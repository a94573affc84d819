SPECIFICATION Spec
CONSTANTS
  HERE_TRAFFIC_TILES = 1
  Tiles = {0, 1, 2}
  PacketLen <- MCPacketLen
  MaxPacket = 3
  MinLen = 2
  SeqNums = 3
  MaxChunk = 2
  MaxTime = 2
  MAX_SIG_SERVICES = 2
  MAX_SIG_COMPONENTS = 2
  Sigs <- MCSigs
  Retuned <- MCRetuned
  Ports = {1, 2, 3}
  MaxTables = 2
INVARIANTS
  TableIsAnnounced
  RecordsLive
  ImagesWhole
  ImagesCaught
