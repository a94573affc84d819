CONSTANTS
  ELASTIC_BUFFER_LEN = 8
  PduSeqs = 4
  Channels <- MCChannels
  Latencies <- MCLatencies
  Leads <- MCLeads
  MaxPackets = 16
  MaxSlips = 1
SPECIFICATION Spec
INVARIANTS
  RingIsFaithful
  InStep
PROPERTIES
  PlayedOnTime
CHECK_DEADLOCK FALSE
