SPECIFICATION FairSpec
CONSTANTS
  MaxSent = 3
  HighWater = 1
  ReadLimit = 1
INVARIANTS
  TypeOK
  AcceptedIsDelivered
  WriteBufferBounded
PROPERTIES
  ImplementsStreams
  TunnelEnds
CHECK_DEADLOCK FALSE
