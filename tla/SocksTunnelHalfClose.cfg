SPECIFICATION Spec
CONSTANTS
  MaxSent = 1
  HighWater = 1
  ReadLimit = 1
INVARIANTS
  TunneledUnchanged
CHECK_DEADLOCK FALSE
