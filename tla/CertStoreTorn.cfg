SPECIFICATION Spec
CONSTANTS
  MaxKeys = 3
  MaxFaults = 1
  MaxRemovals = 0
INVARIANTS
  CaIsGenerated
