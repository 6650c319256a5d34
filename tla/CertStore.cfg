SPECIFICATION Spec
CONSTANTS
  MaxKeys = 7
  MaxFaults = 3
  MaxRemovals = 2
INVARIANTS
  TypeOK
  NeverMismatched
  OnlyTornRefuses
PROPERTIES
  CaIsStable
