SPECIFICATION Spec
CONSTANTS
  Requests <- MCRequests
  KeyHeaders = {"none", "authorization", "x-api-key"}
  Limit = 3
INVARIANTS
  BufferWithinLimit
CHECK_DEADLOCK FALSE
