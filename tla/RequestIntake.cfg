SPECIFICATION FairSpec
CONSTANTS
  Requests <- MCRequests
  KeyHeaders = {"none", "authorization", "x-api-key"}
  Limit = 3
INVARIANTS
  TypeOK
  LimitIsExact
  NeverTruncated
  OneKeyUpstream
PROPERTIES
  LeaverIsNoticed
CHECK_DEADLOCK FALSE
