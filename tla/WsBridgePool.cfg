SPECIFICATION Spec
CONSTANTS
  Requests = {r1, r2, r3}
  Conns = {c1, c2, c3}
  Profiles = {"alice"}
  None = None
  Url <- UrlOf
  Headers <- HeadersOf
  Lower <- LowerCase
  SecretNames = {"authorization"}
  PoolKeyHeaders = {"cookie"}
  ApiKeyHeader = "X-Api-Key"
  Credentials = {"authorization", "cookie"}
  MaxAttempts = 2
  MaxUnread = 1
  MaxIdle = 2
  Kinds = {"completed"}
  SendProcessed = TRUE
SYMMETRY Interchangeable
INVARIANTS
  TypeOK
  SingleOwner
  NoUseAfterClose
  NoOrphan
  RetryLeavesNothing
  PoolWithinLimit
  ProcessedBeforeReuse
PROPERTIES
  NeverLendsStale
  ImplementsLease
