SPECIFICATION Spec
CONSTANTS
  Requests = {r1}
  Conns = {c1}
  Profiles = {"alice"}
  None = None
  Url <- UrlOf
  Headers <- HeadersOf
  Lower <- LowerCase
  SecretNames = {"authorization"}
  PoolKeyHeaders = {"cookie"}
  ApiKeyHeader = "X-Api-Key"
  Credentials = {"authorization", "cookie"}
  MaxAttempts = 1
  MaxUnread = 2
  MaxIdle = 1
  Kinds = {"event", "completed", "garbage"}
  SendProcessed = TRUE
INVARIANTS
  DrainDiscards
