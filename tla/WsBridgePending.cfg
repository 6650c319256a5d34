SPECIFICATION FairSpec
CONSTANTS
  Requests = {r1, r2}
  Conns = {c1, c2}
  Profiles = {"alice"}
  None = None
  Url <- UrlOf
  Headers <- HeadersOf
  Lower <- LowerCase
  SecretNames = {"authorization"}
  PoolKeyHeaders = {"cookie"}
  ApiKeyHeader = "X-Api-Key"
  Credentials = {"authorization", "cookie"}
  MaxAttempts = 1
  MaxUnread = 2
  MaxIdle = 1
  Kinds = {"event", "completed"}
  SendProcessed = TRUE
PROPERTIES
  PendingIsDiscarded
