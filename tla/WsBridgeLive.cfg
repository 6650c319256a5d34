SPECIFICATION FairSpec
CONSTANTS
  Requests = {r1, r2}
  Conns = {c1, c2}
  Profiles = {"alice", "aliceAgain", "bob"}
  None = None
  Url <- UrlOf
  Headers <- HeadersOf
  Lower <- LowerCase
  SecretNames = {"authorization"}
  PoolKeyHeaders = {"cookie"}
  ApiKeyHeader = "X-Api-Key"
  Credentials = {"authorization", "cookie"}
  MaxAttempts = 2
  MaxUnread = 1
  MaxIdle = 1
  Kinds = {"event", "completed"}
  SendProcessed = FALSE
INVARIANTS
  SameIdentity
  Isolation
PROPERTIES
  EveryRequestEnds
  AcloseEnds
