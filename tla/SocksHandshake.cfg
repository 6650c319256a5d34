SPECIFICATION FairSpec
CONSTANTS
  Byte = 16
  Hosts <- MCHosts
  Logins <- MCLogins
  Decodable <- MCHosts
  FromClient <- MCFromClient
  FromServer <- MCFromServer
INVARIANTS
  TypeOK
  ServerAgrees
  ClientAgrees
  ChainWorks
PROPERTIES
  HandshakeEnds
CHECK_DEADLOCK FALSE
