---------------------------- MODULE PoolIdentity ----------------------------
(***************************************************************************)
(* websocket_pool_key: which requests may share an upstream socket.  The   *)
(* key is the URL and a digest of the headers that tell who the client is. *)
(*                                                                         *)
(* The digest is SHA-256 over the JSON of the sorted list of these headers *)
(* as pairs (lower-case name, value).  Sorting forgets the order and       *)
(* nothing else, and JSON of pairs of strings can be read back, so the     *)
(* digest is as good as the multiset of the pairs, as long as no two       *)
(* inputs of SHA-256 are found to collide: it is modelled as how often     *)
(* each pair occurs.                                                       *)
(***************************************************************************)
EXTENDS FiniteSets, Functions

CONSTANTS
  Profiles,        \* what requests may carry; of each of them
  Url,             \* the upstream URL
  Headers,         \* and the list of headers, each a name and a value
  Lower,           \* str.lower, of the header names that occur
  SecretNames,     \* the lower-case names with "auth" or "token" in them
  PoolKeyHeaders,  \* WEBSOCKET_POOL_KEY_HEADERS
  ApiKeyHeader,    \* UPSTREAM_API_KEY_HEADER
  Credentials      \* the names, in lower case, of the headers by which the
                   \* upstream tells one account from another

\* _is_websocket_pool_identity_header.
IsIdentityHeader(name) ==
  \/ name = Lower[ApiKeyHeader] \/ name \in {Lower[n] : n \in PoolKeyHeaders}
  \/ name \in SecretNames

\* The one duty of the operator: whatever else the upstream takes for a
\* credential is named in WEBSOCKET_POOL_KEY_HEADERS.
ASSUME CredentialsAssumption == \A name \in Credentials : IsIdentityHeader(name)

Pair(h) == <<Lower[h.name], h.value>>

\* Fault: the names are compared as the client spelled them.
IdentityAsSpelled(p) == {Pair(h) : h \in {h \in Range(Headers[p]) : IsIdentityHeader(h.name)}}

\* The pairs that enter the digest.
IdentityHeaders(p) ==
  {Pair(h) : h \in {h \in Range(Headers[p]) : IsIdentityHeader(Lower[h.name])}}

WebSocketPoolKey[p \in Profiles] ==
  [url |-> Url[p],
   identity_digest |-> [pair \in IdentityHeaders(p) |->
                          Cardinality({i \in DOMAIN Headers[p] : Pair(Headers[p][i]) = pair})]]

\* What the upstream takes the client of a request for.
Account[p \in Profiles] ==
  [url |-> Url[p],
   credentials |-> {Pair(h) : h \in {h \in Range(Headers[p]) : Lower[h.name] \in Credentials}}]
=============================================================================
