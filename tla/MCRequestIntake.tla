---------------------------- MODULE MCRequestIntake ----------------------------
(***************************************************************************)
(* Clients for RequestIntake: with and without chunks, bodies around the   *)
(* limit, keys of their own, hop-by-hop declarations, a head that cannot   *)
(* be parsed.                                                              *)
(***************************************************************************)
EXTENDS RequestIntake

Header(name, length, tokens) == [name |-> name, length |-> length, tokens |-> tokens, from |-> "client"]

Chunk == [size : {1, 2, 3}, zero : BOOLEAN]
Bodies == UNION {[1 .. n -> Chunk] : n \in 0 .. 2}

\* How the body is framed: by its length, told once or twice, or in chunks.
Framings(chunks) ==
  {<<Header("transfer-encoding", 0, {"chunked"})>>,
   <<Header("transfer-encoding", 0, {"gzip"}), Header("content-length", Size(chunks), {})>>,
   <<Header("content-length", Size(chunks) + 1, {}), Header("content-length", Size(chunks), {})>>}
  \cup (IF chunks = <<>> THEN {<<>>} ELSE {})

Others ==
  {<<>>, <<Header("host", 0, {}), Header("accept", 0, {}), Header("authorization", 0, {})>>,
   <<Header("x-api-key", 0, {}), Header("connection", 0, {"authorization", "x-api-key"}),
     Header("authorization", 0, {})>>}

MCRequests ==
  UNION {[method : {"POST"}, valid : {TRUE}, headers : {f \o o : f \in Framings(b), o \in Others}, chunks : {b}] :
           b \in Bodies}
  \cup [method : {"GET"}, valid : BOOLEAN, headers : Others, chunks : {<<>>}]
=============================================================================
