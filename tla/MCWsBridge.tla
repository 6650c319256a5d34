----------------------------- MODULE MCWsBridge -----------------------------
(* Instances of WsBridge for TLC.                                           *)
EXTENDS WsBridge, TLC

\* For the safety runs: requests and sockets are interchangeable.
Interchangeable == Permutations(Requests) \cup Permutations(Conns)

Header(name, value) == [name |-> name, value |-> value]

\* Two accounts that differ in one header alone, and the first of them again, by
\* a client that spells and orders its headers in another way.
HeadersOf ==
  [alice      |-> <<Header("Authorization", "a"), Header("cookie", "c")>>,
   bob        |-> <<Header("Authorization", "b"), Header("cookie", "c")>>,
   aliceAgain |-> <<Header("Cookie", "c"), Header("user-agent", "x"),
                    Header("authorization", "a")>>]

UrlOf == [p \in DOMAIN HeadersOf |-> "responses"]

LowerCase ==
  [Authorization |-> "authorization", authorization |-> "authorization",
   Cookie |-> "cookie", cookie |-> "cookie"] @@ ("user-agent" :> "user-agent")
   @@ ("X-Api-Key" :> "x-api-key")
=============================================================================
