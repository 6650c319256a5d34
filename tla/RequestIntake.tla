------------------------------ MODULE RequestIntake ------------------------------
(***************************************************************************)
(* A request on its way from a client to the upstream functions: its body  *)
(* is buffered (socks_mitm.py: _read_http_request; proxy.py:               *)
(* read_limited_body), its headers are filtered and its transport is       *)
(* chosen.  The client sends a head and the items of a body and may go at  *)
(* any point, also in the middle of an item.  The front end "asgi" gets a  *)
(* parsed head and pieces of the body from its HTTP server; "socks" reads  *)
(* the decrypted stream itself.  A header name stands for all its          *)
(* spellings, and a body is its length.                                    *)
(***************************************************************************)
EXTENDS Integers, Sequences, SequencesExt

CONSTANTS
  Requests,    \* what clients send: [method, valid, headers, chunks]; a header is
               \* [name, length, tokens, from], a chunk is [size, zero]: its size and
               \* whether the line that tells the size begins with a zero
  KeyHeaders,  \* UPSTREAM_API_KEY_HEADER, or "none" where there is no key
  Limit        \* MAX_REQUEST_BODY_BYTES

VARIABLES
  settings,       \* [frontend, mode, key, intercepted]; intercepted is about the path
  request,        \* what the client means to send
  arrived, peer,  \* how many items of it did, and the client: "sending", "gone"
                  \* or "torn", gone in the middle of an item
  pc, next,       \* what the front end does, and how many items it has read
  body,           \* bytes of the body it holds
  forwarded       \* the headers that go upstream

vars == <<settings, request, arrived, peer, pc, next, body, forwarded>>

HopByHop == {"connection", "keep-alive", "proxy-authenticate", "proxy-authorization",
             "proxy-connection", "te", "trailer", "transfer-encoding", "upgrade"}

WebSocketSkips == {"accept", "accept-encoding", "content-length", "content-type"}

Reading == {"head", "stream", "size", "chunk", "trailer", "body"}

\* A body that is too large is answered with 413 behind ASGI (app.py:53); behind SOCKS5
\* its connection is closed without an answer, as in "closed" (socks_mitm.py:142-149).
Over == {"closed", "too_large", "not_allowed", "fast_fail_http", "websocket"}

\* Those of the first n headers that have one of these names, in their order, and
\* those of all.
Kept(headers, names) ==
  LET kept[n \in 0 .. Len(headers)] ==
        IF n = 0 THEN <<>>
        ELSE IF headers[n].name \in names THEN Append(kept[n - 1], headers[n]) ELSE kept[n - 1]
  IN  kept

Only(headers, names) == Kept(headers, names)[Len(headers)]

Names(headers) == {h.name : h \in ToSet(headers)}

Without(headers, names) == Only(headers, Names(headers) \ names)

Named(headers, name) == Only(headers, {name})

Chunked(headers) ==
  \E h \in ToSet(headers) : h.name = "transfer-encoding" /\ "chunked" \in h.tokens

\* The last content-length counts.
ContentLength(headers) ==
  LET l == Named(headers, "content-length") IN IF l = <<>> THEN 0 ELSE Last(l).length

\* The bytes of the first n chunks, and of all.
Upto(chunks) ==
  LET sum[n \in 0 .. Len(chunks)] == IF n = 0 THEN 0 ELSE sum[n - 1] + chunks[n].size IN sum

Size(chunks) == Upto(chunks)[Len(chunks)]

Total == Size(request.chunks)

\* Requests are framed as HTTP says: a chunk that is not the last is not empty,
\* and without chunks the body is as long as its content-length.  A header that
\* carries a key is none that the proxy drops.
ASSUME RequestIntakeAssumption ==
  /\ Limit \in Nat
  /\ Requests \subseteq
       [method : STRING, valid : BOOLEAN,
        headers : Seq([name : STRING, length : Nat, tokens : SUBSET STRING, from : {"client"}]),
        chunks : Seq([size : Nat, zero : BOOLEAN])]
  /\ \A r \in Requests :
       IF Chunked(r.headers) THEN \A c \in ToSet(r.chunks) : c.size > 0
       ELSE ContentLength(r.headers) = Size(r.chunks)
  /\ KeyHeaders \subseteq STRING \ (HopByHop \cup {"host"} \cup WebSocketSkips)

-----------------------------------------------------------------------------
(* The client.                                                              *)

\* What it sends: to the ASGI server the pieces of a body, on the stream of the
\* SOCKS5 front end either the body or, for each chunk, a line and the data, and
\* after the last, empty one the trailer.
Items ==
  LET item(kind, c) == [kind |-> kind, size |-> c.size, zero |-> c.zero]
      last == [size |-> 0, zero |-> TRUE]
      chunks == request.chunks
      lines == [i \in 1 .. 2 * Len(chunks) |->
                  item(IF i % 2 = 1 THEN "size" ELSE "data", chunks[(i + 1) \div 2])]
      pieces == IF settings.frontend = "asgi" THEN [i \in DOMAIN chunks |-> item("data", chunks[i])]
                ELSE IF Chunked(request.headers)
                     THEN lines \o <<item("size", last), item("trailer", last)>>
                ELSE IF Total = 0 THEN <<>>
                ELSE <<item("data", [size |-> Total, zero |-> FALSE])>>
  IN  <<item("head", last)>> \o pieces

Client ==
  /\ peer = "sending"
  /\ \/ arrived < Len(Items) /\ arrived' = arrived + 1 /\ UNCHANGED peer
     \/ peer' = "gone" /\ UNCHANGED arrived
     \/ arrived < Len(Items) /\ peer' = "torn" /\ UNCHANGED arrived
  /\ UNCHANGED <<settings, request, pc, next, body, forwarded>>

-----------------------------------------------------------------------------
(* The front end.                                                           *)

To(p) == pc' = p /\ UNCHANGED <<settings, request, arrived, peer, forwarded>>

Stays == UNCHANGED <<next, body>>

\* The next item is here, or nothing whole will ever be.
Whole == next < arrived
Eof == peer # "sending" /\ next = arrived
Item == Items[next + 1]

ReadHead ==
  LET length == ContentLength(request.headers)
  IN  /\ pc = "head" /\ Whole /\ next' = next + 1 /\ UNCHANGED body
      /\ \/ settings.frontend = "asgi" /\ To("stream")
         \/ /\ settings.frontend = "socks"
            /\ \/ ~request.valid /\ To("closed")
               \/ request.valid /\ Chunked(request.headers) /\ To("size")
               \/ /\ request.valid /\ ~Chunked(request.headers)
                  /\ To(IF length > Limit THEN "too_large" ELSE IF length = 0 THEN "route" ELSE "body")

\* Fault: the limit itself is refused.
TooLargeFromLimit(size) == size >= Limit

TooLarge(size) == size > Limit

\* A piece is counted before it is kept; that the client has left may be told
\* before pieces that had arrived.
ReadStream ==
  /\ pc = "stream"
  /\ \/ /\ Whole /\ next' = next + 1
        /\ IF TooLarge(body + Item.size)
           THEN To("too_large") /\ UNCHANGED body
           ELSE To("stream") /\ body' = body + Item.size
     \/ next = Len(Items) /\ To("route") /\ Stays
     \/ peer # "sending" /\ To("closed") /\ Stays

\* readline returns what there is of a line that never ends.
ReadSize ==
  /\ pc = "size"
  /\ \/ Whole /\ next' = next + 1 /\ UNCHANGED body /\ To(IF Item.size = 0 THEN "trailer" ELSE "chunk")
     \/ Eof /\ peer = "torn" /\ Item.zero /\ To("trailer") /\ Stays
     \/ Eof /\ To("closed") /\ Stays

\* Fault: read, not readexactly: what came of the chunk is kept.
ReadSomeOfChunk ==
  /\ pc = "chunk"
  /\ \/ /\ Whole /\ next' = next + 1 /\ body' = body + Item.size
        /\ To(IF TooLarge(body') THEN "too_large" ELSE "size")
     \/ Eof /\ To("route") /\ Stays

\* Fault: the line end behind a chunk is read with it, and kept.
ReadChunkWithCrlf ==
  /\ pc = "chunk"
  /\ \/ /\ Whole /\ next' = next + 1 /\ body' = body + Item.size + 2
        /\ To(IF TooLarge(body') THEN "too_large" ELSE "size")
     \/ Eof /\ To("closed") /\ Stays

\* A chunk is read whole before it is compared with the limit.
ReadChunk ==
  /\ pc = "chunk"
  /\ \/ /\ Whole /\ next' = next + 1 /\ body' = body + Item.size
        /\ To(IF TooLarge(body') THEN "too_large" ELSE "size")
     \/ Eof /\ To("closed") /\ Stays

\* Fault: readline at the end of the stream is not taken for the end of the trailer.
ReadTrailerOn ==
  /\ pc = "trailer"
  /\ \/ Whole /\ next' = next + 1 /\ UNCHANGED body /\ To("route")
     \/ Eof /\ Stays /\ To("trailer")

\* The end of the stream ends the trailer, too.
ReadTrailer ==
  /\ pc = "trailer"
  /\ \/ Whole /\ next' = next + 1 /\ UNCHANGED body
     \/ Eof /\ Stays
  /\ To("route")

ReadBody ==
  /\ pc = "body"
  /\ \/ Whole /\ next' = next + 1 /\ body' = ContentLength(request.headers) /\ To("route")
     \/ Eof /\ To("closed") /\ Stays

HeadLost == pc = "head" /\ Eof /\ To("closed") /\ Stays

WithoutHopByHop(headers) ==
  LET listed == UNION {h.tokens : h \in ToSet(Named(headers, "connection"))}
  IN  Without(headers, HopByHop \cup {"host"} \cup listed)

ProxyKey == [name |-> settings.key, length |-> 0, tokens |-> {}, from |-> "proxy"]

WithKey(headers) ==
  IF settings.key = "none" THEN headers
  ELSE Append(Without(headers, {settings.key}), ProxyKey)

\* Fault: the key is added before the headers are filtered.
KeyThenFilter == WithoutHopByHop(WithKey(request.headers))

RequestHeaders == WithKey(WithoutHopByHop(request.headers))

WebSocketHeaders(headers) == Without(headers, WebSocketSkips)

\* Every path is bridged behind ASGI, and the intercepted ones behind SOCKS5;
\* fast failing, with its retries, is for every path that is not bridged.
Route ==
  /\ pc = "route"
  /\ IF settings.mode = "websocket_per_request" /\ (settings.frontend = "asgi" \/ settings.intercepted)
     THEN IF request.method = "POST"
          THEN pc' = "websocket" /\ forwarded' = WebSocketHeaders(RequestHeaders)
          ELSE pc' = "not_allowed" /\ UNCHANGED forwarded
     ELSE pc' = "fast_fail_http" /\ forwarded' = RequestHeaders
  /\ UNCHANGED <<settings, request, arrived, peer, next, body>>

Init ==
  /\ settings \in [frontend : {"asgi", "socks"}, mode : {"http", "websocket_per_request"},
                   key : KeyHeaders, intercepted : BOOLEAN]
  /\ request \in {r \in Requests : settings.frontend = "asgi" => r.valid}
  /\ arrived = 0 /\ peer = "sending" /\ pc = "head" /\ next = 0 /\ body = 0 /\ forwarded = <<>>

FrontEnd ==
  ReadHead \/ HeadLost \/ ReadStream \/ ReadSize \/ ReadChunk \/ ReadTrailer \/ ReadBody \/ Route

Next == FrontEnd \/ Client

Spec == Init /\ [][Next]_vars

\* The event loop runs the front end; no client has to send, or to leave.
FairSpec == Spec /\ WF_vars(FrontEnd)

-----------------------------------------------------------------------------
(* Properties.                                                              *)

Forwarding == pc \in {"fast_fail_http", "websocket"}

\* The types, and what can be said of the position in the request: nothing is
\* read before it arrived, and no byte is held that is not of the body.
TypeOK ==
  /\ pc \in Reading \cup Over \cup {"route"} /\ peer \in {"sending", "gone", "torn"}
  /\ arrived \in 0 .. Len(Items) /\ next \in 0 .. arrived /\ body \in 0 .. Total
  /\ ToSet(forwarded) \subseteq ToSet(request.headers) \cup {ProxyKey}

\* Both front ends draw the limit at the same size, whether the client announces
\* the length or sends chunks: what goes upstream is within it, only a larger body
\* is refused as too large, and what is held meanwhile exceeds it by the last
\* chunk at most, behind ASGI not at all (socks_mitm.py:323, proxy.py:74).  That it
\* may exceed it is not what the README says: see BufferWithinLimit.
LimitIsExact ==
  /\ Forwarding \/ settings.frontend = "asgi" => body <= Limit
  /\ pc = "too_large" => Total > Limit
  /\ body <= Limit \/ (pc = "too_large" /\ \E c \in ToSet(request.chunks) : body <= Limit + c.size)

\* What README.md:114 says of MAX_REQUEST_BODY_BYTES: "Maximum buffered request body
\* size."  The reader of chunks keeps a chunk before it compares
\* (socks_mitm.py:322-323).
BufferWithinLimit == body <= Limit

\* A client that goes in the middle of its body has no part of it forwarded as
\* a whole request (readexactly raises, socks_mitm.py:307, 322, and so does the
\* stream of ASGI), with one exception: a line "0..." cut after the zero is taken
\* for the line of the last chunk (socks_mitm.py:316).
NeverTruncated ==
  Forwarding => \/ body = Total
                \/ peer = "torn" /\ Items[arrived + 1].kind = "size" /\ Items[arrived + 1].zero

\* Without a key of its own the proxy forwards the client's as they are
\* (README.md:88), unless the client declares them hop-by-hop; with one, exactly
\* the proxy's key goes upstream, whatever the client sends or declares.
OneKeyUpstream ==
  Forwarding =>
    IF settings.key # "none" THEN Named(forwarded, settings.key) = <<ProxyKey>>
    ELSE \A name \in KeyHeaders :
           \/ Named(forwarded, name) = Named(request.headers, name)
           \/ \E h \in ToSet(Named(request.headers, "connection")) : name \in h.tokens

\* Once its client is gone, a front end stops reading: every end of the stream
\* ends the loop that meets it (socks_mitm.py:272-325).  While a client stays
\* and is silent, the reader of the SOCKS5 front end has no timeout.
LeaverIsNoticed == (peer # "sending") ~> (pc \in Over)
=============================================================================
