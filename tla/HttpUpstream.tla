---------------------------- MODULE HttpUpstream ----------------------------
(***************************************************************************)
(* proxy.py: one request forwarded over HTTP, retried while no response    *)
(* headers have been read, then streamed.  Every attempt has an            *)
(* httpx.AsyncClient of its own and nothing is shared between requests, so *)
(* the module is the life of one request, behind either front end: the     *)
(* ASGI application (app.py) or the SOCKS5 server (socks_mitm.py).          *)
(***************************************************************************)
EXTENDS Integers

CONSTANTS
  MaxAttempts,  \* UPSTREAM_MAX_ATTEMPTS
  MaxUnread     \* bound: chunks of a body that wait to be read

ASSUME HttpUpstreamAssumption == MaxAttempts \in Nat \ {0} /\ MaxUnread \in Nat

Attempts == 1 .. MaxAttempts

VARIABLES
  frontend,  \* "asgi" or "socks"
  peer,      \* the client: "present" or "gone"
  pc,        \* where the task is
  attempt,   \* the loop variable of open_upstream_with_retries
  client,    \* the httpx client of each attempt, with its connection
  upstream,  \* how far the upstream got with each attempt
  unread,    \* body chunks that arrived and were not read yet
  body,      \* "whole" once the generator met the end of the body
  reply      \* what the client was sent: nothing, an error of the proxy, ...

envVars == <<peer, upstream>>
vars    == <<frontend, envVars, pc, attempt, client, unread, body, reply>>

Phases == {"new", "opening", "backoff", "starting", "reading", "yielding", "closing",
           "done", "abandoned", "lost"}

\* An abandoned or lost task ended without its finally, or within it.
Ended == {"done", "abandoned", "lost"}

Goto(from, to) == pc \in from /\ pc' = to /\ UNCHANGED frontend

-----------------------------------------------------------------------------
(* open_upstream_with_retries.                                             *)

\* One iteration up to its await: a new client, a new stream.
BeginAttempt ==
  /\ Goto({"new", "backoff"}, "opening")
  /\ attempt'  = attempt + 1
  /\ client'   = [client EXCEPT ![attempt'] = "open"]
  /\ upstream' = [upstream EXCEPT ![attempt'] = "asked"]
  /\ UNCHANGED <<peer, unread, body, reply>>

\* The headers are read: OpenedUpstream goes to the front end.
HeadersRead ==
  /\ Goto({"opening"}, "starting")
  /\ upstream[attempt] \in {"answered", "finished"}
  /\ UNCHANGED <<envVars, attempt, client, unread, body, reply>>

\* Fault: `attempt <= upstream_max_attempts'.
MayRetryOnceMore == attempt <= MaxAttempts

\* `attempt < upstream_max_attempts'.
MayRetry == attempt < MaxAttempts

\* Fault: `await client.aclose()' is missing from an except clause.
AttemptFailsOpen ==
  /\ Goto({"opening"}, IF MayRetry THEN "backoff" ELSE "done")
  /\ reply' = IF MayRetry THEN reply ELSE "error"
  /\ UNCHANGED <<envVars, attempt, client, unread, body>>

\* The timeout expires, whatever arrives meanwhile, or httpx raises; the client
\* is closed, and the failure of the last attempt is the answer.
AttemptFails ==
  /\ Goto({"opening"}, IF MayRetry THEN "backoff" ELSE "done")
  /\ client' = [client EXCEPT ![attempt] = "closed"]
  /\ reply' = IF MayRetry THEN reply ELSE "error"
  /\ UNCHANGED <<envVars, attempt, unread, body>>

\* What httpx raises is no TimeoutError, TimeoutException or RequestError.
AttemptRaises ==
  /\ Goto({"opening"}, "lost")
  /\ UNCHANGED <<envVars, attempt, client, unread, body, reply>>

-----------------------------------------------------------------------------
(* The front end and stream_upstream_body.                                  *)

\* Status line and headers are sent and the generator is started.
StartReply ==
  /\ Goto({"starting"}, "reading")
  /\ reply' = "headers"
  /\ UNCHANGED <<envVars, attempt, client, unread, body>>

\* The client is gone before that: a generator that never started has no
\* finally to run.
Abandon ==
  /\ Goto({"starting"}, "abandoned") /\ peer = "gone"
  /\ UNCHANGED <<envVars, attempt, client, unread, body, reply>>

ReadChunk ==
  /\ Goto({"reading"}, "yielding") /\ unread > 0
  /\ unread' = unread - 1
  /\ UNCHANGED <<envVars, attempt, client, body, reply>>

\* The chunk is written and the generator resumes.
Passed ==
  /\ Goto({"yielding"}, "reading")
  /\ UNCHANGED <<envVars, attempt, client, unread, body, reply>>

\* Fault: an error in the middle of the body is taken for its end.
EndOrError ==
  /\ Goto({"reading"}, "closing") /\ unread = 0
  /\ upstream[attempt] \in {"finished", "broken"}
  /\ body' = "whole"
  /\ UNCHANGED <<envVars, attempt, client, unread, reply>>

\* aiter_raw ends,
BodyEnds ==
  /\ Goto({"reading"}, "closing") /\ unread = 0
  /\ upstream[attempt] = "finished"
  /\ body' = "whole"
  /\ UNCHANGED <<envVars, attempt, client, unread, reply>>

\* or raises.
BodyFails ==
  /\ Goto({"reading"}, "closing") /\ unread = 0
  /\ upstream[attempt] = "broken"
  /\ UNCHANGED <<envVars, attempt, client, unread, body, reply>>

\* Fault: a front end that learns of the client only by writing to it.
NoticedByWriting == {"yielding"}

\* Where a front end learns that its client is gone.  Only the ASGI server
\* listens while it waits for the upstream; the SOCKS5 server learns in drain().
Noticing == IF frontend = "asgi" THEN {"reading", "yielding"} ELSE {"yielding"}

\* The generator is cancelled, or closed at its yield.
ClientLost ==
  /\ Goto(Noticing, "closing") /\ peer = "gone"
  /\ UNCHANGED <<envVars, attempt, client, unread, body, reply>>

\* Fault: close_upstream closes the client after its try and not in a finally.
CloseUpstreamUnlessRaised ==
  /\ Goto({"closing"}, "done")
  /\ \E raised \in BOOLEAN :
       /\ client' = IF raised THEN client ELSE [client EXCEPT ![attempt] = "closed"]
       /\ reply'  = IF raised \/ body = "part" THEN "cut" ELSE "complete"
  /\ UNCHANGED <<envVars, attempt, unread, body>>

\* close_upstream in the finally: the client is closed even when leaving the
\* stream context raises, which cuts the response short.
CloseUpstream ==
  /\ Goto({"closing"}, "done")
  /\ client' = [client EXCEPT ![attempt] = "closed"]
  /\ reply'  \in IF body = "part" THEN {"cut"} ELSE {"cut", "complete"}
  /\ UNCHANGED <<envVars, attempt, unread, body>>

\* response.aclose raises, before the try.
CloseUpstreamRaises ==
  /\ Goto({"closing"}, "lost")
  /\ UNCHANGED <<envVars, attempt, client, unread, body, reply>>

-----------------------------------------------------------------------------
(* The environment.                                                         *)

\* A request the proxy gave up may still be answered: nobody reads it.
UpstreamMoves(a) ==
  /\ \/ upstream[a] = "asked" /\ upstream' = [upstream EXCEPT ![a] = "answered"]
     \/ upstream[a] = "answered" /\ upstream' = [upstream EXCEPT ![a] = "finished"]
     \/ upstream[a] \in {"asked", "answered"} /\ upstream' = [upstream EXCEPT ![a] = "broken"]
  /\ UNCHANGED <<frontend, peer, pc, attempt, client, unread, body, reply>>

\* Of a body that somebody will read.
ChunkArrives ==
  /\ pc \in {"starting", "reading", "yielding"} /\ upstream[attempt] = "answered"
  /\ unread < MaxUnread /\ unread' = unread + 1
  /\ UNCHANGED <<frontend, envVars, pc, attempt, client, body, reply>>

ClientGoes ==
  /\ peer = "present" /\ peer' = "gone"
  /\ UNCHANGED <<frontend, upstream, pc, attempt, client, unread, body, reply>>

-----------------------------------------------------------------------------
Init ==
  /\ frontend \in {"asgi", "socks"} /\ peer = "present"
  /\ pc = "new" /\ attempt = 0
  /\ client = [a \in Attempts |-> "none"]
  /\ upstream = [a \in Attempts |-> "idle"]
  /\ unread = 0 /\ body = "part" /\ reply = "nothing"

Handle ==
  \/ BeginAttempt \/ HeadersRead \/ AttemptFails \/ AttemptRaises
  \/ StartReply \/ Abandon \/ ReadChunk \/ BodyEnds \/ BodyFails \/ ClientLost
  \/ CloseUpstream \/ CloseUpstreamRaises

Environment ==
  \/ Passed \/ ChunkArrives \/ ClientGoes
  \/ \E a \in Attempts : UpstreamMoves(a)

Over == pc \in Ended /\ UNCHANGED vars

Next == Handle \/ Environment \/ Over

Spec == Init /\ [][Next]_vars

\* The event loop runs the task, and the wait for the headers ends by
\* RESPONSE_HEADER_TIMEOUT_SECONDS.  The listener of the ASGI server is a task of
\* its own, and of many writes to a client that is gone one fails.  Nothing is
\* assumed of a client that is present, nor of the upstream.
FairSpec == Spec /\ WF_vars(pc # "new" /\ Handle) /\ SF_vars(ClientLost)

-----------------------------------------------------------------------------
(* Properties.                                                              *)

TypeOK ==
  /\ frontend \in {"asgi", "socks"} /\ peer \in {"present", "gone"}
  /\ pc \in Phases
  /\ attempt \in 0 .. MaxAttempts
  /\ client \in [Attempts -> {"none", "open", "closed"}]
  /\ upstream \in [Attempts -> {"idle", "asked", "answered", "finished", "broken"}]
  /\ unread \in 0 .. MaxUnread
  /\ body \in {"part", "whole"}
  /\ reply \in {"nothing", "error", "headers", "complete", "cut"}

\* At most one attempt is under way: a request is asked again only when the
\* client of the attempt before was closed and nothing was sent to its client.
OneAttemptAtATime ==
  /\ \A a \in Attempts : client[a] = "open" => a = attempt
  /\ pc \in {"backoff", "opening"} => reply = "nothing"

\* Whichever way a request ends, it leaves no httpx client and no connection
\* open, unless its task ended outside the code that cleans up ("abandoned",
\* "lost").
NothingLeftOpen == pc = "done" => \A a \in Attempts : client[a] # "open"

\* A client is told that a response is complete only if the upstream finished
\* it and every chunk of it was passed on.
WholeOrCut == reply = "complete" => upstream[attempt] = "finished" /\ unread = 0

\* Every request ends, unless the body goes on (or falls silent: it has no read
\* timeout) while the client is there, or falls silent behind the SOCKS5
\* server, which then never learns that its client left.
EveryWaitEnds ==
  (pc # "new") ~>
    \/ pc \in Ended
    \/ [](pc \in {"reading", "yielding"} /\ peer = "present")
    \/ [](pc = "reading" /\ frontend = "socks")
=============================================================================
