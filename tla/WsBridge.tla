------------------------------ MODULE WsBridge ------------------------------
(***************************************************************************)
(* websocket_bridge.py: HTTP requests bridged onto upstream WebSockets,    *)
(* with the pool of idle sockets, as one asyncio process.  Every request   *)
(* is a task (its handler, then the background task that releases the      *)
(* socket); an action is the code a task runs between two awaits.  The     *)
(* upstream, the network, the client and the clock are the environment.    *)
(*                                                                         *)
(* The sections of _lock contain no await, so the lock is never contended  *)
(* and each of them is part of one action.                                 *)
(***************************************************************************)
EXTENDS IdlePool, PoolIdentity

CONSTANTS
  Requests,      \* the POST requests that reach the bridge
  Conns,         \* upstream sockets, each opened at most once
  None,
  MaxAttempts,   \* UPSTREAM_MAX_ATTEMPTS
  MaxUnread,     \* messages the library receives ahead of recv (its max_queue)
  Kinds,         \* the kinds of message the upstream may send
  SendProcessed  \* WEBSOCKET_SEND_RESPONSE_PROCESSED

\* "event": any text that does not end the response; "completed": a
\* response.completed with an id; "garbage": a binary frame that is not UTF-8.
Messages == [for : Requests, kind : Kinds, late : BOOLEAN]

ASSUME WsBridgeAssumption ==
  /\ MaxAttempts \in Nat \ {0} /\ MaxUnread \in Nat
  /\ Kinds \subseteq {"event", "completed", "garbage"}
  /\ SendProcessed \in BOOLEAN
  /\ None \notin Requests \cup Profiles \cup Conns \cup Messages

VARIABLES
  pc,       \* where the task of each request is
  request,  \* what each request carries: URL and headers
  attempt,  \* the loop variable of open_websocket_bridge_with_retries
  conn,     \* the socket the task holds (opened.websocket, or selected)
  doomed,   \* stale / close_later: pool entries the task popped and must close
  cur,      \* first_message, then the message at the generator's yield
  sock,     \* state of each socket
  openedFor, \* what the request carried for which each socket was opened
  inbox,    \* messages received from the upstream and not yet read
  served,   \* the requests whose response.create was sent on the socket
  acked,    \* the sockets on which response.processed was sent since the last one
  idle,     \* WebSocketBridgePool._idle
  expired,  \* the idle sockets older than websocket_pool_idle_timeout_seconds
  server,   \* "up", "closing" (aclose runs), "closed"
  sweep     \* the entries aclose has still to close

taskVars == <<pc, request, attempt, conn, doomed, cur>>
netVars  == <<sock, openedFor, inbox, served, acked>>
poolVars == <<idle, expired>>
downVars == <<server, sweep>>
vars     == <<taskVars, netVars, poolVars, downVars>>

Phases == {"new", "stale", "connecting", "sending", "awaiting", "discarding",
           "backoff", "responding", "yielding", "receiving", "closing",
           "acking", "draining", "retiring", "evicting",
           "done", "abandoned", "crashed"}

\* The task will run no more.  An abandoned or crashed task still refers to
\* its socket: nobody else does.
Terminal == {"done", "abandoned", "crashed"}

\* The phases in which the task runs after the handler has returned.
Background == {"closing", "acking", "draining", "retiring", "evicting"}

Keys == {WebSocketPoolKey[p] : p \in Profiles}

Pooled == UNION {Range(idle[k]) : k \in Keys}
Live   == {c \in Conns : sock[c] \in {"open", "down"}}

-----------------------------------------------------------------------------
(* Steps shared by the actions.                                            *)

Goto(r, phase) == pc' = [pc EXCEPT ![r] = phase]

\* _is_idle_entry_usable: not older than the idle timeout, and open as far as
\* the library knows.
UsableIdle == {c \in Conns : sock[c] = "open"} \ expired

\* _close_context_quietly: starts the closing handshake and never raises.
\* Whatever it waits for, the socket cannot be used from here on.
Close(c) ==
  /\ sock'    = [sock EXCEPT ![c] = "closed"]
  /\ inbox'   = [inbox EXCEPT ![c] = <<>>]
  /\ served'  = [served EXCEPT ![c] = {}]
  /\ acked'   = acked \ {c}
  /\ UNCHANGED openedFor

\* recv() returned the oldest message.
Receive(r) ==
  LET c == conn[r] IN
  /\ inbox[c] # <<>>
  /\ cur'   = [cur EXCEPT ![r] = Head(inbox[c])]
  /\ inbox' = [inbox EXCEPT ![c] = Tail(@)]
  /\ UNCHANGED <<sock, openedFor, served, acked>>

\* Fault: `attempt <= upstream_max_attempts'.
MayRetryOnceMore(r) == attempt[r] <= MaxAttempts

\* After a failed attempt: `attempt < upstream_max_attempts'.
MayRetry(r) == attempt[r] < MaxAttempts

AfterFailure(r) == Goto(r, IF MayRetry(r) THEN "backoff" ELSE "done")

\* OpenedWebSocketBridge.pool_key, which _checkout and release both use.
PoolKey(r) == WebSocketPoolKey[request[r]]

-----------------------------------------------------------------------------
(* open_websocket_bridge_with_retries.                                     *)

\* A method other than POST, or a body that is no JSON object: an answer of
\* the 400 family, with no connection touched.
Reject(r) ==
  /\ pc[r] = "new" /\ server = "up"
  /\ Goto(r, "done")
  /\ UNCHANGED <<request, attempt, conn, doomed, cur, netVars, poolVars, downVars>>

AfterCheckout(r, c) == IF c = None THEN "connecting" ELSE "sending"

\* One iteration of the retry loop up to its first await: the locked section
\* of _checkout.
BeginAttempt(r) ==
  /\ \/ pc[r] = "new" /\ server = "up"
     \/ pc[r] = "backoff"
  /\ LET bucket == idle[PoolKey(r)] IN
     \E n \in 0 .. Len(bucket) :
       /\ StopsAt(bucket, UsableIdle, n)
       /\ LET chosen == IF n = 0 THEN None ELSE bucket[n] IN
          /\ conn' = [conn EXCEPT ![r] = chosen]
          /\ Goto(r, IF Skipped(bucket, n) = {} THEN AfterCheckout(r, chosen)
                                                ELSE "stale")
       /\ doomed'  = [doomed EXCEPT ![r] = Skipped(bucket, n)]
       /\ idle'    = [idle EXCEPT ![PoolKey(r)] = Left(bucket, n)]
       /\ expired' = expired \ Skipped(bucket, n)
  /\ attempt' = [attempt EXCEPT ![r] = @ + 1]
  /\ UNCHANGED <<request, cur, netVars, downVars>>

\* _checkout closes what it skipped, and release what it evicted, one by one.
CloseDoomed(r) ==
  /\ pc[r] \in {"stale", "evicting"}
  /\ \E c \in doomed[r] :
       /\ Close(c)
       /\ doomed' = [doomed EXCEPT ![r] = @ \ {c}]
  /\ Goto(r, IF doomed'[r] # {} THEN pc[r]
             ELSE IF pc[r] = "stale" THEN AfterCheckout(r, conn[r]) ELSE "done")
  /\ UNCHANGED <<request, attempt, conn, cur, poolVars, downVars>>

\* _open_websocket_connection succeeds with socket c.
Connect(r) ==
  /\ pc[r] = "connecting"
  /\ \E c \in Conns :
       /\ sock[c] = "unused"
       /\ sock'    = [sock EXCEPT ![c] = "open"]
       /\ openedFor' = [openedFor EXCEPT ![c] = request[r]]
       /\ conn'    = [conn EXCEPT ![r] = c]
  /\ Goto(r, "sending")
  /\ UNCHANGED <<request, attempt, doomed, cur, inbox, served, acked, poolVars,
                 downVars>>

\* It fails or times out; whatever it opened, it closed.
ConnectFails(r) ==
  /\ pc[r] = "connecting"
  /\ AfterFailure(r)
  /\ UNCHANGED <<request, attempt, conn, doomed, cur, netVars, poolVars, downVars>>

SendCreate(r) ==
  LET c == conn[r] IN
  /\ pc[r] = "sending" /\ sock[c] = "open"
  /\ served'  = [served EXCEPT ![c] = @ \cup {r}]
  /\ acked'   = acked \ {c}
  /\ Goto(r, "awaiting")
  /\ UNCHANGED <<request, attempt, conn, doomed, cur, sock, openedFor, inbox,
                 poolVars, downVars>>

\* The send raises, or its timeout expires.
SendCreateFails(r) ==
  /\ pc[r] = "sending"
  /\ Goto(r, "discarding")
  /\ UNCHANGED <<request, attempt, conn, doomed, cur, netVars, poolVars, downVars>>

FirstMessage(r) ==
  /\ pc[r] = "awaiting"
  /\ Receive(r)
  /\ Goto(r, "responding")
  /\ UNCHANGED <<request, attempt, conn, doomed, poolVars, downVars>>

\* Fault: the socket of the failed attempt is not closed.
FirstMessageFailsOpen(r) ==
  /\ pc[r] = "awaiting"
  /\ AfterFailure(r)
  /\ conn' = [conn EXCEPT ![r] = None]
  /\ UNCHANGED <<request, attempt, doomed, cur, netVars, poolVars, downVars>>

\* recv() raises, or its timeout expires, which it may do in the very turn of
\* the loop in which a message arrived.
FirstMessageFails(r) ==
  /\ pc[r] = "awaiting"
  /\ Goto(r, "discarding")
  /\ UNCHANGED <<request, attempt, conn, doomed, cur, netVars, poolVars, downVars>>

\* _close_context_quietly(opened.context): of a failed attempt, of the
\* generator's finally, of the background task.
CloseHeld(r) ==
  /\ pc[r] \in {"discarding", "closing", "retiring"}
  /\ Close(conn[r])
  /\ conn' = [conn EXCEPT ![r] = None]
  /\ IF pc[r] = "discarding" THEN AfterFailure(r) ELSE Goto(r, "done")
  /\ cur' = [cur EXCEPT ![r] = None]
  /\ UNCHANGED <<request, attempt, doomed, poolVars, downVars>>

-----------------------------------------------------------------------------
(* stream_websocket_as_sse, driven by the server that sends the response.   *)

\* A message that is no text ends the generator through its finally.
Emit(r, m) == Goto(r, IF m.kind = "garbage" THEN "closing" ELSE "yielding")

\* First step of the generator: it takes first_message.
StartStream(r) ==
  /\ pc[r] = "responding"
  /\ Emit(r, cur[r])
  /\ UNCHANGED <<request, attempt, conn, doomed, cur, netVars, poolVars, downVars>>

\* The client went away before that: the server drops the generator, and a
\* generator that never started has no finally to run.
Abandon(r) ==
  /\ pc[r] = "responding"
  /\ Goto(r, "abandoned")
  /\ cur' = [cur EXCEPT ![r] = None]
  /\ UNCHANGED <<request, attempt, conn, doomed, netVars, poolVars, downVars>>

\* The chunk is written to the client and the generator resumes.  After
\* response.completed it leaves the socket to a background task and returns.
Delivered(r) ==
  /\ pc[r] = "yielding"
  /\ Goto(r, IF cur[r].kind = "completed" THEN "acking" ELSE "receiving")
  /\ cur' = [cur EXCEPT ![r] = None]
  /\ UNCHANGED <<request, attempt, conn, doomed, netVars, poolVars, downVars>>

StreamMessage(r) ==
  /\ pc[r] = "receiving"
  /\ Receive(r)
  /\ Emit(r, Head(inbox[conn[r]]))
  /\ UNCHANGED <<request, attempt, conn, doomed, poolVars, downVars>>

\* Fault: recv() without wait_for.
StreamWaits(r) ==
  /\ pc[r] = "receiving" /\ sock[conn[r]] = "down"
  /\ Goto(r, "closing")
  /\ UNCHANGED <<request, attempt, conn, doomed, cur, netVars, poolVars, downVars>>

\* recv() raises or its timeout expires.
StreamFails(r) ==
  /\ pc[r] = "receiving"
  /\ Goto(r, "closing")
  /\ UNCHANGED <<request, attempt, conn, doomed, cur, netVars, poolVars, downVars>>

\* The client disconnects while the generator waits: in recv() it is cancelled,
\* at its yield it is closed.
ClientLeaves(r) ==
  /\ pc[r] \in {"yielding", "receiving"}
  /\ Goto(r, "closing")
  /\ cur' = [cur EXCEPT ![r] = None]
  /\ UNCHANGED <<request, attempt, conn, doomed, netVars, poolVars, downVars>>

-----------------------------------------------------------------------------
(* The background task: _send_response_processed_and_release, release.      *)

\* release keeps nothing without a pool, in a pool of size 0, or of a socket
\* the library knows to be closed.
Refused(c) == MaxIdle = 0 \/ sock[c] # "open"

\* Fault: release does not look for pending messages.
UnreadIgnored(c) == FALSE

Unread(c) == inbox[c] # <<>>

\* _websocket_has_unexpected_pending_message read a message: the socket is
\* discarded, unless decoding that message raises out of the task.
AfterPending(c) == IF Head(inbox[c]).kind = "garbage" THEN "crashed" ELSE "retiring"

\* response.processed is sent (when it is configured), and release runs up to
\* its first await: recv() returns a message that is already there at once.
Release(r) ==
  LET c == conn[r] IN
  /\ pc[r] = "acking"
  /\ SendProcessed => sock[c] = "open"
  /\ acked' = IF SendProcessed THEN acked \cup {c} ELSE acked
  /\ Goto(r, IF Refused(c) THEN "retiring"
             ELSE IF Unread(c) THEN AfterPending(c) ELSE "draining")
  /\ UNCHANGED <<request, attempt, conn, doomed, cur, sock, openedFor, inbox, served,
                 poolVars, downVars>>

\* Fault: the result of _send_response_processed is ignored.
AckIgnored(r) ==
  /\ pc[r] = "acking" /\ SendProcessed /\ ~Refused(conn[r]) /\ ~Unread(conn[r])
  /\ Goto(r, "draining")
  /\ UNCHANGED <<request, attempt, conn, doomed, cur, netVars, poolVars, downVars>>

\* Sending response.processed raises or times out.
AckFails(r) ==
  /\ pc[r] = "acking" /\ SendProcessed
  /\ Goto(r, "retiring")
  /\ UNCHANGED <<request, attempt, conn, doomed, cur, netVars, poolVars, downVars>>

\* The 10 ms of recv() bring a message,
DrainSees(r) ==
  /\ pc[r] = "draining" /\ inbox[conn[r]] # <<>>
  /\ Goto(r, AfterPending(conn[r]))
  /\ UNCHANGED <<request, attempt, conn, doomed, cur, netVars, poolVars, downVars>>

\* or the end of the connection,
DrainFails(r) ==
  /\ pc[r] = "draining" /\ sock[conn[r]] = "down"
  /\ Goto(r, "retiring")
  /\ UNCHANGED <<request, attempt, conn, doomed, cur, netVars, poolVars, downVars>>

\* or they expire, whatever arrives or breaks in the turn of the loop in which
\* they do: the socket goes into its bucket.
Park(r) ==
  LET bucket == idle[PoolKey(r)] IN
  /\ pc[r] = "draining"
  /\ idle'    = [idle EXCEPT ![PoolKey(r)] = Parked(bucket, conn[r])]
  /\ expired' = expired \ Evicted(bucket)
  /\ doomed'  = [doomed EXCEPT ![r] = Evicted(bucket)]
  /\ conn'    = [conn EXCEPT ![r] = None]
  /\ Goto(r, IF Evicted(bucket) = {} THEN "done" ELSE "evicting")
  /\ UNCHANGED <<request, attempt, cur, netVars, downVars>>

-----------------------------------------------------------------------------
(* aclose, in the shutdown of the server.                                   *)

\* Fault: aclose does not clear the buckets.
AcloseKeepsIdle ==
  /\ server = "up"
  /\ \A r \in Requests : pc[r] \in {"new"} \cup Background \cup Terminal
  /\ server' = "closing"
  /\ sweep'  = Pooled
  /\ UNCHANGED <<taskVars, netVars, poolVars>>

\* The server has waited for its handlers; background tasks may still run.
AcloseBegin ==
  /\ server = "up"
  /\ \A r \in Requests : pc[r] \in {"new"} \cup Background \cup Terminal
  /\ server'  = "closing"
  /\ sweep'   = Pooled
  /\ idle'    = [k \in Keys |-> <<>>]
  /\ expired' = {}
  /\ UNCHANGED <<taskVars, netVars>>

\* Fault: aclose waits for ever on a socket whose peer is gone.
SweepOpenOnly ==
  /\ server = "closing"
  /\ \E c \in sweep : IF sock[c] = "open" THEN Close(c) /\ sweep' = sweep \ {c}
                                          ELSE UNCHANGED <<netVars, sweep>>
  /\ UNCHANGED <<taskVars, poolVars, server>>

SweepClose ==
  /\ server = "closing"
  /\ \E c \in sweep : Close(c) /\ sweep' = sweep \ {c}
  /\ UNCHANGED <<taskVars, poolVars, server>>

AcloseEnd ==
  /\ server = "closing" /\ sweep = {}
  /\ server' = "closed"
  /\ UNCHANGED <<taskVars, netVars, poolVars, sweep>>

-----------------------------------------------------------------------------
(* The environment.                                                         *)

\* r's task still has to look for pending messages on c.
InFlight(c, r) == conn[r] = c /\ pc[r] # "draining"

\* A message arrives on c, sent in answer to r.  It is late when the drain of
\* r, which is to find such messages, has already begun.
UpstreamSends(c, r, kind) ==
  /\ sock[c] = "open" /\ r \in served[c] /\ Len(inbox[c]) < MaxUnread
  /\ inbox' = [inbox EXCEPT ![c] =
                Append(@, [for |-> r, kind |-> kind, late |-> ~InFlight(c, r)])]
  /\ UNCHANGED <<taskVars, sock, openedFor, served, acked, poolVars, downVars>>

\* The connection ends, whoever closes it: what arrived before can be read.
PeerCloses(c) ==
  /\ sock[c] = "open"
  /\ sock' = [sock EXCEPT ![c] = "down"]
  /\ UNCHANGED <<taskVars, openedFor, inbox, served, acked, poolVars, downVars>>

\* Entries expire in the order in which they were parked.
IdleExpires(k) ==
  /\ \E i \in DOMAIN idle[k] :
       /\ idle[k][i] \notin expired
       /\ \A j \in 1 .. (i - 1) : idle[k][j] \in expired
       /\ expired' = expired \cup {idle[k][i]}
  /\ UNCHANGED <<taskVars, netVars, idle, downVars>>

-----------------------------------------------------------------------------
Init ==
  /\ pc = [r \in Requests |-> "new"]
  /\ request \in [Requests -> Profiles]
  /\ attempt = [r \in Requests |-> 0]
  /\ conn = [r \in Requests |-> None]
  /\ doomed = [r \in Requests |-> {}]
  /\ cur = [r \in Requests |-> None]
  /\ sock = [c \in Conns |-> "unused"]
  /\ openedFor = [c \in Conns |-> None]
  /\ inbox = [c \in Conns |-> <<>>]
  /\ served = [c \in Conns |-> {}]
  /\ acked = {}
  /\ idle = [k \in Keys |-> <<>>]
  /\ expired = {}
  /\ server = "up"
  /\ sweep = {}

\* What the proxy does for request r, the timeouts of its awaits included.
Handle(r) ==
  \/ BeginAttempt(r) \/ CloseDoomed(r) \/ Connect(r) \/ ConnectFails(r)
  \/ SendCreate(r) \/ SendCreateFails(r) \/ FirstMessage(r) \/ FirstMessageFails(r)
  \/ CloseHeld(r) \/ StartStream(r) \/ StreamMessage(r) \/ StreamFails(r)
  \/ Release(r) \/ AckFails(r) \/ DrainSees(r) \/ DrainFails(r) \/ Park(r)

Aclose == AcloseBegin \/ SweepClose \/ AcloseEnd

Environment ==
  \/ \E r \in Requests : Reject(r) \/ Delivered(r) \/ ClientLeaves(r) \/ Abandon(r)
  \/ \E c \in Conns : \/ PeerCloses(c)
                       \/ \E r \in Requests, kind \in Kinds : UpstreamSends(c, r, kind)
  \/ \E k \in Keys : IdleExpires(k)

\* The server has stopped and every task has ended.
Stopped ==
  /\ server = "closed" /\ \A r \in Requests : pc[r] \in Terminal \cup {"new"}
  /\ UNCHANGED vars

Next == (\E r \in Requests : Handle(r)) \/ Aclose \/ Environment \/ Stopped

Spec == Init /\ [][Next]_vars

\* The event loop runs every ready task and every await of the proxy ends by
\* its timeout.  Nothing is assumed of the clients and of the upstream.
Fairness ==
  /\ \A r \in Requests : WF_vars(pc[r] # "new" /\ Handle(r))
  /\ WF_vars(SweepClose \/ AcloseEnd)

FairSpec == Spec /\ Fairness

-----------------------------------------------------------------------------
(* Properties.                                                              *)

Condemned == sweep \cup UNION {doomed[r] : r \in Requests}
Held      == {conn[r] : r \in Requests} \ {None}

TypeOK ==
  /\ pc \in [Requests -> Phases]
  /\ request \in [Requests -> Profiles]
  /\ attempt \in [Requests -> 0 .. MaxAttempts]
  /\ conn \in [Requests -> Conns \cup {None}]
  /\ doomed \in [Requests -> SUBSET Conns]
  /\ cur \in [Requests -> Messages \cup {None}]
  /\ sock \in [Conns -> {"unused", "open", "down", "closed"}]
  /\ openedFor \in [Conns -> Profiles \cup {None}]
  /\ inbox \in [Conns -> Seq(Messages)]
  /\ served \in [Conns -> SUBSET Requests]
  /\ acked \in SUBSET Conns
  /\ idle \in [Keys -> Seq(Conns)]
  /\ expired \in SUBSET Conns
  /\ server \in {"up", "closing", "closed"}
  /\ sweep \in SUBSET Conns

\* A socket is single-flight: held by one task, or once in one bucket of the
\* pool, or on one list of sockets to close, and never in two of these places.
SingleOwner ==
  /\ \A r, s \in Requests : conn[r] # None /\ conn[r] = conn[s] => r = s
  /\ \A r, s \in Requests : r # s => doomed[r] \cap doomed[s] = {}
  /\ \A r \in Requests : doomed[r] \cap sweep = {}
  /\ \A k, l \in Keys : k # l => Range(idle[k]) \cap Range(idle[l]) = {}
  /\ \A k \in Keys : IsInjective(idle[k])
  /\ Held \cap Pooled = {} /\ Held \cap Condemned = {} /\ Pooled \cap Condemned = {}

\* Nobody closes a socket somebody else still has: what a task, the pool or a
\* list of sockets to close refers to has not been closed yet.
NoUseAfterClose == Held \cup Pooled \cup Condemned \subseteq Live

\* No socket is forgotten: one that was opened and not closed is held by a task
\* that has still to close or park it, idle, or about to be closed.  The tasks
\* that leave theirs behind are those of phases "abandoned" and "crashed".
NoOrphan ==
  \A c \in Live :
    \/ \E r \in Requests : conn[r] = c /\ pc[r] # "done"
    \/ \E r \in Requests : c \in doomed[r] /\ pc[r] \in {"stale", "evicting"}
    \/ c \in Pooled
    \/ c \in sweep /\ server = "closing"

\* No bucket exceeds WEBSOCKET_POOL_MAX_IDLE, however many releases coincide.
PoolWithinLimit == \A k \in Keys : Len(idle[k]) <= MaxIdle

\* A request is only ever given a socket that was opened with the credentials
\* it carries itself, however either of them spelled and ordered its headers.
SameIdentity ==
  \A r \in Requests : conn[r] # None => Account[openedFor[conn[r]]] = Account[request[r]]

\* What a client is sent is the answer to its own request, except for messages
\* that reached the proxy after the drain of an earlier request had begun.
Isolation == \A r \in Requests : cur[r] # None => cur[r].for = r \/ cur[r].late

\* With response.processed configured, a socket becomes idle only after it was
\* sent for the last response on that socket.
ProcessedBeforeReuse == SendProcessed => Pooled \subseteq acked

\* A retry leaves nothing behind: a socket that carried the response.create of
\* r is still r's, or closed, or was given back by r when it had ended well.
RetryLeavesNothing ==
  \A c \in Live, r \in Requests :
    r \in served[c] => conn[r] = c \/ pc[r] \in {"evicting", "done"}

\* _checkout never lends an idle socket that is too old or known to be closed.
NeverLendsStale ==
  [][\A r \in Requests : conn'[r] \in Pooled => conn'[r] \in UsableIdle]_vars

\* The life of each socket is that of ConnectionLease.
life ==
  [c \in Conns |->
    LET held == \E r \in Requests : conn[r] = c
        mine == Account[openedFor[c]]
    IN CASE sock[c] = "unused" -> [phase |-> "unused"]
         [] sock[c] = "closed" -> [phase |-> "closed"]
         [] c \in Live /\ held ->
              [phase |-> "leased", holder |-> CHOOSE r \in Requests : conn[r] = c,
               account |-> mine]
         [] c \in Live /\ ~held /\ c \in Pooled -> [phase |-> "idle", account |-> mine]
         [] c \in Live /\ ~held /\ c \in Condemned \ Pooled ->
              [phase |-> "condemned", account |-> mine]
         [] OTHER -> [phase |-> "lost"]]

Lease == INSTANCE ConnectionLease WITH
  Accounts <- {Account[p] : p \in Profiles},
  account  <- [r \in Requests |-> Account[request[r]]],
  life     <- life

\* The bridge implements the life cycle: whoever lends, parks, evicts, retries
\* or shuts down, a socket goes from holder to holder only through the pool,
\* within one account, and closed is final.
ImplementsLease == Lease!Spec

\* README: a pooled socket with unexpected pending messages is discarded, so a
\* socket that is lent has none.
PendingIsDiscarded ==
  [][\A r \in Requests : conn'[r] \in Pooled => inbox[conn'[r]] = <<>>]_vars

\* README: the same, of the message the drain itself sees: a background task
\* that ended has parked or closed its socket.
DrainDiscards == \A r \in Requests : pc[r] \in {"done", "crashed"} => conn[r] = None

\* Every accepted request comes to an end, or to its yield again and again: its
\* client stops reading without disconnecting, or the upstream never stops
\* sending.  No other wait is endless, and no retry loop either.
EveryRequestEnds ==
  \A r \in Requests : []<>(pc[r] \in Terminal \cup {"new", "yielding"})

\* aclose ends: server is "closing" once at most.
AcloseEnds == []<>(server # "closing")
=============================================================================
