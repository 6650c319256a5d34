# codex-reset-proxy in TLA+

A verification development of the proxy: TLA+ modules of its components, TLC runs on
small instances, and TLAPS proofs for every value of the constants. Paths below are
relative to `src/codex_reset_proxy/`.

## 1. Inventory

The program is one Python process with one asyncio event loop. A coroutine runs
undisturbed from one `await` to the next, so the unit of interleaving is the code
between two awaits; nothing is shared between threads (the one `to_thread` call
opens an outbound socket and shares nothing).

| Component | Source | State | Operations |
| --- | --- | --- | --- |
| WebSocket bridge | `websocket_bridge.py` | `OpenedWebSocketBridge` of each request: socket, first message, who closes it | open with retries, stream as SSE, release in the background |
| WebSocket pool | `websocket_bridge.py:72-216` | `_idle`: bucket of idle sockets per `(URL, identity digest)`, `_lock` | `_checkout`, `release`, `aclose` |
| HTTP upstream | `proxy.py` | one `httpx.AsyncClient` and stream per attempt | open with retries, stream the body, close |
| ASGI application | `app.py` | the pool, per process | route, limit the body, answer, close the pool at shutdown |
| SOCKS5 server | `socks_mitm.py` | per connection: position in the handshake, target, two pipes with their buffers, or a request with its buffered body | handshake, tunnel, MITM, HTTP reader and writer |
| Outbound SOCKS5 client | `outbound.py` | one socket, and the position in its handshake | connect to the target directly or through `OUTBOUND_PROXY`, close on failure |
| Certificates | `certs.py` | four files: key and certificate of the CA and of a leaf | create what is missing at start and at each MITM connection, load the leaf |
| Configuration, start | `config.py`, `server.py` | settings, read once | - |

Interactions. Both front ends (ASGI, SOCKS5 MITM) call the same two upstream
functions, `open_websocket_bridge_with_retries` and `open_upstream_with_retries`,
and then drive the generator these lead to (`stream_websocket_as_sse`,
`stream_upstream_body`). All requests of the process share one
`WebSocketBridgePool`. A SOCKS5 connection goes from the handshake either to MITM
(certificate files, TLS, HTTP reader, upstream functions) or to a tunnel (outbound
client, two pipes); the outbound client may itself meet the SOCKS5 server of another
instance. The bridge generator hands its socket to a background task
at `response.completed`; that task parks it in the pool or closes it; the lifespan
of the server closes what is parked.

What is hard here, and what makes each part correct:

- *Bridge and pool.* A socket passes from request to background task to bucket to
  another request, or to a list of sockets to close, with an await (up to a 10 s
  closing handshake) at most steps; the upstream sends and closes whenever it
  likes; timeouts race arrivals; clients leave; shutdown overlaps background
  tasks. Correct: a socket has one owner; nothing closed is used; nothing opened is
  forgotten; a request gets only sockets of its own identity; a client gets only
  the answer to its own request; the pool keeps its limit; every request ends.
- *HTTP upstream.* Attempts must not overlap, must stop once headers were read, and
  must leave nothing open; a body cut short must not look complete; only the body
  may be waited for without limit.
- *SOCKS5 handshakes.* Lengths in a byte, payload in the same segment, a peer that
  goes at any byte. Correct: each end reads exactly the handshake and leaves the rest;
  the two ends of this program agree on the target; nobody waits for one who left.
- *Tunnels.* Two pipes that end, fail and wait independently, over writers that buffer.
  Correct: what was read is delivered before the end; a slow receiver does not fill
  the memory; both connections come to be closed.
- *Requests.* A body of a length the client tells, or in chunks, or in pieces; a client
  that goes in the middle of it; the client's headers beside the proxy's key. Correct:
  the limit is where it was set; no half body is forwarded as a whole one; exactly the
  proxy's key goes upstream; the reader ends when its client left.
- *Certificates.* Files that two writes produce and a crash separates; a leaf that
  outlives its CA. Correct: a key and a certificate that load belong together; the CA
  that clients installed is not replaced.

`PROJECT.json` lists, under `hazards`, each of these at its line.

## 2. Modules

| Module | Models | Kind |
| --- | --- | --- |
| `PoolIdentity` | `websocket_pool_key`: which headers enter the digest, and in what form | functions |
| `IdlePool` | the container of the pool: which entry `_checkout` takes, what it skips, what `release` evicts | operators |
| `WsBridge` | bridge, pool, background release, shutdown, with upstream, network, clients and clock | state machine; EXTENDS `IdlePool`, `PoolIdentity` |
| `ConnectionLease` | what the bridge promises of its sockets | abstract specification, implemented by `WsBridge` |
| `HttpUpstream` | the life of one HTTP request behind either front end | state machine |
| `RequestIntake` | a request from the client to the choice of its transport: body, limit, headers, routing, in both front ends | state machine |
| `SocksHandshake` | the SOCKS5 server and the outbound SOCKS5 client, against each other and against any peer | composition of two state machines |
| `SocksTunnel` | a CONNECT that is not intercepted: handler, two pipes, transports, endpoints | state machine |
| `ByteStream` | what a tunnel promises of each direction | abstract specification, implemented twice by `SocksTunnel` |
| `CertStore` | the certificate files over requests, crashes, failed writes and restarts | state machine |
| `MCWsBridge`, `MCRequestIntake`, `MCSocksHandshake` | symmetry, accounts and their headers; requests; foreign peers, logins | instances for TLC |
| `IdlePoolProofs`, `WsBridgeProofs`, `WsBridgeReuseProofs`, `HttpUpstreamProofs`, `RequestIntakeProofs`, `SocksHandshakeProofs`, `SocksTunnelProofs`, `CertStoreProofs` | theorems | proofs |

Operators marked `Fault:` are not part of a specification: each is the variant of
the definition below it that a plausible mistake would produce, used to see that
the properties notice (`mutants` in `PROJECT.json`).

### WsBridge

One task per request; `pc[r]` says at which await it stands:

    new -> [stale ->] connecting -> sending -> awaiting -> responding
                          ^            |          |
                          +- backoff <- discarding (<- a failed attempt)
    responding -> yielding <-> receiving          stream_websocket_as_sse
    yielding -> acking -> draining -> done        completed: background release
                  |           +-> evicting -> done
                  +-> retiring -> done            not kept: close
    yielding, receiving -> closing -> done        error, timeout, client left
    responding -> abandoned                       client left before the first step
    acking, draining -> crashed                   undecodable pending message

| State | In the code |
| --- | --- |
| `request` | what the request carries: its URL and headers (a `Profile`); `PoolKey(r)` is computed from them |
| `attempt`, `conn`, `cur` | the loop variable; `opened.websocket` (or `selected`); the message in hand |
| `doomed` | the lists `stale` of `_checkout` and `close_later` of `release` |
| `sock`, `openedFor`, `inbox` | the library's socket: state, what the request carried for which it was opened, received and unread messages |
| `served`, `acked` | history: requests created on the socket, whether `response.processed` followed the last |
| `idle`, `expired` | `_idle`; entries past `websocket_pool_idle_timeout_seconds` |
| `server`, `sweep` | the lifespan; the list `idle` of `aclose` |

Each action is the code from one await to the next, with the outcome of the await
it ends: `BeginAttempt` is the whole locked section of `_checkout`, `Park` that of
`release`. `_lock` guards no await, so it is never contended and is not a variable.

Modelling decisions:

- *Pool key.* A request carries a URL and a list of headers with names as the client
  spelled them. `WebSocketPoolKey` selects, lowers and counts as the code does;
  the digest is the multiset of the pairs (lower-case name, value) that are hashed:
  sorting forgets the order only, and SHA-256 is assumed to have no collision among the
  inputs that occur. `Account` is the upstream's view, a part of the environment: the
  values of the headers named in `Credentials`. That these are identity headers
  (`CredentialsAssumption`) is what `WEBSOCKET_POOL_KEY_HEADERS` asks of the operator,
  whose default covers the credentials the repository's README lists.
- *Closing.* `Close` is the start of the closing handshake. The wait for its end is
  bounded by the library (10 s) and changes nothing the properties see; a cancelled
  task starts it as well. So `AcloseEnds` shows that the loop of `aclose` ends if each
  closing handshake does; that one does is `close_timeout=10`, taken on trust.
- *Upstream.* It may answer a `response.create` with any number of messages of any
  kind, also without end: `MaxUnread` bounds only those received and not yet read, as
  the queue of the library does.
- *Late messages.* A message carries the request it answers and whether the drain
  of that request had already begun (or its attempt had been given up) when it
  arrived. Isolation excepts those: no code could tell them from the next answer.
- *First message or timeout.* `wait_for` may expire in the loop turn in which the
  message arrives, so `FirstMessageFails`, `StreamFails` and `Park` do not require an
  empty inbox.
- *Library knowledge.* `sock = "open"` is what the library believes; `"down"` a
  connection that ended, whose received messages can still be read.
- *Client.* `Delivered` waits for the client. A client that leaves cancels the
  generator in `recv`, or has it closed at its `yield`; behind SOCKS5 the dropped
  generator is closed by the hook asyncio installs, with the same effect.
- *Shutdown.* The server waits for its handlers before the lifespan ends;
  background tasks may still run. (The SOCKS5 server, on being cancelled, may leave
  handlers running; that order is not modelled.)
- *Checkout.* `_checkout` pops an entry that is usable, and closes the stale ones it met
  before it returns: the entry may break or expire meanwhile. The model has that window
  (phase `stale`); the attempt then fails in `sending` or `awaiting`, and is retried.
- *No pool.* `MaxIdle = 0` stands for every configuration that keeps nothing.

### HttpUpstream

Requests share nothing, so one request is modelled, behind `frontend` `"asgi"` or
`"socks"`. The difference matters in one place: while the generator waits for the
upstream only the ASGI server listens for the client's disconnection (`Noticing`).
An attempt's `httpx.AsyncClient` and its connection are one variable; the awaits of
`close_upstream` are one action (nothing else touches what they close), except
that `response.aclose`, which stands before the `try`, may raise
(`CloseUpstreamRaises`). The upstream of an attempt that was given up goes on by
itself.

### RequestIntake

A request is a head, headers and the chunks of a body; a body is its length, a header
its name with what the code looks at (`content-length`, tokens). The client sends
`Items` (a head, pieces of a body, lines with chunk sizes, the trailer) one by one and
may go at any time, or in the middle of an item (`peer = "torn"`). `pc` is the reader:
`stream` is `read_limited_body` of `proxy.py`; `size`, `chunk`, `trailer`, `body` are
the reads of `_read_http_request` and `_read_chunked_body`. `RequestHeaders` is `filtered_request_headers_from_raw`
followed by the proxy's key, `WebSocketHeaders` what the bridge drops besides, and
`Route` the decision both front ends make with their different conditions. Sums over
chunks (`Upto`) and selections of headers (`Kept`) are recursive functions, so that they
can be reasoned about.

Two assumptions on the constants. A body without chunks is as long as its
`content-length`, since that is what delimits it, and only the last chunk is empty. And a
header that carries a key is none that the proxy drops for reasons of its
own: whoever configures `accept` or `content-type` as the key header loses it behind the
bridge.

`pc = "too_large"` is a body refused for its size, which ASGI answers with 413
(`app.py:52-53`) and behind SOCKS5 ends the connection without an answer
(`socks_mitm.py:142-149`). The properties are about what is refused, not about
how the client is told.

What is read does not depend on how TCP cuts the stream, except where a read
function returns a part: `readline` at the end of the stream, which is modelled
(`ReadSize`, `ReadTrailer`).

The repository's README says that only `INTERCEPT_PATHS` get the fast fail and that
other paths are forwarded as ordinary HTTP. In the code (`socks_mitm.py:254, 264,
349`) the intercepted paths only decide about the WebSocket bridge, and every other
request goes through `open_upstream_with_retries`; `Route` follows the code.

### SocksHandshake

`up` and `down` are the bytes between the two ends. Each end is at a `readexactly` or
`_recv_exact` (`spc`, `cpc`) for a number of bytes (`need`, `cneed`); an action is the
code from one to the next, with all it writes. `Byte` is the largest byte, 255 in the
code. A host is its encoded form; decoding one may raise, and only `Decodable` ones are
names (`Name`). Hosts that are too long also stand for those that cannot be encoded.

The client has the user name and password of `OUTBOUND_PROXY`, possibly empty
(`want.login`), and offers method 2 only with one of them; it logs in whenever the
server selects method 2, and raises when one of the two does not fit in its length byte
(`LoginFits`). A `sendall` may raise after any number of its bytes went out, by its
timeout or because the peer is gone (`SendFails`, remembered in `unsent`). The four
sends of a login make one message: between them nothing is read, and a prefix of the
message may have gone out when any of them raises. On the server's side `drain` raising
(`socks_mitm.py:166, 169, 200`) is not modelled: it takes a client that is gone
before the reply, whose handshake ends with the connection closed one way or the other.

A foreign peer is described by the fields of what it sends (`ClientHandshakes`,
`ServerHandshakes`); `ClientScript` and `ServerScript` put them into bytes, and say
which target they mean and whether they are a handshake that must succeed. Of these
bytes only the first `cut` may arrive, and the peer closes or is silent after that. The
theorems `EveryClient` and `EveryServer` say that this loses nothing: every sequence of
bytes is a cut of some script. The client's `recv` may time out whenever it
would wait; the server's reads have no timeout.

### SocksTunnel

State is kept by the side data come from: `sent` (by the endpoint), `received` (in the
`StreamReader`), `written` (by the pipe), `delivered` (out of the write buffer). Data
are counted: order is kept on each stage. `conn` is the asyncio transport (`closing`
is a closed writer with data to flush), `reader` its end (`eof`, `error`), `pipe` the
task of each direction, `pc` the handler. `Receive`, `Flush`, `Breaks`, `Gone` are
asyncio's part, as far as the handler depends on it: reading stops over `ReadLimit`,
`drain` waits over `HighWater`, `close` flushes before it closes, and a closed
connection feeds an end to its own reader.

### CertStore

A process runs through `ensure_ca_certificate` at start and, for each MITM connection,
through that and `ensure_leaf_certificate`. `write_bytes` is two steps, `Truncate` and
`Fill`, so that `Crash` and `WriteFails` can come between. A key pair is a number; a
certificate is the number of its key, and of the key that signed it. `Remove` is an
operator who deletes a file at any time.

## 3. Runs

| Run | Instance | Question |
| --- | --- | --- |
| `ws_pool` | 3 requests, 1 account, 3 sockets, 2 attempts, bucket of 2, 1 unread message | ownership, what retries leave behind, eviction, stale entries, limit, `response.processed`, and `ConnectionLease` |
| `ws_live` | 2 requests, 2 accounts, one of them in two spellings, 2 sockets, 2 attempts, bucket of 1, events without end, fairness, no symmetry | identity and isolation, every request ends, shutdown ends |
| `ws_pending` | violation | see below |
| `ws_garbage` | violation | see below |
| `http_upstream` | 3 attempts, 3 unread chunks, both front ends, fairness | everything about `HttpUpstream` |
| `socks_tunnel` | 3 chunks each way, high-water mark and read limit of 1, fairness | delivery, backpressure, `ByteStream` both ways, and that a tunnel ends |
| `tunnel_half_close` | violation | see below |
| `cert_store` | 7 key pairs, 3 crashes or failed writes, 2 removed files | what faults leave on disk |
| `cert_torn` | violation | see below |
| `socks_handshake` | bytes up to 16; foreign clients and servers of every combination of fields, cut at every byte; no login, one that fits, one with either part too long; fairness | framing and agreement of the two ends |
| `body_buffer` | violation | see below |
| `request_intake` | bodies of up to two chunks of 1 to 3 bytes around a limit of 3, every framing, both front ends and modes, keys, fairness | limit, completeness, headers, leaving clients |

Why these bounds are enough. In `ws_pool` three requests and three sockets make every
pair of owners of a socket with a third to evict; a bucket of two gives a full one, an
eviction while another request checks out, and a stale entry above a usable one; two
attempts let a retry meet a socket another request parked. Which message is read does
not matter to these properties, so one kind is enough. In `ws_live` the requests
are of the same account in one or two spellings, or of different ones, in every
combination. A message can be an event or the end of a response, on time or late,
and there may be any number of them, one unread at a time. Two sockets let the requests
hold one each, or one after the other; when no unused socket is left, connecting
can only fail, which the code also handles. Binary messages are in `ws_garbage`.

In `socks_tunnel` three chunks fill the write buffer, wait in the reader, and leave one
unsent, so that an end or a break can meet each stage. In `cert_store` a start makes a
CA (one key pair) and a leaf (one more); seven pairs and three faults let both be torn,
found, and made again, in any order. In `socks_handshake` only the framing depends on
bytes: `Byte = 16` leaves room for every code, for an IPv6 address and for a host one
byte too long. In `request_intake` two chunks of 1 to 3 reach, meet and pass a limit of
3, with the first or with the second.

Deadlock is checked except where the system may stop: `request_intake` and `body_buffer`
(a request is over, or a client is silent), `socks_handshake` (both ends are through, or a client is
silent), and `socks_tunnel` and `tunnel_half_close` (the tunnel is closed, or its
endpoints are silent).

Properties of `WsBridge` worth naming:

- `SingleOwner`, `NoUseAfterClose`, `NoOrphan`: the ownership discipline. `NoOrphan`
  lets only tasks of phase `abandoned` or `crashed` keep a socket for ever: a
  generator that never took its first step has no `finally` to run, and a pending
  message that cannot be decoded ends the background task. Both are behaviour of
  the code, listed as hazards.
- `SameIdentity`: a socket opened with the credentials of one account is only ever held
  for requests of that account. It rests on the whole way from the headers to the
  bucket: selection, spelling, order, parking and lending. `Isolation`: no client sees
  another client's answer, late messages apart. `RetryLeavesNothing`: an attempt that failed
  leaves no open socket on which its `response.create` still waits.
- `NeverLendsStale` (action property): judged at the step that pops the entry, as in the
  code. `ProcessedBeforeReuse`, `PoolWithinLimit`.
- `EveryRequestEnds`: no request stays for ever in any one wait, except at the yield to
  its client.
- `ImplementsLease`: the refinement of `ConnectionLease`. The mapping `life` computes
  the phase of each socket from where it is: held, in a bucket, on a list to close.

Properties of the other modules worth naming:

- `AcceptedIsDelivered` and `ImplementsStreams` of `SocksTunnel`: each closes over the
  three ways a connection comes to be closed (a pipe at its end, a pipe that failed,
  the handler). What the proxy has read is delivered; what it has not, because it
  closed the connection for writing's sake, is lost behind a clean end: `ByteStream`
  allows that only if the receiver ended first, or the source broke.
- `ServerAgrees`, `ClientAgrees`, `ChainWorks` of `SocksHandshake`: an end succeeds only
  on a whole handshake, with the right target, and leaves exactly the payload. The
  client fails only for a reason it names: no proper answer, a send that raised, a
  host or a requested login that does not fit.
- `LimitIsExact`, `NeverTruncated`, `OneKeyUpstream`, `LeaverIsNoticed` of
  `RequestIntake`. `NeverTruncated` has one exception, which the code has: the line of a
  chunk size, cut after a leading zero, is taken for the last chunk.
- `NeverMismatched`, `OnlyTornRefuses`, `CaIsStable` of `CertStore`. The first two hold
  while no file is removed: a leaf is used whenever its files exist, also beside a new
  CA.

What the properties except, on purpose, since the code does it: the sockets of tasks
`abandoned` or `crashed` (`NoOrphan`) and the clients of tasks `lost` or `abandoned`
(`NothingLeftOpen`), late messages (`Isolation`), connections that were reset
(`AcceptedIsDelivered`), removed files (`NeverMismatched`). The hazards that live there
say so in their notes in `PROJECT.json`.

What the violation runs show (also under `findings`):

- `ws_pending`: the repository's README says that a pooled socket with unexpected
  pending messages is discarded. The code looks for such messages for 10 ms in
  `release`, and never at checkout. A message that arrives on the idle socket is
  still there when the socket is lent, and is then taken for the first message of
  the next response.
- `ws_garbage`: in `_websocket_has_unexpected_pending_message` the decoding stands
  outside the `try`. A binary pending message that is not UTF-8 ends the task with
  the socket neither closed nor parked.
- `tunnel_half_close`: the repository's README says that hosts that are not intercepted
  are tunneled unchanged. At the end of file of one connection the pipe closes the
  other one entirely. A client that ends its sending and waits for the answer is told a
  clean end without it.
- `body_buffer`: the repository's README calls `MAX_REQUEST_BODY_BYTES` the maximum
  buffered size. Behind SOCKS5 a chunk is read whole and compared afterwards, so what is
  buffered exceeds it by up to a chunk of any announced size before the request is refused.
- `cert_torn`: the README says that the proxy generates a local CA. Any two files that
  exist are taken for it. A process that dies while it writes `ca.crt` leaves a file
  that does not load, and no later start makes another.

### Fairness

`FairSpec` of `WsBridge` assumes weak fairness of each started request's own steps
and of the shutdown: the event loop runs every ready task, and every await of the
proxy has a timeout in the code (connect, send, first message, idle, drain, close).
Nothing is assumed of the upstream or of clients: no message need arrive, any number may,
and `Delivered` need not happen. So `EveryRequestEnds` says of each request that it is
again and again over or at its yield: it excepts a client that stops reading for ever
without disconnecting, and an upstream that never stops sending events, which the
code follows for as long as it does (each message has its own timeout, the response none).

`FairSpec` of `HttpUpstream` assumes the same of `Handle`, and strong fairness of
`ClientLost`: the listener of the ASGI server is a task of its own, and of the many
writes to a client that has gone one fails. `EveryWaitEnds` says exactly which
waits have no end: a body that goes on, or falls silent, while its client stays
(`read=None`), and, behind SOCKS5, a silent body whose client left.

`FairSpec` of `SocksTunnel` assumes weak fairness of the handler (connecting is bounded
by its timeout), of each pipe and of what the event loop reads; not of `Flush`, since
an endpoint need not take what it is sent, and not of the endpoints. `FairSpec` of
`SocksHandshake` assumes it of both ends, of which only the client has timeouts;
`FairSpec` of `RequestIntake` of the front end only.

## 4. Proofs

TLAPS proves, for any sets of requests, headers and sockets and any bounds:

- `IdlePoolProofs`: what checkout and release do to a bucket. Checkout splits it into
  what stays, the chosen entry and the skipped ones, disjointly; release adds one
  entry, evicts only old ones, and keeps the bucket injective and within its limit.
- `WsBridgeProofs`:
  - `TypeCorrect`. `TypeOK` is not inductive: `BeginAttempt` keeps
    `attempt <= MaxAttempts` only because `backoff` is entered below the limit, and
    `conn[r]` is a socket only in certain phases. `Shape` adds that.
  - `SingleFlight` and `NothingClosedIsUsed`, from `Ownership`: the parts of
    `SingleOwner` stated for pairs of places, together with "what is referred to is
    live". The two need each other: opening a socket keeps it single only because an
    unused one is referred to by nobody.
  - `IdentityHolds`, in two parts. `Keyed`, by induction with `Ownership`: the key of what
    a socket was opened for is that of its holder, and of the bucket it is in.
    `KeyTellsAccount`: requests with the same computed key are of the same account, for
    any headers in any order and spelling, as long as the credentials are identity headers.
  - `LimitHolds`, by induction with `Shape`.
  - `IsolationHolds`, from `Fresh`: a message in an inbox that is not late answers
    the request that holds the socket, and a socket that drains has an empty inbox
    or late messages only. `Ownership` then makes the reader that request.
- `WsBridgeReuseProofs`:
  - `NothingForgotten`, from `Placed`: a live socket is held, in a bucket, or on a list
    to close. `Shape` then tells that its holder, or the owner of the list, still acts.
  - `ReuseIsAcknowledged`, from `Acknowledged`: a socket is in `acked` from the start of
    its drain. Removing one from `acked` (a new `response.create`, a close) is harmless
    since `Ownership` has it neither idle nor draining.
  - `RetriesLeaveNothing`, from `Recorded`: an unused socket has served nobody, and a
    task that gave its socket back never acts again on one.
  - `LendsFresh`: an idle socket becomes held only by a checkout, at the entry where
    its loop stops.
  - `LeaseImplemented`: the refinement. `LifeOK` reads the mapped state off the place of
    a socket; `LeaseStep` then shows, for each step and each socket, which move of
    `ConnectionLease` it makes (where a socket goes to a request, `KeyTellsAccount` has the
    account), and `OneLeaseHolds` that no request has two.
- `SocksTunnelProofs`: `TypeCorrect`, `BackpressureHolds`, `NothingAcceptedIsLost`,
  `StreamsImplemented`, from one invariant (`TInv`) that relates the state of a pipe, of
  the connection it writes and of the reader it reads, with the four counters.
- `CertStoreProofs`: `TypeCorrect`, `PairsMatch`, `RefusalHasCause`, `CompleteCaIsKept`,
  from one invariant (`CInv`) that says for each point of the two writes which files are
  whole and which key they hold.
- `RequestIntakeProofs`: `TypeCorrect`, `LimitHolds`, `NothingTruncated`, `KeyHolds`, from
  one invariant (`IInv`) of five parts: the request and the settings stay what they were
  (`Settled`), no item is read before it arrived (`Positions`), what the reader counted
  is the sum of the chunks up to the item it stands at (`Streamed`), how that sum relates
  to the limit (`Limited`), and what goes upstream (`Carried`).
  `LimitIsExact` alone is not inductive: it speaks of the end of a body, and the step
  that gets there needs the sum so far. The facts about sums and selections are proved
  for sequences of any length, by taking a least counterexample (`WFMin` of
  `WellFoundedInduction`).
- `SocksHandshakeProofs`: `TypeCorrect`, `ServerReadsExactly`, `ClientReadsExactly`,
  `TheChainWorks`, `EveryClient`, `EveryServer`.
  - `TInv` adds to `TypeOK` how many bytes each read takes, and what the scripts are.
  - `ServerInv` and `ClientInv` say, for the description whose script the foreign peer
    plays, that what is left on the way is that script from the place of the next read
    on, and that the fields before it were those that let the end come so far. A client
    that failed did so over these fields, a send, or a length (`ClientInv`). A script
    is a concatenation whose parts have lengths the peer chose; `SixParts` gives the
    place of each.
  - `ChainInv` does the same for the two ends of this program: unless one of them has
    failed for a reason of its own (`Lost`), nobody has closed and their two positions
    and the bytes in between fit (`Joint`).
- `HttpUpstreamProofs`: `TypeCorrect`, `OneAttempt`, `NothingLeft`,
  `NoSilentTruncation`, from one invariant that says phase by phase whether a client
  is open and what the end of the body was worth.

The assumptions are those on the constants (the `...Assumption` of each module), which
TLC evaluates in the runs.

Every safety invariant and action property of the passing runs, and both refinements,
are theorems. Only model-checked is liveness (`EveryRequestEnds`, `AcloseEnds`,
`EveryWaitEnds`, `TunnelEnds`, `HandshakeEnds`, `LeaverIsNoticed`): it rests on fairness
and `ENABLED`, which are out of the prover's reach. Not proved either, since they are
false: the five properties of the violation runs.

## 5. Not modelled

- The TLS upgrade of a MITM connection: asyncio's and OpenSSL's work; `CertStore` ends
  with the loaded pair and `RequestIntake` starts with the decrypted stream.
- Handlers that outlive `serve_socks5` when it is cancelled: whether they run on depends
  on the version of `asyncio`.
- Building the URL of the upstream and the headers of its handshake: a request carries
  both as they are. Collisions of SHA-256.
- `drain` raising in the SOCKS5 server's handshake; see `SocksHandshake`.
- The expiry of a leaf (825 days), and more than one intercepted host: each has files of
  its own, and the CA in common.
- The contents of certificates, beyond the key and its signer.
- SSE framing, logging, error texts, `/healthz`: no property is about them.
- Configuration and start: settings are read and validated once, before anything runs;
  they are the constants.
- `scripts/`, `Dockerfile`, compose file: deployment.

## 6. Plan

Done, in this order: the bridge and its pool with `ConnectionLease`; `HttpUpstream`;
`SocksTunnel` with `ByteStream`; `SocksHandshake`; `CertStore`; `RequestIntake`; the
theorems of all of them.

What is left, by what it would add:

1. The composition of `SocksHandshake` and `SocksTunnel`: a payload that is pipelined
   behind the handshake is what the tunnel delivers first. Both halves are proved
   (`ServerAgrees` leaves exactly the payload; `ByteStream` delivers what was read).
2. For each liveness property the measure that every fair step lowers, as an action
   property: the part of the argument that is in the prover's reach.
