------------------------------ MODULE SocksTunnel ------------------------------
(***************************************************************************)
(* socks_mitm.py: a SOCKS5 CONNECT that is not intercepted, from the       *)
(* success reply on.  The handler connects to the target (outbound.py) and *)
(* runs two pipes; a pipe reads one connection and writes the other.       *)
(* Pipes, connections and counters are named by the side ("client" or      *)
(* "target") their data come from.  The asyncio transports and streams     *)
(* are modelled as far as the handler depends on them.                     *)
(***************************************************************************)
EXTENDS Integers

CONSTANTS
  MaxSent,    \* bound: chunks an endpoint sends
  HighWater,  \* chunks in a write buffer above which drain() waits
  ReadLimit   \* chunks in a read buffer above which a connection is not read

ASSUME SocksTunnelAssumption == MaxSent \in Nat /\ HighWater \in Nat /\ ReadLimit \in Nat

Sides == {"client", "target"}
Peer(s) == IF s = "client" THEN "target" ELSE "client"

VARIABLES
  pc,         \* the handler: "connecting", "piping", "done"
  pipe,       \* the two _pipe tasks
  conn,       \* the transport of each connection
  reader,     \* its StreamReader: "open", at "eof", or with an "error"
  sent, received, written, delivered,  \* chunks from each side, stage by stage
  end,        \* how each endpoint ended its own sending
  told        \* how each endpoint was told the end of its connection

counters  == <<sent, received, written, delivered>>
vars      == <<pc, pipe, conn, reader, counters, end, told>>

\* The write buffer of the connection of s, filled by the pipe from its peer.
Buffered(s) == written[Peer(s)] - delivered[Peer(s)]

-----------------------------------------------------------------------------
(* Closing.                                                                 *)

\* The transports of T are closed for good: the protocol feeds EOF to their
\* readers.  A socket closed over unread data resets the connection.
Gone(T) ==
  /\ reader' = [s \in Sides |-> IF s \in T /\ reader[s] = "open" THEN "eof" ELSE reader[s]]
  /\ told' = [s \in Sides |-> IF s \notin T THEN told[s]
                              ELSE IF received[s] < sent[s] THEN "rst" ELSE "fin"]

\* Fault: transport.abort, which drops the write buffer.
AbortWriter(T) ==
  /\ Gone({s \in T : conn[s] = "open"})
  /\ conn' = [s \in Sides |-> IF s \in T /\ conn[s] = "open" THEN "closed" ELSE conn[s]]

\* writer.close(): the whole connection stops being read; it is gone once the
\* write buffer is flushed.  Closing twice changes nothing.
CloseWriter(T) ==
  LET now == {s \in T : conn[s] = "open" /\ Buffered(s) = 0}
      later == {s \in T : conn[s] = "open"} \ now
  IN  /\ Gone(now)
      /\ conn' = [s \in Sides |-> IF s \in now THEN "closed"
                                  ELSE IF s \in later THEN "closing" ELSE conn[s]]

-----------------------------------------------------------------------------
(* The handler.                                                             *)

Connected ==
  /\ pc = "connecting" /\ pc' = "piping"
  /\ pipe' = [s \in Sides |-> "reading"]
  /\ conn' = [conn EXCEPT !["target"] = "open"]
  /\ end'  = [end EXCEPT !["target"] = "open"]
  /\ UNCHANGED <<reader, counters, told>>

\* Refused, unreachable or timed out: the client was told success already.
ConnectFails ==
  /\ pc = "connecting" /\ pc' = "done"
  /\ CloseWriter({"client"})
  /\ UNCHANGED <<pipe, counters, end>>

\* Fault: the handler goes on as soon as one pipe is through.
OnePipeOver == \E s \in Sides : pipe[s] \in {"ended", "failed"}

\* gather: both pipes returned, or one raised; then the other keeps running.
PipesOver ==
  \/ \A s \in Sides : pipe[s] = "ended"
  \/ \E s \in Sides : pipe[s] = "failed"

\* The finally of _handle_tunnel, then that of _handle_socks_client.
HandlerEnds ==
  /\ pc = "piping" /\ PipesOver /\ pc' = "done"
  /\ CloseWriter(Sides)
  /\ UNCHANGED <<pipe, counters, end>>

-----------------------------------------------------------------------------
(* One pipe, from side s to its peer.                                       *)

\* Fault: no drain.
NeverFull(s) == FALSE

\* drain() waits while the write buffer is above its high-water mark.
Full(s) == Buffered(Peer(s)) + 1 > HighWater

\* Fault: the empty chunk of the end of file is passed on like any other.
PipeMovesOn(s) ==
  /\ pipe[s] = "reading" /\ (reader[s] = "eof" \/ written[s] < received[s])
  /\ written' = [written EXCEPT ![s] = @ + 1]
  /\ UNCHANGED <<pc, pipe, conn, reader, sent, received, delivered, end, told>>

\* read, write and the first half of drain, which raises on a connection that
\* is gone; what is written to one is dropped.
PipeMoves(s) ==
  /\ pipe[s] = "reading" /\ reader[s] # "error" /\ written[s] < received[s]
  /\ written' = [written EXCEPT ![s] = @ + 1]
  /\ pipe' = [pipe EXCEPT ![s] = IF conn[Peer(s)] = "closed" THEN "failed"
                                 ELSE IF Full(s) THEN "draining" ELSE "reading"]
  /\ UNCHANGED <<pc, conn, reader, sent, received, delivered, end, told>>

\* The buffer fell to the low-water mark, or the connection went: with an
\* exception that drain raises, or without one.
Drained(s) ==
  LET t == Peer(s)
  IN  /\ pipe[s] = "draining"
      /\ conn[t] = "closed" \/ Buffered(t) <= HighWater \div 4
      /\ pipe' = [pipe EXCEPT ![s] = IF reader[t] = "error" THEN "failed" ELSE "reading"]
      /\ UNCHANGED <<pc, conn, reader, counters, end, told>>

\* Fault: a pipe that returns at the end of file without closing.
PipeStops(s) ==
  /\ pipe[s] = "reading"
  /\ reader[s] = "eof" /\ written[s] = received[s]
  /\ pipe' = [pipe EXCEPT ![s] = "ended"]
  /\ UNCHANGED <<pc, conn, reader, counters, end, told>>

\* read returns b"" after the last chunk, or raises over the chunks it has; the
\* finally closes the writer in both cases.
PipeEnds(s) ==
  /\ pipe[s] = "reading"
  /\ \/ reader[s] = "eof" /\ written[s] = received[s] /\ pipe' = [pipe EXCEPT ![s] = "ended"]
     \/ reader[s] = "error" /\ pipe' = [pipe EXCEPT ![s] = "failed"]
  /\ CloseWriter({Peer(s)})
  /\ UNCHANGED <<pc, counters, end>>

Pipe(s) == PipeMoves(s) \/ Drained(s) \/ PipeEnds(s)

-----------------------------------------------------------------------------
(* The transports.                                                          *)

Reads(s) == conn[s] = "open" /\ reader[s] = "open" /\ received[s] - written[s] <= ReadLimit

Receive(s) ==
  /\ Reads(s) /\ received[s] < sent[s]
  /\ received' = [received EXCEPT ![s] = @ + 1]
  /\ UNCHANGED <<pc, pipe, conn, reader, sent, written, delivered, end, told>>

\* The connection stays open for writing.
ReceiveEnd(s) ==
  /\ Reads(s) /\ received[s] = sent[s] /\ end[s] = "fin"
  /\ reader' = [reader EXCEPT ![s] = "eof"]
  /\ UNCHANGED <<pc, pipe, conn, counters, end, told>>

\* A broken connection is noticed by reading it or by writing to it.
Breaks(s) ==
  /\ end[s] = "rst"
  /\ conn[s] \in {"open", "closing"} /\ (Reads(s) \/ Buffered(s) > 0)
  /\ conn' = [conn EXCEPT ![s] = "closed"]
  /\ reader' = [reader EXCEPT ![s] = "error"]
  /\ told' = [told EXCEPT ![s] = "rst"]
  /\ UNCHANGED <<pc, pipe, counters, end>>

\* The endpoint takes a chunk; the last one of a closing connection ends it.
Flush(s) ==
  LET last == conn[s] = "closing" /\ Buffered(s) = 1
  IN  /\ conn[s] \in {"open", "closing"} /\ end[s] # "rst" /\ Buffered(s) > 0
      /\ delivered' = [delivered EXCEPT ![Peer(s)] = @ + 1]
      /\ conn' = [conn EXCEPT ![s] = IF last THEN "closed" ELSE @]
      /\ Gone(IF last THEN {s} ELSE {})
      /\ UNCHANGED <<pc, pipe, sent, received, written, end>>

-----------------------------------------------------------------------------
(* The endpoints.                                                           *)

Send(s) ==
  /\ end[s] = "open" /\ told[s] # "rst" /\ sent[s] < MaxSent
  /\ sent' = [sent EXCEPT ![s] = @ + 1]
  /\ UNCHANGED <<pc, pipe, conn, reader, received, written, delivered, end, told>>

\* The end of its sending (it still reads), or the loss of its connection.
EndSending(s) ==
  /\ \/ end[s] = "open" /\ end' = [end EXCEPT ![s] = "fin"]
     \/ end[s] \in {"open", "fin"} /\ end' = [end EXCEPT ![s] = "rst"]
  /\ UNCHANGED <<pc, pipe, conn, reader, counters, told>>

-----------------------------------------------------------------------------
Init ==
  /\ pc = "connecting" /\ pipe = [s \in Sides |-> "idle"]
  /\ conn = [s \in Sides |-> IF s = "client" THEN "open" ELSE "none"]
  /\ end  = [s \in Sides |-> IF s = "client" THEN "open" ELSE "absent"]
  /\ reader = [s \in Sides |-> "open"] /\ told = [s \in Sides |-> "open"]
  /\ sent = [s \in Sides |-> 0] /\ received = sent /\ written = sent /\ delivered = sent

Handler == Connected \/ ConnectFails \/ HandlerEnds

Transport(s) == Receive(s) \/ ReceiveEnd(s) \/ Breaks(s)

AllClosed == pc = "done" /\ \A s \in Sides : conn[s] \in {"none", "closed"}

Next ==
  \/ Handler
  \/ \E s \in Sides : Pipe(s) \/ Transport(s) \/ Flush(s) \/ Send(s) \/ EndSending(s)

Spec == Init /\ [][Next]_vars

\* The event loop runs what is ready, and connecting is bounded by
\* CONNECT_TIMEOUT_SECONDS.  Endpoints need not send, end, or take what they
\* are sent.
FairSpec ==
  /\ Spec /\ WF_vars(Handler)
  /\ \A s \in Sides : WF_vars(Pipe(s)) /\ WF_vars(Transport(s))

-----------------------------------------------------------------------------
(* Properties.                                                              *)

\* Types, and that chunks pass the stages in order: none is written that was not
\* read, and none is delivered that was not written.
TypeOK ==
  /\ pc \in {"connecting", "piping", "done"}
  /\ pipe \in [Sides -> {"idle", "reading", "draining", "ended", "failed"}]
  /\ conn \in [Sides -> {"none", "open", "closing", "closed"}]
  /\ reader \in [Sides -> {"open", "eof", "error"}]
  /\ end \in [Sides -> {"absent", "open", "fin", "rst"}]
  /\ told \in [Sides -> {"open", "fin", "rst"}]
  /\ sent \in [Sides -> Nat] /\ received \in [Sides -> Nat]
  /\ written \in [Sides -> Nat] /\ delivered \in [Sides -> Nat]
  /\ \A s \in Sides : /\ delivered[s] <= written[s] /\ written[s] <= received[s]
                      /\ received[s] <= sent[s] /\ sent[s] <= MaxSent

\* What the proxy has read of a connection it delivers before it ends the other
\* one, unless one of the two broke: closing never drops what was accepted.
AcceptedIsDelivered ==
  \A s \in Sides :
    told[Peer(s)] # "open" /\ (\A t \in Sides : end[t] # "rst") => delivered[s] = received[s]

\* However slow an endpoint, no more than one chunk above the high-water mark
\* waits for it in the proxy.
WriteBufferBounded == \A s \in Sides : conn[s] # "closed" => Buffered(s) <= HighWater + 1

\* Each direction is the stream of ByteStream: its sink is told a clean end over
\* missing data only if the source broke or the sink had ended first.
Up == INSTANCE ByteStream WITH
  sent <- sent["client"], delivered <- delivered["client"],
  source <- end["client"], sink <- end["target"], told <- told["target"]
Down == INSTANCE ByteStream WITH
  sent <- sent["target"], delivered <- delivered["target"],
  source <- end["target"], sink <- end["client"], told <- told["client"]

ImplementsStreams == Up!Spec /\ Down!Spec

\* A tunnel ends: when an endpoint ends or breaks, or the target could not be
\* reached, both connections come to be closed, unless an endpoint never takes
\* what waits for it.
TunnelEnds ==
  (pc = "done" \/ \E s \in Sides : end[s] \in {"fin", "rst"}) ~>
    (AllClosed \/ [](\E s \in Sides : conn[s] # "closed" /\ Buffered(s) > 0))

\* README: hosts that are not intercepted are "tunneled unchanged".  Unless a
\* connection broke, an endpoint that is told a clean end has got everything
\* its peer sent.
TunneledUnchanged ==
  \A s \in Sides :
    told[Peer(s)] = "fin" /\ (\A t \in Sides : end[t] # "rst") => delivered[s] = sent[s]
=============================================================================
