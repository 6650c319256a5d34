-------------------------- MODULE SocksTunnelProofs --------------------------
(***************************************************************************)
(* Safety of SocksTunnel for any number of chunks and any buffer limits,   *)
(* and that each direction implements ByteStream.  As long as no           *)
(* connection broke, a connection is closed only by the pipe that writes   *)
(* it, at the end of the file it reads, and that end can be traced to an   *)
(* endpoint: that is the inductive invariant.                              *)
(***************************************************************************)
EXTENDS SocksTunnel, TLAPS

\* Some connection broke.
Broken == \E s \in Sides : end[s] = "rst"

\* The connection to the target comes into being with the pipes.
Dormant ==
  /\ conn["client"] # "none" /\ end["client"] # "absent"
  /\ pc = "connecting" => end["target"] = "absent"
  /\ pc = "piping" => end["target"] # "absent"
  /\ end["target"] = "absent" =>
       /\ conn["target"] = "none" /\ sent["target"] = 0
       /\ reader["target"] = "open"
       /\ pipe["client"] = "idle" /\ pipe["target"] = "idle"
       /\ written["client"] = 0
  /\ end["target"] # "absent" => conn["target"] # "none"
                                 /\ pipe["client"] # "idle" /\ pipe["target"] # "idle"

\* A connection, its reader and what its endpoint was told change together.
Sync ==
  \A s \in Sides :
    /\ conn[s] = "closed" <=> told[s] # "open"
    /\ conn[s] = "closed" => reader[s] # "open"
    /\ reader[s] = "error" => end[s] = "rst"
    /\ pipe[s] = "ended" => reader[s] # "open" /\ written[s] = received[s]

\* Who closed a connection, and why its reader is at the end of file.
Cause ==
  \A s \in Sides :
    LET p == Peer(s) IN
    ~Broken /\ (pc = "connecting" \/ end["target"] # "absent") =>
      /\ pipe[s] # "failed"
      /\ conn[p] \in {"closing", "closed"} => pipe[s] = "ended"
      /\ conn[p] = "closed" => written[s] = delivered[s]
      /\ reader[s] = "eof" => \/ end[s] = "fin" /\ received[s] = sent[s]
                              \/ end[p] = "fin" /\ reader[p] = "eof"

\* A pipe reads on only when the buffer it writes to is not full.
Room ==
  \A s \in Sides :
    LET p == Peer(s) IN
    /\ pipe[s] = "reading" => conn[p] = "closed" \/ Buffered(p) <= HighWater
    /\ conn[p] = "closed" \/ Buffered(p) <= HighWater + 1

\* The inductive invariant.
TInv == TypeOK /\ Dormant /\ Sync /\ Cause /\ Room

\* The two sides.
LEMMA SidesFacts ==
  \A s \in Sides : /\ Peer(s) \in Sides /\ Peer(s) # s /\ Peer(Peer(s)) = s
                   /\ \A t \in Sides : t = s \/ t = Peer(s)
  BY DEF Sides, Peer

\* Closing, side by side.
LEMMA CloseFacts ==
  ASSUME TypeOK, NEW T, CloseWriter(T)
  PROVE  /\ conn' \in [Sides -> {"none", "open", "closing", "closed"}]
         /\ reader' \in [Sides -> {"open", "eof", "error"}]
         /\ told' \in [Sides -> {"open", "fin", "rst"}]
         /\ \A s \in Sides :
              \/ /\ conn'[s] = conn[s] /\ reader'[s] = reader[s] /\ told'[s] = told[s]
                 /\ s \in T => conn[s] # "open"
              \/ /\ s \in T /\ conn[s] = "open" /\ Buffered(s) # 0
                 /\ conn'[s] = "closing" /\ reader'[s] = reader[s] /\ told'[s] = told[s]
              \/ /\ s \in T /\ conn[s] = "open" /\ Buffered(s) = 0 /\ conn'[s] = "closed"
                 /\ reader'[s] = IF reader[s] = "open" THEN "eof" ELSE reader[s]
                 /\ told'[s] \in {"fin", "rst"}
  BY DEF CloseWriter, Gone, TypeOK

\* The invariant holds initially.
LEMMA TInvInit == Init => TInv
  BY SocksTunnelAssumption
     DEF Init, TInv, TypeOK, Dormant, Sync, Cause, Room, Broken, Sides, Peer, Buffered

\* The handler's steps.
LEMMA HandlerStep == TInv /\ Handler => TInv'
  <1> SUFFICES ASSUME TInv, Handler PROVE TInv'
    OBVIOUS
  <1> USE SidesFacts
  <1>0. TypeOK /\ Dormant /\ Sync /\ Cause /\ Room
    BY DEF TInv
  <1>1. CASE Connected
    <2> USE <1>0, <1>1 DEF Connected, counters
    <2>1. TypeOK'
      BY DEF TypeOK
    <2>2. Dormant'
      BY DEF Dormant, TypeOK, Sides
    <2>3. Sync'
      BY DEF Sync, TypeOK, Dormant, Sides
    <2>4. Cause'
      BY DEF Cause, TypeOK, Dormant, Sides, Peer, Broken
    <2>5. Room'
      BY SocksTunnelAssumption DEF Room, TypeOK, Dormant, Sides, Peer, Buffered
    <2>6. QED
      BY <2>1, <2>2, <2>3, <2>4, <2>5 DEF TInv
  <1>2. CASE ConnectFails
    <2> USE <1>0, <1>2, CloseFacts DEF ConnectFails, counters
    <2>1. TypeOK'
      BY DEF TypeOK
    <2>2. Dormant'
      BY DEF Dormant, TypeOK, Sides
    <2>3. Sync'
      BY DEF Sync, TypeOK, Dormant, Sides
    <2>4. Cause'
      BY DEF Dormant, Cause
    <2>5. Room'
      BY SocksTunnelAssumption DEF Room, TypeOK, Dormant, Sides, Peer, Buffered
    <2>6. QED
      BY <2>1, <2>2, <2>3, <2>4, <2>5 DEF TInv
  <1>3. CASE HandlerEnds
    <2> USE <1>0, <1>3, CloseFacts DEF HandlerEnds, counters
    <2>1. TypeOK'
      BY DEF TypeOK
    <2>2. Dormant'
      BY DEF Dormant, TypeOK, Sides
    <2>3. Sync'
      BY DEF Sync, TypeOK, Dormant, Sides
    <2>4. Cause'
      BY DEF Cause, Sync, TypeOK, Dormant, Broken, Buffered, PipesOver
    <2>5. Room'
      BY DEF Room, TypeOK, Buffered
    <2>6. QED
      BY <2>1, <2>2, <2>3, <2>4, <2>5 DEF TInv
  <1>4. QED
    BY <1>1, <1>2, <1>3 DEF Handler

\* A pipe's steps.
LEMMA PipeStep == TInv /\ (\E s \in Sides : Pipe(s)) => TInv'
  <1> SUFFICES ASSUME TInv, NEW s \in Sides, Pipe(s) PROVE TInv'
    OBVIOUS
  <1> USE SidesFacts
  <1>0. TypeOK /\ Dormant /\ Sync /\ Cause /\ Room
    BY DEF TInv
  <1>1. CASE PipeMoves(s)
    <2> USE <1>0, <1>1 DEF PipeMoves
    <2>1. TypeOK'
      BY DEF TypeOK
    <2>2. Dormant'
      BY DEF Dormant, TypeOK, Sides
    <2>3. Sync'
      BY DEF Sync, TypeOK
    <2>4. Cause'
      BY DEF Cause, Sync, TypeOK, Broken
    <2>5. Room'
      BY SocksTunnelAssumption DEF Room, TypeOK, Buffered, Full
    <2>6. QED
      BY <2>1, <2>2, <2>3, <2>4, <2>5 DEF TInv
  <1>2. CASE Drained(s)
    <2> USE <1>0, <1>2 DEF Drained, counters
    <2>1. TypeOK'
      BY DEF TypeOK
    <2>2. Dormant'
      BY DEF Dormant, TypeOK, Sides
    <2>3. Sync'
      BY DEF Sync, TypeOK
    <2>4. Cause'
      BY DEF Cause, Sync, TypeOK, Broken
    <2>5. Room'
      <3>1. HighWater \div 4 <= HighWater
        BY SocksTunnelAssumption
      <3>2. QED
        BY <3>1, SocksTunnelAssumption DEF Room, TypeOK, Buffered
    <2>6. QED
      BY <2>1, <2>2, <2>3, <2>4, <2>5 DEF TInv
  <1>3. CASE PipeEnds(s)
    <2> USE <1>0, <1>3, CloseFacts DEF PipeEnds, counters
    <2>1. TypeOK'
      BY DEF TypeOK
    <2>2. Dormant'
      BY DEF Dormant, TypeOK, Sides
    <2>3. Sync'
      BY DEF Sync, TypeOK, Dormant
    <2>4. Cause'
      BY DEF Cause, Sync, TypeOK, Dormant, Broken, Buffered
    <2>5. Room'
      BY DEF Room, TypeOK, Buffered
    <2>6. QED
      BY <2>1, <2>2, <2>3, <2>4, <2>5 DEF TInv
  <1>4. QED
    BY <1>1, <1>2, <1>3 DEF Pipe

\* The transports' and the endpoints' steps.
LEMMA OtherStep ==
  TInv /\ (\E s \in Sides : Transport(s) \/ Flush(s) \/ Send(s) \/ EndSending(s)) => TInv'
  <1> SUFFICES ASSUME TInv, NEW s \in Sides,
                      Transport(s) \/ Flush(s) \/ Send(s) \/ EndSending(s)
               PROVE  TInv'
    OBVIOUS
  <1> USE SidesFacts
  <1>0. TypeOK /\ Dormant /\ Sync /\ Cause /\ Room
    BY DEF TInv
  <1>1. CASE Receive(s)
    <2> USE <1>0, <1>1 DEF Receive, Reads
    <2>1. TypeOK'
      BY DEF TypeOK
    <2>2. Dormant' /\ Sync'
      BY DEF Dormant, Sync, TypeOK, Sides
    <2>3. Cause' /\ Room'
      BY DEF Cause, Room, Sync, TypeOK, Broken, Buffered
    <2>4. QED
      BY <2>1, <2>2, <2>3 DEF TInv
  <1>2. CASE ReceiveEnd(s)
    <2> USE <1>0, <1>2 DEF ReceiveEnd, Reads, counters
    <2>1. TypeOK'
      BY DEF TypeOK
    <2>2. Dormant' /\ Sync'
      BY DEF Dormant, Sync, TypeOK, Sides
    <2>3. Cause' /\ Room'
      BY DEF Cause, Room, Sync, TypeOK, Broken, Buffered
    <2>4. QED
      BY <2>1, <2>2, <2>3 DEF TInv
  <1>3. CASE Breaks(s)
    <2> USE <1>0, <1>3 DEF Breaks, counters
    <2>1. TypeOK'
      BY DEF TypeOK
    <2>2. Dormant'
      BY DEF Dormant, TypeOK, Sides
    <2>3. Sync'
      BY DEF Sync, TypeOK
    <2>4. Cause' /\ Room'
      BY DEF Cause, Room, TypeOK, Broken, Buffered
    <2>5. QED
      BY <2>1, <2>2, <2>3, <2>4 DEF TInv
  <1>4. CASE Flush(s)
    <2> USE <1>0, <1>4 DEF Flush, Gone, Buffered
    <2>1. TypeOK'
      BY DEF TypeOK
    <2>2. Dormant'
      BY DEF Dormant, TypeOK, Sides
    <2>3. Sync'
      BY DEF Sync, TypeOK
    <2>4. Cause'
      BY DEF Cause, Sync, TypeOK, Broken, Dormant
    <2>5. Room'
      <3>1. \A t \in Sides : delivered'[t] \in Nat /\ delivered'[t] >= delivered[t]
        BY DEF TypeOK
      <3>2. \A t \in Sides : conn[t] = "closed" => conn'[t] = "closed"
        BY DEF TypeOK
      <3>3. QED
        BY <3>1, <3>2, SocksTunnelAssumption DEF Room, TypeOK
    <2>6. QED
      BY <2>1, <2>2, <2>3, <2>4, <2>5 DEF TInv
  <1>5. CASE Send(s)
    <2> USE <1>0, <1>5 DEF Send
    <2>1. TypeOK'
      BY SocksTunnelAssumption DEF TypeOK
    <2>2. Dormant' /\ Sync'
      BY DEF Dormant, Sync, TypeOK, Sides
    <2>3. Cause' /\ Room'
      BY DEF Cause, Room, Sync, TypeOK, Broken, Buffered
    <2>4. QED
      BY <2>1, <2>2, <2>3 DEF TInv
  <1>6. CASE EndSending(s)
    <2> USE <1>0, <1>6 DEF EndSending, counters
    <2>1. TypeOK'
      BY DEF TypeOK
    <2>2. Dormant' /\ Sync'
      BY DEF Dormant, Sync, TypeOK, Sides
    <2>3. Room'
      BY DEF Room, TypeOK, Buffered
    <2>4. Cause'
      <3>1. CASE end'[s] = "rst"
        BY <3>1 DEF Cause, Broken
      <3>2. CASE end[s] = "open" /\ end' = [end EXCEPT ![s] = "fin"]
        BY <3>2 DEF Cause, TypeOK, Broken
      <3>3. QED
        BY <3>1, <3>2 DEF TypeOK
    <2>5. QED
      BY <2>1, <2>2, <2>3, <2>4 DEF TInv
  <1>7. QED
    BY <1>1, <1>2, <1>3, <1>4, <1>5, <1>6 DEF Transport

\* The invariant holds in every reachable state.
THEOREM InvariantHolds == Spec => []TInv
  <1>1. ASSUME TInv, [Next]_vars PROVE TInv'
    <2>1. CASE UNCHANGED vars
      BY <1>1, <2>1 DEF vars, counters, TInv, TypeOK, Dormant, Sync, Cause, Room, Broken, Buffered
    <2>2. QED
      BY <1>1, <2>1, HandlerStep, PipeStep, OtherStep DEF Next
  <1>2. QED
    BY TInvInit, <1>1, PTL DEF Spec
\* The type invariant, for any number of chunks.
THEOREM TypeCorrect == Spec => []TypeOK
  <1>1. TInv => TypeOK
    BY DEF TInv
  <1>2. QED
    BY InvariantHolds, <1>1, PTL

\* Backpressure: whatever the endpoints do, a write buffer holds at most one
\* chunk above the high-water mark.
THEOREM BackpressureHolds == Spec => []WriteBufferBounded
  <1>1. TInv => WriteBufferBounded
    BY SidesFacts DEF TInv, Room, WriteBufferBounded
  <1>2. QED
    BY InvariantHolds, <1>1, PTL

\* Closing never drops what the proxy has read, unless a connection broke.
THEOREM NothingAcceptedIsLost == Spec => []AcceptedIsDelivered
  <1>1. ASSUME TInv PROVE AcceptedIsDelivered
    <2> SUFFICES ASSUME NEW s \in Sides, told[Peer(s)] # "open", ~Broken
                 PROVE  delivered[s] = received[s]
      BY DEF AcceptedIsDelivered, Broken
    <2>1. conn[Peer(s)] = "closed"
      BY <1>1, SidesFacts DEF TInv, Sync
    <2>2. CASE end["target"] = "absent"
      BY <1>1, <2>1, <2>2 DEF TInv, TypeOK, Dormant, Sides, Peer
    <2>3. CASE end["target"] # "absent"
      BY <1>1, <2>1, <2>3, SidesFacts DEF TInv, Sync, Cause
    <2>4. QED
      BY <2>2, <2>3
  <1>2. QED
    BY InvariantHolds, <1>1, PTL
\* One step, as the stream from side s sees it.
StreamStep(s) ==
  LET p == Peer(s) IN
  \/ /\ sent'[s] = sent[s] + 1 /\ end[s] = "open"
     /\ delivered'[s] = delivered[s] /\ told'[p] = told[p]
     /\ end'[s] = end[s] /\ end'[p] = end[p]
  \/ /\ sent'[s] = sent[s] /\ delivered'[s] = delivered[s] /\ told'[p] = told[p]
     /\ \/ end'[s] = end[s] /\ end'[p] = end[p]
        \/ \E x \in Sides :
             /\ end'[Peer(x)] = end[Peer(x)]
             /\ \/ end[x] = "absent" /\ end'[x] = "open"
                \/ end[x] = "open" /\ end'[x] = "fin"
                \/ end[x] \in {"open", "fin"} /\ end'[x] = "rst"
  \/ /\ sent'[s] = sent[s] /\ end'[s] = end[s] /\ end'[p] = end[p] /\ told[p] = "open"
     /\ \/ delivered'[s] = delivered[s]
        \/ delivered[s] < sent[s] /\ delivered'[s] = delivered[s] + 1
     /\ \/ told'[p] = "open"
        \/ /\ told'[p] \in {"fin", "rst"}
           /\ \/ end[s] = "fin" /\ delivered'[s] = sent[s]
              \/ end[s] \in {"absent", "rst"}
              \/ end[p] \in {"fin", "rst"}

\* A pipe that read to the end of file passed on everything, or the connection
\* it read was closed because the endpoint it writes to had ended.
LEMMA Excuse ==
  ASSUME TInv, NEW s \in Sides, reader[s] = "eof", written[s] = received[s]
  PROVE  \/ end[s] = "fin" /\ written[s] = sent[s]
         \/ end[s] \in {"absent", "rst"}
         \/ end[Peer(s)] \in {"fin", "rst", "absent"}
  BY SidesFacts DEF TInv, Cause, Broken, Sides

\* The same of a pipe that is over.
LEMMA EndedExcuse ==
  ASSUME TInv, NEW s \in Sides, pipe[s] \in {"ended", "failed"}
  PROVE  \/ end[s] = "fin" /\ written[s] = sent[s]
         \/ end[s] = "rst"
         \/ end[Peer(s)] \in {"fin", "rst"}
  <1> USE SidesFacts
  <1>0. TypeOK /\ Dormant /\ Sync /\ Cause
    BY DEF TInv
  <1>1. end["target"] # "absent" /\ end["client"] # "absent"
    BY <1>0 DEF Dormant, Sides
  <1>2. CASE Broken
    BY <1>2 DEF Broken
  <1>3. CASE ~Broken
    <2>1. pipe[s] = "ended" /\ reader[s] = "eof" /\ written[s] = received[s]
      BY <1>0, <1>1, <1>3 DEF Cause, Sync, Broken, TypeOK
    <2>2. QED
      BY <2>1, <1>1, Excuse DEF Sides
  <1>4. QED
    BY <1>2, <1>3

\* Every step of the tunnel is a step of the stream from s, or a stutter of it.
LEMMA StreamSteps == ASSUME TInv, Next, NEW s \in Sides PROVE StreamStep(s)
  <1> USE SidesFacts
  <1>0. TypeOK /\ Dormant /\ Sync /\ Cause /\ Room
    BY DEF TInv
  <1>1. CASE Connected
    BY <1>0, <1>1 DEF Connected, counters, StreamStep, TypeOK, Dormant, Sides, Peer
  <1>2. CASE ConnectFails
    <2>1. end["target"] = "absent" /\ conn["target"] = "none"
      BY <1>0, <1>2 DEF Dormant, ConnectFails
    <2>2. CASE s = "client"
      BY <1>0, <1>2, <2>1, <2>2, CloseFacts
         DEF ConnectFails, counters, StreamStep, Sides, Peer
    <2>3. CASE s = "target"
      BY <1>0, <1>2, <2>1, <2>3, CloseFacts
         DEF ConnectFails, counters, StreamStep, Sides, Peer, Sync
    <2>4. QED
      BY <2>2, <2>3 DEF Sides
  <1>3. CASE HandlerEnds
    <2>1. pipe[s] \in {"ended", "failed"} \/ Broken
      BY <1>0, <1>3 DEF HandlerEnds, PipesOver, Cause, Dormant, TypeOK
    <2>2. \/ end[s] = "fin" /\ written[s] = sent[s]
          \/ end[s] = "rst"
          \/ end[Peer(s)] \in {"fin", "rst"}
      BY <2>1, EndedExcuse DEF Broken
    <2>3. QED
      BY <1>0, <1>3, <2>2, CloseFacts
         DEF HandlerEnds, counters, StreamStep, Sync, Buffered, TypeOK
  <1>4. ASSUME NEW x \in Sides, Pipe(x) PROVE StreamStep(s)
    <2>1. CASE PipeMoves(x) \/ Drained(x)
      BY <2>1 DEF PipeMoves, Drained, counters, StreamStep
    <2>2. CASE PipeEnds(x)
      <3>1. \/ end[x] = "fin" /\ written[x] = sent[x]
            \/ end[x] \in {"absent", "rst"}
            \/ end[Peer(x)] \in {"fin", "rst"}
        <4>1. CASE reader[x] = "error"
          BY <4>1, <1>0 DEF Sync
        <4>2. CASE reader[x] = "eof" /\ written[x] = received[x]
          <5>1. end["target"] # "absent" /\ end["client"] # "absent"
            BY <1>0, <2>2 DEF Dormant, PipeEnds, Sides
          <5>2. QED
            BY <4>2, <5>1, Excuse DEF Sides
        <4>3. QED
          BY <4>1, <4>2, <2>2 DEF PipeEnds
      <3>2. CASE x = s
        BY <1>0, <2>2, <3>1, <3>2, CloseFacts
           DEF PipeEnds, counters, StreamStep, Sync, Buffered, TypeOK
      <3>3. CASE x = Peer(s)
        BY <1>0, <2>2, <3>3, CloseFacts DEF PipeEnds, counters, StreamStep
      <3>4. QED
        BY <3>2, <3>3
    <2>3. QED
      BY <1>4, <2>1, <2>2 DEF Pipe
  <1>5. ASSUME NEW x \in Sides, Transport(x) PROVE StreamStep(s)
    <2>1. CASE Receive(x) \/ ReceiveEnd(x)
      BY <2>1 DEF Receive, ReceiveEnd, counters, StreamStep
    <2>2. CASE Breaks(x)
      BY <1>0, <2>2 DEF Breaks, counters, StreamStep, Sync, TypeOK
    <2>3. QED
      BY <1>5, <2>1, <2>2 DEF Transport
  <1>6. ASSUME NEW x \in Sides, Flush(x) PROVE StreamStep(s)
    <2>1. CASE x = s
      BY <1>0, <1>6, <2>1 DEF Flush, Gone, StreamStep, TypeOK
    <2>2. CASE x = Peer(s)
      <3>1. delivered[s] < sent[s] /\ delivered'[s] = delivered[s] + 1 /\ told[x] = "open"
        BY <1>0, <1>6, <2>2 DEF Flush, Sync, TypeOK, Buffered
      <3>2. CASE conn[x] = "closing" /\ Buffered(x) = 1
        <4>1. \/ end[s] = "fin" /\ written[s] = sent[s]
              \/ end[s] \in {"absent", "rst"}
              \/ end[x] \in {"fin", "rst"}
          <5>1. CASE Broken
            BY <5>1, <2>2 DEF Broken
          <5>2. CASE ~Broken /\ end["target"] # "absent"
            BY <1>0, <2>2, <3>2, <5>2, EndedExcuse DEF Cause
          <5>3. CASE end["target"] = "absent"
            BY <1>0, <2>2, <3>2, <5>3 DEF Dormant, Sides, Peer
          <5>4. QED
            BY <5>1, <5>2, <5>3
        <4>2. delivered'[s] = written[s]
          BY <1>0, <2>2, <3>1, <3>2 DEF Buffered, TypeOK
        <4>3. QED
          BY <1>0, <1>6, <2>2, <3>1, <3>2, <4>1, <4>2 DEF Flush, Gone, StreamStep, TypeOK
      <3>3. CASE ~(conn[x] = "closing" /\ Buffered(x) = 1)
        BY <1>0, <1>6, <2>2, <3>1, <3>3 DEF Flush, Gone, StreamStep, TypeOK
      <3>4. QED
        BY <3>2, <3>3
    <2>3. QED
      BY <2>1, <2>2
  <1>7. ASSUME NEW x \in Sides, Send(x) PROVE StreamStep(s)
    BY <1>0, <1>7 DEF Send, StreamStep, TypeOK
  <1>8. ASSUME NEW x \in Sides, EndSending(x) PROVE StreamStep(s)
    BY <1>0, <1>8 DEF EndSending, counters, StreamStep, TypeOK
  <1>9. QED
    BY <1>1, <1>2, <1>3, <1>4, <1>5, <1>6, <1>7, <1>8 DEF Next, Handler

\* The tunnel implements two streams: an endpoint is told a clean end over
\* missing data only if its peer broke or it had itself ended first.
THEOREM StreamsImplemented == Spec => ImplementsStreams
  <1> USE SidesFacts
  <1>1. Init => Up!Init /\ Down!Init
    BY DEF Init, Up!Init, Down!Init, Sides
  <1>2. ASSUME TInv, Next, StreamStep("client") PROVE [Up!Next]_Up!vars
    BY <1>2 DEF StreamStep, Sides, Peer, Up!Next, Up!vars, Up!Send, Up!EndpointMoves,
                Up!DeliverOrEnd, Up!MayEnd
  <1>3. ASSUME TInv, Next, StreamStep("target") PROVE [Down!Next]_Down!vars
    BY <1>3 DEF StreamStep, Sides, Peer, Down!Next, Down!vars, Down!Send,
                Down!EndpointMoves, Down!DeliverOrEnd, Down!MayEnd
  <1>4. ASSUME TInv, [Next]_vars PROVE [Up!Next]_Up!vars /\ [Down!Next]_Down!vars
    <2>1. CASE Next
      BY <1>2, <1>3, <1>4, <2>1, StreamSteps DEF Sides
    <2>2. CASE UNCHANGED vars
      BY <2>2 DEF vars, counters, Up!vars, Down!vars
    <2>3. QED
      BY <1>4, <2>1, <2>2
  <1>5. QED
    BY InvariantHolds, <1>1, <1>4, PTL DEF Spec, ImplementsStreams, Up!Spec, Down!Spec
=============================================================================
