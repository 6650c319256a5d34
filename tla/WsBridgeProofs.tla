--------------------------- MODULE WsBridgeProofs ---------------------------
(***************************************************************************)
(* Theorems about WsBridge, for any sets of requests, keys and sockets and *)
(* any limits.                                                             *)
(***************************************************************************)
EXTENDS WsBridge, IdlePoolProofs

\* The phases in which the task has a socket: all that follow its checkout or
\* its connect, up to the step that closes or parks it.
Holding == {"sending", "awaiting", "discarding", "responding", "yielding", "receiving",
            "closing", "acking", "draining", "retiring", "abandoned", "crashed"}

\* What the phase of a task says of its other variables.
PhaseOK(r) ==
  /\ pc[r] \in Holding => conn[r] # None
  /\ pc[r] \notin Holding \cup {"stale"} => conn[r] = None
  /\ doomed[r] # {} => pc[r] \in {"stale", "evicting"}
  /\ pc[r] = "new" => attempt[r] = 0
  /\ pc[r] = "backoff" => attempt[r] < MaxAttempts
  /\ pc[r] \in {"responding", "yielding"} => cur[r] # None
  /\ pc[r] = "draining" => MaxIdle > 0

Shape ==
  /\ TypeOK
  /\ \A r \in Requests : PhaseOK(r)
  /\ server # "closing" => sweep = {}

-----------------------------------------------------------------------------
\* Facts about types.

LEMMA NoneIsNone ==
  None \notin Conns /\ None \notin Requests /\ None \notin Profiles /\ None \notin Messages
  BY WsBridgeAssumption

LEMMA HeldType ==
  ASSUME Shape, NEW r \in Requests, pc[r] \in Holding
  PROVE  conn[r] \in Conns
  BY DEF Shape, TypeOK, PhaseOK

LEMMA PooledType == TypeOK => Pooled \subseteq Conns
  <1> SUFFICES ASSUME TypeOK, NEW k \in Keys PROVE Range(idle[k]) \subseteq Conns
    BY DEF Pooled
  <1>1. idle[k] \in Seq(Conns)
    BY DEF TypeOK
  <1>2. QED
    BY <1>1, Entries

\* Closing a socket keeps the types of the network's variables.
LEMMA CloseType ==
  ASSUME TypeOK, NEW c \in Conns, Close(c)
  PROVE  /\ sock' \in [Conns -> {"unused", "open", "down", "closed"}]
         /\ openedFor' \in [Conns -> Profiles \cup {None}]
         /\ inbox' \in [Conns -> Seq(Messages)]
         /\ served' \in [Conns -> SUBSET Requests]
         /\ acked' \in SUBSET Conns
  BY WsBridgeAssumption DEF TypeOK, Close

\* So does taking the oldest message of the socket a task holds.
LEMMA ReceiveType ==
  ASSUME Shape, NEW r \in Requests, pc[r] \in Holding, Receive(r)
  PROVE  /\ inbox' \in [Conns -> Seq(Messages)]
         /\ Head(inbox[conn[r]]) \in Messages
         /\ cur' \in [Requests -> Messages \cup {None}]
         /\ cur' = [cur EXCEPT ![r] = Head(inbox[conn[r]])]
  <1>1. conn[r] \in Conns
    BY HeldType
  <1>2. inbox[conn[r]] \in Seq(Messages) /\ inbox[conn[r]] # <<>>
    BY <1>1 DEF Shape, TypeOK, Receive
  <1>3. Head(inbox[conn[r]]) \in Messages /\ Tail(inbox[conn[r]]) \in Seq(Messages)
    BY <1>2
  <1>4. QED
    BY <1>1, <1>3 DEF Shape, TypeOK, Receive

-----------------------------------------------------------------------------
LEMMA ShapeInit == Init => Shape
  BY WsBridgeAssumption DEF Init, Shape, TypeOK, PhaseOK, Phases, Holding

\* The locked section of _checkout.
LEMMA ShapeCheckout ==
  ASSUME Shape, NEW r \in Requests, BeginAttempt(r)
  PROVE  Shape'
  <1> DEFINE k == PoolKey(r)
             bucket == idle[k]
  <1>1. k \in Keys /\ bucket \in Seq(Conns)
    BY DEF Shape, TypeOK, PoolKey, Keys
  <1>2. PICK n \in 0 .. Len(bucket) :
          LET chosen == IF n = 0 THEN None ELSE bucket[n] IN
          /\ conn' = [conn EXCEPT ![r] = chosen]
          /\ Goto(r, IF Skipped(bucket, n) = {} THEN AfterCheckout(r, chosen) ELSE "stale")
          /\ doomed' = [doomed EXCEPT ![r] = Skipped(bucket, n)]
          /\ idle' = [idle EXCEPT ![k] = Left(bucket, n)]
          /\ expired' = expired \ Skipped(bucket, n)
    BY DEF BeginAttempt
  <1> DEFINE chosen == IF n = 0 THEN None ELSE bucket[n]
  <1>3. Left(bucket, n) \in Seq(Conns) /\ Skipped(bucket, n) \subseteq Conns
    BY <1>1, LeftFacts DEF Skipped
  <1>4. chosen \in Conns \cup {None} /\ (n = 0 => chosen = None) /\ (n > 0 => chosen # None)
    BY <1>1, NoneIsNone
  <1>5. pc[r] \in {"new", "backoff"} /\ attempt[r] \in 0 .. MaxAttempts /\ attempt[r] < MaxAttempts
    BY WsBridgeAssumption DEF Shape, TypeOK, PhaseOK, BeginAttempt
  <1>6. attempt' = [attempt EXCEPT ![r] = attempt[r] + 1] /\ UNCHANGED <<request, cur, netVars, downVars>>
    BY DEF BeginAttempt
  <1>7. /\ conn' = [conn EXCEPT ![r] = chosen]
        /\ doomed' = [doomed EXCEPT ![r] = Skipped(bucket, n)]
        /\ idle' = [idle EXCEPT ![k] = Left(bucket, n)]
        /\ expired' = expired \ Skipped(bucket, n)
    BY <1>2 DEF chosen
  <1>8. PICK phase :
          /\ pc' = [pc EXCEPT ![r] = phase]
          /\ \/ phase = "stale"
             \/ phase = "connecting" /\ chosen = None /\ Skipped(bucket, n) = {}
             \/ phase = "sending" /\ chosen # None /\ Skipped(bucket, n) = {}
    BY <1>2 DEF Goto, AfterCheckout, chosen
  <1> HIDE DEF k, bucket, chosen
  <1>9. TypeOK'
    <2>1. pc' \in [Requests -> Phases] /\ conn' \in [Requests -> Conns \cup {None}]
      BY <1>4, <1>7, <1>8 DEF Shape, TypeOK, Phases
    <2>2. attempt' \in [Requests -> 0 .. MaxAttempts]
      BY <1>5, <1>6, WsBridgeAssumption DEF Shape, TypeOK
    <2>3. doomed' \in [Requests -> SUBSET Conns] /\ expired' \in SUBSET Conns
      BY <1>3, <1>7 DEF Shape, TypeOK
    <2>4. idle' \in [Keys -> Seq(Conns)]
      BY <1>1, <1>3, <1>7 DEF Shape, TypeOK
    <2>5. QED
      BY <1>6, <2>1, <2>2, <2>3, <2>4 DEF Shape, TypeOK, netVars, downVars
  <1>10. \A s \in Requests : PhaseOK(s)'
    BY <1>4, <1>5, <1>6, <1>7, <1>8 DEF Shape, TypeOK, PhaseOK, Holding
  <1>11. QED
    BY <1>6, <1>9, <1>10 DEF Shape, downVars

\* The steps of a task that touch none but its own variables.
LEMMA ShapeOwnStep ==
  ASSUME Shape, NEW r \in Requests,
         SendCreateFails(r) \/ FirstMessageFails(r) \/ Abandon(r) \/ Delivered(r) \/ StreamFails(r) \/ ClientLeaves(r) \/ AckFails(r) \/ DrainSees(r) \/ DrainFails(r) \/ Reject(r) \/ StartStream(r) \/ ConnectFails(r) \/ Release(r)
  PROVE  Shape'
  <1>1. CASE SendCreateFails(r)
    BY <1>1, NoneIsNone, WsBridgeAssumption, MaxIdleAssumption
       DEF Shape, TypeOK, PhaseOK, Holding, Phases, Goto, SendCreateFails, taskVars, netVars, poolVars, downVars
  <1>2. CASE FirstMessageFails(r)
    BY <1>2, NoneIsNone, WsBridgeAssumption, MaxIdleAssumption
       DEF Shape, TypeOK, PhaseOK, Holding, Phases, Goto, FirstMessageFails, taskVars, netVars, poolVars, downVars
  <1>3. CASE Abandon(r)
    BY <1>3, NoneIsNone, WsBridgeAssumption, MaxIdleAssumption
       DEF Shape, TypeOK, PhaseOK, Holding, Phases, Goto, Abandon, taskVars, netVars, poolVars, downVars
  <1>4. CASE Delivered(r)
    BY <1>4, NoneIsNone, WsBridgeAssumption, MaxIdleAssumption
       DEF Shape, TypeOK, PhaseOK, Holding, Phases, Goto, Delivered, taskVars, netVars, poolVars, downVars
  <1>5. CASE StreamFails(r)
    BY <1>5, NoneIsNone, WsBridgeAssumption, MaxIdleAssumption
       DEF Shape, TypeOK, PhaseOK, Holding, Phases, Goto, StreamFails, taskVars, netVars, poolVars, downVars
  <1>6. CASE ClientLeaves(r)
    BY <1>6, NoneIsNone, WsBridgeAssumption, MaxIdleAssumption
       DEF Shape, TypeOK, PhaseOK, Holding, Phases, Goto, ClientLeaves, taskVars, netVars, poolVars, downVars
  <1>7. CASE AckFails(r)
    BY <1>7, NoneIsNone, WsBridgeAssumption, MaxIdleAssumption
       DEF Shape, TypeOK, PhaseOK, Holding, Phases, Goto, AckFails, taskVars, netVars, poolVars, downVars
  <1>8. CASE DrainSees(r)
    BY <1>8, NoneIsNone, WsBridgeAssumption, MaxIdleAssumption
       DEF Shape, TypeOK, PhaseOK, Holding, Phases, Goto, DrainSees, AfterPending, taskVars, netVars, poolVars, downVars
  <1>9. CASE DrainFails(r)
    BY <1>9, NoneIsNone, WsBridgeAssumption, MaxIdleAssumption
       DEF Shape, TypeOK, PhaseOK, Holding, Phases, Goto, DrainFails, taskVars, netVars, poolVars, downVars
  <1>10. CASE Reject(r)
    BY <1>10, NoneIsNone, WsBridgeAssumption, MaxIdleAssumption
       DEF Shape, TypeOK, PhaseOK, Holding, Phases, Goto, Reject, taskVars, netVars, poolVars, downVars
  <1>11. CASE StartStream(r)
    BY <1>11, NoneIsNone, WsBridgeAssumption, MaxIdleAssumption
       DEF Shape, TypeOK, PhaseOK, Holding, Phases, Goto, StartStream, Emit, taskVars, netVars, poolVars, downVars
  <1>12. CASE ConnectFails(r)
    BY <1>12, NoneIsNone, WsBridgeAssumption, MaxIdleAssumption
       DEF Shape, TypeOK, PhaseOK, Holding, Phases, Goto, ConnectFails, AfterFailure, MayRetry, taskVars, netVars, poolVars, downVars
  <1>13. CASE Release(r)
    BY <1>13, NoneIsNone, WsBridgeAssumption, MaxIdleAssumption
       DEF Shape, TypeOK, PhaseOK, Holding, Phases, Goto, Release, AfterPending, Refused, taskVars, netVars, poolVars, downVars
  <1> QED
    BY <1>1, <1>2, <1>3, <1>4, <1>5, <1>6, <1>7, <1>8, <1>9, <1>10, <1>11, <1>12, <1>13

\* The steps of a task that act on its socket or on the pool.
LEMMA ShapeSocketStep ==
  ASSUME Shape, NEW r \in Requests,
         \/ CloseDoomed(r) \/ Connect(r) \/ SendCreate(r) \/ FirstMessage(r)
         \/ CloseHeld(r) \/ StreamMessage(r) \/ Park(r)
  PROVE  Shape'
  <1> USE DEF poolVars, downVars
  <1>1. CASE CloseDoomed(r)
    <2>1. PICK c \in doomed[r] : Close(c) /\ doomed' = [doomed EXCEPT ![r] = @ \ {c}]
      BY <1>1 DEF CloseDoomed
    <2>2. c \in Conns
      BY DEF Shape, TypeOK
    <2>3. TypeOK'
      BY <1>1, <2>1, <2>2, CloseType
         DEF Shape, TypeOK, CloseDoomed, Goto, AfterCheckout, Phases
    <2>4. \A s \in Requests : PhaseOK(s)'
      BY <1>1, <2>1, NoneIsNone
         DEF Shape, TypeOK, PhaseOK, Holding, CloseDoomed, Goto, AfterCheckout
    <2>5. QED
      BY <1>1, <2>3, <2>4 DEF Shape, CloseDoomed
  <1>2. CASE Connect(r)
    BY <1>2, NoneIsNone
       DEF Shape, TypeOK, PhaseOK, Holding, Phases, Goto, Connect
  <1>3. CASE SendCreate(r)
    BY <1>3, NoneIsNone, WsBridgeAssumption
       DEF Shape, TypeOK, PhaseOK, Holding, Phases, Goto, SendCreate
  <1>4. CASE FirstMessage(r)
    <2>1. pc[r] \in Holding
      BY <1>4 DEF FirstMessage, Holding
    <2>2. Receive(r)
      BY <1>4 DEF FirstMessage
    <2>3. QED
      BY <1>4, <2>1, <2>2, ReceiveType, NoneIsNone
         DEF Shape, TypeOK, PhaseOK, Holding, Phases, Goto, FirstMessage, Receive
  <1>5. CASE CloseHeld(r)
    <2>1. conn[r] \in Conns /\ Close(conn[r])
      BY <1>5, HeldType DEF CloseHeld, Holding
    <2>2. TypeOK'
      BY <1>5, <2>1, CloseType
         DEF Shape, TypeOK, CloseHeld, Goto, AfterFailure, Phases
    <2>3. \A s \in Requests : PhaseOK(s)'
      <3>1. pc' = [pc EXCEPT ![r] = IF pc[r] = "discarding" /\ attempt[r] < MaxAttempts
                                   THEN "backoff" ELSE "done"]
        BY <1>5 DEF CloseHeld, Goto, AfterFailure, MayRetry
      <3>2. doomed[r] = {} /\ UNCHANGED <<doomed, attempt>>
        BY <1>5 DEF CloseHeld, Shape, PhaseOK
      <3>3. conn' = [conn EXCEPT ![r] = None] /\ cur' = [cur EXCEPT ![r] = None]
        BY <1>5 DEF CloseHeld
      <3>4. QED
        BY <3>1, <3>2, <3>3 DEF Shape, TypeOK, PhaseOK, Holding
    <2>4. QED
      BY <1>5, <2>2, <2>3 DEF Shape, CloseHeld
  <1>6. CASE StreamMessage(r)
    <2>1. pc[r] \in Holding
      BY <1>6 DEF StreamMessage, Holding
    <2>2. Receive(r)
      BY <1>6 DEF StreamMessage
    <2>3. QED
      BY <1>6, <2>1, <2>2, ReceiveType, NoneIsNone
         DEF Shape, TypeOK, PhaseOK, Holding, Phases, Goto, StreamMessage, Emit, Receive
  <1>7. CASE Park(r)
    <2> DEFINE k == PoolKey(r)
               bucket == idle[k]
    <2>1. k \in Keys /\ bucket \in Seq(Conns)
      BY DEF Shape, TypeOK, PoolKey, Keys
    <2>2. conn[r] \in Conns /\ MaxIdle > 0
      BY <1>7, HeldType DEF Park, Holding, Shape, PhaseOK
    <2>3. Parked(bucket, conn[r]) \in Seq(Conns) /\ Evicted(bucket) \subseteq Conns
      <3>1. Overflow(bucket) \in 0 .. Len(bucket)
        BY <2>1, <2>2, OverflowFacts
      <3>2. Evicted(bucket) \subseteq Conns
        BY <2>1, <3>1 DEF Evicted
      <3>3. QED
        BY <2>1, <2>2, <3>2, ParkedFacts
    <2>4. /\ idle' = [idle EXCEPT ![k] = Parked(bucket, conn[r])]
          /\ expired' = expired \ Evicted(bucket)
          /\ doomed' = [doomed EXCEPT ![r] = Evicted(bucket)]
          /\ conn' = [conn EXCEPT ![r] = None]
          /\ Goto(r, IF Evicted(bucket) = {} THEN "done" ELSE "evicting")
          /\ UNCHANGED <<request, attempt, cur, netVars, downVars>>
      BY <1>7 DEF Park
    <2> HIDE DEF k, bucket
    <2>5. TypeOK'
      BY <2>1, <2>3, <2>4 DEF Shape, TypeOK, Goto, Phases, netVars
    <2>6. \A s \in Requests : PhaseOK(s)'
      BY <1>7, <2>4 DEF Shape, TypeOK, PhaseOK, Holding, Goto, Park
    <2>7. QED
      BY <2>4, <2>5, <2>6 DEF Shape
  <1>8. QED
    BY <1>1, <1>2, <1>3, <1>4, <1>5, <1>6, <1>7

\* The steps of aclose and of the environment.
LEMMA ShapeOtherStep ==
  ASSUME Shape,
         \/ Aclose
         \/ \E c \in Conns : PeerCloses(c)
         \/ \E c \in Conns, r \in Requests, kind \in Kinds : UpstreamSends(c, r, kind)
         \/ \E k \in Keys : IdleExpires(k)
         \/ UNCHANGED vars
  PROVE  Shape'
  <1> USE DEF taskVars, netVars, poolVars, downVars
  <1>1. CASE AcloseBegin
    BY <1>1, PooledType DEF Shape, TypeOK, PhaseOK, AcloseBegin
  <1>2. CASE SweepClose
    <2>1. PICK c \in sweep : Close(c) /\ sweep' = sweep \ {c}
      BY <1>2 DEF SweepClose
    <2>2. c \in Conns
      BY DEF Shape, TypeOK
    <2>3. QED
      BY <1>2, <2>1, <2>2, CloseType DEF Shape, TypeOK, PhaseOK, SweepClose
  <1>3. CASE AcloseEnd
    BY <1>3 DEF Shape, TypeOK, PhaseOK, AcloseEnd
  <1>4. ASSUME NEW c \in Conns, PeerCloses(c) PROVE Shape'
    BY <1>4 DEF Shape, TypeOK, PhaseOK, PeerCloses
  <1>5. ASSUME NEW c \in Conns, NEW r \in Requests, NEW kind \in Kinds, UpstreamSends(c, r, kind)
        PROVE  Shape'
    <2> DEFINE m == [for |-> r, kind |-> kind, late |-> ~InFlight(c, r)]
    <2>1. m \in Messages
      BY DEF Messages, InFlight
    <2> HIDE DEF m
    <2>2. inbox' = [inbox EXCEPT ![c] = Append(@, m)]
      BY <1>5 DEF UpstreamSends, m
    <2>3. inbox' \in [Conns -> Seq(Messages)]
      BY <2>1, <2>2 DEF Shape, TypeOK
    <2>4. QED
      BY <1>5, <2>3, WsBridgeAssumption DEF Shape, TypeOK, PhaseOK, UpstreamSends
  <1>6. ASSUME NEW k \in Keys, IdleExpires(k) PROVE Shape'
    <2>1. idle[k] \in Seq(Conns)
      BY DEF Shape, TypeOK
    <2>2. PICK i \in DOMAIN idle[k] : expired' = expired \cup {idle[k][i]}
      BY <1>6 DEF IdleExpires
    <2>3. expired' \in SUBSET Conns
      BY <2>1, <2>2 DEF Shape, TypeOK
    <2>4. QED
      BY <1>6, <2>3 DEF Shape, TypeOK, PhaseOK, IdleExpires
  <1>7. CASE UNCHANGED vars
    BY <1>7 DEF Shape, TypeOK, PhaseOK, vars
  <1>8. QED
    BY <1>1, <1>2, <1>3, <1>4, <1>5, <1>6, <1>7 DEF Aclose

LEMMA ShapeStep == Shape /\ [Next]_vars => Shape'
  BY ShapeCheckout, ShapeOwnStep, ShapeSocketStep, ShapeOtherStep
     DEF Next, Handle, Environment, Stopped

\* In every reachable state the variables have their types and the phase of a
\* task tells whether it has a socket, a message and a list of sockets to close.
THEOREM ShapeHolds == Spec => []Shape
  BY ShapeInit, ShapeStep, PTL DEF Spec

\* Type correctness, for any number of requests, keys, sockets and attempts.
THEOREM TypeCorrect == Spec => []TypeOK
  <1>1. Shape => TypeOK
    BY DEF Shape
  <1>2. QED
    BY <1>1, ShapeHolds, PTL

-----------------------------------------------------------------------------
(* Ownership of the sockets.                                                *)

Bucket(k) == Range(idle[k])

\* SingleOwner, for each pair of places in which a socket can be.
Apart ==
  /\ \A r, s \in Requests : conn[r] # None /\ conn[r] = conn[s] => r = s
  /\ \A r, s \in Requests : r # s => doomed[r] \cap doomed[s] = {}
  /\ \A k, l \in Keys : k # l => Bucket(k) \cap Bucket(l) = {}
  /\ \A k \in Keys : IsInjective(idle[k])
  /\ \A r \in Requests : doomed[r] \cap sweep = {}
  /\ \A r \in Requests, k \in Keys : conn[r] \notin Bucket(k)
  /\ \A r, s \in Requests : conn[r] \notin doomed[s]
  /\ \A r \in Requests : conn[r] \notin sweep
  /\ \A r \in Requests, k \in Keys : Bucket(k) \cap doomed[r] = {}
  /\ \A k \in Keys : Bucket(k) \cap sweep = {}

\* NoUseAfterClose, for each of these places.
Alive ==
  /\ \A r \in Requests : conn[r] # None => conn[r] \in Live
  /\ \A k \in Keys : Bucket(k) \subseteq Live
  /\ \A r \in Requests : doomed[r] \subseteq Live
  /\ sweep \subseteq Live

Ownership == Shape /\ Apart /\ Alive

\* What a checkout does: it splits the bucket of r's key into the socket r gets,
\* the sockets r must close and those that stay.
LEMMA CheckoutEffect ==
  ASSUME Shape, NEW r \in Requests, NEW k \in Keys, k = PoolKey(r), BeginAttempt(r)
  PROVE  /\ conn[r] = None /\ doomed[r] = {}
         /\ \A s \in Requests \ {r} : conn'[s] = conn[s] /\ doomed'[s] = doomed[s]
         /\ \A j \in Keys \ {k} : idle'[j] = idle[j]
         /\ Bucket(k) =
              Bucket(k)' \cup doomed'[r] \cup ({conn'[r]} \ {None})
         /\ IsInjective(idle[k]) =>
              /\ IsInjective(idle'[k])
              /\ Bucket(k)' \cap doomed'[r] = {}
              /\ conn'[r] \notin Bucket(k)' \cup doomed'[r]
         /\ Len(idle'[k]) <= Len(idle[k])
         /\ UNCHANGED <<request, netVars, downVars>>
  <1> DEFINE b == idle[k]
  <1>1. b \in Seq(Conns)
    BY DEF Shape, TypeOK
  <1>2. PICK n \in 0 .. Len(b) :
          /\ conn' = [conn EXCEPT ![r] = IF n = 0 THEN None ELSE b[n]]
          /\ doomed' = [doomed EXCEPT ![r] = Skipped(b, n)]
          /\ idle' = [idle EXCEPT ![k] = Left(b, n)]
    BY DEF BeginAttempt
  <1>3. conn[r] = None /\ doomed[r] = {}
    BY DEF Shape, TypeOK, PhaseOK, Holding, BeginAttempt
  <1>4. conn'[r] = (IF n = 0 THEN None ELSE b[n]) /\ doomed'[r] = Skipped(b, n)
    BY <1>2 DEF Shape, TypeOK
  <1>5. idle'[k] = Left(b, n) /\ Bucket(k)' = Range(Left(b, n)) /\ Bucket(k) = Range(b)
    <2>1. idle'[k] = Left(b, n)
      BY <1>2 DEF Shape, TypeOK
    <2>2. QED
      BY <2>1 DEF Bucket
  <1>6. n # 0 => b[n] # None
    BY <1>1, NoneIsNone
  <1>7. Bucket(k) = Bucket(k)' \cup doomed'[r] \cup ({conn'[r]} \ {None})
    BY <1>1, <1>4, <1>5, <1>6, CheckoutSplits
  <1>8. ASSUME IsInjective(b)
        PROVE  /\ IsInjective(idle'[k])
               /\ Bucket(k)' \cap doomed'[r] = {}
               /\ conn'[r] \notin Bucket(k)' \cup doomed'[r]
    <2>1. Bucket(k)' \cup doomed'[r] \subseteq Conns
      <3>1. Range(b) \subseteq Conns
        BY <1>1, Entries
      <3>2. Bucket(k) \subseteq Conns
        BY <1>5, <3>1
      <3>3. QED
        BY <1>7, <3>2
    <2>2. n = 0 => conn'[r] \notin Bucket(k)' \cup doomed'[r]
      BY <1>4, <2>1, NoneIsNone
    <2>3. n > 0 => conn'[r] \notin Bucket(k)' \cup doomed'[r]
      BY <1>1, <1>4, <1>5, <1>8, CheckoutSeparates
    <2>4. IsInjective(idle'[k]) /\ Bucket(k)' \cap doomed'[r] = {}
      BY <1>1, <1>4, <1>5, <1>8, CheckoutSeparates
    <2>5. QED
      BY <2>2, <2>3, <2>4
  <1>9. Len(idle'[k]) <= Len(b)
    BY <1>1, <1>5, LeftFacts
  <1>10. \A s \in Requests \ {r} : conn'[s] = conn[s] /\ doomed'[s] = doomed[s]
    BY <1>2 DEF Shape, TypeOK
  <1>11. \A j \in Keys \ {k} : idle'[j] = idle[j]
    BY <1>2 DEF Shape, TypeOK
  <1>12. UNCHANGED <<request, netVars, downVars>>
    BY DEF BeginAttempt
  <1>13. QED
    BY <1>1, <1>3, <1>7, <1>8, <1>9, <1>10, <1>11, <1>12

\* What parking does: r's socket joins the bucket of r's key, and what the
\* bucket loses is what r must close.
LEMMA ParkEffect ==
  ASSUME Shape, NEW r \in Requests, NEW k \in Keys, k = PoolKey(r), Park(r)
  PROVE  /\ conn[r] \in Conns /\ conn'[r] = None /\ doomed[r] = {}
         /\ \A s \in Requests \ {r} : conn'[s] = conn[s] /\ doomed'[s] = doomed[s]
         /\ \A j \in Keys \ {k} : idle'[j] = idle[j]
         /\ Bucket(k)' \cup doomed'[r] = Bucket(k) \cup {conn[r]}
         /\ conn[r] \in Bucket(k)' /\ doomed'[r] \subseteq Bucket(k)
         /\ IsInjective(idle[k]) /\ conn[r] \notin Bucket(k) =>
              /\ IsInjective(idle'[k])
              /\ Bucket(k)' \cap doomed'[r] = {}
         /\ Len(idle'[k]) <= MaxIdle
         /\ UNCHANGED <<request, netVars, downVars>>
  <1> DEFINE b == idle[k]
  <1>1. b \in Seq(Conns)
    BY DEF Shape, TypeOK
  <1>2. conn[r] \in Conns /\ MaxIdle > 0 /\ doomed[r] = {}
    BY HeldType DEF Park, Holding, Shape, PhaseOK
  <1>3. /\ conn' = [conn EXCEPT ![r] = None]
        /\ doomed' = [doomed EXCEPT ![r] = Evicted(b)]
        /\ idle' = [idle EXCEPT ![k] = Parked(b, conn[r])]
        /\ UNCHANGED <<request, netVars, downVars>>
    BY DEF Park
  <1>4. conn'[r] = None /\ doomed'[r] = Evicted(b)
    BY <1>3 DEF Shape, TypeOK
  <1>5. /\ idle'[k] = Parked(b, conn[r])
        /\ Bucket(k)' = Range(Parked(b, conn[r])) /\ Bucket(k) = Range(b)
    <2>1. idle'[k] = Parked(b, conn[r])
      BY <1>3 DEF Shape, TypeOK
    <2>2. QED
      BY <2>1 DEF Bucket
  <1>6. /\ Bucket(k)' \cup doomed'[r] = Bucket(k) \cup {conn[r]}
        /\ conn[r] \in Bucket(k)' /\ doomed'[r] \subseteq Bucket(k)
    BY <1>1, <1>2, <1>4, <1>5, ParkedEntries
  <1>7. ASSUME IsInjective(b), conn[r] \notin Bucket(k)
        PROVE  IsInjective(idle'[k]) /\ Bucket(k)' \cap doomed'[r] = {}
    BY <1>1, <1>2, <1>4, <1>5, <1>7, ReleaseSeparates
  <1>8. Len(idle'[k]) <= MaxIdle
    BY <1>1, <1>2, <1>5, ParkedFacts, OverflowFacts
  <1>9. \A s \in Requests \ {r} : conn'[s] = conn[s] /\ doomed'[s] = doomed[s]
    BY <1>3 DEF Shape, TypeOK
  <1>10. \A j \in Keys \ {k} : idle'[j] = idle[j]
    BY <1>3 DEF Shape, TypeOK
  <1>11. QED
    BY <1>1, <1>2, <1>3, <1>4, <1>6, <1>7, <1>8, <1>9, <1>10

\* A step that moves no socket from one place to another.
LEMMA OwnershipStable ==
  ASSUME Ownership, Shape', UNCHANGED <<conn, doomed, idle, sweep>>, Live' = Live
  PROVE  Ownership'
  BY DEF Ownership, Apart, Alive, Bucket

LEMMA OwnershipInit == Init => Ownership
  <1> SUFFICES ASSUME Init PROVE Apart /\ Alive
    BY ShapeInit DEF Ownership
  <1>1. \A k \in Keys : idle[k] = <<>> /\ Bucket(k) = {} /\ IsInjective(idle[k])
    BY DEF Init, Bucket, Range, IsInjective
  <1>2. (\A r \in Requests : conn[r] = None /\ doomed[r] = {}) /\ sweep = {}
    BY DEF Init
  <1>3. QED
    BY <1>1, <1>2 DEF Apart, Alive

LEMMA OwnershipCheckout ==
  ASSUME Ownership, NEW r \in Requests, BeginAttempt(r)
  PROVE  Ownership'
  <1> PICK k \in Keys : k = PoolKey(r)
    BY DEF Ownership, Shape, TypeOK, PoolKey, Keys
  <1>1. Shape /\ Shape'
    BY ShapeCheckout DEF Ownership
  <1>2. /\ conn[r] = None /\ doomed[r] = {}
        /\ \A s \in Requests \ {r} : conn'[s] = conn[s] /\ doomed'[s] = doomed[s]
        /\ \A j \in Keys \ {k} : idle'[j] = idle[j]
        /\ Bucket(k) = Bucket(k)' \cup doomed'[r] \cup ({conn'[r]} \ {None})
        /\ UNCHANGED <<sock, sweep>>
    BY <1>1, CheckoutEffect DEF netVars, downVars
  <1>3. /\ IsInjective(idle'[k])
        /\ Bucket(k)' \cap doomed'[r] = {}
        /\ conn'[r] \notin Bucket(k)' \cup doomed'[r]
    BY <1>1, CheckoutEffect DEF Ownership, Apart
  <1>4. \A j \in Keys \ {k} : Bucket(j)' = Bucket(j)
    BY <1>2 DEF Bucket
  <1>5. Live' = Live
    BY <1>2 DEF Live
  <1>6. conn'[r] \in Bucket(k) \/ conn'[r] = None
    BY <1>2
  <1>7. None \notin Live
    BY NoneIsNone DEF Live
  <1>8. Apart'
    BY <1>2, <1>3, <1>4, <1>6, <1>7 DEF Ownership, Apart, Alive
  <1>9. Alive'
    BY <1>2, <1>4, <1>5, <1>6 DEF Ownership, Alive
  <1>10. QED
    BY <1>1, <1>8, <1>9 DEF Ownership

LEMMA OwnershipPark ==
  ASSUME Ownership, NEW r \in Requests, Park(r)
  PROVE  Ownership'
  <1> PICK k \in Keys : k = PoolKey(r)
    BY DEF Ownership, Shape, TypeOK, PoolKey, Keys
  <1>1. Shape /\ Shape'
    BY ShapeSocketStep DEF Ownership
  <1>2. /\ conn[r] \in Conns /\ conn'[r] = None /\ doomed[r] = {}
        /\ \A s \in Requests \ {r} : conn'[s] = conn[s] /\ doomed'[s] = doomed[s]
        /\ \A j \in Keys \ {k} : idle'[j] = idle[j]
        /\ Bucket(k)' \cup doomed'[r] = Bucket(k) \cup {conn[r]}
        /\ UNCHANGED <<sock, sweep>>
    BY <1>1, ParkEffect DEF netVars, downVars
  <1>3. conn[r] # None /\ conn[r] \notin Bucket(k)
    BY <1>2, NoneIsNone DEF Ownership, Apart
  <1>4. IsInjective(idle'[k]) /\ Bucket(k)' \cap doomed'[r] = {}
    BY <1>1, <1>3, ParkEffect DEF Ownership, Apart
  <1>5. \A j \in Keys \ {k} : Bucket(j)' = Bucket(j)
    BY <1>2 DEF Bucket
  <1>6. Live' = Live
    BY <1>2 DEF Live
  <1>7. None \notin Live
    BY NoneIsNone DEF Live
  <1>8. Apart'
    BY <1>2, <1>3, <1>4, <1>5, <1>7 DEF Ownership, Apart, Alive
  <1>9. Alive'
    BY <1>2, <1>3, <1>5, <1>6 DEF Ownership, Alive
  <1>10. QED
    BY <1>1, <1>8, <1>9 DEF Ownership

\* Closing a socket takes it, and no other, out of Live.
LEMMA CloseLive ==
  ASSUME Shape, NEW c \in Conns, Close(c)
  PROVE  Live' = Live \ {c}
  BY DEF Shape, TypeOK, Close, Live

LEMMA OwnershipStep == Ownership /\ [Next]_vars => Ownership'
  <1> SUFFICES ASSUME Ownership, [Next]_vars PROVE Ownership'
    OBVIOUS
  <1>0. Shape /\ Shape' /\ None \notin Live
    BY ShapeStep, NoneIsNone DEF Ownership, Live
  <1>1. ASSUME NEW r \in Requests, BeginAttempt(r) PROVE Ownership'
    BY <1>1, OwnershipCheckout
  <1>2. ASSUME NEW r \in Requests, Park(r) PROVE Ownership'
    BY <1>2, OwnershipPark
  <1>3. ASSUME NEW r \in Requests, CloseDoomed(r) PROVE Ownership'
    <2>1. PICK c \in doomed[r] : Close(c) /\ doomed' = [doomed EXCEPT ![r] = @ \ {c}]
      BY <1>3 DEF CloseDoomed
    <2>2. c \in Conns /\ UNCHANGED <<conn, idle, sweep>>
      BY <1>0, <1>3 DEF Shape, TypeOK, CloseDoomed, poolVars, downVars
    <2>3. Live' = Live \ {c}
      BY <1>0, <2>1, <2>2, CloseLive
    <2>4. /\ doomed'[r] = doomed[r] \ {c}
          /\ \A s \in Requests \ {r} : doomed'[s] = doomed[s]
      BY <1>0, <2>1 DEF Shape, TypeOK
    <2>5. Apart'
      BY <2>2, <2>4 DEF Ownership, Apart, Bucket
    <2>6. Alive'
      BY <2>1, <2>2, <2>3, <2>4 DEF Ownership, Apart, Alive, Bucket
    <2>7. QED
      BY <1>0, <2>5, <2>6 DEF Ownership
  <1>4. ASSUME NEW r \in Requests, Connect(r) PROVE Ownership'
    <2>1. PICK c \in Conns : /\ sock[c] = "unused"
                             /\ sock' = [sock EXCEPT ![c] = "open"]
                             /\ conn' = [conn EXCEPT ![r] = c]
      BY <1>4 DEF Connect
    <2>2. c \notin Live /\ Live' = Live \cup {c} /\ c # None
      BY <1>0, <2>1, NoneIsNone DEF Shape, TypeOK, Live
    <2>3. UNCHANGED <<doomed, idle, sweep>>
      BY <1>4 DEF Connect, poolVars, downVars
    <2>4. conn'[r] = c /\ \A s \in Requests \ {r} : conn'[s] = conn[s]
      BY <1>0, <2>1 DEF Shape, TypeOK
    <2>5. Apart'
      BY <2>2, <2>3, <2>4 DEF Ownership, Apart, Alive, Bucket
    <2>6. Alive'
      BY <2>2, <2>3, <2>4 DEF Ownership, Alive, Bucket
    <2>7. QED
      BY <1>0, <2>5, <2>6 DEF Ownership
  <1>5. ASSUME NEW r \in Requests, CloseHeld(r) PROVE Ownership'
    <2>1. /\ conn[r] \in Conns /\ conn[r] # None /\ Close(conn[r])
          /\ conn' = [conn EXCEPT ![r] = None]
          /\ UNCHANGED <<doomed, idle, sweep>>
      BY <1>0, <1>5, HeldType, NoneIsNone DEF CloseHeld, Holding, poolVars, downVars
    <2>2. Live' = Live \ {conn[r]}
      BY <1>0, <2>1, CloseLive
    <2>3. conn'[r] = None /\ \A s \in Requests \ {r} : conn'[s] = conn[s]
      BY <1>0, <2>1 DEF Shape, TypeOK
    <2>4. Apart'
      BY <1>0, <2>1, <2>3 DEF Ownership, Apart, Alive, Bucket
    <2>5. Alive'
      BY <2>1, <2>2, <2>3 DEF Ownership, Apart, Alive, Bucket
    <2>6. QED
      BY <1>0, <2>4, <2>5 DEF Ownership
  <1>6. CASE AcloseBegin
    <2>1. /\ sweep' = Pooled /\ UNCHANGED <<conn, doomed, sock>>
          /\ \A k \in Keys : idle'[k] = <<>>
      BY <1>6 DEF AcloseBegin, taskVars, netVars
    <2>2. \A k \in Keys : Bucket(k)' = {} /\ IsInjective(idle'[k])
      BY <2>1 DEF Bucket, Range, IsInjective
    <2>3. \A c : c \in Pooled <=> \E k \in Keys : c \in Bucket(k)
      BY DEF Pooled, Bucket
    <2>4. Live' = Live
      BY <2>1 DEF Live
    <2>5. Apart'
      BY <2>1, <2>2, <2>3 DEF Ownership, Apart
    <2>6. Alive'
      BY <2>1, <2>2, <2>3, <2>4 DEF Ownership, Alive
    <2>7. QED
      BY <1>0, <2>5, <2>6 DEF Ownership
  <1>7. CASE SweepClose
    <2>1. PICK c \in sweep : Close(c) /\ sweep' = sweep \ {c}
      BY <1>7 DEF SweepClose
    <2>2. c \in Conns /\ UNCHANGED <<conn, doomed, idle>>
      BY <1>0, <1>7 DEF Shape, TypeOK, SweepClose, taskVars, poolVars
    <2>3. Live' = Live \ {c}
      BY <1>0, <2>1, <2>2, CloseLive
    <2>4. Apart'
      BY <2>1, <2>2 DEF Ownership, Apart, Bucket
    <2>5. Alive'
      BY <1>0, <2>1, <2>2, <2>3 DEF Ownership, Apart, Alive, Bucket
    <2>6. QED
      BY <1>0, <2>4, <2>5 DEF Ownership
  <1>8. ASSUME NEW c \in Conns, PeerCloses(c) PROVE Ownership'
    <2>1. Live' = Live /\ UNCHANGED <<conn, doomed, idle, sweep>>
      BY <1>0, <1>8 DEF Shape, TypeOK, PeerCloses, Live, taskVars, poolVars, downVars
    <2>2. QED
      BY <1>0, <2>1, OwnershipStable
  <1>9. ASSUME NEW r \in Requests,
               \/ ConnectFails(r) \/ SendCreate(r) \/ SendCreateFails(r) \/ FirstMessage(r)
               \/ FirstMessageFails(r) \/ StartStream(r) \/ StreamMessage(r) \/ StreamFails(r)
               \/ Release(r) \/ AckFails(r) \/ DrainSees(r) \/ DrainFails(r)
               \/ Reject(r) \/ Delivered(r) \/ ClientLeaves(r) \/ Abandon(r)
        PROVE  Ownership'
    <2>1. UNCHANGED <<conn, doomed, idle, sweep, sock>>
      BY <1>9 DEF ConnectFails, SendCreate, SendCreateFails, FirstMessage, FirstMessageFails,
                  StartStream, StreamMessage, StreamFails, Release, AckFails, DrainSees,
                  DrainFails, Reject, Delivered, ClientLeaves, Abandon, Receive,
                  netVars, poolVars, downVars
    <2>2. QED
      BY <1>0, <2>1, OwnershipStable DEF Live
  <1>10. ASSUME \/ AcloseEnd
                \/ \E c \in Conns, r \in Requests, kind \in Kinds : UpstreamSends(c, r, kind)
                \/ \E k \in Keys : IdleExpires(k)
                \/ UNCHANGED vars
         PROVE  Ownership'
    <2>1. UNCHANGED <<conn, doomed, idle, sweep, sock>>
      BY <1>10 DEF AcloseEnd, UpstreamSends, IdleExpires, vars,
                   taskVars, netVars, poolVars, downVars
    <2>2. QED
      BY <1>0, <2>1, OwnershipStable DEF Live
  <1>11. QED
    BY <1>1, <1>2, <1>3, <1>4, <1>5, <1>6, <1>7, <1>8, <1>9, <1>10
       DEF Next, Handle, Aclose, Environment, Stopped

THEOREM OwnershipHolds == Spec => []Ownership
  BY OwnershipInit, OwnershipStep, PTL DEF Spec

\* A socket is never in two places at a time, so no two requests use one
\* socket, whatever the interleaving of checkouts, releases and shutdown.
THEOREM SingleFlight == Spec => []SingleOwner
  <1>1. Ownership => SingleOwner
    <2> SUFFICES ASSUME Ownership PROVE SingleOwner
      OBVIOUS
    <2>1. \A c : c \in Pooled <=> \E k \in Keys : c \in Bucket(k)
      BY DEF Pooled, Bucket
    <2>2. \A c : c \in Condemned <=> c \in sweep \/ \E r \in Requests : c \in doomed[r]
      BY DEF Condemned
    <2>3. \A c : c \in Held <=> c # None /\ \E r \in Requests : conn[r] = c
      BY DEF Held
    <2>4. Held \cap Pooled = {} /\ Held \cap Condemned = {} /\ Pooled \cap Condemned = {}
      BY <2>1, <2>2, <2>3 DEF Ownership, Apart
    <2>5. QED
      BY <2>4 DEF Ownership, Apart, SingleOwner, Bucket
  <1>2. QED
    BY <1>1, OwnershipHolds, PTL

\* No step closes a socket that a task, the pool or a list to close still has.
THEOREM NothingClosedIsUsed == Spec => []NoUseAfterClose
  <1>1. Ownership => NoUseAfterClose
    <2> SUFFICES ASSUME Ownership, NEW c, c \in Held \cup Pooled \cup Condemned
                 PROVE  c \in Live
      BY DEF NoUseAfterClose
    <2>1. CASE c \in Held
      BY <2>1 DEF Held, Ownership, Alive
    <2>2. CASE c \in Pooled
      BY <2>2 DEF Pooled, Bucket, Ownership, Alive
    <2>3. CASE c \in Condemned
      BY <2>3 DEF Condemned, Ownership, Alive
    <2>4. QED
      BY <2>1, <2>2, <2>3
  <1>2. QED
    BY <1>1, OwnershipHolds, PTL

-----------------------------------------------------------------------------
(* Identity of the sockets, and size of the buckets.                        *)

\* Requests with the same pool key come from the same account: the digest shows
\* which pairs entered it, and all pairs with a credential did.
LEMMA KeyTellsAccount ==
  ASSUME NEW p \in Profiles, NEW q \in Profiles, WebSocketPoolKey[p] = WebSocketPoolKey[q]
  PROVE  Account[p] = Account[q]
  <1>1. Url[p] = Url[q] /\ IdentityHeaders(p) = IdentityHeaders(q)
    <2>1. /\ WebSocketPoolKey[p].url = WebSocketPoolKey[q].url
          /\ DOMAIN WebSocketPoolKey[p].identity_digest = DOMAIN WebSocketPoolKey[q].identity_digest
      OBVIOUS
    <2>2. \A x \in Profiles : /\ WebSocketPoolKey[x].url = Url[x]
                             /\ DOMAIN WebSocketPoolKey[x].identity_digest = IdentityHeaders(x)
      BY DEF WebSocketPoolKey
    <2>3. QED
      BY <2>1, <2>2
  <1> DEFINE Secrets(x) == {Pair(h) : h \in {h \in Range(Headers[x]) : Lower[h.name] \in Credentials}}
  <1>2. \A x \in Profiles : Secrets(x) = {pair \in IdentityHeaders(x) : pair[1] \in Credentials}
    <2> TAKE x \in Profiles
    <2>1. ASSUME NEW pair \in Secrets(x) PROVE pair \in IdentityHeaders(x) /\ pair[1] \in Credentials
      BY CredentialsAssumption DEF Pair, IdentityHeaders
    <2>2. ASSUME NEW pair \in IdentityHeaders(x), pair[1] \in Credentials PROVE pair \in Secrets(x)
      BY <2>2 DEF Pair, IdentityHeaders
    <2>3. QED
      BY <2>1, <2>2
  <1>3. Secrets(p) = Secrets(q)
    BY <1>1, <1>2
  <1>4. \A x \in Profiles : Account[x] = [url |-> Url[x], credentials |-> Secrets(x)]
    BY DEF Account
  <1>5. QED
    BY <1>1, <1>3, <1>4

\* The part of identity that is inductive: a held socket was opened under the
\* pool key of its holder, an idle one under the key of its bucket.
Keyed ==
  /\ \A r \in Requests : conn[r] # None =>
       /\ openedFor[conn[r]] \in Profiles
       /\ WebSocketPoolKey[openedFor[conn[r]]] = WebSocketPoolKey[request[r]]
  /\ \A k \in Keys : \A c \in Range(idle[k]) :
       openedFor[c] \in Profiles /\ WebSocketPoolKey[openedFor[c]] = k

LEMMA KeyedStep == Ownership /\ Keyed /\ [Next]_vars => Keyed'
  <1> SUFFICES ASSUME Ownership, Keyed, [Next]_vars PROVE Keyed'
    OBVIOUS
  <1>0. Shape /\ Shape' /\ None \notin Live
    BY ShapeStep, NoneIsNone DEF Ownership, Live
  <1>1. ASSUME NEW r \in Requests, BeginAttempt(r) PROVE Keyed'
    <2> PICK k \in Keys : k = PoolKey(r)
      BY <1>0 DEF Shape, TypeOK, PoolKey, Keys
    <2>1. /\ \A s \in Requests \ {r} : conn'[s] = conn[s]
          /\ \A j \in Keys \ {k} : Range(idle'[j]) = Range(idle[j])
          /\ Range(idle'[k]) \subseteq Range(idle[k])
          /\ conn'[r] # None => conn'[r] \in Range(idle[k])
          /\ UNCHANGED <<request, openedFor>>
      BY <1>0, <1>1, CheckoutEffect DEF Bucket, netVars
    <2>2. QED
      BY <2>1 DEF Keyed, PoolKey
  <1>2. ASSUME NEW r \in Requests, Park(r) PROVE Keyed'
    <2> PICK k \in Keys : k = PoolKey(r)
      BY <1>0 DEF Shape, TypeOK, PoolKey, Keys
    <2>1. /\ conn[r] # None /\ conn'[r] = None
          /\ \A s \in Requests \ {r} : conn'[s] = conn[s]
          /\ \A j \in Keys \ {k} : Range(idle'[j]) = Range(idle[j])
          /\ Range(idle'[k]) \subseteq Range(idle[k]) \cup {conn[r]}
          /\ UNCHANGED <<request, openedFor>>
      BY <1>0, <1>2, ParkEffect, NoneIsNone DEF Bucket, netVars
    <2>2. QED
      BY <2>1 DEF Keyed, PoolKey
  <1>3. ASSUME NEW r \in Requests, Connect(r) PROVE Keyed'
    <2>1. PICK c \in Conns : /\ sock[c] = "unused"
                             /\ openedFor' = [openedFor EXCEPT ![c] = request[r]]
                             /\ conn' = [conn EXCEPT ![r] = c]
      BY <1>3 DEF Connect
    <2>2. c \notin Live
      BY <2>1 DEF Live
    <2>3. /\ openedFor'[c] = request[r] /\ \A d : d # c => openedFor'[d] = openedFor[d]
          /\ conn'[r] = c /\ \A s \in Requests \ {r} : conn'[s] = conn[s]
          /\ UNCHANGED <<request, idle>>
      BY <1>0, <1>3, <2>1 DEF Shape, TypeOK, Connect, poolVars
    <2>4. \A s \in Requests \ {r} : conn[s] # c
      BY <2>1, <2>2, NoneIsNone DEF Ownership, Alive
    <2>5. \A k \in Keys : c \notin Range(idle[k])
      BY <2>2 DEF Ownership, Alive, Bucket
    <2>6. request[r] \in Profiles
      BY <1>0 DEF Shape, TypeOK
    <2>7. QED
      BY <2>3, <2>4, <2>5, <2>6 DEF Keyed
  <1>4. ASSUME NEW r \in Requests, CloseHeld(r) PROVE Keyed'
    <2>1. /\ conn'[r] = None /\ \A s \in Requests \ {r} : conn'[s] = conn[s]
          /\ UNCHANGED <<request, idle, openedFor>>
      BY <1>0, <1>4 DEF Shape, TypeOK, CloseHeld, Close, poolVars
    <2>2. QED
      BY <2>1 DEF Keyed
  <1>5. CASE AcloseBegin
    <2>1. (\A k \in Keys : idle'[k] = <<>>) /\ UNCHANGED <<request, conn, openedFor>>
      BY <1>5 DEF AcloseBegin, taskVars, netVars
    <2>2. \A k \in Keys : Range(idle'[k]) = {}
      BY <2>1 DEF Range
    <2>3. QED
      BY <2>1, <2>2 DEF Keyed
  <1>6. ASSUME UNCHANGED <<request, conn, openedFor, idle>> PROVE Keyed'
    BY <1>6 DEF Keyed
  <1>7. ASSUME \/ \E r \in Requests :
                    \/ CloseDoomed(r) \/ ConnectFails(r) \/ SendCreate(r) \/ SendCreateFails(r)
                    \/ FirstMessage(r) \/ FirstMessageFails(r) \/ StartStream(r)
                    \/ StreamMessage(r) \/ StreamFails(r) \/ Release(r) \/ AckFails(r)
                    \/ DrainSees(r) \/ DrainFails(r) \/ Reject(r) \/ Delivered(r)
                    \/ ClientLeaves(r) \/ Abandon(r)
               \/ SweepClose \/ AcloseEnd
               \/ \E c \in Conns : PeerCloses(c)
               \/ \E c \in Conns, r \in Requests, kind \in Kinds : UpstreamSends(c, r, kind)
               \/ \E k \in Keys : IdleExpires(k)
               \/ UNCHANGED vars
        PROVE  UNCHANGED <<request, conn, openedFor, idle>>
    BY <1>7, ZenonT(30) DEF CloseDoomed, ConnectFails, SendCreate, SendCreateFails, FirstMessage,
                FirstMessageFails, StartStream, StreamMessage, StreamFails, Release, AckFails,
                DrainSees, DrainFails, Reject, Delivered, ClientLeaves, Abandon, SweepClose,
                AcloseEnd, PeerCloses, UpstreamSends, IdleExpires, Close, Receive,
                vars, taskVars, netVars, poolVars, downVars
  <1>8. QED
    BY <1>1, <1>2, <1>3, <1>4, <1>5, <1>6, <1>7
       DEF Next, Handle, Aclose, Environment, Stopped

LEMMA KeyedHolds == Spec => []Keyed
  <1>1. Init => Keyed
    BY DEF Init, Keyed, Range
  <1>2. QED
    BY <1>1, KeyedStep, OwnershipHolds, PTL DEF Spec

\* A request is never given a socket that was opened with other credentials.
THEOREM IdentityHolds == Spec => []SameIdentity
  <1>1. Ownership /\ Keyed => SameIdentity
    BY KeyTellsAccount DEF Keyed, SameIdentity, Ownership, Shape, TypeOK
  <1>2. QED
    BY <1>1, OwnershipHolds, KeyedHolds, PTL

LEMMA LimitStep == Shape /\ PoolWithinLimit /\ [Next]_vars => PoolWithinLimit'
  <1> SUFFICES ASSUME Shape, PoolWithinLimit, [Next]_vars,
                      NEW k \in Keys
               PROVE  Len(idle'[k]) <= MaxIdle
    BY DEF PoolWithinLimit
  <1>1. idle[k] \in Seq(Conns) /\ idle'[k] \in Seq(Conns) /\ Len(idle[k]) <= MaxIdle
    BY ShapeStep DEF Shape, TypeOK, PoolWithinLimit
  <1>2. ASSUME NEW r \in Requests, BeginAttempt(r) PROVE Len(idle'[k]) <= MaxIdle
    <2>1. CASE k = PoolKey(r)
      BY <1>1, <1>2, <2>1, CheckoutEffect, MaxIdleAssumption
    <2>2. CASE k # PoolKey(r)
      <3>1. idle'[k] = idle[k]
        BY <1>2, <2>2 DEF BeginAttempt, Shape, TypeOK
      <3>2. QED
        BY <1>1, <3>1
    <2>3. QED
      BY <2>1, <2>2
  <1>3. ASSUME NEW r \in Requests, Park(r) PROVE Len(idle'[k]) <= MaxIdle
    <2>1. CASE k = PoolKey(r)
      BY <1>3, <2>1, ParkEffect
    <2>2. CASE k # PoolKey(r)
      <3>1. idle'[k] = idle[k]
        BY <1>3, <2>2 DEF Park, Shape, TypeOK
      <3>2. QED
        BY <1>1, <3>1
    <2>3. QED
      BY <2>1, <2>2
  <1>4. CASE AcloseBegin
    <2>1. idle'[k] = <<>>
      BY <1>4 DEF AcloseBegin
    <2>2. QED
      BY <2>1, MaxIdleAssumption
  <1>5. ASSUME \/ \E r \in Requests :
                    \/ CloseDoomed(r) \/ Connect(r) \/ ConnectFails(r) \/ SendCreate(r)
                    \/ SendCreateFails(r) \/ FirstMessage(r) \/ FirstMessageFails(r)
                    \/ CloseHeld(r) \/ StartStream(r) \/ StreamMessage(r) \/ StreamFails(r)
                    \/ Release(r) \/ AckFails(r) \/ DrainSees(r) \/ DrainFails(r)
                    \/ Reject(r) \/ Delivered(r) \/ ClientLeaves(r) \/ Abandon(r)
               \/ SweepClose \/ AcloseEnd
               \/ \E c \in Conns : PeerCloses(c)
               \/ \E c \in Conns, r \in Requests, kind \in Kinds : UpstreamSends(c, r, kind)
               \/ \E j \in Keys : IdleExpires(j)
               \/ UNCHANGED vars
        PROVE  UNCHANGED idle
    BY <1>5 DEF CloseDoomed, Connect, ConnectFails, SendCreate, SendCreateFails, FirstMessage,
                FirstMessageFails, CloseHeld, StartStream, StreamMessage, StreamFails, Release,
                AckFails, DrainSees, DrainFails, Reject, Delivered, ClientLeaves, Abandon,
                SweepClose, AcloseEnd, PeerCloses, UpstreamSends, IdleExpires,
                vars, taskVars, netVars, poolVars, downVars
  <1>6. QED
    BY <1>1, <1>2, <1>3, <1>4, <1>5 DEF Next, Handle, Aclose, Environment, Stopped

\* No bucket ever exceeds WEBSOCKET_POOL_MAX_IDLE, for any limit.
THEOREM LimitHolds == Spec => []PoolWithinLimit
  <1>1. Init => PoolWithinLimit
    BY MaxIdleAssumption DEF Init, PoolWithinLimit
  <1>2. QED
    BY <1>1, LimitStep, ShapeHolds, PTL DEF Spec

-----------------------------------------------------------------------------
(* Isolation of the clients from one another.                               *)

\* The strengthening of Isolation: an unread message that is not late is on the
\* socket its request still holds, and that request's drain has not begun.
Fresh ==
  \A c \in Conns : \A i \in DOMAIN inbox[c] :
    LET m == inbox[c][i] IN
    m.late \/ (conn[m.for] = c /\ pc[m.for] # "draining")

\* It survives a step that adds no message, when every task keeps its socket
\* without beginning its drain, or has none, or drains, or had its socket's
\* messages dropped.
LEMMA FreshKept ==
  ASSUME Shape, Shape', Fresh,
         \A c \in Conns : \A i \in DOMAIN inbox'[c] :
           \E j \in DOMAIN inbox[c] : inbox'[c][i] = inbox[c][j],
         \A r \in Requests :
           \/ conn'[r] = conn[r] /\ pc'[r] # "draining"
           \/ conn[r] = None
           \/ pc[r] = "draining"
           \/ inbox'[conn[r]] = <<>>
  PROVE  Fresh'
  <1> SUFFICES ASSUME NEW c \in Conns, NEW i \in DOMAIN inbox'[c], ~inbox'[c][i].late
               PROVE  conn'[inbox'[c][i].for] = c /\ pc'[inbox'[c][i].for] # "draining"
    BY DEF Fresh
  <1>1. PICK j \in DOMAIN inbox[c] : inbox'[c][i] = inbox[c][j]
    OBVIOUS
  <1> DEFINE r == inbox[c][j].for
  <1>2. conn[r] = c /\ pc[r] # "draining"
    BY <1>1 DEF Fresh
  <1>3. r \in Requests
    <2>1. inbox[c] \in Seq(Messages)
      BY DEF Shape, TypeOK
    <2>2. inbox[c][j] \in Messages
      BY <2>1
    <2>3. QED
      BY <2>2 DEF Messages
  <1>4. inbox'[c] # <<>> /\ c # None
    BY NoneIsNone
  <1>5. QED
    BY <1>1, <1>2, <1>3, <1>4

\* Closing a socket drops its messages and adds none.
LEMMA CloseInbox ==
  ASSUME Shape, NEW c \in Conns, Close(c)
  PROVE  /\ inbox'[c] = <<>>
         /\ \A d \in Conns : \A i \in DOMAIN inbox'[d] :
              \E j \in DOMAIN inbox[d] : inbox'[d][i] = inbox[d][j]
  BY DEF Shape, TypeOK, Close

\* Reading a message leaves the later ones.
LEMMA ReceiveInbox ==
  ASSUME Shape, NEW r \in Requests, pc[r] \in Holding, Receive(r)
  PROVE  /\ \A d \in Conns : \A i \in DOMAIN inbox'[d] :
              \E j \in DOMAIN inbox[d] : inbox'[d][i] = inbox[d][j]
         /\ 1 \in DOMAIN inbox[conn[r]] /\ Head(inbox[conn[r]]) = inbox[conn[r]][1]
         /\ cur'[r] = inbox[conn[r]][1]
  <1>1. conn[r] \in Conns
    BY HeldType
  <1>2. inbox[conn[r]] \in Seq(Messages) /\ inbox[conn[r]] # <<>>
    BY <1>1 DEF Shape, TypeOK, Receive
  <1>3. inbox' = [inbox EXCEPT ![conn[r]] = Tail(@)] /\ cur' = [cur EXCEPT ![r] = Head(inbox[conn[r]])]
    BY DEF Receive
  <1>4. \A i \in DOMAIN Tail(inbox[conn[r]]) :
          i + 1 \in DOMAIN inbox[conn[r]] /\ Tail(inbox[conn[r]])[i] = inbox[conn[r]][i + 1]
    BY <1>2
  <1>5. ASSUME NEW d \in Conns, NEW i \in DOMAIN inbox'[d]
        PROVE  \E j \in DOMAIN inbox[d] : inbox'[d][i] = inbox[d][j]
    <2>1. CASE d = conn[r]
      BY <1>1, <1>3, <1>4, <2>1 DEF Shape, TypeOK
    <2>2. CASE d # conn[r]
      BY <1>3, <2>2 DEF Shape, TypeOK
    <2>3. QED
      BY <2>1, <2>2
  <1>6. 1 \in DOMAIN inbox[conn[r]] /\ Head(inbox[conn[r]]) = inbox[conn[r]][1]
    BY <1>2
  <1>7. cur'[r] = inbox[conn[r]][1]
    BY <1>3, <1>6 DEF Shape, TypeOK
  <1>8. QED
    BY <1>5, <1>6, <1>7

LEMMA FreshStep == Ownership /\ Fresh /\ [Next]_vars => Fresh'
  <1> SUFFICES ASSUME Ownership, Fresh, [Next]_vars PROVE Fresh'
    OBVIOUS
  <1>0. Shape /\ Shape'
    BY ShapeStep DEF Ownership
  <1>1. ASSUME NEW r \in Requests, BeginAttempt(r) PROVE Fresh'
    <2>1. conn[r] = None /\ UNCHANGED inbox
      BY <1>0, <1>1 DEF BeginAttempt, Shape, TypeOK, PhaseOK, Holding, netVars
    <2>2. \A s \in Requests \ {r} : conn'[s] = conn[s] /\ pc'[s] = pc[s]
      BY <1>0, <1>1 DEF BeginAttempt, Goto, Shape, TypeOK
    <2>3. QED
      BY <1>0, <2>1, <2>2, FreshKept
  <1>2. ASSUME NEW r \in Requests, Connect(r) PROVE Fresh'
    <2>1. conn[r] = None /\ UNCHANGED inbox
      BY <1>0, <1>2 DEF Connect, Shape, TypeOK, PhaseOK, Holding
    <2>2. \A s \in Requests \ {r} : conn'[s] = conn[s] /\ pc'[s] = pc[s]
      BY <1>0, <1>2 DEF Connect, Goto, Shape, TypeOK
    <2>3. QED
      BY <1>0, <2>1, <2>2, FreshKept
  <1>3. ASSUME NEW r \in Requests, Park(r) PROVE Fresh'
    <2>1. pc[r] = "draining" /\ UNCHANGED inbox
      BY <1>3 DEF Park, netVars
    <2>2. \A s \in Requests \ {r} : conn'[s] = conn[s] /\ pc'[s] = pc[s]
      BY <1>0, <1>3 DEF Park, Goto, Shape, TypeOK
    <2>3. QED
      BY <1>0, <2>1, <2>2, FreshKept
  <1>4. ASSUME NEW r \in Requests, CloseHeld(r) PROVE Fresh'
    <2>1. conn[r] \in Conns /\ Close(conn[r])
      BY <1>0, <1>4, HeldType DEF CloseHeld, Holding
    <2>2. \A s \in Requests \ {r} : conn'[s] = conn[s] /\ pc'[s] = pc[s]
      BY <1>0, <1>4 DEF CloseHeld, Goto, AfterFailure, Shape, TypeOK
    <2>3. QED
      BY <1>0, <2>1, <2>2, CloseInbox, FreshKept
  <1>5. ASSUME NEW r \in Requests, CloseDoomed(r) PROVE Fresh'
    <2>1. PICK c \in doomed[r] : Close(c)
      BY <1>5 DEF CloseDoomed
    <2>2. c \in Conns /\ UNCHANGED conn
      BY <1>0, <1>5 DEF Shape, TypeOK, CloseDoomed
    <2>3. \A s \in Requests : pc'[s] = "draining" => pc[s] = "draining"
      BY <1>0, <1>5 DEF CloseDoomed, Goto, AfterCheckout, Shape, TypeOK
    <2>4. QED
      BY <1>0, <2>1, <2>2, <2>3, CloseInbox, FreshKept
  <1>6. CASE SweepClose
    <2>1. PICK c \in sweep : Close(c)
      BY <1>6 DEF SweepClose
    <2>2. c \in Conns /\ UNCHANGED <<conn, pc>>
      BY <1>0, <1>6 DEF Shape, TypeOK, SweepClose, taskVars
    <2>3. QED
      BY <1>0, <2>1, <2>2, CloseInbox, FreshKept
  <1>7. ASSUME NEW r \in Requests, FirstMessage(r) \/ StreamMessage(r) PROVE Fresh'
    <2>1. pc[r] \in Holding /\ Receive(r) /\ UNCHANGED conn
      BY <1>7 DEF FirstMessage, StreamMessage, Holding
    <2>2. \A s \in Requests : pc'[s] = "draining" => pc[s] = "draining"
      BY <1>0, <1>7 DEF FirstMessage, StreamMessage, Emit, Goto, Shape, TypeOK
    <2>3. QED
      BY <1>0, <2>1, <2>2, ReceiveInbox, FreshKept
  <1>8. ASSUME NEW r \in Requests, Release(r) PROVE Fresh'
    <2>1. UNCHANGED <<conn, inbox>>
      BY <1>8 DEF Release
    <2>2. \A s \in Requests \ {r} : pc'[s] = pc[s]
      BY <1>0, <1>8 DEF Release, Goto, Shape, TypeOK
    <2>3. pc'[r] = "draining" => inbox[conn[r]] = <<>>
      BY <1>0, <1>8 DEF Release, Goto, Unread, AfterPending, Shape, TypeOK
    <2>4. QED
      BY <1>0, <2>1, <2>2, <2>3, FreshKept
  <1>9. ASSUME NEW c \in Conns, NEW r \in Requests, NEW kind \in Kinds, UpstreamSends(c, r, kind)
        PROVE  Fresh'
    <2> DEFINE m == [for |-> r, kind |-> kind, late |-> ~InFlight(c, r)]
    <2>1. inbox' = [inbox EXCEPT ![c] = Append(@, m)] /\ UNCHANGED <<conn, pc>>
      BY <1>9 DEF UpstreamSends, taskVars
    <2>2. inbox[c] \in Seq(Messages)
      BY <1>0 DEF Shape, TypeOK
    <2>3. m.for = r /\ (m.late \/ (conn[r] = c /\ pc[r] # "draining"))
      BY DEF InFlight
    <2> HIDE DEF m
    <2>4. ASSUME NEW d \in Conns, NEW i \in DOMAIN inbox'[d]
          PROVE  \/ d = c /\ inbox'[d][i] = m
                 \/ i \in DOMAIN inbox[d] /\ inbox'[d][i] = inbox[d][i]
      <3>1. CASE d = c
        <4>1. inbox'[d] = Append(inbox[c], m)
          BY <1>0, <2>1, <3>1 DEF Shape, TypeOK
        <4>2. QED
          BY <2>2, <2>4, <3>1, <4>1
      <3>2. CASE d # c
        BY <1>0, <2>1, <2>4, <3>2 DEF Shape, TypeOK
      <3>3. QED
        BY <3>1, <3>2
    <2>5. QED
      BY <2>1, <2>3, <2>4 DEF Fresh
  <1>10. ASSUME \/ \E r \in Requests :
                     \/ ConnectFails(r) \/ SendCreate(r) \/ SendCreateFails(r)
                     \/ FirstMessageFails(r) \/ StartStream(r) \/ StreamFails(r) \/ AckFails(r)
                     \/ DrainSees(r) \/ DrainFails(r) \/ Reject(r) \/ Delivered(r)
                     \/ ClientLeaves(r) \/ Abandon(r)
         PROVE  Fresh'
    <2>1. UNCHANGED <<conn, inbox>>
      BY <1>10 DEF ConnectFails, SendCreate, SendCreateFails, FirstMessageFails, StartStream,
                   StreamFails, AckFails, DrainSees, DrainFails, Reject, Delivered,
                   ClientLeaves, Abandon, netVars
    <2>2. \A s \in Requests : pc'[s] = "draining" => pc[s] = "draining"
      <3>1. CASE \E r \in Requests :
                   ConnectFails(r) \/ SendCreate(r) \/ SendCreateFails(r) \/ FirstMessageFails(r)
        BY <1>0, <3>1 DEF ConnectFails, SendCreate, SendCreateFails, FirstMessageFails,
                          AfterFailure, Goto, Shape, TypeOK
      <3>2. CASE \E r \in Requests :
                   StartStream(r) \/ StreamFails(r) \/ AckFails(r) \/ DrainFails(r)
        BY <1>0, <3>2 DEF StartStream, StreamFails, AckFails, DrainFails, Emit, Goto, Shape,
                          TypeOK
      <3>3. CASE \E r \in Requests :
                   Reject(r) \/ Delivered(r) \/ ClientLeaves(r) \/ Abandon(r)
        BY <1>0, <3>3 DEF Reject, Delivered, ClientLeaves, Abandon, Goto, Shape, TypeOK
      <3>4. CASE \E r \in Requests : DrainSees(r)
        BY <1>0, <3>4 DEF DrainSees, AfterPending, Goto, Shape, TypeOK
      <3>5. QED
        BY <1>10, <3>1, <3>2, <3>3, <3>4
    <2>3. QED
      BY <1>0, <2>1, <2>2, FreshKept
  <1>11. ASSUME \/ AcloseBegin \/ AcloseEnd
                \/ \E c \in Conns : PeerCloses(c)
                \/ \E k \in Keys : IdleExpires(k)
                \/ UNCHANGED vars
         PROVE  Fresh'
    <2>1. UNCHANGED <<conn, pc, inbox>>
      BY <1>11 DEF AcloseBegin, AcloseEnd, PeerCloses, IdleExpires, vars, taskVars, netVars
    <2>2. QED
      BY <2>1 DEF Fresh
  <1>12. QED
    BY <1>1, <1>2, <1>3, <1>4, <1>5, <1>6, <1>7, <1>8, <1>9, <1>10, <1>11
       DEF Next, Handle, Aclose, Environment, Stopped

LEMMA IsolationStep == Ownership /\ Fresh /\ Isolation /\ [Next]_vars => Isolation'
  <1> SUFFICES ASSUME Ownership, Fresh, Isolation, [Next]_vars PROVE Isolation'
    OBVIOUS
  <1>0. Shape
    BY DEF Ownership
  <1>1. ASSUME NEW r \in Requests, FirstMessage(r) \/ StreamMessage(r) PROVE Isolation'
    <2>1. pc[r] \in Holding /\ Receive(r)
      BY <1>1 DEF FirstMessage, StreamMessage, Holding
    <2> DEFINE c == conn[r]
               m == inbox[c][1]
    <2>2. c \in Conns /\ c # None
      BY <1>0, <2>1, HeldType, NoneIsNone
    <2>3. 1 \in DOMAIN inbox[c] /\ cur'[r] = m
      BY <1>0, <2>1, ReceiveInbox
    <2>4. m \in Messages
      BY <1>0, <2>2, <2>3 DEF Shape, TypeOK
    <2>5. m.late \/ conn[m.for] = c
      BY <2>2, <2>3 DEF Fresh
    <2>6. m.for \in Requests
      BY <2>4 DEF Messages
    <2>7. m.late \/ m.for = r
      BY <2>2, <2>5, <2>6 DEF Ownership, Apart
    <2>8. \A s \in Requests \ {r} : cur'[s] = cur[s]
      BY <1>0, <2>1 DEF Receive, Shape, TypeOK
    <2>9. QED
      BY <2>3, <2>7, <2>8 DEF Isolation
  <1>2. ASSUME NEW r \in Requests,
               CloseHeld(r) \/ Delivered(r) \/ ClientLeaves(r) \/ Abandon(r)
        PROVE  Isolation'
    <2>1. cur' = [cur EXCEPT ![r] = None]
      BY <1>2 DEF CloseHeld, Delivered, ClientLeaves, Abandon
    <2>2. QED
      BY <1>0, <2>1 DEF Isolation, Shape, TypeOK
  <1>3. ASSUME \/ \E r \in Requests :
                    \/ BeginAttempt(r) \/ CloseDoomed(r) \/ Connect(r) \/ ConnectFails(r)
                    \/ SendCreate(r) \/ SendCreateFails(r) \/ FirstMessageFails(r)
                    \/ StartStream(r) \/ StreamFails(r) \/ Release(r) \/ AckFails(r)
                    \/ DrainSees(r) \/ DrainFails(r) \/ Park(r) \/ Reject(r)
               \/ Aclose
               \/ \E c \in Conns : PeerCloses(c)
               \/ \E c \in Conns, r \in Requests, kind \in Kinds : UpstreamSends(c, r, kind)
               \/ \E k \in Keys : IdleExpires(k)
               \/ UNCHANGED vars
        PROVE  Isolation'
    <2>1. UNCHANGED cur
      BY <1>3 DEF BeginAttempt, CloseDoomed, Connect, ConnectFails, SendCreate, SendCreateFails,
                  FirstMessageFails, StartStream, StreamFails, Release, AckFails, DrainSees,
                  DrainFails, Park, Reject, Aclose, AcloseBegin, SweepClose, AcloseEnd,
                  PeerCloses, UpstreamSends, IdleExpires, vars, taskVars
    <2>2. QED
      BY <2>1 DEF Isolation
  <1>4. QED
    BY <1>1, <1>2, <1>3 DEF Next, Handle, Environment, Stopped

\* Nobody is sent a message of another request that the proxy had received
\* before that request's drain began.
THEOREM IsolationHolds == Spec => []Isolation
  <1>1. Init => Fresh /\ Isolation
    BY DEF Init, Fresh, Isolation
  <1>2. QED
    BY <1>1, FreshStep, IsolationStep, OwnershipHolds, PTL DEF Spec
=============================================================================
