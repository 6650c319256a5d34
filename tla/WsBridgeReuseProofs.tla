-------------------------- MODULE WsBridgeReuseProofs --------------------------
(***************************************************************************)
(* More theorems about WsBridge: no socket is forgotten, what makes a      *)
(* socket fit for the next request, and the refinement of ConnectionLease. *)
(***************************************************************************)
EXTENDS WsBridgeProofs

\* The steps that move no socket and close none.
Quiet ==
  \/ \E r \in Requests :
       \/ ConnectFails(r) \/ SendCreate(r) \/ SendCreateFails(r) \/ FirstMessage(r)
       \/ FirstMessageFails(r) \/ StartStream(r) \/ StreamMessage(r) \/ StreamFails(r)
       \/ Release(r) \/ AckFails(r) \/ DrainSees(r) \/ DrainFails(r)
       \/ Reject(r) \/ Delivered(r) \/ ClientLeaves(r) \/ Abandon(r)
  \/ AcloseEnd
  \/ \E c \in Conns, r \in Requests, kind \in Kinds : UpstreamSends(c, r, kind)
  \/ \E k \in Keys : IdleExpires(k)
  \/ UNCHANGED vars

LEMMA QuietKeeps == Quiet => UNCHANGED <<conn, doomed, idle, sweep, sock, openedFor, request>>
  BY DEF Quiet, ConnectFails, SendCreate, SendCreateFails, FirstMessage, FirstMessageFails,
         StartStream, StreamMessage, StreamFails, Release, AckFails, DrainSees,
         DrainFails, Reject, Delivered, ClientLeaves, Abandon, Receive, AcloseEnd,
         UpstreamSends, IdleExpires, vars, taskVars, netVars, poolVars, downVars

LEMMA Steps ==
  [Next]_vars =>
    \/ \E r \in Requests : \/ BeginAttempt(r) \/ Park(r) \/ CloseDoomed(r) \/ Connect(r)
                           \/ CloseHeld(r)
    \/ AcloseBegin \/ SweepClose
    \/ \E c \in Conns : PeerCloses(c)
    \/ Quiet
  BY DEF Next, Handle, Aclose, Environment, Stopped, Quiet

-----------------------------------------------------------------------------
(* What the steps that move a socket do to the places it can be in.         *)

LEMMA CloseDoomedEffect ==
  ASSUME Shape, NEW r \in Requests, CloseDoomed(r)
  PROVE  \E c \in doomed[r] :
           /\ c \in Conns /\ Close(c) /\ Live' = Live \ {c}
           /\ doomed'[r] = doomed[r] \ {c}
           /\ \A s \in Requests \ {r} : doomed'[s] = doomed[s]
           /\ UNCHANGED <<conn, idle, sweep, request>>
  <1>1. PICK c \in doomed[r] : Close(c) /\ doomed' = [doomed EXCEPT ![r] = @ \ {c}]
    BY DEF CloseDoomed
  <1>2. c \in Conns /\ UNCHANGED <<conn, idle, sweep, request>>
    BY DEF Shape, TypeOK, CloseDoomed, poolVars, downVars
  <1>3. QED
    BY <1>1, <1>2, CloseLive DEF Shape, TypeOK

LEMMA ConnectEffect ==
  ASSUME Shape, NEW r \in Requests, Connect(r)
  PROVE  \E c \in Conns :
           /\ sock[c] = "unused" /\ sock' = [sock EXCEPT ![c] = "open"]
           /\ c \notin Live /\ Live' = Live \cup {c}
           /\ openedFor'[c] = request[r] /\ \A d \in Conns \ {c} : openedFor'[d] = openedFor[d]
           /\ conn[r] = None /\ conn'[r] = c /\ \A s \in Requests \ {r} : conn'[s] = conn[s]
           /\ UNCHANGED <<doomed, idle, sweep, request, served, acked>>
  <1>1. PICK c \in Conns : /\ sock[c] = "unused" /\ sock' = [sock EXCEPT ![c] = "open"]
                           /\ openedFor' = [openedFor EXCEPT ![c] = request[r]]
                           /\ conn' = [conn EXCEPT ![r] = c]
    BY DEF Connect
  <1>2. c \notin Live /\ Live' = Live \cup {c}
    BY <1>1 DEF Shape, TypeOK, Live
  <1>3. conn[r] = None /\ UNCHANGED <<doomed, idle, sweep, request, served, acked>>
    BY DEF Connect, Shape, PhaseOK, Holding, poolVars, downVars
  <1>4. QED
    BY <1>1, <1>2, <1>3 DEF Shape, TypeOK

LEMMA CloseHeldEffect ==
  ASSUME Shape, NEW r \in Requests, CloseHeld(r)
  PROVE  /\ conn[r] \in Conns /\ Close(conn[r]) /\ Live' = Live \ {conn[r]}
         /\ conn'[r] = None /\ \A s \in Requests \ {r} : conn'[s] = conn[s]
         /\ UNCHANGED <<doomed, idle, sweep, request>>
  <1>1. conn[r] \in Conns /\ Close(conn[r])
    BY HeldType DEF CloseHeld, Holding
  <1>2. QED
    BY <1>1, CloseLive DEF CloseHeld, Shape, TypeOK, poolVars, downVars

LEMMA AcloseBeginEffect ==
  ASSUME AcloseBegin, Shape
  PROVE  /\ \A c : c \in sweep' <=> \E k \in Keys : c \in Bucket(k)
         /\ sweep = {} /\ \A k \in Keys : Bucket(k)' = {}
         /\ UNCHANGED <<conn, doomed, sock, openedFor, request, Live>>
  <1>1. sweep' = Pooled /\ sweep = {} /\ UNCHANGED <<conn, doomed, sock, openedFor, request>>
    BY DEF AcloseBegin, Shape, taskVars, netVars
  <1>2. \A k \in Keys : idle'[k] = <<>>
    BY DEF AcloseBegin
  <1>3. \A k \in Keys : Bucket(k)' = {}
    BY <1>2 DEF Bucket, Range
  <1>4. QED
    BY <1>1, <1>3 DEF Pooled, Bucket, Live

LEMMA SweepCloseEffect ==
  ASSUME Shape, SweepClose
  PROVE  \E c \in sweep :
           /\ c \in Conns /\ Close(c) /\ Live' = Live \ {c} /\ sweep' = sweep \ {c}
           /\ UNCHANGED <<conn, doomed, idle, request>>
  <1>1. PICK c \in sweep : Close(c) /\ sweep' = sweep \ {c}
    BY DEF SweepClose
  <1>2. c \in Conns /\ UNCHANGED <<conn, doomed, idle, request>>
    BY DEF Shape, TypeOK, SweepClose, taskVars, poolVars
  <1>3. QED
    BY <1>1, <1>2, CloseLive

LEMMA PeerClosesEffect ==
  ASSUME Shape, NEW c \in Conns, PeerCloses(c)
  PROVE  /\ UNCHANGED <<Live, conn, doomed, idle, sweep, openedFor, request, pc, served, acked>>
         /\ \A d \in Conns : sock'[d] = sock[d] \/ (sock[d] = "open" /\ sock'[d] = "down")
  BY DEF Shape, TypeOK, PeerCloses, Live, taskVars, poolVars, downVars

-----------------------------------------------------------------------------
(* No socket is forgotten.                                                  *)

\* Every socket that is up is in one of the places a socket can be in.
Placed ==
  \A c \in Live :
    \/ \E r \in Requests : conn[r] = c \/ c \in doomed[r]
    \/ \E k \in Keys : c \in Bucket(k)
    \/ c \in sweep

LEMMA PlacedStep == Shape /\ Placed /\ [Next]_vars => Placed'
  <1> SUFFICES ASSUME Shape, Placed, [Next]_vars PROVE Placed'
    OBVIOUS
  <1>0. None \notin Live
    BY NoneIsNone DEF Live
  <1>1. ASSUME NEW r \in Requests, BeginAttempt(r) PROVE Placed'
    <2> PICK k \in Keys : k = PoolKey(r)
      BY DEF Shape, TypeOK, PoolKey, Keys
    <2>1. /\ conn[r] = None /\ doomed[r] = {}
          /\ \A s \in Requests \ {r} : conn'[s] = conn[s] /\ doomed'[s] = doomed[s]
          /\ Bucket(k) = Bucket(k)' \cup doomed'[r] \cup ({conn'[r]} \ {None})
          /\ UNCHANGED <<sock, sweep>>
      BY <1>1, CheckoutEffect DEF netVars, downVars
    <2>2. \A j \in Keys \ {k} : Bucket(j)' = Bucket(j)
      BY <1>1, CheckoutEffect DEF Bucket
    <2>3. Live' = Live
      BY <2>1 DEF Live
    <2>4. QED
      BY <1>0, <2>1, <2>2, <2>3 DEF Placed
  <1>2. ASSUME NEW r \in Requests, Park(r) PROVE Placed'
    <2> PICK k \in Keys : k = PoolKey(r)
      BY DEF Shape, TypeOK, PoolKey, Keys
    <2>1. /\ conn[r] \in Conns /\ conn'[r] = None /\ doomed[r] = {}
          /\ \A s \in Requests \ {r} : conn'[s] = conn[s] /\ doomed'[s] = doomed[s]
          /\ Bucket(k)' \cup doomed'[r] = Bucket(k) \cup {conn[r]}
          /\ UNCHANGED <<sock, sweep>>
      BY <1>2, ParkEffect DEF netVars, downVars
    <2>2. \A j \in Keys \ {k} : Bucket(j)' = Bucket(j)
      BY <1>2, ParkEffect DEF Bucket
    <2>3. Live' = Live
      BY <2>1 DEF Live
    <2>4. QED
      BY <2>1, <2>2, <2>3 DEF Placed
  <1>3. ASSUME NEW r \in Requests, CloseDoomed(r) PROVE Placed'
    <2>1. PICK c \in doomed[r] :
            /\ Live' = Live \ {c} /\ doomed'[r] = doomed[r] \ {c}
            /\ \A s \in Requests \ {r} : doomed'[s] = doomed[s]
            /\ UNCHANGED <<conn, idle, sweep>>
      BY <1>3, CloseDoomedEffect
    <2>2. QED
      BY <2>1 DEF Placed, Bucket
  <1>4. ASSUME NEW r \in Requests, Connect(r) PROVE Placed'
    <2>1. PICK c \in Conns :
            /\ Live' = Live \cup {c} /\ conn[r] = None /\ conn'[r] = c
            /\ \A s \in Requests \ {r} : conn'[s] = conn[s]
            /\ UNCHANGED <<doomed, idle, sweep>>
      BY <1>4, ConnectEffect
    <2>2. QED
      BY <1>0, <2>1 DEF Placed, Bucket
  <1>5. ASSUME NEW r \in Requests, CloseHeld(r) PROVE Placed'
    <2>1. /\ Live' = Live \ {conn[r]}
          /\ \A s \in Requests \ {r} : conn'[s] = conn[s]
          /\ UNCHANGED <<doomed, idle, sweep>>
      BY <1>5, CloseHeldEffect
    <2>2. QED
      BY <2>1 DEF Placed, Bucket
  <1>6. CASE AcloseBegin
    BY <1>6, AcloseBeginEffect DEF Placed
  <1>7. CASE SweepClose
    <2>1. PICK c \in sweep : /\ Live' = Live \ {c} /\ sweep' = sweep \ {c}
                             /\ UNCHANGED <<conn, doomed, idle>>
      BY <1>7, SweepCloseEffect
    <2>2. QED
      BY <2>1 DEF Placed, Bucket
  <1>8. ASSUME NEW c \in Conns, PeerCloses(c) PROVE Placed'
    BY <1>8, PeerClosesEffect DEF Placed, Bucket
  <1>9. CASE Quiet
    <2>1. UNCHANGED <<conn, doomed, idle, sweep, sock>>
      BY <1>9, QuietKeeps
    <2>2. QED
      BY <2>1 DEF Placed, Bucket, Live
  <1>10. QED
    BY <1>1, <1>2, <1>3, <1>4, <1>5, <1>6, <1>7, <1>8, <1>9, Steps

LEMMA PlacedHolds == Spec => []Placed
  <1>1. Init => Placed
    BY DEF Init, Placed, Live
  <1>2. QED
    BY <1>1, PlacedStep, ShapeHolds, PTL DEF Spec

\* A socket that was opened and not closed always has somebody who will park
\* or close it, save the task that was abandoned or crashed with it: checkout,
\* release, retry and aclose lose none between them.
THEOREM NothingForgotten == Spec => []NoOrphan
  <1>1. Shape /\ Placed => NoOrphan
    <2> SUFFICES ASSUME Shape, Placed, NEW c \in Live
                 PROVE  \/ \E r \in Requests : conn[r] = c /\ pc[r] # "done"
                        \/ \E r \in Requests : c \in doomed[r] /\ pc[r] \in {"stale", "evicting"}
                        \/ c \in Pooled
                        \/ c \in sweep /\ server = "closing"
      BY DEF NoOrphan
    <2>1. c # None
      BY NoneIsNone DEF Live
    <2>2. ASSUME NEW r \in Requests, conn[r] = c PROVE pc[r] # "done"
      BY <2>1, <2>2 DEF Shape, PhaseOK, Holding
    <2>3. ASSUME NEW r \in Requests, c \in doomed[r] PROVE pc[r] \in {"stale", "evicting"}
      BY <2>3 DEF Shape, PhaseOK
    <2>4. ASSUME NEW k \in Keys, c \in Bucket(k) PROVE c \in Pooled
      BY <2>4 DEF Pooled, Bucket
    <2>5. c \in sweep => server = "closing"
      BY DEF Shape
    <2>6. QED
      BY <2>2, <2>3, <2>4, <2>5 DEF Placed
  <1>2. QED
    BY <1>1, ShapeHolds, PlacedHolds, PTL

-----------------------------------------------------------------------------
(* What makes a socket fit for the next request.                            *)

\* The strengthening of ProcessedBeforeReuse: a socket is acknowledged from the
\* moment its drain begins.
Acknowledged ==
  SendProcessed =>
    /\ \A k \in Keys : Bucket(k) \subseteq acked
    /\ \A r \in Requests : pc[r] = "draining" => conn[r] \in acked

\* Only the release of a response makes a task drain.
LEMMA StillDraining ==
  ASSUME Shape, [Next]_vars, NEW s \in Requests, ~Release(s), pc'[s] = "draining"
  PROVE  pc[s] = "draining"
  <1>1. ASSUME NEW r \in Requests, r # s, Handle(r) PROVE pc'[s] = pc[s]
    <2>1. CASE BeginAttempt(r)
      BY <1>1, <2>1 DEF BeginAttempt, Goto, Shape, TypeOK
    <2>2. CASE CloseDoomed(r) \/ Connect(r) \/ ConnectFails(r) \/ SendCreate(r)
               \/ SendCreateFails(r) \/ FirstMessage(r) \/ FirstMessageFails(r) \/ CloseHeld(r)
      BY <1>1, <2>2 DEF CloseDoomed, Connect, ConnectFails, SendCreate, SendCreateFails,
                        FirstMessage, FirstMessageFails, CloseHeld, AfterFailure, Goto, Shape,
                        TypeOK
    <2>3. CASE StartStream(r) \/ StreamMessage(r) \/ StreamFails(r) \/ Release(r)
               \/ AckFails(r) \/ DrainSees(r) \/ DrainFails(r) \/ Park(r)
      BY <1>1, <2>3 DEF StartStream, StreamMessage, StreamFails, Release, AckFails, DrainSees,
                        DrainFails, Park, Emit, Goto, Shape, TypeOK
    <2>4. QED
      BY <1>1, <2>1, <2>2, <2>3 DEF Handle
  <1>2. CASE Handle(s)
    <2>1. ~BeginAttempt(s)
      BY DEF BeginAttempt, Goto, AfterCheckout, Shape, TypeOK
    <2>2. ~CloseDoomed(s) /\ ~Connect(s) /\ ~ConnectFails(s) /\ ~SendCreate(s)
      BY DEF CloseDoomed, Connect, ConnectFails, SendCreate, AfterFailure, AfterCheckout, Goto,
             Shape, TypeOK
    <2>3. ~SendCreateFails(s) /\ ~FirstMessage(s) /\ ~FirstMessageFails(s) /\ ~CloseHeld(s)
      BY DEF SendCreateFails, FirstMessage, FirstMessageFails, CloseHeld, AfterFailure, Goto,
             Shape, TypeOK
    <2>4. ~StartStream(s) /\ ~StreamMessage(s) /\ ~StreamFails(s) /\ ~AckFails(s)
      BY DEF StartStream, StreamMessage, StreamFails, AckFails, Emit, Goto, Shape, TypeOK
    <2>5. DrainSees(s) \/ DrainFails(s) \/ Park(s)
      BY <1>2, <2>1, <2>2, <2>3, <2>4 DEF Handle
    <2>6. QED
      BY <2>5 DEF DrainSees, DrainFails, Park
  <1>3. CASE Aclose \/ UNCHANGED vars
    BY <1>3 DEF Aclose, AcloseBegin, SweepClose, AcloseEnd, vars, taskVars
  <1>4. CASE Environment
    <2>1. ASSUME NEW r \in Requests, Reject(r) \/ Delivered(r) \/ ClientLeaves(r) \/ Abandon(r)
          PROVE  pc[s] = "draining"
      BY <2>1 DEF Reject, Delivered, ClientLeaves, Abandon, Goto, Shape, TypeOK
    <2>2. ASSUME \/ \E c \in Conns : PeerCloses(c)
                 \/ \E c \in Conns, r \in Requests, kind \in Kinds : UpstreamSends(c, r, kind)
                 \/ \E k \in Keys : IdleExpires(k)
          PROVE  pc[s] = "draining"
      BY <2>2 DEF PeerCloses, UpstreamSends, IdleExpires, taskVars
    <2>3. QED
      BY <1>4, <2>1, <2>2 DEF Environment
  <1>5. QED
    BY <1>1, <1>2, <1>3, <1>4 DEF Next, Stopped

\* A task that drains keeps its socket as long as it does.
LEMMA DrainKeepsSocket ==
  ASSUME Shape, [Next]_vars, NEW s \in Requests, pc[s] = "draining", pc'[s] = "draining"
  PROVE  conn'[s] = conn[s]
  <1>1. ASSUME NEW r \in Requests, BeginAttempt(r) \/ Connect(r) \/ CloseHeld(r) \/ Park(r)
        PROVE  conn'[s] = conn[s]
    <2>1. r # s
      BY <1>1 DEF BeginAttempt, Connect, CloseHeld, Park, Goto, Shape, TypeOK
    <2>2. QED
      BY <1>1, <2>1 DEF BeginAttempt, Connect, CloseHeld, Park, Shape, TypeOK
  <1>2. ASSUME NEW r \in Requests, CloseDoomed(r) PROVE conn'[s] = conn[s]
    BY <1>2 DEF CloseDoomed
  <1>3. CASE AcloseBegin \/ SweepClose \/ (\E c \in Conns : PeerCloses(c))
    BY <1>3 DEF AcloseBegin, SweepClose, PeerCloses, taskVars
  <1>4. CASE Quiet
    BY <1>4, QuietKeeps
  <1>5. QED
    BY <1>1, <1>2, <1>3, <1>4, Steps

\* A step that takes from acked only sockets that are neither idle nor held by
\* a task that drains, and adds none to the pool.
LEMMA AckKept ==
  ASSUME Shape, Acknowledged, [Next]_vars, NEW D,
         acked' = acked \ D, \A r \in Requests : ~Release(r),
         \A k \in Keys : Bucket(k)' \subseteq Bucket(k) \ D,
         \A r \in Requests : pc[r] = "draining" => conn[r] \notin D
  PROVE  Acknowledged'
  <1>1. SendProcessed => \A k \in Keys : Bucket(k)' \subseteq acked'
    BY DEF Acknowledged
  <1>2. ASSUME NEW r \in Requests, pc'[r] = "draining", SendProcessed PROVE conn'[r] \in acked'
    BY <1>2, StillDraining, DrainKeepsSocket DEF Acknowledged
  <1>3. QED
    BY <1>1, <1>2 DEF Acknowledged

LEMMA AcknowledgedStep == Ownership /\ Acknowledged /\ [Next]_vars => Acknowledged'
  <1> SUFFICES ASSUME Ownership, Acknowledged, [Next]_vars PROVE Acknowledged'
    OBVIOUS
  <1>0. Shape /\ Shape' /\ Apart
    BY ShapeStep DEF Ownership
  <1>1. ASSUME NEW r \in Requests, Release(r) PROVE Acknowledged'
    <2>1. /\ acked \subseteq acked' /\ (SendProcessed => conn[r] \in acked')
          /\ UNCHANGED <<conn, idle>> /\ \A s \in Requests \ {r} : pc'[s] = pc[s]
      BY <1>0, <1>1 DEF Release, Goto, Shape, TypeOK, poolVars
    <2>2. QED
      BY <2>1 DEF Acknowledged, Bucket
  <1>2. ASSUME NEW r \in Requests, Park(r) PROVE Acknowledged'
    <2> PICK k \in Keys : k = PoolKey(r)
      BY <1>0 DEF Shape, TypeOK, PoolKey, Keys
    <2>1. /\ Bucket(k)' \subseteq Bucket(k) \cup {conn[r]}
          /\ \A j \in Keys \ {k} : Bucket(j)' = Bucket(j)
          /\ \A s \in Requests \ {r} : conn'[s] = conn[s]
      BY <1>0, <1>2, ParkEffect DEF Bucket
    <2>2. /\ pc[r] = "draining" /\ pc'[r] # "draining" /\ UNCHANGED acked
          /\ \A s \in Requests \ {r} : pc'[s] = pc[s]
      BY <1>0, <1>2 DEF Park, Goto, Shape, TypeOK, netVars
    <2>3. QED
      BY <2>1, <2>2 DEF Acknowledged
  <1> SUFFICES ASSUME \A r \in Requests : ~Release(r) /\ ~Park(r) PROVE Acknowledged'
    BY <1>1, <1>2
  <1>3. ASSUME \A k \in Keys : Bucket(k)' \subseteq Bucket(k), acked' = acked
        PROVE  Acknowledged'
    BY <1>0, <1>3, StillDraining, DrainKeepsSocket DEF Acknowledged
  <1>4. ASSUME NEW r \in Requests, SendCreate(r) PROVE Acknowledged'
    <2>1. /\ acked' = acked \ {conn[r]} /\ UNCHANGED idle /\ conn[r] # None
          /\ pc[r] = "sending"
      BY <1>0, <1>4 DEF SendCreate, Shape, PhaseOK, Holding, poolVars
    <2>2. \A k \in Keys : Bucket(k)' \subseteq Bucket(k) \ {conn[r]}
      BY <1>0, <2>1 DEF Apart, Bucket
    <2>3. \A s \in Requests : pc[s] = "draining" => conn[s] \notin {conn[r]}
      BY <1>0, <2>1 DEF Apart
    <2>4. QED
      BY <1>0, <2>1, <2>2, <2>3, AckKept
  <1>5. ASSUME NEW r \in Requests, BeginAttempt(r) PROVE Acknowledged'
    <2> PICK k \in Keys : k = PoolKey(r)
      BY <1>0 DEF Shape, TypeOK, PoolKey, Keys
    <2>1. Bucket(k)' \subseteq Bucket(k) /\ \A j \in Keys \ {k} : Bucket(j)' = Bucket(j)
      BY <1>0, <1>5, CheckoutEffect DEF Bucket
    <2>2. acked' = acked
      BY <1>5 DEF BeginAttempt, netVars
    <2>3. QED
      BY <1>3, <2>1, <2>2
  <1>6. ASSUME NEW r \in Requests, CloseDoomed(r) PROVE Acknowledged'
    <2>1. PICK c \in doomed[r] : acked' = acked \ {c} /\ UNCHANGED idle
      BY <1>0, <1>6, CloseDoomedEffect DEF Close
    <2>2. \A k \in Keys : Bucket(k)' \subseteq Bucket(k) \ {c}
      BY <1>0, <2>1 DEF Apart, Bucket
    <2>3. \A s \in Requests : conn[s] \notin {c}
      BY <1>0 DEF Apart
    <2>4. QED
      BY <1>0, <2>1, <2>2, <2>3, AckKept
  <1>7. ASSUME NEW r \in Requests, CloseHeld(r) PROVE Acknowledged'
    <2>1. /\ acked' = acked \ {conn[r]} /\ UNCHANGED idle /\ conn[r] # None
          /\ pc[r] # "draining"
      BY <1>0, <1>7, CloseHeldEffect, NoneIsNone DEF Close, CloseHeld
    <2>2. \A k \in Keys : Bucket(k)' \subseteq Bucket(k) \ {conn[r]}
      BY <1>0, <2>1 DEF Apart, Bucket
    <2>3. \A s \in Requests : pc[s] = "draining" => conn[s] \notin {conn[r]}
      BY <1>0, <2>1 DEF Apart
    <2>4. QED
      BY <1>0, <2>1, <2>2, <2>3, AckKept
  <1>8. CASE SweepClose
    <2>1. PICK c \in sweep : acked' = acked \ {c} /\ UNCHANGED idle
      BY <1>0, <1>8, SweepCloseEffect DEF Close
    <2>2. \A k \in Keys : Bucket(k)' \subseteq Bucket(k) \ {c}
      BY <1>0, <2>1 DEF Apart, Bucket
    <2>3. \A s \in Requests : conn[s] \notin {c}
      BY <1>0 DEF Apart
    <2>4. QED
      BY <1>0, <2>1, <2>2, <2>3, AckKept
  <1>9. CASE AcloseBegin
    BY <1>0, <1>3, <1>9, AcloseBeginEffect DEF AcloseBegin, netVars
  <1>10. ASSUME NEW r \in Requests, Connect(r) PROVE Acknowledged'
    BY <1>0, <1>3, <1>10, ConnectEffect DEF Bucket
  <1>11. ASSUME NEW c \in Conns, PeerCloses(c) PROVE Acknowledged'
    BY <1>0, <1>3, <1>11, PeerClosesEffect DEF Bucket
  <1>12. CASE Quiet /\ \A r \in Requests : ~SendCreate(r)
    <2>1. UNCHANGED idle
      BY <1>12, QuietKeeps
    <2>2. UNCHANGED acked
      BY <1>12 DEF Quiet, ConnectFails, SendCreateFails, FirstMessage, FirstMessageFails,
             StartStream, StreamMessage, StreamFails, AckFails, DrainSees, DrainFails, Reject,
             Delivered, ClientLeaves, Abandon, Receive, AcloseEnd, UpstreamSends, IdleExpires,
             vars, taskVars, netVars, poolVars, downVars
    <2>3. QED
      BY <1>3, <2>1, <2>2 DEF Bucket
  <1>13. QED
    BY <1>4, <1>5, <1>6, <1>7, <1>8, <1>9, <1>10, <1>11, <1>12, Steps

\* With response.processed configured, no socket is offered to a next request
\* before the upstream was told that the last response was processed.
THEOREM ReuseIsAcknowledged == Spec => []ProcessedBeforeReuse
  <1>1. Init => Acknowledged
    BY DEF Init, Acknowledged, Bucket, Range
  <1>2. Acknowledged => ProcessedBeforeReuse
    BY DEF Acknowledged, ProcessedBeforeReuse, Pooled, Bucket
  <1>3. QED
    BY <1>1, <1>2, AcknowledgedStep, OwnershipHolds, PTL DEF Spec

\* The strengthening of RetryLeavesNothing: no request is on record for a
\* socket that was never opened.
Recorded ==
  /\ RetryLeavesNothing
  /\ \A c \in Conns : sock[c] = "unused" => served[c] = {}

\* A task that gave its socket back never sends again.
LEMMA EndedStays ==
  ASSUME Shape, [Next]_vars, NEW s \in Requests, pc[s] \in {"evicting", "done"}
  PROVE  pc'[s] \in {"evicting", "done"}
  <1>1. ASSUME NEW r \in Requests, Handle(r) PROVE pc'[s] \in {"evicting", "done"}
    <2>1. CASE BeginAttempt(r)
      BY <2>1 DEF BeginAttempt, Goto, Shape, TypeOK
    <2>2. CASE CloseDoomed(r) \/ Connect(r) \/ ConnectFails(r) \/ SendCreate(r)
               \/ SendCreateFails(r) \/ FirstMessage(r) \/ FirstMessageFails(r) \/ CloseHeld(r)
      BY <2>2 DEF CloseDoomed, Connect, ConnectFails, SendCreate, SendCreateFails,
                  FirstMessage, FirstMessageFails, CloseHeld, AfterFailure, Goto, Shape, TypeOK
    <2>3. CASE StartStream(r) \/ StreamMessage(r) \/ StreamFails(r) \/ Release(r)
               \/ AckFails(r) \/ DrainSees(r) \/ DrainFails(r) \/ Park(r)
      BY <2>3 DEF StartStream, StreamMessage, StreamFails, Release, AckFails, DrainSees,
                  DrainFails, Park, Emit, Goto, Shape, TypeOK
    <2>4. QED
      BY <1>1, <2>1, <2>2, <2>3 DEF Handle
  <1>2. CASE Aclose \/ UNCHANGED vars
    BY <1>2 DEF Aclose, AcloseBegin, SweepClose, AcloseEnd, vars, taskVars
  <1>3. CASE Environment
    <2>1. ASSUME NEW r \in Requests, Reject(r) \/ Delivered(r) \/ ClientLeaves(r) \/ Abandon(r)
          PROVE  pc'[s] \in {"evicting", "done"}
      BY <2>1 DEF Reject, Delivered, ClientLeaves, Abandon, Goto, Shape, TypeOK
    <2>2. ASSUME \/ \E c \in Conns : PeerCloses(c)
                 \/ \E c \in Conns, r \in Requests, kind \in Kinds : UpstreamSends(c, r, kind)
                 \/ \E k \in Keys : IdleExpires(k)
          PROVE  pc'[s] \in {"evicting", "done"}
      BY <2>2 DEF PeerCloses, UpstreamSends, IdleExpires, taskVars
    <2>3. QED
      BY <1>3, <2>1, <2>2 DEF Environment
  <1>4. QED
    BY <1>1, <1>2, <1>3 DEF Next, Stopped

\* A step that sends no response.create and opens no socket.
LEMMA RecordedKept ==
  ASSUME Shape, Recorded, [Next]_vars, Live' \subseteq Live,
         \A c \in Conns : served'[c] \subseteq served[c],
         \A c \in Conns : sock'[c] = "unused" => sock[c] = "unused",
         \A r \in Requests : \/ conn'[r] = conn[r] \/ conn[r] \notin Live'
                             \/ pc'[r] \in {"evicting", "done"}
  PROVE  Recorded'
  <1>1. ASSUME NEW c \in Live', NEW r \in Requests, r \in served'[c]
        PROVE  conn'[r] = c \/ pc'[r] \in {"evicting", "done"}
    <2>1. c \in Live /\ c \in Conns /\ r \in served[c]
      BY <1>1 DEF Live
    <2>2. conn[r] = c \/ pc'[r] \in {"evicting", "done"}
      BY <2>1, EndedStays DEF Recorded, RetryLeavesNothing
    <2>3. QED
      BY <1>1, <2>2
  <1>2. QED
    BY <1>1 DEF Recorded, RetryLeavesNothing

LEMMA RecordedStep == Shape /\ Recorded /\ [Next]_vars => Recorded'
  <1> SUFFICES ASSUME Shape, Recorded, [Next]_vars PROVE Recorded'
    OBVIOUS
  <1>0. None \notin Live
    BY NoneIsNone DEF Live
  <1>1. ASSUME NEW r \in Requests, SendCreate(r) PROVE Recorded'
    <2>1. /\ served' = [served EXCEPT ![conn[r]] = @ \cup {r}] /\ sock[conn[r]] = "open"
          /\ UNCHANGED <<conn, sock>>
      BY <1>1 DEF SendCreate
    <2>2. ASSUME NEW c \in Live', NEW s \in Requests, s \in served'[c]
          PROVE  conn'[s] = c \/ pc'[s] \in {"evicting", "done"}
      <3>1. c \in Live /\ c \in Conns
        BY <2>1 DEF Live
      <3>2. CASE s \in served[c]
        BY <2>1, <3>1, <3>2, EndedStays DEF Recorded, RetryLeavesNothing
      <3>3. CASE s \notin served[c]
        BY <2>1, <2>2, <3>1, <3>3 DEF Shape, TypeOK
      <3>4. QED
        BY <3>2, <3>3
    <2>3. \A c \in Conns : sock'[c] = "unused" => served'[c] = {}
      BY <2>1 DEF Recorded, Shape, TypeOK
    <2>4. QED
      BY <2>2, <2>3 DEF Recorded, RetryLeavesNothing
  <1>2. ASSUME NEW r \in Requests, Connect(r) PROVE Recorded'
    <2>1. PICK c \in Conns :
            /\ sock[c] = "unused" /\ sock' = [sock EXCEPT ![c] = "open"]
            /\ Live' = Live \cup {c} /\ conn[r] = None
            /\ \A s \in Requests \ {r} : conn'[s] = conn[s]
            /\ UNCHANGED served
      BY <1>2, ConnectEffect
    <2>2. ASSUME NEW d \in Live', NEW s \in Requests, s \in served'[d]
          PROVE  conn'[s] = d \/ pc'[s] \in {"evicting", "done"}
      <3>1. d \in Live
        BY <2>1, <2>2 DEF Recorded
      <3>2. conn[s] = d \/ pc'[s] \in {"evicting", "done"}
        BY <2>1, <2>2, <3>1, EndedStays DEF Recorded, RetryLeavesNothing
      <3>3. QED
        BY <1>0, <2>1, <3>1, <3>2
    <2>3. \A d \in Conns : sock'[d] = "unused" => served'[d] = {}
      BY <2>1 DEF Recorded, Shape, TypeOK
    <2>4. QED
      BY <2>2, <2>3 DEF Recorded, RetryLeavesNothing
  <1>3. ASSUME NEW r \in Requests, BeginAttempt(r) PROVE Recorded'
    <2> PICK k \in Keys : k = PoolKey(r)
      BY DEF Shape, TypeOK, PoolKey, Keys
    <2>1. /\ conn[r] = None /\ \A s \in Requests \ {r} : conn'[s] = conn[s]
          /\ UNCHANGED <<sock, served>>
      BY <1>3, CheckoutEffect DEF netVars
    <2>2. Live' = Live
      BY <2>1 DEF Live
    <2>3. QED
      BY <1>0, <2>1, <2>2, RecordedKept
  <1>4. ASSUME NEW r \in Requests, Park(r) PROVE Recorded'
    <2>1. /\ \A s \in Requests \ {r} : conn'[s] = conn[s]
          /\ pc'[r] \in {"evicting", "done"} /\ UNCHANGED <<sock, served>>
      BY <1>4 DEF Park, Goto, Shape, TypeOK, netVars
    <2>2. Live' = Live
      BY <2>1 DEF Live
    <2>3. QED
      BY <2>1, <2>2, RecordedKept
  <1>5. ASSUME NEW c \in Conns, Close(c), Live' = Live \ {c},
               \A s \in Requests : conn'[s] = conn[s] \/ conn[s] = c
        PROVE  Recorded'
    <2>1. /\ \A d \in Conns : served'[d] \subseteq served[d]
          /\ \A d \in Conns : sock'[d] = "unused" => sock[d] = "unused"
      BY <1>5 DEF Close, Shape, TypeOK
    <2>2. QED
      BY <1>5, <2>1, RecordedKept
  <1>6. ASSUME NEW r \in Requests, CloseDoomed(r) PROVE Recorded'
    BY <1>5, <1>6, CloseDoomedEffect
  <1>7. ASSUME NEW r \in Requests, CloseHeld(r) PROVE Recorded'
    BY <1>5, <1>7, CloseHeldEffect
  <1>8. CASE SweepClose
    BY <1>5, <1>8, SweepCloseEffect
  <1>9. CASE AcloseBegin
    <2>1. UNCHANGED <<conn, sock, served, Live>>
      BY <1>9, AcloseBeginEffect DEF AcloseBegin, netVars
    <2>2. QED
      BY <2>1, RecordedKept
  <1>10. ASSUME NEW c \in Conns, PeerCloses(c) PROVE Recorded'
    BY <1>10, PeerClosesEffect, RecordedKept
  <1>11. CASE Quiet /\ \A r \in Requests : ~SendCreate(r)
    <2>1. UNCHANGED <<conn, sock>>
      BY <1>11, QuietKeeps
    <2>2. UNCHANGED served
      BY <1>11 DEF Quiet, ConnectFails, SendCreateFails, FirstMessage, FirstMessageFails,
             StartStream, StreamMessage, StreamFails, Release, AckFails, DrainSees, DrainFails,
             Reject, Delivered, ClientLeaves, Abandon, Receive, AcloseEnd, UpstreamSends,
             IdleExpires, vars, taskVars, netVars, poolVars, downVars
    <2>3. Live' = Live
      BY <2>1 DEF Live
    <2>4. QED
      BY <2>1, <2>2, <2>3, RecordedKept
  <1>12. QED
    BY <1>1, <1>2, <1>3, <1>4, <1>6, <1>7, <1>8, <1>9, <1>10, <1>11, Steps

\* Whatever fails and however often it is retried, no socket on which a request
\* was already sent stays open without the request that sent it, until that
\* request has ended well.
THEOREM RetriesLeaveNothing == Spec => []RetryLeavesNothing
  <1>1. Init => Recorded
    BY DEF Init, Recorded, RetryLeavesNothing, Live
  <1>2. Recorded => RetryLeavesNothing
    BY DEF Recorded
  <1>3. QED
    BY <1>1, <1>2, RecordedStep, ShapeHolds, PTL DEF Spec

-----------------------------------------------------------------------------
LEMMA LendStep ==
  ASSUME Ownership, [Next]_vars, NEW r \in Requests, conn'[r] \in Pooled
  PROVE  conn'[r] \in UsableIdle
  <1>0. Shape
    BY DEF Ownership
  <1>1. None \notin Live /\ Pooled \subseteq Live
    BY NoneIsNone DEF Live, Pooled, Bucket, Ownership, Alive
  <1>2. conn'[r] # conn[r] /\ conn'[r] # None
    BY <1>1 DEF Ownership, Apart, Pooled, Bucket
  <1>3. ASSUME NEW s \in Requests, BeginAttempt(s) PROVE conn'[r] \in UsableIdle
    <2> DEFINE b == idle[PoolKey(s)]
    <2>1. PICK n \in 0 .. Len(b) :
            StopsAt(b, UsableIdle, n) /\ conn' = [conn EXCEPT ![s] = IF n = 0 THEN None ELSE b[n]]
      BY <1>3 DEF BeginAttempt
    <2> HIDE DEF b
    <2>2. n # 0 /\ conn'[r] = b[n]
      BY <1>0, <1>2, <2>1 DEF Shape, TypeOK
    <2>3. QED
      BY <2>1, <2>2 DEF StopsAt
  <1>4. ASSUME NEW s \in Requests, Connect(s) PROVE FALSE
    <2>1. PICK c \in Conns : /\ c \notin Live /\ conn'[s] = c
                             /\ \A t \in Requests \ {s} : conn'[t] = conn[t]
      BY <1>0, <1>4, ConnectEffect
    <2>2. QED
      BY <1>1, <1>2, <2>1
  <1>5. ASSUME NEW s \in Requests, Park(s) \/ CloseHeld(s) PROVE FALSE
    BY <1>0, <1>2, <1>5 DEF Park, CloseHeld, Shape, TypeOK
  <1>6. ASSUME NEW s \in Requests, CloseDoomed(s) PROVE FALSE
    BY <1>2, <1>6 DEF CloseDoomed
  <1>7. CASE AcloseBegin \/ SweepClose \/ \E c \in Conns : PeerCloses(c)
    BY <1>2, <1>7 DEF AcloseBegin, SweepClose, PeerCloses, taskVars
  <1>8. CASE Quiet
    BY <1>2, <1>8, QuietKeeps
  <1>9. QED
    BY <1>3, <1>4, <1>5, <1>6, <1>7, <1>8, Steps

\* The only way out of the pool into a request is a checkout, and it lends no
\* socket that is too old or known to be closed.
THEOREM LendsFresh == Spec => NeverLendsStale
  <1>1. Ownership /\ [Next]_vars =>
          [\A r \in Requests : conn'[r] \in Pooled => conn'[r] \in UsableIdle]_vars
    BY LendStep
  <1>2. QED
    BY <1>1, OwnershipHolds, PTL DEF Spec, NeverLendsStale

-----------------------------------------------------------------------------
(* The refinement of ConnectionLease.                                       *)

\* The account a socket was opened for, and the one a request comes from.
Mine(c)      == Account[openedFor[c]]
AccountOf(r) == Account[request[r]]

\* A socket on a list of sockets to close.
ToClose(c) == c \in sweep \/ \E r \in Requests : c \in doomed[r]

\* What the place of a socket says of its life.
LifeOK ==
  \A c \in Conns :
    /\ sock[c] = "unused" => life[c] = Lease!Unused
    /\ sock[c] = "closed" => life[c] = Lease!Closed
    /\ \A r \in Requests : conn[r] = c => life[c] = Lease!Leased(r, AccountOf(r))
    /\ \A k \in Keys : c \in Bucket(k) => life[c] = Lease!Idle(Mine(c))
    /\ ToClose(c) => life[c] = Lease!Condemned(Mine(c))

LeaseInv == Ownership /\ Keyed /\ SameIdentity /\ Placed

\* A socket is unused, closed, or in one of the places of Placed.
LEMMA PlaceOf ==
  ASSUME LeaseInv, NEW c \in Conns
  PROVE  \/ sock[c] = "unused"
         \/ sock[c] = "closed"
         \/ \E r \in Requests : conn[r] = c
         \/ \E k \in Keys : c \in Bucket(k)
         \/ ToClose(c)
  BY DEF LeaseInv, Ownership, Shape, TypeOK, Placed, Live, ToClose

LEMMA LifeFacts == LeaseInv => LifeOK
  <1> SUFFICES ASSUME LeaseInv, NEW c \in Conns
               PROVE  /\ sock[c] = "unused" => life[c] = Lease!Unused
                      /\ sock[c] = "closed" => life[c] = Lease!Closed
                      /\ \A r \in Requests : conn[r] = c => life[c] = Lease!Leased(r, AccountOf(r))
                      /\ \A k \in Keys : c \in Bucket(k) => life[c] = Lease!Idle(Mine(c))
                      /\ ToClose(c) => life[c] = Lease!Condemned(Mine(c))
    BY DEF LifeOK
  <1> DEFINE holder == CHOOSE r \in Requests : conn[r] = c
             held == \E r \in Requests : conn[r] = c
  <1>0. Apart /\ Alive /\ SameIdentity /\ c # None
    BY NoneIsNone DEF LeaseInv, Ownership
  <1>1. life[c] = CASE sock[c] = "unused" -> [phase |-> "unused"]
                    [] sock[c] = "closed" -> [phase |-> "closed"]
                    [] c \in Live /\ held ->
                         [phase |-> "leased", holder |-> holder, account |-> Mine(c)]
                    [] c \in Live /\ ~held /\ c \in Pooled ->
                         [phase |-> "idle", account |-> Mine(c)]
                    [] c \in Live /\ ~held /\ c \in Condemned \ Pooled ->
                         [phase |-> "condemned", account |-> Mine(c)]
                    [] OTHER -> [phase |-> "lost"]
    BY DEF life, Mine
  <1> HIDE DEF holder, held
  <1>2. c \in Live => sock[c] # "unused" /\ sock[c] # "closed"
    BY DEF Live
  <1>3. ASSUME sock[c] = "unused" PROVE life[c] = Lease!Unused
    BY <1>1, <1>2, <1>3 DEF Lease!Unused
  <1>4. ASSUME sock[c] = "closed" PROVE life[c] = Lease!Closed
    BY <1>1, <1>2, <1>4 DEF Lease!Closed
  <1>5. ASSUME NEW r \in Requests, conn[r] = c PROVE life[c] = Lease!Leased(r, AccountOf(r))
    <2>1. held /\ c \in Live
      BY <1>0, <1>5 DEF held, Alive
    <2>2. holder \in Requests /\ conn[holder] = c
      BY <1>5 DEF holder
    <2>3. holder = r /\ Mine(c) = AccountOf(r)
      BY <1>0, <1>5, <2>2 DEF Apart, SameIdentity, Mine, AccountOf
    <2>4. QED
      BY <1>1, <1>2, <2>1, <2>3 DEF Lease!Leased
  <1>6. ASSUME NEW k \in Keys, c \in Bucket(k) PROVE life[c] = Lease!Idle(Mine(c))
    <2>1. c \in Live /\ ~held /\ c \in Pooled
      BY <1>0, <1>6 DEF Alive, Apart, held, Pooled, Bucket
    <2>2. QED
      BY <1>1, <1>2, <2>1 DEF Lease!Idle
  <1>7. ASSUME ToClose(c) PROVE life[c] = Lease!Condemned(Mine(c))
    <2>1. c \in Live /\ ~held /\ c \notin Pooled
      BY <1>0, <1>7 DEF Alive, Apart, held, Pooled, Bucket, ToClose
    <2>2. c \in Condemned
      BY <1>7 DEF Condemned, ToClose
    <2>3. QED
      BY <1>1, <1>2, <2>1, <2>2 DEF Lease!Condemned
  <1>8. QED
    BY <1>3, <1>4, <1>5, <1>6, <1>7

LEMMA OneLeaseHolds == LeaseInv => Lease!OneLease
  <1> SUFFICES ASSUME LeaseInv, NEW c \in Conns, NEW d \in Conns,
                      life[c].phase = "leased", life[d].phase = "leased",
                      life[c].holder = life[d].holder
               PROVE  c = d
    BY DEF Lease!OneLease
  <1>1. ASSUME NEW e \in Conns, life[e].phase = "leased"
        PROVE  \E r \in Requests : conn[r] = e /\ life[e].holder = r
    <2>1. LifeOK
      BY LifeFacts
    <2>2. sock[e] # "unused" /\ sock[e] # "closed"
      BY <1>1, <2>1 DEF LifeOK, Lease!Unused, Lease!Closed
    <2>3. ~ToClose(e) /\ \A k \in Keys : e \notin Bucket(k)
      <3>1. Lease!Condemned(Mine(e)).phase = "condemned"
        BY DEF Lease!Condemned
      <3>2. Lease!Idle(Mine(e)).phase = "idle"
        BY DEF Lease!Idle
      <3>3. QED
        BY <1>1, <2>1, <3>1, <3>2 DEF LifeOK
    <2>4. PICK r \in Requests : conn[r] = e
      BY <2>2, <2>3, PlaceOf
    <2>5. life[e] = Lease!Leased(r, AccountOf(r))
      BY <2>1, <2>4 DEF LifeOK
    <2>6. QED
      BY <2>4, <2>5 DEF Lease!Leased
  <1>2. QED
    BY <1>1

Moves(c) ==
  \/ Lease!Open(c) \/ Lease!Lend(c) \/ Lease!Return(c) \/ Lease!Condemn(c) \/ Lease!CloseIt(c)
  \/ life'[c] = life[c]

\* A socket that stays where it is keeps its life.
LEMMA StaysPut ==
  ASSUME LifeOK, LifeOK', NEW c \in Conns, UNCHANGED request,
         \/ sock[c] \in {"unused", "closed"} /\ sock'[c] = sock[c]
         \/ \E r \in Requests : conn[r] = c /\ conn'[r] = c
         \/ \E k \in Keys : c \in Bucket(k) /\ c \in Bucket(k)' /\ openedFor'[c] = openedFor[c]
         \/ ToClose(c) /\ ToClose(c)' /\ openedFor'[c] = openedFor[c]
  PROVE  Moves(c)
  <1>1. CASE sock[c] \in {"unused", "closed"} /\ sock'[c] = sock[c]
    BY <1>1 DEF LifeOK, Moves, Lease!Unused, Lease!Closed
  <1>2. ASSUME NEW r \in Requests, conn[r] = c, conn'[r] = c PROVE Moves(c)
    BY <1>2 DEF LifeOK, Moves, AccountOf
  <1>3. ASSUME NEW k \in Keys, c \in Bucket(k), c \in Bucket(k)', openedFor'[c] = openedFor[c]
        PROVE  Moves(c)
    BY <1>3 DEF LifeOK, Moves, Mine
  <1>4. CASE ToClose(c) /\ ToClose(c)' /\ openedFor'[c] = openedFor[c]
    BY <1>4 DEF LifeOK, Moves, Mine
  <1>5. QED
    BY <1>1, <1>2, <1>3, <1>4

\* An idle socket goes to a request of its account or to a list to close.
LEMMA LeavesPool ==
  ASSUME LeaseInv, SameIdentity', LifeOK, LifeOK', NEW c \in Conns, NEW k \in Keys, c \in Bucket(k),
         UNCHANGED <<request, openedFor>>,
         ToClose(c)' \/ \E r \in Requests : conn'[r] = c
  PROVE  Moves(c)
  <1>1. life[c] = Lease!Idle(Mine(c)) /\ openedFor[c] \in Profiles
    BY DEF LifeOK, LeaseInv, Keyed, Bucket
  <1>2. Mine(c)' = Mine(c) /\ \A r \in Requests : AccountOf(r)' = AccountOf(r)
    BY DEF Mine, AccountOf
  <1>3. CASE ToClose(c)'
    <2>1. life'[c] = Lease!Condemned(Mine(c))
      BY <1>2, <1>3 DEF LifeOK, Lease!Condemned
    <2>2. Mine(c) \in {Account[p] : p \in Profiles}
      BY <1>1 DEF Mine
    <2>3. QED
      BY <1>1, <2>1, <2>2 DEF Moves, Lease!Condemn
  <1>4. ASSUME NEW r \in Requests, conn'[r] = c PROVE Moves(c)
    <2>1. life'[c] = Lease!Leased(r, AccountOf(r))
      BY <1>2, <1>4 DEF LifeOK, Lease!Leased
    <2>2. Mine(c) = AccountOf(r)
      BY <1>4, NoneIsNone DEF SameIdentity, Mine, AccountOf
    <2>3. QED
      BY <1>1, <2>1, <2>2 DEF Moves, Lease!Lend, AccountOf
  <1>5. QED
    BY <1>3, <1>4

\* A socket that is held or on a list of sockets to close may be closed.
LEMMA IsClosed ==
  ASSUME LifeOK, LifeOK', NEW c \in Conns, sock'[c] = "closed",
         ToClose(c) \/ \E r \in Requests : conn[r] = c
  PROVE  Moves(c)
  <1>1. life'[c] = Lease!Closed
    BY DEF LifeOK, Lease!Closed
  <1>2. CASE ToClose(c)
    <2>1. life[c] = Lease!Condemned(Mine(c))
      BY <1>2 DEF LifeOK
    <2>2. life[c].phase = "condemned"
      BY <2>1 DEF Lease!Condemned
    <2>3. QED
      BY <1>1, <2>2 DEF Moves, Lease!CloseIt
  <1>3. ASSUME NEW r \in Requests, conn[r] = c PROVE Moves(c)
    <2>1. life[c] = Lease!Leased(r, AccountOf(r))
      BY <1>3 DEF LifeOK
    <2>2. life[c].phase = "leased"
      BY <2>1 DEF Lease!Leased
    <2>3. QED
      BY <1>1, <2>2 DEF Moves, Lease!CloseIt
  <1>4. QED
    BY <1>2, <1>3

LEMMA RequestKept == Shape /\ [Next]_vars => request' = request
  <1> SUFFICES ASSUME Shape, [Next]_vars PROVE request' = request
    OBVIOUS
  <1>1. ASSUME NEW r \in Requests, BeginAttempt(r) \/ Park(r) \/ CloseDoomed(r) \/ Connect(r)
                                  \/ CloseHeld(r)
        PROVE  request' = request
    BY <1>1 DEF BeginAttempt, Park, CloseDoomed, Connect, CloseHeld
  <1>2. CASE AcloseBegin \/ SweepClose \/ \E c \in Conns : PeerCloses(c)
    BY <1>2 DEF AcloseBegin, SweepClose, PeerCloses, taskVars
  <1>3. CASE Quiet
    BY <1>3, QuietKeeps
  <1>4. QED
    BY <1>1, <1>2, <1>3, Steps

LEMMA LeaseStep ==
  ASSUME LeaseInv, LeaseInv', LifeOK, LifeOK', [Next]_vars, NEW c \in Conns
  PROVE  Moves(c)
  <1>0. Shape /\ Apart /\ Alive /\ SameIdentity /\ SameIdentity' /\ None \notin Conns
    BY NoneIsNone DEF LeaseInv, Ownership
  <1> DEFINE Gone == sock[c] \in {"unused", "closed"}
             HeldBy(r) == conn[r] = c
             In(k) == c \in Bucket(k)
  <1>1. Gone \/ (\E r \in Requests : HeldBy(r)) \/ (\E k \in Keys : In(k)) \/ ToClose(c)
    BY PlaceOf
  <1>2. ASSUME NEW r \in Requests, BeginAttempt(r) PROVE Moves(c)
    <2> PICK k \in Keys : k = PoolKey(r)
      BY <1>0 DEF Shape, TypeOK, PoolKey, Keys
    <2>1. /\ conn[r] = None /\ doomed[r] = {}
          /\ \A s \in Requests \ {r} : conn'[s] = conn[s] /\ doomed'[s] = doomed[s]
          /\ Bucket(k) = Bucket(k)' \cup doomed'[r] \cup ({conn'[r]} \ {None})
          /\ UNCHANGED <<request, sock, openedFor, sweep>>
      BY <1>0, <1>2, CheckoutEffect DEF netVars, downVars
    <2>2. \A j \in Keys \ {k} : Bucket(j)' = Bucket(j)
      BY <1>0, <1>2, CheckoutEffect DEF Bucket
    <2>3. CASE Gone
      BY <2>1, <2>3, StaysPut
    <2>4. ASSUME NEW s \in Requests, HeldBy(s) PROVE Moves(c)
      BY <1>0, <2>1, <2>4, StaysPut
    <2>5. ASSUME NEW j \in Keys, In(j), j # k PROVE Moves(c)
      BY <2>1, <2>2, <2>5, StaysPut
    <2>6. CASE In(k) /\ In(k)'
      BY <2>1, <2>6, StaysPut
    <2>7. CASE In(k) /\ ~In(k)'
      <3>1. ToClose(c)' \/ conn'[r] = c
        BY <2>1, <2>7 DEF ToClose
      <3>2. QED
        BY <1>0, <2>1, <2>7, <3>1, LeavesPool
    <2>8. CASE ToClose(c)
      <3>1. ToClose(c)'
        BY <2>1, <2>8 DEF ToClose
      <3>2. QED
        BY <2>1, <2>8, <3>1, StaysPut
    <2>9. QED
      BY <1>1, <2>1, <2>3, <2>4, <2>5, <2>6, <2>7, <2>8
  <1>3. ASSUME NEW r \in Requests, Park(r) PROVE Moves(c)
    <2> PICK k \in Keys : k = PoolKey(r)
      BY <1>0 DEF Shape, TypeOK, PoolKey, Keys
    <2>1. /\ conn[r] \in Conns /\ doomed[r] = {}
          /\ \A s \in Requests \ {r} : conn'[s] = conn[s] /\ doomed'[s] = doomed[s]
          /\ Bucket(k)' \cup doomed'[r] = Bucket(k) \cup {conn[r]} /\ conn[r] \in Bucket(k)'
          /\ UNCHANGED <<request, sock, openedFor, sweep>>
      BY <1>0, <1>3, ParkEffect DEF netVars, downVars
    <2>2. \A j \in Keys \ {k} : Bucket(j)' = Bucket(j)
      BY <1>0, <1>3, ParkEffect DEF Bucket
    <2>3. CASE Gone
      BY <2>1, <2>3, StaysPut
    <2>4. ASSUME NEW s \in Requests, HeldBy(s), s # r PROVE Moves(c)
      BY <2>1, <2>4, StaysPut
    <2>5. CASE HeldBy(r)
      <3>1. life[c] = Lease!Leased(r, AccountOf(r)) /\ Mine(c) = AccountOf(r)
        BY <1>0, <2>5 DEF LifeOK, SameIdentity, Mine, AccountOf
      <3>2. life'[c] = Lease!Idle(Mine(c)')
        BY <2>1, <2>5 DEF LifeOK
      <3>3. Mine(c)' = Mine(c)
        BY <2>1 DEF Mine
      <3>4. AccountOf(r) \in {Account[p] : p \in Profiles}
        BY <1>0 DEF Shape, TypeOK, AccountOf
      <3>5. Lease!Return(c)
        BY <3>1, <3>2, <3>3, <3>4 DEF Lease!Return, Lease!Idle
      <3>6. QED
        BY <3>5 DEF Moves
    <2>6. ASSUME NEW j \in Keys, In(j), j # k PROVE Moves(c)
      BY <2>1, <2>2, <2>6, StaysPut
    <2>7. CASE In(k) /\ In(k)'
      BY <2>1, <2>7, StaysPut
    <2>8. CASE In(k) /\ ~In(k)'
      <3>1. ToClose(c)'
        BY <2>1, <2>8 DEF ToClose
      <3>2. QED
        BY <1>0, <2>1, <2>8, <3>1, LeavesPool
    <2>9. CASE ToClose(c)
      <3>1. ToClose(c)'
        BY <2>1, <2>9 DEF ToClose
      <3>2. QED
        BY <2>1, <2>9, <3>1, StaysPut
    <2>10. QED
      BY <1>1, <2>1, <2>3, <2>4, <2>5, <2>6, <2>7, <2>8, <2>9
  <1>4. ASSUME NEW r \in Requests, Connect(r) PROVE Moves(c)
    <2>1. PICK d \in Conns :
            /\ sock[d] = "unused" /\ sock' = [sock EXCEPT ![d] = "open"] /\ d \notin Live
            /\ \A e \in Conns \ {d} : openedFor'[e] = openedFor[e]
            /\ conn[r] = None /\ conn'[r] = d /\ \A s \in Requests \ {r} : conn'[s] = conn[s]
            /\ UNCHANGED <<doomed, idle, sweep, request>>
      BY <1>0, <1>4, ConnectEffect
    <2>2. CASE c = d
      <3>1. life[c] = Lease!Unused
        BY <2>1, <2>2 DEF LifeOK, Lease!Unused
      <3>2. life'[c] = Lease!Leased(r, AccountOf(r))
        BY <2>1, <2>2 DEF LifeOK, Lease!Leased, AccountOf
      <3>3. QED
        BY <2>1, <3>1, <3>2 DEF Moves, Lease!Open, AccountOf
    <2>3. CASE c # d /\ Gone
      <3>1. sock'[c] = sock[c]
        BY <1>0, <2>1, <2>3 DEF Shape, TypeOK
      <3>2. QED
        BY <2>1, <2>3, <3>1, StaysPut
    <2>4. ASSUME NEW s \in Requests, HeldBy(s) PROVE Moves(c)
      BY <1>0, <2>1, <2>4, StaysPut
    <2>5. ASSUME NEW j \in Keys, In(j) PROVE Moves(c)
      <3>1. c # d
        BY <1>0, <2>1, <2>5 DEF Alive
      <3>2. In(j)'
        BY <2>1, <2>5 DEF Bucket
      <3>3. QED
        BY <2>1, <2>5, <3>1, <3>2, StaysPut
    <2>6. CASE c # d /\ ToClose(c)
      <3>1. ToClose(c)' /\ openedFor'[c] = openedFor[c]
        BY <2>1, <2>6 DEF ToClose
      <3>2. QED
        BY <2>1, <2>6, <3>1, StaysPut
    <2>7. QED
      BY <1>1, <2>1, <2>2, <2>3, <2>4, <2>5, <2>6
  <1>5. ASSUME NEW d \in Conns, Close(d), UNCHANGED <<idle, request>>,
               ToClose(d) \/ \E r \in Requests : conn[r] = d,
               \A r \in Requests : conn[r] # d => conn'[r] = conn[r],
               c # d /\ ToClose(c) => ToClose(c)'
        PROVE  Moves(c)
    <2>1. sock'[d] = "closed" /\ (c # d => sock'[c] = sock[c]) /\ openedFor' = openedFor
      BY <1>0, <1>5 DEF Close, Shape, TypeOK
    <2>2. CASE c = d
      BY <1>5, <2>1, <2>2, IsClosed
    <2>3. CASE c # d
      <3>1. CASE Gone
        BY <1>5, <2>1, <2>3, <3>1, StaysPut
      <3>2. ASSUME NEW s \in Requests, HeldBy(s) PROVE Moves(c)
        BY <1>5, <2>3, <3>2, StaysPut
      <3>3. ASSUME NEW j \in Keys, In(j) PROVE Moves(c)
        BY <1>5, <2>1, <3>3, StaysPut DEF Bucket
      <3>4. CASE ToClose(c)
        BY <1>5, <2>1, <2>3, <3>4, StaysPut
      <3>5. QED
        BY <1>1, <1>5, <3>1, <3>2, <3>3, <3>4
    <2>4. QED
      BY <1>5, <2>2, <2>3
  <1>6. ASSUME NEW r \in Requests, CloseDoomed(r) PROVE Moves(c)
    <2>1. PICK d \in doomed[r] :
            /\ d \in Conns /\ Close(d) /\ doomed'[r] = doomed[r] \ {d}
            /\ \A s \in Requests \ {r} : doomed'[s] = doomed[s]
            /\ UNCHANGED <<conn, idle, sweep, request>>
      BY <1>0, <1>6, CloseDoomedEffect
    <2>2. ToClose(d) /\ (c # d /\ ToClose(c) => ToClose(c)')
      BY <2>1 DEF ToClose
    <2>3. QED
      BY <1>5, <2>1, <2>2
  <1>7. ASSUME NEW r \in Requests, CloseHeld(r) PROVE Moves(c)
    <2>1. /\ conn[r] \in Conns /\ Close(conn[r])
          /\ \A s \in Requests \ {r} : conn'[s] = conn[s]
          /\ UNCHANGED <<doomed, idle, sweep, request>>
      BY <1>0, <1>7, CloseHeldEffect
    <2>2. ToClose(c) => ToClose(c)'
      BY <2>1 DEF ToClose
    <2>3. QED
      BY <1>5, <2>1, <2>2
  <1>8. CASE SweepClose
    <2>1. PICK d \in sweep : /\ d \in Conns /\ Close(d) /\ sweep' = sweep \ {d}
                             /\ UNCHANGED <<conn, doomed, idle, request>>
      BY <1>0, <1>8, SweepCloseEffect
    <2>2. ToClose(d) /\ (c # d /\ ToClose(c) => ToClose(c)')
      BY <2>1 DEF ToClose
    <2>3. QED
      BY <1>5, <2>1, <2>2
  <1>9. CASE AcloseBegin
    <2>1. /\ \A d : d \in sweep' <=> \E k \in Keys : d \in Bucket(k)
          /\ sweep = {} /\ UNCHANGED <<conn, doomed, sock, openedFor, request>>
      BY <1>0, <1>9, AcloseBeginEffect
    <2>2. CASE Gone
      BY <2>1, <2>2, StaysPut
    <2>3. ASSUME NEW s \in Requests, HeldBy(s) PROVE Moves(c)
      BY <2>1, <2>3, StaysPut
    <2>4. ASSUME NEW j \in Keys, In(j) PROVE Moves(c)
      <3>1. ToClose(c)'
        BY <2>1, <2>4 DEF ToClose
      <3>2. QED
        BY <1>0, <2>1, <2>4, <3>1, LeavesPool
    <2>5. CASE ToClose(c)
      <3>1. ToClose(c)'
        BY <2>1, <2>5 DEF ToClose
      <3>2. QED
        BY <2>1, <2>5, <3>1, StaysPut
    <2>6. QED
      BY <1>1, <2>1, <2>2, <2>3, <2>4, <2>5
  <1>10. ASSUME UNCHANGED <<conn, doomed, idle, sweep, openedFor, request>>, Gone => sock'[c] = sock[c]
         PROVE  Moves(c)
    <2>1. CASE Gone
      BY <1>10, <2>1, StaysPut
    <2>2. ASSUME NEW s \in Requests, HeldBy(s) PROVE Moves(c)
      BY <1>10, <2>2, StaysPut
    <2>3. ASSUME NEW j \in Keys, In(j) PROVE Moves(c)
      BY <1>10, <2>3, StaysPut DEF Bucket
    <2>4. CASE ToClose(c)
      <3>1. ToClose(c)'
        BY <1>10, <2>4 DEF ToClose
      <3>2. QED
        BY <1>10, <2>4, <3>1, StaysPut
    <2>5. QED
      BY <1>1, <1>10, <2>1, <2>2, <2>3, <2>4
  <1>11. ASSUME NEW d \in Conns, PeerCloses(d) PROVE Moves(c)
    BY <1>0, <1>10, <1>11, PeerClosesEffect
  <1>12. CASE Quiet
    BY <1>10, <1>12, QuietKeeps
  <1>13. QED
    BY <1>2, <1>3, <1>4, <1>6, <1>7, <1>8, <1>9, <1>11, <1>12, Steps

LEMMA LeaseInvHolds == Spec => []LeaseInv
  BY OwnershipHolds, KeyedHolds, IdentityHolds, PlacedHolds, PTL DEF LeaseInv

\* The bridge implements the life cycle of ConnectionLease, for any number of
\* requests, accounts, sockets and attempts.
THEOREM LeaseImplemented == Spec => ImplementsLease
  <1>1. DOMAIN life = Conns /\ life = [c \in Conns |-> life[c]]
    BY DEF life
  <1> DEFINE account == [r \in Requests |-> Account[request[r]]]
  <1>2. Init /\ LeaseInv => Lease!Init
    <2> SUFFICES ASSUME Init, LeaseInv PROVE Lease!Init
      OBVIOUS
    <2>1. \A c \in Conns : life[c] = Lease!Unused
      BY LifeFacts DEF Init, LifeOK
    <2>2. life = [c \in Conns |-> Lease!Unused]
      BY <1>1, <2>1
    <2>3. account \in [Requests -> {Account[p] : p \in Profiles}]
      BY DEF Init
    <2>4. QED
      BY <2>2, <2>3 DEF Lease!Init
  <1>3. LeaseInv /\ LeaseInv' /\ [Next]_vars => [Lease!Next]_<<account, life>>
    <2> SUFFICES ASSUME LeaseInv, LeaseInv', [Next]_vars
                 PROVE  Lease!Next \/ UNCHANGED <<account, life>>
      OBVIOUS
    <2>1. LifeOK /\ LifeOK'
      BY LifeFacts, PTL
    <2>2. Lease!OneLease'
      BY OneLeaseHolds, PTL
    <2>3. \A c \in Conns : Moves(c)
      BY <2>1, LeaseStep
    <2>4. DOMAIN life' = Conns
      BY DEF life
    <2>5. account' = account
      BY RequestKept DEF LeaseInv, Ownership
    <2>6. QED
      BY <2>2, <2>3, <2>4, <2>5 DEF Lease!Next, Moves
  <1>4. QED
    BY <1>2, <1>3, LeaseInvHolds, PTL DEF Spec, ImplementsLease, Lease!Spec
=============================================================================
