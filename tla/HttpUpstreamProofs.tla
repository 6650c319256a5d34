------------------------- MODULE HttpUpstreamProofs -------------------------
(***************************************************************************)
(* Safety of HttpUpstream, for any number of attempts and chunks.  The     *)
(* inductive invariant says, phase by phase, whether the current attempt   *)
(* has its client open, and what the end of the body was worth.            *)
(***************************************************************************)
EXTENDS HttpUpstream, TLAPS

AttemptInv ==
  /\ pc = "new" => attempt = 0 /\ reply = "nothing"
  /\ pc = "backoff" => attempt < MaxAttempts
  /\ pc \notin {"new", "backoff"} => attempt \in Attempts
  /\ pc \in {"new", "backoff", "done"} => \A a \in Attempts : client[a] # "open"

BodyInv ==
  /\ body = "whole" =>
       /\ pc \in {"closing", "done", "lost"}
       /\ upstream[attempt] = "finished" /\ unread = 0
  /\ reply = "complete" => body = "whole"

\* The inductive invariant.
HInv == TypeOK /\ OneAttemptAtATime /\ AttemptInv /\ BodyInv

\* The invariant holds initially.
LEMMA HInvInit == Init => HInv
  <1> SUFFICES ASSUME Init PROVE HInv
    OBVIOUS
  <1>1. TypeOK
    <2>1. attempt \in 0 .. MaxAttempts /\ unread \in 0 .. MaxUnread
      BY HttpUpstreamAssumption DEF Init
    <2>2. QED
      BY <2>1 DEF Init, TypeOK, Phases
  <1>2. OneAttemptAtATime /\ AttemptInv /\ BodyInv
    BY DEF Init, OneAttemptAtATime, AttemptInv, BodyInv
  <1>3. QED
    BY <1>1, <1>2 DEF HInv

\* A new attempt: no client is open before it, and one afterwards.
LEMMA BeginStep == HInv /\ BeginAttempt => HInv'
  <1> SUFFICES ASSUME HInv, BeginAttempt PROVE HInv'
    OBVIOUS
  <1> USE DEF Attempts
  <1>0. TypeOK /\ OneAttemptAtATime /\ AttemptInv /\ BodyInv
    BY DEF HInv
  <1>1. attempt' = attempt + 1 /\ attempt' \in Attempts /\ body = "part"
    BY <1>0, HttpUpstreamAssumption DEF BeginAttempt, Goto, TypeOK, AttemptInv, BodyInv
  <1>2. \A a \in Attempts : a # attempt' => client'[a] = client[a] /\ client[a] # "open"
    BY <1>0 DEF BeginAttempt, Goto, TypeOK, AttemptInv
  <1>3. TypeOK'
    BY <1>0, <1>1 DEF BeginAttempt, Goto, TypeOK, Phases
  <1>4. OneAttemptAtATime'
    BY <1>0, <1>2 DEF BeginAttempt, Goto, OneAttemptAtATime, AttemptInv
  <1>5. AttemptInv' /\ BodyInv'
    BY <1>0, <1>1 DEF BeginAttempt, Goto, AttemptInv, BodyInv
  <1>6. QED
    BY <1>3, <1>4, <1>5 DEF HInv

\* Every step keeps the invariant.
LEMMA HInvStep == HInv /\ [Next]_vars => HInv'
  <1> SUFFICES ASSUME HInv, [Next]_vars PROVE HInv'
    OBVIOUS
  <1> USE DEF Attempts, Goto, envVars
  <1>0. TypeOK /\ OneAttemptAtATime /\ AttemptInv /\ BodyInv
    BY DEF HInv
  <1>1. CASE BeginAttempt
    BY <1>1, BeginStep
  <1>2. CASE HeadersRead \/ AttemptRaises
    <2>1. TypeOK'
      BY <1>0, <1>2, HttpUpstreamAssumption
         DEF HeadersRead, AttemptRaises, TypeOK, Phases
    <2>2. OneAttemptAtATime' /\ AttemptInv'
      BY <1>0, <1>2
         DEF HeadersRead, AttemptRaises, TypeOK, OneAttemptAtATime, AttemptInv
    <2>3. BodyInv'
      BY <1>0, <1>2
         DEF HeadersRead, AttemptRaises, TypeOK, AttemptInv, BodyInv
    <2>4. QED
      BY <2>1, <2>2, <2>3 DEF HInv
  <1>3. CASE AttemptFails
    <2>1. TypeOK'
      BY <1>0, <1>3, HttpUpstreamAssumption
         DEF AttemptFails, MayRetry, TypeOK, Phases
    <2>2. OneAttemptAtATime' /\ AttemptInv'
      BY <1>0, <1>3
         DEF AttemptFails, MayRetry, TypeOK, OneAttemptAtATime, AttemptInv
    <2>3. BodyInv'
      BY <1>0, <1>3
         DEF AttemptFails, MayRetry, TypeOK, AttemptInv, BodyInv
    <2>4. QED
      BY <2>1, <2>2, <2>3 DEF HInv
  <1>4. CASE StartReply \/ Abandon \/ ReadChunk \/ Passed
    <2>1. TypeOK'
      BY <1>0, <1>4, HttpUpstreamAssumption
         DEF StartReply, Abandon, ReadChunk, Passed, TypeOK, Phases
    <2>2. OneAttemptAtATime' /\ AttemptInv'
      BY <1>0, <1>4
         DEF StartReply, Abandon, ReadChunk, Passed, TypeOK, OneAttemptAtATime, AttemptInv
    <2>3. BodyInv'
      BY <1>0, <1>4
         DEF StartReply, Abandon, ReadChunk, Passed, TypeOK, AttemptInv, BodyInv
    <2>4. QED
      BY <2>1, <2>2, <2>3 DEF HInv
  <1>5. CASE BodyEnds \/ BodyFails \/ ClientLost
    <2>1. TypeOK'
      BY <1>0, <1>5, HttpUpstreamAssumption
         DEF BodyEnds, BodyFails, ClientLost, Noticing, TypeOK, Phases
    <2>2. OneAttemptAtATime' /\ AttemptInv'
      BY <1>0, <1>5
         DEF BodyEnds, BodyFails, ClientLost, Noticing, TypeOK, OneAttemptAtATime, AttemptInv
    <2>3. BodyInv'
      BY <1>0, <1>5
         DEF BodyEnds, BodyFails, ClientLost, Noticing, TypeOK, AttemptInv, BodyInv
    <2>4. QED
      BY <2>1, <2>2, <2>3 DEF HInv
  <1>6. CASE CloseUpstream \/ CloseUpstreamRaises
    <2>1. TypeOK'
      BY <1>0, <1>6, HttpUpstreamAssumption
         DEF CloseUpstream, CloseUpstreamRaises, TypeOK, Phases
    <2>2. OneAttemptAtATime' /\ AttemptInv'
      BY <1>0, <1>6
         DEF CloseUpstream, CloseUpstreamRaises, TypeOK, OneAttemptAtATime, AttemptInv
    <2>3. BodyInv'
      BY <1>0, <1>6
         DEF CloseUpstream, CloseUpstreamRaises, TypeOK, AttemptInv, BodyInv
    <2>4. QED
      BY <2>1, <2>2, <2>3 DEF HInv
  <1>7. CASE ChunkArrives \/ ClientGoes
    <2>1. TypeOK'
      BY <1>0, <1>7, HttpUpstreamAssumption
         DEF ChunkArrives, ClientGoes, TypeOK, Phases
    <2>2. OneAttemptAtATime' /\ AttemptInv'
      BY <1>0, <1>7
         DEF ChunkArrives, ClientGoes, TypeOK, OneAttemptAtATime, AttemptInv
    <2>3. BodyInv'
      BY <1>0, <1>7
         DEF ChunkArrives, ClientGoes, TypeOK, AttemptInv, BodyInv
    <2>4. QED
      BY <2>1, <2>2, <2>3 DEF HInv
  <1>8. CASE \E a \in Attempts : UpstreamMoves(a)
    <2>1. TypeOK'
      BY <1>0, <1>8, HttpUpstreamAssumption
         DEF UpstreamMoves, TypeOK, Phases
    <2>2. OneAttemptAtATime' /\ AttemptInv'
      BY <1>0, <1>8
         DEF UpstreamMoves, TypeOK, OneAttemptAtATime, AttemptInv
    <2>3. BodyInv'
      <3>1. PICK a \in Attempts : UpstreamMoves(a)
        BY <1>8
      <3>2. \A b \in Attempts : upstream[b] = "finished" => upstream'[b] = "finished"
        BY <1>0, <3>1 DEF UpstreamMoves, TypeOK
      <3>3. UNCHANGED <<pc, attempt, unread, body, reply>>
        BY <3>1 DEF UpstreamMoves
      <3>4. body = "whole" => attempt \in Attempts
        BY <1>0 DEF AttemptInv, BodyInv
      <3>5. QED
        BY <1>0, <3>2, <3>3, <3>4 DEF BodyInv
    <2>4. QED
      BY <2>1, <2>2, <2>3 DEF HInv
  <1>9. CASE UNCHANGED vars
    <2>1. TypeOK'
      BY <1>0, <1>9, HttpUpstreamAssumption
         DEF vars, TypeOK, Phases
    <2>2. OneAttemptAtATime' /\ AttemptInv'
      BY <1>0, <1>9
         DEF vars, TypeOK, OneAttemptAtATime, AttemptInv
    <2>3. BodyInv'
      BY <1>0, <1>9
         DEF vars, TypeOK, AttemptInv, BodyInv
    <2>4. QED
      BY <2>1, <2>2, <2>3 DEF HInv
  <1>10. QED
    BY <1>1, <1>2, <1>3, <1>4, <1>5, <1>6, <1>7, <1>8, <1>9
       DEF Next, Handle, Environment, Over

\* The invariant holds throughout.
LEMMA HInvHolds == Spec => []HInv
  BY HInvInit, HInvStep, PTL DEF Spec

\* Type correctness.
THEOREM TypeCorrect == Spec => []TypeOK
  BY HInvHolds, PTL DEF HInv

\* A request is asked again only after the attempt before was closed, and never
\* once a response was begun (open_upstream_with_retries).
THEOREM OneAttempt == Spec => []OneAttemptAtATime
  BY HInvHolds, PTL DEF HInv

\* A request that ends by the code that cleans up leaves nothing open.
THEOREM NothingLeft == Spec => []NothingLeftOpen
  <1>1. HInv => NothingLeftOpen
    BY DEF HInv, AttemptInv, NothingLeftOpen
  <1>2. QED
    BY <1>1, HInvHolds, PTL

\* No client takes a part of a response for the whole of it
\* (stream_upstream_body and its front ends).
THEOREM NoSilentTruncation == Spec => []WholeOrCut
  <1>1. HInv => WholeOrCut
    BY DEF HInv, BodyInv, WholeOrCut
  <1>2. QED
    BY <1>1, HInvHolds, PTL
=============================================================================
