------------------------------ MODULE IdlePool ------------------------------
(***************************************************************************)
(* The container of WebSocketBridgePool: one bucket of idle connections    *)
(* per pool key, oldest first.  Checkout takes the newest usable entry and *)
(* throws away what it had to skip; release drops the oldest entries of a  *)
(* full bucket before it appends.                                          *)
(*                                                                         *)
(* An entry (IdleWebSocketBridge) is the connection it holds: the context, *)
(* the key and the two timestamps of the record follow from it, and its    *)
(* age and state enter as the set `usable' of the connections for which    *)
(* _is_idle_entry_usable holds.                                            *)
(***************************************************************************)
EXTENDS Integers, Sequences, Functions

\* WEBSOCKET_POOL_MAX_IDLE.  0 stands for every configuration that never
\* retains a connection: no pool, max_idle <= 0 or idle_timeout <= 0.
CONSTANT MaxIdle

ASSUME MaxIdleAssumption == MaxIdle \in Nat

\* Fault: the newest entry is taken as it is.
StopsAtNewest(bucket, usable, n) == n = Len(bucket)

\* The pop loop of _checkout stops at entry n: the newest usable one, or 0
\* when the whole bucket was popped.
StopsAt(bucket, usable, n) ==
  /\ n > 0 => bucket[n] \in usable
  /\ \A i \in (n + 1) .. Len(bucket) : bucket[i] \notin usable

\* Fault: the entries that are skipped are not put on the stale list.
SkippedForgotten(bucket, n) == {}

\* What the loop popped and will not use.
Skipped(bucket, n) == {bucket[i] : i \in (n + 1) .. Len(bucket)}

\* Fault: the chosen entry is read and not popped.
LeftWithChosen(bucket, n) == SubSeq(bucket, 1, n)

\* What the loop leaves in the bucket.
Left(bucket, n) == SubSeq(bucket, 1, n - 1)

\* Fault: `while len(bucket) > max_idle'.
OverflowStrict(bucket) == IF Len(bucket) > MaxIdle THEN Len(bucket) - MaxIdle ELSE 0

\* How many entries `while len(bucket) >= max_idle: bucket.pop(0)' pops.
Overflow(bucket) == IF Len(bucket) >= MaxIdle THEN Len(bucket) - MaxIdle + 1 ELSE 0

Evicted(bucket) == {bucket[i] : i \in 1 .. Overflow(bucket)}

\* The bucket after the eviction loop and the append of c.
Parked(bucket, c) ==
  Append(SubSeq(bucket, Overflow(bucket) + 1, Len(bucket)), c)
=============================================================================
