------------------------------ MODULE ByteStream ------------------------------
(***************************************************************************)
(* What a tunnel promises of one direction: its sink gets a prefix of what *)
(* the source sent, and is told a clean end ("fin") only when that prefix  *)
(* is everything, unless the source broke or the sink itself ended first.  *)
(* Data are counted, not named: bytes keep their order on every connection *)
(* and in every buffer on the way.                                         *)
(***************************************************************************)
EXTENDS Integers

VARIABLES
  sent, delivered,  \* chunks the source sent, chunks the sink got
  source, sink,     \* "absent", "open", or how the endpoint ended: "fin", "rst"
  told              \* how the tunnel ended towards the sink: "open", "fin", "rst"

vars == <<sent, delivered, source, sink, told>>

Init ==
  /\ sent = 0 /\ delivered = 0 /\ told = "open"
  /\ source \in {"absent", "open"} /\ sink \in {"absent", "open"}

Send ==
  /\ source = "open" /\ sent' = sent + 1
  /\ UNCHANGED <<delivered, source, sink, told>>

EndpointMoves ==
  /\ \/ source = "absent" /\ source' = "open" /\ sink' = sink
     \/ sink = "absent" /\ sink' = "open" /\ source' = source
     \/ source = "open" /\ source' = "fin" /\ sink' = sink
     \/ sink = "open" /\ sink' = "fin" /\ source' = source
     \/ source \in {"open", "fin"} /\ source' = "rst" /\ sink' = sink
     \/ sink \in {"open", "fin"} /\ sink' = "rst" /\ source' = source
  /\ UNCHANGED <<sent, delivered, told>>

\* With the last chunk delivered the end may come in the same step.
MayEnd ==
  \/ source = "fin" /\ delivered' = sent
  \/ source \in {"absent", "rst"}
  \/ sink \in {"fin", "rst"}

DeliverOrEnd ==
  /\ told = "open"
  /\ \/ delivered' = delivered
     \/ delivered < sent /\ delivered' = delivered + 1
  /\ \/ told' = "open"
     \/ told' \in {"fin", "rst"} /\ MayEnd
  /\ UNCHANGED <<sent, source, sink>>

Next == Send \/ EndpointMoves \/ DeliverOrEnd

Spec == Init /\ [][Next]_vars
=============================================================================
