--------------------------- MODULE ConnectionLease ---------------------------
(***************************************************************************)
(* What websocket_bridge.py promises of its upstream sockets, without the  *)
(* code: every socket is opened for one account, is lent to one request    *)
(* of that account at a time, waits idle between two of them, and ends     *)
(* closed.  Sockets move independently of one another, several in a step.  *)
(***************************************************************************)
CONSTANTS Requests, Accounts, Conns

VARIABLES
  account,  \* the account of each request
  life      \* the state of each socket

Unused       == [phase |-> "unused"]
Leased(r, a) == [phase |-> "leased", holder |-> r, account |-> a]
Idle(a)      == [phase |-> "idle", account |-> a]
Condemned(a) == [phase |-> "condemned", account |-> a]
Closed       == [phase |-> "closed"]

Init ==
  /\ account \in [Requests -> Accounts]
  /\ life = [c \in Conns |-> Unused]

Open(c) ==
  /\ life[c] = Unused
  /\ \E r \in Requests : life'[c] = Leased(r, account[r])

Lend(c) ==
  \E r \in Requests : life[c] = Idle(account[r]) /\ life'[c] = Leased(r, account[r])

Return(c) ==
  \E r \in Requests, a \in Accounts : life[c] = Leased(r, a) /\ life'[c] = Idle(a)

Condemn(c) ==
  \E a \in Accounts : life[c] = Idle(a) /\ life'[c] = Condemned(a)

CloseIt(c) ==
  /\ life[c].phase \in {"leased", "condemned"}
  /\ life'[c] = Closed

\* A request never has two sockets.
OneLease ==
  LET leased == {c \in Conns : life[c].phase = "leased"}
  IN  \A c, d \in leased : life[c].holder = life[d].holder => c = d

Next ==
  /\ \A c \in Conns : \/ life'[c] = life[c]
                      \/ Open(c) \/ Lend(c) \/ Return(c) \/ Condemn(c) \/ CloseIt(c)
  /\ DOMAIN life' = Conns
  /\ OneLease'
  /\ account' = account

Spec == Init /\ [][Next]_<<account, life>>
=============================================================================
