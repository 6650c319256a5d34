---------------------------- MODULE SocksHandshake ----------------------------
(***************************************************************************)
(* The two ends of SOCKS5 in this program: the server of socks_mitm.py and *)
(* the client of outbound.py.  They meet each other (one instance of the   *)
(* proxy is the OUTBOUND_PROXY of another) or a foreign peer, which is     *)
(* what it sends.  Bytes are numbers up to Byte (255 in the code): framing *)
(* is what can go wrong here.  A host is its encoded form.                 *)
(***************************************************************************)
EXTENDS Integers, Sequences

CONSTANTS
  Byte,       \* the largest byte; as a method, 0xFF
  Hosts,      \* hosts, as sequences of bytes, also some that do not fit, which
              \* stand for those that cannot be encoded, too
  Logins,     \* user names and passwords of OUTBOUND_PROXY, as sequences of bytes
  Decodable,  \* the sequences of bytes that are names to the idna codec
  FromClient, \* the handshakes of foreign clients, by their fields
  FromServer  \* the answers of foreign servers

VARIABLES
  up, down,      \* bytes on their way to the server, to the client
  spc, need,     \* what the server reads next, and how many bytes of it
  target,        \* what the server has read of the target
  cpc, cneed,    \* the same of the client
  want,          \* the target the client asks for, and its login
  script,        \* what the foreign peer, if any, sends
  gone,          \* the peers that closed: subset of {"client", "server"}
  timedOut,      \* a recv of the client timed out
  unsent         \* a sendall of the client raised

server == <<spc, need, target>>
client == <<cpc, cneed, timedOut, unsent>>
vars   == <<up, down, server, client, want, script, gone>>

After(s, n) == SubSeq(s, n + 1, Len(s))

-----------------------------------------------------------------------------
(* _socks5_handshake of the server, from one readexactly to the next.       *)

Expect(what, n) == spc' = what /\ need' = n /\ UNCHANGED <<down, gone>>

\* The handler closes the connection when the handshake returns no target or
\* raises.
Refuse(bytes) ==
  /\ spc' = "refused" /\ need' = 0 /\ down' = down \o bytes
  /\ gone' = gone \cup {"server"}

Answer(code) == <<5, code, 0, 1, 0, 0, 0, 0, 0, 0>>

Greeting(b) ==
  /\ IF b[1] = 5 THEN Expect("methods", b[2]) ELSE Refuse(<<>>)
  /\ UNCHANGED target

\* Fault: only the method the client likes best is looked at.
FirstMethod(b) ==
  /\ IF Len(b) > 0 /\ b[1] = 0
     THEN spc' = "header" /\ need' = 4 /\ down' = down \o <<5, 0>> /\ UNCHANGED gone
     ELSE Refuse(<<5, Byte>>)
  /\ UNCHANGED target

Methods(b) ==
  /\ IF \E i \in 1 .. Len(b) : b[i] = 0
     THEN spc' = "header" /\ need' = 4 /\ down' = down \o <<5, 0>> /\ UNCHANGED gone
     ELSE Refuse(<<5, Byte>>)
  /\ UNCHANGED target

\* The address type says how long the address is.
Header(b) ==
  /\ \/ b[1] # 5 /\ Refuse(Answer(1))
     \/ b[1] = 5 /\ b[2] # 1 /\ Refuse(Answer(7))
     \/ b[1] = 5 /\ b[2] = 1 /\ b[4] = 1 /\ Expect("address", 4)
     \/ b[1] = 5 /\ b[2] = 1 /\ b[4] = 3 /\ Expect("length", 1)
     \/ b[1] = 5 /\ b[2] = 1 /\ b[4] = 4 /\ Expect("address", 16)
     \/ b[1] = 5 /\ b[2] = 1 /\ b[4] \notin {1, 3, 4} /\ Refuse(<<>>)
  /\ UNCHANGED target

\* Fault: the length of a host is taken to count its length byte.
LengthInclusive(b) == Expect("name", IF b[1] = 0 THEN 0 ELSE b[1] - 1) /\ UNCHANGED target

Length(b) == Expect("name", b[1]) /\ UNCHANGED target

Name(b) ==
  IF b \in Decodable THEN Expect("port", 2) /\ target' = b
  ELSE Refuse(<<>>) /\ UNCHANGED target

Address(b) == Expect("port", 2) /\ target' = b

\* The success reply goes out before anything is connected.
Port(b) ==
  /\ spc' = "accepted" /\ need' = 0 /\ target' = target \o b
  /\ down' = down \o Answer(0) /\ UNCHANGED gone

ServerReads ==
  LET b == SubSeq(up, 1, need)
  IN  /\ Len(up) >= need /\ up' = After(up, need)
      /\ \/ spc = "greeting" /\ Greeting(b)
         \/ spc = "methods" /\ Methods(b)
         \/ spc = "header" /\ Header(b)
         \/ spc = "length" /\ Length(b)
         \/ spc = "name" /\ Name(b)
         \/ spc = "address" /\ Address(b)
         \/ spc = "port" /\ Port(b)
      /\ UNCHANGED <<client, want, script>>

\* IncompleteReadError.  There is no timeout.
ServerStarves ==
  /\ spc \notin {"accepted", "refused", "foreign"}
  /\ Len(up) < need /\ "client" \in gone /\ Refuse(<<>>)
  /\ UNCHANGED <<up, target, client, want, script>>

-----------------------------------------------------------------------------
(* _socks5_handshake of the client, from one _recv_exact to the next.       *)

Await(what, n, bytes) ==
  cpc' = what /\ cneed' = n /\ up' = up \o bytes /\ UNCHANGED <<gone, unsent>>

\* Fault: the socket is not closed when the handshake raises.
RaiseOpen == cpc' = "failed" /\ cneed' = 0 /\ UNCHANGED gone

\* open_socks5_socket closes the socket, whatever the handshake raised.
Raise == cpc' = "failed" /\ cneed' = 0 /\ gone' = gone \cup {"client"}

Fail == Raise /\ UNCHANGED <<up, unsent>>

\* sendall takes the bytes one after the other; it raises when the peer closed,
\* and when the peer takes none of them for as long as the timeout.
SendFails(bytes) ==
  /\ Raise /\ unsent' = TRUE
  /\ \E k \in 0 .. Len(bytes) - 1 : up' = up \o SubSeq(bytes, 1, k)

Send(what, n, bytes) == Await(what, n, bytes) \/ SendFails(bytes)

Fits(s) == Len(s) <= Byte

Connect == <<5, 1, 0, 3, Len(want.host)>> \o want.host \o want.port

\* Fault: the length of the host is not checked.
RequestUnchecked == Send("reply", 4, Connect)

\* The host, with its length in one byte, and the port.
Request == IF Fits(want.host) THEN Send("reply", 4, Connect) ELSE Fail

\* A login of two empty strings is none.
NoLogin == [user |-> <<>>, password |-> <<>>]

LoginFits == Fits(want.login.user) /\ Fits(want.login.password)

Credentials == <<1, Len(want.login.user)>> \o want.login.user
         \o <<Len(want.login.password)>> \o want.login.password

\* Four sendalls in the code, which make one message.
Login == IF LoginFits THEN Send("authenticated", 2, Credentials) ELSE Fail

ClientGreets ==
  /\ cpc = "start"
  /\ Send("selected", 2, IF want.login = NoLogin THEN <<5, 1, 0>> ELSE <<5, 2, 0, 2>>)
  /\ UNCHANGED <<down, server, want, script, timedOut>>

\* Method 2 is taken also when it was not offered.
Selected(b) ==
  \/ b[1] = 5 /\ b[2] = 0 /\ Request
  \/ b[1] = 5 /\ b[2] = 2 /\ Login
  \/ (b[1] # 5 \/ b[2] \notin {0, 2}) /\ Fail

Authenticated(b) == IF b = <<1, 0>> THEN Request ELSE Fail

Replied(b) ==
  \/ b[1] = 5 /\ b[2] = 0 /\ b[4] = 1 /\ Await("bound", 4, <<>>)
  \/ b[1] = 5 /\ b[2] = 0 /\ b[4] = 3 /\ Await("length", 1, <<>>)
  \/ b[1] = 5 /\ b[2] = 0 /\ b[4] = 4 /\ Await("bound", 16, <<>>)
  \/ (b[1] # 5 \/ b[2] # 0 \/ b[4] \notin {1, 3, 4}) /\ Fail

\* Fault: the two bytes of the bound port are not read.
BoundWithoutPort(b) == Await("connected", 0, <<>>)

\* The bound address is skipped, and then its port.
Bound(b) == Await("port", 2, <<>>)

ClientReads ==
  LET b == SubSeq(down, 1, cneed)
  IN  /\ Len(down) >= cneed /\ down' = After(down, cneed)
      /\ \/ cpc = "selected" /\ Selected(b)
         \/ cpc = "authenticated" /\ Authenticated(b)
         \/ cpc = "reply" /\ Replied(b)
         \/ cpc = "length" /\ Await("bound", b[1], <<>>)
         \/ cpc = "bound" /\ Bound(b)
         \/ cpc = "port" /\ Await("connected", 0, <<>>)
      /\ UNCHANGED <<server, want, script, timedOut>>

\* recv returns nothing, or times out.
ClientStarves ==
  /\ cpc \notin {"start", "connected", "failed", "foreign"} /\ Len(down) < cneed /\ Fail
  /\ timedOut' = ("server" \notin gone)
  /\ UNCHANGED <<down, server, want, script>>
-----------------------------------------------------------------------------
(* A foreign peer is a script: the bytes it sends, the target or nothing   *)
(* they name, the payload they end with, and whether they are a handshake  *)
(* that must succeed.  Only the first cut of its bytes may arrive, so that *)
(* every sequence of bytes is what some script sends.                      *)
Bytes == 0 .. Byte

\* An address has the length its type tells, and is followed by a port.
Addressed ==
  {f \in [type : Bytes, address : Seq(Bytes), port : Seq(Bytes), payload : Seq(Bytes)] :
     /\ f.type = 1 => Len(f.address) = 4
     /\ f.type = 3 => f.address # <<>> /\ Len(f.address) = f.address[1] + 1
     /\ f.type = 4 => Len(f.address) = 16
     /\ Len(f.port) = 2}

\* [version, methods, request, command, reserved, to]; request is the version in
\* the request, to is its address and what follows.
ClientScript(f) ==
  LET host == IF f.to.type = 3 THEN Tail(f.to.address) ELSE f.to.address
  IN  [bytes   |-> <<f.version, Len(f.methods)>> \o f.methods \o <<f.request, f.command, f.reserved, f.to.type>>
                   \o f.to.address \o f.to.port \o f.to.payload,
       target  |-> host \o f.to.port,
       payload |-> f.to.payload,
       valid   |-> /\ f.version = 5 /\ \E i \in DOMAIN f.methods : f.methods[i] = 0
                   /\ f.request = 5 /\ f.command = 1
                   /\ f.to.type \in {1, 4} \/ (f.to.type = 3 /\ host \in Decodable)]

\* [version, method, auth, reply, code, reserved, bound]; auth is what a server
\* answers to the password, reply the version in the reply.
ServerScript(f) ==
  [bytes   |-> <<f.version, f.method>> \o f.auth \o <<f.reply, f.code, f.reserved, f.bound.type>>
               \o f.bound.address \o f.bound.port \o f.bound.payload,
   target  |-> <<>>,
   payload |-> f.bound.payload,
   valid   |-> /\ f.version = 5 /\ (f.method = 0 \/ (f.method = 2 /\ f.auth = <<1, 0>>))
               /\ f.reply = 5 /\ f.code = 0 /\ f.bound.type \in {1, 3, 4}]

\* Every description whose lengths are what their bytes tell.
ClientHandshakes ==
  {f \in [version : Bytes, methods : Seq(Bytes), request : Bytes, command : Bytes,
          reserved : Bytes, to : Addressed] : Len(f.methods) <= Byte}

ServerHandshakes ==
  {f \in [version : Bytes, method : Bytes, auth : Seq(Bytes), reply : Bytes, code : Bytes,
          reserved : Bytes, bound : Addressed] : Len(f.auth) = IF f.method = 2 THEN 2 ELSE 0}

\* The codes of SOCKS5 reach 8.
ASSUME SocksHandshakeAssumption ==
  /\ Byte \in Nat /\ Byte >= 8
  /\ Hosts \subseteq Seq(Bytes) /\ \A h \in Hosts : Fits(h) => h \in Decodable
  /\ NoLogin \in Logins /\ Logins \subseteq [user : Seq(Bytes), password : Seq(Bytes)]
  /\ FromClient \subseteq ClientHandshakes /\ FromServer \subseteq ServerHandshakes

Arrived == SubSeq(script.bytes, 1, script.cut)

Complete == script.valid /\ script.cut >= Len(script.bytes) - Len(script.payload)

\* What is left for the tunnel after a handshake.
Payload == After(Arrived, Len(script.bytes) - Len(script.payload))

NoScript == [bytes |-> <<>>, target |-> <<>>, payload |-> <<>>, valid |-> FALSE, cut |-> 0]

Cuts(scripts) ==
  UNION {{[bytes |-> s.bytes, target |-> s.target, payload |-> s.payload, valid |-> s.valid,
           cut |-> k] : k \in 0 .. Len(s.bytes)} : s \in scripts}

Init ==
  /\ target = <<>> /\ timedOut = FALSE /\ unsent = FALSE
  /\ want \in [host : Hosts, port : {<<1, 4>>}, login : Logins]
  /\ \/ spc = "greeting" /\ need = 2 /\ cpc = "start" /\ cneed = 0
        /\ script = NoScript /\ up = <<>> /\ down = <<>> /\ gone = {}
     \/ spc = "greeting" /\ need = 2 /\ cpc = "foreign" /\ cneed = 0
        /\ want.login = NoLogin /\ script \in Cuts({ClientScript(f) : f \in FromClient}) /\ up = Arrived /\ down = <<>>
        /\ gone \in {{}, {"client"}}
     \/ spc = "foreign" /\ need = 0 /\ cpc = "start" /\ cneed = 0
        /\ script \in Cuts({ServerScript(f) : f \in FromServer}) /\ up = <<>> /\ down = Arrived
        /\ gone \in {{}, {"server"}}

Server == ServerReads \/ ServerStarves
Client == ClientGreets \/ ClientReads \/ ClientStarves

Next == Server \/ Client

Spec == Init /\ [][Next]_vars

\* Both peers run; of the two only the client has timeouts.
FairSpec == Spec /\ WF_vars(Server) /\ WF_vars(Client)

-----------------------------------------------------------------------------
(* Properties.                                                              *)

\* Types; every length that is sent fits a byte.
TypeOK ==
  /\ up \in Seq(Bytes) /\ down \in Seq(Bytes)
  /\ spc \in {"foreign", "greeting", "methods", "header", "length", "name", "address",
             "port", "accepted", "refused"}
  /\ cpc \in {"foreign", "start", "selected", "authenticated", "reply", "length", "bound", "port",
             "connected", "failed"}
  /\ need \in Nat /\ cneed \in Nat /\ target \in Seq(Bytes)
  /\ gone \subseteq {"client", "server"} /\ timedOut \in BOOLEAN /\ unsent \in BOOLEAN

\* The server reads exactly the handshake of whatever client: the target is the
\* one the client named, what follows is left for the tunnel, and a client that
\* keeps to the protocol is not refused.
ServerAgrees ==
  cpc = "foreign" =>
    /\ spc = "accepted" => script.valid /\ target = script.target /\ up = Payload
    /\ spc = "refused" => ~Complete

\* The server asks for the login, and it does not fit.
LoginRefused == script.bytes[2] = 2 /\ ~LoginFits

\* The client reads exactly the answers of whatever server: it succeeds only if
\* the server did, with the first bytes of the target left to read, and when it
\* could send its part it fails only if the server did not answer, or the host
\* or the login that the server asks for does not fit.
ClientAgrees ==
  spc = "foreign" =>
    /\ cpc = "connected" => script.valid /\ down = Payload
    /\ cpc = "failed" => ~Complete \/ unsent \/ ~Fits(want.host) \/ LoginRefused

\* Two proxies in a chain: they agree on the target, leave no byte behind, and
\* fail only by a timeout, a send that raises, or a host that does not fit.
ChainWorks ==
  cpc # "foreign" /\ spc # "foreign" =>
    /\ cpc = "connected" =>
         spc = "accepted" /\ target = want.host \o want.port /\ up = <<>> /\ down = <<>>
    /\ cpc = "failed" => timedOut \/ unsent \/ ~Fits(want.host)

\* The client always comes to an end; the server does when its client went or
\* failed.  A client that stays and says nothing holds it for ever.
HandshakeEnds ==
  /\ <>(cpc \in {"connected", "failed", "foreign"})
  /\ ("client" \in gone \/ cpc = "failed") ~> spc \in {"accepted", "refused", "foreign"}
=============================================================================
