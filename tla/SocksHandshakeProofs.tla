------------------------- MODULE SocksHandshakeProofs -------------------------
(***************************************************************************)
(* Proofs about SocksHandshake.  Each read takes a prefix of what is on    *)
(* its way; the invariants say which part of the handshake that prefix is. *)
(***************************************************************************)
EXTENDS SocksHandshake, SequenceTheorems, TLAPS

-----------------------------------------------------------------------------
(* A prefix and the rest.                                                   *)

LEMMA TakeDrop ==
  ASSUME NEW S, NEW s \in Seq(S), NEW n \in Nat, n <= Len(s)
  PROVE  /\ SubSeq(s, 1, n) \in Seq(S) /\ Len(SubSeq(s, 1, n)) = n
         /\ \A i \in 1 .. n : SubSeq(s, 1, n)[i] = s[i] /\ s[i] \in S
         /\ After(s, n) \in Seq(S) /\ Len(After(s, n)) = Len(s) - n
         /\ \A i \in 1 .. Len(s) - n : After(s, n)[i] = s[n + i]
<1>1. Len(s) \in Nat /\ \A i \in 1 .. Len(s) : s[i] \in S
  BY ElementOfSeq
<1>2. /\ SubSeq(s, 1, n) \in Seq(S) /\ Len(SubSeq(s, 1, n)) = n
      /\ \A i \in 1 .. n : SubSeq(s, 1, n)[i] = s[i] /\ s[i] \in S
  <2>1. \A i \in 1 .. n : s[i] \in S
    BY <1>1
  <2>2. /\ SubSeq(s, 1, n) \in Seq(S)
        /\ Len(SubSeq(s, 1, n)) = IF 1 <= n THEN n - 1 + 1 ELSE 0
        /\ \A i \in 1 .. n - 1 + 1 : SubSeq(s, 1, n)[i] = s[1 + i - 1]
    BY <2>1, SubSeqProperties
  <2>3. \A i \in 1 .. n : i \in 1 .. n - 1 + 1 /\ 1 + i - 1 = i
    OBVIOUS
  <2> QED BY <2>1, <2>2, <2>3
<1>3. /\ After(s, n) \in Seq(S) /\ Len(After(s, n)) = Len(s) - n
      /\ \A i \in 1 .. Len(s) - n : After(s, n)[i] = s[n + i]
  <2>1. n + 1 \in Int /\ Len(s) \in Int /\ \A i \in n + 1 .. Len(s) : s[i] \in S
    BY <1>1
  <2>2. /\ After(s, n) \in Seq(S)
        /\ Len(After(s, n)) = IF n + 1 <= Len(s) THEN Len(s) - (n + 1) + 1 ELSE 0
        /\ \A i \in 1 .. Len(s) - (n + 1) + 1 : After(s, n)[i] = s[n + 1 + i - 1]
    BY <2>1, SubSeqProperties DEF After
  <2>3. \A i \in 1 .. Len(s) - n : i \in 1 .. Len(s) - (n + 1) + 1 /\ n + 1 + i - 1 = n + i
    BY <1>1
  <2> QED BY <1>1, <2>2, <2>3
<1> QED BY <1>2, <1>3

LEMMA TakeDropBytes ==
  ASSUME NEW s \in Seq(Bytes), NEW n \in Nat, n <= Len(s)
  PROVE  /\ SubSeq(s, 1, n) \in Seq(Bytes) /\ Len(SubSeq(s, 1, n)) = n
         /\ \A i \in 1 .. n : SubSeq(s, 1, n)[i] = s[i] /\ s[i] \in Bytes
         /\ After(s, n) \in Seq(Bytes) /\ Len(After(s, n)) = Len(s) - n
         /\ \A i \in 1 .. Len(s) - n : After(s, n)[i] = s[n + i]
BY TakeDrop

\* A whole part that was put in front is what is read.
LEMMA TakeDropConcat ==
  ASSUME NEW S, NEW s \in Seq(S), NEW t \in Seq(S)
  PROVE  SubSeq(s \o t, 1, Len(s)) = s /\ After(s \o t, Len(s)) = t
<1> DEFINE c == s \o t
<1>1. /\ c \in Seq(S) /\ Len(c) = Len(s) + Len(t)
      /\ \A i \in 1 .. Len(s) + Len(t) : c[i] = IF i <= Len(s) THEN s[i] ELSE t[i - Len(s)]
  BY ConcatProperties
<1>2. Len(s) \in Nat /\ Len(t) \in Nat
  OBVIOUS
<1> HIDE DEF c
<1>3. /\ SubSeq(c, 1, Len(s)) \in Seq(S) /\ Len(SubSeq(c, 1, Len(s))) = Len(s)
      /\ \A i \in 1 .. Len(s) : SubSeq(c, 1, Len(s))[i] = c[i]
      /\ After(c, Len(s)) \in Seq(S) /\ Len(After(c, Len(s))) = Len(c) - Len(s)
      /\ \A i \in 1 .. Len(c) - Len(s) : After(c, Len(s))[i] = c[Len(s) + i]
  <2> DEFINE n == Len(s)
  <2>1. n \in Nat /\ n <= Len(c) /\ c \in Seq(S)
    BY <1>1, <1>2
  <2> HIDE DEF n
  <2>2. /\ SubSeq(c, 1, n) \in Seq(S) /\ Len(SubSeq(c, 1, n)) = n
        /\ \A i \in 1 .. n : SubSeq(c, 1, n)[i] = c[i]
        /\ After(c, n) \in Seq(S) /\ Len(After(c, n)) = Len(c) - n
        /\ \A i \in 1 .. Len(c) - n : After(c, n)[i] = c[n + i]
    BY ONLY <2>1, TakeDrop
  <2> QED BY <2>2 DEF n
<1>4. SubSeq(c, 1, Len(s)) = s
  <2>1. \A i \in 1 .. Len(s) : SubSeq(c, 1, Len(s))[i] = s[i]
    BY <1>1, <1>2, <1>3
  <2> QED BY <1>3, <2>1, SeqEqual
<1>5. After(c, Len(s)) = t
  <2>1. Len(After(c, Len(s))) = Len(t)
    BY <1>1, <1>2, <1>3
  <2>2. \A i \in 1 .. Len(t) : After(c, Len(s))[i] = t[i]
    <3> TAKE i \in 1 .. Len(t)
    <3>1. i \in 1 .. Len(c) - Len(s) /\ Len(s) + i \in 1 .. Len(s) + Len(t) /\ ~(Len(s) + i <= Len(s))
          /\ Len(s) + i - Len(s) = i
      BY <1>1, <1>2
    <3>2. After(c, Len(s))[i] = c[Len(s) + i]
      BY <1>3, <3>1
    <3>3. c[Len(s) + i] = t[i]
      BY <1>1, <3>1
    <3> QED BY <3>2, <3>3
  <2> QED BY <1>3, <2>1, <2>2, SeqEqual
<1> QED BY <1>4, <1>5 DEF c

-----------------------------------------------------------------------------
(* Types.  How much an end reads is fixed by what it reads, but for methods *)
(* and addresses.                                                           *)

Sizes ==
  /\ spc \in {"greeting", "port"} => need = 2
  /\ spc = "header" => need = 4
  /\ spc = "length" => need = 1
  /\ cpc \in {"selected", "authenticated", "port"} => cneed = 2
  /\ cpc = "reply" => cneed = 4
  /\ cpc = "length" => cneed = 1

Given ==
  /\ want.host \in Hosts /\ want.port = <<1, 4>> /\ want.login \in Logins
  /\ script.bytes \in Seq(Bytes) /\ script.payload \in Seq(Bytes) /\ script.cut \in 0 .. Len(script.bytes)

TInv == TypeOK /\ Sizes /\ Given

LEMMA Constants ==
  /\ Byte \in Nat /\ Byte \in Bytes /\ \A i \in 0 .. 8 : i \in Bytes
  /\ \A i \in Bytes : i \in Nat
  /\ <<>> \in Seq(Bytes)
BY SocksHandshakeAssumption, EmptySeq DEF Bytes

\* What the two ends send, but for the request.
LEMMA Messages ==
  /\ <<5, 0>> \in Seq(Bytes) /\ <<5, Byte>> \in Seq(Bytes) /\ <<1, 4>> \in Seq(Bytes)
  /\ \A i \in 0 .. 8 : Answer(i) \in Seq(Bytes)
  /\ <<5, 2, 0, 2>> \in Seq(Bytes) /\ <<5, 1, 0>> \in Seq(Bytes)
BY SocksHandshakeAssumption DEF Bytes, Answer

LEMMA HostBytes ==
  ASSUME NEW h \in Hosts
  PROVE  h \in Seq(Bytes) /\ Byte \in Nat /\ Len(h) \in Nat /\ (Fits(h) => Len(h) \in Bytes)
BY SocksHandshakeAssumption DEF Bytes, Fits

LEMMA LoginBytes ==
  ASSUME NEW l \in Logins
  PROVE  /\ l.user \in Seq(Bytes) /\ l.password \in Seq(Bytes)
         /\ Fits(l.user) => Len(l.user) \in Bytes
         /\ Fits(l.password) => Len(l.password) \in Bytes
<1>1. l.user \in Seq(Bytes) /\ l.password \in Seq(Bytes) /\ Byte \in Nat
  BY SocksHandshakeAssumption
<1>2. ASSUME NEW t \in Seq(Bytes), Fits(t) PROVE Len(t) \in Bytes
  BY <1>1, <1>2 DEF Fits, Bytes
<1> QED BY <1>1, <1>2

-----------------------------------------------------------------------------
(* The bytes of a script, field by field.                                   *)

LEMMA Concatenated ==
  ASSUME NEW S, NEW s \in Seq(S), NEW t \in Seq(S)
  PROVE  /\ s \o t \in Seq(S) /\ Len(s \o t) = Len(s) + Len(t)
         /\ \A i \in 1 .. Len(s) : (s \o t)[i] = s[i]
         /\ \A i \in 1 .. Len(t) : (s \o t)[Len(s) + i] = t[i]
<1> DEFINE c == s \o t
<1>1. /\ c \in Seq(S) /\ Len(c) = Len(s) + Len(t)
      /\ \A i \in 1 .. Len(s) + Len(t) : c[i] = IF i <= Len(s) THEN s[i] ELSE t[i - Len(s)]
  BY ConcatProperties
<1>2. Len(s) \in Nat /\ Len(t) \in Nat
  OBVIOUS
<1> HIDE DEF c
<1>3. \A i \in 1 .. Len(s) : c[i] = s[i]
  BY <1>1, <1>2
<1>4. ASSUME NEW i \in 1 .. Len(t) PROVE c[Len(s) + i] = t[i]
  <2>1. Len(s) + i \in 1 .. Len(s) + Len(t) /\ ~(Len(s) + i <= Len(s)) /\ Len(s) + i - Len(s) = i
    BY <1>2
  <2> QED BY <1>1, <2>1
<1> QED BY <1>1, <1>3, <1>4 DEF c

\* Six parts, of which the first, the third and the fifth have two, four and two bytes.
HasParts(B, g, m, h, a, p, y) ==
  /\ B \in Seq(Bytes) /\ Len(B) = Len(m) + Len(a) + Len(y) + 8
  /\ \A i \in 1 .. 2 : B[i] = g[i]
  /\ \A i \in 1 .. Len(m) : B[2 + i] = m[i]
  /\ \A i \in 1 .. 4 : B[Len(m) + 2 + i] = h[i]
  /\ \A i \in 1 .. Len(a) : B[Len(m) + 6 + i] = a[i]
  /\ \A i \in 1 .. 2 : B[Len(m) + 6 + Len(a) + i] = p[i]
  /\ \A i \in 1 .. Len(y) : B[Len(m) + 8 + Len(a) + i] = y[i]

LEMMA SixParts ==
  ASSUME NEW g \in Seq(Bytes), NEW m \in Seq(Bytes), NEW h \in Seq(Bytes), NEW a \in Seq(Bytes),
         NEW p \in Seq(Bytes), NEW y \in Seq(Bytes), Len(g) = 2, Len(h) = 4, Len(p) = 2
  PROVE  HasParts(g \o m \o h \o a \o p \o y, g, m, h, a, p, y)
<1> DEFINE n == Len(m)
           k == Len(a)
           B == g \o m \o h \o a \o p \o y
<1>0. n \in Nat /\ k \in Nat /\ Len(y) \in Nat
  OBVIOUS
<1>n. n = Len(m) /\ k = Len(a)
  OBVIOUS
<1> HIDE DEF n, k
<1>a. PICK c2 : c2 = g \o m
  OBVIOUS
<1>b. PICK c3 : c3 = c2 \o h
  OBVIOUS
<1>c. PICK c4 : c4 = c3 \o a
  OBVIOUS
<1>d. PICK c5 : c5 = c4 \o p
  OBVIOUS
<1>e. B = c5 \o y
  BY <1>a, <1>b, <1>c, <1>d
<1> HIDE DEF B
<1>1. /\ c2 \in Seq(Bytes) /\ Len(c2) = 2 + n
      /\ \A i \in 1 .. 2 : c2[i] = g[i]
      /\ \A i \in 1 .. n : c2[2 + i] = m[i]
  <2>1. /\ c2 \in Seq(Bytes) /\ Len(c2) = Len(g) + Len(m)
        /\ \A i \in 1 .. Len(g) : c2[i] = g[i]
        /\ \A i \in 1 .. Len(m) : c2[Len(g) + i] = m[i]
    BY ONLY <1>a, g \in Seq(Bytes), m \in Seq(Bytes), Concatenated
  <2> QED BY <2>1, <1>n
<1>2. /\ c3 \in Seq(Bytes) /\ Len(c3) = 2 + n + 4
      /\ \A i \in 1 .. 2 + n : c3[i] = c2[i]
      /\ \A i \in 1 .. 4 : c3[2 + n + i] = h[i]
  <2>1. /\ c3 \in Seq(Bytes) /\ Len(c3) = Len(c2) + Len(h)
        /\ \A i \in 1 .. Len(c2) : c3[i] = c2[i]
        /\ \A i \in 1 .. Len(h) : c3[Len(c2) + i] = h[i]
    <3>1. c2 \in Seq(Bytes)
      BY <1>1
    <3> QED BY ONLY <1>b, <3>1, h \in Seq(Bytes), Concatenated
  <2> QED BY <2>1, <1>1, Len(h) = 4
<1>3. /\ c4 \in Seq(Bytes) /\ Len(c4) = 2 + n + 4 + k
      /\ \A i \in 1 .. 2 + n + 4 : c4[i] = c3[i]
      /\ \A i \in 1 .. k : c4[2 + n + 4 + i] = a[i]
  <2>1. /\ c4 \in Seq(Bytes) /\ Len(c4) = Len(c3) + Len(a)
        /\ \A i \in 1 .. Len(c3) : c4[i] = c3[i]
        /\ \A i \in 1 .. Len(a) : c4[Len(c3) + i] = a[i]
    <3>1. c3 \in Seq(Bytes)
      BY <1>2
    <3> QED BY ONLY <1>c, <3>1, a \in Seq(Bytes), Concatenated
  <2> QED BY <2>1, <1>2, <1>n
<1>4. /\ c5 \in Seq(Bytes) /\ Len(c5) = 2 + n + 4 + k + 2
      /\ \A i \in 1 .. 2 + n + 4 + k : c5[i] = c4[i]
      /\ \A i \in 1 .. 2 : c5[2 + n + 4 + k + i] = p[i]
  <2>1. /\ c5 \in Seq(Bytes) /\ Len(c5) = Len(c4) + Len(p)
        /\ \A i \in 1 .. Len(c4) : c5[i] = c4[i]
        /\ \A i \in 1 .. Len(p) : c5[Len(c4) + i] = p[i]
    <3>1. c4 \in Seq(Bytes)
      BY <1>3
    <3> QED BY ONLY <1>d, <3>1, p \in Seq(Bytes), Concatenated
  <2> QED BY <2>1, <1>3, Len(p) = 2
<1>5. /\ B \in Seq(Bytes) /\ Len(B) = 2 + n + 4 + k + 2 + Len(y)
      /\ \A i \in 1 .. 2 + n + 4 + k + 2 : B[i] = c5[i]
      /\ \A i \in 1 .. Len(y) : B[2 + n + 4 + k + 2 + i] = y[i]
  <2>1. /\ B \in Seq(Bytes) /\ Len(B) = Len(c5) + Len(y)
        /\ \A i \in 1 .. Len(c5) : B[i] = c5[i]
        /\ \A i \in 1 .. Len(y) : B[Len(c5) + i] = y[i]
    <3>1. c5 \in Seq(Bytes)
      BY <1>4
    <3> QED BY ONLY <1>e, <3>1, y \in Seq(Bytes), Concatenated
  <2> QED BY <2>1, <1>4
<1>6. Len(B) = n + k + Len(y) + 8
  BY <1>0, <1>5
<1>7. ASSUME NEW i \in 1 .. 2 + n + 4 + k PROVE B[i] = c4[i]
  <2>1. i \in 1 .. 2 + n + 4 + k + 2
    BY <1>0
  <2> QED BY <1>4, <1>5, <2>1
<1>8. ASSUME NEW i \in 1 .. 2 + n + 4 PROVE B[i] = c3[i]
  <2>1. i \in 1 .. 2 + n + 4 + k
    BY <1>0
  <2> QED BY <1>3, <1>7, <2>1
<1>9. ASSUME NEW i \in 1 .. 2 + n PROVE B[i] = c2[i]
  <2>1. i \in 1 .. 2 + n + 4
    BY <1>0
  <2> QED BY <1>2, <1>8, <2>1
<1>10. ASSUME NEW i \in 1 .. 2 PROVE B[i] = g[i]
  <2>1. i \in 1 .. 2 + n
    BY <1>0
  <2> QED BY <1>1, <1>9, <2>1
<1>11. ASSUME NEW i \in 1 .. n PROVE B[2 + i] = m[i]
  <2>1. 2 + i \in 1 .. 2 + n
    BY <1>0
  <2> QED BY <1>1, <1>9, <2>1
<1>12. ASSUME NEW i \in 1 .. 4 PROVE B[n + 2 + i] = h[i]
  <2>1. n + 2 + i \in 1 .. 2 + n + 4 /\ n + 2 + i = 2 + n + i
    BY <1>0
  <2> QED BY <1>2, <1>8, <2>1
<1>13. ASSUME NEW i \in 1 .. k PROVE B[n + 6 + i] = a[i]
  <2>1. n + 6 + i \in 1 .. 2 + n + 4 + k /\ n + 6 + i = 2 + n + 4 + i
    BY <1>0
  <2> QED BY <1>3, <1>7, <2>1
<1>14. ASSUME NEW i \in 1 .. 2 PROVE B[n + 6 + k + i] = p[i]
  <2>1. n + 6 + k + i \in 1 .. 2 + n + 4 + k + 2 /\ n + 6 + k + i = 2 + n + 4 + k + i
    BY <1>0
  <2>2. B[n + 6 + k + i] = c5[2 + n + 4 + k + i]
    BY <1>5, <2>1
  <2> QED BY <1>4, <2>2
<1>15. ASSUME NEW i \in 1 .. Len(y) PROVE B[n + 8 + k + i] = y[i]
  <2>1. n + 8 + k + i = 2 + n + 4 + k + 2 + i
    BY <1>0
  <2> QED BY <1>5, <2>1
<1> QED BY <1>5, <1>6, <1>10, <1>11, <1>12, <1>13, <1>14, <1>15 DEF n, k, B, HasParts

\* The fields of f at their places in B; m bytes of methods, a of address, y of payload.
HasClient(f, B, m, a, y) ==
  /\ B \in Seq(Bytes) /\ Len(B) = m + a + y + 8
  /\ m \in Nat /\ a \in Nat /\ y \in Nat
  /\ B[1] = f.version /\ B[2] = m
  /\ \A i \in 1 .. m : B[2 + i] = f.methods[i]
  /\ B[m + 3] = f.request /\ B[m + 4] = f.command /\ B[m + 6] = f.to.type
  /\ \A i \in 1 .. a : B[m + 6 + i] = f.to.address[i]
  /\ \A i \in 1 .. 2 : B[m + 6 + a + i] = f.to.port[i]

LEMMA ClientBytes ==
  ASSUME NEW f \in FromClient
  PROVE  /\ HasClient(f, ClientScript(f).bytes, Len(f.methods), Len(f.to.address), Len(f.to.payload))
         /\ f.to.payload \in Seq(Bytes)
<1> DEFINE B == ClientScript(f).bytes
           m == Len(f.methods)
           a == Len(f.to.address)
<1>1. /\ f \in [version : Bytes, methods : Seq(Bytes), request : Bytes, command : Bytes,
               reserved : Bytes, to : Addressed]
      /\ Len(f.methods) <= Byte /\ Byte \in Nat
  BY SocksHandshakeAssumption DEF ClientHandshakes
<1>2. /\ f.to.type \in Bytes /\ f.to.address \in Seq(Bytes) /\ f.to.port \in Seq(Bytes)
      /\ f.to.payload \in Seq(Bytes) /\ Len(f.to.port) = 2
  BY <1>1 DEF Addressed
<1> DEFINE g == <<f.version, m>>
           h == <<f.request, f.command, f.reserved, f.to.type>>
<1>3. m \in Bytes /\ m \in Nat /\ a \in Nat /\ Len(f.to.payload) \in Nat
  BY <1>1, <1>2 DEF Bytes
<1>4. g \in Seq(Bytes) /\ h \in Seq(Bytes) /\ Len(g) = 2 /\ Len(h) = 4
  BY <1>1, <1>2, <1>3
<1>5. B = g \o f.methods \o h \o f.to.address \o f.to.port \o f.to.payload
  BY DEF ClientScript
<1>6. g[1] = f.version /\ g[2] = m /\ h[1] = f.request /\ h[2] = f.command /\ h[4] = f.to.type
  OBVIOUS
<1> HIDE DEF g, h
<1> HIDE DEF B, m, a
<1>7. /\ B \in Seq(Bytes) /\ Len(B) = m + a + Len(f.to.payload) + 8
      /\ \A i \in 1 .. 2 : B[i] = g[i]
      /\ \A i \in 1 .. m : B[2 + i] = f.methods[i]
      /\ \A i \in 1 .. 4 : B[m + 2 + i] = h[i]
      /\ \A i \in 1 .. a : B[m + 6 + i] = f.to.address[i]
      /\ \A i \in 1 .. 2 : B[m + 6 + a + i] = f.to.port[i]
  <2>1. f.methods \in Seq(Bytes)
    BY <1>1
  <2>2. HasParts(g \o f.methods \o h \o f.to.address \o f.to.port \o f.to.payload, g, f.methods, h, f.to.address, f.to.port, f.to.payload)
    BY ONLY <1>2, <1>4, <2>1, SixParts
  <2>3. HasParts(B, g, f.methods, h, f.to.address, f.to.port, f.to.payload)
    BY ONLY <1>5, <2>2
  <2> QED BY <2>3 DEF HasParts, m, a
<1>8. B[m + 2 + 1] = h[1] /\ B[m + 2 + 2] = h[2] /\ B[m + 2 + 4] = h[4] /\ B[1] = g[1] /\ B[2] = g[2]
  BY <1>7
<1>9. m + 2 + 1 = m + 3 /\ m + 2 + 2 = m + 4 /\ m + 2 + 4 = m + 6
  BY <1>3
<1> QED BY <1>2, <1>3, <1>6, <1>7, <1>8, <1>9 DEF HasClient, B, m, a

HasServer(f, B, m, a, y) ==
  /\ B \in Seq(Bytes) /\ Len(B) = m + a + y + 8
  /\ m = (IF f.method = 2 THEN 2 ELSE 0) /\ a \in Nat /\ y \in Nat
  /\ B[1] = f.version /\ B[2] = f.method
  /\ \A i \in 1 .. m : B[2 + i] = f.auth[i]
  /\ B[m + 3] = f.reply /\ B[m + 4] = f.code /\ B[m + 6] = f.bound.type
  /\ \A i \in 1 .. a : B[m + 6 + i] = f.bound.address[i]

LEMMA ServerBytes ==
  ASSUME NEW f \in FromServer
  PROVE  /\ HasServer(f, ServerScript(f).bytes, Len(f.auth), Len(f.bound.address), Len(f.bound.payload))
         /\ f.bound.payload \in Seq(Bytes)
<1> DEFINE B == ServerScript(f).bytes
           m == Len(f.auth)
           a == Len(f.bound.address)
<1>1. /\ f \in [version : Bytes, method : Bytes, auth : Seq(Bytes), reply : Bytes, code : Bytes,
               reserved : Bytes, bound : Addressed]
      /\ m = (IF f.method = 2 THEN 2 ELSE 0)
  BY SocksHandshakeAssumption DEF ServerHandshakes
<1>2. /\ f.bound.type \in Bytes /\ f.bound.address \in Seq(Bytes) /\ f.bound.port \in Seq(Bytes)
      /\ f.bound.payload \in Seq(Bytes) /\ Len(f.bound.port) = 2
  BY <1>1 DEF Addressed
<1> DEFINE g == <<f.version, f.method>>
           h == <<f.reply, f.code, f.reserved, f.bound.type>>
<1>3. m \in Nat /\ a \in Nat /\ Len(f.bound.payload) \in Nat
  BY <1>1, <1>2
<1>4. g \in Seq(Bytes) /\ h \in Seq(Bytes) /\ Len(g) = 2 /\ Len(h) = 4
  BY <1>1, <1>2
<1>5. B = g \o f.auth \o h \o f.bound.address \o f.bound.port \o f.bound.payload
  BY DEF ServerScript
<1>6. g[1] = f.version /\ g[2] = f.method /\ h[1] = f.reply /\ h[2] = f.code /\ h[4] = f.bound.type
  OBVIOUS
<1> HIDE DEF g, h
<1> HIDE DEF B, m, a
<1>7. /\ B \in Seq(Bytes) /\ Len(B) = m + a + Len(f.bound.payload) + 8
      /\ \A i \in 1 .. 2 : B[i] = g[i]
      /\ \A i \in 1 .. m : B[2 + i] = f.auth[i]
      /\ \A i \in 1 .. 4 : B[m + 2 + i] = h[i]
      /\ \A i \in 1 .. a : B[m + 6 + i] = f.bound.address[i]
  <2>1. f.auth \in Seq(Bytes)
    BY <1>1
  <2>2. HasParts(g \o f.auth \o h \o f.bound.address \o f.bound.port \o f.bound.payload, g, f.auth, h, f.bound.address, f.bound.port, f.bound.payload)
    BY ONLY <1>2, <1>4, <2>1, SixParts
  <2>3. HasParts(B, g, f.auth, h, f.bound.address, f.bound.port, f.bound.payload)
    BY ONLY <1>5, <2>2
  <2> QED BY <2>3 DEF HasParts, m, a
<1>8. B[m + 2 + 1] = h[1] /\ B[m + 2 + 2] = h[2] /\ B[m + 2 + 4] = h[4] /\ B[1] = g[1] /\ B[2] = g[2]
  BY <1>7
<1>9. m + 2 + 1 = m + 3 /\ m + 2 + 2 = m + 4 /\ m + 2 + 4 = m + 6
  BY <1>3
<1> QED BY <1>1, <1>2, <1>3, <1>6, <1>7, <1>8, <1>9 DEF HasServer, B, m, a


Plays(s) ==
  /\ script.bytes = s.bytes /\ script.target = s.target /\ script.payload = s.payload
  /\ script.valid = s.valid /\ script.cut \in 0 .. Len(s.bytes)

LEMMA CutsPlay ==
  ASSUME NEW Scripts, script \in Cuts(Scripts)
  PROVE  \E s \in Scripts : Plays(s)
<1>1. PICK s \in Scripts : \E k \in 0 .. Len(s.bytes) :
        script = [bytes |-> s.bytes, target |-> s.target, payload |-> s.payload, valid |-> s.valid, cut |-> k]
  BY DEF Cuts
<1>2. Plays(s)
  BY <1>1 DEF Plays
<1> QED BY <1>2

LEMMA ArrivedSeq ==
  ASSUME script.bytes \in Seq(Bytes), script.cut \in 0 .. Len(script.bytes)
  PROVE  Arrived \in Seq(Bytes) /\ Len(Arrived) = script.cut
         /\ \A i \in 1 .. script.cut : Arrived[i] = script.bytes[i]
<1> DEFINE B == script.bytes
           n == script.cut
<1>1. B \in Seq(Bytes) /\ n \in Nat /\ n <= Len(B)
  OBVIOUS
<1> HIDE DEF B, n
<1>2. /\ SubSeq(B, 1, n) \in Seq(Bytes) /\ Len(SubSeq(B, 1, n)) = n
      /\ \A i \in 1 .. n : SubSeq(B, 1, n)[i] = B[i]
  BY ONLY <1>1, TakeDrop
<1> QED BY <1>2 DEF Arrived, B, n

LEMMA InitTypes == Init => TInv
<1> SUFFICES ASSUME Init PROVE TInv
  OBVIOUS
<1>1. script.bytes \in Seq(Bytes) /\ script.payload \in Seq(Bytes) /\ script.cut \in 0 .. Len(script.bytes)
  <2>1. CASE script = NoScript
    BY <2>1, EmptySeq, Constants DEF NoScript
  <2>2. CASE script \in Cuts({ClientScript(f) : f \in FromClient})
    <3>1. PICK s \in {ClientScript(f) : f \in FromClient} : Plays(s)
      BY <2>2, CutsPlay
    <3>2. PICK f \in FromClient : s = ClientScript(f)
      OBVIOUS
    <3>3. ClientScript(f).bytes \in Seq(Bytes) /\ f.to.payload \in Seq(Bytes)
      BY ClientBytes DEF HasClient
    <3>4. s.payload = f.to.payload
      BY <3>2 DEF ClientScript
    <3> QED BY <3>1, <3>2, <3>3, <3>4 DEF Plays
  <2>3. CASE script \in Cuts({ServerScript(f) : f \in FromServer})
    <3>1. PICK s \in {ServerScript(f) : f \in FromServer} : Plays(s)
      BY <2>3, CutsPlay
    <3>2. PICK f \in FromServer : s = ServerScript(f)
      OBVIOUS
    <3>3. ServerScript(f).bytes \in Seq(Bytes) /\ f.bound.payload \in Seq(Bytes)
      BY ServerBytes DEF HasServer
    <3>4. s.payload = f.bound.payload
      BY <3>2 DEF ServerScript
    <3> QED BY <3>1, <3>2, <3>3, <3>4 DEF Plays
  <2> QED BY <2>1, <2>2, <2>3 DEF Init
<1>2. up \in Seq(Bytes) /\ down \in Seq(Bytes) /\ target \in Seq(Bytes)
  BY <1>1, ArrivedSeq, Constants DEF Init
<1>3. Given
  BY <1>1 DEF Init, Given
<1>4. /\ spc \in {"greeting", "foreign"} /\ need \in {0, 2} /\ (spc = "greeting" => need = 2)
      /\ cpc \in {"start", "foreign"} /\ cneed = 0 /\ timedOut = FALSE /\ unsent = FALSE
      /\ gone \in {{}, {"client"}, {"server"}}
  BY DEF Init
<1>5. TypeOK
  <2>1. need \in Nat /\ cneed \in Nat /\ gone \subseteq {"client", "server"}
    BY <1>4
  <2>2. timedOut \in BOOLEAN /\ unsent \in BOOLEAN
    BY <1>4, Zenon
  <2> QED BY <1>2, <1>4, <2>1, <2>2 DEF TypeOK
<1>6. Sizes
  BY <1>4 DEF Sizes
<1> QED BY <1>3, <1>5, <1>6 DEF TInv

\* What is read is typed, and leaves a typed rest.
LEMMA ReadTypes ==
  ASSUME NEW s \in Seq(Bytes), NEW n \in Nat, Len(s) >= n
  PROVE  /\ SubSeq(s, 1, n) \in Seq(Bytes) /\ Len(SubSeq(s, 1, n)) = n /\ After(s, n) \in Seq(Bytes)
         /\ \A i \in 1 .. n : SubSeq(s, 1, n)[i] \in Bytes /\ SubSeq(s, 1, n)[i] \in Nat
<1>1. n <= Len(s)
  OBVIOUS
<1>2. /\ SubSeq(s, 1, n) \in Seq(Bytes) /\ Len(SubSeq(s, 1, n)) = n /\ After(s, n) \in Seq(Bytes)
      /\ \A i \in 1 .. n : SubSeq(s, 1, n)[i] = s[i] /\ s[i] \in Bytes
  BY <1>1, TakeDrop
<1>3. \A i \in Bytes : i \in Nat
  BY Constants
<1> QED BY <1>2, <1>3

LEMMA RefuseTypes ==
  ASSUME TInv, NEW bytes \in Seq(Bytes), Refuse(bytes)
  PROVE  down' \in Seq(Bytes) /\ gone' \subseteq {"client", "server"} /\ need' \in Nat /\ spc' = "refused"
BY ConcatProperties DEF TInv, TypeOK, Refuse

LEMMA ServerTypes ==
  ASSUME TInv, Server
  PROVE  TInv'
<1>1. /\ up \in Seq(Bytes) /\ down \in Seq(Bytes) /\ target \in Seq(Bytes) /\ need \in Nat
      /\ gone \subseteq {"client", "server"}
  BY DEF TInv, TypeOK
<1>2. UNCHANGED <<cpc, cneed, timedOut, unsent, want, script>>
  BY DEF Server, ServerReads, ServerStarves, client
<1>3. Given'
  BY <1>2 DEF TInv, Given
<1>4. SUFFICES /\ up' \in Seq(Bytes) /\ down' \in Seq(Bytes) /\ target' \in Seq(Bytes)
               /\ gone' \subseteq {"client", "server"} /\ need' \in Nat
               /\ \/ spc' = "greeting" /\ need' = 2
                  \/ spc' = "port" /\ need' = 2
                  \/ spc' = "header" /\ need' = 4
                  \/ spc' = "length" /\ need' = 1
                  \/ spc' \in {"methods", "name", "address", "accepted", "refused"}
  BY <1>2, <1>3 DEF TInv, TypeOK, Sizes
<1>5. CASE ServerStarves
  BY <1>1, <1>5, RefuseTypes, Constants DEF ServerStarves
<1>6. CASE ServerReads
  <2> DEFINE b == SubSeq(up, 1, need)
  <2>1. Len(up) >= need /\ up' = After(up, need)
    BY <1>6 DEF ServerReads
  <2>2. up' \in Seq(Bytes) /\ b \in Seq(Bytes) /\ Len(b) = need /\ \A i \in 1 .. need : b[i] \in Bytes /\ b[i] \in Nat
    BY <1>1, <2>1, ReadTypes
  <2> HIDE DEF b
  <2>3. CASE spc = "greeting" /\ Greeting(b)
    <3>1. need = 2
      BY <2>3 DEF TInv, Sizes
    <3>2. b[2] \in Nat
      BY <2>2, <3>1
    <3> QED BY <1>1, <2>2, <2>3, <3>2, RefuseTypes, Constants DEF Greeting, Expect
  <2>4. CASE spc = "methods" /\ Methods(b)
    <3>1. \A s \in Seq(Bytes) : down \o s \in Seq(Bytes)
      BY <1>1, ConcatProperties
    <3>2. <<5, 0>> \in Seq(Bytes) /\ <<5, Byte>> \in Seq(Bytes)
      BY Messages
    <3>3. CASE Refuse(<<5, Byte>>)
      BY <1>1, <2>2, <2>4, <3>2, <3>3, RefuseTypes DEF Methods
    <3>4. CASE spc' = "header" /\ need' = 4 /\ down' = down \o <<5, 0>> /\ UNCHANGED gone
      BY <1>1, <2>2, <2>4, <3>1, <3>2, <3>4 DEF Methods
    <3> QED BY <2>4, <3>3, <3>4 DEF Methods
  <2>5. CASE spc = "header" /\ Header(b)
    <3>1. Answer(1) \in Seq(Bytes) /\ Answer(7) \in Seq(Bytes) /\ <<>> \in Seq(Bytes)
      BY Constants, Messages
    <3>2. CASE Refuse(Answer(1)) \/ Refuse(Answer(7)) \/ Refuse(<<>>)
      BY <1>1, <2>2, <2>5, <3>1, <3>2, RefuseTypes DEF Header
    <3>3. CASE Expect("address", 4) \/ Expect("length", 1) \/ Expect("address", 16)
      <4>1. UNCHANGED <<target, down, gone>>
        BY <2>5, <3>3 DEF Header, Expect
      <4>2. spc' \in {"address", "length"} /\ need' \in {4, 1, 16} /\ (spc' = "length" => need' = 1)
        BY <3>3 DEF Expect
      <4> QED BY <1>1, <2>2, <4>1, <4>2
    <3> QED BY <2>5, <3>2, <3>3 DEF Header
  <2>6. CASE spc = "length" /\ Length(b)
    <3>1. need = 1
      BY <2>6 DEF TInv, Sizes
    <3>2. b[1] \in Nat
      BY <2>2, <3>1
    <3> QED BY <1>1, <2>2, <2>6, <3>2 DEF Length, Expect
  <2>7. CASE spc = "name" /\ Name(b)
    <3>1. <<>> \in Seq(Bytes)
      BY Constants
    <3>2. CASE Refuse(<<>>) /\ UNCHANGED target
      BY <1>1, <2>2, <3>1, <3>2, RefuseTypes
    <3>3. CASE Expect("port", 2) /\ target' = b
      BY <1>1, <2>2, <3>3 DEF Expect
    <3> QED BY <2>7, <3>2, <3>3 DEF Name
  <2>8. CASE spc = "address" /\ Address(b)
    BY <1>1, <2>2, <2>8 DEF Address, Expect
  <2>9. CASE spc = "port" /\ Port(b)
    <3>1. Answer(0) \in Seq(Bytes)
      BY Messages
    <3>2. down \o Answer(0) \in Seq(Bytes) /\ target \o b \in Seq(Bytes)
      BY <1>1, <2>2, <3>1, ConcatProperties
    <3> QED BY <1>1, <2>2, <2>9, <3>2 DEF Port
  <2> QED BY <1>6, <2>3, <2>4, <2>5, <2>6, <2>7, <2>8, <2>9 DEF ServerReads, b
<1> QED BY <1>5, <1>6 DEF Server


\* A message that is sent, or a part of it.
LEMMA SendTypes ==
  ASSUME TInv, NEW what, NEW n, NEW s \in Seq(Bytes), Send(what, n, s)
  PROVE  /\ up' \in Seq(Bytes) /\ gone' \subseteq {"client", "server"} /\ unsent' \in BOOLEAN
         /\ (cpc' = what /\ cneed' = n) \/ (cpc' = "failed" /\ cneed' = 0)
<1>1. up \in Seq(Bytes) /\ gone \subseteq {"client", "server"} /\ unsent \in BOOLEAN
  BY DEF TInv, TypeOK
<1>2. CASE Await(what, n, s)
  <2>1. up \o s \in Seq(Bytes)
    BY <1>1, ConcatProperties
  <2> QED BY <1>1, <1>2, <2>1 DEF Await
<1>3. CASE SendFails(s)
  <2>1. PICK k \in 0 .. Len(s) - 1 : up' = up \o SubSeq(s, 1, k)
    BY <1>3 DEF SendFails
  <2>2. k \in Nat /\ k <= Len(s)
    OBVIOUS
  <2>3. SubSeq(s, 1, k) \in Seq(Bytes)
    BY <2>2, TakeDrop
  <2>4. up \o SubSeq(s, 1, k) \in Seq(Bytes)
    BY <1>1, <2>3, ConcatProperties
  <2>5. up' \in Seq(Bytes)
    BY <2>1, <2>4
  <2>6. unsent' = TRUE /\ cpc' = "failed" /\ cneed' = 0 /\ gone' = gone \cup {"client"}
    BY <1>3 DEF SendFails, Raise
  <2> QED BY <1>1, <2>5, <2>6
<1> QED BY <1>2, <1>3 DEF Send

LEMMA FailTypes ==
  ASSUME TInv, Fail
  PROVE  /\ up' \in Seq(Bytes) /\ gone' \subseteq {"client", "server"} /\ unsent' \in BOOLEAN
         /\ cpc' = "failed" /\ cneed' = 0
<1>1. /\ up \in Seq(Bytes) /\ gone \subseteq {"client", "server"} /\ unsent \in BOOLEAN
      /\ up' = up /\ unsent' = unsent /\ gone' = gone \cup {"client"} /\ cpc' = "failed" /\ cneed' = 0
  BY DEF TInv, TypeOK, Fail, Raise
<1> QED BY <1>1

LEMMA RequestTypes ==
  ASSUME TInv, Request
  PROVE  /\ up' \in Seq(Bytes) /\ gone' \subseteq {"client", "server"} /\ unsent' \in BOOLEAN
         /\ (cpc' = "reply" /\ cneed' = 4) \/ (cpc' = "failed" /\ cneed' = 0)
<1>1. CASE ~Fits(want.host) /\ Fail
  BY <1>1, FailTypes
<1>2. CASE Fits(want.host) /\ Send("reply", 4, Connect)
  <2>1. want.host \in Hosts /\ want.port = <<1, 4>>
    BY DEF TInv, Given
  <2>2. want.host \in Seq(Bytes) /\ want.port \in Seq(Bytes)
    BY <2>1, HostBytes, Messages
  <2>3. <<5, 1, 0, 3, Len(want.host)>> \in Seq(Bytes)
    <3> DEFINE n == Len(want.host)
    <3>1. n \in Bytes
      BY <1>2, <2>1, HostBytes
    <3>2. 5 \in Bytes /\ 1 \in Bytes /\ 0 \in Bytes /\ 3 \in Bytes
      BY Constants
    <3> HIDE DEF n
    <3>3. <<5, 1, 0, 3, n>> \in Seq(Bytes)
      BY <3>1, <3>2
    <3> QED BY <3>3 DEF n
  <2>4. Connect \in Seq(Bytes)
    BY <2>2, <2>3, ConcatProperties DEF Connect
  <2> QED BY <1>2, <2>4, SendTypes
<1> QED BY <1>1, <1>2 DEF Request

LEMMA LoginTypes ==
  ASSUME TInv, Login
  PROVE  /\ up' \in Seq(Bytes) /\ gone' \subseteq {"client", "server"} /\ unsent' \in BOOLEAN
         /\ (cpc' = "authenticated" /\ cneed' = 2) \/ (cpc' = "failed" /\ cneed' = 0)
<1>1. CASE ~LoginFits /\ Fail
  BY <1>1, FailTypes
<1>2. CASE LoginFits /\ Send("authenticated", 2, Credentials)
  <2> DEFINE u == want.login.user
             p == want.login.password
  <2>1. u \in Seq(Bytes) /\ p \in Seq(Bytes) /\ Len(u) \in Bytes /\ Len(p) \in Bytes
    BY <1>2, LoginBytes DEF TInv, Given, LoginFits
  <2>2. <<1, Len(u)>> \in Seq(Bytes) /\ <<Len(p)>> \in Seq(Bytes)
    <3> DEFINE n == Len(u)
               k == Len(p)
    <3>1. n \in Bytes /\ k \in Bytes /\ 1 \in Bytes
      BY <2>1, Constants
    <3> HIDE DEF n, k
    <3>2. <<1, n>> \in Seq(Bytes) /\ <<k>> \in Seq(Bytes)
      BY <3>1
    <3> QED BY <3>2 DEF n, k
  <2>3. <<1, Len(u)>> \o u \in Seq(Bytes)
    BY <2>1, <2>2, ConcatProperties
  <2>4. <<1, Len(u)>> \o u \o <<Len(p)>> \in Seq(Bytes)
    BY <2>2, <2>3, ConcatProperties
  <2>5. <<1, Len(u)>> \o u \o <<Len(p)>> \o p \in Seq(Bytes)
    BY <2>1, <2>4, ConcatProperties
  <2>6. Credentials \in Seq(Bytes)
    BY <2>5 DEF Credentials
  <2> QED BY <1>2, <2>6, SendTypes
<1> QED BY <1>1, <1>2 DEF Login

LEMMA ClientTypes ==
  ASSUME TInv, Client
  PROVE  TInv'
<1>1. /\ up \in Seq(Bytes) /\ down \in Seq(Bytes) /\ cneed \in Nat
      /\ gone \subseteq {"client", "server"} /\ unsent \in BOOLEAN
  BY DEF TInv, TypeOK
<1>2. UNCHANGED <<spc, need, target, want, script>>
  BY DEF Client, ClientGreets, ClientReads, ClientStarves, server
<1>3. Given'
  BY <1>2 DEF TInv, Given
<1>4. timedOut' \in BOOLEAN
  BY Zenon DEF Client, ClientGreets, ClientReads, ClientStarves, TInv, TypeOK
<1>5. SUFFICES /\ up' \in Seq(Bytes) /\ down' \in Seq(Bytes)
               /\ gone' \subseteq {"client", "server"} /\ cneed' \in Nat /\ unsent' \in BOOLEAN
               /\ \/ cpc' \in {"selected", "authenticated", "port"} /\ cneed' = 2
                  \/ cpc' = "reply" /\ cneed' = 4
                  \/ cpc' = "length" /\ cneed' = 1
                  \/ cpc' \in {"bound", "connected", "failed"}
  BY <1>2, <1>3, <1>4 DEF TInv, TypeOK, Sizes
<1>6. ASSUME NEW s \in Seq(Bytes) PROVE up \o s \in Seq(Bytes)
  BY <1>1, ConcatProperties
<1>8. CASE ClientGreets
  <2>1. <<5, 2, 0, 2>> \in Seq(Bytes) /\ <<5, 1, 0>> \in Seq(Bytes)
    BY Messages
  <2>2. PICK s \in Seq(Bytes) : Send("selected", 2, s)
    BY <1>8, <2>1 DEF ClientGreets
  <2>3. down' = down
    BY <1>8 DEF ClientGreets
  <2> QED BY <1>1, <2>2, <2>3, SendTypes
<1>9. CASE ClientStarves
  <2>1. Fail /\ down' = down
    BY <1>9 DEF ClientStarves
  <2> QED BY <1>1, <2>1, FailTypes
<1>10. CASE ClientReads
  <2> DEFINE b == SubSeq(down, 1, cneed)
  <2>1. Len(down) >= cneed /\ down' = After(down, cneed)
    BY <1>10 DEF ClientReads
  <2>2. down' \in Seq(Bytes) /\ b \in Seq(Bytes) /\ Len(b) = cneed /\ \A i \in 1 .. cneed : b[i] \in Bytes /\ b[i] \in Nat
    BY <1>1, <2>1, ReadTypes
  <2> HIDE DEF b
  <2>3. <<>> \in Seq(Bytes)
    BY Constants
  <2>4. CASE Fail
    BY <2>2, <2>4, FailTypes
  <2>5. CASE Request
    BY <2>2, <2>5, RequestTypes
  <2>6. CASE cpc = "selected" /\ Selected(b)
    <3>1. CASE Login
      BY <2>2, <3>1, LoginTypes
    <3> QED BY <2>4, <2>5, <2>6, <3>1 DEF Selected
  <2>7. CASE cpc = "authenticated" /\ Authenticated(b)
    BY <2>4, <2>5, <2>7 DEF Authenticated
  <2>8. CASE cpc = "reply" /\ Replied(b)
    <3>1. CASE Await("bound", 4, <<>>) \/ Await("length", 1, <<>>) \/ Await("bound", 16, <<>>)
      <4>1. /\ up' = up \o <<>> /\ gone' = gone /\ unsent' = unsent
            /\ \/ cpc' = "bound" /\ cneed' \in {4, 16}
               \/ cpc' = "length" /\ cneed' = 1
        BY <3>1 DEF Await
      <4> QED BY <1>1, <1>6, <2>2, <2>3, <4>1
    <3> QED BY <2>4, <2>8, <3>1 DEF Replied
  <2>9. CASE cpc = "length" /\ Await("bound", b[1], <<>>)
    <3>1. cneed = 1
      BY <2>9 DEF TInv, Sizes
    <3>2. b[1] \in Nat
      BY <2>2, <3>1
    <3> QED BY <1>1, <1>6, <2>2, <2>3, <2>9, <3>2 DEF Await
  <2>10. CASE cpc = "bound" /\ Bound(b)
    BY <1>1, <1>6, <2>2, <2>3, <2>10 DEF Bound, Await
  <2>11. CASE cpc = "port" /\ Await("connected", 0, <<>>)
    BY <1>1, <1>6, <2>2, <2>3, <2>11 DEF Await
  <2> QED BY <1>10, <2>6, <2>7, <2>8, <2>9, <2>10, <2>11 DEF ClientReads, b
<1> QED BY <1>8, <1>9, <1>10 DEF Client

LEMMA TypeStep == TInv /\ [Next]_vars => TInv'
<1> SUFFICES ASSUME TInv, [Next]_vars PROVE TInv'
  OBVIOUS
<1>1. CASE UNCHANGED vars
  BY <1>1 DEF vars, server, client, TInv, TypeOK, Sizes, Given
<1> QED BY <1>1, ServerTypes, ClientTypes DEF Next

\* The handshakes are well typed, and every end reads as many bytes as the step
\* it is at takes.
LEMMA TypeInvariant == Spec => []TInv
BY InitTypes, TypeStep, PTL DEF Spec

\* Whatever a foreign peer sends, the two ends keep to bytes: every length and
\* every address type they take over from the other end, and every length they
\* send, fits the byte it travels in (_socks5_handshake and _read_socks_address
\* of socks_mitm.py, _socks5_handshake of outbound.py).
THEOREM TypeCorrect == Spec => []TypeOK
BY TypeInvariant, PTL DEF TInv

-----------------------------------------------------------------------------
(* A server and a foreign client.                                           *)

\* The first k bytes that arrived are read, s are the others.
Reached(s, k) == k \in 0 .. script.cut /\ s = After(Arrived, k)

LEMMA Reading ==
  ASSUME Given, NEW s, NEW k, Reached(s, k), NEW n \in Nat, n <= Len(s)
  PROVE  /\ SubSeq(s, 1, n) \in Seq(Bytes) /\ Len(SubSeq(s, 1, n)) = n
         /\ \A i \in 1 .. n : SubSeq(s, 1, n)[i] = script.bytes[k + i]
         /\ Reached(After(s, n), k + n)
<1> DEFINE A == Arrived
<1>1. /\ A \in Seq(Bytes) /\ Len(A) = script.cut /\ \A i \in 1 .. script.cut : A[i] = script.bytes[i]
      /\ script.cut \in Nat /\ k \in Nat /\ k <= Len(A) /\ s = After(A, k)
  BY ArrivedSeq DEF Given, Reached
<1> HIDE DEF A
<1>2. s \in Seq(Bytes) /\ Len(s) = Len(A) - k /\ \A i \in 1 .. Len(A) - k : s[i] = A[k + i]
  <2>1. A \in Seq(Bytes) /\ k \in Nat /\ k <= Len(A)
    BY ONLY <1>1
  <2>2. /\ After(A, k) \in Seq(Bytes) /\ Len(After(A, k)) = Len(A) - k
        /\ \A i \in 1 .. Len(A) - k : After(A, k)[i] = A[k + i]
    BY ONLY <2>1, TakeDropBytes
  <2> QED BY <1>1, <2>2
<1>3. /\ SubSeq(s, 1, n) \in Seq(Bytes) /\ Len(SubSeq(s, 1, n)) = n
      /\ \A i \in 1 .. n : SubSeq(s, 1, n)[i] = s[i]
      /\ After(s, n) \in Seq(Bytes) /\ Len(After(s, n)) = Len(s) - n
      /\ \A i \in 1 .. Len(s) - n : After(s, n)[i] = s[n + i]
  <2>1. s \in Seq(Bytes)
    BY <1>2
  <2> QED BY ONLY <2>1, n \in Nat, n <= Len(s), TakeDropBytes
<1>4. k + n \in Nat /\ k + n <= Len(A)
  BY <1>1, <1>2
<1>5. ASSUME NEW i \in 1 .. n PROVE SubSeq(s, 1, n)[i] = script.bytes[k + i]
  <2>1. i \in 1 .. Len(A) - k /\ k + i \in 1 .. script.cut
    BY <1>1, <1>2, <1>4
  <2> QED BY <1>1, <1>2, <1>3, <2>1
<1>6. /\ After(A, k + n) \in Seq(Bytes) /\ Len(After(A, k + n)) = Len(A) - (k + n)
      /\ \A i \in 1 .. Len(A) - (k + n) : After(A, k + n)[i] = A[k + n + i]
  <2>1. A \in Seq(Bytes)
    BY <1>1
  <2> QED BY ONLY <2>1, <1>4, TakeDropBytes
<1>7. After(s, n) = After(A, k + n)
  <2>1. Len(After(s, n)) = Len(A) - (k + n)
    BY <1>1, <1>2, <1>3
  <2>2. ASSUME NEW i \in 1 .. Len(A) - (k + n) PROVE After(s, n)[i] = After(A, k + n)[i]
    <3>1. i \in 1 .. Len(s) - n /\ n + i \in 1 .. Len(A) - k /\ k + (n + i) = k + n + i
      BY <1>1, <1>2
    <3>2. After(s, n)[i] = s[n + i] /\ s[n + i] = A[k + (n + i)] /\ After(A, k + n)[i] = A[k + n + i]
      BY <1>2, <1>3, <1>6, <3>1
    <3> QED BY <3>1, <3>2
  <2> QED BY <1>3, <1>6, <2>1, <2>2, SeqEqual
<1>8. Reached(After(s, n), k + n)
  BY <1>1, <1>4, <1>7 DEF Reached, A
<1> QED BY <1>3, <1>5, <1>8

\* Too few bytes are left only if the handshake was cut.
LEMMA Starving ==
  ASSUME Given, NEW s, NEW k, Reached(s, k), NEW n \in Nat, Len(s) < n,
         k + n <= Len(script.bytes) - Len(script.payload)
  PROVE  ~Complete
<1> DEFINE A == Arrived
<1>1. /\ A \in Seq(Bytes) /\ Len(A) = script.cut
      /\ script.cut \in Nat /\ k \in Nat /\ k <= Len(A) /\ s = After(A, k)
  BY ArrivedSeq DEF Given, Reached
<1> HIDE DEF A
<1>2. Len(s) = Len(A) - k
  <2>1. Len(After(A, k)) = Len(A) - k
    BY ONLY <1>1, TakeDrop
  <2> QED BY <1>1, <2>1
<1>3. Len(script.bytes) \in Nat /\ Len(script.payload) \in Nat
  BY DEF Given
<1>4. ~(script.cut >= Len(script.bytes) - Len(script.payload))
  <2> DEFINE c == script.cut
             b == Len(script.bytes)
             p == Len(script.payload)
             l == Len(s)
             t == Len(A)
  <2>1. c \in Nat /\ b \in Nat /\ p \in Nat /\ k \in Nat /\ t = c /\ l = t - k /\ l < n /\ k + n <= b - p
    BY <1>1, <1>2, <1>3
  <2> HIDE DEF c, b, p, l, t
  <2>2. ~(c >= b - p)
    BY <2>1
  <2> QED BY <2>2 DEF c, b, p
<1> QED BY <1>4 DEF Complete

Host(f) == IF f.to.type = 3 THEN Tail(f.to.address) ELSE f.to.address

\* The request of a foreign client is good up to the address.
Asked(f) ==
  /\ f.version = 5 /\ \E i \in DOMAIN f.methods : f.methods[i] = 0
  /\ f.request = 5 /\ f.command = 1

\* What of the handshake f the server has read, by what it reads next.
Served(f) ==
  LET m == Len(f.methods)
      a == Len(f.to.address)
  IN  \/ spc = "greeting" /\ Reached(up, 0)
      \/ spc = "methods" /\ need = m /\ Reached(up, 2) /\ f.version = 5
      \/ spc = "header" /\ Reached(up, m + 2) /\ f.version = 5 /\ \E i \in DOMAIN f.methods : f.methods[i] = 0
      \/ spc = "length" /\ Reached(up, m + 6) /\ Asked(f) /\ f.to.type = 3
      \/ spc = "name" /\ need = a - 1 /\ Reached(up, m + 7) /\ Asked(f) /\ f.to.type = 3
      \/ spc = "address" /\ need = a /\ Reached(up, m + 6) /\ Asked(f) /\ f.to.type \in {1, 4}
      \/ spc = "port" /\ Reached(up, m + a + 6) /\ script.valid /\ target = Host(f)
      \/ spc = "accepted" /\ up = Payload /\ script.valid /\ target = script.target
      \/ spc = "refused" /\ ~Complete

ServerInv == cpc = "foreign" => \E f \in FromClient : Plays(ClientScript(f)) /\ Served(f)

\* What it means that the foreign client plays f.
Played(f, m, a) ==
  /\ m \in Nat /\ a \in Nat /\ Len(script.bytes) - Len(script.payload) = m + a + 8
  /\ script.bytes[1] = f.version /\ script.bytes[2] = m
  /\ \A i \in 1 .. m : script.bytes[2 + i] = f.methods[i]
  /\ script.bytes[m + 3] = f.request /\ script.bytes[m + 4] = f.command
  /\ script.bytes[m + 6] = f.to.type
  /\ \A i \in 1 .. a : script.bytes[m + 6 + i] = f.to.address[i]
  /\ \A i \in 1 .. 2 : script.bytes[m + 6 + a + i] = f.to.port[i]
  /\ script.target = Host(f) \o f.to.port
  /\ script.valid <=> Asked(f) /\ (f.to.type \in {1, 4} \/ (f.to.type = 3 /\ Host(f) \in Decodable))
  /\ f.methods \in Seq(Bytes) /\ f.to.address \in Seq(Bytes)
  /\ f.to.port \in Seq(Bytes) /\ Len(f.to.port) = 2
  /\ f.to.type = 1 => a = 4
  /\ f.to.type = 3 => f.to.address # <<>> /\ a = f.to.address[1] + 1
  /\ f.to.type = 4 => a = 16

LEMMA ClientFields ==
  ASSUME NEW f \in FromClient, Plays(ClientScript(f))
  PROVE  Played(f, Len(f.methods), Len(f.to.address))
<1> DEFINE m == Len(f.methods)
           a == Len(f.to.address)
<1>1. /\ f \in [version : Bytes, methods : Seq(Bytes), request : Bytes, command : Bytes,
               reserved : Bytes, to : Addressed]
  BY SocksHandshakeAssumption DEF ClientHandshakes
<1>2. /\ f.methods \in Seq(Bytes) /\ f.to.address \in Seq(Bytes)
      /\ f.to.port \in Seq(Bytes) /\ Len(f.to.port) = 2
      /\ f.to.type = 1 => a = 4
      /\ f.to.type = 3 => f.to.address # <<>> /\ a = f.to.address[1] + 1
      /\ f.to.type = 4 => a = 16
  BY <1>1 DEF Addressed
<1>3. script.bytes = ClientScript(f).bytes
  BY DEF Plays
<1>4. script.payload = f.to.payload /\ script.target = Host(f) \o f.to.port
  BY DEF Plays, ClientScript, Host
<1>5. script.valid <=> Asked(f) /\ (f.to.type \in {1, 4} \/ (f.to.type = 3 /\ Host(f) \in Decodable))
  BY Zenon DEF Plays, ClientScript, Host, Asked
<1> DEFINE B == script.bytes
           y == Len(script.payload)
           l == Len(B)
<1> HIDE DEF B, l, y
<1>6. /\ l = m + a + y + 8 /\ m \in Nat /\ a \in Nat /\ y \in Nat
      /\ B[1] = f.version /\ B[2] = m
      /\ \A i \in 1 .. m : B[2 + i] = f.methods[i]
      /\ B[m + 3] = f.request /\ B[m + 4] = f.command /\ B[m + 6] = f.to.type
      /\ \A i \in 1 .. a : B[m + 6 + i] = f.to.address[i]
      /\ \A i \in 1 .. 2 : B[m + 6 + a + i] = f.to.port[i]
  <2>1. B = ClientScript(f).bytes /\ l = Len(B) /\ y = Len(f.to.payload)
    BY <1>3, <1>4 DEF B, l, y
  <2>2. HasClient(f, B, m, a, y)
    BY <2>1, ClientBytes
  <2> QED BY <2>1, <2>2 DEF HasClient
<1>7. l - y = m + a + 8
  <2>1. l = m + a + y + 8 /\ m \in Nat /\ a \in Nat /\ y \in Nat
    BY <1>6
  <2> HIDE DEF m, a
  <2> QED BY <2>1
<1> QED BY <1>2, <1>4, <1>5, <1>6, <1>7 DEF B, l, y, Played

\* The server goes on with f: what it read is the next field, and it goes to the
\* field after that, or refuses a handshake that is not valid or was cut.
LEMMA ServerServes ==
  ASSUME TInv, NEW f \in FromClient, Plays(ClientScript(f)), Served(f), Server
  PROVE  Served(f)'
<1> DEFINE m == Len(f.methods)
           a == Len(f.to.address)
           b == SubSeq(up, 1, need)
<1>1. Played(f, m, a)
  BY ClientFields
<1>2. /\ \/ spc = "greeting" /\ Reached(up, 0)
         \/ spc = "methods" /\ need = m /\ Reached(up, 2) /\ f.version = 5
         \/ spc = "header" /\ Reached(up, m + 2) /\ f.version = 5 /\ \E i \in DOMAIN f.methods : f.methods[i] = 0
         \/ spc = "length" /\ Reached(up, m + 6) /\ Asked(f) /\ f.to.type = 3
         \/ spc = "name" /\ need = a - 1 /\ Reached(up, m + 7) /\ Asked(f) /\ f.to.type = 3
         \/ spc = "address" /\ need = a /\ Reached(up, m + 6) /\ Asked(f) /\ f.to.type \in {1, 4}
         \/ spc = "port" /\ Reached(up, m + a + 6) /\ script.valid /\ target = Host(f)
         \/ spc = "accepted" /\ up = Payload /\ script.valid /\ target = script.target
         \/ spc = "refused" /\ ~Complete
  BY DEF Served
<1>3. SUFFICES
         \/ spc' = "greeting" /\ Reached(up', 0)
         \/ spc' = "methods" /\ need' = m /\ Reached(up', 2) /\ f.version = 5
         \/ spc' = "header" /\ Reached(up', m + 2) /\ f.version = 5 /\ \E i \in DOMAIN f.methods : f.methods[i] = 0
         \/ spc' = "length" /\ Reached(up', m + 6) /\ Asked(f) /\ f.to.type = 3
         \/ spc' = "name" /\ need' = a - 1 /\ Reached(up', m + 7) /\ Asked(f) /\ f.to.type = 3
         \/ spc' = "address" /\ need' = a /\ Reached(up', m + 6) /\ Asked(f) /\ f.to.type \in {1, 4}
         \/ spc' = "port" /\ Reached(up', m + a + 6) /\ script.valid /\ target' = Host(f)
         \/ spc' = "accepted" /\ up' = Payload /\ script.valid /\ target' = script.target
         \/ spc' = "refused" /\ ~Complete
  <2>1. script' = script
    BY DEF Server, ServerReads, ServerStarves
  <2>2. Arrived' = Arrived /\ script'.cut = script.cut /\ script'.valid = script.valid
        /\ script'.target = script.target
    BY <2>1 DEF Arrived
  <2>3. Payload' = Payload /\ (Complete' <=> Complete)
    BY <2>1, <2>2 DEF Payload, Complete
  <2>4. (Asked(f)' <=> Asked(f)) /\ Host(f)' = Host(f)
    BY DEF Asked, Host
  <2>5. CASE \/ spc' = "length" /\ Reached(up', m + 6) /\ Asked(f) /\ f.to.type = 3
             \/ spc' = "address" /\ need' = a /\ Reached(up', m + 6) /\ Asked(f) /\ f.to.type \in {1, 4}
    BY <2>2, <2>4, <2>5 DEF Served, Reached
  <2>6. CASE spc' = "greeting" /\ Reached(up', 0)
    BY <2>2, <2>6 DEF Served, Reached
  <2>7. CASE spc' = "methods" /\ need' = m /\ Reached(up', 2) /\ f.version = 5
    BY <2>2, <2>7 DEF Served, Reached
  <2>8. CASE spc' = "header" /\ Reached(up', m + 2) /\ f.version = 5 /\ \E i \in DOMAIN f.methods : f.methods[i] = 0
    BY <2>2, <2>8 DEF Served, Reached
  <2>9. CASE spc' = "name" /\ need' = a - 1 /\ Reached(up', m + 7) /\ Asked(f) /\ f.to.type = 3
    BY <2>2, <2>4, <2>9 DEF Served, Reached
  <2>10. CASE \/ spc' = "accepted" /\ up' = Payload /\ script.valid /\ target' = script.target
              \/ spc' = "refused" /\ ~Complete
    BY <2>2, <2>3, <2>4, <2>10 DEF Served
  <2>11. CASE spc' = "port" /\ Reached(up', m + a + 6) /\ script.valid /\ target' = Host(f)
    BY <2>2, <2>4, <2>11 DEF Served, Reached
  <2> QED BY <1>3, <2>5, <2>6, <2>7, <2>8, <2>9, <2>10, <2>11
<1>4. Given /\ need \in Nat /\ Sizes /\ m \in Nat /\ a \in Nat
  BY <1>1 DEF TInv, TypeOK, Played
<1>5. ~script.valid => ~Complete
  BY DEF Complete
<1> HIDE DEF m, a, b
<1>6. CASE ServerStarves
  <2>1. Len(up) < need /\ spc' = "refused" /\ spc \notin {"accepted", "refused"}
    BY <1>6 DEF ServerStarves, Refuse
  <2>2. \E k : Reached(up, k) /\ k + need <= m + a + 8
    <3>1. spc = "name" => f.to.type = 3
      BY <1>2
    <3> QED BY <1>2, <1>4, <2>1 DEF Sizes
  <2>3. m + a + 8 = Len(script.bytes) - Len(script.payload)
    BY <1>1 DEF Played
  <2>4. ~Complete
    BY <1>4, <2>1, <2>2, <2>3, Starving
  <2> QED BY <2>1, <2>4
<1>7. CASE ServerReads
  <2>1. /\ need <= Len(up) /\ up' = After(up, need)
        /\ \/ spc = "greeting" /\ Greeting(b)
           \/ spc = "methods" /\ Methods(b)
           \/ spc = "header" /\ Header(b)
           \/ spc = "length" /\ Length(b)
           \/ spc = "name" /\ Name(b)
           \/ spc = "address" /\ Address(b)
           \/ spc = "port" /\ Port(b)
    <3>1. need <= Len(up)
      BY <1>4, <1>7 DEF ServerReads, TInv, TypeOK
    <3> QED BY <1>7, <3>1 DEF ServerReads, b
  <2>2. ASSUME NEW k, Reached(up, k)
        PROVE  /\ b \in Seq(Bytes) /\ Len(b) = need /\ \A i \in 1 .. need : b[i] = script.bytes[k + i]
               /\ Reached(up', k + need)
    BY <1>4, <2>1, <2>2, Reading DEF b
  <2>3. CASE spc = "greeting" /\ Greeting(b)
    <3>1. Reached(up, 0) /\ need = 2
      BY <1>2, <1>4, <2>3 DEF Sizes
    <3>2. b[1] = script.bytes[0 + 1] /\ b[2] = script.bytes[0 + 2] /\ Reached(up', 0 + 2)
      BY <2>2, <3>1
    <3>3. b[1] = f.version /\ b[2] = m /\ Reached(up', 2)
      BY <1>1, <3>2 DEF Played
    <3>4. CASE b[1] = 5
      BY <2>3, <3>3, <3>4 DEF Greeting, Expect
    <3>5. CASE b[1] # 5
      BY <1>1, <1>5, <2>3, <3>3, <3>5 DEF Greeting, Refuse, Played, Asked
    <3> QED BY <3>4, <3>5
  <2>4. CASE spc = "methods" /\ Methods(b)
    <3>1. Reached(up, 2) /\ need = m /\ f.version = 5
      BY <1>2, <2>4
    <3>2. Len(b) = m /\ (\A i \in 1 .. m : b[i] = script.bytes[2 + i]) /\ Reached(up', 2 + m)
      BY <2>2, <3>1
    <3>3. (\A i \in 1 .. m : b[i] = f.methods[i]) /\ Reached(up', m + 2)
      <4>1. 2 + m = m + 2
        BY <1>4
      <4> QED BY <1>1, <3>2, <4>1 DEF Played
    <3>4. DOMAIN f.methods = 1 .. m
      BY <1>1 DEF Played, m
    <3>5. CASE \E i \in 1 .. Len(b) : b[i] = 0
      BY <2>4, <3>1, <3>2, <3>3, <3>4, <3>5 DEF Methods
    <3>6. CASE ~\E i \in 1 .. Len(b) : b[i] = 0
      <4>1. ~\E i \in DOMAIN f.methods : f.methods[i] = 0
        BY <3>2, <3>3, <3>4, <3>6
      <4>2. script.valid => Asked(f)
        BY <1>1 DEF Played
      <4>3. ~script.valid
        BY <4>1, <4>2 DEF Asked
      <4> QED BY <1>5, <2>4, <3>6, <4>3 DEF Methods, Refuse
    <3> QED BY <3>5, <3>6
  <2>5. CASE spc = "header" /\ Header(b)
    <3>1. Reached(up, m + 2) /\ need = 4 /\ f.version = 5 /\ \E i \in DOMAIN f.methods : f.methods[i] = 0
      BY <1>2, <1>4, <2>5 DEF Sizes
    <3>2. /\ b[1] = script.bytes[m + 2 + 1] /\ b[2] = script.bytes[m + 2 + 2] /\ b[4] = script.bytes[m + 2 + 4]
          /\ Reached(up', m + 2 + 4)
      BY <2>2, <3>1
    <3>3. m + 2 + 1 = m + 3 /\ m + 2 + 2 = m + 4 /\ m + 2 + 4 = m + 6
      BY <1>4
    <3>4. b[1] = f.request /\ b[2] = f.command /\ b[4] = f.to.type /\ Reached(up', m + 6)
      BY <1>1, <3>2, <3>3 DEF Played
    <3>5. f.to.type = 1 => a = 4
      BY <1>1 DEF Played
    <3>6. f.to.type = 4 => a = 16
      BY <1>1 DEF Played
    <3>7. script.valid => f.request = 5 /\ f.command = 1 /\ f.to.type \in {1, 3, 4}
      BY <1>1 DEF Played, Asked
    <3>8. CASE b[1] # 5 \/ b[2] # 1 \/ b[4] \notin {1, 3, 4}
      <4>1. spc' = "refused"
        BY <2>5, <3>8 DEF Header, Refuse
      <4>2. ~Complete
        BY <1>5, <3>4, <3>7, <3>8
      <4> QED BY <4>1, <4>2
    <3>9. CASE b[1] = 5 /\ b[2] = 1 /\ b[4] \in {1, 3, 4}
      <4>1. Asked(f)
        BY <3>1, <3>4, <3>9 DEF Asked
      <4>2. \/ b[4] = 1 /\ Expect("address", 4)
            \/ b[4] = 3 /\ Expect("length", 1)
            \/ b[4] = 4 /\ Expect("address", 16)
        BY <2>5, <3>9 DEF Header
      <4> QED BY <3>4, <3>5, <3>6, <4>1, <4>2 DEF Expect
    <3> QED BY <3>8, <3>9
  <2>6. CASE spc = "length" /\ Length(b)
    <3>1. Reached(up, m + 6) /\ need = 1 /\ Asked(f) /\ f.to.type = 3
      BY <1>2, <1>4, <2>6 DEF Sizes
    <3>2. b[1] = script.bytes[m + 6 + 1] /\ Reached(up', m + 6 + 1)
      BY <2>2, <3>1
    <3>3. a = f.to.address[1] + 1 /\ 1 \in 1 .. a
      <4>1. f.to.address # <<>> /\ f.to.address \in Seq(Bytes) /\ a = f.to.address[1] + 1
        BY <1>1, <3>1 DEF Played
      <4> QED BY <4>1 DEF a
    <3>4. b[1] = f.to.address[1]
      BY <1>1, <3>2, <3>3 DEF Played
    <3>5. f.to.address[1] \in Nat
      <4>1. f.to.address \in Seq(Bytes)
        BY <1>1 DEF Played
      <4>2. f.to.address[1] \in Bytes
        BY <3>3, <4>1, ElementOfSeq DEF a
      <4> QED BY <4>2, Constants
    <3>6. b[1] = a - 1 /\ m + 6 + 1 = m + 7
      BY <1>4, <3>3, <3>4, <3>5
    <3> QED BY <2>6, <3>1, <3>2, <3>6 DEF Length, Expect
  <2>7. CASE spc = "name" /\ Name(b)
    <3>1. Reached(up, m + 7) /\ need = a - 1 /\ Asked(f) /\ f.to.type = 3
      BY <1>2, <2>7
    <3>2. /\ b \in Seq(Bytes) /\ Len(b) = a - 1 /\ (\A i \in 1 .. a - 1 : b[i] = script.bytes[m + 7 + i])
          /\ Reached(up', m + 7 + (a - 1))
      BY <2>2, <3>1
    <3>3. b = Host(f)
      <4>1. f.to.address # <<>> /\ f.to.address \in Seq(Bytes)
        BY <1>1, <3>1 DEF Played
      <4>2. /\ Tail(f.to.address) \in Seq(Bytes) /\ Len(Tail(f.to.address)) = a - 1
            /\ \A i \in 1 .. a - 1 : Tail(f.to.address)[i] = f.to.address[i + 1]
        BY <4>1, HeadTailProperties DEF a
      <4>3. ASSUME NEW i \in 1 .. a - 1 PROVE b[i] = Tail(f.to.address)[i]
        <5>1. i + 1 \in 1 .. a /\ m + 6 + (i + 1) = m + 7 + i
          BY <1>4
        <5>2. script.bytes[m + 6 + (i + 1)] = f.to.address[i + 1]
          BY <1>1, <5>1 DEF Played
        <5> QED BY <3>2, <4>2, <5>1, <5>2
      <4>4. b = Tail(f.to.address)
        BY <3>2, <4>2, <4>3, SeqEqual
      <4> QED BY <3>1, <4>4 DEF Host
    <3>4. m + 7 + (a - 1) = m + a + 6
      BY <1>4
    <3>5. script.valid <=> Host(f) \in Decodable
      BY <1>1, <3>1 DEF Played
    <3>6. CASE b \in Decodable
      BY <2>7, <3>2, <3>3, <3>4, <3>5, <3>6 DEF Name, Expect
    <3>7. CASE b \notin Decodable
      BY <1>5, <2>7, <3>3, <3>5, <3>7 DEF Name, Refuse
    <3> QED BY <3>6, <3>7
  <2>8. CASE spc = "address" /\ Address(b)
    <3>1. Reached(up, m + 6) /\ need = a /\ Asked(f) /\ f.to.type \in {1, 4}
      BY <1>2, <2>8
    <3>2. /\ b \in Seq(Bytes) /\ Len(b) = a /\ (\A i \in 1 .. a : b[i] = script.bytes[m + 6 + i])
          /\ Reached(up', m + 6 + a)
      BY <2>2, <3>1
    <3>3. f.to.address \in Seq(Bytes) /\ \A i \in 1 .. a : b[i] = f.to.address[i]
      <4>1. /\ f.to.address \in Seq(Bytes)
            /\ \A i \in 1 .. a : script.bytes[m + 6 + i] = f.to.address[i]
        BY ONLY <1>1 DEF Played
      <4> QED BY ONLY <3>2, <4>1
    <3>4. b = f.to.address
      BY <3>2, <3>3, SeqEqual DEF a
    <3>5. Host(f) = f.to.address /\ script.valid
      <4>1. Host(f) = f.to.address
        BY <3>1 DEF Host
      <4>2. script.valid <=> Asked(f) /\ (f.to.type \in {1, 4} \/ (f.to.type = 3 /\ Host(f) \in Decodable))
        BY ONLY <1>1 DEF Played
      <4> QED BY ONLY <3>1, <4>1, <4>2
    <3>6. m + 6 + a = m + a + 6
      BY <1>4
    <3> QED BY <2>8, <3>2, <3>4, <3>5, <3>6 DEF Address, Expect
  <2>9. CASE spc = "port" /\ Port(b)
    <3>1. Reached(up, m + a + 6) /\ need = 2 /\ script.valid /\ target = Host(f)
      BY <1>2, <1>4, <2>9 DEF Sizes
    <3>2. /\ b \in Seq(Bytes) /\ Len(b) = 2 /\ (\A i \in 1 .. 2 : b[i] = script.bytes[m + a + 6 + i])
          /\ Reached(up', m + a + 6 + 2)
      BY <2>2, <3>1
    <3>3. f.to.port \in Seq(Bytes) /\ Len(f.to.port) = 2 /\ script.target = Host(f) \o f.to.port
      BY <1>1 DEF Played
    <3>4. ASSUME NEW i \in 1 .. 2 PROVE b[i] = f.to.port[i]
      <4>1. m + a + 6 + i = m + 6 + a + i
        BY <1>4
      <4>2. script.bytes[m + 6 + a + i] = f.to.port[i]
        BY <1>1 DEF Played
      <4> QED BY <3>2, <4>1, <4>2
    <3>5. b = f.to.port
      BY <3>2, <3>3, <3>4, SeqEqual
    <3>6. m + a + 6 + 2 = Len(script.bytes) - Len(script.payload)
      <4>1. Len(script.bytes) - Len(script.payload) = m + a + 8
        BY <1>1 DEF Played
      <4>2. m + a + 6 + 2 = m + a + 8
        BY <1>4
      <4> QED BY <4>1, <4>2, Zenon
    <3>7. up' = Payload
      BY <3>2, <3>6 DEF Reached, Payload
    <3> QED BY <2>9, <3>1, <3>3, <3>5, <3>7 DEF Port
  <2> QED BY <2>1, <2>3, <2>4, <2>5, <2>6, <2>7, <2>8, <2>9
<1> QED BY <1>6, <1>7 DEF Server

LEMMA AfterNothing ==
  ASSUME Given
  PROVE  Reached(Arrived, 0)
<1> DEFINE A == Arrived
<1>1. A \in Seq(Bytes) /\ Len(A) = script.cut /\ script.cut \in Nat /\ 0 <= Len(A) /\ 0 \in Nat
  BY ArrivedSeq DEF Given
<1> HIDE DEF A
<1>2. /\ After(A, 0) \in Seq(Bytes) /\ Len(After(A, 0)) = Len(A) - 0
      /\ \A i \in 1 .. Len(A) - 0 : After(A, 0)[i] = A[0 + i]
  BY ONLY <1>1, TakeDrop
<1>3. After(A, 0) = A
  <2>1. Len(After(A, 0)) = Len(A) /\ \A i \in 1 .. Len(A) : After(A, 0)[i] = A[i]
    BY <1>1, <1>2
  <2> QED BY <1>1, <1>2, <2>1, SeqEqual
<1> QED BY <1>1, <1>3 DEF Reached, A

LEMMA ServerInit == Init => ServerInv
<1> SUFFICES ASSUME Init, cpc = "foreign" PROVE \E f \in FromClient : Plays(ClientScript(f)) /\ Served(f)
  BY DEF ServerInv
<1>1. script \in Cuts({ClientScript(f) : f \in FromClient}) /\ up = Arrived /\ spc = "greeting"
  BY DEF Init
<1>2. PICK f \in FromClient : Plays(ClientScript(f))
  BY <1>1, CutsPlay
<1>3. Reached(up, 0)
  BY <1>1, InitTypes, AfterNothing DEF TInv
<1> QED BY <1>1, <1>2, <1>3 DEF Served

LEMMA ServerStep == TInv /\ ServerInv /\ [Next]_vars => ServerInv'
<1> SUFFICES ASSUME TInv, ServerInv, [Next]_vars, cpc' = "foreign"
             PROVE  \E f \in FromClient : Plays(ClientScript(f))' /\ Served(f)'
  BY DEF ServerInv
<1>1. CASE UNCHANGED vars
  <2>1. PICK f \in FromClient : Plays(ClientScript(f)) /\ Served(f)
    BY <1>1 DEF ServerInv, vars, client
  <2>2. Plays(ClientScript(f))' /\ Served(f)'
    BY <1>1, <2>1 DEF vars, server, client, Plays, ClientScript, Served, Reached, Arrived, Payload, Complete, Asked, Host
  <2> QED BY <2>2
<1>2. CASE Server
  <2>1. cpc = "foreign" /\ script' = script
    BY <1>2 DEF Server, ServerReads, ServerStarves, client
  <2>2. PICK f \in FromClient : Plays(ClientScript(f)) /\ Served(f)
    BY <2>1 DEF ServerInv
  <2>3. Served(f)'
    BY <1>2, <2>2, ServerServes
  <2>4. Plays(ClientScript(f))'
    BY <2>1, <2>2 DEF Plays, ClientScript
  <2> QED BY <2>3, <2>4
<1>3. CASE Client
  <2>1. cpc' # "foreign"
    BY <1>3 DEF Client, ClientGreets, ClientReads, ClientStarves, Await, Raise, Fail, SendFails, Send,
                Request, Login, Selected, Authenticated, Replied, Bound
  <2> QED BY <2>1
<1> QED BY <1>1, <1>2, <1>3 DEF Next

\* For every handshake a client may send, cut anywhere: the server of
\* socks_mitm.py accepts only a valid one, with the target it names and all the
\* bytes behind it left for the tunnel, and refuses none that is valid and
\* arrives whole.
THEOREM ServerReadsExactly == Spec => []ServerAgrees
<1>1. ServerInv => ServerAgrees
  BY DEF ServerInv, ServerAgrees, Served, Plays
<1>2. Spec => []ServerInv
  BY ServerInit, ServerStep, TypeInvariant, PTL DEF Spec
<1> QED BY <1>1, <1>2, PTL

-----------------------------------------------------------------------------
(* A client and a foreign server.                                           *)

\* The server takes the client, one way or the other.
Accepts(f) == f.version = 5 /\ (f.method = 0 \/ (f.method = 2 /\ f.auth = <<1, 0>>))

\* What of the answers f the client has read, by what it reads next.
Answered(f) ==
  LET m == Len(f.auth)
      a == Len(f.bound.address)
  IN  \/ cpc \in {"start", "selected"} /\ Reached(down, 0)
      \/ cpc = "authenticated" /\ Reached(down, 2) /\ f.version = 5 /\ f.method = 2
      \/ cpc = "reply" /\ Reached(down, m + 2) /\ Accepts(f)
      \/ cpc = "length" /\ Reached(down, m + 6) /\ script.valid /\ f.bound.type = 3
      \/ cpc = "bound" /\ cneed = a - 1 /\ Reached(down, m + 7) /\ script.valid /\ f.bound.type = 3
      \/ cpc = "bound" /\ cneed = a /\ Reached(down, m + 6) /\ script.valid /\ f.bound.type \in {1, 4}
      \/ cpc = "port" /\ Reached(down, m + a + 6) /\ script.valid
      \/ cpc = "connected" /\ down = Payload /\ script.valid
      \/ cpc = "failed" /\ (~Complete \/ unsent \/ ~Fits(want.host) \/ LoginRefused)

ClientInv == spc = "foreign" => \E f \in FromServer : Plays(ServerScript(f)) /\ Answered(f)

\* What it means that the foreign server plays f.
Answers(f, m, a) ==
  /\ m = (IF f.method = 2 THEN 2 ELSE 0)
  /\ a \in Nat /\ Len(script.bytes) - Len(script.payload) = m + a + 8
  /\ script.bytes[1] = f.version /\ script.bytes[2] = f.method
  /\ \A i \in 1 .. m : script.bytes[2 + i] = f.auth[i]
  /\ script.bytes[m + 3] = f.reply /\ script.bytes[m + 4] = f.code
  /\ script.bytes[m + 6] = f.bound.type
  /\ \A i \in 1 .. a : script.bytes[m + 6 + i] = f.bound.address[i]
  /\ script.valid <=> Accepts(f) /\ f.reply = 5 /\ f.code = 0 /\ f.bound.type \in {1, 3, 4}
  /\ f.auth \in Seq(Bytes) /\ f.bound.address \in Seq(Bytes)
  /\ f.bound.type = 1 => a = 4
  /\ f.bound.type = 3 => f.bound.address # <<>> /\ a = f.bound.address[1] + 1
  /\ f.bound.type = 4 => a = 16

LEMMA ServerFields ==
  ASSUME NEW f \in FromServer, Plays(ServerScript(f))
  PROVE  Answers(f, Len(f.auth), Len(f.bound.address))
<1> DEFINE m == Len(f.auth)
           a == Len(f.bound.address)
<1>1. /\ f \in [version : Bytes, method : Bytes, auth : Seq(Bytes), reply : Bytes, code : Bytes,
               reserved : Bytes, bound : Addressed]
  BY SocksHandshakeAssumption DEF ServerHandshakes
<1>2. /\ f.auth \in Seq(Bytes) /\ f.bound.address \in Seq(Bytes)
      /\ f.bound.type = 1 => a = 4
      /\ f.bound.type = 3 => f.bound.address # <<>> /\ a = f.bound.address[1] + 1
      /\ f.bound.type = 4 => a = 16
  BY <1>1 DEF Addressed
<1>3. script.bytes = ServerScript(f).bytes
  BY DEF Plays
<1>4. script.payload = f.bound.payload
  BY DEF Plays, ServerScript
<1>5. script.valid <=> Accepts(f) /\ f.reply = 5 /\ f.code = 0 /\ f.bound.type \in {1, 3, 4}
  BY Zenon DEF Plays, ServerScript, Accepts
<1> DEFINE B == script.bytes
           y == Len(script.payload)
           l == Len(B)
<1> HIDE DEF B, l, y
<1>6. /\ l = m + a + y + 8 /\ m = (IF f.method = 2 THEN 2 ELSE 0) /\ a \in Nat /\ y \in Nat
      /\ B[1] = f.version /\ B[2] = f.method
      /\ \A i \in 1 .. m : B[2 + i] = f.auth[i]
      /\ B[m + 3] = f.reply /\ B[m + 4] = f.code /\ B[m + 6] = f.bound.type
      /\ \A i \in 1 .. a : B[m + 6 + i] = f.bound.address[i]
  <2>1. B = ServerScript(f).bytes /\ l = Len(B) /\ y = Len(f.bound.payload)
    BY <1>3, <1>4 DEF B, l, y
  <2>2. HasServer(f, B, m, a, y)
    BY <2>1, ServerBytes
  <2> QED BY <2>1, <2>2 DEF HasServer
<1>7. l - y = m + a + 8
  <2>1. l = m + a + y + 8 /\ m \in Nat /\ a \in Nat /\ y \in Nat
    BY <1>6
  <2> HIDE DEF m, a
  <2> QED BY <2>1
<1> QED BY <1>2, <1>4, <1>5, <1>6, <1>7 DEF B, l, y, Answers

\* The client goes on with f: what it read is the next field, and it goes to the
\* field after that, or fails when the answer is no success or was cut.
LEMMA ClientAnswered ==
  ASSUME TInv, NEW f \in FromServer, Plays(ServerScript(f)), Answered(f), Client
  PROVE  Answered(f)'
<1> DEFINE m == Len(f.auth)
           a == Len(f.bound.address)
           b == SubSeq(down, 1, cneed)
           excused == ~Complete \/ ~Fits(want.host) \/ LoginRefused
<1>1. Answers(f, m, a)
  BY ServerFields
<1>2. /\ \/ cpc \in {"start", "selected"} /\ Reached(down, 0)
         \/ cpc = "authenticated" /\ Reached(down, 2) /\ f.version = 5 /\ f.method = 2
         \/ cpc = "reply" /\ Reached(down, m + 2) /\ Accepts(f)
         \/ cpc = "length" /\ Reached(down, m + 6) /\ script.valid /\ f.bound.type = 3
         \/ cpc = "bound" /\ cneed = a - 1 /\ Reached(down, m + 7) /\ script.valid /\ f.bound.type = 3
         \/ cpc = "bound" /\ cneed = a /\ Reached(down, m + 6) /\ script.valid /\ f.bound.type \in {1, 4}
         \/ cpc = "port" /\ Reached(down, m + a + 6) /\ script.valid
         \/ cpc = "connected" /\ down = Payload /\ script.valid
         \/ cpc = "failed" /\ (excused \/ unsent)
  BY DEF Answered
<1>3. SUFFICES
         \/ cpc' = "selected" /\ Reached(down', 0)
         \/ cpc' = "authenticated" /\ Reached(down', 2) /\ f.version = 5 /\ f.method = 2
         \/ cpc' = "reply" /\ Reached(down', m + 2) /\ Accepts(f)
         \/ cpc' = "length" /\ Reached(down', m + 6) /\ script.valid /\ f.bound.type = 3
         \/ cpc' = "bound" /\ cneed' = a - 1 /\ Reached(down', m + 7) /\ script.valid /\ f.bound.type = 3
         \/ cpc' = "bound" /\ cneed' = a /\ Reached(down', m + 6) /\ script.valid /\ f.bound.type \in {1, 4}
         \/ cpc' = "port" /\ Reached(down', m + a + 6) /\ script.valid
         \/ cpc' = "connected" /\ down' = Payload /\ script.valid
         \/ cpc' = "failed" /\ (excused \/ unsent')
  <2>1. script' = script /\ want' = want
    BY DEF Client, ClientGreets, ClientReads, ClientStarves
  <2>2. Arrived' = Arrived /\ script'.cut = script.cut /\ script'.valid = script.valid
    BY <2>1 DEF Arrived
  <2>3. Payload' = Payload /\ (Complete' <=> Complete)
    BY <2>1, <2>2 DEF Payload, Complete
  <2>4. Accepts(f)' <=> Accepts(f)
    BY DEF Accepts
  <2>5. CASE cpc' = "selected" /\ Reached(down', 0)
    BY <2>2, <2>5 DEF Answered, Reached
  <2>6. CASE cpc' = "authenticated" /\ Reached(down', 2) /\ f.version = 5 /\ f.method = 2
    BY <2>2, <2>6 DEF Answered, Reached
  <2>7. CASE cpc' = "reply" /\ Reached(down', m + 2) /\ Accepts(f)
    BY <2>2, <2>4, <2>7 DEF Answered, Reached
  <2>8. CASE cpc' = "length" /\ Reached(down', m + 6) /\ script.valid /\ f.bound.type = 3
    BY <2>2, <2>8 DEF Answered, Reached
  <2>9. CASE cpc' = "bound" /\ cneed' = a - 1 /\ Reached(down', m + 7) /\ script.valid /\ f.bound.type = 3
    BY <2>2, <2>9 DEF Answered, Reached
  <2>10. CASE cpc' = "bound" /\ cneed' = a /\ Reached(down', m + 6) /\ script.valid /\ f.bound.type \in {1, 4}
    BY <2>2, <2>10 DEF Answered, Reached
  <2>11. CASE cpc' = "port" /\ Reached(down', m + a + 6) /\ script.valid
    BY <2>2, <2>11 DEF Answered, Reached
  <2>12. CASE cpc' = "connected" /\ down' = Payload /\ script.valid
    BY <2>2, <2>3, <2>12 DEF Answered
  <2>13. CASE cpc' = "failed" /\ (excused \/ unsent')
    <3>1. (LoginRefused' <=> LoginRefused) /\ (Fits(want.host)' <=> Fits(want.host))
      BY <2>1 DEF LoginRefused, LoginFits, Fits
    <3>2. excused => (~Complete' \/ ~Fits(want.host)' \/ LoginRefused')
      BY <2>3, <3>1
    <3> QED BY <2>13, <3>2 DEF Answered
  <2> QED BY <1>3, <2>5, <2>6, <2>7, <2>8, <2>9, <2>10, <2>11, <2>12, <2>13
<1>4. Given /\ cneed \in Nat /\ Sizes /\ m \in Nat /\ a \in Nat /\ (f.method # 2 => m = 0) /\ (f.method = 2 => m = 2)
  BY <1>1 DEF TInv, TypeOK, Answers
<1>5. ~script.valid => ~Complete
  BY DEF Complete
<1>6. ASSUME NEW what, NEW n, NEW t, Send(what, n, t)
      PROVE  cpc' = what \/ (cpc' = "failed" /\ unsent')
  BY <1>6 DEF Send, Await, SendFails, Raise
<1>7. Fail => cpc' = "failed"
  BY DEF Fail, Raise
<1>11. Request => cpc' = "reply" \/ (cpc' = "failed" /\ (excused \/ unsent'))
  BY <1>6, <1>7 DEF Request
<1>12. Login /\ script.bytes[2] = 2 => cpc' = "authenticated" \/ (cpc' = "failed" /\ (excused \/ unsent'))
  BY <1>6, <1>7 DEF Login, LoginRefused
<1>13. ~Complete => excused
  OBVIOUS
<1> HIDE DEF m, a, b, excused
<1>8. CASE ClientGreets
  <2>1. (cpc' = "selected" \/ (cpc' = "failed" /\ unsent')) /\ down' = down /\ cpc = "start"
    BY <1>6, <1>8 DEF ClientGreets
  <2> QED BY <1>2, <2>1
<1>9. CASE ClientStarves
  <2>1. Len(down) < cneed /\ cpc' = "failed" /\ cpc \notin {"start", "connected", "failed"}
    BY <1>7, <1>9 DEF ClientStarves
  <2>2. \E k : Reached(down, k) /\ k + cneed <= m + a + 8
    BY <1>2, <1>4, <2>1 DEF Sizes
  <2>3. m + a + 8 = Len(script.bytes) - Len(script.payload)
    BY <1>1 DEF Answers
  <2>4. ~Complete
    BY <1>4, <2>1, <2>2, <2>3, Starving
  <2> QED BY <1>13, <2>1, <2>4
<1>10. CASE ClientReads
  <2>1. /\ cneed <= Len(down) /\ down' = After(down, cneed)
        /\ \/ cpc = "selected" /\ Selected(b)
           \/ cpc = "authenticated" /\ Authenticated(b)
           \/ cpc = "reply" /\ Replied(b)
           \/ cpc = "length" /\ Await("bound", b[1], <<>>)
           \/ cpc = "bound" /\ Bound(b)
           \/ cpc = "port" /\ Await("connected", 0, <<>>)
    <3>1. cneed <= Len(down)
      BY <1>4, <1>10 DEF ClientReads, TInv, TypeOK
    <3> QED BY <1>10, <3>1 DEF ClientReads, b
  <2>2. ASSUME NEW k, Reached(down, k)
        PROVE  /\ b \in Seq(Bytes) /\ Len(b) = cneed /\ \A i \in 1 .. cneed : b[i] = script.bytes[k + i]
               /\ Reached(down', k + cneed)
    BY <1>4, <2>1, <2>2, Reading DEF b
  <2>3. CASE cpc = "selected" /\ Selected(b)
    <3>1. Reached(down, 0) /\ cneed = 2
      BY <1>2, <1>4, <2>3 DEF Sizes
    <3>2. b[1] = script.bytes[0 + 1] /\ b[2] = script.bytes[0 + 2] /\ Reached(down', 0 + 2)
      BY <2>2, <3>1
    <3>3. b[1] = f.version /\ b[2] = f.method /\ Reached(down', 2)
      BY <1>1, <3>2 DEF Answers
    <3>4. CASE b[1] = 5 /\ b[2] = 0 /\ Request
      <4>1. Reached(down', m + 2) /\ Accepts(f)
        BY <1>4, <3>3, <3>4 DEF Accepts
      <4> QED BY <1>11, <3>4, <4>1
    <3>5. CASE b[1] = 5 /\ b[2] = 2 /\ Login
      <4>1. script.bytes[2] = 2
        BY <1>1, <3>3, <3>5 DEF Answers
      <4> QED BY <1>12, <3>3, <3>5, <4>1
    <3>6. CASE (b[1] # 5 \/ b[2] \notin {0, 2}) /\ Fail
      <4>1. ~script.valid
        BY <1>1, <3>3, <3>6 DEF Answers, Accepts
      <4> QED BY <1>5, <1>7, <1>13, <3>6, <4>1
    <3> QED BY <2>3, <3>4, <3>5, <3>6 DEF Selected
  <2>4. CASE cpc = "authenticated" /\ Authenticated(b)
    <3>1. Reached(down, 2) /\ cneed = 2 /\ f.version = 5 /\ f.method = 2 /\ m = 2
      BY <1>2, <1>4, <2>4 DEF Sizes
    <3>2. b \in Seq(Bytes) /\ Len(b) = 2 /\ (\A i \in 1 .. 2 : b[i] = script.bytes[2 + i]) /\ Reached(down', 2 + 2)
      BY <2>2, <3>1
    <3>3. f.auth \in Seq(Bytes) /\ Len(f.auth) = 2
      BY <1>1, <3>1 DEF Answers, m
    <3>4. b = f.auth
      <4>1. \A i \in 1 .. 2 : b[i] = f.auth[i]
        BY <1>1, <3>1, <3>2 DEF Answers
      <4> QED BY <3>2, <3>3, <4>1, SeqEqual
    <3>5. CASE b = <<1, 0>> /\ Request
      <4>1. Reached(down', m + 2)
        BY <3>1, <3>2
      <4>2. Accepts(f)
        BY <3>1, <3>4, <3>5 DEF Accepts
      <4> QED BY <1>11, <3>5, <4>1, <4>2
    <3>6. CASE b # <<1, 0>> /\ Fail
      <4>1. ~script.valid
        BY <1>1, <3>1, <3>4, <3>6 DEF Answers, Accepts
      <4> QED BY <1>5, <1>7, <1>13, <3>6, <4>1
    <3> QED BY <2>4, <3>5, <3>6 DEF Authenticated
  <2>5. CASE cpc = "reply" /\ Replied(b)
    <3>1. Reached(down, m + 2) /\ cneed = 4 /\ Accepts(f)
      BY <1>2, <1>4, <2>5 DEF Sizes
    <3>2. /\ b[1] = script.bytes[m + 2 + 1] /\ b[2] = script.bytes[m + 2 + 2] /\ b[4] = script.bytes[m + 2 + 4]
          /\ Reached(down', m + 2 + 4)
      BY <2>2, <3>1
    <3>3. m + 2 + 1 = m + 3 /\ m + 2 + 2 = m + 4 /\ m + 2 + 4 = m + 6
      BY <1>4
    <3>4. b[1] = f.reply /\ b[2] = f.code /\ b[4] = f.bound.type /\ Reached(down', m + 6)
      BY <1>1, <3>2, <3>3 DEF Answers
    <3>5. f.bound.type = 1 => a = 4
      BY <1>1 DEF Answers
    <3>6. f.bound.type = 4 => a = 16
      BY <1>1 DEF Answers
    <3>7. script.valid <=> f.reply = 5 /\ f.code = 0 /\ f.bound.type \in {1, 3, 4}
      BY <1>1, <3>1 DEF Answers
    <3>8. CASE (b[1] # 5 \/ b[2] # 0 \/ b[4] \notin {1, 3, 4}) /\ Fail
      BY <1>5, <1>7, <1>13, <3>4, <3>7, <3>8
    <3>9. CASE b[1] = 5 /\ b[2] = 0 /\ b[4] = 1 /\ Await("bound", 4, <<>>)
      BY <3>4, <3>5, <3>7, <3>9 DEF Await
    <3>10. CASE b[1] = 5 /\ b[2] = 0 /\ b[4] = 3 /\ Await("length", 1, <<>>)
      BY <3>4, <3>7, <3>10 DEF Await
    <3>11. CASE b[1] = 5 /\ b[2] = 0 /\ b[4] = 4 /\ Await("bound", 16, <<>>)
      BY <3>4, <3>6, <3>7, <3>11 DEF Await
    <3> QED BY <2>5, <3>8, <3>9, <3>10, <3>11 DEF Replied
  <2>6. CASE cpc = "length" /\ Await("bound", b[1], <<>>)
    <3>1. Reached(down, m + 6) /\ cneed = 1 /\ script.valid /\ f.bound.type = 3
      BY <1>2, <1>4, <2>6 DEF Sizes
    <3>2. b[1] = script.bytes[m + 6 + 1] /\ Reached(down', m + 6 + 1)
      BY <2>2, <3>1
    <3>3. a = f.bound.address[1] + 1 /\ 1 \in 1 .. a
      <4>1. f.bound.address # <<>> /\ f.bound.address \in Seq(Bytes) /\ a = f.bound.address[1] + 1
        BY <1>1, <3>1 DEF Answers
      <4> QED BY <4>1 DEF a
    <3>4. b[1] = f.bound.address[1]
      BY <1>1, <3>2, <3>3 DEF Answers
    <3>5. f.bound.address[1] \in Nat
      <4>1. f.bound.address \in Seq(Bytes)
        BY <1>1 DEF Answers
      <4>2. f.bound.address[1] \in Bytes
        BY <3>3, <4>1, ElementOfSeq DEF a
      <4> QED BY <4>2, Constants
    <3>6. b[1] = a - 1 /\ m + 6 + 1 = m + 7
      BY <1>4, <3>3, <3>4, <3>5
    <3> QED BY <2>6, <3>1, <3>2, <3>6 DEF Await
  <2>7. CASE cpc = "bound" /\ Bound(b)
    <3>1. \/ Reached(down, m + 7) /\ cneed = a - 1 /\ script.valid
          \/ Reached(down, m + 6) /\ cneed = a /\ script.valid
      BY <1>2, <2>7
    <3>2. Reached(down', m + 7 + (a - 1)) \/ Reached(down', m + 6 + a)
      BY <2>2, <3>1
    <3>3. m + 7 + (a - 1) = m + a + 6 /\ m + 6 + a = m + a + 6
      BY <1>4
    <3> QED BY <2>7, <3>1, <3>2, <3>3 DEF Bound, Await
  <2>8. CASE cpc = "port" /\ Await("connected", 0, <<>>)
    <3>1. Reached(down, m + a + 6) /\ cneed = 2 /\ script.valid
      BY <1>2, <1>4, <2>8 DEF Sizes
    <3>2. Reached(down', m + a + 6 + 2)
      BY <2>2, <3>1
    <3>3. m + a + 6 + 2 = Len(script.bytes) - Len(script.payload)
      <4>1. Len(script.bytes) - Len(script.payload) = m + a + 8
        BY <1>1 DEF Answers
      <4>2. m + a + 6 + 2 = m + a + 8
        BY <1>4
      <4> QED BY <4>1, <4>2, Zenon
    <3>4. down' = Payload
      BY <3>2, <3>3 DEF Reached, Payload
    <3> QED BY <2>8, <3>1, <3>4 DEF Await
  <2> QED BY <2>1, <2>3, <2>4, <2>5, <2>6, <2>7, <2>8
<1> QED BY <1>8, <1>9, <1>10 DEF Client

LEMMA ClientInit == Init => ClientInv
<1> SUFFICES ASSUME Init, spc = "foreign" PROVE \E f \in FromServer : Plays(ServerScript(f)) /\ Answered(f)
  BY DEF ClientInv
<1>1. script \in Cuts({ServerScript(f) : f \in FromServer}) /\ down = Arrived /\ cpc = "start"
  BY DEF Init
<1>2. PICK f \in FromServer : Plays(ServerScript(f))
  BY <1>1, CutsPlay
<1>3. Reached(down, 0)
  BY <1>1, InitTypes, AfterNothing DEF TInv
<1> QED BY <1>1, <1>2, <1>3 DEF Answered

LEMMA ClientStep == TInv /\ ClientInv /\ [Next]_vars => ClientInv'
<1> SUFFICES ASSUME TInv, ClientInv, [Next]_vars, spc' = "foreign"
             PROVE  \E f \in FromServer : Plays(ServerScript(f))' /\ Answered(f)'
  BY DEF ClientInv
<1>1. CASE UNCHANGED vars
  <2>1. PICK f \in FromServer : Plays(ServerScript(f)) /\ Answered(f)
    BY <1>1 DEF ClientInv, vars, server
  <2>2. Plays(ServerScript(f))' /\ Answered(f)'
    BY <1>1, <2>1 DEF vars, server, client, Plays, ServerScript, Answered, Reached, Arrived, Payload, Complete, Accepts,
                       LoginRefused, LoginFits, Fits
  <2> QED BY <2>2
<1>2. CASE Client
  <2>1. spc = "foreign" /\ script' = script
    BY <1>2 DEF Client, ClientGreets, ClientReads, ClientStarves, server
  <2>2. PICK f \in FromServer : Plays(ServerScript(f)) /\ Answered(f)
    BY <2>1 DEF ClientInv
  <2>3. Answered(f)'
    BY <1>2, <2>2, ClientAnswered
  <2>4. Plays(ServerScript(f))'
    BY <2>1, <2>2 DEF Plays, ServerScript
  <2> QED BY <2>3, <2>4
<1>3. CASE Server
  <2>1. spc' # "foreign"
    BY <1>3 DEF Server, ServerReads, ServerStarves, Expect, Refuse, Greeting, Methods, Header, Length, Name,
                Address, Port
  <2> QED BY <2>1
<1> QED BY <1>1, <1>2, <1>3 DEF Next

\* For every answer a server may give, cut anywhere: the client of outbound.py
\* connects only if the server accepted and connected, with the first bytes of
\* the target left to read.  When none of its sends raises, it fails only if the
\* server did not accept, its answer was cut, or the host, or a name or password
\* the server asked for, does not fit the byte of its length.
THEOREM ClientReadsExactly == Spec => []ClientAgrees
<1>1. ClientInv => ClientAgrees
  BY DEF ClientInv, ClientAgrees, Answered
<1>2. Spec => []ClientInv
  BY ClientInit, ClientStep, TypeInvariant, PTL DEF Spec
<1> QED BY <1>1, <1>2, PTL

-----------------------------------------------------------------------------
(* Two proxies in a chain.                                                  *)

\* The end of a request, and the request.
Rest == want.host \o want.port
Ask  == <<5, 1, 0, 3>> \o (<<Len(want.host)>> \o Rest)

\* Where the two ends of a chain are, and what is on its way between them.
Joint ==
  \/ cpc = "start" /\ spc = "greeting" /\ up = <<>> /\ down = <<>>
  \/ /\ cpc = "selected"
     /\ \/ spc = "greeting" /\ up[1] = 5 /\ Len(up) = up[2] + 2 /\ up[2] > 0 /\ up[3] = 0 /\ down = <<>>
        \/ spc = "methods" /\ need = Len(up) /\ need > 0 /\ up[1] = 0 /\ down = <<>>
        \/ spc = "header" /\ up = <<>> /\ down = <<5, 0>>
  \/ /\ cpc = "reply" /\ Fits(want.host)
     /\ \/ spc = "header" /\ up = Ask /\ down = <<>>
        \/ spc = "length" /\ up = <<Len(want.host)>> \o Rest /\ down = <<>>
        \/ spc = "name" /\ need = Len(want.host) /\ up = Rest /\ down = <<>>
        \/ spc = "port" /\ target = want.host /\ up = want.port /\ down = <<>>
        \/ spc = "accepted" /\ target = Rest /\ up = <<>> /\ down = Answer(0)
  \/ /\ spc = "accepted" /\ target = Rest /\ up = <<>>
     /\ \/ cpc = "bound" /\ cneed = 4 /\ Len(down) = 6
        \/ cpc = "port" /\ Len(down) = 2
        \/ cpc = "connected" /\ down = <<>>

Lost == cpc = "failed" /\ (timedOut \/ unsent \/ ~Fits(want.host))

ChainInv == cpc # "foreign" /\ spc # "foreign" => Lost \/ (gone = {} /\ Joint)

LEMMA Associative ==
  ASSUME NEW s \in Seq(Bytes), NEW t \in Seq(Bytes), NEW u \in Seq(Bytes)
  PROVE  (s \o t) \o u = s \o (t \o u)
BY ConcatAssociative

LEMMA NothingBefore ==
  ASSUME NEW s \in Seq(Bytes)
  PROVE  s \o <<>> = s /\ <<>> \o s = s
BY ConcatEmptySeq

LEMMA NoneLeft ==
  ASSUME NEW s \in Seq(Bytes)
  PROVE  /\ SubSeq(s, 1, Len(s)) = s /\ After(s, Len(s)) = <<>>
         /\ Len(s) = 0 => s = <<>>
<1>1. <<>> \in Seq(Bytes)
  BY Constants
<1>2. SubSeq(s \o <<>>, 1, Len(s)) = s /\ After(s \o <<>>, Len(s)) = <<>>
  BY <1>1, TakeDropConcat
<1>3. s \o <<>> = s
  BY NothingBefore
<1> QED BY <1>2, <1>3

\* The parts of the request, and that the client puts them together like this.
LEMMA Requested ==
  ASSUME Given, Fits(want.host)
  PROVE  /\ want.host \in Seq(Bytes) /\ want.host \in Decodable
         /\ want.port \in Seq(Bytes) /\ Len(want.port) = 2 /\ Rest \in Seq(Bytes)
         /\ <<Len(want.host)>> \in Seq(Bytes) /\ <<5, 1, 0, 3>> \in Seq(Bytes)
         /\ <<Len(want.host)>> \o Rest \in Seq(Bytes) /\ Ask \in Seq(Bytes)
         /\ Connect = Ask
<1> DEFINE h == want.host
           p == want.port
           n == Len(h)
<1>1. h \in Hosts /\ p = <<1, 4>>
  BY DEF Given
<1>2. h \in Seq(Bytes) /\ p \in Seq(Bytes) /\ n \in Bytes /\ Len(p) = 2 /\ h \in Decodable
  <2>1. p \in Seq(Bytes) /\ Len(p) = 2
    BY <1>1, Messages
  <2>2. h \in Decodable
    BY <1>1, SocksHandshakeAssumption
  <2> QED BY <1>1, <2>1, <2>2, HostBytes
<1>3. \A i \in 0 .. 8 : i \in Bytes
  BY Constants
<1> DEFINE q == <<5, 1, 0, 3>>
           l == <<n>>
<1> HIDE DEF n
<1>4. l \in Seq(Bytes) /\ q \in Seq(Bytes) /\ <<5, 1, 0, 3, n>> = q \o l
  <2>1. 5 \in Bytes /\ 1 \in Bytes /\ 0 \in Bytes /\ 3 \in Bytes
    BY <1>3
  <2>2. l \in Seq(Bytes) /\ q \in Seq(Bytes) /\ <<5, 1, 0, 3, n>> \in Seq(Bytes)
    BY <1>2, <2>1
  <2>3. Len(l) = 1 /\ l[1] = n /\ Len(q) = 4 /\ q[1] = 5 /\ q[2] = 1 /\ q[3] = 0 /\ q[4] = 3
    OBVIOUS
  <2> HIDE DEF q, l
  <2>4. PICK c : c = q \o l
    OBVIOUS
  <2>5. c \in Seq(Bytes) /\ Len(c) = Len(q) + Len(l) /\ \A i \in 1 .. Len(q) : c[i] = q[i]
    BY ONLY <2>2, <2>4, Concatenated
  <2>6. \A i \in 1 .. Len(l) : c[Len(q) + i] = l[i]
    BY ONLY <2>2, <2>4, Concatenated
  <2>7. c \in Seq(Bytes) /\ Len(c) = 5 /\ c[1] = 5 /\ c[2] = 1 /\ c[3] = 0 /\ c[4] = 3 /\ c[5] = n
    <3>1. c \in Seq(Bytes) /\ Len(c) = 5
      BY <2>3, <2>5
    <3>2. c[1] = 5 /\ c[2] = 1 /\ c[3] = 0 /\ c[4] = 3
      BY <2>3, <2>5
    <3>3. c[4 + 1] = n
      BY <2>3, <2>6
    <3> QED BY <3>1, <3>2, <3>3
  <2> DEFINE d == <<5, 1, 0, 3, n>>
  <2>8. d \in Seq(Bytes) /\ Len(d) = 5 /\ d[1] = 5 /\ d[2] = 1 /\ d[3] = 0 /\ d[4] = 3 /\ d[5] = n
    BY <2>2
  <2> HIDE DEF d
  <2>9. \A i \in 1 .. 5 : c[i] = d[i]
    <3>1. \A i \in 1 .. 5 : i \in {1, 2, 3, 4, 5}
      OBVIOUS
    <3> QED BY <2>7, <2>8, <3>1
  <2>10. c = d
    BY <2>7, <2>8, <2>9, SeqEqual
  <2> QED BY <2>2, <2>4, <2>10 DEF d
<1> HIDE DEF q, l, h, p
<1>5. h \o p \in Seq(Bytes) /\ l \o (h \o p) \in Seq(Bytes) /\ q \o (l \o (h \o p)) \in Seq(Bytes)
  BY <1>2, <1>4, ConcatProperties
<1>6. (q \o l) \o h \o p = q \o (l \o (h \o p))
  <2>1. q \in Seq(Bytes) /\ l \in Seq(Bytes) /\ h \in Seq(Bytes) /\ p \in Seq(Bytes)
    BY <1>2, <1>4
  <2>2. PICK v : v = l \o h
    OBVIOUS
  <2>3. v \in Seq(Bytes)
    BY <2>1, <2>2, ConcatProperties
  <2>4. (q \o l) \o h = q \o v
    BY ONLY <2>1, <2>2, Associative
  <2>5. (q \o v) \o p = q \o (v \o p)
    <3>1. q \in Seq(Bytes) /\ p \in Seq(Bytes)
      BY ONLY <2>1
    <3> QED BY ONLY <2>3, <3>1, Associative
  <2>6. v \o p = l \o (h \o p)
    <3>1. (l \o h) \o p = l \o (h \o p)
      BY ONLY <2>1, Associative, SMTT(30)
    <3> QED BY ONLY <2>2, <3>1
  <2> QED BY <2>4, <2>5, <2>6
<1> QED BY <1>2, <1>4, <1>5, <1>6 DEF n, q, l, h, p, Rest, Ask, Connect

\* The server finds the part it expects, whole, and takes nothing else.
LEMMA ServerJoint ==
  ASSUME TInv, gone = {}, Joint, Server
  PROVE  gone' = {} /\ Joint'
<1> DEFINE b == SubSeq(up, 1, need)
           l == Len(want.host)
<1>1. UNCHANGED <<cpc, cneed, want>> /\ Rest' = Rest
  BY DEF Server, ServerReads, ServerStarves, client, Rest
<1>2. Given /\ Sizes /\ up \in Seq(Bytes) /\ down \in Seq(Bytes) /\ need \in Nat
  BY DEF TInv, TypeOK
<1>3. ServerReads
  BY DEF Server, ServerStarves
<1>4. /\ need <= Len(up) /\ up' = After(up, need)
      /\ \/ spc = "greeting" /\ Greeting(b)
         \/ spc = "methods" /\ Methods(b)
         \/ spc = "header" /\ Header(b)
         \/ spc = "length" /\ Length(b)
         \/ spc = "name" /\ Name(b)
         \/ spc = "address" /\ Address(b)
         \/ spc = "port" /\ Port(b)
  <2>1. need <= Len(up)
    BY <1>2, <1>3 DEF ServerReads
  <2> QED BY <1>3, <2>1 DEF ServerReads
<1>5. ASSUME NEW s \in Seq(Bytes), NEW t \in Seq(Bytes), up = s \o t, need = Len(s)
      PROVE  b = s /\ up' = t
  BY <1>4, <1>5, TakeDropConcat
<1>6. ASSUME need = Len(up) PROVE b = up /\ up' = <<>>
  BY <1>2, <1>4, <1>6, NoneLeft
<1>7. Len(<<>>) = 0
  OBVIOUS
<1> HIDE DEF b
<1>8. CASE spc = "greeting" /\ Greeting(b)
  <2>1. need = 2
    BY <1>2, <1>8 DEF Sizes
  <2>2. cpc = "selected" /\ up[1] = 5 /\ Len(up) = up[2] + 2 /\ up[2] > 0 /\ up[3] = 0 /\ down = <<>>
    BY <1>4, <1>7, <1>8, <2>1 DEF Joint
  <2>3. /\ b[1] = up[1] /\ b[2] = up[2] /\ Len(up') = Len(up) - 2 /\ up[2] \in Bytes
        /\ \A i \in 1 .. Len(up) - 2 : up'[i] = up[2 + i]
    <3>1. /\ Len(up') = Len(up) - need /\ \A i \in 1 .. need : b[i] = up[i] /\ up[i] \in Bytes
          /\ \A i \in 1 .. Len(up) - need : up'[i] = up[need + i]
      BY <1>2, <1>4, TakeDrop DEF b
    <3> QED BY <2>1, <3>1
  <2>4. up[2] \in Nat
    BY <2>3, Constants
  <2>5. Len(up') = up[2] /\ up'[1] = 0
    <3>1. 1 \in 1 .. Len(up) - 2 /\ Len(up) - 2 = up[2] /\ 2 + 1 = 3
      BY <2>2, <2>4
    <3> QED BY <2>2, <2>3, <3>1
  <2>6. spc' = "methods" /\ need' = up[2] /\ down' = down /\ gone' = gone
    BY <1>8, <2>2, <2>3 DEF Greeting, Expect
  <2> QED BY <1>1, <2>2, <2>5, <2>6 DEF Joint
<1>9. CASE spc = "methods" /\ Methods(b)
  <2>1. cpc = "selected" /\ need = Len(up) /\ need > 0 /\ up[1] = 0 /\ down = <<>>
    BY <1>9 DEF Joint
  <2>2. b = up /\ up' = <<>>
    BY <1>6, <2>1
  <2>3. \E i \in 1 .. Len(b) : b[i] = 0
    <3>1. 1 \in 1 .. Len(b)
      BY <1>2, <2>1, <2>2
    <3> QED BY <2>1, <2>2, <3>1
  <2>4. spc' = "header" /\ down' = <<>> \o <<5, 0>> /\ gone' = gone
    BY <1>9, <2>1, <2>3 DEF Methods
  <2>5. <<>> \o <<5, 0>> = <<5, 0>>
    BY NothingBefore, Messages
  <2> QED BY <1>1, <2>1, <2>2, <2>4, <2>5 DEF Joint
<1>10. CASE spc = "header" /\ Header(b)
  <2>1. need = 4
    BY <1>2, <1>10 DEF Sizes
  <2>2. cpc = "reply" /\ Fits(want.host) /\ up = Ask /\ down = <<>>
    BY <1>4, <1>7, <1>10, <2>1 DEF Joint
  <2>3. <<5, 1, 0, 3>> \in Seq(Bytes) /\ <<l>> \o Rest \in Seq(Bytes) /\ Len(<<5, 1, 0, 3>>) = 4
    BY <1>2, <2>2, Requested
  <2>4. b = <<5, 1, 0, 3>> /\ up' = <<l>> \o Rest
    <3> DEFINE q == <<5, 1, 0, 3>>
               t == <<l>> \o Rest
    <3>1. q \in Seq(Bytes) /\ t \in Seq(Bytes) /\ up = q \o t /\ need = Len(q)
      BY <2>1, <2>2, <2>3 DEF Ask
    <3> HIDE DEF q, t
    <3>2. b = q /\ up' = t
      BY <1>5, <3>1
    <3> QED BY <3>2 DEF q, t
  <2>5. b[1] = 5 /\ b[2] = 1 /\ b[4] = 3
    BY <2>4
  <2>6. spc' = "length" /\ down' = down /\ gone' = gone
    BY <1>10, <2>5 DEF Header, Expect
  <2> QED BY <1>1, <2>2, <2>4, <2>6 DEF Joint
<1>11. CASE spc = "length" /\ Length(b)
  <2>1. need = 1
    BY <1>2, <1>11 DEF Sizes
  <2>2. cpc = "reply" /\ Fits(want.host) /\ up = <<l>> \o Rest /\ down = <<>>
    BY <1>11 DEF Joint
  <2>3. <<l>> \in Seq(Bytes) /\ Rest \in Seq(Bytes) /\ Len(<<l>>) = 1
    BY <1>2, <2>2, Requested
  <2>4. b = <<l>> /\ up' = Rest
    <3> DEFINE q == <<l>>
    <3>1. q \in Seq(Bytes) /\ Rest \in Seq(Bytes) /\ up = q \o Rest /\ need = Len(q)
      BY <2>1, <2>2, <2>3
    <3> HIDE DEF q
    <3>2. b = q /\ up' = Rest
      BY <1>5, <3>1
    <3> QED BY <3>2 DEF q
  <2>5. b[1] = l
    BY <2>4
  <2>6. spc' = "name" /\ need' = l /\ down' = down /\ gone' = gone
    BY <1>11, <2>5 DEF Length, Expect
  <2> QED BY <1>1, <2>2, <2>4, <2>6 DEF Joint
<1>12. CASE spc = "name" /\ Name(b)
  <2>1. cpc = "reply" /\ Fits(want.host) /\ need = l /\ up = Rest /\ down = <<>>
    BY <1>12 DEF Joint
  <2>2. want.host \in Seq(Bytes) /\ want.host \in Decodable /\ want.port \in Seq(Bytes)
    BY <1>2, <2>1, Requested
  <2>3. b = want.host /\ up' = want.port
    BY <1>5, <2>1, <2>2 DEF Rest
  <2>4. spc' = "port" /\ target' = want.host /\ down' = down /\ gone' = gone
    BY <1>12, <2>2, <2>3 DEF Name, Expect
  <2> QED BY <1>1, <2>1, <2>3, <2>4 DEF Joint
<1>13. CASE spc = "address" /\ Address(b)
  BY <1>13 DEF Joint
<1>14. CASE spc = "port" /\ Port(b)
  <2>1. cpc = "reply" /\ Fits(want.host) /\ target = want.host /\ up = want.port /\ down = <<>>
    BY <1>14 DEF Joint
  <2>2. need = Len(up)
    BY <1>2, <1>14, <2>1, Requested DEF Sizes
  <2>3. b = want.port /\ up' = <<>>
    BY <1>6, <2>1, <2>2
  <2>4. Answer(0) \in Seq(Bytes)
    BY Messages
  <2>5. <<>> \o Answer(0) = Answer(0)
    BY <2>4, NothingBefore
  <2>6. spc' = "accepted" /\ target' = Rest /\ down' = Answer(0) /\ gone' = gone
    BY <1>14, <2>1, <2>3, <2>5 DEF Port, Rest
  <2> QED BY <1>1, <2>1, <2>3, <2>6 DEF Joint
<1> QED BY <1>4, <1>8, <1>9, <1>10, <1>11, <1>12, <1>13, <1>14

\* The client finds the answer it expects, or waits in vain.
LEMMA ClientJoint ==
  ASSUME TInv, gone = {}, Joint, Client
  PROVE  Lost' \/ (gone' = {} /\ Joint')
<1> DEFINE b == SubSeq(down, 1, cneed)
<1>1. UNCHANGED <<spc, need, target, want>> /\ Rest' = Rest /\ Ask' = Ask
  BY DEF Client, ClientGreets, ClientReads, ClientStarves, server, Rest, Ask
<1>2. Given /\ Sizes /\ up \in Seq(Bytes) /\ down \in Seq(Bytes) /\ cneed \in Nat
  BY DEF TInv, TypeOK
<1>3. Len(<<>>) = 0 /\ \A s \in Seq(Bytes) : <<>> \o s = s
  BY NothingBefore
<1>7. ASSUME NEW t, SendFails(t) PROVE Lost'
  BY <1>7 DEF SendFails, Raise, Lost
<1>4. CASE ClientGreets
  <2>1. PICK s \in {<<5, 2, 0, 2>>, <<5, 1, 0>>} : Send("selected", 2, s)
    BY <1>4 DEF ClientGreets
  <2>2. spc = "greeting" /\ up = <<>> /\ down = <<>> /\ down' = down
    BY <1>4 DEF ClientGreets, Joint
  <2>3. CASE Await("selected", 2, s)
    <3>1. cpc' = "selected" /\ gone' = gone /\ up' = up \o s
      BY <2>3 DEF Await
    <3>2. s \in Seq(Bytes)
      BY Messages
    <3>3. up' = s
      BY <1>3, <2>2, <3>1, <3>2
    <3>4. up'[1] = 5 /\ Len(up') = up'[2] + 2 /\ up'[2] > 0 /\ up'[3] = 0
      <4>1. CASE up' = <<5, 2, 0, 2>>
        BY <4>1
      <4>2. CASE up' = <<5, 1, 0>>
        BY <4>2
      <4> QED BY <3>3, <4>1, <4>2
    <3> QED BY <1>1, <2>2, <3>1, <3>4 DEF Joint
  <2> QED BY <1>7, <2>1, <2>3 DEF Send
<1>5. CASE ClientStarves
  BY <1>5 DEF ClientStarves, Fail, Raise, Lost
<1>6. CASE ClientReads
  <2>1. /\ cneed <= Len(down) /\ down' = After(down, cneed)
        /\ \/ cpc = "selected" /\ Selected(b)
           \/ cpc = "authenticated" /\ Authenticated(b)
           \/ cpc = "reply" /\ Replied(b)
           \/ cpc = "length" /\ Await("bound", b[1], <<>>)
           \/ cpc = "bound" /\ Bound(b)
           \/ cpc = "port" /\ Await("connected", 0, <<>>)
    <3>1. cneed <= Len(down)
      BY <1>2, <1>6 DEF ClientReads
    <3> QED BY <1>6, <3>1 DEF ClientReads
  <2>2. /\ Len(b) = cneed /\ (\A i \in 1 .. cneed : b[i] = down[i])
        /\ down' \in Seq(Bytes) /\ Len(down') = Len(down) - cneed
    BY <1>2, <2>1, TakeDrop
  <2>3. Len(down') = 0 => down' = <<>>
    BY <2>2, NoneLeft
  <2> HIDE DEF b
  <2>4. <<>> \in Seq(Bytes)
    BY Constants
  <2>5. CASE cpc = "selected" /\ Selected(b)
    <3>1. cneed = 2
      BY <1>2, <2>5 DEF Sizes
    <3>2. spc = "header" /\ up = <<>> /\ down = <<5, 0>>
      BY <1>3, <2>1, <2>5, <3>1 DEF Joint
    <3>3. b[1] = 5 /\ b[2] = 0 /\ Len(down) = 2
      BY <2>2, <3>1, <3>2
    <3>4. down' = <<>>
      BY <2>2, <2>3, <3>1, <3>3
    <3>5. Request
      BY <2>5, <3>3 DEF Selected
    <3>6. CASE ~Fits(want.host)
      BY <1>1, <3>5, <3>6 DEF Request, Fail, Raise, Lost, Fits
    <3>7. CASE Fits(want.host) /\ Await("reply", 4, Connect)
      <4>1. Ask \in Seq(Bytes) /\ Connect = Ask
        BY <1>2, <3>7, Requested
      <4>2. cpc' = "reply" /\ up' = Ask /\ gone' = gone
        BY <1>3, <3>2, <3>7, <4>1 DEF Await
      <4>3. Fits(want.host)'
        BY <1>1, <3>7 DEF Fits
      <4> QED BY <1>1, <3>2, <3>4, <4>2, <4>3 DEF Joint
    <3>8. CASE SendFails(Connect)
      BY <1>7, <3>8
    <3> QED BY <3>5, <3>6, <3>7, <3>8 DEF Request, Send
  <2>6. CASE cpc = "reply" /\ Replied(b)
    <3>1. cneed = 4
      BY <1>2, <2>6 DEF Sizes
    <3>2. spc = "accepted" /\ target = Rest /\ up = <<>> /\ down = Answer(0)
      BY <1>3, <2>1, <2>6, <3>1 DEF Joint
    <3>3. down[1] = 5 /\ down[2] = 0 /\ down[4] = 1 /\ Len(down) = 10
      BY <3>2 DEF Answer
    <3>4. b[1] = 5 /\ b[2] = 0 /\ b[4] = 1 /\ Len(down') = 6
      BY <2>2, <3>1, <3>3
    <3>5. cpc' = "bound" /\ cneed' = 4 /\ up' = up \o <<>> /\ gone' = gone
      BY <2>6, <3>4 DEF Replied, Await
    <3>6. up' = <<>>
      BY <1>3, <2>4, <3>2, <3>5
    <3> QED BY <1>1, <3>2, <3>4, <3>5, <3>6 DEF Joint
  <2>7. CASE cpc = "bound" /\ Bound(b)
    <3>1. spc = "accepted" /\ target = Rest /\ up = <<>> /\ cneed = 4 /\ Len(down) = 6
      BY <2>7 DEF Joint
    <3>2. cpc' = "port" /\ up' = up \o <<>> /\ gone' = gone
      BY <2>7 DEF Bound, Await
    <3>3. up' = <<>> /\ Len(down') = 2
      BY <1>3, <2>2, <2>4, <3>1, <3>2
    <3> QED BY <1>1, <3>1, <3>2, <3>3 DEF Joint
  <2>8. CASE cpc = "port" /\ Await("connected", 0, <<>>)
    <3>1. spc = "accepted" /\ target = Rest /\ up = <<>> /\ cneed = 2 /\ Len(down) = 2
      BY <1>2, <2>8 DEF Joint, Sizes
    <3>2. cpc' = "connected" /\ up' = up \o <<>> /\ gone' = gone
      BY <2>8 DEF Await
    <3>3. up' = <<>> /\ down' = <<>>
      BY <1>3, <2>2, <2>3, <2>4, <3>1, <3>2
    <3> QED BY <1>1, <3>1, <3>2, <3>3 DEF Joint
  <2>9. cpc \notin {"authenticated", "length"}
    BY DEF Joint
  <2> QED BY <2>1, <2>5, <2>6, <2>7, <2>8, <2>9
<1> QED BY <1>4, <1>5, <1>6 DEF Client

LEMMA ChainInit == Init => ChainInv
BY DEF Init, ChainInv, Joint

LEMMA ChainStep == TInv /\ ChainInv /\ [Next]_vars => ChainInv'
<1> SUFFICES ASSUME TInv, ChainInv, [Next]_vars, cpc' # "foreign", spc' # "foreign"
             PROVE  Lost' \/ (gone' = {} /\ Joint')
  BY DEF ChainInv
<1>1. CASE UNCHANGED vars
  <2>1. /\ UNCHANGED <<up, down, spc, need, target, cpc, cneed, want, gone, timedOut, unsent>>
        /\ Rest' = Rest /\ Ask' = Ask
    BY <1>1 DEF vars, server, client, Rest, Ask
  <2>2. (Lost' <=> Lost) /\ (Joint' <=> Joint)
    BY <2>1 DEF Lost, Joint, Fits
  <2> QED BY <2>1, <2>2 DEF ChainInv
<1>2. CASE Server
  <2>1. cpc' = cpc /\ timedOut' = timedOut /\ unsent' = unsent /\ want' = want /\ spc # "foreign"
    BY <1>2 DEF Server, ServerReads, ServerStarves, client
  <2>2. CASE Lost
    BY <2>1, <2>2 DEF Lost, Fits
  <2> QED BY <1>2, <2>1, <2>2, ServerJoint DEF ChainInv
<1>3. CASE Client
  <2>1. spc' = spc /\ cpc \notin {"foreign", "failed"}
    BY <1>3 DEF Client, ClientGreets, ClientReads, ClientStarves, server
  <2> QED BY <1>3, <2>1, ClientJoint DEF ChainInv, Lost
<1> QED BY <1>1, <1>2, <1>3 DEF Next

\* One instance of the program as the outbound proxy of another, for every host:
\* a client that connects has told the server the target it wants and left no
\* byte on the way, and it fails only by a timeout, by a send that raises, or
\* because the host does not fit the byte of its length.  The two ends of the
\* protocol, written apart in outbound.py and socks_mitm.py, agree on it.
THEOREM TheChainWorks == Spec => []ChainWorks
<1>1. ChainInv => ChainWorks
  BY DEF ChainInv, ChainWorks, Lost, Joint, Rest
<1>2. Spec => []ChainInv
  BY ChainInit, ChainStep, TypeInvariant, PTL DEF Spec
<1> QED BY <1>1, <1>2, PTL

-----------------------------------------------------------------------------
(* Foreign peers are described by fields.  Nothing is lost by that: every   *)
(* sequence of bytes, however wrong or short, is where some description is  *)
(* cut.                                                                     *)

Slice(B, k, n) == SubSeq(B, k + 1, k + n)

LEMMA Sliced ==
  ASSUME NEW B \in Seq(Bytes), NEW k \in Nat, NEW n \in Nat, k + n <= Len(B)
  PROVE  /\ Slice(B, k, n) \in Seq(Bytes) /\ Len(Slice(B, k, n)) = n
         /\ \A i \in 1 .. n : Slice(B, k, n)[i] = B[k + i]
<1>1. k + 1 \in Int /\ k + n \in Int /\ \A i \in k + 1 .. k + n : B[i] \in Bytes
  BY ElementOfSeq
<1>2. /\ Slice(B, k, n) \in Seq(Bytes)
      /\ Len(Slice(B, k, n)) = IF k + 1 <= k + n THEN k + n - (k + 1) + 1 ELSE 0
      /\ \A i \in 1 .. k + n - (k + 1) + 1 : Slice(B, k, n)[i] = B[k + 1 + i - 1]
  BY <1>1, SubSeqProperties DEF Slice
<1>3. Len(Slice(B, k, n)) = n
  <2>1. (IF k + 1 <= k + n THEN k + n - (k + 1) + 1 ELSE 0) = n
    OBVIOUS
  <2> QED BY ONLY <1>2, <2>1
<1>4. ASSUME NEW i \in 1 .. n PROVE Slice(B, k, n)[i] = B[k + i]
  <2>1. i \in 1 .. k + n - (k + 1) + 1 /\ k + 1 + i - 1 = k + i
    BY ONLY k \in Nat, n \in Nat, i \in 1 .. n
  <2>2. Slice(B, k, n)[i] = B[k + 1 + i - 1]
    BY ONLY <1>2, <2>1
  <2> QED BY ONLY <2>1, <2>2
<1> QED BY ONLY <1>2, <1>3, <1>4

LEMMA TwoBytes ==
  ASSUME NEW B \in Seq(Bytes), 2 <= Len(B)
  PROVE  Slice(B, 0, 2) = <<B[1], B[2]>>
<1>1. PICK t : t = Slice(B, 0, 2)
  OBVIOUS
<1>2. t \in Seq(Bytes) /\ Len(t) = 2 /\ \A i \in 1 .. 2 : t[i] = B[0 + i]
  <2>1. 0 \in Nat /\ 2 \in Nat /\ 0 + 2 <= Len(B)
    OBVIOUS
  <2> QED BY ONLY <1>1, <2>1, B \in Seq(Bytes), Sliced
<1>3. t[1] = B[1] /\ t[2] = B[2]
  BY <1>2
<1>4. PICK u : u = <<B[1], B[2]>>
  OBVIOUS
<1>5. u \in Seq(Bytes) /\ Len(u) = 2 /\ u[1] = B[1] /\ u[2] = B[2]
  BY <1>4, ElementOfSeq
<1>6. \A i \in 1 .. Len(t) : t[i] = u[i]
  <2>1. \A i \in 1 .. 2 : i \in {1, 2}
    OBVIOUS
  <2> QED BY ONLY <1>2, <1>3, <1>5, <2>1
<1>7. t = u
  BY ONLY <1>2, <1>5, <1>6, SeqEqual
<1> QED BY <1>1, <1>4, <1>7

LEMMA FourBytes ==
  ASSUME NEW B \in Seq(Bytes), NEW k \in Nat, k + 4 <= Len(B)
  PROVE  Slice(B, k, 4) = <<B[k + 1], B[k + 2], B[k + 3], B[k + 4]>>
<1>1. PICK t : t = Slice(B, k, 4)
  OBVIOUS
<1>2. t \in Seq(Bytes) /\ Len(t) = 4 /\ \A i \in 1 .. 4 : t[i] = B[k + i]
  BY ONLY <1>1, 4 \in Nat, k \in Nat, k + 4 <= Len(B), B \in Seq(Bytes), Sliced
<1>3. t[1] = B[k + 1] /\ t[2] = B[k + 2] /\ t[3] = B[k + 3] /\ t[4] = B[k + 4]
  BY <1>2
<1>4. PICK u : u = <<B[k + 1], B[k + 2], B[k + 3], B[k + 4]>>
  OBVIOUS
<1>5. /\ u \in Seq(Bytes) /\ Len(u) = 4
      /\ u[1] = B[k + 1] /\ u[2] = B[k + 2] /\ u[3] = B[k + 3] /\ u[4] = B[k + 4]
  BY <1>4, ElementOfSeq
<1>6. \A i \in 1 .. Len(t) : t[i] = u[i]
  <2>1. \A i \in 1 .. 4 : i \in {1, 2, 3, 4}
    OBVIOUS
  <2> QED BY ONLY <1>2, <1>3, <1>5, <2>1
<1>7. t = u
  BY ONLY <1>2, <1>5, <1>6, SeqEqual
<1> QED BY <1>1, <1>4, <1>7

\* Enough bytes are six parts, whatever the lengths of the second and the fourth.
LEMMA Parted ==
  ASSUME NEW B \in Seq(Bytes), NEW m \in Nat, NEW a \in Nat, m + a + 8 <= Len(B)
  PROVE  B = Slice(B, 0, 2) \o Slice(B, 2, m) \o Slice(B, m + 2, 4) \o Slice(B, m + 6, a)
             \o Slice(B, m + 6 + a, 2) \o Slice(B, m + 8 + a, Len(B) - (m + 8 + a))
<1> DEFINE l == Len(B) - (m + 8 + a)
<1>0. l \in Nat /\ Len(B) \in Nat /\ Len(B) = m + a + l + 8
  OBVIOUS
<1> HIDE DEF l
<1>1. PICK g : g = Slice(B, 0, 2)
  OBVIOUS
<1>2. PICK mm : mm = Slice(B, 2, m)
  OBVIOUS
<1>3. PICK h : h = Slice(B, m + 2, 4)
  OBVIOUS
<1>4. PICK aa : aa = Slice(B, m + 6, a)
  OBVIOUS
<1>5. PICK p : p = Slice(B, m + 6 + a, 2)
  OBVIOUS
<1>6. PICK y : y = Slice(B, m + 8 + a, l)
  OBVIOUS
<1>7. g \in Seq(Bytes) /\ Len(g) = 2 /\ \A i \in 1 .. 2 : g[i] = B[i]
  <2>1. 0 \in Nat /\ 2 \in Nat /\ 0 + 2 <= Len(B)
    BY <1>0
  <2>2. g \in Seq(Bytes) /\ Len(g) = 2 /\ \A i \in 1 .. 2 : g[i] = B[0 + i]
    BY ONLY <1>1, <2>1, B \in Seq(Bytes), Sliced
  <2> QED BY <2>2
<1>8. mm \in Seq(Bytes) /\ Len(mm) = m /\ \A i \in 1 .. m : mm[i] = B[2 + i]
  <2>1. 2 \in Nat /\ 2 + m <= Len(B)
    BY <1>0
  <2> QED BY ONLY <1>2, <2>1, m \in Nat, B \in Seq(Bytes), Sliced
<1>9. h \in Seq(Bytes) /\ Len(h) = 4 /\ \A i \in 1 .. 4 : h[i] = B[m + 2 + i]
  <2>1. m + 2 \in Nat /\ 4 \in Nat /\ m + 2 + 4 <= Len(B)
    BY <1>0
  <2> QED BY ONLY <1>3, <2>1, B \in Seq(Bytes), Sliced
<1>10. aa \in Seq(Bytes) /\ Len(aa) = a /\ \A i \in 1 .. a : aa[i] = B[m + 6 + i]
  <2>1. m + 6 \in Nat /\ m + 6 + a <= Len(B)
    BY <1>0
  <2> QED BY ONLY <1>4, <2>1, a \in Nat, B \in Seq(Bytes), Sliced
<1>11. p \in Seq(Bytes) /\ Len(p) = 2 /\ \A i \in 1 .. 2 : p[i] = B[m + 6 + a + i]
  <2>1. m + 6 + a \in Nat /\ 2 \in Nat /\ m + 6 + a + 2 <= Len(B)
    BY <1>0
  <2> QED BY ONLY <1>5, <2>1, B \in Seq(Bytes), Sliced
<1>12. y \in Seq(Bytes) /\ Len(y) = l /\ \A i \in 1 .. l : y[i] = B[m + 8 + a + i]
  <2>1. m + 8 + a \in Nat /\ m + 8 + a + l <= Len(B)
    BY <1>0
  <2> QED BY ONLY <1>0, <1>6, <2>1, B \in Seq(Bytes), Sliced
<1>13. PICK c : c = g \o mm \o h \o aa \o p \o y
  OBVIOUS
<1>14. HasParts(c, g, mm, h, aa, p, y)
  <2>1. HasParts(g \o mm \o h \o aa \o p \o y, g, mm, h, aa, p, y)
    BY ONLY <1>7, <1>8, <1>9, <1>10, <1>11, <1>12, SixParts
  <2> QED BY ONLY <1>13, <2>1
<1>15. c \in Seq(Bytes) /\ Len(c) = Len(B)
  BY <1>0, <1>8, <1>10, <1>12, <1>14 DEF HasParts
<1>16. ASSUME NEW i \in 1 .. Len(B) PROVE c[i] = B[i]
  <2>1. CASE i \in 1 .. 2
    BY <1>7, <1>14, <2>1 DEF HasParts
  <2>2. CASE i - 2 \in 1 .. m
    <3>1. 2 + (i - 2) = i
      OBVIOUS
    <3>2. c[2 + (i - 2)] = mm[i - 2]
      BY <1>8, <1>14, <2>2 DEF HasParts
    <3>3. mm[i - 2] = B[2 + (i - 2)]
      BY <1>8, <2>2
    <3> QED BY <3>1, <3>2, <3>3
  <2>3. CASE i - (m + 2) \in 1 .. 4
    <3>1. m + 2 + (i - (m + 2)) = i
      OBVIOUS
    <3>2. c[m + 2 + (i - (m + 2))] = h[i - (m + 2)]
      BY <1>8, <1>9, <1>14, <2>3 DEF HasParts
    <3>3. h[i - (m + 2)] = B[m + 2 + (i - (m + 2))]
      BY <1>9, <2>3
    <3> QED BY <3>1, <3>2, <3>3
  <2>4. CASE i - (m + 6) \in 1 .. a
    <3>1. m + 6 + (i - (m + 6)) = i
      OBVIOUS
    <3>2. c[m + 6 + (i - (m + 6))] = aa[i - (m + 6)]
      BY <1>8, <1>10, <1>14, <2>4 DEF HasParts
    <3>3. aa[i - (m + 6)] = B[m + 6 + (i - (m + 6))]
      BY <1>10, <2>4
    <3> QED BY <3>1, <3>2, <3>3
  <2>5. CASE i - (m + 6 + a) \in 1 .. 2
    <3>1. m + 6 + a + (i - (m + 6 + a)) = i
      OBVIOUS
    <3>2. c[m + 6 + a + (i - (m + 6 + a))] = p[i - (m + 6 + a)]
      BY <1>8, <1>10, <1>11, <1>14, <2>5 DEF HasParts
    <3>3. p[i - (m + 6 + a)] = B[m + 6 + a + (i - (m + 6 + a))]
      BY <1>11, <2>5
    <3> QED BY <3>1, <3>2, <3>3
  <2>6. CASE i - (m + 8 + a) \in 1 .. l
    <3>1. m + 8 + a + (i - (m + 8 + a)) = i
      OBVIOUS
    <3>2. c[m + 8 + a + (i - (m + 8 + a))] = y[i - (m + 8 + a)]
      BY <1>8, <1>10, <1>12, <1>14, <2>6 DEF HasParts
    <3>3. y[i - (m + 8 + a)] = B[m + 8 + a + (i - (m + 8 + a))]
      BY <1>12, <2>6
    <3> QED BY <3>1, <3>2, <3>3
  <2> QED BY <1>0, <2>1, <2>2, <2>3, <2>4, <2>5, <2>6
<1>17. c = B
  BY <1>15, <1>16, SeqEqual
<1> QED BY <1>1, <1>2, <1>3, <1>4, <1>5, <1>6, <1>13, <1>17 DEF l

\* What was sent, continued.
LEMMA Padded ==
  ASSUME NEW s \in Seq(Bytes)
  PROVE  \E B \in Seq(Bytes) : /\ Len(B) >= 2 * Byte + 32
                               /\ \E k \in 0 .. Len(B) : s = SubSeq(B, 1, k)
<1> DEFINE t == [i \in 1 .. 2 * Byte + 32 |-> 0]
<1>1. Byte \in Nat /\ 0 \in Bytes /\ 2 * Byte + 32 \in Nat
  BY Constants
<1>2. t \in Seq(Bytes) /\ Len(t) = 2 * Byte + 32
  BY <1>1
<1> HIDE DEF t
<1>3. PICK B : B = s \o t
  OBVIOUS
<1>4. B \in Seq(Bytes) /\ Len(B) = Len(s) + Len(t)
  BY ONLY <1>2, <1>3, s \in Seq(Bytes), Concatenated
<1>5. SubSeq(B, 1, Len(s)) = s
  BY ONLY <1>2, <1>3, s \in Seq(Bytes), TakeDropConcat
<1>6. Len(s) \in 0 .. Len(B) /\ Len(B) >= 2 * Byte + 32
  BY <1>1, <1>2, <1>4
<1> QED BY <1>4, <1>5, <1>6

\* After a type any bytes are an address of the length it tells, a port and a payload.
LEMMA AddressedHere ==
  ASSUME NEW B \in Seq(Bytes), NEW k \in Nat, k <= Byte + 6, k > 0, Len(B) >= 2 * Byte + 32
  PROVE  \E a \in Nat :
           /\ k + a + 2 <= Len(B)
           /\ [type |-> B[k], address |-> Slice(B, k, a), port |-> Slice(B, k + a, 2),
               payload |-> Slice(B, k + a + 2, Len(B) - (k + a + 2))] \in Addressed
<1> DEFINE t == B[k]
           a == IF t = 1 THEN 4 ELSE IF t = 3 THEN B[k + 1] + 1 ELSE IF t = 4 THEN 16 ELSE 0
           l == Len(B) - (k + a + 2)
<1>1. Byte \in Nat /\ Byte >= 8 /\ Len(B) \in Nat
  BY SocksHandshakeAssumption
<1>2. t \in Bytes /\ B[k + 1] \in Bytes
  BY <1>1, ElementOfSeq
<1>3. a \in Nat /\ a <= Byte + 16
  <2>1. PICK b : b = B[k + 1]
    OBVIOUS
  <2>2. b \in Nat /\ b <= Byte
    BY <1>1, <1>2, <2>1 DEF Bytes
  <2>3. a = IF t = 1 THEN 4 ELSE IF t = 3 THEN b + 1 ELSE IF t = 4 THEN 16 ELSE 0
    BY <2>1
  <2> HIDE DEF a, t
  <2> QED BY <1>1, <2>2, <2>3
<1>4. k + a + 2 <= Len(B) /\ k + a \in Nat /\ k + a + 2 \in Nat /\ k + a <= Len(B)
  BY <1>1, <1>3
<1>5. l \in Nat /\ k + a + 2 + l <= Len(B)
  <2>1. l = Len(B) - (k + a + 2)
    OBVIOUS
  <2> HIDE DEF l, a
  <2> QED BY <1>1, <1>3, <1>4, <2>1
<1>6. t = 3 => a = B[k + 1] + 1 /\ a >= 1
  <2>1. B[k + 1] \in Nat
    BY <1>1, <1>2 DEF Bytes
  <2>2. t = 3 => a = B[k + 1] + 1
    OBVIOUS
  <2> HIDE DEF t, a, l
  <2> QED BY ONLY <2>1, <2>2
<1>7. (t = 1 => a = 4) /\ (t = 4 => a = 16)
  OBVIOUS
<1> HIDE DEF t, a, l
<1>8. Slice(B, k, a) \in Seq(Bytes) /\ Len(Slice(B, k, a)) = a /\ \A i \in 1 .. a : Slice(B, k, a)[i] = B[k + i]
  BY ONLY <1>3, <1>4, B \in Seq(Bytes), k \in Nat, Sliced
<1>9. Slice(B, k + a, 2) \in Seq(Bytes) /\ Len(Slice(B, k + a, 2)) = 2
  BY ONLY <1>4, B \in Seq(Bytes), 2 \in Nat, Sliced
<1>10. Slice(B, k + a + 2, l) \in Seq(Bytes)
  BY ONLY <1>4, <1>5, B \in Seq(Bytes), Sliced
<1>11. t = 3 => Slice(B, k, a) # <<>> /\ Len(Slice(B, k, a)) = Slice(B, k, a)[1] + 1
  BY <1>3, <1>6, <1>8
<1>12. [type |-> t, address |-> Slice(B, k, a), port |-> Slice(B, k + a, 2),
        payload |-> Slice(B, k + a + 2, l)] \in Addressed
  BY <1>2, <1>7, <1>8, <1>9, <1>10, <1>11 DEF Addressed
<1> QED BY <1>3, <1>4, <1>12 DEF t, l

\* Foreign clients: whatever bytes a client sends, and wherever it stops, is a
\* cut of the script of some handshake, so that the theorems above, which hold for
\* any FromClient, hold for every client (what _socks5_handshake of socks_mitm.py
\* may be sent).
THEOREM EveryClient ==
  \A s \in Seq(Bytes) : \E f \in ClientHandshakes :
    \E k \in 0 .. Len(ClientScript(f).bytes) : s = SubSeq(ClientScript(f).bytes, 1, k)
<1> TAKE s \in Seq(Bytes)
<1>1. PICK B \in Seq(Bytes) : /\ Len(B) >= 2 * Byte + 32
                              /\ \E k \in 0 .. Len(B) : s = SubSeq(B, 1, k)
  BY Padded
<1>2. Byte \in Nat /\ Len(B) \in Nat
  BY SocksHandshakeAssumption
<1>3. PICK m : m = B[2]
  OBVIOUS
<1>4. m \in Nat /\ m <= Byte
  <2>1. B[2] \in Bytes
    BY <1>1, <1>2, ElementOfSeq
  <2> QED BY <1>2, <1>3, <2>1 DEF Bytes
<1>5. /\ B[1] \in Bytes /\ B[m + 3] \in Bytes /\ B[m + 4] \in Bytes /\ B[m + 5] \in Bytes
  BY <1>1, <1>2, <1>4, ElementOfSeq
<1>6. PICK a \in Nat :
        /\ m + 6 + a + 2 <= Len(B)
        /\ [type |-> B[m + 6], address |-> Slice(B, m + 6, a), port |-> Slice(B, m + 6 + a, 2),
            payload |-> Slice(B, m + 6 + a + 2, Len(B) - (m + 6 + a + 2))] \in Addressed
  <2>1. m + 6 \in Nat /\ m + 6 <= Byte + 6 /\ m + 6 > 0
    BY <1>2, <1>4
  <2> QED BY ONLY <1>1, <2>1, AddressedHere
<1>7. PICK to : to = [type |-> B[m + 6], address |-> Slice(B, m + 6, a), port |-> Slice(B, m + 6 + a, 2),
                      payload |-> Slice(B, m + 6 + a + 2, Len(B) - (m + 6 + a + 2))]
  OBVIOUS
<1>8. PICK methods : methods = Slice(B, 2, m)
  OBVIOUS
<1>9. methods \in Seq(Bytes) /\ Len(methods) = m
  BY <1>1, <1>2, <1>4, <1>8, Sliced, 2 + m <= Len(B)
<1> DEFINE f == [version |-> B[1], methods |-> methods, request |-> B[m + 3],
                 command |-> B[m + 4], reserved |-> B[m + 5], to |-> to]
<1>10. f \in ClientHandshakes
  BY <1>4, <1>5, <1>6, <1>7, <1>9 DEF ClientHandshakes
<1>11. ClientScript(f).bytes
         = <<B[1], m>> \o methods \o <<B[m + 3], B[m + 4], B[m + 5], to.type>> \o to.address \o to.port \o to.payload
  BY <1>9 DEF ClientScript
<1>12. Slice(B, 0, 2) = <<B[1], m>>
  BY <1>1, <1>2, <1>3, TwoBytes
<1>13. Slice(B, m + 2, 4) = <<B[m + 3], B[m + 4], B[m + 5], to.type>>
  <2>1. m + 2 \in Nat /\ m + 2 + 4 <= Len(B)
    BY <1>1, <1>2, <1>4
  <2>2. Slice(B, m + 2, 4) = <<B[m + 2 + 1], B[m + 2 + 2], B[m + 2 + 3], B[m + 2 + 4]>>
    BY ONLY <1>1, <2>1, FourBytes
  <2>3. m + 2 + 1 = m + 3 /\ m + 2 + 2 = m + 4 /\ m + 2 + 3 = m + 5 /\ m + 2 + 4 = m + 6
    BY <1>4
  <2>4. to.type = B[m + 6]
    BY <1>7
  <2> QED BY <2>2, <2>3, <2>4
<1>14. m + 6 + a + 2 = m + 8 + a
  BY <1>4
<1>15. to.address = Slice(B, m + 6, a) /\ to.port = Slice(B, m + 6 + a, 2)
       /\ to.payload = Slice(B, m + 8 + a, Len(B) - (m + 8 + a))
  BY <1>7, <1>14
<1>16. B = Slice(B, 0, 2) \o Slice(B, 2, m) \o Slice(B, m + 2, 4) \o Slice(B, m + 6, a)
           \o Slice(B, m + 6 + a, 2) \o Slice(B, m + 8 + a, Len(B) - (m + 8 + a))
  <2>1. m + a + 8 <= Len(B)
    BY <1>2, <1>4, <1>6
  <2> QED BY ONLY <1>1, <1>4, <1>6, <2>1, Parted
<1>17. ClientScript(f).bytes = B
  BY ONLY <1>8, <1>11, <1>12, <1>13, <1>15, <1>16
<1> HIDE DEF f
<1> QED BY <1>1, <1>10, <1>17

\* The same of foreign servers (what _socks5_handshake of outbound.py may be answered).
THEOREM EveryServer ==
  \A s \in Seq(Bytes) : \E f \in ServerHandshakes :
    \E k \in 0 .. Len(ServerScript(f).bytes) : s = SubSeq(ServerScript(f).bytes, 1, k)
<1> TAKE s \in Seq(Bytes)
<1>1. PICK B \in Seq(Bytes) : /\ Len(B) >= 2 * Byte + 32
                              /\ \E k \in 0 .. Len(B) : s = SubSeq(B, 1, k)
  BY Padded
<1>2. Byte \in Nat /\ Len(B) \in Nat
  BY SocksHandshakeAssumption
<1>3. PICK m : m = IF B[2] = 2 THEN 2 ELSE 0
  OBVIOUS
<1>4. m \in Nat /\ m <= Byte
  BY <1>3, SocksHandshakeAssumption
<1>5. /\ B[1] \in Bytes /\ B[2] \in Bytes /\ B[m + 3] \in Bytes /\ B[m + 4] \in Bytes /\ B[m + 5] \in Bytes
  BY <1>1, <1>2, <1>4, ElementOfSeq
<1>6. PICK a \in Nat :
        /\ m + 6 + a + 2 <= Len(B)
        /\ [type |-> B[m + 6], address |-> Slice(B, m + 6, a), port |-> Slice(B, m + 6 + a, 2),
            payload |-> Slice(B, m + 6 + a + 2, Len(B) - (m + 6 + a + 2))] \in Addressed
  <2>1. m + 6 \in Nat /\ m + 6 <= Byte + 6 /\ m + 6 > 0
    BY <1>2, <1>4
  <2> QED BY ONLY <1>1, <2>1, AddressedHere
<1>7. PICK to : to = [type |-> B[m + 6], address |-> Slice(B, m + 6, a), port |-> Slice(B, m + 6 + a, 2),
                      payload |-> Slice(B, m + 6 + a + 2, Len(B) - (m + 6 + a + 2))]
  OBVIOUS
<1>8. PICK auth : auth = Slice(B, 2, m)
  OBVIOUS
<1>9. auth \in Seq(Bytes) /\ Len(auth) = m
  BY <1>1, <1>2, <1>4, <1>8, Sliced, 2 + m <= Len(B)
<1> DEFINE f == [version |-> B[1], method |-> B[2], auth |-> auth, reply |-> B[m + 3],
                 code |-> B[m + 4], reserved |-> B[m + 5], bound |-> to]
<1>10. f \in ServerHandshakes
  BY <1>3, <1>5, <1>6, <1>7, <1>9 DEF ServerHandshakes
<1>11. ServerScript(f).bytes
         = <<B[1], B[2]>> \o auth \o <<B[m + 3], B[m + 4], B[m + 5], to.type>> \o to.address \o to.port \o to.payload
  BY <1>9 DEF ServerScript
<1>12. Slice(B, 0, 2) = <<B[1], B[2]>>
  BY <1>1, <1>2, TwoBytes
<1>13. Slice(B, m + 2, 4) = <<B[m + 3], B[m + 4], B[m + 5], to.type>>
  <2>1. m + 2 \in Nat /\ m + 2 + 4 <= Len(B)
    BY <1>1, <1>2, <1>4
  <2>2. Slice(B, m + 2, 4) = <<B[m + 2 + 1], B[m + 2 + 2], B[m + 2 + 3], B[m + 2 + 4]>>
    BY ONLY <1>1, <2>1, FourBytes
  <2>3. m + 2 + 1 = m + 3 /\ m + 2 + 2 = m + 4 /\ m + 2 + 3 = m + 5 /\ m + 2 + 4 = m + 6
    BY <1>4
  <2>4. to.type = B[m + 6]
    BY <1>7
  <2> QED BY <2>2, <2>3, <2>4
<1>14. m + 6 + a + 2 = m + 8 + a
  BY <1>4
<1>15. to.address = Slice(B, m + 6, a) /\ to.port = Slice(B, m + 6 + a, 2)
       /\ to.payload = Slice(B, m + 8 + a, Len(B) - (m + 8 + a))
  BY <1>7, <1>14
<1>16. B = Slice(B, 0, 2) \o Slice(B, 2, m) \o Slice(B, m + 2, 4) \o Slice(B, m + 6, a)
           \o Slice(B, m + 6 + a, 2) \o Slice(B, m + 8 + a, Len(B) - (m + 8 + a))
  <2>1. m + a + 8 <= Len(B)
    BY <1>2, <1>4, <1>6
  <2> QED BY ONLY <1>1, <1>4, <1>6, <2>1, Parted
<1>17. ServerScript(f).bytes = B
  BY ONLY <1>8, <1>11, <1>12, <1>13, <1>15, <1>16
<1> HIDE DEF f
<1> QED BY <1>1, <1>10, <1>17
================================================================================
