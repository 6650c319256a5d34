-------------------------- MODULE RequestIntakeProofs --------------------------
(***************************************************************************)
(* Proofs about RequestIntake.  What the sums and the selections of        *)
(* sequences are is proved by induction on prefixes; it is stated here for *)
(* sets of numbers, from the least element that WFMin gives.               *)
(***************************************************************************)
EXTENDS RequestIntake, SequenceTheorems, WellFoundedInduction, TLAPS

-----------------------------------------------------------------------------
(* Induction, and what it gives about sums and selections.                  *)

\* A set that holds zero, and with a number below N also the next one, holds every
\* number up to N.
LEMMA UptoInduction ==
  ASSUME NEW N \in Nat, NEW T, 0 \in T, \A n \in 0 .. N : n < N /\ n \in T => n + 1 \in T
  PROVE  \A n \in 0 .. N : n \in T
<1> DEFINE U == (0 .. N) \ T
<1>1. SUFFICES ASSUME U # {} PROVE FALSE
  OBVIOUS
<1>2. U \subseteq Nat
  OBVIOUS
<1> HIDE DEF U
<1>3. PICK x \in U : \A y \in U : <<y, x>> \notin OpToRel(<, Nat)
  BY <1>1, <1>2, WFMin, NatLessThanWellFounded
<1>4. x \in 1 .. N /\ x - 1 \in 0 .. N /\ x - 1 < N /\ x - 1 + 1 = x
  BY DEF U
<1>5. x - 1 \in U
  BY <1>4 DEF U
<1>6. <<x - 1, x>> \in OpToRel(<, Nat)
  BY <1>4 DEF OpToRel
<1> QED BY <1>3, <1>5, <1>6

ChunkType == [size : Nat, zero : BOOLEAN]

\* The recursion that defines Upto has a solution.
LEMMA UptoDefined ==
  ASSUME NEW chunks \in Seq(ChunkType)
  PROVE  Upto(chunks) = [n \in 0 .. Len(chunks) |-> IF n = 0 THEN 0 ELSE Upto(chunks)[n - 1] + chunks[n].size]
<1> DEFINE L == Len(chunks)
           Sum(g, m) == g = [n \in 0 .. m |-> IF n = 0 THEN 0 ELSE g[n - 1] + chunks[n].size]
           T == {m \in 0 .. L : \E g : Sum(g, m)}
<1>1. L \in Nat
  OBVIOUS
<1>2. 0 \in T
  <2> DEFINE g == [n \in 0 .. 0 |-> 0]
  <2>1. Sum(g, 0)
    OBVIOUS
  <2> HIDE DEF g, Sum
  <2> QED BY <1>1, <2>1
<1>3. ASSUME NEW m \in 0 .. L, m < L, m \in T PROVE m + 1 \in T
  <2>1. PICK g : Sum(g, m)
    BY <1>3
  <2> DEFINE h == [n \in 0 .. m + 1 |-> IF n = m + 1 THEN g[m] + chunks[m + 1].size ELSE g[n]]
  <2>2. \A n \in 0 .. m : h[n] = g[n]
    BY <1>1
  <2>3. \A n \in 0 .. m + 1 : h[n] = IF n = 0 THEN 0 ELSE h[n - 1] + chunks[n].size
    <3> TAKE n \in 0 .. m + 1
    <3>1. CASE n = m + 1
      <4>1. h[n] = g[m] + chunks[m + 1].size
        BY <3>1
      <4> QED BY <3>1, <4>1, <2>2
    <3>2. CASE n # m + 1
      <4>1. n \in 0 .. m /\ (n # 0 => n - 1 \in 0 .. m)
        BY <3>2
      <4>2. g[n] = IF n = 0 THEN 0 ELSE g[n - 1] + chunks[n].size
        BY <2>1, <4>1
      <4> QED BY <2>2, <4>1, <4>2
    <3> QED BY <3>1, <3>2
  <2>4. Sum(h, m + 1)
    BY <2>3
  <2> HIDE DEF h, Sum
  <2> QED BY <1>1, <1>3, <2>4
<1> HIDE DEF L, Sum, T
<1>4. L \in T
  <2>1. \A m \in 0 .. L : m < L /\ m \in T => m + 1 \in T
    BY <1>3
  <2>2. \A m \in 0 .. L : m \in T
    BY ONLY <1>1, <1>2, <2>1, UptoInduction
  <2> QED BY <1>1, <2>2
<1>5. \E g : Sum(g, L)
  BY <1>4 DEF T
<1> QED BY <1>5 DEF Upto, L, Sum

\* The recursion that defines Kept has a solution, and it consists of headers.
LEMMA KeptDefined ==
  ASSUME NEW S, NEW h \in Seq(S), NEW names
  PROVE  Kept(h, names) = [n \in 0 .. Len(h) |->
           IF n = 0 THEN <<>>
           ELSE IF h[n].name \in names THEN Append(Kept(h, names)[n - 1], h[n]) ELSE Kept(h, names)[n - 1]]
<1> DEFINE L == Len(h)
           Next1(s, n) == IF h[n].name \in names THEN Append(s, h[n]) ELSE s
           Keeps(g, m) == g = [n \in 0 .. m |-> IF n = 0 THEN <<>> ELSE Next1(g[n - 1], n)]
           T == {m \in 0 .. L : \E g : Keeps(g, m)}
<1>1. L \in Nat
  OBVIOUS
<1> HIDE DEF Next1
<1>2. 0 \in T
  <2> DEFINE g == [n \in 0 .. 0 |-> <<>>]
  <2>1. Keeps(g, 0)
    OBVIOUS
  <2> HIDE DEF g, Keeps
  <2> QED BY <1>1, <2>1
<1>3. ASSUME NEW m \in 0 .. L, m < L, m \in T PROVE m + 1 \in T
  <2>1. PICK g : Keeps(g, m)
    BY <1>3
  <2> DEFINE k == [n \in 0 .. m + 1 |-> IF n = m + 1 THEN Next1(g[m], m + 1) ELSE g[n]]
  <2>2. \A n \in 0 .. m : k[n] = g[n]
    BY <1>1
  <2>3. \A n \in 0 .. m + 1 : k[n] = IF n = 0 THEN <<>> ELSE Next1(k[n - 1], n)
    <3> TAKE n \in 0 .. m + 1
    <3>1. CASE n = m + 1
      <4>1. k[n] = Next1(g[m], m + 1) /\ n # 0 /\ n - 1 = m
        BY <1>1, <3>1
      <4> QED BY <1>1, <3>1, <4>1, <2>2
    <3>2. CASE n # m + 1
      <4>1. n \in 0 .. m /\ (n # 0 => n - 1 \in 0 .. m)
        BY <3>2
      <4>2. g[n] = IF n = 0 THEN <<>> ELSE Next1(g[n - 1], n)
        BY <2>1, <4>1
      <4> QED BY <2>2, <4>1, <4>2
    <3> QED BY <3>1, <3>2
  <2>4. Keeps(k, m + 1)
    BY <2>3
  <2> HIDE DEF k, Keeps
  <2> QED BY <1>1, <1>3, <2>4
<1> HIDE DEF L, Keeps, T
<1>4. L \in T
  <2>1. \A m \in 0 .. L : m < L /\ m \in T => m + 1 \in T
    BY <1>3
  <2>2. \A m \in 0 .. L : m \in T
    BY ONLY <1>1, <1>2, <2>1, UptoInduction
  <2> QED BY <1>1, <2>2
<1>5. \E g : Keeps(g, L)
  BY <1>4 DEF T
<1> QED BY <1>5 DEF Kept, L, Keeps, Next1


\* One prefix of a selection after another.
LEMMA KeptNothing ==
  ASSUME NEW S, NEW h \in Seq(S), NEW names
  PROVE  Kept(h, names)[0] = <<>>
<1> DEFINE k == Kept(h, names)
<1>1. k = [n \in 0 .. Len(h) |->
             IF n = 0 THEN <<>>
             ELSE IF h[n].name \in names THEN Append(k[n - 1], h[n]) ELSE k[n - 1]]
  BY KeptDefined
<1> HIDE DEF k
<1>2. Len(h) \in Nat
  OBVIOUS
<1>3. k[0] = <<>>
  BY <1>1, <1>2
<1> QED BY <1>3 DEF k

LEMMA KeptStep ==
  ASSUME NEW S, NEW h \in Seq(S), NEW names, NEW n \in 0 .. Len(h), n < Len(h)
  PROVE  /\ h[n + 1].name \in names => Kept(h, names)[n + 1] = Append(Kept(h, names)[n], h[n + 1])
         /\ h[n + 1].name \notin names => Kept(h, names)[n + 1] = Kept(h, names)[n]
<1> DEFINE k == Kept(h, names)
<1>1. k = [m \in 0 .. Len(h) |->
             IF m = 0 THEN <<>>
             ELSE IF h[m].name \in names THEN Append(k[m - 1], h[m]) ELSE k[m - 1]]
  BY KeptDefined
<1> HIDE DEF k
<1>2. n + 1 \in 0 .. Len(h) /\ n + 1 # 0 /\ n + 1 - 1 = n
  OBVIOUS
<1>3. k[n + 1] = IF h[n + 1].name \in names THEN Append(k[n], h[n + 1]) ELSE k[n]
  <2> DEFINE m == n + 1
  <2>1. m \in 0 .. Len(h) /\ m # 0 /\ m - 1 = n
    BY <1>2
  <2> HIDE DEF m
  <2>2. k[m] = IF h[m].name \in names THEN Append(k[m - 1], h[m]) ELSE k[m - 1]
    BY <1>1, <2>1
  <2> QED BY <2>1, <2>2 DEF m
<1> QED BY <1>3 DEF k

\* A selection has only elements of the sequence, and only with the names.
LEMMA KeptSeq ==
  ASSUME NEW S, NEW h \in Seq(S), NEW names
  PROVE  \A n \in 0 .. Len(h) : Kept(h, names)[n] \in Seq({e \in ToSet(h) : e.name \in names})
<1> DEFINE k == Kept(h, names)
           R == {e \in ToSet(h) : e.name \in names}
           T == {n \in 0 .. Len(h) : k[n] \in Seq(R)}
<1>1. Len(h) \in Nat
  OBVIOUS
<1>2. 0 \in T
  <2>1. k[0] = <<>> /\ <<>> \in Seq(R)
    BY KeptNothing, EmptySeq
  <2> HIDE DEF k, R
  <2>2. k[0] \in Seq(R) /\ 0 \in 0 .. Len(h)
    BY <1>1, <2>1
  <2> QED BY <2>2
<1>3. ASSUME NEW n \in 0 .. Len(h), n < Len(h), n \in T PROVE n + 1 \in T
  <2>1. n + 1 \in 1 .. Len(h) /\ n + 1 - 1 = n
    BY <1>1, <1>3
  <2>2. CASE h[n + 1].name \in names
    <3>1. h[n + 1] \in R
      BY <2>1, <2>2 DEF ToSet
    <3>2. k[n + 1] = Append(k[n], h[n + 1])
      BY <1>3, <2>2, KeptStep
    <3> HIDE DEF k, R
    <3>3. k[n + 1] \in Seq(R)
      BY <1>3, <3>1, <3>2, AppendProperties
    <3> QED BY <2>1, <3>3
  <2>3. CASE h[n + 1].name \notin names
    <3>1. k[n + 1] = k[n]
      BY <1>3, <2>3, KeptStep
    <3> QED BY <1>3, <2>1, <3>1
  <2> QED BY <2>2, <2>3
<1>4. \A n \in 0 .. Len(h) : n < Len(h) /\ n \in T => n + 1 \in T
  BY <1>3
<1> HIDE DEF T
<1>5. \A n \in 0 .. Len(h) : n \in T
  BY ONLY <1>1, <1>2, <1>4, UptoInduction
<1> QED BY <1>5 DEF T

LEMMA OnlySeq ==
  ASSUME NEW S, NEW h \in Seq(S), NEW names
  PROVE  Only(h, names) \in Seq({e \in ToSet(h) : e.name \in names})
BY KeptSeq DEF Only

\* Nothing is left when no element has one of the names.
LEMMA OnlyNone ==
  ASSUME NEW S, NEW h \in Seq(S), NEW names, Names(h) \cap names = {}
  PROVE  Only(h, names) = <<>>
<1>1. {e \in ToSet(h) : e.name \in names} = {}
  BY DEF Names
<1>2. Only(h, names) \in Seq({})
  BY <1>1, OnlySeq
<1> HIDE DEF Only
<1> QED BY <1>2, EmptySeq, ElementOfSeq

\* The first elements of a longer sequence are selected as before.
LEMMA KeptOfAppend ==
  ASSUME NEW S, NEW h \in Seq(S), NEW e \in S, NEW names
  PROVE  \A n \in 0 .. Len(h) : Kept(Append(h, e), names)[n] = Kept(h, names)[n]
<1> DEFINE a == Append(h, e)
           T == {n \in 0 .. Len(h) : Kept(a, names)[n] = Kept(h, names)[n]}
<1>1. Len(h) \in Nat /\ a \in Seq(S) /\ Len(a) = Len(h) + 1 /\ \A i \in 1 .. Len(h) : a[i] = h[i]
  BY AppendProperties
<1> HIDE DEF a
<1>2. 0 \in T
  BY <1>1, KeptNothing
<1>3. ASSUME NEW n \in 0 .. Len(h), n < Len(h), n \in T PROVE n + 1 \in T
  <2>1. n + 1 \in 1 .. Len(h) /\ n + 1 \in 1 .. Len(a) /\ n + 1 - 1 = n
    BY <1>1, <1>3
  <2>2. a[n + 1] = h[n + 1] /\ Kept(a, names)[n] = Kept(h, names)[n]
    BY <1>1, <1>3, <2>1
  <2>3. Kept(a, names)[n + 1] = Kept(h, names)[n + 1]
    <3>1. CASE h[n + 1].name \in names
      <4>1. Kept(h, names)[n + 1] = Append(Kept(h, names)[n], h[n + 1])
        BY <1>3, <3>1, KeptStep
      <4>2. Kept(a, names)[n + 1] = Append(Kept(a, names)[n], a[n + 1])
        BY <1>1, <1>3, <2>2, <3>1, n \in 0 .. Len(a), n < Len(a), KeptStep
      <4> QED BY <2>2, <4>1, <4>2
    <3>2. CASE h[n + 1].name \notin names
      <4>1. Kept(h, names)[n + 1] = Kept(h, names)[n]
        BY <1>3, <3>2, KeptStep
      <4>2. Kept(a, names)[n + 1] = Kept(a, names)[n]
        BY <1>1, <1>3, <2>2, <3>2, n \in 0 .. Len(a), n < Len(a), KeptStep
      <4> QED BY <2>2, <4>1, <4>2
    <3> QED BY <3>1, <3>2
  <2> QED BY <2>1, <2>3
<1>4. \A n \in 0 .. Len(h) : n < Len(h) /\ n \in T => n + 1 \in T
  BY <1>3
<1> HIDE DEF T
<1>5. \A n \in 0 .. Len(h) : n \in T
  BY ONLY <1>1, <1>2, <1>4, UptoInduction
<1> QED BY <1>5 DEF T, a

LEMMA OnlyOfAppend ==
  ASSUME NEW S, NEW h \in Seq(S), NEW e \in S, NEW names
  PROVE  Only(Append(h, e), names) = IF e.name \in names THEN Append(Only(h, names), e) ELSE Only(h, names)
<1> DEFINE a == Append(h, e)
<1>1. Len(h) \in Nat /\ a \in Seq(S) /\ Len(a) = Len(h) + 1 /\ a[Len(h) + 1] = e
  BY AppendProperties
<1>2. Kept(a, names)[Len(h)] = Kept(h, names)[Len(h)]
  BY <1>1, KeptOfAppend
<1> HIDE DEF a
<1>3. Len(h) \in 0 .. Len(a) /\ Len(h) < Len(a)
  BY <1>1
<1>4. CASE e.name \in names
  <2>1. Kept(a, names)[Len(h) + 1] = Append(Kept(a, names)[Len(h)], a[Len(h) + 1])
    BY <1>1, <1>3, <1>4, KeptStep
  <2> QED BY <1>1, <1>2, <1>4, <2>1 DEF Only, a
<1>5. CASE e.name \notin names
  <2>1. Kept(a, names)[Len(h) + 1] = Kept(a, names)[Len(h)]
    BY <1>1, <1>3, <1>5, KeptStep
  <2> QED BY <1>1, <1>2, <1>5, <2>1 DEF Only, a
<1> QED BY <1>4, <1>5


LEMMA KeptSeqOver ==
  ASSUME NEW S, NEW h \in Seq(S), NEW names
  PROVE  \A n \in 0 .. Len(h) : Kept(h, names)[n] \in Seq(S)
<1>1. {e \in ToSet(h) : e.name \in names} \subseteq S
  BY ElementOfSeq DEF ToSet
<1> QED BY <1>1, KeptSeq, SeqMonotonic

LEMMA OnlySeqOver ==
  ASSUME NEW S, NEW h \in Seq(S), NEW names
  PROVE  Only(h, names) \in Seq(S)
BY KeptSeqOver DEF Only

\* A selection from a selection.
LEMMA OnlyTwice ==
  ASSUME NEW S, NEW h \in Seq(S), NEW A, NEW B
  PROVE  Only(Only(h, A), B) = Only(h, A \cap B)
<1> DEFINE T == {n \in 0 .. Len(h) : Only(Kept(h, A)[n], B) = Kept(h, A \cap B)[n]}
<1>1. Len(h) \in Nat
  OBVIOUS
<1>2. 0 \in T
  <2>1. Kept(h, A)[0] = <<>> /\ Kept(h, A \cap B)[0] = <<>>
    BY KeptNothing
  <2>2. Names(<<>>) = {} /\ <<>> \in Seq(S)
    BY EmptySeq DEF Names, ToSet
  <2>3. Only(<<>>, B) = <<>>
    BY <2>2, OnlyNone
  <2> QED BY <1>1, <2>1, <2>3
<1>3. ASSUME NEW n \in 0 .. Len(h), n < Len(h), n \in T PROVE n + 1 \in T
  <2> DEFINE s == Kept(h, A)[n]
             t == Kept(h, A \cap B)[n]
             e == h[n + 1]
  <2>1. n + 1 \in 0 .. Len(h) /\ e \in S
    BY <1>1, <1>3, ElementOfSeq
  <2>2. s \in Seq(S) /\ Only(s, B) = t
    BY <1>3, KeptSeqOver
  <2>3. CASE e.name \in A
    <3>1. Kept(h, A)[n + 1] = Append(s, e)
      BY <1>3, <2>3, KeptStep
    <3>2. Only(Append(s, e), B) = IF e.name \in B THEN Append(t, e) ELSE t
      <4> HIDE DEF s, t, e
      <4> QED BY <2>1, <2>2, OnlyOfAppend
    <3>3. CASE e.name \in B
      <4>1. Kept(h, A \cap B)[n + 1] = Append(t, e)
        BY <1>3, <2>3, <3>3, KeptStep
      <4> QED BY <2>1, <3>1, <3>2, <3>3, <4>1
    <3>4. CASE e.name \notin B
      <4>1. Kept(h, A \cap B)[n + 1] = t
        BY <1>3, <2>3, <3>4, KeptStep
      <4> QED BY <2>1, <3>1, <3>2, <3>4, <4>1
    <3> QED BY <3>3, <3>4
  <2>4. CASE e.name \notin A
    <3>1. Kept(h, A)[n + 1] = s
      BY <1>3, <2>4, KeptStep
    <3>2. Kept(h, A \cap B)[n + 1] = t
      BY <1>3, <2>4, KeptStep
    <3> QED BY <2>1, <2>2, <3>1, <3>2
  <2> QED BY <2>3, <2>4
<1>4. \A n \in 0 .. Len(h) : n < Len(h) /\ n \in T => n + 1 \in T
  BY <1>3
<1> HIDE DEF T
<1>5. \A n \in 0 .. Len(h) : n \in T
  BY ONLY <1>1, <1>2, <1>4, UptoInduction
<1>6. Only(Kept(h, A)[Len(h)], B) = Kept(h, A \cap B)[Len(h)]
  <2>1. Len(h) \in T
    BY <1>1, <1>5
  <2> QED BY <2>1 DEF T
<1> QED BY <1>6 DEF Only

\* What dropping some names does to the headers of one name.
LEMMA NamedWithout ==
  ASSUME NEW S, NEW h \in Seq(S), NEW names, NEW name
  PROVE  Named(Without(h, names), name) = IF name \in names THEN <<>> ELSE Named(h, name)
<1> DEFINE both == (Names(h) \ names) \cap {name}
<1>1. Named(Without(h, names), name) = Only(h, both)
  BY OnlyTwice DEF Named, Without
<1>2. CASE name \in Names(h) /\ name \notin names
  <2>1. both = {name}
    BY <1>2
  <2> QED BY <1>1, <1>2, <2>1 DEF Named
<1>3. CASE name \in names
  <2>1. Names(h) \cap both = {}
    BY <1>3
  <2> QED BY <1>1, <1>3, <2>1, OnlyNone
<1>4. CASE name \notin Names(h) /\ name \notin names
  <2>1. Names(h) \cap both = {} /\ Names(h) \cap {name} = {}
    BY <1>4
  <2>2. Only(h, both) = <<>> /\ Only(h, {name}) = <<>>
    BY <2>1, OnlyNone
  <2> QED BY <1>1, <1>4, <2>2 DEF Named
<1> QED BY <1>2, <1>3, <1>4

LEMMA NamedOfAppend ==
  ASSUME NEW S, NEW h \in Seq(S), NEW e \in S, NEW name
  PROVE  Named(Append(h, e), name) = IF e.name = name THEN Append(Named(h, name), e) ELSE Named(h, name)
BY OnlyOfAppend DEF Named


-----------------------------------------------------------------------------
(* Sizes, and what the client sends.                                        *)

LEMMA UptoStep ==
  ASSUME NEW chunks \in Seq(ChunkType)
  PROVE  /\ Upto(chunks)[0] = 0
         /\ \A n \in 0 .. Len(chunks) : n < Len(chunks) => Upto(chunks)[n + 1] = Upto(chunks)[n] + chunks[n + 1].size
<1> DEFINE u == Upto(chunks)
<1>1. u = [n \in 0 .. Len(chunks) |-> IF n = 0 THEN 0 ELSE u[n - 1] + chunks[n].size]
  BY UptoDefined
<1> HIDE DEF u
<1>2. Len(chunks) \in Nat
  OBVIOUS
<1>3. u[0] = 0
  BY <1>1, <1>2
<1>4. ASSUME NEW n \in 0 .. Len(chunks), n < Len(chunks) PROVE u[n + 1] = u[n] + chunks[n + 1].size
  <2> DEFINE m == n + 1
  <2>1. m \in 0 .. Len(chunks) /\ m # 0 /\ m - 1 = n
    BY <1>2, <1>4
  <2> HIDE DEF m
  <2>2. u[m] = u[m - 1] + chunks[m].size
    BY <1>1, <2>1
  <2> QED BY <2>1, <2>2 DEF m
<1> QED BY <1>3, <1>4 DEF u

\* A prefix is not larger than the whole.
LEMMA UptoGrows ==
  ASSUME NEW chunks \in Seq(ChunkType)
  PROVE  \A n \in 0 .. Len(chunks) : Upto(chunks)[n] \in Nat /\ Upto(chunks)[n] <= Size(chunks)
<1> DEFINE u == Upto(chunks)
           L == Len(chunks)
           T == {n \in 0 .. L : u[n] \in Nat}
<1>1. L \in Nat
  OBVIOUS
<1>2. \A n \in 0 .. L : n < L => chunks[n + 1].size \in Nat
  <2> TAKE n \in 0 .. L
  <2> HAVE n < L
  <2>1. n + 1 \in 1 .. L
    BY <1>1
  <2>2. chunks[n + 1] \in ChunkType
    BY <2>1, ElementOfSeq
  <2> QED BY <2>2 DEF ChunkType
<1>3. u[0] = 0 /\ \A n \in 0 .. L : n < L => u[n + 1] = u[n] + chunks[n + 1].size
  BY UptoStep
<1> HIDE DEF u, L
<1>4. 0 \in T
  BY <1>1, <1>3
<1>5. \A n \in 0 .. L : n < L /\ n \in T => n + 1 \in T
  BY <1>1, <1>2, <1>3
<1> HIDE DEF T
<1>6. \A n \in 0 .. L : n \in T
  BY ONLY <1>1, <1>4, <1>5, UptoInduction
<1>7. \A n \in 0 .. L : u[n] \in Nat
  BY <1>6 DEF T
<1>8. ASSUME NEW m \in 0 .. L PROVE u[m] <= u[L]
  <2> DEFINE G == {n \in 0 .. L : m <= n => u[m] <= u[n]}
  <2>1. 0 \in G
    BY <1>1, <1>7
  <2>2. \A n \in 0 .. L : n < L /\ n \in G => n + 1 \in G
    <3> SUFFICES ASSUME NEW n \in 0 .. L, n < L, n \in G PROVE n + 1 \in G
      OBVIOUS
    <3>1. n + 1 \in 0 .. L /\ u[n] \in Nat /\ u[n + 1] \in Nat /\ u[n] <= u[n + 1]
      <4>1. n + 1 \in 0 .. L
        BY <1>1
      <4>2. u[n + 1] = u[n] + chunks[n + 1].size /\ chunks[n + 1].size \in Nat
        BY <1>2, <1>3
      <4>3. u[n] \in Nat /\ u[n + 1] \in Nat
        BY <1>7, <4>1
      <4> QED BY <4>1, <4>2, <4>3
    <3>2. CASE m = n + 1
      BY <1>7, <3>1, <3>2
    <3>3. CASE m # n + 1 /\ m <= n + 1
      BY <1>1, <1>7, <3>1, <3>3
    <3>4. CASE m > n + 1
      BY <1>1, <3>1, <3>4
    <3> QED BY <1>1, <3>2, <3>3, <3>4
  <2> HIDE DEF G
  <2>3. \A n \in 0 .. L : n \in G
    BY ONLY <1>1, <2>1, <2>2, UptoInduction
  <2>4. L \in G
    BY <1>1, <2>3
  <2> QED BY <1>1, <2>4 DEF G
<1> QED BY <1>7, <1>8 DEF u, L, Size

Settled ==
  /\ settings \in [frontend : {"asgi", "socks"}, mode : {"http", "websocket_per_request"},
                   key : KeyHeaders, intercepted : BOOLEAN]
  /\ request \in Requests

HeaderType == [name : STRING, length : Nat, tokens : SUBSET STRING, from : {"client"}]

LEMMA RequestTypes ==
  Settled => /\ request.chunks \in Seq(ChunkType) /\ request.headers \in Seq(HeaderType)
             /\ request.valid \in BOOLEAN /\ Limit \in Nat
             /\ Len(request.chunks) \in Nat
             /\ Chunked(request.headers) => \A c \in ToSet(request.chunks) : c.size > 0
             /\ ~Chunked(request.headers) => ContentLength(request.headers) = Total
BY RequestIntakeAssumption DEF Settled, ChunkType, HeaderType, Total


ItemType == [kind : {"head", "size", "data", "trailer"}, size : Nat, zero : BOOLEAN]

Framed == settings.frontend = "socks" /\ Chunked(request.headers)

\* A function on 1 .. n is a sequence of length n.
LEMMA SeqOfFunction ==
  ASSUME NEW n \in Nat, NEW S, NEW f \in [1 .. n -> S]
  PROVE  f \in Seq(S) /\ Len(f) = n
<1>1. f \in Seq(S)
  BY SeqDef
<1>2. 1 .. Len(f) = 1 .. n /\ Len(f) \in Nat
  BY <1>1, LenProperties
<1> QED BY <1>1, <1>2

\* To the ASGI server a client sends the head and the chunks.
LEMMA AsgiItems ==
  ASSUME Settled, settings.frontend = "asgi"
  PROVE  /\ Items \in Seq(ItemType) /\ Len(Items) = Len(request.chunks) + 1
         /\ \A n \in 0 .. Len(request.chunks) : n < Len(request.chunks) =>
              Items[n + 2].size = request.chunks[n + 1].size
<1> DEFINE L == Len(request.chunks)
           head == [kind |-> "head", size |-> 0, zero |-> TRUE]
           pieces == [i \in DOMAIN request.chunks |->
                       [kind |-> "data", size |-> request.chunks[i].size, zero |-> request.chunks[i].zero]]
<1>1. request.chunks \in Seq(ChunkType) /\ L \in Nat
  BY RequestTypes
<1>2. Items = <<head>> \o pieces
  BY DEF Items
<1>3. pieces \in [1 .. L -> ItemType]
  <2>1. \A i \in 1 .. L : request.chunks[i] \in ChunkType
    BY <1>1, ElementOfSeq
  <2> QED BY <1>1, <2>1 DEF ChunkType, ItemType
<1>4. pieces \in Seq(ItemType) /\ Len(pieces) = L
  <2> HIDE DEF pieces, L
  <2> QED BY <1>1, <1>3, SeqOfFunction
<1>5. <<head>> \in Seq(ItemType) /\ Len(<<head>>) = 1
  BY DEF ItemType
<1>6. \A i \in 1 .. L : pieces[i].size = request.chunks[i].size
  BY <1>1
<1> HIDE DEF pieces, head
<1>7. /\ Items \in Seq(ItemType) /\ Len(Items) = L + 1
      /\ \A i \in 1 .. 1 + L : Items[i] = IF i <= 1 THEN <<head>>[i] ELSE pieces[i - 1]
  BY <1>2, <1>4, <1>5, ConcatProperties
<1>8. ASSUME NEW n \in 0 .. L, n < L PROVE Items[n + 2].size = request.chunks[n + 1].size
  <2>1. n + 2 \in 1 .. 1 + L /\ n + 2 - 1 = n + 1 /\ ~(n + 2 <= 1) /\ n + 1 \in 1 .. L
    BY <1>1, <1>8
  <2>2. Items[n + 2] = pieces[n + 1]
    BY <1>7, <2>1
  <2> QED BY <1>6, <2>1, <2>2
<1> QED BY <1>7, <1>8

\* In chunks: the head, a line and the data of each chunk, the last line, the trailer.
LEMMA FramedItems ==
  ASSUME Settled, Framed
  PROVE  /\ Items \in Seq(ItemType) /\ Len(Items) = 2 * Len(request.chunks) + 3
         /\ \A n \in 0 .. Len(request.chunks) :
              /\ Items[2 * n + 2].kind = "size"
              /\ n < Len(request.chunks) =>
                   /\ Items[2 * n + 2].size = request.chunks[n + 1].size
                   /\ Items[2 * n + 3].size = request.chunks[n + 1].size
         /\ Items[2 * Len(request.chunks) + 2].size = 0
<1> DEFINE L == Len(request.chunks)
           head == [kind |-> "head", size |-> 0, zero |-> TRUE]
           pieces == [i \in 1 .. 2 * L |->
                       [kind |-> IF i % 2 = 1 THEN "size" ELSE "data",
                        size |-> request.chunks[(i + 1) \div 2].size, zero |-> request.chunks[(i + 1) \div 2].zero]]
           end == <<[kind |-> "size", size |-> 0, zero |-> TRUE], [kind |-> "trailer", size |-> 0, zero |-> TRUE]>>
<1>1. request.chunks \in Seq(ChunkType) /\ L \in Nat
  BY RequestTypes
<1>2. Items = <<head>> \o (pieces \o end)
  BY DEF Items, Framed
<1>3. pieces \in [1 .. 2 * L -> ItemType]
  <2>1. \A i \in 1 .. L : request.chunks[i] \in ChunkType
    BY <1>1, ElementOfSeq
  <2>2. \A i \in 1 .. 2 * L : (i + 1) \div 2 \in 1 .. L
    BY <1>1
  <2>3. \A i \in 1 .. 2 * L : request.chunks[(i + 1) \div 2].size \in Nat /\ request.chunks[(i + 1) \div 2].zero \in BOOLEAN
    BY <2>1, <2>2 DEF ChunkType
  <2> QED BY <2>3 DEF ItemType
<1>4. pieces \in Seq(ItemType) /\ Len(pieces) = 2 * L
  <2>1. 2 * L \in Nat
    BY <1>1
  <2> HIDE DEF pieces, L
  <2> QED BY <1>3, <2>1, SeqOfFunction
<1>5. <<head>> \in Seq(ItemType) /\ Len(<<head>>) = 1 /\ end \in Seq(ItemType) /\ Len(end) = 2
  BY DEF ItemType
<1>6. \A n \in 0 .. L : n < L =>
        /\ pieces[2 * n + 1].kind = "size"
        /\ pieces[2 * n + 1].size = request.chunks[n + 1].size
        /\ pieces[2 * n + 2].size = request.chunks[n + 1].size
  <2> TAKE n \in 0 .. L
  <2> HAVE n < L
  <2>1. 2 * n + 1 \in 1 .. 2 * L /\ 2 * n + 2 \in 1 .. 2 * L
    BY <1>1
  <2>2. (2 * n + 1) % 2 = 1 /\ (2 * n + 1 + 1) \div 2 = n + 1 /\ (2 * n + 2 + 1) \div 2 = n + 1
    BY <1>1
  <2> QED BY <2>1, <2>2
<1>7. end[1].kind = "size" /\ end[1].size = 0
  OBVIOUS
<1> HIDE DEF pieces, head, end
<1>8. /\ pieces \o end \in Seq(ItemType) /\ Len(pieces \o end) = 2 * L + 2
      /\ \A i \in 1 .. 2 * L + 2 : (pieces \o end)[i] = IF i <= 2 * L THEN pieces[i] ELSE end[i - 2 * L]
  <2>1. /\ pieces \o end \in Seq(ItemType) /\ Len(pieces \o end) = Len(pieces) + Len(end)
        /\ \A i \in 1 .. Len(pieces) + Len(end) :
             (pieces \o end)[i] = IF i <= Len(pieces) THEN pieces[i] ELSE end[i - Len(pieces)]
    BY ONLY <1>4, <1>5, ConcatProperties
  <2> QED BY <1>4, <1>5, <2>1
<1> DEFINE rest == pieces \o end
<1> HIDE DEF rest
<1>9. /\ Items \in Seq(ItemType) /\ Len(Items) = 2 * L + 3
      /\ \A i \in 1 .. 1 + (2 * L + 2) : Items[i] = IF i <= 1 THEN <<head>>[i] ELSE rest[i - 1]
  <2>1. Items = <<head>> \o rest /\ rest \in Seq(ItemType) /\ Len(rest) = 2 * L + 2
    BY <1>2, <1>8 DEF rest
  <2>2. /\ Items \in Seq(ItemType) /\ Len(Items) = Len(<<head>>) + Len(rest)
        /\ \A i \in 1 .. Len(<<head>>) + Len(rest) :
             Items[i] = IF i <= Len(<<head>>) THEN <<head>>[i] ELSE rest[i - Len(<<head>>)]
    BY ONLY <1>5, <2>1, ConcatProperties
  <2> QED BY <1>1, <1>5, <2>1, <2>2
<1>10. \A i \in 1 .. 2 * L + 2 : Items[i + 1] = IF i <= 2 * L THEN pieces[i] ELSE end[i - 2 * L]
  <2> TAKE i \in 1 .. 2 * L + 2
  <2>1. i + 1 \in 1 .. 1 + (2 * L + 2) /\ ~(i + 1 <= 1) /\ i + 1 - 1 = i
    BY <1>1
  <2>2. Items[i + 1] = rest[i]
    BY <1>9, <2>1
  <2> QED BY <1>8, <2>2 DEF rest
<1>11. Items[2 * L + 2] = end[1]
  <2>1. 2 * L + 1 \in 1 .. 2 * L + 2 /\ ~(2 * L + 1 <= 2 * L) /\ 2 * L + 1 - 2 * L = 1 /\ 2 * L + 1 + 1 = 2 * L + 2
    BY <1>1
  <2> QED BY <1>10, <2>1
<1>12. ASSUME NEW n \in 0 .. L, n < L
       PROVE  Items[2 * n + 2] = pieces[2 * n + 1] /\ Items[2 * n + 3] = pieces[2 * n + 2]
  <2>1. /\ 2 * n + 1 \in 1 .. 2 * L + 2 /\ 2 * n + 1 <= 2 * L /\ 2 * n + 1 + 1 = 2 * n + 2
        /\ 2 * n + 2 \in 1 .. 2 * L + 2 /\ 2 * n + 2 <= 2 * L /\ 2 * n + 2 + 1 = 2 * n + 3
    BY <1>1, <1>12
  <2> QED BY <1>10, <2>1
<1>13. ASSUME NEW n \in 0 .. L
       PROVE  /\ Items[2 * n + 2].kind = "size"
              /\ n < L => /\ Items[2 * n + 2].size = request.chunks[n + 1].size
                          /\ Items[2 * n + 3].size = request.chunks[n + 1].size
  <2>1. CASE n < L
    BY <1>6, <1>12, <2>1
  <2>2. CASE n = L
    BY <1>7, <1>11, <2>2, <1>1
  <2> QED BY <1>1, <2>1, <2>2
<1> QED BY <1>7, <1>9, <1>11, <1>13

\* By length: the head, and the body unless it is empty.
LEMMA PlainItems ==
  ASSUME Settled, settings.frontend = "socks", ~Chunked(request.headers)
  PROVE  Items \in Seq(ItemType) /\ Len(Items) = IF Total = 0 THEN 1 ELSE 2
<1> DEFINE head == [kind |-> "head", size |-> 0, zero |-> TRUE]
           data == [kind |-> "data", size |-> Total, zero |-> FALSE]
<1>1. Total \in Nat
  <2>1. request.chunks \in Seq(ChunkType) /\ Len(request.chunks) \in Nat
    BY RequestTypes
  <2>2. Len(request.chunks) \in 0 .. Len(request.chunks)
    BY <2>1
  <2> QED BY <2>1, <2>2, UptoGrows DEF Total, Size
<1>2. <<head>> \in Seq(ItemType) /\ <<data>> \in Seq(ItemType) /\ Len(<<head>>) = 1 /\ Len(<<data>>) = 1
  BY <1>1 DEF ItemType
<1>3. CASE Total = 0
  <2>1. Items = <<head>> \o <<>>
    BY <1>3 DEF Items
  <2> QED BY <1>2, <1>3, <2>1, ConcatEmptySeq
<1>4. CASE Total # 0
  <2>1. Items = <<head>> \o <<data>>
    BY <1>4 DEF Items
  <2> HIDE DEF head, data
  <2> QED BY <1>2, <1>4, <2>1, ConcatProperties
<1> QED BY <1>3, <1>4


-----------------------------------------------------------------------------
(* The inductive invariant: what has been read where, and what that makes   *)
(* of the body.                                                             *)

\* The line of a chunk size was cut after a zero: it is taken for the last one.
Cut ==
  /\ peer = "torn" /\ next = arrived
  /\ Items[arrived + 1].kind = "size" /\ Items[arrived + 1].zero

Positions ==
  /\ pc \in Reading \cup Over \cup {"route"} /\ peer \in {"sending", "gone", "torn"}
  /\ arrived \in 0 .. Len(Items) /\ next \in 0 .. arrived /\ body \in 0 .. Total

Streamed ==
  LET read == Upto(request.chunks)
      last == Len(request.chunks)
  IN  /\ pc = "head" => next = 0 /\ body = 0
      /\ pc = "stream" => settings.frontend = "asgi" /\ next >= 1 /\ body = read[next - 1]
      /\ pc = "size" => Framed /\ \E n \in 0 .. last : next = 2 * n + 1 /\ body = read[n]
      /\ pc = "chunk" => Framed /\ \E n \in 0 .. last : n < last /\ next = 2 * n + 2 /\ body = read[n]
      /\ pc = "trailer" => Framed /\ (body = Total \/ Cut)
      /\ pc = "body" => /\ settings.frontend = "socks" /\ ~Chunked(request.headers)
                        /\ body = 0 /\ Total <= Limit
      /\ pc \in {"route", "fast_fail_http", "websocket"} => body = Total \/ Cut

Limited ==
  /\ pc # "too_large" \/ settings.frontend = "asgi" => body <= Limit
  /\ pc = "too_large" =>
       /\ Total > Limit
       /\ body <= Limit \/ \E c \in ToSet(request.chunks) : body <= Limit + c.size

Carried ==
  IF Forwarding THEN forwarded \in {RequestHeaders, WebSocketHeaders(RequestHeaders)}
  ELSE forwarded = <<>>

IInv == Settled /\ Positions /\ Streamed /\ Limited /\ Carried


\* The request is what it was, and with it all that is computed from it.
LEMMA RequestStays ==
  ASSUME UNCHANGED <<settings, request>>
  PROVE  /\ Items' = Items /\ Total' = Total /\ Framed' = Framed /\ Settled' = Settled
         /\ ContentLength(request.headers)' = ContentLength(request.headers)
         /\ Chunked(request.headers)' = Chunked(request.headers)
         /\ RequestHeaders' = RequestHeaders
         /\ WebSocketHeaders(RequestHeaders)' = WebSocketHeaders(RequestHeaders)
BY DEF Items, Total, Framed, Settled, RequestHeaders, WithKey, WithoutHopByHop, ProxyKey

LEMMA ItemsSeq ==
  ASSUME Settled
  PROVE  Items \in Seq(ItemType) /\ Len(Items) \in Nat \ {0}
<1>1. Len(request.chunks) \in Nat
  BY RequestTypes
<1>2. settings.frontend \in {"asgi", "socks"}
  BY DEF Settled
<1>3. CASE settings.frontend = "asgi"
  BY <1>1, <1>3, AsgiItems
<1>4. CASE Framed
  BY <1>1, <1>4, FramedItems
<1>5. CASE settings.frontend = "socks" /\ ~Chunked(request.headers)
  BY <1>5, PlainItems
<1> QED BY <1>2, <1>3, <1>4, <1>5 DEF Framed

LEMMA TotalIsLast ==
  ASSUME Settled
  PROVE  /\ Total = Upto(request.chunks)[Len(request.chunks)] /\ Total \in Nat /\ Limit \in Nat
         /\ Len(request.chunks) \in Nat
         /\ \A n \in 0 .. Len(request.chunks) :
              Upto(request.chunks)[n] \in Nat /\ Upto(request.chunks)[n] <= Total
         /\ Upto(request.chunks)[0] = 0
         /\ \A n \in 0 .. Len(request.chunks) : n < Len(request.chunks) =>
              /\ Upto(request.chunks)[n + 1] = Upto(request.chunks)[n] + request.chunks[n + 1].size
              /\ request.chunks[n + 1] \in ToSet(request.chunks)
              /\ request.chunks[n + 1].size \in Nat
<1> DEFINE c == request.chunks
<1>1. c \in Seq(ChunkType) /\ Len(c) \in Nat /\ Limit \in Nat
  BY RequestTypes
<1>2. Total = Upto(c)[Len(c)]
  BY DEF Total, Size
<1>3. \A n \in 0 .. Len(c) : Upto(c)[n] \in Nat /\ Upto(c)[n] <= Total
  BY <1>1, UptoGrows DEF Total
<1>4. Upto(c)[0] = 0 /\ \A n \in 0 .. Len(c) : n < Len(c) => Upto(c)[n + 1] = Upto(c)[n] + c[n + 1].size
  BY <1>1, UptoStep
<1>5. \A n \in 0 .. Len(c) : n < Len(c) => c[n + 1] \in ToSet(c) /\ c[n + 1].size \in Nat
  <2> TAKE n \in 0 .. Len(c)
  <2> HAVE n < Len(c)
  <2>1. n + 1 \in 1 .. Len(c)
    BY <1>1
  <2>2. c[n + 1] \in ChunkType /\ c[n + 1] \in ToSet(c)
    BY <1>1, <2>1, ElementOfSeq DEF ToSet
  <2> QED BY <2>2 DEF ChunkType
<1>6. Len(c) \in 0 .. Len(c)
  BY <1>1
<1> QED BY <1>1, <1>2, <1>3, <1>4, <1>5, <1>6

LEMMA InitInvariant == Init => IInv
<1> SUFFICES ASSUME Init PROVE IInv
  OBVIOUS
<1>1. Settled
  BY DEF Init, Settled
<1>2. Len(Items) \in Nat \ {0} /\ Limit \in Nat /\ Total \in Nat
  BY <1>1, ItemsSeq, TotalIsLast
<1>3. Positions
  BY <1>2 DEF Init, Positions, Reading
<1>4. Streamed /\ Limited /\ Carried
  BY <1>2 DEF Init, Streamed, Limited, Carried, Forwarding
<1> QED BY <1>1, <1>3, <1>4 DEF IInv

\* The client moves: what has been read stays read.
LEMMA ClientStep ==
  ASSUME IInv, Client
  PROVE  IInv'
<1> USE DEF IInv
<1>1. /\ Items' = Items /\ Total' = Total /\ Framed' = Framed /\ Settled'
      /\ Chunked(request.headers)' = Chunked(request.headers)
      /\ RequestHeaders' = RequestHeaders
      /\ WebSocketHeaders(RequestHeaders)' = WebSocketHeaders(RequestHeaders)
  BY RequestStays DEF Client
<1>2. Items \in Seq(ItemType) /\ Len(Items) \in Nat
  BY ItemsSeq
<1>3. Positions'
  BY <1>1, <1>2 DEF Client, Positions
<1>4. ~Cut
  BY DEF Client, Cut
<1>5. Streamed'
  BY <1>1, <1>4 DEF Client, Streamed
<1>6. Limited' /\ Carried'
  BY <1>1 DEF Client, Limited, Carried, Forwarding
<1> QED BY <1>1, <1>3, <1>5, <1>6


\* A step of a reader leaves the client and the request alone, and forwards nothing.
LEMMA ReaderStays ==
  ASSUME IInv, pc \notin Over, NEW p \in Reading \cup {"closed", "too_large", "route"}, To(p)
  PROVE  /\ Items' = Items /\ Total' = Total /\ Framed' = Framed /\ Settled' /\ Carried'
         /\ settings' = settings /\ request' = request
         /\ Chunked(request.headers)' = Chunked(request.headers)
         /\ Len(Items) \in Nat \ {0} /\ Items \in Seq(ItemType)
         /\ arrived' = arrived /\ peer' = peer /\ pc' = p
         /\ (next' = next => Cut' = Cut)
<1>1. UNCHANGED <<settings, request, arrived, peer, forwarded>> /\ pc' = p
  BY DEF To
<1>2. Items' = Items /\ Total' = Total /\ Framed' = Framed /\ Settled'
      /\ Chunked(request.headers)' = Chunked(request.headers)
  BY <1>1, RequestStays DEF IInv
<1>3. Carried'
  BY <1>1 DEF IInv, Carried, Forwarding, Over, Reading
<1>4. next' = next => Cut' = Cut
  BY <1>1, <1>2 DEF Cut
<1> QED BY <1>1, <1>2, <1>3, <1>4, ItemsSeq DEF IInv

LEMMA HeadStep ==
  ASSUME IInv, ReadHead \/ HeadLost
  PROVE  IInv'
<1> DEFINE length == ContentLength(request.headers)
<1>1. PICK p \in Reading \cup {"closed", "too_large", "route"} :
        /\ To(p) /\ pc = "head" /\ UNCHANGED body
        /\ \/ p = "closed" /\ next' \in {next, next + 1} /\ (next' # next => Whole)
           \/ Whole /\ next' = next + 1 /\ settings.frontend = "asgi" /\ p = "stream"
           \/ Whole /\ next' = next + 1 /\ Framed /\ p = "size"
           \/ /\ Whole /\ next' = next + 1 /\ settings.frontend = "socks" /\ ~Chunked(request.headers)
              /\ p = IF length > Limit THEN "too_large" ELSE IF length = 0 THEN "route" ELSE "body"
  BY DEF ReadHead, HeadLost, Reading, Stays, Framed
<1>2. /\ Items' = Items /\ Total' = Total /\ Framed' = Framed /\ Settled' /\ Carried'
      /\ settings' = settings /\ request' = request
      /\ Chunked(request.headers)' = Chunked(request.headers)
      /\ Len(Items) \in Nat \ {0} /\ arrived' = arrived /\ peer' = peer /\ pc' = p
  BY <1>1, ReaderStays DEF Over
<1>3. next = 0 /\ body = 0 /\ Total \in Nat /\ Limit \in Nat /\ Len(request.chunks) \in Nat
      /\ Upto(request.chunks)[0] = 0
  BY <1>1, TotalIsLast DEF IInv, Streamed
<1>4. Positions'
  BY <1>1, <1>2, <1>3 DEF IInv, Positions, Whole, Reading, Over
<1>5. ~Chunked(request.headers) => length = Total
  BY RequestTypes DEF IInv
<1>6. Streamed' /\ Limited'
  <2>1. CASE p = "closed"
    BY <1>1, <1>2, <1>3, <2>1 DEF Streamed, Limited
  <2>2. CASE p = "stream" /\ settings.frontend = "asgi" /\ next' = 1
    BY <1>1, <1>2, <1>3, <2>2 DEF Streamed, Limited
  <2>3. CASE p = "size" /\ Framed /\ next' = 1
    BY <1>1, <1>2, <1>3, <2>3 DEF Streamed, Limited, Framed
  <2>4. CASE /\ settings.frontend = "socks" /\ ~Chunked(request.headers)
             /\ p = IF length > Limit THEN "too_large" ELSE IF length = 0 THEN "route" ELSE "body"
    BY <1>1, <1>2, <1>3, <1>5, <2>4 DEF Streamed, Limited
  <2> QED BY <1>1, <1>3, <2>1, <2>2, <2>3, <2>4
<1> QED BY <1>2, <1>4, <1>6 DEF IInv

LEMMA StreamStep ==
  ASSUME IInv, ReadStream
  PROVE  IInv'
<1> DEFINE c == request.chunks
           n == next - 1
<1>1. /\ pc = "stream" /\ settings.frontend = "asgi" /\ next >= 1 /\ body = Upto(c)[n]
      /\ next \in 0 .. arrived /\ arrived \in 0 .. Len(Items) /\ body \in Nat /\ body <= Limit
  BY DEF IInv, ReadStream, Positions, Streamed, Limited
<1>2. /\ Len(c) \in Nat /\ Limit \in Nat /\ Total = Upto(c)[Len(c)] /\ Total \in Nat
      /\ \A m \in 0 .. Len(c) : Upto(c)[m] \in Nat /\ Upto(c)[m] <= Total
      /\ \A m \in 0 .. Len(c) : m < Len(c) =>
           Upto(c)[m + 1] = Upto(c)[m] + c[m + 1].size /\ c[m + 1].size \in Nat
  BY TotalIsLast DEF IInv
<1>3. /\ Len(Items) = Len(c) + 1
      /\ \A m \in 0 .. Len(c) : m < Len(c) => Items[m + 2].size = c[m + 1].size
  BY <1>1, AsgiItems DEF IInv
<1>4. n \in 0 .. Len(c) /\ next = n + 1
  BY <1>1, <1>2, <1>3
<1> HIDE DEF c, n
<1>5. CASE Whole /\ next' = next + 1 /\ IF TooLarge(body + Item.size)
                                         THEN To("too_large") /\ UNCHANGED body
                                         ELSE To("stream") /\ body' = body + Item.size
  <2>1. n < Len(c) /\ next + 1 = n + 2 /\ n + 1 \in 0 .. Len(c) /\ next' \in 0 .. arrived
    BY <1>1, <1>2, <1>3, <1>4, <1>5 DEF Whole
  <2>2. body + Item.size = Upto(c)[n + 1] /\ Upto(c)[n + 1] \in Nat /\ Upto(c)[n + 1] <= Total
    BY <1>1, <1>2, <1>3, <1>4, <2>1 DEF Item
  <2>3. CASE TooLarge(body + Item.size)
    <3>1. To("too_large") /\ UNCHANGED body /\ next' = next + 1
      BY <1>5, <2>3
    <3>2. /\ Items' = Items /\ Total' = Total /\ Settled' /\ Carried' /\ settings' = settings
          /\ request' = request /\ arrived' = arrived /\ peer' = peer /\ pc' = "too_large"
      BY <1>1, <3>1, ReaderStays DEF Over, Reading
    <3>3. Positions'
      BY <1>1, <2>1, <3>1, <3>2 DEF IInv, Positions, Over, Reading
    <3>4. Total > Limit
      BY <1>2, <2>2, <2>3 DEF TooLarge
    <3>5. Streamed' /\ Limited'
      BY <1>1, <3>1, <3>2, <3>4 DEF Streamed, Limited
    <3> QED BY <3>2, <3>3, <3>5 DEF IInv
  <2>4. CASE ~TooLarge(body + Item.size)
    <3>1. To("stream") /\ body' = Upto(c)[n + 1] /\ next' = n + 2
      BY <1>4, <1>5, <2>1, <2>2, <2>4
    <3>2. /\ Items' = Items /\ Total' = Total /\ Settled' /\ Carried' /\ settings' = settings
          /\ request' = request /\ arrived' = arrived /\ peer' = peer /\ pc' = "stream"
      BY <1>1, <3>1, ReaderStays DEF Over, Reading
    <3>3. Positions'
      BY <1>1, <2>1, <2>2, <3>1, <3>2 DEF IInv, Positions, Over, Reading
    <3>4. body' <= Limit /\ next' - 1 = n + 1 /\ next' >= 1
      BY <1>2, <1>4, <2>2, <2>4, <3>1 DEF TooLarge
    <3>5. Streamed' /\ Limited'
      BY <1>1, <3>1, <3>2, <3>4 DEF Streamed, Limited, c
    <3> QED BY <3>2, <3>3, <3>5 DEF IInv
  <2> QED BY <2>3, <2>4
<1>6. CASE next = Len(Items) /\ To("route") /\ Stays
  <2>1. /\ Items' = Items /\ Total' = Total /\ Settled' /\ Carried' /\ settings' = settings
        /\ request' = request /\ arrived' = arrived /\ peer' = peer /\ pc' = "route"
    BY <1>1, <1>6, ReaderStays DEF Over
  <2>2. body' = body /\ next' = next /\ body = Total
    BY <1>1, <1>2, <1>3, <1>4, <1>6 DEF Stays
  <2> QED BY <1>1, <2>1, <2>2 DEF IInv, Positions, Streamed, Limited
<1>7. CASE To("closed") /\ Stays
  <2>1. /\ Items' = Items /\ Total' = Total /\ Settled' /\ Carried' /\ settings' = settings
        /\ request' = request /\ arrived' = arrived /\ peer' = peer /\ pc' = "closed"
    BY <1>1, <1>7, ReaderStays DEF Over
  <2>2. body' = body /\ next' = next
    BY <1>7 DEF Stays
  <2> QED BY <1>1, <2>1, <2>2 DEF IInv, Positions, Streamed, Limited, Over
<1> QED BY <1>5, <1>6, <1>7 DEF ReadStream


LEMMA SizeStep ==
  ASSUME IInv, ReadSize
  PROVE  IInv'
<1> DEFINE c == request.chunks
<1>1. /\ pc = "size" /\ Framed /\ next \in 0 .. arrived /\ arrived \in 0 .. Len(Items)
      /\ body \in Nat /\ body <= Limit
  BY DEF IInv, ReadSize, Positions, Streamed, Limited
<1>2. PICK n \in 0 .. Len(c) : next = 2 * n + 1 /\ body = Upto(c)[n]
  BY <1>1 DEF IInv, Streamed
<1>3. /\ Len(c) \in Nat /\ Total = Upto(c)[Len(c)] /\ \A m \in 0 .. Len(c) : m < Len(c) => c[m + 1] \in ToSet(c)
      /\ \A e \in ToSet(c) : e.size > 0
  BY <1>1, TotalIsLast, RequestTypes DEF IInv, Framed
<1>4. /\ next + 1 = 2 * n + 2 /\ Items[2 * n + 2].kind = "size"
      /\ n < Len(c) => Items[2 * n + 2].size = c[n + 1].size
      /\ Items[2 * Len(c) + 2].size = 0
  <2>1. /\ Items[2 * n + 2].kind = "size" /\ (n < Len(c) => Items[2 * n + 2].size = c[n + 1].size)
        /\ Items[2 * Len(c) + 2].size = 0
    BY <1>1, FramedItems DEF IInv
  <2>2. next + 1 = 2 * n + 2
    BY <1>2
  <2> QED BY <2>1, <2>2
<1> HIDE DEF c
<1>5. PICK p \in {"chunk", "trailer", "closed"} :
        /\ To(p) /\ body' = body
        /\ \/ Whole /\ next' = next + 1 /\ p = IF Item.size = 0 THEN "trailer" ELSE "chunk"
           \/ next' = next /\ Eof /\ peer = "torn" /\ Item.zero /\ p = "trailer"
           \/ next' = next /\ p = "closed"
  BY DEF ReadSize, Stays
<1>6. /\ Items' = Items /\ Total' = Total /\ Framed' /\ Settled' /\ Carried' /\ settings' = settings
      /\ request' = request /\ arrived' = arrived /\ peer' = peer /\ pc' = p
      /\ (next' = next => Cut' = Cut)
  BY <1>1, <1>5, ReaderStays DEF Over, Reading
<1>7. Positions'
  BY <1>1, <1>2, <1>5, <1>6 DEF IInv, Positions, Over, Reading, Whole
<1>8. Streamed'
  <2>1. CASE Whole /\ next' = next + 1 /\ p = IF Item.size = 0 THEN "trailer" ELSE "chunk"
    <3>1. CASE n < Len(c)
      <4>1. Item.size # 0
        BY <1>3, <1>4, <3>1 DEF Item
      <4>2. p = "chunk" /\ next' = 2 * n + 2
        BY <1>2, <1>4, <2>1, <4>1
      <4> QED BY <1>2, <1>5, <1>6, <3>1, <4>2 DEF Streamed, c
    <3>2. CASE n = Len(c)
      <4>1. p = "trailer" /\ body = Total
        BY <1>2, <1>3, <1>4, <2>1, <3>2 DEF Item
      <4> QED BY <1>5, <1>6, <4>1 DEF Streamed
    <3> QED BY <1>3, <3>1, <3>2
  <2>2. CASE next' = next /\ Eof /\ peer = "torn" /\ Item.zero /\ p = "trailer"
    <3>1. next = arrived
      BY <2>2 DEF Eof
    <3>2. Cut
      BY <1>4, <2>2, <3>1 DEF Cut, Item
    <3> QED BY <1>6, <2>2, <3>2 DEF Streamed
  <2>3. CASE p = "closed"
    BY <1>6, <2>3 DEF Streamed
  <2> QED BY <1>5, <2>1, <2>2, <2>3
<1>9. Limited'
  BY <1>1, <1>5, <1>6 DEF Limited
<1> QED BY <1>6, <1>7, <1>8, <1>9 DEF IInv

LEMMA ChunkStep ==
  ASSUME IInv, ReadChunk
  PROVE  IInv'
<1> DEFINE c == request.chunks
<1>1. /\ pc = "chunk" /\ Framed /\ next \in 0 .. arrived /\ arrived \in 0 .. Len(Items)
      /\ body \in Nat /\ body <= Limit
  BY DEF IInv, ReadChunk, Positions, Streamed, Limited
<1>2. PICK n \in 0 .. Len(c) : n < Len(c) /\ next = 2 * n + 2 /\ body = Upto(c)[n]
  BY <1>1 DEF IInv, Streamed
<1>3. /\ Len(c) \in Nat /\ Limit \in Nat /\ c[n + 1] \in ToSet(c) /\ c[n + 1].size \in Nat
      /\ Upto(c)[n + 1] = Upto(c)[n] + c[n + 1].size
      /\ \A m \in 0 .. Len(c) : Upto(c)[m] \in Nat /\ Upto(c)[m] <= Total
      /\ Total \in Nat
  BY <1>1, <1>2, TotalIsLast DEF IInv
<1>4. next + 1 = 2 * n + 3 /\ Items[2 * n + 3].size = c[n + 1].size /\ n + 1 \in 0 .. Len(c)
  BY <1>1, <1>2, <1>3, FramedItems DEF IInv
<1> HIDE DEF c
<1>5. PICK p \in {"too_large", "size", "closed"} :
        /\ To(p)
        /\ \/ /\ Whole /\ next' = next + 1 /\ body' = Upto(c)[n + 1]
              /\ p = IF body' > Limit THEN "too_large" ELSE "size"
           \/ next' = next /\ body' = body /\ p = "closed"
  BY <1>2, <1>3, <1>4 DEF ReadChunk, Stays, Item, TooLarge
<1>6. /\ Items' = Items /\ Total' = Total /\ Framed' /\ Settled' /\ Carried' /\ settings' = settings
      /\ request' = request /\ arrived' = arrived /\ peer' = peer /\ pc' = p
  BY <1>1, <1>5, ReaderStays DEF Over, Reading
<1>7. CASE Whole /\ next' = next + 1 /\ body' = Upto(c)[n + 1] /\ p = IF body' > Limit THEN "too_large" ELSE "size"
  <2>1. body' \in Nat /\ body' <= Total /\ next' = 2 * (n + 1) + 1 /\ next' \in 0 .. arrived
    BY <1>1, <1>2, <1>3, <1>4, <1>7 DEF Whole
  <2>2. Positions'
    BY <1>1, <1>5, <1>6, <2>1 DEF IInv, Positions, Over, Reading
  <2>3. Streamed'
    BY <1>4, <1>5, <1>6, <1>7, <2>1 DEF Streamed, c
  <2>4. Limited'
    <3>1. CASE body' > Limit
      <4>1. p = "too_large" /\ Total > Limit /\ body' <= Limit + c[n + 1].size
        <5>1. p = "too_large" /\ Total > Limit
          BY <1>3, <1>7, <2>1, <3>1
        <5>2. body' = body + c[n + 1].size
          BY <1>2, <1>3, <1>7
        <5> QED BY <1>1, <1>3, <5>1, <5>2
      <4>2. \E e \in ToSet(c) : body' <= Limit + e.size
        BY <1>3, <4>1
      <4>3. settings.frontend # "asgi"
        BY <1>1 DEF Framed
      <4> QED BY <1>6, <4>1, <4>2, <4>3 DEF Limited, c
    <3>2. CASE ~(body' > Limit)
      BY <1>3, <1>6, <1>7, <2>1, <3>2 DEF Limited
    <3> QED BY <3>1, <3>2
  <2> QED BY <1>6, <2>2, <2>3, <2>4 DEF IInv
<1>8. CASE next' = next /\ body' = body /\ p = "closed"
  BY <1>1, <1>6, <1>8 DEF IInv, Positions, Streamed, Limited, Over
<1> QED BY <1>5, <1>7, <1>8

LEMMA TrailerStep ==
  ASSUME IInv, ReadTrailer
  PROVE  IInv'
<1>1. /\ pc = "trailer" /\ To("route") /\ body' = body /\ body \in Nat /\ body <= Limit
      /\ next \in 0 .. arrived /\ arrived \in 0 .. Len(Items) /\ (body = Total \/ Cut)
      /\ next' = next \/ (Whole /\ next' = next + 1)
  BY DEF IInv, ReadTrailer, Positions, Streamed, Limited, Stays
<1>2. /\ Items' = Items /\ Total' = Total /\ Settled' /\ Carried' /\ settings' = settings
      /\ request' = request /\ arrived' = arrived /\ peer' = peer /\ pc' = "route"
      /\ (next' = next => Cut' = Cut)
  BY <1>1, ReaderStays DEF Over
<1>3. Positions'
  BY <1>1, <1>2 DEF IInv, Positions, Whole
<1>4. ~(Cut /\ Whole)
  BY <1>1 DEF Cut, Whole
<1>5. Streamed' /\ Limited'
  BY <1>1, <1>2, <1>4 DEF Streamed, Limited
<1> QED BY <1>2, <1>3, <1>5 DEF IInv

LEMMA BodyStep ==
  ASSUME IInv, ReadBody
  PROVE  IInv'
<1>1. /\ pc = "body" /\ settings.frontend = "socks" /\ ~Chunked(request.headers) /\ Total <= Limit
      /\ next \in 0 .. arrived /\ arrived \in 0 .. Len(Items) /\ body = 0
  BY DEF IInv, ReadBody, Positions, Streamed
<1>2. ContentLength(request.headers) = Total /\ Total \in Nat /\ Limit \in Nat
  BY <1>1, RequestTypes, TotalIsLast DEF IInv
<1>3. CASE Whole /\ next' = next + 1 /\ body' = Total /\ To("route")
  <2>1. /\ Items' = Items /\ Total' = Total /\ Settled' /\ Carried' /\ settings' = settings
        /\ request' = request /\ arrived' = arrived /\ peer' = peer /\ pc' = "route"
    BY <1>1, <1>3, ReaderStays DEF Over
  <2>2. Positions'
    BY <1>1, <1>2, <1>3, <2>1 DEF IInv, Positions, Whole
  <2>3. Streamed' /\ Limited'
    BY <1>1, <1>2, <1>3, <2>1 DEF Streamed, Limited
  <2> QED BY <2>1, <2>2, <2>3 DEF IInv
<1>4. CASE To("closed") /\ Stays
  <2>1. /\ Items' = Items /\ Total' = Total /\ Settled' /\ Carried' /\ settings' = settings
        /\ request' = request /\ arrived' = arrived /\ peer' = peer /\ pc' = "closed"
    BY <1>1, <1>4, ReaderStays DEF Over
  <2>2. body' = body /\ next' = next
    BY <1>4 DEF Stays
  <2> QED BY <1>1, <1>2, <2>1, <2>2 DEF IInv, Positions, Streamed, Limited, Over
<1> QED BY <1>2, <1>3, <1>4 DEF ReadBody

\* The decision forwards what was read, with the headers that go with it.
LEMMA RouteStep ==
  ASSUME IInv, Route
  PROVE  IInv'
<1>1. /\ pc = "route" /\ (body = Total \/ Cut) /\ body <= Limit
      /\ UNCHANGED <<settings, request, arrived, peer, next, body>>
      /\ \/ pc' = "websocket" /\ forwarded' = WebSocketHeaders(RequestHeaders)
         \/ pc' = "not_allowed" /\ forwarded' = forwarded
         \/ pc' = "fast_fail_http" /\ forwarded' = RequestHeaders
  BY DEF IInv, Route, Streamed, Limited
<1>2. /\ Items' = Items /\ Total' = Total /\ Framed' = Framed /\ Settled' = Settled
      /\ RequestHeaders' = RequestHeaders
      /\ WebSocketHeaders(RequestHeaders)' = WebSocketHeaders(RequestHeaders)
  BY <1>1, RequestStays
<1>3. Cut' = Cut
  BY <1>1, <1>2 DEF Cut
<1>4. Positions' /\ Streamed' /\ Limited'
  BY <1>1, <1>2, <1>3 DEF IInv, Positions, Streamed, Limited, Over
<1>5. Carried'
  BY <1>1, <1>2 DEF IInv, Carried, Forwarding
<1> QED BY <1>2, <1>4, <1>5 DEF IInv

LEMMA StepInvariant == IInv /\ [Next]_vars => IInv'
<1> SUFFICES ASSUME IInv, [Next]_vars PROVE IInv'
  OBVIOUS
<1>1. CASE UNCHANGED vars
  <2>1. UNCHANGED <<settings, request, arrived, peer, pc, next, body, forwarded>>
    BY <1>1 DEF vars
  <2>2. /\ Items' = Items /\ Total' = Total /\ Framed' = Framed /\ Settled' = Settled
        /\ Chunked(request.headers)' = Chunked(request.headers)
        /\ RequestHeaders' = RequestHeaders
        /\ WebSocketHeaders(RequestHeaders)' = WebSocketHeaders(RequestHeaders)
    BY <2>1, RequestStays
  <2>3. Cut' = Cut
    BY <2>1, <2>2 DEF Cut
  <2> QED BY <2>1, <2>2, <2>3 DEF IInv, Positions, Streamed, Limited, Carried, Forwarding
<1>2. CASE Client
  BY <1>2, ClientStep
<1>3. CASE FrontEnd
  BY <1>3, HeadStep, StreamStep, SizeStep, ChunkStep, TrailerStep, BodyStep, RouteStep DEF FrontEnd
<1> QED BY <1>1, <1>2, <1>3 DEF Next

LEMMA Invariant == Spec => []IInv
BY InitInvariant, StepInvariant, PTL DEF Spec


-----------------------------------------------------------------------------
(* What goes upstream.                                                      *)

\* The proxy's key is the only header of its name, and no other header changes its
\* place among those of its name.
LEMMA ForwardedHeaders ==
  ASSUME Settled, NEW f \in {RequestHeaders, WebSocketHeaders(RequestHeaders)}
  PROVE  /\ ToSet(f) \subseteq ToSet(request.headers) \cup {ProxyKey}
         /\ settings.key # "none" => Named(f, settings.key) = <<ProxyKey>>
         /\ settings.key = "none" => \A name \in KeyHeaders :
              \/ Named(f, name) = Named(request.headers, name)
              \/ \E h \in ToSet(Named(request.headers, "connection")) : name \in h.tokens
<1> DEFINE S == ToSet(request.headers) \cup {ProxyKey}
           h == request.headers
           listed == UNION {e.tokens : e \in ToSet(Named(h, "connection"))}
           dropped == HopByHop \cup {"host"} \cup listed
           w == Without(h, dropped)
           key == settings.key
           r == RequestHeaders
<1>1. h \in Seq(S)
  <2>1. h \in Seq(HeaderType)
    BY RequestTypes
  <2>2. h \in Seq(Range(h))
    BY <2>1, SeqOfRange
  <2>3. Range(h) \subseteq S
    BY DEF Range, ToSet
  <2> QED BY <2>2, <2>3, SeqMonotonic
<1>2. w \in Seq(S)
  BY <1>1, OnlySeqOver DEF Without
<1>3. WithoutHopByHop(h) = w
  BY DEF WithoutHopByHop
<1>4. ProxyKey \in S /\ ProxyKey.name = key
  BY DEF ProxyKey
<1>5. r = IF key = "none" THEN w ELSE Append(Without(w, {key}), ProxyKey)
  BY <1>3 DEF RequestHeaders, WithKey
<1>6. KeyHeaders \cap (HopByHop \cup {"host"} \cup WebSocketSkips) = {} /\ key \in KeyHeaders
  BY RequestIntakeAssumption DEF Settled
<1> HIDE DEF S, h, w, key, r
<1>7. Without(w, {key}) \in Seq(S)
  BY <1>2, OnlySeqOver DEF Without
<1>8. r \in Seq(S)
  BY <1>2, <1>4, <1>5, <1>7, AppendProperties
<1>9. key # "none" => Named(r, key) = <<ProxyKey>>
  <2> HAVE key # "none"
  <2>1. Named(Without(w, {key}), key) = <<>>
    BY <1>2, NamedWithout
  <2>2. Named(Append(Without(w, {key}), ProxyKey), key) = Append(<<>>, ProxyKey)
    BY <1>4, <1>7, <2>1, NamedOfAppend, ZenonT(30)
  <2> QED BY <1>5, <2>2
<1>10. ASSUME key = "none", NEW name \in KeyHeaders, name \notin listed
       PROVE  Named(r, name) = Named(h, name)
  <2>1. name \notin dropped
    BY <1>6, <1>10
  <2> HIDE DEF dropped
  <2>2. Named(Without(h, dropped), name) = Named(h, name)
    BY <1>1, <2>1, NamedWithout
  <2> QED BY <1>5, <1>10, <2>2 DEF w
<1>11. \A name \in KeyHeaders : Named(WebSocketHeaders(r), name) = Named(r, name)
  <2> TAKE name \in KeyHeaders
  <2>1. name \notin WebSocketSkips
    BY <1>6
  <2> QED BY <1>8, <2>1, NamedWithout DEF WebSocketHeaders
<1>12. f \in Seq(S) /\ \A name \in KeyHeaders : Named(f, name) = Named(r, name)
  <2>1. CASE f = r
    BY <1>8, <2>1
  <2>2. CASE f = WebSocketHeaders(r)
    BY <1>8, <1>11, <2>2, OnlySeqOver DEF WebSocketHeaders, Without
  <2> QED BY <2>1, <2>2 DEF r
<1>13. ToSet(f) \subseteq S
  BY <1>12, ElementOfSeq DEF ToSet
<1>14. key # "none" => Named(f, key) = <<ProxyKey>>
  BY <1>6, <1>9, <1>12
<1>15. ASSUME key = "none", NEW name \in KeyHeaders
       PROVE  \/ Named(f, name) = Named(h, name)
              \/ \E e \in ToSet(Named(h, "connection")) : name \in e.tokens
  <2>1. CASE name \in listed
    BY <2>1
  <2>2. CASE name \notin listed
    BY <1>10, <1>12, <1>15, <2>2
  <2> QED BY <2>1, <2>2
<1> QED BY <1>13, <1>14, <1>15 DEF S, h, key

-----------------------------------------------------------------------------
(* The theorems.                                                            *)

\* Nothing is read before it arrived, the body held is at no point more than the client
\* sends of it (sizes of chunks, line ends and trailers apart), and nothing goes upstream that is neither the
\* client's header nor the proxy's key.
THEOREM TypeCorrect == Spec => []TypeOK
<1>1. IInv => TypeOK
  <2> SUFFICES ASSUME IInv PROVE TypeOK
    OBVIOUS
  <2>1. ToSet(forwarded) \subseteq ToSet(request.headers) \cup {ProxyKey}
    <3>1. CASE Forwarding
      BY <3>1, ForwardedHeaders DEF IInv, Carried
    <3>2. CASE ~Forwarding
      BY <3>2 DEF IInv, Carried, ToSet
    <3> QED BY <3>1, <3>2
  <2> QED BY <2>1 DEF IInv, Positions, TypeOK
<1> QED BY <1>1, Invariant, PTL

\* The two front ends, and the two ways to tell a length, draw the same limit, for
\* every body: what is refused is larger, what is forwarded is not.
THEOREM LimitHolds == Spec => []LimitIsExact
<1>1. IInv => LimitIsExact
  BY TotalIsLast DEF IInv, Limited, LimitIsExact, Forwarding
<1> QED BY <1>1, Invariant, PTL

\* What is forwarded is the whole body of the client, whenever the client leaves,
\* but for a line of a chunk size that is cut after a zero.
THEOREM NothingTruncated == Spec => []NeverTruncated
<1>1. IInv => NeverTruncated
  BY DEF IInv, Streamed, NeverTruncated, Forwarding, Cut
<1> QED BY <1>1, Invariant, PTL

\* The upstream sees exactly one key where the proxy has one, and the client's keys
\* where it has none.
THEOREM KeyHolds == Spec => []OneKeyUpstream
<1>1. IInv => OneKeyUpstream
  BY ForwardedHeaders DEF IInv, Carried, OneKeyUpstream
<1> QED BY <1>1, Invariant, PTL

================================================================================
