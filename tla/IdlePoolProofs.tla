--------------------------- MODULE IdlePoolProofs ---------------------------
(***************************************************************************)
(* What the operations of IdlePool keep and lose, for buckets of any       *)
(* length.                                                                 *)
(***************************************************************************)
EXTENDS IdlePool, TLAPS

\* The entries of a bucket, by their positions.
LEMMA Entries ==
  ASSUME NEW S, NEW b \in Seq(S)
  PROVE  Range(b) = {b[i] : i \in 1 .. Len(b)} /\ Range(b) \subseteq S
  BY DEF Range

\* What _checkout leaves of a bucket is a prefix of it.
LEMMA LeftFacts ==
  ASSUME NEW S, NEW b \in Seq(S), NEW n \in 0 .. Len(b)
  PROVE  /\ Left(b, n) \in Seq(S)
         /\ Len(Left(b, n)) = IF n = 0 THEN 0 ELSE n - 1
         /\ \A i \in 1 .. (n - 1) : Left(b, n)[i] = b[i]
  BY DEF Left

\* The entries that stay are those before the chosen one.
LEMMA LeftEntries ==
  ASSUME NEW S, NEW b \in Seq(S), NEW n \in 0 .. Len(b)
  PROVE  Range(Left(b, n)) = {b[i] : i \in 1 .. (n - 1)}
  <1> DEFINE l == Left(b, n)
  <1>1. l \in Seq(S) /\ \A i \in 1 .. (n - 1) : l[i] = b[i]
    BY LeftFacts
  <1>2. 1 .. Len(l) = 1 .. (n - 1)
    BY LeftFacts
  <1>3. Range(l) = {l[i] : i \in 1 .. Len(l)}
    BY <1>1, Entries
  <1> HIDE DEF l
  <1>4. {l[i] : i \in 1 .. (n - 1)} = {b[i] : i \in 1 .. (n - 1)}
    BY <1>1
  <1>5. QED
    BY <1>2, <1>3, <1>4 DEF l

\* The chosen entry, the skipped ones and those that stay are all the entries.
LEMMA CheckoutSplits ==
  ASSUME NEW S, NEW b \in Seq(S), NEW n \in 0 .. Len(b)
  PROVE  Range(b) = Range(Left(b, n)) \cup Skipped(b, n)
                      \cup (IF n = 0 THEN {} ELSE {b[n]})
  <1>1. 1 .. Len(b) = (1 .. (n - 1)) \cup ((n + 1) .. Len(b)) \cup (IF n = 0 THEN {} ELSE {n})
    OBVIOUS
  <1>2. QED
    BY <1>1, Entries, LeftEntries DEF Skipped

\* In a bucket without repetitions nothing is in two of these places.
LEMMA CheckoutSeparates ==
  ASSUME NEW S, NEW b \in Seq(S), NEW n \in 0 .. Len(b), IsInjective(b)
  PROVE  /\ IsInjective(Left(b, n))
         /\ Range(Left(b, n)) \cap Skipped(b, n) = {}
         /\ n > 0 => b[n] \notin Range(Left(b, n)) \cup Skipped(b, n)
  <1>1. \A i, j \in 1 .. Len(b) : b[i] = b[j] => i = j
    BY DEF IsInjective
  <1>2. IsInjective(Left(b, n))
    <2> DEFINE l == Left(b, n)
    <2>1. DOMAIN l = 1 .. Len(l) /\ 1 .. Len(l) = 1 .. (n - 1)
      BY LeftFacts
    <2>2. \A i \in 1 .. (n - 1) : l[i] = b[i] /\ i \in 1 .. Len(b)
      BY LeftFacts
    <2> HIDE DEF l
    <2>3. \A i, j \in DOMAIN l : l[i] = l[j] => i = j
      BY <1>1, <2>1, <2>2
    <2>4. QED
      BY <2>3 DEF IsInjective, l
  <1>3. Range(Left(b, n)) \cap Skipped(b, n) = {}
    BY <1>1, LeftEntries DEF Skipped
  <1>4. n > 0 => b[n] \notin Range(Left(b, n)) \cup Skipped(b, n)
    BY <1>1, LeftEntries DEF Skipped
  <1>5. QED
    BY <1>2, <1>3, <1>4

\* How many entries release drops: as many as make room for one.
LEMMA OverflowFacts ==
  ASSUME NEW S, NEW b \in Seq(S), MaxIdle > 0
  PROVE  /\ Overflow(b) \in 0 .. Len(b)
         /\ Len(b) - Overflow(b) + 1 <= MaxIdle
  BY MaxIdleAssumption DEF Overflow

\* The bucket after release: the entries it keeps, in their order, and c.
LEMMA ParkedFacts ==
  ASSUME NEW S, NEW b \in Seq(S), NEW c \in S, MaxIdle > 0
  PROVE  /\ Parked(b, c) \in Seq(S)
         /\ Len(Parked(b, c)) = Len(b) - Overflow(b) + 1
         /\ \A i \in 1 .. (Len(b) - Overflow(b)) : Parked(b, c)[i] = b[Overflow(b) + i]
         /\ Parked(b, c)[Len(b) - Overflow(b) + 1] = c
  <1> DEFINE o == Overflow(b)
             kept == SubSeq(b, o + 1, Len(b))
  <1>1. o \in 0 .. Len(b)
    BY OverflowFacts
  <1> HIDE DEF o
  <1>2. /\ kept \in Seq(S) /\ Len(kept) = Len(b) - o
        /\ \A i \in 1 .. (Len(b) - o) : kept[i] = b[o + i]
    BY <1>1
  <1> HIDE DEF kept
  <1>3. /\ Append(kept, c) \in Seq(S) /\ Len(Append(kept, c)) = Len(b) - o + 1
        /\ \A i \in 1 .. (Len(b) - o) : Append(kept, c)[i] = b[o + i]
        /\ Append(kept, c)[Len(b) - o + 1] = c
    BY <1>1, <1>2
  <1>4. Parked(b, c) = Append(kept, c)
    BY DEF Parked, o, kept
  <1>5. QED
    BY <1>3, <1>4 DEF o

\* Its entries: those that were not evicted, and c.
LEMMA ParkedEntries ==
  ASSUME NEW S, NEW b \in Seq(S), NEW c \in S, MaxIdle > 0
  PROVE  /\ Range(Parked(b, c)) = {b[i] : i \in (Overflow(b) + 1) .. Len(b)} \cup {c}
         /\ Range(b) = {b[i] : i \in (Overflow(b) + 1) .. Len(b)} \cup Evicted(b)
  <1> DEFINE o == Overflow(b)
             p == Parked(b, c)
             m == Len(b) - o
  <1>1. o \in 0 .. Len(b)
    BY OverflowFacts
  <1>2. /\ p \in Seq(S) /\ Len(p) = m + 1
        /\ \A i \in 1 .. m : p[i] = b[o + i]
        /\ p[m + 1] = c
    BY ParkedFacts
  <1>3. Range(p) = {p[i] : i \in 1 .. Len(p)}
    BY <1>2, Entries
  <1>4. Evicted(b) = {b[i] : i \in 1 .. o}
    BY DEF Evicted
  <1> HIDE DEF o, p
  <1>5. 1 .. Len(p) = (1 .. m) \cup {m + 1}
    BY <1>1, <1>2
  <1>6. {p[i] : i \in 1 .. m} = {b[i] : i \in (o + 1) .. Len(b)}
    <2>1. \A i \in (o + 1) .. Len(b) : i - o \in 1 .. m /\ o + (i - o) = i
      BY <1>1
    <2>2. \A i \in 1 .. m : o + i \in (o + 1) .. Len(b)
      BY <1>1
    <2>3. QED
      BY <1>2, <2>1, <2>2
  <1>7. Range(p) = {b[i] : i \in (o + 1) .. Len(b)} \cup {c}
    BY <1>2, <1>3, <1>5, <1>6, SMTT(30)
  <1>8. Range(b) = {b[i] : i \in (o + 1) .. Len(b)} \cup Evicted(b)
    <2>1. 1 .. Len(b) = (1 .. o) \cup ((o + 1) .. Len(b))
      BY <1>1
    <2>2. QED
      BY <1>4, <2>1, Entries
  <1>9. QED
    BY <1>7, <1>8 DEF o, p

\* No entry is repeated, and none is both evicted and kept.
LEMMA ReleaseSeparates ==
  ASSUME NEW S, NEW b \in Seq(S), NEW c \in S, MaxIdle > 0,
         IsInjective(b), c \notin Range(b)
  PROVE  /\ IsInjective(Parked(b, c))
         /\ Range(Parked(b, c)) \cap Evicted(b) = {}
  <1> DEFINE o == Overflow(b)
             p == Parked(b, c)
             m == Len(b) - o
  <1>1. o \in 0 .. Len(b) /\ m \in 0 .. Len(b)
    BY OverflowFacts
  <1>2. /\ DOMAIN p = 1 .. (m + 1)
        /\ \A i \in 1 .. m : p[i] = b[o + i]
        /\ p[m + 1] = c
    BY ParkedFacts
  <1>3. \A i, j \in 1 .. Len(b) : b[i] = b[j] => i = j
    BY DEF IsInjective
  <1>4. \A i \in 1 .. Len(b) : b[i] # c
    BY Entries
  <1>5. Evicted(b) = {b[i] : i \in 1 .. o}
    BY DEF Evicted
  <1>6. Range(p) = {b[i] : i \in (o + 1) .. Len(b)} \cup {c}
    BY ParkedEntries
  <1> HIDE DEF o, p
  <1>7. \A i, j \in 1 .. (m + 1) : p[i] = p[j] => i = j
    <2> SUFFICES ASSUME NEW i \in 1 .. (m + 1), NEW j \in 1 .. (m + 1), p[i] = p[j]
                 PROVE  i = j
      OBVIOUS
    <2>1. CASE i \in 1 .. m /\ j \in 1 .. m
      <3>1. o + i \in 1 .. Len(b) /\ o + j \in 1 .. Len(b)
        BY <1>1, <2>1
      <3>2. o + i = o + j
        BY <1>2, <1>3, <2>1, <3>1
      <3>3. QED
        BY <1>1, <3>2
    <2>2. CASE i \in 1 .. m /\ j = m + 1
      BY <1>1, <1>2, <1>4, <2>2
    <2>3. CASE i = m + 1 /\ j \in 1 .. m
      BY <1>1, <1>2, <1>4, <2>3
    <2>4. CASE i = m + 1 /\ j = m + 1
      BY <2>4
    <2>5. QED
      BY <1>1, <2>1, <2>2, <2>3, <2>4
  <1>8. IsInjective(p)
    BY <1>2, <1>7 DEF IsInjective
  <1>9. Range(p) \cap Evicted(b) = {}
    BY <1>1, <1>3, <1>4, <1>5, <1>6
  <1>10. QED
    BY <1>8, <1>9 DEF p
=============================================================================
