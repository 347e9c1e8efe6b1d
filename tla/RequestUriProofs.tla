---------------------------- MODULE RequestUriProofs ----------------------------
(***************************************************************************)
(* The canonical path, for every path there is.  The algorithms are        *)
(* recursive; the proofs are by induction, in the form that a set of       *)
(* natural numbers with a member has a least one.                          *)
(***************************************************************************)
EXTENDS RequestUri, WellFoundedInduction, SequenceTheorems, TLAPS

Byte == 0..255

Texts == Seq(Byte)
-------------------------------------------------------------------------------
\* A set of natural numbers with a member has a least one.
LEMMA LeastMember ==
  ASSUME NEW T, T \subseteq Nat, T # {}
  PROVE  \E m \in T : \A k \in T : m <= k
<1>1. IsWellFoundedOn(OpToRel(<, Nat), Nat)
  BY NatLessThanWellFounded
<1>2. PICK m \in T : \A k \in T : <<k, m>> \notin OpToRel(<, Nat)
  BY <1>1, WFMin
<1>3. \A k \in T : ~(k < m)
  BY <1>2 DEF OpToRel
<1> QED
  BY <1>3

\* Induction from the end of a text to its start.
LEMMA Downwards ==
  ASSUME NEW n \in Nat, NEW T,
         \A i \in 1..n : (\A j \in (i + 1)..n : j \in T) => i \in T
  PROVE  \A i \in 1..n : i \in T
<1> DEFINE Bad == {d \in Nat : d < n /\ n - d \notin T}
<1>1. SUFFICES ASSUME NEW i \in 1..n, i \notin T PROVE FALSE
  OBVIOUS
<1>2. n - i \in Bad
  <2>1. n - i \in Nat /\ n - i < n /\ n - (n - i) = i
    OBVIOUS
  <2> QED
    BY <1>1, <2>1
<1>3. PICK m \in Bad : \A d \in Bad : m <= d
  <2>1. Bad \subseteq Nat /\ Bad # {}
    BY <1>2
  <2> QED
    BY <2>1, LeastMember
<1>4. \A j \in (n - m + 1)..n : j \in T
  <2> SUFFICES ASSUME NEW j \in (n - m + 1)..n, j \notin T PROVE FALSE
    OBVIOUS
  <2>1. n - j \in Nat /\ n - j < n /\ n - (n - j) = j /\ n - j < m
    BY <1>3
  <2>2. n - j \in Bad
    BY <2>1
  <2> QED
    BY <1>3, <2>1, <2>2
<1>5. n - m \in 1..n
  BY <1>3
<1> QED
  BY <1>3, <1>4, <1>5

\* Induction from the first to the last.
LEMMA Upwards ==
  ASSUME NEW n \in Nat, NEW T, 0 \in T, \A i \in 0..(n - 1) : i \in T => i + 1 \in T
  PROVE  \A i \in 0..n : i \in T
<1> DEFINE Bad == {i \in 0..n : i \notin T}
<1>1. SUFFICES ASSUME Bad # {} PROVE FALSE
  OBVIOUS
<1>2. PICK m \in Bad : \A i \in Bad : m <= i
  <2>1. Bad \subseteq Nat
    OBVIOUS
  <2> QED
    BY <1>1, <2>1, LeastMember
<1>3. m # 0
  BY <1>2
<1>4. m - 1 \in 0..(n - 1) /\ (m - 1) + 1 = m /\ ~(m <= m - 1)
  BY <1>2, <1>3
<1>5. m - 1 \in T
  BY <1>2, <1>4
<1> QED
  BY <1>2, <1>4, <1>5

\* A function that is defined by what it is at some smaller argument exists.
Descends(D, V, stop, bound, rank, next, base, turn) ==
  /\ bound \in Nat /\ rank \in [D -> Nat] /\ \A i \in D : rank[i] < bound
  /\ \A i \in D \ stop : next[i] \in D /\ rank[next[i]] < rank[i]
  /\ \A i \in D : base[i] \in V
  /\ \A i \in D : \A v \in V : turn[i][v] \in V

\* A function defined by recursion along a rank that descends exists.
LEMMA RecursionExists ==
  ASSUME NEW D, NEW V, NEW stop, NEW bound, NEW rank, NEW next, NEW base, NEW turn,
         Descends(D, V, stop, bound, rank, next, base, turn)
  PROVE  \E f \in [D -> V] :
           \A i \in D : f[i] = IF i \in stop THEN base[i] ELSE turn[i][f[next[i]]]
<1> DEFINE Below(k) == {i \in D : rank[i] < k}
           Rule(f, i) == f[i] = IF i \in stop THEN base[i] ELSE turn[i][f[next[i]]]
           Good == {k \in Nat : \E f \in [Below(k) -> V] : \A i \in Below(k) : Rule(f, i)}
<1> USE DEF Descends
<1>1. 0 \in Good
  <2>1. Below(0) = {}
    OBVIOUS
  <2>2. [i \in {} |-> i] \in [{} -> V]
    OBVIOUS
  <2> QED
    BY <2>1, <2>2
<1>2. \A k \in 0..(bound - 1) : k \in Good => k + 1 \in Good
  <2> SUFFICES ASSUME NEW k \in 0..(bound - 1), k \in Good PROVE k + 1 \in Good
    OBVIOUS
  <2>1. PICK g \in [Below(k) -> V] : \A i \in Below(k) : Rule(g, i)
    OBVIOUS
  <2> DEFINE f == [i \in Below(k + 1) |->
                     IF i \in stop THEN base[i] ELSE turn[i][g[next[i]]]]
  <2>2. \A i \in Below(k + 1) : i \notin stop => next[i] \in Below(k)
    OBVIOUS
  <2>3. Below(k) \subseteq Below(k + 1)
    OBVIOUS
  <2>4. f \in [Below(k + 1) -> V]
    BY <2>2
  <2>5. \A i \in Below(k) : f[i] = g[i]
    BY <2>1, <2>3
  <2>6. \A i \in Below(k + 1) : Rule(f, i)
    <3> SUFFICES ASSUME NEW i \in Below(k + 1) PROVE Rule(f, i)
      OBVIOUS
    <3>1. CASE i \in stop
      BY <3>1
    <3>2. CASE i \notin stop
      <4>1. f[i] = turn[i][g[next[i]]]
        BY <3>2
      <4>2. f[next[i]] = g[next[i]]
        BY <2>2, <2>5, <3>2
      <4> HIDE DEF f
      <4> QED
        BY <3>2, <4>1, <4>2
    <3> QED
      BY <3>1, <3>2
  <2> HIDE DEF f, Rule, Below
  <2> QED
    BY <2>4, <2>6
<1>3. bound \in Good
  <2> HIDE DEF Good
  <2>1. bound \in 0..bound
    OBVIOUS
  <2> QED
    BY <1>1, <1>2, <2>1, Upwards
<1>4. Below(bound) = D
  OBVIOUS
<1> HIDE DEF Below, Rule
<1>5. PICK f \in [D -> V] : \A i \in D : Rule(f, i)
  BY <1>3, <1>4
<1> QED
  BY <1>5 DEF Rule
-------------------------------------------------------------------------------
\* What a text in front of a sequence of texts makes of it.
LEMMA ConsProperties ==
  ASSUME NEW S, NEW a \in S, NEW t \in Seq(S)
  PROVE  /\ <<a>> \o t \in Seq(S) /\ Len(<<a>> \o t) = Len(t) + 1
         /\ (<<a>> \o t)[1] = a
         /\ \A k \in 1..Len(t) : (<<a>> \o t)[k + 1] = t[k]
<1>1. <<a>> \in Seq(S) /\ Len(<<a>>) = 1 /\ <<a>>[1] = a
  OBVIOUS
<1>2. Len(t) \in Nat
  BY LenProperties
<1>3. /\ <<a>> \o t \in Seq(S) /\ Len(<<a>> \o t) = Len(<<a>>) + Len(t)
      /\ \A i \in 1..(Len(<<a>>) + Len(t)) :
           (<<a>> \o t)[i] = IF i <= Len(<<a>>) THEN <<a>>[i] ELSE t[i - Len(<<a>>)]
  BY <1>1, ConcatProperties, Zenon
<1> DEFINE s == <<a>> \o t
<1> HIDE DEF s
<1>4. /\ s \in Seq(S) /\ Len(s) = 1 + Len(t)
      /\ \A i \in 1..(1 + Len(t)) : s[i] = IF i <= 1 THEN a ELSE t[i - 1]
  <2>1. /\ s \in Seq(S) /\ Len(s) = 1 + Len(t)
        /\ \A i \in 1..(1 + Len(t)) : s[i] = IF i <= 1 THEN <<a>>[i] ELSE t[i - 1]
    BY <1>1, <1>3, Zenon DEF s
  <2>2. \A i \in 1..(1 + Len(t)) : i <= 1 => i = 1
    BY <1>2
  <2> QED
    BY <1>1, <2>1, <2>2, Zenon
<1>5. s[1] = a
  BY <1>2, <1>4
<1>6. \A k \in 1..Len(t) : k + 1 \in 1..(1 + Len(t)) /\ ~(k + 1 <= 1) /\ (k + 1) - 1 = k
  BY <1>2
<1>7. \A k \in 1..Len(t) : s[k + 1] = t[k]
  <2> SUFFICES ASSUME NEW k \in 1..Len(t) PROVE s[k + 1] = t[k]
    OBVIOUS
  <2>1. s[k + 1] = t[(k + 1) - 1]
    BY <1>4, <1>6, Zenon
  <2> QED
    BY <1>6, <2>1, Zenon
<1>8. 1 + Len(t) = Len(t) + 1
  BY <1>2
<1> QED
  BY <1>4, <1>5, <1>7, <1>8, Zenon DEF s
-------------------------------------------------------------------------------
\* The walk over a text, unit by unit.

\* The last byte of the unit that starts at i.
UnitEnd(raw, i) == IF EscapeAt(raw, i) THEN i + 2 ELSE i

\* The walk moves forward and stays in the text.
LEMMA UnitEnds ==
  ASSUME NEW raw, Len(raw) \in Nat, NEW i \in 1..Len(raw)
  PROVE  UnitEnd(raw, i) \in i..Len(raw) /\ UnitEnd(raw, i) + 1 \in 1..(Len(raw) + 1)
BY DEF UnitEnd, EscapeAt

\* A cut of a text is a text.
LEMMA PiecesAreTexts ==
  ASSUME NEW raw \in Texts, NEW i \in 1..Len(raw), NEW j \in i..Len(raw)
  PROVE  /\ SubSeq(raw, i, j) \in Texts /\ Len(SubSeq(raw, i, j)) = j - i + 1
         /\ \A k \in 1..(j - i + 1) : SubSeq(raw, i, j)[k] = raw[i + k - 1]
<1>1. Len(raw) \in Nat
  BY LenProperties DEF Texts
<1>2. \A k \in 1..Len(raw) : raw[k] \in Byte
  BY ElementOfSeq DEF Texts
<1>3. i \in Int /\ j \in Int /\ i <= j /\ \A k \in i..j : k \in 1..Len(raw)
  BY <1>1
<1>4. \A k \in i..j : raw[k] \in Byte
  BY <1>2, <1>3, Zenon
<1>5. /\ SubSeq(raw, i, j) \in Seq(Byte)
      /\ Len(SubSeq(raw, i, j)) = IF i <= j THEN j - i + 1 ELSE 0
      /\ \A k \in 1..(j - i + 1) : SubSeq(raw, i, j)[k] = raw[i + k - 1]
  BY <1>3, <1>4, SubSeqProperties
<1> QED
  BY <1>3, <1>5, Zenon DEF Texts

\* The recursive function of Units exists: one equation per place of the text.
LEMMA WalkExists ==
  ASSUME NEW raw \in Texts
  PROVE  \E w \in [1..(Len(raw) + 1) -> Seq(Texts)] :
           /\ Units(raw) = w[1]
           /\ w[Len(raw) + 1] = << >>
           /\ \A i \in 1..Len(raw) :
                w[i] = <<SubSeq(raw, i, UnitEnd(raw, i))>> \o w[UnitEnd(raw, i) + 1]
<1> DEFINE n == Len(raw)
           D == 1..(n + 1)
           V == Seq(Texts)
           Unit(i) == SubSeq(raw, i, UnitEnd(raw, i))
           Turn(f) == [i \in D |-> IF i > n THEN << >>
                         ELSE IF EscapeAt(raw, i) THEN <<SubSeq(raw, i, i + 2)>> \o f[i + 3]
                         ELSE <<SubSeq(raw, i, i)>> \o f[i + 1]]
           from == CHOOSE f : f = Turn(f)
           rank == [i \in D |-> n + 1 - i]
           next == [i \in D |-> UnitEnd(raw, i) + 1]
           base == [i \in D |-> << >>]
           turn == [i \in D |-> [v \in V |-> <<Unit(i)>> \o v]]
<1>1. Units(raw) = from[1]
  BY Zenon DEF Units
<1>2. n \in Nat
  BY LenProperties DEF Texts
<1> HIDE DEF n
<1>3. \A i \in 1..n : UnitEnd(raw, i) \in i..n /\ next[i] \in D /\ n + 1 - next[i] < n + 1 - i
  <2>1. \A i \in 1..n : UnitEnd(raw, i) \in i..n /\ UnitEnd(raw, i) + 1 \in 1..(n + 1)
    BY <1>2, UnitEnds DEF n
  <2>2. \A i \in 1..n : i \in D
    BY <1>2
  <2> QED
    BY <1>2, <2>1, <2>2
<1>4. \A i \in 1..n : Unit(i) \in Texts
  BY <1>3, PiecesAreTexts, Zenon DEF n
<1>5. \A i \in D : i \in 1..n \/ i = n + 1
  BY <1>2
<1> HIDE DEF Unit
<1>6. /\ rank \in [D -> Nat] /\ \A i \in D : rank[i] < n + 1
      /\ \A i \in D \ {n + 1} : next[i] \in D /\ rank[next[i]] < rank[i]
      /\ \A i \in D : base[i] \in V
  <2>1. rank \in [D -> Nat] /\ \A i \in D : rank[i] < n + 1
    BY <1>2
  <2>2. \A i \in D \ {n + 1} : i \in 1..n
    BY <1>5
  <2>3. \A i \in D : base[i] \in V
    OBVIOUS
  <2>4. \A i \in D : rank[i] = n + 1 - i
    OBVIOUS
  <2> HIDE DEF rank, next, base, D
  <2>5. \A i \in D \ {n + 1} : next[i] \in D /\ rank[next[i]] < rank[i]
    BY <1>3, <2>2, <2>4
  <2> QED
    BY <2>1, <2>3, <2>5 DEF V
<1>7. \A i \in D \ {n + 1} : \A v \in V : <<Unit(i)>> \o v \in V
  <2>1. \A i \in D \ {n + 1} : Unit(i) \in Texts
    BY <1>4, <1>5
  <2> QED
    BY <2>1, ConsProperties, Zenon
<1> DEFINE turned == [i \in D |-> [v \in V |-> IF i = n + 1 THEN v ELSE <<Unit(i)>> \o v]]
<1>8. \A i \in D : \A v \in V : turned[i][v] \in V
  BY <1>7
<1> HIDE DEF rank, next, base, turned, V
<1>9. PICK f \in [D -> V] :
        \A i \in D : f[i] = IF i \in {n + 1} THEN base[i] ELSE turned[i][f[next[i]]]
  <2>1. n + 1 \in Nat
    BY <1>2
  <2> DEFINE stop == {n + 1}
             bound == n + 1
  <2>2. /\ bound \in Nat /\ rank \in [D -> Nat] /\ \A i \in D : rank[i] < bound
        /\ \A i \in D \ stop : next[i] \in D /\ rank[next[i]] < rank[i]
    BY <1>6, <2>1
  <2> HIDE DEF D, stop, bound
  <2>3. \A i \in D : base[i] \in V
    BY <1>6
  <2>4. \E f \in [D -> V] :
           \A i \in D : f[i] = IF i \in stop THEN base[i] ELSE turned[i][f[next[i]]]
    <3>1. Descends(D, V, stop, bound, rank, next, base, turned)
      BY <1>8, <2>2, <2>3 DEF Descends
    <3> QED
      BY <3>1, RecursionExists
  <2> QED
    BY <2>4 DEF stop
<1>10. /\ f[n + 1] = << >>
       /\ \A i \in 1..n : f[i] = <<Unit(i)>> \o f[UnitEnd(raw, i) + 1]
  <2>1. n + 1 \in D /\ base[n + 1] = << >>
    BY <1>2 DEF base
  <2>2. \A i \in 1..n : i \in D /\ i # n + 1 /\ next[i] \in D /\ next[i] = UnitEnd(raw, i) + 1
    <3>1. \A i \in 1..n : i \in D /\ i # n + 1
      BY <1>2
    <3>2. \A i \in 1..n : next[i] = UnitEnd(raw, i) + 1
      BY <3>1 DEF next
    <3> QED
      BY <1>3, <3>1, <3>2
  <2>3. \A i \in 1..n : \A v \in V : turned[i][v] = <<Unit(i)>> \o v
    BY <2>2 DEF turned
  <2>4. f[n + 1] = << >>
    BY <1>9, <2>1, Zenon
  <2>5. ASSUME NEW i \in 1..n PROVE f[i] = <<Unit(i)>> \o f[UnitEnd(raw, i) + 1]
    <3>1. f[i] = turned[i][f[next[i]]] /\ f[next[i]] \in V
      <4>1. i \in D /\ i \notin {n + 1} /\ next[i] \in D
        BY <2>2
      <4> QED
        BY <1>9, <4>1, Zenon
    <3> QED
      BY <2>2, <2>3, <3>1, Zenon
  <2> QED
    BY <2>4, <2>5, Zenon
<1>11. f = Turn(f)
  <2>1. \A i \in 1..n : Turn(f)[i] = <<Unit(i)>> \o f[UnitEnd(raw, i) + 1]
    <3> SUFFICES ASSUME NEW i \in 1..n PROVE Turn(f)[i] = <<Unit(i)>> \o f[UnitEnd(raw, i) + 1]
      OBVIOUS
    <3>1. i \in D /\ ~(i > n) /\ (i + 2) + 1 = i + 3
      BY <1>2
    <3> QED
      BY <3>1 DEF Unit, UnitEnd
  <2>2. Turn(f)[n + 1] = << >>
    BY <1>2
  <2>3. \A i \in D : Turn(f)[i] = f[i]
    BY <1>5, <1>10, <2>1, <2>2
  <2> QED
    BY <1>9, <2>3
<1>12. from = Turn(from)
  <2> HIDE DEF Turn
  <2> QED
    BY <1>11
<1> HIDE DEF from
<1>13. /\ from[n + 1] = << >>
       /\ \A i \in 1..n : from[i] = <<Unit(i)>> \o from[UnitEnd(raw, i) + 1]
  <2>1. \A i \in 1..n : from[i] = <<Unit(i)>> \o from[UnitEnd(raw, i) + 1]
    <3> SUFFICES ASSUME NEW i \in 1..n PROVE from[i] = <<Unit(i)>> \o from[UnitEnd(raw, i) + 1]
      OBVIOUS
    <3>1. i \in D /\ ~(i > n) /\ (i + 2) + 1 = i + 3
      BY <1>2
    <3> QED
      BY <1>12, <3>1 DEF Unit, UnitEnd
  <2>2. n + 1 \in D /\ n + 1 > n
    BY <1>2
  <2>3. from[n + 1] = << >>
    BY <1>12, <2>2
  <2> QED
    BY <2>1, <2>3
<1>14. \A i \in D : from[i] \in V
  <2> DEFINE T == {i \in D : from[i] \in V}
  <2>1. \A i \in 1..(n + 1) : (\A j \in (i + 1)..(n + 1) : j \in T) => i \in T
    <3> SUFFICES ASSUME NEW i \in D, \A j \in (i + 1)..(n + 1) : j \in T PROVE i \in T
      OBVIOUS
    <3>1. CASE i = n + 1
      <4>1. << >> \in V
        BY DEF V
      <4> QED
        BY <1>13, <3>1, <4>1, Zenon
    <3>2. CASE i \in 1..n
      <4>1. UnitEnd(raw, i) + 1 \in (i + 1)..(n + 1) /\ i \in D \ {n + 1}
        BY <1>2, <1>3, <3>2
      <4>2. from[UnitEnd(raw, i) + 1] \in V
        BY <4>1
      <4> QED
        BY <1>7, <1>13, <3>2, <4>1, <4>2
    <3> QED
      BY <1>5, <3>1, <3>2
  <2> HIDE DEF T
  <2>2. \A i \in 1..(n + 1) : i \in T
    <3>1. n + 1 \in Nat
      BY <1>2
    <3> QED
      BY <2>1, <3>1, Downwards, Zenon
  <2> QED
    BY <2>2 DEF T
<1>15. from \in [D -> V]
  BY <1>12, <1>14
<1> QED
  BY <1>1, <1>13, <1>15 DEF n, V, Unit

\* The unit at a place of a text: the byte there, or an escape.
Unit(raw, i) == SubSeq(raw, i, UnitEnd(raw, i))

\* What stands at a place of the text, as a unit: one byte or an escape.
LEMMA UnitAt ==
  ASSUME NEW raw \in Texts, NEW i \in 1..Len(raw)
  PROVE  /\ Unit(raw, i) \in Texts /\ Unit(raw, i)[1] = raw[i]
         /\ EscapeAt(raw, i) => /\ Len(Unit(raw, i)) = 3
                                /\ Unit(raw, i)[2] = raw[i + 1] /\ Unit(raw, i)[3] = raw[i + 2]
         /\ ~EscapeAt(raw, i) => Len(Unit(raw, i)) = 1
<1> DEFINE u == Unit(raw, i)
           e == UnitEnd(raw, i)
<1>1. Len(raw) \in Nat
  BY LenProperties DEF Texts
<1>2. e \in i..Len(raw)
  BY <1>1, UnitEnds, Zenon
<1>3. /\ u \in Texts /\ Len(u) = e - i + 1
      /\ \A k \in 1..(e - i + 1) : u[k] = raw[i + k - 1]
  BY <1>2, PiecesAreTexts, Zenon DEF Unit
<1> HIDE DEF u
<1>4. CASE EscapeAt(raw, i)
  <2>1. e = i + 2
    BY <1>4 DEF UnitEnd
  <2> HIDE DEF e
  <2>2. e - i + 1 = 3 /\ i + 1 - 1 = i /\ i + 2 - 1 = i + 1 /\ i + 3 - 1 = i + 2
    BY <1>1, <2>1
  <2>3. 1 \in 1..3 /\ 2 \in 1..3 /\ 3 \in 1..3
    OBVIOUS
  <2>4. Len(u) = 3 /\ u[1] = raw[i + 1 - 1] /\ u[2] = raw[i + 2 - 1] /\ u[3] = raw[i + 3 - 1]
    BY <1>3, <2>2, <2>3, Zenon
  <2>5. Len(u) = 3 /\ u[1] = raw[i] /\ u[2] = raw[i + 1] /\ u[3] = raw[i + 2]
    BY <2>2, <2>4, Zenon
  <2> QED
    BY <1>3, <1>4, <2>5, Zenon DEF u
<1>5. CASE ~EscapeAt(raw, i)
  <2>1. e = i
    BY <1>5 DEF UnitEnd
  <2> HIDE DEF e
  <2>2. e - i + 1 = 1 /\ i + 1 - 1 = i /\ 1 \in 1..1
    BY <1>1, <2>1
  <2>3. Len(u) = 1 /\ u[1] = raw[i]
    BY <1>3, <2>2, Zenon
  <2> QED
    BY <1>3, <1>5, <2>3, Zenon DEF u
<1> QED
  BY <1>4, <1>5, Zenon

\* What holds of the units at all places holds of the units of the walk.
LEMMA WalkElements ==
  ASSUME NEW raw \in Texts, NEW P, \A i \in 1..Len(raw) : Unit(raw, i) \in P
  PROVE  Units(raw) \in Seq(P)
<1> DEFINE n == Len(raw)
<1>1. n \in Nat
  BY LenProperties DEF Texts
<1>2. PICK w \in [1..(n + 1) -> Seq(Texts)] :
        /\ Units(raw) = w[1] /\ w[n + 1] = << >>
        /\ \A i \in 1..n : w[i] = <<Unit(raw, i)>> \o w[UnitEnd(raw, i) + 1]
  BY WalkExists, Zenon DEF Unit
<1>3. \A i \in 1..n : UnitEnd(raw, i) + 1 \in (i + 1)..(n + 1)
  BY <1>1, UnitEnds
<1> DEFINE T == {i \in 1..(n + 1) : w[i] \in Seq(P)}
<1>4. \A i \in 1..(n + 1) : (\A j \in (i + 1)..(n + 1) : j \in T) => i \in T
  <2> SUFFICES ASSUME NEW i \in 1..(n + 1), \A j \in (i + 1)..(n + 1) : j \in T
               PROVE  w[i] \in Seq(P)
    OBVIOUS
  <2>1. CASE i = n + 1
    <3>1. << >> \in Seq(P)
      OBVIOUS
    <3> QED
      BY <1>2, <2>1, <3>1, Zenon
  <2>2. CASE i \in 1..n
    <3>1. w[UnitEnd(raw, i) + 1] \in Seq(P) /\ Unit(raw, i) \in P
      BY <1>3, <2>2
    <3> QED
      <4> DEFINE u == Unit(raw, i)
                 t == w[UnitEnd(raw, i) + 1]
      <4>1. u \in P /\ t \in Seq(P) /\ w[i] = <<u>> \o t
        BY <1>2, <2>2, <3>1, Zenon
      <4> HIDE DEF u, t
      <4>2. <<u>> \o t \in Seq(P)
        BY <4>1, ConsProperties, Zenon
      <4> QED
        BY <4>1, <4>2, Zenon
  <2>3. i = n + 1 \/ i \in 1..n
    BY <1>1
  <2> QED
    BY <2>1, <2>2, <2>3
<1>5. n + 1 \in Nat /\ 1 \in 1..(n + 1)
  BY <1>1
<1> HIDE DEF T, n
<1>6. 1 \in T
  BY <1>4, <1>5, Downwards, Zenon
<1> QED
  BY <1>2, <1>6, Zenon DEF T

\* A byte, or a percent sign and two hexadecimal digits.
ProperUnits ==
  {u \in Texts : \/ Len(u) = 1
                 \/ Len(u) = 3 /\ u[1] = Percent /\ IsHex(u[2]) /\ IsHex(u[3])}

\* A unit is a byte, or a percent sign and two hexadecimal digits.
LEMMA UnitsAreProper ==
  ASSUME NEW raw \in Texts
  PROVE  Units(raw) \in Seq(ProperUnits)
<1>1. \A i \in 1..Len(raw) : Unit(raw, i) \in ProperUnits
  <2> SUFFICES ASSUME NEW i \in 1..Len(raw) PROVE Unit(raw, i) \in ProperUnits
    OBVIOUS
  <2>1. CASE EscapeAt(raw, i)
    <3>1. raw[i] = Percent /\ IsHex(raw[i + 1]) /\ IsHex(raw[i + 2])
      BY <2>1 DEF EscapeAt
    <3> QED
      BY <2>1, <3>1, UnitAt, Zenon DEF ProperUnits
  <2>2. CASE ~EscapeAt(raw, i)
    BY <2>2, UnitAt, Zenon DEF ProperUnits
  <2> QED
    BY <2>1, <2>2
<1> QED
  BY <1>1, WalkElements
-------------------------------------------------------------------------------
\* Texts in canonical form.

CanonicalShape(u) ==
  IF Len(u) = 3 THEN u[2] = UpperHex(u[2]) /\ u[3] = UpperHex(u[3])
  ELSE u[1] = Slash \/ IsUnreserved(u[1])

\* A path may be borrowed exactly when each of its units has the canonical shape.
LEMMA CanonicalByUnits ==
  ASSUME NEW path \in Texts
  PROVE  IsCanonicalPath(path) <=>
           \A k \in 1..Len(Units(path)) : CanonicalShape(Units(path)[k])
<1>1. DOMAIN Units(path) = 1..Len(Units(path))
  BY UnitsAreProper, LenProperties
<1>2. ToSet(Units(path)) = {Units(path)[k] : k \in 1..Len(Units(path))}
  BY <1>1 DEF ToSet
<1> QED
  BY <1>2 DEF IsCanonicalPath, CanonicalShape

FormAt(path, i) ==
  \/ path[i] = Slash \/ IsUnreserved(path[i])
  \/ /\ path[i] = Percent /\ i + 2 <= Len(path)
     /\ {path[i + 1], path[i + 2]} \subseteq 48..57 \cup 65..70

\* A hexadecimal digit that UpperHex leaves alone is an unreserved uppercase one.
LEMMA UppercaseHex ==
  ASSUME NEW b, IsHex(b), b = UpperHex(b)
  PROVE  b \in 48..57 \cup 65..70 /\ IsUnreserved(b)
<1>1. b \in 48..57 \/ b \in 65..70 \/ b \in 97..102
  BY DEF IsHex, Digits
<1>2. ~(b \in 97..102)
  BY DEF UpperHex
<1> QED
  BY <1>1, <1>2 DEF IsUnreserved, Digits

\* Canonical units make up a text in canonical form, byte by byte.
LEMMA CanonicalForm ==
  ASSUME NEW path \in Texts, IsCanonicalPath(path)
  PROVE  InCanonicalForm(path)
<1> DEFINE n == Len(path)
<1>1. n \in Nat /\ DOMAIN path = 1..n
  BY LenProperties DEF Texts
<1>2. PICK w \in [1..(n + 1) -> Seq(Texts)] :
        /\ Units(path) = w[1] /\ w[n + 1] = << >>
        /\ \A i \in 1..n : w[i] = <<Unit(path, i)>> \o w[UnitEnd(path, i) + 1]
  BY WalkExists, Zenon DEF Unit
<1> DEFINE Good(us) == \A k \in 1..Len(us) : CanonicalShape(us[k])
           T == {i \in 1..n : Good(w[i]) => \A j \in i..n : FormAt(path, j)}
<1>3. ASSUME NEW i \in 1..n, CanonicalShape(Unit(path, i))
      PROVE  \A j \in i..UnitEnd(path, i) : FormAt(path, j)
  <2>1. CASE EscapeAt(path, i)
    <3> DEFINE a == path[i + 1]
               b == path[i + 2]
    <3>1. /\ path[i] = Percent /\ i + 2 <= n /\ IsHex(a) /\ IsHex(b)
          /\ UnitEnd(path, i) = i + 2
      BY <2>1 DEF EscapeAt, UnitEnd
    <3>2. a = UpperHex(a) /\ b = UpperHex(b)
      <4>1. /\ Len(Unit(path, i)) = 3
            /\ Unit(path, i)[2] = path[i + 1] /\ Unit(path, i)[3] = path[i + 2]
        BY <2>1, UnitAt, Zenon
      <4> QED
        BY <1>3, <4>1, Zenon DEF CanonicalShape
    <3>3. /\ a \in 48..57 \cup 65..70 /\ IsUnreserved(a)
          /\ b \in 48..57 \cup 65..70 /\ IsUnreserved(b)
      BY <3>1, <3>2, UppercaseHex, Zenon
    <3>4. FormAt(path, i) /\ FormAt(path, i + 1) /\ FormAt(path, i + 2)
      BY <3>1, <3>3 DEF FormAt
    <3>5. \A j \in i..(i + 2) : j = i \/ j = i + 1 \/ j = i + 2
      BY <1>1
    <3> HIDE DEF FormAt
    <3> QED
      BY <3>1, <3>4, <3>5
  <2>2. CASE ~EscapeAt(path, i)
    <3>1. Len(Unit(path, i)) = 1 /\ Unit(path, i)[1] = path[i] /\ UnitEnd(path, i) = i
      BY <2>2, UnitAt, Zenon DEF UnitEnd
    <3>2. path[i] = Slash \/ IsUnreserved(path[i])
      BY <1>3, <3>1 DEF CanonicalShape
    <3>3. \A j \in i..i : j = i
      BY <1>1
    <3> QED
      BY <3>1, <3>2, <3>3 DEF FormAt
  <2> QED
    BY <2>1, <2>2
<1>4. \A i \in 1..n : UnitEnd(path, i) \in i..n
  BY <1>1, UnitEnds, Zenon
<1>5. \A i \in 1..n : (\A j \in (i + 1)..n : j \in T) => i \in T
  <2> SUFFICES ASSUME NEW i \in 1..n, \A j \in (i + 1)..n : j \in T, Good(w[i])
               PROVE  \A j \in i..n : FormAt(path, j)
    OBVIOUS
  <2> DEFINE e == UnitEnd(path, i)
             u == Unit(path, i)
             rest == w[e + 1]
  <2>1. e \in i..n /\ e + 1 \in 1..(n + 1)
    BY <1>1, <1>4
  <2>2. u \in Texts /\ rest \in Seq(Texts) /\ w[i] = <<u>> \o rest
    BY <1>2, <2>1, UnitAt, Zenon
  <2> HIDE DEF u, rest
  <2>3. /\ Len(<<u>> \o rest) = Len(rest) + 1 /\ (<<u>> \o rest)[1] = u
        /\ \A k \in 1..Len(rest) : (<<u>> \o rest)[k + 1] = rest[k]
    BY <2>2, ConsProperties
  <2>4. Len(rest) \in Nat
    BY <2>2, LenProperties
  <2>5. CanonicalShape(u)
    <3>1. 1 \in 1..Len(w[i])
      <4>1. 1 \in 1..(Len(rest) + 1)
        BY <2>4
      <4> QED
        BY <2>2, <2>3, <4>1, Zenon
    <3>2. CanonicalShape(w[i][1])
      BY <3>1, Zenon
    <3> QED
      BY <2>2, <2>3, <3>2, Zenon
  <2>6. Good(rest)
    <3> SUFFICES ASSUME NEW k \in 1..Len(rest) PROVE CanonicalShape(rest[k])
      BY Zenon
    <3>1. k + 1 \in 1..Len(w[i])
      <4>1. k + 1 \in 1..(Len(rest) + 1)
        BY <2>4
      <4> QED
        BY <2>2, <2>3, <4>1, Zenon
    <3>2. CanonicalShape(w[i][k + 1])
      BY <3>1, Zenon
    <3> QED
      BY <2>2, <2>3, <3>2, Zenon
  <2>7. \A j \in i..e : FormAt(path, j)
    BY <1>3, <2>5 DEF u
  <2>8. \A j \in (e + 1)..n : FormAt(path, j)
    <3>1. CASE e + 1 <= n
      <4>1. e + 1 \in (i + 1)..n /\ e + 1 \in 1..n
        BY <1>1, <2>1, <3>1
      <4>2. e + 1 \in T
        BY <4>1
      <4> QED
        BY <2>6, <4>1, <4>2, Zenon DEF rest
    <3>2. CASE ~(e + 1 <= n)
      BY <1>1, <2>1, <3>2
    <3> QED
      BY <3>1, <3>2
  <2>9. \A j \in i..n : j \in i..e \/ j \in (e + 1)..n
    BY <1>1, <2>1
  <2> QED
    BY <2>7, <2>8, <2>9, Zenon
<1>6. \A i \in 1..n : i \in T
  <2> HIDE DEF T, n
  <2> QED
    BY <1>1, <1>5, Downwards, Zenon
<1>7. \A j \in 1..n : FormAt(path, j)
  <2>1. Good(w[1])
    BY <1>2, CanonicalByUnits
  <2>2. \A j \in 1..n : 1 \in 1..n /\ j \in 1..n
    BY <1>1
  <2> QED
    BY <1>6, <2>1, <2>2, Zenon
<1> QED
  BY <1>1, <1>7 DEF InCanonicalForm, FormAt
-------------------------------------------------------------------------------
\* The units of a text are the only way to take it apart.
LEMMA UnitsRead ==
  ASSUME NEW raw \in Texts, NEW us \in Seq(Texts), NEW at,
         at[1] = 1, at[Len(us) + 1] = Len(raw) + 1,
         \A k \in 1..Len(us) : /\ at[k] \in 1..Len(raw) /\ us[k] = Unit(raw, at[k])
                               /\ at[k + 1] = UnitEnd(raw, at[k]) + 1
  PROVE  Units(raw) = us
<1> DEFINE n == Len(raw)
           m == Len(us)
<1>1. n \in Nat /\ m \in Nat
  BY LenProperties DEF Texts
<1>2. PICK w \in [1..(n + 1) -> Seq(Texts)] :
        /\ Units(raw) = w[1] /\ w[n + 1] = << >>
        /\ \A i \in 1..n : w[i] = <<Unit(raw, i)>> \o w[UnitEnd(raw, i) + 1]
  BY WalkExists, Zenon DEF Unit
<1> DEFINE Same(k) == /\ Len(w[at[k]]) = m + 1 - k
                      /\ \A j \in 1..(m + 1 - k) : w[at[k]][j] = us[k + j - 1]
           T == {k \in 1..(m + 1) : Same(k)}
<1> HIDE DEF n, m
<1>3. Same(m + 1)
  <2>1. w[at[m + 1]] = << >>
    BY <1>2, Zenon DEF m, n
  <2>2. Len(w[at[m + 1]]) = 0
    BY <2>1
  <2>3. m + 1 - (m + 1) = 0 /\ \A j \in 1..(m + 1 - (m + 1)) : FALSE
    BY <1>1
  <2> QED
    BY <2>2, <2>3, Zenon
<1>4. ASSUME NEW k \in 1..m, Same(k + 1) PROVE Same(k)
  <2> DEFINE u == us[k]
             t == w[at[k + 1]]
             s == w[at[k]]
  <2>1. /\ at[k] \in 1..n /\ u = Unit(raw, at[k])
        /\ at[k + 1] = UnitEnd(raw, at[k]) + 1
    BY Zenon DEF m, n
  <2>2. u \in Texts /\ t \in Seq(Texts) /\ s = <<u>> \o t
    <3>1. at[k + 1] \in 1..(n + 1)
      BY <1>1, <2>1, UnitEnds DEF n
    <3>2. w[at[k]] = <<Unit(raw, at[k])>> \o w[UnitEnd(raw, at[k]) + 1]
      BY <1>2, <2>1, Zenon
    <3>3. w[at[k + 1]] \in Seq(Texts)
      BY <1>2, <3>1
    <3>4. Unit(raw, at[k]) \in Texts
      BY <2>1, UnitAt, Zenon DEF n
    <3> QED
      BY <2>1, <3>2, <3>3, <3>4, Zenon
  <2>3. Len(t) = m + 1 - (k + 1) /\ \A j \in 1..(m + 1 - (k + 1)) : t[j] = us[k + 1 + j - 1]
    BY <1>4, Zenon
  <2> HIDE DEF u, t, s
  <2>4. /\ Len(<<u>> \o t) = Len(t) + 1 /\ (<<u>> \o t)[1] = u
        /\ \A j \in 1..Len(t) : (<<u>> \o t)[j + 1] = t[j]
    BY <2>2, ConsProperties
  <2>5. Len(s) = m + 1 - k
    <3>1. m + 1 - (k + 1) + 1 = m + 1 - k
      BY <1>1
    <3> QED
      BY <2>2, <2>3, <2>4, <3>1, Zenon
  <2>6. \A j \in 1..(m + 1 - k) : s[j] = us[k + j - 1]
    <3> SUFFICES ASSUME NEW j \in 1..(m + 1 - k) PROVE s[j] = us[k + j - 1]
      OBVIOUS
    <3>1. CASE j = 1
      <4>1. k + 1 - 1 = k
        BY <1>1
      <4> QED
        BY <2>2, <2>4, <3>1, <4>1, Zenon DEF u
    <3>2. CASE j # 1
      <4>1. /\ j - 1 \in 1..(m + 1 - (k + 1)) /\ (j - 1) + 1 = j
            /\ k + 1 + (j - 1) - 1 = k + j - 1
        BY <1>1, <3>2
      <4>2. s[(j - 1) + 1] = t[j - 1]
        BY <2>2, <2>3, <2>4, <4>1, Zenon
      <4>3. t[j - 1] = us[k + 1 + (j - 1) - 1]
        BY <2>3, <4>1, Zenon
      <4> QED
        BY <4>1, <4>2, <4>3, Zenon
    <3> QED
      BY <3>1, <3>2
  <2> QED
    BY <2>5, <2>6, Zenon DEF s
<1>5. \A k \in 1..(m + 1) : (\A j \in (k + 1)..(m + 1) : j \in T) => k \in T
  <2> SUFFICES ASSUME NEW k \in 1..(m + 1), \A j \in (k + 1)..(m + 1) : j \in T
               PROVE  Same(k)
    OBVIOUS
  <2> HIDE DEF Same
  <2>1. CASE k = m + 1
    BY <1>3, <2>1
  <2>2. CASE k \in 1..m
    <3>1. k + 1 \in (k + 1)..(m + 1)
      BY <1>1, <2>2
    <3> QED
      BY <1>4, <2>2, <3>1
  <2>3. k = m + 1 \/ k \in 1..m
    BY <1>1
  <2> QED
    BY <2>1, <2>2, <2>3
<1>6. Same(1)
  <2> HIDE DEF T, Same
  <2>1. m + 1 \in Nat /\ 1 \in 1..(m + 1)
    BY <1>1
  <2>2. 1 \in T
    BY <1>5, <2>1, Downwards, Zenon
  <2> QED
    BY <2>2 DEF T
<1>7. Units(raw) \in Seq(Texts)
  <2>1. 1 \in 1..(n + 1)
    BY <1>1
  <2> QED
    BY <1>2, <2>1
<1>8. Len(Units(raw)) = m /\ \A j \in 1..m : Units(raw)[j] = us[j]
  <2>1. m + 1 - 1 = m /\ \A j \in 1..m : 1 + j - 1 = j
    BY <1>1
  <2>2. /\ Len(Units(raw)) = m + 1 - 1
        /\ \A j \in 1..(m + 1 - 1) : Units(raw)[j] = us[1 + j - 1]
    BY <1>2, <1>6, Zenon
  <2> QED
    BY <2>1, <2>2, Zenon
<1> QED
  BY <1>7, <1>8, SeqEqual DEF m
-------------------------------------------------------------------------------
\* Putting units together: FlattenSeq, one unit at a time.
LEMMA TextConcat ==
  ASSUME NEW s \in Texts, NEW t \in Texts
  PROVE  /\ s \o t \in Texts /\ Len(s \o t) = Len(s) + Len(t)
         /\ \A i \in 1..Len(s) : (s \o t)[i] = s[i]
         /\ \A i \in 1..Len(t) : (s \o t)[Len(s) + i] = t[i]
<1>1. Len(s) \in Nat /\ Len(t) \in Nat
  BY LenProperties DEF Texts
<1>2. /\ s \o t \in Seq(Byte) /\ Len(s \o t) = Len(s) + Len(t)
      /\ \A i \in 1..(Len(s) + Len(t)) :
           (s \o t)[i] = IF i <= Len(s) THEN s[i] ELSE t[i - Len(s)]
  BY ConcatProperties, Zenon DEF Texts
<1>3. \A i \in 1..Len(s) : i \in 1..(Len(s) + Len(t)) /\ i <= Len(s)
  BY <1>1
<1>4. \A i \in 1..Len(t) : /\ Len(s) + i \in 1..(Len(s) + Len(t)) /\ ~(Len(s) + i <= Len(s))
                           /\ (Len(s) + i) - Len(s) = i
  BY <1>1
<1>5. \A i \in 1..Len(s) : (s \o t)[i] = s[i]
  BY <1>2, <1>3, Zenon
<1>6. \A i \in 1..Len(t) : (s \o t)[Len(s) + i] = t[i]
  <2> SUFFICES ASSUME NEW i \in 1..Len(t) PROVE (s \o t)[Len(s) + i] = t[i]
    OBVIOUS
  <2>1. (s \o t)[Len(s) + i] = t[(Len(s) + i) - Len(s)]
    BY <1>2, <1>4, Zenon
  <2> QED
    BY <1>4, <2>1, Zenon
<1> QED
  BY <1>2, <1>5, <1>6, Zenon DEF Texts

\* The recursion of FlattenSeq: the texts before, and the last one behind them.
LEMMA FlattenExists ==
  ASSUME NEW us \in Seq(Texts)
  PROVE  \E f \in [0..Len(us) -> Texts] :
           /\ FlattenSeq(us) = f[Len(us)] /\ f[0] = << >>
           /\ \A k \in 1..Len(us) : f[k] = f[k - 1] \o us[k]
<1> DEFINE n == Len(us)
<1>1. n \in Nat /\ \A k \in 1..n : us[k] \in Texts
  BY LenProperties, ElementOfSeq
<1>2. << >> \in Texts
  BY DEF Texts
<1>3. CASE n = 0
  <2> DEFINE f == [k \in 0..n |-> << >>]
  <2>1. us = << >>
    BY <1>3, EmptySeq
  <2>2. FlattenSeq(us) = us
    BY <1>3 DEF FlattenSeq
  <2>3. f \in [0..n -> Texts] /\ f[0] = << >> /\ f[n] = << >> /\ \A k \in 1..n : FALSE
    BY <1>2, <1>3
  <2> QED
    BY <2>1, <2>2, <2>3
<1>4. CASE n # 0
  <2> DEFINE D == 1..n
             Turn(g) == [i \in D |-> IF i = 1 THEN us[i] ELSE g[i - 1] \o us[i]]
             flatten == CHOOSE g : g = Turn(g)
             rank == [i \in D |-> i]
             next == [i \in D |-> i - 1]
             turn == [i \in D |-> [v \in Texts |-> v \o us[i]]]
  <2>1. FlattenSeq(us) = flatten[n]
    BY <1>4, Zenon DEF FlattenSeq
  <2>2. Descends(D, Texts, {1}, n + 1, rank, next, us, turn)
    <3>1. n + 1 \in Nat /\ rank \in [D -> Nat] /\ \A i \in D : rank[i] < n + 1
      BY <1>1
    <3>2. \A i \in D \ {1} : next[i] \in D /\ rank[next[i]] < rank[i]
      BY <1>1
    <3>3. \A i \in D : us[i] \in Texts
      BY <1>1
    <3>4. \A i \in D : \A v \in Texts : turn[i][v] \in Texts
      BY <3>3, TextConcat
    <3> HIDE DEF D, rank, next, turn
    <3> QED
      BY <3>1, <3>2, <3>3, <3>4 DEF Descends
  <2> HIDE DEF rank, next, turn
  <2>3. PICK g \in [D -> Texts] :
          \A i \in D : g[i] = IF i \in {1} THEN us[i] ELSE turn[i][g[next[i]]]
    BY <2>2, RecursionExists
  <2>4. \A i \in D : i # 1 => i - 1 \in D
    BY <1>1
  <2>5. \A i \in D : g[i] = IF i = 1 THEN us[i] ELSE g[i - 1] \o us[i]
    BY <2>3, <2>4 DEF turn, next
  <2>6. g = Turn(g)
    BY <2>3, <2>5
  <2>7. flatten = Turn(flatten)
    <3> HIDE DEF Turn
    <3> QED
      BY <2>6
  <2> HIDE DEF flatten
  <2>8. \A i \in D : flatten[i] = IF i = 1 THEN us[i] ELSE flatten[i - 1] \o us[i]
    BY <2>7
  <2> DEFINE f == [k \in 0..n |-> IF k = 0 THEN << >> ELSE flatten[k]]
             T == {k \in 0..n : f[k] \in Texts}
  <2>9. f[0] = << >> /\ f[n] = flatten[n]
    BY <1>1, <1>4
  <2>10. \A k \in 1..n : f[k] = f[k - 1] \o us[k]
    <3> SUFFICES ASSUME NEW k \in 1..n PROVE f[k] = f[k - 1] \o us[k]
      OBVIOUS
    <3>1. CASE k = 1
      <4>1. f[1] = us[1] /\ f[1 - 1] = << >>
        BY <1>1, <2>8, <3>1
      <4>2. << >> \o us[1] = us[1]
        BY <1>1, <3>1, ConcatEmptySeq DEF Texts
      <4> HIDE DEF f
      <4> QED
        BY <3>1, <4>1, <4>2
    <3>2. CASE k # 1
      <4>1. f[k] = flatten[k] /\ f[k - 1] = flatten[k - 1]
        BY <1>1, <3>2
      <4> HIDE DEF f
      <4> QED
        BY <2>8, <3>2, <4>1
    <3> QED
      BY <3>1, <3>2
  <2>11. f \in [0..n -> Texts]
    <3>1. 0 \in T
      BY <1>1, <1>2
    <3>2. \A k \in 0..(n - 1) : k \in T => k + 1 \in T
      <4> SUFFICES ASSUME NEW k \in 0..(n - 1), f[k] \in Texts PROVE k + 1 \in T
        OBVIOUS
      <4> HIDE DEF f
      <4>1. k + 1 \in 1..n /\ k + 1 \in 0..n /\ (k + 1) - 1 = k
        BY <1>1
      <4>2. f[k + 1] = f[k] \o us[k + 1] /\ us[k + 1] \in Texts
        BY <1>1, <2>10, <4>1
      <4>3. f[k + 1] \in Texts
        BY <4>2, TextConcat
      <4> QED
        BY <4>1, <4>3
    <3>3. \A k \in 0..n : k \in T
      <4> HIDE DEF T
      <4> QED
        BY <1>1, <3>1, <3>2, Upwards
    <3> QED
      BY <3>3
  <2> HIDE DEF f
  <2> QED
    BY <2>1, <2>9, <2>10, <2>11
<1> QED
  BY <1>3, <1>4

\* Texts put together of units are taken apart into the same ones, if no unit
\* is a percent sign alone, which could become an escape with what follows.
SoundUnits == {u \in ProperUnits : Len(u) = 1 => u[1] # Percent}

\* A sound unit, wherever it stands in a text, is what the walk reads there.
LEMMA UnitAgain ==
  ASSUME NEW raw \in Texts, NEW u \in SoundUnits, NEW at \in Nat,
         at + Len(u) <= Len(raw), \A j \in 1..Len(u) : raw[at + j] = u[j]
  PROVE  /\ at + 1 \in 1..Len(raw) /\ Unit(raw, at + 1) = u
         /\ UnitEnd(raw, at + 1) = at + Len(u)
<1>1. Len(raw) \in Nat
  BY LenProperties DEF Texts
<1>2. /\ u \in Texts
      /\ \/ Len(u) = 1 /\ u[1] # Percent
         \/ Len(u) = 3 /\ u[1] = Percent /\ IsHex(u[2]) /\ IsHex(u[3])
  BY DEF SoundUnits, ProperUnits
<1>3. CASE Len(u) = 1
  <2>1. at + 1 \in 1..Len(raw) /\ raw[at + 1] = u[1]
    BY <1>1, <1>3
  <2>2. ~EscapeAt(raw, at + 1)
    BY <1>2, <1>3, <2>1 DEF EscapeAt
  <2>3. /\ Unit(raw, at + 1) \in Texts /\ Unit(raw, at + 1)[1] = u[1]
        /\ Len(Unit(raw, at + 1)) = 1
    BY <2>1, <2>2, UnitAt, Zenon
  <2>4. \A j \in 1..1 : Unit(raw, at + 1)[j] = u[j]
    BY <2>3
  <2>5. Unit(raw, at + 1) = u
    BY <1>2, <1>3, <2>3, <2>4, SeqEqual, Zenon DEF Texts
  <2> QED
    BY <1>3, <2>1, <2>2, <2>5 DEF UnitEnd
<1>4. CASE Len(u) = 3
  <2>1. /\ at + 1 \in 1..Len(raw) /\ at + 1 + 2 <= Len(raw)
        /\ raw[at + 1] = u[1] /\ raw[at + 1 + 1] = u[2] /\ raw[at + 1 + 2] = u[3]
    <3>1. 1 \in 1..3 /\ 2 \in 1..3 /\ 3 \in 1..3
      OBVIOUS
    <3>2. raw[at + 1] = u[1] /\ raw[at + 2] = u[2] /\ raw[at + 3] = u[3]
      BY <1>4, <3>1
    <3>3. at + 1 + 1 = at + 2 /\ at + 1 + 2 = at + 3 /\ at + 1 \in 1..Len(raw)
          /\ at + 3 <= Len(raw)
      BY <1>1, <1>4
    <3> QED
      BY <3>2, <3>3, Zenon
  <2>2. EscapeAt(raw, at + 1)
    BY <1>2, <1>4, <2>1 DEF EscapeAt
  <2>3. /\ Unit(raw, at + 1) \in Texts /\ Len(Unit(raw, at + 1)) = 3
        /\ Unit(raw, at + 1)[1] = u[1] /\ Unit(raw, at + 1)[2] = u[2]
        /\ Unit(raw, at + 1)[3] = u[3]
    BY <2>1, <2>2, UnitAt, Zenon
  <2>4. \A j \in 1..3 : Unit(raw, at + 1)[j] = u[j]
    <3>1. \A j \in 1..3 : j = 1 \/ j = 2 \/ j = 3
      OBVIOUS
    <3> QED
      BY <2>3, <3>1
  <2>5. Unit(raw, at + 1) = u
    BY <1>2, <1>4, <2>3, <2>4, SeqEqual, Zenon DEF Texts
  <2>6. UnitEnd(raw, at + 1) = at + 1 + 2
    BY <2>2 DEF UnitEnd
  <2> QED
    BY <1>4, <2>1, <2>5, <2>6
<1> QED
  BY <1>2, <1>3, <1>4

\* Sound units put together are taken apart into the same units.
LEMMA FlattenUnits ==
  ASSUME NEW us \in Seq(SoundUnits)
  PROVE  FlattenSeq(us) \in Texts /\ Units(FlattenSeq(us)) = us
<1> DEFINE m == Len(us)
<1>1. m \in Nat /\ us \in Seq(Texts) /\ \A k \in 1..m : us[k] \in SoundUnits /\ us[k] \in Texts
  <2>1. \A k \in 1..m : us[k] \in SoundUnits
    BY ElementOfSeq
  <2>2. SoundUnits \subseteq Texts
    BY DEF SoundUnits, ProperUnits
  <2> QED
    BY <2>1, <2>2, LenProperties
<1>2. PICK f \in [0..m -> Texts] :
        /\ FlattenSeq(us) = f[m] /\ f[0] = << >>
        /\ \A k \in 1..m : f[k] = f[k - 1] \o us[k]
  BY <1>1, FlattenExists
<1> DEFINE raw == f[m]
           At(k) == Len(f[k])
<1> HIDE DEF m
<1>3. raw \in Texts /\ \A k \in 0..m : At(k) \in Nat
  <2>1. \A k \in 0..m : f[k] \in Seq(Byte)
    BY <1>2 DEF Texts
  <2>2. \A k \in 0..m : Len(f[k]) \in Nat
    BY <2>1, LenProperties
  <2>3. m \in 0..m
    BY <1>1
  <2> QED
    BY <1>2, <2>2, <2>3
<1>4. \A k \in 1..m :
        /\ At(k) = At(k - 1) + Len(us[k])
        /\ \A i \in 1..At(k - 1) : f[k][i] = f[k - 1][i]
        /\ \A j \in 1..Len(us[k]) : f[k][At(k - 1) + j] = us[k][j]
  <2> SUFFICES ASSUME NEW k \in 1..m
               PROVE  /\ At(k) = At(k - 1) + Len(us[k])
                      /\ \A i \in 1..At(k - 1) : f[k][i] = f[k - 1][i]
                      /\ \A j \in 1..Len(us[k]) : f[k][At(k - 1) + j] = us[k][j]
    OBVIOUS
  <2>1. k - 1 \in 0..m
    BY <1>1
  <2>2. f[k - 1] \in Texts /\ us[k] \in Texts /\ f[k] = f[k - 1] \o us[k]
    BY <1>1, <1>2, <2>1
  <2> DEFINE s == f[k - 1]
             t == us[k]
  <2> HIDE DEF s, t
  <2>3. /\ Len(s \o t) = Len(s) + Len(t)
        /\ \A i \in 1..Len(s) : (s \o t)[i] = s[i]
        /\ \A i \in 1..Len(t) : (s \o t)[Len(s) + i] = t[i]
    BY <2>2, TextConcat DEF s, t
  <2> QED
    BY <2>2, <2>3, Zenon DEF s, t
<1> DEFINE Prefix(k) == At(k) <= At(m) /\ \A i \in 1..At(k) : raw[i] = f[k][i]
<1>5. \A k \in 0..m : Prefix(k)
  <2> DEFINE T == {d \in 0..m : Prefix(m - d)}
  <2>1. 0 \in T
    <3>1. m - 0 = m /\ 0 \in 0..m /\ m \in 0..m
      BY <1>1
    <3> QED
      BY <1>3, <3>1
  <2>2. \A d \in 0..(m - 1) : d \in T => d + 1 \in T
    <3> SUFFICES ASSUME NEW d \in 0..(m - 1), d \in T PROVE d + 1 \in T
      OBVIOUS
    <3> DEFINE k == m - d
    <3>1. k \in 1..m /\ k \in 0..m /\ k - 1 \in 0..m /\ m - (d + 1) = k - 1 /\ d + 1 \in 0..m
      BY <1>1
    <3>2. Prefix(k)
      OBVIOUS
    <3> HIDE DEF k, T
    <3>3. Len(us[k]) \in Nat
      BY <1>1, <3>1, LenProperties DEF Texts
    <3>4. At(k - 1) <= At(m) /\ \A i \in 1..At(k - 1) : i \in 1..At(k)
      <4>1. At(k) = At(k - 1) + Len(us[k]) /\ At(k) \in Nat /\ At(k - 1) \in Nat /\ At(m) \in Nat
        <5>1. m \in 0..m
          BY <1>1
        <5> QED
          BY <1>3, <1>4, <3>1, <5>1, Zenon
      <4> HIDE DEF At
      <4> QED
        BY <3>2, <3>3, <4>1
    <3>5. \A i \in 1..At(k - 1) : raw[i] = f[k - 1][i]
      BY <1>4, <3>1, <3>2, <3>4, Zenon
    <3>6. Prefix(m - (d + 1))
      BY <3>1, <3>4, <3>5, Zenon
    <3> QED
      BY <3>1, <3>6 DEF T
  <2> HIDE DEF T
  <2>3. \A d \in 0..m : d \in T
    BY <1>1, <2>1, <2>2, Upwards, Zenon
  <2> SUFFICES ASSUME NEW k \in 0..m PROVE Prefix(k)
    OBVIOUS
  <2>4. m - k \in 0..m /\ m - (m - k) = k
    BY <1>1
  <2>5. Prefix(m - (m - k))
    BY <2>3, <2>4, Zenon DEF T
  <2> HIDE DEF Prefix
  <2> QED
    BY <2>4, <2>5, Zenon
<1>6. \A k \in 1..m :
        /\ At(k - 1) \in Nat /\ At(k - 1) + Len(us[k]) = At(k) /\ At(k) <= Len(raw)
        /\ \A j \in 1..Len(us[k]) : raw[At(k - 1) + j] = us[k][j]
  <2> SUFFICES ASSUME NEW k \in 1..m
               PROVE  /\ At(k - 1) \in Nat /\ At(k - 1) + Len(us[k]) = At(k) /\ At(k) <= Len(raw)
                      /\ \A j \in 1..Len(us[k]) : raw[At(k - 1) + j] = us[k][j]
    OBVIOUS
  <2>1. k \in 0..m /\ k - 1 \in 0..m
    BY <1>1
  <2>2. Len(us[k]) \in Nat
    BY <1>1, LenProperties DEF Texts
  <2>3. /\ At(k - 1) \in Nat /\ At(k - 1) + Len(us[k]) = At(k) /\ At(k) <= Len(raw)
    BY <1>3, <1>4, <1>5, <2>1, Zenon
  <2>4. \A j \in 1..Len(us[k]) : At(k - 1) + j \in 1..At(k)
    <3> HIDE DEF At
    <3> QED
      BY <2>2, <2>3
  <2>5. \A j \in 1..Len(us[k]) : raw[At(k - 1) + j] = us[k][j]
    BY <1>4, <1>5, <2>1, <2>4, Zenon
  <2> QED
    BY <2>3, <2>5, Zenon
<1> DEFINE at == [k \in 1..(m + 1) |-> At(k - 1) + 1]
<1>7. at[1] = 1 /\ at[m + 1] = Len(raw) + 1
  <2>1. 1 \in 1..(m + 1) /\ m + 1 \in 1..(m + 1) /\ 1 - 1 = 0 /\ (m + 1) - 1 = m
    BY <1>1
  <2>2. At(0) = 0
    BY <1>2
  <2> HIDE DEF At
  <2>3. at[1] = At(0) + 1 /\ at[m + 1] = At(m) + 1
    BY <2>1
  <2> QED
    BY <2>2, <2>3 DEF At
<1>8. \A k \in 1..m : at[k] = At(k - 1) + 1 /\ at[k + 1] = At(k) + 1
  <2>1. \A k \in 1..m : k \in 1..(m + 1) /\ k + 1 \in 1..(m + 1) /\ (k + 1) - 1 = k
    BY <1>1
  <2> HIDE DEF At
  <2> QED
    BY <2>1
<1>9. \A k \in 1..m : /\ at[k] \in 1..Len(raw) /\ us[k] = Unit(raw, at[k])
                      /\ at[k + 1] = UnitEnd(raw, at[k]) + 1
  <2> SUFFICES ASSUME NEW k \in 1..m
               PROVE  /\ at[k] \in 1..Len(raw) /\ us[k] = Unit(raw, at[k])
                      /\ at[k + 1] = UnitEnd(raw, at[k]) + 1
    OBVIOUS
  <2> DEFINE a == At(k - 1)
  <2>1. /\ a \in Nat /\ a + Len(us[k]) = At(k) /\ a + Len(us[k]) <= Len(raw)
        /\ \A j \in 1..Len(us[k]) : raw[a + j] = us[k][j]
    BY <1>6, Zenon
  <2>2. us[k] \in SoundUnits /\ at[k] = a + 1 /\ at[k + 1] = At(k) + 1
    BY <1>1, <1>8, Zenon
  <2> HIDE DEF a, raw, at, At
  <2>3. /\ a + 1 \in 1..Len(raw) /\ Unit(raw, a + 1) = us[k]
        /\ UnitEnd(raw, a + 1) = a + Len(us[k])
    BY <1>3, <2>1, <2>2, UnitAgain, Zenon
  <2> QED
    BY <2>1, <2>2, <2>3, Zenon
<1> HIDE DEF at, raw, At
<1>10. Units(raw) = us
  BY <1>1, <1>3, <1>7, <1>9, UnitsRead, Zenon DEF m
<1> QED
  BY <1>2, <1>3, <1>10, Zenon DEF raw
-------------------------------------------------------------------------------
\* canonical_uri_from_valid_path, unit by unit.

\* Uppercase or lowercase, a hexadecimal digit means the same number.
LEMMA HexKept ==
  ASSUME NEW b, IsHex(b)
  PROVE  /\ IsHex(UpperHex(b)) /\ UpperHex(UpperHex(b)) = UpperHex(b)
         /\ FromHex(UpperHex(b)) = FromHex(b) /\ UpperHex(b) \in Byte
<1>1. b \in 48..57 \/ b \in 65..70 \/ b \in 97..102
  BY DEF IsHex, Digits
<1>2. CASE b \in 48..57 \/ b \in 65..70
  <2>1. UpperHex(b) = b /\ b \in Byte
    BY <1>2 DEF UpperHex, Byte
  <2> QED
    BY <2>1
<1>3. CASE b \in 97..102
  <2>1. UpperHex(b) = b - 32 /\ b - 32 \in 65..70
    BY <1>3 DEF UpperHex
  <2>2. UpperHex(b - 32) = b - 32 /\ b - 32 \in Byte /\ IsHex(b - 32)
    BY <2>1 DEF UpperHex, Byte, IsHex, Digits
  <2>3. b \notin Digits /\ b - 32 \notin Digits
    BY <1>3 DEF Digits
  <2> QED
    BY <2>1, <2>2, <2>3 DEF FromHex
<1> QED
  BY <1>1, <1>2, <1>3

\* What HexUpper writes is an uppercase digit, and FromHex reads it back.
LEMMA HexWritten ==
  ASSUME NEW n \in 0..15
  PROVE  /\ IsHex(HexUpper(n)) /\ UpperHex(HexUpper(n)) = HexUpper(n)
         /\ FromHex(HexUpper(n)) = n /\ HexUpper(n) \in Byte
<1>1. CASE n < 10
  <2>1. HexUpper(n) = n + 48 /\ n + 48 \in 48..57
    BY <1>1 DEF HexUpper
  <2>2. /\ n + 48 \in Digits /\ UpperHex(n + 48) = n + 48 /\ n + 48 \in Byte
        /\ (n + 48) - 48 = n
    BY <2>1 DEF Digits, UpperHex, Byte
  <2> QED
    BY <2>1, <2>2 DEF FromHex, IsHex
<1>2. CASE ~(n < 10)
  <2>1. HexUpper(n) = n + 55 /\ n + 55 \in 65..70
    BY <1>2 DEF HexUpper
  <2>2. /\ n + 55 \notin Digits /\ UpperHex(n + 55) = n + 55 /\ n + 55 \in Byte
        /\ (n + 55) - 55 = n
    BY <2>1 DEF Digits, UpperHex, Byte
  <2> QED
    BY <2>1, <2>2 DEF FromHex, IsHex
<1> QED
  BY <1>1, <1>2

\* A percent sign and two hexadecimal digits are a sound unit, the byte of the digits.
LEMMA EscapeUnit ==
  ASSUME NEW a, NEW b, IsHex(a), IsHex(b), a \in Byte, b \in Byte
  PROVE  /\ <<Percent, a, b>> \in SoundUnits
         /\ Len(<<Percent, a, b>>) = 3 /\ <<Percent, a, b>>[2] = a /\ <<Percent, a, b>>[3] = b
         /\ ByteOf(<<Percent, a, b>>) = FromHex(a) * 16 + FromHex(b)
<1>1. Percent \in Byte
  BY DEF Percent, Byte
<1> DEFINE u == <<Percent, a, b>>
<1>2. u \in Texts /\ Len(u) = 3 /\ u[1] = Percent /\ u[2] = a /\ u[3] = b
  BY <1>1 DEF Texts
<1> HIDE DEF u
<1> QED
  BY <1>2 DEF SoundUnits, ProperUnits, ByteOf, u

\* CanonicalUnit keeps the byte of a unit and gives it the canonical shape.
LEMMA CanonicalUnits ==
  ASSUME NEW u \in SoundUnits
  PROVE  /\ CanonicalUnit(u) \in SoundUnits
         /\ CanonicalShape(CanonicalUnit(u))
         /\ ByteOf(CanonicalUnit(u)) = ByteOf(u)
<1>1. /\ u \in Texts
      /\ \/ Len(u) = 1 /\ u[1] # Percent
         \/ Len(u) = 3 /\ u[1] = Percent /\ IsHex(u[2]) /\ IsHex(u[3])
  BY DEF SoundUnits, ProperUnits
<1>2. CASE Len(u) = 3
  <2> DEFINE a == UpperHex(u[2])
             b == UpperHex(u[3])
  <2>1. /\ IsHex(a) /\ UpperHex(a) = a /\ a \in Byte /\ FromHex(a) = FromHex(u[2])
        /\ IsHex(b) /\ UpperHex(b) = b /\ b \in Byte /\ FromHex(b) = FromHex(u[3])
    BY <1>1, <1>2, HexKept
  <2>2. CanonicalUnit(u) = <<Percent, a, b>>
    BY <1>2 DEF CanonicalUnit
  <2>3. ByteOf(u) = FromHex(u[2]) * 16 + FromHex(u[3])
    BY <1>2 DEF ByteOf
  <2> HIDE DEF a, b
  <2> DEFINE v == <<Percent, a, b>>
  <2>4. v \in SoundUnits /\ Len(v) = 3 /\ v[2] = a /\ v[3] = b
        /\ ByteOf(v) = FromHex(a) * 16 + FromHex(b)
    BY <2>1, EscapeUnit
  <2> HIDE DEF v
  <2>5. CanonicalShape(v)
    BY <2>1, <2>4 DEF CanonicalShape
  <2> QED
    BY <2>1, <2>2, <2>3, <2>4, <2>5 DEF v
<1>3. CASE Len(u) = 1 /\ (u[1] = Slash \/ IsUnreserved(u[1]))
  BY <1>3 DEF CanonicalUnit, CanonicalShape
<1>4. CASE Len(u) = 1 /\ ~(u[1] = Slash \/ IsUnreserved(u[1]))
  <2> DEFINE byte == u[1]
             a == HexUpper(byte \div 16)
             b == HexUpper(byte % 16)
  <2>1. byte \in Byte
    <3>1. 1 \in 1..Len(u)
      BY <1>4
    <3> QED
      BY <1>1, <3>1, ElementOfSeq DEF Texts
  <2>2. byte \div 16 \in 0..15 /\ byte % 16 \in 0..15 /\ (byte \div 16) * 16 + (byte % 16) = byte
    <3> HIDE DEF byte
    <3>1. byte \in Nat /\ byte <= 255
      BY <2>1 DEF Byte
    <3>2. byte \div 16 \in 0..15
      BY <3>1
    <3>3. byte % 16 \in 0..15
      BY <3>1
    <3>4. (byte \div 16) * 16 + (byte % 16) = byte
      BY <3>1
    <3> QED
      BY <3>2, <3>3, <3>4
  <2>3. /\ IsHex(a) /\ UpperHex(a) = a /\ a \in Byte /\ FromHex(a) = byte \div 16
        /\ IsHex(b) /\ UpperHex(b) = b /\ b \in Byte /\ FromHex(b) = byte % 16
    BY <2>2, HexWritten
  <2>4. CanonicalUnit(u) = <<Percent, a, b>>
    BY <1>4 DEF CanonicalUnit, Escaped
  <2>5. ByteOf(u) = byte
    BY <1>4 DEF ByteOf
  <2> HIDE DEF a, b, byte
  <2> DEFINE v == <<Percent, a, b>>
  <2>6. v \in SoundUnits /\ Len(v) = 3 /\ v[2] = a /\ v[3] = b
        /\ ByteOf(v) = FromHex(a) * 16 + FromHex(b)
    BY <2>3, EscapeUnit
  <2> HIDE DEF v
  <2>7. CanonicalShape(v)
    BY <2>3, <2>6 DEF CanonicalShape
  <2>8. ByteOf(v) = byte
    BY <2>2, <2>3, <2>6, Zenon
  <2> QED
    BY <2>4, <2>5, <2>6, <2>7, <2>8 DEF v
<1> QED
  BY <1>1, <1>2, <1>3, <1>4

\* The units of a well-formed path are sound: no percent sign on its own.
LEMMA WellFormedUnits ==
  ASSUME NEW path \in Texts, WellFormed(path)
  PROVE  Units(path) \in Seq(SoundUnits)
<1> DEFINE us == Units(path)
<1>1. us \in Seq(ProperUnits)
  BY UnitsAreProper
<1>2. \A k \in 1..Len(us) : us[k] \in ProperUnits /\ us[k] # <<Percent>>
  <2>1. DOMAIN us = 1..Len(us)
    BY <1>1, LenProperties
  <2>2. \A k \in 1..Len(us) : us[k] \in ToSet(us)
    BY <2>1 DEF ToSet
  <2>3. \A k \in 1..Len(us) : us[k] \in ProperUnits
    BY <1>1, ElementOfSeq
  <2> QED
    BY <2>2, <2>3, Zenon DEF WellFormed
<1> HIDE DEF us
<1>3. \A k \in 1..Len(us) : us[k] \in SoundUnits
  <2> SUFFICES ASSUME NEW k \in 1..Len(us), Len(us[k]) = 1, us[k][1] = Percent PROVE FALSE
    BY <1>2 DEF SoundUnits
  <2> DEFINE u == us[k]
  <2>1. u \in Seq(Byte)
    BY <1>2 DEF ProperUnits, Texts
  <2>2. <<Percent>> \in Seq(Byte) /\ Len(<<Percent>>) = 1 /\ <<Percent>>[1] = Percent
    BY DEF Percent, Byte
  <2>3. \A j \in 1..1 : u[j] = <<Percent>>[j]
    BY <2>2
  <2>4. u = <<Percent>>
    BY <2>1, <2>2, <2>3, SeqEqual, Zenon
  <2> QED
    BY <1>2, <2>4
<1> QED
  BY <1>1, <1>3, LenProperties DEF us

\* For every well-formed path there is, and so for every valid one.
THEOREM CanonicalPath ==
  ASSUME NEW path \in Texts, WellFormed(path)
  PROVE  LET canonical == CanonicalUri(path) IN
         /\ canonical \in Texts /\ Units(canonical) \in Seq(SoundUnits)
         /\ InCanonicalForm(canonical)
         /\ CanonicalUri(canonical) = canonical
         /\ Decode(canonical) = Decode(path)
<1>1. CASE IsCanonicalPath(path)
  <2>1. CanonicalUri(path) = path
    BY <1>1 DEF CanonicalUri
  <2> QED
    BY <1>1, <2>1, CanonicalForm, WellFormedUnits
<1>2. CASE ~IsCanonicalPath(path)
  <2> DEFINE us == Units(path)
             vs == [k \in DOMAIN us |-> CanonicalUnit(us[k])]
             canonical == FlattenSeq(vs)
  <2>1. CanonicalUri(path) = canonical
    BY <1>2 DEF CanonicalUri
  <2>2. us \in Seq(SoundUnits) /\ DOMAIN us = 1..Len(us) /\ Len(us) \in Nat
        /\ \A k \in 1..Len(us) : us[k] \in SoundUnits
    BY WellFormedUnits, LenProperties, ElementOfSeq
  <2> HIDE DEF us
  <2>3. /\ vs \in Seq(SoundUnits) /\ Len(vs) = Len(us) /\ DOMAIN vs = DOMAIN us
        /\ \A k \in 1..Len(us) : vs[k] = CanonicalUnit(us[k])
    <3>1. \A k \in 1..Len(us) : CanonicalUnit(us[k]) \in SoundUnits
      BY <2>2, CanonicalUnits
    <3> QED
      BY <2>2, <3>1
  <2> HIDE DEF vs
  <2>4. canonical \in Texts /\ Units(canonical) = vs
    BY <2>3, FlattenUnits
  <2> HIDE DEF canonical
  <2>5. IsCanonicalPath(canonical)
    <3>1. \A k \in 1..Len(vs) : CanonicalShape(vs[k])
      BY <2>2, <2>3, CanonicalUnits
    <3> QED
      BY <2>4, <3>1, CanonicalByUnits
  <2>6. CanonicalUri(canonical) = canonical
    BY <2>5 DEF CanonicalUri
  <2>7. Decode(canonical) = Decode(path)
    <3>1. \A k \in DOMAIN us : ByteOf(vs[k]) = ByteOf(us[k])
      BY <2>2, <2>3, CanonicalUnits
    <3>2. Decode(canonical) = [k \in DOMAIN vs |-> ByteOf(vs[k])]
      BY <2>4 DEF Decode
    <3>3. Decode(path) = [k \in DOMAIN us |-> ByteOf(us[k])]
      BY DEF Decode, us
    <3> QED
      BY <2>3, <3>1, <3>2, <3>3
  <2> QED
    BY <2>1, <2>3, <2>4, <2>5, <2>6, <2>7, CanonicalForm
<1> QED
  BY <1>1, <1>2
-------------------------------------------------------------------------------
\* Split, from any place of a text on.

\* A cut between two places of a text is a text.
LEMMA SubTexts ==
  ASSUME NEW raw \in Texts, NEW i \in 1..(Len(raw) + 1), NEW j \in (i - 1)..Len(raw)
  PROVE  /\ SubSeq(raw, i, j) \in Texts /\ Len(SubSeq(raw, i, j)) = j - i + 1
         /\ \A k \in 1..(j - i + 1) : SubSeq(raw, i, j)[k] = raw[i + k - 1]
<1>1. Len(raw) \in Nat
  BY LenProperties DEF Texts
<1>2. \A k \in 1..Len(raw) : raw[k] \in Byte
  BY ElementOfSeq DEF Texts
<1>3. i \in Int /\ j \in Int /\ \A k \in i..j : k \in 1..Len(raw)
  BY <1>1
<1>4. \A k \in i..j : raw[k] \in Byte
  BY <1>2, <1>3, Zenon
<1>5. /\ SubSeq(raw, i, j) \in Seq(Byte)
      /\ Len(SubSeq(raw, i, j)) = IF i <= j THEN j - i + 1 ELSE 0
      /\ \A k \in 1..(j - i + 1) : SubSeq(raw, i, j)[k] = raw[i + k - 1]
  BY <1>3, <1>4, SubSeqProperties
<1>6. ~(i <= j) => j - i + 1 = 0
  BY <1>1
<1> QED
  BY <1>5, <1>6, Zenon DEF Texts

\* Where the piece that starts at i is cut off.
Cut(raw, sep, i) == Min({k \in i..Len(raw) : raw[k] = sep} \cup {Len(raw) + 1})

\* Where the next separator stands, or the end of the text.
LEMMA Cuts ==
  ASSUME NEW raw \in Texts, NEW sep, NEW i \in 1..(Len(raw) + 1)
  PROVE  /\ Cut(raw, sep, i) \in i..(Len(raw) + 1)
         /\ Cut(raw, sep, i) <= Len(raw) => raw[Cut(raw, sep, i)] = sep
         /\ \A k \in i..(Cut(raw, sep, i) - 1) : raw[k] # sep
<1> DEFINE n == Len(raw)
           S == {k \in i..n : raw[k] = sep} \cup {n + 1}
           c == Cut(raw, sep, i)
<1>1. n \in Nat
  BY LenProperties DEF Texts
<1>2. c = CHOOSE x \in S : \A y \in S : x <= y
  BY Zenon DEF Cut, Min
<1> HIDE DEF n, c
<1>3. S \subseteq Nat /\ S # {}
  BY <1>1
<1>4. c \in S /\ \A y \in S : c <= y
  <2> HIDE DEF S
  <2>1. \E x \in S : \A y \in S : x <= y
    BY <1>3, LeastMember
  <2> QED
    BY <1>2, <2>1
<1>5. c \in i..(n + 1) /\ (c <= n => raw[c] = sep)
  BY <1>1, <1>4 DEF n
<1>6. \A k \in i..(c - 1) : k \in i..n /\ ~(c <= k)
  BY <1>1, <1>5 DEF n
<1>7. \A k \in i..(c - 1) : raw[k] # sep
  BY <1>4, <1>6, Zenon
<1> QED
  BY <1>5, <1>7, Zenon DEF c, n

\* The first place from i on with a separator, or the end of the text.
IsCut(raw, sep, i, c) ==
  /\ c \in i..(Len(raw) + 1) /\ (c <= Len(raw) => raw[c] = sep)
  /\ \A k \in i..(c - 1) : raw[k] # sep

\* There is only one such place.
LEMMA CutIs ==
  ASSUME NEW raw \in Texts, NEW sep, NEW i \in 1..(Len(raw) + 1), NEW c, IsCut(raw, sep, i, c)
  PROVE  Cut(raw, sep, i) = c
<1> USE DEF IsCut
<1> DEFINE d == Cut(raw, sep, i)
<1>1. Len(raw) \in Nat
  BY LenProperties DEF Texts
<1>2. /\ d \in i..(Len(raw) + 1) /\ (d <= Len(raw) => raw[d] = sep)
      /\ \A k \in i..(d - 1) : raw[k] # sep
  BY Cuts, Zenon
<1> HIDE DEF d
<1>3. ~(d < c)
  <2> SUFFICES ASSUME d < c PROVE FALSE
    OBVIOUS
  <2>1. d <= Len(raw) /\ d \in i..(c - 1)
    BY <1>1, <1>2
  <2> QED
    BY <1>2, <2>1, Zenon
<1>4. ~(c < d)
  <2> SUFFICES ASSUME c < d PROVE FALSE
    OBVIOUS
  <2>1. c <= Len(raw) /\ c \in i..(d - 1)
    BY <1>1, <1>2
  <2> QED
    BY <1>2, <2>1, Zenon
<1>5. d = c
  BY <1>1, <1>2, <1>3, <1>4
<1> QED
  BY <1>5 DEF d

\* The recursive function of Split exists: one equation per place of the text.
LEMMA SplitExists ==
  ASSUME NEW raw \in Texts, NEW sep
  PROVE  \E w \in [1..(Len(raw) + 1) -> Seq(Texts)] :
           /\ Split(raw, sep) = w[1]
           /\ \A i \in 1..(Len(raw) + 1) : LET c == Cut(raw, sep, i) IN
                w[i] = <<SubSeq(raw, i, c - 1)>> \o IF c > Len(raw) THEN << >> ELSE w[c + 1]
<1> DEFINE n == Len(raw)
           D == 1..(n + 1)
           V == Seq(Texts)
           c(i) == Cut(raw, sep, i)
           Piece(i) == SubSeq(raw, i, c(i) - 1)
           Turn(f) == [i \in D |-> <<Piece(i)>> \o IF c(i) > n THEN << >> ELSE f[c(i) + 1]]
           from == CHOOSE f : f = Turn(f)
           stop == {i \in D : c(i) > n}
           rank == [i \in D |-> n + 1 - i]
           next == [i \in D |-> c(i) + 1]
           base == [i \in D |-> <<Piece(i)>> \o << >>]
           turn == [i \in D |-> [v \in V |-> <<Piece(i)>> \o v]]
<1>1. Split(raw, sep) = from[1]
  BY Zenon DEF Split, Cut
<1>2. n \in Nat
  BY LenProperties DEF Texts
<1> HIDE DEF n
<1>3. \A i \in D : c(i) \in i..(n + 1)
  BY Cuts, Zenon DEF n
<1> HIDE DEF c
<1>4. \A i \in D : Piece(i) \in Texts
  <2> SUFFICES ASSUME NEW i \in D PROVE Piece(i) \in Texts
    OBVIOUS
  <2>1. c(i) - 1 \in (i - 1)..n
    BY <1>2, <1>3
  <2> QED
    BY <2>1, SubTexts, Zenon DEF n
<1> HIDE DEF Piece
<1>5. \A i \in D : \A v \in V : <<Piece(i)>> \o v \in V
  BY <1>4, ConsProperties, Zenon
<1>6. << >> \in V
  OBVIOUS
<1>7. \A i \in D \ stop : next[i] \in D /\ next[i] = c(i) + 1 /\ rank[next[i]] < rank[i]
  <2> SUFFICES ASSUME NEW i \in D \ stop
               PROVE  next[i] \in D /\ next[i] = c(i) + 1 /\ rank[next[i]] < rank[i]
    OBVIOUS
  <2>1. c(i) \in i..n /\ i \in D
    BY <1>2, <1>3
  <2>2. next[i] = c(i) + 1 /\ c(i) + 1 \in D
    BY <1>2, <2>1
  <2>3. rank[c(i) + 1] = n + 1 - (c(i) + 1) /\ rank[i] = n + 1 - i
    BY <2>1, <2>2
  <2> HIDE DEF next, rank
  <2>4. n + 1 - (c(i) + 1) < n + 1 - i
    BY <1>2, <2>1
  <2> QED
    BY <2>2, <2>3, <2>4
<1>8. PICK f \in [D -> V] :
        \A i \in D : f[i] = IF i \in stop THEN base[i] ELSE turn[i][f[next[i]]]
  <2>1. n + 1 \in Nat /\ rank \in [D -> Nat] /\ \A i \in D : rank[i] < n + 1
    BY <1>2
  <2>2. /\ \A i \in D : base[i] \in V
        /\ \A i \in D : \A v \in V : turn[i][v] \in V
    BY <1>5, <1>6
  <2> HIDE DEF D, V, rank, next, base, turn, stop
  <2>3. Descends(D, V, stop, n + 1, rank, next, base, turn)
    BY <1>7, <2>1, <2>2 DEF Descends
  <2> QED
    BY <2>3, RecursionExists
<1>9. f = Turn(f)
  <2>1. \A i \in D : f[i] = <<Piece(i)>> \o IF c(i) > n THEN << >> ELSE f[c(i) + 1]
    <3> SUFFICES ASSUME NEW i \in D
                 PROVE  f[i] = <<Piece(i)>> \o IF c(i) > n THEN << >> ELSE f[c(i) + 1]
      OBVIOUS
    <3>1. CASE i \in stop
      BY <1>8, <3>1
    <3>2. CASE i \notin stop
      <4>1. ~(c(i) > n) /\ f[next[i]] \in V /\ next[i] = c(i) + 1
        BY <1>7, <1>8, <3>2
      <4>2. turn[i][f[next[i]]] = <<Piece(i)>> \o f[next[i]]
        BY <4>1
      <4> HIDE DEF next, turn
      <4> QED
        BY <1>8, <3>2, <4>1, <4>2
    <3> QED
      BY <3>1, <3>2
  <2> QED
    BY <1>8, <2>1
<1>10. from = Turn(from)
  <2> HIDE DEF Turn
  <2> QED
    BY <1>9
<1> HIDE DEF from
<1>11. \A i \in D : from[i] = <<Piece(i)>> \o IF c(i) > n THEN << >> ELSE from[c(i) + 1]
  BY <1>10
<1>12. \A i \in D : from[i] \in V
  <2> DEFINE T == {i \in D : from[i] \in V}
  <2>1. \A i \in 1..(n + 1) : (\A j \in (i + 1)..(n + 1) : j \in T) => i \in T
    <3> SUFFICES ASSUME NEW i \in D, \A j \in (i + 1)..(n + 1) : j \in T PROVE from[i] \in V
      OBVIOUS
    <3>1. CASE c(i) > n
      BY <1>5, <1>6, <1>11, <3>1
    <3>2. CASE ~(c(i) > n)
      <4>1. c(i) + 1 \in (i + 1)..(n + 1)
        <5> DEFINE x == c(i)
        <5>1. x \in i..(n + 1) /\ ~(x > n)
          BY <1>3, <3>2, Zenon
        <5> HIDE DEF x, T
        <5>2. x + 1 \in (i + 1)..(n + 1)
          BY <1>2, <5>1
        <5> QED
          BY <5>2 DEF x
      <4>2. from[c(i) + 1] \in V
        BY <4>1
      <4> HIDE DEF T
      <4> QED
        BY <1>5, <1>11, <3>2, <4>2
    <3> QED
      BY <3>1, <3>2
  <2> HIDE DEF T
  <2>2. \A i \in 1..(n + 1) : i \in T
    <3>1. n + 1 \in Nat
      BY <1>2
    <3> QED
      BY <2>1, <3>1, Downwards, Zenon
  <2> QED
    BY <2>2 DEF T
<1>13. from \in [D -> V]
  BY <1>10, <1>12
<1> QED
  BY <1>1, <1>11, <1>13 DEF n, V, c, Piece
-------------------------------------------------------------------------------
\* Segments: splitting and decoding.

\* A unit stands for a byte.
LEMMA BytesOfUnits ==
  ASSUME NEW u \in ProperUnits
  PROVE  ByteOf(u) \in Byte
<1>1. CASE Len(u) = 1
  <2>1. u[1] \in Byte
    BY <1>1 DEF ProperUnits, Texts
  <2> QED
    BY <1>1, <2>1 DEF ByteOf
<1>2. CASE Len(u) = 3
  <2>1. IsHex(u[2]) /\ IsHex(u[3])
    BY <1>2 DEF ProperUnits
  <2>2. \A b : IsHex(b) => FromHex(b) \in 0..15
    BY DEF IsHex, FromHex, UpperHex, Digits
  <2>3. FromHex(u[2]) \in 0..15 /\ FromHex(u[3]) \in 0..15
    BY <2>1, <2>2
  <2>4. \A a, b \in 0..15 : a * 16 + b \in Byte
    BY DEF Byte
  <2> QED
    BY <1>2, <2>3, <2>4 DEF ByteOf
<1> QED
  BY <1>1, <1>2 DEF ProperUnits

\* Decoding makes a text of a text, one byte per unit.
LEMMA DecodeIsText ==
  ASSUME NEW raw \in Texts
  PROVE  /\ Decode(raw) \in Texts /\ Len(Decode(raw)) = Len(Units(raw))
         /\ \A k \in 1..Len(Units(raw)) : Decode(raw)[k] = ByteOf(Units(raw)[k])
<1> DEFINE us == Units(raw)
<1>1. Decode(raw) = [k \in DOMAIN us |-> ByteOf(us[k])]
  BY DEF Decode
<1>2. us \in Seq(ProperUnits)
  BY UnitsAreProper
<1> HIDE DEF us
<1>3. Len(us) \in Nat /\ DOMAIN us = 1..Len(us) /\ \A k \in 1..Len(us) : us[k] \in ProperUnits
  BY <1>2, LenProperties, ElementOfSeq
<1>4. \A k \in 1..Len(us) : ByteOf(us[k]) \in Byte
  BY <1>3, BytesOfUnits
<1>5. [k \in 1..Len(us) |-> ByteOf(us[k])] \in Seq(Byte)
  BY <1>3, <1>4
<1> QED
  BY <1>1, <1>3, <1>5 DEF us, Texts

\* A sound unit in front of a text is read first, and the text as it was.
LEMMA UnitsOfCons ==
  ASSUME NEW u \in SoundUnits, NEW x \in Texts
  PROVE  u \o x \in Texts /\ Units(u \o x) = <<u>> \o Units(x)
<1> DEFINE raw == u \o x
           l == Len(u)
           n == Len(x)
<1>1. u \in Texts /\ x \in Texts
  BY DEF SoundUnits, ProperUnits
<1>2. l \in Nat /\ n \in Nat
  BY <1>1, LenProperties DEF Texts
<1>3. /\ raw \in Texts /\ Len(raw) = l + n
      /\ \A k \in 1..(l + n) : raw[k] = IF k <= l THEN u[k] ELSE x[k - l]
  BY <1>1, ConcatProperties, Zenon DEF Texts
<1> HIDE DEF raw, l, n
<1>4. \A k \in 1..l : raw[0 + k] = u[k]
  <2> SUFFICES ASSUME NEW k \in 1..l PROVE raw[0 + k] = u[k]
    OBVIOUS
  <2>1. k \in 1..(l + n) /\ k <= l /\ 0 + k = k
    BY <1>2
  <2> QED
    BY <1>3, <2>1, Zenon
<1>5. \A i \in 1..n : raw[l + i] = x[i]
  <2> SUFFICES ASSUME NEW i \in 1..n PROVE raw[l + i] = x[i]
    OBVIOUS
  <2>1. l + i \in 1..(l + n) /\ ~(l + i <= l) /\ (l + i) - l = i
    BY <1>2
  <2> QED
    BY <1>3, <2>1, Zenon
<1>6. \A i \in 1..n : (EscapeAt(raw, l + i) <=> EscapeAt(x, i))
  <2> SUFFICES ASSUME NEW i \in 1..n PROVE EscapeAt(raw, l + i) <=> EscapeAt(x, i)
    OBVIOUS
  <2>1. /\ (l + i) + 1 = l + (i + 1) /\ (l + i) + 2 = l + (i + 2)
        /\ (l + i) + 2 <= l + n <=> i + 2 <= n
        /\ i + 2 <= n => i + 1 \in 1..n /\ i + 2 \in 1..n
    BY <1>2
  <2>2. Len(raw) = l + n /\ Len(x) = n
    BY <1>3 DEF n
  <2>3. raw[l + i] = x[i]
    BY <1>5, Zenon
  <2>4. CASE i + 2 <= n
    <3>1. raw[l + (i + 1)] = x[i + 1] /\ raw[l + (i + 2)] = x[i + 2]
      BY <1>5, <2>1, <2>4, Zenon
    <3>2. raw[(l + i) + 1] = x[i + 1] /\ raw[(l + i) + 2] = x[i + 2]
      BY <2>1, <3>1, Zenon
    <3> QED
      BY <2>1, <2>2, <2>3, <2>4, <3>2, Zenon DEF EscapeAt
  <2>5. CASE ~(i + 2 <= n)
    BY <2>1, <2>2, <2>5, Zenon DEF EscapeAt
  <2> QED
    BY <2>4, <2>5
<1>7. \A i \in 1..n : /\ UnitEnd(raw, l + i) = l + UnitEnd(x, i)
                      /\ UnitEnd(x, i) \in i..n
  <2> SUFFICES ASSUME NEW i \in 1..n
               PROVE  /\ UnitEnd(raw, l + i) = l + UnitEnd(x, i)
                      /\ UnitEnd(x, i) \in i..n
    OBVIOUS
  <2>1. UnitEnd(x, i) \in i..n
    BY <1>2, UnitEnds, Zenon DEF n
  <2>2. (l + i) + 2 = l + (i + 2)
    BY <1>2
  <2> QED
    BY <1>6, <2>1, <2>2, Zenon DEF UnitEnd
<1>8. \A i \in 1..n : Unit(raw, l + i) = Unit(x, i)
  <2> SUFFICES ASSUME NEW i \in 1..n PROVE Unit(raw, l + i) = Unit(x, i)
    OBVIOUS
  <2> DEFINE e == UnitEnd(x, i)
  <2>1. e \in i..n /\ UnitEnd(raw, l + i) = l + e
    BY <1>7
  <2> HIDE DEF e
  <2>2. l + i \in 1..Len(raw) /\ l + e \in (l + i)..Len(raw) /\ i \in 1..Len(x) /\ e \in i..Len(x)
    <3>1. l + i \in 1..(l + n) /\ l + e \in (l + i)..(l + n)
      BY <1>2, <2>1
    <3> QED
      BY <1>3, <2>1, <3>1 DEF n
  <2> DEFINE s == SubSeq(raw, l + i, l + e)
             t == SubSeq(x, i, e)
  <2>3. /\ s \in Seq(Byte) /\ Len(s) = (l + e) - (l + i) + 1
        /\ \A k \in 1..((l + e) - (l + i) + 1) : s[k] = raw[(l + i) + k - 1]
    BY <1>3, <2>2, PiecesAreTexts, Zenon DEF Texts
  <2>4. /\ t \in Seq(Byte) /\ Len(t) = e - i + 1
        /\ \A k \in 1..(e - i + 1) : t[k] = x[i + k - 1]
    BY <2>2, PiecesAreTexts, Zenon DEF Texts
  <2> HIDE DEF s, t
  <2>5. (l + e) - (l + i) + 1 = e - i + 1
    BY <1>2, <2>1
  <2>6. \A k \in 1..(e - i + 1) : s[k] = t[k]
    <3> SUFFICES ASSUME NEW k \in 1..(e - i + 1) PROVE s[k] = t[k]
      OBVIOUS
    <3>1. i + k - 1 \in 1..n /\ (l + i) + k - 1 = l + (i + k - 1)
      BY <1>2, <2>1
    <3>2. s[k] = raw[(l + i) + k - 1] /\ t[k] = x[i + k - 1]
      BY <2>3, <2>4, <2>5, Zenon
    <3>3. raw[l + (i + k - 1)] = x[i + k - 1]
      BY <1>5, <3>1, Zenon
    <3> QED
      BY <3>1, <3>2, <3>3, Zenon
  <2>7. s = t
    BY <2>3, <2>4, <2>5, <2>6, SeqEqual, Zenon
  <2> QED
    BY <2>1, <2>7, Zenon DEF s, t, e, Unit
<1>9. PICK w \in [1..(Len(raw) + 1) -> Seq(Texts)] :
        /\ Units(raw) = w[1] /\ w[Len(raw) + 1] = << >>
        /\ \A i \in 1..Len(raw) : w[i] = <<Unit(raw, i)>> \o w[UnitEnd(raw, i) + 1]
  BY <1>3, WalkExists, Zenon DEF Unit
<1>10. PICK v \in [1..(n + 1) -> Seq(Texts)] :
        /\ Units(x) = v[1] /\ v[n + 1] = << >>
        /\ \A i \in 1..n : v[i] = <<Unit(x, i)>> \o v[UnitEnd(x, i) + 1]
  BY WalkExists, Zenon DEF Unit, n
<1> DEFINE T == {i \in 1..(n + 1) : w[l + i] = v[i]}
<1>11. \A i \in 1..(n + 1) : (\A j \in (i + 1)..(n + 1) : j \in T) => i \in T
  <2> SUFFICES ASSUME NEW i \in 1..(n + 1), \A j \in (i + 1)..(n + 1) : j \in T
               PROVE  w[l + i] = v[i]
    OBVIOUS
  <2>1. CASE i = n + 1
    <3>1. l + (n + 1) = Len(raw) + 1
      BY <1>2, <1>3
    <3> QED
      BY <1>9, <1>10, <2>1, <3>1, Zenon
  <2>2. CASE i # n + 1
    <3> DEFINE e == UnitEnd(x, i)
    <3>1. i \in 1..n
      BY <1>2, <2>2
    <3>2. e \in i..n /\ UnitEnd(raw, l + i) = l + e /\ Unit(raw, l + i) = Unit(x, i)
      BY <1>7, <1>8, <3>1
    <3> HIDE DEF e
    <3>3. e + 1 \in (i + 1)..(n + 1) /\ (l + e) + 1 = l + (e + 1) /\ l + i \in 1..(l + n)
      BY <1>2, <3>1, <3>2
    <3>4. w[l + (e + 1)] = v[e + 1]
      BY <3>3
    <3>5. w[l + i] = <<Unit(raw, l + i)>> \o w[UnitEnd(raw, l + i) + 1]
      BY <1>3, <1>9, <3>3, Zenon
    <3>6. v[i] = <<Unit(x, i)>> \o v[e + 1]
      BY <1>10, <3>1, Zenon DEF e
    <3> QED
      BY <3>2, <3>3, <3>4, <3>5, <3>6, Zenon
  <2> QED
    BY <2>1, <2>2
<1>12. w[l + 1] = v[1]
  <2>1. n + 1 \in Nat /\ 1 \in 1..(n + 1)
    BY <1>2
  <2> HIDE DEF T
  <2>2. 1 \in T
    BY <1>11, <2>1, Downwards, Zenon
  <2> QED
    BY <2>2 DEF T
<1>13. Unit(raw, 1) = u /\ UnitEnd(raw, 1) = l /\ 1 \in 1..Len(raw)
  <2>1. 0 \in Nat /\ 0 + l <= Len(raw) /\ 0 + 1 = 1 /\ 0 + l = l
    BY <1>2, <1>3
  <2>2. 0 + Len(u) <= Len(raw) /\ \A k \in 1..Len(u) : raw[0 + k] = u[k]
    BY <1>4, <2>1, Zenon DEF l
  <2>3. 0 + 1 \in 1..Len(raw) /\ Unit(raw, 0 + 1) = u /\ UnitEnd(raw, 0 + 1) = 0 + Len(u)
    BY <1>3, <2>1, <2>2, UnitAgain, Zenon
  <2> QED
    BY <2>1, <2>3, Zenon DEF l
<1> QED
  BY <1>3, <1>9, <1>10, <1>12, <1>13, Zenon DEF raw

\* So it is decoded: first the byte of the unit, then the text as it was.
LEMMA DecodeOfCons ==
  ASSUME NEW u \in SoundUnits, NEW x \in Texts
  PROVE  Decode(u \o x) = <<ByteOf(u)>> \o Decode(x)
<1>1. Units(u \o x) = <<u>> \o Units(x)
  BY UnitsOfCons, Zenon
<1> DEFINE us == Units(x)
           vs == <<u>> \o us
           n == Len(us)
<1>2. us \in Seq(ProperUnits) /\ u \in ProperUnits /\ ByteOf(u) \in Byte
  <2>1. u \in ProperUnits
    BY DEF SoundUnits
  <2> QED
    BY <2>1, UnitsAreProper, BytesOfUnits, Zenon
<1>3. Decode(x) \in Seq(Byte) /\ Len(Decode(x)) = n /\ \A k \in 1..n : Decode(x)[k] = ByteOf(us[k])
  BY DecodeIsText, Zenon DEF Texts
<1>4. u \o x \in Texts
  BY UnitsOfCons, Zenon
<1> DEFINE d == Decode(u \o x)
           e == <<ByteOf(u)>> \o Decode(x)
<1>5. /\ d \in Seq(Byte) /\ Len(d) = Len(vs)
      /\ \A k \in 1..Len(vs) : d[k] = ByteOf(vs[k])
  BY <1>1, <1>4, DecodeIsText, Zenon DEF Texts
<1> HIDE DEF us
<1>6. n \in Nat
  BY <1>2, LenProperties
<1>7. /\ Len(vs) = n + 1 /\ vs[1] = u /\ \A k \in 1..n : vs[k + 1] = us[k]
  <2>1. /\ Len(<<u>> \o us) = Len(us) + 1 /\ (<<u>> \o us)[1] = u
        /\ \A k \in 1..Len(us) : (<<u>> \o us)[k + 1] = us[k]
    BY <1>2, ConsProperties
  <2> QED
    BY <2>1, Zenon
<1> HIDE DEF n
<1>8. /\ e \in Seq(Byte) /\ Len(e) = n + 1 /\ e[1] = ByteOf(u)
      /\ \A k \in 1..n : e[k + 1] = Decode(x)[k]
  <2> DEFINE t == Decode(x)
             b == ByteOf(u)
  <2>1. b \in Byte /\ t \in Seq(Byte) /\ Len(t) = n
    BY <1>2, <1>3, Zenon
  <2> HIDE DEF t, b
  <2>2. /\ <<b>> \o t \in Seq(Byte) /\ Len(<<b>> \o t) = Len(t) + 1
        /\ (<<b>> \o t)[1] = b
        /\ \A k \in 1..Len(t) : (<<b>> \o t)[k + 1] = t[k]
    BY <2>1, ConsProperties
  <2> QED
    BY <2>1, <2>2, Zenon DEF t, b
<1> HIDE DEF d, e, vs
<1>9. \A k \in 1..(n + 1) : d[k] = e[k]
  <2> SUFFICES ASSUME NEW k \in 1..(n + 1) PROVE d[k] = e[k]
    OBVIOUS
  <2>1. CASE k = 1
    BY <1>5, <1>7, <1>8, <2>1, Zenon
  <2>2. CASE k # 1
    <3>1. k - 1 \in 1..n /\ (k - 1) + 1 = k
      BY <1>6, <2>2
    <3>2. e[k] = ByteOf(us[k - 1]) /\ vs[k] = us[k - 1]
      BY <1>3, <1>7, <1>8, <3>1, Zenon
    <3> QED
      BY <1>5, <1>7, <3>2, Zenon
  <2> QED
    BY <2>1, <2>2
<1>10. d = e
  BY <1>5, <1>7, <1>8, <1>9, SeqEqual, Zenon
<1> QED
  BY <1>10, Zenon DEF d, e

\* The empty text decodes to itself.
LEMMA DecodeEmpty == << >> \in Texts /\ Decode(<< >>) = << >>
<1>1. << >> \in Texts
  BY DEF Texts
<1>2. Len(<< >>) = 0
  OBVIOUS
<1>3. PICK e \in [1..(Len(<< >>) + 1) -> Seq(Texts)] :
        Units(<< >>) = e[1] /\ e[Len(<< >>) + 1] = << >>
  BY <1>1, WalkExists, Zenon
<1>4. Units(<< >>) = << >>
  BY <1>2, <1>3
<1>5. Decode(<< >>) \in Seq(Byte) /\ Len(Decode(<< >>)) = Len(Units(<< >>))
  BY <1>1, DecodeIsText, Zenon DEF Texts
<1>6. Decode(<< >>) = << >>
  BY <1>2, <1>4, <1>5, EmptySeq
<1> QED
  BY <1>1, <1>6

-------------------------------------------------------------------------------
\* How Split goes on from any place: w[i] are the pieces of what is left at i.
IsSplit(w, raw, sep) ==
  /\ w \in [1..(Len(raw) + 1) -> Seq(Texts)]
  /\ \A i \in 1..(Len(raw) + 1) : LET c == Cut(raw, sep, i) IN
       w[i] = <<SubSeq(raw, i, c - 1)>> \o IF c > Len(raw) THEN << >> ELSE w[c + 1]

\* Split is such a function at its first place.
LEMMA SplitIs ==
  ASSUME NEW raw \in Texts, NEW sep
  PROVE  \E w : IsSplit(w, raw, sep) /\ Split(raw, sep) = w[1]
<1>1. PICK w \in [1..(Len(raw) + 1) -> Seq(Texts)] :
        /\ Split(raw, sep) = w[1]
        /\ \A i \in 1..(Len(raw) + 1) : LET c == Cut(raw, sep, i) IN
             w[i] = <<SubSeq(raw, i, c - 1)>> \o IF c > Len(raw) THEN << >> ELSE w[c + 1]
  BY SplitExists, Zenon
<1>2. IsSplit(w, raw, sep)
  BY <1>1, Zenon DEF IsSplit
<1> QED
  BY <1>1, <1>2, Zenon

\* The pieces from a place on are the one that is cut off there, and the rest.
FirstAndRest(w, raw, i, c, rest) ==
  /\ c \in i..(Len(raw) + 1) /\ SubSeq(raw, i, c - 1) \in Texts /\ rest \in Seq(Texts)
  /\ w[i] \in Seq(Texts) /\ Len(w[i]) = Len(rest) + 1 /\ w[i][1] = SubSeq(raw, i, c - 1)
  /\ \A k \in 1..Len(rest) : w[i][k + 1] = rest[k]

\* One step of Split, from any place.
LEMMA SplitAt ==
  ASSUME NEW raw \in Texts, NEW sep, NEW w, IsSplit(w, raw, sep),
         NEW i \in 1..(Len(raw) + 1), NEW c, c = Cut(raw, sep, i),
         NEW rest, rest = IF c > Len(raw) THEN << >> ELSE w[c + 1]
  PROVE  FirstAndRest(w, raw, i, c, rest)
<1> DEFINE first == SubSeq(raw, i, c - 1)
<1>1. Len(raw) \in Nat
  BY LenProperties DEF Texts
<1>2. c \in i..(Len(raw) + 1)
  BY Cuts, Zenon
<1>3. first \in Texts
  <2>1. c - 1 \in (i - 1)..Len(raw)
    BY <1>1, <1>2
  <2> QED
    BY <2>1, SubTexts, Zenon
<1>4. rest \in Seq(Texts)
  <2>1. CASE c > Len(raw)
    BY <2>1
  <2>2. CASE ~(c > Len(raw))
    <3>1. c + 1 \in 1..(Len(raw) + 1)
      BY <1>1, <1>2, <2>2
    <3> QED
      BY <2>2, <3>1, Zenon DEF IsSplit
  <2> QED
    BY <2>1, <2>2
<1>5. w[i] = <<first>> \o rest /\ w[i] \in Seq(Texts)
  BY Zenon DEF IsSplit
<1> HIDE DEF first
<1>6. /\ Len(<<first>> \o rest) = Len(rest) + 1 /\ (<<first>> \o rest)[1] = first
      /\ \A k \in 1..Len(rest) : (<<first>> \o rest)[k + 1] = rest[k]
  BY <1>3, <1>4, ConsProperties
<1> QED
  BY <1>2, <1>3, <1>4, <1>5, <1>6, Zenon DEF first, FirstAndRest

\* Behind the last byte there is one empty piece.
LEMMA SplitEnd ==
  ASSUME NEW raw \in Texts, NEW sep, NEW w, IsSplit(w, raw, sep)
  PROVE  Len(w[Len(raw) + 1]) = 1 /\ w[Len(raw) + 1][1] = << >>
<1> DEFINE n == Len(raw)
           i == n + 1
<1>1. n \in Nat
  BY LenProperties DEF Texts
<1>2. i \in 1..(n + 1) /\ i \in i..(n + 1) /\ ~(i <= n) /\ i > n /\ \A k \in i..(i - 1) : FALSE
  BY <1>1
<1>3. i = Cut(raw, sep, i)
  <2> HIDE DEF i
  <2>1. i <= Len(raw) => raw[i] = sep
    BY <1>2, Zenon
  <2>2. \A k \in i..(i - 1) : raw[k] # sep
    BY <1>2, Zenon
  <2>3. IsCut(raw, sep, i, i)
    BY <1>2, <2>1, <2>2, Zenon DEF IsCut
  <2> QED
    BY <1>2, <2>3, CutIs, Zenon
<1>4. Len(w[i]) = Len(<< >>) + 1 /\ w[i][1] = SubSeq(raw, i, i - 1)
  <2> HIDE DEF i
  <2>1. << >> = IF i > Len(raw) THEN << >> ELSE w[i + 1]
    BY <1>2, Zenon
  <2>2. FirstAndRest(w, raw, i, i, << >>)
    BY <1>2, <1>3, <2>1, SplitAt, Zenon
  <2> QED
    BY <2>2, Zenon DEF FirstAndRest
<1>5. SubSeq(raw, i, i - 1) = << >>
  <2> DEFINE s == SubSeq(raw, i, i - 1)
  <2>1. i - 1 \in (i - 1)..n /\ i - 1 - i + 1 = 0
    BY <1>1
  <2>2. s \in Seq(Byte) /\ Len(s) = i - 1 - i + 1
    <3> HIDE DEF i
    <3> QED
      BY <1>2, <2>1, SubTexts, Zenon DEF Texts
  <2> HIDE DEF s, i
  <2>3. s = << >>
    BY <2>1, <2>2, EmptySeq, Zenon
  <2> QED
    BY <2>3 DEF s
<1>6. Len(<< >>) + 1 = 1
  OBVIOUS
<1> QED
  BY <1>4, <1>5, <1>6, Zenon

\* The pieces from i on are an empty one and those from i + 1 on.
EmptyAndRest(w, i) ==
  /\ w[i] \in Seq(Texts) /\ w[i + 1] \in Seq(Texts) /\ Len(w[i]) = Len(w[i + 1]) + 1
  /\ w[i][1] = << >> /\ \A k \in 1..Len(w[i + 1]) : w[i][k + 1] = w[i + 1][k]

\* At a separator the piece is empty, and the others follow.
LEMMA SplitHere ==
  ASSUME NEW raw \in Texts, NEW sep, NEW w, IsSplit(w, raw, sep),
         NEW i \in 1..Len(raw), raw[i] = sep
  PROVE  EmptyAndRest(w, i)
<1>1. Len(raw) \in Nat
  BY LenProperties DEF Texts
<1>2. /\ i \in 1..(Len(raw) + 1) /\ i \in i..(Len(raw) + 1) /\ ~(i > Len(raw))
      /\ i + 1 \in 1..(Len(raw) + 1) /\ \A k \in i..(i - 1) : FALSE
  BY <1>1
<1>3. i = Cut(raw, sep, i)
  <2>1. \A k \in i..(i - 1) : raw[k] # sep
    BY <1>2, Zenon
  <2>2. IsCut(raw, sep, i, i)
    BY <1>2, <2>1, Zenon DEF IsCut
  <2> QED
    BY <1>2, <2>2, CutIs, Zenon
<1>4. /\ w[i] \in Seq(Texts) /\ Len(w[i]) = Len(w[i + 1]) + 1
      /\ w[i][1] = SubSeq(raw, i, i - 1)
      /\ \A k \in 1..Len(w[i + 1]) : w[i][k + 1] = w[i + 1][k]
  <2>1. w[i + 1] = IF i > Len(raw) THEN << >> ELSE w[i + 1]
    BY <1>2, Zenon
  <2>2. FirstAndRest(w, raw, i, i, w[i + 1])
    BY <1>2, <1>3, <2>1, SplitAt, Zenon
  <2> QED
    BY <2>2, Zenon DEF FirstAndRest
<1>5. SubSeq(raw, i, i - 1) = << >>
  <2> DEFINE s == SubSeq(raw, i, i - 1)
  <2>1. i - 1 \in (i - 1)..Len(raw) /\ i - 1 - i + 1 = 0
    BY <1>1
  <2>2. s \in Seq(Byte) /\ Len(s) = i - 1 - i + 1
    BY <1>2, <2>1, SubTexts, Zenon DEF Texts
  <2> HIDE DEF s
  <2>3. s = << >>
    BY <2>1, <2>2, EmptySeq, Zenon
  <2> QED
    BY <2>3 DEF s
<1>6. w[i + 1] \in Seq(Texts)
  BY <1>2, Zenon DEF IsSplit
<1> QED
  BY <1>4, <1>5, <1>6, Zenon DEF EmptyAndRest

\* The pieces from i on are those from e + 1 on, the first one with a text in front.
Prefixed(w, i, e, text) ==
  /\ w[i] \in Seq(Texts) /\ w[e + 1] \in Seq(Texts)
  /\ Len(w[i]) = Len(w[e + 1]) /\ Len(w[i]) \in Nat /\ Len(w[i]) > 0
  /\ w[i][1] = text \o w[e + 1][1]
  /\ \A k \in 1..Len(w[i]) : k # 1 => w[i][k] = w[e + 1][k]

\* Bytes without a separator are the start of the first piece behind them.
LEMMA SplitOver ==
  ASSUME NEW raw \in Texts, NEW sep, NEW w, IsSplit(w, raw, sep),
         NEW i \in 1..Len(raw), NEW e \in i..Len(raw), \A j \in i..e : raw[j] # sep
  PROVE  Prefixed(w, i, e, SubSeq(raw, i, e))
<1> DEFINE n == Len(raw)
           c == Cut(raw, sep, e + 1)
           rest == IF c > n THEN << >> ELSE w[c + 1]
<1>1. n \in Nat
  BY LenProperties DEF Texts
<1>2. i \in 1..(n + 1) /\ e + 1 \in 1..(n + 1) /\ e \in 1..n
  BY <1>1
<1>3. /\ c \in (e + 1)..(n + 1) /\ (c <= n => raw[c] = sep)
      /\ \A k \in (e + 1)..(c - 1) : raw[k] # sep
  BY <1>2, Cuts, Zenon
<1> HIDE DEF c
<1>4. c = Cut(raw, sep, i)
  <2>1. c \in i..(n + 1)
    BY <1>1, <1>3
  <2>2. \A k \in i..(c - 1) : k \in i..e \/ k \in (e + 1)..(c - 1)
    BY <1>1, <1>3
  <2>3. \A k \in i..(c - 1) : raw[k] # sep
    BY <1>3, <2>2, Zenon
  <2>4. IsCut(raw, sep, i, c)
    BY <1>3, <2>1, <2>3, Zenon DEF IsCut
  <2> QED
    BY <1>2, <2>4, CutIs, Zenon
<1> HIDE DEF rest
<1>5. /\ rest \in Seq(Texts) /\ w[i] \in Seq(Texts) /\ Len(w[i]) = Len(rest) + 1
      /\ w[i][1] = SubSeq(raw, i, c - 1) /\ \A k \in 1..Len(rest) : w[i][k + 1] = rest[k]
  <2>1. rest = IF c > Len(raw) THEN << >> ELSE w[c + 1]
    BY DEF rest
  <2>2. FirstAndRest(w, raw, i, c, rest)
    BY <1>2, <1>4, <2>1, SplitAt, Zenon
  <2> QED
    BY <2>2, Zenon DEF FirstAndRest
<1>6. /\ w[e + 1] \in Seq(Texts) /\ Len(w[e + 1]) = Len(rest) + 1
      /\ w[e + 1][1] = SubSeq(raw, e + 1, c - 1)
      /\ \A k \in 1..Len(rest) : w[e + 1][k + 1] = rest[k]
  <2>1. c = Cut(raw, sep, e + 1) /\ rest = IF c > Len(raw) THEN << >> ELSE w[c + 1]
    BY DEF c, rest
  <2>2. FirstAndRest(w, raw, e + 1, c, rest)
    BY <1>2, <2>1, SplitAt, Zenon
  <2> QED
    BY <2>2, Zenon DEF FirstAndRest
<1>7. Len(rest) \in Nat
  BY <1>5, LenProperties
<1>8. \A k \in 1..(Len(rest) + 1) : k # 1 => w[i][k] = w[e + 1][k]
  <2> SUFFICES ASSUME NEW k \in 1..(Len(rest) + 1), k # 1 PROVE w[i][k] = w[e + 1][k]
    OBVIOUS
  <2>1. k - 1 \in 1..Len(rest) /\ (k - 1) + 1 = k
    BY <1>7
  <2>2. w[i][(k - 1) + 1] = rest[k - 1] /\ w[e + 1][(k - 1) + 1] = rest[k - 1]
    BY <1>5, <1>6, <2>1, Zenon
  <2> QED
    BY <2>1, <2>2, Zenon
<1>9. SubSeq(raw, i, c - 1) = SubSeq(raw, i, e) \o SubSeq(raw, e + 1, c - 1)
  <2> DEFINE a == SubSeq(raw, i, e)
             b == SubSeq(raw, e + 1, c - 1)
             s == SubSeq(raw, i, c - 1)
             p == e - i + 1
             q == c - 1 - (e + 1) + 1
             r == c - 1 - i + 1
  <2>1. /\ e \in (i - 1)..n /\ c - 1 \in (e + 1 - 1)..n /\ c - 1 \in (i - 1)..n
        /\ p \in Nat /\ q \in Nat /\ r = p + q
    BY <1>1, <1>3
  <2>2. a \in Texts /\ Len(a) = p /\ \A k \in 1..p : a[k] = raw[i + k - 1]
    BY <1>2, <2>1, SubTexts, Zenon
  <2>3. b \in Texts /\ Len(b) = q /\ \A k \in 1..q : b[k] = raw[e + 1 + k - 1]
    <3> DEFINE g == e + 1
    <3>1. g \in 1..(Len(raw) + 1) /\ c - 1 \in (g - 1)..Len(raw)
      BY <1>2, <2>1
    <3> HIDE DEF g
    <3>2. /\ SubSeq(raw, g, c - 1) \in Texts /\ Len(SubSeq(raw, g, c - 1)) = c - 1 - g + 1
          /\ \A k \in 1..(c - 1 - g + 1) : SubSeq(raw, g, c - 1)[k] = raw[g + k - 1]
      BY <3>1, SubTexts, Zenon
    <3> QED
      BY <3>2, Zenon DEF g
  <2>4. s \in Texts /\ Len(s) = r /\ \A k \in 1..r : s[k] = raw[i + k - 1]
    BY <1>2, <2>1, SubTexts, Zenon
  <2>5. p + i = e + 1
    BY <1>1
  <2> HIDE DEF a, b, s, p, q, r
  <2>6. /\ a \o b \in Texts /\ Len(a \o b) = p + q
        /\ \A k \in 1..p : (a \o b)[k] = a[k]
        /\ \A k \in 1..q : (a \o b)[p + k] = b[k]
    BY <2>2, <2>3, TextConcat, Zenon
  <2>7. \A k \in 1..r : s[k] = (a \o b)[k]
    <3> SUFFICES ASSUME NEW k \in 1..r PROVE s[k] = (a \o b)[k]
      OBVIOUS
    <3>1. CASE k <= p
      <4>1. k \in 1..p
        BY <2>1, <3>1
      <4> QED
        BY <2>2, <2>4, <2>6, <4>1, Zenon
    <3>2. CASE ~(k <= p)
      <4>1. k - p \in 1..q /\ p + (k - p) = k /\ e + 1 + (k - p) - 1 = i + k - 1
        BY <1>1, <2>1, <2>5, <3>2
      <4>2. (a \o b)[p + (k - p)] = b[k - p] /\ b[k - p] = raw[e + 1 + (k - p) - 1]
        BY <2>3, <2>6, <4>1, Zenon
      <4> QED
        BY <2>4, <4>1, <4>2, Zenon
    <3> QED
      BY <3>1, <3>2
  <2>8. s = a \o b
    <3>1. s \in Seq(Byte) /\ a \o b \in Seq(Byte) /\ Len(s) = Len(a \o b)
      BY <2>1, <2>4, <2>6, Zenon DEF Texts
    <3>2. \A k \in 1..Len(s) : s[k] = (a \o b)[k]
      BY <2>4, <2>7, Zenon
    <3> QED
      BY <3>1, <3>2, SeqEqual, Zenon
  <2> QED
    BY <2>8 DEF s, a, b
<1>10. Len(rest) + 1 \in Nat /\ Len(rest) + 1 > 0
  BY <1>7
<1> QED
  BY <1>5, <1>6, <1>8, <1>9, <1>10, Zenon DEF Prefixed
-------------------------------------------------------------------------------
\* Units that validate_raw_path lets through: none hides a separator.
PlainUnits == {u \in SoundUnits : ~EscapedSeparator(u)}

\* Only a slash stands for a slash.
LEMMA SlashIsPlain ==
  ASSUME NEW u \in PlainUnits
  PROVE  /\ u[1] = Slash => Len(u) = 1 /\ ByteOf(u) = Slash
         /\ u[1] # Slash => ByteOf(u) # Slash /\ \A k \in 1..Len(u) : u[k] # Slash
<1>1. /\ u \in Texts /\ ~EscapedSeparator(u)
      /\ \/ Len(u) = 1 /\ u[1] # Percent
         \/ Len(u) = 3 /\ u[1] = Percent /\ IsHex(u[2]) /\ IsHex(u[3])
  BY DEF PlainUnits, SoundUnits, ProperUnits
<1>2. CASE Len(u) = 1
  <2>1. ByteOf(u) = u[1] /\ \A k \in 1..Len(u) : k = 1
    BY <1>2 DEF ByteOf
  <2> QED
    BY <1>2, <2>1
<1>3. CASE Len(u) = 3
  <2>1. u[1] = Percent /\ IsHex(u[2]) /\ IsHex(u[3])
    BY <1>1, <1>3
  <2>2. u[1] # Slash /\ u[2] # Slash /\ u[3] # Slash
    BY <2>1 DEF Percent, Slash, IsHex, Digits
  <2>3. \A k \in 1..Len(u) : k = 1 \/ k = 2 \/ k = 3
    BY <1>3
  <2>4. ByteOf(u) # Slash
    <3> SUFFICES ASSUME ByteOf(u) = Slash PROVE FALSE
      OBVIOUS
    <3>1. FromHex(u[2]) * 16 + FromHex(u[3]) = 47
      BY <1>3 DEF ByteOf, Slash
    <3>2. \A b : IsHex(b) => /\ FromHex(b) \in 0..15
                             /\ FromHex(b) = 2 => UpperHex(b) = 50
                             /\ FromHex(b) = 15 => UpperHex(b) = 70
      BY DEF IsHex, FromHex, UpperHex, Digits
    <3>3. \A a, b \in 0..15 : a * 16 + b = 47 => a = 2 /\ b = 15
      OBVIOUS
    <3>4. FromHex(u[2]) = 2 /\ FromHex(u[3]) = 15
      BY <2>1, <3>1, <3>2, <3>3
    <3>5. UpperHex(u[2]) = 50 /\ UpperHex(u[3]) = 70
      BY <2>1, <3>2, <3>4
    <3> QED
      BY <1>1, <1>3, <3>5 DEF EscapedSeparator
  <2> QED
    BY <2>2, <2>3, <2>4
<1> QED
  BY <1>1, <1>2, <1>3

\* A path is split into the same segments before it is decoded and after.
LEMMA SplitDecodes ==
  ASSUME NEW raw \in Texts, Units(raw) \in Seq(PlainUnits)
  PROVE  LET before == Split(raw, Slash)
             after == Split(Decode(raw), Slash) IN
         /\ before \in Seq(Texts) /\ after \in Seq(Texts)
         /\ Len(after) = Len(before) /\ Len(before) \in Nat /\ Len(before) > 0
         /\ \A k \in 1..Len(before) : after[k] = Decode(before[k])
<1> DEFINE n == Len(raw)
           us == Units(raw)
           d == Decode(raw)
           m == Len(us)
<1>1. /\ n \in Nat /\ m \in Nat /\ d \in Texts /\ Len(d) = m
      /\ \A k \in 1..m : us[k] \in PlainUnits /\ d[k] = ByteOf(us[k])
  <2>1. n \in Nat /\ m \in Nat
    BY LenProperties DEF Texts
  <2>2. \A k \in 1..m : us[k] \in PlainUnits
    BY ElementOfSeq
  <2> QED
    BY <2>1, <2>2, DecodeIsText, Zenon
<1>2. PICK w \in [1..(n + 1) -> Seq(Texts)] :
        /\ us = w[1] /\ w[n + 1] = << >>
        /\ \A i \in 1..n : w[i] = <<Unit(raw, i)>> \o w[UnitEnd(raw, i) + 1]
  BY WalkExists, Zenon DEF Unit
<1>3. PICK s : IsSplit(s, raw, Slash) /\ Split(raw, Slash) = s[1]
  BY SplitIs, Zenon
<1> HIDE DEF us, d, m
<1>4. PICK v : IsSplit(v, d, Slash) /\ Split(d, Slash) = v[1]
  BY <1>1, SplitIs, Zenon
<1> DEFINE Place(i) == m - Len(w[i]) + 1
           Follows(i) == /\ Len(w[i]) <= m
                         /\ \A j \in 1..Len(w[i]) : us[m - Len(w[i]) + j] = w[i][j]
           Agree(i) == /\ Len(v[Place(i)]) = Len(s[i])
                       /\ \A j \in 1..Len(s[i]) : v[Place(i)][j] = Decode(s[i][j])
           T == {i \in 1..(n + 1) : Follows(i) => Agree(i)}
<1> HIDE DEF n
<1>5. \A i \in 1..(n + 1) : Len(w[i]) \in Nat /\ w[i] \in Seq(Texts) /\ s[i] \in Seq(Texts)
  <2>1. \A i \in 1..(n + 1) : w[i] \in Seq(Texts)
    BY <1>2
  <2>2. \A i \in 1..(n + 1) : s[i] \in Seq(Texts)
    BY <1>3 DEF IsSplit, n
  <2> QED
    BY <2>1, <2>2, LenProperties
<1>6. << >> \in Texts /\ Decode(<< >>) = << >>
  BY DecodeEmpty
<1>7. Agree(n + 1)
  <2>1. Len(w[n + 1]) = 0 /\ m - 0 + 1 = m + 1
    BY <1>1, <1>2
  <2>2. Place(n + 1) = m + 1
    BY <2>1
  <2>3. Len(s[n + 1]) = 1 /\ s[n + 1][1] = << >>
    BY <1>3, SplitEnd, Zenon DEF n
  <2>4. Len(v[m + 1]) = 1 /\ v[m + 1][1] = << >>
    <3>1. Len(v[Len(d) + 1]) = 1 /\ v[Len(d) + 1][1] = << >>
      BY <1>1, <1>4, SplitEnd, Zenon
    <3> QED
      BY <1>1, <3>1, Zenon
  <2>5. \A j \in 1..1 : j = 1
    OBVIOUS
  <2> HIDE DEF Place
  <2> QED
    BY <1>6, <2>2, <2>3, <2>4, <2>5, Zenon
<1>8. \A i \in 1..(n + 1) : (\A j \in (i + 1)..(n + 1) : j \in T) => i \in T
  <2> SUFFICES ASSUME NEW i \in 1..(n + 1), i # n + 1,
                      \A j \in (i + 1)..(n + 1) : j \in T, Follows(i)
               PROVE  Agree(i)
    BY <1>7
  <2> DEFINE u == Unit(raw, i)
             e == UnitEnd(raw, i)
             l == Len(w[e + 1])
             p == m - l
  <2>1. i \in 1..n
    BY <1>1
  <2>2. e \in i..n /\ e + 1 \in (i + 1)..(n + 1) /\ e + 1 \in 1..(n + 1) /\ u \in Texts
    <3>1. e \in i..n
      BY <1>1, <2>1, UnitEnds, Zenon DEF n
    <3>2. u \in Texts
      BY <2>1, UnitAt, Zenon DEF n
    <3> HIDE DEF e
    <3> QED
      BY <1>1, <2>1, <3>1, <3>2
  <2>3. w[i] = <<u>> \o w[e + 1]
    BY <1>2, <2>1, Zenon
  <2> HIDE DEF u, e
  <2>4. /\ Len(w[i]) = l + 1 /\ w[i][1] = u /\ \A k \in 1..l : w[i][k + 1] = w[e + 1][k]
        /\ l \in Nat
    <3> DEFINE t == w[e + 1]
    <3>1. t \in Seq(Texts) /\ Len(t) \in Nat
      BY <1>5, <2>2
    <3> HIDE DEF t
    <3>2. /\ Len(<<u>> \o t) = Len(t) + 1 /\ (<<u>> \o t)[1] = u
          /\ \A k \in 1..Len(t) : (<<u>> \o t)[k + 1] = t[k]
      BY <2>2, <3>1, ConsProperties
    <3> QED
      BY <2>3, <3>1, <3>2 DEF t
  <2> HIDE DEF l
  <2>5. /\ l + 1 <= m /\ p \in 1..m /\ m - Len(w[i]) + 1 = p
        /\ \A j \in 1..(l + 1) : us[m - (l + 1) + j] = w[i][j]
    <3>1. l + 1 <= m /\ \A j \in 1..(l + 1) : us[m - (l + 1) + j] = w[i][j]
      <4>1. /\ Len(w[i]) <= m
            /\ \A j \in 1..Len(w[i]) : us[m - Len(w[i]) + j] = w[i][j]
        OBVIOUS
      <4> QED
        BY <2>4, <4>1
    <3>2. m - (l + 1) + 1 = m - l /\ m - l \in 1..m
      BY <1>1, <2>4, <3>1
    <3> QED
      BY <2>4, <3>1, <3>2, Zenon
  <2>6. us[p] = u /\ d[p] = ByteOf(u) /\ u \in PlainUnits /\ p \in 1..Len(d)
    <3>1. 1 \in 1..(l + 1) /\ m - (l + 1) + 1 = p
      BY <1>1, <2>4
    <3>2. us[p] = u
      BY <2>4, <2>5, <3>1, Zenon
    <3> QED
      BY <1>1, <2>5, <3>2, Zenon
  <2>7. Follows(e + 1)
    <3>1. l <= m
      BY <1>1, <2>4, <2>5
    <3>2. \A j \in 1..l : us[m - l + j] = w[e + 1][j]
      <4> SUFFICES ASSUME NEW j \in 1..l PROVE us[m - l + j] = w[e + 1][j]
        OBVIOUS
      <4>1. j + 1 \in 1..(l + 1) /\ m - (l + 1) + (j + 1) = m - l + j
        BY <1>1, <2>4
      <4>2. us[m - (l + 1) + (j + 1)] = w[i][j + 1] /\ w[i][j + 1] = w[e + 1][j]
        BY <2>4, <2>5, <4>1, Zenon
      <4> QED
        BY <4>1, <4>2, Zenon
    <3> QED
      BY <3>1, <3>2 DEF l
  <2>8. Agree(e + 1)
    BY <2>2, <2>7
  <2>9. Place(i) = p /\ Place(e + 1) = p + 1
    BY <2>5 DEF l
  <2>10. /\ Len(v[p + 1]) = Len(s[e + 1])
         /\ \A j \in 1..Len(s[e + 1]) : v[p + 1][j] = Decode(s[e + 1][j])
    <3> HIDE DEF Place
    <3> QED
      BY <2>8, <2>9, Zenon
  <2> HIDE DEF p
  <2> SUFFICES /\ Len(v[p]) = Len(s[i])
               /\ \A j \in 1..Len(s[i]) : v[p][j] = Decode(s[i][j])
    <3> HIDE DEF Place
    <3> QED
      BY <2>9, Zenon
  <2>11. u[1] = raw[i]
    BY <2>1, UnitAt, Zenon DEF u, n
  <2>12. CASE raw[i] = Slash
    <3>1. e = i /\ d[p] = Slash
      <4>1. ~EscapeAt(raw, i)
        BY <2>12 DEF EscapeAt, Percent, Slash
      <4>2. e = i
        BY <4>1, Zenon DEF e, UnitEnd
      <4> QED
        BY <2>6, <2>11, <2>12, <4>2, SlashIsPlain, Zenon
    <3>2. /\ Len(s[i]) = Len(s[i + 1]) + 1 /\ s[i][1] = << >>
          /\ \A k \in 1..Len(s[i + 1]) : s[i][k + 1] = s[i + 1][k]
      <4>1. EmptyAndRest(s, i)
        BY <1>3, <2>1, <2>12, SplitHere, Zenon DEF n
      <4> QED
        BY <4>1, Zenon DEF EmptyAndRest
    <3>3. /\ Len(v[p]) = Len(v[p + 1]) + 1 /\ v[p][1] = << >>
          /\ \A k \in 1..Len(v[p + 1]) : v[p][k + 1] = v[p + 1][k]
      <4>1. EmptyAndRest(v, p)
        BY <1>1, <1>4, <2>6, <3>1, SplitHere, Zenon
      <4> QED
        BY <4>1, Zenon DEF EmptyAndRest
    <3>4. Len(s[i + 1]) \in Nat
      <4>1. s[i + 1] \in Seq(Texts)
        BY <1>5, <2>2, <3>1, Zenon
      <4> QED
        BY <4>1, LenProperties
    <3>5. \A j \in 1..(Len(s[i + 1]) + 1) : v[p][j] = Decode(s[i][j])
      <4> SUFFICES ASSUME NEW j \in 1..(Len(s[i + 1]) + 1) PROVE v[p][j] = Decode(s[i][j])
        OBVIOUS
      <4>1. CASE j = 1
        BY <1>6, <3>2, <3>3, <4>1, Zenon
      <4>2. CASE j # 1
        <5>1. j - 1 \in 1..Len(s[i + 1]) /\ (j - 1) + 1 = j
          BY <3>4, <4>2
        <5>2. s[i][j] = s[i + 1][j - 1]
          BY <3>2, <5>1, Zenon
        <5>3. v[p][j] = v[p + 1][j - 1]
          <6>1. j - 1 \in 1..Len(v[p + 1])
            BY <2>10, <3>1, <5>1, Zenon
          <6> QED
            BY <3>3, <5>1, <6>1, Zenon
        <5> QED
          BY <2>10, <3>1, <5>1, <5>2, <5>3, Zenon
      <4> QED
        BY <4>1, <4>2
    <3> QED
      BY <2>10, <3>1, <3>2, <3>3, <3>5, Zenon
  <2>13. CASE raw[i] # Slash
    <3>1. d[p] # Slash /\ \A k \in 1..Len(u) : u[k] # Slash
      BY <2>6, <2>11, <2>13, SlashIsPlain, Zenon
    <3>2. \A j \in i..e : raw[j] # Slash
      <4> SUFFICES ASSUME NEW j \in i..e PROVE raw[j] # Slash
        OBVIOUS
      <4>1. Len(u) = e - i + 1 /\ \A k \in 1..(e - i + 1) : u[k] = raw[i + k - 1]
        BY <2>1, <2>2, PiecesAreTexts, Zenon DEF u, e, Unit, n
      <4>2. j - i + 1 \in 1..(e - i + 1) /\ i + (j - i + 1) - 1 = j
        BY <1>1, <2>1, <2>2
      <4> DEFINE k == j - i + 1
      <4>3. k \in 1..(e - i + 1) /\ raw[j] = raw[i + k - 1] /\ k \in 1..Len(u)
        BY <4>1, <4>2, Zenon
      <4> HIDE DEF k
      <4>4. u[k] = raw[i + k - 1]
        BY <4>1, <4>3, Zenon
      <4> QED
        BY <3>1, <4>3, <4>4, Zenon
    <3>3. /\ s[e + 1] \in Seq(Texts) /\ Len(s[i]) = Len(s[e + 1])
          /\ Len(s[i]) \in Nat /\ Len(s[i]) > 0 /\ s[i][1] = SubSeq(raw, i, e) \o s[e + 1][1]
          /\ \A k \in 1..Len(s[i]) : k # 1 => s[i][k] = s[e + 1][k]
      <4>1. Prefixed(s, i, e, SubSeq(raw, i, e))
        BY <1>3, <2>1, <2>2, <3>2, SplitOver, Zenon DEF n
      <4> QED
        BY <4>1, Zenon DEF Prefixed
    <3>4. /\ Len(v[p]) = Len(v[p + 1]) /\ v[p][1] = SubSeq(d, p, p) \o v[p + 1][1]
          /\ \A k \in 1..Len(v[p]) : k # 1 => v[p][k] = v[p + 1][k]
      <4>1. p \in p..Len(d) /\ \A j \in p..p : j = p
        BY <1>1, <2>6
      <4>2. \A j \in p..p : d[j] # Slash
        BY <3>1, <4>1, Zenon
      <4>3. Prefixed(v, p, p, SubSeq(d, p, p))
        BY <1>1, <1>4, <2>6, <4>1, <4>2, SplitOver, Zenon
      <4> QED
        BY <4>3, Zenon DEF Prefixed
    <3>5. SubSeq(d, p, p) = <<ByteOf(u)>> /\ SubSeq(raw, i, e) = u
      <4>1. SubSeq(raw, i, e) = u
        BY DEF u, e, Unit
      <4>2. p \in p..Len(d) /\ p - p + 1 = 1 /\ 1 \in 1..1 /\ p + 1 - 1 = p
        BY <1>1, <2>6
      <4> DEFINE z == SubSeq(d, p, p)
      <4>3. z \in Seq(Byte) /\ Len(z) = 1 /\ z[1] = d[p]
        <5>1. /\ z \in Seq(Byte) /\ Len(z) = p - p + 1
              /\ \A k \in 1..(p - p + 1) : z[k] = d[p + k - 1]
          BY <1>1, <2>6, <4>2, PiecesAreTexts, Zenon DEF Texts
        <5> QED
          BY <4>2, <5>1, Zenon
      <4> HIDE DEF z
      <4>4. z = <<d[p]>>
        BY <4>3
      <4> QED
        BY <2>6, <4>1, <4>4, Zenon DEF z
    <3>6. 1 \in 1..Len(s[i]) /\ 1 \in 1..Len(s[e + 1]) /\ s[e + 1][1] \in Texts
      BY <3>3, ElementOfSeq
    <3>7. v[p][1] = Decode(s[i][1])
      <4> DEFINE x == s[e + 1][1]
      <4>1. x \in Texts /\ u \in SoundUnits /\ v[p + 1][1] = Decode(x)
        BY <2>6, <2>10, <3>6 DEF PlainUnits
      <4> HIDE DEF x
      <4>2. Decode(u \o x) = <<ByteOf(u)>> \o Decode(x)
        BY <4>1, DecodeOfCons, Zenon
      <4> QED
        BY <3>3, <3>4, <3>5, <4>1, <4>2, Zenon DEF x
    <3>8. \A j \in 1..Len(s[i]) : v[p][j] = Decode(s[i][j])
      <4> SUFFICES ASSUME NEW j \in 1..Len(s[i]) PROVE v[p][j] = Decode(s[i][j])
        OBVIOUS
      <4>1. CASE j = 1
        BY <3>7, <4>1, Zenon
      <4>2. CASE j # 1
        BY <2>10, <3>3, <3>4, <4>2, Zenon
      <4> QED
        BY <4>1, <4>2
    <3> QED
      BY <2>10, <3>3, <3>4, <3>8, Zenon
  <2> QED
    BY <2>12, <2>13
<1>9. 1 \in T /\ 1 \in 1..(n + 1)
  <2>1. n + 1 \in Nat /\ 1 \in 1..(n + 1)
    BY <1>1
  <2> HIDE DEF T
  <2> QED
    BY <1>8, <2>1, Downwards, Zenon
<1>10. Follows(1) /\ Place(1) = 1
  <2>1. Len(w[1]) = m /\ m - m + 1 = 1 /\ m <= m /\ \A j \in 1..m : m - m + j = j
    BY <1>1, <1>2 DEF m
  <2> QED
    BY <1>2, <2>1, Zenon
<1>11. /\ Len(v[1]) = Len(s[1]) /\ \A j \in 1..Len(s[1]) : v[1][j] = Decode(s[1][j])
  <2>1. Agree(1)
    BY <1>9, <1>10
  <2> HIDE DEF Place
  <2> QED
    BY <1>10, <2>1, Zenon
<1>12. v[1] \in Seq(Texts) /\ s[1] \in Seq(Texts) /\ Len(s[1]) \in Nat /\ Len(s[1]) > 0
  <2>1. 1 \in 1..(Len(d) + 1) /\ 1 \in 1..(Len(raw) + 1)
    BY <1>1 DEF n
  <2>2. v[1] \in Seq(Texts)
    BY <1>4, <2>1, Zenon DEF IsSplit
  <2>3. PICK c, rest : FirstAndRest(s, raw, 1, c, rest)
    BY <1>3, <2>1, SplitAt, Zenon
  <2>4. s[1] \in Seq(Texts) /\ rest \in Seq(Texts) /\ Len(s[1]) = Len(rest) + 1
    BY <2>3, Zenon DEF FirstAndRest
  <2>5. Len(rest) \in Nat
    BY <2>4, LenProperties
  <2> QED
    BY <2>2, <2>4, <2>5
<1> QED
  BY <1>3, <1>4, <1>11, <1>12, Zenon DEF d
-------------------------------------------------------------------------------
\* Resolving dot segments.

\* A set of positions has a last one.
LEMMA LastMember ==
  ASSUME NEW n \in Nat, NEW s, s \subseteq 1..n, s # {}
  PROVE  /\ Max(s) \in s
         /\ \A k \in s : k <= Max(s)
<1> DEFINE T == {d \in Nat : n - d \in s}
<1>1. T \subseteq Nat /\ T # {}
  <2>1. PICK k \in s : TRUE
    OBVIOUS
  <2>2. k \in Nat /\ n - k \in Nat /\ n - (n - k) = k
    OBVIOUS
  <2> QED
    BY <2>1, <2>2
<1>2. PICK d \in T : \A e \in T : d <= e
  <2> HIDE DEF T
  <2> QED
    BY <1>1, LeastMember
<1>3. n - d \in s /\ d \in Nat
  OBVIOUS
<1>4. \A k \in s : k <= n - d
  <2> SUFFICES ASSUME NEW k \in s PROVE k <= n - d
    OBVIOUS
  <2>1. k \in Nat /\ n - k \in Nat /\ n - (n - k) = k
    OBVIOUS
  <2>2. d <= n - k
    BY <1>2, <2>1
  <2> QED
    BY <1>3, <2>1, <2>2
<1>5. \E x \in s : \A y \in s : x >= y
  <2>1. \A y \in s : n - d >= y
    BY <1>3, <1>4
  <2> QED
    BY <1>3, <2>1
<1>6. Max(s) \in s /\ \A y \in s : Max(s) >= y
  <2> DEFINE m == CHOOSE x \in s : \A y \in s : x >= y
  <2>1. Max(s) = m
    BY Zenon DEF Max
  <2>2. m \in s /\ \A y \in s : m >= y
    BY <1>5, Zenon
  <2> QED
    BY <2>1, <2>2, Zenon
<1> QED
  BY <1>6

\* What a text behind a sequence of texts makes of it.
LEMMA AppendText ==
  ASSUME NEW S, NEW t \in Seq(S), NEW a \in S
  PROVE  /\ Append(t, a) \in Seq(S) /\ Len(Append(t, a)) = Len(t) + 1
         /\ Append(t, a)[Len(t) + 1] = a
         /\ \A k \in 1..Len(t) : Append(t, a)[k] = t[k]
<1>1. Len(t) \in Nat
  BY LenProperties
<1> QED
  BY <1>1, AppendProperties

\* Resolving takes nothing away from segments none of which is a dot segment.
LEMMA NothingToResolve ==
  ASSUME NEW path, Segments(Decode(path)) \in Seq(Texts),
         \A k \in 1..Len(Segments(Decode(path))) : Segments(Decode(path))[k] \notin Dots
  PROVE  Resolved(path) = Segments(Decode(path))
<1> DEFINE segs == Segments(Decode(path))
           n == Len(segs)
           V == Seq(Texts)
           D == SUBSET (1..n)
           Step(stack, segment) ==
             CASE segment = <<46>>     -> stack
               [] segment = <<46, 46>> -> IF stack = <<>> THEN <<>> ELSE Front(stack)
               [] OTHER                -> Append(stack, segment)
           Turn(f) == [s \in D |->
                        IF s = {} THEN << >> ELSE Step(f[s \ {Max(s)}], segs[Max(s)])]
           iter == CHOOSE f : f = Turn(f)
           rank == [s \in D |-> IF s = {} THEN 0 ELSE Max(s)]
           next == [s \in D |-> s \ {Max(s)}]
           base == [s \in D |-> << >>]
           turn == [s \in D |-> [v \in V |-> IF s = {} THEN v ELSE Append(v, segs[Max(s)])]]
<1>1. n \in Nat /\ DOMAIN segs = 1..n /\ \A k \in 1..n : segs[k] \in Texts
  <2> HIDE DEF segs
  <2>1. segs \in Seq(Texts)
    BY DEF segs
  <2> QED
    BY <2>1, LenProperties, ElementOfSeq
<1>2. Resolved(path) = iter[1..n]
  <2>1. Resolved(path) =
          (CHOOSE f : f = [s \in SUBSET DOMAIN segs |->
             IF s = {} THEN << >> ELSE Step(f[s \ {Max(s)}], segs[Max(s)])])[DOMAIN segs]
    BY Zenon DEF Resolved, FoldLeft, MapThenFoldSet
  <2> QED
    BY <1>1, <2>1, Zenon
<1>3. \A k \in 1..n : \A v : Step(v, segs[k]) = Append(v, segs[k])
  BY DEF Dots
<1> HIDE DEF segs, n, iter, Step
<1>4. \A s \in D \ {{}} : /\ Max(s) \in s /\ Max(s) \in 1..n /\ \A k \in s : k <= Max(s)
                          /\ s \ {Max(s)} \in D
  <2> SUFFICES ASSUME NEW s \in D \ {{}}
               PROVE  /\ Max(s) \in s /\ Max(s) \in 1..n /\ \A k \in s : k <= Max(s)
                      /\ s \ {Max(s)} \in D
    OBVIOUS
  <2>1. s \subseteq 1..n /\ s # {}
    OBVIOUS
  <2>2. Max(s) \in s /\ \A k \in s : k <= Max(s)
    BY <1>1, <2>1, LastMember, Zenon
  <2> QED
    BY <2>1, <2>2
<1>5. /\ rank \in [D -> Nat] /\ \A s \in D : rank[s] < n + 1
      /\ \A s \in D \ {{}} : next[s] \in D /\ rank[next[s]] < rank[s]
  <2>1. \A s \in D : rank[s] \in Nat /\ rank[s] < n + 1
    <3> SUFFICES ASSUME NEW s \in D PROVE rank[s] \in Nat /\ rank[s] < n + 1
      OBVIOUS
    <3>1. CASE s = {}
      BY <1>1, <3>1
    <3>2. CASE s # {}
      <4>1. Max(s) \in 1..n /\ rank[s] = Max(s)
        BY <1>4, <3>2
      <4> HIDE DEF rank
      <4> QED
        BY <1>1, <4>1
    <3> QED
      BY <3>1, <3>2
  <2>2. ASSUME NEW s \in D \ {{}} PROVE next[s] \in D /\ rank[next[s]] < rank[s]
    <3> DEFINE t == s \ {Max(s)}
    <3>1. t \in D /\ next[s] = t /\ rank[s] = Max(s) /\ Max(s) \in 1..n
      BY <1>4
    <3>2. CASE t = {}
      <4>1. rank[t] = 0
        BY <3>1, <3>2
      <4> HIDE DEF rank, next, t
      <4> QED
        BY <1>1, <3>1, <4>1
    <3>3. CASE t # {}
      <4>1. rank[t] = Max(t) /\ Max(t) \in t
        BY <1>4, <3>1, <3>3
      <4>2. Max(t) \in s /\ Max(t) # Max(s)
        BY <4>1
      <4>3. Max(t) <= Max(s) /\ Max(t) \in 1..n
        BY <1>4, <3>1, <3>3, <4>2
      <4> HIDE DEF rank, next, t
      <4> QED
        BY <1>1, <3>1, <4>1, <4>2, <4>3
    <3> QED
      BY <3>2, <3>3
  <2> HIDE DEF next
  <2> QED
    BY <2>1, <2>2
<1>6. /\ \A s \in D : base[s] \in V
      /\ \A s \in D : \A v \in V : turn[s][v] \in V
  <2>1. << >> \in V
    OBVIOUS
  <2>2. ASSUME NEW s \in D, NEW v \in V PROVE turn[s][v] \in V
    <3>1. CASE s = {}
      BY <3>1
    <3>2. CASE s # {}
      <4>1. segs[Max(s)] \in Texts
        BY <1>1, <1>4, <3>2
      <4>2. Append(v, segs[Max(s)]) \in V
        BY <4>1, AppendProperties, Zenon
      <4> QED
        BY <3>2, <4>2
    <3> QED
      BY <3>1, <3>2
  <2> QED
    BY <2>1, <2>2
<1>7. PICK f \in [D -> V] :
        \A s \in D : f[s] = IF s \in {{}} THEN base[s] ELSE turn[s][f[next[s]]]
  <2> HIDE DEF D, V, rank, next, base, turn
  <2>1. n + 1 \in Nat
    BY <1>1
  <2>2. Descends(D, V, {{}}, n + 1, rank, next, base, turn)
    BY <1>5, <1>6, <2>1 DEF Descends
  <2> QED
    BY <2>2, RecursionExists
<1>8. f = Turn(f)
  <2>1. ASSUME NEW s \in D
        PROVE  f[s] = IF s = {} THEN << >> ELSE Step(f[s \ {Max(s)}], segs[Max(s)])
    <3>1. CASE s = {}
      BY <1>7, <3>1
    <3>2. CASE s # {}
      <4>1. s \ {Max(s)} \in D /\ Max(s) \in 1..n
        BY <1>4, <3>2
      <4>2. f[s \ {Max(s)}] \in V /\ next[s] = s \ {Max(s)}
        BY <1>7, <4>1
      <4>3. turn[s][f[s \ {Max(s)}]] = Append(f[s \ {Max(s)}], segs[Max(s)])
        BY <3>2, <4>2
      <4>4. s \notin {{}}
        BY <3>2
      <4>5. f[s] = turn[s][f[next[s]]]
        BY <1>7, <4>4, Zenon
      <4> HIDE DEF turn, next
      <4> QED
        BY <1>3, <3>2, <4>1, <4>2, <4>3, <4>5, Zenon
    <3> QED
      BY <3>1, <3>2, Zenon
  <2> QED
    BY <1>7, <2>1
<1>9. iter = Turn(iter)
  <2> HIDE DEF Turn
  <2> QED
    BY <1>8 DEF iter
<1> HIDE DEF rank, next, base, turn
<1>10. /\ iter[{}] = << >>
       /\ \A s \in D \ {{}} : iter[s] = Append(iter[s \ {Max(s)}], segs[Max(s)])
  <2>1. \A s \in D : iter[s] = IF s = {} THEN << >> ELSE Step(iter[s \ {Max(s)}], segs[Max(s)])
    BY <1>9
  <2> QED
    BY <1>3, <1>4, <2>1
<1>11. \A k \in 0..(n - 1) : /\ k + 1 \in 1..n /\ 1..(k + 1) \in D \ {{}}
                             /\ Max(1..(k + 1)) = k + 1 /\ (1..(k + 1)) \ {k + 1} = 1..k
  <2> SUFFICES ASSUME NEW k \in 0..(n - 1)
               PROVE  /\ k + 1 \in 1..n /\ 1..(k + 1) \in D \ {{}}
                      /\ Max(1..(k + 1)) = k + 1 /\ (1..(k + 1)) \ {k + 1} = 1..k
    OBVIOUS
  <2>1. k \in Nat /\ k + 1 \in 1..n /\ 1..(k + 1) \subseteq 1..n /\ k + 1 \in 1..(k + 1)
    BY <1>1
  <2>2. /\ Max(1..(k + 1)) \in 1..(k + 1)
        /\ \A j \in 1..(k + 1) : j <= Max(1..(k + 1))
    <3>1. 1..(k + 1) # {}
      BY <2>1
    <3> QED
      BY <1>1, <2>1, <3>1, LastMember, Zenon
  <2>3. Max(1..(k + 1)) = k + 1
    BY <2>1, <2>2
  <2>4. (1..(k + 1)) \ {k + 1} = 1..k
    BY <2>1
  <2> QED
    BY <2>1, <2>3, <2>4
<1> DEFINE T == {k \in 0..n : /\ iter[1..k] \in V /\ Len(iter[1..k]) = k
                              /\ \A j \in 1..k : iter[1..k][j] = segs[j]}
<1>12. 0 \in T
  <2>1. 1..0 = {} /\ << >> \in V /\ Len(<< >>) = 0
    OBVIOUS
  <2>2. 0 \in 0..n /\ iter[1..0] = << >> /\ \A j \in 1..0 : FALSE
    BY <1>1, <1>10, <2>1
  <2> QED
    BY <2>1, <2>2
<1>13. \A k \in 0..(n - 1) : k \in T => k + 1 \in T
  <2> SUFFICES ASSUME NEW k \in 0..(n - 1), k \in T PROVE k + 1 \in T
    OBVIOUS
  <2> DEFINE v == iter[1..k]
             a == segs[k + 1]
  <2>1. v \in V /\ Len(v) = k /\ \A j \in 1..k : v[j] = segs[j]
    OBVIOUS
  <2>2. iter[1..(k + 1)] = Append(v, a) /\ a \in Texts
    <3>1. k + 1 \in 1..n /\ 1..(k + 1) \in D \ {{}}
          /\ Max(1..(k + 1)) = k + 1 /\ (1..(k + 1)) \ {k + 1} = 1..k
      BY <1>11, Zenon
    <3>2. iter[1..(k + 1)]
            = Append(iter[(1..(k + 1)) \ {Max(1..(k + 1))}], segs[Max(1..(k + 1))])
      BY <1>10, <3>1, Zenon
    <3> QED
      BY <1>1, <3>1, <3>2, Zenon
  <2> HIDE DEF v, a
  <2>3. /\ Append(v, a) \in V /\ Len(Append(v, a)) = k + 1
        /\ Append(v, a)[k + 1] = a /\ \A j \in 1..k : Append(v, a)[j] = v[j]
    <3>1. v \in Seq(Texts) /\ a \in Texts
      BY <2>1, <2>2
    <3>2. /\ Append(v, a) \in Seq(Texts) /\ Len(Append(v, a)) = Len(v) + 1
          /\ Append(v, a)[Len(v) + 1] = a
          /\ \A j \in 1..Len(v) : Append(v, a)[j] = v[j]
      BY <3>1, AppendText
    <3> QED
      BY <2>1, <3>2, Zenon
  <2>4. \A j \in 1..(k + 1) : j \in 1..k \/ j = k + 1
    BY <1>1
  <2>5. \A j \in 1..(k + 1) : Append(v, a)[j] = segs[j]
    BY <2>1, <2>3, <2>4 DEF a
  <2>6. k + 1 \in 0..n
    BY <1>1
  <2> QED
    BY <2>2, <2>3, <2>5, <2>6
<1>14. n \in T
  <2>1. n \in 0..n
    BY <1>1
  <2> HIDE DEF T
  <2> QED
    BY <1>1, <1>12, <1>13, <2>1, Upwards
<1>15. segs \in V
  BY DEF segs
<1>16. iter[1..n] = segs
  BY <1>14, <1>15, SeqEqual DEF n
<1> QED
  BY <1>2, <1>16 DEF segs

\* The units of a valid path are plain.
LEMMA ValidUnits ==
  ASSUME NEW path \in Texts, ValidateRawPath(path)
  PROVE  Units(path) \in Seq(PlainUnits)
<1> DEFINE us == Units(path)
<1>1. us \in Seq(SoundUnits)
  BY WellFormedUnits DEF ValidateRawPath
<1>2. \A unit \in ToSet(us) : ~EscapedSeparator(unit)
  BY DEF ValidateRawPath
<1> HIDE DEF us
<1>3. Len(us) \in Nat /\ DOMAIN us = 1..Len(us) /\ \A k \in 1..Len(us) : us[k] \in SoundUnits
  BY <1>1, LenProperties, ElementOfSeq
<1>4. \A k \in 1..Len(us) : us[k] \in PlainUnits
  BY <1>2, <1>3 DEF ToSet, PlainUnits
<1>5. us = [k \in 1..Len(us) |-> us[k]]
  BY <1>1, <1>3
<1>6. [k \in 1..Len(us) |-> us[k]] \in Seq(PlainUnits)
  BY <1>3, <1>4
<1> QED
  BY <1>5, <1>6 DEF us

\* What is behind the first of a sequence of texts.
LEMMA TailText ==
  ASSUME NEW t \in Seq(Texts), Len(t) > 0
  PROVE  /\ Tail(t) \in Seq(Texts) /\ Len(Tail(t)) = Len(t) - 1 /\ Len(Tail(t)) \in Nat
         /\ DOMAIN Tail(t) = 1..Len(Tail(t))
         /\ \A k \in 1..Len(Tail(t)) : k + 1 \in 1..Len(t) /\ Tail(t)[k] = t[k + 1]
<1>1. Len(t) \in Nat
  BY LenProperties
<1>2. t # << >>
  <2> SUFFICES ASSUME t = << >> PROVE FALSE
    OBVIOUS
  <2>1. Len(t) = 0
    OBVIOUS
  <2> QED
    BY <2>1
<1>3. /\ Tail(t) \in Seq(Texts) /\ Len(Tail(t)) = Len(t) - 1
      /\ \A k \in 1..Len(Tail(t)) : Tail(t)[k] = t[k + 1]
  BY <1>2, HeadTailProperties
<1>4. DOMAIN Tail(t) = 1..Len(Tail(t))
  BY <1>3, LenProperties
<1> QED
  BY <1>1, <1>3, <1>4

\* For every valid path: split before it is decoded or after, it has the same
\* segments, and there is nothing in them to resolve.
THEOREM ValidPathHasOneReading ==
  ASSUME NEW path \in Texts, ValidateRawPath(path)
  PROVE  LET segments == Segments(path) IN
         Resolved(path) = [i \in DOMAIN segments |-> Decode(segments[i])]
<1> DEFINE before == Split(path, Slash)
           after == Split(Decode(path), Slash)
           segments == Tail(before)
           read == Tail(after)
<1>1. /\ before \in Seq(Texts) /\ after \in Seq(Texts)
      /\ Len(after) = Len(before) /\ Len(before) \in Nat /\ Len(before) > 0
      /\ \A k \in 1..Len(before) : after[k] = Decode(before[k])
  BY ValidUnits, SplitDecodes
<1>2. Segments(path) = segments /\ Segments(Decode(path)) = read
  BY DEF Segments
<1>3. \A segment \in ToSet(segments) : Decode(segment) \notin Dots
  BY <1>2 DEF ValidateRawPath
<1> HIDE DEF before, after
<1>4. /\ segments \in Seq(Texts) /\ Len(segments) = Len(before) - 1 /\ Len(segments) \in Nat
      /\ DOMAIN segments = 1..Len(segments)
      /\ \A k \in 1..Len(segments) : k + 1 \in 1..Len(before) /\ segments[k] = before[k + 1]
  BY <1>1, TailText
<1>5. /\ read \in Seq(Texts) /\ Len(read) = Len(after) - 1 /\ Len(read) \in Nat
      /\ DOMAIN read = 1..Len(read)
      /\ \A k \in 1..Len(read) : k + 1 \in 1..Len(after) /\ read[k] = after[k + 1]
  BY <1>1, TailText
<1> HIDE DEF segments, read
<1>6. Len(read) = Len(segments) /\ \A k \in 1..Len(segments) : read[k] = Decode(segments[k])
  BY <1>1, <1>4, <1>5
<1>7. \A k \in 1..Len(read) : read[k] \notin Dots
  <2>1. \A k \in 1..Len(segments) : segments[k] \in ToSet(segments)
    BY <1>4 DEF ToSet
  <2> QED
    BY <1>3, <1>6, <2>1
<1>8. Resolved(path) = read
  BY <1>2, <1>5, <1>7, NothingToResolve
<1>9. read = [i \in DOMAIN segments |-> Decode(segments[i])]
  BY <1>4, <1>5, <1>6
<1> QED
  BY <1>2, <1>8, <1>9

-------------------------------------------------------------------------------
\* Of the segments of a prefix, from i on, all but an empty last one are those
\* of a path that starts with the prefix and goes on with a segment of its own.
LEMMA PrefixSegments ==
  ASSUME NEW prefix \in Texts, NEW path \in Texts, NEW s, NEW v,
         IsSplit(s, prefix, Slash), IsSplit(v, path, Slash),
         Len(prefix) <= Len(path), \A k \in 1..Len(prefix) : path[k] = prefix[k],
         \/ Len(prefix) = Len(path) \/ prefix[Len(prefix)] = Slash
         \/ path[Len(prefix) + 1] = Slash
  PROVE  \A i \in 1..(Len(prefix) + 1) : \A k \in 1..Len(s[i]) :
           k < Len(s[i]) \/ s[i][k] # << >> => k <= Len(v[i]) /\ v[i][k] = s[i][k]
<1> DEFINE p == Len(prefix)
           q == Len(path)
           Agree(i) == \A k \in 1..Len(s[i]) :
                         k < Len(s[i]) \/ s[i][k] # << >> => k <= Len(v[i]) /\ v[i][k] = s[i][k]
           T == {i \in 1..(p + 1) : Agree(i)}
<1>1. p \in Nat /\ q \in Nat
  BY LenProperties DEF Texts
<1>2. p <= q /\ \A k \in 1..p : path[k] = prefix[k]
  OBVIOUS
<1>3. p = q \/ prefix[p] = Slash \/ path[p + 1] = Slash
  OBVIOUS
<1> HIDE DEF p, q
<1>4. \A i \in 1..(p + 1) : (\A j \in (i + 1)..(p + 1) : j \in T) => i \in T
  <2> SUFFICES ASSUME NEW i \in 1..(p + 1), \A j \in (i + 1)..(p + 1) : j \in T
               PROVE  Agree(i)
    OBVIOUS
  <2> DEFINE c == Cut(prefix, Slash, i)
             e == Cut(path, Slash, i)
             rest == IF c > p THEN << >> ELSE s[c + 1]
             more == IF e > q THEN << >> ELSE v[e + 1]
  <2>1. i \in 1..(q + 1)
    BY <1>1, <1>2
  <2>2. /\ c \in i..(p + 1) /\ (c <= p => prefix[c] = Slash)
        /\ \A k \in i..(c - 1) : prefix[k] # Slash
    BY Cuts, Zenon DEF p
  <2>3. FirstAndRest(s, prefix, i, c, rest)
    <3>1. rest = IF c > Len(prefix) THEN << >> ELSE s[c + 1]
      BY Zenon DEF p
    <3> HIDE DEF rest
    <3> QED
      BY <3>1, SplitAt, Zenon DEF p
  <2>4. FirstAndRest(v, path, i, e, more)
    <3>1. more = IF e > Len(path) THEN << >> ELSE v[e + 1]
      BY Zenon DEF q
    <3> HIDE DEF more
    <3> QED
      BY <2>1, <3>1, SplitAt, Zenon DEF q
  <2> HIDE DEF c
  <2>5. \A k \in i..(c - 1) : path[k] # Slash
    <3> SUFFICES ASSUME NEW k \in i..(c - 1) PROVE path[k] # Slash
      OBVIOUS
    <3>1. k \in 1..p
      BY <1>1, <2>2
    <3> QED
      BY <1>2, <2>2, <3>1, Zenon
  <2>6. \/ e = c /\ SubSeq(path, i, c - 1) = SubSeq(prefix, i, c - 1)
        \/ i = p + 1
    <3>1. CASE i = p + 1
      BY <3>1
    <3>2. CASE i # p + 1
      <4>1. c \in i..(q + 1) /\ i \in 1..p
        BY <1>1, <1>2, <2>2, <3>2
      <4>2. c <= q => path[c] = Slash
        <5>1. CASE c <= p
          <6>1. c \in 1..p
            BY <2>2, <5>1
          <6> QED
            BY <1>2, <2>2, <5>1, <6>1, Zenon
        <5>2. CASE ~(c <= p)
          <6>1. c = p + 1 /\ p \in i..(c - 1) /\ (c <= q => p # q)
            BY <1>1, <2>2, <4>1, <5>2
          <6>2. prefix[p] # Slash
            BY <2>2, <6>1, Zenon
          <6> QED
            BY <1>3, <6>1, <6>2, Zenon
        <5> QED
          BY <5>1, <5>2
      <4>3. e = c
        <5>1. /\ i \in 1..(Len(path) + 1) /\ c \in i..(Len(path) + 1)
              /\ c <= Len(path) => path[c] = Slash
          BY <2>1, <4>1, <4>2, Zenon DEF q
        <5>2. IsCut(path, Slash, i, c)
          BY <2>5, <5>1, Zenon DEF IsCut
        <5> QED
          BY <5>1, <5>2, CutIs, Zenon
      <4> DEFINE a == SubSeq(path, i, c - 1)
                 b == SubSeq(prefix, i, c - 1)
                 l == c - 1 - i + 1
      <4>4. c - 1 \in (i - 1)..p /\ c - 1 \in (i - 1)..q /\ l \in Nat
        BY <1>1, <1>2, <2>2
      <4>5. a \in Seq(Byte) /\ Len(a) = l /\ \A k \in 1..l : a[k] = path[i + k - 1]
        BY <2>1, <4>4, SubTexts, Zenon DEF q, Texts
      <4>6. b \in Seq(Byte) /\ Len(b) = l /\ \A k \in 1..l : b[k] = prefix[i + k - 1]
        BY <4>4, SubTexts, Zenon DEF p, Texts
      <4> HIDE DEF a, b
      <4>7. \A k \in 1..l : a[k] = b[k]
        <5> SUFFICES ASSUME NEW k \in 1..l PROVE a[k] = b[k]
          OBVIOUS
        <5>1. i + k - 1 \in 1..p
          BY <1>1, <2>2
        <5> QED
          BY <1>2, <4>5, <4>6, <5>1, Zenon
      <4> HIDE DEF l
      <4>8. a = b
        BY <4>5, <4>6, <4>7, SeqEqual, Zenon
      <4> QED
        BY <4>3, <4>8 DEF a, b
    <3> QED
      BY <3>1, <3>2
  <2>7. /\ Len(s[i]) = Len(rest) + 1 /\ s[i][1] = SubSeq(prefix, i, c - 1)
        /\ rest \in Seq(Texts) /\ \A k \in 1..Len(rest) : s[i][k + 1] = rest[k]
    BY <2>3, Zenon DEF FirstAndRest
  <2>8. /\ Len(v[i]) = Len(more) + 1 /\ v[i][1] = SubSeq(path, i, e - 1)
        /\ more \in Seq(Texts) /\ \A k \in 1..Len(more) : v[i][k + 1] = more[k]
    BY <2>4, Zenon DEF FirstAndRest
  <2>9. CASE i = p + 1
    <3>1. c > p
      BY <1>1, <2>2, <2>9
    <3>2. Len(s[i]) = 1
      BY <2>7, <3>1
    <3>3. s[i][1] = << >>
      BY <2>9, SplitEnd, Zenon DEF p
    <3>4. \A k \in 1..1 : k = 1 /\ ~(k < 1)
      OBVIOUS
    <3> QED
      BY <3>2, <3>3, <3>4, Zenon
  <2>10. CASE i # p + 1
    <3>1. e = c /\ v[i][1] = s[i][1]
      BY <2>6, <2>7, <2>8, <2>10, Zenon
    <3>2. Len(rest) \in Nat /\ Len(more) \in Nat
      BY <2>7, <2>8, LenProperties
    <3>3. \A k \in 1..Len(rest) :
            k < Len(rest) \/ rest[k] # << >> => k <= Len(more) /\ more[k] = rest[k]
      <4>1. CASE c > p
        <5>1. Len(rest) = 0
          BY <4>1
        <5> QED
          BY <5>1
      <4>2. CASE ~(c > p)
        <5>1. c + 1 \in (i + 1)..(p + 1) /\ ~(c > q)
          BY <1>1, <1>2, <2>2, <4>2
        <5>2. rest = s[c + 1] /\ more = v[c + 1]
          BY <3>1, <4>2, <5>1
        <5>3. Agree(c + 1)
          BY <5>1
        <5> HIDE DEF rest, more
        <5> QED
          BY <5>2, <5>3, Zenon
      <4> QED
        BY <4>1, <4>2
    <3> HIDE DEF rest, more, e
    <3> SUFFICES ASSUME NEW k \in 1..Len(s[i]), k < Len(s[i]) \/ s[i][k] # << >>
                 PROVE  k <= Len(v[i]) /\ v[i][k] = s[i][k]
      OBVIOUS
    <3>4. CASE k = 1
      <4>1. 1 <= Len(more) + 1
        BY <3>2
      <4> QED
        BY <2>8, <3>1, <3>4, <4>1, Zenon
    <3>5. CASE k # 1
      <4> DEFINE j == k - 1
      <4>1. j \in 1..Len(rest) /\ j + 1 = k /\ (k < Len(rest) + 1 => j < Len(rest))
        BY <2>7, <3>2, <3>5
      <4>2. j <= Len(more) => k <= Len(more) + 1 /\ j \in 1..Len(more)
        BY <3>2, <4>1
      <4> HIDE DEF j
      <4>3. s[i][k] = rest[j]
        BY <2>7, <4>1, Zenon
      <4>4. j < Len(rest) \/ rest[j] # << >>
        BY <2>7, <4>1, <4>3, Zenon
      <4>5. j <= Len(more) /\ more[j] = rest[j]
        BY <3>3, <4>1, <4>4, Zenon
      <4>6. v[i][j + 1] = more[j]
        BY <2>8, <4>2, <4>5, Zenon
      <4> QED
        BY <2>8, <4>1, <4>2, <4>3, <4>5, <4>6, Zenon
    <3> QED
      BY <3>4, <3>5
  <2> QED
    BY <2>9, <2>10
<1>5. \A i \in 1..(p + 1) : i \in T
  <2>1. p + 1 \in Nat
    BY <1>1
  <2> HIDE DEF T
  <2> QED
    BY <1>4, <2>1, Downwards, Zenon
<1>6. \A i \in 1..(p + 1) : Agree(i)
  BY <1>5
<1> QED
  BY <1>6 DEF p

\* The segments of a valid path, as Split counts them from the first slash on.
LEMMA SegmentsAre ==
  ASSUME NEW path \in Texts, ValidateRawPath(path),
         NEW s, IsSplit(s, path, Slash), Split(path, Slash) = s[1]
  PROVE  /\ Len(path) \in Nat /\ Len(path) >= 1
         /\ s[2] \in Seq(Texts) /\ Len(s[2]) \in Nat /\ Len(s[2]) > 0
         /\ Resolved(path) \in Seq(Texts) /\ Len(Resolved(path)) = Len(s[2])
         /\ \A k \in 1..Len(s[2]) : s[2][k] \in Texts /\ Resolved(path)[k] = Decode(s[2][k])
<1> DEFINE t == s[2]
           segments == Segments(path)
<1>1. Len(path) \in Nat /\ Len(path) >= 1 /\ path[1] = Slash
  <2>1. Len(path) \in Nat
    BY LenProperties DEF Texts
  <2>2. path # << >> /\ path[1] = Slash
    BY DEF ValidateRawPath
  <2>3. Len(path) # 0
    BY <2>2, EmptySeq DEF Texts
  <2> QED
    BY <2>1, <2>2, <2>3
<1>2. /\ s[1] \in Seq(Texts) /\ t \in Seq(Texts) /\ Len(s[1]) = Len(t) + 1
      /\ \A k \in 1..Len(t) : s[1][k + 1] = t[k]
  <2>1. 1 \in 1..Len(path)
    BY <1>1
  <2>2. EmptyAndRest(s, 1)
    BY <1>1, <2>1, SplitHere, Zenon
  <2>3. 1 + 1 = 2
    OBVIOUS
  <2> QED
    BY <2>2, <2>3, Zenon DEF EmptyAndRest
<1>3. Len(t) \in Nat /\ Len(t) > 0
  <2>1. 2 \in 1..(Len(path) + 1)
    BY <1>1
  <2>2. PICK c, rest : FirstAndRest(s, path, 2, c, rest)
    BY <2>1, SplitAt, Zenon
  <2>3. rest \in Seq(Texts) /\ Len(t) = Len(rest) + 1
    BY <2>2, Zenon DEF FirstAndRest
  <2>4. Len(rest) \in Nat
    BY <2>3, LenProperties
  <2> QED
    BY <2>3, <2>4
<1> HIDE DEF t
<1>4. segments = Tail(s[1])
  BY DEF Segments
<1> HIDE DEF segments
<1>5. /\ segments \in Seq(Texts) /\ Len(segments) = Len(t) /\ DOMAIN segments = 1..Len(t)
      /\ \A k \in 1..Len(t) : segments[k] = t[k]
  <2>1. Len(s[1]) > 0
    BY <1>2, <1>3
  <2>2. /\ segments \in Seq(Texts) /\ Len(segments) = Len(s[1]) - 1
        /\ DOMAIN segments = 1..Len(segments)
        /\ \A k \in 1..Len(segments) : segments[k] = s[1][k + 1]
    BY <1>2, <1>4, <2>1, TailText
  <2>3. Len(segments) = Len(t)
    BY <1>2, <1>3, <2>2
  <2> QED
    BY <1>2, <2>2, <2>3, Zenon
<1>6. \A k \in 1..Len(t) : t[k] \in Texts /\ Decode(t[k]) \in Texts
  <2>1. \A k \in 1..Len(t) : t[k] \in Texts
    BY <1>2, ElementOfSeq
  <2> QED
    BY <2>1, DecodeIsText, Zenon
<1>7. Resolved(path) = [k \in 1..Len(t) |-> Decode(segments[k])]
  <2>1. Resolved(path) = [k \in DOMAIN segments |-> Decode(segments[k])]
    BY ValidPathHasOneReading, Zenon DEF segments
  <2> QED
    BY <1>5, <2>1, Zenon
<1>8. Resolved(path) = [k \in 1..Len(t) |-> Decode(t[k])]
  BY <1>5, <1>7
<1>9. Resolved(path) \in Seq(Texts) /\ Len(Resolved(path)) = Len(t)
      /\ \A k \in 1..Len(t) : Resolved(path)[k] = Decode(t[k])
  BY <1>3, <1>6, <1>8
<1> QED
  BY <1>1, <1>2, <1>3, <1>6, <1>9 DEF t

\* What is compared byte by byte.
LEMMA IsPrefixByPlace ==
  ASSUME NEW S, NEW a \in Seq(S), NEW b \in Seq(S)
  PROVE  IsPrefix(a, b) <=> Len(a) <= Len(b) /\ \A k \in 1..Len(a) : a[k] = b[k]
<1> DEFINE l == Len(a)
<1>1. l \in Nat /\ Len(b) \in Nat
  BY LenProperties
<1>2. CASE l <= Len(b)
  <2>1. /\ \A k \in 1..l : a[k] \in S
        /\ \A k \in 1..l : k \in 1..Len(b) /\ b[k] \in S
    BY <1>1, <1>2, ElementOfSeq
  <2> DEFINE x == SubSeq(a, 1, l)
             y == SubSeq(b, 1, l)
  <2>2. x \in Seq(S) /\ Len(x) = l /\ \A k \in 1..l : x[k] = a[k]
    BY <1>1, <2>1, SubSeqProperties
  <2>3. y \in Seq(S) /\ Len(y) = l /\ \A k \in 1..l : y[k] = b[k]
    BY <1>1, <2>1, SubSeqProperties
  <2>4. IsPrefix(a, b) <=> x = y
    BY <1>2, Zenon DEF IsPrefix
  <2> HIDE DEF x, y, l
  <2>5. x = y <=> \A k \in 1..l : x[k] = y[k]
    BY <2>2, <2>3, SeqEqual
  <2>6. x = y <=> \A k \in 1..l : a[k] = b[k]
    BY <2>2, <2>3, <2>5
  <2> QED
    BY <1>2, <2>4, <2>6, Zenon DEF l
<1>3. CASE ~(l <= Len(b))
  BY <1>3 DEF IsPrefix
<1> QED
  BY <1>2, <1>3

\* For every valid path and every valid prefix that admits it: the directory
\* the prefix names, decoded, is one the path lies in, decoded and resolved.
THEOREM PrefixNamesADirectory ==
  ASSUME NEW path \in Texts, ValidateRawPath(path),
         NEW prefix \in Texts, ValidateRawPath(prefix), PathMatchesPrefix(path, prefix)
  PROVE  LET named == Resolved(prefix)
             directory == IF Last(named) = <<>> THEN Front(named) ELSE named
         IN IsPrefix(directory, Resolved(path))
<1> DEFINE named == Resolved(prefix)
           read == Resolved(path)
           directory == IF Last(named) = <<>> THEN Front(named) ELSE named
<1>1. PICK s : IsSplit(s, prefix, Slash) /\ Split(prefix, Slash) = s[1]
  BY SplitIs, Zenon
<1>2. PICK v : IsSplit(v, path, Slash) /\ Split(path, Slash) = v[1]
  BY SplitIs, Zenon
<1>3. /\ Len(prefix) \in Nat /\ Len(prefix) >= 1 /\ Len(s[2]) \in Nat /\ Len(s[2]) > 0
      /\ named \in Seq(Texts) /\ Len(named) = Len(s[2])
      /\ \A k \in 1..Len(s[2]) : named[k] = Decode(s[2][k])
  BY <1>1, SegmentsAre, Zenon
<1>4. /\ Len(path) \in Nat /\ Len(v[2]) \in Nat /\ read \in Seq(Texts) /\ Len(read) = Len(v[2])
      /\ \A k \in 1..Len(v[2]) : read[k] = Decode(v[2][k])
  BY <1>2, SegmentsAre, Zenon
<1>5. \A k \in 1..Len(s[2]) :
        k < Len(s[2]) \/ s[2][k] # << >> => k <= Len(v[2]) /\ v[2][k] = s[2][k]
  <2>1. Len(prefix) <= Len(path) /\ \A k \in 1..Len(prefix) : path[k] = prefix[k]
    <3>1. IsPrefix(prefix, path)
      BY Zenon DEF PathMatchesPrefix
    <3> QED
      BY <3>1, IsPrefixByPlace DEF Texts
  <2>2. \/ Len(prefix) = Len(path) \/ prefix[Len(prefix)] = Slash
        \/ path[Len(prefix) + 1] = Slash
    BY Zenon DEF PathMatchesPrefix, Last
  <2>3. 2 \in 1..(Len(prefix) + 1)
    BY <1>3
  <2>4. \A i \in 1..(Len(prefix) + 1) : \A k \in 1..Len(s[i]) :
          k < Len(s[i]) \/ s[i][k] # << >> => k <= Len(v[i]) /\ v[i][k] = s[i][k]
    BY <1>1, <1>2, <2>1, <2>2, PrefixSegments
  <2> QED
    BY <2>3, <2>4, Zenon
<1> HIDE DEF named, read
<1>6. \A k \in 1..Len(named) :
        k < Len(named) \/ named[k] # << >> => k <= Len(read) /\ read[k] = named[k]
  <2> SUFFICES ASSUME NEW k \in 1..Len(named), k < Len(named) \/ named[k] # << >>
               PROVE  k <= Len(read) /\ read[k] = named[k]
    OBVIOUS
  <2>1. k \in 1..Len(s[2]) /\ named[k] = Decode(s[2][k])
    BY <1>3, Zenon
  <2>2. k < Len(s[2]) \/ s[2][k] # << >>
    BY <1>3, <2>1, DecodeEmpty, Zenon
  <2>3. k <= Len(v[2]) /\ v[2][k] = s[2][k]
    BY <1>5, <2>1, <2>2, Zenon
  <2>4. k \in 1..Len(v[2])
    BY <1>3, <1>4, <2>1, <2>3
  <2> QED
    BY <1>4, <2>1, <2>3, <2>4, Zenon
<1>7. /\ directory \in Seq(Texts) /\ Len(directory) <= Len(read)
      /\ \A k \in 1..Len(directory) : directory[k] = read[k]
  <2> DEFINE n == Len(named)
  <2>1. n \in Nat /\ n > 0 /\ Len(read) \in Nat /\ n \in 1..n
    BY <1>3, <1>4
  <2>2. CASE named[n] = << >>
    <3>1. directory = SubSeq(named, 1, n - 1)
      BY <2>2, Zenon DEF Last, Front
    <3> HIDE DEF directory
    <3>2. \A k \in 1..(n - 1) : k \in 1..n /\ named[k] \in Texts
      BY <1>3, <2>1, ElementOfSeq
    <3> HIDE DEF n
    <3>3. /\ directory \in Seq(Texts) /\ Len(directory) = n - 1
          /\ \A k \in 1..(n - 1) : directory[k] = named[k]
      <4>1. n - 1 \in Int /\ (1 <= n - 1 => n - 1 - 1 + 1 = n - 1)
            /\ (~(1 <= n - 1) => n - 1 = 0)
        BY <2>1
      <4> QED
        BY <3>1, <3>2, <4>1, SubSeqProperties
    <3>4. \A k \in 1..(n - 1) : k < n /\ k \in 1..n
      BY <2>1
    <3>5. \A k \in 1..(n - 1) : k <= Len(read) /\ read[k] = named[k]
      BY <1>6, <3>4, Zenon DEF n
    <3>6. n - 1 <= Len(read)
      BY <2>1, <3>5
    <3> QED
      BY <3>3, <3>5, <3>6
  <2>3. CASE named[n] # << >>
    <3>1. directory = named
      BY <2>3, Zenon DEF Last
    <3>2. \A k \in 1..n : k <= Len(read) /\ read[k] = named[k]
      <4>1. \A k \in 1..n : k < n \/ k = n
        BY <2>1
      <4> QED
        BY <1>6, <2>3, <4>1, Zenon
    <3>3. n <= Len(read)
      BY <2>1, <3>2
    <3> HIDE DEF directory
    <3> QED
      BY <1>3, <3>1, <3>2, <3>3
  <2> QED
    BY <2>2, <2>3
<1> HIDE DEF directory
<1>8. IsPrefix(directory, read)
  BY <1>4, <1>7, IsPrefixByPlace
<1> QED
  BY <1>8 DEF directory, named, read

-------------------------------------------------------------------------------
\* The path of a request is a text.
LEMMA PathIsText ==
  ASSUME NEW raw \in Texts
  PROVE  PathPart(raw) \in Texts
<1> DEFINE c == Cut(raw, QuestionMark, 1)
<1>1. Len(raw) \in Nat
  BY LenProperties DEF Texts
<1>2. PICK w \in [1..(Len(raw) + 1) -> Seq(Texts)] :
        /\ Split(raw, QuestionMark) = w[1]
        /\ w[1] = <<SubSeq(raw, 1, c - 1)>> \o IF c > Len(raw) THEN << >> ELSE w[c + 1]
  <2>1. 1 \in 1..(Len(raw) + 1)
    BY <1>1
  <2> QED
    BY <2>1, SplitExists, Zenon
<1>3. c \in 1..(Len(raw) + 1) /\ c - 1 \in (1 - 1)..Len(raw) /\ 1 \in 1..(Len(raw) + 1)
  <2>1. 1 \in 1..(Len(raw) + 1)
    BY <1>1
  <2>2. c \in 1..(Len(raw) + 1)
    BY <2>1, Cuts, Zenon
  <2> HIDE DEF c
  <2> QED
    BY <1>1, <2>1, <2>2
<1>4. SubSeq(raw, 1, c - 1) \in Texts
  BY <1>3, SubTexts, Zenon
<1> DEFINE rest == IF c > Len(raw) THEN << >> ELSE w[c + 1]
<1>5. rest \in Seq(Texts)
  <2>1. << >> \in Seq(Texts)
    OBVIOUS
  <2>2. ~(c > Len(raw)) => c + 1 \in 1..(Len(raw) + 1)
    <3> HIDE DEF c
    <3> QED
      BY <1>1, <1>3
  <2> HIDE DEF c
  <2> QED
    BY <2>1, <2>2
<1> HIDE DEF rest, c
<1>6. (<<SubSeq(raw, 1, c - 1)>> \o rest)[1] = SubSeq(raw, 1, c - 1)
  BY <1>4, <1>5, ConsProperties, Zenon
<1>7. PathPart(raw) = SubSeq(raw, 1, c - 1)
  BY <1>2, <1>6, Zenon DEF PathPart, rest
<1> QED
  BY <1>4, <1>7

\* The URI is a text.
UriInv == uri \in Texts

\* The URI of a request is a sequence of bytes.
LEMMA UriIsText == Spec => []UriInv
<1>1. Init => UriInv
  BY DEF Init, UriInv, Slash, Texts, Byte
<1>2. UriInv /\ [Next]_vars => UriInv'
  <2> SUFFICES ASSUME UriInv, [Next]_vars PROVE UriInv'
    OBVIOUS
  <2>1. ASSUME NEW piece \in Pieces, Extend(piece) PROVE UriInv'
    <3>1. uri' = uri \o piece
      BY <2>1 DEF Extend
    <3>2. piece \in Texts
      BY PiecesAssumption DEF Texts, Byte
    <3> QED
      BY <3>1, <3>2, TextConcat, Zenon DEF UriInv
  <2>2. ASSUME NEW p \in RawParams, AddParam(p) PROVE UriInv'
    <3> DEFINE mark == <<IF params = 0 THEN QuestionMark ELSE Ampersand>>
    <3>1. uri' = uri \o mark \o p
      BY <2>2 DEF AddParam
    <3>2. p \in Texts /\ mark \in Texts
      BY RawParamsAssumption DEF Texts, Byte, QuestionMark, Ampersand
    <3> HIDE DEF mark
    <3>3. uri \o mark \in Texts
      BY <3>2, TextConcat, Zenon DEF UriInv
    <3> QED
      BY <3>1, <3>2, <3>3, TextConcat, Zenon DEF UriInv
  <2>3. CASE UNCHANGED vars
    BY <2>3 DEF vars, UriInv
  <2> QED
    BY <2>1, <2>2, <2>3 DEF Next
<1> QED
  BY <1>1, <1>2, PTL DEF Spec

\* For every URI: what is signed for a path is in canonical form, signs again
\* to itself and decodes to the path that was sent.
THEOREM CanonicalPathIsFaithful == Spec => []CanonicalFormIsFaithful
<1>1. UriInv => CanonicalFormIsFaithful
  <2> SUFFICES ASSUME UriInv, Splits(uri)
               PROVE  LET canonical == CanonicalUri(PathPart(uri)) IN
                      /\ InCanonicalForm(canonical)
                      /\ CanonicalUri(canonical) = canonical
                      /\ Decode(canonical) = Decode(PathPart(uri))
    BY Zenon DEF CanonicalFormIsFaithful
  <2>1. PathPart(uri) \in Texts /\ WellFormed(PathPart(uri))
    BY PathIsText DEF UriInv, Splits, ValidateRawPath
  <2> QED
    BY <2>1, CanonicalPath, Zenon
<1> QED
  BY <1>1, UriIsText, PTL

\* For every URI: the policy, which splits the path that was sent, and a
\* server that decodes it first see the same directories.
THEOREM PathsHaveOneReading == Spec => []OneReading
<1>1. UriInv => OneReading
  <2> SUFFICES ASSUME UriInv, Splits(uri)
               PROVE  LET segments == Segments(PathPart(uri)) IN
                      Resolved(PathPart(uri)) = [i \in DOMAIN segments |-> Decode(segments[i])]
    BY Zenon DEF OneReading
  <2>1. PathPart(uri) \in Texts /\ ValidateRawPath(PathPart(uri))
    BY PathIsText DEF UriInv, Splits
  <2> QED
    BY <2>1, ValidPathHasOneReading, Zenon
<1> QED
  BY <1>1, UriIsText, PTL

\* For every URI and every prefix: what the policy admits by the bytes that
\* were sent is in the directory it was meant to be in.
THEOREM PolicyHolds == Spec => []PolicyHoldsAfterDecoding
<1>1. UriInv => PolicyHoldsAfterDecoding
  <2> SUFFICES ASSUME UriInv, Splits(uri), NEW prefix \in PathPrefixes,
                      ValidateRawPath(prefix), PathMatchesPrefix(PathPart(uri), prefix)
               PROVE  LET named == Resolved(prefix)
                          directory == IF Last(named) = <<>> THEN Front(named) ELSE named
                      IN IsPrefix(directory, Resolved(PathPart(uri)))
    BY Zenon DEF PolicyHoldsAfterDecoding
  <2>1. PathPart(uri) \in Texts /\ ValidateRawPath(PathPart(uri))
    BY PathIsText DEF UriInv, Splits
  <2>2. prefix \in Texts
    BY PathPrefixesAssumption DEF Texts, Byte
  <2> QED
    BY <2>1, <2>2, PrefixNamesADirectory, Zenon
<1> QED
  BY <1>1, UriIsText, PTL
===============================================================================
