------------------------------ MODULE QueryProofs ------------------------------
(***************************************************************************)
(* The canonical query, for every query there is: it says what the query   *)
(* says, it is a normal form, and verify reads from the query what the     *)
(* signature covers.                                                       *)
(***************************************************************************)
EXTENDS RequestUriProofs, FiniteSetTheorems

StrictOrder(S, before) ==
  /\ \A x \in S : <<x, x>> \notin before
  /\ \A x, y, z \in S : <<x, y>> \in before /\ <<y, z>> \in before => <<x, z>> \in before
  /\ \A x, y \in S : x # y => <<x, y>> \in before \/ <<y, x>> \in before

\* order runs through S, every member once, each behind those before it.
Ordered(S, before, order) ==
  /\ order \in [1..Cardinality(S) -> S]
  /\ \A l \in 1..Cardinality(S) : \A k \in 1..(l - 1) : <<order[k], order[l]>> \in before
  /\ \A k, l \in 1..Cardinality(S) : order[k] = order[l] => k = l
  /\ \A x \in S : \E k \in 1..Cardinality(S) : order[k] = x

\* A finite set that is strictly ordered can be written down in that order:
\* the place of a member is the number of those before it.
LEMMA OrderExists ==
  ASSUME NEW S, IsFiniteSet(S), NEW before, StrictOrder(S, before)
  PROVE  \E order \in [1..Cardinality(S) -> S] :
           \A l \in DOMAIN order : \A k \in 1..(l - 1) : <<order[k], order[l]>> \in before
<1> DEFINE n == Cardinality(S)
           behind(x) == {y \in S : <<y, x>> \in before}
           rank == [x \in S |-> Cardinality(behind(x)) + 1]
<1>1. n \in Nat /\ IsFiniteSet(1..n) /\ Cardinality(1..n) = n
  BY FS_CardinalityType, FS_Interval
<1>2. ASSUME NEW x \in S
      PROVE  /\ IsFiniteSet(behind(x)) /\ Cardinality(behind(x)) \in Nat
             /\ Cardinality(behind(x)) < n
  <2>1. behind(x) \in SUBSET S /\ behind(x) # S
    BY DEF StrictOrder
  <2>2. /\ IsFiniteSet(behind(x)) /\ Cardinality(behind(x)) <= n
        /\ n = Cardinality(behind(x)) => S = behind(x)
    BY <2>1, FS_Subset, Zenon
  <2>3. Cardinality(behind(x)) \in Nat
    BY <2>2, FS_CardinalityType
  <2> HIDE DEF n, behind
  <2> QED
    BY <1>1, <2>1, <2>2, <2>3
<1>3. ASSUME NEW x \in S, NEW y \in S, <<x, y>> \in before
      PROVE  Cardinality(behind(x)) < Cardinality(behind(y))
  <2>1. behind(x) \subseteq behind(y)
    BY <1>3, Zenon DEF StrictOrder
  <2>2. x \in behind(y) /\ x \notin behind(x)
    BY <1>3, Zenon DEF StrictOrder
  <2>3. /\ Cardinality(behind(x)) <= Cardinality(behind(y))
        /\ Cardinality(behind(y)) = Cardinality(behind(x)) => behind(y) = behind(x)
    BY <1>2, <2>1, FS_Subset, Zenon
  <2>4. Cardinality(behind(x)) \in Nat /\ Cardinality(behind(y)) \in Nat
    BY <1>2
  <2>5. behind(x) # behind(y)
    BY <2>2, Zenon
  <2> HIDE DEF behind
  <2> QED
    BY <2>3, <2>4, <2>5
<1>4. rank \in [S -> 1..n] /\ \A x, y \in S : <<x, y>> \in before => rank[x] < rank[y]
  <2>1. \A x \in S : Cardinality(behind(x)) + 1 \in 1..n
    <3> HIDE DEF n, behind
    <3> QED
      BY <1>1, <1>2
  <2>2. \A x, y \in S : <<x, y>> \in before => Cardinality(behind(x)) + 1 < Cardinality(behind(y)) + 1
    <3> HIDE DEF behind
    <3> QED
      BY <1>2, <1>3
  <2> HIDE DEF behind, n
  <2> QED
    BY <2>1, <2>2
<1> HIDE DEF rank, behind
<1>5. rank \in Injection(S, 1..n)
  <2>1. ASSUME NEW x \in S, NEW y \in S, rank[x] = rank[y] PROVE x = y
    <3>1. rank[x] \in 1..n /\ ~(rank[x] < rank[y]) /\ ~(rank[y] < rank[x])
      BY <1>1, <1>4, <2>1
    <3> QED
      BY <1>4, <3>1 DEF StrictOrder
  <2>2. DOMAIN rank = S
    BY <1>4
  <2> QED
    BY <1>4, <2>1, <2>2 DEF Injection, IsInjective
<1>6. rank \in Surjection(S, 1..n)
  BY <1>1, <1>5, FS_Injection, Zenon DEF n
<1>7. \A k \in 1..n : \E x \in S : rank[x] = k
  BY <1>6 DEF Surjection
<1> DEFINE order == [k \in 1..n |-> CHOOSE x \in S : rank[x] = k]
<1>8. order \in [1..n -> S] /\ \A k \in 1..n : order[k] \in S /\ rank[order[k]] = k
  BY <1>7
<1>9. \A l \in 1..n : \A k \in 1..(l - 1) : <<order[k], order[l]>> \in before
  <2> SUFFICES ASSUME NEW l \in 1..n, NEW k \in 1..(l - 1)
               PROVE  <<order[k], order[l]>> \in before
    OBVIOUS
  <2>1. k \in 1..n /\ k < l /\ k # l /\ ~(l < k)
    BY <1>1
  <2> HIDE DEF order
  <2>2. order[k] \in S /\ order[l] \in S /\ rank[order[k]] = k /\ rank[order[l]] = l
    BY <1>8, <2>1, Zenon
  <2>3. order[k] # order[l] /\ <<order[l], order[k]>> \notin before
    BY <1>4, <2>1, <2>2, Zenon
  <2> QED
    BY <2>2, <2>3, Zenon DEF StrictOrder
<1> HIDE DEF order
<1>10. DOMAIN order = 1..n
  BY <1>8
<1> QED
  BY <1>8, <1>9, <1>10, Zenon DEF n

\* And InOrder does.
LEMMA InOrderIs ==
  ASSUME NEW S, IsFiniteSet(S), NEW before, StrictOrder(S, before)
  PROVE  Ordered(S, before, InOrder(S, before)) /\ Cardinality(S) \in Nat
<1> DEFINE n == Cardinality(S)
           order == InOrder(S, before)
<1>1. n \in Nat /\ IsFiniteSet(1..n) /\ Cardinality(1..n) = n
  BY FS_CardinalityType, FS_Interval
<1>2. /\ order \in [1..n -> S]
      /\ \A l \in DOMAIN order : \A k \in 1..(l - 1) : <<order[k], order[l]>> \in before
  BY OrderExists, Zenon DEF InOrder
<1> HIDE DEF order
<1>3. DOMAIN order = 1..n
  BY <1>2
<1>4. \A l \in 1..n : \A k \in 1..(l - 1) : <<order[k], order[l]>> \in before
  BY <1>2, <1>3, Zenon
<1>5. ASSUME NEW k \in 1..n, NEW l \in 1..n, order[k] = order[l] PROVE k = l
  <2>1. order[k] \in S
    BY <1>2
  <2>2. ~(k \in 1..(l - 1)) /\ ~(l \in 1..(k - 1))
    BY <1>4, <1>5, <2>1, Zenon DEF StrictOrder
  <2> QED
    BY <1>1, <2>2
<1>6. order \in Injection(1..n, S)
  BY <1>2, <1>3, <1>5 DEF Injection, IsInjective
<1>7. order \in Surjection(1..n, S)
  BY <1>1, <1>6, FS_Injection, Zenon DEF n
<1>8. \A x \in S : \E k \in 1..n : order[k] = x
  BY <1>7 DEF Surjection
<1> QED
  BY <1>1, <1>2, <1>4, <1>5, <1>8, Zenon DEF Ordered, n, order

\* The numbers up to n are in order as they stand.
LEMMA OrderedPlaces ==
  ASSUME NEW n \in Nat, NEW before,
         \A k, l \in 1..n : <<k, l>> \in before <=> k < l
  PROVE  /\ DOMAIN InOrder(1..n, before) = 1..n
         /\ \A k \in 1..n : InOrder(1..n, before)[k] = k
<1> DEFINE order == InOrder(1..n, before)
<1>1. IsFiniteSet(1..n) /\ Cardinality(1..n) = n
  BY FS_Interval
<1>2. StrictOrder(1..n, before)
  BY DEF StrictOrder
<1>3. Ordered(1..n, before, order)
  BY <1>1, <1>2, InOrderIs, Zenon
<1> HIDE DEF order
<1>4. /\ order \in [1..n -> 1..n]
      /\ \A l \in 1..n : \A k \in 1..(l - 1) : <<order[k], order[l]>> \in before
  BY <1>1, <1>3, Zenon DEF Ordered
<1>5. \A l \in 1..n : \A k \in 1..(l - 1) : order[k] < order[l]
  <2> SUFFICES ASSUME NEW l \in 1..n, NEW k \in 1..(l - 1) PROVE order[k] < order[l]
    OBVIOUS
  <2>1. k \in 1..n
    OBVIOUS
  <2>2. order[k] \in 1..n /\ order[l] \in 1..n /\ <<order[k], order[l]>> \in before
    BY <1>4, <2>1
  <2> QED
    BY <2>2, Zenon
<1> DEFINE up == {i \in 0..n : i > 0 => order[i] >= i}
           down == {i \in 1..n : order[i] <= i}
<1>6. \A i \in 0..n : i \in up
  <2>1. 0 \in up
    OBVIOUS
  <2>2. ASSUME NEW i \in 0..(n - 1), i \in up PROVE i + 1 \in up
    <3>1. i + 1 \in 1..n /\ i + 1 \in 0..n /\ order[i + 1] \in 1..n
      BY <1>4
    <3>2. i > 0 => i \in 1..((i + 1) - 1) /\ i \in 1..n
      OBVIOUS
    <3>3. i > 0 => order[i] < order[i + 1] /\ order[i] \in 1..n /\ order[i] >= i
      BY <1>4, <1>5, <2>2, <3>1, <3>2
    <3>4. order[i + 1] >= i + 1
      BY <3>1, <3>3
    <3> QED
      BY <3>1, <3>4
  <2> HIDE DEF up
  <2> QED
    BY <2>1, <2>2, Upwards, Zenon
<1>7. \A i \in 1..n : i \in down
  <2>1. ASSUME NEW i \in 1..n, \A j \in (i + 1)..n : j \in down PROVE i \in down
    <3>1. order[i] \in 1..n
      BY <1>4
    <3>2. CASE i = n
      BY <3>1, <3>2
    <3>3. CASE i # n
      <4>1. i + 1 \in (i + 1)..n /\ i + 1 \in 1..n /\ i \in 1..((i + 1) - 1)
        BY <3>3
      <4>2. order[i + 1] <= i + 1
        BY <2>1, <4>1
      <4>3. order[i] < order[i + 1] /\ order[i + 1] \in 1..n
        BY <1>4, <1>5, <4>1
      <4> QED
        BY <3>1, <4>2, <4>3
    <3> QED
      BY <3>2, <3>3
  <2> HIDE DEF down
  <2> QED
    BY <2>1, Downwards, Zenon
<1>8. \A i \in 1..n : order[i] = i
  <2> SUFFICES ASSUME NEW i \in 1..n PROVE order[i] = i
    OBVIOUS
  <2>1. i \in 0..n /\ i > 0
    OBVIOUS
  <2>2. order[i] >= i /\ order[i] <= i /\ order[i] \in 1..n
    BY <1>4, <1>6, <1>7, <2>1
  <2> QED
    BY <2>2
<1>9. DOMAIN order = 1..n
  BY <1>4
<1> QED
  BY <1>8, <1>9, Zenon DEF order

\* a comes before b because of place i.
LessAt(a, b, i) ==
  /\ i \in 1..Len(b) /\ i <= Len(a) + 1
  /\ \A k \in 1..(i - 1) : a[k] = b[k]
  /\ i <= Len(a) => a[i] < b[i]

\* The order of byte strings by the first place where they differ.
LEMMA LexByPlace ==
  ASSUME NEW a \in Texts, NEW b \in Texts
  PROVE  LexLess(a, b) <=> \E i \in 1..Len(b) : LessAt(a, b, i)
<1>1. Len(a) \in Nat /\ Len(b) \in Nat
  BY LenProperties DEF Texts
<1>2. IsPrefix(a, b) <=> Len(a) <= Len(b) /\ \A k \in 1..Len(a) : a[k] = b[k]
  <2>1. a \in Seq(Byte) /\ b \in Seq(Byte)
    BY Zenon DEF Texts
  <2> QED
    BY <2>1, IsPrefixByPlace
<1>3. a = b <=> Len(a) = Len(b) /\ \A k \in 1..Len(a) : a[k] = b[k]
  BY SeqEqual, Zenon DEF Texts
<1>4. IsStrictPrefix(a, b) <=> Len(a) < Len(b) /\ \A k \in 1..Len(a) : a[k] = b[k]
  BY <1>1, <1>2, <1>3 DEF IsStrictPrefix
<1> DEFINE least == Min({Len(a), Len(b)})
<1>5. least = IF Len(a) <= Len(b) THEN Len(a) ELSE Len(b)
  <2>1. \E x \in {Len(a), Len(b)} : \A y \in {Len(a), Len(b)} : x <= y
    BY <1>1
  <2>2. least \in {Len(a), Len(b)} /\ \A y \in {Len(a), Len(b)} : least <= y
    BY <2>1, Zenon DEF Min
  <2> HIDE DEF least
  <2> QED
    BY <1>1, <2>2
<1> HIDE DEF least
<1>6. ASSUME NEW i \in 1..least
      PROVE  SubSeq(a, 1, i - 1) = SubSeq(b, 1, i - 1) <=> \A k \in 1..(i - 1) : a[k] = b[k]
  <2>1. i - 1 \in Int /\ i \in Nat /\ (1..(i - 1)) \subseteq 1..Len(a) /\ (1..(i - 1)) \subseteq 1..Len(b)
    BY <1>1, <1>5
  <2>2. \A k \in 1..(i - 1) : a[k] \in Byte /\ b[k] \in Byte
    BY <2>1, ElementOfSeq DEF Texts
  <2> DEFINE x == SubSeq(a, 1, i - 1)
             y == SubSeq(b, 1, i - 1)
  <2>3. x \in Seq(Byte) /\ Len(x) = i - 1 /\ \A k \in 1..(i - 1) : x[k] = a[k]
    BY <2>1, <2>2, SubSeqProperties
  <2>4. y \in Seq(Byte) /\ Len(y) = i - 1 /\ \A k \in 1..(i - 1) : y[k] = b[k]
    BY <2>1, <2>2, SubSeqProperties
  <2> HIDE DEF x, y
  <2>5. x = y <=> \A k \in 1..(i - 1) : x[k] = y[k]
    BY <2>3, <2>4, SeqEqual, Zenon
  <2>6. x = y <=> \A k \in 1..(i - 1) : a[k] = b[k]
    BY <2>3, <2>4, <2>5, Zenon
  <2> QED
    BY <2>6 DEF x, y
<1>7. LexLess(a, b) <=> \/ Len(a) < Len(b) /\ \A k \in 1..Len(a) : a[k] = b[k]
                        \/ \E i \in 1..least : (\A k \in 1..(i - 1) : a[k] = b[k]) /\ a[i] < b[i]
  BY <1>4, <1>6, Zenon DEF LexLess, least
<1>8. ASSUME NEW i \in 1..Len(b), LessAt(a, b, i) PROVE LexLess(a, b)
  <2>1. CASE i <= Len(a)
    <3>1. i \in 1..least
      BY <1>1, <1>5, <2>1
    <3>2. (\A k \in 1..(i - 1) : a[k] = b[k]) /\ a[i] < b[i]
      BY <1>8, <2>1 DEF LessAt
    <3> QED
      BY <1>7, <3>1, <3>2, Zenon
  <2>2. CASE ~(i <= Len(a))
    <3>1. i - 1 = Len(a) /\ Len(a) < Len(b)
      BY <1>1, <1>8, <2>2 DEF LessAt
    <3>2. \A k \in 1..Len(a) : a[k] = b[k]
      BY <1>8, <3>1 DEF LessAt
    <3> QED
      BY <1>7, <3>1, <3>2, Zenon
  <2> QED
    BY <2>1, <2>2
<1>9. ASSUME LexLess(a, b) PROVE \E i \in 1..Len(b) : LessAt(a, b, i)
  <2>1. CASE Len(a) < Len(b) /\ \A k \in 1..Len(a) : a[k] = b[k]
    <3>1. Len(a) + 1 \in 1..Len(b) /\ (Len(a) + 1) - 1 = Len(a) /\ ~(Len(a) + 1 <= Len(a))
      BY <1>1, <2>1
    <3>2. LessAt(a, b, Len(a) + 1)
      BY <1>1, <2>1, <3>1 DEF LessAt
    <3> QED
      BY <3>1, <3>2, Zenon
  <2>2. CASE \E i \in 1..least : (\A k \in 1..(i - 1) : a[k] = b[k]) /\ a[i] < b[i]
    <3>1. PICK i \in 1..least : (\A k \in 1..(i - 1) : a[k] = b[k]) /\ a[i] < b[i]
      BY <2>2, Zenon
    <3>2. i \in 1..Len(b) /\ i <= Len(a) + 1
      BY <1>1, <1>5
    <3>3. LessAt(a, b, i)
      BY <3>1, <3>2, Zenon DEF LessAt
    <3> QED
      BY <3>2, <3>3, Zenon
  <2> QED
    BY <1>7, <1>9, <2>1, <2>2, Zenon
<1> QED
  BY <1>8, <1>9, Zenon

\* Bytes are compared as numbers.
LEMMA BytesInOrder ==
  /\ \A x \in Byte : ~(x < x)
  /\ \A x, y, z \in Byte : x < y /\ y < z => x < z
  /\ \A x, y \in Byte : x # y => x < y \/ y < x
<1>1. \A x \in Byte : x \in Int
  BY DEF Byte
<1>2. \A x \in Int : ~(x < x)
  OBVIOUS
<1>3. \A x, y, z \in Int : x < y /\ y < z => x < z
  OBVIOUS
<1>4. \A x, y \in Int : x # y => x < y \/ y < x
  OBVIOUS
<1> QED
  BY <1>1, <1>2, <1>3, <1>4, Zenon

\* It is a strict order of all texts.
LEMMA LexOrder ==
  /\ \A a \in Texts : ~LexLess(a, a)
  /\ \A a, b, c \in Texts : LexLess(a, b) /\ LexLess(b, c) => LexLess(a, c)
  /\ \A a, b \in Texts : a # b => LexLess(a, b) \/ LexLess(b, a)
<1>1. \A a \in Texts : Len(a) \in Nat /\ \A k \in 1..Len(a) : a[k] \in Byte
  BY LenProperties, ElementOfSeq DEF Texts
<1>2. ASSUME NEW a \in Texts PROVE ~LexLess(a, a)
  <2> SUFFICES ASSUME NEW i \in 1..Len(a), LessAt(a, a, i) PROVE FALSE
    BY LexByPlace, Zenon
  <2>1. Len(a) \in Nat /\ a[i] \in Byte /\ i <= Len(a)
    BY <1>1
  <2>2. a[i] < a[i]
    BY <2>1, Zenon DEF LessAt
  <2> QED
    BY <2>1, <2>2, BytesInOrder, Zenon
<1>3. ASSUME NEW a \in Texts, NEW b \in Texts, NEW c \in Texts, LexLess(a, b), LexLess(b, c)
      PROVE  LexLess(a, c)
  <2>1. PICK i \in 1..Len(b) : LessAt(a, b, i)
    BY <1>3, LexByPlace, Zenon
  <2>2. PICK j \in 1..Len(c) : LessAt(b, c, j)
    BY <1>3, LexByPlace, Zenon
  <2>3. /\ Len(a) \in Nat /\ Len(b) \in Nat /\ Len(c) \in Nat
        /\ i <= Len(a) + 1 /\ j <= Len(b) + 1
        /\ \A k \in 1..(i - 1) : a[k] = b[k]
        /\ \A k \in 1..(j - 1) : b[k] = c[k]
    BY <1>1, <2>1, <2>2 DEF LessAt
  <2>4. CASE i < j
    <3>1. i \in 1..(j - 1) /\ i \in 1..Len(c) /\ \A k \in 1..(i - 1) : k \in 1..(j - 1)
      BY <2>3, <2>4
    <3>2. \A k \in 1..(i - 1) : a[k] = c[k]
      BY <2>3, <3>1, Zenon
    <3>3. i <= Len(a) => a[i] < c[i]
      BY <2>1, <2>3, <3>1, Zenon DEF LessAt
    <3>4. LessAt(a, c, i)
      BY <2>3, <3>1, <3>2, <3>3, Zenon DEF LessAt
    <3> QED
      BY <3>1, <3>4, LexByPlace, Zenon
  <2>5. CASE ~(i < j)
    <3>1. \A k \in 1..(j - 1) : k \in 1..(i - 1)
      BY <2>3, <2>5
    <3>2. \A k \in 1..(j - 1) : a[k] = c[k]
      BY <2>3, <3>1, Zenon
    <3>3. j <= Len(a) + 1 /\ j <= Len(b) /\ j \in 1..Len(b)
      BY <2>3, <2>5
    <3>4. b[j] < c[j]
      BY <2>2, <3>3, Zenon DEF LessAt
    <3>5. ASSUME j <= Len(a) PROVE a[j] < c[j]
      <4>1. j \in 1..Len(a)
        BY <2>3, <3>5
      <4>2. a[j] \in Byte /\ b[j] \in Byte /\ c[j] \in Byte
        BY <1>1, <3>3, <4>1, Zenon
      <4>3. CASE i = j
        <5>1. a[j] < b[j]
          BY <2>1, <3>5, <4>3, Zenon DEF LessAt
        <5> QED
          BY <3>4, <4>2, <5>1, BytesInOrder, Zenon
      <4>4. CASE i # j
        <5>1. j \in 1..(i - 1)
          BY <2>3, <2>5, <4>4
        <5>2. a[j] = b[j]
          BY <2>3, <5>1, Zenon
        <5> QED
          BY <3>4, <5>2
      <4> QED
        BY <4>3, <4>4
    <3>6. LessAt(a, c, j)
      BY <3>2, <3>3, <3>5, Zenon DEF LessAt
    <3> QED
      BY <3>6, LexByPlace, Zenon
  <2> QED
    BY <2>4, <2>5
<1>4. ASSUME NEW a \in Texts, NEW b \in Texts, a # b PROVE LexLess(a, b) \/ LexLess(b, a)
  <2>1. Len(a) \in Nat /\ Len(b) \in Nat
    BY <1>1
  <2> DEFINE same(k) == k <= Len(a) /\ k <= Len(b) /\ a[k] = b[k]
             differ == {k \in Nat : k > 0 /\ (k <= Len(a) \/ k <= Len(b)) /\ ~same(k)}
  <2>2. differ # {}
    <3> SUFFICES ASSUME differ = {} PROVE FALSE
      OBVIOUS
    <3>1. \A k \in Nat : k > 0 /\ (k <= Len(a) \/ k <= Len(b)) => same(k)
      BY Zenon
    <3>2. Len(a) = Len(b)
      BY <2>1, <3>1
    <3>3. \A k \in 1..Len(a) : a[k] = b[k]
      BY <2>1, <3>1
    <3> QED
      BY <1>4, <3>2, <3>3, SeqEqual, Zenon DEF Texts
  <2>3. PICK m \in differ : \A k \in differ : m <= k
    <3>1. differ \subseteq Nat
      OBVIOUS
    <3> HIDE DEF differ
    <3> QED
      BY <2>2, <3>1, LeastMember, Zenon
  <2>4. \A k \in 1..(m - 1) : same(k)
    <3> SUFFICES ASSUME NEW k \in 1..(m - 1), ~same(k) PROVE FALSE
      OBVIOUS
    <3>1. k \in Nat /\ k > 0 /\ ~(m <= k) /\ (m <= Len(a) \/ m <= Len(b))
      BY <2>3
    <3>2. k <= Len(a) \/ k <= Len(b)
      BY <2>1, <3>1
    <3>3. k \in differ
      BY <3>1, <3>2, Zenon
    <3> QED
      BY <2>3, <3>1, <3>3, Zenon
  <2>5. m \in Nat /\ m > 0 /\ (m <= Len(a) \/ m <= Len(b)) /\ ~same(m)
    BY <2>3, Zenon
  <2>6. m <= Len(a) + 1 /\ m <= Len(b) + 1
    <3>1. m = 1 \/ m - 1 \in 1..(m - 1)
      BY <2>5
    <3>2. m = 1 \/ same(m - 1)
      BY <2>4, <3>1, Zenon
    <3> QED
      BY <2>1, <2>5, <3>2
  <2>7. \A k \in 1..(m - 1) : a[k] = b[k] /\ b[k] = a[k]
    BY <2>4, Zenon
  <2>8. CASE m <= Len(a) /\ m <= Len(b)
    <3>1. m \in 1..Len(a) /\ m \in 1..Len(b) /\ a[m] # b[m]
      BY <2>5, <2>8
    <3>2. a[m] < b[m] \/ b[m] < a[m]
      <4>1. a[m] \in Byte /\ b[m] \in Byte
        BY <1>1, <3>1, Zenon
      <4> QED
        BY <3>1, <4>1, BytesInOrder, Zenon
    <3>3. a[m] < b[m] => LessAt(a, b, m)
      BY <2>6, <2>7, <3>1, Zenon DEF LessAt
    <3>4. b[m] < a[m] => LessAt(b, a, m)
      BY <2>6, <2>7, <3>1, Zenon DEF LessAt
    <3> QED
      BY <3>1, <3>2, <3>3, <3>4, LexByPlace, Zenon
  <2>9. CASE ~(m <= Len(a))
    <3>1. m \in 1..Len(b)
      BY <2>5, <2>9
    <3>2. LessAt(a, b, m)
      BY <2>6, <2>7, <2>9, <3>1, Zenon DEF LessAt
    <3> QED
      BY <3>1, <3>2, LexByPlace, Zenon
  <2>10. CASE ~(m <= Len(b))
    <3>1. m \in 1..Len(a)
      BY <2>5, <2>10
    <3>2. LessAt(b, a, m)
      BY <2>6, <2>7, <2>10, <3>1, Zenon DEF LessAt
    <3> QED
      BY <3>1, <3>2, LexByPlace, Zenon
  <2> QED
    BY <2>8, <2>9, <2>10
<1> QED
  BY <1>2, <1>3, <1>4, Zenon

Params == [name : Texts, value : Texts]

\* And so is the order of the parameters a query is signed in.
LEMMA ParamOrder ==
  /\ \A p \in Params : ~ParamLess(p, p)
  /\ \A p, q, r \in Params : ParamLess(p, q) /\ ParamLess(q, r) => ParamLess(p, r)
  /\ \A p, q \in Params : p # q => ParamLess(p, q) \/ ParamLess(q, p)
<1>1. \A p \in Params : p.name \in Texts /\ p.value \in Texts
  BY DEF Params
<1>2. \A p, q \in Params : p.name = q.name /\ p.value = q.value => p = q
  BY DEF Params
<1>3. \A p \in Params : ~ParamLess(p, p)
  BY <1>1, LexOrder, Zenon DEF ParamLess
<1>4. ASSUME NEW p \in Params, NEW q \in Params, NEW r \in Params,
             ParamLess(p, q), ParamLess(q, r)
      PROVE  ParamLess(p, r)
  <2>1. CASE LexLess(p.name, q.name) /\ LexLess(q.name, r.name)
    BY <1>1, <2>1, LexOrder, Zenon DEF ParamLess
  <2>2. CASE p.name = q.name /\ LexLess(p.value, q.value) /\ q.name = r.name /\ LexLess(q.value, r.value)
    BY <1>1, <2>2, LexOrder, Zenon DEF ParamLess
  <2>3. CASE p.name = q.name /\ LexLess(q.name, r.name)
    BY <2>3, Zenon DEF ParamLess
  <2>4. CASE LexLess(p.name, q.name) /\ q.name = r.name
    BY <2>4, Zenon DEF ParamLess
  <2> QED
    BY <1>4, <2>1, <2>2, <2>3, <2>4, Zenon DEF ParamLess
<1>5. \A p, q \in Params : p # q => ParamLess(p, q) \/ ParamLess(q, p)
  BY <1>1, <1>2, LexOrder, Zenon DEF ParamLess
<1> QED
  BY <1>3, <1>4, <1>5, Zenon

-------------------------------------------------------------------------------
\* Names and values, encoded.

SafeBytes == {b \in Byte : IsUnreserved(b)} \cup {Percent}

\* What Encode makes of a component, and leaves as it is.
EncodedTexts == {t \in Seq(SafeBytes) : WellFormed(t) /\ Encode(t) = t}

\* Nothing Encode writes is an ampersand or an equals sign.
LEMMA SafeBytesAre == SafeBytes \subseteq Byte /\ Ampersand \notin SafeBytes /\ Equals \notin SafeBytes
<1>1. Percent \in Byte /\ Ampersand # Percent /\ Equals # Percent
  BY DEF Percent, Byte, Ampersand, Equals
<1>2. ~IsUnreserved(Ampersand) /\ ~IsUnreserved(Equals)
  BY DEF IsUnreserved, Digits, Ampersand, Equals
<1> QED
  BY <1>1, <1>2 DEF SafeBytes

\* EncodeByte writes a byte as a unit that stands for it.
LEMMA EncodedByte ==
  ASSUME NEW b \in Byte
  PROVE  /\ EncodeByte(b) \in SoundUnits /\ EncodeByte(b) \in Seq(SafeBytes)
         /\ ByteOf(EncodeByte(b)) = b
<1>1. CASE IsUnreserved(b)
  <2> DEFINE u == <<b>>
  <2>1. EncodeByte(b) = u /\ b \in SafeBytes /\ b # Percent
    BY <1>1 DEF EncodeByte, SafeBytes, IsUnreserved, Digits, Percent
  <2>2. u \in Seq(Byte) /\ u \in Seq(SafeBytes) /\ Len(u) = 1 /\ u[1] = b
    BY <2>1
  <2> HIDE DEF u
  <2>3. u \in SoundUnits /\ ByteOf(u) = b
    BY <2>1, <2>2 DEF SoundUnits, ProperUnits, ByteOf, Texts
  <2> QED
    BY <2>1, <2>2, <2>3
<1>2. CASE ~IsUnreserved(b)
  <2> DEFINE x == HexUpper(b \div 16)
             y == HexUpper(b % 16)
  <2>1. b \in Nat /\ b <= 255
    BY DEF Byte
  <2>2. b \div 16 \in 0..15
    BY <2>1
  <2>3. (b % 16) \in 0..15
    BY <2>1
  <2>4. (b \div 16) * 16 + (b % 16) = b
    BY <2>1
  <2>5. /\ IsHex(x) /\ x \in Byte /\ FromHex(x) = b \div 16 /\ UpperHex(x) = x
        /\ IsHex(y) /\ y \in Byte /\ FromHex(y) = (b % 16) /\ UpperHex(y) = y
    BY <2>2, <2>3, HexWritten, Zenon
  <2>6. EncodeByte(b) = <<Percent, x, y>>
    BY <1>2 DEF EncodeByte, Escaped
  <2> HIDE DEF x, y
  <2>7. x \in SafeBytes /\ y \in SafeBytes /\ Percent \in SafeBytes
    BY <2>5, UppercaseHex DEF SafeBytes
  <2>8. <<Percent, x, y>> \in Seq(SafeBytes)
    BY <2>7
  <2>9. /\ <<Percent, x, y>> \in SoundUnits
        /\ ByteOf(<<Percent, x, y>>) = FromHex(x) * 16 + FromHex(y)
    BY <2>5, EscapeUnit, Zenon
  <2> QED
    BY <2>4, <2>5, <2>6, <2>8, <2>9, Zenon
<1> QED
  BY <1>1, <1>2

\* Texts over some bytes, one behind the other, are a text over them.
LEMMA FlattenOver ==
  ASSUME NEW G, G \subseteq Byte, NEW us \in Seq(Texts), \A k \in 1..Len(us) : us[k] \in Seq(G)
  PROVE  FlattenSeq(us) \in Seq(G)
<1>1. Len(us) \in Nat
  BY LenProperties
<1>2. PICK f \in [0..Len(us) -> Texts] :
         /\ FlattenSeq(us) = f[Len(us)] /\ f[0] = << >>
         /\ \A k \in 1..Len(us) : f[k] = f[k - 1] \o us[k]
  BY FlattenExists, Zenon
<1> DEFINE T == {k \in 0..Len(us) : f[k] \in Seq(G)}
<1>3. 0 \in T
  <2>1. 0 \in 0..Len(us)
    BY <1>1
  <2>2. f[0] \in Seq(G)
    BY <1>2, EmptySeq, Zenon
  <2> QED
    BY <2>1, <2>2
<1>4. ASSUME NEW k \in 0..(Len(us) - 1), k \in T PROVE k + 1 \in T
  <2>1. k + 1 \in 1..Len(us) /\ (k + 1) - 1 = k /\ k + 1 \in 0..Len(us)
    BY <1>1
  <2>2. f[k + 1] = f[k] \o us[k + 1] /\ us[k + 1] \in Seq(G) /\ f[k] \in Seq(G)
    BY <1>2, <1>4, <2>1
  <2>3. f[k + 1] \in Seq(G)
    BY <2>2, ConcatProperties, Zenon
  <2> QED
    BY <2>1, <2>3
<1> HIDE DEF T
<1>5. \A k \in 0..Len(us) : k \in T
  BY <1>1, <1>3, <1>4, Upwards, Zenon
<1>6. Len(us) \in T
  BY <1>1, <1>5
<1> QED
  BY <1>2, <1>6 DEF T

\* A text that is not empty has units, so it does not decode to nothing.
LEMMA DecodeKeepsNothing ==
  ASSUME NEW t \in Texts
  PROVE  t = << >> <=> Decode(t) = << >>
<1>1. t = << >> => Decode(t) = << >>
  BY DecodeEmpty, Zenon
<1>2. ASSUME t # << >>, Decode(t) = << >> PROVE FALSE
  <2>1. Len(t) \in Nat /\ Len(t) > 0
    BY <1>2, EmptySeq DEF Texts
  <2>2. PICK w \in [1..(Len(t) + 1) -> Seq(Texts)] :
          /\ Units(t) = w[1]
          /\ \A i \in 1..Len(t) :
               w[i] = <<SubSeq(t, i, UnitEnd(t, i))>> \o w[UnitEnd(t, i) + 1]
    BY WalkExists, Zenon
  <2> DEFINE e == UnitEnd(t, 1)
             u == SubSeq(t, 1, e)
  <2>3. 1 \in 1..Len(t) /\ e \in 1..Len(t) /\ e + 1 \in 1..(Len(t) + 1)
    BY <2>1, UnitEnds
  <2>4. u \in Texts /\ w[e + 1] \in Seq(Texts) /\ Units(t) = <<u>> \o w[e + 1]
    BY <2>2, <2>3, PiecesAreTexts
  <2> HIDE DEF u, e
  <2>5. Len(Units(t)) = Len(w[e + 1]) + 1 /\ Len(w[e + 1]) \in Nat
    BY <2>4, ConsProperties, LenProperties
  <2>6. Len(Decode(t)) = Len(Units(t))
    BY DecodeIsText, Zenon
  <2>7. Len(Decode(t)) = 0
    BY <1>2
  <2> QED
    BY <2>5, <2>6, <2>7
<1> QED
  BY <1>1, <1>2

\* Encode writes a well-formed component in one way, and keeps what it says.
LEMMA EncodeIsFaithful ==
  ASSUME NEW t \in Texts, WellFormed(t)
  PROVE  /\ Encode(t) \in EncodedTexts /\ Decode(Encode(t)) = Decode(t)
         /\ t # << >> => Encode(t) # << >>
<1>1. CASE \A b \in ToSet(t) : IsUnreserved(b)
  <2>1. Encode(t) = t
    BY <1>1 DEF Encode
  <2>2. t \in Seq(SafeBytes)
    <3>1. \A k \in 1..Len(t) : t[k] \in SafeBytes
      <4>1. \A k \in 1..Len(t) : t[k] \in Byte /\ t[k] \in ToSet(t)
        BY LenProperties, ElementOfSeq DEF Texts, ToSet
      <4> QED
        BY <1>1, <4>1 DEF SafeBytes
    <3> QED
      BY <3>1, LenProperties DEF Texts
  <2> QED
    BY <2>1, <2>2, Zenon DEF EncodedTexts
<1>2. CASE ~(\A b \in ToSet(t) : IsUnreserved(b))
  <2> DEFINE bytes == Decode(t)
             us == [k \in DOMAIN bytes |-> EncodeByte(bytes[k])]
             e == FlattenSeq(us)
  <2>1. Encode(t) = e
    BY <1>2 DEF Encode
  <2>2. bytes \in Seq(Byte) /\ DOMAIN bytes = 1..Len(bytes) /\ Len(bytes) \in Nat
        /\ \A k \in 1..Len(bytes) : bytes[k] \in Byte
    BY DecodeIsText, LenProperties, ElementOfSeq DEF Texts
  <2>3. e \in EncodedTexts /\ Decode(e) = bytes
    <3> HIDE DEF bytes
    <3>1. /\ us \in Seq(SoundUnits) /\ Len(us) = Len(bytes) /\ DOMAIN us = DOMAIN bytes
          /\ \A k \in 1..Len(bytes) : us[k] = EncodeByte(bytes[k])
      <4>1. \A k \in 1..Len(bytes) : EncodeByte(bytes[k]) \in SoundUnits
        BY <2>2, EncodedByte, Zenon
      <4> QED
        BY <2>2, <4>1
    <3>2. \A k \in 1..Len(us) : us[k] \in SoundUnits /\ us[k] \in Seq(SafeBytes) /\ us[k] \in Texts
      BY <2>2, <3>1, EncodedByte DEF SoundUnits, ProperUnits
    <3>3. us \in Seq(Texts)
      BY <2>2, <3>1, <3>2
    <3>4. e \in Seq(SafeBytes)
      <4> HIDE DEF us
      <4> QED
        BY <3>2, <3>3, FlattenOver, SafeBytesAre, Zenon
    <3>5. e \in Texts /\ Units(e) = us
      <4> HIDE DEF us
      <4> QED
        BY <3>1, FlattenUnits, Zenon
    <3>6. WellFormed(e)
      <4>1. \A k \in DOMAIN us : us[k] # <<Percent>>
        <5> SUFFICES ASSUME NEW k \in DOMAIN us, us[k] = <<Percent>> PROVE FALSE
          OBVIOUS
        <5>1. us[k] \in SoundUnits /\ Len(us[k]) = 1 /\ us[k][1] = Percent
          <6>1. us[k] \in SoundUnits
            BY <2>2, <3>1, <3>2
          <6> QED
            BY <6>1
        <5> QED
          BY <5>1, Zenon DEF SoundUnits
      <4> QED
        BY <3>5, <4>1 DEF WellFormed, ToSet
    <3>7. Decode(e) = bytes
      <4>1. Decode(e) = [k \in DOMAIN us |-> ByteOf(us[k])]
        BY <3>5, Zenon DEF Decode
      <4>2. \A k \in DOMAIN us : ByteOf(us[k]) = bytes[k]
        BY <2>2, <3>1, EncodedByte, Zenon
      <4>3. Decode(e) = [k \in 1..Len(bytes) |-> bytes[k]]
        BY <2>2, <3>1, <4>1, <4>2
      <4> QED
        BY <2>2, <4>3
    <3>8. Encode(e) = e
      <4>1. CASE \A b \in ToSet(e) : IsUnreserved(b)
        BY <4>1 DEF Encode
      <4>2. CASE ~(\A b \in ToSet(e) : IsUnreserved(b))
        <5>1. Encode(e) = FlattenSeq([k \in DOMAIN Decode(e) |-> EncodeByte(Decode(e)[k])])
          BY <4>2 DEF Encode
        <5> QED
          BY <3>7, <5>1
      <4> QED
        BY <4>1, <4>2
    <3> QED
      BY <3>4, <3>6, <3>7, <3>8, Zenon DEF EncodedTexts
  <2>4. ASSUME t # << >> PROVE e # << >>
    <3>1. bytes # << >>
      BY <2>4, DecodeKeepsNothing, Zenon
    <3>2. Decode(<< >>) = << >>
      BY DecodeEmpty
    <3> HIDE DEF bytes, e
    <3> QED
      BY <2>3, <3>1, <3>2
  <2> HIDE DEF e
  <2> QED
    BY <2>1, <2>3, <2>4, Zenon DEF bytes
<1> QED
  BY <1>1, <1>2

-------------------------------------------------------------------------------
\* Texts joined by a separator, and split again.

\* A text without the separator is one piece.
LEMMA SplitWhole ==
  ASSUME NEW x \in Texts, NEW sep, \A k \in 1..Len(x) : x[k] # sep
  PROVE  Split(x, sep) = <<x>>
<1> DEFINE n == Len(x)
<1>1. n \in Nat /\ 1 \in 1..(n + 1) /\ n + 1 \in 1..(n + 1) /\ (n + 1) - 1 = n
      /\ ~(n + 1 <= n) /\ n + 1 > n
  BY LenProperties DEF Texts
<1>2. Cut(x, sep, 1) = n + 1
  <2>1. IsCut(x, sep, 1, n + 1)
    BY <1>1, Zenon DEF IsCut
  <2> QED
    BY <1>1, <2>1, CutIs, Zenon
<1>3. PICK w : IsSplit(w, x, sep) /\ Split(x, sep) = w[1]
  BY SplitIs, Zenon
<1>4. SubSeq(x, 1, n) = x
  BY SubSeqFull, Zenon DEF Texts
<1>5. w[1] = <<x>> \o << >>
  <2>1. w[1] = <<SubSeq(x, 1, (n + 1) - 1)>> \o IF n + 1 > n THEN << >> ELSE w[n + 1 + 1]
    BY <1>1, <1>2, <1>3, Zenon DEF IsSplit
  <2> QED
    BY <1>1, <1>4, <2>1, Zenon
<1>6. <<x>> \o << >> = <<x>>
  <2>1. <<x>> \in Seq(Texts)
    OBVIOUS
  <2> QED
    BY <2>1, ConcatEmptySeq, Zenon
<1> QED
  BY <1>3, <1>5, <1>6, Zenon

\* A piece more, behind a separator.
LEMMA SplitSnoc ==
  ASSUME NEW x \in Texts, NEW y \in Texts, NEW sep \in Byte, \A k \in 1..Len(y) : y[k] # sep
  PROVE  Split(x \o (<<sep>> \o y), sep) = Split(x, sep) \o <<y>>
<1> DEFINE n == Len(x)
           z == <<sep>> \o y
           raw == x \o z
<1>1. n \in Nat /\ Len(y) \in Nat
  BY LenProperties DEF Texts
<1>2. z \in Texts /\ Len(z) = Len(y) + 1 /\ z[1] = sep /\ \A k \in 1..Len(y) : z[k + 1] = y[k]
  <2>1. y \in Seq(Byte) /\ sep \in Byte
    BY Zenon DEF Texts
  <2>2. /\ z \in Seq(Byte) /\ Len(z) = Len(y) + 1 /\ z[1] = sep
        /\ \A k \in 1..Len(y) : z[k + 1] = y[k]
    BY <2>1, ConsProperties
  <2> QED
    BY <2>2, Zenon DEF Texts
<1>3. /\ raw \in Texts /\ Len(raw) = n + Len(z) /\ \A i \in 1..n : raw[i] = x[i]
      /\ \A i \in 1..Len(z) : raw[n + i] = z[i]
  <2> HIDE DEF z
  <2> QED
    BY <1>2, TextConcat, Zenon
<1> HIDE DEF raw, z
<1>4. raw[n + 1] = sep
  <2>1. 1 \in 1..Len(z)
    BY <1>1, <1>2
  <2> QED
    BY <1>2, <1>3, <2>1, Zenon
<1>5. \A k \in 1..Len(y) : raw[n + 1 + k] = y[k]
  <2> SUFFICES ASSUME NEW k \in 1..Len(y) PROVE raw[n + 1 + k] = y[k]
    OBVIOUS
  <2>1. k + 1 \in 1..Len(z) /\ n + 1 + k = n + (k + 1)
    BY <1>1, <1>2
  <2> QED
    BY <1>2, <1>3, <2>1, Zenon
<1>6. Len(raw) = n + 1 + Len(y)
  BY <1>1, <1>2, <1>3
<1>7. PICK w : IsSplit(w, raw, sep) /\ Split(raw, sep) = w[1]
  <2>1. raw \in Texts
    BY <1>3, Zenon
  <2> QED
    BY <2>1, SplitIs, Zenon
<1>8. PICK v : IsSplit(v, x, sep) /\ Split(x, sep) = v[1]
  BY SplitIs, Zenon
<1>9. w[n + 2] = <<y>>
  <2> DEFINE i == n + 2
             c == Len(raw) + 1
  <2>1. /\ i \in 1..(Len(raw) + 1) /\ c \in i..(Len(raw) + 1) /\ ~(c <= Len(raw)) /\ c > Len(raw)
        /\ c - 1 = Len(raw)
    BY <1>1, <1>6
  <2>2. \A k \in i..(c - 1) : raw[k] # sep
    <3> SUFFICES ASSUME NEW k \in i..(c - 1) PROVE raw[k] # sep
      OBVIOUS
    <3>1. k - n - 1 \in 1..Len(y) /\ n + 1 + (k - n - 1) = k
      BY <1>1, <1>6
    <3> QED
      BY <1>5, <3>1, Zenon
  <2>3. IsCut(raw, sep, i, c)
    BY <2>1, <2>2, Zenon DEF IsCut
  <2>4. Cut(raw, sep, i) = c
    <3> HIDE DEF c, i
    <3> QED
      BY <1>3, <2>1, <2>3, CutIs, Zenon
  <2>5. SubSeq(raw, i, Len(raw)) = y
    <3> DEFINE s == SubSeq(raw, i, Len(raw))
    <3>1. Len(raw) \in (i - 1)..Len(raw) /\ Len(raw) - i + 1 = Len(y)
      BY <1>1, <1>6
    <3>2. /\ s \in Texts /\ Len(s) = Len(raw) - i + 1
          /\ \A k \in 1..(Len(raw) - i + 1) : s[k] = raw[i + k - 1]
      <4> HIDE DEF i
      <4> QED
        BY <1>3, <2>1, <3>1, SubTexts, Zenon
    <3>3. \A k \in 1..Len(y) : s[k] = y[k]
      <4> SUFFICES ASSUME NEW k \in 1..Len(y) PROVE s[k] = y[k]
        OBVIOUS
      <4>1. i + k - 1 = n + 1 + k
        BY <1>1
      <4> HIDE DEF s, i
      <4> QED
        BY <1>5, <3>1, <3>2, <4>1, Zenon
    <3> HIDE DEF s, i
    <3>4. s = y
      BY <3>1, <3>2, <3>3, SeqEqual, Zenon DEF Texts
    <3> QED
      BY <3>4 DEF s
  <2>6. w[i] = <<SubSeq(raw, i, c - 1)>> \o << >>
    <3>1. w[i] = <<SubSeq(raw, i, c - 1)>> \o IF c > Len(raw) THEN << >> ELSE w[c + 1]
      <4> HIDE DEF c, i
      <4> QED
        BY <1>7, <2>1, <2>4, Zenon DEF IsSplit
    <3> HIDE DEF c, i
    <3> QED
      BY <2>1, <3>1, Zenon
  <2>7. <<y>> \o << >> = <<y>>
    <3>1. <<y>> \in Seq(Texts)
      OBVIOUS
    <3> QED
      BY <3>1, ConcatEmptySeq, Zenon
  <2>8. w[i] = <<y>>
    <3> HIDE DEF c, i
    <3> QED
      BY <2>1, <2>5, <2>6, <2>7, Zenon
  <2> QED
    BY <2>8
<1> DEFINE T == {i \in 1..(n + 1) : w[i] = v[i] \o <<y>>}
<1>10. ASSUME NEW i \in 1..(n + 1), \A j \in (i + 1)..(n + 1) : j \in T
       PROVE  i \in T
  <2> DEFINE c == Cut(x, sep, i)
             s == SubSeq(x, i, c - 1)
  <2>1. /\ c \in i..(n + 1) /\ (c <= n => x[c] = sep)
        /\ \A k \in i..(c - 1) : x[k] # sep
    BY Cuts, Zenon
  <2> HIDE DEF c
  <2>2. i \in 1..(Len(raw) + 1) /\ c \in i..(Len(raw) + 1) /\ c <= Len(raw) /\ ~(c > Len(raw))
    BY <1>1, <1>6, <2>1
  <2>3. Cut(raw, sep, i) = c
    <3>1. raw[c] = sep
      <4>1. CASE c <= n
        <5>1. c \in 1..n
          BY <2>1, <4>1
        <5> QED
          BY <1>3, <2>1, <4>1, <5>1, Zenon
      <4>2. CASE ~(c <= n)
        <5>1. c = n + 1
          BY <1>1, <2>1, <4>2
        <5> QED
          BY <1>4, <5>1
      <4> QED
        BY <4>1, <4>2
    <3>2. \A k \in i..(c - 1) : raw[k] # sep
      <4> SUFFICES ASSUME NEW k \in i..(c - 1) PROVE raw[k] # sep
        OBVIOUS
      <4>1. k \in 1..n
        BY <1>1, <2>1
      <4> QED
        BY <1>3, <2>1, <4>1, Zenon
    <3>3. IsCut(raw, sep, i, c)
      BY <2>2, <3>1, <3>2, Zenon DEF IsCut
    <3> QED
      BY <1>3, <2>2, <3>3, CutIs, Zenon
  <2>4. SubSeq(raw, i, c - 1) = s /\ s \in Texts
    <3> DEFINE r == SubSeq(raw, i, c - 1)
    <3>1. c - 1 \in (i - 1)..Len(x) /\ c - 1 \in (i - 1)..Len(raw) /\ i \in 1..(Len(x) + 1)
      BY <1>1, <1>6, <2>1
    <3>2. /\ r \in Texts /\ Len(r) = c - 1 - i + 1
          /\ \A k \in 1..(c - 1 - i + 1) : r[k] = raw[i + k - 1]
      BY <1>3, <2>2, <3>1, SubTexts, Zenon
    <3>3. /\ s \in Texts /\ Len(s) = c - 1 - i + 1
          /\ \A k \in 1..(c - 1 - i + 1) : s[k] = x[i + k - 1]
      BY <2>2, <3>1, SubTexts, Zenon
    <3>4. \A k \in 1..(c - 1 - i + 1) : i + k - 1 \in 1..n
      BY <1>1, <2>1
    <3>5. \A k \in 1..(c - 1 - i + 1) : r[k] = s[k]
      BY <1>3, <3>2, <3>3, <3>4, Zenon
    <3> HIDE DEF r, s
    <3>6. r = s
      BY <3>2, <3>3, <3>5, SeqEqual, Zenon DEF Texts
    <3> QED
      BY <3>3, <3>6 DEF r
  <2>5. w[i] = <<s>> \o w[c + 1]
    <3>1. w[i] = <<SubSeq(raw, i, c - 1)>> \o IF c > Len(raw) THEN << >> ELSE w[c + 1]
      BY <1>7, <2>2, <2>3, Zenon DEF IsSplit
    <3> QED
      BY <2>2, <2>4, <3>1, Zenon
  <2>6. v[i] = <<s>> \o IF c > n THEN << >> ELSE v[c + 1]
    BY <1>8, Zenon DEF IsSplit, c
  <2> HIDE DEF s
  <2>7. <<s>> \in Seq(Texts) /\ <<y>> \in Seq(Texts)
    BY <2>4
  <2>8. CASE c <= n
    <3>1. c + 1 \in (i + 1)..(n + 1) /\ c + 1 \in 1..(Len(x) + 1) /\ ~(c > n)
      BY <1>1, <2>1, <2>8
    <3>2. w[c + 1] = v[c + 1] \o <<y>>
      <4>1. c + 1 \in T
        BY <1>10, <3>1, Zenon
      <4> QED
        BY <4>1
    <3>3. v[c + 1] \in Seq(Texts)
      BY <1>8, <3>1, Zenon DEF IsSplit
    <3>4. (<<s>> \o v[c + 1]) \o <<y>> = <<s>> \o (v[c + 1] \o <<y>>)
      <4> DEFINE a == <<s>>
                 b == v[c + 1]
                 d == <<y>>
      <4>1. a \in Seq(Texts) /\ b \in Seq(Texts) /\ d \in Seq(Texts)
        BY <2>7, <3>3
      <4> HIDE DEF a, b, d
      <4>2. (a \o b) \o d = a \o (b \o d)
        BY <4>1, ConcatAssociative
      <4> QED
        BY <4>2 DEF a, b, d
    <3>5. w[i] = v[i] \o <<y>>
      BY <2>5, <2>6, <3>1, <3>2, <3>4, Zenon
    <3> QED
      BY <3>5
  <2>9. CASE ~(c <= n)
    <3>1. c > n /\ c + 1 = n + 2
      BY <1>1, <2>1, <2>9
    <3>2. <<s>> \o << >> = <<s>>
      BY <2>7, ConcatEmptySeq, Zenon
    <3>3. w[i] = v[i] \o <<y>>
      BY <1>9, <2>5, <2>6, <3>1, <3>2, Zenon
    <3> QED
      BY <3>3
  <2> QED
    BY <2>8, <2>9
<1> HIDE DEF T
<1>11. 1 \in T
  <2>1. n + 1 \in Nat /\ 1 \in 1..(n + 1)
    BY <1>1
  <2>2. \A i \in 1..(n + 1) : i \in T
    BY <1>10, <2>1, Downwards, Zenon
  <2> QED
    BY <2>1, <2>2
<1>12. w[1] = v[1] \o <<y>>
  BY <1>11 DEF T
<1> QED
  BY <1>7, <1>8, <1>12, Zenon DEF raw, z

\* Texts with a separator between each two.
Joined(texts, sep) ==
  FlattenSeq([k \in DOMAIN texts |-> IF k = 1 THEN texts[k] ELSE <<sep>> \o texts[k]])

\* Texts without the separator, joined by it, are split into the same ones.
LEMMA JoinSplit ==
  ASSUME NEW sep \in Byte, NEW texts \in Seq(Texts), Len(texts) > 0,
         \A i \in 1..Len(texts) : \A k \in 1..Len(texts[i]) : texts[i][k] # sep
  PROVE  Joined(texts, sep) \in Texts /\ Split(Joined(texts, sep), sep) = texts
<1> DEFINE n == Len(texts)
           us == [k \in DOMAIN texts |-> IF k = 1 THEN texts[k] ELSE <<sep>> \o texts[k]]
<1>1. n \in Nat /\ DOMAIN texts = 1..n /\ \A k \in 1..n : texts[k] \in Texts
  BY LenProperties, ElementOfSeq
<1>2. \A k \in 1..n : <<sep>> \o texts[k] \in Texts
  BY <1>1, ConsProperties, Zenon DEF Texts
<1>3. us \in Seq(Texts) /\ Len(us) = n
      /\ \A k \in 1..n : us[k] = IF k = 1 THEN texts[k] ELSE <<sep>> \o texts[k]
  BY <1>1, <1>2
<1> HIDE DEF us
<1>4. PICK f \in [0..n -> Texts] :
         /\ FlattenSeq(us) = f[n] /\ f[0] = << >>
         /\ \A k \in 1..n : f[k] = f[k - 1] \o us[k]
  <2>1. us \in Seq(Texts)
    BY <1>3, Zenon
  <2>2. \E f \in [0..Len(us) -> Texts] :
          /\ FlattenSeq(us) = f[Len(us)] /\ f[0] = << >>
          /\ \A k \in 1..Len(us) : f[k] = f[k - 1] \o us[k]
    BY <2>1, FlattenExists, Zenon
  <2> QED
    BY <1>3, <2>2
<1> DEFINE got(k) == Split(f[k], sep)
           T == {k \in 0..n : k > 0 => /\ got(k) \in Seq(Texts) /\ Len(got(k)) = k
                                       /\ \A j \in 1..k : got(k)[j] = texts[j]}
<1>5. 0 \in T
  BY <1>1
<1>6. ASSUME NEW k \in 0..(n - 1), k \in T PROVE k + 1 \in T
  <2>1. k + 1 \in 1..n /\ k + 1 \in 0..n /\ (k + 1) - 1 = k /\ k \in 0..n /\ k + 1 > 0 /\ k \in Nat
    BY <1>1
  <2> DEFINE t == texts[k + 1]
  <2>2. t \in Texts /\ \A j \in 1..Len(t) : t[j] # sep
    BY <1>1, <2>1, Zenon
  <2>3. f[k + 1] = f[k] \o us[k + 1] /\ f[k] \in Texts
    BY <1>4, <2>1
  <2>4. CASE k = 0
    <3>1. us[k + 1] = t
      BY <1>3, <2>1, <2>4
    <3>2. f[k + 1] = t
      <4>1. << >> \o t = t
        BY <2>2, ConcatEmptySeq, Zenon DEF Texts
      <4> QED
        BY <1>4, <2>3, <2>4, <3>1, <4>1, Zenon
    <3>3. got(k + 1) = <<t>>
      BY <2>2, <3>2, SplitWhole, Zenon
    <3>4. <<t>> \in Seq(Texts) /\ Len(<<t>>) = 1 /\ <<t>>[1] = t
      BY <2>2
    <3> HIDE DEF t, got
    <3>5. \A j \in 1..(k + 1) : got(k + 1)[j] = texts[j]
      BY <2>4, <3>3, <3>4 DEF t
    <3>6. got(k + 1) \in Seq(Texts) /\ Len(got(k + 1)) = k + 1
      <4>1. k + 1 = 1
        BY <2>4
      <4> QED
        BY <3>3, <3>4, <4>1, Zenon
    <3> QED
      BY <2>1, <3>5, <3>6, Zenon
  <2>5. CASE k # 0
    <3>0. k > 0 /\ k + 1 # 1
      BY <2>1, <2>5
    <3>1. us[k + 1] = <<sep>> \o t /\ k > 0
      BY <1>3, <2>1, <3>0, Zenon
    <3>2. got(k + 1) = got(k) \o <<t>>
      <4> HIDE DEF t
      <4>1. Split(f[k] \o (<<sep>> \o t), sep) = Split(f[k], sep) \o <<t>>
        BY <2>2, <2>3, SplitSnoc, Zenon
      <4> QED
        BY <2>3, <3>1, <4>1, Zenon
    <3>3. got(k) \in Seq(Texts) /\ Len(got(k)) = k /\ \A j \in 1..k : got(k)[j] = texts[j]
      BY <1>6, <3>1, Zenon
    <3>4. <<t>> \in Seq(Texts) /\ Len(<<t>>) = 1 /\ <<t>>[1] = t
      BY <2>2
    <3> DEFINE p == got(k)
               r == p \o <<t>>
    <3>5. /\ r \in Seq(Texts) /\ Len(r) = Len(p) + Len(<<t>>)
          /\ \A j \in 1..(Len(p) + Len(<<t>>)) : r[j] = IF j <= Len(p) THEN p[j] ELSE <<t>>[j - Len(p)]
      BY <3>3, <3>4, ConcatProperties, Zenon
    <3> HIDE DEF r, p, t, got
    <3>6. Len(p) = k /\ Len(r) = k + 1 /\ \A j \in 1..k : p[j] = texts[j]
      BY <3>3, <3>4, <3>5 DEF p
    <3>7. \A j \in 1..(k + 1) : r[j] = texts[j]
      <4> SUFFICES ASSUME NEW j \in 1..(k + 1) PROVE r[j] = texts[j]
        OBVIOUS
      <4>1. r[j] = IF j <= k THEN p[j] ELSE <<t>>[j - k]
        BY <3>4, <3>5, <3>6, Zenon
      <4>2. CASE j <= k
        <5>1. j \in 1..k
          BY <4>2
        <5> QED
          BY <3>6, <4>1, <4>2, <5>1, Zenon
      <4>3. CASE ~(j <= k)
        <5>1. j = k + 1 /\ j - k = 1
          BY <4>3
        <5> QED
          BY <3>4, <4>1, <4>3, <5>1, Zenon DEF t
      <4> QED
        BY <4>2, <4>3
    <3>8. got(k + 1) = r
      BY <3>2 DEF r, p, got
    <3> QED
      BY <2>1, <3>5, <3>6, <3>7, <3>8, Zenon
  <2> QED
    BY <2>4, <2>5
<1> HIDE DEF T
<1>7. n \in T
  <2>1. \A k \in 0..n : k \in T
    BY <1>1, <1>5, <1>6, Upwards, Zenon
  <2> QED
    BY <1>1, <2>1
<1>8. got(n) \in Seq(Texts) /\ Len(got(n)) = n /\ \A j \in 1..n : got(n)[j] = texts[j]
  BY <1>7, Zenon DEF T
<1>9. got(n) = texts
  <2> HIDE DEF got
  <2> QED
    BY <1>8, SeqEqual, Zenon
<1>10. f[n] \in Texts
  <2>1. n \in 0..n
    BY <1>1
  <2> QED
    BY <1>4, <2>1
<1> QED
  BY <1>4, <1>9, <1>10, Zenon DEF Joined, us

-------------------------------------------------------------------------------
\* The parameters of a query as they are written.

\* The name ends before the first equals sign, if there is one.
LEMMA ParamOfPart ==
  ASSUME NEW part \in Texts
  PROVE  NameValue(part) \in Params
<1> DEFINE I == {i \in 1..Len(part) : part[i] = Equals}
           eq == IF I # {} THEN Min(I) ELSE 0
<1>1. Len(part) \in Nat
  BY LenProperties DEF Texts
<1>2. NameValue(part) =
        IF eq = 0 THEN [name |-> part, value |-> <<>>]
        ELSE [name |-> SubSeq(part, 1, eq - 1), value |-> SubSeq(part, eq + 1, Len(part))]
  BY Zenon DEF NameValue, SelectInSeq
<1>3. eq \in 0..Len(part)
  <2>1. CASE I = {}
    BY <1>1, <2>1
  <2>2. CASE I # {}
    <3>1. \E m \in I : \A k \in I : m <= k
      <4>1. I \subseteq Nat
        OBVIOUS
      <4> HIDE DEF I
      <4> QED
        BY <2>2, <4>1, LeastMember, Zenon
    <3>2. Min(I) \in I
      BY <3>1, Zenon DEF Min
    <3> QED
      BY <2>2, <3>2
  <2> QED
    BY <2>1, <2>2
<1> HIDE DEF eq
<1>4. CASE eq = 0
  <2>1. << >> \in Texts
    BY EmptySeq DEF Texts
  <2> QED
    BY <1>2, <1>4, <2>1 DEF Params
<1>5. CASE eq # 0
  <2>1. /\ 1 \in 1..(Len(part) + 1) /\ eq - 1 \in (1 - 1)..Len(part)
        /\ eq + 1 \in 1..(Len(part) + 1) /\ Len(part) \in ((eq + 1) - 1)..Len(part)
    BY <1>1, <1>3, <1>5
  <2>2. SubSeq(part, 1, eq - 1) \in Texts
    BY <2>1, SubTexts, Zenon
  <2>3. SubSeq(part, eq + 1, Len(part)) \in Texts
    BY <2>1, SubTexts, Zenon
  <2>4. NameValue(part) = [name |-> SubSeq(part, 1, eq - 1), value |-> SubSeq(part, eq + 1, Len(part))]
    BY <1>2, <1>5, Zenon
  <2> QED
    BY <2>2, <2>3, <2>4 DEF Params
<1> QED
  BY <1>4, <1>5

\* A name without an equals sign, an equals sign and a value are read as they
\* are written.
LEMMA ParamWritten ==
  ASSUME NEW name \in Texts, NEW value \in Texts, \A k \in 1..Len(name) : name[k] # Equals
  PROVE  /\ name \o (<<Equals>> \o value) \in Texts
         /\ NameValue(name \o (<<Equals>> \o value)) = [name |-> name, value |-> value]
<1> DEFINE n == Len(name)
           z == <<Equals>> \o value
           part == name \o z
<1>1. n \in Nat /\ Len(value) \in Nat /\ Equals \in Byte
  BY LenProperties DEF Texts, Equals, Byte
<1>2. z \in Texts /\ Len(z) = Len(value) + 1 /\ z[1] = Equals
      /\ \A k \in 1..Len(value) : z[k + 1] = value[k]
  <2>1. value \in Seq(Byte) /\ Equals \in Byte
    BY <1>1, Zenon DEF Texts
  <2>2. /\ z \in Seq(Byte) /\ Len(z) = Len(value) + 1 /\ z[1] = Equals
        /\ \A k \in 1..Len(value) : z[k + 1] = value[k]
    BY <2>1, ConsProperties
  <2> QED
    BY <2>2, Zenon DEF Texts
<1>3. /\ part \in Texts /\ Len(part) = n + Len(z) /\ \A i \in 1..n : part[i] = name[i]
      /\ \A i \in 1..Len(z) : part[n + i] = z[i]
  <2> HIDE DEF z
  <2> QED
    BY <1>2, TextConcat, Zenon
<1> HIDE DEF part, z
<1>4. part[n + 1] = Equals
  <2>1. 1 \in 1..Len(z)
    BY <1>1, <1>2
  <2> QED
    BY <1>2, <1>3, <2>1, Zenon
<1>5. \A k \in 1..Len(value) : part[n + 1 + k] = value[k]
  <2> SUFFICES ASSUME NEW k \in 1..Len(value) PROVE part[n + 1 + k] = value[k]
    OBVIOUS
  <2>1. k + 1 \in 1..Len(z) /\ n + 1 + k = n + (k + 1)
    BY <1>1, <1>2
  <2> QED
    BY <1>2, <1>3, <2>1, Zenon
<1>6. Len(part) = n + 1 + Len(value)
  BY <1>1, <1>2, <1>3
<1> DEFINE I == {i \in 1..Len(part) : part[i] = Equals}
           eq == IF I # {} THEN Min(I) ELSE 0
<1>7. eq = n + 1
  <2>1. n + 1 \in I
    BY <1>1, <1>4, <1>6
  <2>2. \A k \in I : n + 1 <= k
    <3> SUFFICES ASSUME NEW k \in I, ~(n + 1 <= k) PROVE FALSE
      OBVIOUS
    <3>1. k \in 1..n
      BY <1>1, <1>6
    <3> QED
      BY <1>3, <3>1, Zenon
  <2>3. Min(I) \in I /\ \A k \in I : Min(I) <= k
    <3> HIDE DEF I
    <3> QED
      BY <2>1, <2>2, Zenon DEF Min
  <2>4. Min(I) = n + 1
    <3>1. Min(I) \in 1..Len(part) /\ Min(I) <= n + 1 /\ n + 1 <= Min(I)
      BY <2>1, <2>2, <2>3, Zenon
    <3> HIDE DEF I
    <3> QED
      BY <1>1, <3>1
  <2> QED
    BY <2>1, <2>4, Zenon
<1>8. NameValue(part) =
        IF eq = 0 THEN [name |-> part, value |-> <<>>]
        ELSE [name |-> SubSeq(part, 1, eq - 1), value |-> SubSeq(part, eq + 1, Len(part))]
  BY Zenon DEF NameValue, SelectInSeq
<1> HIDE DEF eq
<1>9. SubSeq(part, 1, eq - 1) = name
  <2> DEFINE s == SubSeq(part, 1, eq - 1)
  <2>1. 1 \in 1..(Len(part) + 1) /\ eq - 1 \in (1 - 1)..Len(part) /\ (eq - 1) - 1 + 1 = n
    BY <1>1, <1>6, <1>7
  <2>2. s \in Texts /\ Len(s) = (eq - 1) - 1 + 1 /\ \A k \in 1..((eq - 1) - 1 + 1) : s[k] = part[1 + k - 1]
    BY <1>3, <2>1, SubTexts, Zenon
  <2>3. \A k \in 1..n : 1 + k - 1 = k
    BY <1>1
  <2>4. Len(s) = n /\ \A k \in 1..n : s[k] = name[k]
    BY <1>3, <2>1, <2>2, <2>3, Zenon
  <2> HIDE DEF s
  <2>5. s = name
    BY <2>2, <2>4, SeqEqual, Zenon DEF Texts
  <2> QED
    BY <2>5 DEF s
<1>10. SubSeq(part, eq + 1, Len(part)) = value
  <2> DEFINE s == SubSeq(part, eq + 1, Len(part))
             m == Len(value)
  <2>1. /\ eq + 1 \in 1..(Len(part) + 1) /\ Len(part) \in ((eq + 1) - 1)..Len(part)
        /\ Len(part) - (eq + 1) + 1 = m
    BY <1>1, <1>6, <1>7
  <2>2. /\ s \in Texts /\ Len(s) = Len(part) - (eq + 1) + 1
        /\ \A k \in 1..(Len(part) - (eq + 1) + 1) : s[k] = part[eq + 1 + k - 1]
    BY <1>3, <2>1, SubTexts, Zenon
  <2>3. \A k \in 1..m : eq + 1 + k - 1 = n + 1 + k
    BY <1>1, <1>7
  <2>4. Len(s) = m /\ \A k \in 1..m : s[k] = value[k]
    BY <1>5, <2>1, <2>2, <2>3, Zenon
  <2> HIDE DEF s
  <2>5. s = value
    BY <2>2, <2>4, SeqEqual, Zenon DEF Texts
  <2> QED
    BY <2>5 DEF s
<1>11. NameValue(part) = [name |-> name, value |-> value]
  <2>1. eq # 0
    BY <1>1, <1>7
  <2> QED
    BY <1>8, <1>9, <1>10, <2>1
<1> QED
  BY <1>3, <1>11 DEF part, z

\* Written is one parameter for each part between ampersands.
LEMMA WrittenIs ==
  ASSUME NEW q \in Texts
  PROVE  /\ Written(q) \in Seq(Params) /\ Len(Written(q)) \in Nat
         /\ DOMAIN Written(q) = 1..Len(Written(q))
         /\ \A i \in 1..Len(Written(q)) : Written(q)[i] \in Params
<1> DEFINE parts == Parts(q)
<1>1. parts \in Seq(Texts)
  <2>1. CASE q = <<>>
    BY <2>1, EmptySeq DEF Parts
  <2>2. CASE q # <<>>
    <3>1. PICK w : IsSplit(w, q, Ampersand) /\ Split(q, Ampersand) = w[1]
      BY SplitIs, Zenon
    <3>2. 1 \in 1..(Len(q) + 1)
      BY LenProperties DEF Texts
    <3>3. Split(q, Ampersand) \in Seq(Texts)
      BY <3>1, <3>2, Zenon DEF IsSplit
    <3> QED
      BY <2>2, <3>3, Zenon DEF Parts
  <2> QED
    BY <2>1, <2>2
<1>2. Written(q) = [k \in DOMAIN parts |-> NameValue(parts[k])]
  BY Zenon DEF Written
<1> HIDE DEF parts
<1>3. /\ Len(parts) \in Nat /\ DOMAIN parts = 1..Len(parts)
      /\ \A k \in 1..Len(parts) : NameValue(parts[k]) \in Params
  BY <1>1, LenProperties, ElementOfSeq, ParamOfPart
<1>4. Written(q) \in Seq(Params)
  BY <1>2, <1>3
<1> QED
  BY <1>4, LenProperties, ElementOfSeq

-------------------------------------------------------------------------------
\* The parameters that are signed.

EncodedParam(p) == [name |-> Encode(p.name), value |-> Encode(p.value)]

EncodedParams == {p \in [name : EncodedTexts, value : EncodedTexts] : p.name # << >>}

\* Encoded names and values are parameters, and are encoded as they are.
LEMMA EncodedParamsAre ==
  ASSUME NEW p \in EncodedParams
  PROVE  /\ p \in Params /\ EncodedParam(p) = p /\ p.name # << >>
         /\ WellFormed(p.name) /\ WellFormed(p.value)
         /\ p.name \in Seq(SafeBytes) /\ p.value \in Seq(SafeBytes)
         /\ p = [name |-> p.name, value |-> p.value]
<1>1. p.name \in EncodedTexts /\ p.value \in EncodedTexts /\ p.name # << >>
      /\ p = [name |-> p.name, value |-> p.value]
  BY DEF EncodedParams
<1>2. \A t \in EncodedTexts : t \in Seq(SafeBytes) /\ WellFormed(t) /\ Encode(t) = t
  BY DEF EncodedTexts
<1>3. \A t \in Seq(SafeBytes) : t \in Texts
  BY SafeBytesAre, SeqMonotonic DEF Texts
<1>4. p \in Params
  BY <1>1, <1>2, <1>3 DEF Params
<1>5. EncodedParam(p) = p
  <2>1. Encode(p.name) = p.name /\ Encode(p.value) = p.value
    BY <1>1, <1>2, Zenon
  <2>2. EncodedParam(p) = [name |-> p.name, value |-> p.value]
    BY <2>1, Zenon DEF EncodedParam
  <2> QED
    BY <1>1, <2>2, Zenon
<1> QED
  BY <1>1, <1>2, <1>4, <1>5, Zenon

\* What canonical_query has made sure of when it returns.
LEMMA ReadableParams ==
  ASSUME NEW q \in Texts, ~QueryError(q), NEW i \in 1..Len(Written(q))
  PROVE  LET p == Written(q)[i] IN
         /\ EncodedParam(p) \in EncodedParams
         /\ Decode(EncodedParam(p).name) = Decode(p.name)
         /\ Decode(EncodedParam(p).value) = Decode(p.value)
         /\ ReadName(p) \in KnownNames => IsUtf8(Decode(p.value))
<1> DEFINE p == Written(q)[i]
<1>1. p \in Params /\ p \in ToSet(Written(q))
  BY WrittenIs DEF ToSet
<1> HIDE DEF p
<1>2. p.name \in Texts /\ p.value \in Texts
  BY <1>1 DEF Params
<1>3. ~ParamError(p)
  BY <1>1, Zenon DEF QueryError
<1>4. /\ WellFormed(p.name) /\ WellFormed(p.value) /\ p.name # << >>
      /\ ReadName(p) \in KnownNames => IsUtf8(Decode(p.value))
  BY <1>3, Zenon DEF ParamError
<1> DEFINE n == Encode(p.name)
           v == Encode(p.value)
<1>5. /\ n \in EncodedTexts /\ Decode(n) = Decode(p.name) /\ n # << >>
      /\ v \in EncodedTexts /\ Decode(v) = Decode(p.value)
  BY <1>2, <1>4, EncodeIsFaithful, Zenon
<1> HIDE DEF n, v
<1>6. EncodedParam(p) = [name |-> n, value |-> v]
  BY DEF EncodedParam, n, v
<1>7. EncodedParam(p) \in EncodedParams /\ EncodedParam(p).name = n /\ EncodedParam(p).value = v
  BY <1>5, <1>6 DEF EncodedParams
<1> QED
  BY <1>4, <1>5, <1>7, Zenon DEF p

\* The parameters SignedOf keeps, and the order it puts them in.
Signing(q, kept, order) ==
  LET n == Cardinality(kept)
      s == SignedOf(q)
  IN /\ kept = {i \in 1..Len(Written(q)) : ReadName(Written(q)[i]) # SignatureName}
     /\ IsFiniteSet(kept) /\ n \in Nat
     /\ order \in [1..n -> kept]
     /\ \A k, l \in 1..n : order[k] = order[l] => k = l
     /\ \A i \in kept : \E k \in 1..n : order[k] = i
     /\ s \in Seq(EncodedParams) /\ Len(s) = n
     /\ \A k \in 1..n : s[k] = EncodedParam(Written(q)[order[k]])
     /\ \A l \in 1..n : \A k \in 1..(l - 1) : ParamLess(s[k], s[l]) \/ s[k] = s[l]

\* canonical_query keeps and orders its parameters that way, for every query
\* it does not refuse.
LEMMA SigningExists ==
  ASSUME NEW q \in Texts, ~QueryError(q)
  PROVE  \E kept, order : Signing(q, kept, order)
<1> DEFINE written == Written(q)
           kept    == {i \in DOMAIN written : ReadName(written[i]) # SignatureName}
           signed  == [i \in kept |-> [name |-> Encode(written[i].name), value |-> Encode(written[i].value)]]
           before  == {p \in kept \X kept :
                         \/ ParamLess(signed[p[1]], signed[p[2]])
                         \/ signed[p[1]] = signed[p[2]] /\ p[1] < p[2]}
           order   == InOrder(kept, before)
           n       == Cardinality(kept)
<1>1. SignedOf(q) = [k \in DOMAIN order |-> signed[order[k]]]
  BY Zenon DEF SignedOf
<1>2. /\ Len(written) \in Nat /\ DOMAIN written = 1..Len(written)
      /\ kept = {i \in 1..Len(written) : ReadName(written[i]) # SignatureName}
      /\ kept \subseteq 1..Len(written)
  BY WrittenIs
<1>3. IsFiniteSet(kept) /\ n \in Nat
  <2> HIDE DEF kept
  <2>1. IsFiniteSet(1..Len(written))
    BY <1>2, FS_Interval
  <2>2. IsFiniteSet(kept)
    BY <1>2, <2>1, FS_Subset, Zenon
  <2> QED
    BY <2>2, FS_CardinalityType, Zenon
<1>4. \A i \in kept : signed[i] = EncodedParam(written[i])
  BY DEF EncodedParam
<1>5. \A i \in kept : signed[i] \in EncodedParams /\ signed[i] \in Params
  <2> SUFFICES ASSUME NEW i \in kept PROVE signed[i] \in EncodedParams /\ signed[i] \in Params
    OBVIOUS
  <2>1. i \in 1..Len(written) /\ signed[i] = EncodedParam(written[i])
    BY <1>2, <1>4
  <2>2. signed[i] \in EncodedParams
    BY <2>1, ReadableParams, Zenon
  <2> HIDE DEF signed
  <2> QED
    BY <2>2, EncodedParamsAre, Zenon
<1> HIDE DEF signed
<1>6. \A x, y \in kept : <<x, y>> \in before <=> \/ ParamLess(signed[x], signed[y])
                                                 \/ signed[x] = signed[y] /\ x < y
  <2> HIDE DEF kept
  <2> QED
    OBVIOUS
<1> HIDE DEF before
<1>7. \A x \in kept : x \in Int
  BY <1>2
<1> HIDE DEF kept
<1>8. StrictOrder(kept, before)
  <2>1. ASSUME NEW x \in kept PROVE <<x, x>> \notin before
    <3>1. ~(x < x)
      BY <1>7
    <3> QED
      BY <1>5, <1>6, <3>1, ParamOrder, Zenon
  <2>2. ASSUME NEW x \in kept, NEW y \in kept, NEW z \in kept,
               <<x, y>> \in before, <<y, z>> \in before
        PROVE  <<x, z>> \in before
    <3>1. x < y /\ y < z => x < z
      BY <1>7
    <3>2. /\ ParamLess(signed[x], signed[y]) \/ (signed[x] = signed[y] /\ x < y)
          /\ ParamLess(signed[y], signed[z]) \/ (signed[y] = signed[z] /\ y < z)
      BY <1>6, <2>2, Zenon
    <3>3. ParamLess(signed[x], signed[y]) /\ ParamLess(signed[y], signed[z])
          => ParamLess(signed[x], signed[z])
      BY <1>5, ParamOrder, Zenon
    <3>4. ParamLess(signed[x], signed[z]) \/ (signed[x] = signed[z] /\ x < z)
      BY <3>1, <3>2, <3>3, Zenon
    <3> QED
      BY <1>6, <3>4, Zenon
  <2>3. ASSUME NEW x \in kept, NEW y \in kept, x # y
        PROVE  <<x, y>> \in before \/ <<y, x>> \in before
    <3>1. x < y \/ y < x
      BY <1>7, <2>3
    <3> QED
      BY <1>5, <1>6, <3>1, ParamOrder, Zenon
  <2> QED
    BY <2>1, <2>2, <2>3, Zenon DEF StrictOrder
<1>9. Ordered(kept, before, order)
  BY <1>3, <1>8, InOrderIs, Zenon
<1> HIDE DEF order
<1>10. /\ order \in [1..n -> kept]
       /\ \A l \in 1..n : \A k \in 1..(l - 1) : <<order[k], order[l]>> \in before
       /\ \A k, l \in 1..n : order[k] = order[l] => k = l
       /\ \A x \in kept : \E k \in 1..n : order[k] = x
  BY <1>9, Zenon DEF Ordered
<1> HIDE DEF n
<1> DEFINE s == SignedOf(q)
<1>11. /\ DOMAIN order = 1..n /\ \A k \in 1..n : order[k] \in kept
  BY <1>10
<1>12. s = [k \in 1..n |-> signed[order[k]]]
  BY <1>1, <1>11, Zenon
<1> HIDE DEF s
<1>13. s \in Seq(EncodedParams) /\ Len(s) = n /\ \A k \in 1..n : s[k] = signed[order[k]]
  <2>1. \A k \in 1..n : signed[order[k]] \in EncodedParams
    BY <1>5, <1>11, Zenon
  <2> QED
    BY <1>3, <1>12, <2>1 DEF n
<1>14. \A k \in 1..n : s[k] = EncodedParam(written[order[k]])
  BY <1>4, <1>11, <1>13, Zenon
<1>15. \A l \in 1..n : \A k \in 1..(l - 1) : ParamLess(s[k], s[l]) \/ s[k] = s[l]
  <2> SUFFICES ASSUME NEW l \in 1..n, NEW k \in 1..(l - 1)
               PROVE  ParamLess(s[k], s[l]) \/ s[k] = s[l]
    OBVIOUS
  <2>1. k \in 1..n
    BY <1>3 DEF n
  <2>2. <<order[k], order[l]>> \in before /\ order[k] \in kept /\ order[l] \in kept
    BY <1>10, <1>11, <2>1, Zenon
  <2>3. s[k] = signed[order[k]] /\ s[l] = signed[order[l]]
    BY <1>13, <2>1, Zenon
  <2>4. \/ ParamLess(signed[order[k]], signed[order[l]])
        \/ signed[order[k]] = signed[order[l]]
    BY <1>6, <2>2, Zenon
  <2> QED
    BY <2>3, <2>4, Zenon
<1>16. Signing(q, kept, order)
  BY <1>2, <1>3, <1>10, <1>13, <1>14, <1>15, Zenon DEF Signing, n, s
<1> QED
  BY <1>16, Zenon

PartOf(p) == p.name \o (<<Equals>> \o p.value)

\* One encoded parameter, put down: it has no ampersand, and reads as it was.
LEMMA PartIs ==
  ASSUME NEW p \in EncodedParams
  PROVE  /\ PartOf(p) \in Texts /\ PartOf(p) # << >>
         /\ \A k \in 1..Len(PartOf(p)) : PartOf(p)[k] # Ampersand
         /\ NameValue(PartOf(p)) = p
         /\ (<<>> \o p.name) \o <<Equals>> \o p.value = PartOf(p)
         /\ (<<Ampersand>> \o p.name) \o <<Equals>> \o p.value = <<Ampersand>> \o PartOf(p)
<1> DEFINE name == p.name
           value == p.value
           eq == <<Equals>>
           amp == <<Ampersand>>
           G == SafeBytes \cup {Equals}
<1>1. /\ name \in Seq(SafeBytes) /\ value \in Seq(SafeBytes) /\ name # << >>
      /\ p = [name |-> name, value |-> value]
  BY EncodedParamsAre, Zenon
<1> HIDE DEF name, value
<1>2. Equals \in Byte /\ Ampersand \in Byte /\ Equals # Ampersand
  BY DEF Equals, Ampersand, Byte
<1>3. G \subseteq Byte /\ SafeBytes \subseteq G /\ Ampersand \notin G /\ Equals \notin SafeBytes
  BY <1>2, SafeBytesAre
<1>4. name \in Seq(G) /\ value \in Seq(G) /\ eq \in Seq(G)
  <2>1. Equals \in G
    OBVIOUS
  <2>2. eq \in Seq(G)
    BY <2>1
  <2> HIDE DEF G, eq
  <2>3. name \in Seq(G) /\ value \in Seq(G)
    BY <1>1, <1>3, SeqMonotonic, Zenon
  <2> QED
    BY <2>2, <2>3
<1>5. amp \in Texts
  BY <1>2 DEF Texts
<1> HIDE DEF G, eq, amp
<1>6. \A t \in Seq(G) : t \in Texts
  BY <1>3, SeqMonotonic, Zenon DEF Texts
<1> DEFINE rest == eq \o value
           part == name \o rest
<1>7. rest \in Seq(G)
  BY <1>4, ConcatProperties, Zenon
<1> HIDE DEF rest
<1>8. part \in Seq(G)
  BY <1>4, <1>7, ConcatProperties, Zenon
<1>9. part # << >>
  <2>1. Len(part) = Len(name) + Len(rest) /\ Len(rest) \in Nat /\ Len(name) \in Nat \ {0}
    BY <1>1, <1>4, <1>7, ConcatProperties, LenProperties, EmptySeq
  <2>2. Len(part) # 0
    BY <2>1
  <2> HIDE DEF part
  <2> QED
    BY <2>2, EmptySeq, Zenon
<1>10. (<<>> \o name) \o eq \o value = part
  <2>1. <<>> \o name = name
    BY <1>1, ConcatEmptySeq, Zenon
  <2>2. (name \o eq) \o value = name \o (eq \o value)
    BY <1>4, ConcatAssociative
  <2> QED
    BY <2>1, <2>2, Zenon DEF rest
<1>11. (amp \o name) \o eq \o value = amp \o part
  <2>1. name \in Texts /\ eq \in Texts /\ value \in Texts /\ rest \in Texts
    BY <1>4, <1>6, <1>7, Zenon
  <2>2. amp \o name \in Texts
    BY <1>5, <2>1, TextConcat, Zenon
  <2>3. ((amp \o name) \o eq) \o value = (amp \o name) \o (eq \o value)
    <3> DEFINE front == amp \o name
    <3>1. front \in Seq(Byte) /\ eq \in Seq(Byte) /\ value \in Seq(Byte)
      BY <2>1, <2>2, Zenon DEF Texts
    <3> HIDE DEF front
    <3>2. (front \o eq) \o value = front \o (eq \o value)
      BY <3>1, ConcatAssociative
    <3> QED
      BY <3>2 DEF front
  <2>4. (amp \o name) \o rest = amp \o (name \o rest)
    <3>1. amp \in Seq(Byte) /\ name \in Seq(Byte) /\ rest \in Seq(Byte)
      BY <1>5, <2>1, Zenon DEF Texts
    <3> QED
      BY <3>1, ConcatAssociative
  <2> QED
    BY <2>3, <2>4, Zenon DEF rest
<1>12. \A k \in 1..Len(part) : part[k] # Ampersand
  <2> HIDE DEF part
  <2> QED
    BY <1>3, <1>8, ElementOfSeq, Zenon
<1>13. NameValue(part) = p
  <2>1. \A k \in 1..Len(name) : name[k] # Equals
    BY <1>1, <1>3, ElementOfSeq, Zenon
  <2>2. name \in Texts /\ value \in Texts
    BY <1>4, <1>6, Zenon
  <2>3. NameValue(name \o (<<Equals>> \o value)) = [name |-> name, value |-> value]
    BY <2>1, <2>2, ParamWritten, Zenon
  <2> QED
    BY <1>1, <2>3, Zenon DEF rest, eq
<1>14. part \in Texts
  BY <1>6, <1>8, Zenon
<1>15. PartOf(p) = part
  BY Zenon DEF PartOf, rest, eq, name, value
<1> HIDE DEF part
<1> QED
  BY <1>9, <1>10, <1>11, <1>12, <1>13, <1>14, <1>15, Zenon DEF name, value, eq, amp

\* Encoded parameters that are put down are read as they were.
LEMMA WrittenAgain ==
  ASSUME NEW s \in Seq(EncodedParams)
  PROVE  QueryText(s) \in Texts /\ Written(QueryText(s)) = s
<1> DEFINE n == Len(s)
           c == QueryText(s)
<1>1. n \in Nat /\ DOMAIN s = 1..n /\ s \in [1..n -> EncodedParams]
      /\ \A k \in 1..n : s[k] \in EncodedParams
  BY LenProperties, ElementOfSeq
<1>2. CASE n = 0
  <2>1. s = << >> /\ DOMAIN s = {}
    BY <1>1, <1>2
  <2> DEFINE us == [k \in DOMAIN s |->
               (IF k = 1 THEN <<>> ELSE <<Ampersand>>) \o s[k].name \o <<Equals>> \o s[k].value]
  <2>2. us = << >> /\ << >> \in Seq(Texts) /\ Len(<< >>) = 0
    BY <2>1
  <2>3. FlattenSeq(<< >>) = << >>
    <3>1. \E f \in [0..Len(<< >>) -> Texts] : FlattenSeq(<< >>) = f[Len(<< >>)] /\ f[0] = << >>
      BY <2>2, FlattenExists, Zenon
    <3> QED
      BY <2>2, <3>1
  <2>4. c = << >>
    BY <2>2, <2>3, Zenon DEF QueryText
  <2>5. Written(<< >>) = << >>
    BY DEF Written, Parts
  <2> HIDE DEF c
  <2> QED
    BY <2>1, <2>4, <2>5, DecodeEmpty, Zenon DEF c
<1>3. CASE n # 0
  <2> DEFINE texts == [k \in 1..n |-> PartOf(s[k])]
  <2>1. \A k \in 1..n : PartOf(s[k]) \in Texts
    BY <1>1, PartIs, Zenon
  <2>2. /\ texts \in Seq(Texts) /\ Len(texts) = n /\ DOMAIN texts = 1..n
        /\ \A k \in 1..n : texts[k] = PartOf(s[k])
    BY <1>1, <2>1
  <2> HIDE DEF texts
  <2>3. \A k \in 1..n : (IF k = 1 THEN <<>> ELSE <<Ampersand>>) \o s[k].name \o <<Equals>> \o s[k].value
                        = IF k = 1 THEN texts[k] ELSE <<Ampersand>> \o texts[k]
    <3> SUFFICES ASSUME NEW k \in 1..n
                 PROVE  (IF k = 1 THEN <<>> ELSE <<Ampersand>>) \o s[k].name \o <<Equals>> \o s[k].value
                        = IF k = 1 THEN texts[k] ELSE <<Ampersand>> \o texts[k]
      OBVIOUS
    <3>1. /\ (<<>> \o s[k].name) \o <<Equals>> \o s[k].value = texts[k]
          /\ (<<Ampersand>> \o s[k].name) \o <<Equals>> \o s[k].value = <<Ampersand>> \o texts[k]
      BY <1>1, <2>2, PartIs, Zenon
    <3> QED
      BY <3>1, Zenon
  <2>4. c = Joined(texts, Ampersand)
    <3>1. [k \in DOMAIN s |-> (IF k = 1 THEN <<>> ELSE <<Ampersand>>) \o s[k].name \o <<Equals>> \o s[k].value]
          = [k \in DOMAIN texts |-> IF k = 1 THEN texts[k] ELSE <<Ampersand>> \o texts[k]]
      BY <1>1, <2>2, <2>3, Zenon
    <3> QED
      BY <3>1, Zenon DEF QueryText, Joined
  <2>5. Ampersand \in Byte /\ Len(texts) > 0
    BY <1>1, <1>3, <2>2 DEF Ampersand, Byte
  <2>6. \A i \in 1..Len(texts) : \A k \in 1..Len(texts[i]) : texts[i][k] # Ampersand
    <3>1. \A i \in 1..n : \A k \in 1..Len(PartOf(s[i])) : PartOf(s[i])[k] # Ampersand
      BY <1>1, PartIs, Zenon
    <3> QED
      BY <2>2, <3>1, Zenon
  <2>7. c \in Texts /\ Split(c, Ampersand) = texts
    BY <2>2, <2>4, <2>5, <2>6, JoinSplit, Zenon
  <2> HIDE DEF c
  <2>8. c # << >>
    <3> SUFFICES ASSUME c = << >> PROVE FALSE
      OBVIOUS
    <3>1. << >> \in Texts /\ \A k \in 1..Len(<< >>) : << >>[k] # Ampersand
      BY EmptySeq DEF Texts
    <3>2. texts = << << >> >>
      BY <2>7, <3>1, SplitWhole, Zenon
    <3>3. 1 \in 1..n /\ texts[1] = << >>
      BY <1>1, <1>3, <3>2
    <3> QED
      BY <1>1, <2>2, <3>3, PartIs, Zenon
  <2>9. Written(c) = [k \in DOMAIN texts |-> NameValue(texts[k])]
    <3>1. Parts(c) = texts
      BY <2>7, <2>8, Zenon DEF Parts
    <3> QED
      BY <3>1, Zenon DEF Written
  <2>10. \A k \in 1..n : NameValue(texts[k]) = s[k]
    BY <1>1, <2>2, PartIs, Zenon
  <2>11. Written(c) = [k \in 1..n |-> s[k]]
    BY <2>2, <2>9, <2>10, Zenon
  <2>12. s = [k \in 1..n |-> s[k]]
    BY <1>1
  <2> QED
    BY <2>7, <2>11, <2>12, Zenon DEF c
<1> QED
  BY <1>2, <1>3

\* The canonical query reads as the parameters it was put together from.
LEMMA CanonicalQueryReads ==
  ASSUME NEW q \in Texts, ~QueryError(q)
  PROVE  CanonicalQuery(q) \in Texts /\ Written(CanonicalQuery(q)) = SignedOf(q)
<1>1. PICK kept, order : Signing(q, kept, order)
  BY SigningExists, Zenon
<1>2. SignedOf(q) \in Seq(EncodedParams)
  BY <1>1, Zenon DEF Signing
<1>3. CanonicalQuery(q) = QueryText(SignedOf(q))
  BY Zenon DEF CanonicalQuery, QueryText
<1> QED
  BY <1>2, <1>3, WrittenAgain, Zenon

\* What is signed is read under the name and with the value it was written with.
LEMMA SignedReads ==
  ASSUME NEW q \in Texts, ~QueryError(q), NEW kept, NEW order, Signing(q, kept, order),
         NEW k \in 1..Cardinality(kept)
  PROVE  LET p == SignedOf(q)[k]
             w == Written(q)[order[k]]
         IN /\ order[k] \in kept /\ order[k] \in 1..Len(Written(q))
            /\ p \in EncodedParams
            /\ Decode(p.name) = Decode(w.name) /\ Decode(p.value) = Decode(w.value)
            /\ ReadName(p) = ReadName(w) /\ ReadName(p) # SignatureName
            /\ ReadName(p) \in KnownNames => IsUtf8(Decode(p.value))
<1> DEFINE i == order[k]
           w == Written(q)[i]
           p == SignedOf(q)[k]
<1>1. order \in [1..Cardinality(kept) -> kept] /\ p = EncodedParam(w)
      /\ kept = {j \in 1..Len(Written(q)) : ReadName(Written(q)[j]) # SignatureName}
  BY Zenon DEF Signing
<1>2. i \in kept
  BY <1>1
<1>3. i \in 1..Len(Written(q)) /\ ReadName(w) # SignatureName
  BY <1>1, <1>2
<1>4. /\ p \in EncodedParams
      /\ Decode(p.name) = Decode(w.name) /\ Decode(p.value) = Decode(w.value)
      /\ ReadName(w) \in KnownNames => IsUtf8(Decode(w.value))
  BY <1>1, <1>3, ReadableParams, Zenon
<1>5. ReadName(p) = ReadName(w)
  BY <1>4, Zenon DEF ReadName
<1> QED
  BY <1>2, <1>3, <1>4, <1>5, Zenon

\* For every query there is: what canonical_query returns is read without an
\* error, is its own canonical form, and is in the order of the signature.
THEOREM CanonicalQueryIsNormal ==
  ASSUME NEW q \in Texts, ~QueryError(q)
  PROVE  InNormalForm(CanonicalQuery(q))
<1>1. PICK kept, order : Signing(q, kept, order)
  BY SigningExists, Zenon
<1> DEFINE c == CanonicalQuery(q)
           s == SignedOf(q)
           n == Cardinality(kept)
<1>2. /\ n \in Nat /\ s \in Seq(EncodedParams) /\ Len(s) = n
      /\ \A l \in 1..n : \A k \in 1..(l - 1) : ParamLess(s[k], s[l]) \/ s[k] = s[l]
  BY <1>1, Zenon DEF Signing
<1>3. c \in Texts /\ Written(c) = s
  BY CanonicalQueryReads, Zenon
<1>4. \A k \in 1..n : /\ s[k] \in EncodedParams /\ ReadName(s[k]) # SignatureName
                      /\ ReadName(s[k]) \in KnownNames => IsUtf8(Decode(s[k].value))
  BY <1>1, SignedReads, Zenon
<1> HIDE DEF c, s, n
<1>5. DOMAIN s = 1..n /\ s = [k \in 1..n |-> s[k]]
  BY <1>2, LenProperties
<1>6. \A k \in 1..n : s[k] \in Params /\ EncodedParam(s[k]) = s[k]
  BY <1>4, EncodedParamsAre, Zenon
<1>7. ~QueryError(c)
  <2>1. \A k \in 1..n : ~ParamError(s[k])
    BY <1>4, EncodedParamsAre, Zenon DEF ParamError
  <2>2. ToSet(Written(c)) = {s[k] : k \in 1..n}
    BY <1>3, <1>5, Zenon DEF ToSet
  <2> QED
    BY <2>1, <2>2 DEF QueryError
<1>8. SignedOf(c) = s
  <2> DEFINE written == Written(c)
             keep    == {i \in DOMAIN written : ReadName(written[i]) # SignatureName}
             signed  == [i \in keep |-> [name |-> Encode(written[i].name), value |-> Encode(written[i].value)]]
             before  == {p \in keep \X keep :
                           \/ ParamLess(signed[p[1]], signed[p[2]])
                           \/ signed[p[1]] = signed[p[2]] /\ p[1] < p[2]}
             places  == InOrder(keep, before)
  <2>1. SignedOf(c) = [k \in DOMAIN places |-> signed[places[k]]]
    BY Zenon DEF SignedOf
  <2>2. keep = 1..n
    BY <1>3, <1>4, <1>5
  <2>3. \A i \in 1..n : signed[i] = s[i]
    <3>1. \A i \in keep : signed[i] = EncodedParam(written[i])
      BY DEF EncodedParam
    <3> HIDE DEF signed, keep
    <3> QED
      BY <1>3, <1>6, <2>2, <3>1, Zenon
  <2> HIDE DEF signed
  <2>4. \A k, l \in 1..n : <<k, l>> \in before <=> \/ ParamLess(signed[k], signed[l])
                                                   \/ signed[k] = signed[l] /\ k < l
    <3> HIDE DEF keep
    <3> QED
      BY <2>2
  <2> HIDE DEF before, keep
  <2>5. ASSUME NEW k \in 1..n, NEW l \in 1..n PROVE <<k, l>> \in before <=> k < l
    <3>1. signed[k] = s[k] /\ signed[l] = s[l]
      BY <2>3
    <3>2. k < l => ParamLess(s[k], s[l]) \/ s[k] = s[l]
      <4>1. k < l => k \in 1..(l - 1)
        BY <1>2
      <4> QED
        BY <1>2, <4>1, Zenon
    <3>3. l < k => ParamLess(s[l], s[k]) \/ s[l] = s[k]
      <4>1. l < k => l \in 1..(k - 1)
        BY <1>2
      <4> QED
        BY <1>2, <4>1, Zenon
    <3>4. k < l \/ k = l \/ l < k
      BY <1>2
    <3>5. ParamLess(s[k], s[l]) => k < l
      BY <1>6, <3>3, <3>4, ParamOrder, Zenon
    <3> QED
      BY <2>4, <3>1, <3>2, <3>5, Zenon
  <2>6. DOMAIN places = 1..n /\ \A k \in 1..n : places[k] = k
    BY <1>2, <2>2, <2>5, OrderedPlaces, Zenon
  <2> HIDE DEF places
  <2>7. SignedOf(c) = [k \in 1..n |-> s[k]]
    BY <2>1, <2>3, <2>6, Zenon
  <2> QED
    BY <1>5, <2>7, Zenon
<1>9. CanonicalQuery(c) = c
  <2>1. CanonicalQuery(c) = QueryText(SignedOf(c)) /\ c = QueryText(s)
    BY Zenon DEF CanonicalQuery, QueryText, c, s
  <2> QED
    BY <1>8, <2>1, Zenon
<1>10. ASSUME NEW i \in 1..n, NEW j \in 1..n, i < j
       PROVE  ~LexLess(s[j].name, s[i].name) /\ (s[i].name = s[j].name => ~LexLess(s[j].value, s[i].value))
  <2>1. i \in 1..(j - 1)
    BY <1>2, <1>10
  <2>2. ParamLess(s[i], s[j]) \/ s[i] = s[j]
    BY <1>2, <2>1, Zenon
  <2>3. s[i].name \in Texts /\ s[i].value \in Texts /\ s[j].name \in Texts /\ s[j].value \in Texts
    BY <1>6 DEF Params
  <2>4. \/ LexLess(s[i].name, s[j].name)
        \/ s[i].name = s[j].name /\ (LexLess(s[i].value, s[j].value) \/ s[i].value = s[j].value)
    BY <2>2, Zenon DEF ParamLess
  <2>5. \A a, b \in Texts : LexLess(a, b) => ~LexLess(b, a) /\ a # b
    BY LexOrder, Zenon
  <2> QED
    BY <2>3, <2>4, <2>5, LexOrder, Zenon
<1> QED
  BY <1>3, <1>5, <1>7, <1>9, <1>10, Zenon DEF c, InNormalForm

-------------------------------------------------------------------------------
\* How often a name is said with a value.

\* The places of an order where a member of A stands.
Places(order, n, A) == {k \in 1..n : order[k] \in A}

\* order names each member of S once, in n places.
RunsThrough(order, n, S) ==
  /\ n \in Nat /\ order \in [1..n -> S]
  /\ \A k, l \in 1..n : order[k] = order[l] => k = l
  /\ \A x \in S : \E k \in 1..n : order[k] = x

\* Counting through an order of a set is counting in the set.
LEMMA CountInOrder ==
  ASSUME NEW S, IsFiniteSet(S), NEW n, NEW order, RunsThrough(order, n, S), NEW A, A \subseteq S
  PROVE  Cardinality(Places(order, n, A)) = Cardinality(A)
<1> DEFINE B == Places(order, n, A)
           f == [k \in B |-> order[k]]
<1> USE DEF RunsThrough
<1>1. IsFiniteSet(1..n)
  BY FS_Interval
<1>2. IsFiniteSet(B)
  <2>1. B \in SUBSET (1..n)
    BY DEF Places
  <2> HIDE DEF B
  <2> QED
    BY <1>1, <2>1, FS_Subset, Zenon
<1>3. f \in [B -> A] /\ DOMAIN f = B /\ \A k \in B : f[k] = order[k] /\ k \in 1..n
  BY DEF Places
<1>4. \A x \in A : \E k \in B : f[k] = x
  BY Zenon DEF Places
<1> HIDE DEF f, B
<1>5. f \in Injection(B, A)
  BY <1>3, Zenon DEF Injection, IsInjective
<1>6. f \in Surjection(B, A)
  BY <1>3, <1>4, Zenon DEF Surjection
<1>7. ExistsBijection(B, A)
  BY <1>5, <1>6, Zenon DEF ExistsBijection, Bijection
<1>8. Cardinality(A) = Cardinality(B)
  BY <1>2, <1>7, FS_Bijection, Zenon
<1> QED
  BY <1>8 DEF B

\* What a query says, place by place.
LEMMA DecodedIs ==
  ASSUME NEW q \in Texts
  PROVE  /\ Len(Written(q)) \in Nat /\ DOMAIN Decoded(q) = 1..Len(Written(q))
         /\ \A i \in 1..Len(Written(q)) :
              /\ Decoded(q)[i] = <<Decode(Written(q)[i].name), Decode(Written(q)[i].value)>>
              /\ Decoded(q)[i][1] = ReadName(Written(q)[i])
              /\ Decoded(q)[i][2] = Decode(Written(q)[i].value)
<1> DEFINE w == Written(q)
<1>1. Len(w) \in Nat /\ DOMAIN w = 1..Len(w)
  BY WrittenIs, Zenon
<1>2. Decoded(q) = [k \in DOMAIN w |-> <<Decode(w[k].name), Decode(w[k].value)>>]
  BY Zenon DEF Decoded
<1> HIDE DEF w
<1> QED
  BY <1>1, <1>2 DEF w, ReadName

\* How often text is said in a list of things said.
Times(said, x) == Cardinality({i \in DOMAIN said : said[i] = x})

\* The bag of what the canonical query says: everything said under another
\* name than that of the signature, as often as the query says it.
LEMMA SignedBag ==
  ASSUME NEW q \in Texts, ~QueryError(q)
  PROVE  LET said == Decoded(q)
             bag  == ToBag(Decoded(CanonicalQuery(q)))
         IN /\ DOMAIN bag = {x \in Range(said) : x[1] # SignatureName}
            /\ bag = [x \in {x \in Range(said) : x[1] # SignatureName} |-> Times(said, x)]
<1>1. PICK kept, order : Signing(q, kept, order)
  BY SigningExists, Zenon
<1> DEFINE c == CanonicalQuery(q)
           w == Written(q)
           s == SignedOf(q)
           n == Cardinality(kept)
           m == Len(w)
           said == Decoded(q)
           read == Decoded(c)
           X == {x \in Range(said) : x[1] # SignatureName}
<1>2. /\ n \in Nat /\ Len(s) = n /\ IsFiniteSet(kept) /\ order \in [1..n -> kept]
      /\ kept = {i \in 1..m : ReadName(w[i]) # SignatureName}
      /\ \A k, l \in 1..n : order[k] = order[l] => k = l
      /\ \A i \in kept : \E k \in 1..n : order[k] = i
  BY <1>1, Zenon DEF Signing
<1>3. c \in Texts /\ Written(c) = s
  BY CanonicalQueryReads, Zenon
<1>4. /\ DOMAIN said = 1..m
      /\ \A i \in 1..m : /\ said[i] = <<Decode(w[i].name), Decode(w[i].value)>>
                         /\ said[i][1] = ReadName(w[i])
  BY DecodedIs, Zenon
<1>5. /\ DOMAIN read = 1..n
      /\ \A k \in 1..n : read[k] = <<Decode(s[k].name), Decode(s[k].value)>>
  <2>1. /\ DOMAIN read = 1..Len(Written(c))
        /\ \A k \in 1..Len(Written(c)) :
             read[k] = <<Decode(Written(c)[k].name), Decode(Written(c)[k].value)>>
    <3> HIDE DEF c
    <3> QED
      BY <1>3, DecodedIs, Zenon
  <2> HIDE DEF read, s, c
  <2> QED
    BY <1>2, <1>3, <2>1, Zenon
<1>6. \A k \in 1..n : /\ order[k] \in kept /\ order[k] \in 1..m
                      /\ Decode(s[k].name) = Decode(w[order[k]].name)
                      /\ Decode(s[k].value) = Decode(w[order[k]].value)
  <2> SUFFICES ASSUME NEW k \in 1..n
               PROVE  /\ order[k] \in kept /\ order[k] \in 1..m
                      /\ Decode(s[k].name) = Decode(w[order[k]].name)
                      /\ Decode(s[k].value) = Decode(w[order[k]].value)
    OBVIOUS
  <2>1. LET p == SignedOf(q)[k]
            v == Written(q)[order[k]]
        IN /\ order[k] \in kept /\ order[k] \in 1..Len(Written(q))
           /\ Decode(p.name) = Decode(v.name) /\ Decode(p.value) = Decode(v.value)
    BY <1>1, SignedReads
  <2> QED
    BY <2>1, Zenon
<1> HIDE DEF c, w, s, n, m, said, read
<1>7. \A k \in 1..n : read[k] = said[order[k]]
  BY <1>4, <1>5, <1>6, Zenon
<1>8. \A i \in 1..m : i \in kept <=> said[i][1] # SignatureName
  BY <1>2, <1>4
<1>9. Range(said) = {said[i] : i \in 1..m} /\ Range(read) = {read[k] : k \in 1..n}
  BY <1>4, <1>5 DEF Range
<1>10. Range(read) = X
  <2>1. ASSUME NEW x \in Range(read) PROVE x \in X
    <3>1. PICK k \in 1..n : x = read[k]
      BY <1>9
    <3>2. x = said[order[k]] /\ order[k] \in 1..m /\ order[k] \in kept
      BY <1>6, <1>7, <3>1, Zenon
    <3>3. x[1] # SignatureName
      BY <1>8, <3>2, Zenon
    <3>4. x \in Range(said)
      BY <1>9, <3>2
    <3> QED
      BY <3>3, <3>4
  <2>2. ASSUME NEW x \in X PROVE x \in Range(read)
    <3>1. PICK i \in 1..m : x = said[i]
      BY <1>9
    <3>2. i \in kept
      BY <1>8, <3>1, Zenon
    <3>3. PICK k \in 1..n : order[k] = i
      BY <1>2, <3>2, Zenon
    <3>4. x = read[k]
      BY <1>7, <3>1, <3>3, Zenon
    <3> QED
      BY <1>9, <3>4
  <2> HIDE DEF X
  <2> QED
    BY <2>1, <2>2
<1>11. ASSUME NEW x \in X
       PROVE  Cardinality({k \in DOMAIN read : read[k] = x}) = Times(said, x)
  <2> DEFINE A == {i \in 1..m : said[i] = x}
  <2>1. A \subseteq kept
    BY <1>8
  <2>2. {k \in DOMAIN read : read[k] = x} = Places(order, n, A)
    BY <1>5, <1>6, <1>7 DEF Places
  <2>3. Times(said, x) = Cardinality(A)
    BY <1>4, Zenon DEF Times
  <2> HIDE DEF A, X
  <2>4. Cardinality(Places(order, n, A)) = Cardinality(A)
    <3>1. RunsThrough(order, n, kept)
      BY <1>2, Zenon DEF RunsThrough
    <3>2. IsFiniteSet(kept)
      BY <1>2, Zenon
    <3> QED
      BY <2>1, <3>1, <3>2, CountInOrder
  <2> QED
    BY <2>2, <2>3, <2>4, Zenon
<1>12. ToBag(read) = [x \in Range(read) |-> Cardinality({k \in DOMAIN read : read[k] = x})]
  BY Zenon DEF ToBag
<1> HIDE DEF X
<1>13. ToBag(read) = [x \in X |-> Times(said, x)]
  BY <1>10, <1>11, <1>12, Zenon
<1>14. DOMAIN ToBag(read) = X
  BY <1>13
<1> QED
  BY <1>13, <1>14, Zenon DEF X, said, read, c

\* For every query there is: its canonical form says the same, the signature
\* apart, and says it as often.
THEOREM CanonicalQuerySaysTheSame ==
  ASSUME NEW q \in Texts, ~QueryError(q)
  PROVE  LET said   == ToBag(Decoded(q))
             signed == ToBag(Decoded(CanonicalQuery(q)))
         IN signed = Restrict(said, {p \in DOMAIN said : p[1] # SignatureName})
<1> DEFINE said == Decoded(q)
           bag == ToBag(said)
           signed == ToBag(Decoded(CanonicalQuery(q)))
           X == {x \in Range(said) : x[1] # SignatureName}
<1>1. signed = [x \in X |-> Times(said, x)]
  BY SignedBag, Zenon
<1> HIDE DEF signed, said
<1>2. bag = [x \in Range(said) |-> Times(said, x)]
  BY Zenon DEF ToBag, Times
<1> HIDE DEF bag
<1>3. DOMAIN bag = Range(said) /\ \A x \in X : bag[x] = Times(said, x)
  BY <1>2
<1>4. Restrict(bag, {p \in DOMAIN bag : p[1] # SignatureName}) = [x \in X |-> bag[x]]
  BY <1>3, Zenon DEF Restrict
<1>5. [x \in X |-> bag[x]] = [x \in X |-> Times(said, x)]
  BY <1>3, Zenon
<1> QED
  BY <1>1, <1>4, <1>5, Zenon DEF bag, said, signed

\* For every query there is: verify reads under a name exactly the values the
\* canonical query has under it.
THEOREM ValuesAreSigned ==
  ASSUME NEW q \in Texts, ~QueryError(q), NEW name \in OtherNames
  PROVE  LET signed == ToBag(Decoded(CanonicalQuery(q)))
             values == {p[2] : p \in {p \in DOMAIN signed : p[1] = name}}
         IN ToBag(ValuesOf(q, name)) = [v \in values |-> signed[<<name, v>>]]
<1> DEFINE w == Written(q)
           m == Len(w)
           said == Decoded(q)
           signed == ToBag(Decoded(CanonicalQuery(q)))
           values == {p[2] : p \in {p \in DOMAIN signed : p[1] = name}}
           found == {i \in DOMAIN w : ReadName(w[i]) = name}
           before == {p \in found \X found : p[1] < p[2]}
           order == InOrder(found, before)
           n == Cardinality(found)
           read == ValuesOf(q, name)
<1>1. name # SignatureName
  BY NamesAssumption
<1>2. /\ m \in Nat /\ DOMAIN said = 1..m /\ DOMAIN w = 1..m
      /\ \A i \in 1..m : /\ said[i] = <<Decode(w[i].name), Decode(w[i].value)>>
                         /\ said[i][1] = ReadName(w[i]) /\ said[i][2] = Decode(w[i].value)
  BY DecodedIs, WrittenIs, Zenon
<1>3. /\ DOMAIN signed = {x \in Range(said) : x[1] # SignatureName}
      /\ signed = [x \in {x \in Range(said) : x[1] # SignatureName} |-> Times(said, x)]
  BY SignedBag, Zenon
<1>4. read = [k \in DOMAIN order |-> Decode(w[order[k]].value)]
  BY Zenon DEF ValuesOf
<1> HIDE DEF w, m, said, signed, read
<1>5. found \subseteq 1..m /\ IsFiniteSet(found)
  <2>1. found \subseteq 1..m
    BY <1>2
  <2>2. IsFiniteSet(1..m)
    BY <1>2, FS_Interval
  <2> HIDE DEF found
  <2> QED
    BY <2>1, <2>2, FS_Subset, Zenon
<1>6. \A i \in 1..m : i \in found <=> said[i][1] = name
  BY <1>2
<1> HIDE DEF found
<1>7. StrictOrder(found, before)
  <2>1. \A x \in found : x \in Int
    BY <1>2, <1>5
  <2> QED
    BY <2>1 DEF StrictOrder
<1> HIDE DEF before
<1>8. Ordered(found, before, order) /\ n \in Nat
  BY <1>5, <1>7, InOrderIs, Zenon
<1> HIDE DEF order
<1>9. /\ order \in [1..n -> found]
      /\ \A k, l \in 1..n : order[k] = order[l] => k = l
      /\ \A x \in found : \E k \in 1..n : order[k] = x
  BY <1>8, Zenon DEF Ordered
<1> HIDE DEF n
<1>10. DOMAIN order = 1..n /\ \A k \in 1..n : order[k] \in found /\ order[k] \in 1..m
  BY <1>5, <1>9
<1>11. DOMAIN read = 1..n /\ \A k \in 1..n : read[k] = said[order[k]][2]
  <2>1. read = [k \in 1..n |-> Decode(w[order[k]].value)]
    BY <1>4, <1>10, Zenon
  <2>2. DOMAIN read = 1..n /\ \A k \in 1..n : read[k] = Decode(w[order[k]].value)
    BY <2>1
  <2> QED
    BY <1>2, <1>10, <2>2, Zenon
<1>12. \A i \in found : said[i] = <<name, said[i][2]>>
  BY <1>2, <1>5, <1>6
<1>13. Range(said) = {said[i] : i \in 1..m} /\ Range(read) = {read[k] : k \in 1..n}
  BY <1>2, <1>11 DEF Range
<1>14. Range(read) = values
  <2>1. ASSUME NEW v \in Range(read) PROVE v \in values
    <3>1. PICK k \in 1..n : v = read[k]
      BY <1>13
    <3> DEFINE x == said[order[k]]
    <3>2. x[1] = name /\ x[2] = v /\ x \in Range(said)
      BY <1>6, <1>10, <1>11, <1>13, <3>1
    <3> HIDE DEF x
    <3>3. x \in DOMAIN signed
      BY <1>1, <1>3, <3>2
    <3> QED
      BY <3>2, <3>3, Zenon
  <2>2. ASSUME NEW v \in values PROVE v \in Range(read)
    <3>1. PICK x \in DOMAIN signed : x[1] = name /\ v = x[2]
      OBVIOUS
    <3>2. x \in Range(said)
      BY <1>3, <3>1
    <3>3. PICK i \in 1..m : x = said[i]
      BY <1>13, <3>2
    <3>4. i \in found
      BY <1>6, <3>1, <3>3, Zenon
    <3>5. PICK k \in 1..n : order[k] = i
      BY <1>9, <3>4, Zenon
    <3>6. v = read[k]
      BY <1>11, <3>1, <3>3, <3>5, Zenon
    <3> QED
      BY <1>13, <3>6
  <2> HIDE DEF values
  <2> QED
    BY <2>1, <2>2
<1>15. ASSUME NEW v \in values
       PROVE  Cardinality({k \in DOMAIN read : read[k] = v}) = signed[<<name, v>>]
  <2> DEFINE x == <<name, v>>
             A == {i \in 1..m : said[i] = x}
  <2>1. x \in DOMAIN signed
    <3>1. PICK k \in 1..n : v = read[k]
      BY <1>13, <1>14
    <3>2. x = said[order[k]]
      BY <1>10, <1>11, <1>12, <3>1, Zenon
    <3>3. x \in Range(said)
      BY <1>10, <1>13, <3>2
    <3>4. x[1] = name
      OBVIOUS
    <3> HIDE DEF x
    <3> QED
      BY <1>1, <1>3, <3>3, <3>4
  <2>2. signed[x] = Cardinality(A)
    <3>1. Times(said, x) = Cardinality(A)
      BY <1>2, Zenon DEF Times
    <3> HIDE DEF A, x
    <3>2. signed[x] = Times(said, x)
      BY <1>3, <2>1
    <3> QED
      BY <3>1, <3>2
  <2>3. A \subseteq found
    <3>1. x[1] = name
      OBVIOUS
    <3> HIDE DEF x
    <3> QED
      BY <1>6, <3>1
  <2>4. {k \in DOMAIN read : read[k] = v} = Places(order, n, A)
    <3>1. ASSUME NEW k \in 1..n PROVE read[k] = v <=> said[order[k]] = x
      <4>1. read[k] = said[order[k]][2] /\ said[order[k]] = <<name, said[order[k]][2]>>
        BY <1>10, <1>11, <1>12, Zenon
      <4>2. x[2] = v
        OBVIOUS
      <4> QED
        BY <4>1, <4>2, Zenon
    <3>2. \A k \in 1..n : order[k] \in 1..m
      BY <1>10
    <3> HIDE DEF x
    <3> QED
      BY <1>11, <3>1, <3>2 DEF Places
  <2> HIDE DEF A, values
  <2>5. Cardinality(Places(order, n, A)) = Cardinality(A)
    <3>1. RunsThrough(order, n, found)
      BY <1>8, <1>9, Zenon DEF RunsThrough, n
    <3>2. IsFiniteSet(found)
      BY <1>5, Zenon
    <3> QED
      BY <2>3, <3>1, <3>2, CountInOrder
  <2> QED
    BY <2>2, <2>4, <2>5, Zenon
<1>16. ToBag(read) = [v \in Range(read) |-> Cardinality({k \in DOMAIN read : read[k] = v})]
  BY Zenon DEF ToBag
<1> HIDE DEF values
<1>17. ToBag(read) = [v \in values |-> signed[<<name, v>>]]
  BY <1>14, <1>15, <1>16, Zenon
<1> QED
  BY <1>17, Zenon DEF read, values, signed

-------------------------------------------------------------------------------
\* The query of a request.

\* The query is a text, the empty one included.
LEMMA QueryIsText ==
  ASSUME NEW raw \in Texts
  PROVE  QueryPart(raw) \in Texts
<1>1. Len(raw) \in Nat /\ \A k \in 1..Len(raw) : raw[k] \in Byte
  BY LenProperties, ElementOfSeq DEF Texts
<1> DEFINE m == Len(PathPart(raw)) + 2
<1>2. m \in Nat /\ m >= 2
  <2>1. Len(PathPart(raw)) \in Nat
    BY PathIsText, LenProperties DEF Texts
  <2> QED
    BY <2>1
<1> HIDE DEF m
<1>3. \A k \in m..Len(raw) : raw[k] \in Byte
  BY <1>1, <1>2
<1>4. SubSeq(raw, m, Len(raw)) \in Seq(Byte)
  BY <1>1, <1>2, <1>3, SubSeqProperties
<1> QED
  BY <1>4 DEF QueryPart, m, Texts

\* Whatever is read of the URI is read of a query that is a text and has no error.
LEMMA ReadableQuery ==
  ASSUME UriInv, Readable(uri)
  PROVE  QueryPart(uri) \in Texts /\ ~QueryError(QueryPart(uri))
BY QueryIsText, Zenon DEF UriInv, Readable

\* EveryParameterIsSigned, for all texts a request can carry: nothing the
\* application reads goes unsigned, and nothing is signed that is not there.
THEOREM ParametersAreSigned == Spec => []EveryParameterIsSigned
<1>1. UriInv => EveryParameterIsSigned
  BY ReadableQuery, CanonicalQuerySaysTheSame, Zenon DEF EveryParameterIsSigned
<1> QED
  BY <1>1, UriIsText, PTL

\* CanonicalQueryIsNormalForm, for all texts a request can carry: what
\* canonical_query returns parses, is a fixed point and is sorted.
THEOREM CanonicalQueryIsFixed == Spec => []CanonicalQueryIsNormalForm
<1>1. UriInv => CanonicalQueryIsNormalForm
  BY ReadableQuery, CanonicalQueryIsNormal, Zenon DEF CanonicalQueryIsNormalForm
<1> QED
  BY <1>1, UriIsText, PTL

\* VerifierReadsWhatIsSigned, for all texts a request can carry: verify takes
\* its decision on the values the signature covers.
THEOREM VerifierReadsTheSigned == Spec => []VerifierReadsWhatIsSigned
<1>1. UriInv => VerifierReadsWhatIsSigned
  BY ReadableQuery, ValuesAreSigned, Zenon DEF VerifierReadsWhatIsSigned
<1> QED
  BY <1>1, UriIsText, PTL
===============================================================================
