----------------------------- MODULE DurationsProofs -----------------------------
(***************************************************************************)
(* parse_duration is exact, for every text and every size of word: the     *)
(* loop keeps the running sum of what the places of the text are worth.    *)
(***************************************************************************)
EXTENDS Durations, WellFoundedInduction, SequenceTheorems, TLAPS

\* A set of natural numbers with a member has a least one.
LEMMA LeastMember ==
  ASSUME NEW T, T \subseteq Nat, T # {}
  PROVE  \E m \in T : \A k \in T : m <= k
<1>1. IsWellFoundedOn(OpToRel(<, Nat), Nat)
  BY NatLessThanWellFounded
<1>2. PICK m \in T : \A k \in T : <<k, m>> \notin OpToRel(<, Nat)
  BY <1>1, WFMin
<1>3. \A k \in T : ~(k < m)
  BY <1>2 DEF OpToRel
<1> QED
  BY <1>3

\* Induction from the first to the last.
LEMMA Upwards ==
  ASSUME NEW n \in Nat, NEW T, 0 \in T, \A i \in 0..(n - 1) : i \in T => i + 1 \in T
  PROVE  \A i \in 0..n : i \in T
<1> DEFINE Bad == {i \in 0..n : i \notin T}
<1>1. SUFFICES ASSUME Bad # {} PROVE FALSE
  OBVIOUS
<1>2. PICK m \in Bad : \A i \in Bad : m <= i
  <2>1. Bad \subseteq Nat
    OBVIOUS
  <2> QED
    BY <1>1, <2>1, LeastMember
<1>3. m # 0
  BY <1>2
<1>4. m - 1 \in 0..(n - 1) /\ (m - 1) + 1 = m /\ ~(m <= m - 1)
  BY <1>2, <1>3
<1>5. m - 1 \in T
  BY <1>2, <1>4
<1> QED
  BY <1>2, <1>4, <1>5

\* u keeps the running sum of the first n numbers of w.
IsSum(u, w, n) ==
  /\ u \in [0..n -> Nat] /\ u[0] = 0
  /\ \A i \in 1..n : u[i] = u[i - 1] + w[i]

\* There is a running sum of any numbers.
LEMMA SumExists ==
  ASSUME NEW n \in Nat, NEW w \in [1..n -> Nat]
  PROVE  \E u : IsSum(u, w, n)
<1> DEFINE T == {k \in 0..n : \E u : IsSum(u, w, k)}
<1>1. 0 \in T
  <2> DEFINE z == [i \in 0..0 |-> 0]
  <2>1. IsSum(z, w, 0)
    BY DEF IsSum
  <2> QED
    BY <2>1
<1>2. \A k \in 0..(n - 1) : k \in T => k + 1 \in T
  <2> SUFFICES ASSUME NEW k \in 0..(n - 1), k \in T PROVE k + 1 \in T
    OBVIOUS
  <2>1. PICK u : IsSum(u, w, k)
    OBVIOUS
  <2> DEFINE v == [i \in 0..(k + 1) |-> IF i = k + 1 THEN u[k] + w[k + 1] ELSE u[i]]
  <2>2. k \in Nat /\ k \in 0..k /\ k + 1 \in 1..n /\ k + 1 \in 0..n
    OBVIOUS
  <2>3. u[k] \in Nat /\ w[k + 1] \in Nat
    BY <2>1, <2>2 DEF IsSum
  <2>4. \A i \in 0..(k + 1) : i # k + 1 => i \in 0..k
    BY <2>2
  <2>5. v \in [0..(k + 1) -> Nat]
    BY <2>1, <2>3, <2>4 DEF IsSum
  <2>6. v[k + 1] = u[k] + w[k + 1] /\ \A i \in 0..k : v[i] = u[i]
    BY <2>2
  <2> HIDE DEF v
  <2>7. \A i \in 1..(k + 1) : v[i] = v[i - 1] + w[i]
    <3> SUFFICES ASSUME NEW i \in 1..(k + 1) PROVE v[i] = v[i - 1] + w[i]
      OBVIOUS
    <3>1. CASE i = k + 1
      BY <2>2, <2>6, <3>1
    <3>2. CASE i # k + 1
      <4>1. i \in 1..k /\ i \in 0..k /\ i - 1 \in 0..k
        BY <2>2, <3>2
      <4> QED
        BY <2>1, <2>6, <4>1 DEF IsSum
    <3> QED
      BY <3>1, <3>2
  <2>8. v[0] = 0
    BY <2>1, <2>2, <2>6 DEF IsSum
  <2>9. IsSum(v, w, k + 1)
    BY <2>5, <2>7, <2>8 DEF IsSum
  <2> QED
    BY <2>2, <2>9
<1> HIDE DEF T
<1>3. \A i \in 0..n : i \in T
  BY <1>1, <1>2, Upwards
<1>4. n \in 0..n
  OBVIOUS
<1> QED
  BY <1>3, <1>4 DEF T

\* v sums up what a holds up to r, and m times what a holds behind.
SumsScaled(v, b, a, n, r, m) ==
  /\ v[0] = 0
  /\ \A i \in 1..n : v[i] = v[i - 1] + b[i]
  /\ \A i \in 1..n : b[i] = IF i <= r THEN a[i] ELSE m * a[i]

\* Two running sums: equal as far as the numbers are, and in step behind.
LEMMA SumsInStep ==
  ASSUME NEW n \in Nat, NEW r \in 0..n, NEW m \in Nat,
         NEW a \in [1..n -> Nat], NEW b, NEW u, NEW v,
         IsSum(u, a, n), SumsScaled(v, b, a, n, r, m)
  PROVE  v[r] = u[r] /\ v[n] = u[r] + m * (u[n] - u[r])
<1> USE DEF SumsScaled
<1>1. \A i \in 0..n : u[i] \in Nat
  BY DEF IsSum
<1>2. \A i \in 1..n : a[i] \in Nat /\ u[i] = u[i - 1] + a[i] /\ i - 1 \in 0..n
  BY DEF IsSum
<1>3. u[0] = 0
  BY DEF IsSum
<1> DEFINE T == {i \in 0..n : v[i] = IF i <= r THEN u[i] ELSE u[r] + m * (u[i] - u[r])}
<1>4. 0 \in T
  BY <1>3
<1>5. \A i \in 0..(n - 1) : i \in T => i + 1 \in T
  <2> SUFFICES ASSUME NEW i \in 0..(n - 1), i \in T PROVE i + 1 \in T
    OBVIOUS
  <2>1. i + 1 \in 1..n /\ i + 1 \in 0..n /\ i \in 0..n /\ (i + 1) - 1 = i
    OBVIOUS
  <2>2. v[i + 1] = v[i] + b[i + 1] /\ u[i + 1] = u[i] + a[i + 1] /\ a[i + 1] \in Nat
    BY <1>2, <2>1
  <2>3. u[i] \in Nat /\ u[r] \in Nat /\ u[i + 1] \in Nat
    BY <1>1, <2>1
  <2>4. CASE i + 1 <= r
    <3>1. v[i] = u[i] /\ b[i + 1] = a[i + 1]
      BY <2>1, <2>4
    <3> QED
      BY <2>1, <2>2, <2>4, <3>1
  <2>5. CASE ~(i + 1 <= r)
    <3>1. b[i + 1] = m * a[i + 1]
      BY <2>1, <2>5
    <3>2. v[i] = u[r] + m * (u[i] - u[r])
      <4>1. CASE i = r
        <5>1. m * (u[r] - u[r]) = 0
          BY <2>3
        <5> QED
          BY <2>3, <4>1, <5>1
      <4>2. CASE i # r
        BY <2>5, <4>2
      <4> QED
        BY <4>1, <4>2
    <3>3. v[i + 1] = u[r] + m * (u[i + 1] - u[r])
      <4> DEFINE x == u[i]
                 y == u[r]
                 z == a[i + 1]
      <4>1. x \in Nat /\ y \in Nat /\ z \in Nat
        BY <2>2, <2>3
      <4>2. v[i + 1] = (y + m * (x - y)) + m * z /\ u[i + 1] = x + z
        BY <2>2, <3>1, <3>2
      <4> HIDE DEF x, y, z
      <4>3. (y + m * (x - y)) + m * z = y + m * ((x + z) - y)
        BY <4>1
      <4> QED
        BY <4>2, <4>3 DEF y
    <3> QED
      BY <2>1, <2>5, <3>3
  <2> QED
    BY <2>4, <2>5
<1> HIDE DEF T
<1>6. \A i \in 0..n : i \in T
  BY <1>4, <1>5, Upwards
<1>7. \A i \in 0..r : v[i] = u[i]
  BY <1>6 DEF T
<1>8. r \in 0..r /\ n \in 0..n /\ u[r] \in Nat
  BY <1>1
<1>9. v[n] = u[r] + m * (u[n] - u[r])
  <2>1. CASE n = r
    <3>1. m * (u[r] - u[r]) = 0
      BY <1>8
    <3> QED
      BY <1>7, <1>8, <2>1, <3>1
  <2>2. CASE n # r
    BY <1>6, <1>8, <2>2 DEF T
  <2> QED
    BY <2>1, <2>2
<1> QED
  BY <1>7, <1>8, <1>9

\* The powers of ten from the first up to n.
IsTens(u, n) ==
  /\ u \in [0..n -> Nat] /\ u[0] = 1
  /\ \A i \in 1..n : u[i] = 10 * u[i - 1]

\* They exist up to each n.
LEMMA TensUpTo ==
  ASSUME NEW n \in Nat
  PROVE  \E u : IsTens(u, n)
<1> DEFINE T == {k \in 0..n : \E u : IsTens(u, k)}
<1>1. 0 \in T
  <2> DEFINE z == [i \in 0..0 |-> 1]
  <2>1. IsTens(z, 0)
    BY DEF IsTens
  <2> QED
    BY <2>1
<1>2. \A k \in 0..(n - 1) : k \in T => k + 1 \in T
  <2> SUFFICES ASSUME NEW k \in 0..(n - 1), k \in T PROVE k + 1 \in T
    OBVIOUS
  <2>1. PICK u : IsTens(u, k)
    OBVIOUS
  <2> DEFINE v == [i \in 0..(k + 1) |-> IF i = k + 1 THEN 10 * u[k] ELSE u[i]]
  <2>2. k \in Nat /\ k \in 0..k /\ k + 1 \in 0..n
    OBVIOUS
  <2>3. u[k] \in Nat
    BY <2>1, <2>2 DEF IsTens
  <2>4. \A i \in 0..(k + 1) : i # k + 1 => i \in 0..k
    BY <2>2
  <2>5. v \in [0..(k + 1) -> Nat]
    BY <2>1, <2>3, <2>4 DEF IsTens
  <2>6. v[k + 1] = 10 * u[k] /\ \A i \in 0..k : v[i] = u[i]
    BY <2>2
  <2> HIDE DEF v
  <2>7. \A i \in 1..(k + 1) : v[i] = 10 * v[i - 1]
    <3> SUFFICES ASSUME NEW i \in 1..(k + 1) PROVE v[i] = 10 * v[i - 1]
      OBVIOUS
    <3>1. CASE i = k + 1
      BY <2>2, <2>6, <3>1
    <3>2. CASE i # k + 1
      <4>1. i \in 1..k /\ i \in 0..k /\ i - 1 \in 0..k
        BY <2>2, <3>2
      <4> QED
        BY <2>1, <2>6, <4>1 DEF IsTens
    <3> QED
      BY <3>1, <3>2
  <2>8. v[0] = 1
    BY <2>1, <2>2, <2>6 DEF IsTens
  <2>9. IsTens(v, k + 1)
    BY <2>5, <2>7, <2>8 DEF IsTens
  <2> QED
    BY <2>2, <2>9
<1> HIDE DEF T
<1>3. \A i \in 0..n : i \in T
  BY <1>1, <1>2, Upwards
<1>4. n \in 0..n
  OBVIOUS
<1> QED
  BY <1>3, <1>4 DEF T

\* And they are the same whatever n is.
LEMMA TensAgree ==
  ASSUME NEW n \in Nat, NEW k \in 0..n, NEW u, NEW v, IsTens(u, n), IsTens(v, k)
  PROVE  u[k] = v[k]
<1> DEFINE T == {i \in 0..k : u[i] = v[i]}
<1>1. 0 \in T
  BY DEF IsTens
<1>2. \A i \in 0..(k - 1) : i \in T => i + 1 \in T
  <2> SUFFICES ASSUME NEW i \in 0..(k - 1), i \in T PROVE i + 1 \in T
    OBVIOUS
  <2>1. i + 1 \in 1..n /\ i + 1 \in 1..k /\ i + 1 \in 0..k /\ (i + 1) - 1 = i
    OBVIOUS
  <2>2. u[i + 1] = 10 * u[i] /\ v[i + 1] = 10 * v[i]
    BY <2>1 DEF IsTens
  <2> QED
    BY <2>1, <2>2
<1> HIDE DEF T
<1>3. \A i \in 0..k : i \in T
  BY <1>1, <1>2, Upwards
<1>4. k \in 0..k
  OBVIOUS
<1> QED
  BY <1>3, <1>4 DEF T

\* The recursive function of the powers of ten exists, and is what it says.
LEMMA TensAre ==
  /\ PowerOfTen \in [Nat -> Nat] /\ PowerOfTen[0] = 1
  /\ \A n \in Nat : PowerOfTen[n + 1] = 10 * PowerOfTen[n]
<1> DEFINE Upto(n) == CHOOSE u : IsTens(u, n)
           t == [n \in Nat |-> Upto(n)[n]]
           Turn(f) == [n \in Nat |-> IF n = 0 THEN 1 ELSE 10 * f[n - 1]]
<1>1. \A n \in Nat : IsTens(Upto(n), n)
  BY TensUpTo
<1> HIDE DEF Upto
<1>2. \A n \in Nat : t[n] \in Nat
  <2> SUFFICES ASSUME NEW n \in Nat PROVE t[n] \in Nat
    OBVIOUS
  <2>1. n \in 0..n
    OBVIOUS
  <2> QED
    BY <1>1, <2>1 DEF IsTens
<1>3. t[0] = 1
  BY <1>1 DEF IsTens
<1>4. \A n \in Nat : n # 0 => t[n] = 10 * t[n - 1]
  <2> SUFFICES ASSUME NEW n \in Nat, n # 0 PROVE t[n] = 10 * t[n - 1]
    OBVIOUS
  <2>1. n - 1 \in Nat /\ n - 1 \in 0..n /\ n \in 1..n
    OBVIOUS
  <2>2. Upto(n)[n] = 10 * Upto(n)[n - 1]
    BY <1>1, <2>1 DEF IsTens
  <2>3. Upto(n)[n - 1] = Upto(n - 1)[n - 1]
    BY <1>1, <2>1, TensAgree
  <2> QED
    BY <2>1, <2>2, <2>3
<1>5. t = Turn(t)
  <2> HIDE DEF t
  <2>1. t = [n \in Nat |-> t[n]]
    BY DEF t
  <2>2. \A n \in Nat : t[n] = IF n = 0 THEN 1 ELSE 10 * t[n - 1]
    BY <1>3, <1>4
  <2> QED
    BY <2>1, <2>2
<1> HIDE DEF t
<1>6. PowerOfTen = CHOOSE f : f = Turn(f)
  BY Zenon DEF PowerOfTen
<1>7. PowerOfTen = Turn(PowerOfTen)
  <2> HIDE DEF Turn
  <2> QED
    BY <1>5, <1>6
<1>8. \A n \in Nat : PowerOfTen[n] = IF n = 0 THEN 1 ELSE 10 * PowerOfTen[n - 1]
  BY <1>7
<1>9. ASSUME NEW n \in Nat PROVE PowerOfTen[n] = t[n]
  <2> DEFINE T == {i \in 0..n : PowerOfTen[i] = t[i]}
  <2>1. 0 \in T
    BY <1>3, <1>8
  <2>2. \A i \in 0..(n - 1) : i \in T => i + 1 \in T
    <3> SUFFICES ASSUME NEW i \in 0..(n - 1), i \in T PROVE i + 1 \in T
      OBVIOUS
    <3>1. i + 1 \in Nat /\ i + 1 # 0 /\ (i + 1) - 1 = i /\ i + 1 \in 0..n
      OBVIOUS
    <3> QED
      BY <1>4, <1>8, <3>1
  <2> HIDE DEF T
  <2>3. \A i \in 0..n : i \in T
    BY <2>1, <2>2, Upwards
  <2>4. n \in 0..n
    OBVIOUS
  <2> QED
    BY <2>3, <2>4 DEF T
<1>10. PowerOfTen \in [Nat -> Nat]
  BY <1>2, <1>7, <1>9
<1>11. \A n \in Nat : n + 1 \in Nat /\ n + 1 # 0 /\ (n + 1) - 1 = n
  OBVIOUS
<1> QED
  BY <1>8, <1>10, <1>11

\* What each place of a text adds, when its letters are units.
Worths(text) == [i \in 1..Len(text) |-> Worth(text, i)]

\* The running sum of a text is one.
LEMMA UpToIs ==
  ASSUME NEW text, Len(text) \in Nat, \A i \in 1..Len(text) : Worth(text, i) \in Nat
  PROVE  IsSum(UpTo(text), Worths(text), Len(text))
<1> DEFINE n == Len(text)
           w == Worths(text)
           Turn(f) == [i \in 0..n |-> IF i = 0 THEN 0 ELSE f[i - 1] + Worth(text, i)]
           sum == CHOOSE f : f = Turn(f)
<1>1. UpTo(text) = sum
  BY Zenon DEF UpTo
<1>2. w \in [1..n -> Nat] /\ \A i \in 1..n : w[i] = Worth(text, i)
  BY DEF Worths
<1> HIDE DEF w, n
<1>3. n \in Nat
  BY DEF n
<1>4. PICK u : IsSum(u, w, n)
  BY <1>2, <1>3, SumExists
<1>5. u = Turn(u)
  <2>1. u = [i \in 0..n |-> u[i]]
    BY <1>4 DEF IsSum
  <2>2. \A i \in 0..n : u[i] = IF i = 0 THEN 0 ELSE u[i - 1] + Worth(text, i)
    <3> SUFFICES ASSUME NEW i \in 0..n, i # 0 PROVE u[i] = u[i - 1] + Worth(text, i)
      BY <1>4 DEF IsSum
    <3>1. i \in 1..n
      BY <1>3
    <3> QED
      BY <1>2, <1>4, <3>1 DEF IsSum
  <2> QED
    BY <2>1, <2>2
<1>6. sum = Turn(sum)
  <2> HIDE DEF Turn
  <2> QED
    BY <1>5
<1> HIDE DEF sum
<1>7. \A i \in 0..n : sum[i] = IF i = 0 THEN 0 ELSE sum[i - 1] + Worth(text, i)
  BY <1>6
<1>8. \A i \in 1..n : i \in 0..n /\ i # 0
  BY <1>3
<1>9. sum[0] = 0 /\ \A i \in 1..n : sum[i] = sum[i - 1] + w[i]
  BY <1>2, <1>3, <1>7, <1>8
<1>10. \A i \in 0..n : sum[i] \in Nat
  <2> DEFINE T == {i \in 0..n : sum[i] \in Nat}
  <2>1. 0 \in T
    BY <1>3, <1>9
  <2>2. \A i \in 0..(n - 1) : i \in T => i + 1 \in T
    <3> SUFFICES ASSUME NEW i \in 0..(n - 1), i \in T PROVE i + 1 \in T
      OBVIOUS
    <3>1. i + 1 \in 1..n /\ (i + 1) - 1 = i /\ i + 1 \in 0..n
      BY <1>3
    <3>2. w[i + 1] \in Nat
      BY <1>2, <3>1
    <3> QED
      BY <1>9, <3>1, <3>2
  <2> HIDE DEF T
  <2>3. \A i \in 0..n : i \in T
    BY <1>3, <2>1, <2>2, Upwards
  <2> QED
    BY <2>3 DEF T
<1>11. sum \in [0..n -> Nat]
  BY <1>6, <1>10
<1> QED
  BY <1>1, <1>9, <1>11 DEF IsSum, n, w

\* The unit of a place stands at j: no letter comes before.
IsUnitPlace(text, i, j) ==
  /\ j \in (i + 1)..(Len(text) + 1)
  /\ \A k \in (i + 1)..(j - 1) : IsAsciiDigit(text[k])
  /\ j <= Len(text) => ~IsAsciiDigit(text[j])

\* There is only one such place.
LEMMA UnitPlaceIs ==
  ASSUME NEW text, Len(text) \in Nat, NEW i \in 1..Len(text), NEW j, IsUnitPlace(text, i, j)
  PROVE  UnitPlace(text, i) = j
<1> DEFINE S == {k \in (i + 1)..Len(text) : ~IsAsciiDigit(text[k])} \cup {Len(text) + 1}
<1>1. j \in S /\ \A k \in S : j <= k
  BY DEF IsUnitPlace
<1>2. S \subseteq Nat
  OBVIOUS
<1>3. UnitPlace(text, i) = Min(S)
  BY Zenon DEF UnitPlace
<1> HIDE DEF S
<1>4. \A k \in S : (\A l \in S : k <= l) => k = j
  BY <1>1, <1>2
<1> QED
  BY <1>1, <1>3, <1>4 DEF Min

\* And there is one.
LEMMA UnitPlaceExists ==
  ASSUME NEW text, Len(text) \in Nat, NEW i \in 1..Len(text)
  PROVE  IsUnitPlace(text, i, UnitPlace(text, i))
<1> DEFINE S == {k \in (i + 1)..Len(text) : ~IsAsciiDigit(text[k])} \cup {Len(text) + 1}
<1>1. S \subseteq Nat /\ S # {}
  OBVIOUS
<1>2. PICK m \in S : \A k \in S : m <= k
  BY <1>1, LeastMember
<1>3. IsUnitPlace(text, i, m)
  BY <1>2 DEF IsUnitPlace
<1> QED
  BY <1>3, UnitPlaceIs

\* A second, a minute, an hour, a day and a week.
LEMMA SecondsAre ==
  ASSUME NEW c \in UnitLetters
  PROVE  UnitSeconds(c) \in Nat /\ UnitSeconds(c) >= 1
BY DEF UnitLetters, UnitSeconds

\* All letters so far are units.
LettersAreUnits(text) == \A i \in 1..Len(text) : IsAsciiDigit(text[i]) \/ text[i] \in UnitLetters

\* The worth of a place is a number.
LEMMA WorthIsNumber ==
  ASSUME NEW text, Len(text) \in Nat, LettersAreUnits(text), NEW i \in 1..Len(text)
  PROVE  Worth(text, i) \in Nat
<1> DEFINE j == UnitPlace(text, i)
<1>1. IsUnitPlace(text, i, j)
  BY UnitPlaceExists
<1> HIDE DEF j
<1>2. CASE ~IsAsciiDigit(text[i])
  BY <1>2 DEF Worth
<1>3. CASE IsAsciiDigit(text[i])
  <2>1. text[i] - 48 \in Nat
    BY <1>3 DEF IsAsciiDigit
  <2>2. j - 1 - i \in Nat
    BY <1>1 DEF IsUnitPlace
  <2>3. PowerOfTen[j - 1 - i] \in Nat
    BY <2>2, TensAre
  <2>4. UnitAt(text, j) \in Nat
    <3>1. CASE j > Len(text)
      BY <3>1 DEF UnitAt
    <3>2. CASE ~(j > Len(text))
      <4>1. j \in 1..Len(text) /\ ~IsAsciiDigit(text[j])
        BY <1>1, <3>2 DEF IsUnitPlace
      <4> QED
        BY <3>2, <4>1, SecondsAre DEF UnitAt, LettersAreUnits
    <3> QED
      BY <3>1, <3>2
  <2>5. Worth(text, i) = (text[i] - 48) * PowerOfTen[j - 1 - i] * UnitAt(text, j)
    BY <1>3 DEF Worth, j
  <2> DEFINE x == text[i] - 48
             y == PowerOfTen[j - 1 - i]
             z == UnitAt(text, j)
  <2> HIDE DEF x, y, z
  <2>6. x \in Nat /\ y \in Nat /\ z \in Nat => x * y * z \in Nat
    <3> SUFFICES ASSUME x \in Nat, y \in Nat, z \in Nat PROVE x * y * z \in Nat
      OBVIOUS
    <3>1. x * y \in Nat
      OBVIOUS
    <3> HIDE DEF x, y, z
    <3> QED
      BY <3>1
  <2> QED
    BY <2>1, <2>3, <2>4, <2>5, <2>6 DEF x, y, z
<1> QED
  BY <1>2, <1>3

\* t is text with c behind it.
Extends(t, text, c) ==
  /\ Len(text) \in Nat /\ Len(t) = Len(text) + 1
  /\ t[Len(text) + 1] = c /\ \A i \in 1..Len(text) : t[i] = text[i]

\* The last digits of a text start behind r.
OpenFrom(text, r) ==
  /\ r \in 0..Len(text) /\ (r > 0 => ~IsAsciiDigit(text[r]))
  /\ \A i \in (r + 1)..Len(text) : IsAsciiDigit(text[i])

\* Whatever is put behind a text, its closed runs are worth what they were.
LEMMA ClosedWorths ==
  ASSUME NEW text, NEW t, NEW c, Extends(t, text, c), NEW r, OpenFrom(text, r)
  PROVE  \A i \in 1..Len(text) : i <= r => Worth(t, i) = Worth(text, i)
<1> DEFINE n == Len(text)
<1>1. n \in Nat /\ Len(t) = n + 1 /\ \A i \in 1..n : t[i] = text[i]
  BY DEF Extends
<1>2. r \in 0..n /\ (r > 0 => ~IsAsciiDigit(text[r]))
  BY DEF OpenFrom
<1> HIDE DEF n
<1>3. ASSUME NEW i \in 1..n, i <= r PROVE Worth(t, i) = Worth(text, i)
  <2>1. CASE ~IsAsciiDigit(text[i])
    BY <1>1, <2>1 DEF Worth
  <2>2. CASE IsAsciiDigit(text[i])
    <3> DEFINE j == UnitPlace(text, i)
    <3>1. IsUnitPlace(text, i, j)
      BY <1>1, UnitPlaceExists DEF n
    <3> HIDE DEF j
    <3>2. j <= r /\ j \in 1..n /\ ~IsAsciiDigit(text[j])
      BY <1>1, <1>2, <1>3, <2>2, <3>1 DEF IsUnitPlace, n
    <3>3. IsUnitPlace(t, i, j)
      BY <1>1, <3>1, <3>2 DEF IsUnitPlace, n
    <3>4. UnitPlace(t, i) = j
      <4>1. i \in 1..Len(t)
        BY <1>1
      <4> QED
        BY <1>1, <3>3, <4>1, UnitPlaceIs
    <3>5. UnitAt(t, j) = UnitAt(text, j)
      BY <1>1, <3>2 DEF UnitAt, n
    <3> QED
      BY <1>1, <2>2, <3>4, <3>5 DEF Worth, j
  <2> QED
    BY <2>1, <2>2
<1> QED
  BY <1>3 DEF n

\* A digit behind a text: the digits of the open run move up a place.
LEMMA DigitWorths ==
  ASSUME NEW text, NEW t, NEW d, Extends(t, text, d), IsAsciiDigit(d),
         NEW r, OpenFrom(text, r), LettersAreUnits(text)
  PROVE  /\ \A i \in 1..Len(text) :
              Worth(t, i) = IF i <= r THEN Worth(text, i) ELSE 10 * Worth(text, i)
         /\ Worth(t, Len(text) + 1) = d - 48
<1> DEFINE n == Len(text)
<1>1. n \in Nat /\ Len(t) = n + 1 /\ t[n + 1] = d /\ \A i \in 1..n : t[i] = text[i]
  BY DEF Extends
<1>2. r \in 0..n /\ (r > 0 => ~IsAsciiDigit(text[r])) /\ \A i \in (r + 1)..n : IsAsciiDigit(text[i])
  BY DEF OpenFrom
<1> HIDE DEF n
<1>3. Worth(t, n + 1) = d - 48
  <2>1. IsUnitPlace(t, n + 1, n + 2)
    BY <1>1 DEF IsUnitPlace
  <2>2. UnitPlace(t, n + 1) = n + 2
    BY <1>1, <2>1, UnitPlaceIs
  <2>3. n + 2 - 1 - (n + 1) = 0 /\ n + 2 > n + 1
    BY <1>1
  <2>4. Worth(t, n + 1) = (d - 48) * PowerOfTen[0] * 1
    BY <1>1, <2>2, <2>3 DEF Worth, UnitAt
  <2>5. d - 48 \in Nat
    BY DEF IsAsciiDigit
  <2> QED
    BY <2>4, <2>5, TensAre
<1>4. \A i \in 1..n : i <= r => Worth(t, i) = Worth(text, i)
  BY ClosedWorths DEF n
<1>5. ASSUME NEW i \in 1..n, ~(i <= r) PROVE Worth(t, i) = 10 * Worth(text, i)
  <2>1. IsAsciiDigit(text[i]) /\ IsAsciiDigit(t[i])
    BY <1>1, <1>2, <1>5
  <2>2. IsUnitPlace(text, i, n + 1)
    BY <1>1, <1>2, <1>5 DEF IsUnitPlace, n
  <2>3. IsUnitPlace(t, i, n + 2)
    <3>1. \A k \in (i + 1)..(n + 1) : IsAsciiDigit(t[k])
      BY <1>1, <1>2, <1>5
    <3> QED
      BY <1>1, <3>1 DEF IsUnitPlace
  <2>4. UnitPlace(text, i) = n + 1
    BY <1>1, <2>2, UnitPlaceIs DEF n
  <2>5. UnitPlace(t, i) = n + 2
    <3>1. i \in 1..Len(t)
      BY <1>1
    <3> QED
      BY <1>1, <2>3, <3>1, UnitPlaceIs
  <2>6. n + 1 - 1 - i \in Nat /\ n + 2 - 1 - i = (n + 1 - 1 - i) + 1 /\ n + 2 > n + 1
    BY <1>1
  <2> DEFINE x == text[i] - 48
             y == PowerOfTen[n + 1 - 1 - i]
  <2>7. x \in Nat /\ y \in Nat
    BY <2>1, <2>6, TensAre DEF IsAsciiDigit
  <2>8. PowerOfTen[n + 2 - 1 - i] = 10 * y
    BY <2>6, TensAre
  <2>9. Worth(text, i) = x * y * 1
    BY <1>1, <2>1, <2>4 DEF Worth, UnitAt, n
  <2>10. Worth(t, i) = x * (10 * y) * 1
    BY <1>1, <2>1, <2>5, <2>6, <2>8 DEF Worth, UnitAt
  <2> HIDE DEF x, y
  <2>11. x * (10 * y) * 1 = 10 * (x * y * 1)
    BY <2>7
  <2> QED
    BY <2>9, <2>10, <2>11
<1> QED
  BY <1>3, <1>4, <1>5 DEF n

\* A letter behind a text: the digits of the open run take its unit.
LEMMA LetterWorths ==
  ASSUME NEW text, NEW t, NEW c \in UnitLetters, Extends(t, text, c), ~IsAsciiDigit(c),
         NEW r, OpenFrom(text, r), LettersAreUnits(text)
  PROVE  /\ \A i \in 1..Len(text) :
              Worth(t, i) = IF i <= r THEN Worth(text, i) ELSE UnitSeconds(c) * Worth(text, i)
         /\ Worth(t, Len(text) + 1) = 0
<1> DEFINE n == Len(text)
<1>1. n \in Nat /\ Len(t) = n + 1 /\ t[n + 1] = c /\ \A i \in 1..n : t[i] = text[i]
  BY DEF Extends
<1>2. r \in 0..n /\ (r > 0 => ~IsAsciiDigit(text[r])) /\ \A i \in (r + 1)..n : IsAsciiDigit(text[i])
  BY DEF OpenFrom
<1> HIDE DEF n
<1>3. Worth(t, n + 1) = 0
  BY <1>1 DEF Worth
<1>4. \A i \in 1..n : i <= r => Worth(t, i) = Worth(text, i)
  BY ClosedWorths DEF n
<1>5. ASSUME NEW i \in 1..n, ~(i <= r) PROVE Worth(t, i) = UnitSeconds(c) * Worth(text, i)
  <2>1. IsAsciiDigit(text[i]) /\ IsAsciiDigit(t[i])
    BY <1>1, <1>2, <1>5
  <2>2. IsUnitPlace(text, i, n + 1)
    BY <1>1, <1>2, <1>5 DEF IsUnitPlace, n
  <2>3. IsUnitPlace(t, i, n + 1)
    BY <1>1, <1>2, <1>5 DEF IsUnitPlace
  <2>4. UnitPlace(text, i) = n + 1
    BY <1>1, <2>2, UnitPlaceIs DEF n
  <2>5. UnitPlace(t, i) = n + 1
    <3>1. i \in 1..Len(t)
      BY <1>1
    <3> QED
      BY <1>1, <2>3, <3>1, UnitPlaceIs
  <2>6. n + 1 - 1 - i \in Nat /\ ~(n + 1 > Len(t)) /\ n + 1 > Len(text)
    BY <1>1 DEF n
  <2> DEFINE x == text[i] - 48
             y == PowerOfTen[n + 1 - 1 - i]
             z == UnitSeconds(c)
  <2>7. x \in Nat /\ y \in Nat /\ z \in Nat
    <3>1. x \in Nat
      BY <2>1 DEF IsAsciiDigit
    <3>2. y \in Nat
      BY <2>6, TensAre
    <3>3. z \in Nat
      BY SecondsAre
    <3> QED
      BY <3>1, <3>2, <3>3
  <2>8. UnitAt(text, n + 1) = 1 /\ UnitAt(t, n + 1) = z
    BY <1>1, <2>6 DEF UnitAt
  <2>9. Worth(text, i) = x * y * 1 /\ Worth(t, i) = x * y * z
    <3>1. t[i] = text[i]
      BY <1>1
    <3>2. Worth(text, i)
            = (text[i] - 48) * PowerOfTen[UnitPlace(text, i) - 1 - i] * UnitAt(text, UnitPlace(text, i))
      BY <2>1 DEF Worth
    <3>3. Worth(t, i) = (t[i] - 48) * PowerOfTen[UnitPlace(t, i) - 1 - i] * UnitAt(t, UnitPlace(t, i))
      BY <2>1 DEF Worth
    <3> HIDE DEF z
    <3>4. Worth(text, i) = x * y * 1
      BY <1>1, <2>4, <2>8, <3>2
    <3>5. Worth(t, i) = x * y * z
      BY <1>1, <2>5, <2>8, <3>1, <3>3
    <3> QED
      BY <3>4, <3>5
  <2> HIDE DEF x, y, z
  <2>10. x * y * z = z * (x * y * 1)
    BY <2>7
  <2> QED
    BY <2>9, <2>10 DEF z
<1> QED
  BY <1>3, <1>4, <1>5 DEF n

\* A text that ends in an open run, and one byte more.
LEMMA SumsBehind ==
  ASSUME NEW text, NEW t, NEW c, Extends(t, text, c), NEW r, OpenFrom(text, r),
         LettersAreUnits(text), LettersAreUnits(t), NEW m \in Nat,
         \A i \in 1..Len(text) : Worth(t, i) = IF i <= r THEN Worth(text, i) ELSE m * Worth(text, i)
  PROVE  LET n == Len(text)
             u == UpTo(text)
             v == UpTo(t)
         IN /\ u[r] \in Nat /\ u[n] \in Nat
            /\ v[r] = u[r] /\ v[n + 1] = u[r] + m * (u[n] - u[r]) + Worth(t, n + 1)
<1> DEFINE n == Len(text)
           u == UpTo(text)
           v == UpTo(t)
           a == Worths(text)
           b == Worths(t)
<1>1. n \in Nat /\ Len(t) = n + 1 /\ r \in 0..n
  BY DEF Extends, OpenFrom
<1>2. IsSum(u, a, n)
  BY <1>1, WorthIsNumber, UpToIs
<1>3. IsSum(v, b, n + 1)
  <2>1. Len(t) \in Nat
    BY <1>1
  <2>2. \A i \in 1..Len(t) : Worth(t, i) \in Nat
    BY <2>1, WorthIsNumber
  <2> QED
    BY <1>1, <2>1, <2>2, UpToIs
<1>4. \A i \in 1..n : a[i] = Worth(text, i) /\ a[i] \in Nat
  BY <1>1, WorthIsNumber DEF Worths
<1>5. a \in [1..n -> Nat]
  BY <1>4 DEF Worths
<1>6. \A i \in 1..(n + 1) : b[i] = Worth(t, i)
  BY <1>1 DEF Worths
<1> HIDE DEF n, u, v, a, b
<1>7. \A i \in 1..n : i \in 1..(n + 1)
  BY <1>1
<1>8. \A i \in 1..n : b[i] = IF i <= r THEN a[i] ELSE m * a[i]
  BY <1>4, <1>6, <1>7 DEF n
<1>9. v[0] = 0 /\ \A i \in 1..n : v[i] = v[i - 1] + b[i]
  BY <1>3, <1>7 DEF IsSum
<1>10. v[r] = u[r] /\ v[n] = u[r] + m * (u[n] - u[r])
  <2>1. SumsScaled(v, b, a, n, r, m)
    BY <1>8, <1>9 DEF SumsScaled
  <2> QED
    BY <1>1, <1>2, <1>5, <2>1, SumsInStep
<1>11. v[n + 1] = v[n] + Worth(t, n + 1)
  <2>1. n + 1 \in 1..(n + 1) /\ (n + 1) - 1 = n
    BY <1>1
  <2> QED
    BY <1>3, <1>6, <2>1 DEF IsSum
<1>12. u[r] \in Nat /\ u[n] \in Nat
  BY <1>1, <1>2 DEF IsSum
<1> QED
  BY <1>10, <1>11, <1>12 DEF n, u, v

\* What the loop has read of a text, at any time.
Reckoned(text, sum, run) ==
  /\ LettersAreUnits(text)
  /\ \A i \in 1..Len(text) : ~IsAsciiDigit(text[i]) => i > 1 /\ IsAsciiDigit(text[i - 1])
  /\ \E r : /\ OpenFrom(text, r)
            /\ sum = UpTo(text)[r] /\ sum + run = UpTo(text)[Len(text)]

\* A digit multiplies the open run by ten, and adds itself.
LEMMA DigitReckons ==
  ASSUME NEW text, NEW t, NEW b, Extends(t, text, b), IsAsciiDigit(b),
         NEW sum \in Nat, NEW run \in Nat, Reckoned(text, sum, run)
  PROVE  Reckoned(t, sum, run * 10 + (b - 48))
<1> DEFINE n == Len(text)
<1>1. n \in Nat /\ Len(t) = n + 1 /\ t[n + 1] = b /\ \A i \in 1..n : t[i] = text[i]
  BY DEF Extends
<1>2. \A i \in 1..(n + 1) : i \in 1..n \/ i = n + 1
  BY <1>1
<1>3. PICK r : /\ OpenFrom(text, r)
               /\ sum = UpTo(text)[r] /\ sum + run = UpTo(text)[n]
  BY DEF Reckoned
<1>4. LettersAreUnits(text) /\ LettersAreUnits(t)
  BY <1>1, <1>2 DEF Reckoned, LettersAreUnits
<1>5. \A i \in 1..(n + 1) : ~IsAsciiDigit(t[i]) => i > 1 /\ IsAsciiDigit(t[i - 1])
  <2> SUFFICES ASSUME NEW i \in 1..n, ~IsAsciiDigit(t[i]) PROVE i > 1 /\ IsAsciiDigit(t[i - 1])
    BY <1>1, <1>2
  <2>1. i > 1 /\ IsAsciiDigit(text[i - 1])
    BY <1>1 DEF Reckoned
  <2>2. i - 1 \in 1..n
    BY <1>1, <2>1
  <2> QED
    BY <1>1, <2>1, <2>2
<1>6. OpenFrom(t, r)
  BY <1>1, <1>2, <1>3 DEF OpenFrom
<1>7. /\ UpTo(text)[r] \in Nat /\ UpTo(text)[n] \in Nat /\ UpTo(t)[r] = UpTo(text)[r]
      /\ UpTo(t)[n + 1] = UpTo(text)[r] + 10 * (UpTo(text)[n] - UpTo(text)[r]) + (b - 48)
  <2>1. 10 \in Nat
    OBVIOUS
  <2>2. /\ \A i \in 1..n : Worth(t, i) = IF i <= r THEN Worth(text, i) ELSE 10 * Worth(text, i)
        /\ Worth(t, n + 1) = b - 48
    BY <1>3, <1>4, DigitWorths, Zenon
  <2> QED
    BY <1>3, <1>4, <2>1, <2>2, SumsBehind
<1>8. b - 48 \in Nat
  BY DEF IsAsciiDigit
<1>9. UpTo(t)[r] = sum /\ UpTo(t)[n + 1] = sum + (run * 10 + (b - 48))
  <2>1. UpTo(t)[n + 1] = sum + 10 * ((sum + run) - sum) + (b - 48)
    BY <1>3, <1>7, Zenon
  <2>2. sum + 10 * ((sum + run) - sum) + (b - 48) = sum + (run * 10 + (b - 48))
    BY <1>8
  <2> QED
    BY <1>3, <1>7, <2>1, <2>2, Zenon
<1> QED
  BY <1>1, <1>4, <1>5, <1>6, <1>9 DEF Reckoned

\* A unit behind a digit closes the run.
LEMMA LetterReckons ==
  ASSUME NEW text, NEW t, NEW c \in UnitLetters, Extends(t, text, c), ~IsAsciiDigit(c),
         Len(text) > 0, IsAsciiDigit(text[Len(text)]),
         NEW sum \in Nat, NEW run \in Nat, Reckoned(text, sum, run)
  PROVE  Reckoned(t, sum + run * UnitSeconds(c), 0)
<1> DEFINE n == Len(text)
<1>1. n \in Nat /\ Len(t) = n + 1 /\ t[n + 1] = c /\ \A i \in 1..n : t[i] = text[i]
  BY DEF Extends
<1>2. \A i \in 1..(n + 1) : i \in 1..n \/ i = n + 1
  BY <1>1
<1>3. PICK r : /\ OpenFrom(text, r)
               /\ sum = UpTo(text)[r] /\ sum + run = UpTo(text)[n]
  BY DEF Reckoned
<1>4. LettersAreUnits(text) /\ LettersAreUnits(t)
  BY <1>1, <1>2 DEF Reckoned, LettersAreUnits
<1>5. \A i \in 1..(n + 1) : ~IsAsciiDigit(t[i]) => i > 1 /\ IsAsciiDigit(t[i - 1])
  <2>1. ASSUME NEW i \in 1..n, ~IsAsciiDigit(t[i]) PROVE i > 1 /\ IsAsciiDigit(t[i - 1])
    <3>1. i > 1 /\ IsAsciiDigit(text[i - 1])
      BY <1>1, <2>1 DEF Reckoned
    <3>2. i - 1 \in 1..n
      BY <1>1, <3>1
    <3> QED
      BY <1>1, <3>1, <3>2
  <2>2. n + 1 > 1 /\ IsAsciiDigit(t[(n + 1) - 1])
    <3>1. n \in 1..n /\ (n + 1) - 1 = n
      BY <1>1
    <3> QED
      BY <1>1, <3>1
  <2> QED
    BY <1>2, <2>1, <2>2
<1>6. OpenFrom(t, n + 1)
  BY <1>1 DEF OpenFrom
<1> DEFINE m == UnitSeconds(c)
<1>7. m \in Nat
  BY SecondsAre
<1>8. /\ UpTo(text)[r] \in Nat /\ UpTo(text)[n] \in Nat
      /\ UpTo(t)[n + 1] = UpTo(text)[r] + m * (UpTo(text)[n] - UpTo(text)[r]) + 0
  <2>1. /\ \A i \in 1..n : Worth(t, i) = IF i <= r THEN Worth(text, i) ELSE m * Worth(text, i)
        /\ Worth(t, n + 1) = 0
    BY <1>3, <1>4, LetterWorths, Zenon
  <2> HIDE DEF m
  <2> QED
    BY <1>3, <1>4, <1>7, <2>1, SumsBehind
<1> HIDE DEF m
<1>9. UpTo(t)[n + 1] = sum + run * m
  <2>1. UpTo(t)[n + 1] = sum + m * ((sum + run) - sum) + 0
    BY <1>3, <1>8, Zenon
  <2>2. (sum + run) - sum = run
    OBVIOUS
  <2>3. sum + m * run + 0 = sum + run * m
    BY <1>7
  <2> QED
    BY <2>1, <2>2, <2>3, Zenon
<1>10. sum + run * m = (sum + run * m) + 0
  BY <1>7
<1> QED
  BY <1>1, <1>4, <1>5, <1>6, <1>9, <1>10 DEF Reckoned, m

Reading == phase \in {"segment", "number"}

\* What is read adds up, in words that hold it, and "number" is the phase
\* after a digit.
IInv ==
  /\ input \in Seq(Alphabet) /\ phase \in {"segment", "number", "done", "error"}
  /\ total \in 0..MaxWord /\ number \in 0..MaxWord /\ (phase = "segment" => number = 0)
  /\ Reading => /\ Reckoned(input, total, number)
                /\ (phase = "number") <=> (Len(input) > 0 /\ IsAsciiDigit(input[Len(input)]))
  /\ AcceptedIsExact
  /\ RefusedIsDue

\* What has been read is a duration, but for the empty text, and means the sum.
LEMMA ReckonedMeans ==
  ASSUME NEW text, Len(text) \in Nat, DOMAIN text = 1..Len(text),
         NEW sum \in Nat, NEW run \in Nat, Reckoned(text, sum, run)
  PROVE  Meaning(text) = sum + run /\ (text # <<>> /\ Len(text) > 0 => IsDuration(text))
<1>1. Meaning(text) = sum + run
  BY DEF Reckoned, Meaning
<1>2. ASSUME text # <<>>, Len(text) > 0 PROVE IsDuration(text)
  <2>1. 1 \in DigitPlaces(text)
    BY <1>2 DEF Reckoned, DigitPlaces
  <2>2. ASSUME NEW i \in DOMAIN text \ DigitPlaces(text)
        PROVE  text[i] \in UnitLetters /\ i - 1 \in DigitPlaces(text)
    <3>1. i \in 1..Len(text) /\ ~IsAsciiDigit(text[i])
      BY <2>2 DEF DigitPlaces
    <3>2. i > 1 /\ IsAsciiDigit(text[i - 1]) /\ text[i] \in UnitLetters
      BY <3>1 DEF Reckoned, LettersAreUnits
    <3>3. i - 1 \in 1..Len(text)
      BY <3>1, <3>2
    <3> QED
      BY <3>2, <3>3 DEF DigitPlaces
  <2> QED
    BY <1>2, <2>1, <2>2 DEF IsDuration
<1> QED
  BY <1>1, <1>2

\* A byte more.
LEMMA ReadExtends ==
  ASSUME input \in Seq(Alphabet), NEW b \in Alphabet, Read(b)
  PROVE  /\ input' \in Seq(Alphabet) /\ Extends(input', input, b)
         /\ Len(input) \in Nat /\ Len(input') = Len(input) + 1
         /\ DOMAIN input' = 1..Len(input') /\ input' # <<>>
<1>1. input' = Append(input, b)
  BY DEF Read
<1>2. /\ Append(input, b) \in Seq(Alphabet) /\ Len(Append(input, b)) = Len(input) + 1
      /\ \A i \in 1..(Len(input) + 1) : Append(input, b)[i] = IF i <= Len(input) THEN input[i] ELSE b
  BY AppendProperties
<1>3. Len(input) \in Nat
  BY LenProperties
<1>4. DOMAIN input' = 1..Len(input')
  BY <1>1, <1>2, LenProperties
<1>5. input' # <<>>
  BY <1>1, <1>2, <1>3
<1>6. /\ Append(input, b)[Len(input) + 1] = b
      /\ \A i \in 1..Len(input) : Append(input, b)[i] = input[i]
  BY <1>2, <1>3
<1> QED
  BY <1>1, <1>2, <1>3, <1>4, <1>5, <1>6 DEF Extends

\* A digit, that fits or not.
LEMMA DigitInv ==
  ASSUME MaxWord \in Nat, IInv, NEW b \in Alphabet, Digit(b)
  PROVE  IInv'
<1> DEFINE n == Len(input)
           more == number * 10 + (b - 48)
<1>1. IsAsciiDigit(b) /\ Read(b) /\ Reading
  BY DEF Digit, Read, Reading
<1>2. /\ input' \in Seq(Alphabet) /\ Extends(input', input, b)
      /\ n \in Nat /\ Len(input') = n + 1
      /\ DOMAIN input' = 1..Len(input') /\ input' # <<>>
  BY <1>1, ReadExtends DEF IInv
<1>3. total \in Nat /\ number \in Nat /\ Reckoned(input, total, number)
  BY <1>1 DEF IInv
<1>4. Reckoned(input', total, more)
  BY <1>1, <1>2, <1>3, DigitReckons
<1>5. b - 48 \in Nat /\ more \in Nat
  BY <1>1, <1>3 DEF IsAsciiDigit
<1>6. input'[n + 1] = b
  BY <1>2 DEF Extends
<1>7. CASE Fits(number * 10) /\ Fits(more)
  <2>1. phase' = "number" /\ number' = more /\ total' = total
    BY <1>7 DEF Digit
  <2>2. Len(input') > 0 /\ IsAsciiDigit(input'[Len(input')])
    BY <1>1, <1>2, <1>6
  <2> HIDE DEF more
  <2>3. more \in 0..MaxWord
    BY <1>5, <1>7 DEF Fits
  <2> QED
    BY <1>2, <1>3, <1>4, <1>5, <2>1, <2>2, <2>3 DEF IInv, Reading, AcceptedIsExact, RefusedIsDue
<1>8. CASE ~(Fits(number * 10) /\ Fits(more))
  <2>1. phase' = "error" /\ number' = number /\ total' = total
    BY <1>8 DEF Digit, Error
  <2>2. Meaning(input') = total + more
    BY <1>2, <1>3, <1>4, <1>5, ReckonedMeans
  <2>3. total + more > MaxWord
    BY <1>3, <1>5, <1>8 DEF Fits
  <2> HIDE DEF more
  <2> QED
    BY <1>2, <1>3, <2>1, <2>2, <2>3 DEF IInv, Reading, AcceptedIsExact, RefusedIsDue
<1> QED
  BY <1>7, <1>8

\* A letter, that is due, a unit and fits, or not.
LEMMA LetterInv ==
  ASSUME MaxWord \in Nat, IInv, NEW c \in Alphabet, Letter(c)
  PROVE  IInv'
<1> DEFINE n == Len(input)
           m == UnitSeconds(c)
<1>1. ~IsAsciiDigit(c) /\ Read(c) /\ Reading
  BY DEF Letter, Read, Reading
<1>2. /\ input' \in Seq(Alphabet) /\ Extends(input', input, c)
      /\ n \in Nat /\ Len(input') = n + 1
      /\ DOMAIN input' = 1..Len(input') /\ input' # <<>>
  BY <1>1, ReadExtends DEF IInv
<1>3. /\ total \in Nat /\ number \in Nat /\ Reckoned(input, total, number)
      /\ (phase = "number") <=> (n > 0 /\ IsAsciiDigit(input[n]))
  BY <1>1 DEF IInv
<1>4. input'[n + 1] = c /\ \A i \in 1..n : input'[i] = input[i]
  BY <1>2 DEF Extends
<1>5. CASE phase = "number" /\ c \in UnitLetters
  <2>1. m \in Nat
    BY <1>5, SecondsAre
  <2>2. Reckoned(input', total + number * m, 0)
    BY <1>1, <1>2, <1>3, <1>5, LetterReckons
  <2> HIDE DEF m
  <2>3. number * m \in Nat /\ total + number * m \in Nat /\ 0 \in Nat
    BY <1>3, <2>1
  <2>4. CASE Fits(number * m) /\ Fits(total + number * m)
    <3>1. phase' = "segment" /\ number' = 0 /\ total' = total + number * m
      BY <1>5, <2>4 DEF Letter, m
    <3>2. ~(Len(input') > 0 /\ IsAsciiDigit(input'[Len(input')]))
      BY <1>1, <1>2, <1>4
    <3>3. total + number * m \in 0..MaxWord
      BY <2>3, <2>4 DEF Fits
    <3> QED
      BY <1>2, <2>2, <2>3, <3>1, <3>2, <3>3 DEF IInv, Reading, AcceptedIsExact, RefusedIsDue
  <2>5. CASE ~(Fits(number * m) /\ Fits(total + number * m))
    <3>1. phase' = "error" /\ number' = number /\ total' = total
      BY <1>5, <2>5 DEF Letter, Error, m
    <3>2. Meaning(input') = (total + number * m) + 0
      BY <1>2, <2>2, <2>3, ReckonedMeans
    <3>3. (total + number * m) + 0 > MaxWord
      BY <1>3, <2>3, <2>5 DEF Fits
    <3> QED
      BY <1>2, <1>3, <3>1, <3>2, <3>3 DEF IInv, Reading, AcceptedIsExact, RefusedIsDue
  <2> QED
    BY <2>4, <2>5
<1>6. CASE ~(phase = "number" /\ c \in UnitLetters)
  <2>1. phase' = "error" /\ number' = number /\ total' = total
    BY <1>6 DEF Letter, Error
  <2>2. n + 1 \in DOMAIN input' /\ n + 1 \notin DigitPlaces(input')
    BY <1>1, <1>2, <1>4 DEF DigitPlaces
  <2>3. ~IsDuration(input')
    <3>1. CASE c \notin UnitLetters
      BY <1>4, <2>2, <3>1 DEF IsDuration
    <3>2. CASE phase # "number"
      <4>1. n = 0 \/ ~IsAsciiDigit(input[n])
        BY <1>2, <1>3, <3>2
      <4>2. (n + 1) - 1 = n /\ n \notin DigitPlaces(input')
        <5>1. CASE n = 0
          BY <1>2, <5>1 DEF DigitPlaces
        <5>2. CASE n # 0
          <6>1. n \in 1..n /\ (n + 1) - 1 = n
            BY <1>2, <5>2
          <6> QED
            BY <1>4, <4>1, <5>2, <6>1 DEF DigitPlaces
        <5> QED
          BY <5>1, <5>2
      <4> QED
        BY <2>2, <4>2 DEF IsDuration
    <3> QED
      BY <1>6, <3>1, <3>2
  <2> QED
    BY <1>2, <1>3, <2>1, <2>3 DEF IInv, Reading, AcceptedIsExact, RefusedIsDue
<1> QED
  BY <1>5, <1>6

\* The end of the text.
LEMMA EndInv ==
  ASSUME MaxWord \in Nat, IInv, End
  PROVE  IInv'
<1>1. Reading /\ input' = input
  BY DEF End, Reading
<1>2. /\ total \in Nat /\ number \in Nat /\ Reckoned(input, total, number)
      /\ input \in Seq(Alphabet)
  BY <1>1 DEF IInv
<1>3. Len(input) \in Nat /\ DOMAIN input = 1..Len(input) /\ (input # <<>> => Len(input) > 0)
  BY <1>2, LenProperties, EmptySeq
<1>4. Meaning(input) = total + number /\ (input # <<>> => IsDuration(input))
  BY <1>2, <1>3, ReckonedMeans
<1>5. CASE input = <<>> \/ (phase = "number" /\ ~Fits(total + number))
  <2>1. phase' = "error" /\ number' = number /\ total' = total
    BY <1>5 DEF End, Error
  <2>2. ~IsDuration(input) \/ Meaning(input) > MaxWord
    <3>1. CASE input = <<>>
      BY <3>1 DEF IsDuration
    <3>2. CASE ~Fits(total + number)
      BY <1>2, <1>4, <3>2 DEF Fits
    <3> QED
      BY <1>5, <3>1, <3>2
  <2> QED
    BY <1>1, <1>2, <2>1, <2>2 DEF IInv, Reading, AcceptedIsExact, RefusedIsDue
<1>6. CASE ~(input = <<>> \/ (phase = "number" /\ ~Fits(total + number)))
  <2>1. phase' = "done" /\ number' = 0 /\ total' = total + number
    BY <1>6 DEF End
  <2>2. total + number \in 0..MaxWord
    <3>1. CASE phase = "number"
      BY <1>2, <1>6, <3>1 DEF Fits
    <3>2. CASE phase # "number"
      BY <1>1, <3>2 DEF IInv, Reading
    <3> QED
      BY <3>1, <3>2
  <2> QED
    BY <1>1, <1>2, <1>4, <1>6, <2>1, <2>2 DEF IInv, Reading, AcceptedIsExact, RefusedIsDue
<1> QED
  BY <1>5, <1>6

\* Every step of the loop keeps the account.
LEMMA StepInv ==
  ASSUME MaxWord \in Nat, IInv, [DurationNext]_durationVars
  PROVE  IInv'
<1>1. CASE \E b \in Alphabet : Digit(b) \/ Letter(b)
  BY <1>1, DigitInv, LetterInv
<1>2. CASE End
  BY <1>2, EndInv
<1>3. CASE UNCHANGED durationVars
  BY <1>3 DEF IInv, Reading, AcceptedIsExact, RefusedIsDue, durationVars
<1> QED
  BY <1>1, <1>2, <1>3 DEF DurationNext

\* The account is right before the first byte.
LEMMA InitInv ==
  ASSUME MaxWord \in Nat, DurationInit
  PROVE  IInv
<1>1. input = <<>> /\ total = 0 /\ number = 0 /\ phase = "segment"
  BY DEF DurationInit
<1>2. Len(input) = 0 /\ input \in Seq(Alphabet)
  BY <1>1
<1>3. IsSum(UpTo(input), Worths(input), Len(input))
  BY <1>2, UpToIs
<1>4. UpTo(input)[0] = 0
  BY <1>3 DEF IsSum
<1>5. OpenFrom(input, 0)
  BY <1>2 DEF OpenFrom
<1>6. Reckoned(input, total, number)
  BY <1>1, <1>2, <1>4, <1>5 DEF Reckoned, LettersAreUnits
<1> QED
  BY <1>1, <1>2, <1>6 DEF IInv, Reading, AcceptedIsExact, RefusedIsDue

\* The loop of parse_duration keeps the account, for every text and any width
\* of word.
THEOREM LoopKeepsAccount == DurationSpec => []IInv
<1>1. DurationInit => IInv
  BY WordAssumption, InitInv
<1>2. IInv /\ [DurationNext]_durationVars => IInv'
  BY WordAssumption, StepInv
<1> QED
  BY <1>1, <1>2, PTL DEF DurationSpec

\* What parse_duration accepts is a duration, and it returns its length.
THEOREM AcceptedDurations == DurationSpec => []AcceptedIsExact
<1>1. IInv => AcceptedIsExact
  BY DEF IInv
<1> QED
  BY <1>1, LoopKeepsAccount, PTL

\* What parse_duration refuses is not a duration, or does not fit a word.
THEOREM RefusedDurations == DurationSpec => []RefusedIsDue
<1>1. IInv => RefusedIsDue
  BY DEF IInv
<1> QED
  BY <1>1, LoopKeepsAccount, PTL
===============================================================================
