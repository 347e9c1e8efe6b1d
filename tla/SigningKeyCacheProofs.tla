------------------------ MODULE SigningKeyCacheProofs ------------------------
(***************************************************************************)
(* What SigningKeyCache promises for every number of threads, every set of *)
(* scopes and every capacity.  The first part says what the operations on  *)
(* the queue do to a tidy one, the second proves an inductive invariant,   *)
(* the third the safety properties and the refinement of KeyService, and   *)
(* the last what the queue retains, with the history variables.            *)
(***************************************************************************)
EXTENDS SigningKeyCacheHistory, SequenceTheorems, TLAPS

-------------------------------------------------------------------------------
\* A queue of entries with no scope twice and every key under its own scope.
Tidy(c) ==
  /\ c \in Seq(Entries)
  /\ \A i, j \in DOMAIN c : c[i].scope = c[j].scope => i = j
  /\ \A i \in DOMAIN c : c[i].key = Derive(c[i].scope)

\* A tidy queue is a sequence over 1..Len.
LEMMA TidyIsQueue ==
  ASSUME NEW c, Tidy(c)
  PROVE  c \in Seq(Entries) /\ Len(c) \in Nat /\ DOMAIN c = 1..Len(c)
<1>1. c \in Seq(Entries)
  BY DEF Tidy
<1> QED
  BY <1>1, LenProperties

\* Comparing date and region is comparing scopes.
LEMMA MatchesScope ==
  ASSUME NEW e \in Entries, NEW s \in Scopes
  PROVE  Matches(e, s) <=> e.scope = s
BY DEF Matches, Entries, Scopes

LEMMA EntryTyped ==
  ASSUME NEW s \in Scopes
  PROVE  Entry(s) \in Entries /\ Entry(s).scope = s /\ Entry(s).key = Derive(s)
BY DEF Entry, Entries

\* Elements of a queue after push_front.
LEMMA PushFrontElements ==
  ASSUME NEW S, NEW c \in Seq(S), NEW e \in S
  PROVE  /\ PushFront(c, e) \in Seq(S)
         /\ Len(PushFront(c, e)) = Len(c) + 1
         /\ PushFront(c, e)[1] = e
         /\ \A i \in 2..(Len(c) + 1) : PushFront(c, e)[i] = c[i - 1]
<1>1. <<e>> \in Seq(S) /\ Len(<<e>>) = 1 /\ <<e>>[1] = e
  OBVIOUS
<1>2. Len(c) \in Nat
  BY LenProperties
<1>3. /\ <<e>> \o c \in Seq(S)
      /\ Len(<<e>> \o c) = 1 + Len(c)
      /\ \A i \in 1..(1 + Len(c)) : (<<e>> \o c)[i] = IF i <= 1 THEN <<e>>[i] ELSE c[i - 1]
  BY <1>1, ConcatProperties DEF PushFront
<1> QED
  BY <1>1, <1>2, <1>3 DEF PushFront

\* Elements of a queue after pop_back.
LEMMA PopBackElements ==
  ASSUME NEW S, NEW c \in Seq(S), Len(c) > 0
  PROVE  /\ PopBack(c) \in Seq(S)
         /\ Len(PopBack(c)) = Len(c) - 1
         /\ \A i \in 1..(Len(c) - 1) : PopBack(c)[i] = c[i]
<1>1. Len(c) \in Nat
  BY LenProperties
<1>2. \A i \in 1..(Len(c) - 1) : c[i] \in S
  BY <1>1, ElementOfSeq
<1> DEFINE n == Len(c) - 1
<1>3. /\ SubSeq(c, 1, n) \in Seq(S)
      /\ Len(SubSeq(c, 1, n)) = IF 1 <= n THEN n - 1 + 1 ELSE 0
      /\ \A i \in 1..(n - 1 + 1) : SubSeq(c, 1, n)[i] = c[1 + i - 1]
  <2>1. n \in Int /\ \A i \in 1..n : c[i] \in S
    BY <1>1, <1>2
  <2> HIDE DEF n
  <2> QED
    BY <2>1, SubSeqProperties
<1>4. n - 1 + 1 = n /\ n \in Nat /\ \A i \in 1..n : 1 + i - 1 = i
  BY <1>1
<1> QED
  BY <1>3, <1>4 DEF PopBack

\* Elements of a queue after remove(position) and push_front: the entry at i
\* comes first, those before it move back by one, the rest stay.
LEMMA MoveToFrontElements ==
  ASSUME NEW S, NEW c \in Seq(S), NEW i \in 1..Len(c)
  PROVE  /\ MoveToFront(c, i) \in Seq(S)
         /\ Len(MoveToFront(c, i)) = Len(c)
         /\ MoveToFront(c, i)[1] = c[i]
         /\ \A j \in 2..Len(c) : MoveToFront(c, i)[j] = IF j <= i THEN c[j - 1] ELSE c[j]
<1> DEFINE before == SubSeq(c, 1, i - 1)
           after  == SubSeq(c, i + 1, Len(c))
           rest   == before \o after
<1>1. Len(c) \in Nat /\ \A j \in 1..Len(c) : c[j] \in S
  BY LenProperties, ElementOfSeq
<1>2. /\ before \in Seq(S)
      /\ Len(before) = i - 1
      /\ \A j \in 1..(i - 1) : before[j] = c[j]
  BY <1>1, SubSeqProperties
<1>3. /\ after \in Seq(S)
      /\ Len(after) = Len(c) - i
      /\ \A j \in 1..(Len(c) - i) : after[j] = c[i + j]
  <2>1. /\ after \in Seq(S)
        /\ Len(after) = IF i + 1 <= Len(c) THEN Len(c) - (i + 1) + 1 ELSE 0
        /\ \A j \in 1..(Len(c) - (i + 1) + 1) : after[j] = c[i + 1 + j - 1]
    BY <1>1, SubSeqProperties
  <2> QED
    BY <1>1, <2>1
<1> HIDE DEF before, after
<1>4. /\ rest \in Seq(S)
      /\ Len(rest) = Len(c) - 1
      /\ \A j \in 1..(Len(c) - 1) : rest[j] = IF j < i THEN c[j] ELSE c[j + 1]
  <2>1. /\ rest \in Seq(S)
        /\ Len(rest) = Len(before) + Len(after)
        /\ \A j \in 1..(Len(before) + Len(after)) :
              rest[j] = IF j <= Len(before) THEN before[j] ELSE after[j - Len(before)]
    BY <1>2, <1>3, ConcatProperties
  <2>2. Len(before) + Len(after) = Len(c) - 1
    BY <1>1, <1>2, <1>3
  <2>3. ASSUME NEW j \in 1..(Len(c) - 1), j < i
        PROVE  rest[j] = c[j]
    BY <1>1, <1>2, <2>1, <2>2, <2>3
  <2>4. ASSUME NEW j \in 1..(Len(c) - 1), ~(j < i)
        PROVE  rest[j] = c[j + 1]
    <3>1. j - (i - 1) \in 1..(Len(c) - i) /\ i + (j - (i - 1)) = j + 1
      BY <1>1, <2>4
    <3>2. rest[j] = after[j - (i - 1)]
      BY <1>1, <1>2, <2>1, <2>2, <2>4
    <3> QED
      BY <1>3, <3>1, <3>2
  <2> QED
    BY <2>1, <2>2, <2>3, <2>4
<1>5. MoveToFront(c, i) = PushFront(rest, c[i])
  BY DEF MoveToFront, RemoveAt, rest, before, after
<1> HIDE DEF rest
<1> DEFINE first == c[i]
           d     == PushFront(rest, first)
<1>6. /\ d \in Seq(S) /\ Len(d) = Len(rest) + 1 /\ d[1] = first
      /\ \A j \in 2..(Len(rest) + 1) : d[j] = rest[j - 1]
  <2>1. rest \in Seq(S)
    BY <1>4
  <2>2. first \in S
    BY <1>1
  <2> HIDE DEF first
  <2> QED
    BY <2>1, <2>2, PushFrontElements
<1> HIDE DEF d
<1>7. d \in Seq(S) /\ Len(d) = Len(c) /\ d[1] = c[i]
  BY <1>1, <1>4, <1>6
<1>8. ASSUME NEW j \in 2..Len(c)
      PROVE  d[j] = IF j <= i THEN c[j - 1] ELSE c[j]
  <2>1. j - 1 \in 1..(Len(c) - 1) /\ j \in 2..(Len(rest) + 1) /\ j - 1 + 1 = j
    BY <1>1, <1>4
  <2>2. d[j] = rest[j - 1]
    BY <1>6, <2>1
  <2>3. rest[j - 1] = IF j - 1 < i THEN c[j - 1] ELSE c[j - 1 + 1]
    BY <1>4, <2>1
  <2>4. j - 1 < i <=> j <= i
    BY <2>1
  <2> QED
    BY <2>1, <2>2, <2>3, <2>4
<1>9. MoveToFront(c, i) = d
  BY <1>5 DEF d
<1> QED
  BY <1>7, <1>8, <1>9

\* Inserting the entry of a scope that is not held keeps a queue tidy.
LEMMA PushFrontTidy ==
  ASSUME NEW c, Tidy(c), NEW s \in Scopes, ~Holds(c, s)
  PROVE  Tidy(PushFront(c, Entry(s))) /\ Len(PushFront(c, Entry(s))) = Len(c) + 1
<1>1. Entry(s) \in Entries /\ Entry(s).scope = s /\ Entry(s).key = Derive(s)
  BY EntryTyped
<1>2. c \in Seq(Entries) /\ Len(c) \in Nat /\ DOMAIN c = 1..Len(c)
  BY TidyIsQueue
<1>3. \A i \in 1..Len(c) : c[i].scope # s
  BY <1>2, ElementOfSeq, MatchesScope DEF Holds
<1> DEFINE d == PushFront(c, Entry(s))
<1>4. /\ d \in Seq(Entries) /\ Len(d) = Len(c) + 1 /\ DOMAIN d = 1..(Len(c) + 1)
      /\ d[1] = Entry(s) /\ \A i \in 2..(Len(c) + 1) : d[i] = c[i - 1]
  BY <1>1, <1>2, PushFrontElements, LenProperties
<1> HIDE DEF d
<1>5. ASSUME NEW i \in DOMAIN d, NEW j \in DOMAIN d, d[i].scope = d[j].scope
      PROVE  i = j
  <2>1. \A k \in DOMAIN d : k = 1 \/ (k \in 2..(Len(c) + 1) /\ k - 1 \in DOMAIN c)
    BY <1>2, <1>4
  <2>2. \A k \in 2..(Len(c) + 1) : d[k].scope = c[k - 1].scope /\ d[k].scope # s
    <3> TAKE k \in 2..(Len(c) + 1)
    <3>1. d[k] = c[k - 1] /\ k - 1 \in 1..Len(c)
      BY <1>2, <1>4
    <3> QED
      BY <3>1, <1>3
  <2>3. d[1].scope = s
    BY <1>1, <1>4
  <2>4. CASE i = 1 \/ j = 1
    BY <1>5, <2>1, <2>2, <2>3, <2>4
  <2>5. CASE i # 1 /\ j # 1
    <3>1. i - 1 \in DOMAIN c /\ j - 1 \in DOMAIN c
      BY <2>1, <2>5
    <3>2. c[i - 1].scope = c[j - 1].scope
      BY <1>5, <2>1, <2>2, <2>5
    <3>3. i - 1 = j - 1
      BY <3>1, <3>2 DEF Tidy
    <3> QED
      BY <3>3, <1>2, <1>4
  <2> QED
    BY <2>4, <2>5
<1>6. ASSUME NEW i \in DOMAIN d
      PROVE  d[i].key = Derive(d[i].scope)
  BY <1>1, <1>2, <1>4 DEF Tidy
<1> QED
  BY <1>4, <1>5, <1>6 DEF Tidy, d

\* Evicting from a tidy queue keeps it tidy.
LEMMA PopBackTidy ==
  ASSUME NEW c, Tidy(c), Len(c) > 0
  PROVE  Tidy(PopBack(c)) /\ Len(PopBack(c)) = Len(c) - 1
<1>1. c \in Seq(Entries) /\ Len(c) \in Nat /\ DOMAIN c = 1..Len(c)
  BY TidyIsQueue
<1> DEFINE d == PopBack(c)
<1>2. /\ d \in Seq(Entries) /\ Len(d) = Len(c) - 1
      /\ \A i \in 1..(Len(c) - 1) : d[i] = c[i]
  <2> HIDE DEF d
  <2>1. c \in Seq(Entries) /\ Len(c) > 0
    BY <1>1
  <2> QED
    BY <2>1, PopBackElements DEF d
<1> HIDE DEF d
<1>3. DOMAIN d = 1..(Len(c) - 1)
  BY <1>2, LenProperties
<1>4. \A i \in DOMAIN d : i \in DOMAIN c /\ d[i] = c[i]
  BY <1>1, <1>2, <1>3
<1> QED
  BY <1>2, <1>4 DEF Tidy, d

\* Promoting an entry of a tidy queue permutes it.
LEMMA MoveToFrontTidy ==
  ASSUME NEW c, Tidy(c), NEW i \in DOMAIN c
  PROVE  Tidy(MoveToFront(c, i)) /\ Len(MoveToFront(c, i)) = Len(c)
<1>1. c \in Seq(Entries) /\ Len(c) \in Nat /\ DOMAIN c = 1..Len(c)
  BY TidyIsQueue
<1>2. i \in 1..Len(c)
  BY <1>1
<1> DEFINE d == MoveToFront(c, i)
           From(j) == IF j = 1 THEN i ELSE IF j <= i THEN j - 1 ELSE j
<1> HIDE DEF From
<1>3. /\ d \in Seq(Entries) /\ Len(d) = Len(c) /\ d[1] = c[i]
      /\ \A j \in 2..Len(c) : d[j] = IF j <= i THEN c[j - 1] ELSE c[j]
  <2> HIDE DEF d
  <2>1. c \in Seq(Entries)
    BY <1>1
  <2> QED
    BY <2>1, <1>2, MoveToFrontElements DEF d
<1> HIDE DEF d
<1>4. DOMAIN d = 1..Len(c)
  BY <1>3, LenProperties
<1>5. \A j \in DOMAIN d : From(j) \in DOMAIN c /\ d[j] = c[From(j)]
  BY <1>1, <1>2, <1>3, <1>4 DEF From
<1>6. \A j, k \in DOMAIN d : From(j) = From(k) => j = k
  BY <1>1, <1>2, <1>4 DEF From
<1>7. ASSUME NEW j \in DOMAIN d, NEW k \in DOMAIN d, d[j].scope = d[k].scope
      PROVE  j = k
  <2>1. From(j) \in DOMAIN c /\ From(k) \in DOMAIN c
    BY <1>5
  <2>2. c[From(j)].scope = c[From(k)].scope
    BY <1>5, <1>7
  <2>3. From(j) = From(k)
    BY <2>1, <2>2 DEF Tidy
  <2> QED
    BY <2>3, <1>6
<1>8. ASSUME NEW j \in DOMAIN d
      PROVE  d[j].key = Derive(d[j].scope)
  BY <1>5 DEF Tidy
<1> QED
  BY <1>3, <1>7, <1>8 DEF Tidy, d

-------------------------------------------------------------------------------
\* The queue is only written by the holder of the write lock, and a thread's
\* place in the function says which lock it holds.
LockInv ==
  /\ writer # None => readers = {}
  /\ \A t \in Threads : pc[t] = "lookup" <=> t \in readers
  /\ \A t \in Threads : pc[t] \in {"recheck", "promote", "evict"} <=> writer = t

\* Only the thread that has just inserted can see one entry too many.
QueueInv ==
  /\ Tidy(cache)
  /\ \/ Len(cache) <= Capacity
     \/ Len(cache) = Capacity + 1 /\ \E t \in Threads : writer = t /\ pc[t] = "evict"

\* A thread in the function has a scope, and its answer is the key of it.
CallInv ==
  \A t \in Threads :
    /\ pc[t] # "idle" => req[t] \in Scopes
    /\ pc[t] \in {"evict", "done"} => answer[t] = Derive(req[t])

IInv == TypeOK /\ LockInv /\ QueueInv /\ CallInv /\ PositionStillValid

\* Where a lookup ends, it ends at an entry that holds the key asked for.
LEMMA PositionHoldsKey ==
  ASSUME NEW c, Tidy(c), NEW s \in Scopes, NEW i \in DOMAIN c, Matches(c[i], s)
  PROVE  c[i] \in Entries /\ c[i].scope = s /\ c[i].key = Derive(s)
<1>1. c[i] \in Entries
  BY ElementOfSeq, LenProperties DEF Tidy
<1> QED
  BY <1>1, MatchesScope DEF Tidy

LEMMA InitInv == Init => IInv
<1> SUFFICES ASSUME Init PROVE IInv
  OBVIOUS
<1>1. <<>> \in Seq(Entries) /\ Len(<<>>) = 0 /\ DOMAIN <<>> = {}
  OBVIOUS
<1>2. TypeOK
  BY <1>1 DEF Init, TypeOK, Labels
<1>3. LockInv
  BY NoneAssumption DEF Init, LockInv
<1>4. QueueInv
  BY <1>1, CapacityAssumption DEF Init, QueueInv, Tidy
<1>5. CallInv /\ PositionStillValid
  BY DEF Init, CallInv, PositionStillValid
<1> QED
  BY <1>2, <1>3, <1>4, <1>5 DEF IInv

\* Steps that take or give up a lock, or start or end a call, leave the queue.
LEMMA LockStepInv ==
  ASSUME IInv, NEW t \in Threads,
         (\E s \in Scopes : Call(t, s)) \/ ReadLock(t) \/ ReadMiss(t)
           \/ WriteLock(t) \/ Finish(t) \/ Return(t)
  PROVE  IInv'
<1> USE DEF IInv
<1>1. CASE \E s \in Scopes : Call(t, s)
  <2>1. TypeOK' /\ CallInv'
    BY <1>1 DEF Call, Goto, TypeOK, Labels, CallInv
  <2>2. LockInv'
    BY <1>1 DEF Call, Goto, TypeOK, LockInv
  <2>3. QueueInv' /\ PositionStillValid'
    BY <1>1 DEF Call, Goto, TypeOK, LockInv, QueueInv, PositionStillValid
  <2> QED
    BY <2>1, <2>2, <2>3
<1>2. CASE ReadLock(t)
  <2>1. TypeOK' /\ CallInv'
    BY <1>2 DEF ReadLock, Goto, TypeOK, Labels, CallInv
  <2>2. LockInv'
    BY <1>2 DEF ReadLock, Goto, TypeOK, LockInv
  <2>3. QueueInv' /\ PositionStillValid'
    BY <1>2 DEF ReadLock, Goto, TypeOK, LockInv, QueueInv, PositionStillValid
  <2> QED
    BY <2>1, <2>2, <2>3
<1>3. CASE ReadMiss(t)
  <2>1. TypeOK' /\ CallInv'
    BY <1>3 DEF ReadMiss, Goto, TypeOK, Labels, CallInv
  <2>2. LockInv'
    BY <1>3 DEF ReadMiss, Goto, TypeOK, LockInv
  <2>3. QueueInv' /\ PositionStillValid'
    BY <1>3 DEF ReadMiss, Goto, TypeOK, LockInv, QueueInv, PositionStillValid
  <2> QED
    BY <2>1, <2>2, <2>3
<1>4. CASE WriteLock(t)
  <2>1. TypeOK' /\ CallInv'
    BY <1>4 DEF WriteLock, Goto, TypeOK, Labels, CallInv
  <2>2. LockInv'
    BY <1>4, NoneAssumption DEF WriteLock, Goto, TypeOK, LockInv
  <2>3. QueueInv' /\ PositionStillValid'
    BY <1>4, NoneAssumption DEF WriteLock, Goto, TypeOK, LockInv, QueueInv, PositionStillValid
  <2> QED
    BY <2>1, <2>2, <2>3
<1>5. CASE Finish(t)
  <2>1. TypeOK' /\ CallInv'
    BY <1>5 DEF Finish, Goto, TypeOK, Labels, CallInv
  <2>2. LockInv'
    BY <1>5, NoneAssumption DEF Finish, Goto, TypeOK, LockInv
  <2>3. QueueInv' /\ PositionStillValid'
    BY <1>5 DEF Finish, Goto, TypeOK, QueueInv, PositionStillValid
  <2> QED
    BY <2>1, <2>2, <2>3
<1>6. CASE Return(t)
  <2>1. TypeOK' /\ CallInv'
    BY <1>6 DEF Return, Goto, TypeOK, Labels, CallInv
  <2>2. LockInv'
    BY <1>6 DEF Return, Goto, TypeOK, LockInv
  <2>3. QueueInv' /\ PositionStillValid'
    BY <1>6 DEF Return, Goto, TypeOK, LockInv, QueueInv, PositionStillValid
  <2> QED
    BY <2>1, <2>2, <2>3
<1> QED
  BY <1>1, <1>2, <1>3, <1>4, <1>5, <1>6

\* A hit under the read lock hands out the key and leaves the queue.
LEMMA ReadHitInv ==
  ASSUME IInv, NEW t \in Threads, ReadHit(t)
  PROVE  IInv'
<1> USE DEF IInv
<1>1. PICK i \in DOMAIN cache : Matches(cache[i], req[t]) /\ Reply(t, cache[i].key)
  BY DEF ReadHit, IsPosition
<1>2. req[t] \in Scopes /\ Tidy(cache)
  BY DEF ReadHit, CallInv, QueueInv
<1>3. cache[i].key = Derive(req[t])
  BY <1>1, <1>2, PositionHoldsKey
<1>4. TypeOK' /\ CallInv'
  BY <1>1, <1>2, <1>3 DEF ReadHit, Goto, Reply, TypeOK, Labels, CallInv
<1>5. LockInv'
  BY DEF ReadHit, Goto, TypeOK, LockInv
<1>6. QueueInv' /\ PositionStillValid'
  BY DEF ReadHit, Goto, TypeOK, LockInv, QueueInv, PositionStillValid
<1> QED
  BY <1>4, <1>5, <1>6

\* The re-check writes down a position nobody but the writer can disturb.
LEMMA WriteHitInv ==
  ASSUME IInv, NEW t \in Threads, WriteHit(t)
  PROVE  IInv'
<1> USE DEF IInv
<1>1. PICK i \in DOMAIN cache : Matches(cache[i], req[t]) /\ slot' = [slot EXCEPT ![t] = i]
  BY DEF WriteHit, IsPosition
<1>2. DOMAIN cache \subseteq Nat
  BY LenProperties DEF TypeOK
<1>3. TypeOK' /\ CallInv'
  BY <1>1, <1>2 DEF WriteHit, Goto, TypeOK, Labels, CallInv
<1>4. LockInv'
  BY DEF WriteHit, Goto, TypeOK, LockInv
<1>5. QueueInv'
  BY DEF WriteHit, Goto, TypeOK, LockInv, QueueInv
<1>6. PositionStillValid'
  BY <1>1 DEF WriteHit, Goto, TypeOK, PositionStillValid
<1> QED
  BY <1>3, <1>4, <1>5, <1>6

\* Promotion moves the entry of the thread's scope and no other thread is
\* waiting to use a position of the old queue.
LEMMA PromoteInv ==
  ASSUME IInv, NEW t \in Threads, Promote(t)
  PROVE  IInv'
<1> USE DEF IInv
<1> DEFINE i == slot[t]
<1>1. i \in DOMAIN cache /\ Matches(cache[i], req[t]) /\ req[t] \in Scopes /\ Tidy(cache)
  BY DEF Promote, PositionStillValid, CallInv, QueueInv
<1>2. cache[i].key = Derive(req[t])
  BY <1>1, PositionHoldsKey
<1>3. Tidy(cache') /\ Len(cache') = Len(cache)
  BY <1>1, MoveToFrontTidy DEF Promote
<1>4. TypeOK' /\ CallInv'
  BY <1>1, <1>2, <1>3 DEF Promote, Goto, Reply, TypeOK, Labels, CallInv, Tidy
<1>5. LockInv'
  BY NoneAssumption DEF Promote, Goto, TypeOK, LockInv
<1>6. QueueInv'
  BY <1>3 DEF Promote, Goto, TypeOK, LockInv, QueueInv
<1>7. PositionStillValid'
  BY DEF Promote, Goto, TypeOK, LockInv, PositionStillValid
<1> QED
  BY <1>4, <1>5, <1>6, <1>7

\* The insertion after a confirmed miss keeps scopes apart.
LEMMA WriteMissInv ==
  ASSUME IInv, NEW t \in Threads, WriteMiss(t)
  PROVE  IInv'
<1> USE DEF IInv
<1>1. req[t] \in Scopes /\ Tidy(cache) /\ ~Holds(cache, req[t])
  BY DEF WriteMiss, CallInv, QueueInv
<1>2. Tidy(cache') /\ Len(cache') = Len(cache) + 1
  BY <1>1, PushFrontTidy DEF WriteMiss
<1>3. TypeOK' /\ CallInv'
  BY <1>1, <1>2 DEF WriteMiss, Goto, Reply, TypeOK, Labels, CallInv, Tidy
<1>4. LockInv'
  BY DEF WriteMiss, Goto, TypeOK, LockInv
<1>5. Len(cache) <= Capacity /\ Len(cache) \in Nat
  BY LenProperties DEF WriteMiss, QueueInv, LockInv, TypeOK
<1>6. writer' = t /\ pc'[t] = "evict"
  BY DEF WriteMiss, Goto, TypeOK, LockInv
<1>7. QueueInv'
  BY <1>2, <1>5, <1>6, CapacityAssumption DEF QueueInv
<1>8. PositionStillValid'
  BY DEF WriteMiss, Goto, TypeOK, LockInv, PositionStillValid
<1> QED
  BY <1>3, <1>4, <1>7, <1>8

\* One turn of the eviction loop brings the queue back to its capacity.
LEMMA EvictInv ==
  ASSUME IInv, NEW t \in Threads, Evict(t)
  PROVE  IInv'
<1> USE DEF IInv
<1>1. Tidy(cache) /\ Len(cache) = Capacity + 1 /\ Len(cache) > 0
  BY CapacityAssumption, LenProperties DEF Evict, QueueInv, TypeOK
<1>2. Tidy(cache') /\ Len(cache') = Capacity
  BY <1>1, CapacityAssumption, PopBackTidy DEF Evict
<1>3. TypeOK' /\ CallInv' /\ LockInv'
  BY <1>2 DEF Evict, TypeOK, CallInv, LockInv, Tidy
<1>4. QueueInv'
  BY <1>2, CapacityAssumption DEF QueueInv
<1>5. PositionStillValid'
  BY DEF Evict, LockInv, PositionStillValid
<1> QED
  BY <1>3, <1>4, <1>5

LEMMA StepInv == IInv /\ [Next]_vars => IInv'
<1> SUFFICES ASSUME IInv, [Next]_vars PROVE IInv'
  OBVIOUS
<1>1. CASE UNCHANGED vars
  BY <1>1 DEF vars, IInv, TypeOK, LockInv, QueueInv, Tidy, CallInv, PositionStillValid
<1>2. ASSUME NEW t \in Threads, (\E s \in Scopes : Call(t, s)) \/ Step(t)
      PROVE  IInv'
  BY <1>2, LockStepInv, ReadHitInv, WriteHitInv, PromoteInv, WriteMissInv, EvictInv
     DEF Step
<1> QED
  BY <1>1, <1>2 DEF Next

-------------------------------------------------------------------------------
THEOREM Inductive == Spec => []IInv
BY InitInv, StepInv, PTL DEF Spec

\* Every variable keeps its type.
THEOREM TypeCorrect == Spec => []TypeOK
<1>1. IInv => TypeOK
  BY DEF IInv
<1> QED
  BY <1>1, Inductive, PTL

\* The re-check under the write lock keeps two threads that missed the same
\* scope from both inserting it, however many threads and scopes there are.
THEOREM NoDuplicateScopes == Spec => []UniqueScopes
<1>1. IInv => UniqueScopes
  BY DEF IInv, QueueInv, Tidy, UniqueScopes
<1> QED
  BY <1>1, Inductive, PTL

\* No other thread ever sees more than SIGNING_CACHE_CAPACITY keys.
THEOREM CacheBounded == Spec => []Bounded
<1>1. IInv => Bounded
  <2> SUFFICES ASSUME IInv PROVE Bounded
    OBVIOUS
  <2>1. Len(cache) \in Nat
    BY LenProperties DEF IInv, TypeOK
  <2> QED
    BY <2>1, CapacityAssumption, NoneAssumption DEF IInv, QueueInv, Bounded
<1> QED
  BY <1>1, Inductive, PTL

\* remove(position).expect("cache position is valid") never panics and never
\* takes the key of another scope.
THEOREM PromoteIsSafe == Spec => []PositionStillValid
<1>1. IInv => PositionStillValid
  BY DEF IInv
<1> QED
  BY <1>1, Inductive, PTL

\* A cached key is always the one derived for the scope it is filed under.
THEOREM CacheIsSound == Spec => []CacheSound
<1>1. IInv => CacheSound
  BY DEF IInv, QueueInv, Tidy, CacheSound
<1> QED
  BY <1>1, Inductive, PTL
-------------------------------------------------------------------------------
\* The refinement: a thread is busy from its call until it has let every lock
\* go, and the step on which it becomes "done" is the one that serves it.
Phase  == [t \in Threads |-> IF pc[t] \in {"idle", "done"} THEN pc[t] ELSE "busy"]
Answer == [t \in Threads |-> IF pc[t] = "done" THEN answer[t] ELSE None]

\* A step by which thread t comes to hold its answer is Serve.
LEMMA Serves ==
  ASSUME IInv, NEW t \in Threads, pc[t] \notin {"idle", "done"},
         pc' = [pc EXCEPT ![t] = "done"], UNCHANGED req,
         \A u \in Threads \ {t} : answer'[u] = answer[u],
         answer'[t] = Derive(req[t])
  PROVE  Promise!Serve(t)
<1>1. Phase[t] = "busy"
  BY DEF Phase
<1>2. Phase' = [Phase EXCEPT ![t] = "done"]
  BY DEF Phase, IInv, TypeOK
<1>3. Answer' = [Answer EXCEPT ![t] = Derive(req[t])]
  BY DEF Answer, IInv, TypeOK
<1> QED
  BY <1>1, <1>2, <1>3 DEF Promise!Serve, Phase, Answer

\* A step by which thread t moves inside the function cannot be seen.
LEMMA Stutters ==
  ASSUME IInv, NEW t \in Threads, NEW label \in Labels \ {"idle", "done"},
         pc[t] \notin {"idle", "done"},
         pc' = [pc EXCEPT ![t] = label], UNCHANGED req,
         \A u \in Threads \ {t} : answer'[u] = answer[u]
  PROVE  UNCHANGED Promise!vars
<1>1. Phase' = Phase
  BY DEF Phase, IInv, TypeOK
<1>2. Answer' = Answer
  BY DEF Answer, IInv, TypeOK
<1> QED
  BY <1>1, <1>2 DEF Promise!vars, Phase, Answer

\* Every step of the cache is a step of the service or invisible to it.
LEMMA StepRefines == IInv /\ [Next]_vars => [Promise!Next]_(Promise!vars)
<1> SUFFICES ASSUME IInv, [Next]_vars PROVE [Promise!Next]_(Promise!vars)
  OBVIOUS
<1>1. CASE UNCHANGED vars
  BY <1>1 DEF vars, Promise!vars
<1>2. ASSUME NEW t \in Threads, NEW s \in Scopes, Call(t, s)
      PROVE  Promise!Call(t, s)
  <2>1. Phase[t] = "idle" /\ Phase' = [Phase EXCEPT ![t] = "busy"]
    BY <1>2 DEF Call, Goto, Phase, IInv, TypeOK
  <2>2. Answer' = Answer
    BY <1>2 DEF Call, Goto, Answer, IInv, TypeOK
  <2> QED
    BY <1>2, <2>1, <2>2 DEF Call, Promise!Call, Phase, Answer
<1>3. ASSUME NEW t \in Threads, Return(t)
      PROVE  Promise!Return(t)
  <2>1. Phase[t] = "done" /\ Phase' = [Phase EXCEPT ![t] = "idle"]
    BY <1>3 DEF Return, Goto, Phase, IInv, TypeOK
  <2>2. Answer' = [Answer EXCEPT ![t] = None]
    BY <1>3 DEF Return, Goto, Answer, IInv, TypeOK
  <2> QED
    BY <1>3, <2>1, <2>2 DEF Return, Promise!Return, Phase, Answer
<1>4. ASSUME NEW t \in Threads, ReadHit(t)
      PROVE  Promise!Serve(t)
  <2>1. PICK i \in DOMAIN cache : Matches(cache[i], req[t]) /\ Reply(t, cache[i].key)
    BY <1>4 DEF ReadHit, IsPosition
  <2>2. cache[i].key = Derive(req[t])
    BY <1>4, <2>1, PositionHoldsKey DEF ReadHit, IInv, CallInv, QueueInv
  <2>3. answer'[t] = Derive(req[t]) /\ \A u \in Threads \ {t} : answer'[u] = answer[u]
    BY <2>1, <2>2 DEF Reply, IInv, TypeOK
  <2>4. pc[t] \notin {"idle", "done"} /\ pc' = [pc EXCEPT ![t] = "done"] /\ UNCHANGED req
    BY <1>4 DEF ReadHit, Goto
  <2> QED
    BY <2>3, <2>4, Serves
<1>5. ASSUME NEW t \in Threads, Promote(t)
      PROVE  Promise!Serve(t)
  <2>1. cache[slot[t]].key = Derive(req[t])
    BY <1>5, PositionHoldsKey
       DEF Promote, IInv, CallInv, QueueInv, PositionStillValid
  <2>2. answer'[t] = Derive(req[t]) /\ \A u \in Threads \ {t} : answer'[u] = answer[u]
    BY <1>5, <2>1 DEF Promote, Reply, IInv, TypeOK
  <2>3. pc[t] \notin {"idle", "done"} /\ pc' = [pc EXCEPT ![t] = "done"] /\ UNCHANGED req
    BY <1>5 DEF Promote, Goto
  <2> QED
    BY <2>2, <2>3, Serves
<1>6. ASSUME NEW t \in Threads, Finish(t)
      PROVE  Promise!Serve(t)
  <2>1. answer'[t] = Derive(req[t]) /\ \A u \in Threads \ {t} : answer'[u] = answer[u]
    BY <1>6 DEF Finish, IInv, CallInv
  <2>2. pc[t] \notin {"idle", "done"} /\ pc' = [pc EXCEPT ![t] = "done"] /\ UNCHANGED req
    BY <1>6 DEF Finish, Goto
  <2> QED
    BY <2>1, <2>2, Serves
<1>7. ASSUME NEW t \in Threads,
             ReadLock(t) \/ ReadMiss(t) \/ WriteLock(t) \/ WriteHit(t) \/ WriteMiss(t)
      PROVE  UNCHANGED Promise!vars
  <2>1. PICK label \in Labels \ {"idle", "done"} : pc' = [pc EXCEPT ![t] = label]
    BY <1>7 DEF ReadLock, ReadMiss, WriteLock, WriteHit, WriteMiss, Goto, Labels
  <2>2. pc[t] \notin {"idle", "done"} /\ UNCHANGED req
    BY <1>7 DEF ReadLock, ReadMiss, WriteLock, WriteHit, WriteMiss
  <2>3. \A u \in Threads \ {t} : answer'[u] = answer[u]
    BY <1>7 DEF ReadLock, ReadMiss, WriteLock, WriteHit, WriteMiss, Reply, IInv, TypeOK
  <2> QED
    BY <2>1, <2>2, <2>3, Stutters
<1>8. ASSUME NEW t \in Threads, Evict(t)
      PROVE  UNCHANGED Promise!vars
  BY <1>8 DEF Evict, Promise!vars
<1>9. ASSUME NEW t \in Threads, Promise!Serve(t) \/ Promise!Return(t)
      PROVE  Promise!Next
  BY <1>9 DEF Promise!Next
<1> QED
  BY <1>1, <1>2, <1>3, <1>4, <1>5, <1>6, <1>7, <1>8, <1>9 DEF Next, Step, Promise!Next

\* Behind its cache, its locks and its evictions, signing_key is the service
\* that hands every caller exactly the key of the scope it asked for.
THEOREM ServesTheRightKey == Spec => KeepsPromise
<1>1. Init => Promise!Init
  BY DEF Init, Promise!Init
<1> QED
  BY <1>1, StepRefines, Inductive, PTL DEF Spec, KeepsPromise, Promise!Spec
-------------------------------------------------------------------------------
\* A queue is the front of a writing order that lists no scope twice, and it
\* stops short of the whole order only once it is full.
Follows(c, order) ==
  /\ order \in Seq(Scopes)
  /\ \A i, j \in 1..Len(order) : order[i] = order[j] => i = j
  /\ Len(c) <= Len(order)
  /\ \A i \in 1..Len(c) : c[i].scope = order[i]
  /\ Len(c) = Len(order) \/ Len(c) >= Capacity

HInv == IInv /\ Follows(cache, written)

\* Forgetting the history variables, a step is a step of the cache.
LEMMA HistoryIsHistory == [HNext]_hvars => [Next]_vars
<1>1. ASSUME NEW t \in Threads, HWrite(t) \/ HRead(t) \/ HOther(t)
      PROVE  Next
  BY <1>1 DEF HWrite, HRead, HOther, Next, Step
<1> QED
  BY <1>1 DEF HNext, hvars

\* To write a scope is to move it to the front of the writing order, or to
\* put it there when it was not in it.
LEMMA NewestElements ==
  ASSUME NEW order \in Seq(Scopes), NEW s \in Scopes
  PROVE  \/ \E k \in 1..Len(order) :
              order[k] = s /\ Newest(order, s) = MoveToFront(order, k)
         \/ /\ \A k \in 1..Len(order) : order[k] # s
            /\ Newest(order, s) = PushFront(order, s)
<1>1. DOMAIN order = 1..Len(order)
  BY LenProperties
<1>2. CASE \E i \in DOMAIN order : order[i] = s
  <2> DEFINE k == CHOOSE i \in DOMAIN order : order[i] = s
  <2>1. k \in DOMAIN order /\ order[k] = s
    BY <1>2
  <2>2. Newest(order, s) = MoveToFront(order, k)
    BY <1>2, <2>1 DEF Newest, Without, MoveToFront, PushFront
  <2> QED
    BY <1>1, <2>1, <2>2
<1>3. CASE ~\E i \in DOMAIN order : order[i] = s
  BY <1>1, <1>3 DEF Newest, Without, PushFront
<1> QED
  BY <1>2, <1>3

\* Moving one scope to the front lists no scope twice.
LEMMA MoveKeepsDistinct ==
  ASSUME NEW order \in Seq(Scopes), NEW k \in 1..Len(order),
         \A i, j \in 1..Len(order) : order[i] = order[j] => i = j
  PROVE  \A i, j \in 1..Len(order) :
           MoveToFront(order, k)[i] = MoveToFront(order, k)[j] => i = j
<1> DEFINE new == MoveToFront(order, k)
           from(j) == IF j = 1 THEN k ELSE IF j <= k THEN j - 1 ELSE j
<1>1. Len(order) \in Nat
  BY LenProperties
<1>2. \A j \in 1..Len(order) : new[j] = order[from(j)]
  <2>1. /\ new[1] = order[k]
        /\ \A j \in 2..Len(order) : new[j] = IF j <= k THEN order[j - 1] ELSE order[j]
    BY MoveToFrontElements
  <2> HIDE DEF new
  <2>2. ASSUME NEW j \in 1..Len(order), j # 1
        PROVE  new[j] = order[from(j)]
    <3>1. j \in 2..Len(order)
      BY <1>1, <2>2
    <3> QED
      BY <2>1, <2>2, <3>1
  <2> QED
    BY <2>1, <2>2
<1>3. \A j \in 1..Len(order) : from(j) \in 1..Len(order)
  BY <1>1
<1>4. \A i, j \in 1..Len(order) : from(i) = from(j) => i = j
  BY <1>1
<1> HIDE DEF new, from
<1>5. \A i, j \in 1..Len(order) : new[i] = new[j] => i = j
  BY <1>2, <1>3, <1>4
<1> QED
  BY <1>5 DEF new

\* An insertion puts its scope in front of both, and one that was in the
\* order already stood behind a full queue.
LEMMA PushFollows ==
  ASSUME NEW c, NEW order, NEW s \in Scopes,
         Tidy(c), Follows(c, order), ~Holds(c, s)
  PROVE  Follows(PushFront(c, Entry(s)), Newest(order, s))
<1> DEFINE d == PushFront(c, Entry(s))
           new == Newest(order, s)
<1>1. /\ c \in Seq(Entries) /\ Len(c) \in Nat /\ DOMAIN c = 1..Len(c)
      /\ order \in Seq(Scopes) /\ Len(order) \in Nat
      /\ Entry(s) \in Entries /\ Entry(s).scope = s
  BY TidyIsQueue, LenProperties, EntryTyped DEF Follows
<1>2. \A i \in 1..Len(c) : order[i] # s
  <2>1. \A i \in 1..Len(c) : c[i] \in Entries /\ ~Matches(c[i], s)
    BY <1>1, ElementOfSeq DEF Holds
  <2> QED
    BY <2>1, MatchesScope DEF Follows
<1>3. /\ Len(d) = Len(c) + 1 /\ d[1] = Entry(s)
      /\ \A i \in 2..(Len(c) + 1) : d[i] = c[i - 1]
  BY <1>1, PushFrontElements
<1>4. \A i \in 2..(Len(c) + 1) : d[i].scope = order[i - 1]
  BY <1>1, <1>3 DEF Follows
<1> SUFFICES Follows(d, new)
  OBVIOUS
<1> HIDE DEF d, new
<1>5. CASE \E k \in 1..Len(order) : order[k] = s /\ new = MoveToFront(order, k)
  <2>1. PICK k \in 1..Len(order) : order[k] = s /\ new = MoveToFront(order, k)
    BY <1>5
  <2>2. /\ new \in Seq(Scopes) /\ Len(new) = Len(order)
        /\ new[1] = s
        /\ \A j \in 2..Len(order) : new[j] = IF j <= k THEN order[j - 1] ELSE order[j]
    BY <1>1, <2>1, MoveToFrontElements
  <2>3. k > Len(c) /\ Len(c) < Len(order) /\ Len(c) >= Capacity
    BY <1>1, <1>2, <2>1, CapacityAssumption DEF Follows
  <2>4. \A i, j \in 1..Len(new) : new[i] = new[j] => i = j
    <3>1. \A i, j \in 1..Len(order) : order[i] = order[j] => i = j
      BY DEF Follows
    <3>2. \A i, j \in 1..Len(order) : new[i] = new[j] => i = j
      BY <1>1, <2>1, <3>1, MoveKeepsDistinct
    <3> QED
      BY <2>2, <3>2
  <2>5. \A i \in 1..Len(d) : d[i].scope = new[i]
    BY <1>1, <1>3, <1>4, <2>1, <2>2, <2>3
  <2>6. Len(d) <= Len(new) /\ Len(d) >= Capacity
    BY <1>1, <1>3, <2>2, <2>3, CapacityAssumption
  <2> QED
    BY <2>2, <2>4, <2>5, <2>6 DEF Follows
<1>6. CASE (\A k \in 1..Len(order) : order[k] # s) /\ new = PushFront(order, s)
  <2>1. /\ new \in Seq(Scopes) /\ Len(new) = Len(order) + 1
        /\ new[1] = s
        /\ \A j \in 2..(Len(order) + 1) : new[j] = order[j - 1]
    <3> DEFINE pushed == PushFront(order, s)
    <3>1. /\ pushed \in Seq(Scopes) /\ Len(pushed) = Len(order) + 1
          /\ pushed[1] = s
          /\ \A j \in 2..(Len(order) + 1) : pushed[j] = order[j - 1]
      BY <1>1, PushFrontElements
    <3> HIDE DEF pushed
    <3> QED
      BY <1>6, <3>1 DEF pushed
  <2>2. \A i, j \in 1..Len(new) : new[i] = new[j] => i = j
    <3>1. \A i, j \in 1..Len(order) : order[i] = order[j] => i = j
      BY DEF Follows
    <3>2. \A j \in 2..Len(new) : new[j] # s
      BY <1>1, <1>6, <2>1
    <3>3. \A i, j \in 2..Len(new) : new[i] = new[j] => i = j
      BY <1>1, <2>1, <3>1
    <3> QED
      BY <1>1, <2>1, <3>2, <3>3
  <2>3. Len(c) <= Len(order) /\ (Len(c) = Len(order) \/ Len(c) >= Capacity)
    BY DEF Follows
  <2>4. \A i \in 1..Len(d) : d[i].scope = new[i]
    BY <1>1, <1>3, <1>4, <2>1, <2>3
  <2>5. Len(d) <= Len(new) /\ (Len(d) = Len(new) \/ Len(d) >= Capacity)
    BY <1>1, <1>3, <2>1, <2>3, CapacityAssumption
  <2> QED
    BY <2>1, <2>2, <2>4, <2>5 DEF Follows
<1> QED
  BY <1>1, <1>5, <1>6, NewestElements DEF new

\* A promotion moves the same position of both.
LEMMA MoveFollows ==
  ASSUME NEW c, NEW order, NEW s \in Scopes, NEW p \in DOMAIN c,
         Tidy(c), Follows(c, order), c[p].scope = s
  PROVE  Follows(MoveToFront(c, p), Newest(order, s))
<1> DEFINE d == MoveToFront(c, p)
           new == Newest(order, s)
<1>1. /\ c \in Seq(Entries) /\ Len(c) \in Nat /\ p \in 1..Len(c)
      /\ order \in Seq(Scopes) /\ Len(order) \in Nat
  BY TidyIsQueue, LenProperties DEF Follows
<1>2. /\ Len(c) <= Len(order)
      /\ \A i \in 1..Len(c) : c[i].scope = order[i]
      /\ \A i, j \in 1..Len(order) : order[i] = order[j] => i = j
      /\ Len(c) = Len(order) \/ Len(c) >= Capacity
  BY DEF Follows
<1>3. p \in 1..Len(order) /\ order[p] = s
  BY <1>1, <1>2
<1>4. new = MoveToFront(order, p)
  BY <1>1, <1>2, <1>3, NewestElements
<1>5. /\ Len(d) = Len(c)
      /\ d[1] = c[p]
      /\ \A j \in 2..Len(c) : d[j] = IF j <= p THEN c[j - 1] ELSE c[j]
  BY <1>1, MoveToFrontElements
<1>6. /\ new \in Seq(Scopes) /\ Len(new) = Len(order)
      /\ new[1] = order[p]
      /\ \A j \in 2..Len(order) : new[j] = IF j <= p THEN order[j - 1] ELSE order[j]
  <2> DEFINE moved == MoveToFront(order, p)
  <2>1. /\ moved \in Seq(Scopes) /\ Len(moved) = Len(order)
        /\ moved[1] = order[p]
        /\ \A j \in 2..Len(order) : moved[j] = IF j <= p THEN order[j - 1] ELSE order[j]
    BY <1>1, <1>3, MoveToFrontElements
  <2> HIDE DEF moved
  <2> QED
    BY <1>4, <2>1 DEF moved
<1> HIDE DEF d, new
<1>7. \A i, j \in 1..Len(new) : new[i] = new[j] => i = j
  BY <1>1, <1>2, <1>3, <1>4, <1>6, MoveKeepsDistinct
<1>8. \A i \in 1..Len(d) : d[i].scope = new[i]
  <2>1. ASSUME NEW i \in 2..Len(c) PROVE d[i].scope = new[i]
    <3>1. i - 1 \in 1..Len(c) /\ i \in 1..Len(c) /\ i \in 2..Len(order)
      BY <1>1, <1>2
    <3>2. c[i - 1].scope = order[i - 1] /\ c[i].scope = order[i]
      BY <1>2, <3>1
    <3> QED
      BY <1>5, <1>6, <3>1, <3>2
  <2>2. d[1].scope = new[1]
    BY <1>1, <1>2, <1>5, <1>6
  <2> QED
    BY <1>1, <1>5, <2>1, <2>2
<1>9. Follows(d, new)
  BY <1>2, <1>5, <1>6, <1>7, <1>8 DEF Follows
<1> QED
  BY <1>9 DEF d, new

\* An eviction cuts the queue back to its capacity.
LEMMA PopFollows ==
  ASSUME NEW c, NEW order, Tidy(c), Follows(c, order), Len(c) = Capacity + 1
  PROVE  Follows(PopBack(c), order)
<1>1. c \in Seq(Entries) /\ Len(c) > 0 /\ Capacity \in Nat
  BY TidyIsQueue, CapacityAssumption
<1>2. Len(order) \in Nat
  BY LenProperties DEF Follows
<1>3. /\ Len(PopBack(c)) = Capacity
      /\ \A i \in 1..Capacity : PopBack(c)[i] = c[i]
  BY <1>1, PopBackElements
<1> QED
  BY <1>1, <1>2, <1>3 DEF Follows

\* A write that is recorded moves the queue and the order together; no other
\* step but an eviction touches either.
LEMMA HistoryStep ==
  ASSUME HInv, NEW t \in Threads, HWrite(t) \/ HRead(t) \/ HOther(t)
  PROVE  Follows(cache', written')
<1>1. /\ Tidy(cache) /\ Follows(cache, written)
      /\ pc[t] # "idle" => req[t] \in Scopes
  BY DEF HInv, IInv, QueueInv, CallInv
<1>2. CASE WriteMiss(t) /\ written' = Newest(written, req[t])
  BY <1>1, <1>2, PushFollows DEF WriteMiss
<1>3. CASE Promote(t) /\ written' = Newest(written, req[t])
  <2>1. /\ slot[t] \in DOMAIN cache /\ req[t] \in Scopes
        /\ Matches(cache[slot[t]], req[t])
    BY <1>1, <1>3 DEF Promote, HInv, IInv, PositionStillValid
  <2> QED
    BY <1>1, <1>3, <2>1, PositionHoldsKey, MoveFollows DEF Promote
<1>4. CASE Evict(t) /\ UNCHANGED written
  <2>1. Len(cache) = Capacity + 1
    BY <1>1, <1>4, TidyIsQueue, CapacityAssumption DEF Evict, HInv, IInv, QueueInv
  <2> QED
    BY <1>1, <1>4, <2>1, PopFollows DEF Evict
<1>5. CASE UNCHANGED cache /\ UNCHANGED written
  BY <1>1, <1>5
<1> QED
  BY <1>2, <1>3, <1>4, <1>5
     DEF HWrite, HRead, HOther, Call, ReadLock, ReadHit, ReadMiss, WriteLock, WriteHit,
         Finish, Return

\* Between writers the queue holds exactly the Capacity scopes inserted or
\* promoted last, newest first: no race between threads that missed, and no
\* eviction, ever costs the key of a scope written more recently.
THEOREM QueueIsNewest == HSpec => []RetainsRecentlyWritten
<1>1. HInit => HInv
  <2>1. <<>> \in Seq(Scopes) /\ Len(<<>>) = 0
    OBVIOUS
  <2>2. Follows(<<>>, <<>>)
    BY <2>1 DEF Follows
  <2> QED
    BY <2>2, InitInv DEF HInit, Init, HInv
<1>2. HInv /\ [HNext]_hvars => HInv'
  <2> SUFFICES ASSUME HInv, [HNext]_hvars PROVE HInv'
    OBVIOUS
  <2>1. IInv'
    BY HistoryIsHistory, StepInv DEF HInv
  <2>2. CASE UNCHANGED hvars
    <3>1. cache' = cache /\ written' = written
      BY <2>2 DEF hvars, vars
    <3> QED
      BY <2>1, <3>1 DEF HInv
  <2>3. CASE HNext
    BY <2>1, <2>3, HistoryStep DEF HNext, HInv
  <2> QED
    BY <2>2, <2>3
<1>3. HInv => RetainsRecentlyWritten
  <2> SUFFICES ASSUME HInv, writer = None PROVE RetainsRecentlyWritten
    BY DEF RetainsRecentlyWritten
  <2> DEFINE n == IF Len(written) < Capacity THEN Len(written) ELSE Capacity
  <2>1. /\ Len(cache) \in Nat /\ DOMAIN cache = 1..Len(cache)
        /\ written \in Seq(Scopes) /\ Len(written) \in Nat
    BY LenProperties DEF HInv, IInv, TypeOK, Follows
  <2>2. Len(cache) <= Capacity
    BY NoneAssumption DEF HInv, IInv, QueueInv
  <2>3. /\ Len(cache) <= Len(written)
        /\ Len(cache) = Len(written) \/ Len(cache) >= Capacity
        /\ \A i \in 1..Len(cache) : cache[i].scope = written[i]
    BY DEF HInv, Follows
  <2>4. Len(cache) = n
    <3>1. Len(cache) \in Nat /\ Len(written) \in Nat /\ Capacity \in Nat
      BY <2>1, CapacityAssumption
    <3> QED
      BY <2>2, <2>3, <3>1
  <2> HIDE DEF n
  <2>5. \A i \in 1..n : written[i] \in Scopes
    BY <2>1, <2>3, <2>4, ElementOfSeq
  <2>6. /\ SubSeq(written, 1, n) \in Seq(Scopes)
        /\ Len(SubSeq(written, 1, n)) = n
        /\ \A i \in 1..n : SubSeq(written, 1, n)[i] = written[i]
    <3>1. n \in Int /\ n - 1 + 1 = n /\ (1 <= n \/ n = 0) /\ \A i \in 1..n : 1 + i - 1 = i
      BY <2>1, <2>4
    <3> QED
      BY <2>5, <3>1, SubSeqProperties
  <2>7. SubSeq(written, 1, n) \in [1..n -> Scopes]
    BY <2>6, LenProperties
  <2>8. [i \in DOMAIN cache |-> cache[i].scope] = SubSeq(written, 1, n)
    BY <2>1, <2>3, <2>4, <2>6, <2>7
  <2> QED
    BY <2>8 DEF RetainsRecentlyWritten, Newer, n
<1> QED
  BY <1>1, <1>2, <1>3, PTL DEF HSpec
===============================================================================
