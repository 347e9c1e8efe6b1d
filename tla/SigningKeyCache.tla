--------------------------- MODULE SigningKeyCache ---------------------------
(***************************************************************************)
(* CompiledCredential::signing_key under concurrent callers.  Clones of a  *)
(* Verifier share their credentials through an Arc, so any number of       *)
(* threads may look up, insert and evict keys of one credential.  The      *)
(* function looks the scope up under the read lock, gives the lock up, and *)
(* on a miss looks again under the write lock before it derives, inserts   *)
(* and evicts.  One action is one step between two lock operations or one  *)
(* operation on the queue.                                                 *)
(***************************************************************************)
EXTENDS SigningKey

CONSTANTS
  Threads,   \* callers of signing_key
  None       \* no request, no answer, no lock owner

ASSUME NoneAssumption == None \notin Threads \cup Scopes

VARIABLES
  cache,     \* the VecDeque, front first
  readers,   \* threads that hold the read lock
  writer,    \* the thread that holds the write lock, or None
  pc,        \* pc[t]: where thread t is in signing_key
  req,       \* req[t]: the scope thread t asked for
  slot,      \* slot[t]: the position the re-check found
  answer     \* answer[t]: the key signing_key returns

vars == <<cache, readers, writer, pc, req, slot, answer>>

Init ==
  /\ cache   = <<>>
  /\ readers = {}
  /\ writer  = None
  /\ pc      = [t \in Threads |-> "idle"]
  /\ req     = [t \in Threads |-> None]
  /\ slot    = [t \in Threads |-> 0]
  /\ answer  = [t \in Threads |-> None]

Goto(t, label) == pc' = [pc EXCEPT ![t] = label]

Reply(t, key) == answer' = [answer EXCEPT ![t] = key]

\* sign() calls signing_key with the scope of the request.
Call(t, s) ==
  /\ pc[t] = "idle"
  /\ Goto(t, "read")
  /\ req' = [req EXCEPT ![t] = s]
  /\ UNCHANGED <<cache, readers, writer, slot, answer>>

ReadLock(t) ==
  /\ pc[t] = "read"
  /\ writer = None
  /\ readers' = readers \cup {t}
  /\ Goto(t, "lookup")
  /\ UNCHANGED <<cache, writer, req, slot, answer>>

\* The key is copied out; the queue keeps its order.
ReadHit(t) ==
  /\ pc[t] = "lookup"
  /\ \E i \in DOMAIN cache :
       IsPosition(cache, req[t], i) /\ Reply(t, cache[i].key)
  /\ readers' = readers \ {t}
  /\ Goto(t, "done")
  /\ UNCHANGED <<cache, writer, req, slot>>

\* Mutant: the read guard lives on while the thread waits to write.
ReadMissKeepsGuard(t) ==
  /\ pc[t] = "lookup"
  /\ ~Holds(cache, req[t])
  /\ Goto(t, "write")
  /\ UNCHANGED <<cache, readers, writer, req, slot, answer>>

\* The guard of the condition is dropped before the write lock is asked for.
ReadMiss(t) ==
  /\ pc[t] = "lookup"
  /\ ~Holds(cache, req[t])
  /\ readers' = readers \ {t}
  /\ Goto(t, "write")
  /\ UNCHANGED <<cache, writer, req, slot, answer>>

\* Mutant: the lock does not exclude another writer.
WriteLockShared(t) ==
  /\ pc[t] = "write"
  /\ readers = {}
  /\ writer' = t
  /\ Goto(t, "recheck")
  /\ UNCHANGED <<cache, readers, req, slot, answer>>

WriteLock(t) ==
  /\ pc[t] = "write"
  /\ readers = {}
  /\ writer = None
  /\ writer' = t
  /\ Goto(t, "recheck")
  /\ UNCHANGED <<cache, readers, req, slot, answer>>

WriteHit(t) ==
  /\ pc[t] = "recheck"
  /\ \E i \in DOMAIN cache :
       IsPosition(cache, req[t], i) /\ slot' = [slot EXCEPT ![t] = i]
  /\ Goto(t, "promote")
  /\ UNCHANGED <<cache, readers, writer, req, answer>>

Promote(t) ==
  /\ pc[t] = "promote"
  /\ cache' = MoveToFront(cache, slot[t])
  /\ Reply(t, cache[slot[t]].key)
  /\ slot' = [slot EXCEPT ![t] = 0]
  /\ writer' = None
  /\ Goto(t, "done")
  /\ UNCHANGED <<readers, req>>

\* Mutant: the miss under the read lock is trusted, there is no re-check.
WriteMissUnchecked(t) ==
  /\ pc[t] = "recheck"
  /\ cache' = PushFront(cache, Entry(req[t]))
  /\ Reply(t, Derive(req[t]))
  /\ Goto(t, "evict")
  /\ UNCHANGED <<readers, writer, req, slot>>

\* The key is cached before anything is known about the signature.
WriteMiss(t) ==
  /\ pc[t] = "recheck"
  /\ ~Holds(cache, req[t])
  /\ cache' = PushFront(cache, Entry(req[t]))
  /\ Reply(t, Derive(req[t]))
  /\ Goto(t, "evict")
  /\ UNCHANGED <<readers, writer, req, slot>>

\* One turn of the while loop.
Evict(t) ==
  /\ pc[t] = "evict"
  /\ Len(cache) > Capacity
  /\ cache' = PopBack(cache)
  /\ UNCHANGED <<readers, writer, pc, req, slot, answer>>

\* Mutant: the loop stops one entry too late.
FinishOneOver(t) ==
  /\ pc[t] = "evict"
  /\ Len(cache) <= Capacity + 1
  /\ writer' = None
  /\ Goto(t, "done")
  /\ UNCHANGED <<cache, readers, req, slot, answer>>

Finish(t) ==
  /\ pc[t] = "evict"
  /\ Len(cache) <= Capacity
  /\ writer' = None
  /\ Goto(t, "done")
  /\ UNCHANGED <<cache, readers, req, slot, answer>>

Return(t) ==
  /\ pc[t] = "done"
  /\ req'    = [req EXCEPT ![t] = None]
  /\ answer' = [answer EXCEPT ![t] = None]
  /\ Goto(t, "idle")
  /\ UNCHANGED <<cache, readers, writer, slot>>

\* What a thread does once it is inside signing_key.
Step(t) ==
  \/ ReadLock(t) \/ ReadHit(t) \/ ReadMiss(t)
  \/ WriteLock(t) \/ WriteHit(t) \/ Promote(t)
  \/ WriteMiss(t) \/ Evict(t) \/ Finish(t)
  \/ Return(t)

Next == \E t \in Threads : (\E s \in Scopes : Call(t, s)) \/ Step(t)

Spec == Init /\ [][Next]_vars

\* The operating system runs every thread that can run.  std's RwLock names
\* no policy between readers and writers, so no strong fairness is assumed:
\* a writer may starve while readers keep coming.
FairSpec == Spec /\ \A t \in Threads : WF_vars(Step(t))
-------------------------------------------------------------------------------
Labels == {"idle", "read", "lookup", "write", "recheck", "promote", "evict", "done"}

TypeOK ==
  /\ cache \in Seq(Entries)
  /\ readers \in SUBSET Threads
  /\ writer \in Threads \cup {None}
  /\ pc \in [Threads -> Labels]
  /\ req \in [Threads -> Scopes \cup {None}]
  /\ slot \in [Threads -> Nat]
  /\ answer \in [Threads -> {Derive(s) : s \in Scopes} \cup {None}]

\* Two threads that miss the same scope under the read lock do not both
\* insert it: the re-check under the write lock finds the first one's entry.
UniqueScopes ==
  \A i, j \in DOMAIN cache : cache[i].scope = cache[j].scope => i = j

\* Whoever can see the queue without holding the write lock sees at most
\* SIGNING_CACHE_CAPACITY keys; the writer itself sees one more at most.
Bounded ==
  /\ Len(cache) <= Capacity + 1
  /\ writer = None => Len(cache) <= Capacity

\* The position found by the re-check is still the position of the thread's
\* scope when remove(position).expect("cache position is valid") uses it.
PositionStillValid ==
  \A t \in Threads : pc[t] = "promote" =>
    slot[t] \in DOMAIN cache /\ Matches(cache[slot[t]], req[t])

\* Every cached key is the one derived from this credential's seed for the
\* scope it is filed under, whichever thread inserted it.
CacheSound == \A i \in DOMAIN cache : cache[i].key = Derive(cache[i].scope)

\* Seen from outside, signing_key hands out the derived key and nothing else.
Promise == INSTANCE KeyService WITH
  phase  <- [t \in Threads |-> IF pc[t] \in {"idle", "done"} THEN pc[t] ELSE "busy"],
  answer <- [t \in Threads |-> IF pc[t] = "done" THEN answer[t] ELSE None],
  KeyFor <- Derive

KeepsPromise == Promise!Spec

\* No thread is left inside signing_key unless others keep calling it: once
\* calls stop, every lock is given up and every thread returns.
Drains ==
  \/ []<><<\E t \in Threads, s \in Scopes : Call(t, s)>>_vars
  \/ <>[](\A t \in Threads : pc[t] = "idle")
===============================================================================
