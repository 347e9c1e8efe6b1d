------------------------ MODULE SigningKeyCacheHistory ------------------------
(***************************************************************************)
(* SigningKeyCache with two history variables, to say what the eviction    *)
(* order is: by the last time a scope was written under the write lock     *)
(* (inserted or promoted), not by the last time its key was used.          *)
(***************************************************************************)
EXTENDS SigningKeyCache

VARIABLES
  written,   \* scopes by last insertion or promotion, newest first
  used       \* scopes by last insertion, promotion or read hit, newest first

hvars == <<vars, written, used>>

Without(order, s) ==
  IF \E i \in DOMAIN order : order[i] = s
  THEN RemoveAt(order, CHOOSE i \in DOMAIN order : order[i] = s)
  ELSE order

Newest(order, s) == <<s>> \o Without(order, s)

HInit == Init /\ written = <<>> /\ used = <<>>

HWrite(t) ==
  /\ WriteMiss(t) \/ Promote(t)
  /\ written' = Newest(written, req[t])
  /\ used'    = Newest(used, req[t])

HRead(t) ==
  /\ ReadHit(t)
  /\ used' = Newest(used, req[t])
  /\ UNCHANGED written

HOther(t) ==
  /\ \/ \E s \in Scopes : Call(t, s)
     \/ ReadLock(t) \/ ReadMiss(t) \/ WriteLock(t) \/ WriteHit(t)
     \/ Evict(t) \/ Finish(t) \/ Return(t)
  /\ UNCHANGED <<written, used>>

HNext == \E t \in Threads : HWrite(t) \/ HRead(t) \/ HOther(t)

HSpec == HInit /\ [][HNext]_hvars
-------------------------------------------------------------------------------
Newer(order) == SubSeq(order, 1, IF Len(order) < Capacity THEN Len(order) ELSE Capacity)

\* What the code does: between writers the queue holds the Capacity scopes
\* written last, in that order, whatever the threads raced for.
RetainsRecentlyWritten ==
  writer = None => [i \in DOMAIN cache |-> cache[i].scope] = Newer(written)

\* What docs/rust-nginx-module.md:414 says ("bounded to 32 entries, LRU"):
\* the scopes cached are the ones used last.  A hit under the read lock
\* returns without moving its entry, so a scope in constant use is evicted
\* once Capacity others have been inserted after it.
RetainsRecentlyUsed ==
  writer = None => {cache[i].scope : i \in DOMAIN cache} = ToSet(Newer(used))
===============================================================================
