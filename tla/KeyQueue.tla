------------------------------- MODULE KeyQueue -------------------------------
(***************************************************************************)
(* The SigV4 key derivation and the queue of cached keys, for any seed and *)
(* any scopes (rust/sigv4-verifier/src/lib.rs,                             *)
(* CompiledCredential::signing_key).                                       *)
(*                                                                         *)
(* HMAC-SHA256 is ideal: Hmac is a free constructor, so two derivations    *)
(* agree only when every input of the chain agrees.  verify() rejects any  *)
(* service but "s3" before it asks for a key, so a scope is a date and a   *)
(* region.  An entry of the queue is a scope and the key filed under it.   *)
(***************************************************************************)
EXTENDS Integers, SequencesExt

Hmac(key, data) == <<key, data>>

DeriveFrom(seed, s) ==
  Hmac(Hmac(Hmac(Hmac(seed, s.date), s.region), "s3"), "aws4_request")

\* Mutant: the lookup compares the date only.
MatchesDateOnly(e, s) == e.scope.date = s.date

Matches(e, s) == e.scope.date = s.date /\ e.scope.region = s.region

Holds(c, s) == \E i \in DOMAIN c : Matches(c[i], s)

\* iter().position: the first index whose entry matches.
IsPosition(c, s, i) ==
  /\ i \in DOMAIN c
  /\ Matches(c[i], s)
  /\ \A j \in 1..(i - 1) : ~Matches(c[j], s)

\* Mutant: the key goes to the back, where the next eviction takes it.
PushBack(c, e) == c \o <<e>>

PushFront(c, e) == <<e>> \o c

\* remove(position) followed by push_front.
MoveToFront(c, i) == PushFront(RemoveAt(c, i), c[i])

PopBack(c) == SubSeq(c, 1, Len(c) - 1)
===============================================================================
