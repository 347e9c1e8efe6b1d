------------------------------ MODULE SigningKey ------------------------------
(***************************************************************************)
(* The data one compiled credential needs to serve signing keys: its seed, *)
(* the scopes it is asked for and the entries of its queue                 *)
(* (rust/sigv4-verifier/src/lib.rs, CompiledCredential::signing_key).      *)
(***************************************************************************)
EXTENDS KeyQueue

CONSTANTS
  Dates,      \* scope dates (YYYYMMDD)
  Regions,    \* scope regions
  Seed,       \* "AWS4" followed by the secret of the credential
  Capacity    \* SIGNING_CACHE_CAPACITY

ASSUME CapacityAssumption == Capacity \in Nat \ {0}

Scopes == [date : Dates, region : Regions]

Derive(s) == DeriveFrom(Seed, s)

\* Mutant: the first key of the chain is cached instead of the last.
EntryOfDateKey(s) == [scope |-> s, key |-> Hmac(Seed, s.date)]

Entry(s) == [scope |-> s, key |-> Derive(s)]

Entries == [scope : Scopes, key : {Derive(s) : s \in Scopes}]
===============================================================================
