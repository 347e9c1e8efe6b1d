----------------------------- MODULE MCVariables ------------------------------
(* Small instances of AccessHandler and Variables for TLC. *)
EXTENDS Variables, TLC

BlockSymmetry == Permutations(Blocks)

SomeOutcomes == {
  [allowed |-> TRUE,  reason |-> "ok",                 hash |-> "A"],
  [allowed |-> FALSE, reason |-> "missing_metadata",   hash |-> None],
  [allowed |-> FALSE, reason |-> "signature_mismatch", hash |-> "A"] }
===============================================================================
