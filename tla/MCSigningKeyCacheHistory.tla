----------------------- MODULE MCSigningKeyCacheHistory -----------------------
(* Small instances of SigningKeyCacheHistory for TLC. *)
EXTENDS SigningKeyCacheHistory

CONSTANTS t1, t2, t3, d1, d2, d3, d4, r1, r2

\* Threads, dates and regions are interchangeable: no definition names one.
Symmetry ==
  Permutations(Threads) \cup Permutations(Dates) \cup Permutations(Regions)
===============================================================================
