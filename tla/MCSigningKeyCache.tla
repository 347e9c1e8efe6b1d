-------------------------- MODULE MCSigningKeyCache --------------------------
(* A small instance of SigningKeyCache for TLC's liveness check, which uses *)
(* no symmetry.                                                            *)
EXTENDS SigningKeyCache

CONSTANTS t1, t2, d1, d2, r1, r2
===============================================================================
