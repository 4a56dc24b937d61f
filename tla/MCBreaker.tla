----------------------------- MODULE MCBreaker ------------------------------
(***************************************************************************)
(* CircuitBreaker for TLC: two or three callers.                           *)
(***************************************************************************)
EXTENDS CircuitBreaker, TLC

CONSTANTS t1, t2, t3

CallerSymmetry == Permutations(Threads)
=============================================================================
