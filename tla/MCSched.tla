------------------------------ MODULE MCSched ------------------------------
(* PromptScheduler for TLC. *)
EXTENDS PromptScheduler

CONSTANTS p1, p2, p3

ClientSymmetry == Permutations(Clients)
=============================================================================
