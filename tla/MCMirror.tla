------------------------------ MODULE MCMirror ------------------------------
(* MirrorMachine for TLC. *)
EXTENDS MirrorMachine

CONSTANTS p1, a, b

TextSymmetry == Permutations(Texts)
=============================================================================
