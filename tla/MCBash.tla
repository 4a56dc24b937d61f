------------------------------- MODULE MCBash -------------------------------
(* BackgroundBash for TLC. *)
EXTENDS BackgroundBash
=============================================================================
