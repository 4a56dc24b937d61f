----------------------------- MODULE MCRecovery -----------------------------
(***************************************************************************)
(* Recovery for TLC: up to two rounds at a time, one of them with a second *)
(* attempt, the watchdog, no requests besides the rounds' own.             *)
(***************************************************************************)
EXTENDS Recovery

CONSTANTS c1, c2, watchdog
=============================================================================
