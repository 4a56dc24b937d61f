------------------------------ MODULE MCPiRpc ------------------------------
(***************************************************************************)
(* PiRpc for TLC.  `bash` stands for the requests without a deadline, k1   *)
(* for the watchdog, c1 and c2 for recovery rounds.                        *)
(***************************************************************************)
EXTENDS PiRpc

CONSTANTS get_state, bash, c1, c2, k1
=============================================================================
