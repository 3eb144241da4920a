---------------------------- MODULE MCServerLife ----------------------------
(* ServerLife for TLC: all constants are given in the configuration.       *)
EXTENDS ServerLife
=============================================================================
