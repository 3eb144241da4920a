---------------------------- MODULE MCByteStream ----------------------------
(* ByteStream for TLC: all constants are given in the configuration.       *)
EXTENDS ByteStream
=============================================================================
