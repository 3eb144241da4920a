----------------------------- MODULE ByteQueue ------------------------------
(***************************************************************************)
(* What a stream of bytes promises: bytes come out as they were put in, in *)
(* the same order, each once.  put and got are all bytes so far.           *)
(***************************************************************************)
EXTENDS Sequences, SequencesExt

VARIABLES put, got

vars == <<put, got>>

Init == put = <<>> /\ got = <<>>

Put == IsPrefix(put, put') /\ UNCHANGED got

Get == IsPrefix(got, got') /\ IsPrefix(got', put) /\ UNCHANGED put

Next == Put \/ Get

Spec == Init /\ [][Next]_vars
=============================================================================
