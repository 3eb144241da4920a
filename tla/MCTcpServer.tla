---------------------------- MODULE MCTcpServer -----------------------------
(* Instances of TcpServer: one connection on an io loop, or two on the     *)
(* base loop, and one application thread.                                  *)
EXTENDS TcpServer, TLC

CONSTANTS c1, c2, io1, u1

OneIo == <<io1>>
NoIo == <<>>
=============================================================================
