---------------------------- MODULE MCEventLoop -----------------------------
(* EventLoop with its own thread, two others and two functors.             *)
EXTENDS EventLoop, TLC

CONSTANTS t1, t2, f1, f2

MCThread == {Loop, t1, t2}
MCFunctor == {f1, f2}
=============================================================================
