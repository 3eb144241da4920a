------------------------------ MODULE Executor ------------------------------
(***************************************************************************)
(* What an EventLoop promises to the threads that hand it functors: one    *)
(* executor that runs every accepted functor once, one at a time, in the   *)
(* order in which they were accepted, until it is stopped.                 *)
(* EventLoop.tla is shown to implement it.                                 *)
(***************************************************************************)
EXTENDS Naturals, Sequences

CONSTANT Functor       \* the callbacks (std::function<void()>)

VARIABLES accepted,    \* functors handed over, in order
          executed,    \* functors whose call has returned, in order
          stopped      \* the executor has stopped for good

vars == <<accepted, executed, stopped>>

Init == accepted = <<>> /\ executed = <<>> /\ stopped = FALSE

Accept(f) == accepted' = Append(accepted, f) /\ UNCHANGED <<executed, stopped>>

Execute ==
  /\ ~stopped
  /\ Len(executed) < Len(accepted)
  /\ executed' = Append(executed, accepted[Len(executed) + 1])
  /\ UNCHANGED <<accepted, stopped>>

Stop == ~stopped /\ stopped' = TRUE /\ UNCHANGED <<accepted, executed>>

Next == (\E f \in Functor : Accept(f)) \/ Execute \/ Stop

Spec == Init /\ [][Next]_vars
=============================================================================
