-------------------------- MODULE EventLoopProofs ---------------------------
(* Theorems about EventLoop, for any threads, functors and bounds.         *)
EXTENDS EventLoop, SequenceTheorems, TLAPS

\* Every variable of the loop keeps its type.
THEOREM TypeCorrect == Spec => []TypeOK
<1>1. Init => TypeOK
  BY EmptySeq DEF Init, TypeOK
<1>2. TypeOK /\ [Next]_vars => TypeOK'
  <2> SUFFICES ASSUME TypeOK, [Next]_vars PROVE TypeOK'
    OBVIOUS
  <2> USE DEF TypeOK
  <2>1. CASE StartLoop BY <2>1 DEF StartLoop
  <2>2. CASE TestQuit BY <2>2 DEF TestQuit
  <2>3. ASSUME NEW io \in SUBSET {"io"}, PollReturn(io) PROVE TypeOK'
    BY <2>3 DEF PollReturn
  <2>4. CASE PollTimeout BY <2>4 DEF PollTimeout
  <2>5. CASE HandleRead BY <2>5 DEF HandleRead
  <2>6. CASE HandleEvent BY <2>6 DEF HandleEvent
  <2>7. CASE BeginFunctors BY <2>7 DEF BeginFunctors
  <2>8. CASE SwapFunctors BY <2>8 DEF SwapFunctors
  <2>9. CASE RunFunctor BY <2>9 DEF RunFunctor
  <2>10. CASE EndFunctors BY <2>10 DEF EndFunctors
  <2>11. ASSUME NEW t \in Thread, NEW f \in Functor, QueueInLoop(t, f)
         PROVE TypeOK'
    BY <2>11 DEF QueueInLoop, loopVars
  <2>12. ASSUME NEW t \in Thread, Wakeup(t) PROVE TypeOK'
    BY <2>12 DEF Wakeup, loopVars
  <2>13. ASSUME NEW t \in Thread, Quit(t) PROVE TypeOK'
    BY <2>13 DEF Quit, loopVars
  <2>14. CASE UNCHANGED vars BY <2>14 DEF vars
  <2> QED
    BY <2>1, <2>2, <2>3, <2>4, <2>5, <2>6, <2>7, <2>8, <2>9, <2>10, <2>11,
       <2>12, <2>13, <2>14 DEF Next, LoopStep
<1> QED BY <1>1, <1>2, PTL DEF Spec

-----------------------------------------------------------------------------
(***************************************************************************)
(* NoLostWakeup is not inductive: the vector may fill while handlers run   *)
(* (no wakeup is written then, the swap comes after them) and while        *)
(* functors run (a wakeup must be written, the swap is over).  What is     *)
(* kept is: outside the handlers and the swap, pending functors have their *)
(* wakeup written or about to be; and callingPendingFunctors_ is set from  *)
(* the swap to the last functor.                                           *)
(***************************************************************************)
WakeupCovered ==
  pending # <<>> /\ pc \notin {"handle", "swap", "done"} => efd \/ waking # {}

CallingIsRunning == calling <=> pc \in {"swap", "run"}

WakeupInv == WakeupCovered /\ CallingIsRunning

\* A loop that is used only once loop() has been called never sleeps on a
\* functor: no interleaving of queueInLoop(), wakeup(), handleRead() and
\* doPendingFunctors() loses a wakeup.
THEOREM WakeupNotLost == ~EarlyCalls => (Spec => []NoLostWakeup)
<1> SUFFICES ASSUME ~EarlyCalls PROVE Spec => []NoLostWakeup
  OBVIOUS
<1>1. Init => WakeupInv
  BY DEF Init, WakeupInv, WakeupCovered, CallingIsRunning
<1>2. TypeOK /\ WakeupInv /\ [Next]_vars => WakeupInv'
  <2> SUFFICES ASSUME TypeOK, WakeupInv, [Next]_vars PROVE WakeupInv'
    OBVIOUS
  <2> USE DEF TypeOK, WakeupInv, WakeupCovered, CallingIsRunning
  <2>1. CASE StartLoop BY <2>1 DEF StartLoop
  <2>2. CASE TestQuit BY <2>2 DEF TestQuit
  <2>3. ASSUME NEW io \in SUBSET {"io"}, PollReturn(io) PROVE WakeupInv'
    BY <2>3 DEF PollReturn
  <2>4. CASE PollTimeout BY <2>4 DEF PollTimeout
  <2>5. CASE HandleRead BY <2>5 DEF HandleRead
  <2>6. CASE HandleEvent BY <2>6 DEF HandleEvent
  <2>7. CASE BeginFunctors BY <2>7 DEF BeginFunctors
  <2>8. CASE SwapFunctors BY <2>8 DEF SwapFunctors
  <2>9. CASE RunFunctor BY <2>9 DEF RunFunctor
  <2>10. CASE EndFunctors BY <2>10 DEF EndFunctors
  <2>11. ASSUME NEW t \in Thread, NEW f \in Functor, QueueInLoop(t, f)
         PROVE WakeupInv'
    <3>1. UNCHANGED <<pc, calling, efd>>
      BY <2>11 DEF QueueInLoop, loopVars
    <3>2. CASE NeedsWakeup(t)
      BY <2>11, <3>1, <3>2 DEF QueueInLoop
    <3>3. CASE ~NeedsWakeup(t)
      <4>1. t = Loop /\ ~calling
        BY <3>3 DEF NeedsWakeup
      <4>2. InCallback
        BY <2>11, <4>1 DEF QueueInLoop, CanCall
      <4>3. pc = "handle"
        BY <4>1, <4>2 DEF InCallback
      <4> QED BY <3>1, <4>3
    <3> QED BY <3>2, <3>3
  <2>12. ASSUME NEW t \in Thread, Wakeup(t) PROVE WakeupInv'
    BY <2>12 DEF Wakeup, loopVars
  <2>13. ASSUME NEW t \in Thread, Quit(t) PROVE WakeupInv'
    BY <2>13 DEF Quit, loopVars
  <2>14. CASE UNCHANGED vars BY <2>14 DEF vars
  <2> QED
    BY <2>1, <2>2, <2>3, <2>4, <2>5, <2>6, <2>7, <2>8, <2>9, <2>10, <2>11,
       <2>12, <2>13, <2>14 DEF Next, LoopStep
<1>3. WakeupInv => NoLostWakeup
  BY DEF WakeupInv, WakeupCovered, NoLostWakeup
<1> QED BY <1>1, <1>2, <1>3, TypeCorrect, PTL DEF Spec
-----------------------------------------------------------------------------
(* The order of the functors, and the refinement.                          *)

\* Appending the head of t to s and dropping it from t keeps s \o t.
LEMMA MoveHead ==
  ASSUME NEW S, NEW s \in Seq(S), NEW t \in Seq(S), t # <<>>
  PROVE  Append(s, Head(t)) \o Tail(t) = s \o t
<1>1. Head(t) \in S /\ Tail(t) \in Seq(S) /\ Len(t) \in Nat \ {0}
  BY HeadTailProperties, EmptySeq
<1>2. Append(s, Head(t)) \in Seq(S)
  BY <1>1, AppendProperties
<1>3. /\ Append(s, Head(t)) \o Tail(t) \in Seq(S)
      /\ s \o t \in Seq(S)
      /\ Len(Append(s, Head(t)) \o Tail(t)) = Len(s \o t)
  BY <1>1, <1>2
<1>4. ASSUME NEW i \in 1..Len(s \o t)
      PROVE  (Append(s, Head(t)) \o Tail(t))[i] = (s \o t)[i]
  BY <1>1, <1>2
<1> QED BY <1>3, <1>4, SeqEqual

\* Outside doPendingFunctors() its local vector does not exist.
OrderInv == FunctorsInOrder /\ (pc # "run" => functors = <<>>)

\* Functors are neither lost nor duplicated nor reordered between
\* queueInLoop() and their call, whoever posts them and whenever.
THEOREM FunctorsKeepOrder == Spec => []FunctorsInOrder
<1>1. Init => OrderInv
  BY EmptySeq DEF Init, OrderInv, FunctorsInOrder
<1>2. TypeOK /\ OrderInv /\ [Next]_vars => OrderInv'
  <2> SUFFICES ASSUME TypeOK, OrderInv, [Next]_vars PROVE OrderInv'
    OBVIOUS
  <2> USE DEF OrderInv, FunctorsInOrder
  <2>0. /\ pending \in Seq(Functor) /\ functors \in Seq(Functor)
        /\ ran \in Seq(Functor) /\ posted \in Seq(Functor)
    BY DEF TypeOK
  <2>1. CASE StartLoop BY <2>1 DEF StartLoop
  <2>2. CASE TestQuit BY <2>2 DEF TestQuit
  <2>3. ASSUME NEW io \in SUBSET {"io"}, PollReturn(io) PROVE OrderInv'
    BY <2>3 DEF PollReturn
  <2>4. CASE PollTimeout BY <2>4 DEF PollTimeout
  <2>5. CASE HandleRead BY <2>5 DEF HandleRead
  <2>6. CASE HandleEvent BY <2>6 DEF HandleEvent
  <2>7. CASE BeginFunctors BY <2>7 DEF BeginFunctors
  <2>8. CASE SwapFunctors
    <3>1. posted = ran \o pending
      BY <2>0, <2>8, ConcatEmptySeq DEF SwapFunctors
    <3>2. (ran \o pending) \o <<>> = ran \o pending
      BY <2>0, ConcatProperties, ConcatEmptySeq
    <3> QED BY <2>8, <3>1, <3>2 DEF SwapFunctors
  <2>9. CASE RunFunctor
    BY <2>0, <2>9, MoveHead DEF RunFunctor
  <2>10. CASE EndFunctors BY <2>10 DEF EndFunctors
  <2>11. ASSUME NEW t \in Thread, NEW f \in Functor, QueueInLoop(t, f)
         PROVE OrderInv'
    <3>1. ran \o functors \in Seq(Functor) /\ <<f>> \in Seq(Functor)
      BY <2>0
    <3>2. posted \o <<f>> = ran \o functors \o (pending \o <<f>>)
      BY <2>0, <3>1, ConcatAssociative
    <3>3. posted' = posted \o <<f>> /\ pending' = pending \o <<f>>
      BY <2>0, <2>11, AppendIsConcat DEF QueueInLoop
    <3> QED BY <2>11, <3>2, <3>3 DEF QueueInLoop, loopVars
  <2>12. ASSUME NEW t \in Thread, Wakeup(t) PROVE OrderInv'
    BY <2>12 DEF Wakeup, loopVars
  <2>13. ASSUME NEW t \in Thread, Quit(t) PROVE OrderInv'
    BY <2>13 DEF Quit, loopVars
  <2>14. CASE UNCHANGED vars BY <2>14 DEF vars
  <2> QED
    BY <2>1, <2>2, <2>3, <2>4, <2>5, <2>6, <2>7, <2>8, <2>9, <2>10, <2>11,
       <2>12, <2>13, <2>14 DEF Next, LoopStep
<1>3. OrderInv => FunctorsInOrder
  BY DEF OrderInv
<1> QED BY <1>1, <1>2, <1>3, TypeCorrect, PTL DEF Spec

\* Seen through posted, ran and the end of loop(), the loop is an executor:
\* every step of every thread accepts one functor, executes the next one in
\* turn, stops for good, or changes nothing that a caller could observe.
THEOREM Refinement == Spec => ImplementsExecutor
<1> USE DEF Exec!Spec, ImplementsExecutor
<1>1. Init => Exec!Init
  BY DEF Init, Exec!Init
<1>2. TypeOK /\ FunctorsInOrder /\ [Next]_vars => [Exec!Next]_(Exec!vars)
  <2> SUFFICES ASSUME TypeOK, FunctorsInOrder, [Next]_vars
               PROVE  Exec!Next \/ UNCHANGED Exec!vars
    OBVIOUS
  <2> USE DEF Exec!vars
  <2>1. CASE StartLoop BY <2>1 DEF StartLoop
  <2>2. CASE TestQuit
    <3>1. CASE quit
      BY <2>2, <3>1 DEF TestQuit, Exec!Next, Exec!Stop
    <3>2. CASE ~quit
      BY <2>2, <3>2 DEF TestQuit
    <3> QED BY <3>1, <3>2
  <2>3. ASSUME NEW io \in SUBSET {"io"}, PollReturn(io)
        PROVE  UNCHANGED Exec!vars
    BY <2>3 DEF PollReturn
  <2>4. CASE PollTimeout BY <2>4 DEF PollTimeout
  <2>5. CASE HandleRead BY <2>5 DEF HandleRead
  <2>6. CASE HandleEvent BY <2>6 DEF HandleEvent
  <2>7. CASE BeginFunctors BY <2>7 DEF BeginFunctors
  <2>8. CASE SwapFunctors BY <2>8 DEF SwapFunctors
  <2>9. CASE RunFunctor
    <3>1. Len(ran) < Len(posted) /\ posted[Len(ran) + 1] = Head(functors)
      <4>1. functors # <<>> BY <2>9 DEF RunFunctor
      <4>2. Len(functors) \in Nat \ {0} BY <4>1, EmptySeq DEF TypeOK
      <4>3. /\ ran \o functors \in Seq(Functor)
            /\ Len(ran \o functors) = Len(ran) + Len(functors)
            /\ (ran \o functors)[Len(ran) + 1] = functors[1]
        BY <4>2, ConcatProperties DEF TypeOK
      <4> QED
        BY <4>1, <4>2, <4>3, ConcatProperties DEF TypeOK, FunctorsInOrder
    <3>2. Exec!Execute
      BY <2>9, <3>1 DEF RunFunctor, Exec!Execute
    <3> QED BY <3>2 DEF Exec!Next
  <2>10. CASE EndFunctors BY <2>10 DEF EndFunctors
  <2>11. ASSUME NEW t \in Thread, NEW f \in Functor, QueueInLoop(t, f)
         PROVE  Exec!Next
    BY <2>11 DEF QueueInLoop, loopVars, Exec!Next, Exec!Accept
  <2>12. ASSUME NEW t \in Thread, Wakeup(t) PROVE UNCHANGED Exec!vars
    BY <2>12 DEF Wakeup, loopVars
  <2>13. ASSUME NEW t \in Thread, Quit(t) PROVE UNCHANGED Exec!vars
    BY <2>13 DEF Quit, loopVars
  <2>14. CASE UNCHANGED vars BY <2>14 DEF vars
  <2> QED
    BY <2>1, <2>2, <2>3, <2>4, <2>5, <2>6, <2>7, <2>8, <2>9, <2>10, <2>11,
       <2>12, <2>13, <2>14 DEF Next, LoopStep
<1> QED BY <1>1, <1>2, TypeCorrect, FunctorsKeepOrder, PTL DEF Spec
=============================================================================
