----------------------------- MODULE EventLoop ------------------------------
(***************************************************************************)
(* One EventLoop of MyMuduo (EventLoop.cc): the thread that runs loop(),   *)
(* and the other threads that call queueInLoop(), runInLoop() and quit().  *)
(*                                                                         *)
(* The mutex-protected push and the write to the eventfd that follows it   *)
(* are two steps, so a thread can be overtaken between them.  A callback   *)
(* (a channel's handler or a functor) lasts from the moment it is at the   *)
(* head of its list to the step that removes it; meanwhile it may call     *)
(* queueInLoop() and quit() on its own loop.                               *)
(***************************************************************************)
EXTENDS Naturals, Sequences

CONSTANTS Thread,      \* every thread that uses the loop
          Loop,        \* the thread that created it and runs loop()
          Functor,     \* the callbacks handed to queueInLoop()
          MaxPosts,    \* bound: functors handed over in a behaviour
          EarlyCalls   \* the loop is also used before loop() is called: its
                       \* own thread queues functors, others call quit()

ASSUME LoopAssumption ==
  Loop \in Thread /\ MaxPosts \in Nat /\ EarlyCalls \in BOOLEAN

VARIABLES
  pc,         \* where the loop thread is in loop()
  active,     \* activeChannels_ still to be handled: "wakeup" is
              \* wakeupChannel_, "io" any other channel
  pending,    \* pendingFunctors_
  functors,   \* the local vector of doPendingFunctors(), still to be called
  calling,    \* callingPendingFunctors_
  quit,       \* quit_
  looping,    \* looping_
  efd,        \* the counter of wakeupFd_ is positive: the eventfd is readable
  waking,     \* threads that have decided to call wakeup(), before write()
  posted,     \* history: all functors pushed, in order
  ran,        \* history: all functors that have returned, in order
  quitCalled  \* history: quit() has been called

loopVars == <<pc, active, functors, calling, looping>>
vars == <<pc, active, pending, functors, calling, quit, looping, efd, waking,
          posted, ran, quitCalled>>

TypeOK ==
  /\ pc \in {"init", "test", "poll", "handle", "swap", "run", "done"}
  /\ active \in SUBSET {"wakeup", "io"}
  /\ pending \in Seq(Functor)
  /\ functors \in Seq(Functor)
  /\ calling \in BOOLEAN
  /\ quit \in BOOLEAN
  /\ looping = (pc \notin {"init", "done"})
  /\ efd \in BOOLEAN
  /\ waking \in SUBSET Thread
  /\ posted \in Seq(Functor)
  /\ ran \in Seq(Functor)
  /\ quitCalled \in BOOLEAN

Init ==
  /\ pc = "init"
  /\ active = {}
  /\ pending = <<>>
  /\ functors = <<>>
  /\ calling = FALSE
  /\ quit = FALSE
  /\ looping = FALSE
  /\ efd = FALSE
  /\ waking = {}
  /\ posted = <<>>
  /\ ran = <<>>
  /\ quitCalled = FALSE

-----------------------------------------------------------------------------
(* The loop thread.  It is busy while it still has to write its own wakeup. *)

LoopFree == Loop \notin waking

StartLoop ==
  /\ pc = "init" /\ LoopFree
  /\ pc' = "test"
  /\ looping' = TRUE
  /\ quit' = FALSE
  /\ UNCHANGED <<active, pending, functors, calling, efd, waking, posted, ran,
                 quitCalled>>

\* while (!quit_), activeChannels_.clear(), and looping_ = false at the end
TestQuit ==
  /\ pc = "test"
  /\ active' = {}
  /\ pc' = IF quit THEN "done" ELSE "poll"
  /\ looping' = ~quit
  /\ UNCHANGED <<pending, functors, calling, quit, efd, waking, posted, ran,
                 quitCalled>>

\* epoll_wait() returns because of the eventfd, of other channels, or of both.
PollReturn(io) ==
  /\ pc = "poll"
  /\ active' = io \union (IF efd THEN {"wakeup"} ELSE {})
  /\ active' # {}
  /\ pc' = "handle"
  /\ UNCHANGED <<pending, functors, calling, quit, looping, efd, waking,
                 posted, ran, quitCalled>>

\* epoll_wait() returns nothing after kPollTimeMs.
PollTimeout ==
  /\ pc = "poll" /\ ~efd
  /\ active' = {}
  /\ pc' = "handle"
  /\ UNCHANGED <<pending, functors, calling, quit, looping, efd, waking,
                 posted, ran, quitCalled>>

\* The read callback of wakeupChannel_: one read() resets the counter.
HandleRead ==
  /\ pc = "handle" /\ LoopFree
  /\ "wakeup" \in active
  /\ efd' = FALSE
  /\ active' = active \ {"wakeup"}
  /\ UNCHANGED <<pc, pending, functors, calling, quit, looping, waking,
                 posted, ran, quitCalled>>

\* The callback of another channel returns.
HandleEvent ==
  /\ pc = "handle" /\ LoopFree
  /\ "io" \in active
  /\ active' = active \ {"io"}
  /\ UNCHANGED <<pc, pending, functors, calling, quit, looping, efd, waking,
                 posted, ran, quitCalled>>

\* doPendingFunctors() is entered.
BeginFunctors ==
  /\ pc = "handle" /\ active = {}
  /\ calling' = TRUE
  /\ pc' = "swap"
  /\ UNCHANGED <<active, pending, functors, quit, looping, efd, waking,
                 posted, ran, quitCalled>>

SwapLeavesCopy ==
  /\ pc = "swap"
  /\ functors' = pending
  /\ pc' = "run"
  /\ UNCHANGED <<active, pending, calling, quit, looping, efd, waking, posted,
                 ran, quitCalled>>

\* functors.swap(pendingFunctors_), under the mutex
SwapFunctors ==
  /\ pc = "swap"
  /\ functors' = pending
  /\ pending' = <<>>
  /\ pc' = "run"
  /\ UNCHANGED <<active, calling, quit, looping, efd, waking, posted, ran,
                 quitCalled>>

RunLastFunctor ==
  /\ pc = "run" /\ LoopFree
  /\ functors # <<>>
  /\ ran' = Append(ran, functors[Len(functors)])
  /\ functors' = SubSeq(functors, 1, Len(functors) - 1)
  /\ UNCHANGED <<pc, active, pending, calling, quit, looping, efd, waking,
                 posted, quitCalled>>

RunFunctor ==
  /\ pc = "run" /\ LoopFree
  /\ functors # <<>>
  /\ ran' = Append(ran, Head(functors))
  /\ functors' = Tail(functors)
  /\ UNCHANGED <<pc, active, pending, calling, quit, looping, efd, waking,
                 posted, quitCalled>>

EndFunctors ==
  /\ pc = "run" /\ LoopFree
  /\ functors = <<>>
  /\ calling' = FALSE
  /\ pc' = "test"
  /\ UNCHANGED <<active, pending, functors, quit, looping, efd, waking,
                 posted, ran, quitCalled>>

-----------------------------------------------------------------------------
(* What any thread may call.                                               *)

\* The loop thread calls from a callback of its own, or before loop().
InCallback ==
  \/ pc = "handle" /\ "io" \in active
  \/ pc = "run" /\ functors # <<>>
  \/ pc = "init" /\ EarlyCalls

CanCall(t) == t \notin waking /\ (t = Loop => InCallback)

NeedsWakeupOnlyForeign(t) == t # Loop

\* !isInloopThread() || callingPendingFunctors_
NeedsWakeup(t) == t # Loop \/ calling

\* queueInLoop(), and runInLoop() called by another thread
QueueInLoop(t, f) ==
  /\ CanCall(t)
  /\ Len(posted) < MaxPosts
  /\ pending' = Append(pending, f)
  /\ posted' = Append(posted, f)
  /\ waking' = IF NeedsWakeup(t) THEN waking \union {t} ELSE waking
  /\ UNCHANGED <<loopVars, quit, efd, ran, quitCalled>>

\* write(wakeupFd_, 1)
Wakeup(t) ==
  /\ t \in waking
  /\ efd' = TRUE
  /\ waking' = waking \ {t}
  /\ UNCHANGED <<loopVars, pending, quit, posted, ran, quitCalled>>

QuitSilently(t) ==
  /\ CanCall(t)
  /\ pc = "init" => EarlyCalls /\ t # Loop
  /\ quit' = TRUE
  /\ quitCalled' = TRUE
  /\ UNCHANGED <<loopVars, pending, efd, waking, posted, ran>>

Quit(t) ==
  /\ CanCall(t)
  /\ pc = "init" => EarlyCalls /\ t # Loop
  /\ quit' = TRUE
  /\ quitCalled' = TRUE
  /\ waking' = IF t # Loop THEN waking \union {t} ELSE waking
  /\ UNCHANGED <<loopVars, pending, efd, posted, ran>>

-----------------------------------------------------------------------------
\* The steps the loop thread takes by itself as soon as it can.
LoopStep ==
  \/ StartLoop \/ TestQuit \/ HandleRead \/ HandleEvent
  \/ BeginFunctors \/ SwapFunctors \/ RunFunctor \/ EndFunctors

Next ==
  \/ LoopStep
  \/ \E io \in SUBSET {"io"} : PollReturn(io)
  \/ PollTimeout
  \/ \E t \in Thread :
       \/ \E f \in Functor : QueueInLoop(t, f)
       \/ Wakeup(t)
       \/ Quit(t)

Spec == Init /\ [][Next]_vars

(***************************************************************************)
(* Fairness: the loop thread keeps running (its callbacks return), a       *)
(* readable eventfd ends epoll_wait(), and a thread that has decided to    *)
(* call wakeup() reaches write().  Nothing is assumed of other channels'   *)
(* events, of the poll's time limit or of anyone calling anything.         *)
(***************************************************************************)
Fairness ==
  /\ WF_vars(LoopStep)
  /\ WF_vars(efd /\ \E io \in SUBSET {"io"} : PollReturn(io))
  /\ \A t \in Thread : WF_vars(Wakeup(t))

\* epoll_wait() also gives up after kPollTimeMs (10 s).
TimeoutFairness == WF_vars(PollTimeout)

FairSpec == Spec /\ Fairness

FairSpecWithTimeout == Spec /\ Fairness /\ TimeoutFairness

-----------------------------------------------------------------------------
(* Properties.                                                             *)

\* No wakeup is lost: when the loop thread is on its way to epoll_wait() or
\* blocked in it and functors are pending, the eventfd is readable or some
\* thread is about to write to it; so epoll_wait() does not sleep its 10 s
\* on a functor (queueInLoop, wakeup, doPendingFunctors).
NoLostWakeup ==
  pc \in {"test", "poll"} /\ pending # <<>> => efd \/ waking # {}

\* Every functor handed over is in exactly one place and in its turn: what
\* has run, the swapped vector and the pending vector are, in this order,
\* all that was posted (no loss, no duplicate, no overtaking).
FunctorsInOrder == posted = ran \o functors \o pending

\* The loop implements the abstract executor.
Exec == INSTANCE Executor WITH accepted <- posted, executed <- ran,
                               stopped <- (pc = "done")
ImplementsExecutor == Exec!Spec

\* Every functor handed over runs, unless the loop has been told to quit:
\* without any help from other channels or from the poll's time limit.
PostedRuns ==
  \A n \in 1..MaxPosts :
    Len(posted) >= n ~> (Len(ran) >= n \/ pc = "done")

\* quit() by any thread ends loop() (EventLoop.h: "quit() leaves the event
\* loop"), also when the loop thread sleeps in epoll_wait().
QuitEndsLoop == quitCalled ~> pc = "done"
=============================================================================
