----------------------------- MODULE ServerLife -----------------------------
(***************************************************************************)
(* The beginning and the end of a TcpServer with io threads: how           *)
(* EventLoopThreadPool::start(), EventLoopThread::startLoop() and          *)
(* Thread::start() hand the address of a loop on another thread's stack to *)
(* the main thread, and how ~TcpServer, ~EventLoopThread and the threads   *)
(* take everything down again while connections are up.                    *)
(*                                                                         *)
(* The main thread runs the base loop; closing and removing connections in *)
(* between is reduced to what the end of the server needs (TcpServer has   *)
(* the details).  queueInLoop() is one step here: EventLoop shows that its *)
(* wakeup is not lost once loop() runs, and the main thread's calls always *)
(* write to the eventfd.                                                   *)
(***************************************************************************)
EXTENDS Naturals, Sequences, SequencesExt

CONSTANTS N,         \* numThreads_
          Conn,      \* connections
          EarlyQuit  \* the base loop may end before every io thread is in loop()

ASSUME LifeAssumption == N \in Nat \ {0} /\ EarlyQuit \in BOOLEAN

Io == 1..N

VARIABLES
  main,         \* the main thread: where it is, and which EventLoopThread
  pc,           \* where each io thread is, "none" before it is created
  sem,          \* the semaphore of Thread::start()
  loopPtr,      \* loop_ of each EventLoopThread is not null
  alive,        \* the EventLoop object on the thread's stack exists
  quit,         \* quit_ of each loop
  wake,         \* its eventfd is readable
  pending,      \* its pendingFunctors_
  batch,        \* the swapped vector
  loops,        \* loops_ of the pool: threads whose loop was published
  next,         \* next_ of the pool (from 1)
  connections,  \* connections_ of TcpServer
  removals,     \* removeConnectionInLoop() calls queued in the base loop
  conn          \* the connections: loop_, state_ and the callbacks made

vars == <<main, pc, sem, loopPtr, alive, quit, wake, pending, batch, loops,
          next, connections, removals, conn>>
threadVars == <<pc, sem, loopPtr, alive>>
loopVars == <<quit, wake, pending, batch>>
serverVars == <<loops, next, connections, removals>>

Looping == {"test", "poll", "swap", "run"}

Functor == [op : {"established", "destroyed"}, conn : Conn]

TypeOK ==
  /\ main \in [pc : {"create", "sem_wait", "lock", "blocked", "serve",
                     "closing", "quit", "tell", "wakeup", "join", "gone"},
               i : Io]
  /\ pc \in [Io -> {"none", "post", "construct", "publish", "enter", "leave",
                    "unwind", "ended"} \union Looping]
  /\ sem \in [Io -> 0..1]
  /\ {loopPtr, alive, quit, wake} \subseteq [Io -> BOOLEAN]
  /\ {pending, batch} \subseteq [Io -> Seq(Functor)]
  /\ loops \in Seq(Io) /\ next \in Io
  /\ connections \subseteq Conn
  /\ removals \in Seq(Conn)
  /\ conn \in [Conn -> [owner : Io, ups : Nat, downs : Nat,
                        state : {"none", "kConnecting", "kConnected",
                                 "kDisconnected"}]]

Init ==
  /\ main = [pc |-> "create", i |-> 1]
  /\ pc = [i \in Io |-> "none"]
  /\ sem = [i \in Io |-> 0]
  /\ loopPtr = [i \in Io |-> FALSE]
  /\ alive = [i \in Io |-> FALSE]
  /\ quit = [i \in Io |-> FALSE]
  /\ wake = [i \in Io |-> FALSE]
  /\ pending = [i \in Io |-> <<>>]
  /\ batch = [i \in Io |-> <<>>]
  /\ loops = <<>>
  /\ next = 1
  /\ connections = {}
  /\ removals = <<>>
  /\ conn = [c \in Conn |-> [owner |-> 1, ups |-> 0, downs |-> 0,
                             state |-> "none"]]

-----------------------------------------------------------------------------
(* EventLoopThreadPool::start(), in the main thread.                       *)

Goto(p) == main' = [main EXCEPT !.pc = p]

\* The next EventLoopThread, or on to where p leads after the last one.
Advance(same, p) ==
  main' = IF main.i < N THEN [pc |-> same, i |-> main.i + 1]
          ELSE [pc |-> p, i |-> 1]

\* new EventLoopThread, and Thread::start() up to the semaphore
ThreadStart ==
  /\ main.pc = "create"
  /\ pc' = [pc EXCEPT ![main.i] = "post"]
  /\ Goto("sem_wait")
  /\ UNCHANGED <<sem, loopPtr, alive, loopVars, serverVars, conn>>

SemWait ==
  /\ main.pc = "sem_wait" /\ sem[main.i] > 0
  /\ sem' = [sem EXCEPT ![main.i] = @ - 1]
  /\ Goto("lock")
  /\ UNCHANGED <<pc, loopPtr, alive, loopVars, serverVars, conn>>

TestLoopWaitsFirst ==
  /\ main.pc = "lock"
  /\ Goto("blocked")
  /\ UNCHANGED <<threadVars, loopVars, serverVars, conn>>

TestLoopOnce ==
  /\ main.pc = "lock"
  /\ loops' = Append(loops, main.i)
  /\ Advance("create", "serve")
  /\ UNCHANGED <<threadVars, loopVars, next, connections, removals, conn>>

\* while (loop_ == nullptr) cond_.wait(lock): the test and going to sleep are
\* one step, since the mutex is given up in wait() only.
TestLoop ==
  /\ main.pc = "lock"
  /\ \/ /\ loopPtr[main.i]
        /\ loops' = Append(loops, main.i)
        /\ Advance("create", "serve")
     \/ /\ ~loopPtr[main.i]
        /\ Goto("blocked")
        /\ UNCHANGED loops
  /\ UNCHANGED <<threadVars, loopVars, next, connections, removals, conn>>

\* A condition variable may wake up without being notified.
SpuriousWakeup ==
  /\ main.pc = "blocked"
  /\ Goto("lock")
  /\ UNCHANGED <<threadVars, loopVars, serverVars, conn>>

-----------------------------------------------------------------------------
(* An io thread: Thread's lambda, EventLoopThread::threadFunc(), loop().   *)

\* tid_ is set, then sem_post().
IoPost(i) ==
  /\ pc[i] = "post"
  /\ sem' = [sem EXCEPT ![i] = @ + 1]
  /\ pc' = [pc EXCEPT ![i] = "construct"]
  /\ UNCHANGED <<main, loopPtr, alive, loopVars, serverVars, conn>>

\* EventLoop loop; callback_(&loop)
IoConstruct(i) ==
  /\ pc[i] = "construct"
  /\ alive' = [alive EXCEPT ![i] = TRUE]
  /\ pc' = [pc EXCEPT ![i] = "publish"]
  /\ UNCHANGED <<main, sem, loopPtr, loopVars, serverVars, conn>>

\* loop_ = &loop and notify_one(), under the mutex
IoPublish(i) ==
  /\ pc[i] = "publish"
  /\ loopPtr' = [loopPtr EXCEPT ![i] = TRUE]
  /\ pc' = [pc EXCEPT ![i] = "enter"]
  /\ main' = IF main.pc = "blocked" /\ main.i = i
             THEN [main EXCEPT !.pc = "lock"] ELSE main
  /\ UNCHANGED <<sem, alive, loopVars, serverVars, conn>>

\* loop() begins with quit_ = false.
IoEnter(i) ==
  /\ pc[i] = "enter"
  /\ quit' = [quit EXCEPT ![i] = FALSE]
  /\ pc' = [pc EXCEPT ![i] = "test"]
  /\ UNCHANGED <<main, sem, loopPtr, alive, wake, pending, batch, serverVars,
                 conn>>

IoTest(i) ==
  /\ pc[i] = "test"
  /\ pc' = [pc EXCEPT ![i] = IF quit[i] THEN "leave" ELSE "poll"]
  /\ UNCHANGED <<main, sem, loopPtr, alive, loopVars, serverVars, conn>>

\* epoll_wait() returns for the eventfd; handleRead() empties it.
IoWake(i) ==
  /\ pc[i] = "poll" /\ wake[i]
  /\ wake' = [wake EXCEPT ![i] = FALSE]
  /\ pc' = [pc EXCEPT ![i] = "swap"]
  /\ UNCHANGED <<main, sem, loopPtr, alive, quit, pending, batch, serverVars,
                 conn>>

\* setState() and connectionCallback_ of handleClose()
HandleClose(k) == [k EXCEPT !.state = "kDisconnected", !.downs = @ + 1]

\* ... or because a peer has closed: handleClose(), whose closeCallback_ puts
\* removeConnectionInLoop() into the base loop, running or not.
IoClose(i, c) ==
  /\ pc[i] = "poll"
  /\ conn[c].owner = i /\ conn[c].state = "kConnected"
  /\ conn' = [conn EXCEPT ![c] = HandleClose(@)]
  /\ removals' = Append(removals, c)
  /\ pc' = [pc EXCEPT ![i] = "swap"]
  /\ UNCHANGED <<main, sem, loopPtr, alive, loopVars, loops, next, connections>>

IoSwap(i) ==
  /\ pc[i] = "swap"
  /\ batch' = [batch EXCEPT ![i] = pending[i]]
  /\ pending' = [pending EXCEPT ![i] = <<>>]
  /\ pc' = [pc EXCEPT ![i] = "run"]
  /\ UNCHANGED <<main, sem, loopPtr, alive, quit, wake, serverVars, conn>>

ConnectEstablished(k) == [k EXCEPT !.state = "kConnected", !.ups = @ + 1]

ConnectDestroyedAlways(k) ==
  [k EXCEPT !.state = "kDisconnected", !.downs = @ + 1]

ConnectDestroyed(k) ==
  IF k.state = "kConnected"
  THEN [k EXCEPT !.state = "kDisconnected", !.downs = @ + 1] ELSE k

IoRun(i) ==
  /\ pc[i] = "run" /\ batch[i] # <<>>
  /\ LET f == Head(batch[i])
     IN  conn' = [conn EXCEPT ![f.conn] = IF f.op = "established"
                                          THEN ConnectEstablished(@)
                                          ELSE ConnectDestroyed(@)]
  /\ batch' = [batch EXCEPT ![i] = Tail(@)]
  /\ UNCHANGED <<main, threadVars, quit, wake, pending, serverVars>>

IoEndRun(i) ==
  /\ pc[i] = "run" /\ batch[i] = <<>>
  /\ pc' = [pc EXCEPT ![i] = "test"]
  /\ UNCHANGED <<main, sem, loopPtr, alive, loopVars, serverVars, conn>>

\* After loop(): loop_ = nullptr, under the mutex of the EventLoopThread
IoLeave(i) ==
  /\ pc[i] = "leave"
  /\ loopPtr' = [loopPtr EXCEPT ![i] = FALSE]
  /\ pc' = [pc EXCEPT ![i] = "unwind"]
  /\ UNCHANGED <<main, sem, alive, loopVars, serverVars, conn>>

\* ~EventLoop: functors that were never run are destroyed with it.
IoUnwind(i) ==
  /\ pc[i] = "unwind"
  /\ alive' = [alive EXCEPT ![i] = FALSE]
  /\ pending' = [pending EXCEPT ![i] = <<>>]
  /\ pc' = [pc EXCEPT ![i] = "ended"]
  /\ UNCHANGED <<main, sem, loopPtr, quit, wake, batch, serverVars, conn>>

-----------------------------------------------------------------------------
(* The base loop, in the main thread.                                      *)

\* queueInLoop() called by the main thread
QueueInLoop(i, op, c) ==
  /\ pending' = [pending EXCEPT ![i] = Append(@, [op |-> op, conn |-> c])]
  /\ wake' = [wake EXCEPT ![i] = TRUE]

AdvanceNext == IF next >= Len(loops) THEN 1 ELSE next + 1

\* The constructor of TcpConnection, with the loop that was chosen
Construct(k, i) == [k EXCEPT !.state = "kConnecting", !.owner = i]

\* newConnection(); getNextLoop() takes the loops in turn.
NewConnection(c) ==
  /\ main.pc = "serve" /\ conn[c].state = "none"
  /\ LET i == loops[next]
     IN /\ conn' = [conn EXCEPT ![c] = Construct(@, i)]
        /\ QueueInLoop(i, "established", c)
  /\ next' = AdvanceNext
  /\ connections' = connections \union {c}
  /\ UNCHANGED <<main, threadVars, quit, batch, loops, removals>>

\* removeConnectionInLoop()
RemoveConnectionInLoop ==
  /\ main.pc = "serve" /\ removals # <<>>
  /\ connections' = connections \ {Head(removals)}
  /\ QueueInLoop(conn[Head(removals)].owner, "destroyed", Head(removals))
  /\ removals' = Tail(removals)
  /\ UNCHANGED <<main, threadVars, quit, batch, loops, next, conn>>

\* The base loop's loop() returns and the TcpServer goes out of scope.
QuitBase ==
  /\ main.pc = "serve"
  /\ EarlyQuit \/ \A i \in Io : pc[i] \in Looping
  /\ Goto("closing")
  /\ UNCHANGED <<threadVars, loopVars, serverVars, conn>>

-----------------------------------------------------------------------------
(* ~TcpServer, its members, and ~EventLoopThread for each thread.          *)

CloseConnection(c) ==
  /\ main.pc = "closing" /\ c \in connections
  /\ connections' = connections \ {c}
  /\ QueueInLoop(conn[c].owner, "destroyed", c)
  /\ UNCHANGED <<main, threadVars, quit, batch, loops, next, removals, conn>>

EndClosing ==
  /\ main.pc = "closing" /\ connections = {}
  /\ Goto("quit")
  /\ UNCHANGED <<threadVars, loopVars, serverVars, conn>>

\* ~EventLoopThread: loop_ is tested, without the mutex; were it null, the thread
\* would only be detached, by ~Thread.
StopThread ==
  /\ main.pc = "quit"
  /\ IF loopPtr[main.i] THEN Goto("tell") ELSE Advance("quit", "gone")
  /\ UNCHANGED <<threadVars, loopVars, serverVars, conn>>

\* quit() of the base thread: quit_ = true ...
SetQuit ==
  /\ main.pc = "tell"
  /\ quit' = [quit EXCEPT ![main.i] = TRUE]
  /\ Goto("wakeup")
  /\ UNCHANGED <<threadVars, wake, pending, batch, serverVars, conn>>

WakeupNobody ==
  /\ main.pc = "wakeup"
  /\ Goto("join")
  /\ UNCHANGED <<threadVars, loopVars, serverVars, conn>>

WakeupNoJoin ==
  /\ main.pc = "wakeup"
  /\ wake' = [wake EXCEPT ![main.i] = @ \/ alive[main.i]]
  /\ Advance("quit", "gone")
  /\ UNCHANGED <<threadVars, quit, pending, batch, serverVars, conn>>

\* ... then isInLoopThread() and wakeup().  A thread that was awake may have seen
\* quit_ and left: they then read members of an EventLoop that is destroyed, and
\* write() to a descriptor that is closed wakes nobody.
Wakeup ==
  /\ main.pc = "wakeup"
  /\ wake' = [wake EXCEPT ![main.i] = @ \/ alive[main.i]]
  /\ Goto("join")
  /\ UNCHANGED <<threadVars, quit, pending, batch, serverVars, conn>>

Join ==
  /\ main.pc = "join" /\ pc[main.i] = "ended"
  /\ Advance("quit", "gone")
  /\ UNCHANGED <<threadVars, loopVars, serverVars, conn>>

-----------------------------------------------------------------------------
MainStep ==
  \/ ThreadStart \/ SemWait \/ TestLoop
  \/ RemoveConnectionInLoop
  \/ (\E c \in Conn : CloseConnection(c)) \/ EndClosing
  \/ StopThread \/ SetQuit \/ Wakeup \/ Join

IoStep(i) ==
  \/ IoPost(i) \/ IoConstruct(i) \/ IoPublish(i) \/ IoEnter(i) \/ IoTest(i)
  \/ IoWake(i) \/ IoSwap(i) \/ IoRun(i) \/ IoEndRun(i)
  \/ IoLeave(i) \/ IoUnwind(i)

Next ==
  \/ MainStep \/ SpuriousWakeup \/ QuitBase
  \/ \E c \in Conn : NewConnection(c)
  \/ \E i \in Io : IoStep(i) \/ \E c \in Conn : IoClose(i, c)

Spec == Init /\ [][Next]_vars

\* The threads run and callbacks return.  Neither spurious wakeups, nor peers,
\* nor the end of the base loop are owed.
Fairness == WF_vars(MainStep) /\ \A i \in Io : WF_vars(IoStep(i))

FairSpec == Spec /\ Fairness

-----------------------------------------------------------------------------
(* Properties.                                                             *)

\* A loop whose address the pool has is there whenever the main thread may use
\* that address: to queue a functor, and to set quit_ (startLoop() returns only a
\* published loop, and no thread leaves its loop before it is told to).  What
\* quit() does after that is not included: the loop may be gone in "wakeup".
\* No variable leaves its type; loops has no null entry.
PublishedLoopLives ==
  /\ TypeOK
  /\ \A i \in Range(loops) :
       \/ main.pc \in {"create", "sem_wait", "lock", "blocked", "serve", "closing"}
       \/ main.pc \in {"quit", "tell"} /\ i >= main.i
       \/ main.pc \in {"wakeup", "join"} /\ i > main.i
       => alive[i] /\ loopPtr[i]

\* An EventLoopThread, whose mutex_ and loop_ its thread uses until the end, is
\* destroyed only when that thread has ended.
NoOrphanThread ==
  \A i \in Io :
    \/ main.pc = "gone"
    \/ main.pc \in {"quit", "tell", "wakeup", "join"} /\ i < main.i
      => pc[i] = "ended"

\* Whatever meets at the end, a close, its removal, ~TcpServer: a connection
\* is announced up at most once and down at most once, down after up.
UpThenDownOnce ==
  \A c \in Conn : conn[c].downs <= conn[c].ups /\ conn[c].ups <= 1

\* start() returns: neither the semaphore nor the condition variable is waited
\* for in vain, whichever thread comes first.
StartReturns == <>(main.pc = "serve")

\* Once the base loop has ended, all threads are stopped and joined and
\* ~TcpServer returns, with connections up or not.
ServerEnds == main.pc = "closing" ~> main.pc = "gone"
=============================================================================
