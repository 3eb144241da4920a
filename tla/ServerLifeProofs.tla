-------------------------- MODULE ServerLifeProofs --------------------------
(***************************************************************************)
(* The beginning and the end of a TcpServer, for every number of io        *)
(* threads and every set of connections, whether or not the base loop ends *)
(* early: the main thread uses no loop that is not there, leaves no thread *)
(* behind, and connections are announced once.                             *)
(***************************************************************************)
EXTENDS ServerLife, SequenceTheorems, TLAPS

-----------------------------------------------------------------------------
(* The inductive invariant.                                                *)

Starting == {"create", "sem_wait", "lock", "blocked"}

\* Where a thread is whose loop is published and has not been left.
Up == {"enter"} \union Looping

\* quit() was called for the loop of thread i.
Told(i) ==
  \/ main.pc = "gone"
  \/ main.pc \in {"quit", "tell"} /\ i < main.i
  \/ main.pc \in {"wakeup", "join"} /\ i <= main.i

\* What a thread's place in threadFunc() says about its EventLoop and its
\* semaphore; it leaves the loop only after quit().
ThreadInv ==
  \A i \in Io :
    /\ loopPtr[i] <=> pc[i] \in Up \union {"leave"}
    /\ alive[i] <=> pc[i] \in Up \union {"publish", "leave", "unwind"}
    /\ pc[i] \in {"none", "post"} => sem[i] = 0
    /\ pc[i] \in {"leave", "unwind", "ended"} \/ quit[i] => Told(i)

\* start() creates the threads one after the other and waits for each.
StartInv ==
  /\ main.pc \in Starting =>
       /\ Len(loops) = main.i - 1
       /\ \A i \in Io : i > main.i \/ (i = main.i /\ main.pc = "create")
                          => pc[i] = "none"
  /\ main.pc \notin Starting => Len(loops) = N
  /\ main.pc \in {"serve", "closing"} => main.i = 1
  /\ \A i \in 1..Len(loops) : loops[i] = i
  /\ \A i \in 1..Len(loops) : Told(i) \/ pc[i] \in Up

LifeInv == TypeOK /\ ThreadInv /\ StartInv /\ NoOrphanThread

\* A connection's callbacks and its state_.
StateInv ==
  \A c \in Conn :
    /\ conn[c].state \in {"none", "kConnecting"} => conn[c].ups = 0
    /\ conn[c].state \in {"kConnected", "kDisconnected"} => conn[c].ups = 1
    /\ conn[c].downs = IF conn[c].state = "kDisconnected" THEN 1 ELSE 0

\* The functors of q that run connectEstablished() are for connections that
\* are still kConnecting and belong to loop i.
Waiting(q, i) ==
  \A k \in 1..Len(q) : q[k].op = "established" =>
    conn[q[k].conn].state = "kConnecting" /\ conn[q[k].conn].owner = i

\* No two of them, in one queue or in the two queues of a loop, are for the
\* same connection.
Once(q) ==
  \A k, m \in 1..Len(q) :
    k # m /\ q[k].op = "established" /\ q[m].op = "established"
      => q[k].conn # q[m].conn
Apart(p, b) ==
  \A k \in 1..Len(p), m \in 1..Len(b) :
    p[k].op = "established" /\ b[m].op = "established" => p[k].conn # b[m].conn

\* connectEstablished() is queued in the connection's own loop, once, and only
\* while the connection is kConnecting.
QueueInv ==
  \A i \in Io :
    /\ Once(pending[i]) /\ Once(batch[i]) /\ Apart(pending[i], batch[i])
    /\ Waiting(pending[i], i) /\ Waiting(batch[i], i)

CallbackInv == LifeInv /\ StateInv /\ QueueInv

\* The fields of the types.
LEMMA TypeFacts ==
  ASSUME TypeOK
  PROVE  /\ N \in Nat /\ N > 0 /\ Io = 1..N
         /\ main.i \in Io /\ main.i \in Nat /\ 1 <= main.i /\ main.i <= N
         /\ main \in [pc : {"create", "sem_wait", "lock", "blocked", "serve",
                            "closing", "quit", "tell", "wakeup", "join", "gone"}, i : Io]
         /\ loops \in Seq(Io) /\ Len(loops) \in Nat
         /\ next \in Io
BY LifeAssumption, LenProperties DEF TypeOK, Io

\* Queueing a functor in a loop keeps the types of what it changes.
LEMMA QueueType ==
  ASSUME TypeOK, NEW i \in Io, NEW op \in {"established", "destroyed"},
         NEW c \in Conn, QueueInLoop(i, op, c)
  PROVE  pending' \in [Io -> Seq(Functor)] /\ wake' \in [Io -> BOOLEAN]
<1>1. [op |-> op, conn |-> c] \in Functor
  BY DEF Functor
<1>2. pending \in [Io -> Seq(Functor)] /\ wake \in [Io -> BOOLEAN]
  BY DEF TypeOK
<1>3. Append(pending[i], [op |-> op, conn |-> c]) \in Seq(Functor)
  BY <1>1, <1>2, AppendProperties
<1>4. QED
  BY <1>2, <1>3 DEF QueueInLoop

\* The records of conn.
Record == [owner : Io, ups : Nat, downs : Nat,
           state : {"none", "kConnecting", "kConnected", "kDisconnected"}]

\* What running a functor, a close or newConnection() makes of a connection.
LEMMA RecordChanges ==
  ASSUME NEW k \in Record, NEW i \in Io
  PROVE  /\ ConnectEstablished(k) \in Record
         /\ ConnectEstablished(k).state = "kConnected"
         /\ ConnectEstablished(k).ups = k.ups + 1
         /\ ConnectEstablished(k).downs = k.downs
         /\ ConnectEstablished(k).owner = k.owner
         /\ HandleClose(k) \in Record
         /\ HandleClose(k).state = "kDisconnected"
         /\ HandleClose(k).ups = k.ups
         /\ HandleClose(k).downs = k.downs + 1
         /\ HandleClose(k).owner = k.owner
         /\ Construct(k, i) \in Record
         /\ Construct(k, i).state = "kConnecting"
         /\ Construct(k, i).owner = i
         /\ Construct(k, i).ups = k.ups
         /\ Construct(k, i).downs = k.downs
<1>1. PICK o, u, d, s : k = [owner |-> o, ups |-> u, downs |-> d, state |-> s]
  BY DEF Record
<1>2. /\ o \in Io /\ u \in Nat /\ d \in Nat
      /\ s \in {"none", "kConnecting", "kConnected", "kDisconnected"}
  BY <1>1 DEF Record
<1>3. ConnectEstablished(k) = [owner |-> o, ups |-> u + 1, downs |-> d, state |-> "kConnected"]
  <2>1. PICK m : m = [k EXCEPT !.state = "kConnected"]
    OBVIOUS
  <2>2. m = [owner |-> o, ups |-> u, downs |-> d, state |-> "kConnected"]
    BY <1>1, <2>1
  <2>3. [m EXCEPT !.ups = u + 1]
          = [owner |-> o, ups |-> u + 1, downs |-> d, state |-> "kConnected"]
    BY <2>2
  <2>4. ConnectEstablished(k) = [m EXCEPT !.ups = u + 1]
    <3>1. k.ups = u
      BY <1>1
    <3>2. QED
      BY <2>1, <3>1, Zenon DEF ConnectEstablished
  <2>5. QED
    BY <2>3, <2>4, Zenon
<1>4. HandleClose(k) = [owner |-> o, ups |-> u, downs |-> d + 1, state |-> "kDisconnected"]
  <2>1. PICK m : m = [k EXCEPT !.state = "kDisconnected"]
    OBVIOUS
  <2>2. m = [owner |-> o, ups |-> u, downs |-> d, state |-> "kDisconnected"]
    BY <1>1, <2>1
  <2>3. [m EXCEPT !.downs = d + 1]
          = [owner |-> o, ups |-> u, downs |-> d + 1, state |-> "kDisconnected"]
    BY <2>2
  <2>4. HandleClose(k) = [m EXCEPT !.downs = d + 1]
    <3>1. k.downs = d
      BY <1>1
    <3>2. QED
      BY <2>1, <3>1, Zenon DEF HandleClose
  <2>5. QED
    BY <2>3, <2>4, Zenon
<1>5. Construct(k, i) = [owner |-> i, ups |-> u, downs |-> d, state |-> "kConnecting"]
  <2>1. PICK m : m = [k EXCEPT !.state = "kConnecting"]
    OBVIOUS
  <2>2. m = [owner |-> o, ups |-> u, downs |-> d, state |-> "kConnecting"]
    BY <1>1, <2>1
  <2>3. [m EXCEPT !.owner = i]
          = [owner |-> i, ups |-> u, downs |-> d, state |-> "kConnecting"]
    BY <2>2
  <2>4. QED
    BY <2>1, <2>3, Zenon DEF Construct
<1>6. QED
  BY <1>1, <1>2, <1>3, <1>4, <1>5 DEF Record

\* The places of the main thread.
MainPc == {"create", "sem_wait", "lock", "blocked", "serve", "closing", "quit",
           "tell", "wakeup", "join", "gone"}

\* The main thread goes from place to place, one EventLoopThread at a time.
LEMMA MainMoves ==
  ASSUME TypeOK, NEW p \in MainPc, NEW q \in MainPc
  PROVE  /\ Goto(p) => /\ main' \in [pc : MainPc, i : Io]
                       /\ main'.pc = p /\ main'.i = main.i
         /\ Advance(p, q) =>
              /\ main' \in [pc : MainPc, i : Io]
              /\ main.i < N => main'.pc = p /\ main'.i = main.i + 1
              /\ main.i = N => main'.pc = q /\ main'.i = 1
<1>1. /\ N \in Nat /\ N > 0 /\ Io = 1..N /\ main.i \in Io
      /\ main \in [pc : MainPc, i : Io]
  BY TypeFacts DEF MainPc
<1>2. PICK a \in MainPc, j \in Io : main = [pc |-> a, i |-> j]
  BY <1>1
<1>3. Goto(p) => main' = [pc |-> p, i |-> j]
  BY <1>2 DEF Goto
<1>4. Advance(p, q) => main' = IF j < N THEN [pc |-> p, i |-> j + 1]
                               ELSE [pc |-> q, i |-> 1]
  BY <1>2 DEF Advance
<1>5. QED
  BY <1>1, <1>2, <1>3, <1>4

\* No step leaves the types.
LEMMA TypeStep == LifeInv /\ [Next]_vars => TypeOK'
<1> SUFFICES ASSUME LifeInv, [Next]_vars PROVE TypeOK'
  OBVIOUS
<1> USE DEF threadVars, loopVars, serverVars
<1>1. TypeOK /\ ThreadInv /\ StartInv
  BY DEF LifeInv
<1>2. /\ main \in [pc : MainPc, i : Io]
      /\ pc \in [Io -> {"none", "post", "construct", "publish", "enter", "leave",
                        "unwind", "ended"} \union Looping]
      /\ sem \in [Io -> 0..1]
      /\ loopPtr \in [Io -> BOOLEAN] /\ alive \in [Io -> BOOLEAN]
      /\ quit \in [Io -> BOOLEAN] /\ wake \in [Io -> BOOLEAN]
      /\ pending \in [Io -> Seq(Functor)] /\ batch \in [Io -> Seq(Functor)]
      /\ loops \in Seq(Io) /\ next \in Io
      /\ connections \subseteq Conn /\ removals \in Seq(Conn)
      /\ conn \in [Conn -> Record]
  BY <1>1 DEF TypeOK, Record, MainPc
<1>3. /\ N \in Nat /\ N > 0 /\ Io = 1..N /\ main.i \in Io
      /\ 1 <= main.i /\ main.i <= N /\ Len(loops) \in Nat
  BY <1>1, TypeFacts
<1>4. \A p, q \in MainPc : Goto(p) \/ Advance(p, q) => main' \in [pc : MainPc, i : Io]
  BY <1>1, MainMoves
<1>5. CASE ThreadStart
  BY <1>2, <1>3, <1>4, <1>5 DEF ThreadStart, TypeOK, Record, MainPc
<1>6. CASE SemWait
  <2>1. sem' \in [Io -> 0..1]
    BY <1>2, <1>3, <1>6 DEF SemWait
  <2>2. QED
    BY <1>2, <1>4, <1>6, <2>1 DEF SemWait, TypeOK, Record, MainPc
<1>7. CASE TestLoop
  <2>1. loops' \in Seq(Io)
    <3>1. Append(loops, main.i) \in Seq(Io)
      BY <1>2, <1>3, AppendProperties
    <3>2. QED
      BY <1>2, <1>7, <3>1 DEF TestLoop
  <2>2. main' \in [pc : MainPc, i : Io]
    BY <1>4, <1>7 DEF TestLoop, MainPc
  <2>3. QED
    BY <1>2, <1>7, <2>1, <2>2 DEF TestLoop, TypeOK, Record, MainPc
<1>8. CASE SpuriousWakeup \/ QuitBase \/ EndClosing
  BY <1>2, <1>4, <1>8 DEF SpuriousWakeup, QuitBase, EndClosing, TypeOK, Record, MainPc
<1>9. CASE RemoveConnectionInLoop
  <2>1. Head(removals) \in Conn /\ removals' \in Seq(Conn)
    BY <1>2, <1>9, HeadTailProperties DEF RemoveConnectionInLoop
  <2>2. conn[Head(removals)].owner \in Io
    BY <1>2, <2>1 DEF Record
  <2>3. pending' \in [Io -> Seq(Functor)] /\ wake' \in [Io -> BOOLEAN]
    BY <1>1, <1>9, <2>1, <2>2, QueueType DEF RemoveConnectionInLoop
  <2>4. QED
    BY <1>2, <1>9, <2>1, <2>3 DEF RemoveConnectionInLoop, TypeOK, Record, MainPc
<1>10. ASSUME NEW c \in Conn, CloseConnection(c) PROVE TypeOK'
  <2>1. conn[c].owner \in Io
    BY <1>2 DEF Record
  <2>2. pending' \in [Io -> Seq(Functor)] /\ wake' \in [Io -> BOOLEAN]
    BY <1>1, <1>10, <2>1, QueueType DEF CloseConnection
  <2>3. QED
    BY <1>2, <1>10, <2>2 DEF CloseConnection, TypeOK, Record, MainPc
<1>11. CASE StopThread \/ SetQuit \/ Wakeup
  <2>1. main' \in [pc : MainPc, i : Io]
    BY <1>4, <1>11 DEF StopThread, SetQuit, Wakeup, MainPc
  <2>2. quit' \in [Io -> BOOLEAN] /\ wake' \in [Io -> BOOLEAN]
    BY <1>2, <1>3, <1>11 DEF StopThread, SetQuit, Wakeup
  <2>3. QED
    BY <1>2, <1>11, <2>1, <2>2
       DEF StopThread, SetQuit, Wakeup, TypeOK, Record, MainPc
<1>12. CASE Join
  BY <1>2, <1>4, <1>12 DEF Join, TypeOK, Record, MainPc
<1>13. ASSUME NEW c \in Conn, NewConnection(c) PROVE TypeOK'
  <2>1. Len(loops) = N /\ loops[next] \in Io
    BY <1>1, <1>2, <1>3, <1>13 DEF NewConnection, StartInv, Starting
  <2>2. next' \in Io
    <3>1. next' = IF next >= N THEN 1 ELSE next + 1
      BY <1>13, <2>1 DEF NewConnection, AdvanceNext
    <3>2. QED
      BY <1>2, <1>3, <3>1
  <2>3. pending' \in [Io -> Seq(Functor)] /\ wake' \in [Io -> BOOLEAN]
    BY <1>1, <1>13, <2>1, QueueType DEF NewConnection
  <2>4. conn' \in [Conn -> Record]
    <3>1. PICK i \in Io : i = loops[next]
      BY <2>1
    <3>2. PICK k : k = Construct(conn[c], i)
      OBVIOUS
    <3>3. k \in Record
      BY <1>2, <1>13, <3>2, RecordChanges
    <3>4. conn' = [conn EXCEPT ![c] = k]
      BY <1>13, <3>1, <3>2, Zenon DEF NewConnection
    <3>5. QED
      BY <1>2, <3>3, <3>4
  <2>5. QED
    BY <1>2, <1>13, <2>2, <2>3, <2>4 DEF NewConnection, TypeOK, Record, MainPc
<1>14. ASSUME NEW i \in Io, IoStep(i) PROVE TypeOK'
  <2>1. CASE IoPost(i)
    <3>1. sem' \in [Io -> 0..1]
      BY <1>1, <1>2, <2>1 DEF IoPost, ThreadInv
    <3>2. QED
      BY <1>2, <2>1, <3>1 DEF IoPost, TypeOK, Record, MainPc
  <2>2. CASE IoConstruct(i)
    BY <1>2, <2>2 DEF IoConstruct, TypeOK, Record, MainPc
  <2>3. CASE IoPublish(i)
    <3>1. main' \in [pc : MainPc, i : Io]
      BY <1>2, <1>4, <2>3 DEF IoPublish, Goto, MainPc
    <3>2. QED
      BY <1>2, <2>3, <3>1 DEF IoPublish, TypeOK, Record, MainPc
  <2>4. CASE IoEnter(i)
    BY <1>2, <2>4 DEF IoEnter, Looping, TypeOK, Record, MainPc
  <2>5. CASE IoTest(i)
    BY <1>2, <2>5 DEF IoTest, Looping, TypeOK, Record, MainPc
  <2>6. CASE IoWake(i)
    BY <1>2, <2>6 DEF IoWake, Looping, TypeOK, Record, MainPc
  <2>7. CASE IoSwap(i)
    <3>1. pending' \in [Io -> Seq(Functor)] /\ batch' \in [Io -> Seq(Functor)]
      <4>1. <<>> \in Seq(Functor)
        OBVIOUS
      <4>2. QED
        BY <1>2, <2>7, <4>1 DEF IoSwap
    <3>2. QED
      BY <1>2, <2>7, <3>1 DEF IoSwap, Looping, TypeOK, Record, MainPc
  <2>8. CASE IoRun(i)
    <3>1. batch[i] # <<>> /\ batch[i] \in Seq(Functor)
      BY <1>2, <2>8 DEF IoRun
    <3>2. Head(batch[i]) \in Functor /\ Tail(batch[i]) \in Seq(Functor)
      BY <3>1, HeadTailProperties
    <3>3. batch' \in [Io -> Seq(Functor)]
      BY <1>2, <2>8, <3>2 DEF IoRun
    <3>4. PICK d : d = Head(batch[i]).conn
      OBVIOUS
    <3>5. d \in Conn
      BY <3>2, <3>4 DEF Functor
    <3>6. PICK k \in Record : conn' = [conn EXCEPT ![d] = k]
      <4>1. PICK r \in Record : r = conn[d]
        BY <1>2, <3>5
      <4>2. ConnectEstablished(r) \in Record /\ HandleClose(r) \in Record
        BY <2>8, RecordChanges
      <4>3. ConnectDestroyed(r) \in Record
        BY <4>2, Zenon DEF ConnectDestroyed, HandleClose
      <4>4. \/ conn' = [conn EXCEPT ![d] = ConnectEstablished(r)]
            \/ conn' = [conn EXCEPT ![d] = ConnectDestroyed(r)]
        BY <2>8, <3>4, <4>1 DEF IoRun
      <4>5. QED
        BY <4>2, <4>3, <4>4
    <3>7. conn' \in [Conn -> Record]
      BY <1>2, <3>6
    <3>8. QED
      BY <1>2, <2>8, <3>3, <3>7 DEF IoRun, TypeOK, Record, MainPc
  <2>9. CASE IoEndRun(i)
    BY <1>2, <2>9 DEF IoEndRun, Looping, TypeOK, Record, MainPc
  <2>10. CASE IoLeave(i)
    BY <1>2, <2>10 DEF IoLeave, TypeOK, Record, MainPc
  <2>11. CASE IoUnwind(i)
    <3>1. pending' \in [Io -> Seq(Functor)]
      <4>1. <<>> \in Seq(Functor)
        OBVIOUS
      <4>2. QED
        BY <1>2, <2>11, <4>1 DEF IoUnwind
    <3>2. QED
      BY <1>2, <2>11, <3>1 DEF IoUnwind, TypeOK, Record, MainPc
  <2>12. QED
    BY <1>14, <2>1, <2>2, <2>3, <2>4, <2>5, <2>6, <2>7, <2>8, <2>9, <2>10, <2>11
       DEF IoStep
<1>15. ASSUME NEW i \in Io, NEW c \in Conn, IoClose(i, c) PROVE TypeOK'
  <2>1. conn' \in [Conn -> Record]
    <3>1. PICK k : k = HandleClose(conn[c])
      OBVIOUS
    <3>2. k \in Record
      BY <1>2, <1>15, <3>1, RecordChanges
    <3>3. conn' = [conn EXCEPT ![c] = k]
      BY <1>15, <3>1, Zenon DEF IoClose
    <3>4. QED
      BY <1>2, <3>2, <3>3
  <2>2. removals' \in Seq(Conn)
    BY <1>2, <1>15, AppendProperties DEF IoClose
  <2>3. QED
    BY <1>2, <1>15, <2>1, <2>2 DEF IoClose, Looping, TypeOK, Record, MainPc
<1>16. CASE UNCHANGED vars
  BY <1>2, <1>16 DEF vars, TypeOK, Record, MainPc
<1>17. QED
  BY <1>5, <1>6, <1>7, <1>8, <1>9, <1>10, <1>11, <1>12, <1>13, <1>14, <1>15, <1>16
     DEF Next, MainStep

\* The invariant holds initially.
LEMMA LifeInit == Init => LifeInv
<1> SUFFICES ASSUME Init PROVE LifeInv
  OBVIOUS
<1>1. N \in Nat /\ N > 0 /\ Io = 1..N /\ 1 \in Io
  BY LifeAssumption DEF Io
<1>2. <<>> \in Seq(Functor) /\ <<>> \in Seq(Io) /\ <<>> \in Seq(Conn)
  OBVIOUS
<1>3. TypeOK
  <2>1. main \in [pc : MainPc, i : Io]
    BY <1>1 DEF Init, MainPc
  <2>2. /\ pending \in [Io -> Seq(Functor)] /\ batch \in [Io -> Seq(Functor)]
        /\ loops \in Seq(Io) /\ removals \in Seq(Conn)
    BY <1>2 DEF Init
  <2>3. conn \in [Conn -> Record]
    BY <1>1 DEF Init, Record
  <2>4. /\ pc \in [Io -> {"none", "post", "construct", "publish", "enter", "leave",
                           "unwind", "ended"} \union Looping]
        /\ sem \in [Io -> 0..1]
        /\ loopPtr \in [Io -> BOOLEAN] /\ alive \in [Io -> BOOLEAN]
        /\ quit \in [Io -> BOOLEAN] /\ wake \in [Io -> BOOLEAN]
        /\ next \in Io /\ connections \subseteq Conn
    BY <1>1 DEF Init
  <2>5. QED
    BY <2>1, <2>2, <2>3, <2>4 DEF TypeOK, MainPc, Record
<1>4. ThreadInv /\ NoOrphanThread
  BY DEF Init, ThreadInv, NoOrphanThread, Up, Looping
<1>5. StartInv
  <2>1. main.pc = "create" /\ main.i = 1 /\ Len(loops) = 0
    BY DEF Init
  <2>2. QED
    BY <1>1, <2>1 DEF Init, StartInv, Starting
<1>6. QED
  BY <1>3, <1>4, <1>5 DEF LifeInv

\* What is known of the threads, the loops and the main thread.
LifeRest == ThreadInv /\ StartInv /\ NoOrphanThread

\* Every step keeps it: a thread leaves loop() only after quit(), and the main
\* thread goes on only when the thread it waits for has published its loop or
\* has ended.
LEMMA LifeStep == LifeInv /\ [Next]_vars => LifeRest'
<1> SUFFICES ASSUME LifeInv, [Next]_vars PROVE LifeRest'
  OBVIOUS
<1> USE DEF threadVars, loopVars, serverVars
<1>1. TypeOK /\ ThreadInv /\ StartInv /\ NoOrphanThread
  BY DEF LifeInv
<1>2. /\ main \in [pc : MainPc, i : Io]
      /\ pc \in [Io -> {"none", "post", "construct", "publish", "enter", "leave",
                        "unwind", "ended"} \union Looping]
      /\ sem \in [Io -> 0..1]
      /\ loopPtr \in [Io -> BOOLEAN] /\ alive \in [Io -> BOOLEAN]
      /\ quit \in [Io -> BOOLEAN] /\ loops \in Seq(Io)
  BY <1>1 DEF TypeOK, MainPc
<1>3. /\ N \in Nat /\ N > 0 /\ Io = 1..N /\ main.i \in Io
      /\ 1 <= main.i /\ main.i <= N /\ Len(loops) \in Nat
  BY <1>1, TypeFacts
<1>4. ASSUME UNCHANGED <<main, pc, sem, loopPtr, alive, quit, loops>>
      PROVE  LifeRest'
  BY <1>1, <1>4 DEF LifeRest, ThreadInv, StartInv, NoOrphanThread, Told
<1>5. CASE ThreadStart
  <2>1. /\ main.pc = "create" /\ main'.pc = "sem_wait" /\ main'.i = main.i
        /\ pc' = [pc EXCEPT ![main.i] = "post"]
        /\ UNCHANGED <<sem, loopPtr, alive, quit, loops>>
    BY <1>1, <1>5, MainMoves DEF ThreadStart, MainPc
  <2>2. ThreadInv' /\ NoOrphanThread'
    BY <1>1, <1>2, <1>3, <2>1
         DEF ThreadInv, StartInv, NoOrphanThread, Told, Up, Looping, Starting
  <2>3. StartInv'
    BY <1>1, <1>2, <1>3, <2>1
         DEF ThreadInv, StartInv, NoOrphanThread, Told, Up, Looping, Starting
  <2>4. QED
    BY <2>2, <2>3 DEF LifeRest
<1>6. CASE SemWait
  <2>1. /\ main.pc = "sem_wait" /\ main'.pc = "lock" /\ main'.i = main.i
        /\ sem[main.i] > 0 /\ sem' = [sem EXCEPT ![main.i] = @ - 1]
        /\ UNCHANGED <<pc, loopPtr, alive, quit, loops>>
    BY <1>1, <1>6, MainMoves DEF SemWait, MainPc
  <2>2. ThreadInv' /\ NoOrphanThread'
    BY <1>1, <1>2, <1>3, <2>1
         DEF ThreadInv, StartInv, NoOrphanThread, Told, Up, Looping, Starting
  <2>3. StartInv'
    BY <1>1, <1>2, <1>3, <2>1
         DEF ThreadInv, StartInv, NoOrphanThread, Told, Up, Looping, Starting
  <2>4. QED
    BY <2>2, <2>3 DEF LifeRest
<1>7. CASE TestLoop
  <2>1. UNCHANGED <<pc, sem, loopPtr, alive, quit>> /\ main.pc = "lock"
    BY <1>7 DEF TestLoop
  <2>2. CASE ~loopPtr[main.i]
    <3>1. main'.pc = "blocked" /\ main'.i = main.i /\ loops' = loops
      BY <1>1, <1>7, <2>2, MainMoves DEF TestLoop, MainPc
    <3>2. QED
      BY <1>1, <1>2, <1>3, <2>1, <3>1
         DEF LifeRest, ThreadInv, StartInv, NoOrphanThread, Told, Up, Looping, Starting
  <2>3. CASE loopPtr[main.i]
    <3>1. /\ loops' = Append(loops, main.i)
          /\ main.i < N => main'.pc = "create" /\ main'.i = main.i + 1
          /\ main.i = N => main'.pc = "serve" /\ main'.i = 1
      BY <1>1, <1>7, <2>3, MainMoves DEF TestLoop, MainPc
    <3>2. /\ Len(loops') = Len(loops) + 1 /\ loops'[Len(loops) + 1] = main.i
          /\ \A j \in 1..Len(loops) : loops'[j] = loops[j]
      BY <1>2, <1>3, <3>1, AppendProperties
    <3>3. Len(loops) = main.i - 1 /\ pc[main.i] \in Up
      BY <1>1, <1>3, <2>1, <2>3
         DEF ThreadInv, StartInv, NoOrphanThread, Told, Up, Looping, Starting
    <3>4. ThreadInv' /\ NoOrphanThread'
      BY <1>1, <1>2, <1>3, <2>1, <3>1
         DEF ThreadInv, StartInv, NoOrphanThread, Told, Up, Looping, Starting
    <3>5. StartInv'
      BY <1>1, <1>2, <1>3, <2>1, <3>1, <3>2, <3>3
         DEF ThreadInv, StartInv, NoOrphanThread, Told, Up, Looping, Starting
    <3>6. QED
      BY <3>4, <3>5 DEF LifeRest
  <2>4. QED
    BY <1>2, <1>3, <2>2, <2>3
<1>8. CASE SpuriousWakeup
  <2>1. /\ main.pc = "blocked" /\ main'.pc = "lock" /\ main'.i = main.i
        /\ UNCHANGED <<pc, sem, loopPtr, alive, quit, loops>>
    BY <1>1, <1>8, MainMoves DEF SpuriousWakeup, MainPc
  <2>2. QED
    BY <1>1, <1>2, <1>3, <2>1
         DEF LifeRest, ThreadInv, StartInv, NoOrphanThread, Told, Up, Looping, Starting
<1>9. CASE QuitBase
  <2>1. /\ main.pc = "serve" /\ main'.pc = "closing" /\ main'.i = main.i
        /\ UNCHANGED <<pc, sem, loopPtr, alive, quit, loops>>
    BY <1>1, <1>9, MainMoves DEF QuitBase, MainPc
  <2>2. QED
    BY <1>1, <1>2, <1>3, <2>1
         DEF LifeRest, ThreadInv, StartInv, NoOrphanThread, Told, Up, Looping, Starting
<1>10. CASE EndClosing
  <2>1. /\ main.pc = "closing" /\ main'.pc = "quit" /\ main'.i = main.i
        /\ UNCHANGED <<pc, sem, loopPtr, alive, quit, loops>>
    BY <1>1, <1>10, MainMoves DEF EndClosing, MainPc
  <2>2. QED
    BY <1>1, <1>2, <1>3, <2>1
         DEF LifeRest, ThreadInv, StartInv, NoOrphanThread, Told, Up, Looping, Starting
<1>11. CASE StopThread \/ SetQuit \/ Wakeup
  <2>1. CASE StopThread
    <3>1. main.pc = "quit" /\ UNCHANGED <<pc, sem, loopPtr, alive, quit, loops>>
      BY <2>1 DEF StopThread
    <3>2. loopPtr[main.i]
      BY <1>1, <1>2, <1>3, <3>1
         DEF ThreadInv, StartInv, NoOrphanThread, Told, Up, Looping, Starting
    <3>3. main'.pc = "tell" /\ main'.i = main.i
      BY <1>1, <2>1, <3>2, MainMoves DEF StopThread, MainPc
    <3>4. QED
      BY <1>1, <1>2, <1>3, <3>1, <3>3
         DEF LifeRest, ThreadInv, StartInv, NoOrphanThread, Told, Up, Looping, Starting
  <2>2. CASE SetQuit
    <3>1. /\ main.pc = "tell" /\ main'.pc = "wakeup" /\ main'.i = main.i
          /\ quit' = [quit EXCEPT ![main.i] = TRUE]
          /\ UNCHANGED <<pc, sem, loopPtr, alive, loops>>
      BY <1>1, <2>2, MainMoves DEF SetQuit, MainPc
    <3>2. ThreadInv' /\ NoOrphanThread'
      BY <1>1, <1>2, <1>3, <3>1
         DEF ThreadInv, StartInv, NoOrphanThread, Told, Up, Looping, Starting
    <3>3. StartInv'
      BY <1>1, <1>2, <1>3, <3>1
         DEF ThreadInv, StartInv, NoOrphanThread, Told, Up, Looping, Starting
    <3>4. QED
      BY <3>2, <3>3 DEF LifeRest
  <2>3. CASE Wakeup
    <3>1. /\ main.pc = "wakeup" /\ main'.pc = "join" /\ main'.i = main.i
          /\ UNCHANGED <<pc, sem, loopPtr, alive, quit, loops>>
      BY <1>1, <2>3, MainMoves DEF Wakeup, MainPc
    <3>2. QED
      BY <1>1, <1>2, <1>3, <3>1
         DEF LifeRest, ThreadInv, StartInv, NoOrphanThread, Told, Up, Looping, Starting
  <2>4. QED
    BY <1>11, <2>1, <2>2, <2>3
<1>12. CASE Join
  <2>1. /\ main.pc = "join" /\ pc[main.i] = "ended"
        /\ main.i < N => main'.pc = "quit" /\ main'.i = main.i + 1
        /\ main.i = N => main'.pc = "gone" /\ main'.i = 1
        /\ UNCHANGED <<pc, sem, loopPtr, alive, quit, loops>>
    BY <1>1, <1>12, MainMoves DEF Join, MainPc
  <2>2. ThreadInv' /\ NoOrphanThread'
    BY <1>1, <1>2, <1>3, <2>1
         DEF ThreadInv, StartInv, NoOrphanThread, Told, Up, Looping, Starting
  <2>3. StartInv'
    BY <1>1, <1>2, <1>3, <2>1
         DEF ThreadInv, StartInv, NoOrphanThread, Told, Up, Looping, Starting
  <2>4. QED
    BY <2>2, <2>3 DEF LifeRest
<1>13. ASSUME NEW i \in Io, IoStep(i) PROVE LifeRest'
  <2>1. CASE IoPost(i)
    <3>1. /\ pc[i] = "post" /\ pc' = [pc EXCEPT ![i] = "construct"]
          /\ sem' = [sem EXCEPT ![i] = @ + 1]
          /\ UNCHANGED <<main, loopPtr, alive, quit, loops>>
      BY <2>1 DEF IoPost
    <3>2. ThreadInv' /\ NoOrphanThread'
      BY <1>1, <1>2, <1>3, <3>1
         DEF ThreadInv, StartInv, NoOrphanThread, Told, Up, Looping, Starting
    <3>3. StartInv'
      BY <1>1, <1>2, <1>3, <3>1
         DEF ThreadInv, StartInv, NoOrphanThread, Told, Up, Looping, Starting
    <3>4. QED
      BY <3>2, <3>3 DEF LifeRest
  <2>2. CASE IoConstruct(i)
    <3>1. /\ pc[i] = "construct" /\ pc' = [pc EXCEPT ![i] = "publish"]
          /\ alive' = [alive EXCEPT ![i] = TRUE]
          /\ UNCHANGED <<main, sem, loopPtr, quit, loops>>
      BY <2>2 DEF IoConstruct
    <3>2. ThreadInv' /\ NoOrphanThread'
      <4>1. \A j \in Io : j # i => pc'[j] = pc[j] /\ alive'[j] = alive[j]
        BY <1>2, <3>1
      <4>2. pc'[i] = "publish" /\ alive'[i] = TRUE
        BY <1>2, <3>1
      <4>3. ThreadInv'
        BY <1>1, <3>1, <4>1, <4>2 DEF ThreadInv, Told, Up, Looping
      <4>4. NoOrphanThread'
        BY <1>1, <3>1, <4>1, <4>2 DEF NoOrphanThread
      <4>5. QED
        BY <4>3, <4>4
    <3>3. StartInv'
      BY <1>1, <1>2, <1>3, <3>1
         DEF ThreadInv, StartInv, NoOrphanThread, Told, Up, Looping, Starting
    <3>4. QED
      BY <3>2, <3>3 DEF LifeRest
  <2>3. CASE IoPublish(i)
    <3>1. /\ pc[i] = "publish" /\ pc' = [pc EXCEPT ![i] = "enter"]
          /\ loopPtr' = [loopPtr EXCEPT ![i] = TRUE]
          /\ main'.i = main.i
          /\ main'.pc = IF main.pc = "blocked" /\ main.i = i THEN "lock" ELSE main.pc
          /\ UNCHANGED <<sem, alive, quit, loops>>
      BY <1>1, <2>3, MainMoves DEF IoPublish, Goto, MainPc
    <3>2. ThreadInv' /\ NoOrphanThread'
      BY <1>1, <1>2, <1>3, <3>1
         DEF ThreadInv, StartInv, NoOrphanThread, Told, Up, Looping, Starting
    <3>3. StartInv'
      BY <1>1, <1>2, <1>3, <3>1
         DEF ThreadInv, StartInv, NoOrphanThread, Told, Up, Looping, Starting
    <3>4. QED
      BY <3>2, <3>3 DEF LifeRest
  <2>4. CASE IoEnter(i)
    <3>1. /\ pc[i] = "enter" /\ pc' = [pc EXCEPT ![i] = "test"]
          /\ quit' = [quit EXCEPT ![i] = FALSE]
          /\ UNCHANGED <<main, sem, loopPtr, alive, loops>>
      BY <2>4 DEF IoEnter
    <3>2. ThreadInv' /\ NoOrphanThread'
      BY <1>1, <1>2, <1>3, <3>1
         DEF ThreadInv, StartInv, NoOrphanThread, Told, Up, Looping, Starting
    <3>3. StartInv'
      BY <1>1, <1>2, <1>3, <3>1
         DEF ThreadInv, StartInv, NoOrphanThread, Told, Up, Looping, Starting
    <3>4. QED
      BY <3>2, <3>3 DEF LifeRest
  <2>5. CASE IoTest(i)
    <3>1. /\ pc[i] = "test" /\ pc' = [pc EXCEPT ![i] = IF quit[i] THEN "leave" ELSE "poll"]
          /\ UNCHANGED <<main, sem, loopPtr, alive, quit, loops>>
      BY <2>5 DEF IoTest
    <3>2. ThreadInv' /\ NoOrphanThread'
      BY <1>1, <1>2, <1>3, <3>1
         DEF ThreadInv, StartInv, NoOrphanThread, Told, Up, Looping, Starting
    <3>3. StartInv'
      BY <1>1, <1>2, <1>3, <3>1
         DEF ThreadInv, StartInv, NoOrphanThread, Told, Up, Looping, Starting
    <3>4. QED
      BY <3>2, <3>3 DEF LifeRest
  <2>6. CASE IoWake(i)
    <3>1. /\ pc[i] = "poll" /\ pc' = [pc EXCEPT ![i] = "swap"]
          /\ UNCHANGED <<main, sem, loopPtr, alive, quit, loops>>
      BY <2>6 DEF IoWake
    <3>2. ThreadInv' /\ NoOrphanThread'
      BY <1>1, <1>2, <1>3, <3>1
         DEF ThreadInv, StartInv, NoOrphanThread, Told, Up, Looping, Starting
    <3>3. StartInv'
      BY <1>1, <1>2, <1>3, <3>1
         DEF ThreadInv, StartInv, NoOrphanThread, Told, Up, Looping, Starting
    <3>4. QED
      BY <3>2, <3>3 DEF LifeRest
  <2>7. CASE IoSwap(i)
    <3>1. /\ pc[i] = "swap" /\ pc' = [pc EXCEPT ![i] = "run"]
          /\ UNCHANGED <<main, sem, loopPtr, alive, quit, loops>>
      BY <2>7 DEF IoSwap
    <3>2. ThreadInv' /\ NoOrphanThread'
      BY <1>1, <1>2, <1>3, <3>1
         DEF ThreadInv, StartInv, NoOrphanThread, Told, Up, Looping, Starting
    <3>3. StartInv'
      BY <1>1, <1>2, <1>3, <3>1
         DEF ThreadInv, StartInv, NoOrphanThread, Told, Up, Looping, Starting
    <3>4. QED
      BY <3>2, <3>3 DEF LifeRest
  <2>8. CASE IoRun(i)
    BY <1>4, <2>8 DEF IoRun
  <2>9. CASE IoEndRun(i)
    <3>1. /\ pc[i] = "run" /\ pc' = [pc EXCEPT ![i] = "test"]
          /\ UNCHANGED <<main, sem, loopPtr, alive, quit, loops>>
      BY <2>9 DEF IoEndRun
    <3>2. ThreadInv' /\ NoOrphanThread'
      BY <1>1, <1>2, <1>3, <3>1
         DEF ThreadInv, StartInv, NoOrphanThread, Told, Up, Looping, Starting
    <3>3. StartInv'
      BY <1>1, <1>2, <1>3, <3>1
         DEF ThreadInv, StartInv, NoOrphanThread, Told, Up, Looping, Starting
    <3>4. QED
      BY <3>2, <3>3 DEF LifeRest
  <2>10. CASE IoLeave(i)
    <3>1. /\ pc[i] = "leave" /\ pc' = [pc EXCEPT ![i] = "unwind"]
          /\ loopPtr' = [loopPtr EXCEPT ![i] = FALSE]
          /\ UNCHANGED <<main, sem, alive, quit, loops>>
      BY <2>10 DEF IoLeave
    <3>2. ThreadInv' /\ NoOrphanThread'
      BY <1>1, <1>2, <1>3, <3>1
         DEF ThreadInv, StartInv, NoOrphanThread, Told, Up, Looping, Starting
    <3>3. StartInv'
      BY <1>1, <1>2, <1>3, <3>1
         DEF ThreadInv, StartInv, NoOrphanThread, Told, Up, Looping, Starting
    <3>4. QED
      BY <3>2, <3>3 DEF LifeRest
  <2>11. CASE IoUnwind(i)
    <3>1. /\ pc[i] = "unwind" /\ pc' = [pc EXCEPT ![i] = "ended"]
          /\ alive' = [alive EXCEPT ![i] = FALSE]
          /\ UNCHANGED <<main, sem, loopPtr, quit, loops>>
      BY <2>11 DEF IoUnwind
    <3>2. ThreadInv' /\ NoOrphanThread'
      <4>1. \A j \in Io : j # i => pc'[j] = pc[j] /\ alive'[j] = alive[j]
        BY <1>2, <3>1
      <4>2. pc'[i] = "ended" /\ alive'[i] = FALSE
        BY <1>2, <3>1
      <4>3. ThreadInv'
        BY <1>1, <3>1, <4>1, <4>2 DEF ThreadInv, Told, Up, Looping
      <4>4. NoOrphanThread'
        BY <1>1, <3>1, <4>1, <4>2 DEF NoOrphanThread
      <4>5. QED
        BY <4>3, <4>4
    <3>3. StartInv'
      BY <1>1, <1>2, <1>3, <3>1
         DEF ThreadInv, StartInv, NoOrphanThread, Told, Up, Looping, Starting
    <3>4. QED
      BY <3>2, <3>3 DEF LifeRest
  <2>12. QED
    BY <1>13, <2>1, <2>2, <2>3, <2>4, <2>5, <2>6, <2>7, <2>8, <2>9, <2>10, <2>11
       DEF IoStep
<1>14. ASSUME NEW i \in Io, NEW c \in Conn, IoClose(i, c) PROVE LifeRest'
  <2>1. /\ pc[i] = "poll" /\ pc' = [pc EXCEPT ![i] = "swap"]
        /\ UNCHANGED <<main, sem, loopPtr, alive, quit, loops>>
    BY <1>14 DEF IoClose
  <2>2. ThreadInv' /\ NoOrphanThread'
    BY <1>1, <1>2, <1>3, <2>1
         DEF ThreadInv, StartInv, NoOrphanThread, Told, Up, Looping, Starting
  <2>3. StartInv'
    BY <1>1, <1>2, <1>3, <2>1
         DEF ThreadInv, StartInv, NoOrphanThread, Told, Up, Looping, Starting
  <2>4. QED
    BY <2>2, <2>3 DEF LifeRest
<1>15. CASE RemoveConnectionInLoop \/ UNCHANGED vars
  BY <1>4, <1>15 DEF RemoveConnectionInLoop, QueueInLoop, vars
<1>16. ASSUME NEW c \in Conn, CloseConnection(c) \/ NewConnection(c) PROVE LifeRest'
  BY <1>4, <1>16 DEF CloseConnection, NewConnection, QueueInLoop
<1>17. QED
  BY <1>5, <1>6, <1>7, <1>8, <1>9, <1>10, <1>11, <1>12, <1>13, <1>14, <1>15, <1>16
     DEF Next, MainStep

\* What LifeInv is for: the loops the main thread may use are published and
\* have not been left.
LEMMA LifeInvImplies == LifeInv => PublishedLoopLives
<1> SUFFICES ASSUME LifeInv PROVE PublishedLoopLives
  OBVIOUS
<1>1. TypeOK /\ ThreadInv /\ StartInv
  BY DEF LifeInv
<1>2. /\ N \in Nat /\ Io = 1..N /\ main.i \in Io /\ loops \in Seq(Io)
      /\ Len(loops) \in Nat
  BY <1>1, TypeFacts
<1>3. loopPtr \in [Io -> BOOLEAN] /\ alive \in [Io -> BOOLEAN]
  BY <1>1 DEF TypeOK
<1>4. ASSUME NEW i \in Range(loops)
      PROVE  i \in Io /\ (Told(i) \/ pc[i] \in Up)
  <2>1. PICK j \in 1..Len(loops) : i = loops[j]
    BY <1>2, <1>4 DEF Range
  <2>2. i = j /\ i \in Io
    BY <1>1, <1>2, <2>1 DEF StartInv
  <2>3. QED
    BY <1>1, <2>1, <2>2 DEF StartInv
<1>5. ASSUME NEW i \in Range(loops), ~Told(i) PROVE alive[i] /\ loopPtr[i]
  BY <1>1, <1>4, <1>5 DEF ThreadInv
<1>6. ASSUME NEW i \in Range(loops),
             \/ main.pc \in Starting \union {"serve", "closing"}
             \/ main.pc \in {"quit", "tell"} /\ i >= main.i
             \/ main.pc \in {"wakeup", "join"} /\ i > main.i
      PROVE  ~Told(i)
  BY <1>2, <1>4, <1>6 DEF Told, Starting
<1>7. QED
  BY <1>1, <1>5, <1>6 DEF PublishedLoopLives, Starting

\* A loop whose address EventLoopThread::startLoop() handed to the pool exists,
\* with loop_ set, as long as the main thread may queue a functor in it and until
\* it has set its quit_, for every number of threads and whether or not the base loop
\* ends before the threads have entered loop().
THEOREM PublishedLoopsLive == Spec => []PublishedLoopLives
<1>1. LifeInv /\ [Next]_vars => LifeInv'
  BY TypeStep, LifeStep DEF LifeInv, LifeRest
<1>2. QED
  BY <1>1, LifeInit, LifeInvImplies, PTL DEF Spec

\* ~EventLoopThread destroys mutex_ and loop_ only after join(): no thread is
\* left detached behind a loop_ that was null when the main thread looked.
THEOREM ThreadsAreJoined == Spec => []NoOrphanThread
<1>1. LifeInv /\ [Next]_vars => LifeInv'
  BY TypeStep, LifeStep DEF LifeInv, LifeRest
<1>2. LifeInv => NoOrphanThread
  BY DEF LifeInv
<1>3. QED
  BY <1>1, <1>2, LifeInit, PTL DEF Spec

-----------------------------------------------------------------------------
(* connectEstablished() runs once for each connection.                     *)

\* Queueing a functor keeps the connectEstablished() calls distinct, if one
\* that is added is for a connection that has none yet.
LEMMA AppendKeepsOnce ==
  ASSUME NEW p \in Seq(Functor), NEW b \in Seq(Functor), NEW f \in Functor,
         Once(p), Apart(p, b),
         f.op = "established" =>
           /\ \A k \in 1..Len(p) : p[k].op = "established" => p[k].conn # f.conn
           /\ \A k \in 1..Len(b) : b[k].op = "established" => b[k].conn # f.conn
  PROVE  Once(Append(p, f)) /\ Apart(Append(p, f), b)
<1>1. PICK q : q = Append(p, f)
  OBVIOUS
<1>2. /\ Len(p) \in Nat /\ Len(q) = Len(p) + 1 /\ q[Len(p) + 1] = f
      /\ \A k \in 1..Len(p) : q[k] = p[k]
  BY <1>1, AppendProperties, LenProperties
<1>3. Once(q)
  BY <1>2 DEF Once
<1>4. Apart(q, b)
  BY <1>2 DEF Apart
<1>5. QED
  BY <1>1, <1>3, <1>4

\* Taking the first functor keeps them distinct, and if it was a
\* connectEstablished() no other one is for its connection.
LEMMA TailKeepsOnce ==
  ASSUME NEW p \in Seq(Functor), NEW b \in Seq(Functor), b # <<>>,
         Once(b), Apart(p, b)
  PROVE  /\ Once(Tail(b)) /\ Apart(p, Tail(b))
         /\ \A k \in 1..Len(Tail(b)) : k + 1 \in 1..Len(b) /\ Tail(b)[k] = b[k + 1]
         /\ Head(b).op = "established" =>
              /\ \A k \in 1..Len(p) :
                   p[k].op = "established" => p[k].conn # Head(b).conn
              /\ \A k \in 1..Len(Tail(b)) :
                   Tail(b)[k].op = "established" => Tail(b)[k].conn # Head(b).conn
<1>1. PICK t, h : t = Tail(b) /\ h = Head(b)
  OBVIOUS
<1>2. /\ Len(b) \in Nat /\ Len(b) >= 1 /\ Len(t) = Len(b) - 1 /\ h = b[1]
      /\ \A k \in 1..Len(t) : t[k] = b[k + 1]
  BY <1>1, HeadTailProperties, EmptySeq, LenProperties, SMTT(30)
<1>3. \A k \in 1..Len(t) : k + 1 \in 1..Len(b) /\ k + 1 # 1
  BY <1>2
<1>4. Once(t)
  <2>1. SUFFICES ASSUME NEW k \in 1..Len(t), NEW m \in 1..Len(t), k # m,
                        t[k].op = "established", t[m].op = "established"
                 PROVE  t[k].conn # t[m].conn
    BY DEF Once
  <2>2. /\ k + 1 \in 1..Len(b) /\ m + 1 \in 1..Len(b) /\ k + 1 # m + 1
        /\ t[k] = b[k + 1] /\ t[m] = b[m + 1]
    BY <1>2, <1>3, <2>1
  <2>3. QED
    BY <2>1, <2>2 DEF Once
<1>5. Apart(p, t)
  BY <1>2, <1>3 DEF Apart
<1>6. h.op = "established" =>
        /\ \A k \in 1..Len(p) : p[k].op = "established" => p[k].conn # h.conn
        /\ \A k \in 1..Len(t) : t[k].op = "established" => t[k].conn # h.conn
  BY <1>2, <1>3 DEF Once, Apart
<1>7. QED
  BY <1>1, <1>2, <1>3, <1>4, <1>5, <1>6

\* Nothing is queued initially.
LEMMA CallbackInit == Init => CallbackInv
<1> SUFFICES ASSUME Init PROVE CallbackInv
  OBVIOUS
<1>1. StateInv
  <2>1. \A c \in Conn : conn[c] = [owner |-> 1, ups |-> 0, downs |-> 0, state |-> "none"]
    BY DEF Init
  <2>2. QED
    BY <2>1 DEF StateInv
<1>2. QueueInv
  <2>1. \A i \in Io : pending[i] = <<>> /\ batch[i] = <<>>
    BY DEF Init
  <2>2. Len(<<>>) = 0
    OBVIOUS
  <2>3. QED
    BY <2>1, <2>2 DEF QueueInv, Once, Apart, Waiting
<1>3. QED
  BY <1>1, <1>2, LifeInit DEF CallbackInv

\* A connection that changes while no connectEstablished() is queued for it
\* leaves what is known of the queues.
LEMMA OtherWaits ==
  ASSUME TypeOK, NEW q \in Seq(Functor), NEW i \in Io, NEW c \in Conn,
         NEW k, conn' = [conn EXCEPT ![c] = k], Waiting(q, i),
         \A m \in 1..Len(q) : q[m].op = "established" => q[m].conn # c
  PROVE  Waiting(q, i)'
<1>1. conn \in [Conn -> Record]
  BY DEF TypeOK, Record
<1>2. \A m \in 1..Len(q) : q[m].conn \in Conn
  <2>1. \A m \in 1..Len(q) : q[m] \in Functor
    BY LenProperties
  <2>2. QED
    BY <2>1 DEF Functor
<1>3. \A d \in Conn : d # c => conn'[d] = conn[d]
  BY <1>1
<1>4. QED
  BY <1>2, <1>3 DEF Waiting

\* queueInLoop() of a functor, connectEstablished() only if none is queued for
\* the connection and it waits for one, in its own loop.
LEMMA QueueKeeps ==
  ASSUME TypeOK, NEW i \in Io, NEW op \in {"established", "destroyed"},
         NEW c \in Conn, QueueInLoop(i, op, c), batch' = batch, QueueInv,
         \A j \in Io : Waiting(pending[j], j)' /\ Waiting(batch[j], j)',
         op = "established" =>
           /\ \A k \in 1..Len(pending[i]) :
                pending[i][k].op = "established" => pending[i][k].conn # c
           /\ \A k \in 1..Len(batch[i]) :
                batch[i][k].op = "established" => batch[i][k].conn # c
  PROVE  QueueInv'
<1>1. pending \in [Io -> Seq(Functor)] /\ batch \in [Io -> Seq(Functor)]
  BY DEF TypeOK
<1>2. PICK f : f = [op |-> op, conn |-> c]
  OBVIOUS
<1>3. f \in Functor /\ f.op = op /\ f.conn = c
  BY <1>2 DEF Functor
<1>4. PICK p, b : p = pending[i] /\ b = batch[i]
  OBVIOUS
<1>5. p \in Seq(Functor) /\ b \in Seq(Functor) /\ Once(p) /\ Apart(p, b)
  BY <1>1, <1>4 DEF QueueInv
<1>6. Once(Append(p, f)) /\ Apart(Append(p, f), b)
  BY <1>3, <1>4, <1>5, AppendKeepsOnce
<1>7. PICK q : q = Append(p, f)
  OBVIOUS
<1>8. pending' = [pending EXCEPT ![i] = q]
  BY <1>2, <1>4, <1>7 DEF QueueInLoop
<1>9. ASSUME NEW j \in Io
      PROVE  Once(pending'[j]) /\ Once(batch'[j]) /\ Apart(pending'[j], batch'[j])
  <2>1. CASE j = i
    <3>1. pending'[j] = q /\ batch'[j] = b
      BY <1>1, <1>4, <1>8, <2>1
    <3>2. Once(b)
      BY <1>4 DEF QueueInv
    <3>3. QED
      BY <1>6, <1>7, <3>1, <3>2
  <2>2. CASE j # i
    <3>1. pending'[j] = pending[j] /\ batch'[j] = batch[j]
      BY <1>1, <1>8, <2>2
    <3>2. QED
      BY <3>1 DEF QueueInv
  <2>3. QED
    BY <2>1, <2>2
<1>10. QED
  BY <1>9 DEF QueueInv, Once, Apart

\* A step that changes no connection keeps Waiting, whatever it queues for
\* connectDestroyed().
LEMMA DestroyedWaits ==
  ASSUME TypeOK, QueueInv, NEW i \in Io, NEW c \in Conn,
         QueueInLoop(i, "destroyed", c), batch' = batch, conn' = conn
  PROVE  QueueInv'
<1>1. pending \in [Io -> Seq(Functor)] /\ batch \in [Io -> Seq(Functor)]
  BY DEF TypeOK
<1>2. PICK f : f = [op |-> "destroyed", conn |-> c]
  OBVIOUS
<1>3. f \in Functor /\ f.op = "destroyed"
  BY <1>2 DEF Functor
<1>4. PICK q : q = Append(pending[i], f)
  OBVIOUS
<1>5. /\ Len(pending[i]) \in Nat /\ Len(q) = Len(pending[i]) + 1
      /\ q[Len(pending[i]) + 1] = f
      /\ \A k \in 1..Len(pending[i]) : q[k] = pending[i][k]
  BY <1>1, <1>3, <1>4, AppendProperties, LenProperties
<1>6. Waiting(q, i)'
  <2>1. Waiting(pending[i], i)
    BY DEF QueueInv
  <2>2. QED
    BY <1>3, <1>5, <2>1 DEF Waiting
<1>7. pending' = [pending EXCEPT ![i] = q]
  BY <1>2, <1>4 DEF QueueInLoop
<1>8. ASSUME NEW j \in Io PROVE Waiting(pending[j], j)' /\ Waiting(batch[j], j)'
  <2>1. Waiting(batch[j], j)'
    BY DEF QueueInv, Waiting
  <2>2. CASE j = i
    <3>1. pending'[j] = q
      BY <1>1, <1>7, <2>2
    <3>2. QED
      BY <1>6, <2>1, <2>2, <3>1 DEF Waiting
  <2>3. CASE j # i
    <3>1. pending'[j] = pending[j]
      BY <1>1, <1>7, <2>3
    <3>2. QED
      BY <2>1, <3>1 DEF QueueInv, Waiting
  <2>4. QED
    BY <2>2, <2>3
<1>9. QED
  BY <1>8, QueueKeeps

\* Every step keeps the states, the callback counts and the queues.
LEMMA CallbackStep == CallbackInv /\ [Next]_vars => StateInv' /\ QueueInv'
<1> SUFFICES ASSUME CallbackInv, [Next]_vars PROVE StateInv' /\ QueueInv'
  OBVIOUS
<1> USE DEF threadVars, loopVars, serverVars
<1>1. TypeOK /\ StartInv /\ StateInv /\ QueueInv
  BY DEF CallbackInv, LifeInv
<1>2. /\ pending \in [Io -> Seq(Functor)] /\ batch \in [Io -> Seq(Functor)]
      /\ conn \in [Conn -> Record] /\ removals \in Seq(Conn)
  BY <1>1 DEF TypeOK, Record
<1>3. ASSUME UNCHANGED <<pending, batch, conn>> PROVE StateInv' /\ QueueInv'
  BY <1>1, <1>3 DEF StateInv, QueueInv, Once, Apart, Waiting
<1>4. ASSUME NEW c \in Conn, conn[c].state # "kConnecting", NEW j \in Io
      PROVE  /\ \A k \in 1..Len(pending[j]) :
                  pending[j][k].op = "established" => pending[j][k].conn # c
             /\ \A k \in 1..Len(batch[j]) :
                  batch[j][k].op = "established" => batch[j][k].conn # c
  BY <1>1, <1>4 DEF QueueInv, Waiting
<1>5. ASSUME NEW c \in Conn, conn[c].state # "kConnecting", NEW k,
             conn' = [conn EXCEPT ![c] = k], NEW j \in Io
      PROVE  (\A q \in {pending[j], batch[j]} : q \in Seq(Functor) /\ Waiting(q, j)')
  <2>1. pending[j] \in Seq(Functor) /\ batch[j] \in Seq(Functor)
    BY <1>2
  <2>2. Waiting(pending[j], j) /\ Waiting(batch[j], j)
    BY <1>1 DEF QueueInv
  <2>3. PICK p, b : p = pending[j] /\ b = batch[j]
    OBVIOUS
  <2>4. Waiting(p, j)'
    BY <1>1, <1>4, <1>5, <2>1, <2>2, <2>3, OtherWaits
  <2>5. Waiting(b, j)'
    BY <1>1, <1>4, <1>5, <2>1, <2>2, <2>3, OtherWaits
  <2>6. QED
    BY <2>1, <2>3, <2>4, <2>5
<1>6. CASE RemoveConnectionInLoop
  <2>1. Head(removals) \in Conn
    BY <1>2, <1>6, HeadTailProperties DEF RemoveConnectionInLoop
  <2>2. conn[Head(removals)].owner \in Io
    BY <1>2, <2>1 DEF Record
  <2>3. QueueInv'
    BY <1>1, <1>6, <2>1, <2>2, DestroyedWaits DEF RemoveConnectionInLoop
  <2>4. QED
    BY <1>1, <1>6, <2>3 DEF RemoveConnectionInLoop, StateInv
<1>7. ASSUME NEW c \in Conn, CloseConnection(c) PROVE StateInv' /\ QueueInv'
  <2>1. conn[c].owner \in Io
    BY <1>2 DEF Record
  <2>2. QueueInv'
    BY <1>1, <1>7, <2>1, DestroyedWaits DEF CloseConnection
  <2>3. QED
    BY <1>1, <1>7, <2>2 DEF CloseConnection, StateInv
<1>8. ASSUME NEW c \in Conn, NewConnection(c) PROVE StateInv' /\ QueueInv'
  <2>1. loops[next] \in Io
    <3>1. Len(loops) = N /\ loops \in Seq(Io) /\ next \in 1..N
      BY <1>1, <1>8, TypeFacts DEF NewConnection, StartInv, Starting
    <3>2. QED
      BY <3>1, LenProperties
  <2>2. PICK i \in Io : i = loops[next]
    BY <2>1
  <2>3. /\ conn[c].state = "none" /\ QueueInLoop(i, "established", c)
        /\ batch' = batch
        /\ conn' = [conn EXCEPT ![c] = Construct(conn[c], i)]
    BY <1>8, <2>2, Zenon DEF NewConnection
  <2>4. PICK k \in Record :
          /\ conn' = [conn EXCEPT ![c] = k]
          /\ k.state = "kConnecting" /\ k.owner = i
          /\ k.ups = conn[c].ups /\ k.downs = conn[c].downs
    <3>1. PICK k : k = Construct(conn[c], i)
      OBVIOUS
    <3>2. /\ k \in Record /\ k.state = "kConnecting" /\ k.owner = i
          /\ k.ups = conn[c].ups /\ k.downs = conn[c].downs
      BY <1>2, <1>8, <3>1, RecordChanges
    <3>3. conn' = [conn EXCEPT ![c] = k]
      BY <2>3, <3>1, Zenon
    <3>4. QED
      BY <3>2, <3>3
  <2>5. StateInv'
    BY <1>1, <1>2, <2>3, <2>4 DEF StateInv
  <2>6. ASSUME NEW j \in Io PROVE Waiting(pending[j], j)' /\ Waiting(batch[j], j)'
    <3>1. PICK p, b : p = pending[j] /\ b = batch[j]
      OBVIOUS
    <3>2. Waiting(p, j)' /\ Waiting(b, j)' /\ p \in Seq(Functor)
      BY <1>5, <2>3, <2>4, <3>1
    <3>3. Waiting(batch[j], j)'
      BY <2>3, <3>1, <3>2 DEF Waiting
    <3>4. CASE j = i
      <4>1. PICK f : f = [op |-> "established", conn |-> c]
        OBVIOUS
      <4>2. f \in Functor /\ f.conn = c
        BY <4>1 DEF Functor
      <4>3. PICK q : q = Append(p, f)
        OBVIOUS
      <4>4. pending'[j] = q
        BY <1>2, <2>3, <3>1, <3>4, <4>1, <4>3 DEF QueueInLoop
      <4>5. /\ Len(p) \in Nat /\ Len(q) = Len(p) + 1 /\ q[Len(p) + 1] = f
            /\ \A m \in 1..Len(p) : q[m] = p[m]
        BY <3>2, <4>2, <4>3, AppendProperties, LenProperties
      <4>6. conn'[c].state = "kConnecting" /\ conn'[c].owner = j
        BY <1>2, <2>4, <3>4
      <4>7. QED
        BY <3>2, <3>3, <4>2, <4>4, <4>5, <4>6, SMTT(30) DEF Waiting
    <3>5. CASE j # i
      <4>1. pending'[j] = p
        BY <1>2, <2>3, <3>1, <3>5 DEF QueueInLoop
      <4>2. QED
        BY <3>2, <3>3, <4>1 DEF Waiting
    <3>6. QED
      BY <3>4, <3>5
  <2>7. QueueInv'
    BY <1>1, <1>4, <2>3, <2>6, QueueKeeps
  <2>8. QED
    BY <2>5, <2>7
<1>9. ASSUME NEW i \in Io, NEW c \in Conn, IoClose(i, c) PROVE StateInv' /\ QueueInv'
  <2>1. conn[c].state = "kConnected" /\ UNCHANGED <<pending, batch>>
    BY <1>9 DEF IoClose
  <2>2. PICK k \in Record :
          /\ conn' = [conn EXCEPT ![c] = k]
          /\ k.state = "kDisconnected" /\ k.ups = conn[c].ups
          /\ k.downs = conn[c].downs + 1
    <3>1. PICK k : k = HandleClose(conn[c])
      OBVIOUS
    <3>2. /\ k \in Record /\ k.state = "kDisconnected"
          /\ k.ups = conn[c].ups /\ k.downs = conn[c].downs + 1
      BY <1>2, <1>9, <3>1, RecordChanges
    <3>3. conn' = [conn EXCEPT ![c] = k]
      BY <1>9, <3>1, Zenon DEF IoClose
    <3>4. QED
      BY <3>2, <3>3
  <2>3. StateInv'
    BY <1>1, <1>2, <2>1, <2>2 DEF StateInv
  <2>4. ASSUME NEW j \in Io PROVE Waiting(pending[j], j)' /\ Waiting(batch[j], j)'
    <3>1. PICK p, b : p = pending[j] /\ b = batch[j]
      OBVIOUS
    <3>2. Waiting(p, j)' /\ Waiting(b, j)'
      BY <1>5, <2>1, <2>2, <3>1
    <3>3. QED
      BY <2>1, <3>1, <3>2 DEF Waiting
  <2>5. QueueInv'
    BY <1>1, <2>1, <2>4 DEF QueueInv, Once, Apart
  <2>6. QED
    BY <2>3, <2>5
<1>10. ASSUME NEW i \in Io, IoSwap(i) PROVE StateInv' /\ QueueInv'
  <2>1. /\ conn' = conn /\ batch' = [batch EXCEPT ![i] = pending[i]]
        /\ pending' = [pending EXCEPT ![i] = <<>>] /\ Len(<<>>) = 0
    BY <1>10 DEF IoSwap
  <2>2. ASSUME NEW j \in Io
        PROVE  IF j = i THEN pending'[j] = <<>> /\ batch'[j] = pending[j]
               ELSE pending'[j] = pending[j] /\ batch'[j] = batch[j]
    BY <1>2, <2>1
  <2>3. QueueInv'
    BY <1>1, <2>1, <2>2 DEF QueueInv, Once, Apart, Waiting
  <2>4. QED
    BY <1>1, <2>1, <2>3 DEF StateInv
<1>11. ASSUME NEW i \in Io, IoUnwind(i) PROVE StateInv' /\ QueueInv'
  <2>1. /\ conn' = conn /\ batch' = batch
        /\ pending' = [pending EXCEPT ![i] = <<>>] /\ Len(<<>>) = 0
    BY <1>11 DEF IoUnwind
  <2>2. \A j \in Io : pending'[j] = IF j = i THEN <<>> ELSE pending[j]
    BY <1>2, <2>1
  <2>3. QueueInv'
    BY <1>1, <2>1, <2>2 DEF QueueInv, Once, Apart, Waiting
  <2>4. QED
    BY <1>1, <2>1, <2>3 DEF StateInv
<1>12. ASSUME NEW i \in Io, IoRun(i) PROVE StateInv' /\ QueueInv'
  <2>1. PICK p, b : p = pending[i] /\ b = batch[i]
    OBVIOUS
  <2>2. /\ p \in Seq(Functor) /\ b \in Seq(Functor) /\ b # <<>>
        /\ Once(p) /\ Once(b) /\ Apart(p, b) /\ Waiting(p, i) /\ Waiting(b, i)
    BY <1>1, <1>2, <1>12, <2>1 DEF IoRun, QueueInv
  <2>3. PICK h, t : h = Head(b) /\ t = Tail(b)
    OBVIOUS
  <2>4. /\ h \in Functor /\ t \in Seq(Functor) /\ h = b[1] /\ 1 \in 1..Len(b)
    BY <2>2, <2>3, HeadTailProperties, EmptySeq, LenProperties
  <2>5. /\ Once(t) /\ Apart(p, t)
        /\ \A k \in 1..Len(t) : k + 1 \in 1..Len(b) /\ t[k] = b[k + 1]
        /\ h.op = "established" =>
             /\ \A k \in 1..Len(p) : p[k].op = "established" => p[k].conn # h.conn
             /\ \A k \in 1..Len(t) : t[k].op = "established" => t[k].conn # h.conn
    BY <2>2, <2>3, TailKeepsOnce
  <2>6. Waiting(t, i)
    BY <2>2, <2>5 DEF Waiting
  <2>7. PICK c \in Conn : c = h.conn
    BY <2>4 DEF Functor
  <2>8. /\ pending' = pending /\ batch' = [batch EXCEPT ![i] = t]
        /\ conn' = [conn EXCEPT ![c] = IF h.op = "established"
                                       THEN ConnectEstablished(conn[c])
                                       ELSE ConnectDestroyed(conn[c])]
    BY <1>2, <1>12, <2>1, <2>3, <2>7 DEF IoRun
  <2>9. \A j \in Io : batch'[j] = IF j = i THEN t ELSE batch[j]
    BY <1>2, <2>8
  <2>10. ASSUME \A j \in Io : /\ Waiting(pending[j], j)'
                              /\ (j # i => Waiting(batch[j], j)')
                              /\ (j = i => Waiting(t, j)')
         PROVE  QueueInv'
    <3>1. ASSUME NEW j \in Io PROVE Waiting(batch[j], j)'
      BY <2>9, <2>10 DEF Waiting
    <3>2. ASSUME NEW j \in Io
          PROVE  Once(pending'[j]) /\ Once(batch'[j]) /\ Apart(pending'[j], batch'[j])
      BY <1>1, <2>1, <2>5, <2>8, <2>9 DEF QueueInv
    <3>3. QED
      BY <2>10, <3>1, <3>2 DEF QueueInv, Once, Apart
  <2>11. CASE h.op = "established"
    <3>1. conn[c].state = "kConnecting" /\ conn[c].owner = i
      BY <2>2, <2>4, <2>7, <2>11 DEF Waiting
    <3>2. PICK k \in Record :
            /\ conn' = [conn EXCEPT ![c] = k]
            /\ k.state = "kConnected" /\ k.ups = conn[c].ups + 1
            /\ k.downs = conn[c].downs
      <4>1. PICK k : k = ConnectEstablished(conn[c])
        OBVIOUS
      <4>2. /\ k \in Record /\ k.state = "kConnected"
            /\ k.ups = conn[c].ups + 1 /\ k.downs = conn[c].downs
        BY <1>2, <1>12, <4>1, RecordChanges
      <4>3. conn' = [conn EXCEPT ![c] = k]
        BY <2>8, <2>11, <4>1
      <4>4. QED
        BY <4>2, <4>3
    <3>3. StateInv'
      BY <1>1, <1>2, <3>1, <3>2 DEF StateInv
    <3>4. Waiting(p, i)' /\ Waiting(t, i)'
      BY <1>1, <2>2, <2>4, <2>5, <2>6, <2>7, <2>11, <3>2, OtherWaits
    <3>5. ASSUME NEW j \in Io, j # i
          PROVE  Waiting(pending[j], j)' /\ Waiting(batch[j], j)'
      <4>1. PICK pj, bj : pj = pending[j] /\ bj = batch[j]
        OBVIOUS
      <4>2. /\ pj \in Seq(Functor) /\ bj \in Seq(Functor)
            /\ Waiting(pj, j) /\ Waiting(bj, j)
        BY <1>1, <1>2, <4>1 DEF QueueInv
      <4>3. /\ \A m \in 1..Len(pj) : pj[m].op = "established" => pj[m].conn # c
            /\ \A m \in 1..Len(bj) : bj[m].op = "established" => bj[m].conn # c
        BY <3>1, <3>5, <4>2 DEF Waiting
      <4>4. Waiting(pj, j)' /\ Waiting(bj, j)'
        BY <1>1, <3>2, <4>2, <4>3, OtherWaits
      <4>5. pending'[j] = pj /\ batch'[j] = bj
        BY <2>8, <2>9, <3>5, <4>1
      <4>6. QED
        BY <4>4, <4>5 DEF Waiting
    <3>6. Waiting(pending[i], i)'
      BY <2>1, <2>8, <3>4 DEF Waiting
    <3>7. QED
      BY <2>10, <3>3, <3>4, <3>5, <3>6
  <2>12. CASE h.op # "established" /\ conn[c].state = "kConnected"
    <3>1. PICK k \in Record :
            /\ conn' = [conn EXCEPT ![c] = k]
            /\ k.state = "kDisconnected" /\ k.ups = conn[c].ups
            /\ k.downs = conn[c].downs + 1
      <4>1. PICK k : k = HandleClose(conn[c])
        OBVIOUS
      <4>2. /\ k \in Record /\ k.state = "kDisconnected"
            /\ k.ups = conn[c].ups /\ k.downs = conn[c].downs + 1
        BY <1>2, <1>12, <4>1, RecordChanges
      <4>3. ConnectDestroyed(conn[c]) = k
        BY <2>12, <4>1, Zenon DEF ConnectDestroyed, HandleClose
      <4>4. conn' = [conn EXCEPT ![c] = k]
        BY <2>8, <2>12, <4>3
      <4>5. QED
        BY <4>2, <4>4
    <3>2. StateInv'
      BY <1>1, <1>2, <2>12, <3>1 DEF StateInv
    <3>3. ASSUME NEW j \in Io
          PROVE  /\ Waiting(pending[j], j)'
                 /\ (j # i => Waiting(batch[j], j)')
      <4>1. PICK pj, bj : pj = pending[j] /\ bj = batch[j]
        OBVIOUS
      <4>2. Waiting(pj, j)' /\ Waiting(bj, j)'
        BY <1>5, <2>12, <3>1, <4>1
      <4>3. pending'[j] = pj /\ (j # i => batch'[j] = bj)
        BY <2>8, <2>9, <4>1
      <4>4. QED
        BY <4>2, <4>3 DEF Waiting
    <3>4. Waiting(t, i)'
      <4>1. Waiting(b, i)'
        BY <1>5, <2>1, <2>12, <3>1
      <4>2. QED
        BY <2>5, <4>1 DEF Waiting
    <3>5. QED
      BY <2>10, <3>2, <3>3, <3>4
  <2>13. CASE h.op # "established" /\ conn[c].state # "kConnected"
    <3>1. conn' = conn
      <4>1. conn' = [conn EXCEPT ![c] = conn[c]]
        BY <2>8, <2>13 DEF ConnectDestroyed
      <4>2. QED
        BY <1>2, <4>1
    <3>2. ASSUME NEW j \in Io
          PROVE  /\ Waiting(pending[j], j)'
                 /\ (j # i => Waiting(batch[j], j)')
      BY <1>1, <2>8, <2>9, <3>1 DEF QueueInv, Waiting
    <3>3. Waiting(t, i)'
      BY <2>6, <3>1 DEF Waiting
    <3>4. QED
      BY <1>1, <2>10, <3>1, <3>2, <3>3 DEF StateInv
  <2>14. QED
    BY <2>11, <2>12, <2>13
<1>13. ASSUME NEW i \in Io, IoStep(i) PROVE StateInv' /\ QueueInv'
  BY <1>3, <1>10, <1>11, <1>12, <1>13
     DEF IoStep, IoPost, IoConstruct, IoPublish, IoEnter, IoTest, IoWake, IoEndRun,
         IoLeave
<1>14. CASE \/ ThreadStart \/ SemWait \/ TestLoop \/ EndClosing
            \/ StopThread \/ SetQuit \/ Wakeup \/ Join
            \/ SpuriousWakeup \/ QuitBase \/ UNCHANGED vars
  BY <1>3, <1>14 DEF ThreadStart, SemWait, TestLoop, EndClosing, StopThread,
                     SetQuit, Wakeup, Join, SpuriousWakeup, QuitBase, vars
<1>15. QED
  BY <1>6, <1>7, <1>8, <1>9, <1>13, <1>14 DEF Next, MainStep

\* Whatever meets at the end of the server, a peer's close, its removal and
\* ~TcpServer: connectionCallback_ announces a connection up at most once and
\* down at most once, down only after up, for any number of connections and
\* threads.
THEOREM CallbacksOnce == Spec => []UpThenDownOnce
<1>1. CallbackInv /\ [Next]_vars => CallbackInv'
  BY TypeStep, LifeStep, CallbackStep DEF CallbackInv, LifeInv, LifeRest
<1>2. CallbackInv => UpThenDownOnce
  <2> SUFFICES ASSUME CallbackInv, NEW c \in Conn
               PROVE  conn[c].downs <= conn[c].ups /\ conn[c].ups <= 1
    BY DEF UpThenDownOnce
  <2>1. conn[c] \in Record /\ StateInv
    BY DEF CallbackInv, LifeInv, TypeOK, Record
  <2>2. QED
    BY <2>1 DEF StateInv, Record
<1>3. QED
  BY <1>1, <1>2, CallbackInit, PTL DEF Spec
=============================================================================
