----------------------------- MODULE TcpServer ------------------------------
(***************************************************************************)
(* A TcpServer of MyMuduo with its Acceptor, its pool of event loops and   *)
(* its TcpConnections: the base loop's thread, the io loops' threads (none *)
(* when setThreadNum() is not called: the base loop then does everything), *)
(* the threads of the application that keep TcpConnectionPtrs, and the     *)
(* peers.  The life of a connection object is the subject: who holds a     *)
(* shared_ptr to it, who holds a raw pointer, and in which order           *)
(* handleClose(), removeConnectionInLoop(), connectDestroyed() and the     *)
(* destructor come.                                                        *)
(*                                                                         *)
(* A loop is what EventLoop.tla proves of it: an executor that does not    *)
(* sleep on a functor.  One callback of a channel or one functor is one    *)
(* step: a connection's channel, buffers and socket are touched only by    *)
(* its own loop's thread.  state_ is also read and written by application  *)
(* threads, whose steps interleave with the callbacks.                     *)
(***************************************************************************)
EXTENDS Naturals, Sequences, SequencesExt, Channel

CONSTANTS Conn,      \* TcpConnection objects, one per accepted socket
          Base,      \* the base loop
          IoLoops,   \* loops_ of EventLoopThreadPool, in order; may be empty
          User,      \* application threads that are no event loop
          HasWriteCb,  \* BOOLEAN: whether writeCompleteCallback_ is set
          UserOps,   \* what they call: a subset of {"send", "shutdown"}
          MaxSends,  \* bound: calls of send() or shutdown() by each of them
          MaxMsgs    \* bound: messages from each peer

Loops == {Base} \union Range(IoLoops)
Acceptor == "acceptor"

ASSUME ServerAssumption ==
  /\ IsFiniteSet(Conn)
  /\ IoLoops \in Seq(Range(IoLoops)) /\ Base \notin Range(IoLoops)
  /\ Acceptor \notin Conn
  /\ HasWriteCb \in BOOLEAN
  /\ UserOps \subseteq {"send", "shutdown"}
  /\ MaxSends \in Nat /\ MaxMsgs \in Nat

VARIABLES
  conn,         \* the connections, see ConnType
  loop,         \* the loops, see LoopType
  connections,  \* connections_ of TcpServer
  next,         \* next_ of EventLoopThreadPool (from 1)
  listening,    \* listenning_ of Acceptor
  backlog,      \* the sockets the kernel has ready for accept()
  held,         \* the TcpConnectionPtrs each application thread keeps
  upc,          \* the call an application thread is in
  sends         \* number of calls it has made

vars == <<conn, loop, connections, next, listening, backlog, held, upc, sends>>
serverVars == <<connections, next, listening, backlog>>
userVars == <<held, upc, sends>>

ConnType ==
  [state : {"none", "kConnecting", "kConnected", "kDisconnecting",
            "kDisconnected"},
   owner : Loops,               \* loop_
   ch : ChannelType,            \* channel_
   out : BOOLEAN,               \* outputBuffer_ holds bytes
   wrShut : BOOLEAN,            \* the socket's write side is shut down
   peer : {"open", "fin", "rst", "gone"}, \* as the kernel sees the peer;
                                \* "gone": reset, SO_ERROR already collected
   rx : BOOLEAN,                \* bytes wait in the socket
   msgs : 0..MaxMsgs,           \* messages the peer has sent
   ups : Nat, downs : Nat]      \* calls of connectionCallback_

FunctorType ==
  [op : {"established", "remove", "destroyed", "send", "shutdown",
         "writeComplete"},
   conn : Conn]

EntryType ==
  [ch : Conn \union {Acceptor},
   cbs : Seq({"close", "error", "read", "write"})]

LoopType ==
  [phase : {"poll", "handle", "run"},
   active : Seq(EntryType),     \* activeChannels_: callbacks still to be made
   guard : SUBSET Conn,         \* the locked tie_ of the event in progress
   queue : Seq(FunctorType),    \* pendingFunctors_
   batch : Seq(FunctorType),    \* the swapped vector: still to be called
   kept : SUBSET Conn]          \* ... and already called, not yet destroyed

TypeOK ==
  /\ conn \in [Conn -> ConnType]
  /\ loop \in [Loops -> LoopType]
  /\ connections \in SUBSET Conn
  /\ next \in IF IoLoops = <<>> THEN {1} ELSE 1..Len(IoLoops)
  /\ listening \in BOOLEAN
  /\ backlog \in SUBSET Conn
  /\ held \in [User -> SUBSET Conn]
  /\ upc \in [User -> [op : {"idle", "send", "setState", "shutdown"},
                       conn : SUBSET Conn]]
  /\ sends \in [User -> 0..MaxSends]

IdleUser == [op |-> "idle", conn |-> {}]

Init ==
  /\ conn = [c \in Conn |->
               [state |-> "none", owner |-> Base, ch |-> NewChannel,
                out |-> FALSE, wrShut |-> FALSE,
                peer |-> "open", rx |-> FALSE, msgs |-> 0,
                ups |-> 0, downs |-> 0]]
  /\ loop = [l \in Loops |->
               [phase |-> "poll", active |-> <<>>, guard |-> {},
                queue |-> <<>>, batch |-> <<>>, kept |-> {}]]
  /\ connections = {}
  /\ next = 1
  /\ listening = FALSE
  /\ backlog = {}
  /\ held = [u \in User |-> {}]
  /\ upc = [u \in User |-> IdleUser]
  /\ sends = [u \in User |-> 0]

-----------------------------------------------------------------------------
(* Object lifetime.                                                        *)

Functor(op, c) == [op |-> op, conn |-> c]

\* std::bind(&TcpConnection::shutdownInLoop, this) keeps no reference; every
\* other functor is bound to a TcpConnectionPtr or to shared_from_this().
Strong(f) == f.op # "shutdown"

HoldsRef(fs, c) == \E i \in DOMAIN fs : fs[i].conn = c /\ Strong(fs[i])

Created(c) == conn[c].state # "none"

\* Some shared_ptr to the connection exists.
Alive(c) ==
  \/ c \in connections
  \/ \E u \in User : c \in held[u] \union upc[u].conn
  \/ \E l \in Loops : \/ c \in loop[l].guard \union loop[l].kept
                      \/ HoldsRef(loop[l].queue, c)
                      \/ HoldsRef(loop[l].batch, c)

Destroyed(c) == Created(c) /\ ~Alive(c)

-----------------------------------------------------------------------------
(* TcpConnection's member functions as they run in their own loop, on an   *)
(* effect e: the connection's record k, the functors it queues in its own  *)
(* loop, and whether closeCallback_ was called.  res is what write() does: *)
(* take everything or a part (or EWOULDBLOCK: nothing).                    *)

EffectOf(k, own, closed) == [k |-> k, own |-> own, closed |-> closed]

Effect(k) == EffectOf(k, <<>>, FALSE)

\* Only the connection's record changes.
With(e, k) == EffectOf(k, e.own, e.closed)

WriteFails(k) == k.wrShut \/ k.peer \in {"rst", "gone"}

\* The kernel hands out a socket's pending error once: to getsockopt(), or
\* to the read() or write() that fails with it.
CollectError(e) ==
  With(e, [e.k EXCEPT !.peer = IF @ = "rst" THEN "gone" ELSE @])

QueueWriteComplete(e, c) ==
  IF HasWriteCb THEN EffectOf(e.k, Append(e.own, Functor("writeComplete", c)), e.closed)
  ELSE e

\* write() into the socket, then what remains into outputBuffer_
WriteDirect(e, c, res) ==
  CASE WriteFails(e.k) -> CollectError(e)
    [] ~WriteFails(e.k) /\ res = "all" -> QueueWriteComplete(e, c)
    [] OTHER -> With(e, [e.k EXCEPT !.out = TRUE, !.ch = EnableWriting(e.k.ch)])

BufferAll(e) ==
  IF IsWriting(e.k.ch) THEN With(e, [e.k EXCEPT !.out = TRUE])
  ELSE With(e, [e.k EXCEPT !.out = TRUE, !.ch = EnableWriting(e.k.ch)])

SendInLoop(e, c, res) ==
  CASE e.k.state = "kDisconnected" -> e
    [] e.k.state # "kDisconnected" /\ ~IsWriting(e.k.ch) /\ ~e.k.out ->
         WriteDirect(e, c, res)
    [] OTHER -> BufferAll(e)

ShutdownInLoop(k) == [k EXCEPT !.wrShut = @ \/ ~IsWriting(k.ch)]

\* send() and shutdown() called by the connection's own loop
Send(e, c, res) ==
  IF e.k.state = "kConnected" THEN SendInLoop(e, c, res) ELSE e

Shutdown(k) ==
  IF k.state = "kConnected"
  THEN ShutdownInLoop([k EXCEPT !.state = "kDisconnecting"])
  ELSE k

HandleCloseKeepsChannel(e) ==
  EffectOf([e.k EXCEPT !.state = "kDisconnected", !.downs = e.k.downs + 1],
           e.own, TRUE)

HandleClose(e) ==
  EffectOf([e.k EXCEPT !.state = "kDisconnected", !.downs = e.k.downs + 1,
                       !.ch = DisableAll(e.k.ch)], e.own, TRUE)

HandleError(e) == CollectError(e)

\* messageCallback_: the application answers, shuts down, both (the echo
\* server of testmuduo.cc) or neither.
OnMessage(e, c, ops, res) ==
  LET sent == IF "send" \in ops THEN Send(e, c, res) ELSE e
  IN  IF "shutdown" \in ops THEN With(sent, Shutdown(sent.k)) ELSE sent

HandleReadIgnoresEnd(e, c, ops, res) ==
  IF e.k.rx THEN OnMessage(With(e, [e.k EXCEPT !.rx = FALSE]), c, ops, res)
  ELSE HandleError(e)

HandleRead(e, c, ops, res) ==
  CASE e.k.rx -> OnMessage(With(e, [e.k EXCEPT !.rx = FALSE]), c, ops, res)
    [] ~e.k.rx /\ e.k.peer \in {"fin", "gone"} -> HandleClose(e)
    [] OTHER -> HandleError(e)

FlushedStillWriting(k) == [k EXCEPT !.out = FALSE]

Flushed(k) == [k EXCEPT !.out = FALSE, !.ch = DisableWriting(k.ch)]

HandleWrite(e, c, res) ==
  CASE ~IsWriting(e.k.ch) -> e
    [] IsWriting(e.k.ch) /\ WriteFails(e.k) -> CollectError(e)
    [] IsWriting(e.k.ch) /\ ~WriteFails(e.k) /\ res # "all" -> e
    [] OTHER -> LET k == Flushed(e.k)
                IN  QueueWriteComplete(
                      With(e, IF k.state = "kDisconnecting"
                              THEN ShutdownInLoop(k) ELSE k), c)

Callback(cb, e, c, ops, res) ==
  CASE cb = "close" -> HandleClose(e)
    [] cb = "error" -> HandleError(e)
    [] cb = "read"  -> HandleRead(e, c, ops, res)
    [] cb = "write" -> HandleWrite(e, c, res)

ConnectEstablished(k) ==
  [k EXCEPT !.state = "kConnected", !.ch = EnableReading(k.ch),
            !.ups = k.ups + 1]

ConnectDestroyedKeepsChannel(k) == k

ConnectDestroyed(k) ==
  IF k.state = "kConnected"
  THEN [k EXCEPT !.state = "kDisconnected", !.downs = k.downs + 1,
                 !.ch = RemoveChannel(DisableAll(k.ch))]
  ELSE [k EXCEPT !.ch = RemoveChannel(k.ch)]

-----------------------------------------------------------------------------
(* The loops.                                                              *)

\* What epoll reports of a registered connection; writable says whether the
\* socket's send buffer has room.
Revents(k, writable) ==
  LET hup == k.peer \in {"rst", "gone"} \/ (k.peer = "fin" /\ k.wrShut)
      in  == "read" \in k.ch.events /\ (k.rx \/ k.peer # "open")
      out == "write" \in k.ch.events /\ (writable \/ WriteFails(k))
  IN  (IF hup THEN {"HUP"} ELSE {})
        \union (IF k.peer = "rst" THEN {"ERR"} ELSE {})
        \union (IF in THEN {"IN"} ELSE {})
        \union (IF out THEN {"OUT"} ELSE {})

\* The order of the callbacks in Channel::handleEventWithGuard()
Then(cbs, test, cb) == IF test THEN Append(cbs, cb) ELSE cbs

Callbacks(revents) ==
  LET close == Then(<<>>, "HUP" \in revents /\ "IN" \notin revents, "close")
      error == Then(close, "ERR" \in revents, "error")
      read  == Then(error, "IN" \in revents, "read")
  IN  Then(read, "OUT" \in revents, "write")

\* Closing the socket of a destroyed connection takes it out of epoll.
Polled(l) ==
  {c \in Conn : Alive(c) /\ conn[c].owner = l /\ conn[c].ch.reg}

\* epoll_wait() and fillActiveChannels(); a functor that waits wakes it too.
Poll(l) ==
  /\ loop[l].phase = "poll"
  /\ \E writable \in SUBSET {c \in Polled(l) : IsWriting(conn[c].ch)} :
       LET revents(c) == Revents(conn[c], c \in writable)
           ready == {c \in Polled(l) : revents(c) # {}}
           accept == IF l = Base /\ listening /\ backlog # {} THEN {Acceptor}
                     ELSE {}
           entry(c) == [ch |-> c, cbs |-> IF c = Acceptor THEN <<"read">>
                                          ELSE Callbacks(revents(c))]
       IN /\ ready \union accept # {} \/ loop[l].queue # <<>>
          /\ \E order \in SetToSeqs(ready \union accept) :
               loop' = [loop EXCEPT
                          ![l].phase = "handle",
                          ![l].active = [i \in DOMAIN order |-> entry(order[i])]]
  /\ UNCHANGED <<conn, serverVars, userVars>>

\* functors.swap(pendingFunctors_)
SwapFunctors(l) ==
  /\ loop[l].phase = "handle" /\ loop[l].active = <<>>
  /\ loop' = [loop EXCEPT ![l].phase = "run",
                          ![l].batch = loop[l].queue, ![l].queue = <<>>]
  /\ UNCHANGED <<conn, serverVars, userVars>>

\* The swapped vector, and the references in its functors, are destroyed.
EndFunctors(l) ==
  /\ loop[l].phase = "run" /\ loop[l].batch = <<>>
  /\ loop' = [loop EXCEPT ![l].phase = "poll", ![l].kept = {}]
  /\ UNCHANGED <<conn, serverVars, userVars>>

\* Loop l, in record lp, applies effect e of connection c: its functors are
\* queued, and closeCallback_ (TcpServer::removeConnection) runs
\* removeConnectionInLoop() at once in the base loop or queues it there.
Apply(l, lp, c, e) ==
  LET own  == e.own \o (IF e.closed /\ l = Base
                        THEN <<Functor("destroyed", c)>> ELSE <<>>)
      mine == [loop EXCEPT ![l] = [lp EXCEPT !.queue = @ \o own]]
  IN /\ conn' = [conn EXCEPT ![c] = e.k]
     /\ connections' = IF e.closed /\ l = Base
                       THEN connections \ {c} ELSE connections
     /\ loop' = IF e.closed /\ l # Base
                THEN [mine EXCEPT ![Base].queue =
                                    Append(@, Functor("remove", c))]
                ELSE mine

\* Channel::handleEvent(): the next callback of the first active channel; the
\* guard lives until its last callback.
PopCallback(lp) ==
  LET entry == Head(lp.active)
      cbs   == Tail(entry.cbs)
  IN  IF cbs = <<>>
      THEN [lp EXCEPT !.active = Tail(@), !.guard = {}]
      ELSE [lp EXCEPT !.active[1].cbs = cbs, !.guard = {entry.ch}]

HandleEvent(l) ==
  /\ loop[l].phase = "handle" /\ loop[l].active # <<>>
  /\ LET entry == Head(loop[l].active)
         c     == entry.ch
     IN /\ c # Acceptor
        /\ \E ops \in SUBSET {"send", "shutdown"}, res \in {"all", "part"} :
             Apply(l, PopCallback(loop[l]), c,
                   Callback(Head(entry.cbs), Effect(conn[c]), c, ops, res))
  /\ UNCHANGED <<next, listening, backlog, userVars>>

-----------------------------------------------------------------------------
(* TcpServer and Acceptor, in the base loop.                               *)

\* start(): runInLoop(Acceptor::listen), called by the base loop's thread
Start ==
  /\ ~listening
  /\ listening' = TRUE
  /\ UNCHANGED <<conn, loop, connections, next, backlog, userVars>>

Accepting ==
  /\ loop[Base].phase = "handle" /\ loop[Base].active # <<>>
  /\ Head(loop[Base].active).ch = Acceptor

NextLoop == IF IoLoops = <<>> THEN Base ELSE IoLoops[next]

AdvanceNext == IF next >= Len(IoLoops) THEN 1 ELSE next + 1

\* The application keeps the pointer it is given by connectionCallback_.
Established(c) == held' = [u \in User |-> held[u] \union {c}]

RememberNot(c) == UNCHANGED connections

\* connections_[connName] = conn
Remember(c) == connections' = connections \union {c}

\* Acceptor::handleRead(), TcpServer::newConnection(), and runInLoop() of
\* connectEstablished()
NewConnection(c) ==
  /\ Accepting /\ c \in backlog
  /\ backlog' = backlog \ {c}
  /\ Remember(c)
  /\ next' = AdvanceNext
  /\ LET k  == [conn[c] EXCEPT !.state = "kConnecting", !.owner = NextLoop]
         lp == [loop EXCEPT ![Base] = PopCallback(loop[Base])]
     IN \/ /\ NextLoop = Base
           /\ conn' = [conn EXCEPT ![c] = ConnectEstablished(k)]
           /\ loop' = [lp EXCEPT ![Base].guard = {}]
           /\ Established(c)
        \/ /\ NextLoop # Base
           /\ conn' = [conn EXCEPT ![c] = k]
           /\ loop' = [lp EXCEPT ![NextLoop].queue =
                                   Append(@, Functor("established", c))]
           /\ UNCHANGED held
  /\ UNCHANGED <<listening, upc, sends>>

\* accept() fails (EMFILE, or the client has gone): it is only logged.
AcceptFails ==
  /\ Accepting
  /\ loop' = [loop EXCEPT ![Base] = PopCallback(loop[Base])]
  /\ UNCHANGED <<conn, serverVars, userVars>>

-----------------------------------------------------------------------------
(* doPendingFunctors(): the next functor of the swapped vector.            *)

Runs(l, op) ==
  /\ loop[l].phase = "run" /\ loop[l].batch # <<>>
  /\ Head(loop[l].batch).op = op

Target(l) == Head(loop[l].batch).conn

PopFunctor(lp) ==
  [lp EXCEPT !.batch = Tail(@),
             !.kept = @ \union (IF Strong(Head(lp.batch))
                                THEN {Head(lp.batch).conn} ELSE {})]

RunInPlace(l, k) ==
  /\ conn' = [conn EXCEPT ![Target(l)] = k]
  /\ loop' = [loop EXCEPT ![l] = PopFunctor(loop[l])]

RunEstablished(l) ==
  /\ Runs(l, "established")
  /\ RunInPlace(l, ConnectEstablished(conn[Target(l)]))
  /\ Established(Target(l))
  /\ UNCHANGED <<serverVars, upc, sends>>

\* TcpServer::removeConnectionInLoop()
RunRemove(l) ==
  /\ Runs(l, "remove")
  /\ connections' = connections \ {Target(l)}
  /\ loop' = [loop EXCEPT
                ![l] = PopFunctor(loop[l]),
                ![conn[Target(l)].owner].queue =
                  Append(@, Functor("destroyed", Target(l)))]
  /\ UNCHANGED <<conn, next, listening, backlog, userVars>>

RunDestroyed(l) ==
  /\ Runs(l, "destroyed")
  /\ RunInPlace(l, ConnectDestroyed(conn[Target(l)]))
  /\ UNCHANGED <<serverVars, userVars>>

RunSend(l) ==
  /\ Runs(l, "send")
  /\ \E res \in {"all", "part"} :
       Apply(l, PopFunctor(loop[l]), Target(l),
             SendInLoop(Effect(conn[Target(l)]), Target(l), res))
  /\ UNCHANGED <<next, listening, backlog, userVars>>

\* Runs on a raw pointer.
RunShutdown(l) ==
  /\ Runs(l, "shutdown")
  /\ RunInPlace(l, ShutdownInLoop(conn[Target(l)]))
  /\ UNCHANGED <<serverVars, userVars>>

RunWriteComplete(l) ==
  /\ Runs(l, "writeComplete")
  /\ RunInPlace(l, conn[Target(l)])
  /\ UNCHANGED <<serverVars, userVars>>

-----------------------------------------------------------------------------
(* Application threads: send() and shutdown() test state_ and act later.   *)

Begin(u, c, op, call) ==
  /\ op \in UserOps
  /\ upc[u] = IdleUser /\ c \in held[u] /\ sends[u] < MaxSends
  /\ conn[c].state = "kConnected"
  /\ upc' = [upc EXCEPT ![u] = [op |-> call, conn |-> {c}]]
  /\ sends' = [sends EXCEPT ![u] = @ + 1]
  /\ UNCHANGED <<conn, loop, serverVars, held>>

UserSend(u, c) == Begin(u, c, "send", "send")

UserShutdown(u, c) == Begin(u, c, "shutdown", "setState")

\* setState(kDisconnecting), whatever state_ has become since it was read
UserSetState(u) ==
  /\ upc[u].op = "setState"
  /\ \E c \in upc[u].conn :
       conn' = [conn EXCEPT ![c].state = "kDisconnecting"]
  /\ upc' = [upc EXCEPT ![u].op = "shutdown"]
  /\ UNCHANGED <<loop, serverVars, held, sends>>

\* runInLoop() from another thread is queueInLoop().
UserQueue(u) ==
  /\ upc[u].op \in {"send", "shutdown"}
  /\ \E c \in upc[u].conn :
       loop' = [loop EXCEPT ![conn[c].owner].queue =
                              Append(@, Functor(upc[u].op, c))]
  /\ upc' = [upc EXCEPT ![u] = IdleUser]
  /\ UNCHANGED <<conn, serverVars, held, sends>>

\* The application lets go of its pointer.
UserDrop(u, c) ==
  /\ upc[u] = IdleUser /\ c \in held[u]
  /\ held' = [held EXCEPT ![u] = @ \ {c}]
  /\ UNCHANGED <<conn, loop, serverVars, upc, sends>>

-----------------------------------------------------------------------------
(* The peers and the kernel.                                               *)

ClientConnect(c) ==
  /\ listening /\ ~Created(c) /\ c \notin backlog
  /\ backlog' = backlog \union {c}
  /\ UNCHANGED <<conn, loop, connections, next, listening, userVars>>

Connected(c) == c \in backlog \/ Alive(c)

PeerSend(c) ==
  /\ Connected(c)
  /\ conn[c].peer = "open" /\ conn[c].msgs < MaxMsgs
  /\ conn' = [conn EXCEPT ![c].rx = TRUE, ![c].msgs = conn[c].msgs + 1]
  /\ UNCHANGED <<loop, serverVars, userVars>>

PeerFin(c) ==
  /\ Connected(c)
  /\ conn[c].peer = "open"
  /\ conn' = [conn EXCEPT ![c].peer = "fin"]
  /\ UNCHANGED <<loop, serverVars, userVars>>

PeerReset(c) ==
  /\ Connected(c)
  /\ conn[c].peer \in {"open", "fin"}
  /\ conn' = [conn EXCEPT ![c].peer = "rst", ![c].rx = FALSE]
  /\ UNCHANGED <<loop, serverVars, userVars>>

-----------------------------------------------------------------------------
\* What the thread of loop l does by itself.
LoopStep(l) ==
  \/ Poll(l) \/ HandleEvent(l) \/ SwapFunctors(l) \/ EndFunctors(l)
  \/ RunEstablished(l) \/ RunRemove(l) \/ RunDestroyed(l)
  \/ RunSend(l) \/ RunShutdown(l) \/ RunWriteComplete(l)

BaseStep == AcceptFails \/ \E c \in Conn : NewConnection(c)

UserStep(u) == UserSetState(u) \/ UserQueue(u)

PeerStep(c) == PeerSend(c) \/ PeerFin(c) \/ PeerReset(c)

Next ==
  \/ Start
  \/ \E l \in Loops : LoopStep(l)
  \/ BaseStep
  \/ \E c \in Conn : ClientConnect(c) \/ PeerStep(c)
  \/ \E u \in User : \/ UserStep(u)
                     \/ \E c \in Conn : \/ UserSend(u, c)
                                        \/ UserShutdown(u, c)
                                        \/ UserDrop(u, c)

Spec == Init /\ [][Next]_vars

(***************************************************************************)
(* Fairness: the loops' threads run (for each loop this is what PostedRuns *)
(* of EventLoop.tla gives), and a thread inside send() or shutdown() gets  *)
(* to its end.  Peers and applications need not do anything.               *)
(***************************************************************************)
Fairness ==
  /\ \A l \in Loops : WF_vars(LoopStep(l))
  /\ WF_vars(BaseStep)
  /\ \A u \in User : WF_vars(UserStep(u))

FairSpec == Spec /\ Fairness

-----------------------------------------------------------------------------
(* Properties.                                                             *)

\* A channel that epoll has reported still exists when its turn comes in
\* EventLoop::loop(), although the list holds raw pointers and the other
\* callbacks, the base loop and the application release references in the
\* meantime; so tie_.lock() never fails.  It holds while application threads
\* only send, or while a single one sends and shuts down; a second thread can
\* have a send enable writing after connectDestroyed(), when the first sets
\* kDisconnecting late in shutdown().
ActiveAlive ==
  \A l \in Loops : \A i \in DOMAIN loop[l].active :
    LET c == loop[l].active[i].ch IN c # Acceptor => Alive(c)

\* A functor that is about to run in doPendingFunctors() has a connection to
\* run on, also those bound to a raw this: TcpConnection.cc says of
\* shutdown() that "destruction of the object need not be considered".
FunctorTargetAlive ==
  \A l \in Loops : loop[l].batch # <<>> => Alive(Target(l))

\* The poller's channels_ and epoll hold no pointer to the channel of a
\* destroyed connection: connectDestroyed() has always run before.  It needs
\* the same of the application as ActiveAlive.
NoDanglingChannel ==
  \A c \in Conn : Destroyed(c) => ~conn[c].ch.listed /\ ~conn[c].ch.reg

\* connectionCallback_ announces a connection at most once as up and at most
\* once as down, down only after up, and it is down once TcpServer has
\* forgotten the connection (handleClose, connectEstablished); no variable
\* leaves its type.
UpThenDownOnce ==
  /\ TypeOK
  /\ \A c \in Conn :
       /\ conn[c].downs <= conn[c].ups /\ conn[c].ups <= 1
       /\ Created(c) /\ c \notin connections => conn[c].downs = 1

\* While a connection is up or shutting down, its channel waits for
\* writability exactly when bytes wait in outputBuffer_: neither are bytes
\* forgotten nor does epoll report an idle socket for ever.
WritingIffBuffered ==
  \A c \in Conn : conn[c].state \in {"kConnected", "kDisconnecting"} =>
                    (IsWriting(conn[c].ch) <=> conn[c].out)

\* Whatever the interleaving, and also when a closed connection's channel is
\* registered again by a late send, no epoll_ctl() call of a connection
\* fails, so the LOG_FATAL of EpollPoller::update() is not reached.
NoFatalCtl == \A c \in Conn : ~conn[c].ch.fatal

\* Once the peer has closed or reset an established connection, it is
\* forgotten by TcpServer and removed from its poller, whatever happens to
\* the other connections, to accept() and to the application's pointers.
ClosedIsRemoved ==
  \A c \in Conn :
    (conn[c].ups = 1 /\ conn[c].peer # "open")
      ~> (c \notin connections /\ conn[c].ch.index = "kNew")
=============================================================================
