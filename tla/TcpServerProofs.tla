--------------------------- MODULE TcpServerProofs ---------------------------
(***************************************************************************)
(* Theorems about TcpServer, for any number of connections, io loops and   *)
(* application threads: no epoll_ctl() of a connection is refused, and,    *)
(* when no application thread calls shutdown(), a connection is announced  *)
(* up and down once, outlives every use of its channel, and leaves nothing *)
(* behind.                                                                 *)
(***************************************************************************)
EXTENDS TcpServer, FiniteSetTheorems, SequenceTheorems, TLAPS

-----------------------------------------------------------------------------
(* The inductive invariants.                                               *)

\* A channel's memories agree: index_, channels_ and the kernel's epoll set.
ChannelOk(ch) ==
  /\ ch.reg <=> ch.index = "kAdded"
  /\ ch.listed <=> ch.index # "kNew"
  /\ ~ch.fatal

\* An entry of activeChannels_ has a callback left; the acceptor's has one.
HasCallback(x) ==
  /\ x.cbs # <<>>
  /\ x.ch = Acceptor => Tail(x.cbs) = <<>>

\* What holds whatever the application does.
ChannelInv ==
  /\ TypeOK
  /\ \A c \in Conn : ChannelOk(conn[c].ch)
  /\ \A l \in Loops : \A i \in DOMAIN loop[l].active : HasCallback(loop[l].active[i])

\* The three stages of a connection object, by state_.
Fresh(k) == k.state \in {"none", "kConnecting"}
Up(k) == k.state \in {"kConnected", "kDisconnecting"}
Down(k) == k.state = "kDisconnected"

\* What its channel, its buffer and its callbacks are in each of them.
ConnOk(k) ==
  /\ Fresh(k) => /\ k.ch.index = "kNew" /\ k.ch.events = {} /\ ~k.out
                 /\ k.ups = 0 /\ k.downs = 0
  /\ Up(k) => /\ k.ch.index = "kAdded" /\ "read" \in k.ch.events
              /\ IsWriting(k.ch) <=> k.out
              /\ k.ups = 1 /\ k.downs = 0
  /\ Down(k) => /\ k.ch.index # "kAdded" /\ k.ch.events = {}
                /\ k.ups = 1 /\ k.downs = 1

\* What a loop has still to run, in order.
Todo(lp) == lp.batch \o lp.queue

\* When functor f may wait in loop l, cs being the connections.
FunctorOk(f, l, cs) ==
  /\ f.op = "established" =>
       cs[f.conn].state = "kConnecting" /\ cs[f.conn].owner = l
  /\ f.op \in {"remove", "destroyed"} => Down(cs[f.conn])
  /\ f.op = "destroyed" => cs[f.conn].owner = l
  /\ f.op \notin {"established", "remove", "destroyed"} => ~Fresh(cs[f.conn])

\* connectEstablished() waits at most once for a connection.
TodoOk(todo, l, cs) ==
  \A i \in 1..Len(todo) :
    /\ FunctorOk(todo[i], l, cs)
    /\ todo[i].op = "established" =>
         \A j \in 1..Len(todo) : todo[j] = todo[i] => i = j

\* Callbacks are made in the order of handleEventWithGuard(), and only the
\* first of them may close the connection, or else the read callback.
Ordered(cbs) ==
  \A i, j \in DOMAIN cbs : i < j =>
    /\ cbs[j] # "close"
    /\ cbs[j] = "read" => cbs[i] \notin {"close", "read"}

\* A connection in activeChannels_ of loop l is up, or it was closed by an
\* earlier callback of the same event.
EntryOk(x, l, cs) ==
  x.ch # Acceptor =>
    /\ cs[x.ch].owner = l
    /\ ~Fresh(cs[x.ch]) /\ cs[x.ch].ch.index # "kNew"
    /\ Ordered(x.cbs)
    /\ Down(cs[x.ch]) => \A i \in DOMAIN x.cbs : x.cbs[i] \notin {"close", "read"}

\* activeChannels_ is worked off before the functors are, and names no
\* connection twice.
ActiveOk(lp, l, cs) ==
  /\ lp.active # <<>> => lp.phase = "handle"
  /\ lp.batch # <<>> => lp.phase = "run"
  /\ \A i \in DOMAIN lp.active :
       /\ EntryOk(lp.active[i], l, cs)
       /\ \A j \in DOMAIN lp.active : lp.active[i].ch = lp.active[j].ch => i = j

\* Both hold of every loop.
LoopInv ==
  \A l \in Loops : TodoOk(Todo(loop[l]), l, conn) /\ ActiveOk(loop[l], l, conn)

\* Application threads have pointers to connections that were announced.
UserInv ==
  \A u \in User :
    /\ upc[u].op \in {"idle", "send"}
    /\ \A c \in held[u] \union upc[u].conn : ~Fresh(conn[c])

\* f is one of the functors of todo.
Waits(f, todo) == \E i \in 1..Len(todo) : todo[i] = f

\* A connection that TcpServer has forgotten is closed, and connectDestroyed()
\* waits in its loop or has run.
ServerInv ==
  \A c \in Conn :
    /\ c \in backlog => conn[c].state = "none"
    /\ c \in connections => conn[c].state # "none"
    /\ Created(c) /\ c \notin connections =>
         /\ Down(conn[c])
         /\ \/ conn[c].ch.index = "kNew"
            \/ Waits(Functor("destroyed", c), Todo(loop[conn[c].owner]))

\* The inductive invariant while no application thread calls shutdown().
LifeInv ==
  /\ ChannelInv
  /\ \A c \in Conn : ConnOk(conn[c])
  /\ LoopInv /\ UserInv /\ ServerInv

-----------------------------------------------------------------------------
(* Channels.                                                               *)

\* update() keeps a channel's memories in agreement whatever the mask becomes.
LEMMA UpdateKeeps ==
  ASSUME NEW ch \in ChannelType, ChannelOk(ch), NEW E \in SUBSET {"read", "write"},
         NEW r, r = UpdateChannel([ch EXCEPT !.events = E])
  PROVE  /\ r \in ChannelType /\ ChannelOk(r) /\ r.events = E
         /\ ch.index # "kAdded" \/ E # {} => r.index = "kAdded"
         /\ ch.index = "kAdded" /\ E = {} => r.index = "kDeleted"
         /\ r.index # "kNew"
<1>1. PICK m : m = [ch EXCEPT !.events = E]
  OBVIOUS
<1>2. m \in ChannelType /\ ChannelOk(m) /\ m.index = ch.index /\ m.events = E
  BY <1>1 DEF ChannelOk, ChannelType
<1>3. r = UpdateChannel(m)
  BY <1>1
<1>4. CASE ch.index \in {"kNew", "kDeleted"}
  BY <1>2, <1>3, <1>4, ZenonT(30) DEF ChannelOk, ChannelType, UpdateChannel, CtlAdd
<1>5. CASE ch.index = "kAdded" /\ E = {}
  BY <1>2, <1>3, <1>5, ZenonT(30) DEF ChannelOk, ChannelType, UpdateChannel, CtlDel
<1>6. CASE ch.index = "kAdded" /\ E # {}
  BY <1>2, <1>3, <1>6 DEF ChannelOk, ChannelType, UpdateChannel, CtlMod
<1>7. QED
  BY <1>4, <1>5, <1>6 DEF ChannelType

\* The calls of TcpConnection.
LEMMA ChannelCalls ==
  ASSUME NEW ch \in ChannelType, ChannelOk(ch), NEW r
  PROVE  /\ r = EnableReading(ch) =>
              /\ r \in ChannelType /\ ChannelOk(r) /\ r.index = "kAdded"
              /\ r.events = ch.events \union {"read"}
         /\ r = EnableWriting(ch) =>
              /\ r \in ChannelType /\ ChannelOk(r) /\ r.index = "kAdded"
              /\ r.events = ch.events \union {"write"}
         /\ r = DisableWriting(ch) =>
              /\ r \in ChannelType /\ ChannelOk(r)
              /\ r.events = ch.events \ {"write"}
              /\ "read" \in ch.events => r.index = "kAdded"
              /\ r.index # "kNew"
         /\ r = DisableAll(ch) =>
              /\ r \in ChannelType /\ ChannelOk(r) /\ r.events = {}
              /\ ch.index = "kAdded" => r.index = "kDeleted"
              /\ r.index # "kNew"
         /\ r = RemoveChannel(ch) =>
              /\ r \in ChannelType /\ ChannelOk(r) /\ r.events = ch.events
              /\ r.index = "kNew"
<1>1. /\ ch.events \in SUBSET {"read", "write"}
      /\ ch.events \union {"read"} \in SUBSET {"read", "write"}
      /\ ch.events \union {"write"} \in SUBSET {"read", "write"}
      /\ ch.events \ {"write"} \in SUBSET {"read", "write"}
      /\ {} \in SUBSET {"read", "write"}
  BY DEF ChannelType
<1>2. ASSUME r = EnableReading(ch)
      PROVE  /\ r \in ChannelType /\ ChannelOk(r) /\ r.index = "kAdded"
             /\ r.events = ch.events \union {"read"}
  <2>1. PICK E \in SUBSET {"read", "write"} : E = ch.events \union {"read"}
    BY <1>1
  <2>2. r = UpdateChannel([ch EXCEPT !.events = E])
    BY <1>2, <2>1, Zenon DEF EnableReading
  <2>3. E # {}
    BY <2>1
  <2>4. QED
    BY <2>1, <2>2, <2>3, UpdateKeeps
<1>3. ASSUME r = EnableWriting(ch)
      PROVE  /\ r \in ChannelType /\ ChannelOk(r) /\ r.index = "kAdded"
             /\ r.events = ch.events \union {"write"}
  <2>1. PICK E \in SUBSET {"read", "write"} : E = ch.events \union {"write"}
    BY <1>1
  <2>2. r = UpdateChannel([ch EXCEPT !.events = E])
    BY <1>3, <2>1, Zenon DEF EnableWriting
  <2>3. E # {}
    BY <2>1
  <2>4. QED
    BY <2>1, <2>2, <2>3, UpdateKeeps
<1>4. ASSUME r = DisableWriting(ch)
      PROVE  /\ r \in ChannelType /\ ChannelOk(r)
             /\ r.events = ch.events \ {"write"}
             /\ "read" \in ch.events => r.index = "kAdded"
             /\ r.index # "kNew"
  <2>1. PICK E \in SUBSET {"read", "write"} : E = ch.events \ {"write"}
    BY <1>1
  <2>2. r = UpdateChannel([ch EXCEPT !.events = E])
    BY <1>4, <2>1, Zenon DEF DisableWriting
  <2>3. "read" \in ch.events => E # {}
    BY <2>1
  <2>4. QED
    BY <2>1, <2>2, <2>3, UpdateKeeps
<1>5. ASSUME r = DisableAll(ch)
      PROVE  /\ r \in ChannelType /\ ChannelOk(r) /\ r.events = {}
             /\ ch.index = "kAdded" => r.index = "kDeleted"
             /\ r.index # "kNew"
  <2>1. PICK E \in SUBSET {"read", "write"} : E = {}
    BY <1>1
  <2>2. r = UpdateChannel([ch EXCEPT !.events = E])
    BY <1>5, <2>1, Zenon DEF DisableAll
  <2>3. QED
    BY <2>1, <2>2, UpdateKeeps
<1>6. ASSUME r = RemoveChannel(ch)
      PROVE  /\ r \in ChannelType /\ ChannelOk(r) /\ r.events = ch.events
             /\ r.index = "kNew"
  BY <1>6 DEF ChannelOk, ChannelType, RemoveChannel, CtlDel
<1>7. QED
  BY <1>2, <1>3, <1>4, <1>5, <1>6

-----------------------------------------------------------------------------
(* Connections: what one call of their own loop does.                      *)

Sound(k) == k \in ConnType /\ ChannelOk(k.ch)

\* The call does not touch what ConnOk speaks of.
SameLife(k, r) ==
  /\ r.state = k.state /\ r.owner = k.owner /\ r.ch = k.ch /\ r.out = k.out
  /\ r.ups = k.ups /\ r.downs = k.downs

\* The call keeps an announced connection in order, up or down.
Follows(k, r) ==
  /\ r.owner = k.owner
  /\ k.ch.index # "kNew" => r.ch.index # "kNew"
  /\ ConnOk(k) /\ Up(k) => ConnOk(r) /\ Up(r)
  /\ ConnOk(k) /\ Down(k) => ConnOk(r) /\ Down(r) /\ r.ch = k.ch

\* A call that leaves the channel, the buffer and state_ alone.
LEMMA SameLifeFollows ==
  ASSUME NEW k, NEW r, SameLife(k, r)
  PROVE  /\ Follows(k, r)
         /\ ConnOk(k) => ConnOk(r)
BY DEF SameLife, Follows, ConnOk, Up, Down, Fresh

\* Calls follow each other.
LEMMA FollowsTransitive ==
  ASSUME NEW k, NEW m, NEW r, Follows(k, m), Follows(m, r)
  PROVE  Follows(k, r)
BY DEF Follows

\* Storing the channel of a connection.
LEMMA SetChannel ==
  ASSUME NEW k, Sound(k), NEW ch \in ChannelType, ChannelOk(ch),
         NEW r, r = [k EXCEPT !.ch = ch]
  PROVE  /\ Sound(r) /\ r.ch = ch /\ r.out = k.out
         /\ r.state = k.state /\ r.owner = k.owner /\ r.ups = k.ups
         /\ r.downs = k.downs
BY DEF Sound, ConnType

\* What remains after write() is buffered, and the channel waits.
LEMMA BufferKeeps ==
  ASSUME NEW k, Sound(k), k.state # "kDisconnected", NEW r,
         \/ r = [k EXCEPT !.out = TRUE, !.ch = EnableWriting(k.ch)]
         \/ IsWriting(k.ch) /\ r = [k EXCEPT !.out = TRUE]
  PROVE  Sound(r) /\ Follows(k, r) /\ r.state = k.state
<1>1. CASE r = [k EXCEPT !.out = TRUE, !.ch = EnableWriting(k.ch)]
  <2>1. PICK ch : ch = EnableWriting(k.ch)
    OBVIOUS
  <2>2. k.ch \in ChannelType /\ ChannelOk(k.ch)
    BY DEF Sound, ConnType
  <2>3. /\ ch \in ChannelType /\ ChannelOk(ch) /\ ch.index = "kAdded"
        /\ ch.events = k.ch.events \union {"write"}
    BY <2>1, <2>2, ChannelCalls
  <2>4. PICK m : m = [k EXCEPT !.out = TRUE]
    OBVIOUS
  <2>5. r = [m EXCEPT !.ch = ch]
    BY <1>1, <2>1, <2>4, Zenon
  <2>6. /\ Sound(m) /\ m.ch = k.ch /\ m.out = TRUE
        /\ m.state = k.state /\ m.owner = k.owner /\ m.ups = k.ups
        /\ m.downs = k.downs
    BY <2>4 DEF Sound, ConnType
  <2>7. /\ Sound(r) /\ r.ch = ch /\ r.out = TRUE
        /\ r.state = k.state /\ r.owner = k.owner /\ r.ups = k.ups
        /\ r.downs = k.downs
    BY <2>3, <2>5, <2>6, SetChannel
  <2>8. Follows(k, r)
    BY <2>3, <2>7 DEF Follows, ConnOk, Up, Down, Fresh, IsWriting
  <2>9. QED
    BY <2>7, <2>8
<1>2. CASE IsWriting(k.ch) /\ r = [k EXCEPT !.out = TRUE]
  <2>1. /\ r \in ConnType /\ r.ch = k.ch /\ r.out = TRUE
        /\ r.state = k.state /\ r.owner = k.owner /\ r.ups = k.ups
        /\ r.downs = k.downs
    BY <1>2 DEF Sound, ConnType
  <2>2. Sound(r)
    BY <2>1 DEF Sound
  <2>3. Follows(k, r)
    BY <1>2, <2>1 DEF Follows, ConnOk, Up, Down, Fresh, IsWriting
  <2>4. QED
    BY <2>1, <2>2, <2>3
<1>3. QED
  BY <1>1, <1>2

\* shutdownInLoop() only shuts the socket.
LEMMA ShutdownInLoopKeeps ==
  ASSUME NEW k, Sound(k), NEW r, r = ShutdownInLoop(k)
  PROVE  Sound(r) /\ SameLife(k, r)
<1>1. PICK w \in BOOLEAN : w = (k.wrShut \/ ~IsWriting(k.ch))
  BY DEF Sound, ConnType
<1>2. r = [k EXCEPT !.wrShut = w]
  BY <1>1 DEF ShutdownInLoop
<1>3. QED
  BY <1>2 DEF Sound, ConnType, SameLife

\* shutdown() called in the connection's loop.
LEMMA ShutdownKeeps ==
  ASSUME NEW k, Sound(k), NEW r, r = Shutdown(k)
  PROVE  Sound(r) /\ Follows(k, r)
<1>1. CASE k.state = "kConnected"
  <2>1. PICK m : m = [k EXCEPT !.state = "kDisconnecting"]
    OBVIOUS
  <2>2. /\ Sound(m) /\ m.ch = k.ch /\ m.out = k.out
        /\ m.state = "kDisconnecting" /\ m.owner = k.owner /\ m.ups = k.ups
        /\ m.downs = k.downs
    BY <2>1 DEF Sound, ConnType
  <2>3. Follows(k, m)
    BY <1>1, <2>2 DEF Follows, ConnOk, Up, Down, Fresh
  <2>4. r = ShutdownInLoop(m)
    BY <1>1, <2>1 DEF Shutdown
  <2>5. QED
    BY <2>2, <2>3, <2>4, ShutdownInLoopKeeps, SameLifeFollows, FollowsTransitive
<1>2. CASE k.state # "kConnected"
  BY <1>2, SameLifeFollows DEF Shutdown, SameLife
<1>3. QED
  BY <1>1, <1>2

\* The last bytes of outputBuffer_ were written.
LEMMA FlushedKeeps ==
  ASSUME NEW k, Sound(k), IsWriting(k.ch), NEW r, r = Flushed(k)
  PROVE  Sound(r) /\ Follows(k, r) /\ r.state = k.state
<1>1. PICK ch : ch = DisableWriting(k.ch)
  OBVIOUS
<1>2. k.ch \in ChannelType /\ ChannelOk(k.ch)
  BY DEF Sound, ConnType
<1>3. /\ ch \in ChannelType /\ ChannelOk(ch)
      /\ ch.events = k.ch.events \ {"write"}
      /\ "read" \in k.ch.events => ch.index = "kAdded"
      /\ ch.index # "kNew"
  BY <1>1, <1>2, ChannelCalls
<1>4. PICK m : m = [k EXCEPT !.out = FALSE]
  OBVIOUS
<1>5. r = [m EXCEPT !.ch = ch]
  BY <1>1, <1>4, Zenon DEF Flushed
<1>6. /\ Sound(m) /\ m.ch = k.ch /\ m.out = FALSE
      /\ m.state = k.state /\ m.owner = k.owner /\ m.ups = k.ups
      /\ m.downs = k.downs
  BY <1>4 DEF Sound, ConnType
<1>7. /\ Sound(r) /\ r.ch = ch /\ r.out = FALSE
      /\ r.state = k.state /\ r.owner = k.owner /\ r.ups = k.ups
      /\ r.downs = k.downs
  BY <1>3, <1>5, <1>6, SetChannel
<1>8. Follows(k, r)
  BY <1>3, <1>7 DEF Follows, ConnOk, Up, Down, Fresh, IsWriting
<1>9. QED
  BY <1>7, <1>8

\* connectEstablished() takes a fresh connection up.
LEMMA EstablishedComesUp ==
  ASSUME NEW k, Sound(k), NEW r, r = ConnectEstablished(k)
  PROVE  /\ Sound(r) /\ r.owner = k.owner /\ r.ch.index # "kNew"
         /\ ConnOk(k) /\ Fresh(k) => ConnOk(r) /\ Up(r)
<1>1. PICK m : m = [k EXCEPT !.state = "kConnected"]
  OBVIOUS
<1>2. PICK ch : ch = EnableReading(k.ch)
  OBVIOUS
<1>3. PICK n : n = [m EXCEPT !.ch = ch]
  OBVIOUS
<1>4. r = [n EXCEPT !.ups = k.ups + 1]
  BY <1>1, <1>2, <1>3, Zenon DEF ConnectEstablished
<1>5. k.ch \in ChannelType /\ ChannelOk(k.ch)
  BY DEF Sound, ConnType
<1>6. /\ ch \in ChannelType /\ ChannelOk(ch) /\ ch.index = "kAdded"
      /\ ch.events = k.ch.events \union {"read"}
  BY <1>2, <1>5, ChannelCalls
<1>7. /\ Sound(m) /\ m.state = "kConnected" /\ m.owner = k.owner
      /\ m.ups = k.ups /\ m.downs = k.downs /\ m.out = k.out
  BY <1>1 DEF Sound, ConnType
<1>8. /\ Sound(n) /\ n.ch = ch /\ n.state = "kConnected" /\ n.owner = k.owner
      /\ n.ups = k.ups /\ n.downs = k.downs /\ n.out = k.out
  BY <1>3, <1>6, <1>7, SetChannel
<1>9. /\ Sound(r) /\ r.ch = ch /\ r.state = "kConnected" /\ r.owner = k.owner
      /\ r.ups = k.ups + 1 /\ r.downs = k.downs /\ r.out = k.out
  BY <1>4, <1>8 DEF Sound, ConnType
<1>10. ConnOk(k) /\ Fresh(k) => ConnOk(r) /\ Up(r)
  BY <1>6, <1>9 DEF ConnOk, Up, Down, Fresh, IsWriting
<1>11. QED
  BY <1>6, <1>9, <1>10

\* connectDestroyed() takes a closed connection out of its poller.
LEMMA DestroyedIsRemoved ==
  ASSUME NEW k, Sound(k), NEW r, r = ConnectDestroyed(k)
  PROVE  /\ Sound(r) /\ r.owner = k.owner
         /\ ConnOk(k) /\ Down(k) => ConnOk(r) /\ Down(r) /\ r.ch.index = "kNew"
<1>1. k.ch \in ChannelType /\ ChannelOk(k.ch)
  BY DEF Sound, ConnType
<1>2. CASE k.state = "kConnected"
  <2>1. PICK m : m = [k EXCEPT !.state = "kDisconnected"]
    OBVIOUS
  <2>2. PICK n : n = [m EXCEPT !.downs = k.downs + 1]
    OBVIOUS
  <2>3. PICK off : off = DisableAll(k.ch)
    OBVIOUS
  <2>4. PICK ch : ch = RemoveChannel(off)
    OBVIOUS
  <2>5. r = [n EXCEPT !.ch = ch]
    BY <1>2, <2>1, <2>2, <2>3, <2>4, Zenon DEF ConnectDestroyed
  <2>6. off \in ChannelType /\ ChannelOk(off)
    BY <1>1, <2>3, ChannelCalls
  <2>7. ch \in ChannelType /\ ChannelOk(ch)
    BY <2>4, <2>6, ChannelCalls
  <2>8. Sound(m) /\ m.owner = k.owner /\ m.downs = k.downs
    BY <2>1 DEF Sound, ConnType
  <2>9. Sound(n) /\ n.owner = k.owner
    BY <2>2, <2>8 DEF Sound, ConnType
  <2>10. Sound(r) /\ r.owner = k.owner
    BY <2>5, <2>7, <2>9, SetChannel
  <2>11. QED
    BY <1>2, <2>10 DEF Down
<1>3. CASE k.state # "kConnected"
  <2>1. PICK ch : ch = RemoveChannel(k.ch)
    OBVIOUS
  <2>2. r = [k EXCEPT !.ch = ch]
    BY <1>3, <2>1 DEF ConnectDestroyed
  <2>3. /\ ch \in ChannelType /\ ChannelOk(ch) /\ ch.events = k.ch.events
        /\ ch.index = "kNew"
    BY <1>1, <2>1, ChannelCalls
  <2>4. /\ Sound(r) /\ r.ch = ch /\ r.out = k.out
        /\ r.state = k.state /\ r.owner = k.owner /\ r.ups = k.ups
        /\ r.downs = k.downs
    BY <2>2, <2>3, SetChannel
  <2>5. ConnOk(k) /\ Down(k) => ConnOk(r) /\ Down(r)
    BY <2>3, <2>4 DEF ConnOk, Up, Down, Fresh
  <2>6. QED
    BY <2>3, <2>4, <2>5
<1>4. QED
  BY <1>2, <1>3

-----------------------------------------------------------------------------
(* Effects: a callback or a functor as a whole.                            *)

\* Only writeCompleteCallback_ is queued by a connection for itself.
EffectOk(e, c) ==
  /\ Sound(e.k)
  /\ e.own \in Seq({Functor("writeComplete", c)})
  /\ e.closed \in BOOLEAN

\* A call that does not close the connection.
Works(e, r, c) ==
  EffectOk(r, c) /\ Follows(e.k, r.k) /\ r.closed = e.closed

\* Calls follow each other.
LEMMA WorksTransitive ==
  ASSUME NEW c, NEW e, NEW m, NEW r, Works(e, m, c), Works(m, r, c)
  PROVE  Works(e, r, c)
BY FollowsTransitive DEF Works

\* A call that only changes the connection's record.
LEMMA WithWorks ==
  ASSUME NEW c, NEW e, EffectOk(e, c), NEW k, Sound(k), Follows(e.k, k),
         NEW r, r = With(e, k)
  PROVE  Works(e, r, c) /\ r.k = k
BY DEF EffectOk, Works, With, EffectOf

\* Nothing happens.
LEMMA NothingWorks ==
  ASSUME NEW c, NEW e, EffectOk(e, c)
  PROVE  Works(e, e, c)
BY SameLifeFollows DEF Works, SameLife

\* The pending error is collected.
LEMMA CollectErrorWorks ==
  ASSUME NEW c, NEW e, EffectOk(e, c), NEW r, r = CollectError(e)
  PROVE  Works(e, r, c)
<1>1. PICK p \in {"open", "fin", "rst", "gone"} :
        p = IF e.k.peer = "rst" THEN "gone" ELSE e.k.peer
  BY DEF EffectOk, Sound, ConnType
<1>2. PICK k : k = [e.k EXCEPT !.peer = p]
  OBVIOUS
<1>3. Sound(k) /\ SameLife(e.k, k)
  BY <1>2 DEF EffectOk, Sound, ConnType, SameLife
<1>4. r = With(e, k)
  BY <1>1, <1>2, Zenon DEF CollectError
<1>5. QED
  BY <1>3, <1>4, SameLifeFollows, WithWorks

\* writeCompleteCallback_ is queued, if it is set.
LEMMA QueueWorks ==
  ASSUME NEW c, NEW e, EffectOk(e, c), NEW r, r = QueueWriteComplete(e, c)
  PROVE  Works(e, r, c)
<1>0. CASE ~HasWriteCb
  BY <1>0, NothingWorks DEF QueueWriteComplete
<1> SUFFICES ASSUME HasWriteCb PROVE Works(e, r, c)
  BY <1>0
<1>1. e.own \in Seq({Functor("writeComplete", c)})
  BY DEF EffectOk
<1>2. Append(e.own, Functor("writeComplete", c)) \in Seq({Functor("writeComplete", c)})
  <2>1. PICK f : f = Functor("writeComplete", c)
    OBVIOUS
  <2>2. Append(e.own, f) \in Seq({f})
    BY <1>1, <2>1, AppendProperties
  <2>3. QED
    BY <2>1, <2>2
<1>3. /\ r.k = e.k /\ r.own = Append(e.own, Functor("writeComplete", c))
      /\ r.closed = e.closed
  BY DEF QueueWriteComplete, EffectOf
<1>4. Follows(e.k, r.k)
  BY <1>3, SameLifeFollows DEF SameLife
<1>5. QED
  BY <1>2, <1>3, <1>4 DEF EffectOk, Works

\* handleClose() of a connection that is up closes it.
LEMMA HandleCloseCloses ==
  ASSUME NEW c, NEW e, EffectOk(e, c), NEW r, r = HandleClose(e)
  PROVE  /\ EffectOk(r, c) /\ r.closed /\ r.own = e.own
         /\ r.k.owner = e.k.owner /\ r.k.ch.index # "kNew"
         /\ ConnOk(e.k) /\ Up(e.k) => ConnOk(r.k) /\ Down(r.k)
<1>. PICK k : k = e.k
  OBVIOUS
<1>1. PICK m : m = [k EXCEPT !.state = "kDisconnected"]
  OBVIOUS
<1>2. PICK n : n = [m EXCEPT !.downs = k.downs + 1]
  OBVIOUS
<1>3. PICK ch : ch = DisableAll(k.ch)
  OBVIOUS
<1>4. PICK p : p = [n EXCEPT !.ch = ch]
  OBVIOUS
<1>5. r = EffectOf(p, e.own, TRUE)
  BY <1>1, <1>2, <1>3, <1>4, Zenon DEF HandleClose
<1>6. Sound(k) /\ k.ch \in ChannelType /\ ChannelOk(k.ch)
  BY DEF EffectOk, Sound, ConnType
<1>7. /\ ch \in ChannelType /\ ChannelOk(ch) /\ ch.events = {}
      /\ k.ch.index = "kAdded" => ch.index = "kDeleted"
      /\ ch.index # "kNew"
  BY <1>3, <1>6, ChannelCalls
<1>8. /\ Sound(m) /\ m.state = "kDisconnected" /\ m.owner = k.owner
      /\ m.ups = k.ups /\ m.downs = k.downs
  BY <1>1, <1>6 DEF Sound, ConnType
<1>9. /\ Sound(n) /\ n.state = "kDisconnected" /\ n.owner = k.owner
      /\ n.ups = k.ups /\ n.downs = k.downs + 1
  BY <1>2, <1>8, <1>6 DEF Sound, ConnType
<1>10. /\ Sound(p) /\ p.ch = ch /\ p.state = "kDisconnected"
       /\ p.owner = k.owner /\ p.ups = k.ups /\ p.downs = k.downs + 1
  BY <1>4, <1>7, <1>9, SetChannel
<1>11. ConnOk(k) /\ Up(k) => ConnOk(p) /\ Down(p)
  BY <1>7, <1>10 DEF ConnOk, Up, Down, Fresh
<1>12. r.k = p /\ r.own = e.own /\ r.closed = TRUE
  BY <1>5 DEF EffectOf
<1>13. EffectOk(r, c)
  BY <1>10, <1>12 DEF EffectOk
<1>14. QED
  BY <1>7, <1>10, <1>11, <1>12, <1>13

\* The state tests of send(), sendInLoop() and shutdown() decide what runs;
\* none of them closes the connection.
LEMMA SendInLoopWorks ==
  ASSUME NEW c, NEW e, EffectOk(e, c), NEW res, NEW r, r = SendInLoop(e, c, res)
  PROVE  Works(e, r, c)
<1>1. Sound(e.k)
  BY DEF EffectOk
<1>2. PICK b : b = BufferAll(e)
  OBVIOUS
<1>3. PICK w : w = WriteDirect(e, c, res)
  OBVIOUS
<1>4. e.k.state # "kDisconnected" => Works(e, b, c)
  <2>1. PICK k : k = IF IsWriting(e.k.ch) THEN [e.k EXCEPT !.out = TRUE]
                     ELSE [e.k EXCEPT !.out = TRUE, !.ch = EnableWriting(e.k.ch)]
    OBVIOUS
  <2>2. b = With(e, k)
    BY <1>2, <2>1, Zenon DEF BufferAll
  <2>3. e.k.state # "kDisconnected" => Sound(k) /\ Follows(e.k, k)
    BY <1>1, <2>1, BufferKeeps, Zenon
  <2>4. QED
    BY <2>2, <2>3, WithWorks
<1>5. e.k.state # "kDisconnected" => Works(e, w, c)
  <2>1. CASE WriteFails(e.k)
    BY <1>3, <2>1, CollectErrorWorks DEF WriteDirect
  <2>2. CASE ~WriteFails(e.k) /\ res = "all"
    BY <1>3, <2>2, QueueWorks DEF WriteDirect
  <2>3. CASE ~WriteFails(e.k) /\ res # "all"
    <3>1. PICK k : k = [e.k EXCEPT !.out = TRUE, !.ch = EnableWriting(e.k.ch)]
      OBVIOUS
    <3>2. w = With(e, k)
      BY <1>3, <2>3, <3>1, Zenon DEF WriteDirect
    <3>3. e.k.state # "kDisconnected" => Sound(k) /\ Follows(e.k, k)
      BY <1>1, <3>1, BufferKeeps, Zenon
    <3>4. QED
      BY <3>2, <3>3, WithWorks
  <2>4. QED
    BY <2>1, <2>2, <2>3
<1>6. QED
  BY <1>2, <1>3, <1>4, <1>5, NothingWorks DEF SendInLoop

\* OnMessage: the application's answer to a message.
LEMMA OnMessageWorks ==
  ASSUME NEW c, NEW e, EffectOk(e, c), NEW ops, NEW res,
         NEW r, r = OnMessage(e, c, ops, res)
  PROVE  Works(e, r, c)
<1>1. PICK s : s = IF "send" \in ops THEN Send(e, c, res) ELSE e
  OBVIOUS
<1>2. Works(e, s, c)
  BY <1>1, SendInLoopWorks, NothingWorks DEF Send
<1>3. EffectOk(s, c)
  BY <1>2 DEF Works
<1>4. PICK t : t = With(s, Shutdown(s.k))
  OBVIOUS
<1>5. Works(s, t, c)
  <2>1. Sound(Shutdown(s.k)) /\ Follows(s.k, Shutdown(s.k))
    BY <1>3, ShutdownKeeps DEF EffectOk
  <2>2. QED
    BY <1>3, <1>4, <2>1, WithWorks
<1>6. r = IF "shutdown" \in ops THEN t ELSE s
  BY <1>1, <1>4 DEF OnMessage
<1>7. QED
  BY <1>2, <1>5, <1>6, WorksTransitive

\* handleRead() closes the connection at end-of-file, or else works.
LEMMA HandleReadWorks ==
  ASSUME NEW c, NEW e, EffectOk(e, c), NEW ops, NEW res,
         NEW r, r = HandleRead(e, c, ops, res)
  PROVE  Works(e, r, c) \/ r = HandleClose(e)
<1>1. CASE e.k.rx
  <2>1. PICK k : k = [e.k EXCEPT !.rx = FALSE]
    OBVIOUS
  <2>2. Sound(k) /\ SameLife(e.k, k)
    BY <2>1 DEF EffectOk, Sound, ConnType, SameLife
  <2>3. PICK m : m = With(e, k)
    OBVIOUS
  <2>4. Works(e, m, c)
    BY <2>2, <2>3, SameLifeFollows, WithWorks
  <2>5. r = OnMessage(m, c, ops, res)
    BY <1>1, <2>1, <2>3, Zenon DEF HandleRead
  <2>6. Works(m, r, c)
    BY <2>4, <2>5, OnMessageWorks DEF Works
  <2>7. QED
    BY <2>4, <2>6, WorksTransitive
<1>2. CASE ~e.k.rx /\ e.k.peer \in {"fin", "gone"}
  BY <1>2 DEF HandleRead
<1>3. CASE ~e.k.rx /\ e.k.peer \notin {"fin", "gone"}
  BY <1>3, CollectErrorWorks DEF HandleRead, HandleError
<1>4. QED
  BY <1>1, <1>2, <1>3

\* handleWrite() never closes the connection.
LEMMA HandleWriteWorks ==
  ASSUME NEW c, NEW e, EffectOk(e, c), NEW res, NEW r, r = HandleWrite(e, c, res)
  PROVE  Works(e, r, c)
<1>1. CASE ~IsWriting(e.k.ch) \/ (~WriteFails(e.k) /\ res # "all")
  BY <1>1, NothingWorks DEF HandleWrite
<1>2. CASE IsWriting(e.k.ch) /\ WriteFails(e.k)
  BY <1>2, CollectErrorWorks DEF HandleWrite
<1>3. CASE IsWriting(e.k.ch) /\ ~WriteFails(e.k) /\ res = "all"
  <2>1. PICK k : k = Flushed(e.k)
    OBVIOUS
  <2>2. Sound(k) /\ Follows(e.k, k)
    BY <1>3, <2>1, FlushedKeeps DEF EffectOk
  <2>3. PICK n : n = IF k.state = "kDisconnecting" THEN ShutdownInLoop(k) ELSE k
    OBVIOUS
  <2>4. Sound(n) /\ Follows(k, n)
    BY <2>2, <2>3, ShutdownInLoopKeeps, SameLifeFollows DEF SameLife
  <2>5. Follows(e.k, n)
    BY <2>2, <2>4, FollowsTransitive
  <2>6. PICK m : m = With(e, n)
    OBVIOUS
  <2>7. Works(e, m, c)
    BY <2>4, <2>5, <2>6, WithWorks
  <2>8. r = QueueWriteComplete(m, c)
    BY <1>3, <2>1, <2>3, <2>6, Zenon DEF HandleWrite
  <2>9. Works(m, r, c)
    BY <2>7, <2>8, QueueWorks DEF Works
  <2>10. QED
    BY <2>7, <2>9, WorksTransitive
<1>4. QED
  BY <1>1, <1>2, <1>3

\* A callback works or closes the connection; only "close" and "read" close.
LEMMA CallbackWorks ==
  ASSUME NEW c, NEW e, EffectOk(e, c), NEW ops, NEW res,
         NEW cb \in {"close", "error", "read", "write"},
         NEW r, r = Callback(cb, e, c, ops, res)
  PROVE  Works(e, r, c) \/ (r = HandleClose(e) /\ cb \in {"close", "read"})
<1>1. CASE cb = "close"
  BY <1>1 DEF Callback
<1>2. CASE cb = "error"
  BY <1>2, CollectErrorWorks DEF Callback, HandleError
<1>3. CASE cb = "read"
  BY <1>3, HandleReadWorks DEF Callback
<1>4. CASE cb = "write"
  BY <1>4, HandleWriteWorks DEF Callback
<1>5. QED
  BY <1>1, <1>2, <1>3, <1>4

-----------------------------------------------------------------------------
(* Loops: queues, vectors and activeChannels_.                             *)

SameExceptQueue(r, lp) ==
  /\ r.phase = lp.phase /\ r.active = lp.active /\ r.guard = lp.guard
  /\ r.batch = lp.batch /\ r.kept = lp.kept

\* A functor is queued in a loop.
LEMMA QueueChange ==
  ASSUME NEW lp \in LoopType, NEW q \in Seq(FunctorType),
         NEW r, r = [lp EXCEPT !.queue = q]
  PROVE  r \in LoopType /\ r.queue = q /\ SameExceptQueue(r, lp)
BY DEF LoopType, SameExceptQueue

\* The next callback: either the first entry is done, or it is left with the
\* callbacks that come after.
LEMMA PopCallbackPops ==
  ASSUME NEW lp \in LoopType, lp.active # <<>>,
         \A i \in DOMAIN lp.active : HasCallback(lp.active[i]),
         NEW r, r = PopCallback(lp)
  PROVE  /\ r \in LoopType
         /\ r.phase = lp.phase /\ r.queue = lp.queue /\ r.batch = lp.batch
         /\ r.kept = lp.kept
         /\ Tail(lp.active[1].cbs) = <<>> =>
              r.active = Tail(lp.active) /\ r.guard = {}
         /\ Tail(lp.active[1].cbs) # <<>> =>
              r.active = [lp.active EXCEPT
                            ![1] = [lp.active[1] EXCEPT !.cbs = Tail(lp.active[1].cbs)]]
         /\ \A i \in DOMAIN r.active : HasCallback(r.active[i])
<1>1. /\ lp.active \in Seq(EntryType) /\ Len(lp.active) \in Nat \ {0}
      /\ 1 \in DOMAIN lp.active /\ Head(lp.active) = lp.active[1]
      /\ lp.active[1] \in EntryType
      /\ DOMAIN lp.active = 1..Len(lp.active)
  BY DEF LoopType
<1>2. PICK x \in EntryType : x = lp.active[1]
  BY <1>1
<1>3. HasCallback(x)
  BY <1>1, <1>2
<1>4. PICK cbs \in Seq({"close", "error", "read", "write"}) : cbs = Tail(x.cbs)
  <2>1. x.cbs \in Seq({"close", "error", "read", "write"})
    BY DEF EntryType
  <2>2. x.cbs # <<>>
    BY <1>3 DEF HasCallback
  <2>3. Tail(x.cbs) \in Seq({"close", "error", "read", "write"})
    BY <2>1, <2>2
  <2>4. QED
    BY <2>3
<1>5. CASE cbs = <<>>
  <2>1. PICK act : act = Tail(lp.active)
    OBVIOUS
  <2>2. /\ act \in Seq(EntryType) /\ Len(act) = Len(lp.active) - 1
        /\ \A i \in 1..Len(act) : act[i] = lp.active[i + 1]
        /\ DOMAIN act = 1..Len(act)
    BY <1>1, <2>1
  <2>3. PICK none \in SUBSET Conn : none = {}
    OBVIOUS
  <2>4. PICK m : m = [lp EXCEPT !.active = act]
    OBVIOUS
  <2>5. r = [m EXCEPT !.guard = none]
    BY <1>1, <1>2, <1>4, <1>5, <2>1, <2>3, <2>4, Zenon DEF PopCallback
  <2>6. /\ m \in LoopType /\ m.active = act
        /\ m.phase = lp.phase /\ m.queue = lp.queue /\ m.batch = lp.batch
        /\ m.kept = lp.kept
    BY <2>2, <2>4 DEF LoopType
  <2>7. /\ r \in LoopType /\ r.active = act /\ r.guard = none
        /\ r.phase = lp.phase /\ r.queue = lp.queue /\ r.batch = lp.batch
        /\ r.kept = lp.kept
    BY <2>5, <2>6 DEF LoopType
  <2>8. \A i \in DOMAIN r.active : HasCallback(r.active[i])
    <3>1. ASSUME NEW i \in 1..Len(act)
          PROVE  HasCallback(act[i])
      <4>1. act[i] = lp.active[i + 1] /\ i + 1 \in DOMAIN lp.active
        BY <1>1, <2>2
      <4>2. QED
        BY <4>1
    <3>2. QED
      BY <2>2, <2>7, <3>1
  <2>9. QED
    BY <1>2, <1>4, <1>5, <2>1, <2>3, <2>7, <2>8
<1>6. CASE cbs # <<>>
  <2>1. x.ch # Acceptor /\ x.ch \in Conn
    BY <1>3, <1>4, <1>6 DEF HasCallback, EntryType
  <2>2. PICK y : y = [x EXCEPT !.cbs = cbs]
    OBVIOUS
  <2>3. y \in EntryType /\ y.ch = x.ch /\ y.cbs = cbs
    BY <2>2 DEF EntryType
  <2>4. PICK act : act = [lp.active EXCEPT ![1] = y]
    OBVIOUS
  <2>5. /\ act \in Seq(EntryType) /\ Len(act) = Len(lp.active) /\ act[1] = y
        /\ \A i \in 1..Len(act) : i # 1 => act[i] = lp.active[i]
        /\ DOMAIN act = 1..Len(act)
    BY <1>1, <2>3, <2>4
  <2>6. PICK one \in SUBSET Conn : one = {x.ch}
    BY <2>1
  <2>7. PICK m : m = [lp EXCEPT !.active = act]
    OBVIOUS
  <2>8. m = [lp EXCEPT !.active[1].cbs = cbs]
    BY <1>2, <2>2, <2>4, <2>7
  <2>9. r = [m EXCEPT !.guard = one]
    BY <1>1, <1>2, <1>4, <1>6, <2>6, <2>8, Zenon DEF PopCallback
  <2>10. /\ m \in LoopType /\ m.active = act
         /\ m.phase = lp.phase /\ m.queue = lp.queue /\ m.batch = lp.batch
         /\ m.kept = lp.kept
    BY <2>5, <2>7 DEF LoopType
  <2>11. /\ r \in LoopType /\ r.active = act
         /\ r.phase = lp.phase /\ r.queue = lp.queue /\ r.batch = lp.batch
         /\ r.kept = lp.kept
    BY <2>9, <2>10 DEF LoopType
  <2>12. HasCallback(y)
    BY <1>6, <2>1, <2>3 DEF HasCallback
  <2>13. ASSUME NEW i \in 1..Len(act)
         PROVE  HasCallback(act[i])
    BY <1>1, <2>5, <2>12
  <2>14. \A i \in DOMAIN r.active : HasCallback(r.active[i])
    BY <2>5, <2>11, <2>13
  <2>15. QED
    BY <1>2, <1>4, <1>6, <2>2, <2>4, <2>11, <2>14
<1>7. QED
  BY <1>5, <1>6

\* The next functor leaves the vector; if it holds a reference, the
\* reference stays until the vector is destroyed.
LEMMA PopFunctorPops ==
  ASSUME NEW lp \in LoopType, lp.batch # <<>>, NEW r, r = PopFunctor(lp)
  PROVE  /\ r \in LoopType
         /\ r.phase = lp.phase /\ r.queue = lp.queue /\ r.active = lp.active
         /\ r.batch = Tail(lp.batch)
         /\ Head(lp.batch) \in FunctorType
<1>1. /\ lp.batch \in Seq(FunctorType) /\ Head(lp.batch) \in FunctorType
      /\ Tail(lp.batch) \in Seq(FunctorType)
  BY DEF LoopType
<1>2. PICK f \in FunctorType : f = Head(lp.batch)
  BY <1>1
<1>3. PICK b \in Seq(FunctorType) : b = Tail(lp.batch)
  BY <1>1
<1>4. f.conn \in Conn
  BY DEF FunctorType
<1>5. PICK kept \in SUBSET Conn :
        kept = lp.kept \union (IF Strong(f) THEN {f.conn} ELSE {})
  BY <1>4 DEF LoopType
<1>6. PICK m : m = [lp EXCEPT !.batch = b]
  OBVIOUS
<1>7. m \in LoopType /\ m.batch = b /\ m.kept = lp.kept
      /\ m.phase = lp.phase /\ m.queue = lp.queue /\ m.active = lp.active
  BY <1>6 DEF LoopType
<1>8. r = [m EXCEPT !.kept = kept]
  BY <1>2, <1>3, <1>5, <1>6, <1>7 DEF PopFunctor
<1>9. /\ r \in LoopType /\ r.batch = b
      /\ r.phase = lp.phase /\ r.queue = lp.queue /\ r.active = lp.active
  BY <1>7, <1>8 DEF LoopType
<1>10. QED
  BY <1>1, <1>3, <1>9

\* The functors a connection queues for itself are functors.
LEMMA OwnFunctors ==
  ASSUME NEW c \in Conn, NEW e, EffectOk(e, c)
  PROVE  /\ e.own \in Seq(FunctorType)
         /\ e.own \o <<Functor("destroyed", c)>> \in Seq(FunctorType)
         /\ e.own \o <<>> = e.own
         /\ \A i \in 1..Len(e.own) : e.own[i] = Functor("writeComplete", c)
         /\ Functor("remove", c) \in FunctorType
         /\ Functor("destroyed", c) \in FunctorType
<1>1. /\ Functor("writeComplete", c) \in FunctorType
      /\ Functor("destroyed", c) \in FunctorType
      /\ Functor("remove", c) \in FunctorType
  BY DEF Functor, FunctorType
<1>2. PICK f \in FunctorType : f = Functor("writeComplete", c)
  BY <1>1
<1>3. PICK g \in FunctorType : g = Functor("destroyed", c)
  BY <1>1
<1>4. PICK own : own = e.own
  OBVIOUS
<1>5. own \in Seq({f})
  BY <1>2, <1>4 DEF EffectOk
<1>6. own \in Seq(FunctorType) /\ \A i \in 1..Len(own) : own[i] = f
  <2>1. /\ Len(own) \in Nat /\ DOMAIN own = 1..Len(own)
        /\ \A i \in 1..Len(own) : own[i] = f
    BY <1>5
  <2>2. QED
    BY <1>5, <2>1
<1>7. <<g>> \in Seq(FunctorType)
  OBVIOUS
<1>8. own \o <<g>> \in Seq(FunctorType) /\ own \o <<>> = own
  BY <1>6, <1>7, ConcatProperties, ConcatEmptySeq
<1>9. QED
  BY <1>1, <1>2, <1>3, <1>4, <1>6, <1>8

\* Apply(): the connection, its loop's queue, and TcpServer when it closed.
LEMMA ApplyChanges ==
  ASSUME TypeOK, NEW l \in Loops, NEW lp \in LoopType, NEW c \in Conn, NEW e,
         EffectOk(e, c), Apply(l, lp, c, e)
  PROVE  /\ conn' = [conn EXCEPT ![c] = e.k]
         /\ loop' \in [Loops -> LoopType]
         /\ connections' = IF e.closed /\ l = Base THEN connections \ {c}
                           ELSE connections
         /\ SameExceptQueue(loop'[l], lp)
         /\ \A x \in Loops : x # l => SameExceptQueue(loop'[x], loop[x])
         /\ loop'[l].queue =
              IF e.closed /\ l = Base
              THEN lp.queue \o (e.own \o <<Functor("destroyed", c)>>)
              ELSE lp.queue \o e.own
         /\ \A x \in Loops : x # l =>
              loop'[x].queue = IF e.closed /\ x = Base
                               THEN Append(loop[x].queue, Functor("remove", c))
                               ELSE loop[x].queue
<1>1. PICK own \in Seq(FunctorType) :
        /\ own = IF e.closed /\ l = Base
                 THEN e.own \o <<Functor("destroyed", c)>> ELSE e.own
        /\ own = e.own \o (IF e.closed /\ l = Base
                           THEN <<Functor("destroyed", c)>> ELSE <<>>)
  BY OwnFunctors, Zenon
<1>2. PICK q \in Seq(FunctorType) :
        /\ q = lp.queue \o own
        /\ q = IF e.closed /\ l = Base
               THEN lp.queue \o (e.own \o <<Functor("destroyed", c)>>)
               ELSE lp.queue \o e.own
  <2>1. PICK q : q = lp.queue \o own
    OBVIOUS
  <2>2. q \in Seq(FunctorType)
    BY <2>1, ConcatProperties DEF LoopType
  <2>3. q = IF e.closed /\ l = Base
            THEN lp.queue \o (e.own \o <<Functor("destroyed", c)>>)
            ELSE lp.queue \o e.own
    BY <1>1, <2>1, Zenon
  <2>4. QED
    BY <2>1, <2>2, <2>3
<1>3. PICK mine : mine = [loop EXCEPT ![l] = [lp EXCEPT !.queue = q]]
  OBVIOUS
<1>4. loop' = IF e.closed /\ l # Base
              THEN [mine EXCEPT ![Base].queue =
                                  Append(mine[Base].queue, Functor("remove", c))]
              ELSE mine
  <2>1. mine = [loop EXCEPT ![l] = [lp EXCEPT !.queue = lp.queue \o
                 (e.own \o (IF e.closed /\ l = Base
                            THEN <<Functor("destroyed", c)>> ELSE <<>>))]]
    BY <1>1, <1>2, <1>3, Zenon
  <2>2. QED
    BY <2>1, Zenon DEF Apply
<1>5. PICK n : n = [lp EXCEPT !.queue = q]
  OBVIOUS
<1>6. n \in LoopType /\ n.queue = q /\ SameExceptQueue(n, lp)
  BY <1>5, QueueChange
<1>7. loop \in [Loops -> LoopType]
  BY DEF TypeOK
<1>8. /\ mine \in [Loops -> LoopType] /\ mine[l] = n
      /\ \A x \in Loops : x # l => mine[x] = loop[x]
  BY <1>3, <1>5, <1>6, <1>7
<1>9. /\ conn' = [conn EXCEPT ![c] = e.k]
      /\ connections' = IF e.closed /\ l = Base THEN connections \ {c}
                        ELSE connections
  BY DEF Apply
<1>10. CASE ~(e.closed /\ l # Base)
  <2>1. loop' = mine
    BY <1>4, <1>10
  <2>2. \A x \in Loops : x # l =>
          /\ loop'[x] = loop[x]
          /\ SameExceptQueue(loop'[x], loop[x])
    BY <1>8, <2>1 DEF SameExceptQueue
  <2>3. \A x \in Loops : x # l =>
              loop'[x].queue = IF e.closed /\ x = Base
                               THEN Append(loop[x].queue, Functor("remove", c))
                               ELSE loop[x].queue
    BY <1>10, <2>2
  <2>4. /\ loop' \in [Loops -> LoopType] /\ SameExceptQueue(loop'[l], lp)
        /\ loop'[l].queue = q
    BY <1>6, <1>8, <2>1
  <2>5. QED
    BY <1>1, <1>2, <1>9, <2>2, <2>3, <2>4, Zenon
<1>11. CASE e.closed /\ l # Base
  <2>1. Base \in Loops /\ mine[Base] = loop[Base]
    BY <1>8, <1>11 DEF Loops
  <2>2. PICK f \in FunctorType : f = Functor("remove", c)
    BY OwnFunctors
  <2>3. PICK qb \in Seq(FunctorType) : qb = Append(loop[Base].queue, f)
    <3>1. loop[Base].queue \in Seq(FunctorType)
      BY <1>7, <2>1 DEF LoopType
    <3>2. Append(loop[Base].queue, f) \in Seq(FunctorType)
      BY <3>1, AppendProperties
    <3>3. QED
      BY <3>2
  <2>4. PICK nb : nb = [mine[Base] EXCEPT !.queue = qb]
    OBVIOUS
  <2>5. nb \in LoopType /\ nb.queue = qb /\ SameExceptQueue(nb, mine[Base])
    BY <1>8, <2>1, <2>4, QueueChange
  <2>6. loop' = [mine EXCEPT ![Base] = nb]
    BY <1>4, <1>11, <2>1, <2>2, <2>3, <2>4
  <2>7. /\ loop' \in [Loops -> LoopType]
        /\ loop'[Base].queue = qb /\ SameExceptQueue(loop'[Base], mine[Base])
        /\ \A y \in Loops : y # Base => loop'[y] = mine[y]
    BY <1>8, <2>1, <2>5, <2>6
  <2>8. loop'[l] = n
    BY <1>8, <1>11, <2>7
  <2>9. \A x \in Loops : x # l => SameExceptQueue(loop'[x], loop[x])
    BY <1>8, <2>7 DEF SameExceptQueue
  <2>10. \A x \in Loops : x # l =>
              loop'[x].queue = IF e.closed /\ x = Base
                               THEN Append(loop[x].queue, Functor("remove", c))
                               ELSE loop[x].queue
    BY <1>8, <1>11, <2>1, <2>2, <2>3, <2>7
  <2>11. SameExceptQueue(loop'[l], lp) /\ loop'[l].queue = q
    BY <1>6, <2>8
  <2>12. QED
    BY <1>1, <1>2, <1>9, <2>7, <2>9, <2>10, <2>11, Zenon
<1>12. QED
  BY <1>10, <1>11

-----------------------------------------------------------------------------
(* What epoll_wait() reports.                                              *)

CallbackName == {"close", "error", "read", "write"}

\* The callbacks so far are among S.
Among(cbs, S) ==
  /\ cbs \in Seq(CallbackName) /\ Ordered(cbs)
  /\ \A i \in 1..Len(cbs) : cbs[i] \in S

\* One more callback of handleEventWithGuard().
LEMMA AppendOrdered ==
  ASSUME NEW S, NEW cbs, Among(cbs, S), NEW cb \in CallbackName,
         cb = "close" => cbs = <<>>,
         cb = "read" => "close" \notin S /\ "read" \notin S,
         NEW r, r = Append(cbs, cb)
  PROVE  Among(r, S \union {cb}) /\ r # <<>>
<1>1. cbs \in Seq(CallbackName) /\ Ordered(cbs) /\ \A i \in 1..Len(cbs) : cbs[i] \in S
  BY DEF Among
<1>2. /\ r \in Seq(CallbackName) /\ Len(r) = Len(cbs) + 1 /\ Len(cbs) \in Nat
      /\ DOMAIN r = 1..Len(r) /\ DOMAIN cbs = 1..Len(cbs)
      /\ \A i \in 1..Len(cbs) : r[i] = cbs[i]
      /\ r[Len(cbs) + 1] = cb
  BY <1>1, AppendProperties
<1>3. \A i \in 1..Len(r) : r[i] \in S \union {cb}
  BY <1>1, <1>2
<1>4. ASSUME NEW i \in 1..Len(r), NEW j \in 1..Len(r), i < j
      PROVE  /\ r[j] # "close"
             /\ r[j] = "read" => r[i] \notin {"close", "read"}
  <2>1. i \in 1..Len(cbs) /\ r[i] = cbs[i] /\ cbs[i] \in S
    BY <1>1, <1>2, <1>4
  <2>2. CASE j \in 1..Len(cbs)
    <3>1. r[j] = cbs[j]
      BY <1>2, <2>2
    <3>2. QED
      BY <1>1, <1>2, <1>4, <2>1, <2>2, <3>1 DEF Ordered
  <2>3. CASE j = Len(cbs) + 1
    <3>1. r[j] = cb /\ cbs # <<>>
      BY <1>2, <2>1, <2>3
    <3>2. QED
      BY <2>1, <3>1
  <2>4. QED
    BY <1>2, <2>2, <2>3
<1>5. Ordered(r)
  BY <1>2, <1>4 DEF Ordered
<1>6. r # <<>>
  BY <1>2
<1>7. QED
  BY <1>2, <1>3, <1>5, <1>6 DEF Among

\* A larger set will do.
LEMMA AmongLarger ==
  ASSUME NEW S, NEW cbs, Among(cbs, S), NEW U, S \subseteq U
  PROVE  Among(cbs, U)
BY DEF Among

\* handleEventWithGuard() makes at least one callback of a reported channel,
\* and in an order in which the connection is closed at most once.
LEMMA CallbacksOrdered ==
  ASSUME NEW R \in SUBSET {"HUP", "ERR", "IN", "OUT"}, R # {},
         NEW r, r = Callbacks(R)
  PROVE  r \in Seq(CallbackName) /\ r # <<>> /\ Ordered(r)
<1>1. PICK none \in Seq(CallbackName) : none = <<>>
  BY EmptySeq
<1>2. Among(none, {})
  <2>1. Len(none) = 0 /\ DOMAIN none = 1..Len(none)
    BY <1>1
  <2>2. QED
    BY <2>1 DEF Among, Ordered
<1>3. PICK close : close = Then(none, "HUP" \in R /\ "IN" \notin R, "close")
  OBVIOUS
<1>4. PICK error : error = Then(close, "ERR" \in R, "error")
  OBVIOUS
<1>5. PICK read : read = Then(error, "IN" \in R, "read")
  OBVIOUS
<1>6. r = Then(read, "OUT" \in R, "write")
  BY <1>1, <1>3, <1>4, <1>5 DEF Callbacks
<1>7. /\ "close" \in CallbackName /\ "error" \in CallbackName
      /\ "read" \in CallbackName /\ "write" \in CallbackName
  BY DEF CallbackName
<1>8. /\ Among(close, {"close"})
      /\ "IN" \in R => Among(close, {})
      /\ "HUP" \in R /\ "IN" \notin R => close # <<>>
  <2>1. CASE "HUP" \in R /\ "IN" \notin R
    <3>1. close = Append(none, "close")
      BY <1>3, <2>1 DEF Then
    <3>2. Among(close, {} \union {"close"}) /\ close # <<>>
      BY <1>1, <1>2, <1>7, <3>1, AppendOrdered
    <3>3. {} \union {"close"} = {"close"}
      OBVIOUS
    <3>4. QED
      BY <2>1, <3>2, <3>3
  <2>2. CASE ~("HUP" \in R /\ "IN" \notin R)
    <3>1. Among(close, {})
      BY <1>2, <1>3, <2>2 DEF Then
    <3>2. QED
      BY <2>2, <3>1, AmongLarger
  <2>3. QED
    BY <2>1, <2>2
<1>9. ASSUME NEW S, Among(close, S)
      PROVE  /\ Among(error, S \union {"error"})
             /\ "ERR" \in R \/ close # <<>> => error # <<>>
  <2>1. CASE "ERR" \in R
    <3>1. error = Append(close, "error")
      BY <1>4, <2>1 DEF Then
    <3>2. QED
      BY <1>7, <1>9, <3>1, AppendOrdered
  <2>2. CASE "ERR" \notin R
    <3>1. error = close
      BY <1>4, <2>2 DEF Then
    <3>2. QED
      BY <1>9, <2>2, <3>1, AmongLarger
  <2>3. QED
    BY <2>1, <2>2
<1>10. PICK S : Among(read, S) /\ (error # <<>> \/ "IN" \in R => read # <<>>)
  <2>1. CASE "IN" \in R
    <3>1. read = Append(error, "read")
      BY <1>5, <2>1 DEF Then
    <3>2. Among(error, {} \union {"error"})
      BY <1>8, <1>9, <2>1
    <3>3. PICK S : S = {} \union {"error"}
      OBVIOUS
    <3>4. Among(error, S) /\ "close" \notin S /\ "read" \notin S
      BY <3>2, <3>3
    <3>5. Among(read, S \union {"read"}) /\ read # <<>>
      BY <1>7, <3>1, <3>4, AppendOrdered
    <3>6. QED
      BY <3>5
  <2>2. CASE "IN" \notin R
    <3>1. read = error
      BY <1>5, <2>2 DEF Then
    <3>2. Among(error, {"close"} \union {"error"})
      BY <1>8, <1>9
    <3>3. QED
      BY <2>2, <3>1, <3>2
  <2>3. QED
    BY <2>1, <2>2
<1>11. PICK U : Among(r, U) /\ (read # <<>> \/ "OUT" \in R => r # <<>>)
  <2>1. CASE "OUT" \in R
    <3>1. r = Append(read, "write")
      BY <1>6, <2>1 DEF Then
    <3>2. Among(r, S \union {"write"}) /\ r # <<>>
      BY <1>7, <1>10, <3>1, AppendOrdered
    <3>3. QED
      BY <3>2
  <2>2. CASE "OUT" \notin R
    BY <1>6, <1>10, <2>2 DEF Then
  <2>3. QED
    BY <2>1, <2>2
<1>12. "ERR" \in R \/ close # <<>> => error # <<>>
  BY <1>8, <1>9
<1>13. "HUP" \in R \/ "ERR" \in R \/ "IN" \in R \/ "OUT" \in R
  OBVIOUS
<1>14. r # <<>>
  BY <1>8, <1>10, <1>11, <1>12, <1>13
<1>15. QED
  BY <1>11, <1>14 DEF Among

\* poll() makes one entry for each ready connection of the loop, and one for
\* the acceptor in the base loop.
LEMMA PollReports ==
  ASSUME ServerAssumption, TypeOK, NEW l \in Loops, Poll(l)
  PROVE  \E act \in Seq(EntryType) :
           /\ loop' = [loop EXCEPT ![l].phase = "handle", ![l].active = act]
           /\ \A i \in 1..Len(act) :
                /\ HasCallback(act[i]) /\ Ordered(act[i].cbs)
                /\ act[i].ch # Acceptor => act[i].ch \in Polled(l)
                /\ \A j \in 1..Len(act) : act[i].ch = act[j].ch => i = j
<1>1. PICK writable \in SUBSET {c \in Polled(l) : IsWriting(conn[c].ch)} :
       LET revents(c) == Revents(conn[c], c \in writable)
           ready == {c \in Polled(l) : revents(c) # {}}
           accept == IF l = Base /\ listening /\ backlog # {} THEN {Acceptor}
                     ELSE {}
           entry(c) == [ch |-> c, cbs |-> IF c = Acceptor THEN <<"read">>
                                          ELSE Callbacks(revents(c))]
       IN \E order \in SetToSeqs(ready \union accept) :
            loop' = [loop EXCEPT
                       ![l].phase = "handle",
                       ![l].active = [i \in DOMAIN order |-> entry(order[i])]]
  BY DEF Poll
<1>. DEFINE revents(c) == Revents(conn[c], c \in writable)
            ready == {c \in Polled(l) : revents(c) # {}}
            accept == IF l = Base /\ listening /\ backlog # {} THEN {Acceptor}
                      ELSE {}
            entry(c) == [ch |-> c, cbs |-> IF c = Acceptor THEN <<"read">>
                                           ELSE Callbacks(revents(c))]
<1>2. PICK S : S = ready \union accept
  OBVIOUS
<1>3. PICK order \in SetToSeqs(S) :
        loop' = [loop EXCEPT
                   ![l].phase = "handle",
                   ![l].active = [i \in DOMAIN order |-> entry(order[i])]]
  BY <1>1, <1>2
<1>4. S \subseteq Polled(l) \union {Acceptor} /\ Polled(l) \subseteq Conn
  BY <1>2 DEF Polled
<1>5. IsFiniteSet(S)
  <2>1. IsFiniteSet(Conn)
    BY DEF ServerAssumption
  <2>2. IsFiniteSet({Acceptor})
    BY FS_Singleton
  <2>3. IsFiniteSet(Conn \union {Acceptor})
    BY <2>1, <2>2, FS_Union
  <2>4. S \subseteq Conn \union {Acceptor}
    BY <1>4
  <2>5. QED
    BY <2>3, <2>4, FS_Subset
<1>6. PICK n \in Nat : n = Cardinality(S)
  BY <1>5, FS_CardinalityType
<1>7. /\ order \in [1..n -> S] /\ DOMAIN order = 1..n
      /\ \A i, j \in 1..n : i # j => order[i] # order[j]
  BY <1>3, <1>6 DEF SetToSeqs
<1>8. ASSUME NEW c \in S
      PROVE  /\ entry(c) \in EntryType /\ HasCallback(entry(c))
             /\ Ordered(entry(c).cbs) /\ entry(c).ch = c
  <2>1. c \in Conn \union {Acceptor} /\ (c # Acceptor => c \in ready)
    BY <1>2, <1>4, <1>8
  <2>2. CASE c = Acceptor
    <3>1. PICK one : one = <<"read">>
      OBVIOUS
    <3>2. one \in Seq(CallbackName) /\ one # <<>> /\ Tail(one) = <<>> /\ Len(one) = 1
      BY <3>1 DEF CallbackName
    <3>3. Ordered(one)
      BY <3>2 DEF Ordered
    <3>4. entry(c) = [ch |-> c, cbs |-> one]
      BY <2>2, <3>1
    <3>5. QED
      BY <2>1, <3>2, <3>3, <3>4 DEF EntryType, HasCallback, CallbackName
  <2>3. CASE c # Acceptor
    <3>1. PICK R \in SUBSET {"HUP", "ERR", "IN", "OUT"} : R = revents(c)
      BY DEF Revents
    <3>2. R # {}
      BY <2>1, <2>3, <3>1
    <3>3. PICK cbs : cbs = Callbacks(R)
      OBVIOUS
    <3>4. cbs \in Seq(CallbackName) /\ cbs # <<>> /\ Ordered(cbs)
      BY <3>2, <3>3, CallbacksOrdered
    <3>5. entry(c) = [ch |-> c, cbs |-> cbs]
      BY <2>3, <3>1, <3>3
    <3>6. QED
      BY <2>1, <2>3, <3>4, <3>5 DEF EntryType, HasCallback, CallbackName
  <2>4. QED
    BY <2>2, <2>3
<1>. HIDE DEF entry
<1>9. PICK act : act = [i \in DOMAIN order |-> entry(order[i])]
  OBVIOUS
<1>10. /\ act \in [1..n -> EntryType] /\ DOMAIN act = 1..n
       /\ \A i \in 1..n : order[i] \in S /\ act[i] = entry(order[i])
  BY <1>7, <1>8, <1>9
<1>11. act \in Seq(EntryType) /\ Len(act) = n
  BY <1>10, SeqDef
<1>12. ASSUME NEW i \in 1..n
       PROVE  /\ HasCallback(act[i]) /\ Ordered(act[i].cbs)
              /\ act[i].ch # Acceptor => act[i].ch \in Polled(l)
              /\ \A j \in 1..n : act[i].ch = act[j].ch => i = j
  <2>1. act[i] = entry(order[i]) /\ order[i] \in S
    BY <1>10
  <2>2. HasCallback(act[i]) /\ Ordered(act[i].cbs) /\ act[i].ch = order[i]
    BY <1>8, <2>1
  <2>3. \A j \in 1..n : act[j].ch = order[j]
    BY <1>8, <1>10
  <2>4. \A j \in 1..n : act[i].ch = act[j].ch => i = j
    BY <1>7, <2>2, <2>3
  <2>5. act[i].ch # Acceptor => act[i].ch \in Polled(l)
    BY <1>4, <2>1, <2>2
  <2>6. QED
    BY <2>2, <2>4, <2>5
<1>13. loop' = [loop EXCEPT ![l].phase = "handle", ![l].active = act]
  BY <1>3, <1>9
<1>14. QED
  BY <1>11, <1>12, <1>13

-----------------------------------------------------------------------------
(* What the actions do to the loops.                                       *)

\* The loops, the next one in the rotation and what they hold are of their types.
LEMMA LoopFacts ==
  ASSUME ServerAssumption, TypeOK
  PROVE  /\ Base \in Loops /\ NextLoop \in Loops
         /\ AdvanceNext \in IF IoLoops = <<>> THEN {1} ELSE 1..Len(IoLoops)
         /\ loop \in [Loops -> LoopType] /\ conn \in [Conn -> ConnType]
         /\ \A l \in Loops : loop[l] \in LoopType
<1>1. Base \in Loops
  BY DEF Loops
<1>2. loop \in [Loops -> LoopType] /\ conn \in [Conn -> ConnType]
  BY DEF TypeOK
<1>3. IoLoops \in Seq(Range(IoLoops))
  BY DEF ServerAssumption
<1>4. CASE IoLoops = <<>>
  <2>1. Len(IoLoops) = 0 /\ next = 1
    BY <1>4 DEF TypeOK
  <2>2. QED
    BY <1>1, <1>2, <1>4, <2>1 DEF NextLoop, AdvanceNext
<1>5. CASE IoLoops # <<>>
  <2>1. Len(IoLoops) \in Nat \ {0} /\ DOMAIN IoLoops = 1..Len(IoLoops)
    BY <1>3, <1>5
  <2>2. next \in 1..Len(IoLoops)
    BY <1>5 DEF TypeOK
  <2>3. IoLoops[next] \in Range(IoLoops)
    BY <1>3, <2>1, <2>2
  <2>4. NextLoop \in Loops
    BY <1>5, <2>3 DEF NextLoop, Loops
  <2>5. AdvanceNext \in 1..Len(IoLoops)
    BY <2>1, <2>2 DEF AdvanceNext
  <2>6. QED
    BY <1>1, <1>2, <1>5, <2>4, <2>5
<1>6. QED
  BY <1>4, <1>5

\* poll() fills activeChannels_.
LEMMA PollChanges ==
  ASSUME ServerAssumption, TypeOK, NEW l \in Loops, Poll(l)
  PROVE  \E act \in Seq(EntryType), n \in LoopType :
           /\ loop' = [loop EXCEPT ![l] = n]
           /\ n.phase = "handle" /\ n.active = act /\ n.guard = loop[l].guard
           /\ n.queue = loop[l].queue /\ n.batch = loop[l].batch
           /\ n.kept = loop[l].kept
           /\ \A i \in 1..Len(act) :
                /\ HasCallback(act[i]) /\ Ordered(act[i].cbs)
                /\ act[i].ch # Acceptor => act[i].ch \in Polled(l)
                /\ \A j \in 1..Len(act) : act[i].ch = act[j].ch => i = j
<1>1. PICK act \in Seq(EntryType) :
           /\ loop' = [loop EXCEPT ![l].phase = "handle", ![l].active = act]
           /\ \A i \in 1..Len(act) :
                /\ HasCallback(act[i]) /\ Ordered(act[i].cbs)
                /\ act[i].ch # Acceptor => act[i].ch \in Polled(l)
                /\ \A j \in 1..Len(act) : act[i].ch = act[j].ch => i = j
  BY PollReports
<1>2. loop \in [Loops -> LoopType] /\ loop[l] \in LoopType
  BY DEF TypeOK
<1>3. PICK m : m = [loop[l] EXCEPT !.phase = "handle"]
  OBVIOUS
<1>4. PICK n : n = [m EXCEPT !.active = act]
  OBVIOUS
<1>5. /\ m \in LoopType /\ m.phase = "handle"
      /\ m.guard = loop[l].guard /\ m.queue = loop[l].queue
      /\ m.batch = loop[l].batch /\ m.kept = loop[l].kept
  BY <1>2, <1>3 DEF LoopType
<1>6. /\ n \in LoopType /\ n.phase = "handle" /\ n.active = act
      /\ n.guard = loop[l].guard /\ n.queue = loop[l].queue
      /\ n.batch = loop[l].batch /\ n.kept = loop[l].kept
  BY <1>4, <1>5 DEF LoopType
<1>7. loop' = [loop EXCEPT ![l] = n]
  <2>1. PICK p : p = [loop EXCEPT ![l] = m]
    OBVIOUS
  <2>2. p[l] = m
    BY <1>2, <2>1
  <2>3. loop' = [p EXCEPT ![l].active = act]
    BY <1>1, <1>3, <2>1
  <2>4. loop' = [p EXCEPT ![l] = n]
    BY <1>4, <2>2, <2>3
  <2>5. QED
    BY <1>2, <2>1, <2>4
<1>8. QED
  BY <1>1, <1>6, <1>7

\* The vector is swapped with pendingFunctors_.
LEMMA SwapChanges ==
  ASSUME TypeOK, NEW l \in Loops, SwapFunctors(l)
  PROVE  \E n \in LoopType :
           /\ loop' = [loop EXCEPT ![l] = n]
           /\ n.phase = "run" /\ n.active = loop[l].active /\ n.active = <<>>
           /\ n.batch = loop[l].queue /\ n.queue = <<>>
           /\ n.guard = loop[l].guard /\ n.kept = loop[l].kept
<1>1. loop \in [Loops -> LoopType] /\ loop[l] \in LoopType
  BY DEF TypeOK
<1>2. PICK q \in Seq(FunctorType) : q = loop[l].queue
  BY <1>1 DEF LoopType
<1>3. PICK none \in Seq(FunctorType) : none = <<>>
  BY EmptySeq
<1>4. loop[l].active = <<>> /\
      loop' = [loop EXCEPT ![l].phase = "run", ![l].batch = q, ![l].queue = none]
  BY <1>2, <1>3, Zenon DEF SwapFunctors
<1>5. PICK m : m = [loop[l] EXCEPT !.phase = "run"]
  OBVIOUS
<1>6. PICK b : b = [m EXCEPT !.batch = q]
  OBVIOUS
<1>7. PICK n : n = [b EXCEPT !.queue = none]
  OBVIOUS
<1>8. /\ m \in LoopType /\ m.phase = "run" /\ m.active = loop[l].active
      /\ m.guard = loop[l].guard /\ m.kept = loop[l].kept
  BY <1>1, <1>5 DEF LoopType
<1>9. /\ b \in LoopType /\ b.phase = "run" /\ b.active = loop[l].active
      /\ b.guard = loop[l].guard /\ b.kept = loop[l].kept /\ b.batch = q
  BY <1>6, <1>8 DEF LoopType
<1>10. /\ n \in LoopType /\ n.phase = "run" /\ n.active = loop[l].active
       /\ n.guard = loop[l].guard /\ n.kept = loop[l].kept /\ n.batch = q
       /\ n.queue = none
  BY <1>7, <1>9 DEF LoopType
<1>11. loop' = [loop EXCEPT ![l] = n]
  <2>1. PICK p : p = [loop EXCEPT ![l] = m]
    OBVIOUS
  <2>2. p[l] = m /\ p \in [Loops -> LoopType]
    BY <1>1, <1>8, <2>1
  <2>3. PICK s : s = [p EXCEPT ![l] = b]
    OBVIOUS
  <2>4. s[l] = b
    BY <2>2, <2>3
  <2>5. s = [p EXCEPT ![l].batch = q]
    BY <1>6, <2>2, <2>3
  <2>6. loop' = [s EXCEPT ![l].queue = none]
    BY <1>4, <1>5, <2>1, <2>5
  <2>7. loop' = [s EXCEPT ![l] = n]
    BY <1>7, <2>4, <2>6
  <2>8. QED
    BY <1>1, <2>1, <2>2, <2>3, <2>7
<1>12. QED
  BY <1>2, <1>3, <1>4, <1>10, <1>11

\* The vector is destroyed.
LEMMA EndChanges ==
  ASSUME TypeOK, NEW l \in Loops, EndFunctors(l)
  PROVE  \E n \in LoopType :
           /\ loop' = [loop EXCEPT ![l] = n]
           /\ n.phase = "poll" /\ n.active = loop[l].active
           /\ n.batch = loop[l].batch /\ n.batch = <<>> /\ n.queue = loop[l].queue
           /\ loop[l].phase = "run"
<1>1. loop \in [Loops -> LoopType] /\ loop[l] \in LoopType
  BY DEF TypeOK
<1>2. PICK none \in SUBSET Conn : none = {}
  OBVIOUS
<1>3. /\ loop[l].batch = <<>> /\ loop[l].phase = "run"
      /\ loop' = [loop EXCEPT ![l].phase = "poll", ![l].kept = none]
  BY <1>2, Zenon DEF EndFunctors
<1>4. PICK m : m = [loop[l] EXCEPT !.phase = "poll"]
  OBVIOUS
<1>5. PICK n : n = [m EXCEPT !.kept = none]
  OBVIOUS
<1>6. /\ m \in LoopType /\ m.phase = "poll" /\ m.active = loop[l].active
      /\ m.queue = loop[l].queue /\ m.batch = loop[l].batch
  BY <1>1, <1>4 DEF LoopType
<1>7. /\ n \in LoopType /\ n.phase = "poll" /\ n.active = loop[l].active
      /\ n.queue = loop[l].queue /\ n.batch = loop[l].batch
  BY <1>5, <1>6 DEF LoopType
<1>8. loop' = [loop EXCEPT ![l] = n]
  <2>1. PICK p : p = [loop EXCEPT ![l] = m]
    OBVIOUS
  <2>2. p[l] = m
    BY <1>1, <2>1
  <2>3. loop' = [p EXCEPT ![l].kept = none]
    BY <1>3, <1>4, <2>1
  <2>4. loop' = [p EXCEPT ![l] = n]
    BY <1>5, <2>2, <2>3
  <2>5. QED
    BY <1>1, <2>1, <2>4
<1>9. QED
  BY <1>3, <1>7, <1>8

\* queueInLoop(): loop x has a new queue.
LEMMA PostChanges ==
  ASSUME NEW lps \in [Loops -> LoopType], NEW x \in Loops,
         NEW q \in Seq(FunctorType), NEW n, n = [lps[x] EXCEPT !.queue = q],
         NEW r, r = [lps EXCEPT ![x] = n]
  PROVE  /\ r \in [Loops -> LoopType]
         /\ \A y \in Loops :
              /\ SameExceptQueue(r[y], lps[y])
              /\ r[y].queue = IF y = x THEN q ELSE lps[y].queue
<1>1. n \in LoopType /\ n.queue = q /\ SameExceptQueue(n, lps[x])
  BY QueueChange
<1>2. /\ r \in [Loops -> LoopType] /\ r[x] = n
      /\ \A y \in Loops : y # x => r[y] = lps[y]
  BY <1>1
<1>3. \A y \in Loops : SameExceptQueue(r[y], lps[y])
  BY <1>1, <1>2 DEF SameExceptQueue
<1>4. QED
  BY <1>1, <1>2, <1>3

\* A queue with one more functor.
LEMMA AppendQueue ==
  ASSUME NEW lp \in LoopType, NEW f \in FunctorType
  PROVE  Append(lp.queue, f) \in Seq(FunctorType)
<1>1. lp.queue \in Seq(FunctorType)
  BY DEF LoopType
<1>2. QED
  BY <1>1, AppendProperties

\* removeConnectionInLoop() runs in loop l and posts connectDestroyed().
LEMMA RemoveChanges ==
  ASSUME TypeOK, NEW l \in Loops, RunRemove(l),
         NEW n, n = PopFunctor(loop[l]), NEW mine, mine = [loop EXCEPT ![l] = n],
         NEW c, c = Target(l), NEW o, o = conn[c].owner
  PROVE  /\ n \in LoopType /\ mine \in [Loops -> LoopType]
         /\ c \in Conn /\ o \in Loops
         /\ Head(loop[l].batch) = Functor("remove", c)
         /\ loop' \in [Loops -> LoopType]
         /\ \A y \in Loops :
              /\ SameExceptQueue(loop'[y], mine[y])
              /\ loop'[y].queue = IF y = o
                   THEN Append(mine[y].queue, Functor("destroyed", c))
                   ELSE mine[y].queue
<1>1. loop \in [Loops -> LoopType] /\ loop[l] \in LoopType
  BY DEF TypeOK
<1>2. loop[l].batch # <<>> /\ Head(loop[l].batch).op = "remove"
  BY DEF RunRemove, Runs
<1>3. n \in LoopType /\ n.queue = loop[l].queue
  BY <1>1, <1>2, PopFunctorPops
<1>4. Head(loop[l].batch) \in FunctorType
  BY <1>1, <1>2, PopFunctorPops
<1>5. c \in Conn
  BY <1>4 DEF Target, FunctorType
<1>6. Head(loop[l].batch) = Functor("remove", c)
  BY <1>2, <1>4 DEF Target, FunctorType, Functor
<1>7. o \in Loops
  BY <1>5 DEF TypeOK, ConnType
<1>8. PICK f \in FunctorType : f = Functor("destroyed", c)
  BY <1>5 DEF FunctorType, Functor
<1>9. /\ mine \in [Loops -> LoopType] /\ mine[o] \in LoopType
      /\ mine[o].queue = loop[o].queue
  BY <1>1, <1>3, <1>7
<1>10. PICK q : q = Append(mine[o].queue, f)
  OBVIOUS
<1>11. q \in Seq(FunctorType)
  BY <1>9, <1>10, AppendQueue
<1>12. PICK m : m = [mine[o] EXCEPT !.queue = q]
  OBVIOUS
<1>13. PICK r : r = loop'
  OBVIOUS
<1>14. r = [mine EXCEPT ![o] = m]
  <2>1. loop' = [loop EXCEPT ![l] = n, ![o].queue = Append(@, f)]
    BY <1>8 DEF RunRemove
  <2>2. QED
    BY <1>9, <1>10, <1>12, <1>13, <2>1
<1>15. /\ r \in [Loops -> LoopType]
       /\ \A y \in Loops :
            /\ SameExceptQueue(r[y], mine[y])
            /\ r[y].queue = IF y = o THEN q ELSE mine[y].queue
  <2>1. PICK lps \in [Loops -> LoopType] : lps = mine
    BY <1>9
  <2>2. m = [lps[o] EXCEPT !.queue = q] /\ r = [lps EXCEPT ![o] = m]
    BY <1>12, <1>14, <2>1, Zenon
  <2>3. PICK x \in Loops : x = o
    BY <1>7
  <2>4. /\ r \in [Loops -> LoopType]
        /\ \A y \in Loops :
             /\ SameExceptQueue(r[y], lps[y])
             /\ r[y].queue = IF y = x THEN q ELSE lps[y].queue
    <3>1. m = [lps[x] EXCEPT !.queue = q] /\ r = [lps EXCEPT ![x] = m]
      BY <2>2, <2>3
    <3>2. QED
      BY <1>11, <3>1, PostChanges
  <2>5. QED
    BY <2>1, <2>3, <2>4, Zenon
<1>16. QED
  BY <1>3, <1>5, <1>6, <1>7, <1>8, <1>9, <1>10, <1>13, <1>15

\* A thread's runInLoop() of send or shutdown.
LEMMA UserQueueChanges ==
  ASSUME TypeOK, NEW u \in User, UserQueue(u)
  PROVE  \E c \in upc[u].conn :
           /\ c \in Conn
           /\ loop' \in [Loops -> LoopType]
           /\ \A y \in Loops :
                /\ SameExceptQueue(loop'[y], loop[y])
                /\ loop'[y].queue = IF y = conn[c].owner
                     THEN Append(loop[y].queue, Functor(upc[u].op, c))
                     ELSE loop[y].queue
<1>1. loop \in [Loops -> LoopType] /\ upc[u].conn \in SUBSET Conn
  BY DEF TypeOK
<1>2. PICK c \in upc[u].conn :
        loop' = [loop EXCEPT ![conn[c].owner].queue =
                               Append(loop[conn[c].owner].queue, Functor(upc[u].op, c))]
  BY Zenon DEF UserQueue
<1>3. c \in Conn /\ upc[u].op \in {"send", "shutdown"}
  BY <1>1 DEF UserQueue
<1>4. PICK o \in Loops : o = conn[c].owner
  BY <1>3 DEF TypeOK, ConnType
<1>5. PICK f \in FunctorType : f = Functor(upc[u].op, c)
  BY <1>3 DEF FunctorType, Functor
<1>6. PICK q : q = Append(loop[o].queue, f)
  OBVIOUS
<1>7. q \in Seq(FunctorType)
  BY <1>1, <1>6, AppendQueue
<1>8. PICK m : m = [loop[o] EXCEPT !.queue = q]
  OBVIOUS
<1>9. PICK r : r = loop'
  OBVIOUS
<1>10. r = [loop EXCEPT ![o] = m]
  BY <1>2, <1>4, <1>5, <1>6, <1>8, <1>9
<1>11. /\ r \in [Loops -> LoopType]
       /\ \A y \in Loops :
            /\ SameExceptQueue(r[y], loop[y])
            /\ r[y].queue = IF y = o THEN q ELSE loop[y].queue
  BY <1>1, <1>7, <1>8, <1>10, PostChanges
<1>12. \A y \in Loops :
         /\ SameExceptQueue(loop'[y], loop[y])
         /\ loop'[y].queue = IF y = conn[c].owner
              THEN Append(loop[y].queue, Functor(upc[u].op, c))
              ELSE loop[y].queue
  BY <1>4, <1>5, <1>6, <1>9, <1>11
<1>13. QED
  BY <1>2, <1>3, <1>9, <1>11, <1>12

\* A connection as TcpConnection's constructor makes it.
Constructed(k, l) == [k EXCEPT !.state = "kConnecting", !.owner = l]

\* newConnection(): the connection is established at once in the base loop
\* or posted to its io loop.
LEMMA NewConnectionChanges ==
  ASSUME ServerAssumption, ChannelInv, NEW c \in Conn, NewConnection(c),
         NEW k, k = Constructed(conn[c], NextLoop),
         NEW n, n = PopCallback(loop[Base]),
         NEW mine, mine = [loop EXCEPT ![Base] = n]
  PROVE  /\ Sound(k) /\ k.state = "kConnecting" /\ k.owner = NextLoop
         /\ k.ch = conn[c].ch /\ k.out = conn[c].out
         /\ k.ups = conn[c].ups /\ k.downs = conn[c].downs
         /\ n \in LoopType /\ mine \in [Loops -> LoopType]
         /\ loop' \in [Loops -> LoopType]
         /\ NextLoop = Base =>
              /\ conn' = [conn EXCEPT ![c] = ConnectEstablished(k)]
              /\ loop' = mine /\ Established(c)
         /\ NextLoop # Base =>
              /\ conn' = [conn EXCEPT ![c] = k] /\ held' = held
              /\ \A y \in Loops :
                   /\ SameExceptQueue(loop'[y], mine[y])
                   /\ loop'[y].queue = IF y = NextLoop
                        THEN Append(mine[y].queue, Functor("established", c))
                        ELSE mine[y].queue
<1>1. /\ loop \in [Loops -> LoopType] /\ Base \in Loops /\ NextLoop \in Loops
      /\ loop[Base] \in LoopType
  BY LoopFacts DEF ChannelInv
<1>2. PICK o \in Loops : o = NextLoop
  BY <1>1
<1>3. PICK m : m = [conn[c] EXCEPT !.state = "kConnecting"]
  OBVIOUS
<1>4. k = [m EXCEPT !.owner = o]
  BY <1>2, <1>3, Zenon DEF Constructed
<1>5. PICK k0 : k0 = conn[c]
  OBVIOUS
<1>6. Sound(k0)
  BY <1>5 DEF ChannelInv, TypeOK, Sound
<1>7. /\ Sound(m) /\ m.state = "kConnecting" /\ m.ch = k0.ch
      /\ m.out = k0.out /\ m.ups = k0.ups /\ m.downs = k0.downs
  BY <1>3, <1>5, <1>6 DEF Sound, ConnType
<1>8. PICK p : p = k
  OBVIOUS
<1>9. /\ Sound(p) /\ p.state = "kConnecting" /\ p.ch = k0.ch /\ p.owner = o
      /\ p.out = k0.out /\ p.ups = k0.ups /\ p.downs = k0.downs
  <2>1. p = [m EXCEPT !.owner = o]
    BY <1>4, <1>8
  <2>2. QED
    BY <1>7, <2>1 DEF Sound, ConnType
<1>10. /\ loop[Base].active # <<>> /\ Head(loop[Base].active).ch = Acceptor
       /\ \A i \in DOMAIN loop[Base].active : HasCallback(loop[Base].active[i])
  BY <1>1 DEF NewConnection, Accepting, ChannelInv
<1>11. n \in LoopType
  BY <1>1, <1>10, PopCallbackPops
<1>12. loop[Base].active[1].ch = Acceptor
  BY <1>1, <1>10 DEF LoopType
<1>13. n.guard = {}
  <2>1. 1 \in DOMAIN loop[Base].active
    BY <1>1, <1>10 DEF LoopType
  <2>2. Tail(loop[Base].active[1].cbs) = <<>>
    BY <1>10, <1>12, <2>1 DEF HasCallback
  <2>3. QED
    BY <1>1, <1>10, <2>2, PopCallbackPops
<1>14. mine \in [Loops -> LoopType] /\ mine[Base] = n
  BY <1>1, <1>11
<1>15. \/ /\ NextLoop = Base
          /\ conn' = [conn EXCEPT ![c] = ConnectEstablished(p)]
          /\ loop' = [mine EXCEPT ![Base].guard = {}]
          /\ Established(c)
       \/ /\ NextLoop # Base
          /\ conn' = [conn EXCEPT ![c] = p]
          /\ loop' = [mine EXCEPT ![NextLoop].queue =
                        Append(mine[NextLoop].queue, Functor("established", c))]
          /\ held' = held
  BY <1>8, Zenon DEF NewConnection, Constructed
<1>16. NextLoop = Base =>
         /\ conn' = [conn EXCEPT ![c] = ConnectEstablished(p)]
         /\ loop' = mine /\ Established(c)
  <2>. SUFFICES ASSUME NextLoop = Base
                PROVE  /\ conn' = [conn EXCEPT ![c] = ConnectEstablished(p)]
                       /\ loop' = mine /\ Established(c)
    OBVIOUS
  <2>1. n = [n EXCEPT !.guard = {}]
    <3>1. PICK none \in SUBSET Conn : none = {}
      OBVIOUS
    <3>2. n = [n EXCEPT !.guard = none]
      BY <1>11, <1>13, <3>1 DEF LoopType
    <3>3. QED
      BY <3>1, <3>2
  <2>2. loop' = [mine EXCEPT ![Base] = n]
    BY <1>14, <1>15, <2>1
  <2>3. loop' = mine
    BY <1>1, <1>14, <2>2
  <2>4. QED
    BY <1>15, <2>3
<1>17. NextLoop # Base =>
         /\ conn' = [conn EXCEPT ![c] = p] /\ held' = held
         /\ loop' \in [Loops -> LoopType]
         /\ \A y \in Loops :
              /\ SameExceptQueue(loop'[y], mine[y])
              /\ loop'[y].queue = IF y = NextLoop
                   THEN Append(mine[y].queue, Functor("established", c))
                   ELSE mine[y].queue
  <2>. SUFFICES ASSUME NextLoop # Base
                PROVE  /\ conn' = [conn EXCEPT ![c] = p] /\ held' = held
                       /\ loop' \in [Loops -> LoopType]
                       /\ \A y \in Loops :
                            /\ SameExceptQueue(loop'[y], mine[y])
                            /\ loop'[y].queue = IF y = NextLoop
                                 THEN Append(mine[y].queue, Functor("established", c))
                                 ELSE mine[y].queue
    OBVIOUS
  <2>1. PICK f \in FunctorType : f = Functor("established", c)
    BY DEF FunctorType, Functor
  <2>2. PICK q : q = Append(mine[o].queue, f)
    OBVIOUS
  <2>3. q \in Seq(FunctorType)
    BY <1>14, <2>2, AppendQueue
  <2>4. PICK s : s = [mine[o] EXCEPT !.queue = q]
    OBVIOUS
  <2>5. PICK r : r = loop'
    OBVIOUS
  <2>6. r = [mine EXCEPT ![o] = s]
    BY <1>2, <1>15, <2>1, <2>2, <2>4, <2>5
  <2>7. /\ r \in [Loops -> LoopType]
        /\ \A y \in Loops :
             /\ SameExceptQueue(r[y], mine[y])
             /\ r[y].queue = IF y = o THEN q ELSE mine[y].queue
    <3>1. PICK lps \in [Loops -> LoopType] : lps = mine
      BY <1>14
    <3>2. s = [lps[o] EXCEPT !.queue = q] /\ r = [lps EXCEPT ![o] = s]
      BY <2>4, <2>6, <3>1, Zenon
    <3>3. /\ r \in [Loops -> LoopType]
          /\ \A y \in Loops :
               /\ SameExceptQueue(r[y], lps[y])
               /\ r[y].queue = IF y = o THEN q ELSE lps[y].queue
      <4>1. PICK lp \in LoopType : lp = lps[o]
        OBVIOUS
      <4>2. s = [lp EXCEPT !.queue = q]
        BY <3>2, <4>1
      <4>3. s \in LoopType /\ s.queue = q /\ SameExceptQueue(s, lp)
        BY <2>3, <4>2, QueueChange
      <4>4. /\ r \in [Loops -> LoopType] /\ r[o] = s
            /\ \A y \in Loops : y # o => r[y] = lps[y]
        BY <3>2, <4>3
      <4>5. \A y \in Loops : SameExceptQueue(r[y], lps[y])
        BY <4>1, <4>3, <4>4 DEF SameExceptQueue
      <4>6. QED
        BY <4>3, <4>4, <4>5
    <3>4. QED
      BY <3>1, <3>3, Zenon
  <2>8. \A y \in Loops :
          /\ SameExceptQueue(loop'[y], mine[y])
          /\ loop'[y].queue = IF y = NextLoop
               THEN Append(mine[y].queue, Functor("established", c))
               ELSE mine[y].queue
    BY <1>2, <2>1, <2>2, <2>5, <2>7
  <2>9. QED
    BY <1>15, <2>5, <2>7, <2>8
<1>18. loop' \in [Loops -> LoopType]
  BY <1>14, <1>16, <1>17
<1>19. /\ Sound(k) /\ k.state = "kConnecting" /\ k.owner = NextLoop
       /\ k.ch = conn[c].ch /\ k.out = conn[c].out
       /\ k.ups = conn[c].ups /\ k.downs = conn[c].downs
  BY <1>2, <1>5, <1>8, <1>9, Zenon
<1>20. QED
  BY <1>8, <1>11, <1>14, <1>16, <1>17, <1>18, <1>19, Zenon

\* A callback made by HandleEvent works, or closes the connection.
LEMMA HandleEventDoes ==
  ASSUME ServerAssumption, ChannelInv, NEW l \in Loops, HandleEvent(l),
         NEW x, x = loop[l].active[1]
  PROVE  /\ x \in EntryType /\ x.ch \in Conn /\ x.ch # Acceptor
         /\ x.cbs # <<>> /\ 1 \in DOMAIN loop[l].active
         /\ loop[l].active # <<>>
         /\ \E e :
              /\ EffectOk(e, x.ch) /\ Apply(l, PopCallback(loop[l]), x.ch, e)
              /\ \/ ~e.closed /\ Follows(conn[x.ch], e.k)
                 \/ /\ e.closed /\ e.own = <<>> /\ x.cbs[1] \in {"close", "read"}
                    /\ e.k.owner = conn[x.ch].owner /\ e.k.ch.index # "kNew"
                    /\ ConnOk(conn[x.ch]) /\ Up(conn[x.ch])
                         => ConnOk(e.k) /\ Down(e.k)
<1>1. loop[l] \in LoopType /\ loop[l].active # <<>>
  BY LoopFacts DEF ChannelInv, HandleEvent
<1>2. /\ loop[l].active \in Seq(EntryType) /\ 1 \in DOMAIN loop[l].active
      /\ Head(loop[l].active) = x
  BY <1>1 DEF LoopType
<1>3. x \in EntryType /\ HasCallback(x)
  BY <1>2 DEF ChannelInv
<1>4. x.ch # Acceptor
  BY <1>2 DEF HandleEvent
<1>5. PICK c \in Conn : c = x.ch
  BY <1>3, <1>4 DEF EntryType
<1>6. PICK cb \in CallbackName : cb = Head(x.cbs) /\ cb = x.cbs[1]
  <2>1. x.cbs \in Seq(CallbackName) /\ x.cbs # <<>>
    BY <1>3 DEF EntryType, HasCallback, CallbackName
  <2>2. x.cbs[1] \in CallbackName /\ Head(x.cbs) = x.cbs[1]
    BY <2>1
  <2>3. QED
    BY <2>2
<1>7. PICK e0 : e0 = Effect(conn[c])
  OBVIOUS
<1>8. e0.k = conn[c] /\ e0.own = <<>> /\ e0.closed = FALSE
  BY <1>7 DEF Effect, EffectOf
<1>9. EffectOk(e0, c)
  <2>1. <<>> \in Seq({Functor("writeComplete", c)})
    BY EmptySeq
  <2>2. Sound(conn[c])
    BY DEF ChannelInv, TypeOK, Sound
  <2>3. QED
    BY <1>8, <2>1, <2>2 DEF EffectOk
<1>10. PICK ops \in SUBSET {"send", "shutdown"}, res \in {"all", "part"} :
         Apply(l, PopCallback(loop[l]), c, Callback(cb, e0, c, ops, res))
  BY <1>2, <1>5, <1>6, <1>7 DEF HandleEvent
<1>11. PICK e : e = Callback(cb, e0, c, ops, res)
  OBVIOUS
<1>12. Works(e0, e, c) \/ (e = HandleClose(e0) /\ cb \in {"close", "read"})
  BY <1>9, <1>11, CallbackWorks DEF CallbackName
<1>13. CASE Works(e0, e, c)
  <2>1. EffectOk(e, c) /\ ~e.closed /\ Follows(conn[c], e.k)
    BY <1>8, <1>13 DEF Works
  <2>2. QED
    BY <1>1, <1>2, <1>3, <1>4, <1>5, <1>10, <1>11, <2>1 DEF HasCallback
<1>14. CASE e = HandleClose(e0) /\ cb \in {"close", "read"}
  <2>1. /\ EffectOk(e, c) /\ e.closed /\ e.own = e0.own
        /\ e.k.owner = e0.k.owner /\ e.k.ch.index # "kNew"
        /\ ConnOk(e0.k) /\ Up(e0.k) => ConnOk(e.k) /\ Down(e.k)
    BY <1>9, <1>14, HandleCloseCloses
  <2>2. /\ e.closed /\ e.own = <<>> /\ x.cbs[1] \in {"close", "read"}
        /\ e.k.owner = conn[c].owner /\ e.k.ch.index # "kNew"
        /\ ConnOk(conn[c]) /\ Up(conn[c]) => ConnOk(e.k) /\ Down(e.k)
    BY <1>6, <1>8, <1>14, <2>1
  <2>3. EffectOk(e, c) /\ Apply(l, PopCallback(loop[l]), c, e)
    BY <1>10, <1>11, <2>1
  <2>4. \E e_ :
          /\ EffectOk(e_, c) /\ Apply(l, PopCallback(loop[l]), c, e_)
          /\ \/ ~e_.closed /\ Follows(conn[c], e_.k)
             \/ /\ e_.closed /\ e_.own = <<>> /\ x.cbs[1] \in {"close", "read"}
                /\ e_.k.owner = conn[c].owner /\ e_.k.ch.index # "kNew"
                /\ ConnOk(conn[c]) /\ Up(conn[c])
                     => ConnOk(e_.k) /\ Down(e_.k)
    BY <2>2, <2>3, Zenon
  <2>5. QED
    BY <1>1, <1>2, <1>3, <1>4, <1>5, <2>4 DEF HasCallback
<1>15. QED
  BY <1>12, <1>13, <1>14

\* A functor that runs has a connection.
LEMMA TargetFacts ==
  ASSUME ServerAssumption, TypeOK, NEW l \in Loops, NEW op, Runs(l, op)
  PROVE  /\ Target(l) \in Conn /\ loop[l] \in LoopType /\ loop[l].batch # <<>>
         /\ loop[l].phase = "run"
         /\ Head(loop[l].batch) \in FunctorType
         /\ Head(loop[l].batch) = Functor(op, Target(l))
<1>1. loop[l] \in LoopType /\ loop[l].batch # <<>> /\ loop[l].phase = "run"
  BY LoopFacts DEF Runs
<1>2. Head(loop[l].batch) \in FunctorType
  BY <1>1, PopFunctorPops
<1>3. QED
  BY <1>1, <1>2 DEF Runs, Target, FunctorType, Functor

\* The send functor works.
LEMMA RunSendDoes ==
  ASSUME ServerAssumption, ChannelInv, NEW l \in Loops, RunSend(l)
  PROVE  \E e :
           /\ EffectOk(e, Target(l))
           /\ Apply(l, PopFunctor(loop[l]), Target(l), e)
           /\ ~e.closed /\ Follows(conn[Target(l)], e.k)
<1>1. PICK c \in Conn : c = Target(l)
  BY TargetFacts DEF ChannelInv, RunSend
<1>2. PICK e0 : e0 = Effect(conn[c])
  OBVIOUS
<1>3. e0.k = conn[c] /\ e0.own = <<>> /\ e0.closed = FALSE
  BY <1>2 DEF Effect, EffectOf
<1>4. EffectOk(e0, c)
  <2>1. <<>> \in Seq({Functor("writeComplete", c)})
    BY EmptySeq
  <2>2. Sound(conn[c])
    BY DEF ChannelInv, TypeOK, Sound
  <2>3. QED
    BY <1>3, <2>1, <2>2 DEF EffectOk
<1>5. PICK res \in {"all", "part"} :
         Apply(l, PopFunctor(loop[l]), c, SendInLoop(e0, c, res))
  BY <1>1, <1>2 DEF RunSend
<1>6. PICK e : e = SendInLoop(e0, c, res)
  OBVIOUS
<1>7. Works(e0, e, c)
  BY <1>4, <1>6, SendInLoopWorks
<1>8. EffectOk(e, c) /\ ~e.closed /\ Follows(conn[c], e.k)
  BY <1>3, <1>7 DEF Works
<1>9. QED
  BY <1>1, <1>5, <1>6, <1>8

-----------------------------------------------------------------------------
(* ChannelInv is inductive.                                                *)

\* A connection's record is replaced by a sound one.
LEMMA ConnChange ==
  ASSUME ChannelInv, NEW c \in Conn, NEW k, Sound(k),
         conn' = [conn EXCEPT ![c] = k]
  PROVE  /\ conn' \in [Conn -> ConnType] /\ \A x \in Conn : ChannelOk(conn'[x].ch)
         /\ conn'[c] = k /\ \A x \in Conn : x # c => conn'[x] = conn[x]
<1>1. conn \in [Conn -> ConnType] /\ k \in ConnType /\ ChannelOk(k.ch)
  BY DEF ChannelInv, TypeOK, Sound
<1>2. /\ conn' \in [Conn -> ConnType] /\ conn'[c] = k
      /\ \A x \in Conn : x # c => conn'[x] = conn[x]
  BY <1>1
<1>3. \A x \in Conn : ChannelOk(conn'[x].ch)
  BY <1>1, <1>2 DEF ChannelInv
<1>4. QED
  BY <1>2, <1>3

\* The entries of activeChannels_ when only loop l's record changes.
LEMMA EntriesKeep ==
  ASSUME ChannelInv, NEW l \in Loops, NEW lp \in LoopType,
         \A i \in DOMAIN lp.active : HasCallback(lp.active[i]),
         loop'[l].active = lp.active,
         \A y \in Loops : y # l => loop'[y].active = loop[y].active
  PROVE  \A y \in Loops : \A i \in DOMAIN loop'[y].active :
           HasCallback(loop'[y].active[i])
<1>1. ASSUME NEW y \in Loops
      PROVE  \A i \in DOMAIN loop'[y].active : HasCallback(loop'[y].active[i])
  <2>1. CASE y = l
    BY <2>1
  <2>2. CASE y # l
    <3>1. loop'[y].active = loop[y].active
      BY <2>2
    <3>2. QED
      BY <3>1 DEF ChannelInv
  <2>3. QED
    BY <2>1, <2>2
<1>2. QED
  BY <1>1

\* Apply() keeps ChannelInv.
LEMMA ApplyKeeps ==
  ASSUME ChannelInv, NEW l \in Loops, NEW lp \in LoopType,
         \A i \in DOMAIN lp.active : HasCallback(lp.active[i]),
         NEW c \in Conn, NEW e, EffectOk(e, c), Apply(l, lp, c, e),
         UNCHANGED <<next, listening, backlog, userVars>>
  PROVE  ChannelInv'
<1>1. TypeOK
  BY DEF ChannelInv
<1>2. conn' = [conn EXCEPT ![c] = e.k] /\ loop' \in [Loops -> LoopType]
  <2>1. loop' \in [Loops -> LoopType]
    BY <1>1, ApplyChanges
  <2>2. QED
    BY <2>1 DEF Apply
<1>3. SameExceptQueue(loop'[l], lp)
  BY <1>1, ApplyChanges
<1>4. \A x \in Loops : x # l => SameExceptQueue(loop'[x], loop[x])
  BY <1>1, ApplyChanges
<1>5. connections' \in SUBSET Conn
  <2>1. connections' = IF e.closed /\ l = Base THEN connections \ {c} ELSE connections
    BY <1>1, ApplyChanges
  <2>2. QED
    BY <1>1, <2>1 DEF TypeOK
<1>6. conn' \in [Conn -> ConnType] /\ \A x \in Conn : ChannelOk(conn'[x].ch)
  BY <1>2, ConnChange DEF EffectOk
<1>7. TypeOK'
  BY <1>1, <1>2, <1>5, <1>6 DEF TypeOK, userVars
<1>8. \A y \in Loops : \A i \in DOMAIN loop'[y].active :
        HasCallback(loop'[y].active[i])
  BY <1>3, <1>4, EntriesKeep DEF SameExceptQueue
<1>9. QED
  BY <1>6, <1>7, <1>8 DEF ChannelInv

\* The steps of a loop's thread.
LEMMA LoopStepKeeps ==
  ASSUME ServerAssumption, ChannelInv, NEW l \in Loops, LoopStep(l)
  PROVE  ChannelInv'
<1>1. TypeOK /\ loop \in [Loops -> LoopType] /\ loop[l] \in LoopType
  BY LoopFacts DEF ChannelInv
<1>2. \A i \in DOMAIN loop[l].active : HasCallback(loop[l].active[i])
  BY DEF ChannelInv
<1>3. ASSUME NEW n \in LoopType, loop' = [loop EXCEPT ![l] = n],
             \A i \in DOMAIN n.active : HasCallback(n.active[i]),
             UNCHANGED <<conn, serverVars, userVars>>
      PROVE  ChannelInv'
  <2>1. /\ loop' \in [Loops -> LoopType] /\ loop'[l].active = n.active
        /\ \A y \in Loops : y # l => loop'[y].active = loop[y].active
    BY <1>1, <1>3
  <2>2. TypeOK'
    BY <1>1, <1>3, <2>1 DEF TypeOK, serverVars, userVars
  <2>3. \A y \in Loops : \A i \in DOMAIN loop'[y].active :
          HasCallback(loop'[y].active[i])
    BY <1>3, <2>1, EntriesKeep
  <2>4. \A x \in Conn : ChannelOk(conn'[x].ch)
    BY <1>3 DEF ChannelInv
  <2>5. QED
    BY <2>2, <2>3, <2>4 DEF ChannelInv
<1>4. CASE Poll(l)
  <2>1. PICK act \in Seq(EntryType), n \in LoopType :
           /\ loop' = [loop EXCEPT ![l] = n] /\ n.active = act
           /\ \A i \in 1..Len(act) : HasCallback(act[i])
    BY <1>1, <1>4, PollChanges
  <2>2. DOMAIN act = 1..Len(act)
    OBVIOUS
  <2>3. QED
    BY <1>3, <1>4, <2>1, <2>2 DEF Poll
<1>5. CASE SwapFunctors(l)
  <2>1. PICK n \in LoopType :
          loop' = [loop EXCEPT ![l] = n] /\ n.active = loop[l].active
    BY <1>1, <1>5, SwapChanges
  <2>2. QED
    BY <1>2, <1>3, <1>5, <2>1 DEF SwapFunctors
<1>6. CASE EndFunctors(l)
  <2>1. PICK n \in LoopType :
          loop' = [loop EXCEPT ![l] = n] /\ n.active = loop[l].active
    BY <1>1, <1>6, EndChanges
  <2>2. QED
    BY <1>2, <1>3, <1>6, <2>1 DEF EndFunctors
<1>7. CASE HandleEvent(l)
  <2>1. PICK x : x = loop[l].active[1]
    OBVIOUS
  <2>2. x.ch \in Conn /\ loop[l].active # <<>>
    BY <1>7, <2>1, HandleEventDoes
  <2>3. PICK e : EffectOk(e, x.ch) /\ Apply(l, PopCallback(loop[l]), x.ch, e)
    BY <1>7, <2>1, HandleEventDoes
  <2>4. PICK lp : lp = PopCallback(loop[l])
    OBVIOUS
  <2>5. lp \in LoopType /\ \A i \in DOMAIN lp.active : HasCallback(lp.active[i])
    BY <1>1, <1>2, <2>2, <2>4, PopCallbackPops
  <2>6. UNCHANGED <<next, listening, backlog, userVars>>
    BY <1>7 DEF HandleEvent
  <2>7. QED
    BY <2>2, <2>3, <2>4, <2>5, <2>6, ApplyKeeps
<1>8. ASSUME NEW op, Runs(l, op)
      PROVE  /\ Target(l) \in Conn /\ PopFunctor(loop[l]) \in LoopType
             /\ PopFunctor(loop[l]).active = loop[l].active
  BY <1>1, <1>8, TargetFacts, PopFunctorPops
<1>9. CASE RunSend(l)
  <2>1. PICK e : /\ EffectOk(e, Target(l))
                 /\ Apply(l, PopFunctor(loop[l]), Target(l), e)
    BY <1>9, RunSendDoes
  <2>2. PICK lp : lp = PopFunctor(loop[l])
    OBVIOUS
  <2>3. Target(l) \in Conn /\ lp \in LoopType /\ lp.active = loop[l].active
    BY <1>8, <1>9, <2>2 DEF RunSend
  <2>4. \A i \in DOMAIN lp.active : HasCallback(lp.active[i])
    BY <1>2, <2>3
  <2>5. UNCHANGED <<next, listening, backlog, userVars>>
    BY <1>9 DEF RunSend
  <2>6. QED
    BY <2>1, <2>2, <2>3, <2>4, <2>5, ApplyKeeps
<1>10. ASSUME NEW op, Runs(l, op), NEW k, Sound(k), RunInPlace(l, k),
              UNCHANGED <<serverVars, upc, sends>>, held' \in [User -> SUBSET Conn]
       PROVE  ChannelInv'
  <2>1. PICK lp \in LoopType : lp = PopFunctor(loop[l]) /\ lp.active = loop[l].active
    BY <1>8, <1>10
  <2>2. conn' = [conn EXCEPT ![Target(l)] = k] /\ loop' = [loop EXCEPT ![l] = lp]
    BY <1>10, <2>1 DEF RunInPlace
  <2>3. conn' \in [Conn -> ConnType] /\ \A x \in Conn : ChannelOk(conn'[x].ch)
    BY <1>8, <1>10, <2>2, ConnChange
  <2>4. /\ loop' \in [Loops -> LoopType] /\ loop'[l].active = lp.active
        /\ \A y \in Loops : y # l => loop'[y].active = loop[y].active
    BY <1>1, <2>2
  <2>5. \A i \in DOMAIN lp.active : HasCallback(lp.active[i])
    BY <1>2, <2>1
  <2>6. TypeOK'
    BY <1>1, <1>10, <2>3, <2>4 DEF TypeOK, serverVars
  <2>7. \A y \in Loops : \A i \in DOMAIN loop'[y].active :
          HasCallback(loop'[y].active[i])
    BY <2>4, <2>5, EntriesKeep
  <2>8. QED
    BY <2>3, <2>6, <2>7 DEF ChannelInv
<1>11. \A c \in Conn : Sound(conn[c])
  BY DEF ChannelInv, TypeOK, Sound
<1>12. held \in [User -> SUBSET Conn]
  BY <1>1 DEF TypeOK
<1>13. CASE RunEstablished(l)
  <2>1. Runs(l, "established") /\ Target(l) \in Conn
    BY <1>8, <1>13 DEF RunEstablished
  <2>2. PICK k : k = ConnectEstablished(conn[Target(l)])
    OBVIOUS
  <2>3. Sound(k)
    BY <1>11, <2>1, <2>2, EstablishedComesUp
  <2>4. held' \in [User -> SUBSET Conn]
    BY <1>12, <1>13, <2>1 DEF RunEstablished, Established
  <2>5. QED
    BY <1>10, <1>13, <2>1, <2>2, <2>3, <2>4 DEF RunEstablished
<1>14. CASE RunDestroyed(l)
  <2>1. Runs(l, "destroyed") /\ Target(l) \in Conn
    BY <1>8, <1>14 DEF RunDestroyed
  <2>2. PICK k : k = ConnectDestroyed(conn[Target(l)])
    OBVIOUS
  <2>3. Sound(k)
    BY <1>11, <2>1, <2>2, DestroyedIsRemoved
  <2>4. RunInPlace(l, k) /\ UNCHANGED <<serverVars, upc, sends>> /\ held' = held
    BY <1>14, <2>2 DEF RunDestroyed, userVars
  <2>5. QED
    BY <1>10, <1>12, <2>1, <2>3, <2>4
<1>15. CASE RunShutdown(l)
  <2>1. Runs(l, "shutdown") /\ Target(l) \in Conn
    BY <1>8, <1>15 DEF RunShutdown
  <2>2. PICK k : k = ShutdownInLoop(conn[Target(l)])
    OBVIOUS
  <2>3. Sound(k)
    BY <1>11, <2>1, <2>2, ShutdownInLoopKeeps
  <2>4. RunInPlace(l, k) /\ UNCHANGED <<serverVars, upc, sends>> /\ held' = held
    BY <1>15, <2>2 DEF RunShutdown, userVars
  <2>5. QED
    BY <1>10, <1>12, <2>1, <2>3, <2>4
<1>16. CASE RunWriteComplete(l)
  <2>1. Runs(l, "writeComplete") /\ Target(l) \in Conn
    BY <1>8, <1>16 DEF RunWriteComplete
  <2>2. /\ RunInPlace(l, conn[Target(l)]) /\ UNCHANGED <<serverVars, upc, sends>>
        /\ held' = held
    BY <1>16 DEF RunWriteComplete, userVars
  <2>3. QED
    BY <1>10, <1>11, <1>12, <2>1, <2>2
<1>17. CASE RunRemove(l)
  <2>1. PICK n : n = PopFunctor(loop[l])
    OBVIOUS
  <2>2. PICK mine : mine = [loop EXCEPT ![l] = n]
    OBVIOUS
  <2>3. PICK c : c = Target(l)
    OBVIOUS
  <2>4. PICK o : o = conn[c].owner
    OBVIOUS
  <2>5. /\ n \in LoopType /\ c \in Conn /\ loop' \in [Loops -> LoopType]
        /\ mine \in [Loops -> LoopType]
    BY <1>1, <1>17, <2>1, <2>2, <2>3, <2>4, RemoveChanges
  <2>6. \A y \in Loops : SameExceptQueue(loop'[y], mine[y])
    BY <1>1, <1>17, <2>1, <2>2, <2>3, <2>4, RemoveChanges
  <2>7. /\ n.active = loop[l].active
        /\ \A y \in Loops : mine[y].active = loop[y].active
    BY <1>1, <1>8, <1>17, <2>1, <2>2 DEF RunRemove
  <2>8. \A y \in Loops : loop'[y].active = loop[y].active
    BY <2>6, <2>7 DEF SameExceptQueue
  <2>9. \A y \in Loops : \A i \in DOMAIN loop'[y].active :
          HasCallback(loop'[y].active[i])
    BY <2>8 DEF ChannelInv
  <2>10. /\ conn' = conn /\ connections' = connections \ {Target(l)}
         /\ UNCHANGED <<next, listening, backlog, userVars>>
    BY <1>17 DEF RunRemove
  <2>11. TypeOK'
    BY <1>1, <2>5, <2>10 DEF TypeOK, userVars
  <2>12. QED
    BY <2>9, <2>10, <2>11 DEF ChannelInv
<1>18. QED
  BY <1>4, <1>5, <1>6, <1>7, <1>9, <1>13, <1>14, <1>15, <1>16, <1>17 DEF LoopStep

\* The steps of the base loop's acceptor.
LEMMA BaseStepKeeps ==
  ASSUME ServerAssumption, ChannelInv, BaseStep
  PROVE  ChannelInv'
<1>1. /\ TypeOK /\ loop \in [Loops -> LoopType] /\ Base \in Loops
      /\ loop[Base] \in LoopType /\ NextLoop \in Loops
      /\ AdvanceNext \in IF IoLoops = <<>> THEN {1} ELSE 1..Len(IoLoops)
  BY LoopFacts DEF ChannelInv
<1>2. \A i \in DOMAIN loop[Base].active : HasCallback(loop[Base].active[i])
  BY <1>1 DEF ChannelInv
<1>3. loop[Base].active # <<>>
  BY DEF BaseStep, AcceptFails, NewConnection, Accepting
<1>4. PICK n : n = PopCallback(loop[Base])
  OBVIOUS
<1>5. n \in LoopType /\ \A i \in DOMAIN n.active : HasCallback(n.active[i])
  BY <1>1, <1>2, <1>3, <1>4, PopCallbackPops
<1>6. PICK mine : mine = [loop EXCEPT ![Base] = n]
  OBVIOUS
<1>7. /\ mine \in [Loops -> LoopType] /\ mine[Base] = n
      /\ \A y \in Loops : y # Base => mine[y] = loop[y]
  BY <1>1, <1>5, <1>6
<1>8. ASSUME \A y \in Loops : loop'[y].active = mine[y].active
      PROVE  \A y \in Loops : \A i \in DOMAIN loop'[y].active :
               HasCallback(loop'[y].active[i])
  <2>1. /\ loop'[Base].active = n.active
        /\ \A y \in Loops : y # Base => loop'[y].active = loop[y].active
    BY <1>1, <1>7, <1>8
  <2>2. QED
    BY <1>1, <1>5, <2>1, EntriesKeep
<1>9. CASE AcceptFails
  <2>1. loop' = mine /\ UNCHANGED <<conn, serverVars, userVars>>
    BY <1>4, <1>6, <1>9 DEF AcceptFails
  <2>2. TypeOK'
    BY <1>1, <1>7, <2>1 DEF TypeOK, serverVars, userVars
  <2>3. QED
    BY <1>8, <2>1, <2>2 DEF ChannelInv
<1>10. ASSUME NEW c \in Conn, NewConnection(c)
       PROVE  ChannelInv'
  <2>1. PICK k : k = Constructed(conn[c], NextLoop)
    OBVIOUS
  <2>2. Sound(k) /\ loop' \in [Loops -> LoopType]
    BY <1>4, <1>6, <1>10, <2>1, NewConnectionChanges
  <2>3. NextLoop = Base =>
          /\ conn' = [conn EXCEPT ![c] = ConnectEstablished(k)]
          /\ loop' = mine /\ Established(c)
    BY <1>4, <1>6, <1>10, <2>1, NewConnectionChanges
  <2>4. NextLoop # Base =>
          /\ conn' = [conn EXCEPT ![c] = k] /\ held' = held
          /\ \A y \in Loops : SameExceptQueue(loop'[y], mine[y])
    BY <1>4, <1>6, <1>10, <2>1, NewConnectionChanges
  <2>5. \A y \in Loops : loop'[y].active = mine[y].active
    BY <2>3, <2>4 DEF SameExceptQueue
  <2>6. PICK r : r = ConnectEstablished(k)
    OBVIOUS
  <2>7. Sound(r)
    BY <2>2, <2>6, EstablishedComesUp
  <2>8. conn' = [conn EXCEPT ![c] = r] \/ conn' = [conn EXCEPT ![c] = k]
    BY <2>3, <2>4, <2>6
  <2>9. conn' \in [Conn -> ConnType] /\ \A x \in Conn : ChannelOk(conn'[x].ch)
    BY <2>2, <2>7, <2>8, ConnChange
  <2>10. held' \in [User -> SUBSET Conn]
    <3>1. held \in [User -> SUBSET Conn]
      BY <1>1 DEF TypeOK
    <3>2. CASE NextLoop = Base
      BY <2>3, <3>1, <3>2 DEF Established
    <3>3. CASE NextLoop # Base
      BY <2>4, <3>1, <3>3
    <3>4. QED
      BY <3>2, <3>3
  <2>11. /\ backlog' = backlog \ {c} /\ connections' = connections \union {c}
         /\ next' = AdvanceNext /\ UNCHANGED <<listening, upc, sends>>
    BY <1>10 DEF NewConnection, Remember
  <2>12. TypeOK'
    BY <1>1, <2>2, <2>9, <2>10, <2>11 DEF TypeOK
  <2>13. QED
    BY <1>8, <2>5, <2>9, <2>12 DEF ChannelInv
<1>11. QED
  BY <1>9, <1>10 DEF BaseStep

\* The steps of the application's threads.
LEMMA UserStepKeeps ==
  ASSUME ServerAssumption, ChannelInv, NEW u \in User,
         \/ UserStep(u)
         \/ \E c \in Conn : \/ UserSend(u, c) \/ UserShutdown(u, c)
                            \/ UserDrop(u, c)
  PROVE  ChannelInv'
<1>1. /\ TypeOK /\ upc[u].conn \in SUBSET Conn
      /\ upc \in [User -> [op : {"idle", "send", "setState", "shutdown"},
                           conn : SUBSET Conn]]
      /\ sends \in [User -> 0..MaxSends] /\ held \in [User -> SUBSET Conn]
      /\ MaxSends \in Nat
  BY DEF ChannelInv, TypeOK, ServerAssumption
<1>2. CASE UserSetState(u)
  <2>1. PICK c \in Conn : conn' = [conn EXCEPT ![c].state = "kDisconnecting"]
    BY <1>1, <1>2 DEF UserSetState
  <2>2. PICK k : k = [conn[c] EXCEPT !.state = "kDisconnecting"]
    OBVIOUS
  <2>3. Sound(conn[c])
    BY DEF ChannelInv, TypeOK, Sound
  <2>4. Sound(k) /\ conn' = [conn EXCEPT ![c] = k]
    BY <2>1, <2>2, <2>3 DEF Sound, ConnType
  <2>5. conn' \in [Conn -> ConnType] /\ \A x \in Conn : ChannelOk(conn'[x].ch)
    BY <2>4, ConnChange
  <2>6. PICK p : p = [upc[u] EXCEPT !.op = "shutdown"]
    OBVIOUS
  <2>7. p \in [op : {"idle", "send", "setState", "shutdown"}, conn : SUBSET Conn]
    BY <1>1, <2>6
  <2>8. upc' = [upc EXCEPT ![u] = p]
    BY <1>2, <2>6 DEF UserSetState
  <2>9. upc' \in [User -> [op : {"idle", "send", "setState", "shutdown"},
                           conn : SUBSET Conn]]
    BY <1>1, <2>7, <2>8
  <2>10. UNCHANGED <<loop, serverVars, held, sends>>
    BY <1>2 DEF UserSetState
  <2>11. TypeOK'
    BY <1>1, <2>5, <2>9, <2>10 DEF TypeOK, serverVars
  <2>12. QED
    BY <2>5, <2>10, <2>11 DEF ChannelInv
<1>3. IdleUser \in [op : {"idle", "send", "setState", "shutdown"}, conn : SUBSET Conn]
  <2>1. PICK none \in SUBSET Conn : none = {}
    OBVIOUS
  <2>2. [op |-> "idle", conn |-> none]
          \in [op : {"idle", "send", "setState", "shutdown"}, conn : SUBSET Conn]
    OBVIOUS
  <2>3. QED
    BY <2>1, <2>2 DEF IdleUser
<1>4. CASE UserQueue(u)
  <2>1. loop' \in [Loops -> LoopType]
    BY <1>1, <1>4, UserQueueChanges
  <2>2. \A y \in Loops : SameExceptQueue(loop'[y], loop[y])
    BY <1>1, <1>4, UserQueueChanges
  <2>3. upc' = [upc EXCEPT ![u] = IdleUser]
        /\ UNCHANGED <<conn, serverVars, held, sends>>
    BY <1>4 DEF UserQueue
  <2>4. upc' \in [User -> [op : {"idle", "send", "setState", "shutdown"},
                           conn : SUBSET Conn]]
    BY <1>1, <1>3, <2>3
  <2>5. TypeOK'
    BY <1>1, <2>1, <2>3, <2>4 DEF TypeOK, serverVars
  <2>6. \A y \in Loops : loop'[y].active = loop[y].active
    BY <2>2 DEF SameExceptQueue
  <2>7. QED
    BY <2>3, <2>5, <2>6 DEF ChannelInv
<1>5. ASSUME NEW c \in Conn, UserSend(u, c) \/ UserShutdown(u, c)
      PROVE  ChannelInv'
  <2>1. PICK call \in {"send", "setState"} :
          /\ upc' = [upc EXCEPT ![u] = [op |-> call, conn |-> {c}]]
          /\ sends[u] < MaxSends /\ sends' = [sends EXCEPT ![u] = sends[u] + 1]
          /\ UNCHANGED <<conn, loop, serverVars, held>>
    BY <1>5 DEF UserSend, UserShutdown, Begin
  <2>2. PICK one \in SUBSET Conn : one = {c}
    OBVIOUS
  <2>3. [op |-> call, conn |-> one]
          \in [op : {"idle", "send", "setState", "shutdown"}, conn : SUBSET Conn]
    OBVIOUS
  <2>4. upc' \in [User -> [op : {"idle", "send", "setState", "shutdown"},
                           conn : SUBSET Conn]]
    BY <1>1, <2>1, <2>2, <2>3
  <2>5. sends' \in [User -> 0..MaxSends]
    BY <1>1, <2>1
  <2>6. TypeOK'
    BY <1>1, <2>1, <2>4, <2>5 DEF TypeOK, serverVars
  <2>7. QED
    BY <2>1, <2>6 DEF ChannelInv
<1>6. ASSUME NEW c \in Conn, UserDrop(u, c)
      PROVE  ChannelInv'
  <2>1. /\ held' = [held EXCEPT ![u] = held[u] \ {c}]
        /\ UNCHANGED <<conn, loop, serverVars, upc, sends>>
    BY <1>6 DEF UserDrop
  <2>2. held' \in [User -> SUBSET Conn]
    BY <1>1, <2>1
  <2>3. TypeOK'
    BY <1>1, <2>1, <2>2 DEF TypeOK, serverVars
  <2>4. QED
    BY <2>1, <2>3 DEF ChannelInv
<1>7. QED
  BY <1>2, <1>4, <1>5, <1>6 DEF UserStep

\* What a peer does to a connection leaves the process's side of it alone.
LEMMA PeerStepDoes ==
  ASSUME ServerAssumption, ChannelInv, NEW c \in Conn, PeerStep(c)
  PROVE  /\ UNCHANGED <<loop, serverVars, userVars>>
         /\ \E k : /\ Sound(k) /\ SameLife(conn[c], k)
                   /\ conn' = [conn EXCEPT ![c] = k]
<1>1. UNCHANGED <<loop, serverVars, userVars>>
  BY DEF PeerStep, PeerSend, PeerFin, PeerReset
<1>2. PICK k0 : k0 = conn[c] /\ Sound(k0)
  BY DEF ChannelInv, TypeOK, Sound
<1>3. CASE PeerSend(c)
  <2>1. PICK m : m = [k0 EXCEPT !.rx = TRUE]
    OBVIOUS
  <2>2. PICK k : k = [m EXCEPT !.msgs = k0.msgs + 1]
    OBVIOUS
  <2>3. Sound(m) /\ SameLife(k0, m) /\ m.msgs = k0.msgs
    BY <1>2, <2>1 DEF Sound, ConnType, SameLife
  <2>4. k0.msgs + 1 \in 0..MaxMsgs
    BY <1>2, <1>3 DEF PeerSend, Sound, ConnType, ServerAssumption
  <2>5. Sound(k) /\ SameLife(k0, k)
    BY <2>2, <2>3, <2>4 DEF Sound, ConnType, SameLife
  <2>6. conn' = [conn EXCEPT ![c] = k]
    <3>1. conn' = [conn EXCEPT ![c].rx = TRUE, ![c].msgs = k0.msgs + 1]
      BY <1>2, <1>3 DEF PeerSend
    <3>2. PICK p : p = [conn EXCEPT ![c] = m]
      OBVIOUS
    <3>3. conn \in [Conn -> ConnType]
      BY DEF ChannelInv, TypeOK
    <3>4. p[c] = m
      BY <3>2, <3>3
    <3>5. conn' = [p EXCEPT ![c].msgs = k0.msgs + 1]
      BY <1>2, <2>1, <3>1, <3>2
    <3>6. conn' = [p EXCEPT ![c] = k]
      BY <2>2, <3>4, <3>5
    <3>7. QED
      BY <3>2, <3>3, <3>6
  <2>7. QED
    BY <1>1, <1>2, <2>5, <2>6
<1>4. CASE PeerFin(c)
  <2>1. PICK k : k = [k0 EXCEPT !.peer = "fin"]
    OBVIOUS
  <2>2. Sound(k) /\ SameLife(k0, k)
    BY <1>2, <2>1 DEF Sound, ConnType, SameLife
  <2>3. conn' = [conn EXCEPT ![c] = k]
    BY <1>2, <1>4, <2>1 DEF PeerFin
  <2>4. QED
    BY <1>1, <1>2, <2>2, <2>3
<1>5. CASE PeerReset(c)
  <2>1. PICK m : m = [k0 EXCEPT !.peer = "rst"]
    OBVIOUS
  <2>2. PICK k : k = [m EXCEPT !.rx = FALSE]
    OBVIOUS
  <2>3. Sound(m) /\ SameLife(k0, m)
    BY <1>2, <2>1 DEF Sound, ConnType, SameLife
  <2>4. Sound(k) /\ SameLife(k0, k)
    BY <2>2, <2>3 DEF Sound, ConnType, SameLife
  <2>5. conn' = [conn EXCEPT ![c] = k]
    <3>1. conn' = [conn EXCEPT ![c].peer = "rst", ![c].rx = FALSE]
      BY <1>5 DEF PeerReset
    <3>2. PICK p : p = [conn EXCEPT ![c] = m]
      OBVIOUS
    <3>3. conn \in [Conn -> ConnType]
      BY DEF ChannelInv, TypeOK
    <3>4. p[c] = m
      BY <3>2, <3>3
    <3>5. conn' = [p EXCEPT ![c].rx = FALSE]
      BY <1>2, <2>1, <3>1, <3>2
    <3>6. conn' = [p EXCEPT ![c] = k]
      BY <2>2, <3>4, <3>5
    <3>7. QED
      BY <3>2, <3>3, <3>6
  <2>6. QED
    BY <1>1, <1>2, <2>4, <2>5
<1>6. QED
  BY <1>3, <1>4, <1>5 DEF PeerStep

\* ChannelInv holds initially.
LEMMA ChannelInit ==
  ASSUME ServerAssumption, Init
  PROVE  ChannelInv
<1>1. PICK none \in SUBSET {"read", "write"} : none = {}
  OBVIOUS
<1>2. NewChannel \in ChannelType /\ ChannelOk(NewChannel)
  <2>1. PICK no \in BOOLEAN : no = FALSE
    OBVIOUS
  <2>2. NewChannel = [index |-> "kNew", events |-> none, listed |-> no,
                      reg |-> no, fatal |-> no]
    BY <1>1, <2>1 DEF NewChannel
  <2>3. QED
    BY <1>1, <2>1, <2>2 DEF ChannelType, ChannelOk
<1>3. conn \in [Conn -> ConnType] /\ \A c \in Conn : ChannelOk(conn[c].ch)
  <2>1. PICK no \in BOOLEAN : no = FALSE
    OBVIOUS
  <2>2. PICK ch \in ChannelType : ch = NewChannel /\ ChannelOk(ch)
    BY <1>2
  <2>3. 0 \in 0..MaxMsgs /\ Base \in Loops
    BY DEF ServerAssumption, Loops
  <2>4. PICK k : k = [state |-> "none", owner |-> Base, ch |-> ch, out |-> no,
                      wrShut |-> no, peer |-> "open", rx |-> no, msgs |-> 0,
                      ups |-> 0, downs |-> 0]
    OBVIOUS
  <2>5. k \in ConnType /\ k.ch = ch
    BY <2>3, <2>4 DEF ConnType
  <2>6. conn = [c \in Conn |-> k]
    BY <2>1, <2>2, <2>4 DEF Init
  <2>7. QED
    BY <2>2, <2>5, <2>6
<1>4. loop \in [Loops -> LoopType] /\ \A l \in Loops : loop[l].active = <<>>
  <2>1. PICK noConn \in SUBSET Conn : noConn = {}
    OBVIOUS
  <2>2. PICK noFunctor \in Seq(FunctorType) : noFunctor = <<>>
    BY EmptySeq
  <2>3. PICK noEntry \in Seq(EntryType) : noEntry = <<>>
    BY EmptySeq
  <2>4. PICK lp : lp = [phase |-> "poll", active |-> noEntry, guard |-> noConn,
                        queue |-> noFunctor, batch |-> noFunctor, kept |-> noConn]
    OBVIOUS
  <2>5. lp \in LoopType /\ lp.active = noEntry
    BY <2>4 DEF LoopType
  <2>6. loop = [l \in Loops |-> lp]
    BY <2>1, <2>2, <2>3, <2>4 DEF Init
  <2>7. QED
    BY <2>3, <2>5, <2>6
<1>5. /\ connections = {} /\ next = 1 /\ listening = FALSE /\ backlog = {}
      /\ held = [u \in User |-> {}] /\ upc = [u \in User |-> IdleUser]
      /\ sends = [u \in User |-> 0]
  BY DEF Init
<1>6. next \in IF IoLoops = <<>> THEN {1} ELSE 1..Len(IoLoops)
  BY <1>5 DEF ServerAssumption
<1>7. IdleUser \in [op : {"idle", "send", "setState", "shutdown"}, conn : SUBSET Conn]
  <2>1. PICK no \in SUBSET Conn : no = {}
    OBVIOUS
  <2>2. [op |-> "idle", conn |-> no]
          \in [op : {"idle", "send", "setState", "shutdown"}, conn : SUBSET Conn]
    OBVIOUS
  <2>3. QED
    BY <2>1, <2>2 DEF IdleUser
<1>8. upc \in [User -> [op : {"idle", "send", "setState", "shutdown"},
                        conn : SUBSET Conn]]
  BY <1>5, <1>7
<1>9. sends \in [User -> 0..MaxSends] /\ held \in [User -> SUBSET Conn]
  BY <1>5 DEF ServerAssumption
<1>10. TypeOK
  BY <1>3, <1>4, <1>5, <1>6, <1>8, <1>9 DEF TypeOK
<1>11. \A l \in Loops : \A i \in DOMAIN loop[l].active : HasCallback(loop[l].active[i])
  BY <1>4
<1>12. QED
  BY <1>3, <1>10, <1>11 DEF ChannelInv

\* Every step keeps ChannelInv.
LEMMA ChannelStep ==
  ASSUME ServerAssumption, ChannelInv, [Next]_vars
  PROVE  ChannelInv'
<1>1. TypeOK
  BY DEF ChannelInv
<1>2. CASE Start
  <2>1. listening' = TRUE
        /\ UNCHANGED <<conn, loop, connections, next, backlog, userVars>>
    BY <1>2 DEF Start
  <2>2. TypeOK'
    BY <1>1, <2>1 DEF TypeOK, userVars
  <2>3. QED
    BY <2>1, <2>2 DEF ChannelInv
<1>3. ASSUME NEW c \in Conn, ClientConnect(c)
      PROVE  ChannelInv'
  <2>1. /\ backlog' = backlog \union {c}
        /\ UNCHANGED <<conn, loop, connections, next, listening, userVars>>
    BY <1>3 DEF ClientConnect
  <2>2. TypeOK'
    BY <1>1, <2>1 DEF TypeOK, userVars
  <2>3. QED
    BY <2>1, <2>2 DEF ChannelInv
<1>4. ASSUME NEW c \in Conn, PeerStep(c)
      PROVE  ChannelInv'
  <2>1. UNCHANGED <<loop, serverVars, userVars>>
    BY <1>4, PeerStepDoes
  <2>2. PICK k : Sound(k) /\ conn' = [conn EXCEPT ![c] = k]
    BY <1>4, PeerStepDoes
  <2>3. conn' \in [Conn -> ConnType] /\ \A x \in Conn : ChannelOk(conn'[x].ch)
    BY <2>2, ConnChange
  <2>4. TypeOK'
    BY <1>1, <2>1, <2>3 DEF TypeOK, serverVars, userVars
  <2>5. QED
    BY <2>1, <2>3, <2>4 DEF ChannelInv
<1>5. CASE UNCHANGED vars
  BY <1>1, <1>5 DEF ChannelInv, TypeOK, vars
<1>6. QED
  BY <1>2, <1>3, <1>4, <1>5, LoopStepKeeps, BaseStepKeeps, UserStepKeeps DEF Next

\* ChannelInv is an invariant, whatever threads, peers and the kernel do.
THEOREM ChannelsAgree == Spec => []ChannelInv
<1>1. ServerAssumption
  BY ServerAssumption
<1>2. Init => ChannelInv
  BY <1>1, ChannelInit
<1>3. ChannelInv /\ [Next]_vars => ChannelInv'
  BY <1>1, ChannelStep
<1>4. QED
  BY <1>2, <1>3, PTL DEF Spec

\* No epoll_ctl(ADD or MOD) of a connection is ever refused, so the LOG_FATAL
\* of EpollPoller::update() is not reached: index_, channels_ and the kernel's
\* set agree through every order of enabling, disabling and removing, also
\* when a closed connection's channel is registered again.
THEOREM CtlNeverFails == Spec => []NoFatalCtl
<1>1. ChannelInv => NoFatalCtl
  BY DEF ChannelInv, ChannelOk, NoFatalCtl
<1>2. QED
  BY <1>1, ChannelsAgree, PTL

-----------------------------------------------------------------------------
(* What a loop has still to run, from step to step.                        *)

\* d functors were taken from the front, and fs were posted.
Moved(old, new, d, fs) ==
  /\ Len(new) = (Len(old) - d) + Len(fs)
  /\ \A j \in 1..(Len(old) - d) : new[j] = old[j + d]
  /\ \A j \in 1..Len(fs) : new[(Len(old) - d) + j] = fs[j]

\* fs may be posted in loop l, where old waits.
PostOk(fs, l, cs, ds) ==
  \A i \in 1..Len(fs) :
    /\ FunctorOk(fs[i], l, ds)
    /\ fs[i].op = "established" =>
         Len(fs) = 1 /\ cs[fs[i].conn].state # "kConnecting"

\* A loop's functors stay in order while the connections go on from cs to ds.
LEMMA TodoMoved ==
  ASSUME NEW old \in Seq(FunctorType), NEW new \in Seq(FunctorType),
         NEW fs \in Seq(FunctorType), NEW d \in {0, 1}, d <= Len(old),
         Moved(old, new, d, fs), NEW l, NEW cs, NEW ds, TodoOk(old, l, cs),
         \A i \in 1..Len(old) : i > d => FunctorOk(old[i], l, ds),
         PostOk(fs, l, cs, ds)
  PROVE  TodoOk(new, l, ds)
<1>1. /\ Len(old) \in Nat /\ Len(new) \in Nat /\ Len(fs) \in Nat
      /\ Len(new) = (Len(old) - d) + Len(fs) /\ Len(old) - d \in Nat
  BY DEF Moved
<1>2. ASSUME NEW j \in 1..(Len(old) - d)
      PROVE  new[j] = old[j + d] /\ j + d \in 1..Len(old) /\ j + d > d
  BY <1>1 DEF Moved
<1>3. ASSUME NEW j \in 1..Len(new), ~(j \in 1..(Len(old) - d))
      PROVE  /\ j - (Len(old) - d) \in 1..Len(fs)
             /\ new[j] = fs[j - (Len(old) - d)]
  <2>1. j - (Len(old) - d) \in 1..Len(fs)
    BY <1>1, <1>3
  <2>2. new[(Len(old) - d) + (j - (Len(old) - d))] = fs[j - (Len(old) - d)]
    BY <2>1 DEF Moved
  <2>3. (Len(old) - d) + (j - (Len(old) - d)) = j
    BY <1>1
  <2>4. QED
    BY <2>1, <2>2, <2>3
<1>4. ASSUME NEW j \in 1..Len(new)
      PROVE  FunctorOk(new[j], l, ds)
  BY <1>2, <1>3 DEF PostOk
<1>5. ASSUME NEW j \in 1..Len(new), new[j].op = "established",
             NEW i \in 1..Len(new), new[i] = new[j]
      PROVE  i = j
  <2>1. CASE j \in 1..(Len(old) - d) /\ i \in 1..(Len(old) - d)
    <3>1. old[j + d].op = "established" /\ old[i + d] = old[j + d]
      BY <1>2, <1>5, <2>1
    <3>2. j + d = i + d
      BY <1>2, <2>1, <3>1 DEF TodoOk
    <3>3. QED
      BY <1>1, <2>1, <3>2
  <2>2. CASE ~(j \in 1..(Len(old) - d)) /\ ~(i \in 1..(Len(old) - d))
    <3>1. Len(fs) = 1
      BY <1>3, <1>5, <2>2 DEF PostOk
    <3>2. j - (Len(old) - d) = 1 /\ i - (Len(old) - d) = 1
      BY <1>3, <2>2, <3>1
    <3>3. QED
      BY <1>1, <3>2
  <2>3. ASSUME NEW a \in 1..(Len(old) - d), NEW b \in 1..Len(fs),
               old[a + d] = fs[b], fs[b].op = "established"
        PROVE  FALSE
    <3>1. cs[fs[b].conn].state # "kConnecting"
      BY <2>3 DEF PostOk
    <3>2. FunctorOk(old[a + d], l, cs)
      BY <1>2 DEF TodoOk
    <3>3. QED
      BY <2>3, <3>1, <3>2 DEF FunctorOk
  <2>4. CASE j \in 1..(Len(old) - d) /\ ~(i \in 1..(Len(old) - d))
    BY <1>2, <1>3, <1>5, <2>3, <2>4, SMTT(30)
  <2>5. CASE ~(j \in 1..(Len(old) - d)) /\ i \in 1..(Len(old) - d)
    BY <1>2, <1>3, <1>5, <2>3, <2>5
  <2>6. QED
    BY <2>1, <2>2, <2>4, <2>5
<1>6. QED
  BY <1>4, <1>5 DEF TodoOk

\* A functor that waits goes on waiting unless it is the one taken, and what
\* was posted waits.
LEMMA WaitsMoved ==
  ASSUME NEW old \in Seq(FunctorType), NEW new \in Seq(FunctorType),
         NEW fs \in Seq(FunctorType), NEW d \in {0, 1}, d <= Len(old),
         Moved(old, new, d, fs), NEW f
  PROVE  /\ Waits(f, old) => Waits(f, new) \/ (d = 1 /\ old[1] = f)
         /\ \A i \in 1..Len(fs) : fs[i] = f => Waits(f, new)
<1>1. /\ Len(old) \in Nat /\ Len(new) \in Nat /\ Len(fs) \in Nat
      /\ Len(new) = (Len(old) - d) + Len(fs) /\ Len(old) - d \in Nat
  BY DEF Moved
<1>2. ASSUME NEW i \in 1..Len(old), old[i] = f, ~(d = 1 /\ old[1] = f)
      PROVE  Waits(f, new)
  <2>1. i - d \in 1..(Len(old) - d) /\ (i - d) + d = i
    BY <1>1, <1>2
  <2>2. new[i - d] = f /\ i - d \in 1..Len(new)
    BY <1>1, <1>2, <2>1 DEF Moved
  <2>3. QED
    BY <2>2 DEF Waits
<1>3. ASSUME NEW i \in 1..Len(fs), fs[i] = f
      PROVE  Waits(f, new)
  <2>1. (Len(old) - d) + i \in 1..Len(new)
    BY <1>1
  <2>2. new[(Len(old) - d) + i] = f
    BY <1>3 DEF Moved
  <2>3. QED
    BY <2>1, <2>2 DEF Waits
<1>4. QED
  BY <1>2, <1>3 DEF Waits

\* Queues of functors can be appended in any grouping.
LEMMA FunctorsConcat ==
  ASSUME NEW p \in Seq(FunctorType), NEW q \in Seq(FunctorType),
         NEW r \in Seq(FunctorType)
  PROVE  (p \o q) \o r = p \o (q \o r)
BY ConcatAssociative, SMTT(30)

\* More is queued behind two sequences.
LEMMA ConcatMoves ==
  ASSUME NEW b \in Seq(FunctorType), NEW q \in Seq(FunctorType),
         NEW fs \in Seq(FunctorType)
  PROVE  Moved(b \o q, b \o (q \o fs), 0, fs)
<1>1. PICK old \in Seq(FunctorType) : old = b \o q
  BY ConcatProperties
<1>2. PICK new : new = old \o fs
  OBVIOUS
<1>3. /\ Len(new) = Len(old) + Len(fs) /\ Len(old) \in Nat /\ Len(fs) \in Nat
      /\ \A i \in 1..Len(old) : new[i] = old[i]
      /\ \A i \in 1..Len(fs) : new[Len(old) + i] = fs[i]
  BY <1>2, ConcatProperties
<1>4. Moved(old, new, 0, fs)
  BY <1>3 DEF Moved
<1>5. new = b \o (q \o fs)
  BY <1>1, <1>2, FunctorsConcat
<1>6. QED
  BY <1>1, <1>4, <1>5

\* The first of two sequences loses its head, and more is queued behind.
LEMMA TailMoves ==
  ASSUME NEW b \in Seq(FunctorType), b # <<>>, NEW q \in Seq(FunctorType),
         NEW fs \in Seq(FunctorType)
  PROVE  /\ Moved(b \o q, Tail(b) \o (q \o fs), 1, fs)
         /\ 1 <= Len(b \o q) /\ (b \o q)[1] = Head(b)
<1>1. PICK old \in Seq(FunctorType) : old = b \o q
  BY ConcatProperties
<1>2. PICK p \in Seq(FunctorType) : p = Tail(b)
  <2>1. Tail(b) \in Seq(FunctorType)
    OBVIOUS
  <2>2. QED
    BY <2>1
<1>3. PICK mid \in Seq(FunctorType) : mid = p \o q
  BY ConcatProperties
<1>4. PICK new : new = mid \o fs
  OBVIOUS
<1>5. /\ Len(b) \in Nat /\ Len(b) > 0 /\ Len(p) = Len(b) - 1 /\ Head(b) = b[1]
      /\ \A i \in 1..Len(p) : p[i] = b[i + 1]
  BY <1>2
<1>6. /\ Len(old) = Len(b) + Len(q) /\ Len(q) \in Nat
      /\ \A i \in 1..Len(b) : old[i] = b[i]
      /\ \A i \in 1..Len(q) : old[Len(b) + i] = q[i]
  BY <1>1, ConcatProperties
<1>7. /\ Len(mid) = Len(p) + Len(q)
      /\ \A i \in 1..Len(p) : mid[i] = p[i]
      /\ \A i \in 1..Len(q) : mid[Len(p) + i] = q[i]
  BY <1>3, ConcatProperties
<1>8. /\ Len(new) = Len(mid) + Len(fs) /\ Len(mid) \in Nat /\ Len(fs) \in Nat
      /\ \A i \in 1..Len(mid) : new[i] = mid[i]
      /\ \A i \in 1..Len(fs) : new[Len(mid) + i] = fs[i]
  BY <1>4, ConcatProperties
<1>9. Len(mid) = Len(old) - 1
  BY <1>5, <1>6, <1>7
<1>10. ASSUME NEW j \in 1..Len(mid)
       PROVE  mid[j] = old[j + 1]
  <2>1. CASE j <= Len(p)
    BY <1>5, <1>6, <1>7, <2>1
  <2>2. CASE ~(j <= Len(p))
    <3>1. PICK i : i = j - Len(p)
      OBVIOUS
    <3>2. i \in 1..Len(q) /\ j = Len(p) + i /\ j + 1 = Len(b) + i
      <4>1. j \in Nat /\ j <= Len(p) + Len(q) /\ Len(p) \in Nat /\ ~(j <= Len(p))
        BY <1>5, <1>7, <2>2
      <4>2. QED
        BY <1>5, <1>6, <3>1, <4>1
    <3>3. QED
      BY <1>6, <1>7, <3>2
  <2>3. QED
    BY <2>1, <2>2
<1>11. Moved(old, new, 1, fs)
  BY <1>8, <1>9, <1>10 DEF Moved
<1>12. new = p \o (q \o fs)
  <2>1. (p \o q) \o fs = p \o (q \o fs)
    BY FunctorsConcat, SMTT(30)
  <2>2. QED
    BY <1>3, <1>4, <2>1
<1>13. 1 <= Len(old) /\ old[1] = Head(b)
  BY <1>5, <1>6
<1>14. QED
  BY <1>1, <1>2, <1>11, <1>12, <1>13

\* Todo() of a loop is a sequence of functors.
LEMMA TodoFacts ==
  ASSUME NEW lp \in LoopType
  PROVE  /\ Todo(lp) \in Seq(FunctorType)
         /\ lp.batch \in Seq(FunctorType) /\ lp.queue \in Seq(FunctorType)
<1>1. lp.batch \in Seq(FunctorType) /\ lp.queue \in Seq(FunctorType)
  BY DEF LoopType
<1>2. QED
  BY <1>1, ConcatProperties DEF Todo

\* Functors are posted to a loop.
LEMMA GrowMoves ==
  ASSUME NEW lp \in LoopType, NEW n, NEW fs \in Seq(FunctorType),
         n.batch = lp.batch, n.queue = lp.queue \o fs
  PROVE  Moved(Todo(lp), Todo(n), 0, fs)
BY TodoFacts, ConcatMoves DEF Todo

\* The next functor is taken from the vector, others are posted.
LEMMA PopMoves ==
  ASSUME NEW lp \in LoopType, NEW n, NEW fs \in Seq(FunctorType),
         lp.batch # <<>>, n.batch = Tail(lp.batch), n.queue = lp.queue \o fs
  PROVE  /\ Moved(Todo(lp), Todo(n), 1, fs)
         /\ 1 <= Len(Todo(lp)) /\ Todo(lp)[1] = Head(lp.batch)
BY TodoFacts, TailMoves DEF Todo

\* The swap leaves the order alone.
LEMMA SwapMoves ==
  ASSUME NEW lp \in LoopType, NEW n,
         lp.batch = <<>>, n.batch = lp.queue, n.queue = <<>>
  PROVE  Todo(n) = Todo(lp)
BY TodoFacts, ConcatEmptySeq DEF Todo

-----------------------------------------------------------------------------
(* The parts of LifeInv, when the connections only go on.                  *)

\* The connection stays in its loop, and does not return to an earlier stage.
GoesOn(k, r) ==
  /\ k.state # "none" => r.owner = k.owner /\ r.state # "none"
  /\ ~Fresh(k) => ~Fresh(r)
  /\ Down(k) => Down(r) /\ (k.ch.index = "kNew" => r.ch.index = "kNew")

\* Its channel stays in the poller, and only an open one stays open.
Stays(k, r) ==
  /\ r.owner = k.owner
  /\ ~Fresh(k) => ~Fresh(r) /\ (Down(r) => Down(k))
  /\ k.ch.index # "kNew" => r.ch.index # "kNew"

\* In a step, each loop y takes the first d[y] of its functors, and fs[y]
\* are posted to it.
Moves(d, fs) ==
  /\ loop' \in [Loops -> LoopType]
  /\ \A y \in Loops :
       /\ d[y] \in {0, 1} /\ fs[y] \in Seq(FunctorType)
       /\ d[y] <= Len(Todo(loop[y]))
       /\ Moved(Todo(loop[y]), Todo(loop'[y]), d[y], fs[y])

\* Calls of the connection's own loop.
LEMMA FollowsGoesOn ==
  ASSUME NEW k, k \in ConnType, ConnOk(k), ~Fresh(k), NEW r, Follows(k, r)
  PROVE  GoesOn(k, r) /\ Stays(k, r) /\ ConnOk(r)
<1>1. Up(k) \/ Down(k)
  BY DEF Fresh, Up, Down, ConnType
<1>2. Up(r) \/ Down(r) => ~Fresh(r) /\ r.state # "none"
  BY DEF Fresh, Up, Down
<1>3. ~(Up(r) /\ Down(r))
  BY DEF Up, Down
<1>4. ~(Up(k) /\ Down(k))
  BY DEF Up, Down
<1>5. QED
  BY <1>1, <1>2, <1>3, <1>4 DEF Follows, GoesOn, Stays

\* Steps that leave stage, loop, channel and buffer alone.
LEMMA SameLifeGoesOn ==
  ASSUME NEW k, NEW r, SameLife(k, r)
  PROVE  GoesOn(k, r) /\ Stays(k, r) /\ (ConnOk(k) => ConnOk(r))
BY SameLifeFollows DEF SameLife, GoesOn, Stays, Fresh, Down

\* A functor may go on waiting.
LEMMA FunctorCarries ==
  ASSUME NEW f, NEW l, NEW cs, NEW ds, FunctorOk(f, l, cs),
         GoesOn(cs[f.conn], ds[f.conn]),
         f.op = "established" => ds[f.conn].state = "kConnecting"
  PROVE  FunctorOk(f, l, ds)
BY DEF FunctorOk, GoesOn, Fresh, Down

\* The queues of all loops.
LEMMA MovesBy ==
  ASSUME TypeOK, loop' \in [Loops -> LoopType],
         NEW d \in [Loops -> {0, 1}], NEW fs \in [Loops -> Seq(FunctorType)],
         \A y \in Loops : loop'[y].queue = loop[y].queue \o fs[y],
         \A y \in Loops : d[y] = 1 => /\ loop[y].batch # <<>>
                                      /\ loop'[y].batch = Tail(loop[y].batch),
         \A y \in Loops : d[y] = 0 => loop'[y].batch = loop[y].batch
  PROVE  /\ Moves(d, fs)
         /\ \A y \in Loops : d[y] = 1 => Todo(loop[y])[1] = Head(loop[y].batch)
<1>1. ASSUME NEW y \in Loops
      PROVE  /\ d[y] \in {0, 1} /\ fs[y] \in Seq(FunctorType)
             /\ d[y] <= Len(Todo(loop[y]))
             /\ Moved(Todo(loop[y]), Todo(loop'[y]), d[y], fs[y])
             /\ d[y] = 1 => Todo(loop[y])[1] = Head(loop[y].batch)
  <2>1. loop[y] \in LoopType /\ d[y] \in {0, 1} /\ fs[y] \in Seq(FunctorType)
    BY DEF TypeOK
  <2>2. Len(Todo(loop[y])) \in Nat
    BY <2>1, TodoFacts, LenProperties
  <2>3. CASE d[y] = 0
    <3>1. loop'[y].queue = loop[y].queue \o fs[y] /\ loop'[y].batch = loop[y].batch
      BY <2>3
    <3>2. Moved(Todo(loop[y]), Todo(loop'[y]), 0, fs[y])
      BY <2>1, <3>1, GrowMoves
    <3>3. QED
      BY <2>1, <2>2, <2>3, <3>2
  <2>4. CASE d[y] = 1
    <3>1. /\ loop'[y].queue = loop[y].queue \o fs[y]
          /\ loop[y].batch # <<>> /\ loop'[y].batch = Tail(loop[y].batch)
      BY <2>4
    <3>2. /\ Moved(Todo(loop[y]), Todo(loop'[y]), 1, fs[y])
          /\ 1 <= Len(Todo(loop[y])) /\ Todo(loop[y])[1] = Head(loop[y].batch)
      BY <2>1, <3>1, PopMoves
    <3>3. QED
      BY <2>1, <2>2, <2>4, <3>2
  <2>5. QED
    BY <2>1, <2>3, <2>4
<1>2. QED
  BY <1>1 DEF Moves

\* All loops' functors stay in order.
LEMMA TodosKeep ==
  ASSUME TypeOK, LoopInv, NEW d, NEW fs, Moves(d, fs),
         \A x \in Conn : GoesOn(conn[x], conn'[x]),
         \A y \in Loops : \A i \in 1..Len(Todo(loop[y])) :
           i > d[y] /\ Todo(loop[y])[i].op = "established" =>
             conn'[Todo(loop[y])[i].conn].state = "kConnecting",
         \A y \in Loops : PostOk(fs[y], y, conn, conn')
  PROVE  \A y \in Loops : TodoOk(Todo(loop'[y]), y, conn')
<1>1. ASSUME NEW y \in Loops
      PROVE  TodoOk(Todo(loop'[y]), y, conn')
  <2>1. PICK old \in Seq(FunctorType) : old = Todo(loop[y])
    BY TodoFacts DEF TypeOK
  <2>2. PICK new \in Seq(FunctorType) : new = Todo(loop'[y])
    BY TodoFacts DEF Moves
  <2>3. PICK n \in {0, 1}, posted \in Seq(FunctorType) :
          n = d[y] /\ posted = fs[y]
    BY DEF Moves
  <2>4. /\ n <= Len(old) /\ Moved(old, new, n, posted)
        /\ PostOk(posted, y, conn, conn')
    BY <2>1, <2>2, <2>3 DEF Moves
  <2>5. TodoOk(old, y, conn)
    BY <2>1 DEF LoopInv
  <2>6. ASSUME NEW i \in 1..Len(old), i > n
        PROVE  FunctorOk(old[i], y, conn')
    <3>1. old[i].conn \in Conn
      <4>1. old[i] \in FunctorType
        OBVIOUS
      <4>2. QED
        BY <4>1 DEF FunctorType
    <3>2. FunctorOk(old[i], y, conn)
      BY <2>5 DEF TodoOk
    <3>3. old[i].op = "established" => conn'[old[i].conn].state = "kConnecting"
      BY <2>1, <2>3, <2>6
    <3>4. GoesOn(conn[old[i].conn], conn'[old[i].conn])
      BY <3>1
    <3>5. QED
      BY <3>2, <3>3, <3>4, FunctorCarries
  <2>7. TodoOk(new, y, conn')
    BY <2>4, <2>5, <2>6, TodoMoved
  <2>8. QED
    BY <2>2, <2>7
<1>2. QED
  BY <1>1

\* No established functor waits for a connection that is not connecting, and
\* none but its own loop's for one that is.
LEMMA WaitingEstablished ==
  ASSUME LoopInv, NEW y \in Loops, NEW i \in 1..Len(Todo(loop[y])),
         Todo(loop[y])[i].op = "established"
  PROVE  /\ conn[Todo(loop[y])[i].conn].state = "kConnecting"
         /\ conn[Todo(loop[y])[i].conn].owner = y
         /\ \A j \in 1..Len(Todo(loop[y])) :
              Todo(loop[y])[j] = Todo(loop[y])[i] => i = j
BY DEF LoopInv, TodoOk, FunctorOk

\* The entries of one loop's activeChannels_ when nothing is taken from it.
LEMMA ActiveStays ==
  ASSUME NEW lp, NEW n, NEW l, NEW cs, NEW ds, ActiveOk(lp, l, cs),
         n.phase = lp.phase, n.active = lp.active,
         n.batch # <<>> => lp.batch # <<>>,
         \A i \in DOMAIN lp.active : lp.active[i].ch # Acceptor =>
           Stays(cs[lp.active[i].ch], ds[lp.active[i].ch])
  PROVE  ActiveOk(n, l, ds)
<1>1. ASSUME NEW i \in DOMAIN lp.active
      PROVE  EntryOk(lp.active[i], l, ds)
  <2>1. EntryOk(lp.active[i], l, cs)
    BY DEF ActiveOk
  <2>2. QED
    BY <2>1 DEF EntryOk, Stays
<1>2. QED
  BY <1>1 DEF ActiveOk

\* The application's pointers.
LEMMA UserKeeps ==
  ASSUME TypeOK, UserInv, UNCHANGED <<held, upc>>,
         \A x \in Conn : GoesOn(conn[x], conn'[x])
  PROVE  UserInv'
<1>1. ASSUME NEW u \in User, NEW c \in held[u] \union upc[u].conn
      PROVE  ~Fresh(conn'[c])
  <2>1. c \in Conn
    BY DEF TypeOK
  <2>2. ~Fresh(conn[c])
    BY DEF UserInv
  <2>3. QED
    BY <2>1, <2>2 DEF GoesOn
<1>2. QED
  BY <1>1 DEF UserInv

\* What TcpServer has forgotten.
LEMMA ServerKeeps ==
  ASSUME TypeOK, ServerInv, NEW d, NEW fs, Moves(d, fs),
         conn' \in [Conn -> ConnType],
         \A x \in Conn : GoesOn(conn[x], conn'[x]),
         \A x \in backlog' : conn'[x].state = "none",
         \A x \in connections' : conn'[x].state # "none",
         \A x \in Conn : conn'[x].state # "none" /\ x \notin connections' =>
           \/ /\ conn[x].state # "none" /\ x \notin connections
              /\ d[conn[x].owner] = 1 =>
                   Todo(loop[conn[x].owner])[1] # Functor("destroyed", x)
           \/ /\ Down(conn'[x])
              /\ \/ conn'[x].ch.index = "kNew"
                 \/ \E i \in 1..Len(fs[conn'[x].owner]) :
                      fs[conn'[x].owner][i] = Functor("destroyed", x)
  PROVE  ServerInv'
<1>1. ASSUME NEW x \in Conn, conn'[x].state # "none", x \notin connections'
      PROVE  /\ Down(conn'[x])
             /\ \/ conn'[x].ch.index = "kNew"
                \/ Waits(Functor("destroyed", x), Todo(loop'[conn'[x].owner]))
  <2>1. PICK y \in Loops : y = conn'[x].owner
    BY DEF ConnType
  <2>2. PICK old \in Seq(FunctorType) : old = Todo(loop[y])
    BY TodoFacts DEF TypeOK
  <2>3. PICK new \in Seq(FunctorType) : new = Todo(loop'[y])
    BY TodoFacts DEF Moves
  <2>4. PICK n \in {0, 1}, posted \in Seq(FunctorType) :
          n = d[y] /\ posted = fs[y]
    BY DEF Moves
  <2>5. n <= Len(old) /\ Moved(old, new, n, posted)
    BY <2>2, <2>3, <2>4 DEF Moves
  <2>6. PICK f : f = Functor("destroyed", x)
    OBVIOUS
  <2>7. /\ Waits(f, old) => Waits(f, new) \/ (n = 1 /\ old[1] = f)
        /\ \A i \in 1..Len(posted) : posted[i] = f => Waits(f, new)
    BY <2>5, WaitsMoved
  <2>8. CASE /\ conn[x].state # "none" /\ x \notin connections
             /\ d[conn[x].owner] = 1 =>
                  Todo(loop[conn[x].owner])[1] # Functor("destroyed", x)
    <3>1. conn[x].owner = y
      BY <2>1, <2>8 DEF GoesOn
    <3>2. /\ Down(conn[x])
          /\ conn[x].ch.index = "kNew" \/ Waits(f, old)
      BY <2>2, <2>6, <2>8, <3>1 DEF ServerInv, Created
    <3>3. ~(n = 1 /\ old[1] = f)
      BY <2>2, <2>4, <2>6, <2>8, <3>1
    <3>4. Down(conn'[x]) /\ (conn[x].ch.index = "kNew" => conn'[x].ch.index = "kNew")
      BY <3>2 DEF GoesOn
    <3>5. QED
      BY <2>1, <2>3, <2>6, <2>7, <3>2, <3>3, <3>4
  <2>9. CASE /\ Down(conn'[x])
             /\ \/ conn'[x].ch.index = "kNew"
                \/ \E i \in 1..Len(fs[conn'[x].owner]) :
                        fs[conn'[x].owner][i] = Functor("destroyed", x)
    BY <2>1, <2>3, <2>4, <2>6, <2>7, <2>9
  <2>10. QED
    BY <1>1, <2>8, <2>9
<1>2. QED
  BY <1>1 DEF ServerInv, Created

\* The callbacks that come after the first.
LEMMA TailOrdered ==
  ASSUME NEW cbs \in Seq(CallbackName), cbs # <<>>, Ordered(cbs)
  PROVE  /\ Ordered(Tail(cbs))
         /\ cbs[1] \in {"close", "read"} =>
              \A i \in DOMAIN Tail(cbs) : Tail(cbs)[i] \notin {"close", "read"}
         /\ (\A i \in DOMAIN cbs : cbs[i] \notin {"close", "read"}) =>
              \A i \in DOMAIN Tail(cbs) : Tail(cbs)[i] \notin {"close", "read"}
<1>1. PICK t : t = Tail(cbs)
  OBVIOUS
<1>2. /\ Len(cbs) \in Nat \ {0} /\ DOMAIN cbs = 1..Len(cbs)
      /\ DOMAIN t = 1..(Len(cbs) - 1)
      /\ \A i \in 1..(Len(cbs) - 1) : t[i] = cbs[i + 1]
  BY <1>1
<1>3. \A i \in DOMAIN t : t[i] = cbs[i + 1] /\ i + 1 \in DOMAIN cbs /\ 1 < i + 1
  BY <1>2
<1>4. 1 \in DOMAIN cbs
  BY <1>2
<1>5. ASSUME NEW i \in DOMAIN t, NEW j \in DOMAIN t, i < j
      PROVE  t[j] # "close" /\ (t[j] = "read" => t[i] \notin {"close", "read"})
  <2>1. i + 1 < j + 1
    BY <1>2, <1>5
  <2>2. QED
    BY <1>3, <2>1 DEF Ordered
<1>6. Ordered(t)
  BY <1>5 DEF Ordered
<1>7. cbs[1] \in {"close", "read"} => \A i \in DOMAIN t : t[i] \notin {"close", "read"}
  BY <1>3, <1>4 DEF Ordered
<1>8. QED
  BY <1>1, <1>3, <1>6, <1>7

\* A callback of the first entry closes its connection.
Closes(x, k, r) ==
  /\ x.cbs[1] \in {"close", "read"}
  /\ r.owner = k.owner /\ Down(r) /\ r.ch.index # "kNew"

\* The entries after a callback was made.
LEMMA PoppedActive ==
  ASSUME NEW lp \in LoopType, lp.active # <<>>,
         \A i \in DOMAIN lp.active : HasCallback(lp.active[i]),
         NEW n, n = PopCallback(lp), NEW r, r.phase = n.phase,
         r.active = n.active, r.batch = n.batch,
         NEW l, NEW cs, NEW ds, ActiveOk(lp, l, cs),
         NEW x, x = lp.active[1],
         \A i \in DOMAIN lp.active :
           lp.active[i].ch # Acceptor /\ lp.active[i].ch # x.ch =>
             Stays(cs[lp.active[i].ch], ds[lp.active[i].ch]),
         x.ch # Acceptor => \/ Stays(cs[x.ch], ds[x.ch])
                            \/ Closes(x, cs[x.ch], ds[x.ch])
  PROVE  ActiveOk(r, l, ds)
<1>1. PICK act \in Seq(EntryType) : act = lp.active
  BY DEF LoopType
<1>2. /\ Len(act) \in Nat \ {0} /\ DOMAIN act = 1..Len(act)
      /\ 1 \in DOMAIN act /\ x \in EntryType /\ HasCallback(x)
  <2>1. Len(act) \in Nat \ {0} /\ DOMAIN act = 1..Len(act)
    BY <1>1
  <2>2. 1 \in DOMAIN act
    BY <2>1
  <2>3. x = act[1] /\ act[1] \in EntryType
    BY <1>1, <2>2
  <2>4. HasCallback(x)
    BY <1>1, <2>2, <2>3
  <2>5. QED
    BY <2>1, <2>2, <2>3, <2>4
<1>3. r.phase = lp.phase /\ r.batch = lp.batch
  BY PopCallbackPops
<1>4. /\ act # <<>> => lp.phase = "handle"
      /\ lp.batch # <<>> => lp.phase = "run"
      /\ \A i \in DOMAIN act :
           /\ EntryOk(act[i], l, cs)
           /\ \A j \in DOMAIN act : act[i].ch = act[j].ch => i = j
  BY <1>1 DEF ActiveOk
<1>5. ASSUME NEW i \in DOMAIN act, i # 1
      PROVE  EntryOk(act[i], l, ds)
  <2>1. EntryOk(act[i], l, cs) /\ act[i].ch # x.ch
    BY <1>1, <1>2, <1>4, <1>5
  <2>2. act[i].ch # Acceptor => Stays(cs[act[i].ch], ds[act[i].ch])
    BY <1>1, <2>1
  <2>3. QED
    BY <2>1, <2>2 DEF EntryOk, Stays
<1>6. CASE r.active = Tail(act)
  <2>1. PICK t : t = Tail(act)
    OBVIOUS
  <2>2. /\ DOMAIN t = 1..(Len(act) - 1)
        /\ \A i \in 1..(Len(act) - 1) : t[i] = act[i + 1]
    BY <1>2, <2>1
  <2>3. ASSUME NEW i \in DOMAIN t
        PROVE  /\ t[i] = act[i + 1] /\ i + 1 \in DOMAIN act /\ i + 1 # 1
               /\ i \in Int
    BY <1>2, <2>2
  <2>4. ASSUME NEW i \in DOMAIN t
        PROVE  /\ EntryOk(t[i], l, ds)
               /\ \A j \in DOMAIN t : t[i].ch = t[j].ch => i = j
    <3>1. EntryOk(t[i], l, ds)
      BY <1>5, <2>3
    <3>2. ASSUME NEW j \in DOMAIN t, t[i].ch = t[j].ch
          PROVE  i = j
      <4>1. i + 1 = j + 1
        BY <1>4, <2>3, <3>2
      <4>2. QED
        BY <2>3, <4>1
    <3>3. QED
      BY <3>1, <3>2
  <2>5. lp.phase = "handle"
    BY <1>1, <1>4
  <2>6. QED
    BY <1>3, <1>4, <1>6, <2>1, <2>4, <2>5 DEF ActiveOk
<1>7. CASE /\ Tail(x.cbs) # <<>>
           /\ r.active = [act EXCEPT ![1] = [x EXCEPT !.cbs = Tail(x.cbs)]]
  <2>1. PICK new : new = r.active
    OBVIOUS
  <2>2. PICK cbs \in Seq(CallbackName) : cbs = x.cbs
    BY <1>2 DEF EntryType, CallbackName
  <2>3. PICK t : t = Tail(cbs)
    OBVIOUS
  <2>4. PICK y : y = [x EXCEPT !.cbs = t]
    OBVIOUS
  <2>5. y.ch = x.ch /\ y.cbs = t /\ x.ch # Acceptor /\ cbs # <<>>
    BY <1>2, <1>7, <2>2, <2>3, <2>4 DEF EntryType, HasCallback
  <2>6. /\ DOMAIN new = DOMAIN act /\ new[1] = y
        /\ \A i \in DOMAIN act : i # 1 => new[i] = act[i]
    <3>1. new = [act EXCEPT ![1] = y]
      BY <1>7, <2>1, <2>2, <2>3, <2>4
    <3>2. QED
      BY <1>2, <3>1
  <2>7. EntryOk(x, l, cs)
    BY <1>1, <1>2, <1>4
  <2>8. /\ Ordered(t)
        /\ cbs[1] \in {"close", "read"} =>
             \A i \in DOMAIN t : t[i] \notin {"close", "read"}
        /\ (\A i \in DOMAIN cbs : cbs[i] \notin {"close", "read"}) =>
             \A i \in DOMAIN t : t[i] \notin {"close", "read"}
    BY <2>2, <2>3, <2>5, <2>7, TailOrdered DEF EntryOk
  <2>9. EntryOk(y, l, ds)
    <3>1. CASE Stays(cs[x.ch], ds[x.ch])
      BY <2>2, <2>5, <2>7, <2>8, <3>1 DEF EntryOk, Stays
    <3>2. CASE Closes(x, cs[x.ch], ds[x.ch])
      BY <2>2, <2>5, <2>7, <2>8, <3>2 DEF EntryOk, Closes, Down, Fresh
    <3>3. QED
      BY <2>5, <3>1, <3>2
  <2>10. ASSUME NEW i \in DOMAIN new
         PROVE  /\ EntryOk(new[i], l, ds)
                /\ new[i].ch = act[i].ch
    <3>1. CASE i = 1
      BY <1>1, <2>5, <2>6, <2>9, <3>1
    <3>2. CASE i # 1
      <4>1. new[i] = act[i] /\ i \in DOMAIN act
        BY <2>6, <3>2
      <4>2. QED
        BY <1>5, <3>2, <4>1
    <3>3. QED
      BY <3>1, <3>2
  <2>11. \A i, j \in DOMAIN new : new[i].ch = new[j].ch => i = j
    BY <1>4, <2>6, <2>10
  <2>12. lp.phase = "handle"
    BY <1>1, <1>4
  <2>13. QED
    BY <1>3, <1>4, <2>1, <2>10, <2>11, <2>12 DEF ActiveOk
<1>8. Tail(x.cbs) = <<>> => r.active = Tail(act)
  BY <1>1, PopCallbackPops
<1>9. Tail(x.cbs) # <<>> =>
        r.active = [act EXCEPT ![1] = [x EXCEPT !.cbs = Tail(x.cbs)]]
  BY <1>1, PopCallbackPops
<1>10. QED
  BY <1>6, <1>7, <1>8, <1>9

\* A step of one loop that leaves connections and functors alone.
LEMMA QuietKeeps ==
  ASSUME ServerAssumption, LifeInv, ChannelInv', NEW l \in Loops, NEW n \in LoopType,
         loop' = [loop EXCEPT ![l] = n], Todo(n) = Todo(loop[l]),
         ActiveOk(n, l, conn), UNCHANGED <<conn, serverVars, userVars>>
  PROVE  LifeInv'
<1>1. loop \in [Loops -> LoopType] /\ conn \in [Conn -> ConnType]
  BY DEF LifeInv, ChannelInv, TypeOK
<1>2. loop'[l] = n /\ \A y \in Loops : y # l => loop'[y] = loop[y]
  BY <1>1
<1>3. \A y \in Loops : Todo(loop'[y]) = Todo(loop[y])
  BY <1>2
<1>4. LoopInv'
  <2>1. ASSUME NEW y \in Loops
        PROVE  TodoOk(Todo(loop'[y]), y, conn') /\ ActiveOk(loop'[y], y, conn')
    <3>1. TodoOk(Todo(loop[y]), y, conn) /\ ActiveOk(loop[y], y, conn)
      BY DEF LifeInv, LoopInv
    <3>2. CASE y = l
      BY <1>2, <1>3, <3>1, <3>2
    <3>3. CASE y # l
      BY <1>2, <1>3, <3>1, <3>3
    <3>4. QED
      BY <3>2, <3>3
  <2>2. QED
    BY <2>1 DEF LoopInv
<1>5. UserInv'
  BY DEF LifeInv, UserInv, userVars
<1>6. ServerInv'
  <2>1. \A x \in Conn : conn[x].owner \in Loops
    BY <1>1 DEF ConnType
  <2>2. \A x \in Conn : Todo(loop'[conn'[x].owner]) = Todo(loop[conn[x].owner])
    BY <1>3, <2>1
  <2>3. UNCHANGED <<conn, connections, backlog>>
    BY DEF serverVars
  <2>4. QED
    BY <2>2, <2>3 DEF LifeInv, ServerInv, Created
<1>7. \A x \in Conn : ConnOk(conn'[x])
  BY DEF LifeInv
<1>8. QED
  BY <1>4, <1>5, <1>6, <1>7 DEF LifeInv

\* The steps of a loop that run no connection's code.
LEMMA QuietStepLives ==
  ASSUME ServerAssumption, LifeInv, ChannelInv', NEW l \in Loops,
         \/ Poll(l) \/ SwapFunctors(l) \/ EndFunctors(l)
         \/ l = Base /\ AcceptFails
  PROVE  LifeInv'
<1>1. /\ TypeOK /\ loop \in [Loops -> LoopType] /\ loop[l] \in LoopType
      /\ conn \in [Conn -> ConnType]
  BY LoopFacts DEF LifeInv, ChannelInv
<1>2. ActiveOk(loop[l], l, conn)
  BY DEF LifeInv, LoopInv
<1>3. \A i \in DOMAIN loop[l].active : HasCallback(loop[l].active[i])
  BY DEF LifeInv, ChannelInv
<1>4. CASE Poll(l)
  <2>1. PICK act \in Seq(EntryType), n \in LoopType :
           /\ loop' = [loop EXCEPT ![l] = n]
           /\ n.phase = "handle" /\ n.active = act /\ n.guard = loop[l].guard
           /\ n.queue = loop[l].queue /\ n.batch = loop[l].batch
           /\ n.kept = loop[l].kept
           /\ \A i \in 1..Len(act) :
                /\ HasCallback(act[i]) /\ Ordered(act[i].cbs)
                /\ act[i].ch # Acceptor => act[i].ch \in Polled(l)
                /\ \A j \in 1..Len(act) : act[i].ch = act[j].ch => i = j
    BY <1>1, <1>4, PollChanges
  <2>2. DOMAIN act = 1..Len(act)
    OBVIOUS
  <2>3. n.batch = <<>>
    BY <1>2, <1>4, <2>1 DEF ActiveOk, Poll
  <2>4. ASSUME NEW c \in Polled(l)
        PROVE  /\ conn[c].owner = l /\ ~Fresh(conn[c]) /\ ~Down(conn[c])
               /\ conn[c].ch.index # "kNew"
    <3>1. c \in Conn /\ conn[c].owner = l /\ conn[c].ch.reg
      BY <2>4 DEF Polled
    <3>2. ChannelOk(conn[c].ch) /\ ConnOk(conn[c])
      BY <3>1 DEF LifeInv, ChannelInv
    <3>3. conn[c].ch.index = "kAdded"
      BY <3>1, <3>2 DEF ChannelOk
    <3>4. QED
      BY <3>1, <3>2, <3>3 DEF ConnOk
  <2>5. \A i \in DOMAIN act : EntryOk(act[i], l, conn)
    BY <2>1, <2>2, <2>4 DEF EntryOk
  <2>6. ActiveOk(n, l, conn)
    BY <2>1, <2>2, <2>3, <2>5 DEF ActiveOk
  <2>7. Todo(n) = Todo(loop[l])
    BY <2>1 DEF Todo
  <2>8. UNCHANGED <<conn, serverVars, userVars>>
    BY <1>4 DEF Poll
  <2>9. QED
    BY <2>1, <2>6, <2>7, <2>8, QuietKeeps
<1>5. CASE SwapFunctors(l)
  <2>1. PICK n \in LoopType :
           /\ loop' = [loop EXCEPT ![l] = n]
           /\ n.phase = "run" /\ n.active = loop[l].active /\ n.active = <<>>
           /\ n.batch = loop[l].queue /\ n.queue = <<>>
    BY <1>1, <1>5, SwapChanges
  <2>2. loop[l].batch = <<>>
    BY <1>2, <1>5 DEF ActiveOk, SwapFunctors
  <2>3. Todo(n) = Todo(loop[l])
    BY <1>1, <2>1, <2>2, SwapMoves
  <2>4. ActiveOk(n, l, conn)
    BY <2>1 DEF ActiveOk
  <2>5. UNCHANGED <<conn, serverVars, userVars>>
    BY <1>5 DEF SwapFunctors
  <2>6. QED
    BY <2>1, <2>3, <2>4, <2>5, QuietKeeps
<1>6. CASE EndFunctors(l)
  <2>1. PICK n \in LoopType :
           /\ loop' = [loop EXCEPT ![l] = n]
           /\ n.phase = "poll" /\ n.active = loop[l].active
           /\ n.batch = loop[l].batch /\ n.batch = <<>> /\ n.queue = loop[l].queue
           /\ loop[l].phase = "run"
    BY <1>1, <1>6, EndChanges
  <2>2. n.active = <<>>
    BY <1>2, <2>1 DEF ActiveOk
  <2>3. ActiveOk(n, l, conn)
    BY <2>1, <2>2 DEF ActiveOk
  <2>4. Todo(n) = Todo(loop[l])
    BY <2>1 DEF Todo
  <2>5. UNCHANGED <<conn, serverVars, userVars>>
    BY <1>6 DEF EndFunctors
  <2>6. QED
    BY <2>1, <2>3, <2>4, <2>5, QuietKeeps
<1>7. CASE l = Base /\ AcceptFails
  <2>1. PICK n : n = PopCallback(loop[l])
    OBVIOUS
  <2>2. PICK x : x = loop[l].active[1]
    OBVIOUS
  <2>3. loop[l].active # <<>> /\ Head(loop[l].active).ch = Acceptor
    BY <1>7 DEF AcceptFails, Accepting
  <2>4. x.ch = Acceptor
    BY <1>1, <2>2, <2>3 DEF LoopType
  <2>5. n \in LoopType /\ n.queue = loop[l].queue /\ n.batch = loop[l].batch
    BY <1>1, <1>3, <2>1, <2>3, PopCallbackPops
  <2>6. \A i \in DOMAIN loop[l].active :
          Stays(conn[loop[l].active[i].ch], conn[loop[l].active[i].ch])
    BY DEF Stays
  <2>7. ActiveOk(n, l, conn)
    BY <1>1, <1>2, <1>3, <2>1, <2>2, <2>3, <2>4, <2>6, PoppedActive
  <2>8. Todo(n) = Todo(loop[l])
    BY <2>5 DEF Todo
  <2>9. loop' = [loop EXCEPT ![l] = n] /\ UNCHANGED <<conn, serverVars, userVars>>
    BY <1>7, <2>1 DEF AcceptFails
  <2>10. QED
    BY <2>5, <2>7, <2>8, <2>9, QuietKeeps
<1>8. QED
  BY <1>4, <1>5, <1>6, <1>7

\* Loop l takes its next functor, and fs[y] is queued in each loop y.
Taken(l) == [y \in Loops |-> IF y = l THEN 1 ELSE 0]

RunPosts(l, fs) ==
  /\ loop' \in [Loops -> LoopType] /\ fs \in [Loops -> Seq(FunctorType)]
  /\ \A y \in Loops :
       /\ loop'[y].phase = loop[y].phase /\ loop'[y].active = loop[y].active
       /\ loop'[y].queue = loop[y].queue \o fs[y]
       /\ loop'[y].batch = IF y = l THEN Tail(loop[y].batch) ELSE loop[y].batch

\* Loop l's record becomes n, and fs[y] is queued in each loop y.
Posts(n, l, fs) ==
  \A y \in Loops :
    /\ y = l => /\ SameExceptQueue(loop'[y], n)
                /\ loop'[y].queue = n.queue \o fs[y]
    /\ y # l => /\ SameExceptQueue(loop'[y], loop[y])
                /\ loop'[y].queue = loop[y].queue \o fs[y]

\* The actions that run a functor are all of that form.
LEMMA PopsAndPosts ==
  ASSUME ServerAssumption, TypeOK, NEW l \in Loops, NEW op, Runs(l, op),
         loop' \in [Loops -> LoopType], NEW fs \in [Loops -> Seq(FunctorType)],
         Posts(PopFunctor(loop[l]), l, fs)
  PROVE  RunPosts(l, fs)
<1>. PICK n : n = PopFunctor(loop[l])
  OBVIOUS
<1>1. loop[l] \in LoopType /\ loop[l].batch # <<>>
  BY LoopFacts, TargetFacts
<1>2. /\ n.phase = loop[l].phase /\ n.queue = loop[l].queue
      /\ n.active = loop[l].active /\ n.batch = Tail(loop[l].batch)
  BY <1>1, PopFunctorPops
<1>3. Posts(n, l, fs)
  OBVIOUS
<1>4. ASSUME NEW y \in Loops
      PROVE  /\ loop'[y].queue = loop[y].queue \o fs[y]
             /\ loop'[y].phase = loop[y].phase /\ loop'[y].active = loop[y].active
             /\ loop'[y].batch = IF y = l THEN Tail(loop[y].batch) ELSE loop[y].batch
  <2>1. CASE y = l
    BY <1>2, <1>3, <2>1 DEF Posts, SameExceptQueue
  <2>2. CASE y # l
    BY <1>3, <2>2 DEF Posts, SameExceptQueue
  <2>3. QED
    BY <2>1, <2>2
<1>5. QED
  BY <1>4 DEF RunPosts

\* The functor that runs was the first one the loop had to do.
LEMMA RunMoves ==
  ASSUME ServerAssumption, TypeOK, NEW l \in Loops, NEW op, Runs(l, op),
         NEW fs, RunPosts(l, fs)
  PROVE  /\ Moves(Taken(l), fs)
         /\ Todo(loop[l])[1] = Functor(op, Target(l)) /\ 1 <= Len(Todo(loop[l]))
         /\ loop[l].phase = "run"
         /\ \A y \in Loops : loop'[y].batch # <<>> => loop[y].batch # <<>>
<1>. PICK d : d = Taken(l)
  OBVIOUS
<1>1. /\ loop \in [Loops -> LoopType] /\ loop[l] \in LoopType
      /\ loop[l].batch # <<>> /\ loop[l].phase = "run"
      /\ Head(loop[l].batch) = Functor(op, Target(l))
  BY LoopFacts, TargetFacts
<1>2. loop' \in [Loops -> LoopType] /\ fs \in [Loops -> Seq(FunctorType)]
  BY DEF RunPosts
<1>3. /\ d \in [Loops -> {0, 1}]
      /\ \A y \in Loops : (d[y] = 1 => y = l) /\ (d[y] = 0 => y # l) /\ d[l] = 1
  BY DEF Taken
<1>4. \A y \in Loops : loop'[y].queue = loop[y].queue \o fs[y]
  BY DEF RunPosts
<1>5. \A y \in Loops : d[y] = 1 => /\ loop[y].batch # <<>>
                                   /\ loop'[y].batch = Tail(loop[y].batch)
  BY <1>1, <1>3 DEF RunPosts
<1>6. \A y \in Loops : d[y] = 0 => loop'[y].batch = loop[y].batch
  BY <1>3 DEF RunPosts
<1>7. /\ Moves(d, fs)
      /\ \A y \in Loops : d[y] = 1 => Todo(loop[y])[1] = Head(loop[y].batch)
  BY <1>2, <1>3, <1>4, <1>5, <1>6, MovesBy
<1>8. Todo(loop[l])[1] = Functor(op, Target(l)) /\ 1 <= Len(Todo(loop[l]))
  BY <1>1, <1>3, <1>7 DEF Moves
<1>9. \A y \in Loops : loop'[y].batch # <<>> => loop[y].batch # <<>>
  BY <1>1 DEF RunPosts
<1>10. QED
  BY <1>1, <1>7, <1>8, <1>9

\* Only connection c changes; loop l sees to it that the other loops' lists
\* remain in order.
Touches(l, c) ==
  /\ \A x \in Conn : x # c => conn'[x] = conn[x]
  /\ GoesOn(conn[c], conn'[c])
  /\ \A y \in Loops : \A i \in DOMAIN loop[y].active :
       y # l /\ loop[y].active[i].ch = c => Stays(conn[c], conn'[c])

\* TcpServer forgets only connections that are down and whose
\* connectDestroyed() it queues.
Forgets(fs) ==
  /\ backlog' = backlog /\ connections' \subseteq connections
  /\ \A x \in connections \ connections' :
       /\ Down(conn'[x])
       /\ \E i \in 1..Len(fs[conn'[x].owner]) :
            fs[conn'[x].owner][i] = Functor("destroyed", x)

\* What a functor does to its connection c keeps the loops and TcpServer's
\* memory in order.
LEMMA RunLives ==
  ASSUME ServerAssumption, LifeInv, ChannelInv',
         NEW l \in Loops, NEW op, Runs(l, op), NEW fs, RunPosts(l, fs),
         \A y \in Loops : PostOk(fs[y], y, conn, conn'),
         NEW c, c = Target(l),
         Touches(l, c), Forgets(fs),
         op = "destroyed" => Down(conn'[c]) /\ conn'[c].ch.index = "kNew"
  PROVE  LoopInv' /\ ServerInv'
<1>. USE DEF Touches, Forgets
<1>. PICK d : d = Taken(l)
  OBVIOUS
<1>1. /\ TypeOK /\ loop' \in [Loops -> LoopType] /\ conn' \in [Conn -> ConnType]
      /\ conn \in [Conn -> ConnType] /\ c \in Conn
  BY TargetFacts DEF LifeInv, ChannelInv, TypeOK
<1>2. /\ Moves(d, fs)
      /\ Todo(loop[l])[1] = Functor(op, c) /\ 1 <= Len(Todo(loop[l]))
      /\ loop[l].phase = "run"
  <2>1. /\ Moves(Taken(l), fs)
        /\ Todo(loop[l])[1] = Functor(op, Target(l)) /\ 1 <= Len(Todo(loop[l]))
        /\ loop[l].phase = "run"
    BY <1>1, RunMoves
  <2>2. QED
    BY <2>1
<1>3. \A y \in Loops : /\ loop'[y].phase = loop[y].phase
                       /\ loop'[y].active = loop[y].active
                       /\ loop'[y].batch # <<>> => loop[y].batch # <<>>
  <2>1. \A y \in Loops : loop'[y].batch # <<>> => loop[y].batch # <<>>
    BY <1>1, RunMoves
  <2>2. QED
    BY <2>1 DEF RunPosts
<1>4. FunctorOk(Functor(op, c), l, conn)
  <2>1. /\ 1 \in 1..Len(Todo(loop[l])) /\ TodoOk(Todo(loop[l]), l, conn)
    <3>1. loop[l] \in LoopType
      BY <1>1 DEF TypeOK
    <3>2. Todo(loop[l]) \in Seq(FunctorType)
      BY <3>1, TodoFacts
    <3>3. Len(Todo(loop[l])) \in Nat
      BY <3>2, LenProperties
    <3>4. QED
      BY <1>2, <3>3 DEF LifeInv, LoopInv
  <2>2. QED
    BY <1>2, <2>1 DEF TodoOk
<1>5. Functor(op, c).op = op /\ Functor(op, c).conn = c
  BY DEF Functor
<1>6. conn[c].state # "none"
  BY <1>4, <1>5 DEF FunctorOk, Fresh, Down
<1>7. ASSUME NEW x \in Conn
      PROVE  GoesOn(conn[x], conn'[x])
  <2>1. x # c => GoesOn(conn[x], conn'[x])
    BY DEF GoesOn
  <2>2. QED
    BY <2>1
<1>8. ASSUME NEW y \in Loops, NEW i \in 1..Len(Todo(loop[y])), i > d[y],
             Todo(loop[y])[i].op = "established"
      PROVE  conn'[Todo(loop[y])[i].conn].state = "kConnecting"
  <2>1. PICK f : f = Todo(loop[y])[i]
    OBVIOUS
  <2>2. /\ conn[f.conn].state = "kConnecting" /\ conn[f.conn].owner = y
        /\ \A j \in 1..Len(Todo(loop[y])) : Todo(loop[y])[j] = f => i = j
    BY <1>8, <2>1, WaitingEstablished DEF LifeInv
  <2>3. f \in FunctorType
    <3>1. Todo(loop[y]) \in Seq(FunctorType)
      BY <1>1, TodoFacts DEF TypeOK
    <3>2. QED
      BY <2>1, <3>1
  <2>4. f.conn # c
    <3>. SUFFICES ASSUME f.conn = c PROVE FALSE
      OBVIOUS
    <3>1. op = "established"
      BY <1>4, <1>5, <2>2 DEF FunctorOk, Fresh, Down
    <3>2. y = l
      BY <1>4, <1>5, <2>2, <3>1 DEF FunctorOk
    <3>3. f = Functor("established", c)
      BY <1>8, <2>1, <2>3 DEF Functor, FunctorType
    <3>4. 1 \in 1..Len(Todo(loop[l])) /\ Todo(loop[l])[1] = f
      BY <1>2, <1>4, <3>1, <3>3
    <3>5. i = 1
      BY <2>2, <3>2, <3>4
    <3>6. d[l] = 1
      BY DEF Taken
    <3>7. QED
      BY <1>8, <3>2, <3>5, <3>6
  <2>5. f.conn \in Conn
    BY <2>3 DEF FunctorType
  <2>6. QED
    BY <2>1, <2>2, <2>4, <2>5
<1>9. \A y \in Loops : TodoOk(Todo(loop'[y]), y, conn')
  <2>1. \A y \in Loops : \A i \in 1..Len(Todo(loop[y])) :
           i > d[y] /\ Todo(loop[y])[i].op = "established" =>
             conn'[Todo(loop[y])[i].conn].state = "kConnecting"
    BY <1>8
  <2>2. LoopInv
    BY DEF LifeInv
  <2>3. QED
    BY <1>1, <1>2, <1>7, <2>1, <2>2, TodosKeep
<1>10. ASSUME NEW y \in Loops
       PROVE  ActiveOk(loop'[y], y, conn')
  <2>1. ActiveOk(loop[y], y, conn)
    BY DEF LifeInv, LoopInv
  <2>2. ASSUME NEW i \in DOMAIN loop[y].active, loop[y].active[i].ch # Acceptor
        PROVE  Stays(conn[loop[y].active[i].ch], conn'[loop[y].active[i].ch])
    <3>1. y # l
      <4>1. y = l => loop[y].active = <<>>
        BY <1>2, <2>1 DEF ActiveOk
      <4>2. QED
        BY <4>1
    <3>2. loop[y].active[i].ch \in Conn
      <4>1. loop[y].active \in Seq(EntryType)
        BY <1>1 DEF TypeOK, LoopType
      <4>2. loop[y].active[i] \in EntryType
        BY <4>1
      <4>3. QED
        BY <2>2, <4>2 DEF EntryType
    <3>3. CASE loop[y].active[i].ch = c
      BY <3>1, <3>3
    <3>4. CASE loop[y].active[i].ch # c
      BY <3>2, <3>4 DEF Stays
    <3>5. QED
      BY <3>3, <3>4
  <2>3. QED
    BY <1>3, <2>1, <2>2, ActiveStays
<1>11. LoopInv'
  BY <1>9, <1>10 DEF LoopInv
<1>12. ServerInv'
  <2>1. ServerInv
    BY DEF LifeInv
  <2>3. \A x \in backlog' : conn'[x].state = "none"
    <3>1. \A x \in backlog : x \in Conn /\ conn[x].state = "none"
      BY <1>1 DEF TypeOK, LifeInv, ServerInv
    <3>2. QED
      BY <1>6, <3>1
  <2>4. \A x \in connections' : conn'[x].state # "none"
    <3>1. \A x \in connections : x \in Conn /\ conn[x].state # "none"
      BY <1>1 DEF TypeOK, LifeInv, ServerInv
    <3>2. QED
      BY <1>7, <3>1 DEF GoesOn
  <2>5. ASSUME NEW x \in Conn, conn'[x].state # "none", x \notin connections'
        PROVE \/ /\ conn[x].state # "none" /\ x \notin connections
                 /\ d[conn[x].owner] = 1 =>
                      Todo(loop[conn[x].owner])[1] # Functor("destroyed", x)
              \/ /\ Down(conn'[x])
                 /\ \/ conn'[x].ch.index = "kNew"
                    \/ \E i \in 1..Len(fs[conn'[x].owner]) :
                         fs[conn'[x].owner][i] = Functor("destroyed", x)
    <3>1. CASE x \in connections
      BY <2>5, <3>1
    <3>2. CASE x \notin connections /\ x = c /\ op = "destroyed"
      BY <3>2
    <3>3. CASE x \notin connections /\ ~(x = c /\ op = "destroyed")
      <4>1. conn[x].state # "none"
        BY <1>6, <2>5
      <4>2. Functor(op, c) # Functor("destroyed", x)
        BY <1>5, <3>3 DEF Functor
      <4>3. conn[x].owner \in Loops
        BY <1>1 DEF ConnType
      <4>4. d[conn[x].owner] = 1 => conn[x].owner = l
        BY <4>3 DEF Taken
      <4>5. QED
        BY <1>2, <3>3, <4>1, <4>2, <4>4
    <3>4. QED
      BY <3>1, <3>2, <3>3
  <2>6. QED
    BY <1>1, <1>2, <1>7, <2>1, <2>3, <2>4, <2>5, ServerKeeps
<1>13. QED
  BY <1>11, <1>12

\* A functor that runs has what it needs of its connection.
LEMMA RunsOk ==
  ASSUME ServerAssumption, LifeInv, NEW l \in Loops, NEW op, Runs(l, op),
         NEW c, c = Target(l)
  PROVE  /\ op = "established" => conn[c].state = "kConnecting" /\ conn[c].owner = l
         /\ op \in {"remove", "destroyed"} => Down(conn[c])
         /\ op = "destroyed" => conn[c].owner = l
         /\ op \notin {"established", "remove", "destroyed"} => ~Fresh(conn[c])
<1>1. /\ TypeOK /\ loop[l] \in LoopType /\ loop[l].batch # <<>>
      /\ Head(loop[l].batch) = Functor(op, Target(l))
  BY TargetFacts DEF LifeInv, ChannelInv
<1>2. /\ Todo(loop[l]) \in Seq(FunctorType)
      /\ loop[l].batch \in Seq(FunctorType) /\ loop[l].queue \in Seq(FunctorType)
  BY <1>1, TodoFacts
<1>3. PICK fs \in Seq(FunctorType) : fs = <<>>
  <2>1. <<>> \in Seq(FunctorType)
    OBVIOUS
  <2>2. QED
    BY <2>1
<1>4. 1 <= Len(Todo(loop[l])) /\ Todo(loop[l])[1] = Head(loop[l].batch)
  BY <1>1, <1>2, <1>3, TailMoves DEF Todo
<1>5. 1 \in 1..Len(Todo(loop[l]))
  BY <1>2, <1>4, LenProperties
<1>6. TodoOk(Todo(loop[l]), l, conn)
  BY DEF LifeInv, LoopInv
<1>7. FunctorOk(Functor(op, c), l, conn)
  BY <1>1, <1>4, <1>5, <1>6 DEF TodoOk
<1>8. Functor(op, c).op = op /\ Functor(op, c).conn = c
  BY DEF Functor
<1>9. QED
  BY <1>7, <1>8 DEF FunctorOk

\* A loop with an event of a connection on its list is that connection's loop.
LEMMA EntryOwner ==
  ASSUME LifeInv, NEW y \in Loops, NEW i \in DOMAIN loop[y].active,
         NEW c, loop[y].active[i].ch = c, c # Acceptor
  PROVE  conn[c].owner = y /\ ~Fresh(conn[c])
BY DEF LifeInv, LoopInv, ActiveOk, EntryOk

\* What the members of LifeInv say, one by one.
LEMMA LifeFacts ==
  ASSUME ServerAssumption, LifeInv
  PROVE  /\ TypeOK /\ ChannelInv /\ LoopInv /\ UserInv /\ ServerInv
         /\ \A c \in Conn : Sound(conn[c]) /\ ConnOk(conn[c]) /\ c # Acceptor
         /\ \A l \in Loops : \A i \in DOMAIN loop[l].active :
              HasCallback(loop[l].active[i])
<1>1. \A c \in Conn : Sound(conn[c])
  BY DEF LifeInv, ChannelInv, TypeOK, Sound
<1>2. \A c \in Conn : c # Acceptor
  BY DEF ServerAssumption
<1>3. QED
  BY <1>1, <1>2 DEF LifeInv, ChannelInv

\* A functor that posts nothing.
LEMMA InPlaceLives ==
  ASSUME ServerAssumption, LifeInv, ChannelInv',
         NEW l \in Loops, NEW op, Runs(l, op), NEW c, c = Target(l),
         NEW k, Sound(k), conn' = [conn EXCEPT ![c] = k],
         loop' = [loop EXCEPT ![l] = PopFunctor(loop[l])],
         UNCHANGED serverVars, GoesOn(conn[c], k),
         conn[c].owner # l => Stays(conn[c], k),
         op = "destroyed" => Down(k) /\ k.ch.index = "kNew"
  PROVE  LoopInv' /\ ServerInv'
<1>1. /\ TypeOK /\ ChannelInv /\ c \in Conn
      /\ loop \in [Loops -> LoopType] /\ loop' \in [Loops -> LoopType]
  <2>1. TypeOK /\ ChannelInv
    BY LifeFacts
  <2>2. QED
    BY <2>1, TargetFacts, LoopFacts DEF ChannelInv, TypeOK
<1>2. /\ conn'[c] = k /\ \A x \in Conn : x # c => conn'[x] = conn[x]
  BY <1>1, ConnChange
<1>3. PICK fs : fs = [y \in Loops |-> <<>>]
  OBVIOUS
<1>4. fs \in [Loops -> Seq(FunctorType)] /\ \A y \in Loops : fs[y] = <<>>
  BY <1>3
<1>5. RunPosts(l, fs)
  <2>1. PICK n : n = PopFunctor(loop[l])
    OBVIOUS
  <2>2. ASSUME NEW y \in Loops
        PROVE  loop'[y].queue = loop'[y].queue \o fs[y]
    <3>1. loop'[y].queue \in Seq(FunctorType)
      BY <1>1 DEF LoopType
    <3>2. QED
      BY <1>4, <3>1
  <2>3. loop'[l] = n /\ \A y \in Loops : y # l => loop'[y] = loop[y]
    BY <1>1, <2>1
  <2>4. Posts(n, l, fs)
    BY <2>2, <2>3 DEF Posts, SameExceptQueue
  <2>5. QED
    BY <1>1, <1>4, <2>1, <2>4, PopsAndPosts
<1>6. \A y \in Loops : PostOk(fs[y], y, conn, conn')
  BY <1>4 DEF PostOk
<1>7. Touches(l, c)
  <2>1. \A y \in Loops : \A i \in DOMAIN loop[y].active :
          y # l /\ loop[y].active[i].ch = c => Stays(conn[c], conn'[c])
    BY <1>1, <1>2, LifeFacts, EntryOwner
  <2>2. QED
    BY <1>2, <2>1 DEF Touches
<1>8. op = "destroyed" => Down(conn'[c]) /\ conn'[c].ch.index = "kNew"
  BY <1>2
<1>9. Forgets(fs)
  BY DEF Forgets, serverVars
<1>10. QED
  BY <1>5, <1>6, <1>7, <1>8, <1>9, RunLives

\* Application threads are given a connection that has come up.
LEMMA UserGains ==
  ASSUME UserInv, upc' = upc, NEW c, ~Fresh(conn'[c]), Established(c),
         TypeOK, \A x \in Conn : GoesOn(conn[x], conn'[x])
  PROVE  UserInv'
<1>1. ASSUME NEW u \in User
      PROVE  /\ upc'[u].op \in {"idle", "send"}
             /\ \A x \in held'[u] \union upc'[u].conn : ~Fresh(conn'[x])
  <2>1. held'[u] = held[u] \union {c} /\ upc'[u] = upc[u]
    BY DEF Established
  <2>2. \A x \in held[u] \union upc[u].conn : x \in Conn /\ ~Fresh(conn[x])
    BY DEF TypeOK, UserInv
  <2>3. \A x \in held[u] \union upc[u].conn : ~Fresh(conn'[x])
    BY <2>2 DEF GoesOn
  <2>4. QED
    BY <2>1, <2>3 DEF UserInv
<1>2. QED
  BY <1>1 DEF UserInv

\* One connection changes: the others are as they were.
LEMMA OneChanges ==
  ASSUME ServerAssumption, LifeInv, NEW c \in Conn, NEW k, Sound(k),
         conn' = [conn EXCEPT ![c] = k], GoesOn(conn[c], k), ConnOk(k)
  PROVE  /\ conn'[c] = k /\ \A x \in Conn : x # c => conn'[x] = conn[x]
         /\ \A x \in Conn : GoesOn(conn[x], conn'[x]) /\ ConnOk(conn'[x])
<1>1. /\ conn'[c] = k /\ \A x \in Conn : x # c => conn'[x] = conn[x]
  BY ConnChange DEF LifeInv
<1>2. ASSUME NEW x \in Conn
      PROVE  GoesOn(conn[x], conn'[x]) /\ ConnOk(conn'[x])
  <2>1. CASE x = c
    BY <1>1, <2>1
  <2>2. CASE x # c
    BY <1>1, <2>2 DEF GoesOn, LifeInv
  <2>3. QED
    BY <2>1, <2>2
<1>3. QED
  BY <1>1, <1>2

\* connectEstablished() of a connection that was waiting for it.
LEMMA RunEstablishedLives ==
  ASSUME ServerAssumption, LifeInv, ChannelInv', NEW l \in Loops, RunEstablished(l)
  PROVE  LifeInv'
<1>. PICK c : c = Target(l)
  OBVIOUS
<1>. PICK k : k = ConnectEstablished(conn[c])
  OBVIOUS
<1>1. /\ Runs(l, "established") /\ conn' = [conn EXCEPT ![c] = k]
      /\ loop' = [loop EXCEPT ![l] = PopFunctor(loop[l])]
      /\ Established(c) /\ UNCHANGED <<serverVars, upc, sends>>
  BY DEF RunEstablished, RunInPlace
<1>2. c \in Conn /\ Sound(conn[c]) /\ ConnOk(conn[c])
  BY <1>1, LifeFacts, TargetFacts
<1>3. conn[c].state = "kConnecting" /\ conn[c].owner = l
  BY <1>1, RunsOk
<1>4. /\ Sound(k) /\ k.owner = conn[c].owner
      /\ ConnOk(k) /\ Up(k)
  BY <1>2, <1>3, EstablishedComesUp DEF Fresh
<1>5. GoesOn(conn[c], k)
  BY <1>3, <1>4 DEF GoesOn, Fresh, Up, Down
<1>6. LoopInv' /\ ServerInv'
  <2>1. PICK op : op = "established"
    OBVIOUS
  <2>2. /\ Runs(l, op) /\ UNCHANGED serverVars
        /\ op = "destroyed" => Down(k) /\ k.ch.index = "kNew"
        /\ conn[c].owner # l => Stays(conn[c], k)
    BY <1>1, <1>3, <2>1
  <2>3. QED
    BY <1>1, <1>4, <1>5, <2>2, InPlaceLives
<1>7. /\ conn'[c] = k
      /\ \A x \in Conn : GoesOn(conn[x], conn'[x]) /\ ConnOk(conn'[x])
  BY <1>1, <1>2, <1>4, <1>5, OneChanges
<1>8. UserInv'
  <2>1. ~Fresh(conn'[c])
    BY <1>4, <1>7 DEF Fresh, Up
  <2>2. UserInv /\ TypeOK /\ upc' = upc
    BY <1>1, LifeFacts
  <2>3. QED
    BY <1>1, <1>7, <2>1, <2>2, UserGains
<1>9. QED
  BY <1>6, <1>7, <1>8 DEF LifeInv

\* connectDestroyed() and the functors that leave the connection's life alone.
LEMMA RunInPlaceLives ==
  ASSUME ServerAssumption, LifeInv, ChannelInv', NEW l \in Loops,
         RunDestroyed(l) \/ RunShutdown(l) \/ RunWriteComplete(l)
  PROVE  LifeInv'
<1>. PICK c : c = Target(l)
  OBVIOUS
<1>1. ASSUME NEW op, Runs(l, op), NEW k, Sound(k), ConnOk(k), RunInPlace(l, k),
             UNCHANGED <<serverVars, userVars>>,
             GoesOn(conn[c], k), conn[c].owner # l => Stays(conn[c], k),
             op = "destroyed" => Down(k) /\ k.ch.index = "kNew"
      PROVE  LifeInv'
  <2>1. /\ conn' = [conn EXCEPT ![c] = k]
        /\ loop' = [loop EXCEPT ![l] = PopFunctor(loop[l])]
        /\ UNCHANGED serverVars /\ UNCHANGED <<held, upc>>
    BY <1>1 DEF RunInPlace, userVars
  <2>2. c \in Conn
    BY <1>1, LifeFacts, TargetFacts
  <2>3. LoopInv' /\ ServerInv'
    BY <1>1, <2>1, InPlaceLives
  <2>4. \A x \in Conn : GoesOn(conn[x], conn'[x]) /\ ConnOk(conn'[x])
    BY <1>1, <2>1, <2>2, OneChanges
  <2>5. UserInv'
    BY <2>1, <2>4, LifeFacts, UserKeeps
  <2>6. QED
    BY <2>3, <2>4, <2>5 DEF LifeInv
<1>2. CASE RunDestroyed(l)
  <2>1. PICK k : k = ConnectDestroyed(conn[c])
    OBVIOUS
  <2>2. Runs(l, "destroyed") /\ RunInPlace(l, k) /\ UNCHANGED <<serverVars, userVars>>
    BY <1>2, <2>1 DEF RunDestroyed
  <2>3. c \in Conn /\ Sound(conn[c]) /\ ConnOk(conn[c])
    BY <2>2, LifeFacts, TargetFacts
  <2>4. Down(conn[c]) /\ conn[c].owner = l
    BY <2>2, RunsOk
  <2>5. /\ Sound(k) /\ k.owner = conn[c].owner
        /\ ConnOk(k) /\ Down(k) /\ k.ch.index = "kNew"
    BY <2>1, <2>3, <2>4, DestroyedIsRemoved
  <2>6. GoesOn(conn[c], k)
    BY <2>4, <2>5 DEF GoesOn, Fresh, Down
  <2>7. QED
    BY <1>1, <2>2, <2>4, <2>5, <2>6
<1>3. ASSUME NEW op, Runs(l, op), op # "destroyed",
             NEW k, Sound(k), SameLife(conn[c], k),
             RunInPlace(l, k), UNCHANGED <<serverVars, userVars>>
      PROVE  LifeInv'
  <2>1. ConnOk(conn[c])
    BY <1>3, LifeFacts, TargetFacts
  <2>2. GoesOn(conn[c], k) /\ Stays(conn[c], k) /\ ConnOk(k)
    BY <1>3, <2>1, SameLifeGoesOn
  <2>3. QED
    BY <1>1, <1>3, <2>2
<1>4. CASE RunShutdown(l)
  <2>1. PICK k : k = ShutdownInLoop(conn[c])
    OBVIOUS
  <2>2. Runs(l, "shutdown") /\ RunInPlace(l, k) /\ UNCHANGED <<serverVars, userVars>>
    BY <1>4, <2>1 DEF RunShutdown
  <2>3. Sound(conn[c])
    BY <2>2, LifeFacts, TargetFacts
  <2>4. Sound(k) /\ SameLife(conn[c], k)
    BY <2>1, <2>3, ShutdownInLoopKeeps
  <2>5. QED
    BY <1>3, <2>2, <2>4
<1>5. CASE RunWriteComplete(l)
  <2>1. PICK k : k = conn[c]
    OBVIOUS
  <2>2. Runs(l, "writeComplete") /\ RunInPlace(l, k) /\ UNCHANGED <<serverVars, userVars>>
    BY <1>5, <2>1 DEF RunWriteComplete
  <2>3. Sound(k) /\ SameLife(conn[c], k)
    BY <2>1, <2>2, LifeFacts, TargetFacts DEF SameLife
  <2>4. QED
    BY <1>3, <2>2, <2>3
<1>6. QED
  BY <1>2, <1>4, <1>5

\* Queueing one functor is adding a sequence of one.
LEMMA AppendOne ==
  ASSUME NEW q \in Seq(FunctorType), NEW f \in FunctorType
  PROVE  Append(q, f) = q \o <<f>> /\ <<f>> \in Seq(FunctorType)
OBVIOUS

\* Queueing nothing.
LEMMA QueueNothing ==
  ASSUME TypeOK, NEW y \in Loops
  PROVE  loop[y].queue = loop[y].queue \o <<>>
<1>1. loop[y].queue \in Seq(FunctorType)
  BY DEF TypeOK, LoopType
<1>2. QED
  BY <1>1

\* What removeConnectionInLoop() queues.
DestroyedPost(c) ==
  [y \in Loops |-> IF y = conn[c].owner THEN <<Functor("destroyed", c)>> ELSE <<>>]

\* removeConnectionInLoop() posts connectDestroyed() to the loop of the connection.
LEMMA RemovePosts ==
  ASSUME TypeOK, NEW l \in Loops, RunRemove(l)
  PROVE  /\ Target(l) \in Conn /\ conn[Target(l)].owner \in Loops
         /\ loop' \in [Loops -> LoopType]
         /\ DestroyedPost(Target(l)) \in [Loops -> Seq(FunctorType)]
         /\ Posts(PopFunctor(loop[l]), l, DestroyedPost(Target(l)))
<1>. PICK c : c = Target(l)
  OBVIOUS
<1>. PICK n : n = PopFunctor(loop[l])
  OBVIOUS
<1>. PICK mine : mine = [loop EXCEPT ![l] = n]
  OBVIOUS
<1>. PICK o : o = conn[c].owner
  OBVIOUS
<1>1. /\ mine \in [Loops -> LoopType] /\ c \in Conn /\ o \in Loops
      /\ loop' \in [Loops -> LoopType]
      /\ \A y \in Loops : SameExceptQueue(loop'[y], mine[y])
      /\ \A y \in Loops :
           loop'[y].queue = IF y = o
             THEN Append(mine[y].queue, Functor("destroyed", c))
             ELSE mine[y].queue
  <2>1. /\ mine \in [Loops -> LoopType] /\ c \in Conn /\ o \in Loops
        /\ loop' \in [Loops -> LoopType]
    <3>1. mine \in [Loops -> LoopType]
      BY RemoveChanges
    <3>2. c \in Conn /\ o \in Loops
      BY RemoveChanges
    <3>3. loop' \in [Loops -> LoopType]
      BY RemoveChanges
    <3>4. QED
      BY <3>1, <3>2, <3>3
  <2>2. \A y \in Loops : SameExceptQueue(loop'[y], mine[y])
    BY RemoveChanges
  <2>3. \A y \in Loops :
           loop'[y].queue = IF y = o
             THEN Append(mine[y].queue, Functor("destroyed", c))
             ELSE mine[y].queue
    BY RemoveChanges
  <2>4. QED
    BY <2>1, <2>2, <2>3
<1>. PICK f : f = Functor("destroyed", c)
  OBVIOUS
<1>2. f \in FunctorType
  BY <1>1 DEF Functor, FunctorType
<1>. PICK fs : fs = DestroyedPost(c)
  OBVIOUS
<1>3. /\ fs \in [Loops -> Seq(FunctorType)]
      /\ fs[o] = <<f>> /\ \A y \in Loops : y # o => fs[y] = <<>>
  BY <1>1, <1>2 DEF DestroyedPost
<1>4. ASSUME NEW y \in Loops
      PROVE  loop'[y].queue = mine[y].queue \o fs[y]
  <2>1. mine[y].queue \in Seq(FunctorType)
    BY <1>1 DEF LoopType
  <2>2. Append(mine[y].queue, f) = mine[y].queue \o <<f>>
    BY <1>2, <2>1, AppendOne
  <2>3. mine[y].queue = mine[y].queue \o <<>>
    BY <2>1
  <2>4. loop'[y].queue = IF y = o THEN Append(mine[y].queue, f) ELSE mine[y].queue
    BY <1>1
  <2>5. QED
    BY <1>3, <2>2, <2>3, <2>4
<1>5. mine[l] = n /\ \A y \in Loops : y # l => mine[y] = loop[y]
  BY DEF TypeOK
<1>6. \A y \in Loops : SameExceptQueue(loop'[y], mine[y])
  BY <1>1
<1>7. Posts(n, l, fs)
  BY <1>4, <1>5, <1>6 DEF Posts
<1>8. QED
  BY <1>1, <1>3, <1>7

\* What the effect of a callback or functor of connection c queues.
EffectPosts(l, c, e) ==
  [y \in Loops |->
     IF y = l
     THEN IF e.closed /\ l = Base THEN e.own \o <<Functor("destroyed", c)>> ELSE e.own
     ELSE IF e.closed /\ y = Base THEN <<Functor("remove", c)>> ELSE <<>>]

\* A callback replaces its connection and posts what EffectPosts says.
LEMMA ApplyPosts ==
  ASSUME TypeOK, NEW l \in Loops, NEW lp \in LoopType, NEW c \in Conn, NEW e,
         EffectOk(e, c), Apply(l, lp, c, e)
  PROVE  /\ conn' = [conn EXCEPT ![c] = e.k]
         /\ loop' \in [Loops -> LoopType]
         /\ connections' = IF e.closed /\ l = Base THEN connections \ {c}
                           ELSE connections
         /\ EffectPosts(l, c, e) \in [Loops -> Seq(FunctorType)]
         /\ Posts(lp, l, EffectPosts(l, c, e))
<1>1. /\ conn' = [conn EXCEPT ![c] = e.k]
      /\ loop' \in [Loops -> LoopType]
      /\ connections' = IF e.closed /\ l = Base THEN connections \ {c}
                        ELSE connections
  <2>1. conn' = [conn EXCEPT ![c] = e.k]
    BY DEF Apply
  <2>2. loop' \in [Loops -> LoopType]
    BY ApplyChanges
  <2>3. connections' = IF e.closed /\ l = Base THEN connections \ {c}
                       ELSE connections
    BY ApplyChanges
  <2>4. QED
    BY <2>1, <2>2, <2>3
<1>2. /\ SameExceptQueue(loop'[l], lp)
      /\ \A y \in Loops : y # l => SameExceptQueue(loop'[y], loop[y])
  BY ApplyChanges
<1>3. /\ loop'[l].queue = IF e.closed /\ l = Base
                          THEN lp.queue \o (e.own \o <<Functor("destroyed", c)>>)
                          ELSE lp.queue \o e.own
      /\ \A y \in Loops : y # l =>
           loop'[y].queue = IF e.closed /\ y = Base
                            THEN Append(loop[y].queue, Functor("remove", c))
                            ELSE loop[y].queue
  <2>1. loop'[l].queue = IF e.closed /\ l = Base
                         THEN lp.queue \o (e.own \o <<Functor("destroyed", c)>>)
                         ELSE lp.queue \o e.own
    BY ApplyChanges
  <2>2. \A y \in Loops : y # l =>
           loop'[y].queue = IF e.closed /\ y = Base
                            THEN Append(loop[y].queue, Functor("remove", c))
                            ELSE loop[y].queue
    <3>1. ASSUME NEW y \in Loops, y # l
          PROVE  loop'[y].queue = IF e.closed /\ y = Base
                                  THEN Append(loop[y].queue, Functor("remove", c))
                                  ELSE loop[y].queue
      BY <3>1, ApplyChanges
    <3>2. QED
      BY <3>1, Zenon
  <2>3. QED
    BY <2>1, <2>2, Zenon
<1>. PICK fs : fs = EffectPosts(l, c, e)
  OBVIOUS
<1>. PICK f : f = Functor("remove", c)
  OBVIOUS
<1>4. /\ e.own \in Seq(FunctorType) /\ f \in FunctorType
      /\ e.own \o <<Functor("destroyed", c)>> \in Seq(FunctorType)
  BY OwnFunctors
<1>5. fs \in [Loops -> Seq(FunctorType)]
  BY <1>4 DEF EffectPosts
<1>6. loop'[l].queue = lp.queue \o fs[l]
  BY <1>3 DEF EffectPosts
<1>7. ASSUME NEW y \in Loops, y # l
      PROVE  loop'[y].queue = loop[y].queue \o fs[y]
  <2>1. loop[y].queue \in Seq(FunctorType)
    BY DEF TypeOK, LoopType
  <2>2. Append(loop[y].queue, f) = loop[y].queue \o <<f>>
    BY <1>4, <2>1, AppendOne
  <2>3. loop[y].queue = loop[y].queue \o <<>>
    BY QueueNothing
  <2>4. fs[y] = IF e.closed /\ y = Base THEN <<f>> ELSE <<>>
    BY <1>7 DEF EffectPosts
  <2>5. loop'[y].queue = IF e.closed /\ y = Base THEN Append(loop[y].queue, f)
                         ELSE loop[y].queue
    BY <1>3, <1>7
  <2>6. QED
    BY <2>2, <2>3, <2>4, <2>5
<1>8. Posts(lp, l, fs)
  BY <1>2, <1>6, <1>7 DEF Posts
<1>9. QED
  BY <1>1, <1>5, <1>8

\* removeConnectionInLoop(): connectDestroyed() of the forgotten connection
\* is queued in its own loop.
LEMMA RunRemoveLives ==
  ASSUME ServerAssumption, LifeInv, ChannelInv', NEW l \in Loops, RunRemove(l)
  PROVE  LifeInv'
<1>. PICK c : c = Target(l)
  OBVIOUS
<1>. PICK o : o = conn[c].owner
  OBVIOUS
<1>. PICK f : f = Functor("destroyed", c)
  OBVIOUS
<1>1. /\ TypeOK /\ Runs(l, "remove") /\ connections' = connections \ {c}
      /\ UNCHANGED <<conn, backlog>> /\ UNCHANGED <<held, upc>>
  BY LifeFacts DEF RunRemove, userVars
<1>2. c \in Conn /\ o \in Loops /\ loop' \in [Loops -> LoopType]
  BY <1>1, RemovePosts
<1>3. PICK fs : fs = DestroyedPost(c)
  OBVIOUS
<1>4. f \in FunctorType /\ f.op = "destroyed" /\ f.conn = c
  BY <1>2 DEF Functor, FunctorType
<1>7. /\ fs \in [Loops -> Seq(FunctorType)]
      /\ fs[o] = <<f>> /\ \A y \in Loops : y # o => fs[y] = <<>>
  BY <1>2, <1>3, <1>4 DEF DestroyedPost
<1>9. RunPosts(l, fs)
  <2>2. Posts(PopFunctor(loop[l]), l, fs)
    BY <1>1, <1>3, RemovePosts
  <2>3. PICK op : op = "remove"
    OBVIOUS
  <2>4. Runs(l, op)
    BY <1>1, <2>3
  <2>5. QED
    BY <1>1, <1>2, <1>7, <2>2, <2>4, PopsAndPosts
<1>10. Down(conn[c])
  BY <1>1, RunsOk
<1>11. conn'[c] = conn[c] /\ \A x \in Conn : conn'[x] = conn[x]
  BY <1>1
<1>12. ASSUME NEW y \in Loops
       PROVE  PostOk(fs[y], y, conn, conn')
  <2>1. CASE y = o
    <3>1. FunctorOk(f, o, conn')
      BY <1>4, <1>10, <1>11 DEF FunctorOk
    <3>2. QED
      BY <1>4, <1>7, <2>1, <3>1 DEF PostOk
  <2>2. CASE y # o
    BY <1>7, <2>2 DEF PostOk
  <2>3. QED
    BY <2>1, <2>2
<1>13. \A x \in Conn : GoesOn(conn[x], conn'[x]) /\ Stays(conn[x], conn'[x])
  BY <1>11 DEF GoesOn, Stays
<1>14. Touches(l, c)
  BY <1>2, <1>11, <1>13 DEF Touches
<1>15. Forgets(fs)
  <2>1. \A x \in connections \ connections' : x = c
    BY <1>1
  <2>2. Down(conn'[c]) /\ conn'[c].owner = o
    BY <1>10, <1>11
  <2>3. \E i \in 1..Len(fs[o]) : fs[o][i] = Functor("destroyed", c)
    BY <1>7
  <2>4. QED
    BY <1>1, <2>1, <2>2, <2>3 DEF Forgets
<1>16. LoopInv' /\ ServerInv'
  <2>1. PICK op : op = "remove"
    OBVIOUS
  <2>2. Runs(l, op) /\ (op = "destroyed" => Down(conn'[c]) /\ conn'[c].ch.index = "kNew")
    BY <1>1, <2>1
  <2>3. QED
    BY <1>9, <1>12, <1>14, <1>15, <2>2, RunLives
<1>17. UserInv'
  BY <1>1, <1>13, LifeFacts, UserKeeps
<1>18. QED
  BY <1>11, <1>16, <1>17 DEF LifeInv

\* sendInLoop(): what it queues are calls of writeCompleteCallback_.
LEMMA RunSendLives ==
  ASSUME ServerAssumption, LifeInv, ChannelInv', NEW l \in Loops, RunSend(l)
  PROVE  LifeInv'
<1>. PICK c : c = Target(l)
  OBVIOUS
<1>. PICK n : n = PopFunctor(loop[l])
  OBVIOUS
<1>1. /\ TypeOK /\ ChannelInv /\ Runs(l, "send") /\ backlog' = backlog
      /\ UNCHANGED <<held, upc>>
  BY LifeFacts DEF RunSend, userVars
<1>2. /\ c \in Conn /\ Sound(conn[c]) /\ ConnOk(conn[c]) /\ ~Fresh(conn[c])
      /\ loop[l] \in LoopType /\ loop[l].batch # <<>>
  BY <1>1, TargetFacts, LifeFacts, RunsOk
<1>3. n \in LoopType
  BY <1>2, PopFunctorPops
<1>4. PICK e : /\ EffectOk(e, c) /\ Apply(l, n, c, e)
               /\ ~e.closed /\ Follows(conn[c], e.k)
  BY <1>1, RunSendDoes
<1>5. Sound(e.k) /\ conn[c] \in ConnType
  BY <1>2, <1>4 DEF EffectOk, Sound
<1>6. GoesOn(conn[c], e.k) /\ Stays(conn[c], e.k) /\ ConnOk(e.k)
  BY <1>2, <1>4, <1>5, FollowsGoesOn
<1>7. /\ conn' = [conn EXCEPT ![c] = e.k] /\ loop' \in [Loops -> LoopType]
      /\ connections' = connections /\ Posts(n, l, EffectPosts(l, c, e))
  BY <1>1, <1>2, <1>3, <1>4, ApplyPosts
<1>8. /\ conn'[c] = e.k /\ \A x \in Conn : x # c => conn'[x] = conn[x]
      /\ \A x \in Conn : GoesOn(conn[x], conn'[x]) /\ ConnOk(conn'[x])
  BY <1>2, <1>5, <1>6, <1>7, OneChanges
<1>9. /\ e.own \in Seq(FunctorType)
      /\ \A i \in 1..Len(e.own) : e.own[i] = Functor("writeComplete", c)
  BY <1>2, <1>4, OwnFunctors
<1>10. PICK fs : fs = EffectPosts(l, c, e)
  OBVIOUS
<1>11. /\ fs \in [Loops -> Seq(FunctorType)]
       /\ fs[l] = e.own /\ \A y \in Loops : y # l => fs[y] = <<>>
  BY <1>4, <1>9, <1>10 DEF EffectPosts
<1>12. RunPosts(l, fs)
  <2>1. PICK op : op = "send"
    OBVIOUS
  <2>2. Runs(l, op) /\ Posts(PopFunctor(loop[l]), l, fs)
    BY <1>1, <1>7, <1>10, <2>1
  <2>3. QED
    BY <1>1, <1>7, <1>11, <2>2, PopsAndPosts
<1>13. ASSUME NEW y \in Loops
       PROVE  PostOk(fs[y], y, conn, conn')
  <2>1. CASE y = l
    <3>1. ~Fresh(conn'[c])
      BY <1>2, <1>6, <1>8 DEF GoesOn
    <3>2. \A i \in 1..Len(e.own) : e.own[i].op = "writeComplete" /\ e.own[i].conn = c
      BY <1>9 DEF Functor
    <3>3. QED
      BY <1>11, <2>1, <3>1, <3>2 DEF PostOk, FunctorOk
  <2>2. CASE y # l
    BY <1>11, <2>2 DEF PostOk
  <2>3. QED
    BY <2>1, <2>2
<1>14. Touches(l, c)
  BY <1>2, <1>6, <1>8 DEF Touches
<1>15. Forgets(fs)
  BY <1>1, <1>7 DEF Forgets
<1>16. LoopInv' /\ ServerInv'
  <2>1. PICK op : op = "send"
    OBVIOUS
  <2>2. Runs(l, op) /\ (op = "destroyed" => Down(conn'[c]) /\ conn'[c].ch.index = "kNew")
    BY <1>1, <2>1
  <2>3. QED
    BY <1>12, <1>13, <1>14, <1>15, <2>2, RunLives
<1>17. UserInv'
  BY <1>1, <1>8, LifeFacts, UserKeeps
<1>18. QED
  BY <1>8, <1>16, <1>17 DEF LifeInv

\* No loop takes a functor.
Still == [y \in Loops |-> 0]

\* The first event of loop l's list is handled: it changes only connection c,
\* which is on no other list and waits for no connectEstablished().
Handles(l, c) ==
  /\ \A z \in Conn : z # c => conn'[z] = conn[z]
  /\ GoesOn(conn[c], conn'[c]) /\ conn[c].state # "kConnecting"
  /\ \A y \in Loops : \A i \in DOMAIN loop[y].active :
       loop[y].active[i].ch = c => y = l /\ i = 1
  /\ LET x == loop[l].active[1]
     IN  x.ch # Acceptor =>
           /\ x.ch = c
           /\ Stays(conn[c], conn'[c]) \/ Closes(x, conn[c], conn'[c])

\* What the loops look like after a callback.
LEMMA CallbackMoves ==
  ASSUME ServerAssumption, ChannelInv, NEW l \in Loops, loop[l].active # <<>>,
         loop' \in [Loops -> LoopType], NEW fs \in [Loops -> Seq(FunctorType)],
         Posts(PopCallback(loop[l]), l, fs)
  PROVE  /\ Moves(Still, fs)
         /\ loop'[l].active = PopCallback(loop[l]).active
         /\ \A y \in Loops : /\ loop'[y].phase = loop[y].phase
                             /\ loop'[y].batch = loop[y].batch
                             /\ y # l => loop'[y].active = loop[y].active
<1>. PICK n : n = PopCallback(loop[l])
  OBVIOUS
<1>1. /\ TypeOK /\ loop[l] \in LoopType
      /\ \A i \in DOMAIN loop[l].active : HasCallback(loop[l].active[i])
  BY LoopFacts DEF ChannelInv
<1>2. n.phase = loop[l].phase /\ n.queue = loop[l].queue /\ n.batch = loop[l].batch
  BY <1>1, PopCallbackPops
<1>3. Posts(n, l, fs)
  OBVIOUS
<1>4. ASSUME NEW y \in Loops
      PROVE  /\ loop'[y].queue = loop[y].queue \o fs[y]
             /\ loop'[y].phase = loop[y].phase /\ loop'[y].batch = loop[y].batch
             /\ y # l => loop'[y].active = loop[y].active
  <2>1. CASE y = l
    BY <1>2, <1>3, <2>1 DEF Posts, SameExceptQueue
  <2>2. CASE y # l
    BY <1>3, <2>2 DEF Posts, SameExceptQueue
  <2>3. QED
    BY <2>1, <2>2
<1>5. loop'[l].active = n.active
  BY <1>3 DEF Posts, SameExceptQueue
<1>. PICK d : d = Still
  OBVIOUS
<1>6. d \in [Loops -> {0, 1}] /\ \A y \in Loops : d[y] = 0
  BY DEF Still
<1>7. /\ \A y \in Loops : loop'[y].queue = loop[y].queue \o fs[y]
      /\ \A y \in Loops : d[y] = 1 => /\ loop[y].batch # <<>>
                                      /\ loop'[y].batch = Tail(loop[y].batch)
      /\ \A y \in Loops : d[y] = 0 => loop'[y].batch = loop[y].batch
  BY <1>4, <1>6
<1>8. Moves(d, fs)
  BY <1>1, <1>6, <1>7, MovesBy
<1>9. QED
  BY <1>4, <1>5, <1>8

\* A callback keeps the loops in order.
LEMMA HandlesLives ==
  ASSUME ServerAssumption, LifeInv, NEW l \in Loops, loop[l].active # <<>>,
         loop' \in [Loops -> LoopType], NEW fs \in [Loops -> Seq(FunctorType)],
         Posts(PopCallback(loop[l]), l, fs), NEW c \in Conn, Handles(l, c),
         \A y \in Loops : PostOk(fs[y], y, conn, conn')
  PROVE  LoopInv'
<1>. PICK n : n = PopCallback(loop[l])
  OBVIOUS
<1>. PICK x : x = loop[l].active[1]
  OBVIOUS
<1>. PICK d : d = Still
  OBVIOUS
<1>1. /\ TypeOK /\ ChannelInv /\ LoopInv /\ loop[l] \in LoopType
      /\ loop \in [Loops -> LoopType]
      /\ \A i \in DOMAIN loop[l].active : HasCallback(loop[l].active[i])
  BY LifeFacts, LoopFacts
<1>2. Moves(d, fs)
  <2>1. Moves(Still, fs)
    BY <1>1, CallbackMoves
  <2>2. QED
    BY <2>1
<1>3. loop'[l].active = n.active
  <2>1. loop'[l].active = PopCallback(loop[l]).active
    BY <1>1, CallbackMoves
  <2>2. QED
    BY <2>1
<1>4. \A y \in Loops : /\ loop'[y].phase = loop[y].phase
                       /\ loop'[y].batch = loop[y].batch
                       /\ y # l => loop'[y].active = loop[y].active
  BY <1>1, CallbackMoves
<1>5. n.phase = loop[l].phase /\ n.batch = loop[l].batch
  BY <1>1, PopCallbackPops
<1>6. /\ \A z \in Conn : z # c => conn'[z] = conn[z]
      /\ GoesOn(conn[c], conn'[c]) /\ conn[c].state # "kConnecting"
      /\ \A y \in Loops : \A i \in DOMAIN loop[y].active :
           loop[y].active[i].ch = c => y = l /\ i = 1
      /\ x.ch # Acceptor =>
           /\ x.ch = c
           /\ Stays(conn[c], conn'[c]) \/ Closes(x, conn[c], conn'[c])
  BY DEF Handles
<1>7. \A z \in Conn : GoesOn(conn[z], conn'[z])
  <2>1. \A z \in Conn : z # c => GoesOn(conn[z], conn'[z])
    BY <1>6 DEF GoesOn
  <2>2. QED
    BY <1>6, <2>1
<1>8. \A y \in Loops : \A i \in 1..Len(Todo(loop[y])) :
        i > d[y] /\ Todo(loop[y])[i].op = "established" =>
          conn'[Todo(loop[y])[i].conn].state = "kConnecting"
  <2>1. ASSUME NEW y \in Loops, NEW i \in 1..Len(Todo(loop[y])),
               Todo(loop[y])[i].op = "established"
        PROVE  conn'[Todo(loop[y])[i].conn].state = "kConnecting"
    <3>1. PICK f : f = Todo(loop[y])[i]
      OBVIOUS
    <3>2. conn[f.conn].state = "kConnecting"
      BY <1>1, <2>1, <3>1, WaitingEstablished
    <3>3. f.conn \in Conn
      <4>1. Todo(loop[y]) \in Seq(FunctorType)
        BY <1>1, TodoFacts
      <4>2. f \in FunctorType
        BY <3>1, <4>1
      <4>3. QED
        BY <4>2 DEF FunctorType
    <3>4. QED
      BY <1>6, <3>1, <3>2, <3>3
  <2>2. QED
    BY <2>1
<1>9. \A y \in Loops : TodoOk(Todo(loop'[y]), y, conn')
  BY <1>1, <1>2, <1>7, <1>8, TodosKeep
<1>10. ASSUME NEW y \in Loops, NEW i \in DOMAIN loop[y].active,
              loop[y].active[i].ch # Acceptor, loop[y].active[i].ch # c
       PROVE  Stays(conn[loop[y].active[i].ch], conn'[loop[y].active[i].ch])
  <2>1. loop[y].active[i].ch \in Conn
    <3>1. loop[y].active \in Seq(EntryType)
      BY <1>1 DEF LoopType
    <3>2. loop[y].active[i] \in EntryType
      BY <3>1
    <3>3. QED
      BY <1>10, <3>2 DEF EntryType
  <2>2. QED
    BY <1>6, <1>10, <2>1 DEF Stays
<1>11. ASSUME NEW y \in Loops
       PROVE  ActiveOk(loop'[y], y, conn')
  <2>1. ActiveOk(loop[y], y, conn)
    BY <1>1 DEF LoopInv
  <2>2. CASE y # l
    <3>1. \A i \in DOMAIN loop[y].active : loop[y].active[i].ch # Acceptor =>
            Stays(conn[loop[y].active[i].ch], conn'[loop[y].active[i].ch])
      BY <1>6, <1>10, <2>2
    <3>2. /\ loop'[y].phase = loop[y].phase /\ loop'[y].active = loop[y].active
          /\ loop'[y].batch # <<>> => loop[y].batch # <<>>
      BY <1>4, <2>2
    <3>3. QED
      BY <2>1, <3>1, <3>2, ActiveStays
  <2>3. CASE y = l
    <3>1. PICK r : r = loop'[l]
      OBVIOUS
    <3>2. r.phase = n.phase /\ r.active = n.active /\ r.batch = n.batch
      BY <1>3, <1>4, <1>5, <3>1
    <3>3. ASSUME NEW i \in DOMAIN loop[l].active, loop[l].active[i].ch # Acceptor,
                 loop[l].active[i].ch # x.ch
          PROVE  Stays(conn[loop[l].active[i].ch], conn'[loop[l].active[i].ch])
      <4>1. loop[l].active[i].ch # c
        <5>. SUFFICES ASSUME loop[l].active[i].ch = c PROVE FALSE
          OBVIOUS
        <5>1. i = 1
          BY <1>6
        <5>2. QED
          BY <3>3, <5>1
      <4>2. QED
        BY <1>10, <3>3, <4>1
    <3>4. x.ch # Acceptor => \/ Stays(conn[x.ch], conn'[x.ch])
                             \/ Closes(x, conn[x.ch], conn'[x.ch])
      BY <1>6
    <3>5. ActiveOk(loop[l], l, conn)
      BY <1>1 DEF LoopInv
    <3>6. ActiveOk(r, l, conn')
      <4>1. PICK lp : lp = loop[l]
        OBVIOUS
      <4>2. PICK ds : ds = conn'
        OBVIOUS
      <4>3. /\ lp \in LoopType /\ lp.active # <<>>
            /\ \A i \in DOMAIN lp.active : HasCallback(lp.active[i])
            /\ ActiveOk(lp, l, conn)
        BY <1>1, <3>5, <4>1
      <4>4. \A i \in DOMAIN lp.active :
              lp.active[i].ch # Acceptor /\ lp.active[i].ch # x.ch =>
                Stays(conn[lp.active[i].ch], ds[lp.active[i].ch])
        BY <3>3, <4>1, <4>2
      <4>5. n = PopCallback(lp) /\ x = lp.active[1]
        BY <4>1
      <4>6. x.ch # Acceptor => \/ Stays(conn[x.ch], ds[x.ch])
                               \/ Closes(x, conn[x.ch], ds[x.ch])
        BY <3>4, <4>2
      <4>7. ActiveOk(r, l, ds)
        BY <3>2, <4>3, <4>4, <4>5, <4>6, PoppedActive
      <4>8. QED
        BY <4>2, <4>7
    <3>7. QED
      BY <2>3, <3>1, <3>6
  <2>4. QED
    BY <2>2, <2>3
<1>12. QED
  BY <1>9, <1>11 DEF LoopInv

\* What a callback queues.
LEMMA EffectPostsOk ==
  ASSUME NEW l \in Loops, NEW c \in Conn, NEW e, EffectOk(e, c),
         e.closed => e.own = <<>> /\ Down(conn'[c]) /\ conn'[c].owner = l,
         ~Fresh(conn'[c]), NEW fs, fs = EffectPosts(l, c, e)
  PROVE  /\ \A y \in Loops : PostOk(fs[y], y, conn, conn')
         /\ e.closed /\ l = Base =>
              \E i \in 1..Len(fs[l]) : fs[l][i] = Functor("destroyed", c)
<1>. PICK f : f = Functor("destroyed", c)
  OBVIOUS
<1>. PICK g : g = Functor("remove", c)
  OBVIOUS
<1>1. f.op = "destroyed" /\ f.conn = c /\ g.op = "remove" /\ g.conn = c
  BY DEF Functor
<1>2. /\ \A i \in 1..Len(e.own) : e.own[i] = Functor("writeComplete", c)
      /\ f \in FunctorType
  BY OwnFunctors
<1>3. <<>> \o <<f>> = <<f>>
  BY <1>2
<1>4. e.closed /\ l = Base => fs[l] = <<f>>
  <2>1. e.closed /\ l = Base => fs[l] = e.own \o <<f>>
    BY DEF EffectPosts
  <2>2. QED
    BY <1>3, <2>1
<1>5. ~(e.closed /\ l = Base) => fs[l] = e.own
  BY DEF EffectPosts
<1>6. ASSUME NEW y \in Loops
      PROVE  PostOk(fs[y], y, conn, conn')
  <2>1. CASE y = l /\ e.closed /\ l = Base
    <3>1. FunctorOk(f, l, conn')
      BY <1>1, <2>1 DEF FunctorOk
    <3>2. QED
      BY <1>1, <1>4, <2>1, <3>1 DEF PostOk
  <2>2. CASE y = l /\ ~(e.closed /\ l = Base)
    <3>1. fs[y] = e.own
      BY <1>5, <2>2
    <3>2. \A i \in 1..Len(fs[y]) :
            fs[y][i].op = "writeComplete" /\ fs[y][i].conn = c
      BY <1>2, <3>1 DEF Functor
    <3>3. QED
      BY <3>2 DEF PostOk, FunctorOk
  <2>3. CASE y # l /\ e.closed /\ y = Base
    <3>1. fs[y] = <<g>>
      BY <2>3 DEF EffectPosts
    <3>2. FunctorOk(g, y, conn')
      BY <1>1, <2>3 DEF FunctorOk
    <3>3. QED
      BY <1>1, <3>1, <3>2 DEF PostOk
  <2>4. CASE y # l /\ ~(e.closed /\ y = Base)
    <3>1. fs[y] = <<>>
      BY <2>4 DEF EffectPosts
    <3>2. QED
      BY <3>1 DEF PostOk
  <2>5. QED
    BY <2>1, <2>2, <2>3, <2>4
<1>7. e.closed /\ l = Base =>
        \E i \in 1..Len(fs[l]) : fs[l][i] = Functor("destroyed", c)
  <2>1. HAVE e.closed /\ l = Base
  <2>2. fs[l] = <<f>>
    BY <1>4, <2>1
  <2>3. 1 \in 1..Len(fs[l]) /\ fs[l][1] = f
    BY <2>2
  <2>4. QED
    BY <2>3
<1>8. QED
  BY <1>6, <1>7

\* One callback of a connection's channel.
LEMMA HandleEventLives ==
  ASSUME ServerAssumption, LifeInv, ChannelInv', NEW l \in Loops, HandleEvent(l)
  PROVE  LifeInv'
<1>. PICK x : x = loop[l].active[1]
  OBVIOUS
<1>. PICK c : c = x.ch
  OBVIOUS
<1>. PICK n : n = PopCallback(loop[l])
  OBVIOUS
<1>1. /\ TypeOK /\ ChannelInv /\ ServerInv /\ backlog' = backlog
      /\ UNCHANGED <<held, upc>> /\ loop[l] \in LoopType
      /\ \A i \in DOMAIN loop[l].active : HasCallback(loop[l].active[i])
  BY LifeFacts, LoopFacts DEF HandleEvent, userVars
<1>2. /\ x \in EntryType /\ c \in Conn /\ c # Acceptor
      /\ x.cbs # <<>> /\ 1 \in DOMAIN loop[l].active
      /\ loop[l].active # <<>>
  BY <1>1, HandleEventDoes
<1>3. PICK e :
        /\ EffectOk(e, c) /\ Apply(l, n, c, e)
        /\ \/ ~e.closed /\ Follows(conn[c], e.k)
           \/ /\ e.closed /\ e.own = <<>> /\ x.cbs[1] \in {"close", "read"}
              /\ e.k.owner = conn[c].owner /\ e.k.ch.index # "kNew"
              /\ ConnOk(conn[c]) /\ Up(conn[c])
                   => ConnOk(e.k) /\ Down(e.k)
  BY <1>1, HandleEventDoes
<1>4. EntryOk(x, l, conn)
  BY <1>2 DEF LifeInv, LoopInv, ActiveOk
<1>5. /\ conn[c].owner = l /\ ~Fresh(conn[c])
      /\ Down(conn[c]) => \A i \in DOMAIN x.cbs : x.cbs[i] \notin {"close", "read"}
  BY <1>2, <1>4 DEF EntryOk
<1>6. ConnOk(conn[c]) /\ conn[c] \in ConnType /\ Sound(e.k)
  BY <1>2, <1>3, LifeFacts DEF EffectOk, Sound
<1>7. ~e.closed =>
        GoesOn(conn[c], e.k) /\ Stays(conn[c], e.k) /\ ConnOk(e.k) /\ ~Fresh(e.k)
  <2>1. ASSUME ~e.closed
        PROVE  GoesOn(conn[c], e.k) /\ Stays(conn[c], e.k) /\ ConnOk(e.k)
    <3>1. Follows(conn[c], e.k)
      BY <1>3, <2>1
    <3>2. QED
      BY <1>5, <1>6, <3>1, FollowsGoesOn
  <2>2. QED
    BY <1>5, <2>1 DEF GoesOn
<1>8. e.closed =>
        /\ GoesOn(conn[c], e.k) /\ Closes(x, conn[c], e.k) /\ ConnOk(e.k)
        /\ ~Fresh(e.k) /\ Down(e.k) /\ e.own = <<>> /\ e.k.owner = l
  <2>1. HAVE e.closed
  <2>2. /\ e.own = <<>> /\ x.cbs[1] \in {"close", "read"}
        /\ e.k.owner = conn[c].owner /\ e.k.ch.index # "kNew"
        /\ ConnOk(conn[c]) /\ Up(conn[c]) => ConnOk(e.k) /\ Down(e.k)
    BY <1>3, <2>1
  <2>3. 1 \in DOMAIN x.cbs
    BY <1>2 DEF EntryType
  <2>4. ~Down(conn[c])
    BY <1>5, <2>2, <2>3
  <2>5. Up(conn[c])
    BY <1>5, <1>6, <2>4 DEF ConnType, Fresh, Up, Down
  <2>6. ConnOk(e.k) /\ Down(e.k)
    BY <1>6, <2>2, <2>5
  <2>7. GoesOn(conn[c], e.k)
    BY <2>2, <2>4, <2>6 DEF GoesOn, Fresh, Down
  <2>8. Closes(x, conn[c], e.k)
    BY <2>2, <2>6 DEF Closes
  <2>9. ~Fresh(e.k)
    BY <2>6 DEF Fresh, Down
  <2>10. QED
    BY <1>5, <2>2, <2>6, <2>7, <2>8, <2>9
<1>9. GoesOn(conn[c], e.k) /\ ConnOk(e.k) /\ ~Fresh(e.k)
  BY <1>7, <1>8
<1>10. n \in LoopType
  BY <1>1, <1>2, PopCallbackPops
<1>11. PICK fs : fs = EffectPosts(l, c, e)
  OBVIOUS
<1>12. /\ conn' = [conn EXCEPT ![c] = e.k] /\ loop' \in [Loops -> LoopType]
       /\ connections' = IF e.closed /\ l = Base THEN connections \ {c}
                         ELSE connections
  BY <1>1, <1>2, <1>3, <1>10, ApplyPosts, SMTT(30)
<1>13. fs \in [Loops -> Seq(FunctorType)] /\ Posts(PopCallback(loop[l]), l, fs)
  <2>1. /\ EffectPosts(l, c, e) \in [Loops -> Seq(FunctorType)]
        /\ Posts(n, l, EffectPosts(l, c, e))
    BY <1>1, <1>2, <1>3, <1>10, ApplyPosts
  <2>2. QED
    BY <1>11, <2>1
<1>14. /\ conn'[c] = e.k /\ \A z \in Conn : z # c => conn'[z] = conn[z]
       /\ \A z \in Conn : GoesOn(conn[z], conn'[z]) /\ ConnOk(conn'[z])
  BY <1>2, <1>6, <1>9, <1>12, OneChanges
<1>15. /\ \A y \in Loops : PostOk(fs[y], y, conn, conn')
       /\ e.closed /\ l = Base =>
            \E i \in 1..Len(fs[l]) : fs[l][i] = Functor("destroyed", c)
  <2>1. e.closed => e.own = <<>> /\ Down(conn'[c]) /\ conn'[c].owner = l
    BY <1>8, <1>14
  <2>2. ~Fresh(conn'[c])
    BY <1>9, <1>14
  <2>3. l \in Loops /\ c \in Conn /\ EffectOk(e, c)
    BY <1>2, <1>3
  <2>4. QED
    BY <1>11, <2>1, <2>2, <2>3, EffectPostsOk, SMTT(60)
<1>16. Handles(l, c)
  <2>1. conn[c].state # "kConnecting"
    BY <1>5 DEF Fresh
  <2>2. ASSUME NEW y \in Loops, NEW i \in DOMAIN loop[y].active,
               loop[y].active[i].ch = c
        PROVE  y = l /\ i = 1
    <3>1. conn[c].owner = y
      BY <1>2, <2>2, EntryOwner
    <3>2. y = l
      BY <1>5, <3>1
    <3>3. ActiveOk(loop[l], l, conn)
      BY DEF LifeInv, LoopInv
    <3>4. \A i1, j1 \in DOMAIN loop[l].active :
            loop[l].active[i1].ch = loop[l].active[j1].ch => i1 = j1
      BY <3>3 DEF ActiveOk
    <3>5. QED
      BY <1>2, <2>2, <3>2, <3>4
  <2>3. Stays(conn[c], conn'[c]) \/ Closes(x, conn[c], conn'[c])
    BY <1>7, <1>8, <1>14
  <2>4. GoesOn(conn[c], conn'[c])
    BY <1>9, <1>14
  <2>5. QED
    BY <1>14, <2>1, <2>2, <2>3, <2>4 DEF Handles
<1>17. LoopInv'
  BY <1>2, <1>12, <1>13, <1>15, <1>16, HandlesLives
<1>18. ServerInv'
  <2>1. PICK d : d = Still
    OBVIOUS
  <2>2. Moves(d, fs)
    <3>1. Moves(Still, fs)
      BY <1>1, <1>2, <1>12, <1>13, CallbackMoves
    <3>2. QED
      BY <2>1, <3>1
  <2>3. conn' \in [Conn -> ConnType]
    BY DEF ChannelInv, TypeOK
  <2>4. \A z \in backlog' : conn'[z].state = "none"
    <3>1. \A z \in backlog : z \in Conn /\ conn[z].state = "none"
      BY <1>1 DEF TypeOK, ServerInv
    <3>2. conn[c].state # "none"
      BY <1>5 DEF Fresh
    <3>3. QED
      BY <1>1, <1>14, <3>1, <3>2
  <2>5. \A z \in connections' : conn'[z].state # "none"
    <3>1. \A z \in connections : z \in Conn /\ conn[z].state # "none"
      BY <1>1 DEF TypeOK, ServerInv
    <3>2. connections' \subseteq connections
      BY <1>12
    <3>3. QED
      BY <1>14, <3>1, <3>2 DEF GoesOn
  <2>6. ASSUME NEW z \in Conn, conn'[z].state # "none", z \notin connections'
        PROVE \/ /\ conn[z].state # "none" /\ z \notin connections
                 /\ d[conn[z].owner] = 1 =>
                      Todo(loop[conn[z].owner])[1] # Functor("destroyed", z)
              \/ /\ Down(conn'[z])
                 /\ \/ conn'[z].ch.index = "kNew"
                    \/ \E i \in 1..Len(fs[conn'[z].owner]) :
                         fs[conn'[z].owner][i] = Functor("destroyed", z)
    <3>1. CASE z \in connections
      <4>1. z = c /\ e.closed /\ l = Base
        BY <1>12, <2>6, <3>1
      <4>2. Down(conn'[z]) /\ conn'[z].owner = l
        BY <1>8, <1>14, <4>1
      <4>3. \E i \in 1..Len(fs[l]) : fs[l][i] = Functor("destroyed", z)
        BY <1>15, <4>1
      <4>4. QED
        BY <4>2, <4>3
    <3>2. CASE z \notin connections
      <4>1. conn[z].state # "none"
        <5>1. conn[c].state # "none"
          BY <1>5 DEF Fresh
        <5>2. QED
          BY <1>14, <2>6, <5>1
      <4>2. conn[z].owner \in Loops
        BY <1>1 DEF TypeOK, ConnType
      <4>3. d[conn[z].owner] # 1
        BY <2>1, <4>2 DEF Still
      <4>4. QED
        BY <3>2, <4>1, <4>3
    <3>3. QED
      BY <3>1, <3>2
  <2>7. QED
    BY <1>1, <1>14, <2>2, <2>3, <2>4, <2>5, <2>6, ServerKeeps
<1>19. UserInv'
  BY <1>1, <1>14, LifeFacts, UserKeeps
<1>20. QED
  BY <1>14, <1>17, <1>18, <1>19 DEF LifeInv

\* What Acceptor::handleRead() queues of connection c.
EstablishedPost(c) ==
  [y \in Loops |-> IF NextLoop # Base /\ y = NextLoop
                   THEN <<Functor("established", c)>> ELSE <<>>]

\* newConnection() makes a fresh connection; connectEstablished() runs at once
\* in the base loop and is posted to any other.
LEMMA NewConnectionPosts ==
  ASSUME ServerAssumption, ChannelInv, NEW c \in Conn, NewConnection(c),
         NEW k, k = Constructed(conn[c], NextLoop)
  PROVE  /\ Sound(k) /\ k.state = "kConnecting" /\ k.owner = NextLoop
         /\ k.ch = conn[c].ch /\ k.out = conn[c].out
         /\ k.ups = conn[c].ups /\ k.downs = conn[c].downs
         /\ loop' \in [Loops -> LoopType]
         /\ EstablishedPost(c) \in [Loops -> Seq(FunctorType)]
         /\ Posts(PopCallback(loop[Base]), Base, EstablishedPost(c))
         /\ NextLoop = Base =>
              conn' = [conn EXCEPT ![c] = ConnectEstablished(k)] /\ Established(c)
         /\ NextLoop # Base =>
              conn' = [conn EXCEPT ![c] = k] /\ held' = held
<1>. PICK n : n = PopCallback(loop[Base])
  OBVIOUS
<1>. PICK mine : mine = [loop EXCEPT ![Base] = n]
  OBVIOUS
<1>1. /\ Sound(k) /\ k.state = "kConnecting" /\ k.owner = NextLoop
      /\ k.ch = conn[c].ch /\ k.out = conn[c].out
      /\ k.ups = conn[c].ups /\ k.downs = conn[c].downs
  BY NewConnectionChanges
<1>2. mine \in [Loops -> LoopType] /\ loop' \in [Loops -> LoopType]
  BY NewConnectionChanges
<1>3. /\ NextLoop = Base =>
           conn' = [conn EXCEPT ![c] = ConnectEstablished(k)] /\ Established(c)
      /\ NextLoop = Base => loop' = mine
  BY NewConnectionChanges
<1>4. NextLoop # Base => conn' = [conn EXCEPT ![c] = k] /\ held' = held
  BY NewConnectionChanges
<1>5. NextLoop # Base =>
        \A y \in Loops : SameExceptQueue(loop'[y], mine[y])
  BY NewConnectionChanges
<1>6. NextLoop # Base =>
        \A y \in Loops :
          loop'[y].queue = IF y = NextLoop
            THEN Append(mine[y].queue, Functor("established", c))
            ELSE mine[y].queue
  BY NewConnectionChanges
<1>. PICK f : f = Functor("established", c)
  OBVIOUS
<1>. PICK fs : fs = EstablishedPost(c)
  OBVIOUS
<1>7. f \in FunctorType /\ <<f>> \in Seq(FunctorType)
  BY DEF Functor, FunctorType
<1>8. /\ fs \in [Loops -> Seq(FunctorType)]
      /\ NextLoop # Base => fs[NextLoop] = <<f>>
      /\ \A y \in Loops : y # NextLoop \/ NextLoop = Base => fs[y] = <<>>
  BY <1>7, LoopFacts DEF EstablishedPost, ChannelInv
<1>9. TypeOK /\ Base \in Loops /\ NextLoop \in Loops
  BY LoopFacts DEF ChannelInv
<1>10. mine[Base] = n /\ \A y \in Loops : y # Base => mine[y] = loop[y]
  BY <1>9, LoopFacts
<1>11. ASSUME NEW y \in Loops
       PROVE  /\ SameExceptQueue(loop'[y], mine[y])
              /\ loop'[y].queue = mine[y].queue \o fs[y]
  <2>1. mine[y].queue \in Seq(FunctorType)
    BY <1>2 DEF LoopType
  <2>2. mine[y].queue = mine[y].queue \o <<>>
    BY <2>1
  <2>3. Append(mine[y].queue, f) = mine[y].queue \o <<f>>
    BY <1>7, <2>1, AppendOne
  <2>4. CASE NextLoop = Base
    BY <1>3, <1>8, <2>2, <2>4 DEF SameExceptQueue
  <2>5. CASE NextLoop # Base /\ y = NextLoop
    <3>1. loop'[y].queue = Append(mine[y].queue, f)
      BY <1>6, <2>5
    <3>2. QED
      BY <1>5, <1>8, <2>3, <2>5, <3>1
  <2>6. CASE NextLoop # Base /\ y # NextLoop
    <3>1. loop'[y].queue = mine[y].queue
      BY <1>6, <2>6
    <3>2. QED
      BY <1>5, <1>8, <2>2, <2>6, <3>1
  <2>7. QED
    BY <2>4, <2>5, <2>6
<1>12. Posts(n, Base, fs)
  BY <1>10, <1>11 DEF Posts
<1>13. QED
  BY <1>1, <1>2, <1>3, <1>4, <1>8, <1>12

\* Acceptor::handleRead() with TcpServer::newConnection().
LEMMA NewConnectionLives ==
  ASSUME ServerAssumption, LifeInv, ChannelInv', NEW c \in Conn, NewConnection(c)
  PROVE  LifeInv'
<1>. PICK k : k = Constructed(conn[c], NextLoop)
  OBVIOUS
<1>. PICK fs : fs = EstablishedPost(c)
  OBVIOUS
<1>. PICK f : f = Functor("established", c)
  OBVIOUS
<1>1. /\ TypeOK /\ ChannelInv /\ ServerInv /\ UserInv
      /\ Base \in Loops /\ NextLoop \in Loops
  BY LifeFacts, LoopFacts
<1>2. /\ c \in backlog /\ backlog' = backlog \ {c}
      /\ connections' = connections \union {c} /\ upc' = upc
      /\ Accepting
  BY DEF NewConnection, Remember
<1>3. conn[c].state = "none"
  BY <1>1, <1>2 DEF ServerInv
<1>4. /\ Sound(k) /\ k.state = "kConnecting" /\ k.owner = NextLoop
      /\ k.ch = conn[c].ch /\ k.out = conn[c].out
      /\ k.ups = conn[c].ups /\ k.downs = conn[c].downs
      /\ loop' \in [Loops -> LoopType]
  BY <1>1, NewConnectionPosts
<1>5. fs \in [Loops -> Seq(FunctorType)] /\ Posts(PopCallback(loop[Base]), Base, fs)
  <2>1. EstablishedPost(c) \in [Loops -> Seq(FunctorType)]
    BY <1>1, NewConnectionPosts
  <2>2. Posts(PopCallback(loop[Base]), Base, EstablishedPost(c))
    BY <1>1, NewConnectionPosts
  <2>3. QED
    BY <2>1, <2>2
<1>6. NextLoop = Base =>
        conn' = [conn EXCEPT ![c] = ConnectEstablished(k)] /\ Established(c)
  BY <1>1, NewConnectionPosts
<1>7. NextLoop # Base => conn' = [conn EXCEPT ![c] = k] /\ held' = held
  BY <1>1, NewConnectionPosts
<1>8. ConnOk(conn[c])
  BY LifeFacts
<1>9. ConnOk(k) /\ Fresh(k)
  BY <1>3, <1>4, <1>8 DEF ConnOk, Fresh, Up, Down, IsWriting
<1>10. PICK r : /\ Sound(r) /\ ConnOk(r) /\ r.owner = NextLoop
                /\ r.state # "none" /\ conn' = [conn EXCEPT ![c] = r]
                /\ NextLoop = Base => ~Fresh(r) /\ Established(c)
                /\ NextLoop # Base => r.state = "kConnecting" /\ held' = held
  <2>1. CASE NextLoop = Base
    <3>1. PICK r : r = ConnectEstablished(k)
      OBVIOUS
    <3>2. Sound(r) /\ r.owner = NextLoop /\ ConnOk(r) /\ Up(r)
      BY <1>4, <1>9, <3>1, EstablishedComesUp
    <3>3. r.state # "none" /\ ~Fresh(r)
      BY <3>2 DEF Up, Fresh
    <3>4. QED
      BY <1>6, <2>1, <3>1, <3>2, <3>3
  <2>2. CASE NextLoop # Base
    BY <1>4, <1>7, <1>9, <2>2
  <2>3. QED
    BY <2>1, <2>2
<1>11. GoesOn(conn[c], r)
  BY <1>3 DEF GoesOn, Fresh, Down
<1>12. /\ conn'[c] = r /\ \A z \in Conn : z # c => conn'[z] = conn[z]
       /\ \A z \in Conn : GoesOn(conn[z], conn'[z]) /\ ConnOk(conn'[z])
  BY <1>10, <1>11, OneChanges
<1>13. \A y \in Loops : PostOk(fs[y], y, conn, conn')
  <2>1. ASSUME NEW y \in Loops
        PROVE  PostOk(fs[y], y, conn, conn')
    <3>1. CASE NextLoop # Base /\ y = NextLoop
      <4>1. fs[y] = <<f>> /\ f.op = "established" /\ f.conn = c
        BY <3>1 DEF EstablishedPost, Functor
      <4>2. conn'[c].state = "kConnecting" /\ conn'[c].owner = y
        BY <1>10, <1>12, <3>1
      <4>3. FunctorOk(f, y, conn')
        BY <4>1, <4>2 DEF FunctorOk
      <4>4. QED
        BY <1>3, <4>1, <4>3 DEF PostOk
    <3>2. CASE ~(NextLoop # Base /\ y = NextLoop)
      <4>1. fs[y] = <<>>
        BY <3>2 DEF EstablishedPost
      <4>2. QED
        BY <4>1 DEF PostOk
    <3>3. QED
      BY <3>1, <3>2
  <2>2. QED
    BY <2>1
<1>14. loop[Base].active # <<>> /\ loop[Base].active[1].ch = Acceptor
  <2>1. loop[Base].active \in Seq(EntryType)
    BY <1>1, LoopFacts DEF LoopType
  <2>2. QED
    BY <1>2, <2>1 DEF Accepting
<1>15. Handles(Base, c)
  <2>1. ASSUME NEW y \in Loops, NEW i \in DOMAIN loop[y].active
        PROVE  loop[y].active[i].ch # c
    <3>. SUFFICES ASSUME loop[y].active[i].ch = c PROVE FALSE
      OBVIOUS
    <3>1. c # Acceptor
      BY LifeFacts
    <3>2. ~Fresh(conn[c])
      BY <3>1, EntryOwner
    <3>3. QED
      BY <1>3, <3>2 DEF Fresh
  <2>2. QED
    BY <1>3, <1>12, <1>14, <2>1 DEF Handles
<1>16. LoopInv'
  BY <1>1, <1>4, <1>5, <1>13, <1>14, <1>15, HandlesLives
<1>17. ServerInv'
  <2>1. PICK d : d = Still
    OBVIOUS
  <2>2. Moves(d, fs)
    <3>1. Moves(Still, fs)
      BY <1>1, <1>4, <1>5, <1>14, CallbackMoves
    <3>2. QED
      BY <2>1, <3>1
  <2>3. conn' \in [Conn -> ConnType]
    BY DEF ChannelInv, TypeOK
  <2>4. \A z \in backlog' : conn'[z].state = "none"
    <3>1. \A z \in backlog : z \in Conn /\ conn[z].state = "none"
      BY <1>1 DEF TypeOK, ServerInv
    <3>2. QED
      BY <1>2, <1>12, <3>1
  <2>5. \A z \in connections' : conn'[z].state # "none"
    <3>1. \A z \in connections : z \in Conn /\ conn[z].state # "none"
      BY <1>1 DEF TypeOK, ServerInv
    <3>2. QED
      BY <1>2, <1>10, <1>12, <3>1 DEF GoesOn
  <2>6. ASSUME NEW z \in Conn, conn'[z].state # "none", z \notin connections'
        PROVE \/ /\ conn[z].state # "none" /\ z \notin connections
                 /\ d[conn[z].owner] = 1 =>
                      Todo(loop[conn[z].owner])[1] # Functor("destroyed", z)
              \/ /\ Down(conn'[z])
                 /\ \/ conn'[z].ch.index = "kNew"
                    \/ \E i \in 1..Len(fs[conn'[z].owner]) :
                         fs[conn'[z].owner][i] = Functor("destroyed", z)
    <3>1. z # c /\ z \notin connections
      BY <1>2, <2>6
    <3>2. conn[z].state # "none"
      BY <1>12, <2>6, <3>1
    <3>3. conn[z].owner \in Loops
      BY <1>1 DEF TypeOK, ConnType
    <3>4. d[conn[z].owner] # 1
      BY <2>1, <3>3 DEF Still
    <3>5. QED
      BY <3>1, <3>2, <3>4
  <2>7. QED
    BY <1>1, <1>12, <2>2, <2>3, <2>4, <2>5, <2>6, ServerKeeps
<1>18. UserInv'
  <2>1. CASE NextLoop = Base
    <3>1. ~Fresh(conn'[c]) /\ Established(c)
      BY <1>10, <1>12, <2>1
    <3>2. QED
      BY <1>1, <1>2, <1>12, <3>1, UserGains
  <2>2. CASE NextLoop # Base
    BY <1>1, <1>2, <1>10, <1>12, <2>2, UserKeeps
  <2>3. QED
    BY <2>1, <2>2
<1>19. QED
  BY <1>12, <1>16, <1>17, <1>18 DEF LifeInv

\* Steps that are no loop's: fs[y] is queued in each loop y, and no connection
\* changes its state.
Outside(fs) ==
  /\ loop' \in [Loops -> LoopType] /\ fs \in [Loops -> Seq(FunctorType)]
  /\ \A y \in Loops : /\ SameExceptQueue(loop'[y], loop[y])
                      /\ loop'[y].queue = loop[y].queue \o fs[y]
  /\ \A z \in Conn : SameLife(conn[z], conn'[z])

\* They keep the loops and TcpServer's memory in order.
LEMMA OutsideLives ==
  ASSUME ServerAssumption, LifeInv, ChannelInv', NEW fs, Outside(fs),
         \A y \in Loops : PostOk(fs[y], y, conn, conn'),
         connections' = connections,
         \A z \in backlog' : z \in Conn /\ conn[z].state = "none"
  PROVE  /\ LoopInv' /\ ServerInv'
         /\ \A z \in Conn : GoesOn(conn[z], conn'[z]) /\ ConnOk(conn'[z])
<1>. PICK d : d = Still
  OBVIOUS
<1>1. /\ TypeOK /\ LoopInv /\ ServerInv /\ conn' \in [Conn -> ConnType]
      /\ loop \in [Loops -> LoopType]
  BY LifeFacts, LoopFacts DEF ChannelInv, TypeOK
<1>2. \A z \in Conn : GoesOn(conn[z], conn'[z]) /\ Stays(conn[z], conn'[z])
                      /\ ConnOk(conn'[z]) /\ conn'[z].state = conn[z].state
  <2>1. ASSUME NEW z \in Conn
        PROVE  /\ GoesOn(conn[z], conn'[z]) /\ Stays(conn[z], conn'[z])
               /\ ConnOk(conn'[z]) /\ conn'[z].state = conn[z].state
    <3>1. SameLife(conn[z], conn'[z])
      BY DEF Outside
    <3>2. ConnOk(conn[z])
      BY DEF LifeInv
    <3>3. conn'[z].state = conn[z].state
      BY <3>1 DEF SameLife
    <3>4. QED
      BY <3>1, <3>2, <3>3, SameLifeGoesOn
  <2>2. QED
    BY <2>1
<1>3. Moves(d, fs)
  <2>1. d \in [Loops -> {0, 1}] /\ \A y \in Loops : d[y] = 0
    BY DEF Still
  <2>2. /\ \A y \in Loops : loop'[y].queue = loop[y].queue \o fs[y]
        /\ \A y \in Loops : d[y] = 1 => /\ loop[y].batch # <<>>
                                        /\ loop'[y].batch = Tail(loop[y].batch)
        /\ \A y \in Loops : d[y] = 0 => loop'[y].batch = loop[y].batch
    BY <2>1 DEF Outside, SameExceptQueue
  <2>3. loop' \in [Loops -> LoopType] /\ fs \in [Loops -> Seq(FunctorType)]
    BY DEF Outside
  <2>4. QED
    BY <1>1, <2>1, <2>2, <2>3, MovesBy
<1>4. \A y \in Loops : \A i \in 1..Len(Todo(loop[y])) :
        i > d[y] /\ Todo(loop[y])[i].op = "established" =>
          conn'[Todo(loop[y])[i].conn].state = "kConnecting"
  <2>1. ASSUME NEW y \in Loops, NEW i \in 1..Len(Todo(loop[y])),
               Todo(loop[y])[i].op = "established"
        PROVE  conn'[Todo(loop[y])[i].conn].state = "kConnecting"
    <3>1. PICK f : f = Todo(loop[y])[i]
      OBVIOUS
    <3>2. conn[f.conn].state = "kConnecting"
      BY <1>1, <2>1, <3>1, WaitingEstablished
    <3>3. f.conn \in Conn
      <4>1. Todo(loop[y]) \in Seq(FunctorType)
        BY <1>1, TodoFacts
      <4>2. f \in FunctorType
        BY <3>1, <4>1
      <4>3. QED
        BY <4>2 DEF FunctorType
    <3>4. QED
      BY <1>2, <3>1, <3>2, <3>3
  <2>2. QED
    BY <2>1
<1>5. \A z \in Conn : GoesOn(conn[z], conn'[z])
  BY <1>2
<1>6. \A y \in Loops : TodoOk(Todo(loop'[y]), y, conn')
  BY <1>1, <1>3, <1>4, <1>5, TodosKeep
<1>7. ASSUME NEW y \in Loops
      PROVE  ActiveOk(loop'[y], y, conn')
  <2>1. ActiveOk(loop[y], y, conn)
    BY <1>1 DEF LoopInv
  <2>2. ASSUME NEW i \in DOMAIN loop[y].active, loop[y].active[i].ch # Acceptor
        PROVE  Stays(conn[loop[y].active[i].ch], conn'[loop[y].active[i].ch])
    <3>1. loop[y].active \in Seq(EntryType)
      BY <1>1 DEF LoopType
    <3>2. loop[y].active[i] \in EntryType
      BY <3>1
    <3>3. loop[y].active[i].ch \in Conn
      BY <2>2, <3>2 DEF EntryType
    <3>4. QED
      BY <1>2, <3>3
  <2>3. /\ loop'[y].phase = loop[y].phase /\ loop'[y].active = loop[y].active
        /\ loop'[y].batch # <<>> => loop[y].batch # <<>>
    BY DEF Outside, SameExceptQueue
  <2>4. QED
    BY <2>1, <2>2, <2>3, ActiveStays
<1>8. LoopInv'
  BY <1>6, <1>7 DEF LoopInv
<1>9. ServerInv'
  <2>1. \A z \in backlog' : conn'[z].state = "none"
    BY <1>2
  <2>2. \A z \in connections' : conn'[z].state # "none"
    <3>1. \A z \in connections : z \in Conn /\ conn[z].state # "none"
      BY <1>1 DEF TypeOK, ServerInv
    <3>2. QED
      BY <1>2, <3>1
  <2>3. ASSUME NEW z \in Conn, conn'[z].state # "none", z \notin connections'
        PROVE \/ /\ conn[z].state # "none" /\ z \notin connections
                 /\ d[conn[z].owner] = 1 =>
                      Todo(loop[conn[z].owner])[1] # Functor("destroyed", z)
              \/ /\ Down(conn'[z])
                 /\ \/ conn'[z].ch.index = "kNew"
                    \/ \E i \in 1..Len(fs[conn'[z].owner]) :
                         fs[conn'[z].owner][i] = Functor("destroyed", z)
    <3>1. z \notin connections /\ conn[z].state # "none"
      BY <1>2, <2>3
    <3>2. conn[z].owner \in Loops
      BY <1>1 DEF TypeOK, ConnType
    <3>3. d[conn[z].owner] # 1
      BY <3>2 DEF Still
    <3>4. QED
      BY <3>1, <3>3
  <2>4. QED
    BY <1>1, <1>3, <1>5, <2>1, <2>2, <2>3, ServerKeeps
<1>10. QED
  BY <1>2, <1>8, <1>9

\* Nothing is queued.
LEMMA LoopsUnchanged ==
  ASSUME ServerAssumption, LifeInv, ChannelInv', loop' = loop,
         \A z \in Conn : SameLife(conn[z], conn'[z]),
         connections' = connections,
         \A z \in backlog' : z \in Conn /\ conn[z].state = "none"
  PROVE  /\ LoopInv' /\ ServerInv'
         /\ \A z \in Conn : GoesOn(conn[z], conn'[z]) /\ ConnOk(conn'[z])
<1>. PICK fs : fs = [y \in Loops |-> <<>>]
  OBVIOUS
<1>1. TypeOK /\ loop \in [Loops -> LoopType]
  BY LifeFacts, LoopFacts
<1>2. fs \in [Loops -> Seq(FunctorType)] /\ \A y \in Loops : fs[y] = <<>>
  OBVIOUS
<1>3. \A y \in Loops : loop[y].queue = loop[y].queue \o <<>>
  BY <1>1, QueueNothing
<1>4. Outside(fs)
  BY <1>1, <1>2, <1>3 DEF Outside, SameExceptQueue
<1>5. \A y \in Loops : PostOk(fs[y], y, conn, conn')
  BY <1>2 DEF PostOk
<1>6. QED
  BY <1>4, <1>5, OutsideLives

\* start(), a client's connect() and what peers do.
LEMMA OutsideStepLives ==
  ASSUME ServerAssumption, LifeInv, ChannelInv',
         \/ Start
         \/ \E c \in Conn : ClientConnect(c) \/ PeerStep(c)
         \/ UNCHANGED vars
  PROVE  LifeInv'
<1>1. TypeOK /\ UserInv /\ ServerInv /\ ChannelInv
  BY LifeFacts
<1>2. ASSUME loop' = loop, \A z \in Conn : SameLife(conn[z], conn'[z]),
             connections' = connections, UNCHANGED <<held, upc>>,
             \A z \in backlog' : z \in Conn /\ conn[z].state = "none"
      PROVE  LifeInv'
  <2>1. /\ LoopInv' /\ ServerInv'
        /\ \A z \in Conn : GoesOn(conn[z], conn'[z]) /\ ConnOk(conn'[z])
    BY <1>2, LoopsUnchanged
  <2>2. UserInv'
    BY <1>1, <1>2, <2>1, UserKeeps
  <2>3. QED
    BY <2>1, <2>2 DEF LifeInv
<1>3. \A z \in backlog : z \in Conn /\ conn[z].state = "none"
  BY <1>1 DEF TypeOK, ServerInv
<1>4. \A z \in Conn : SameLife(conn[z], conn[z])
  BY DEF SameLife
<1>5. CASE Start
  <2>1. /\ loop' = loop /\ conn' = conn /\ connections' = connections
        /\ UNCHANGED <<held, upc>> /\ backlog' = backlog
    BY <1>5 DEF Start, userVars
  <2>2. QED
    BY <1>2, <1>3, <1>4, <2>1
<1>6. ASSUME NEW c \in Conn, ClientConnect(c)
      PROVE  LifeInv'
  <2>1. /\ loop' = loop /\ conn' = conn /\ connections' = connections
        /\ UNCHANGED <<held, upc>> /\ backlog' = backlog \union {c}
        /\ conn[c].state = "none"
    BY <1>6 DEF ClientConnect, userVars, Created
  <2>2. \A z \in backlog' : z \in Conn /\ conn[z].state = "none"
    BY <1>3, <2>1
  <2>3. QED
    BY <1>2, <1>4, <2>1, <2>2
<1>7. ASSUME NEW c \in Conn, PeerStep(c)
      PROVE  LifeInv'
  <2>1. UNCHANGED <<loop, serverVars, userVars>>
    BY <1>1, <1>7, PeerStepDoes
  <2>2. PICK k : /\ Sound(k) /\ SameLife(conn[c], k)
                 /\ conn' = [conn EXCEPT ![c] = k]
    BY <1>1, <1>7, PeerStepDoes
  <2>3. conn'[c] = k /\ \A x \in Conn : x # c => conn'[x] = conn[x]
    BY <1>1, <2>2, ConnChange
  <2>4. \A z \in Conn : SameLife(conn[z], conn'[z])
    BY <1>4, <2>2, <2>3
  <2>5. /\ loop' = loop /\ connections' = connections
        /\ UNCHANGED <<held, upc>> /\ backlog' = backlog
    BY <2>1 DEF serverVars, userVars
  <2>6. QED
    BY <1>2, <1>3, <2>4, <2>5
<1>8. CASE UNCHANGED vars
  <2>1. /\ loop' = loop /\ conn' = conn /\ connections' = connections
        /\ UNCHANGED <<held, upc>> /\ backlog' = backlog
    BY <1>8 DEF vars
  <2>2. QED
    BY <1>2, <1>3, <1>4, <2>1
<1>9. QED
  BY <1>5, <1>6, <1>7, <1>8

\* Application threads: send(), queueing its functor, letting a pointer go.
LEMMA UserStepLives ==
  ASSUME ServerAssumption, LifeInv, ChannelInv', "shutdown" \notin UserOps,
         NEW u \in User,
         \/ UserStep(u)
         \/ \E c \in Conn : \/ UserSend(u, c) \/ UserShutdown(u, c)
                            \/ UserDrop(u, c)
  PROVE  LifeInv'
<1>1. TypeOK /\ UserInv /\ ServerInv /\ ChannelInv
  BY LifeFacts
<1>2. /\ \A z \in backlog : z \in Conn /\ conn[z].state = "none"
      /\ \A z \in Conn : SameLife(conn[z], conn[z])
  BY <1>1 DEF TypeOK, ServerInv, SameLife
<1>3. ASSUME UNCHANGED <<conn, loop, serverVars>>, UserInv'
      PROVE  LifeInv'
  <2>1. /\ loop' = loop /\ connections' = connections
        /\ \A z \in Conn : SameLife(conn[z], conn'[z])
        /\ \A z \in backlog' : z \in Conn /\ conn[z].state = "none"
    BY <1>2, <1>3 DEF serverVars
  <2>2. LoopInv' /\ ServerInv' /\ \A z \in Conn : ConnOk(conn'[z])
    BY <2>1, LoopsUnchanged
  <2>3. QED
    BY <1>3, <2>2 DEF LifeInv
<1>4. ASSUME NEW c \in Conn, UserSend(u, c)
      PROVE  LifeInv'
  <2>1. /\ UNCHANGED <<conn, loop, serverVars>> /\ held' = held /\ c \in held[u]
        /\ upc' = [upc EXCEPT ![u] = [op |-> "send", conn |-> {c}]]
    BY <1>4 DEF UserSend, Begin
  <2>2. upc'[u] = [op |-> "send", conn |-> {c}]
        /\ \A v \in User : v # u => upc'[v] = upc[v]
    BY <1>1, <2>1 DEF TypeOK
  <2>3. upc'[u].op = "send" /\ upc'[u].conn = {c}
    BY <2>2
  <2>4. ASSUME NEW v \in User
        PROVE  /\ upc'[v].op \in {"idle", "send"}
               /\ \A x \in held'[v] \union upc'[v].conn : ~Fresh(conn'[x])
    BY <1>1, <2>1, <2>2, <2>3 DEF UserInv
  <2>5. UserInv'
    BY <2>4 DEF UserInv
  <2>6. QED
    BY <1>3, <2>1, <2>5
<1>5. ASSUME NEW c \in Conn, UserShutdown(u, c)
      PROVE  FALSE
  BY <1>5 DEF UserShutdown, Begin
<1>6. ASSUME NEW c \in Conn, UserDrop(u, c)
      PROVE  LifeInv'
  <2>1. /\ UNCHANGED <<conn, loop, serverVars>> /\ upc' = upc
        /\ held' = [held EXCEPT ![u] = held[u] \ {c}]
    BY <1>6 DEF UserDrop
  <2>2. \A v \in User : held'[v] \subseteq held[v]
    BY <1>1, <2>1 DEF TypeOK
  <2>3. UserInv'
    BY <1>1, <2>1, <2>2 DEF UserInv
  <2>4. QED
    BY <1>3, <2>1, <2>3
<1>7. CASE UserSetState(u)
  BY <1>1, <1>7 DEF UserSetState, UserInv
<1>8. CASE UserQueue(u)
  <2>1. /\ UNCHANGED <<conn, serverVars, held>>
        /\ upc' = [upc EXCEPT ![u] = IdleUser] /\ upc[u].op = "send"
    BY <1>1, <1>8 DEF UserQueue, UserInv
  <2>2. PICK c \in upc[u].conn :
           /\ c \in Conn
           /\ loop' \in [Loops -> LoopType]
           /\ \A y \in Loops :
                /\ SameExceptQueue(loop'[y], loop[y])
                /\ loop'[y].queue = IF y = conn[c].owner
                     THEN Append(loop[y].queue, Functor(upc[u].op, c))
                     ELSE loop[y].queue
    BY <1>1, <1>8, UserQueueChanges
  <2>3. PICK o : o = conn[c].owner
    OBVIOUS
  <2>4. PICK f : f = Functor("send", c)
    OBVIOUS
  <2>5. f \in FunctorType /\ f.op = "send" /\ f.conn = c
    BY <2>2, <2>4 DEF Functor, FunctorType
  <2>6. PICK fs : fs = [y \in Loops |-> IF y = o THEN <<f>> ELSE <<>>]
    OBVIOUS
  <2>7. /\ fs \in [Loops -> Seq(FunctorType)]
        /\ \A y \in Loops : (y = o => fs[y] = <<f>>) /\ (y # o => fs[y] = <<>>)
    BY <2>5, <2>6
  <2>8. ASSUME NEW y \in Loops
        PROVE  loop'[y].queue = loop[y].queue \o fs[y]
    <3>1. loop[y].queue \in Seq(FunctorType)
      BY <1>1 DEF TypeOK, LoopType
    <3>2. Append(loop[y].queue, f) = loop[y].queue \o <<f>>
      BY <2>5, <3>1, AppendOne
    <3>3. loop[y].queue = loop[y].queue \o <<>>
      BY <1>1, QueueNothing
    <3>4. loop'[y].queue = IF y = o THEN Append(loop[y].queue, f) ELSE loop[y].queue
      BY <2>1, <2>2, <2>3, <2>4
    <3>5. QED
      BY <2>7, <3>2, <3>3, <3>4
  <2>9. \A z \in Conn : SameLife(conn[z], conn'[z])
    BY <1>2, <2>1
  <2>10. Outside(fs)
    BY <2>2, <2>7, <2>8, <2>9 DEF Outside
  <2>11. ~Fresh(conn'[c])
    BY <1>1, <2>1, <2>2 DEF UserInv
  <2>12. ASSUME NEW y \in Loops
         PROVE  PostOk(fs[y], y, conn, conn')
    <3>1. CASE y = o
      BY <2>5, <2>7, <2>11, <3>1 DEF PostOk, FunctorOk
    <3>2. CASE y # o
      BY <2>7, <3>2 DEF PostOk
    <3>3. QED
      BY <3>1, <3>2
  <2>13. /\ connections' = connections
         /\ \A z \in backlog' : z \in Conn /\ conn[z].state = "none"
    BY <1>2, <2>1 DEF serverVars
  <2>14. /\ LoopInv' /\ ServerInv'
         /\ \A z \in Conn : ConnOk(conn'[z])
    BY <2>10, <2>12, <2>13, OutsideLives
  <2>15. UserInv'
    <3>1. upc'[u] = IdleUser /\ \A v \in User : v # u => upc'[v] = upc[v]
      BY <1>1, <2>1 DEF TypeOK
    <3>2. IdleUser.op = "idle" /\ IdleUser.conn = {}
      BY DEF IdleUser
    <3>3. ASSUME NEW v \in User
          PROVE  /\ upc'[v].op \in {"idle", "send"}
                 /\ \A x \in held'[v] \union upc'[v].conn : ~Fresh(conn'[x])
      BY <1>1, <2>1, <3>1, <3>2 DEF UserInv
    <3>4. QED
      BY <3>3 DEF UserInv
  <2>16. QED
    BY <2>14, <2>15 DEF LifeInv
<1>9. QED
  BY <1>4, <1>5, <1>6, <1>7, <1>8 DEF UserStep

\* Nothing has happened yet.
LEMMA LifeInit ==
  ASSUME ServerAssumption, Init
  PROVE  LifeInv
<1>1. ChannelInv
  BY ChannelInit
<1>2. ASSUME NEW c \in Conn
      PROVE  /\ conn[c].state = "none" /\ ConnOk(conn[c])
  <2>1. /\ conn[c].state = "none" /\ conn[c].ch = NewChannel /\ ~conn[c].out
        /\ conn[c].ups = 0 /\ conn[c].downs = 0
    BY DEF Init
  <2>2. NewChannel.index = "kNew" /\ NewChannel.events = {}
    BY DEF NewChannel
  <2>3. QED
    BY <2>1, <2>2 DEF ConnOk, Fresh, Up, Down
<1>3. ASSUME NEW l \in Loops
      PROVE  TodoOk(Todo(loop[l]), l, conn) /\ ActiveOk(loop[l], l, conn)
  <2>1. /\ loop[l].batch = <<>> /\ loop[l].queue = <<>> /\ loop[l].active = <<>>
    BY DEF Init
  <2>2. <<>> \o <<>> = <<>>
    OBVIOUS
  <2>3. Todo(loop[l]) = <<>>
    BY <2>1, <2>2 DEF Todo
  <2>4. TodoOk(Todo(loop[l]), l, conn)
    BY <2>3 DEF TodoOk
  <2>5. ActiveOk(loop[l], l, conn)
    BY <2>1 DEF ActiveOk
  <2>6. QED
    BY <2>4, <2>5
<1>4. UserInv
  BY DEF Init, UserInv, IdleUser
<1>5. ServerInv
  BY <1>2 DEF Init, ServerInv, Created
<1>6. QED
  BY <1>1, <1>2, <1>3, <1>4, <1>5 DEF LifeInv, LoopInv

\* Every step of the system.
LEMMA LifeStep ==
  ASSUME ServerAssumption, LifeInv, "shutdown" \notin UserOps, [Next]_vars
  PROVE  LifeInv'
<1>1. ChannelInv'
  BY LifeFacts, ChannelStep
<1>2. ASSUME NEW l \in Loops, LoopStep(l)
      PROVE  LifeInv'
  <2>1. CASE Poll(l) \/ SwapFunctors(l) \/ EndFunctors(l)
    BY <1>1, <2>1, QuietStepLives
  <2>2. CASE HandleEvent(l)
    BY <1>1, <2>2, HandleEventLives
  <2>3. CASE RunEstablished(l)
    BY <1>1, <2>3, RunEstablishedLives
  <2>4. CASE RunDestroyed(l) \/ RunShutdown(l) \/ RunWriteComplete(l)
    BY <1>1, <2>4, RunInPlaceLives
  <2>5. CASE RunRemove(l)
    BY <1>1, <2>5, RunRemoveLives
  <2>6. CASE RunSend(l)
    BY <1>1, <2>6, RunSendLives
  <2>7. QED
    BY <1>2, <2>1, <2>2, <2>3, <2>4, <2>5, <2>6 DEF LoopStep
<1>3. CASE BaseStep
  <2>1. CASE AcceptFails
    <3>1. Base \in Loops
      BY LifeFacts, LoopFacts
    <3>2. QED
      BY <1>1, <2>1, <3>1, QuietStepLives
  <2>2. ASSUME NEW c \in Conn, NewConnection(c)
        PROVE  LifeInv'
    BY <1>1, <2>2, NewConnectionLives
  <2>3. QED
    BY <1>3, <2>1, <2>2 DEF BaseStep
<1>4. CASE \/ Start
           \/ \E c \in Conn : ClientConnect(c) \/ PeerStep(c)
           \/ UNCHANGED vars
  BY <1>1, <1>4, OutsideStepLives
<1>5. ASSUME NEW u \in User,
             \/ UserStep(u)
             \/ \E c \in Conn : \/ UserSend(u, c) \/ UserShutdown(u, c)
                                \/ UserDrop(u, c)
      PROVE  LifeInv'
  BY <1>1, <1>5, UserStepLives
<1>6. QED
  BY <1>2, <1>3, <1>4, <1>5 DEF Next

-----------------------------------------------------------------------------
(* What follows for connections.                                           *)

\* A connection that TcpServer has forgotten and that is still in its poller
\* is kept alive by the functor that will remove it there.
LEMMA ForgottenIsHeld ==
  ASSUME ServerAssumption, LifeInv, NEW c \in Conn, Created(c),
         conn[c].ch.index # "kNew"
  PROVE  Alive(c)
<1>1. CASE c \in connections
  BY <1>1 DEF Alive
<1>2. CASE c \notin connections
  <2>1. PICK l : l = conn[c].owner
    OBVIOUS
  <2>2. PICK f : f = Functor("destroyed", c)
    OBVIOUS
  <2>3. TypeOK /\ loop \in [Loops -> LoopType] /\ l \in Loops
    BY <2>1, LifeFacts, LoopFacts DEF ConnType
  <2>4. f.conn = c /\ Strong(f)
    BY <2>2 DEF Functor, Strong
  <2>5. Waits(f, Todo(loop[l]))
    BY <1>2, <2>1, <2>2, LifeFacts DEF ServerInv
  <2>6. PICK b : b = loop[l].batch
    OBVIOUS
  <2>7. PICK q : q = loop[l].queue
    OBVIOUS
  <2>8. b \in Seq(FunctorType) /\ q \in Seq(FunctorType)
    BY <2>3, <2>6, <2>7 DEF LoopType
  <2>9. PICK i \in 1..Len(b \o q) : (b \o q)[i] = f
    BY <2>5, <2>6, <2>7 DEF Waits, Todo
  <2>10. CASE i <= Len(b)
    <3>1. i \in DOMAIN b /\ b[i] = f
      BY <2>8, <2>9, <2>10
    <3>2. HoldsRef(b, c)
      BY <2>4, <3>1 DEF HoldsRef
    <3>3. QED
      BY <2>3, <2>6, <3>2 DEF Alive
  <2>11. CASE i > Len(b)
    <3>1. i - Len(b) \in DOMAIN q /\ q[i - Len(b)] = f
      BY <2>8, <2>9, <2>11
    <3>2. HoldsRef(q, c)
      BY <2>4, <3>1 DEF HoldsRef
    <3>3. QED
      BY <2>3, <2>7, <3>2 DEF Alive
  <2>12. i <= Len(b) \/ i > Len(b)
    BY <2>8, <2>9
  <2>13. QED
    BY <2>10, <2>11, <2>12
<1>3. QED
  BY <1>1, <1>2

\* When application threads only send, state_ never goes back, and every
\* connection passes through its stages with its channel, its buffer, its
\* functors and its reported events as LifeInv says.
THEOREM LifeInvHolds ==
  ASSUME "shutdown" \notin UserOps
  PROVE  Spec => []LifeInv
<1>1. Init => LifeInv
  BY ServerAssumption, LifeInit
<1>2. LifeInv /\ [Next]_vars => LifeInv'
  BY ServerAssumption, LifeStep
<1>3. QED
  BY <1>1, <1>2, PTL DEF Spec

\* The channel of a connection that is up or shutting down waits for
\* writability exactly when outputBuffer_ holds bytes, whatever
\* handleWrite(), sendInLoop() and the peers do in whatever order.
THEOREM BufferedIsWritten ==
  ASSUME "shutdown" \notin UserOps
  PROVE  Spec => []WritingIffBuffered
<1>1. LifeInv => WritingIffBuffered
  BY DEF LifeInv, ConnOk, Up, WritingIffBuffered
<1>2. Spec => []LifeInv
  BY LifeInvHolds
<1>3. QED
  BY <1>1, <1>2, PTL

\* connectionCallback_ announces a connection once as up, once as down, in
\* that order, and it has announced it as down when TcpServer has forgotten
\* it; no variable leaves its type.
THEOREM AnnouncedOnce ==
  ASSUME "shutdown" \notin UserOps
  PROVE  Spec => []UpThenDownOnce
<1>1. ASSUME LifeInv
      PROVE  UpThenDownOnce
  <2>1. TypeOK /\ ServerInv /\ \A c \in Conn : ConnOk(conn[c])
    BY <1>1, ServerAssumption, LifeFacts
  <2>2. ASSUME NEW c \in Conn
        PROVE  /\ conn[c].downs <= conn[c].ups /\ conn[c].ups <= 1
               /\ Created(c) /\ c \notin connections => conn[c].downs = 1
    <3>1. Fresh(conn[c]) \/ Up(conn[c]) \/ Down(conn[c])
      BY <2>1 DEF TypeOK, ConnType, Fresh, Up, Down
    <3>2. /\ Fresh(conn[c]) => conn[c].ups = 0 /\ conn[c].downs = 0
          /\ Up(conn[c]) => conn[c].ups = 1 /\ conn[c].downs = 0
          /\ Down(conn[c]) => conn[c].ups = 1 /\ conn[c].downs = 1
      BY <2>1 DEF ConnOk
    <3>3. Created(c) /\ c \notin connections => Down(conn[c])
      BY <2>1 DEF ServerInv
    <3>4. QED
      BY <3>1, <3>2, <3>3
  <2>3. QED
    BY <2>1, <2>2 DEF UpThenDownOnce
<1>2. Spec => []LifeInv
  BY LifeInvHolds
<1>3. QED
  BY <1>1, <1>2, PTL

\* Neither channels_ nor epoll keeps the channel of a destroyed connection:
\* connectDestroyed() runs before the last reference is released.
THEOREM NothingDangles ==
  ASSUME "shutdown" \notin UserOps
  PROVE  Spec => []NoDanglingChannel
<1>1. ASSUME LifeInv
      PROVE  NoDanglingChannel
  <2>1. ASSUME NEW c \in Conn, Destroyed(c)
        PROVE  ~conn[c].ch.listed /\ ~conn[c].ch.reg
    <3>1. conn[c].ch.index = "kNew"
      BY <1>1, <2>1, ServerAssumption, ForgottenIsHeld DEF Destroyed
    <3>2. ChannelOk(conn[c].ch)
      BY <1>1 DEF LifeInv, ChannelInv
    <3>3. conn[c].ch \in ChannelType
      BY <1>1 DEF LifeInv, ChannelInv, TypeOK, ConnType
    <3>4. QED
      BY <3>1, <3>2, <3>3 DEF ChannelOk, ChannelType
  <2>2. QED
    BY <2>1 DEF NoDanglingChannel
<1>2. Spec => []LifeInv
  BY LifeInvHolds
<1>3. QED
  BY <1>1, <1>2, PTL

\* Every channel on a loop's activeChannels_ exists until its turn has come:
\* tie_.lock() of Channel::handleEvent() never fails.
THEOREM ReportedIsAlive ==
  ASSUME "shutdown" \notin UserOps
  PROVE  Spec => []ActiveAlive
<1>1. ASSUME LifeInv
      PROVE  ActiveAlive
  <2>1. ASSUME NEW l \in Loops, NEW i \in DOMAIN loop[l].active,
               loop[l].active[i].ch # Acceptor
        PROVE  Alive(loop[l].active[i].ch)
    <3>1. PICK c : c = loop[l].active[i].ch
      OBVIOUS
    <3>2. TypeOK /\ loop[l] \in LoopType
      BY <1>1, ServerAssumption, LifeFacts, LoopFacts
    <3>3. loop[l].active \in Seq(EntryType)
      BY <3>2 DEF LoopType
    <3>4. loop[l].active[i] \in EntryType
      BY <3>3
    <3>5. c \in Conn
      BY <2>1, <3>1, <3>4 DEF EntryType
    <3>6. EntryOk(loop[l].active[i], l, conn)
      BY <1>1 DEF LifeInv, LoopInv, ActiveOk
    <3>7. ~Fresh(conn[c]) /\ conn[c].ch.index # "kNew"
      BY <2>1, <3>1, <3>6 DEF EntryOk
    <3>8. Created(c)
      BY <3>7 DEF Fresh, Created
    <3>9. QED
      BY <1>1, <3>1, <3>5, <3>7, <3>8, ServerAssumption, ForgottenIsHeld
  <2>2. QED
    BY <2>1 DEF ActiveAlive
<1>2. Spec => []LifeInv
  BY LifeInvHolds
<1>3. QED
  BY <1>1, <1>2, PTL

=============================================================================
