----------------------------- MODULE ByteStream -----------------------------
(***************************************************************************)
(* The bytes of one established TcpConnection: from its peer through the   *)
(* kernel and inputBuffer_ to the application, and from the application    *)
(* (in the connection's loop, or in a worker thread that calls send())     *)
(* through outputBuffer_ and the kernel back to the peer.  Ends with       *)
(* shutdown(): the write side is closed once everything is written.        *)
(*                                                                         *)
(* One callback of the connection's loop is one step.  The bytes are       *)
(* numbered, so that a lost, doubled or displaced one can be told.  Closing *)
(* and destruction are the subject of TcpServer.                           *)
(***************************************************************************)
EXTENDS Naturals, Sequences, SequencesExt, Buffer

CONSTANTS SocketRoom,     \* bytes the kernel takes before EWOULDBLOCK
          HighWaterMark,  \* highWaterMark_
          MaxBytes,       \* bound: bytes the peer sends
          StringsOutlive  \* callers of send() keep the string until it is sent

ASSUME StreamAssumption ==
  /\ SocketRoom \in Nat \ {0} /\ HighWaterMark \in Nat \ {0}
  /\ MaxBytes \in Nat /\ StringsOutlive \in BOOLEAN

VARIABLES
  rx,        \* bytes in the socket's receive buffer
  input,     \* inputBuffer_
  handed,    \* strings the application gave to its worker thread, in order
  strings,   \* strings the worker has passed to send(): bytes, and alive or not
  functors,  \* queued sendInLoop() calls, each with a pointer to its string
  output,    \* outputBuffer_
  writing,   \* the channel waits for writability
  state,     \* state_
  wrShut,    \* shutdownWrite() was called
  tx,        \* bytes in the socket's send buffer
  warned,    \* highWaterMarkCallback_ calls since the buffer was below the mark
  peerSent,  \* all bytes the peer has sent
  taken,     \* all bytes the application has retrieved
  sent,      \* all bytes for which sendInLoop() was called, in order
  lost,      \* those of them that were given up: the write side was shut
  received   \* all bytes the peer has received

inVars == <<rx, input, peerSent, taken>>
outVars == <<output, writing, wrShut, tx, warned, sent, lost>>
appVars == <<handed, strings, functors>>
vars == <<rx, input, handed, strings, functors, output, writing, state, wrShut, tx,
          warned, peerSent, taken, sent, lost, received>>

\* The contents of a string that was destroyed.
Junk == 0
Byte == 0..MaxBytes
BufferType(b) ==
  /\ b.data \in Seq(Byte) /\ b.reader \in Nat /\ b.writer \in Nat

TypeOK ==
  /\ {rx, tx, peerSent, taken, sent, lost, received} \subseteq Seq(Byte)
  /\ BufferType(input) /\ BufferType(output)
  /\ handed \in Seq(Seq(Byte))
  /\ strings \in Seq([bytes : Seq(Byte), alive : BOOLEAN])
  /\ functors \in Seq(DOMAIN strings)
  /\ {writing, wrShut} \subseteq BOOLEAN
  /\ state \in {"kConnected", "kDisconnecting"}
  /\ Len(tx) <= SocketRoom
  /\ warned \in Nat

Init ==
  /\ rx = <<>> /\ tx = <<>>
  /\ input = NewBuffer /\ output = NewBuffer
  /\ handed = <<>> /\ strings = <<>> /\ functors = <<>>
  /\ writing = FALSE
  /\ state = "kConnected"
  /\ wrShut = FALSE
  /\ warned = 0
  /\ peerSent = <<>> /\ taken = <<>> /\ received = <<>>
  /\ sent = <<>> /\ lost = <<>>

-----------------------------------------------------------------------------
(* sendInLoop() and shutdownInLoop()                                       *)

KeepRestWarnsAlways(s) ==
  /\ output' = AppendBytes(output, s)
  /\ writing' = TRUE
  /\ warned' = IF ReadableBytes(output) + Len(s) >= HighWaterMark
               THEN warned + 1 ELSE warned

\* The bytes s, of which the kernel has taken none, are kept in outputBuffer_;
\* the callback is queued when the mark is reached from below.
KeepRest(s) ==
  LET old == ReadableBytes(output)
  IN /\ output' = AppendBytes(output, s)
     /\ writing' = TRUE
     /\ warned' = IF /\ old + Len(s) >= HighWaterMark
                     /\ old < HighWaterMark
                  THEN warned + 1 ELSE warned

SendInLoopPastBuffer(s) ==
  /\ \E n \in 0..Len(s) :
       /\ n <= SocketRoom - Len(tx)
       /\ tx' = tx \o SubSeq(s, 1, n)
       /\ IF n = Len(s) THEN UNCHANGED <<output, writing, warned>>
          ELSE KeepRest(SubSeq(s, n + 1, Len(s)))

\* write() takes what it likes, up to the room there is; only with nothing
\* waiting in outputBuffer_ may it be called.  After shutdownWrite() it fails
\* with EPIPE and the bytes are given up (if the application ignores SIGPIPE,
\* which the library does not).
SendInLoop(s) ==
  \/ /\ ~writing /\ ReadableBytes(output) = 0 /\ ~wrShut
     /\ \E n \in 0..Len(s) :
          /\ n <= SocketRoom - Len(tx)
          /\ tx' = tx \o SubSeq(s, 1, n)
          /\ IF n = Len(s) THEN UNCHANGED <<output, writing, warned>>
             ELSE KeepRest(SubSeq(s, n + 1, Len(s)))
  \/ /\ ~writing /\ ReadableBytes(output) = 0 /\ wrShut
     /\ UNCHANGED <<tx, output, writing, warned>>
  \/ /\ writing \/ ReadableBytes(output) # 0
     /\ KeepRest(s)
     /\ UNCHANGED tx

ShutdownNow(stillWriting) == TRUE

\* shutdownInLoop(): nothing must be waiting
ShutdownInLoop(stillWriting) == wrShut \/ ~stillWriting

-----------------------------------------------------------------------------
(* The connection's loop.                                                  *)

\* messageCallback_: the application retrieves len bytes (retrieveAsString(),
\* or all of them) and sends them at once, gives them to its worker, or keeps
\* them; with len = 0 it waits for more.
OnMessage(b, len) ==
  LET s == Peek(b, len)
  IN /\ input' = Retrieve(b, len)
     /\ taken' = taken \o s
     /\ \/ /\ len > 0 /\ state = "kConnected"
           /\ SendInLoop(s)
           /\ sent' = sent \o s
           /\ UNCHANGED handed
        \/ /\ len > 0
           /\ handed' = Append(handed, s)
           /\ UNCHANGED <<output, writing, tx, warned, sent>>
        \/ UNCHANGED <<output, writing, tx, warned, sent, handed>>

HandleRead ==
  /\ rx # <<>>
  /\ LET n == IF Len(rx) <= ReadRoom(input) THEN Len(rx) ELSE ReadRoom(input)
         b == ReadFd(input, SubSeq(rx, 1, n))
     IN /\ rx' = SubSeq(rx, n + 1, Len(rx))
        /\ \E len \in 0..ReadableBytes(b) : OnMessage(b, len)
  /\ UNCHANGED <<strings, functors, state, wrShut, peerSent, lost, received>>

\* What a char pointer into string k leads to.
Deref(k) == IF k.alive THEN k.bytes ELSE [i \in DOMAIN k.bytes |-> Junk]

\* The next queued sendInLoop(), with buf.c_str() and buf.size().  send() took
\* the bytes while state_ was kConnected; if the write side has been shut since,
\* they are given up.
RunSend ==
  /\ functors # <<>>
  /\ LET k == strings[Head(functors)]
     IN /\ SendInLoop(Deref(k))
        /\ sent' = sent \o k.bytes
        /\ lost' = IF wrShut THEN lost \o k.bytes ELSE lost
  /\ functors' = Tail(functors)
  /\ UNCHANGED <<inVars, handed, strings, state, wrShut, received>>

WriteFdWhole ==
  {n \in {ReadableBytes(output)} : 0 < n /\ n <= SocketRoom - Len(tx)}

\* How many bytes writeFd() may write: write() is given all of them and takes
\* what it likes, up to the room there is.
WriteFd ==
  {n \in 1..ReadableBytes(output) : n <= SocketRoom - Len(tx)}

\* EPOLLOUT: the kernel has room again.
HandleWrite ==
  /\ writing /\ Len(tx) < SocketRoom
  /\ \E n \in WriteFd :
       LET b == Retrieve(output, n)
           drained == ReadableBytes(b) = 0
       IN /\ tx' = tx \o SubSeq(Contents(output), 1, n)
          /\ output' = b
          /\ writing' = ~drained
          /\ warned' = IF ReadableBytes(b) < HighWaterMark THEN 0 ELSE warned
          /\ wrShut' = IF drained /\ state = "kDisconnecting"
                       THEN ShutdownInLoop(FALSE) ELSE wrShut
  /\ UNCHANGED <<inVars, appVars, state, sent, lost, received>>

\* shutdown(), called in the connection's loop
Shutdown ==
  /\ state = "kConnected"
  /\ state' = "kDisconnecting"
  /\ wrShut' = ShutdownInLoop(writing)
  /\ UNCHANGED <<inVars, appVars, output, writing, tx, warned, sent, lost, received>>

-----------------------------------------------------------------------------
(* The application's worker thread.                                        *)

\* send() from another thread binds the string's address, not its bytes.
WorkerSend ==
  /\ handed # <<>>
  /\ handed' = Tail(handed)
  /\ strings' = Append(strings, [bytes |-> Head(handed), alive |-> TRUE])
  /\ functors' = IF state = "kConnected" THEN Append(functors, Len(strings) + 1)
                 ELSE functors
  /\ UNCHANGED <<inVars, outVars, state, received>>

\* The caller's string is destroyed.
StringGone(i) ==
  /\ strings[i].alive
  /\ StringsOutlive => i \notin Range(functors)
  /\ strings' = [strings EXCEPT ![i].alive = FALSE]
  /\ UNCHANGED <<inVars, outVars, handed, functors, state, received>>

-----------------------------------------------------------------------------
(* The peer.                                                               *)

PeerSend ==
  /\ Len(peerSent) < MaxBytes
  /\ peerSent' = Append(peerSent, Len(peerSent) + 1)
  /\ rx' = Append(rx, Len(peerSent) + 1)
  /\ UNCHANGED <<input, taken, appVars, outVars, state, received>>

PeerReceive ==
  /\ tx # <<>>
  /\ \E n \in 1..Len(tx) :
       /\ received' = received \o SubSeq(tx, 1, n)
       /\ tx' = SubSeq(tx, n + 1, Len(tx))
  /\ UNCHANGED <<inVars, appVars, output, writing, state, wrShut, warned, sent, lost>>

-----------------------------------------------------------------------------
LoopStep == HandleRead \/ RunSend \/ HandleWrite

Next ==
  \/ LoopStep \/ Shutdown \/ WorkerSend
  \/ \E i \in DOMAIN strings : StringGone(i)
  \/ PeerSend \/ PeerReceive

Spec == Init /\ [][Next]_vars

\* The loop's thread handles what epoll reports and runs its functors, and
\* the peer reads what has arrived.  The application owes nothing.
Fairness == WF_vars(HandleWrite) /\ WF_vars(RunSend) /\ WF_vars(PeerReceive)

FairSpec == Spec /\ Fairness

-----------------------------------------------------------------------------
(* Properties.                                                             *)

\* makeSpace(), append(), retrieve() and readFd() leave both buffers with
\* their indices in order and inside the vector, and the space in front is
\* never given up; no variable leaves its type.
BuffersWellFormed == TypeOK /\ WellFormed(input) /\ WellFormed(output)

\* The way to the application is a queue of bytes: readv() into two places,
\* growing, moving and partial retrieves lose, double or displace nothing.
InputIsQueue == INSTANCE ByteQueue WITH put <- peerSent, got <- taken
ImplementsInput == InputIsQueue!Spec

\* So is the way to the peer, with direct writes, buffered rests and queued
\* sends of another thread.
OutputIsQueue == INSTANCE ByteQueue WITH put <- sent, got <- received
ImplementsOutput == OutputIsQueue!Spec

\* shutdown() is graceful: bytes are given up only once the write side is
\* closed, and when it is, everything sent before is with the kernel or beyond.
ClosedAfterAllIsWritten ==
  /\ lost # <<>> => wrShut
  /\ wrShut => sent = received \o tx \o lost

\* highWaterMarkCallback_ is called once each time the buffer fills up to the
\* mark, and has been called whenever it is that full.
WarnedOncePerFilling ==
  warned = IF ReadableBytes(output) >= HighWaterMark THEN 1 ELSE 0

\* Everything for which sendInLoop() runs before the write side is shut reaches
\* a peer that reads: bytes left in outputBuffer_ are followed by a write when
\* the socket has room.  Bytes that send() took from another thread while the
\* connection was up, and that shutdown() overtook in the loop's queue, do not
\* arrive; they, and no others, are in lost.
SentArrives == []<>(received \o lost = sent)
=============================================================================
