-------------------------- MODULE ByteStreamProofs --------------------------
(***************************************************************************)
(* The bytes of a connection, for every buffer size, every room of the     *)
(* socket, every high water mark and every number of bytes: the buffers    *)
(* stay well formed, both directions are queues of bytes, the high water   *)
(* mark callback is called once per filling, and shutdown() is graceful.   *)
(***************************************************************************)
EXTENDS ByteStream, BufferProofs

-----------------------------------------------------------------------------
(* Sequences.                                                              *)

\* What is in front of a concatenation is a prefix of it.
LEMMA PrefixOfConcat ==
  ASSUME NEW S, NEW s \in Seq(S), NEW t \in Seq(S)
  PROVE  IsPrefix(s, s \o t)
<1>1. Len(s) <= Len(s \o t)
  BY ConcatProperties, LenProperties
<1>2. SubSeq(s, 1, Len(s)) = s
  BY SubSeqFull
<1>3. SubSeq(s \o t, 1, Len(s)) = s
  OBVIOUS
<1>4. QED
  BY <1>1, <1>2, <1>3 DEF IsPrefix

\* Concatenation as an operator that the provers leave alone.
Cat(s, t) == s \o t

\* Cat is associative and stays in its type.
LEMMA CatAssociative ==
  \A a, b, c \in Seq(Byte) :
    Cat(a, b) \in Seq(Byte) /\ Cat(Cat(a, b), c) = Cat(a, Cat(b, c))
<1> SUFFICES ASSUME NEW a \in Seq(Byte), NEW b \in Seq(Byte), NEW c \in Seq(Byte)
             PROVE  a \o b \in Seq(Byte) /\ (a \o b) \o c = a \o (b \o c)
  BY DEF Cat
<1> QED
  OBVIOUS

\* Bytes f arrive behind c, the front s of both is taken, c2 stays: what was
\* taken, is kept and is still to come (r) is what it was.
LEMMA PassOn ==
  \A a, c, f, r, s, c2 \in Seq(Byte) :
    Cat(c, f) = Cat(s, c2)
      => Cat(Cat(a, s), Cat(c2, r)) = Cat(a, Cat(c, Cat(f, r)))
<1> SUFFICES ASSUME NEW a \in Seq(Byte), NEW c \in Seq(Byte), NEW f \in Seq(Byte),
                    NEW r \in Seq(Byte), NEW s \in Seq(Byte), NEW c2 \in Seq(Byte),
                    Cat(c, f) = Cat(s, c2)
             PROVE  Cat(Cat(a, s), Cat(c2, r)) = Cat(a, Cat(c, Cat(f, r)))
  OBVIOUS
<1>1. Cat(Cat(a, s), Cat(c2, r)) = Cat(a, Cat(s, Cat(c2, r)))
  BY CatAssociative
<1>2. Cat(s, Cat(c2, r)) = Cat(Cat(c, f), r)
  BY CatAssociative
<1>3. Cat(Cat(c, f), r) = Cat(c, Cat(f, r))
  BY CatAssociative
<1>4. QED
  BY <1>1, <1>2, <1>3

\* Byte holds what a vector is filled with.
LEMMA ZeroIsByte == Zero \in Byte
BY StreamAssumption DEF Zero, Byte
-----------------------------------------------------------------------------
(* The inductive invariant.                                                *)

\* The channel waits for writability exactly when bytes are waiting, and the
\* write side is closed only when none are.
WriteSide ==
  /\ writing <=> ReadableBytes(output) # 0
  /\ wrShut => ~writing /\ state = "kDisconnecting"

\* Where the bytes from the peer are: retrieved, in inputBuffer_, in the kernel.
InputInv == peerSent = taken \o (Contents(input) \o rx)

StreamInv ==
  /\ TypeOK
  /\ input \in BufferOf(Byte) /\ output \in BufferOf(Byte)
  /\ WriteSide
  /\ WarnedOncePerFilling
  /\ InputInv

\* Where the bytes to the peer are, as long as queued sends find their strings:
\* received, in the kernel, in outputBuffer_; those of sends that came after the
\* write side was shut are lost.
Kept == received \o (tx \o Contents(output))

OutputInv ==
  /\ \A i \in 1..Len(functors) : strings[functors[i]].alive
  /\ lost # <<>> => wrShut
  /\ sent = Kept \o lost

\* The initial state.
LEMMA InitInv == Init => StreamInv /\ OutputInv
<1> SUFFICES ASSUME Init PROVE StreamInv /\ OutputInv
  OBVIOUS
<1>1. /\ NewBuffer \in BufferOf(Byte) /\ Contents(NewBuffer) = <<>>
      /\ ReadableBytes(NewBuffer) = 0
  BY ZeroIsByte, NewBufferEmpty
<1>2. /\ NewBuffer.data \in Seq(Byte)
      /\ NewBuffer.reader \in Nat /\ NewBuffer.writer \in Nat
  BY <1>1, ContentsSeq
<1>3. TypeOK
  <2>1. <<>> \in Seq(Byte) /\ Len(<<>>) = 0
    OBVIOUS
  <2>2. BufferType(input) /\ BufferType(output)
    BY <1>2 DEF Init, BufferType
  <2>3. 0 <= SocketRoom
    BY StreamAssumption
  <2>4. QED
    <3>1. <<>> \in Seq(Seq(Byte)) /\ <<>> \in Seq(DOMAIN <<>>)
          /\ <<>> \in Seq([bytes : Seq(Byte), alive : BOOLEAN])
      OBVIOUS
    <3>2. QED
      BY <2>1, <2>2, <2>3, <3>1 DEF Init, TypeOK
<1>4. ReadableBytes(output) = 0 /\ ReadableBytes(output) < HighWaterMark
  BY <1>1, StreamAssumption DEF Init
<1>5. WriteSide /\ WarnedOncePerFilling
  BY <1>4, StreamAssumption DEF Init, WriteSide, WarnedOncePerFilling
<1>6. InputInv /\ OutputInv
  <2>1. <<>> \o (<<>> \o <<>>) = <<>> /\ 1..Len(<<>>) = {}
    OBVIOUS
  <2>2. QED
    BY <1>1, <2>1 DEF Init, InputInv, OutputInv, Kept
<1>7. QED
  BY <1>1, <1>3, <1>5, <1>6 DEF Init, StreamInv

-----------------------------------------------------------------------------
(* sendInLoop()                                                            *)

\* Keeping bytes in outputBuffer_: they are behind what was there, the channel
\* waits for writability, and the callback is called at the mark.
LEMMA KeepRestKeeps ==
  ASSUME StreamInv, NEW s \in Seq(Byte), KeepRest(s),
         Len(s) > 0 \/ ReadableBytes(output) # 0
  PROVE  /\ output' \in BufferOf(Byte)
         /\ Contents(output') = Contents(output) \o s
         /\ writing' = TRUE
         /\ ReadableBytes(output') # 0
         /\ WarnedOncePerFilling'
<1>1. output \in BufferOf(Byte) /\ output' = AppendBytes(output, s)
  BY DEF StreamInv, KeepRest
<1>2. output' \in BufferOf(Byte) /\ Contents(output') = Contents(output) \o s
  BY <1>1, ZeroIsByte, AppendExtends
<1>3. /\ Contents(output) \in Seq(Byte)
      /\ Len(Contents(output)) = ReadableBytes(output)
      /\ ReadableBytes(output) \in Nat
      /\ Len(Contents(output')) = ReadableBytes(output')
  BY <1>1, <1>2, ContentsSeq
<1>4. ReadableBytes(output') = ReadableBytes(output) + Len(s)
  BY <1>2, <1>3, ConcatProperties
<1>5. Len(s) \in Nat /\ HighWaterMark \in Nat /\ HighWaterMark > 0
  BY LenProperties, StreamAssumption
<1>6. ReadableBytes(output') # 0
  BY <1>3, <1>4, <1>5
<1>7. WarnedOncePerFilling'
  <2>1. warned = IF ReadableBytes(output) >= HighWaterMark THEN 1 ELSE 0
    BY DEF StreamInv, WarnedOncePerFilling
  <2>2. warned' = IF /\ ReadableBytes(output) + Len(s) >= HighWaterMark
                     /\ ReadableBytes(output) < HighWaterMark
                  THEN warned + 1 ELSE warned
    BY DEF KeepRest
  <2>3. warned' = IF ReadableBytes(output') >= HighWaterMark THEN 1 ELSE 0
    BY <1>3, <1>4, <1>5, <2>1, <2>2
  <2>4. QED
    BY <2>3 DEF WarnedOncePerFilling
<1>8. QED
  BY <1>2, <1>6, <1>7 DEF KeepRest

\* sendInLoop() hands on all bytes in order, or none when the write side is
\* closed.
LEMMA SendKeeps ==
  ASSUME StreamInv, NEW s \in Seq(Byte), SendInLoop(s)
  PROVE  /\ tx' \in Seq(Byte) /\ Len(tx') <= SocketRoom
         /\ output' \in BufferOf(Byte)
         /\ writing' \in BOOLEAN
         /\ writing' <=> ReadableBytes(output') # 0
         /\ warned' \in Nat
         /\ WarnedOncePerFilling'
         /\ wrShut => UNCHANGED <<tx, output, writing>>
         /\ ~wrShut => tx' \o Contents(output') = (tx \o Contents(output)) \o s
<1>1. /\ tx \in Seq(Byte) /\ Len(tx) <= SocketRoom /\ writing \in BOOLEAN
      /\ warned \in Nat /\ output \in BufferOf(Byte)
      /\ writing <=> ReadableBytes(output) # 0
      /\ wrShut => ~writing
  BY DEF StreamInv, TypeOK, WriteSide
<1>2. /\ Contents(output) \in Seq(Byte)
      /\ Len(Contents(output)) = ReadableBytes(output)
      /\ ReadableBytes(output) \in Nat
  BY <1>1, ContentsSeq
<1>3. WarnedOncePerFilling' => warned' \in Nat
  BY DEF WarnedOncePerFilling
<1>4. ASSUME UNCHANGED <<output, warned>> PROVE WarnedOncePerFilling'
  BY <1>4 DEF StreamInv, WarnedOncePerFilling
<1>5. CASE ~writing /\ ReadableBytes(output) = 0 /\ ~wrShut
  <2>1. PICK n \in 0..Len(s) :
          /\ n <= SocketRoom - Len(tx)
          /\ tx' = tx \o SubSeq(s, 1, n)
          /\ IF n = Len(s) THEN UNCHANGED <<output, writing, warned>>
             ELSE KeepRest(SubSeq(s, n + 1, Len(s)))
    BY <1>5 DEF SendInLoop
  <2> DEFINE front == SubSeq(s, 1, n)
             rest == SubSeq(s, n + 1, Len(s))
  <2>2. /\ front \in Seq(Byte) /\ Len(front) = n
        /\ rest \in Seq(Byte) /\ Len(rest) = Len(s) - n
        /\ s = front \o rest
    BY Split, ZenonT(30)
  <2> HIDE DEF front, rest
  <2>3. tx' \in Seq(Byte) /\ Len(tx') <= SocketRoom
    <3>1. tx' = tx \o front
      BY <2>1 DEF front
    <3>2. tx' \in Seq(Byte) /\ Len(tx') = Len(tx) + n
      BY <1>1, <2>2, <3>1, ConcatProperties
    <3>3. QED
      BY <1>1, <2>1, <3>2, StreamAssumption, LenProperties
  <2>4. Contents(output) = <<>>
    BY <1>2, <1>5
  <2>5. CASE n = Len(s)
    <3>1. UNCHANGED <<output, writing, warned>>
      BY <2>1, <2>5
    <3>2. rest = <<>>
      BY <2>2, <2>5
    <3>3. tx' \o Contents(output') = (tx \o Contents(output)) \o s
      <4>1. tx' = tx \o front /\ s = front
        BY <2>1, <2>2, <3>2, ConcatEmptySeq DEF front
      <4>2. Contents(output') = <<>>
        BY <2>4, <3>1
      <4>3. QED
        BY <1>1, <2>2, <2>3, <2>4, <4>1, <4>2, ConcatEmptySeq
    <3>4. QED
      BY <1>1, <1>3, <1>4, <1>5, <2>3, <3>1, <3>3
  <2>6. CASE n # Len(s)
    <3>1. KeepRest(rest) /\ Len(rest) > 0
      BY <2>1, <2>2, <2>6, LenProperties DEF rest
    <3>2. /\ output' \in BufferOf(Byte)
          /\ Contents(output') = Contents(output) \o rest
          /\ writing' = TRUE /\ ReadableBytes(output') # 0
          /\ WarnedOncePerFilling'
      BY <2>2, <3>1, KeepRestKeeps
    <3>3. tx' \o Contents(output') = (tx \o Contents(output)) \o s
      <4>1. tx' = tx \o front /\ Contents(output') = rest
        BY <2>1, <2>2, <2>4, <3>2, ConcatEmptySeq DEF front
      <4>2. tx \o Contents(output) = tx
        BY <1>1, <2>4, ConcatEmptySeq
      <4>3. (tx \o front) \o rest = tx \o (front \o rest)
        BY <1>1, <2>2, ConcatAssociative, SMTT(30)
      <4>4. QED
        BY <2>2, <4>1, <4>2, <4>3
    <3>4. QED
      BY <1>3, <1>5, <2>3, <3>2, <3>3
  <2>7. QED
    BY <2>5, <2>6
<1>6. CASE ~writing /\ ReadableBytes(output) = 0 /\ wrShut
  <2>1. UNCHANGED <<tx, output, writing, warned>>
    BY <1>6 DEF SendInLoop
  <2>2. QED
    BY <1>1, <1>4, <1>6, <2>1
<1>7. CASE writing \/ ReadableBytes(output) # 0
  <2>1. KeepRest(s) /\ UNCHANGED tx
    BY <1>7 DEF SendInLoop
  <2>2. /\ output' \in BufferOf(Byte)
        /\ Contents(output') = Contents(output) \o s
        /\ writing' = TRUE /\ ReadableBytes(output') # 0
        /\ WarnedOncePerFilling'
    BY <1>1, <1>7, <2>1, KeepRestKeeps
  <2>3. tx \o (Contents(output) \o s) = (tx \o Contents(output)) \o s
    BY <1>1, <1>2, ConcatAssociative, SMTT(30)
  <2>4. ~wrShut
    BY <1>1, <1>7
  <2>5. QED
    BY <1>1, <1>3, <2>1, <2>2, <2>3, <2>4
<1>8. QED
  BY <1>5, <1>6, <1>7

-----------------------------------------------------------------------------
(* The steps.                                                              *)

\* A buffer of bytes has the type TypeOK asks for.
LEMMA TypeOfBuffer ==
  ASSUME NEW b \in BufferOf(Byte)
  PROVE  BufferType(b)
BY ContentsSeq DEF BufferType

\* handleRead() moves bytes from the kernel to inputBuffer_ and from there to
\* the application, which may send them, pass them on or keep them.
LEMMA ReadEffect ==
  ASSUME StreamInv, HandleRead
  PROVE  /\ rx' \in Seq(Byte)
         /\ input' \in BufferOf(Byte)
         /\ InputInv'
         /\ UNCHANGED <<strings, functors, state, wrShut, peerSent, lost, received>>
         /\ \E s \in Seq(Byte) :
              /\ taken' = taken \o s
              /\ \/ /\ state = "kConnected" /\ SendInLoop(s)
                    /\ sent' = sent \o s /\ UNCHANGED handed
                 \/ /\ handed' = Append(handed, s)
                    /\ UNCHANGED <<output, writing, tx, warned, sent>>
                 \/ UNCHANGED <<output, writing, tx, warned, sent, handed>>
<1>1. /\ rx \in Seq(Byte) /\ taken \in Seq(Byte) /\ input \in BufferOf(Byte)
      /\ peerSent = taken \o (Contents(input) \o rx)
  BY DEF StreamInv, TypeOK, InputInv
<1>2. /\ Contents(input) \in Seq(Byte) /\ WriteableBytes(input) \in Nat
  BY <1>1, ContentsSeq
<1>3. PICK n : n = IF Len(rx) <= ReadRoom(input) THEN Len(rx) ELSE ReadRoom(input)
  OBVIOUS
<1>4. n \in 0..Len(rx)
  <2>1. ReadRoom(input) \in Nat
    BY <1>2, BufferAssumption DEF ReadRoom
  <2>2. Len(rx) \in Nat
    BY <1>1, LenProperties
  <2>3. QED
    BY <1>3, <2>1, <2>2
<1>5. PICK front \in Seq(Byte), rest \in Seq(Byte) :
        /\ front = SubSeq(rx, 1, n) /\ rest = SubSeq(rx, n + 1, Len(rx))
        /\ rx = front \o rest
  <2>1. /\ SubSeq(rx, 1, n) \in Seq(Byte)
        /\ SubSeq(rx, n + 1, Len(rx)) \in Seq(Byte)
        /\ rx = SubSeq(rx, 1, n) \o SubSeq(rx, n + 1, Len(rx))
    BY <1>1, <1>4, Split
  <2>2. QED
    BY <2>1, Zenon
<1>6. PICK b : b = ReadFd(input, front)
  OBVIOUS
<1>7. b \in BufferOf(Byte) /\ Contents(b) = Contents(input) \o front
  BY <1>1, <1>6, ZeroIsByte, ReadFdExtends
<1>8. PICK len \in 0..ReadableBytes(b) : OnMessage(b, len)
  BY <1>3, <1>5, <1>6 DEF HandleRead
<1>9. rx' = rest
  BY <1>3, <1>5 DEF HandleRead
<1>10. PICK s : s = Peek(b, len)
  OBVIOUS
<1>11. len \in Nat /\ len <= ReadableBytes(b)
  BY <1>7, <1>8, ContentsSeq
<1>12. input' = Retrieve(b, len) /\ taken' = taken \o s
  BY <1>8, <1>10 DEF OnMessage
<1>13. /\ input' \in BufferOf(Byte) /\ s \in Seq(Byte)
       /\ Contents(b) = s \o Contents(input')
  BY <1>7, <1>10, <1>11, <1>12, RetrieveSplits
<1>14. InputInv'
  <2>1. Contents(input') \in Seq(Byte)
    BY <1>13, ContentsSeq
  <2>2. PICK a \in Seq(Byte), c \in Seq(Byte), c2 \in Seq(Byte) :
          a = taken /\ c = Contents(input) /\ c2 = Contents(input')
    BY <1>1, <1>2, <2>1
  <2>3. Cat(c, front) = Cat(s, c2)
    BY <1>7, <1>13, <2>2 DEF Cat
  <2>4. Cat(Cat(a, s), Cat(c2, rest)) = Cat(a, Cat(c, Cat(front, rest)))
    BY <1>13, <2>3, PassOn
  <2>5. taken' \o (Contents(input') \o rx') = peerSent
    BY <1>1, <1>5, <1>9, <1>12, <2>2, <2>4 DEF Cat
  <2>6. QED
    BY <2>5 DEF InputInv, HandleRead
<1>15. \/ /\ state = "kConnected" /\ SendInLoop(s)
          /\ sent' = sent \o s /\ UNCHANGED handed
       \/ /\ handed' = Append(handed, s)
          /\ UNCHANGED <<output, writing, tx, warned, sent>>
       \/ UNCHANGED <<output, writing, tx, warned, sent, handed>>
  BY <1>8, <1>10 DEF OnMessage
<1>16. UNCHANGED <<strings, functors, state, wrShut, peerSent, lost, received>>
  BY DEF HandleRead
<1>17. QED
  BY <1>9, <1>12, <1>13, <1>14, <1>15, <1>16

\* The next queued string has the bytes it had when send() was called, or junk
\* in their place.
LEMMA DerefSeq ==
  ASSUME StreamInv, functors # <<>>
  PROVE  /\ Head(functors) \in DOMAIN strings
         /\ strings[Head(functors)].bytes \in Seq(Byte)
         /\ Deref(strings[Head(functors)]) \in Seq(Byte)
         /\ strings[Head(functors)].alive =>
              Deref(strings[Head(functors)]) = strings[Head(functors)].bytes
<1>1. /\ functors \in Seq(DOMAIN strings)
      /\ strings \in Seq([bytes : Seq(Byte), alive : BOOLEAN])
  BY DEF StreamInv, TypeOK
<1>2. Head(functors) \in DOMAIN strings
  BY <1>1, HeadTailProperties
<1>3. PICK k : k = strings[Head(functors)]
  OBVIOUS
<1>4. k \in [bytes : Seq(Byte), alive : BOOLEAN]
  BY <1>1, <1>2, <1>3, LenProperties, ElementOfSeq
<1>5. [i \in DOMAIN k.bytes |-> Junk] \in Seq(Byte)
  <2>1. Junk \in Byte
    BY StreamAssumption DEF Junk, Byte
  <2>2. DOMAIN k.bytes = 1..Len(k.bytes) /\ Len(k.bytes) \in Nat
    BY <1>4, LenProperties
  <2>3. QED
    BY <2>1, <2>2
<1>6. k.bytes \in Seq(Byte) /\ Deref(k) \in Seq(Byte)
      /\ (k.alive => Deref(k) = k.bytes)
  BY <1>4, <1>5 DEF Deref
<1>7. QED
  BY <1>2, <1>3, <1>6

\* handleWrite() moves bytes from outputBuffer_ to the kernel; with the last one
\* a connection that is shutting down closes its write side.
LEMMA WriteEffect ==
  ASSUME StreamInv, HandleWrite
  PROVE  /\ tx' \in Seq(Byte) /\ Len(tx') <= SocketRoom
         /\ output' \in BufferOf(Byte)
         /\ writing' \in BOOLEAN /\ wrShut' \in BOOLEAN
         /\ WriteSide'
         /\ WarnedOncePerFilling' /\ warned' \in Nat
         /\ tx' \o Contents(output') = tx \o Contents(output)
         /\ UNCHANGED <<rx, input, peerSent, taken, handed, strings, functors,
                        state, sent, lost, received>>
<1>1. /\ tx \in Seq(Byte) /\ Len(tx) <= SocketRoom /\ wrShut \in BOOLEAN
      /\ warned \in Nat /\ output \in BufferOf(Byte)
      /\ state \in {"kConnected", "kDisconnecting"}
      /\ writing <=> ReadableBytes(output) # 0
      /\ wrShut => ~writing /\ state = "kDisconnecting"
  BY DEF StreamInv, TypeOK, WriteSide
<1>2. /\ Contents(output) \in Seq(Byte)
      /\ Len(Contents(output)) = ReadableBytes(output)
      /\ ReadableBytes(output) \in Nat
  BY <1>1, ContentsSeq
<1>3. PICK n \in WriteFd :
        /\ tx' = tx \o SubSeq(Contents(output), 1, n)
        /\ output' = Retrieve(output, n)
        /\ writing' = ~(ReadableBytes(output') = 0)
        /\ warned' = IF ReadableBytes(output') < HighWaterMark THEN 0 ELSE warned
        /\ wrShut' = IF ReadableBytes(output') = 0 /\ state = "kDisconnecting"
                     THEN ShutdownInLoop(FALSE) ELSE wrShut
  BY DEF HandleWrite
<1>4. /\ n \in Nat /\ 1 <= n /\ n <= ReadableBytes(output)
      /\ n <= SocketRoom - Len(tx)
  BY <1>2 DEF WriteFd
<1>5. PICK s : s = Peek(output, n)
  OBVIOUS
<1>6. /\ output' \in BufferOf(Byte)
      /\ s \in Seq(Byte) /\ Len(s) = n
      /\ s = SubSeq(Contents(output), 1, n)
      /\ Contents(output) = s \o Contents(output')
      /\ ReadableBytes(output') = ReadableBytes(output) - n
  BY <1>1, <1>3, <1>4, <1>5, RetrieveSplits
<1>7. tx' \in Seq(Byte) /\ Len(tx') <= SocketRoom
  <2>1. tx' = tx \o s
    BY <1>3, <1>6
  <2>2. tx' \in Seq(Byte) /\ Len(tx') = Len(tx) + n
    BY <1>1, <1>6, <2>1, ConcatProperties
  <2>3. QED
    BY <1>1, <1>4, <2>2, StreamAssumption, LenProperties
<1>8. tx' \o Contents(output') = tx \o Contents(output)
  <2>1. PICK c \in Seq(Byte) : c = Contents(output')
    BY <1>6, ContentsSeq
  <2>2. Cat(Cat(tx, s), c) = Cat(tx, Cat(s, c))
    BY <1>1, <1>6, CatAssociative
  <2>3. QED
    BY <1>3, <1>6, <2>1, <2>2 DEF Cat
<1>9. ReadableBytes(output') \in Nat
  BY <1>6, ContentsSeq
<1>10. wrShut' \in BOOLEAN /\ writing' \in BOOLEAN
  BY <1>1, <1>3 DEF ShutdownInLoop
<1>11. UNCHANGED <<rx, input, peerSent, taken, handed, strings, functors,
                   state, sent, lost, received>>
  BY DEF HandleWrite, inVars, appVars
<1>12. WriteSide'
  <2>1. ~wrShut
    BY <1>1 DEF HandleWrite
  <2>2. wrShut' => ReadableBytes(output') = 0 /\ state = "kDisconnecting"
    BY <1>3, <2>1
  <2>3. QED
    BY <1>3, <1>11, <2>2 DEF WriteSide
<1>13. WarnedOncePerFilling' /\ warned' \in Nat
  <2>1. warned = IF ReadableBytes(output) >= HighWaterMark THEN 1 ELSE 0
    BY DEF StreamInv, WarnedOncePerFilling
  <2>2. warned' = IF ReadableBytes(output') >= HighWaterMark THEN 1 ELSE 0
    BY <1>2, <1>3, <1>4, <1>6, <1>9, <2>1, StreamAssumption
  <2>3. QED
    BY <2>2 DEF WarnedOncePerFilling
<1>14. QED
  BY <1>6, <1>7, <1>8, <1>10, <1>11, <1>12, <1>13

\* Every step keeps the types, the buffers, the write side, the callback count
\* and the bytes from the peer.
LEMMA StepInv == StreamInv /\ [Next]_vars => StreamInv'
<1> SUFFICES ASSUME StreamInv, [Next]_vars PROVE StreamInv'
  OBVIOUS
<1>1. /\ rx \in Seq(Byte) /\ tx \in Seq(Byte) /\ peerSent \in Seq(Byte)
      /\ taken \in Seq(Byte) /\ sent \in Seq(Byte) /\ received \in Seq(Byte)
      /\ lost \in Seq(Byte) /\ handed \in Seq(Seq(Byte))
      /\ strings \in Seq([bytes : Seq(Byte), alive : BOOLEAN])
      /\ functors \in Seq(DOMAIN strings)
      /\ writing \in BOOLEAN /\ wrShut \in BOOLEAN
      /\ state \in {"kConnected", "kDisconnecting"}
      /\ Len(tx) <= SocketRoom /\ warned \in Nat
      /\ input \in BufferOf(Byte) /\ output \in BufferOf(Byte)
  BY DEF StreamInv, TypeOK
<1>2. BufferType(input) /\ BufferType(output)
  BY <1>1, TypeOfBuffer
<1>3. CASE HandleRead
  <2>1. /\ rx' \in Seq(Byte) /\ input' \in BufferOf(Byte) /\ InputInv'
        /\ UNCHANGED <<strings, functors, state, wrShut, peerSent, lost, received>>
    BY <1>3, ReadEffect
  <2>2. PICK s \in Seq(Byte) :
          /\ taken' = taken \o s
          /\ \/ /\ state = "kConnected" /\ SendInLoop(s)
                /\ sent' = sent \o s /\ UNCHANGED handed
             \/ /\ handed' = Append(handed, s)
                /\ UNCHANGED <<output, writing, tx, warned, sent>>
             \/ UNCHANGED <<output, writing, tx, warned, sent, handed>>
    BY <1>3, ReadEffect
  <2>3. taken' \in Seq(Byte)
    BY <1>1, <2>2, ConcatProperties
  <2>4. /\ tx' \in Seq(Byte) /\ Len(tx') <= SocketRoom
        /\ output' \in BufferOf(Byte) /\ writing' \in BOOLEAN
        /\ WriteSide' /\ WarnedOncePerFilling' /\ warned' \in Nat
        /\ sent' \in Seq(Byte) /\ handed' \in Seq(Seq(Byte))
    <3>1. CASE SendInLoop(s) /\ state = "kConnected" /\ sent' = sent \o s
               /\ UNCHANGED handed
      <4>1. ~wrShut
        BY <3>1 DEF StreamInv, WriteSide
      <4>2. sent' \in Seq(Byte)
        BY <1>1, <3>1, ConcatProperties
      <4>3. /\ tx' \in Seq(Byte) /\ Len(tx') <= SocketRoom
            /\ output' \in BufferOf(Byte) /\ writing' \in BOOLEAN
            /\ writing' <=> ReadableBytes(output') # 0
            /\ warned' \in Nat /\ WarnedOncePerFilling'
        BY <3>1, SendKeeps
      <4>4. WriteSide'
        BY <2>1, <4>1, <4>3 DEF WriteSide
      <4>5. QED
        BY <1>1, <3>1, <4>2, <4>3, <4>4
    <3>2. CASE UNCHANGED <<output, writing, tx, warned, sent>>
               /\ handed' \in {handed, Append(handed, s)}
      <4>1. handed' \in Seq(Seq(Byte))
        <5>1. Append(handed, s) \in Seq(Seq(Byte))
          BY <1>1, AppendProperties
        <5>2. QED
          BY <1>1, <3>2, <5>1
      <4>2. WriteSide' /\ WarnedOncePerFilling'
        BY <2>1, <3>2 DEF StreamInv, WriteSide, WarnedOncePerFilling
      <4>3. QED
        BY <1>1, <3>2, <4>1, <4>2
    <3>3. QED
      BY <2>2, <3>1, <3>2
  <2>5. BufferType(input)' /\ BufferType(output)'
    BY <2>1, <2>4, TypeOfBuffer DEF BufferType
  <2>6. TypeOK'
    BY <1>1, <2>1, <2>3, <2>4, <2>5 DEF TypeOK
  <2>7. QED
    BY <2>1, <2>4, <2>6 DEF StreamInv
<1>4. CASE RunSend
  <2>1. PICK s : s = Deref(strings[Head(functors)])
    OBVIOUS
  <2>2. /\ functors # <<>> /\ SendInLoop(s)
        /\ sent' = sent \o strings[Head(functors)].bytes
        /\ lost' = IF wrShut THEN lost \o strings[Head(functors)].bytes ELSE lost
        /\ functors' = Tail(functors)
        /\ UNCHANGED <<rx, input, peerSent, taken, handed, strings, state,
                       wrShut, received>>
    BY <1>4, <2>1 DEF RunSend, inVars
  <2>3. s \in Seq(Byte) /\ strings[Head(functors)].bytes \in Seq(Byte)
    BY <2>1, <2>2, DerefSeq
  <2>4. /\ tx' \in Seq(Byte) /\ Len(tx') <= SocketRoom
        /\ output' \in BufferOf(Byte) /\ writing' \in BOOLEAN
        /\ writing' <=> ReadableBytes(output') # 0
        /\ warned' \in Nat /\ WarnedOncePerFilling'
        /\ wrShut => UNCHANGED <<tx, output, writing>>
    BY <2>2, <2>3, SendKeeps
  <2>5. WriteSide'
    BY <2>2, <2>4 DEF StreamInv, WriteSide
  <2>6. sent' \in Seq(Byte) /\ lost' \in Seq(Byte)
    BY <1>1, <2>2, <2>3, ConcatProperties
  <2>7. functors' \in Seq(DOMAIN strings')
    BY <1>1, <2>2, HeadTailProperties
  <2>8. BufferType(input)' /\ BufferType(output)'
    BY <1>1, <2>2, <2>4, TypeOfBuffer DEF BufferType
  <2>9. TypeOK'
    BY <1>1, <2>2, <2>4, <2>6, <2>7, <2>8 DEF TypeOK
  <2>10. InputInv'
    BY <2>2 DEF StreamInv, InputInv
  <2>11. QED
    BY <1>1, <2>2, <2>4, <2>5, <2>9, <2>10 DEF StreamInv
<1>5. CASE HandleWrite
  <2>1. /\ tx' \in Seq(Byte) /\ Len(tx') <= SocketRoom
        /\ output' \in BufferOf(Byte)
        /\ writing' \in BOOLEAN /\ wrShut' \in BOOLEAN
        /\ WriteSide' /\ WarnedOncePerFilling' /\ warned' \in Nat
        /\ UNCHANGED <<rx, input, peerSent, taken, handed, strings, functors,
                       state, sent, lost, received>>
    BY <1>5, WriteEffect
  <2>2. BufferType(input)' /\ BufferType(output)'
    BY <1>1, <2>1, TypeOfBuffer DEF BufferType
  <2>3. TypeOK'
    BY <1>1, <2>1, <2>2 DEF TypeOK
  <2>4. InputInv'
    BY <2>1 DEF StreamInv, InputInv
  <2>5. QED
    BY <1>1, <2>1, <2>3, <2>4 DEF StreamInv
<1>6. CASE Shutdown
  <2>1. /\ UNCHANGED <<rx, input, peerSent, taken, handed, strings, functors,
                       output, writing, tx, warned, sent, lost, received>>
        /\ state' = "kDisconnecting" /\ wrShut' = (wrShut \/ ~writing)
    BY <1>6 DEF Shutdown, ShutdownInLoop, inVars, appVars
  <2>2. WriteSide' /\ WarnedOncePerFilling' /\ InputInv'
    BY <1>1, <2>1 DEF StreamInv, WriteSide, WarnedOncePerFilling, InputInv
  <2>3. BufferType(input)' /\ BufferType(output)'
    BY <1>2, <2>1 DEF BufferType
  <2>4. TypeOK'
    BY <1>1, <2>1, <2>3 DEF TypeOK
  <2>5. QED
    BY <1>1, <2>1, <2>2, <2>4 DEF StreamInv
<1>7. CASE WorkerSend
  <2>1. /\ handed # <<>> /\ handed' = Tail(handed)
        /\ strings' = Append(strings, [bytes |-> Head(handed), alive |-> TRUE])
        /\ functors' \in {functors, Append(functors, Len(strings) + 1)}
        /\ UNCHANGED <<rx, input, peerSent, taken, output, writing, wrShut, tx,
                       warned, sent, lost, state, received>>
    BY <1>7 DEF WorkerSend, inVars, outVars
  <2>2. Head(handed) \in Seq(Byte) /\ handed' \in Seq(Seq(Byte))
    BY <1>1, <2>1, HeadTailProperties
  <2>3. /\ strings' \in Seq([bytes : Seq(Byte), alive : BOOLEAN])
        /\ DOMAIN strings = 1..Len(strings) /\ Len(strings) \in Nat
        /\ DOMAIN strings' = 1..Len(strings) + 1
    BY <1>1, <2>1, <2>2
  <2>4. functors' \in Seq(DOMAIN strings')
    <3>1. DOMAIN strings \subseteq DOMAIN strings'
          /\ Len(strings) + 1 \in DOMAIN strings'
      BY <2>3
    <3>2. functors \in Seq(DOMAIN strings')
      BY <1>1, <3>1, SeqMonotonic
    <3>3. Append(functors, Len(strings) + 1) \in Seq(DOMAIN strings')
      BY <3>1, <3>2, AppendProperties
    <3>4. QED
      BY <2>1, <3>2, <3>3
  <2>5. WriteSide' /\ WarnedOncePerFilling' /\ InputInv'
    BY <2>1 DEF StreamInv, WriteSide, WarnedOncePerFilling, InputInv
  <2>6. BufferType(input)' /\ BufferType(output)'
    BY <1>2, <2>1 DEF BufferType
  <2>7. TypeOK'
    BY <1>1, <2>1, <2>2, <2>3, <2>4, <2>6 DEF TypeOK
  <2>8. QED
    BY <1>1, <2>1, <2>5, <2>7 DEF StreamInv
<1>8. ASSUME NEW i \in DOMAIN strings, StringGone(i) PROVE StreamInv'
  <2>1. /\ strings' = [strings EXCEPT ![i].alive = FALSE]
        /\ UNCHANGED <<rx, input, peerSent, taken, output, writing, wrShut, tx,
                       warned, sent, lost, handed, functors, state, received>>
    BY <1>8 DEF StringGone, inVars, outVars
  <2>2. strings' \in Seq([bytes : Seq(Byte), alive : BOOLEAN])
        /\ DOMAIN strings' = DOMAIN strings
    <3>1. strings[i] \in [bytes : Seq(Byte), alive : BOOLEAN] /\ i \in 1..Len(strings)
      BY <1>1, LenProperties, ElementOfSeq
    <3>2. PICK k : k = [strings[i] EXCEPT !.alive = FALSE]
      OBVIOUS
    <3>3. k \in [bytes : Seq(Byte), alive : BOOLEAN]
      BY <3>1, <3>2
    <3>4. strings' = [strings EXCEPT ![i] = k]
      BY <2>1, <3>2
    <3>5. QED
      BY <1>1, <3>1, <3>3, <3>4
  <2>3. WriteSide' /\ WarnedOncePerFilling' /\ InputInv'
    BY <2>1 DEF StreamInv, WriteSide, WarnedOncePerFilling, InputInv
  <2>4. BufferType(input)' /\ BufferType(output)'
    BY <1>2, <2>1 DEF BufferType
  <2>5. TypeOK'
    BY <1>1, <2>1, <2>2, <2>4 DEF TypeOK
  <2>6. QED
    BY <1>1, <2>1, <2>3, <2>5 DEF StreamInv
<1>9. CASE PeerSend
  <2>1. /\ Len(peerSent) < MaxBytes
        /\ peerSent' = Append(peerSent, Len(peerSent) + 1)
        /\ rx' = Append(rx, Len(peerSent) + 1)
        /\ UNCHANGED <<input, taken, handed, strings, functors, output, writing,
                       wrShut, tx, warned, sent, lost, state, received>>
    BY <1>9 DEF PeerSend, appVars, outVars
  <2>2. PICK x : x = Len(peerSent) + 1
    OBVIOUS
  <2>3. x \in Byte
    BY <1>1, <2>1, <2>2, LenProperties, StreamAssumption DEF Byte
  <2>4. /\ rx' = rx \o <<x>> /\ peerSent' = peerSent \o <<x>>
        /\ <<x>> \in Seq(Byte)
        /\ rx' \in Seq(Byte) /\ peerSent' \in Seq(Byte)
    BY <1>1, <2>1, <2>2, <2>3, AppendProperties, AppendIsConcat, SMTT(30)
  <2>5. InputInv'
    <3>1. PICK c \in Seq(Byte), o \in Seq(Byte) : c = Contents(input) /\ o = <<x>>
      BY <1>1, <2>4, ContentsSeq
    <3>2. peerSent = Cat(taken, Cat(c, rx))
      BY <3>1 DEF StreamInv, InputInv, Cat
    <3>3. Cat(c, rx) \in Seq(Byte)
      BY <1>1, CatAssociative
    <3>4. Cat(Cat(taken, Cat(c, rx)), o) = Cat(taken, Cat(Cat(c, rx), o))
      BY <1>1, <3>3, CatAssociative
    <3>5. Cat(Cat(c, rx), o) = Cat(c, Cat(rx, o))
      BY <1>1, CatAssociative
    <3>6. peerSent' = Cat(taken, Cat(c, rx'))
      BY <2>4, <3>1, <3>2, <3>4, <3>5 DEF Cat
    <3>7. QED
      BY <2>1, <3>1, <3>6 DEF InputInv, Cat
  <2>6. WriteSide' /\ WarnedOncePerFilling'
    BY <2>1 DEF StreamInv, WriteSide, WarnedOncePerFilling
  <2>7. BufferType(input)' /\ BufferType(output)'
    BY <1>2, <2>1 DEF BufferType
  <2>8. TypeOK'
    BY <1>1, <2>1, <2>4, <2>7 DEF TypeOK
  <2>9. QED
    BY <1>1, <2>1, <2>5, <2>6, <2>8 DEF StreamInv
<1>10. CASE PeerReceive
  <2>1. PICK n \in 1..Len(tx) :
          received' = received \o SubSeq(tx, 1, n)
          /\ tx' = SubSeq(tx, n + 1, Len(tx))
    BY <1>10 DEF PeerReceive
  <2>2. UNCHANGED <<rx, input, peerSent, taken, handed, strings, functors,
                    output, writing, state, wrShut, warned, sent, lost>>
    BY <1>10 DEF PeerReceive, inVars, appVars
  <2>3. n \in 0..Len(tx) /\ n \in Nat /\ Len(tx) \in Nat /\ SocketRoom \in Nat
    BY <1>1, LenProperties, StreamAssumption
  <2>4. /\ SubSeq(tx, 1, n) \in Seq(Byte)
        /\ tx' \in Seq(Byte) /\ Len(tx') = Len(tx) - n
    BY <1>1, <2>1, <2>3, Split
  <2>5. received' \in Seq(Byte) /\ Len(tx') <= SocketRoom
    <3>1. received' \in Seq(Byte)
      BY <1>1, <2>1, <2>4, ConcatProperties
    <3>2. Len(tx') <= SocketRoom
      BY <1>1, <2>3, <2>4
    <3>3. QED
      BY <3>1, <3>2
  <2>6. WriteSide' /\ WarnedOncePerFilling' /\ InputInv'
    BY <2>2 DEF StreamInv, WriteSide, WarnedOncePerFilling, InputInv
  <2>7. BufferType(input)' /\ BufferType(output)'
    BY <1>2, <2>2 DEF BufferType
  <2>8. TypeOK'
    BY <1>1, <2>2, <2>4, <2>5, <2>7 DEF TypeOK
  <2>9. QED
    BY <1>1, <2>2, <2>6, <2>8 DEF StreamInv
<1>11. CASE UNCHANGED vars
  <2>1. WriteSide' /\ WarnedOncePerFilling' /\ InputInv'
    BY <1>11 DEF vars, StreamInv, WriteSide, WarnedOncePerFilling, InputInv
  <2>2. BufferType(input)' /\ BufferType(output)'
    BY <1>2, <1>11 DEF vars, BufferType
  <2>3. TypeOK'
    BY <1>1, <1>11, <2>2 DEF vars, TypeOK
  <2>4. QED
    BY <1>1, <1>11, <2>1, <2>3 DEF vars, StreamInv
<1>12. QED
  BY <1>3, <1>4, <1>5, <1>6, <1>7, <1>8, <1>9, <1>10, <1>11 DEF Next, LoopStep

\* Every step keeps the bytes to the peer, if callers of send() keep their
\* strings until they are sent.
LEMMA StepOutput ==
  StringsOutlive /\ StreamInv /\ OutputInv /\ [Next]_vars => OutputInv'
<1> SUFFICES ASSUME StringsOutlive, StreamInv, OutputInv, [Next]_vars
             PROVE  OutputInv'
  OBVIOUS
<1>1. /\ tx \in Seq(Byte) /\ sent \in Seq(Byte) /\ received \in Seq(Byte)
      /\ lost \in Seq(Byte)
      /\ strings \in Seq([bytes : Seq(Byte), alive : BOOLEAN])
      /\ functors \in Seq(DOMAIN strings)
      /\ output \in BufferOf(Byte)
      /\ wrShut => ~writing /\ state = "kDisconnecting"
  BY DEF StreamInv, TypeOK, WriteSide
<1>2. \A i \in 1..Len(functors) : strings[functors[i]].alive
  BY DEF OutputInv
<1>3. PICK c \in Seq(Byte) : c = Contents(output)
  BY <1>1, ContentsSeq
<1>4. Kept = Cat(received, Cat(tx, c)) /\ Kept \in Seq(Byte)
  BY <1>1, <1>3, CatAssociative DEF Kept, Cat
<1>5. ASSUME NEW s \in Seq(Byte), SendInLoop(s), ~wrShut,
             UNCHANGED <<received, lost, wrShut>>, sent' = sent \o s
      PROVE  (lost # <<>> => wrShut)' /\ (sent = Kept \o lost)'
  <2>1. tx' \o Contents(output') = (tx \o Contents(output)) \o s
    BY <1>5, SendKeeps
  <2>2. Cat(tx, c) \in Seq(Byte)
    BY <1>1, CatAssociative
  <2>3. Cat(Cat(received, Cat(tx, c)), s) = Cat(received, Cat(Cat(tx, c), s))
    BY <1>1, <2>2, CatAssociative
  <2>4. Kept' = Kept \o s
    BY <1>3, <1>4, <1>5, <2>1, <2>3 DEF Kept, Cat
  <2>5. lost = <<>> /\ sent = Kept
    BY <1>4, <1>5, ConcatEmptySeq DEF OutputInv
  <2>6. Kept' \in Seq(Byte)
    BY <1>4, <1>5, <2>4, ConcatProperties
  <2>7. QED
    BY <1>5, <2>4, <2>5, <2>6, ConcatEmptySeq
<1>6. ASSUME UNCHANGED <<functors, strings>>
      PROVE  (\A i \in 1..Len(functors) : strings[functors[i]].alive)'
  BY <1>2, <1>6
<1>a. ASSUME UNCHANGED <<sent, lost>>, wrShut => wrShut', Kept' = Kept
      PROVE  (lost # <<>> => wrShut)' /\ (sent = Kept \o lost)'
  BY <1>a DEF OutputInv
<1>7. CASE HandleRead
  <2>1. UNCHANGED <<strings, functors, wrShut, lost, received>>
    BY <1>7, ReadEffect
  <2>2. PICK s \in Seq(Byte) :
          \/ /\ state = "kConnected" /\ SendInLoop(s) /\ sent' = sent \o s
          \/ UNCHANGED <<output, tx, sent>>
    BY <1>7, ReadEffect
  <2>3. (lost # <<>> => wrShut)' /\ (sent = Kept \o lost)'
    <3>1. CASE state = "kConnected" /\ SendInLoop(s) /\ sent' = sent \o s
      BY <1>1, <1>5, <2>1, <3>1
    <3>2. CASE UNCHANGED <<output, tx, sent>>
      BY <1>a, <2>1, <3>2 DEF Kept
    <3>3. QED
      BY <2>2, <3>1, <3>2
  <2>4. QED
    BY <1>6, <2>1, <2>3 DEF OutputInv
<1>8. CASE RunSend
  <2>1. PICK s : s = Deref(strings[Head(functors)])
    OBVIOUS
  <2>2. /\ functors # <<>> /\ SendInLoop(s)
        /\ sent' = sent \o strings[Head(functors)].bytes
        /\ lost' = IF wrShut THEN lost \o strings[Head(functors)].bytes ELSE lost
        /\ functors' = Tail(functors)
        /\ UNCHANGED <<strings, received, wrShut>>
    BY <1>8, <2>1 DEF RunSend
  <2>3. /\ Len(functors) \in Nat \ {0} /\ Head(functors) = functors[1]
        /\ Len(functors') = Len(functors) - 1
        /\ \A i \in 1..Len(functors') : functors'[i] = functors[i + 1]
    BY <1>1, <2>2
  <2>4. (\A i \in 1..Len(functors) : strings[functors[i]].alive)'
    BY <1>2, <2>2, <2>3
  <2>5. s \in Seq(Byte) /\ s = strings[Head(functors)].bytes
    <3>1. strings[Head(functors)].alive
      BY <1>2, <2>3
    <3>2. QED
      BY <2>1, <2>2, <3>1, DerefSeq
  <2>6. (lost # <<>> => wrShut)' /\ (sent = Kept \o lost)'
    <3>1. CASE wrShut
      <4>0. UNCHANGED <<tx, output>>
        BY <2>2, <2>5, <3>1, SendKeeps
      <4>1. Kept' = Kept
        BY <2>2, <4>0 DEF Kept
      <4>2. sent = Cat(Kept, lost) /\ sent' = Cat(sent, s) /\ lost' = Cat(lost, s)
        BY <2>2, <2>5, <3>1 DEF OutputInv, Cat
      <4>3. Cat(Cat(Kept, lost), s) = Cat(Kept, Cat(lost, s))
        <5>1. Kept \in Seq(Byte) /\ lost \in Seq(Byte) /\ s \in Seq(Byte)
          BY <1>1, <1>4, <2>5
        <5>2. QED
          BY <5>1, CatAssociative
      <4>4. QED
        BY <2>2, <3>1, <4>1, <4>2, <4>3 DEF Cat
    <3>2. CASE ~wrShut
      BY <1>5, <2>2, <2>5, <3>2
    <3>3. QED
      BY <3>1, <3>2
  <2>7. QED
    BY <2>4, <2>6 DEF OutputInv
<1>9. CASE HandleWrite
  <2>1. /\ tx' \o Contents(output') = tx \o Contents(output)
        /\ UNCHANGED <<strings, functors, sent, lost, received>>
    BY <1>9, WriteEffect
  <2>2. ~wrShut
    BY <1>1, <1>9 DEF HandleWrite
  <2>3. QED
    BY <1>6, <1>a, <2>1, <2>2 DEF OutputInv, Kept
<1>10. CASE Shutdown \/ PeerSend \/ UNCHANGED vars
  <2>1. /\ UNCHANGED <<strings, functors, sent, lost, received, tx, output>>
        /\ wrShut => wrShut'
    <3>1. CASE Shutdown
      BY <3>1 DEF Shutdown, ShutdownInLoop, inVars, appVars
    <3>2. CASE PeerSend \/ UNCHANGED vars
      BY <3>2 DEF PeerSend, vars, outVars, appVars
    <3>3. QED
      BY <1>10, <3>1, <3>2
  <2>2. QED
    BY <1>6, <1>a, <2>1 DEF OutputInv, Kept
<1>11. CASE WorkerSend
  <2>1. PICK k : k = [bytes |-> Head(handed), alive |-> TRUE]
    OBVIOUS
  <2>2. /\ strings' = Append(strings, k) /\ k.alive
        /\ functors' \in {functors, Append(functors, Len(strings) + 1)}
        /\ UNCHANGED <<sent, lost, wrShut, received, tx, output>>
    BY <1>11, <2>1 DEF WorkerSend, outVars
  <2>3. /\ Len(strings) \in Nat /\ Len(functors) \in Nat
        /\ \A j \in 1..Len(strings) : strings'[j] = strings[j]
        /\ strings'[Len(strings) + 1] = k
        /\ \A i \in 1..Len(functors) : functors[i] \in 1..Len(strings)
    BY <1>1, <2>2, SMTT(30)
  <2>4. \A i \in 1..Len(functors) : strings'[functors[i]].alive
    BY <1>2, <2>3
  <2>5. (\A i \in 1..Len(functors) : strings[functors[i]].alive)'
    <3>1. CASE functors' = functors
      BY <2>4, <3>1
    <3>2. CASE functors' = Append(functors, Len(strings) + 1)
      <4>1. /\ Len(functors') = Len(functors) + 1
            /\ \A i \in 1..Len(functors) : functors'[i] = functors[i]
            /\ functors'[Len(functors) + 1] = Len(strings) + 1
        BY <1>1, <3>2
      <4>2. SUFFICES ASSUME NEW i \in 1..Len(functors')
                     PROVE  strings'[functors'[i]].alive
        OBVIOUS
      <4>3. i \in 1..Len(functors) \/ i = Len(functors) + 1
        BY <2>3, <4>1
      <4>4. QED
        BY <2>2, <2>3, <2>4, <4>1, <4>3
    <3>3. QED
      BY <2>2, <3>1, <3>2
  <2>6. QED
    BY <1>a, <2>2, <2>5 DEF OutputInv, Kept
<1>12. ASSUME NEW j \in DOMAIN strings, StringGone(j) PROVE OutputInv'
  <2>1. /\ j \notin Range(functors)
        /\ strings' = [strings EXCEPT ![j].alive = FALSE]
        /\ UNCHANGED <<functors, sent, lost, wrShut, received, tx, output>>
    BY <1>12 DEF StringGone, outVars
  <2>2. \A i \in 1..Len(functors) : functors[i] # j /\ functors[i] \in DOMAIN strings
    <3>1. DOMAIN functors = 1..Len(functors)
      BY <1>1
    <3>2. \A i \in 1..Len(functors) : functors[i] \in Range(functors)
      BY <3>1 DEF Range
    <3>3. QED
      BY <1>1, <2>1, <3>2, ElementOfSeq
  <2>3. \A i \in 1..Len(functors) : strings'[functors[i]] = strings[functors[i]]
    BY <2>1, <2>2
  <2>4. (\A i \in 1..Len(functors) : strings[functors[i]].alive)'
    BY <1>2, <2>1, <2>3
  <2>5. QED
    BY <1>a, <2>1, <2>4 DEF OutputInv, Kept
<1>13. CASE PeerReceive
  <2>1. PICK n \in 1..Len(tx) :
          received' = received \o SubSeq(tx, 1, n)
          /\ tx' = SubSeq(tx, n + 1, Len(tx))
    BY <1>13 DEF PeerReceive
  <2>2. UNCHANGED <<strings, functors, output, sent, lost, wrShut>>
    BY <1>13 DEF PeerReceive, appVars
  <2>3. n \in 0..Len(tx)
    BY <1>1, LenProperties
  <2>4. /\ SubSeq(tx, 1, n) \in Seq(Byte)
        /\ SubSeq(tx, n + 1, Len(tx)) \in Seq(Byte)
        /\ tx = SubSeq(tx, 1, n) \o SubSeq(tx, n + 1, Len(tx))
    BY <1>1, <2>3, Split
  <2>5. PICK f \in Seq(Byte), r \in Seq(Byte) :
          f = SubSeq(tx, 1, n) /\ r = SubSeq(tx, n + 1, Len(tx))
    BY <2>4
  <2>6. received' = Cat(received, f) /\ tx' = r /\ tx = Cat(f, r)
    BY <2>1, <2>4, <2>5, Zenon DEF Cat
  <2>7. Cat(r, c) \in Seq(Byte) /\ Cat(Cat(f, r), c) = Cat(f, Cat(r, c))
    BY CatAssociative
  <2>8. Cat(Cat(received, f), Cat(r, c)) = Cat(received, Cat(f, Cat(r, c)))
    BY <1>1, <2>7, CatAssociative
  <2>9. Kept' = Kept
    BY <1>3, <1>4, <2>2, <2>6, <2>7, <2>8 DEF Kept, Cat
  <2>10. QED
    BY <1>6, <1>a, <2>2, <2>9 DEF OutputInv
<1>14. QED
  BY <1>7, <1>8, <1>9, <1>10, <1>11, <1>12, <1>13 DEF Next, LoopStep

-----------------------------------------------------------------------------
(* The theorems.                                                           *)

\* makeSpace(), append(), retrieve() and readFd() leave both buffers with their
\* indices in order and inside the vector, and no variable leaves its type.
THEOREM BuffersStayWellFormed == Spec => []BuffersWellFormed
<1>1. StreamInv => BuffersWellFormed
  BY DEF StreamInv, BuffersWellFormed, BufferOf
<1>2. QED
  BY <1>1, InitInv, StepInv, PTL DEF Spec

\* highWaterMarkCallback_ is called once each time outputBuffer_ fills up to
\* the mark.
THEOREM CallbackOncePerFilling == Spec => []WarnedOncePerFilling
<1>1. StreamInv => WarnedOncePerFilling
  BY DEF StreamInv
<1>2. QED
  BY <1>1, InitInv, StepInv, PTL DEF Spec

\* shutdown() is graceful: shutdownWrite() is called only when everything that
\* was sent is with the kernel or beyond; only later sends are given up.
THEOREM ShutdownIsGraceful ==
  ASSUME StringsOutlive PROVE Spec => []ClosedAfterAllIsWritten
<1>1. StreamInv /\ OutputInv => ClosedAfterAllIsWritten
  <2> SUFFICES ASSUME StreamInv, OutputInv, wrShut
               PROVE  sent = (received \o tx) \o lost
    BY DEF ClosedAfterAllIsWritten, OutputInv
  <2>1. output \in BufferOf(Byte) /\ ReadableBytes(output) = 0 /\ tx \in Seq(Byte)
    BY DEF StreamInv, WriteSide, TypeOK
  <2>2. Contents(output) = <<>>
    BY <2>1, ContentsSeq
  <2>3. tx \o Contents(output) = tx
    BY <2>1, <2>2, ConcatEmptySeq
  <2>4. QED
    BY <2>3 DEF OutputInv, Kept
<1>2. QED
  BY <1>1, InitInv, StepInv, StepOutput, PTL DEF Spec

\* The way to the application is a queue of bytes: Spec implements ByteQueue
\* with the bytes of the peer put in and those retrieved got out.
THEOREM InputImplementsQueue == Spec => ImplementsInput
<1>1. Init => InputIsQueue!Init
  BY DEF Init, InputIsQueue!Init
<1>2. StreamInv /\ StreamInv' /\ [Next]_vars
        => [InputIsQueue!Next]_(InputIsQueue!vars)
  <2> SUFFICES ASSUME StreamInv, StreamInv', [Next]_vars
               PROVE  InputIsQueue!Next \/ UNCHANGED <<peerSent, taken>>
    BY DEF InputIsQueue!vars
  <2>1. /\ peerSent \in Seq(Byte) /\ taken \in Seq(Byte) /\ taken' \in Seq(Byte)
        /\ rx' \in Seq(Byte) /\ input' \in BufferOf(Byte)
        /\ peerSent' = taken' \o (Contents(input') \o rx')
    BY DEF StreamInv, TypeOK, InputInv
  <2>2. CASE HandleRead
    <3>1. PICK s \in Seq(Byte) : taken' = taken \o s
      BY <2>2, ReadEffect
    <3>2. IsPrefix(taken, taken')
      BY <2>1, <3>1, PrefixOfConcat
    <3>3. PICK q : q = Contents(input') \o rx'
      OBVIOUS
    <3>4. q \in Seq(Byte) /\ peerSent' = taken' \o q
      BY <2>1, <3>3, ContentsSeq, ConcatProperties
    <3>5. IsPrefix(taken', peerSent')
      BY <2>1, <3>4, PrefixOfConcat
    <3>6. UNCHANGED peerSent
      BY <2>2 DEF HandleRead
    <3>7. QED
      BY <3>2, <3>5, <3>6 DEF IsPrefix, InputIsQueue!IsPrefix,
                              InputIsQueue!Next, InputIsQueue!Get
  <2>3. CASE PeerSend
    <3>1. PICK x : x = Len(peerSent) + 1
      OBVIOUS
    <3>2. x \in Byte
      BY <2>1, <2>3, <3>1, LenProperties, StreamAssumption DEF PeerSend, Byte
    <3>3. <<x>> \in Seq(Byte) /\ peerSent' = peerSent \o <<x>>
      BY <2>1, <2>3, <3>1, <3>2, AppendIsConcat DEF PeerSend
    <3>4. IsPrefix(peerSent, peerSent') /\ UNCHANGED taken
      BY <2>1, <2>3, <3>3, PrefixOfConcat DEF PeerSend
    <3>5. QED
      BY <3>4 DEF IsPrefix, InputIsQueue!IsPrefix,
                  InputIsQueue!Next, InputIsQueue!Put
  <2>4. CASE ~HandleRead /\ ~PeerSend
    BY <2>4 DEF Next, LoopStep, RunSend, HandleWrite, Shutdown, WorkerSend,
                StringGone, PeerReceive, inVars, vars
  <2>5. QED
    BY <2>2, <2>3, <2>4
<1>3. QED
  BY <1>1, <1>2, InitInv, StepInv, PTL
     DEF Spec, ImplementsInput, InputIsQueue!Spec

\* So is the way to the peer, with the bytes for which sendInLoop() was called
\* put in and those the peer has received got out.
THEOREM OutputImplementsQueue ==
  ASSUME StringsOutlive PROVE Spec => ImplementsOutput
<1>1. Init => OutputIsQueue!Init
  BY DEF Init, OutputIsQueue!Init
<1>2. StreamInv /\ StreamInv' /\ OutputInv' /\ [Next]_vars
        => [OutputIsQueue!Next]_(OutputIsQueue!vars)
  <2> SUFFICES ASSUME StreamInv, StreamInv', OutputInv', [Next]_vars
               PROVE  OutputIsQueue!Next \/ UNCHANGED <<sent, received>>
    BY DEF OutputIsQueue!vars
  <2>1. /\ sent \in Seq(Byte) /\ received \in Seq(Byte) /\ received' \in Seq(Byte)
        /\ tx \in Seq(Byte) /\ tx' \in Seq(Byte) /\ output' \in BufferOf(Byte)
        /\ lost' \in Seq(Byte)
        /\ sent' = (received' \o (tx' \o Contents(output'))) \o lost'
    BY DEF StreamInv, TypeOK, OutputInv, Kept
  <2>2. ASSUME NEW s \in Seq(Byte), sent' = sent \o s, UNCHANGED received
        PROVE  OutputIsQueue!Next
    <3>1. IsPrefix(sent, sent')
      BY <2>1, <2>2, PrefixOfConcat
    <3>2. QED
      BY <2>2, <3>1 DEF IsPrefix, OutputIsQueue!IsPrefix,
                        OutputIsQueue!Next, OutputIsQueue!Put
  <2>3. CASE HandleRead
    <3>1. PICK s \in Seq(Byte) : sent' = sent \o s \/ UNCHANGED sent
      BY <2>3, ReadEffect
    <3>2. QED
      BY <2>2, <2>3, <3>1 DEF HandleRead
  <2>4. CASE RunSend
    <3>1. PICK s \in Seq(Byte) : sent' = sent \o s \/ UNCHANGED sent
      BY <2>4, DerefSeq DEF RunSend
    <3>2. QED
      BY <2>2, <2>4, <3>1 DEF RunSend
  <2>5. CASE PeerReceive
    <3>1. PICK n \in 1..Len(tx) : received' = received \o SubSeq(tx, 1, n)
      BY <2>5 DEF PeerReceive
    <3>2. SubSeq(tx, 1, n) \in Seq(Byte)
      <4>1. n \in 0..Len(tx)
        BY <2>1, LenProperties
      <4>2. QED
        BY <2>1, <4>1, Split
    <3>3. IsPrefix(received, received')
      BY <2>1, <3>1, <3>2, PrefixOfConcat
    <3>4. PICK q : q = tx' \o Contents(output')
      OBVIOUS
    <3>5. q \in Seq(Byte) /\ sent' = Cat(Cat(received', q), lost')
      <4>1. q \in Seq(Byte)
        BY <2>1, <3>4, ContentsSeq, ConcatProperties
      <4>2. sent' = (received' \o q) \o lost'
        BY <2>1, <3>4
      <4>3. QED
        BY <4>1, <4>2 DEF Cat
    <3>a. Cat(q, lost') \in Seq(Byte) /\ sent' = received' \o Cat(q, lost')
      <4>1. /\ Cat(q, lost') \in Seq(Byte)
            /\ Cat(Cat(received', q), lost') = Cat(received', Cat(q, lost'))
        BY <2>1, <3>5, CatAssociative
      <4>2. QED
        BY <3>5, <4>1 DEF Cat
    <3>6. IsPrefix(received', sent') /\ UNCHANGED sent
      BY <2>1, <2>5, <3>a, PrefixOfConcat DEF PeerReceive
    <3>7. QED
      BY <3>3, <3>6 DEF IsPrefix, OutputIsQueue!IsPrefix,
                        OutputIsQueue!Next, OutputIsQueue!Get
  <2>6. CASE ~HandleRead /\ ~RunSend /\ ~PeerReceive
    BY <2>6 DEF Next, LoopStep, HandleWrite, Shutdown, WorkerSend,
                StringGone, PeerSend, outVars, vars
  <2>7. QED
    BY <2>3, <2>4, <2>5, <2>6
<1>3. QED
  BY <1>1, <1>2, InitInv, StepInv, StepOutput, PTL
     DEF Spec, ImplementsOutput, OutputIsQueue!Spec
=============================================================================
