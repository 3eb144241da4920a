------------------------------- MODULE Buffer -------------------------------
(***************************************************************************)
(* Buffer of MyMuduo: a vector of bytes and two indices into it,           *)
(*                                                                         *)
(*   | prependable |  readable  |  writeable  |                            *)
(*   0     <=   reader   <=   writer   <=   Len(data)                      *)
(*                                                                         *)
(* as a record, and its member functions as operators on the record.  The  *)
(* indices count from 0, as in the code: the byte at index i is data[i+1]. *)
(***************************************************************************)
EXTENDS Naturals, Sequences

CONSTANTS kCheapPrepend,  \* bytes kept free in front of the contents
          kInitialSize,   \* room for contents in a new buffer
          ExtraSize       \* sizeof extrabuf in readFd()

ASSUME BufferAssumption ==
  /\ kCheapPrepend \in Nat /\ kInitialSize \in Nat /\ ExtraSize \in Nat \ {0}

\* What a byte of the vector holds that nobody has written yet.
Zero == 0

Zeros(n) == [i \in 1..n |-> Zero]

NewBuffer ==
  [data |-> Zeros(kCheapPrepend + kInitialSize),
   reader |-> kCheapPrepend, writer |-> kCheapPrepend]

ReadableBytes(b) == b.writer - b.reader
WriteableBytes(b) == Len(b.data) - b.writer
PrependableBytes(b) == b.reader

\* The contents: the bytes from peek() on.
Contents(b) == SubSeq(b.data, b.reader + 1, b.writer)

\* The indices stay in order and inside the vector.
WellFormed(b) ==
  /\ kCheapPrepend <= b.reader
  /\ b.reader <= b.writer
  /\ b.writer <= Len(b.data)

-----------------------------------------------------------------------------
(* Taking bytes out.                                                       *)

RetrieveAll(b) ==
  [b EXCEPT !.reader = kCheapPrepend, !.writer = kCheapPrepend]

\* Asking for more than there is takes everything.
Retrieve(b, len) ==
  IF len < ReadableBytes(b) THEN [b EXCEPT !.reader = @ + len]
  ELSE RetrieveAll(b)

\* The string that retrieveAsString(len) returns, len <= readableBytes();
\* retrieve(len) follows.
Peek(b, len) == SubSeq(b.data, b.reader + 1, b.reader + len)

-----------------------------------------------------------------------------
(* Putting bytes in.                                                       *)

\* std::copy() of s to the index at.
CopyTo(data, at, s) ==
  [i \in 1..Len(data) |->
     IF at < i /\ i <= at + Len(s) THEN s[i - at] ELSE data[i]]

\* buffer_.resize(n), n >= size(): the contents stay at the same indices.
Resize(b, n) ==
  [data |-> b.data \o Zeros(n - Len(b.data)),
   reader |-> b.reader, writer |-> b.writer]

\* Moves the contents to the front.
Compact(b) ==
  [data |-> CopyTo(b.data, kCheapPrepend, Contents(b)),
   reader |-> kCheapPrepend,
   writer |-> kCheapPrepend + ReadableBytes(b)]

NeedsGrowingIgnoresPrepend(b, len) ==
  WriteableBytes(b) + PrependableBytes(b) < len

\* Not even the space in front and behind together is enough.
NeedsGrowing(b, len) ==
  WriteableBytes(b) + PrependableBytes(b) < len + kCheapPrepend

MakeSpace(b, len) ==
  IF NeedsGrowing(b, len) THEN Resize(b, b.writer + len) ELSE Compact(b)

EnsureWriteableBytes(b, len) ==
  IF WriteableBytes(b) < len THEN MakeSpace(b, len) ELSE b

\* append()
AppendBytes(b, s) ==
  LET e == EnsureWriteableBytes(b, Len(s))
  IN  [e EXCEPT !.data = CopyTo(@, e.writer, s), !.writer = @ + Len(s)]

-----------------------------------------------------------------------------
(* Sockets.                                                                *)

\* What readv() has room for: the vector's tail, and extrabuf when the tail
\* is shorter than that.
ReadRoom(b) ==
  IF WriteableBytes(b) < ExtraSize THEN WriteableBytes(b) + ExtraSize
  ELSE WriteableBytes(b)

\* readv() has written into the vector's tail only.
ReadInPlace(b, s) ==
  [b EXCEPT !.data = CopyTo(@, b.writer, s), !.writer = @ + Len(s)]

\* The vector's tail is full: writerIndex_ = buffer_.size().
FillTail(b, s) ==
  [data |-> CopyTo(b.data, b.writer, s),
   reader |-> b.reader, writer |-> Len(b.data)]

ReadOverflowAppendsAll(b, s) ==
  AppendBytes(FillTail(b, SubSeq(s, 1, WriteableBytes(b))), s)

\* ... and the rest of s is in extrabuf.
ReadOverflow(b, s) ==
  LET n == WriteableBytes(b)
  IN  AppendBytes(FillTail(b, SubSeq(s, 1, n)), SubSeq(s, n + 1, Len(s)))

\* readFd(), when readv() delivers the bytes s
ReadFd(b, s) ==
  IF Len(s) <= WriteableBytes(b) THEN ReadInPlace(b, s) ELSE ReadOverflow(b, s)
=============================================================================
