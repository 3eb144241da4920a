---------------------------- MODULE BufferProofs ----------------------------
(***************************************************************************)
(* What the member functions of Buffer do to the indices and the contents, *)
(* for every vector size, every string and every set B of bytes.           *)
(***************************************************************************)
EXTENDS Buffer, SequenceTheorems, TLAPS

\* A buffer with the vector d and the indices r and w.
Buf(d, r, w) == [data |-> d, reader |-> r, writer |-> w]

\* Buffers whose vector holds elements of B and whose indices are in order.
BufferOf(B) ==
  {b \in [data : Seq(B), reader : Nat, writer : Nat] : WellFormed(b)}

-----------------------------------------------------------------------------
(* Sequences.                                                              *)

\* buffer_.resize() fills with zeros.
LEMMA ZerosSeq ==
  ASSUME NEW B, Zero \in B, NEW n \in Nat
  PROVE  Zeros(n) \in Seq(B) /\ Len(Zeros(n)) = n
BY DEF Zeros

\* A sequence is its first n elements and the rest.
LEMMA Split ==
  ASSUME NEW S, NEW s \in Seq(S), NEW n \in 0..Len(s)
  PROVE  /\ SubSeq(s, 1, n) \in Seq(S) /\ Len(SubSeq(s, 1, n)) = n
         /\ SubSeq(s, n + 1, Len(s)) \in Seq(S)
         /\ Len(SubSeq(s, n + 1, Len(s))) = Len(s) - n
         /\ s = SubSeq(s, 1, n) \o SubSeq(s, n + 1, Len(s))
<1>1. n \in Nat /\ n <= Len(s) /\ Len(s) \in Nat
  OBVIOUS
<1>2. /\ SubSeq(s, 1, n) \in Seq(S) /\ Len(SubSeq(s, 1, n)) = n
      /\ SubSeq(s, n + 1, Len(s)) \in Seq(S)
      /\ Len(SubSeq(s, n + 1, Len(s))) = Len(s) - n
  BY <1>1
<1>3. SubSeq(s, 1, n) \o SubSeq(s, n + 1, Len(s)) = SubSeq(s, 1, Len(s))
  <2>1. /\ 1 \in 1..Len(s) + 1 /\ n \in 1 - 1..Len(s) /\ Len(s) \in n..Len(s)
    BY <1>1
  <2>2. QED
    BY <2>1, ConcatAdjacentSubSeq
<1>4. QED
  BY <1>2, <1>3, SubSeqFull

\* std::copy() behind the index at leaves what is in front of at alone.
LEMMA CopyToSeq ==
  ASSUME NEW B, NEW data \in Seq(B), NEW s \in Seq(B), NEW at \in Nat,
         at + Len(s) <= Len(data)
  PROVE  /\ CopyTo(data, at, s) \in Seq(B)
         /\ Len(CopyTo(data, at, s)) = Len(data)
         /\ \A i \in 1..at : CopyTo(data, at, s)[i] = data[i]
         /\ \A i \in 1..Len(s) : CopyTo(data, at, s)[at + i] = s[i]
<1> DEFINE c == CopyTo(data, at, s)
<1>1. \A i \in 1..Len(data) : c[i] \in B
  BY DEF CopyTo
<1>2. c \in Seq(B) /\ Len(c) = Len(data)
  BY <1>1 DEF CopyTo
<1>3. \A i \in 1..at : c[i] = data[i]
  BY DEF CopyTo
<1>4. \A i \in 1..Len(s) : c[at + i] = s[i]
  BY DEF CopyTo
<1>5. QED
  BY <1>2, <1>3, <1>4

\* Copying s to where the contents r..w end makes them longer by s.
LEMMA CopyExtends ==
  ASSUME NEW B, NEW d \in Seq(B), NEW s \in Seq(B), NEW r \in Nat, NEW w \in Nat,
         r <= w, w + Len(s) <= Len(d)
  PROVE  SubSeq(CopyTo(d, w, s), r + 1, w + Len(s)) = SubSeq(d, r + 1, w) \o s
<1> DEFINE c == CopyTo(d, w, s)
           left == SubSeq(c, r + 1, w + Len(s))
           right == SubSeq(d, r + 1, w) \o s
<1>1. /\ c \in Seq(B) /\ Len(c) = Len(d)
      /\ \A i \in 1..w : c[i] = d[i]
      /\ \A i \in 1..Len(s) : c[w + i] = s[i]
  BY CopyToSeq
<1> HIDE DEF c
<1>2. /\ left \in Seq(B) /\ Len(left) = w + Len(s) - r
      /\ \A i \in 1..w + Len(s) - r : left[i] = c[r + i]
  BY <1>1
<1>3. /\ right \in Seq(B) /\ Len(right) = w + Len(s) - r
      /\ \A i \in 1..w + Len(s) - r :
           right[i] = IF i <= w - r THEN d[r + i] ELSE s[i - (w - r)]
  <2> DEFINE front == SubSeq(d, r + 1, w)
  <2>1. /\ front \in Seq(B) /\ Len(front) = w - r
        /\ \A i \in 1..w - r : front[i] = d[r + i]
    OBVIOUS
  <2> HIDE DEF front
  <2>2. /\ front \o s \in Seq(B) /\ Len(front \o s) = (w - r) + Len(s)
        /\ \A i \in 1..(w - r) + Len(s) :
             (front \o s)[i] = IF i <= w - r THEN front[i] ELSE s[i - (w - r)]
    <3>1. /\ front \o s \in Seq(B) /\ Len(front \o s) = Len(front) + Len(s)
          /\ \A i \in 1..Len(front) + Len(s) :
               (front \o s)[i] =
                 IF i <= Len(front) THEN front[i] ELSE s[i - Len(front)]
      BY <2>1, ConcatProperties, ZenonT(30)
    <3>2. QED
      BY <2>1, <3>1
  <2>3. (w - r) + Len(s) = w + Len(s) - r
    OBVIOUS
  <2>4. \A i \in 1..w + Len(s) - r : i <= w - r => i \in 1..w - r
    OBVIOUS
  <2>5. QED
    BY <2>1, <2>2, <2>3, <2>4 DEF front
<1> HIDE DEF left, right
<1>4. ASSUME NEW i \in 1..Len(left) PROVE left[i] = right[i]
  <2>1. CASE i <= w - r
    BY <1>1, <1>2, <1>3, <2>1
  <2>2. CASE i > w - r
    <3>1. i - (w - r) \in 1..Len(s) /\ r + i = w + (i - (w - r))
      BY <1>2, <2>2
    <3>2. c[r + i] = s[i - (w - r)]
      BY <1>1, <3>1
    <3>3. QED
      BY <1>2, <1>3, <2>2, <3>2
  <2>3. QED
    BY <1>2, <2>1, <2>2
<1>5. left = right
  BY <1>2, <1>3, <1>4, SeqEqual
<1>6. QED
  BY <1>5 DEF left, right, c

\* Copying to the front: the contents are what was copied.
LEMMA CopyFront ==
  ASSUME NEW B, NEW d \in Seq(B), NEW s \in Seq(B), NEW k \in Nat,
         k + Len(s) <= Len(d)
  PROVE  SubSeq(CopyTo(d, k, s), k + 1, k + Len(s)) = s
<1>1. SubSeq(d, k + 1, k) = <<>>
  OBVIOUS
<1>2. QED
  <2>1. SubSeq(CopyTo(d, k, s), k + 1, k + Len(s)) = SubSeq(d, k + 1, k) \o s
    <3>1. k <= k
      OBVIOUS
    <3>2. QED
      BY <3>1, CopyExtends
  <2>2. QED
    BY <1>1, <2>1, ConcatEmptySeq

-----------------------------------------------------------------------------
(* The record.                                                             *)

\* Every buffer is of this form, and whatever is of this form is a buffer.
LEMMA Parts ==
  ASSUME NEW B
  PROVE  /\ \A b \in BufferOf(B) :
              \E d \in Seq(B), r \in Nat, w \in Nat :
                /\ b = Buf(d, r, w)
                /\ kCheapPrepend <= r /\ r <= w /\ w <= Len(d)
         /\ \A d \in Seq(B), r \in Nat, w \in Nat :
              kCheapPrepend <= r /\ r <= w /\ w <= Len(d)
                => Buf(d, r, w) \in BufferOf(B)
BY DEF BufferOf, WellFormed, Buf

\* Contents and sizes of a buffer.
LEMMA ContentsSeq ==
  ASSUME NEW B, NEW b \in BufferOf(B)
  PROVE  /\ b.data \in Seq(B) /\ b.reader \in Nat /\ b.writer \in Nat
         /\ Contents(b) \in Seq(B)
         /\ Len(Contents(b)) = ReadableBytes(b)
         /\ ReadableBytes(b) \in Nat
         /\ WriteableBytes(b) \in Nat
<1>1. PICK d \in Seq(B), r \in Nat, w \in Nat :
        b = Buf(d, r, w) /\ kCheapPrepend <= r /\ r <= w /\ w <= Len(d)
  BY Parts
<1>2. SubSeq(d, r + 1, w) \in Seq(B) /\ Len(SubSeq(d, r + 1, w)) = w - r
      /\ w - r \in Nat /\ Len(d) - w \in Nat
  BY <1>1
<1>3. b = Buf(d, r, w)
  BY <1>1
<1>4. QED
  BY <1>2, <1>3 DEF Buf, Contents, ReadableBytes, WriteableBytes

\* A new buffer is empty and has kCheapPrepend bytes in front.
LEMMA NewBufferEmpty ==
  ASSUME NEW B, Zero \in B
  PROVE  /\ NewBuffer \in BufferOf(B)
         /\ Contents(NewBuffer) = <<>>
         /\ ReadableBytes(NewBuffer) = 0
<1> DEFINE z == Zeros(kCheapPrepend + kInitialSize)
<1>1. kCheapPrepend \in Nat /\ kCheapPrepend + kInitialSize \in Nat
      /\ kCheapPrepend <= kCheapPrepend + kInitialSize
  BY BufferAssumption
<1>2. z \in Seq(B) /\ Len(z) = kCheapPrepend + kInitialSize
  BY <1>1, ZerosSeq
<1>3. NewBuffer = Buf(z, kCheapPrepend, kCheapPrepend)
  BY DEF NewBuffer, Buf
<1> HIDE DEF z
<1>4. NewBuffer \in BufferOf(B)
  BY <1>1, <1>2, <1>3, Parts
<1>5. ReadableBytes(NewBuffer) = 0
  BY <1>1, <1>3 DEF Buf, ReadableBytes
<1>6. SubSeq(z, kCheapPrepend + 1, kCheapPrepend) = <<>>
  BY <1>1, <1>2
<1>7. QED
  BY <1>3, <1>4, <1>5, <1>6 DEF Buf, Contents

\* retrieve(len) and retrieveAsString(len): the string is the front of the
\* contents and what stays is the rest; asking for too much empties the buffer.
LEMMA RetrieveSplits ==
  ASSUME NEW B, NEW b \in BufferOf(B), NEW len \in Nat
  PROVE  /\ Retrieve(b, len) \in BufferOf(B)
         /\ len <= ReadableBytes(b) =>
              /\ Peek(b, len) \in Seq(B) /\ Len(Peek(b, len)) = len
              /\ Peek(b, len) = SubSeq(Contents(b), 1, len)
              /\ Contents(b) = Peek(b, len) \o Contents(Retrieve(b, len))
              /\ ReadableBytes(Retrieve(b, len)) = ReadableBytes(b) - len
<1>1. PICK d \in Seq(B), r \in Nat, w \in Nat :
        b = Buf(d, r, w) /\ kCheapPrepend <= r /\ r <= w /\ w <= Len(d)
  BY Parts
<1> b = Buf(d, r, w)
  BY <1>1
<1>2. kCheapPrepend \in Nat /\ kCheapPrepend <= Len(d)
  BY <1>1, BufferAssumption
<1>3. ReadableBytes(b) = w - r /\ Peek(b, len) = SubSeq(d, r + 1, r + len)
      /\ Contents(b) = SubSeq(d, r + 1, w)
  BY DEF Buf, Contents, ReadableBytes, Peek
<1>4. ASSUME len <= w - r
      PROVE  /\ SubSeq(d, r + 1, r + len) \in Seq(B)
             /\ Len(SubSeq(d, r + 1, r + len)) = len
             /\ SubSeq(d, r + 1, r + len) = SubSeq(SubSeq(d, r + 1, w), 1, len)
             /\ SubSeq(d, r + 1, w) =
                  SubSeq(d, r + 1, r + len) \o SubSeq(d, r + len + 1, w)
  BY <1>1, <1>4
<1>5. CASE len < w - r
  <2>1. Retrieve(b, len) = Buf(d, r + len, w)
    BY <1>3, <1>5 DEF Retrieve, Buf
  <2>2. Retrieve(b, len) \in BufferOf(B)
    BY <1>1, <1>2, <1>5, <2>1 DEF BufferOf, WellFormed, Buf
  <2>3. Contents(Retrieve(b, len)) = SubSeq(d, r + len + 1, w)
        /\ ReadableBytes(Retrieve(b, len)) = w - r - len
    BY <1>1, <2>1 DEF Buf, Contents, ReadableBytes
  <2>4. QED
    BY <1>3, <1>4, <1>5, <2>2, <2>3
<1>6. CASE ~(len < w - r)
  <2>1. Retrieve(b, len) = Buf(d, kCheapPrepend, kCheapPrepend)
    BY <1>3, <1>6 DEF Retrieve, RetrieveAll, Buf
  <2>2. Retrieve(b, len) \in BufferOf(B)
    BY <1>1, <1>2, <2>1 DEF BufferOf, WellFormed, Buf
  <2>3. Contents(Retrieve(b, len)) = SubSeq(d, kCheapPrepend + 1, kCheapPrepend)
        /\ ReadableBytes(Retrieve(b, len)) = 0
    BY <1>1, <1>2, <2>1 DEF Buf, Contents, ReadableBytes
  <2>4. SubSeq(d, kCheapPrepend + 1, kCheapPrepend) = <<>>
    BY <1>2
  <2>5. ASSUME len = w - r
        PROVE  SubSeq(d, r + len + 1, w) = <<>>
    BY <2>5
  <2>6. len <= w - r => len = w - r /\ w - r - len = 0
    BY <1>1, <1>6
  <2>7. QED
    BY <1>3, <1>4, <2>2, <2>3, <2>4, <2>5, <2>6
<1>7. QED
  BY <1>5, <1>6

\* resize() leaves the indices alone.
LEMMA ResizeParts ==
  ASSUME NEW d, NEW r, NEW w, NEW n, NEW z, z = Zeros(n - Len(d))
  PROVE  Resize(Buf(d, r, w), n) = Buf(d \o z, r, w)
<1>1. /\ Buf(d, r, w).data = d
      /\ Buf(d, r, w).reader = r
      /\ Buf(d, r, w).writer = w
  BY DEF Buf
<1>2. Resize(Buf(d, r, w), n)
        = [data |-> d \o Zeros(n - Len(d)), reader |-> r, writer |-> w]
  BY <1>1, Zenon DEF Resize
<1>3. QED
  BY <1>2, Zenon DEF Buf

\* ensureWriteableBytes(): growing or moving keeps the contents and makes room.
LEMMA EnsureKeeps ==
  ASSUME NEW B, Zero \in B, NEW b \in BufferOf(B), NEW len \in Nat
  PROVE  /\ EnsureWriteableBytes(b, len) \in BufferOf(B)
         /\ Contents(EnsureWriteableBytes(b, len)) = Contents(b)
         /\ len <= WriteableBytes(EnsureWriteableBytes(b, len))
<1>1. PICK d \in Seq(B), r \in Nat, w \in Nat :
        b = Buf(d, r, w) /\ kCheapPrepend <= r /\ r <= w /\ w <= Len(d)
  BY Parts
<1>2. kCheapPrepend \in Nat /\ kCheapPrepend <= Len(d) /\ Len(d) \in Nat
  BY <1>1, BufferAssumption
<1> b = Buf(d, r, w)
  BY <1>1
<1>3. /\ ReadableBytes(b) = w - r /\ PrependableBytes(b) = r
      /\ WriteableBytes(b) = Len(d) - w /\ Contents(b) = SubSeq(d, r + 1, w)
  BY DEF Buf, Contents, ReadableBytes, WriteableBytes, PrependableBytes
<1>4. CASE ~(WriteableBytes(b) < len)
  BY <1>1, <1>2, <1>3, <1>4 DEF EnsureWriteableBytes
<1>5. CASE WriteableBytes(b) < len /\ NeedsGrowing(b, len)
  <2>1. PICK n \in Nat : n = w + len
    BY <1>1
  <2>2. PICK z : z = Zeros(n - Len(d))
    OBVIOUS
  <2>3. z \in Seq(B) /\ Len(z) = n - Len(d)
    <3>1. n - Len(d) \in Nat
      BY <1>2, <1>3, <1>5, <2>1
    <3>2. QED
      BY <2>2, <3>1, ZerosSeq
  <2>4. EnsureWriteableBytes(b, len) = Buf(d \o z, r, w)
    <3>1. EnsureWriteableBytes(b, len) = Resize(b, b.writer + len)
      BY <1>5 DEF EnsureWriteableBytes, MakeSpace
    <3>2. b.writer + len = n
      BY <2>1 DEF Buf
    <3>3. QED
      BY <2>2, <3>1, <3>2, ResizeParts
  <2>5. /\ d \o z \in Seq(B) /\ Len(d \o z) = w + len
        /\ SubSeq(d \o z, r + 1, w) = SubSeq(d, r + 1, w)
    BY <1>1, <2>1, <2>3
  <2>6. Buf(d \o z, r, w) \in BufferOf(B)
    BY <1>1, <2>5 DEF BufferOf, WellFormed, Buf
  <2>7. /\ Contents(Buf(d \o z, r, w)) = SubSeq(d \o z, r + 1, w)
        /\ WriteableBytes(Buf(d \o z, r, w)) = Len(d \o z) - w
    BY DEF Buf, Contents, WriteableBytes
  <2>8. len <= Len(d \o z) - w
    BY <2>5
  <2>9. QED
    BY <1>3, <2>4, <2>5, <2>6, <2>7, <2>8
<1>6. CASE WriteableBytes(b) < len /\ ~NeedsGrowing(b, len)
  <2> DEFINE c == CopyTo(d, kCheapPrepend, SubSeq(d, r + 1, w))
  <2>1. SubSeq(d, r + 1, w) \in Seq(B) /\ Len(SubSeq(d, r + 1, w)) = w - r
    BY <1>1
  <2>2. kCheapPrepend + (w - r) <= Len(d)
    BY <1>1, <1>2
  <2>3. /\ c \in Seq(B) /\ Len(c) = Len(d)
        /\ SubSeq(c, kCheapPrepend + 1, kCheapPrepend + (w - r))
             = SubSeq(d, r + 1, w)
    BY <1>2, <2>1, <2>2, CopyToSeq, CopyFront, ZenonT(30)
  <2>4. EnsureWriteableBytes(b, len)
          = Buf(c, kCheapPrepend, kCheapPrepend + (w - r))
    BY <1>3, <1>6 DEF EnsureWriteableBytes, MakeSpace, Compact, Buf
  <2> HIDE DEF c
  <2>5. Buf(c, kCheapPrepend, kCheapPrepend + (w - r)) \in BufferOf(B)
    BY <1>1, <1>2, <2>2, <2>3 DEF BufferOf, WellFormed, Buf
  <2>6. len <= Len(d) - (kCheapPrepend + (w - r))
    BY <1>1, <1>2, <1>3, <1>6 DEF NeedsGrowing
  <2> DEFINE m == Buf(c, kCheapPrepend, kCheapPrepend + (w - r))
  <2>7. /\ Contents(m) = SubSeq(c, kCheapPrepend + 1, kCheapPrepend + (w - r))
        /\ WriteableBytes(m) = Len(c) - (kCheapPrepend + (w - r))
    BY DEF Buf, Contents, WriteableBytes
  <2>8. QED
    BY <1>3, <2>3, <2>4, <2>5, <2>6, <2>7
<1>7. QED
  BY <1>4, <1>5, <1>6

\* append(): the contents become longer by exactly the bytes given.
LEMMA AppendExtends ==
  ASSUME NEW B, Zero \in B, NEW b \in BufferOf(B), NEW s \in Seq(B)
  PROVE  /\ AppendBytes(b, s) \in BufferOf(B)
         /\ Contents(AppendBytes(b, s)) = Contents(b) \o s
<1> DEFINE e == EnsureWriteableBytes(b, Len(s))
<1>1. e \in BufferOf(B) /\ Contents(e) = Contents(b)
      /\ Len(s) <= WriteableBytes(e)
  BY LenProperties, EnsureKeeps
<1>2. AppendBytes(b, s)
        = [e EXCEPT !.data = CopyTo(@, e.writer, s), !.writer = @ + Len(s)]
  BY DEF AppendBytes
<1> HIDE DEF e
<1>3. PICK d \in Seq(B), r \in Nat, w \in Nat :
        e = Buf(d, r, w) /\ kCheapPrepend <= r /\ r <= w /\ w <= Len(d)
  BY <1>1, Parts
<1> e = Buf(d, r, w)
  BY <1>3
<1>4. AppendBytes(b, s) = Buf(CopyTo(d, w, s), r, w + Len(s))
  BY <1>2 DEF Buf
<1>5. w + Len(s) <= Len(d) /\ Contents(b) = SubSeq(d, r + 1, w)
  <2>1. Contents(e) = SubSeq(d, r + 1, w) /\ WriteableBytes(e) = Len(d) - w
    BY DEF Buf, Contents, WriteableBytes
  <2>2. Len(s) <= Len(d) - w /\ Len(s) \in Nat /\ Len(d) \in Nat
    BY <1>1, <2>1
  <2>3. QED
    BY <1>1, <2>1, <2>2
<1>6. CopyTo(d, w, s) \in Seq(B) /\ Len(CopyTo(d, w, s)) = Len(d)
      /\ w + Len(s) \in Nat /\ r <= w + Len(s)
  BY <1>3, <1>5, CopyToSeq
<1>7. AppendBytes(b, s) \in BufferOf(B)
  BY <1>3, <1>4, <1>5, <1>6 DEF BufferOf, WellFormed, Buf
<1>8. SubSeq(CopyTo(d, w, s), r + 1, w + Len(s)) = SubSeq(d, r + 1, w) \o s
  BY <1>3, <1>5, CopyExtends, ZenonT(30)
<1>9. Contents(Buf(CopyTo(d, w, s), r, w + Len(s)))
        = SubSeq(CopyTo(d, w, s), r + 1, w + Len(s))
  BY DEF Buf, Contents
<1>10. QED
  BY <1>4, <1>5, <1>7, <1>8, <1>9

\* readFd(): whether readv() fills the tail or spills into extrabuf, the
\* contents become longer by exactly the bytes read.
LEMMA ReadFdExtends ==
  ASSUME NEW B, Zero \in B, NEW b \in BufferOf(B), NEW s \in Seq(B)
  PROVE  /\ ReadFd(b, s) \in BufferOf(B)
         /\ Contents(ReadFd(b, s)) = Contents(b) \o s
<1>1. PICK d \in Seq(B), r \in Nat, w \in Nat :
        b = Buf(d, r, w) /\ kCheapPrepend <= r /\ r <= w /\ w <= Len(d)
  BY Parts
<1> b = Buf(d, r, w)
  BY <1>1
<1>2. WriteableBytes(b) = Len(d) - w /\ Contents(b) = SubSeq(d, r + 1, w)
  BY DEF Buf, Contents, WriteableBytes
<1>3. ASSUME NEW t \in Seq(B), w + Len(t) <= Len(d)
      PROVE  /\ Buf(CopyTo(d, w, t), r, w + Len(t)) \in BufferOf(B)
             /\ Contents(Buf(CopyTo(d, w, t), r, w + Len(t))) = Contents(b) \o t
             /\ Len(CopyTo(d, w, t)) = Len(d)
  <2>1. CopyTo(d, w, t) \in Seq(B) /\ Len(CopyTo(d, w, t)) = Len(d)
        /\ w + Len(t) \in Nat /\ r <= w + Len(t)
    BY <1>1, <1>3, CopyToSeq
  <2>2. Buf(CopyTo(d, w, t), r, w + Len(t)) \in BufferOf(B)
    BY <1>1, <1>3, <2>1 DEF BufferOf, WellFormed, Buf
  <2>3. SubSeq(CopyTo(d, w, t), r + 1, w + Len(t)) = SubSeq(d, r + 1, w) \o t
    BY <1>1, <1>3, CopyExtends, ZenonT(30)
  <2>4. QED
    BY <1>2, <2>1, <2>2, <2>3 DEF Buf, Contents
<1>4. CASE Len(s) <= WriteableBytes(b)
  <2>1. ReadFd(b, s) = Buf(CopyTo(d, w, s), r, w + Len(s))
    BY <1>4 DEF ReadFd, ReadInPlace, Buf
  <2>2. w + Len(s) <= Len(d)
    BY <1>1, <1>2, <1>4
  <2>3. QED
    BY <1>3, <2>1, <2>2
<1>5. CASE ~(Len(s) <= WriteableBytes(b))
  <2> DEFINE n == Len(d) - w
             front == SubSeq(s, 1, n)
             rest == SubSeq(s, n + 1, Len(s))
             full == Buf(CopyTo(d, w, front), r, Len(d))
  <2>1. /\ front \in Seq(B) /\ Len(front) = n /\ rest \in Seq(B)
        /\ s = front \o rest /\ w + n = Len(d)
    <3>1. n \in 0..Len(s) /\ w + n = Len(d)
      BY <1>1, <1>2, <1>5
    <3>2. QED
      BY <3>1, Split
  <2>2. ReadFd(b, s) = AppendBytes(full, rest)
    <3>1. ReadFd(b, s) = AppendBytes(FillTail(b, front), rest)
      BY <1>2, <1>5 DEF ReadFd, ReadOverflow
    <3> HIDE DEF front
    <3>2. FillTail(b, front) = full
      BY DEF FillTail, Buf
    <3>3. QED
      BY <3>1, <3>2
  <2> HIDE DEF n, front, rest
  <2>3. full \in BufferOf(B) /\ Contents(full) = Contents(b) \o front
    <3>1. w + Len(front) = Len(d) /\ Len(d) <= Len(d)
      BY <2>1
    <3>2. QED
      BY <1>3, <2>1, <3>1
  <2> HIDE DEF full
  <2>4. /\ ReadFd(b, s) \in BufferOf(B)
        /\ Contents(ReadFd(b, s)) = (Contents(b) \o front) \o rest
    BY <2>1, <2>2, <2>3, AppendExtends
  <2>5. (Contents(b) \o front) \o rest = Contents(b) \o s
    <3>1. Contents(b) \in Seq(B)
      BY ContentsSeq
    <3>2. front \in Seq(B) /\ rest \in Seq(B) /\ s = front \o rest
      BY <2>1
    <3>3. QED
      BY <3>1, <3>2, SMTT(30)
  <2>6. QED
    BY <2>4, <2>5
<1>6. QED
  BY <1>4, <1>5
=============================================================================
