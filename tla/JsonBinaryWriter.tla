-------------------------- MODULE JsonBinaryWriter --------------------------
(***************************************************************************)
(* binary_writer of nlohmann::json: CBOR, MessagePack, UBJSON and BSON.    *)
(*                                                                         *)
(* The output is the sequence of bytes written, and whether nothing was    *)
(* thrown.  How the machine represents a double is the constant Ieee754.   *)
(***************************************************************************)
EXTENDS JsonSerializer

CONSTANT Ieee754     \* from the floats of the model to their 8 bytes

ASSUME Ieee754Assumption ==
  \A f, g \in DOMAIN Ieee754 : Ieee754[f] = Ieee754[g] => f = g

\* write_number() of an integer cast to n bytes
WriteNumber(w, n) == SubSeq(w, 9 - n, 8)

\* The same with OutputIsLittleEndian
WriteLittle(w, n) == Reverse(WriteNumber(w, n))

\* The signed word w is within the limits of an integer of n bytes.
IntFits(w, n) ==
  \A i \in 1..(8 - n) : w[i] = (IF w[9 - n] >= 128 THEN 255 ELSE 0)

Throws == [text |-> <<>>, ok |-> FALSE]

-----------------------------------------------------------------------------
(* CBOR.                                                                   *)

CborHeadOffByOne(major, w) ==
  CASE FitsIn(w, 1) /\ w[8] <= 24 -> <<major + w[8]>>
    [] FitsIn(w, 1) /\ w[8] > 24  -> <<major + 24>> \o WriteNumber(w, 1)
    [] ~FitsIn(w, 1) /\ FitsIn(w, 2) -> <<major + 25>> \o WriteNumber(w, 2)
    [] ~FitsIn(w, 2) /\ FitsIn(w, 4) -> <<major + 26>> \o WriteNumber(w, 4)
    [] ~FitsIn(w, 4)              -> <<major + 27>> \o w

\* The control byte of a number or a size, and as many bytes as it needs
CborHead(major, w) ==
  CASE FitsIn(w, 1) /\ w[8] <= 23 -> <<major + w[8]>>
    [] FitsIn(w, 1) /\ w[8] > 23  -> <<major + 24>> \o WriteNumber(w, 1)
    [] ~FitsIn(w, 1) /\ FitsIn(w, 2) -> <<major + 25>> \o WriteNumber(w, 2)
    [] ~FitsIn(w, 2) /\ FitsIn(w, 4) -> <<major + 26>> \o WriteNumber(w, 4)
    [] ~FitsIn(w, 4)              -> <<major + 27>> \o w

\* A negative integer is written as -1 - n.
CborInteger(v) ==
  IF Type(v) = "number_integer" /\ IsNegative(Payload(v))
  THEN CborHead(\h20, Complement(Payload(v)))
  ELSE CborHead(\h00, Payload(v))

CborString(s) == CborHead(\h60, Word(Len(s))) \o s

RECURSIVE WriteCbor(_)
WriteCbor(v) ==
  LET x == Payload(v)
  IN  CASE Type(v) = "null"    -> <<\hF6>>
        [] Type(v) = "boolean" -> <<IF x[1] = 1 THEN \hF5 ELSE \hF4>>
        [] IsInteger(v)        -> CborInteger(v)
        [] Type(v) = "number_float" -> <<\hFB>> \o Ieee754[x]
        [] Type(v) = "string"  -> CborString(x)
        [] Type(v) = "array"   ->
             CborHead(\h80, Word(Len(x)))
               \o FlattenSeq([i \in DOMAIN x |-> WriteCbor(x[i])])
        [] Type(v) = "object"  ->
             CborHead(\hA0, Word(Len(x)))
               \o FlattenSeq([i \in DOMAIN x |->
                                CborString(x[i][1]) \o WriteCbor(x[i][2])])

-----------------------------------------------------------------------------
(* MessagePack.                                                            *)

\* The first of the given widths that takes the word, behind its type byte
MsgSized(types, w) ==
  LET n == CHOOSE n \in DOMAIN types :
             /\ FitsIn(w, n)
             /\ \A k \in DOMAIN types : FitsIn(w, k) => n <= k
  IN  <<types[n]>> \o WriteNumber(w, n)

MsgUnsigned(w) ==
  IF FitsIn(w, 1) /\ w[8] < 128 THEN <<w[8]>>     \* positive fixnum
  ELSE MsgSized(1 :> \hCC @@ 2 :> \hCD @@ 4 :> \hCE @@ 8 :> \hCF, w)

MsgNegative(w) ==
  CASE IntFits(w, 1) /\ w[8] >= 224 -> <<w[8]>>   \* negative fixnum
    [] IntFits(w, 1) /\ w[8] < 224  -> <<\hD0>> \o WriteNumber(w, 1)
    [] ~IntFits(w, 1) /\ IntFits(w, 2) -> <<\hD1>> \o WriteNumber(w, 2)
    [] ~IntFits(w, 2) /\ IntFits(w, 4) -> <<\hD2>> \o WriteNumber(w, 4)
    [] ~IntFits(w, 4)               -> <<\hD3>> \o w

MsgString(s) ==
  LET n == Len(s)
  IN  (IF n <= 31 THEN <<\hA0 + n>>
       ELSE MsgSized(1 :> \hD9 @@ 2 :> \hDA @@ 4 :> \hDB, Word(n))) \o s

MsgArrayHead(n) ==
  IF n <= 15 THEN <<\h90 + n>> ELSE MsgSized(2 :> \hDC @@ 4 :> \hDD, Word(n))

MsgMapHead(n) ==
  IF n <= 15 THEN <<\h80 + n>> ELSE MsgSized(2 :> \hDE @@ 4 :> \hDF, Word(n))

RECURSIVE WriteMsgpack(_)
WriteMsgpack(v) ==
  LET x == Payload(v)
  IN  CASE Type(v) = "null"    -> <<\hC0>>
        [] Type(v) = "boolean" -> <<IF x[1] = 1 THEN \hC3 ELSE \hC2>>
        [] IsInteger(v)        ->
             IF Type(v) = "number_integer" /\ IsNegative(x)
             THEN MsgNegative(x) ELSE MsgUnsigned(x)
        [] Type(v) = "number_float" -> <<\hCB>> \o Ieee754[x]
        [] Type(v) = "string"  -> MsgString(x)
        [] Type(v) = "array"   ->
             MsgArrayHead(Len(x))
               \o FlattenSeq([i \in DOMAIN x |-> WriteMsgpack(x[i])])
        [] Type(v) = "object"  ->
             MsgMapHead(Len(x))
               \o FlattenSeq([i \in DOMAIN x |->
                                MsgString(x[i][1]) \o WriteMsgpack(x[i][2])])

-----------------------------------------------------------------------------
(* UBJSON.  Its markers are characters: Z T F i U I l L D S [ { $ #.       *)

UbjsonWidth ==
  \h69 :> 1 @@ \h55 :> 1 @@ \h49 :> 2 @@ \h6C :> 4 @@ \h4C :> 8

\* The marker of an integer: an unsigned one that is no int64 gets L as well.
UbjsonIntegerPrefix(v) ==
  LET w == Payload(v)
      fits(n) == IntFits(w, n) /\ (IsNegative(w) => Type(v) = "number_integer")
  IN  CASE fits(1)                      -> \h69
        [] ~fits(1) /\ FitsIn(w, 1)     -> \h55
        [] fits(2) /\ ~FitsIn(w, 1)     -> \h49
        [] fits(4) /\ ~fits(2)          -> \h6C
        [] OTHER                        -> \h4C

\* ubjson_prefix()
UbjsonPrefix(v) ==
  CASE Type(v) = "null"    -> \h5A
    [] Type(v) = "boolean" -> IF Payload(v)[1] = 1 THEN \h54 ELSE \h46
    [] IsInteger(v)        -> UbjsonIntegerPrefix(v)
    [] Type(v) = "number_float" -> \h44
    [] Type(v) = "string"  -> \h53
    [] Type(v) = "array"   -> \h5B
    [] Type(v) = "object"  -> \h7B

Mark(add, c) == IF add THEN <<c>> ELSE <<>>

\* write_number_with_ubjson_prefix(): 407 above the limits of int64
UbjsonInteger(v, add) ==
  LET p == UbjsonIntegerPrefix(v)
  IN  IF Type(v) = "number_unsigned" /\ IsNegative(Payload(v)) THEN Throws
      ELSE Out(Mark(add, p) \o WriteNumber(Payload(v), UbjsonWidth[p]))

UbjsonSize(n) == UbjsonInteger(Unsigned(Word(n)), TRUE)

UbjsonString(s) == Concat(<<UbjsonSize(Len(s)), Out(s)>>)

\* With use_type, elements that all have one marker are written without it.
SamePrefix(elements, useType) ==
  /\ useType /\ elements # <<>>
  /\ \A i \in DOMAIN elements : UbjsonPrefix(elements[i]) = UbjsonPrefix(elements[1])

\* What stands in front of the elements: $ and their marker, # and their number
UbjsonHead(elements, useCount, useType) ==
  Concat(<<Out(IF SamePrefix(elements, useType)
               THEN <<\h24, UbjsonPrefix(elements[1])>> ELSE <<>>),
           IF useCount
           THEN Concat(<<Out(<<\h23>>), UbjsonSize(Len(elements))>>)
           ELSE Out(<<>>)>>)

RECURSIVE WriteUbjson(_, _, _, _)
WriteUbjson(v, useCount, useType, add) ==
  LET x == Payload(v)
      vs == IF IsObject(v) THEN [i \in DOMAIN x |-> x[i][2]] ELSE x
      sub(w) == WriteUbjson(w, useCount, useType, ~SamePrefix(vs, useType))
      close(c) == Out(Mark(~useCount, c))
      scalar == Out(Mark(add, UbjsonPrefix(v)))
  IN  CASE Type(v) \in {"null", "boolean"} -> scalar
        [] IsInteger(v)             -> UbjsonInteger(v, add)
        [] Type(v) = "number_float" -> Concat(<<scalar, Out(Ieee754[x])>>)
        [] Type(v) = "string"       -> Concat(<<scalar, UbjsonString(x)>>)
        [] Type(v) = "array" ->
             Concat(<<scalar, UbjsonHead(vs, useCount, useType)>>
               \o [i \in DOMAIN vs |-> sub(vs[i])] \o <<close(\h5D)>>)
        [] Type(v) = "object" ->
             Concat(<<scalar, UbjsonHead(vs, useCount, useType)>>
               \o [i \in DOMAIN x |->
                     Concat(<<UbjsonString(x[i][1]), sub(x[i][2])>>)]
               \o <<close(\h7D)>>)

-----------------------------------------------------------------------------
(* BSON.                                                                   *)

\* std::to_string(): the names of the elements of an array, from 0
IndexName(i) == DigitPairs(Word(i - 1))

\* The document that an object or an array is written as
BsonEntries(v) ==
  IF IsObject(v) THEN Payload(v)
  ELSE [i \in DOMAIN Payload(v) |-> <<IndexName(i), Payload(v)[i]>>]

\* int32 where the limits allow it
BsonIntSize(v) ==
  LET w == Payload(v)
  IN  IF IntFits(w, 4) /\ (IsNegative(w) => Type(v) = "number_integer")
      THEN 4 ELSE 8

CalcBsonEntrySize(name) == 1 + Len(name) + 1
CalcBsonStringSize(s) == 4 + Len(s) + 1

\* calc_bson_*_size(): the sizes are computed before anything is written.
RECURSIVE CalcBsonSize(_)
CalcBsonSize(v) ==
  CASE Type(v) = "null"         -> 0
    [] Type(v) = "boolean"      -> 1
    [] Type(v) = "number_float" -> 8
    [] IsInteger(v)             -> BsonIntSize(v)
    [] Type(v) = "string"       -> CalcBsonStringSize(Payload(v))
    [] IsStructured(v) ->
         LET es == BsonEntries(v)
         IN  4 + 1 + FoldLeft(LAMBDA n, e : n + CalcBsonEntrySize(e[1])
                                              + CalcBsonSize(e[2]), 0, es)

BsonType(v) ==
  CASE Type(v) = "null"         -> \h0A
    [] Type(v) = "boolean"      -> \h08
    [] Type(v) = "number_float" -> \h01
    [] IsInteger(v)             -> IF BsonIntSize(v) = 4 THEN \h10 ELSE \h12
    [] Type(v) = "string"       -> \h02
    [] Type(v) = "object"       -> \h03
    [] Type(v) = "array"        -> \h04

\* write_bson_integer(), write_bson_unsigned(): 407 above the limits of int64
BsonInteger(v) ==
  IF Type(v) = "number_unsigned" /\ IsNegative(Payload(v)) THEN Throws
  ELSE Out(WriteLittle(Payload(v), BsonIntSize(v)))

BsonString(s) == WriteLittle(Word(Len(s) + 1), 4) \o s \o <<0>>

\* write_bson_entry_header(); a key with a NUL in it is refused (409).
BsonEntryHeader(name, v) ==
  IF Contains(name, 0) THEN Throws ELSE Out(<<BsonType(v)>> \o name \o <<0>>)

RECURSIVE WriteBsonElement(_)
WriteBsonElement(v) ==
  LET x == Payload(v)
  IN  CASE Type(v) = "null"         -> Out(<<>>)
        [] Type(v) = "boolean"      -> Out(x)
        [] Type(v) = "number_float" -> Out(Reverse(Ieee754[x]))
        [] IsInteger(v)             -> BsonInteger(v)
        [] Type(v) = "string"       -> Out(BsonString(x))
        [] IsStructured(v) ->
             LET es == BsonEntries(v)
             IN  Concat(<<Out(WriteLittle(Word(CalcBsonSize(v)), 4))>>
                   \o [i \in DOMAIN es |->
                         Concat(<<BsonEntryHeader(es[i][1], es[i][2]),
                                  WriteBsonElement(es[i][2])>>)]
                   \o <<Out(<<0>>)>>)

\* write_bson(): only objects (317)
WriteBson(v) == IF IsObject(v) THEN WriteBsonElement(v) ELSE Throws
=============================================================================
