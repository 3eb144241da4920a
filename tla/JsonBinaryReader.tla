-------------------------- MODULE JsonBinaryReader --------------------------
(***************************************************************************)
(* binary_reader of nlohmann::json: CBOR, MessagePack, UBJSON and BSON,    *)
(* with json_sax_dom_parser behind it.                                     *)
(*                                                                         *)
(* A reader starts at a position of the input and yields the value and the *)
(* position behind it; ok = FALSE is an exception or a discarded result.   *)
(* `current` is the byte in front of the position.  Floats of 2 and 4      *)
(* bytes, which the writer never writes, are not modelled.                 *)
(***************************************************************************)
EXTENDS JsonLexer, JsonBinaryWriter

Got(v, p) == [ok |-> TRUE, val |-> v, pos |-> p]
Fail(p) == [ok |-> FALSE, val |-> Discarded, pos |-> p]

\* get_number() of n bytes, most significant first; unexpect_eof() at the end
GetNumber(s, p, n) ==
  IF p + n - 1 <= Len(s) THEN Got(SubSeq(s, p, p + n - 1), p + n)
  ELSE Fail(p)

\* What n bytes become in a std::uint64_t and in a std::int64_t
Fill(b, n) == [i \in 1..n |-> b]
ZeroExtend(bytes) == Fill(0, 8 - Len(bytes)) \o bytes
SignExtend(bytes) ==
  Fill(IF bytes[1] >= 128 THEN 255 ELSE 0, 8 - Len(bytes)) \o bytes

\* What was read is made something else, or read on from; a failure stays one.
As(Op(_), r) == IF r.ok THEN Got(Op(r.val), r.pos) ELSE r
Then(r, Op(_)) == IF r.ok THEN Op(r) ELSE r

\* The least significant byte first
GetLittle(s, p, n) == As(Reverse, GetNumber(s, p, n))

\* The number read, made a value by one of the SAX functions
AsUnsigned(r) == As(LAMBDA b : Unsigned(ZeroExtend(b)), r)
AsSigned(r) == As(LAMBDA b : Signed(SignExtend(b)), r)
AsFloat(r) ==
  As(LAMBDA b : <<"number_float", CHOOSE f \in DOMAIN Ieee754 : Ieee754[f] = b>>, r)

\* A length; what no input of the model holds is as good as the largest one.
MaxLength == 65535
Length(w) == IF FitsIn(w, 2) THEN w[7] * 256 + w[8] ELSE MaxLength

\* get_string()
GetString(s, p, n) == As(String, GetNumber(s, p, n))

StringOf(s, r) ==
  IF r.ok THEN GetString(s, r.pos, Length(ZeroExtend(r.val))) ELSE r

-----------------------------------------------------------------------------
(* CBOR.                                                                   *)

\* The argument of a control byte: in its low 5 bits or in the bytes behind it
CborArgument(s, p) ==
  LET low == Get(s, p) % 32
  IN  CASE low < 24        -> Got(<<low>>, p + 1)
        [] low \in 24..27  -> GetNumber(s, p + 1, 2^(low - 24))
        [] OTHER           -> Fail(p)

\* get_cbor_string(); the chunks of a string of indefinite length are strings.
RECURSIVE ReadCborString(_, _), CborChunks(_, _, _)
ReadCborString(s, p) ==
  LET c == Get(s, p)
  IN  CASE c = \h7F               -> CborChunks(s, p + 1, <<>>)
        [] c \in \h60..\h7B       -> StringOf(s, CborArgument(s, p))
        [] OTHER                  -> Fail(p)
CborChunks(s, p, acc) ==
  IF Get(s, p) = \hFF THEN Got(String(acc), p + 1)
  ELSE Then(ReadCborString(s, p),
            LAMBDA r : CborChunks(s, r.pos, acc \o Payload(r.val)))

\* Integers; a negative one is written as -1 - n.
CborNumber(c, arg) ==
  IF c <= \h1B THEN AsUnsigned(arg)
  ELSE As(LAMBDA b : Signed(Complement(ZeroExtend(b))), arg)

\* False, true, null and a double
CborSimple(s, p, c) ==
  CASE c \in {\hF4, \hF5} -> Got(Boolean(c = \hF5), p + 1)
    [] c = \hF6           -> Got(Null, p + 1)
    [] c = \hFB           -> AsFloat(GetNumber(s, p + 1, 8))
    [] OTHER              -> Fail(p)

\* The elements of an array or an object: n of them, or with a negative n until
\* the byte FF
RECURSIVE ReadCbor(_, _), CborItem(_, _, _, _), CborArray(_, _, _, _),
          CborObject(_, _, _, _)
ReadCbor(s, p) == CborItem(s, p, Get(s, p), CborArgument(s, p))
CborItem(s, p, c, arg) ==
  LET len == Length(ZeroExtend(arg.val))
  IN  CASE c \in (\h00..\h1B) \union (\h20..\h3B) -> CborNumber(c, arg)
        [] c \in \h60..\h7F -> ReadCborString(s, p)
        [] c = \h9F         -> CborArray(s, p + 1, -1, <<>>)
        [] c \in \h80..\h9B /\ arg.ok -> CborArray(s, arg.pos, len, <<>>)
        [] c = \hBF         -> CborObject(s, p + 1, -1, Object(<<>>))
        [] c \in \hA0..\hBB /\ arg.ok ->
             CborObject(s, arg.pos, len, Object(<<>>))
        [] OTHER            -> CborSimple(s, p, c)
CborArray(s, p, n, acc) ==
  IF n = 0 THEN Got(Array(acc), p)
  ELSE IF n < 0 /\ Get(s, p) = \hFF THEN Got(Array(acc), p + 1)
  ELSE Then(ReadCbor(s, p),
            LAMBDA r : CborArray(s, r.pos, n - 1, Append(acc, r.val)))
CborObject(s, p, n, acc) ==
  IF n = 0 THEN Got(acc, p)
  ELSE IF n < 0 /\ Get(s, p) = \hFF THEN Got(acc, p + 1)
  ELSE Then(ReadCborString(s, p), LAMBDA k :
         Then(ReadCbor(s, k.pos), LAMBDA r :
           CborObject(s, r.pos, n - 1, Put(acc, Payload(k.val), r.val))))

-----------------------------------------------------------------------------
(* MessagePack.                                                            *)

\* get_msgpack_string()
ReadMsgString(s, p) ==
  LET c == Get(s, p)
  IN  CASE c \in \hA0..\hBF   -> GetString(s, p + 1, c - \hA0)
        [] c \in \hD9..\hDB   -> StringOf(s, GetNumber(s, p + 1, 2^(c - \hD9)))
        [] OTHER              -> Fail(p)

\* The bytes that are a number themselves
PositiveFixint == \h00..\h7F
NegativeFixint == \hE0..\hFF

\* Null, booleans and numbers
MsgScalar(s, p, c) ==
  CASE c \in PositiveFixint -> Got(Unsigned(Word(c)), p + 1)
    [] c = \hC0           -> Got(Null, p + 1)
    [] c \in {\hC2, \hC3} -> Got(Boolean(c = \hC3), p + 1)
    [] c = \hCB           -> AsFloat(GetNumber(s, p + 1, 8))
    [] c \in \hCC..\hCF   -> AsUnsigned(GetNumber(s, p + 1, 2^(c - \hCC)))
    [] c \in \hD0..\hD3   -> AsSigned(GetNumber(s, p + 1, 2^(c - \hD0)))
    [] c \in NegativeFixint -> Got(Signed(SignExtend(<<c>>)), p + 1)
    [] OTHER              -> Fail(p)

RECURSIVE ReadMsgpack(_, _), MsgItem(_, _, _), MsgArray(_, _, _, _),
          MsgObject(_, _, _, _)
ReadMsgpack(s, p) == MsgItem(s, p, Get(s, p))
MsgItem(s, p, c) ==
  LET len(r) == Length(ZeroExtend(r.val))
  IN  CASE c \in \h80..\h8F  -> MsgObject(s, p + 1, c - \h80, Object(<<>>))
        [] c \in \h90..\h9F  -> MsgArray(s, p + 1, c - \h90, <<>>)
        [] c \in (\hA0..\hBF) \union (\hD9..\hDB) -> ReadMsgString(s, p)
        [] c \in {\hDC, \hDD} ->
             Then(GetNumber(s, p + 1, 2^(c - \hDB)),
                  LAMBDA r : MsgArray(s, r.pos, len(r), <<>>))
        [] c \in {\hDE, \hDF} ->
             Then(GetNumber(s, p + 1, 2^(c - \hDD)),
                  LAMBDA r : MsgObject(s, r.pos, len(r), Object(<<>>)))
        [] OTHER             -> MsgScalar(s, p, c)
MsgArray(s, p, n, acc) ==
  IF n = 0 THEN Got(Array(acc), p)
  ELSE Then(ReadMsgpack(s, p),
            LAMBDA r : MsgArray(s, r.pos, n - 1, Append(acc, r.val)))
MsgObject(s, p, n, acc) ==
  IF n = 0 THEN Got(acc, p)
  ELSE Then(ReadMsgString(s, p), LAMBDA k :
         Then(ReadMsgpack(s, k.pos), LAMBDA r :
           MsgObject(s, r.pos, n - 1, Put(acc, Payload(k.val), r.val))))

-----------------------------------------------------------------------------
(* UBJSON.                                                                 *)

\* get_ignore_noop(): the position of the next byte that is not N
RECURSIVE SkipNoop(_, _)
SkipNoop(s, p) == IF Get(s, p) = \h4E THEN SkipNoop(s, p + 1) ELSE p

\* The integer behind a marker; U alone is unsigned.
UbjsonNumber(s, prefix, p) ==
  IF prefix \notin DOMAIN UbjsonWidth THEN Fail(p)
  ELSE IF prefix = \h55 THEN AsUnsigned(GetNumber(s, p, 1))
  ELSE AsSigned(GetNumber(s, p, UbjsonWidth[prefix]))

\* get_ubjson_string(): nothing is read for a negative length.
ReadUbjsonString(s, p) ==
  LET length(w) == IF IsNegative(w) THEN 0 ELSE Length(w)
  IN  Then(UbjsonNumber(s, Get(s, p), p + 1),
           LAMBDA r : GetString(s, r.pos, length(Payload(r.val))))

\* get_ubjson_size_type(): the number of elements, -1 when it is not given, and
\* their marker or 0; a negative number is refused by start_array() and
\* start_object() (408), or read as if it had not been given (-1) and refused
\* as the first element.
Header(size, type, p) == Got([size |-> size, type |-> type], p)

UbjsonCount(s, p, type) ==
  LET count(r) == IF IsNegative(Payload(r.val)) THEN Fail(p)
                  ELSE Header(Length(Payload(r.val)), type, r.pos)
  IN  Then(UbjsonNumber(s, Get(s, p), p + 1), count)
UbjsonSizeMark(s, p, type, otherwise) ==
  IF Get(s, p) = \h23 THEN UbjsonCount(s, SkipNoop(s, p + 1), type) ELSE otherwise
UbjsonTypeOrSize(s, p) ==
  IF Get(s, p) = \h24 THEN UbjsonSizeMark(s, SkipNoop(s, p + 2), Get(s, p + 1), Fail(p))
  ELSE UbjsonSizeMark(s, p, 0, Header(-1, 0, p))
UbjsonSizeType(s, p) == UbjsonTypeOrSize(s, SkipNoop(s, p))

\* get_ubjson_value(): the value behind its marker; an element has one unless
\* the container gives it.
RECURSIVE UbjsonValue(_, _, _), UbjsonElement(_, _, _),
          UbjsonArray(_, _, _, _, _), UbjsonObject(_, _, _, _, _)
UbjsonValue(s, prefix, p) ==
  LET array(h) == UbjsonArray(s, h.pos, IF h.val.type = \h4E THEN 0 ELSE h.val.size,
                              h.val.type, <<>>)
      object(h) == UbjsonObject(s, h.pos, h.val.size, h.val.type, Object(<<>>))
  IN  CASE prefix \in {\h54, \h46} -> Got(Boolean(prefix = \h54), p)
        [] prefix = \h5A  -> Got(Null, p)
        [] prefix \in DOMAIN UbjsonWidth -> UbjsonNumber(s, prefix, p)
        [] prefix = \h44  -> AsFloat(GetNumber(s, p, 8))
        [] prefix = \h43 /\ Get(s, p) \in 0..127 -> GetString(s, p, 1)
        [] prefix = \h53  -> ReadUbjsonString(s, p)
        [] prefix = \h5B  -> Then(UbjsonSizeType(s, p), array)
        [] prefix = \h7B  -> Then(UbjsonSizeType(s, p), object)
        [] OTHER          -> Fail(p)
UbjsonElement(s, p, type) ==
  IF type # 0 THEN UbjsonValue(s, type, p)
  ELSE LET q == SkipNoop(s, p) IN UbjsonValue(s, Get(s, q), q + 1)
UbjsonArray(s, p, n, type, acc) ==
  LET q == SkipNoop(s, p)
  IN  CASE n = 0                       -> Got(Array(acc), p)
        [] n < 0 /\ Get(s, q) = \h5D   -> Got(Array(acc), q + 1)
        [] OTHER -> Then(UbjsonElement(s, p, type), LAMBDA r :
                      UbjsonArray(s, r.pos, n - 1, type, Append(acc, r.val)))
UbjsonObject(s, p, n, type, acc) ==
  LET q == SkipNoop(s, p)
  IN  CASE n = 0                       -> Got(acc, p)
        [] n < 0 /\ Get(s, q) = \h7D   -> Got(acc, q + 1)
        [] OTHER ->
             Then(ReadUbjsonString(s, IF n < 0 THEN q ELSE p), LAMBDA k :
               Then(UbjsonElement(s, k.pos, type), LAMBDA r :
                 UbjsonObject(s, r.pos, n - 1, type, Put(acc, Payload(k.val), r.val))))

-----------------------------------------------------------------------------
(* BSON.  The size of a document is read and not looked at.                *)

\* get_bson_cstr()
RECURSIVE BsonCstr(_, _, _)
BsonCstr(s, p, acc) ==
  CASE Get(s, p) = Eof -> Fail(p)
    [] Get(s, p) = 0   -> Got(acc, p + 1)
    [] OTHER           -> BsonCstr(s, p + 1, Append(acc, s[p]))

\* get_bson_string(): the length counts the NUL, which may be any byte.
ReadBsonString(s, p) ==
  LET chars(w, q) == IF IsNegative(w) \/ Length(w) < 1 THEN Fail(p)
                     ELSE GetString(s, q, Length(w) - 1)
  IN  Then(Then(GetLittle(s, p, 4), LAMBDA n : chars(SignExtend(n.val), n.pos)),
           LAMBDA r : IF r.pos <= Len(s) THEN Got(r.val, r.pos + 1) ELSE Fail(p))

\* parse_bson_element_internal(), parse_bson_internal(), parse_bson_array() and
\* parse_bson_element_list()
RECURSIVE BsonElement(_, _, _), BsonDocument(_, _, _), BsonList(_, _, _)
BsonElement(s, type, p) ==
  CASE type = \h01 -> AsFloat(GetLittle(s, p, 8))
    [] type = \h02 -> ReadBsonString(s, p)
    [] type = \h03 -> BsonDocument(s, p, Object(<<>>))
    [] type = \h04 -> BsonDocument(s, p, Array(<<>>))
    [] type = \h08 -> Got(Boolean(Get(s, p) # 0), p + 1)
    [] type = \h0A -> Got(Null, p)
    [] type = \h10 -> AsSigned(GetLittle(s, p, 4))
    [] type = \h12 -> AsSigned(GetLittle(s, p, 8))
    [] OTHER       -> Fail(p)
BsonDocument(s, p, empty) ==
  Then(GetLittle(s, p, 4), LAMBDA size : BsonList(s, size.pos, empty))
BsonList(s, p, acc) ==
  LET add(k, v) == IF IsArray(acc) THEN Array(Append(Payload(acc), v))
                   ELSE Put(acc, k, v)
  IN  CASE Get(s, p) = Eof -> Fail(p)
        [] Get(s, p) = 0   -> Got(acc, p + 1)
        [] OTHER ->
             Then(BsonCstr(s, p + 1, <<>>), LAMBDA key :
               Then(BsonElement(s, Get(s, p), key.pos), LAMBDA r :
                 BsonList(s, r.pos, add(key.val, r.val))))

-----------------------------------------------------------------------------
\* sax_parse() in strict mode: nothing follows but, in UBJSON, N.
ReadBinary(format, s) ==
  LET end(p) == IF format = "ubjson" THEN SkipNoop(s, p) ELSE p
      read == CASE format = "cbor"    -> ReadCbor(s, 1)
                [] format = "msgpack" -> ReadMsgpack(s, 1)
                [] format = "ubjson"  -> UbjsonElement(s, 1, 0)
                [] format = "bson"    -> BsonDocument(s, 1, Object(<<>>))
  IN  Then(read, LAMBDA r : IF Get(s, end(r.pos)) = Eof THEN r ELSE Fail(r.pos))
=============================================================================
