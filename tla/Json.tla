-------------------------------- MODULE Json --------------------------------
(***************************************************************************)
(* nlohmann::json at work: a document is parsed round by round of          *)
(* sax_parse_internal(), or is built by the program; then it is serialized *)
(* and parsed again, written in a binary format and read back, flattened   *)
(* and unflattened, changed by the operations of a patch one by one, or by *)
(* a merge patch.  The chat programs use parse() and dump().               *)
(***************************************************************************)
EXTENDS JsonParser, JsonBinaryReader, JsonPointer, JsonGrammar, JsonPatchRfc

CONSTANTS Texts,      \* the texts that are parsed
          Strings,    \* the byte strings that a program puts into a value
          Documents,  \* the values that a program builds
          Targets,    \* the values that a document is patched into
          Patches,    \* the patches that a program applies to a document
          Messages    \* binary messages of other programs: their format, their
                      \* bytes and the value that they denote

VARIABLES phase,      \* what is being done with the document
          parser,     \* the parser and its lexer
          doc,        \* the document
          out,        \* what was written, and whether nothing was thrown
          handler,    \* the error handler of the last dump()
          ops,        \* the operations of the patch that are left
          aborted,    \* an assertion failed: the process has ended
          goal        \* the value that the document is to be in the end

vars == <<phase, parser, doc, out, handler, ops, aborted, goal>>

Formats == {"cbor", "msgpack", "ubjson", "ubjson_count", "ubjson_type", "bson"}

FormatOf(f) == IF f \in {"ubjson_count", "ubjson_type"} THEN "ubjson" ELSE f

Handlers == {"strict", "ignore", "replace"}

Idle == NewParser(<<>>)

\* A text to parse, a document that was built, or a string that was entered
Given ==
  \/ /\ phase = "parsing" /\ doc = Null
     /\ \E t \in Texts : parser = NewParser(t)
  \/ phase = "built" /\ doc \in Documents /\ parser = Idle
  \/ phase = "entered" /\ doc \in {String(s) : s \in Strings} /\ parser = Idle

Init ==
  /\ handler = "strict" /\ ops = <<>> /\ aborted = FALSE
  /\ \/ \E m \in Messages :
          /\ phase = m.format /\ out = Out(m.bytes) /\ goal = m.value
          /\ doc = Null /\ parser = Idle
     \/ out = Out(<<>>) /\ goal = Null /\ Given

-----------------------------------------------------------------------------
(* basic_json::parse(): one round of the loop, and the end of it.          *)

ParseRound ==
  /\ phase \in {"parsing", "reparsing"} /\ parser.status = "running"
  /\ parser' = ParseStep(parser)
  /\ UNCHANGED <<phase, doc, out, handler, ops, aborted, goal>>

\* The value is there when the text has ended.
ParseEnd ==
  /\ phase \in {"parsing", "reparsing"} /\ parser.status = "done"
  /\ parser' = StrictEnd(parser)
  /\ IF parser'.status = "ok"
     THEN /\ phase' = IF phase = "parsing" THEN "parsed" ELSE "reparsed"
          /\ doc' = parser'.root
     ELSE UNCHANGED <<phase, doc>>
  /\ UNCHANGED <<out, handler, ops, aborted, goal>>

-----------------------------------------------------------------------------
\* basic_json::dump(); what a program entered is dumped with every handler.
DumpDoc(step, ascii, h) ==
  /\ phase \in {"parsed", "built", "entered"}
  /\ phase = "entered" \/ h = "strict"
  /\ phase' = "dumped" /\ goal' = doc /\ handler' = h
  /\ out' = Dump(doc, step, 0, ascii, h)
  /\ UNCHANGED <<parser, doc, ops, aborted>>

\* What was written is parsed by the other side.
Reparse ==
  /\ phase = "dumped" /\ out.ok
  /\ phase' = "reparsing" /\ parser' = NewParser(out.text)
  /\ UNCHANGED <<doc, out, handler, ops, aborted, goal>>

-----------------------------------------------------------------------------
\* to_cbor(), to_msgpack(), to_ubjson() with and without size and type, to_bson()
Write(format, v) ==
  CASE format = "cbor"         -> Out(WriteCbor(v))
    [] format = "msgpack"      -> Out(WriteMsgpack(v))
    [] format = "ubjson"       -> WriteUbjson(v, FALSE, FALSE, TRUE)
    [] format = "ubjson_count" -> WriteUbjson(v, TRUE, FALSE, TRUE)
    [] format = "ubjson_type"  -> WriteUbjson(v, TRUE, TRUE, TRUE)
    [] format = "bson"         -> WriteBson(v)

WriteDoc(format) ==
  /\ phase = "built"
  /\ phase' = format /\ goal' = doc
  /\ out' = Write(format, doc)
  /\ UNCHANGED <<parser, doc, handler, ops, aborted>>

\* from_cbor(), from_msgpack(), from_ubjson(), from_bson()
ReadDoc ==
  /\ phase \in Formats /\ out.ok
  /\ phase' = "read"
  /\ doc' = ReadBinary(FormatOf(phase), out.text).val
  /\ UNCHANGED <<parser, out, handler, ops, aborted, goal>>

-----------------------------------------------------------------------------
\* flatten() and unflatten()
FlattenDoc ==
  /\ phase = "built"
  /\ phase' = "flattened" /\ doc' = Flatten(doc) /\ goal' = doc
  /\ UNCHANGED <<parser, out, handler, ops, aborted>>

UnflattenDoc ==
  /\ phase = "flattened"
  /\ phase' = "unflattened"
  /\ doc' = Unflatten(doc).val
  /\ out' = [out EXCEPT !.ok = Unflatten(doc).ok]
  /\ UNCHANGED <<parser, handler, ops, aborted, goal>>

-----------------------------------------------------------------------------
\* The patch that diff() gives, and a patch of the program's own
DiffDoc(target) ==
  /\ phase = "built"
  /\ phase' = "patching" /\ ops' = Diff(doc, target, <<>>) /\ goal' = target
  /\ UNCHANGED <<parser, doc, out, handler, aborted>>

StartPatch(patch) ==
  /\ phase = "built"
  /\ phase' = "editing" /\ ops' = patch
  /\ UNCHANGED <<parser, doc, out, handler, aborted, goal>>

\* One round of the loop of patch(): the first operation that fails ends it.
Outcome(r) ==
  /\ doc' = IF r.ok THEN r.val ELSE doc
  /\ out' = [out EXCEPT !.ok = r.ok]
  /\ aborted' = r.aborts
PatchOp ==
  /\ phase \in {"patching", "editing"} /\ ops # <<>> /\ out.ok
  /\ Outcome(ApplyOp(doc, Head(ops)))
  /\ ops' = Tail(ops)
  /\ UNCHANGED <<phase, parser, handler, goal>>

\* merge_patch()
Merge(patch) ==
  /\ phase = "built"
  /\ phase' = "merged" /\ goal' = patch /\ doc' = MergePatch(doc, patch)
  /\ UNCHANGED <<parser, out, handler, ops, aborted>>

-----------------------------------------------------------------------------
Next ==
  \/ ParseRound
  \/ ParseEnd
  \/ \E step \in {0, 2}, ascii \in BOOLEAN, h \in Handlers : DumpDoc(step, ascii, h)
  \/ Reparse
  \/ \E f \in Formats : WriteDoc(f)
  \/ ReadDoc
  \/ FlattenDoc
  \/ UnflattenDoc
  \/ \E t \in Targets : DiffDoc(t)
  \/ \E t \in Targets : Merge(t)
  \/ \E p \in Patches : StartPatch(p)
  \/ PatchOp

Spec == Init /\ [][Next]_vars

-----------------------------------------------------------------------------
RECURSIVE StringsIn(_)
StringsIn(v) ==
  LET x == Payload(v)
  IN  CASE Type(v) = "string" -> {x}
        [] IsArray(v)  -> UNION {StringsIn(x[i]) : i \in DOMAIN x}
        [] IsObject(v) ->
             UNION {{x[i][1]} \union StringsIn(x[i][2]) : i \in DOMAIN x}
        [] OTHER -> {}

RECURSIVE PartsOf(_)
PartsOf(v) ==
  LET x == Payload(v)
  IN  {v} \union CASE IsArray(v)  -> UNION {PartsOf(x[i]) : i \in DOMAIN x}
                    [] IsObject(v) -> UNION {PartsOf(x[i][2]) : i \in DOMAIN x}
                    [] OTHER -> {}

\* Between two rounds of sax_parse_internal() the parser's stack (states) and
\* the builder's (ref_stack) agree: the references are the open containers, each
\* inside the one before it, and the parser takes each for what it is.
StacksAgree ==
  parser.status = "running" =>
    /\ Len(parser.refs) = Len(parser.states)
    /\ \A i \in DOMAIN parser.refs :
         Type(At(parser.root, parser.refs[i])) = parser.states[i]
    /\ \A i \in 2..Len(parser.refs) :
         IsPrefix(parser.refs[i - 1], parser.refs[i])

\* The parser accepts the texts that are JSON by RFC 8259, behind an optional
\* byte order mark and up to a NUL, and builds the value they denote, a number
\* in the narrowest of the three number types; every other text is a
\* parse_error.  out_of_range is thrown at a number that no double holds, and
\* a text that holds one is never parsed.
ParsesTheGrammar ==
  LET means == TextDenotes(parser.text)
  IN  CASE phase = "parsed" ->
             /\ means = {Meaning(doc)}
             /\ \A v \in PartsOf(Meaning(doc)) :
                  Type(v) = "number_float" => ~NoDoubleHolds(Payload(v))
        [] phase = "parsing" /\ parser.status = "parse_error" -> means = {}
        [] phase = "parsing" /\ parser.status = "out_of_range" ->
             EndsTooLarge(SubSeq(parser.text, 1, parser.pos - 1))
        [] OTHER -> TRUE

\* sax_parse_internal() with the DOM builder, round by round and at its end
ParserIsRight == StacksAgree /\ ParsesTheGrammar

\* What dump() writes of a parsed or built document, in one line or indented,
\* as UTF-8 or as ASCII, is parsed back to an equal document; the parser never
\* lets in what dump() would throw on.
DumpIsParsed ==
  /\ phase = "reparsing" => parser.status \in {"running", "done", "ok"}
  /\ phase = "reparsed" /\ (\A s \in StringsIn(goal) : IsUtf8(s)) =>
       Equal(doc, goal)
  /\ phase = "dumped" /\ ~out.ok => \E s \in StringsIn(goal) : ~IsUtf8(s)

\* A string that a program put into a document is refused by a strict dump()
\* exactly if it is not UTF-8 (type_error 316); with the other handlers what is
\* written is always UTF-8.
DumpIsUtf8 ==
  phase = "dumped" =>
    /\ out.ok <=> (handler = "strict" => \A s \in StringsIn(goal) : IsUtf8(s))
    /\ out.ok => IsUtf8(out.text)

\* dump() loses nothing that it writes and refuses only what it must.
DumpIsRight == DumpIsParsed /\ DumpIsUtf8

\* dump_escaped() never writes behind string_buffer.
BufferInBounds ==
  phase = "entered" =>
    \A ascii \in BOOLEAN, h \in Handlers :
      DumpEscaped(Payload(doc), NewEscaper, ascii, h).peak <= StringBufferSize

\* What a binary format was given comes back from it, and what other programs
\* write in the forms that this library does not use is understood.  UBJSON and BSON throw on
\* integers above int64, BSON on keys with a NUL and on what is no object, and
\* nothing else throws.
NotInUbjson(v) ==
  \E w \in PartsOf(v) : Type(w) = "number_unsigned" /\ IsNegative(Payload(w))
NotInBson(v) ==
  \/ ~IsObject(v) \/ NotInUbjson(v)
  \/ \E w \in PartsOf(v) :
       IsObject(w) /\ \E i \in DOMAIN Payload(w) : Contains(Payload(w)[i][1], 0)
BinaryRoundTrip ==
  /\ phase = "read" => Equal(doc, goal)
  /\ phase \in Formats =>
       (out.ok <=> ~ CASE phase = "bson"               -> NotInBson(goal)
                       [] FormatOf(phase) = "ubjson"   -> NotInUbjson(goal)
                       [] OTHER                        -> FALSE)

\* A message that breaks off is refused, wherever it does.
TruncatedIsRefused ==
  phase \in Formats /\ out.ok =>
    \A n \in 0..(Len(out.text) - 1) :
      ~ReadBinary(FormatOf(phase), SubSeq(out.text, 1, n)).ok

\* The size that leads a BSON document is the number of its bytes, although it
\* is computed by calc_bson_*_size() before the elements are written and no
\* reader of this library looks at it.
BsonSizeIsLength ==
  phase = "bson" /\ out.ok =>
    Length(ZeroExtend(GetLittle(out.text, 1, 4).val)) = Len(out.text)

\* CBOR, MessagePack, UBJSON and BSON: from_*() undoes to_*(), for whole messages
\* and for no others.
BinaryIsRight == BinaryRoundTrip /\ TruncatedIsRefused /\ BsonSizeIsLength

\* No operation of the patch that diff() gives is refused, and the last one
\* leaves the target: source.patch(diff(source, target)) == target.
DiffReachesTarget ==
  phase = "patching" => out.ok /\ (ops = <<>> => Equal(doc, goal))

\* What an operation of a patch gives by RFC 6902, its pointers being taken apart
TokensOf(o, k) == Split(Payload(Child(o, k))).tokens
Gives(v, o) ==
  LET op   == Payload(Child(o, OpKey))
      path == TokensOf(o, PathKey)
      named(k) == HasKey(o, k) /\ Type(Child(o, k)) = "string"
                  /\ Split(Payload(Child(o, k))).ok
      value == HasKey(o, ValueKey)
  IN  CASE ~(IsObject(o) /\ HasKey(o, OpKey) /\ named(PathKey)) -> {}
        [] op = AddOp /\ value             -> Adds(v, path, Child(o, ValueKey))
        [] op = RemoveOp                   -> Removes(v, path)
        [] op = ReplaceOp /\ value         -> Replaces(v, path, Child(o, ValueKey))
        [] op = MoveOp /\ named(FromKey)   -> Moves(v, TokensOf(o, FromKey), path)
        [] op = CopyOp /\ named(FromKey)   -> Copies(v, TokensOf(o, FromKey), path)
        [] op = TestOp /\ value            -> Tests(v, path, Child(o, ValueKey))
        [] OTHER                           -> {}

\* The operations for which the library is known to do otherwise
DoesOtherwise(v, o) ==
  LET op == Payload(Child(o, OpKey))
      path == TokensOf(o, PathKey)
  IN  /\ IsObject(o) /\ HasKey(o, OpKey) /\ HasKey(o, PathKey)
      /\ \/ op \in {AddOp, CopyOp} /\ AddsOtherwise(v, path)
         \/ op = RemoveOp /\ RemovesOtherwise(v, path)
         \/ op = MoveOp /\ HasKey(o, FromKey)
              /\ MovesOtherwise(v, TokensOf(o, FromKey), path)

\* An operation of a patch leaves the document that RFC 6902 says and is refused
\* where the RFC makes it an error, but for the operations of DoesOtherwise():
\* an add that makes a missing parent, an object out of null or an index with
\* leading zeros, a remove below what holds no elements, a move below itself.
\* Where the assertion of operation_add() fails, the RFC has an error.
PatchApplies ==
  [][phase = "editing" /\ phase' = "editing" =>
       LET means == Gives(doc, Head(ops))
       IN  /\ ~DoesOtherwise(doc, Head(ops)) =>
                IF means = {} THEN ~out'.ok
                ELSE out'.ok /\ \E v \in means : Equal(doc', v)
           /\ aborted' => means = {}]_vars

\* A merge patch leaves no member that it sets to null, at any depth, and
\* applying it a second time changes nothing.
RECURSIVE Obeys(_, _)
Obeys(v, patch) ==
  IF ~IsObject(patch) THEN v = patch
  ELSE /\ IsObject(v)
       /\ \A i \in DOMAIN Payload(patch) :
            LET kv == Payload(patch)[i]
            IN  IF Type(kv[2]) = "null" THEN ~HasKey(v, kv[1])
                ELSE HasKey(v, kv[1]) /\ Obeys(Child(v, kv[1]), kv[2])
MergeObeysPatch ==
  phase = "merged" => Obeys(doc, goal) /\ MergePatch(doc, goal) = doc

\* unflatten() gives back what flatten() took apart, but for empty containers,
\* which become null, and objects with a key 0, which may become arrays.
Flattens(v) ==
  \A w \in PartsOf(v) : IsStructured(w) =>
    Payload(w) # <<>> /\ ~(IsObject(w) /\ HasKey(w, <<Zero>>))
FlattenIsUndone ==
  phase = "unflattened" /\ Flattens(goal) => out.ok /\ Equal(doc, goal)

\* diff(), merge_patch(), flatten() and unflatten() do what they promise.
EditsAreRight == DiffReachesTarget /\ MergeObeysPatch /\ FlattenIsUndone
=============================================================================
