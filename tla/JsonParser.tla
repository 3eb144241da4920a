----------------------------- MODULE JsonParser -----------------------------
(***************************************************************************)
(* The parser of nlohmann::json: sax_parse_internal() and its explicit     *)
(* stack, with json_sax_dom_parser, which builds the value.                *)
(*                                                                         *)
(* A parser p is a record: the text and the position of its lexer,         *)
(* last_token, the stack states, skip_to_state_evaluation, and the state   *)
(* of the DOM builder: root, ref_stack and object_element, whose pointers  *)
(* are paths into root.  ParseStep is one round of the loop.               *)
(***************************************************************************)
EXTENDS JsonLexer

\* parser::parser() reads the first token.
StartAt(text, t) ==
  [text |-> text, pos |-> t.pos, last |-> t, states |-> <<>>,
   skip |-> FALSE, status |-> "running", root |-> Null, refs |-> <<>>,
   elem |-> <<>>]
NewParser(text) == StartAt(text, Scan(text, 1))

\* get_token()
WithToken(p, t) == [p EXCEPT !.last = t, !.pos = t.pos]
GetToken(p) == WithToken(p, Scan(p.text, p.pos))

\* parse_error(): the exception is thrown, or the result is discarded.
ParseError(p, status) == [p EXCEPT !.status = status]

-----------------------------------------------------------------------------
(* json_sax_dom_parser.                                                    *)

\* The path that handle_value() returns
Slot(p) ==
  IF p.refs = <<>> THEN <<>>
  ELSE LET top == Last(p.refs)
       IN  IF IsArray(At(p.root, top))
           THEN Append(top, Len(Payload(At(p.root, top))))
           ELSE p.elem

\* handle_value(): the new root, the next element of the innermost array, or
\* the element whose key was read last
HandleValue(p, v) ==
  IF p.refs # <<>> /\ IsArray(At(p.root, Last(p.refs)))
  THEN LET a == At(p.root, Last(p.refs))
       IN  [p EXCEPT !.root = SetAt(@, Last(p.refs), Array(Append(Payload(a), v)))]
  ELSE [p EXCEPT !.root = SetAt(@, Slot(p), v)]

\* start_object(), start_array()
Start(p, v) == [HandleValue(p, v) EXCEPT !.refs = Append(@, Slot(p))]

\* key(): operator[] adds a null when the key is new
Key(p, k) ==
  LET o == At(p.root, Last(p.refs))
  IN  [p EXCEPT !.elem = Append(Last(p.refs), k),
                !.root = IF HasKey(o, k) THEN @
                         ELSE SetAt(@, Last(p.refs), Put(o, k, Null))]

\* end_object(), end_array()
End(p) == [p EXCEPT !.refs = Front(@)]

-----------------------------------------------------------------------------
(* sax_parse_internal().                                                   *)

\* A key, the colon and the first token of the value
ParseColon(p) ==
  IF p.last.type # "name_separator" THEN ParseError(p, "parse_error")
  ELSE GetToken(p)
ParseKey(p) ==
  IF p.last.type # "value_string" THEN ParseError(p, "parse_error")
  ELSE ParseColon(GetToken(Key(p, Payload(p.last.val))))

Closer(state) == IF state = "array" THEN "end_array" ELSE "end_object"

\* The token behind a value: the innermost container goes on or ends.
AfterValue(p) ==
  LET state == Last(p.states)
  IN  CASE p.last.type = "value_separator" ->
             IF state = "array" THEN GetToken(p) ELSE ParseKey(GetToken(p))
        [] p.last.type = Closer(state) ->
             [End(p) EXCEPT !.states = Front(@), !.skip = TRUE]
        [] OTHER -> ParseError(p, "parse_error")

\* A value has been read: what comes next is up to the innermost container.
Evaluate(p) ==
  IF p.states = <<>> THEN [p EXCEPT !.status = "done"] ELSE AfterValue(GetToken(p))

\* An object is open once its first key was read.
OpenObject(p) ==
  IF p.status = "running" THEN [p EXCEPT !.states = Append(@, "object")] ELSE p

\* What follows the opening brace, and the opening bracket
InObject(p) ==
  IF p.last.type = "end_object" THEN Evaluate(End(p)) ELSE OpenObject(ParseKey(p))
InArray(p) ==
  IF p.last.type = "end_array" THEN Evaluate(End(p))
  ELSE [p EXCEPT !.states = Append(@, "array")]

Scalars == {"literal", "value_string", "value_unsigned", "value_integer",
            "value_float"}

\* A float that is not finite is out of range (406).
ParseStep(p) ==
  CASE p.skip                         -> Evaluate([p EXCEPT !.skip = FALSE])
    [] p.last.type = "begin_object"   -> InObject(GetToken(Start(p, Object(<<>>))))
    [] p.last.type = "begin_array"    -> InArray(GetToken(Start(p, Array(<<>>))))
    [] p.last.type = "value_float" /\ ~IsFinite(Payload(p.last.val)) ->
         ParseError(p, "out_of_range")
    [] p.last.type \in Scalars        -> Evaluate(HandleValue(p, p.last.val))
    [] OTHER                          -> ParseError(p, "parse_error")

\* parse() in strict mode: the input must end here.
AtEnd(p) ==
  IF p.last.type = "end_of_input" THEN [p EXCEPT !.status = "ok"]
  ELSE ParseError(p, "parse_error")
StrictEnd(p) == AtEnd(GetToken(p))
=============================================================================
