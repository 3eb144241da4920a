----------------------------- MODULE JsonLexer -----------------------------
(***************************************************************************)
(* The lexer of nlohmann::json: the next token of a text.                  *)
(*                                                                         *)
(* The text is a sequence of bytes behind an input_buffer_adapter, and a   *)
(* position is the number of bytes read so far plus one; get() past the    *)
(* end returns Eof.  unget() is a step back.  A scan yields the token, the *)
(* value it carries and the position after it; the error messages and the  *)
(* text kept for them are left out.                                        *)
(***************************************************************************)
EXTENDS JsonValue

Eof == -1     \* std::char_traits<char>::eof()

\* input_buffer_adapter::get_character(), lexer::get()
Get(s, p) == IF p <= Len(s) THEN s[p] ELSE Eof

Token(type, val, p) == [type |-> type, val |-> val, pos |-> p]
ErrorAt(p) == Token("parse_error", Null, p)

-----------------------------------------------------------------------------
(* Strings.  A step reads one character, an escape or a UTF-8 sequence; it *)
(* yields the bytes it adds to token_buffer.                               *)

Step(add, p) == [ok |-> TRUE, add |-> add, pos |-> p]
Bad(p) == [ok |-> FALSE, add |-> <<>>, pos |-> p]

\* The value of a hex digit, or -1
HexDigit(c) ==
  CASE c \in \h30..\h39 -> c - \h30
    [] c \in \h41..\h46 -> c - \h37
    [] c \in \h61..\h66 -> c - \h57
    [] OTHER            -> -1

\* get_codepoint(): four hex digits, or -1
Codepoint(s, p) ==
  LET d == [i \in 0..3 |-> HexDigit(Get(s, p + i))]
  IN  IF \E i \in 0..3 : d[i] = -1 THEN -1
      ELSE d[0] * 4096 + d[1] * 256 + d[2] * 16 + d[3]

\* The UTF-8 bytes of a code point
Continuation(c) == \h80 + (c % 64)

Encode(c) ==
  CASE c < \h80    -> <<c>>
    [] c <= \h7FF  -> <<\hC0 + c \div 64, Continuation(c)>>
    [] c <= \hFFFF ->
         <<\hE0 + c \div 4096, Continuation(c \div 64), Continuation(c)>>
    [] OTHER       ->
         <<\hF0 + c \div 262144, Continuation(c \div 4096),
           Continuation(c \div 64), Continuation(c)>>

IsHigh(c) == c \in \hD800..\hDBFF
IsLow(c) == c \in \hDC00..\hDFFF

LoneSurrogateAccepted(s, p, c1, c2) ==
  IF c1 = -1 THEN Bad(p) ELSE Step(Encode(c1), p + 4)

\* After \u: a surrogate c1 is read together with the one, c2, that must follow.
UnicodeEscape(s, p, c1, c2) ==
  CASE c1 = -1 \/ IsLow(c1) -> Bad(p)
    [] IsHigh(c1) ->
         IF Get(s, p + 4) = \h5C /\ Get(s, p + 5) = \h75 /\ IsLow(c2)
         THEN Step(Encode(c1 * 1024 + c2 - \h35FDC00), p + 10)
         ELSE Bad(p)
    [] OTHER -> Step(Encode(c1), p + 4)

\* What stands behind a backslash and what it stands for: " \ / b f n r t
Escaped ==
  (\h22 :> \h22) @@ (\h5C :> \h5C) @@ (\h2F :> \h2F) @@ (\h62 :> \h08)
    @@ (\h66 :> \h0C) @@ (\h6E :> \h0A) @@ (\h72 :> \h0D) @@ (\h74 :> \h09)

EscapeStep(s, p) ==
  LET c == Get(s, p)
  IN  CASE c \in DOMAIN Escaped -> Step(<<Escaped[c]>>, p + 1)
        [] c = \h75             ->
             UnicodeEscape(s, p + 1, Codepoint(s, p + 1), Codepoint(s, p + 7))
        [] OTHER                -> Bad(p)

\* The bytes that stand for themselves
Plain == \h20..\h7F

\* The ranges of the bytes that must follow a first byte
Tails == \h80..\hBF
Followers(c) ==
  CASE c \in Plain                -> <<>>
    [] c \in \hC2..\hDF           -> <<Tails>>
    [] c = \hE0                   -> <<\hA0..\hBF, Tails>>
    [] c \in (\hE1..\hEF) \ {\hED} -> <<Tails, Tails>>
    [] c = \hED                   -> <<\h80..\h9F, Tails>>
    [] c = \hF0                   -> <<\h90..\hBF, Tails, Tails>>
    [] c \in \hF1..\hF3           -> <<Tails, Tails, Tails>>
    [] c = \hF4                   -> <<\h80..\h8F, Tails, Tails>>

\* Control characters must be escaped, 80..C1 and F5..FF start nothing.
FirstBytes == Plain \union (\hC2..\hF4)

\* next_byte_in_range()
PlainStep(s, p) ==
  LET c == Get(s, p)
      f == Followers(c)
  IN  IF c \in FirstBytes /\ \A i \in DOMAIN f : Get(s, p + i) \in f[i]
      THEN Step(SubSeq(s, p, p + Len(f)), p + Len(f) + 1)
      ELSE Bad(p)

\* scan_string(), behind the opening quote
RECURSIVE ScanString(_, _, _), AfterStep(_, _, _)
ScanString(s, p, buffer) ==
  CASE Get(s, p) = \h22 -> Token("value_string", String(buffer), p + 1)
    [] Get(s, p) = \h5C -> AfterStep(s, EscapeStep(s, p + 1), buffer)
    [] OTHER            -> AfterStep(s, PlainStep(s, p), buffer)
AfterStep(s, r, buffer) ==
  IF r.ok THEN ScanString(s, r.pos, buffer \o r.add) ELSE ErrorAt(r.pos)

-----------------------------------------------------------------------------
(* Numbers.                                                                *)

IsDigit(c) == c \in \h30..\h39
IsExp(c) == c \in {\h65, \h45}

\* The labels of scan_number() and its goto statements: up to the decimal point
IntegerState(q, c) ==
  CASE q \in {"init", "minus"} /\ c = \h30         -> "zero"
    [] q \in {"init", "minus", "any1"} /\ IsDigit(c) -> "any1"
    [] q = "init" /\ c = \h2D                      -> "minus"
    [] q \in {"zero", "any1"} /\ c = \h2E          -> "decimal1"
    [] q \in {"zero", "any1"} /\ IsExp(c)          -> "exponent"
    [] q \in {"zero", "any1"}                      -> "done"
    [] OTHER                                       -> "error"

\* ... and behind it
FractionState(q, c) ==
  CASE q \in {"decimal1", "decimal2"} /\ IsDigit(c) -> "decimal2"
    [] q = "decimal2" /\ IsExp(c)                  -> "exponent"
    [] q = "exponent" /\ c \in {\h2B, \h2D}        -> "sign"
    [] q \in {"exponent", "sign", "any2"} /\ IsDigit(c) -> "any2"
    [] q \in {"decimal2", "any2"}                  -> "done"
    [] OTHER                                       -> "error"

NumberState(q, c) ==
  IF q \in {"init", "minus", "zero", "any1"} THEN IntegerState(q, c)
  ELSE FractionState(q, c)

\* number_type: a minus sign makes it an integer, a decimal point or an
\* exponent a float
NumberType(q, type) ==
  CASE q = "minus"                   -> "value_integer"
    [] q \in {"decimal1", "exponent"} -> "value_float"
    [] OTHER                         -> type

\* strtoull() and strtoll() on the digits: the word, and whether it overflowed
RECURSIVE StrToUll(_, _)
StrToUll(digits, acc) ==
  IF digits = <<>> \/ acc.over # 0 THEN acc
  ELSE StrToUll(Tail(digits), MulAdd(acc.word, 10, Head(digits)))

Digits(s) == [i \in DOMAIN s |-> s[i] - \h30]
Magnitude(s) == StrToUll(Digits(s), [word |-> Word(0), over |-> 0])

\* The largest magnitude of a negative integer, 2^63
MinMagnitude == <<128, 0, 0, 0, 0, 0, 0, 0>>

\* strtod(): the decimal number that the text denotes
RECURSIVE DecimalOf(_)
DecimalOf(digits) ==
  IF digits = <<>> THEN 0 ELSE DecimalOf(Front(digits)) * 10 + Last(digits)

Exponent(s) ==
  CASE s = <<>>                     -> 0
    [] s # <<>> /\ s[1] = \h2D      -> -DecimalOf(Digits(Tail(s)))
    [] s # <<>> /\ s[1] = \h2B      -> DecimalOf(Digits(Tail(s)))
    [] OTHER                        -> DecimalOf(Digits(s))

\* The first place of one of the characters, or the one behind the text
FirstOf(s, C) == SelectInSeq(Append(s, Eof), LAMBDA c : c \in C \union {Eof})
From(s, i) == SubSeq(s, i, Len(s))

Mantissa(sign, s, dot, exp) ==
  Canonical(sign, Digits(SubSeq(s, 1, dot - 1) \o From(s, dot + 1)),
            exp - Len(From(s, dot + 1)))
Scaled(sign, s, exp) == Mantissa(sign, s, FirstOf(s, {\h2E}), exp)
StrToD(sign, s) ==
  LET e == FirstOf(s, {\h65, \h45})
  IN  Scaled(sign, SubSeq(s, 1, e - 1), Exponent(From(s, e + 1)))

\* strtod() rounds to the nearest double: from 2^970 (2^54 - 1) on, half-way from
\* the largest double to 2^1024, that is HUGE_VAL.  It is computed in groups of
\* six digits, the lowest first (zero has none), 2^10 at a time.
Times1024(groups) ==
  LET Add(r, g) == [out  |-> Append(r.out, (g * 1024 + r.over) % 1000000),
                    over |-> (g * 1024 + r.over) \div 1000000]
      r == FoldLeft(Add, [out |-> <<>>, over |-> 0], groups)
  IN  IF r.over = 0 THEN r.out ELSE Append(r.out, r.over)

RECURSIVE TimesPower(_, _)
TimesPower(groups, n) ==
  IF groups = <<>> \/ n = 0 THEN groups ELSE TimesPower(Times1024(groups), n - 1)

HugeVal ==
  LET groups == TimesPower(<<481983, 398509, 18014>>, 97)
      six(n) == [i \in 1..6 |-> (n \div 10^(6 - i)) % 10]
      all == FlattenSeq([i \in DOMAIN groups |-> six(Reverse(groups)[i])])
  IN  From(all, SelectInSeq(all, LAMBDA c : c # 0))

IsFinite(f) ==
  LET places == Len(f[2]) + f[3]
  IN  \/ places < Len(HugeVal)
      \/ places = Len(HugeVal) /\ Before(f[2], HugeVal)

\* scan_number_done: integers first, what does not fit becomes a float
NumberToken(sign, s, type, m, p) ==
  CASE type = "value_unsigned" /\ m.over = 0 ->
         Token(type, Unsigned(m.word), p)
    [] type = "value_integer" /\ m.over = 0
         /\ (m.word = MinMagnitude \/ ~IsNegative(m.word)) ->
         Token(type, Signed(Negate(m.word)), p)
    [] OTHER -> Token("value_float", Float(StrToD(sign, s)), p)

NumberOf(s, type, p) ==
  IF s[1] = \h2D THEN NumberToken(1, Tail(s), type, Magnitude(Tail(s)), p)
  ELSE NumberToken(0, s, type, Magnitude(s), p)

\* scan_number(): the character that ended it is given back.
RECURSIVE ScanNumber(_, _, _, _, _)
ScanNumber(s, start, p, q, type) ==
  LET to == NumberState(q, Get(s, p))
  IN  CASE to = "error" -> ErrorAt(p)
        [] to = "done"  -> NumberOf(SubSeq(s, start, p - 1), type, p)
        [] OTHER        -> ScanNumber(s, start, p + 1, to, NumberType(to, type))

-----------------------------------------------------------------------------
(* scan().                                                                 *)

\* true, false and null
Literals ==
  (\h74 :> [text |-> <<\h74, \h72, \h75, \h65>>, val |-> Boolean(TRUE)])
    @@ (\h66 :> [text |-> <<\h66, \h61, \h6C, \h73, \h65>>,
                 val |-> Boolean(FALSE)])
    @@ (\h6E :> [text |-> <<\h6E, \h75, \h6C, \h6C>>, val |-> Null])

\* scan_literal()
ScanLiteral(s, p) ==
  LET l == Literals[s[p]]
  IN  IF \A i \in DOMAIN l.text : Get(s, p + i - 1) = l.text[i]
      THEN Token("literal", l.val, p + Len(l.text))
      ELSE ErrorAt(p)

Structural ==
  (\h5B :> "begin_array") @@ (\h5D :> "end_array") @@ (\h7B :> "begin_object")
    @@ (\h7D :> "end_object") @@ (\h3A :> "name_separator")
    @@ (\h2C :> "value_separator")

Whitespace == {\h20, \h09, \h0A, \h0D}

RECURSIVE SkipSpace(_, _)
SkipSpace(s, p) == IF Get(s, p) \in Whitespace THEN SkipSpace(s, p + 1) ELSE p

Bom == <<\hEF, \hBB, \hBF>>

\* skip_bom(), before the first token
HasBadBom(s) == Get(s, 1) = \hEF /\ \E i \in 1..3 : Get(s, i) # Bom[i]
AfterBom(s) == IF Get(s, 1) = \hEF THEN 4 ELSE 1

\* The NUL byte ends the input: "needed when parsing from string literals"
ScanToken(s, p) ==
  LET c == Get(s, p)
  IN  CASE c \in DOMAIN Structural      -> Token(Structural[c], Null, p + 1)
        [] c \in DOMAIN Literals        -> ScanLiteral(s, p)
        [] c = \h22                     -> ScanString(s, p + 1, <<>>)
        [] c = \h2D \/ IsDigit(c)       ->
             ScanNumber(s, p, p, "init", "value_unsigned")
        [] c \in {0, Eof}               -> Token("end_of_input", Null, p + 1)
        [] OTHER                        -> ErrorAt(p)

Scan(s, p) ==
  IF p = 1 /\ HasBadBom(s) THEN ErrorAt(p)
  ELSE ScanToken(s, SkipSpace(s, IF p = 1 THEN AfterBom(s) ELSE p))
=============================================================================
