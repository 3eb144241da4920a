--------------------------- MODULE JsonSerializer ---------------------------
(***************************************************************************)
(* The serializer of nlohmann::json: dump(), and the conversions it is     *)
(* made of.  The output is the sequence of bytes written to the output     *)
(* adapter; a dump that throws (type_error 316) yields ok = FALSE.  The    *)
(* digits of a float come from grisu2(), which is not modelled: a float    *)
(* is its shortest decimal digits here.                                    *)
(***************************************************************************)
EXTENDS JsonValue

CONSTANT StringBufferSize     \* string_buffer.size(), 512 in the code

ASSUME SerializerAssumption == StringBufferSize \in Nat /\ StringBufferSize > 13

-----------------------------------------------------------------------------
(* decode(): the automaton that takes UTF-8 apart.                         *)

Accept == 0
Reject == 1

\* The first 256 entries of utf8d: the class of a byte
ByteClass(b) ==
  CASE b <= \h7F                     -> 0
    [] b \in \h80..\h8F              -> 1
    [] b \in \h90..\h9F              -> 9
    [] b \in \hA0..\hBF              -> 7
    [] b \in \hC2..\hDF              -> 2
    [] b = \hE0                      -> 10
    [] b \in (\hE1..\hEF) \ {\hED}   -> 3
    [] b = \hED                      -> 4
    [] b = \hF0                      -> 11
    [] b \in \hF1..\hF3              -> 6
    [] b = \hF4                      -> 5
    [] OTHER                         -> 8

FirstState ==
  0 :> 0 @@ 2 :> 2 @@ 3 :> 3 @@ 4 :> 5 @@ 5 :> 8 @@ 6 :> 7 @@ 10 :> 4 @@ 11 :> 6

\* The others: state and class to state; what is not listed is rejected
Transition(state, class) ==
  CASE state = 0 /\ class \in DOMAIN FirstState -> FirstState[class]
    [] state = 2 /\ class \in {1, 7, 9}         -> 0
    [] state = 3 /\ class \in {1, 7, 9}         -> 2
    [] state = 4 /\ class = 7                   -> 2
    [] state = 5 /\ class \in {1, 9}            -> 2
    [] state = 6 /\ class \in {7, 9}            -> 3
    [] state = 7 /\ class \in {1, 7, 9}         -> 3
    [] state = 8 /\ class = 1                   -> 3
    [] OTHER                                    -> Reject

\* The codepoint, of 32 bits: 0xFF >> class keeps the low bits of a first byte.
Decoded(state, codep, b) ==
  IF state # Accept THEN (codep * 64 + (b % 64)) % 2^30
  ELSE IF ByteClass(b) >= 8 THEN 0 ELSE b % 2^(8 - ByteClass(b))

-----------------------------------------------------------------------------
(* dump_escaped().                                                         *)

HexChar(d) == IF d < 10 THEN \h30 + d ELSE \h57 + d

\* \uxxxx
Hex4(c) ==
  <<\h5C, \h75, HexChar(c \div 4096), HexChar((c \div 256) % 16),
    HexChar((c \div 16) % 16), HexChar(c % 16)>>

ShortEscape ==
  \h08 :> \h62 @@ \h09 :> \h74 @@ \h0A :> \h6E @@ \h0C :> \h66 @@ \h0D :> \h72
    @@ \h22 :> \h22 @@ \h5C :> \h5C

\* What an accepted code point adds to the buffer, b being its last byte
Escape(c, b, ascii) ==
  CASE c \in DOMAIN ShortEscape -> <<\h5C, ShortEscape[c]>>
    [] c \notin DOMAIN ShortEscape /\ (c <= \h1F \/ (ascii /\ c >= \h7F)) ->
         IF c <= \hFFFF THEN Hex4(c)
         ELSE Hex4(\hD7C0 + c \div 1024) \o Hex4(\hDC00 + (c % 1024))
    [] OTHER -> <<b>>

\* The replacement character U+FFFD
Replacement(ascii) == IF ascii THEN Hex4(\hFFFD) ELSE <<\hEF, \hBF, \hBD>>

\* The locals of dump_escaped(): the buffer is the first `bytes` of
\* string_buffer, peak the most of it that was ever written.
NewEscaper ==
  [i |-> 1, state |-> Accept, codep |-> 0, buffer |-> <<>>, accepted |-> 0,
   undumped |-> 0, out |-> <<>>, ok |-> TRUE, peak |-> 0]

NeedsFlushLate(buffer) == StringBufferSize - Len(buffer) < 12

\* No room for one more code point, of 12 bytes at most, and the NUL that
\* snprintf() adds
NeedsFlush(buffer) == StringBufferSize - Len(buffer) < 13

\* The buffer is written out when it could not take another code point.
Flush(e, buffer) ==
  LET full == NeedsFlush(buffer)
  IN  [e EXCEPT !.out = IF full THEN @ \o buffer ELSE @,
                !.buffer = IF full THEN <<>> ELSE buffer,
                !.accepted = IF full THEN 0 ELSE Len(buffer),
                !.undumped = 0]

Written(e, n) == [e EXCEPT !.peak = IF n > @ THEN n ELSE @]

AcceptPoint(e, c, b, ascii) ==
  LET add == Escape(c, b, ascii)
      nul == IF Len(add) > 2 THEN 1 ELSE 0
  IN  Written(Flush([e EXCEPT !.i = @ + 1, !.state = Accept],
                    e.buffer \o add),
              Len(e.buffer) + Len(add) + nul)

\* An invalid byte: throw, or go back to the last accepted byte, and read this
\* one again if it is not the first of its sequence.
RejectByte(e, ascii, handler) ==
  LET valid == SubSeq(e.buffer, 1, e.accepted)
      next  == [e EXCEPT !.i = IF e.undumped > 0 THEN @ ELSE @ + 1,
                         !.state = Accept, !.undumped = 0, !.buffer = valid]
  IN  CASE handler = "strict" -> [e EXCEPT !.ok = FALSE]
        [] handler = "ignore" -> next
        [] handler = "replace" ->
             Written(Flush(next, valid \o Replacement(ascii)),
                     Len(valid) + Len(Replacement(ascii)))

EscapeByte(s, e, ascii, handler) ==
  LET b == s[e.i]
      c == Decoded(e.state, e.codep, b)
      to == Transition(e.state, ByteClass(b))
  IN  CASE to = Accept -> AcceptPoint(e, c, b, ascii)
        [] to = Reject -> RejectByte(e, ascii, handler)
        [] OTHER ->
             LET kept == IF ascii THEN e.buffer ELSE Append(e.buffer, b)
             IN  Written([e EXCEPT !.i = @ + 1, !.state = to, !.codep = c,
                                   !.buffer = kept, !.undumped = @ + 1],
                         Len(kept))

\* The end of the string: an incomplete sequence is an error too.
EscapeEnd(e, ascii, handler) ==
  LET valid == SubSeq(e.buffer, 1, e.accepted)
  IN  CASE e.state = Accept -> [e EXCEPT !.out = @ \o e.buffer]
        [] e.state # Accept /\ handler = "strict" -> [e EXCEPT !.ok = FALSE]
        [] e.state # Accept /\ handler = "ignore" ->
             [e EXCEPT !.out = @ \o valid]
        [] e.state # Accept /\ handler = "replace" ->
             [e EXCEPT !.out = @ \o valid \o Replacement(ascii)]

RECURSIVE DumpEscaped(_, _, _, _)
DumpEscaped(s, e, ascii, handler) ==
  CASE ~e.ok          -> e
    [] e.ok /\ e.i > Len(s) -> EscapeEnd(e, ascii, handler)
    [] OTHER          ->
         DumpEscaped(s, EscapeByte(s, e, ascii, handler), ascii, handler)

-----------------------------------------------------------------------------
(* Numbers.                                                                *)

\* The loop of dump_integer(): two digits at a time, from the right
RECURSIVE DigitPairs(_)
DigitPairs(w) ==
  LET q == DivMod(w, 100)
      two == <<\h30 + q.rem \div 10, \h30 + (q.rem % 10)>>
  IN  IF q.word # Word(0) THEN DigitPairs(q.word) \o two
      ELSE IF q.rem >= 10 THEN two ELSE <<\h30 + q.rem>>

\* dump_integer(); the absolute value of the least integer is the word itself.
DumpInteger(v) ==
  LET w == Payload(v)
  IN  IF Type(v) = "number_integer" /\ IsNegative(w)
      THEN <<\h2D>> \o DigitPairs(Negate(w))
      ELSE DigitPairs(w)

Zeros(n) == [i \in 1..n |-> \h30]
Chars(digits) == [i \in DOMAIN digits |-> \h30 + digits[i]]

\* append_exponent(): a sign and at least two digits
AppendExponent(e) ==
  LET k == IF e < 0 THEN -e ELSE e
      tens == <<\h30 + ((k \div 10) % 10), \h30 + (k % 10)>>
  IN  <<IF e < 0 THEN \h2D ELSE \h2B>>
        \o (IF k < 100 THEN tens ELSE <<\h30 + k \div 100>> \o tens)

MinExp == -4
MaxExp == 15

FormatBufferZeroLess(digits, exp) ==
  LET k == Len(digits)
      n == k + exp
      d == Chars(digits)
  IN  CASE k <= n /\ n <= MaxExp    -> d \o Zeros(n - k) \o <<\h2E, \h30>>
        [] MinExp < n /\ n < 0      -> <<\h30, \h2E>> \o Zeros(-n - 1) \o d
        [] OTHER                    ->
             <<d[1]>> \o (IF k = 1 THEN <<>> ELSE <<\h2E>> \o Tail(d))
               \o <<\h65>> \o AppendExponent(n - 1)

\* format_buffer(): fixed-point notation in [10^MinExp, 10^MaxExp), and always
\* something that looks like a float
FormatBuffer(digits, exp) ==
  LET k == Len(digits)
      n == k + exp
      d == Chars(digits)
  IN  CASE k <= n /\ n <= MaxExp    -> d \o Zeros(n - k) \o <<\h2E, \h30>>
        [] 0 < n /\ n < k /\ n <= MaxExp ->
             SubSeq(d, 1, n) \o <<\h2E>> \o SubSeq(d, n + 1, k)
        [] MinExp < n /\ n <= 0     -> <<\h30, \h2E>> \o Zeros(-n) \o d
        [] OTHER                    ->
             <<d[1]>> \o (IF k = 1 THEN <<>> ELSE <<\h2E>> \o Tail(d))
               \o <<\h65>> \o AppendExponent(n - 1)

\* dump_float() and to_chars()
DumpFloat(f) ==
  (IF f[1] = 1 THEN <<\h2D>> ELSE <<>>)
    \o (IF f[2] = <<>> THEN <<\h30, \h2E, \h30>> ELSE FormatBuffer(f[2], f[3]))

-----------------------------------------------------------------------------
(* dump(): an output is the bytes and whether nothing was thrown.          *)

Out(text) == [text |-> text, ok |-> TRUE]

Concat(outs) ==
  [text |-> FlattenSeq([i \in DOMAIN outs |-> outs[i].text]),
   ok |-> \A i \in DOMAIN outs : outs[i].ok]

Quoted(s, ascii, handler) ==
  LET e == DumpEscaped(s, NewEscaper, ascii, handler)
  IN  [text |-> <<\h22>> \o e.out \o <<\h22>>, ok |-> e.ok]

\* The elements, with a comma between two of them; a pretty-printed one is on a
\* line of its own.
Indent(step, level) == [i \in 1..(step * level) |-> \h20]

Line(step, level) ==
  IF step = 0 THEN <<>> ELSE <<\h0A>> \o Indent(step, level)

Enclose(open, elements, close, step, level) ==
  LET sep(i) == IF i = 1 THEN <<>> ELSE <<\h2C>>
  IN  IF elements = <<>> THEN Out(<<open, close>>)
      ELSE Concat(<<Out(<<open>>)>>
             \o [i \in DOMAIN elements |->
                   Concat(<<Out(sep(i) \o Line(step, level + 1)),
                            elements[i]>>)]
             \o <<Out(Line(step, level) \o <<close>>)>>)

Colon(step) == IF step = 0 THEN <<\h3A>> ELSE <<\h3A, \h20>>

True4 == <<\h74, \h72, \h75, \h65>>
False5 == <<\h66, \h61, \h6C, \h73, \h65>>
Null4 == <<\h6E, \h75, \h6C, \h6C>>

DumpScalar(v, ascii, handler) ==
  CASE Type(v) = "string"       -> Quoted(Payload(v), ascii, handler)
    [] Type(v) = "boolean"      -> Out(IF Payload(v)[1] = 1 THEN True4 ELSE False5)
    [] Type(v) = "number_float" -> Out(DumpFloat(Payload(v)))
    [] IsInteger(v)             -> Out(DumpInteger(v))
    [] Type(v) = "null"         -> Out(Null4)

\* step is 0 unless pretty_print; level * step is current_indent.
RECURSIVE Dump(_, _, _, _, _)
Dump(v, step, level, ascii, handler) ==
  LET sub(w) == Dump(w, step, level + 1, ascii, handler)
      x == Payload(v)
  IN  CASE Type(v) = "object" ->
             Enclose(\h7B,
               [i \in DOMAIN x |->
                  Concat(<<Quoted(x[i][1], ascii, handler), Out(Colon(step)),
                           sub(x[i][2])>>)],
               \h7D, step, level)
        [] Type(v) = "array" ->
             Enclose(\h5B, [i \in DOMAIN x |-> sub(x[i])], \h5D, step, level)
        [] OTHER -> DumpScalar(v, ascii, handler)
=============================================================================
