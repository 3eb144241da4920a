---------------------------- MODULE JsonGrammar ----------------------------
(***************************************************************************)
(* What a JSON text denotes, by RFC 8259 and RFC 3629, as the reference    *)
(* for the lexer and the parser of nlohmann::json: nothing here is         *)
(* translated from the code.  A text denotes the values that some way to   *)
(* take it apart gives: none if it is not JSON, one if it is.              *)
(***************************************************************************)
EXTENDS JsonValue

\* A text without the white space at both ends
Space == {\h20, \h09, \h0A, \h0D}
Trim(s) ==
  LET ink == {i \in DOMAIN s : s[i] \notin Space}
  IN  IF ink = {} THEN <<>>
      ELSE SubSeq(s, CHOOSE i \in ink : \A j \in ink : i <= j,
                     CHOOSE i \in ink : \A j \in ink : i >= j)

Onward(s, i) == SubSeq(s, i, Len(s))
Upto(s, i) == SubSeq(s, 1, IF i > Len(s) THEN Len(s) ELSE i)

-----------------------------------------------------------------------------
(* UTF-8: the code point of a sequence of 1 to 4 bytes is the number its   *)
(* payload bits make; the sequence is well-formed if it is the shortest    *)
(* for that number and the number is a Unicode scalar value.               *)

LeadBits == <<0, \hC0, \hE0, \hF0>>
LeadSize == <<128, 32, 16, 8>>
Least == <<0, \h80, \h800, \h10000>>

ScalarValue(c) == c \in 0..\h10FFFF /\ c \notin \hD800..\hDFFF

IsCharacter(b) ==
  LET n == Len(b)
      lead == b[1] - LeadBits[n]
      point == FoldLeft(LAMBDA c, x : c * 64 + (x - \h80), lead, Tail(b))
  IN  /\ n \in 1..4
      /\ lead \in 0..(LeadSize[n] - 1)
      /\ \A i \in 2..n : b[i] \in \h80..\hBF
      /\ point >= Least[n] /\ ScalarValue(point)

RECURSIVE IsUtf8(_)
IsUtf8(s) ==
  s = <<>> \/ \E n \in 1..4 : /\ n <= Len(s)
                              /\ IsCharacter(Upto(s, n))
                              /\ IsUtf8(Onward(s, n + 1))

\* The bytes of a code point: the well-formed sequence whose bits are its bits
Utf8(c) ==
  LET bits(k) == \h80 + ((c \div 64^k) % 64)
  IN  CASE c < \h80    -> <<c>>
        [] c \in \h80..\h7FF     -> <<\hC0 + c \div 64, bits(0)>>
        [] c \in \h800..\hFFFF   -> <<\hE0 + c \div 64^2, bits(1), bits(0)>>
        [] c \in \h10000..\h10FFFF ->
             <<\hF0 + c \div 64^3, bits(2), bits(1), bits(0)>>

-----------------------------------------------------------------------------
(* Strings: the bytes that a prefix of the body denotes, if it is one unit *)

HexValue(c) ==
  CASE c \in \h30..\h39 -> c - \h30
    [] c \in \h41..\h46 -> c - \h41 + 10
    [] c \in \h61..\h66 -> c - \h61 + 10
    [] OTHER            -> 16

\* \uXXXX
IsUnit(s) ==
  /\ Len(s) = 6 /\ s[1] = \h5C /\ s[2] = \h75
  /\ \A i \in 3..6 : HexValue(s[i]) < 16
UnitValue(s) == FoldLeft(LAMBDA n, c : n * 16 + HexValue(c), 0, Onward(s, 3))

ShortEscapes ==
  {<<\h22, \h22>>, <<\h5C, \h5C>>, <<\h2F, \h2F>>, <<\h62, \h08>>,
   <<\h66, \h0C>>, <<\h6E, \h0A>>, <<\h72, \h0D>>, <<\h74, \h09>>}

UnitDenotes(s) ==
  LET hi == UnitValue(Upto(s, 6))
      lo == UnitValue(Onward(s, 7))
  IN  {<<e[2]>> : e \in {e \in ShortEscapes : s = <<\h5C, e[1]>>}}
        \union {b \in {s} : /\ Len(s) <= 4 /\ IsCharacter(s)
                            /\ s[1] >= \h20 /\ s[1] \notin {\h22, \h5C}}
        \union {Utf8(c) : c \in {c \in {hi} : IsUnit(s) /\ ScalarValue(c)}}
        \union {Utf8(\h10000 + (h - \hD800) * 1024 + (lo - \hDC00)) :
                  h \in {h \in {hi} :
                           /\ Len(s) = 12 /\ IsUnit(Upto(s, 6))
                           /\ IsUnit(Onward(s, 7))
                           /\ h \in \hD800..\hDBFF /\ lo \in \hDC00..\hDFFF}}

RECURSIVE BodyDenotes(_)
BodyDenotes(s) ==
  IF s = <<>> THEN {<<>>}
  ELSE UNION {{x \o y : x \in UnitDenotes(Upto(s, n)),
                        y \in BodyDenotes(Onward(s, n + 1))} :
                n \in {n \in {1, 2, 3, 4, 6, 12} :
                         n <= Len(s) /\ UnitDenotes(Upto(s, n)) # {}}}

StringDenotes(s) ==
  IF Len(s) >= 2 /\ s[1] = \h22 /\ s[Len(s)] = \h22
  THEN BodyDenotes(SubSeq(s, 2, Len(s) - 1)) ELSE {}

-----------------------------------------------------------------------------
(* Numbers: [ - ] int [ . digits ] [ e [ + | - ] digits ], as the decimal  *)
(* number they denote and the type that the library documents for it:      *)
(* unsigned without a sign, integer with one, float with a fraction, an    *)
(* exponent or a value outside the 64 bits.                                *)

AreDigits(s) == s # <<>> /\ \A i \in DOMAIN s : s[i] \in \h30..\h39
IsInt(s) == AreDigits(s) /\ (Len(s) > 1 => s[1] # \h30)

Numeral(s) == [i \in DOMAIN s |-> s[i] - \h30]

RECURSIVE ValueOf(_)
ValueOf(s) == IF s = <<>> THEN 0 ELSE ValueOf(Front(s)) * 10 + Last(s) - \h30

ExpValue(s) ==
  CASE s = <<>>                                     -> {0}
    [] s # <<>> /\ AreDigits(Tail(s)) /\ s[1] \in {\h65, \h45} -> {ValueOf(Tail(s))}
    [] Len(s) > 2 /\ s[1] \in {\h65, \h45} /\ AreDigits(Onward(s, 3))
         /\ s[2] \in {\h2B, \h2D} ->
         {IF s[2] = \h2D THEN -ValueOf(Onward(s, 3)) ELSE ValueOf(Onward(s, 3))}
    [] OTHER                                        -> {}

FracDigits(s) ==
  CASE s = <<>> -> {<<>>}
    [] s # <<>> /\ s[1] = \h2E /\ AreDigits(Tail(s)) -> {Tail(s)}
    [] OTHER -> {}

MaxUnsigned == <<1,8,4,4,6,7,4,4,0,7,3,7,0,9,5,5,1,6,1,5>>    \* 2^64 - 1
MaxNegative == <<9,2,2,3,3,7,2,0,3,6,8,5,4,7,7,5,8,0,8>>      \* 2^63

AtMost(n, max) == Len(n) < Len(max) \/ (Len(n) = Len(max) /\ ~Before(max, n))

NumberKind(neg, int, isFloat) ==
  CASE isFloat -> "number_float"
    [] ~isFloat /\ neg ->
         IF AtMost(Numeral(int), MaxNegative) THEN "number_integer" ELSE "number_float"
    [] OTHER ->
         IF AtMost(Numeral(int), MaxUnsigned) THEN "number_unsigned" ELSE "number_float"

\* No double is nearest to a number from half-way between the largest one,
\* (2^53 - 1) 2^971, and 2^1024 on: its 309 digits, the last 306 of
\* them in groups of nine
TooLarge ==
  LET groups ==
        <<769313486, 231580793, 728971405, 303415079, 934132710, 37826936,
          173778980, 444968292, 764750946, 649017977, 587207096, 330286416,
          692887910, 946555547, 851940402, 630657488, 671505820, 681908902,
          708383, 676273854, 845817711, 531764475, 730270069, 855571366,
          959622842, 914819860, 834936475, 292719074, 168444365, 510704342,
          711559699, 508093042, 880177904, 174497792>>
      nine(n) == [i \in 1..9 |-> (n \div 10^(9 - i)) % 10]
  IN  <<1, 7, 9>> \o FlattenSeq([i \in DOMAIN groups |-> nine(groups[i])])

NoDoubleHolds(f) ==
  LET places == Len(f[2]) + f[3]
      digits == f[2] \o [i \in 1..(IF f[3] > 0 THEN f[3] ELSE 0) |-> 0]
  IN  places > Len(TooLarge) \/ (places = Len(TooLarge) /\ ~Before(digits, TooLarge))

\* The sign of a zero is not told apart.
Decimal(f) == IF f[2] = <<>> THEN <<0, <<>>, 0>> ELSE f

NumberDenotes(s) ==
  LET neg == s # <<>> /\ s[1] = \h2D
      b == IF neg THEN Tail(s) ELSE s
  IN  UNION {UNION {
        {<<NumberKind(neg, Upto(b, i), i < Len(b)),
           Decimal(Canonical(IF neg THEN 1 ELSE 0, Numeral(Upto(b, i) \o f),
                             e - Len(f)))>> :
           f \in FracDigits(SubSeq(b, i + 1, j)), e \in ExpValue(Onward(b, j + 1))} :
        j \in i..Len(b)} : i \in {i \in 1..Len(b) : IsInt(Upto(b, i))}}

-----------------------------------------------------------------------------
(* Values.  A number is its type and decimal value; the last of equal keys *)
(* wins, as the library documents.                                         *)

LiteralDenotes(s) ==
  {l[2] : l \in {l \in {<<<<\h74, \h72, \h75, \h65>>, Boolean(TRUE)>>,
                        <<<<\h66, \h61, \h6C, \h73, \h65>>, Boolean(FALSE)>>,
                        <<<<\h6E, \h75, \h6C, \h6C>>, Null>>} : l[1] = s}}

Enclosed(s, open, close) == Len(s) >= 2 /\ s[1] = open /\ s[Len(s)] = close
Inside(s) == Trim(SubSeq(s, 2, Len(s) - 1))
PlacesOf(s, c) == {i \in DOMAIN s : s[i] = c}

RECURSIVE ValueDenotes(_), ElementsDenote(_), MembersDenote(_), MemberDenotes(_)
ValueDenotes(t) ==
  LET s == Trim(t)
  IN  LiteralDenotes(s)
        \union NumberDenotes(s)
        \union {String(x) : x \in StringDenotes(s)}
        \union (IF ~Enclosed(s, \h5B, \h5D) THEN {}
                ELSE IF Inside(s) = <<>> THEN {Array(<<>>)}
                ELSE {Array(vs) : vs \in ElementsDenote(Inside(s))})
        \union (IF ~Enclosed(s, \h7B, \h7D) THEN {}
                ELSE IF Inside(s) = <<>> THEN {Object(<<>>)}
                ELSE {FoldLeft(LAMBDA o, m : Put(o, m[1], m[2]), Object(<<>>), ms) :
                        ms \in MembersDenote(Inside(s))})
ElementsDenote(s) ==
  {<<v>> : v \in ValueDenotes(s)}
    \union UNION {{<<v>> \o vs : v \in ValueDenotes(Upto(s, i - 1)),
                                 vs \in ElementsDenote(Onward(s, i + 1))} :
                    i \in {i \in PlacesOf(s, \h2C) :
                             ValueDenotes(Upto(s, i - 1)) # {}}}
MemberDenotes(s) ==
  UNION {{<<k, v>> : k \in StringDenotes(Trim(Upto(s, i - 1))),
                     v \in ValueDenotes(Onward(s, i + 1))} : i \in PlacesOf(s, \h3A)}
MembersDenote(s) ==
  {<<m>> : m \in MemberDenotes(s)}
    \union UNION {{<<m>> \o ms : m \in MemberDenotes(Upto(s, i - 1)),
                                 ms \in MembersDenote(Onward(s, i + 1))} :
                    i \in {i \in PlacesOf(s, \h2C) :
                             MemberDenotes(Upto(s, i - 1)) # {}}}

\* A text may start with a byte order mark; a NUL that is not inside a value
\* ends it, whatever follows.
ByteOrderMark == <<\hEF, \hBB, \hBF>>
TextDenotes(s) ==
  LET t == IF Upto(s, 3) = ByteOrderMark THEN Onward(s, 4) ELSE s
      nuls == PlacesOf(t, 0)
  IN  ValueDenotes(IF nuls = {} THEN t
                   ELSE Upto(t, (CHOOSE i \in nuls : \A j \in nuls : i <= j) - 1))

\* The text ends with a number that no double holds, whole: what stands before
\* it is no part of a number.
NumberBytes == \h30..\h39 \union {\h2B, \h2D, \h2E, \h45, \h65}
EndsTooLarge(s) ==
  \E i \in DOMAIN s :
    /\ i = 1 \/ s[i - 1] \notin NumberBytes
    /\ \E d \in NumberDenotes(Onward(s, i)) : NoDoubleHolds(d[2])

\* A value of the library in the terms of the reference
RECURSIVE Meaning(_)
Meaning(v) ==
  LET x == Payload(v)
  IN  CASE IsArray(v)  -> Array([i \in DOMAIN x |-> Meaning(x[i])])
        [] IsObject(v) -> Object([i \in DOMAIN x |-> <<x[i][1], Meaning(x[i][2])>>])
        [] IsInteger(v) \/ Type(v) = "number_float" ->
             <<Type(v), Decimal(ToFloat(v))>>
        [] OTHER -> v
=============================================================================
