----------------------------- MODULE JsonValue -----------------------------
(***************************************************************************)
(* The values of nlohmann::json, basic_json, and its 64-bit integers.      *)
(*                                                                         *)
(* A value is <<type, payload>>.  Integers are the 8 bytes of a 64-bit     *)
(* word, most significant first, in two's complement, so that widths and   *)
(* overflow are those of the code; a float is <<sign, digits, exponent>>,  *)
(* the digits being decimal and without zeros at either end; a string is   *)
(* the sequence of its bytes; an object the sequence of its <<key, value>> *)
(* pairs in the order of std::map.                                         *)
(***************************************************************************)
EXTENDS Integers, Sequences, SequencesExt, TLC

Byte == 0..255

Null == <<"null", <<>>>>
Discarded == <<"discarded", <<>>>>
Boolean(b) == <<"boolean", <<IF b THEN 1 ELSE 0>>>>
Unsigned(w) == <<"number_unsigned", w>>
Signed(w) == <<"number_integer", w>>
Float(f) == <<"number_float", f>>     \* f is <<sign, digits, exponent>>
String(s) == <<"string", s>>
Array(vs) == <<"array", vs>>
Object(kvs) == <<"object", kvs>>

Type(v) == v[1]
Payload(v) == v[2]
IsArray(v) == Type(v) = "array"
IsObject(v) == Type(v) = "object"
IsStructured(v) == IsArray(v) \/ IsObject(v)

-----------------------------------------------------------------------------
(* 64-bit words.                                                           *)

Word(n) ==     \* a natural number that TLC can hold
  [i \in 1..8 |-> IF i <= 4 THEN 0 ELSE (n \div 256^(8 - i)) % 256]

\* w * m + a modulo 2^64, and what does not fit
MulAdd(w, m, a) ==
  LET carry[i \in 0..8] ==
        IF i = 8 THEN a ELSE (w[i + 1] * m + carry[i + 1]) \div 256
  IN  [word |-> [i \in 1..8 |-> (w[i] * m + carry[i]) % 256],
       over |-> carry[0]]

DivMod(w, d) ==
  LET rem[i \in 0..8] == IF i = 0 THEN 0 ELSE (rem[i - 1] * 256 + w[i]) % d
  IN  [word |-> [i \in 1..8 |-> (rem[i - 1] * 256 + w[i]) \div d],
       rem |-> rem[8]]

Complement(w) == [i \in DOMAIN w |-> 255 - w[i]]         \* -1 - w
Negate(w) == MulAdd(Complement(w), 1, 1).word
IsNegative(w) == w[1] >= 128

\* Lexicographic order on bytes: unsigned words of one width, and std::string
Before(s, t) ==
  \E i \in 1..Len(t) :
    /\ \A j \in 1..(i - 1) : j <= Len(s) /\ s[j] = t[j]
    /\ i > Len(s) \/ s[i] < t[i]

\* The unsigned word w is less than or equal to 2^(8n) - 1
FitsIn(w, n) == \A i \in 1..(8 - n) : w[i] = 0

-----------------------------------------------------------------------------
(* Objects.                                                                *)

HasKey(o, k) == \E i \in DOMAIN Payload(o) : Payload(o)[i][1] = k

KeyIndex(o, k) == CHOOSE i \in DOMAIN Payload(o) : Payload(o)[i][1] = k

\* std::map::operator[] and an assignment to what it returns
Put(o, k, v) ==
  LET kvs == Payload(o)
      before == SelectSeq(kvs, LAMBDA e : Before(e[1], k))
      after  == SelectSeq(kvs, LAMBDA e : Before(k, e[1]))
  IN  Object(before \o <<<<k, v>>>> \o after)

\* std::map::erase(key)
EraseKey(o, k) == Object(SelectSeq(Payload(o), LAMBDA e : e[1] # k))

\* The element of a container: of an array by its index from 0, of an object
\* by its key
Child(v, x) ==
  IF IsObject(v) THEN Payload(v)[KeyIndex(v, x)][2] ELSE Payload(v)[x + 1]

SetChild(v, x, e) ==
  IF IsObject(v) THEN Put(v, x, e)
  ELSE Array([Payload(v) EXCEPT ![x + 1] = e])

\* A reference into a value is the path to it.
RECURSIVE At(_, _)
At(v, path) == IF path = <<>> THEN v ELSE At(Child(v, Head(path)), Tail(path))

RECURSIVE SetAt(_, _, _)
SetAt(v, path, e) ==
  IF path = <<>> THEN e
  ELSE SetChild(v, Head(path), SetAt(Child(v, Head(path)), Tail(path), e))

-----------------------------------------------------------------------------
IsInteger(v) == Type(v) \in {"number_integer", "number_unsigned"}

\* operator==: structured values by their elements; an integer and an unsigned
\* one by the words they hold, after the conversion of the unsigned one to a
\* signed one; an integer and a float by the float nearest to the integer.
RECURSIVE AsDecimal(_, _)
AsDecimal(w, digits) ==
  IF w = Word(0) THEN digits
  ELSE AsDecimal(DivMod(w, 10).word, <<DivMod(w, 10).rem>> \o digits)

RECURSIVE Canonical(_, _, _)
Canonical(sign, digits, exp) ==
  CASE digits = <<>>                -> <<sign, <<>>, 0>>
    [] Head(digits) = 0             -> Canonical(sign, Tail(digits), exp)
    [] digits[Len(digits)] = 0      -> Canonical(sign, Front(digits), exp + 1)
    [] OTHER                        -> <<sign, digits, exp>>

ToFloat(v) ==
  CASE Type(v) = "number_float"    -> Payload(v)
    [] Type(v) = "number_unsigned" -> Canonical(0, AsDecimal(Payload(v), <<>>), 0)
    [] IsNegative(Payload(v)) ->
         Canonical(1, AsDecimal(Negate(Payload(v)), <<>>), 0)
    [] OTHER -> Canonical(0, AsDecimal(Payload(v), <<>>), 0)

SameFloat(f, g) == f[2] = g[2] /\ f[3] = g[3] /\ (f[2] # <<>> => f[1] = g[1])

RECURSIVE Equal(_, _)
Equal(v, w) ==
  CASE Type(v) = "array" /\ Type(w) = "array" ->
         /\ Len(Payload(v)) = Len(Payload(w))
         /\ \A i \in DOMAIN Payload(v) : Equal(Payload(v)[i], Payload(w)[i])
    [] Type(v) = "object" /\ Type(w) = "object" ->
         /\ Len(Payload(v)) = Len(Payload(w))
         /\ \A i \in DOMAIN Payload(v) :
              /\ Payload(v)[i][1] = Payload(w)[i][1]
              /\ Equal(Payload(v)[i][2], Payload(w)[i][2])
    [] IsInteger(v) /\ IsInteger(w) -> Payload(v) = Payload(w)
    [] "number_float" \in {Type(v), Type(w)}
         /\ {Type(v), Type(w)} \subseteq
              {"number_float", "number_integer", "number_unsigned"} ->
         SameFloat(ToFloat(v), ToFloat(w))
    [] Type(v) = "discarded" -> FALSE
    [] OTHER -> v = w
=============================================================================
