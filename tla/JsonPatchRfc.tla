---------------------------- MODULE JsonPatchRfc ----------------------------
(***************************************************************************)
(* What an operation of a JSON patch does by RFC 6901 and RFC 6902, as the *)
(* reference for patch() of nlohmann::json: nothing here is translated     *)
(* from the code.  An operation gives the set of the documents it may      *)
(* leave: none if it is an error, one if it is not.  A pointer is the      *)
(* sequence of its reference tokens.                                       *)
(***************************************************************************)
EXTENDS JsonValue

\* The text of a number, without leading zeros
RECURSIVE AsText(_)
AsText(n) ==
  IF n < 10 THEN <<\h30 + n>> ELSE AsText(n \div 10) \o <<\h30 + (n % 10)>>

\* The token for the element behind the last one of an array
Behind == <<\h2D>>

\* The elements of a value that a token names, and the places of a pointer
Named(v, token) ==
  CASE IsObject(v) -> {k \in {token} : HasKey(v, k)}
    [] IsArray(v)  -> {i \in 0..(Len(Payload(v)) - 1) : AsText(i) = token}
    [] OTHER       -> {}

RECURSIVE Places(_, _)
Places(v, tokens) ==
  IF tokens = <<>> THEN {<<>>}
  ELSE UNION {{<<x>> \o p : p \in Places(Child(v, x), Tail(tokens))} :
                x \in Named(v, Head(tokens))}

\* A container with one more element, and with one less
Inserted(v, token, e) ==
  CASE IsObject(v) -> {Put(v, token, e)}
    [] IsArray(v)  ->
         {Array(InsertAt(Payload(v), i + 1, e)) :
            i \in {i \in 0..Len(Payload(v)) :
                     AsText(i) = token \/ (token = Behind /\ i = Len(Payload(v)))}}
    [] OTHER       -> {}

Without(v, token) ==
  {IF IsObject(v) THEN EraseKey(v, x) ELSE Array(RemoveAt(Payload(v), x + 1)) :
     x \in Named(v, token)}

-----------------------------------------------------------------------------
(* The operations.  Nothing is left of a document whose root is removed.   *)

Adds(v, path, e) ==
  IF path = <<>> THEN {e}
  ELSE UNION {{SetAt(v, p, w) : w \in Inserted(At(v, p), Last(path), e)} :
                p \in Places(v, Front(path))}

Removes(v, path) ==
  IF path = <<>> THEN {}
  ELSE UNION {{SetAt(v, p, w) : w \in Without(At(v, p), Last(path))} :
                p \in Places(v, Front(path))}

Replaces(v, path, e) == {SetAt(v, p, e) : p \in Places(v, path)}

Copies(v, from, path) ==
  UNION {Adds(v, path, At(v, p)) : p \in Places(v, from)}

\* "functionally identical to" a remove and an add
Moves(v, from, path) ==
  UNION {UNION {Adds(w, path, At(v, p)) : w \in Removes(v, from)} :
           p \in Places(v, from)}

Tests(v, path, e) == {w \in {v} : \E p \in Places(v, path) : Equal(At(v, p), e)}

-----------------------------------------------------------------------------
(* Where this library is known not to follow the RFC.                      *)

LeadingZero(token) == Len(token) > 1 /\ token[1] = \h30

\* An add whose parent is missing makes it, if the first token names something;
\* null becomes an object; and an index may have leading zeros.
AddsOtherwise(v, path) ==
  path # <<>> /\
    \/ /\ Places(v, Front(path)) = {}
       /\ Len(path) > 1 /\ Places(v, <<Head(path)>>) # {}
    \/ \E p \in Places(v, Front(path)) :
         \/ At(v, p) = Null
         \/ IsArray(At(v, p)) /\ LeadingZero(Last(path))

\* A remove below what holds no elements does nothing, and an index may have
\* leading zeros.
RemovesOtherwise(v, path) ==
  path # <<>> /\
    \E p \in Places(v, Front(path)) :
      \/ ~IsStructured(At(v, p))
      \/ IsArray(At(v, p)) /\ LeadingZero(Last(path))

\* A value may be moved below the place that it was removed from.
MovesOtherwise(v, from, path) ==
  \/ IsStrictPrefix(from, path)
  \/ \E w \in Removes(v, from) : AddsOtherwise(w, path)
=============================================================================
