---------------------------- MODULE JsonPointer ----------------------------
(***************************************************************************)
(* JSON Pointers, JSON Patch and JSON Merge Patch of nlohmann::json.       *)
(*                                                                         *)
(* A pointer is the sequence of its reference tokens.  The reference it    *)
(* resolves to is a path into the value, as in JsonValue; an operation     *)
(* that throws yields ok = FALSE.                                          *)
(***************************************************************************)
EXTENDS JsonSerializer

Slash == \h2F
Tilde == \h7E
Zero == \h30
One == \h31
Dash == <<\h2D>>

-----------------------------------------------------------------------------
(* The text of a pointer.                                                  *)

\* replace_substring(): the text that was put in is not searched again.
RECURSIVE ReplaceSubstring(_, _, _)
ReplaceSubstring(s, f, t) ==
  IF Len(s) < Len(f) THEN s
  ELSE IF SubSeq(s, 1, Len(f)) = f
  THEN t \o ReplaceSubstring(SubSeq(s, Len(f) + 1, Len(s)), f, t)
  ELSE <<Head(s)>> \o ReplaceSubstring(Tail(s), f, t)

\* escape()
EscapeToken(s) ==
  ReplaceSubstring(ReplaceSubstring(s, <<Tilde>>, <<Tilde, Zero>>),
                   <<Slash>>, <<Tilde, One>>)

\* unescape(): "order is important!"
Unescape(s) ==
  ReplaceSubstring(ReplaceSubstring(s, <<Tilde, One>>, <<Slash>>),
                   <<Tilde, Zero>>, <<Tilde>>)

\* The parts of the text between its slashes
RECURSIVE Parts(_, _, _)
Parts(s, part, parts) ==
  CASE s = <<>> -> Append(parts, part)
    [] s # <<>> /\ Head(s) = Slash -> Parts(Tail(s), <<>>, Append(parts, part))
    [] OTHER    -> Parts(Tail(s), Append(part, Head(s)), parts)

\* A tilde is followed by 0 or 1.
WellEscaped(s) ==
  \A i \in DOMAIN s :
    s[i] = Tilde => i < Len(s) /\ s[i + 1] \in {Zero, One}

\* json_pointer(), split(): empty, or every token behind a slash
Split(s) ==
  LET parts == Parts(s, <<>>, <<>>)
  IN  [ok |-> /\ s # <<>> => Head(s) = Slash
              /\ \A i \in DOMAIN parts : WellEscaped(parts[i]),
       tokens |-> [i \in 1..(Len(parts) - 1) |-> Unescape(parts[i + 1])]]

Index(i) == DigitPairs(Word(i))     \* std::to_string()

-----------------------------------------------------------------------------
(* References.                                                             *)

IsDigits(s) == \A i \in DOMAIN s : s[i] \in Zero..\h39

\* array_index(): std::stoi() and nothing behind the number.  A negative number
\* becomes a huge size_type, which no array has; the white space and the plus
\* sign that stoi() takes in front of a number are left out.
IsIndex(s) == s # <<>> /\ IsDigits(s) /\ Len(s) < 9
ArrayIndex(s) == FoldLeft(LAMBDA n, c : n * 10 + c - Zero, 0, s)

\* RFC 6901: no leading zeros
NoLeadingZero(s) == ~(Len(s) > 1 /\ s[1] = Zero)

NoReference == [ok |-> FALSE, path |-> <<>>]

\* get_checked(): everything on the way exists.
RECURSIVE GetChecked(_, _)
GetChecked(v, tokens) ==
  IF tokens = <<>> THEN [ok |-> TRUE, path |-> <<>>]
  ELSE LET t == Head(tokens)
           below(x) == LET r == GetChecked(Child(v, x), Tail(tokens))
                       IN  IF r.ok THEN [r EXCEPT !.path = <<x>> \o @] ELSE r
       IN  CASE IsObject(v) /\ HasKey(v, t) -> below(t)
             [] IsArray(v) /\ NoLeadingZero(t) /\ IsIndex(t)
                  /\ ArrayIndex(t) < Len(Payload(v)) -> below(ArrayIndex(t))
             [] OTHER -> NoReference

\* By how much n exceeds m
Excess(n, m) == IF n > m THEN n - m ELSE 0

\* operator[]: a missing element is added as null, and the ones before it.
WithKey(o, k) == IF HasKey(o, k) THEN o ELSE Put(o, k, Null)
WithIndex(a, i) ==
  Array(Payload(a) \o [j \in 1..Excess(i + 1, Len(Payload(a))) |-> Null])

\* The value changed on the way to the reference, and the path to it
Threw == [ok |-> FALSE, val |-> Null, path |-> <<>>]
Below(container, x, r) ==
  IF r.ok THEN [ok |-> TRUE, val |-> SetChild(container, x, r.val),
                path |-> <<x>> \o r.path] ELSE Threw

\* get_unchecked(): what is missing is created; null becomes an array for a
\* token of digits (the empty one too) or "-", and an object otherwise.
RECURSIVE GetUnchecked(_, _)
GetUnchecked(v, tokens) ==
  IF tokens = <<>> THEN [ok |-> TRUE, val |-> v, path |-> <<>>]
  ELSE LET t == Head(tokens)
           w == CASE Type(v) # "null" -> v
                  [] Type(v) = "null" /\ (IsDigits(t) \/ t = Dash) -> Array(<<>>)
                  [] OTHER -> Object(<<>>)
           below(c, x) == Below(c, x, GetUnchecked(Child(c, x), Tail(tokens)))
       IN  CASE IsObject(w) -> below(WithKey(w, t), t)
             [] IsArray(w) /\ t = Dash ->
                  below(WithIndex(w, Len(Payload(w))), Len(Payload(w)))
             [] IsArray(w) /\ t # Dash /\ NoLeadingZero(t) /\ IsIndex(t) ->
                  below(WithIndex(w, ArrayIndex(t)), ArrayIndex(t))
             [] OTHER -> Threw

\* get_and_create(): null becomes an array for the token 0 alone.
RECURSIVE GetAndCreate(_, _)
GetAndCreate(v, tokens) ==
  IF tokens = <<>> THEN [ok |-> TRUE, val |-> v, path |-> <<>>]
  ELSE LET t == Head(tokens)
           w == CASE Type(v) # "null" -> v
                  [] Type(v) = "null" /\ t = <<Zero>> -> Array(<<>>)
                  [] OTHER -> Object(<<>>)
           below(c, x) == Below(c, x, GetAndCreate(Child(c, x), Tail(tokens)))
       IN  CASE IsObject(w) -> below(WithKey(w, t), t)
             [] IsArray(w) /\ IsIndex(t) ->
                  below(WithIndex(w, ArrayIndex(t)), ArrayIndex(t))
             [] OTHER -> Threw

-----------------------------------------------------------------------------
(* flatten() and unflatten().                                              *)

RECURSIVE FlattenInto(_, _, _)
FlattenInto(pointer, v, result) ==
  LET x == Payload(v)
      name(i) == IF IsObject(v) THEN EscapeToken(x[i][1]) ELSE Index(i - 1)
      element(i) == IF IsObject(v) THEN x[i][2] ELSE x[i]
  IN  CASE ~IsStructured(v) -> Put(result, pointer, v)
        [] IsStructured(v) /\ x = <<>> -> Put(result, pointer, Null)
        [] OTHER ->
             FoldLeft(LAMBDA r, i : FlattenInto(pointer \o <<Slash>> \o name(i),
                                                element(i), r),
                      result, [i \in DOMAIN x |-> i])

Flatten(v) == FlattenInto(<<>>, v, Object(<<>>))

\* An element of the flattened value is assigned to where its key points.
Assign(r, kv) ==
  LET ptr == Split(kv[1])
      ref == GetAndCreate(r.val, ptr.tokens)
  IN  IF r.ok /\ ptr.ok /\ ref.ok /\ ~IsStructured(kv[2])
      THEN [ok |-> TRUE, val |-> SetAt(ref.val, ref.path, kv[2])]
      ELSE [ok |-> FALSE, val |-> r.val]

Unflatten(v) ==
  IF IsObject(v) THEN FoldLeft(Assign, [ok |-> TRUE, val |-> Null], Payload(v))
  ELSE [ok |-> FALSE, val |-> Null]

-----------------------------------------------------------------------------
(* JSON Patch.  The members and the operations by their names:             *)

OpKey == <<\h6F, \h70>>
PathKey == <<\h70, \h61, \h74, \h68>>
FromKey == <<\h66, \h72, \h6F, \h6D>>
ValueKey == <<\h76, \h61, \h6C, \h75, \h65>>
AddOp == <<\h61, \h64, \h64>>
RemoveOp == <<\h72, \h65, \h6D, \h6F, \h76, \h65>>
ReplaceOp == <<\h72, \h65, \h70, \h6C, \h61, \h63, \h65>>
MoveOp == <<\h6D, \h6F, \h76, \h65>>
CopyOp == <<\h63, \h6F, \h70, \h79>>
TestOp == <<\h74, \h65, \h73, \h74>>

\* An operation is done, throws, or ends the process.
Result(ok, v, aborts) == [ok |-> ok, val |-> v, aborts |-> aborts]
Done(v) == Result(TRUE, v, FALSE)
Refuse == Result(FALSE, Null, FALSE)
Abort == Result(FALSE, Null, TRUE)

InsertElementAtEnd(x, i, v) == Append(x, v)

\* insert(): the elements from i on move up.
InsertElement(x, i, v) == InsertAt(x, i + 1, v)

\* operation_add(): under its parent the value is put or inserted; where the
\* parent holds no elements the assertion fails (NDEBUG is not defined).
AddUnder(parent, last, v) ==
  LET x == Payload(parent)
      i == IF last = Dash THEN Len(x) ELSE ArrayIndex(last)
  IN  CASE Type(parent) = "null" -> Done(Put(Object(<<>>), last, v))
        [] IsObject(parent)      -> Done(Put(parent, last, v))
        [] IsArray(parent) /\ (last = Dash \/ IsIndex(last)) /\ i <= Len(x) ->
             Done(Array(InsertElement(x, i, v)))
        [] IsArray(parent) /\ ~((last = Dash \/ IsIndex(last)) /\ i <= Len(x)) -> Refuse
        [] OTHER                 -> Abort

\* The reference with the value it points to replaced by what was made of it
Store(ref, r) == IF r.ok THEN Done(SetAt(ref.val, ref.path, r.val)) ELSE r
AddAt(ref, last, v) ==
  IF ref.ok THEN Store(ref, AddUnder(At(ref.val, ref.path), last, v)) ELSE Refuse

OperationAdd(doc, tokens, v) ==
  CASE tokens = <<>> -> Done(v)
    [] Len(tokens) > 1 /\ ~GetChecked(doc, <<Head(tokens)>>).ok -> Refuse
    [] OTHER -> AddAt(GetUnchecked(doc, Front(tokens)), Last(tokens), v)

\* operation_remove(); a parent that holds no elements is left as it is.
RemoveUnder(parent, last) ==
  LET i == ArrayIndex(last)
  IN  CASE IsObject(parent) /\ HasKey(parent, last) -> Done(EraseKey(parent, last))
        [] IsArray(parent) /\ IsIndex(last) /\ i < Len(Payload(parent)) ->
             Done(Array(RemoveAt(Payload(parent), i + 1)))
        [] ~IsStructured(parent) -> Done(parent)
        [] OTHER -> Refuse

RemoveAtRef(doc, ref, last) ==
  IF ref.ok THEN Store([val |-> doc, path |-> ref.path],
                       RemoveUnder(At(doc, ref.path), last))
  ELSE Refuse

OperationRemove(doc, tokens) ==
  IF tokens = <<>> THEN Refuse
  ELSE RemoveAtRef(doc, GetChecked(doc, Front(tokens)), Last(tokens))

\* replace, move, copy and test; ref is the value that path points to, and
\* source the one that from points to
Replace(doc, ref, v) ==
  IF ref.ok THEN Done(SetAt(doc, ref.path, v)) ELSE Refuse
Copy(doc, source, tokens) ==
  IF source.ok THEN OperationAdd(doc, tokens, At(doc, source.path)) ELSE Refuse
Move(doc, source, rest, tokens) ==
  IF source.ok /\ rest.ok
  THEN OperationAdd(rest.val, tokens, At(doc, source.path)) ELSE Refuse
Test(doc, ref, v) ==
  IF ref.ok /\ Equal(At(doc, ref.path), v) THEN Done(doc) ELSE Refuse

\* get_value(): the member is there, and of type string where it must be.
HasString(o, k) == HasKey(o, k) /\ Type(Child(o, k)) = "string"
PointerOf(o, k) == Split(Payload(Child(o, k)))

\* One operation of a patch, its pointers being taken apart
ApplyTo(doc, o, op, tokens) ==
  LET value == Child(o, ValueKey)
      from  == PointerOf(o, FromKey).tokens
      hasFrom == HasString(o, FromKey) /\ PointerOf(o, FromKey).ok
  IN  CASE op = AddOp /\ HasKey(o, ValueKey) -> OperationAdd(doc, tokens, value)
        [] op = RemoveOp -> OperationRemove(doc, tokens)
        [] op = ReplaceOp /\ HasKey(o, ValueKey) ->
             Replace(doc, GetChecked(doc, tokens), value)
        [] op = MoveOp /\ hasFrom ->
             Move(doc, GetChecked(doc, from), OperationRemove(doc, from), tokens)
        [] op = CopyOp /\ hasFrom -> Copy(doc, GetChecked(doc, from), tokens)
        [] op = TestOp /\ HasKey(o, ValueKey) ->
             Test(doc, GetChecked(doc, tokens), value)
        [] OTHER -> Refuse

ApplyOp(doc, o) ==
  IF IsObject(o) /\ HasString(o, OpKey) /\ HasString(o, PathKey)
       /\ PointerOf(o, PathKey).ok
  THEN ApplyTo(doc, o, Payload(Child(o, OpKey)), PointerOf(o, PathKey).tokens)
  ELSE Refuse

-----------------------------------------------------------------------------
\* diff(): the operations that make source the target
Operation(op, path) == Put(Put(Object(<<>>), OpKey, String(op)), PathKey, String(path))
Operation3(op, path, v) == Put(Operation(op, path), ValueKey, v)

DiffRemovesForward(source, target, path) ==
  [i \in 1..Excess(Len(source), Len(target)) |->
     Operation(RemoveOp, path \o <<Slash>> \o Index(Len(target) + i - 1))]

\* What an array has too much is removed from its end.
DiffRemoves(source, target, path) ==
  [i \in 1..Excess(Len(source), Len(target)) |->
     Operation(RemoveOp, path \o <<Slash>> \o Index(Len(source) - i))]

DiffAdds(source, target, path) ==
  [i \in 1..Excess(Len(target), Len(source)) |->
     Operation3(AddOp, path \o <<Slash>> \o Index(Len(source) + i - 1),
                target[Len(source) + i])]

RECURSIVE Diff(_, _, _)
Diff(source, target, path) ==
  LET x == Payload(source)
      y == Payload(target)
      sub(k) == path \o <<Slash>> \o EscapeToken(k)
      common == 1..(IF Len(x) < Len(y) THEN Len(x) ELSE Len(y))
  IN  CASE Equal(source, target) -> <<>>
        [] ~Equal(source, target) /\ IsArray(source) /\ IsArray(target) ->
             FlattenSeq([i \in common |->
                           Diff(x[i], y[i], path \o <<Slash>> \o Index(i - 1))])
               \o DiffRemoves(x, y, path) \o DiffAdds(x, y, path)
        [] ~Equal(source, target) /\ IsObject(source) /\ IsObject(target) ->
             FlattenSeq([i \in DOMAIN x |->
                           IF HasKey(target, x[i][1])
                           THEN Diff(x[i][2], Child(target, x[i][1]), sub(x[i][1]))
                           ELSE <<Operation(RemoveOp, sub(x[i][1]))>>])
               \o FlattenSeq([i \in DOMAIN y |->
                           IF HasKey(source, y[i][1]) THEN <<>>
                           ELSE <<Operation3(AddOp, sub(y[i][1]), y[i][2])>>])
        [] OTHER -> <<Operation3(ReplaceOp, path, target)>>

-----------------------------------------------------------------------------
\* merge_patch()
RECURSIVE MergePatch(_, _)
MergePatch(v, patch) ==
  LET merge(o, kv) ==
        IF Type(kv[2]) = "null" THEN EraseKey(o, kv[1])
        ELSE Put(o, kv[1], MergePatch(Child(WithKey(o, kv[1]), kv[1]), kv[2]))
  IN  IF IsObject(patch)
      THEN FoldLeft(merge, IF IsObject(v) THEN v ELSE Object(<<>>), Payload(patch))
      ELSE patch
=============================================================================
