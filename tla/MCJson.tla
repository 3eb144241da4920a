------------------------------- MODULE MCJson -------------------------------
(* Texts, strings, values, patches and messages for TLC, with a member on    *)
(* each side of every limit that the code tests.                            *)
EXTENDS Json

Seqs(S, n) == UNION {[1..k -> S] : k \in 0..n}
Quote(s) == <<\h22>> \o s \o <<\h22>>

\* One byte of every class that scan_string() and decode() tell apart
SomeBytes == {\h41, \h22, \h5C, \h1F, \h80, \h90, \hA0, \hC1, \hC2, \hE0,
              \hE1, \hED, \hF0, \hF1, \hF4, \hF5}

FourBytes ==
  {<<a, b, c, d>> : a \in {\hF0, \hF1, \hF4}, b \in {\h80, \h8F, \h90, \hBF},
                    c \in {\h80, \hC0}, d \in {\hBF, \h41}}

\* \u and four hex digits, at the limits of the ranges of code points
Units ==
  {<<\h5C, \h75>> \o u : u \in
     {<<\h30, \h30, \h30, \h30>>, <<\h30, \h30, \h37, \h46>>, <<\h30, \h30, \h38, \h30>>,
      <<\h30, \h37, \h66, \h66>>, <<\h30, \h38, \h30, \h30>>, <<\h64, \h37, \h46, \h46>>,
      <<\h44, \h38, \h30, \h30>>, <<\h64, \h62, \h66, \h66>>, <<\h64, \h63, \h30, \h30>>,
      <<\h44, \h46, \h46, \h46>>, <<\h65, \h30, \h30, \h30>>, <<\h66, \h66, \h66, \h66>>,
      <<\h30, \h30, \h30, \h67>>}}

Escapes == {<<\h5C, c>> : c \in {\h22, \h5C, \h2F, \h62, \h66, \h6E, \h72, \h74, \h61}}

Nines == <<\h39, \h39, \h39, \h39, \h39, \h39, \h39, \h39, \h39>>
Big == <<\h31, \h38, \h34, \h34, \h36, \h37, \h34, \h34, \h30, \h37, \h33, \h37,
         \h30, \h39, \h35, \h35, \h31, \h36, \h31>>
Mid == <<\h39, \h32, \h32, \h33, \h33, \h37, \h32, \h30, \h33, \h36, \h38, \h35,
         \h34, \h37, \h37, \h35, \h38, \h30>>

\* 1.797693134862315; the next digits of the largest double are 708
Largest == <<\h31, \h2E, \h37, \h39, \h37, \h36, \h39, \h33, \h31, \h33, \h34,
             \h38, \h36, \h32, \h33, \h31, \h35>>
Row(c, n) == [i \in 1..n |-> c]

Numbers ==
  Seqs({\h2D, \h30, \h31, \h2E, \h65, \h2B}, 4)
    \union {Big \o <<c>> : c \in \h34..\h36}              \* around 2^64
    \union {m \o Mid \o <<c>> : c \in \h37..\h39, m \in {<<>>, <<\h2D>>}}
    \union {Nines \o Nines \o Nines \o Nines}
    \union {<<\h31, \h2E, \h35, \h65>> \o e : e \in
              {<<\h2D, \h33>>, <<\h2D, \h37>>, <<\h31, \h34>>, <<\h2B, \h32, \h30>>,
               <<\h2D, \h31, \h30, \h30>>, <<\h33, \h30, \h37>>}}
    \union {s \o Largest \o <<c>> \o <<\h65, \h33, \h30, e>> :     \* around DBL_MAX
              s \in {<<>>, <<\h2D>>, <<\h5B>>}, c \in {\h37, \h39}, e \in \h37..\h39}
    \union {<<c>> \o Row(\h30, 40) \o <<\h65, \h32, \h36, e>> :      \* 10^307 to 2*10^309
              c \in {\h31, \h32}, e \in \h37..\h39}
    \union {<<\h30, \h2E, \h30, \h30, \h30, \h31>>, <<\h31, \h30, \h2E, \h32, \h35>>,
            <<\h30, \h2E, \h30, \h31>>}

\* Brackets, separators, keys and values in every order
Tokens == {<<\h5B>>, <<\h5D>>, <<\h7B>>, <<\h7D>>, <<\h2C>>, <<\h20, \h31>>,
           <<\h22, \h61, \h22, \h3A>>, <<\h22, \h62, \h22>>}
Structures == {FlattenSeq(ts) : ts \in Seqs(Tokens, 4)}

A1 == <<\h22, \h61, \h22, \h3A, \h31>>     \* "a":1
A2 == <<\h22, \h61, \h22, \h3A, \h5B, \h5D>>     \* "a":[]
B1 == <<\h22, \h62, \h22, \h20, \h3A, \h74, \h72, \h75, \h65>>     \* "b" :true
In(open, parts, close) ==
  <<open>> \o FlattenSeq([i \in DOMAIN parts |->
                (IF i = 1 THEN <<>> ELSE <<\h2C>>) \o parts[i]]) \o <<close>>
Objects == {In(\h7B, ms, \h7D) : ms \in Seqs({A1, A2, B1}, 3)}
Arrays == {In(\h5B, vs, \h5D) : vs \in Seqs({<<\h31>>, <<\h5B, \h5D>>, <<\h7B, \h7D>>}
                                           \union {In(\h7B, <<A1>>, \h7D)}, 3)}

\* White space, byte order marks, literals, NUL and what stands behind it
Framed ==
  {a \o b \o c : a \in {<<>>, <<\h20>>, Bom, <<\hEF, \hBB>>, <<0>>},
                 b \in {<<\h31>>, In(\h7B, <<A1>>, \h7D), <<\h5B>>,
                        <<\h6E, \h75, \h6C, \h6C>>, <<\h66, \h61, \h6C, \h73, \h65>>,
                        <<\h74, \h72, \h75, \h65>>, <<\h74, \h72, \h75>>},
                 c \in {<<>>, <<\h0A>>, <<0>>, <<0, \h31>>, <<\h31>>,
                        In(\h7B, <<A1>>, \h7D), <<\h2C>>}}

MCTexts ==
  {Quote(s) : s \in Seqs(SomeBytes, 2) \union FourBytes}
    \union {Quote(<<a, b, c>>) : a \in {\hC2, \hE0, \hE1, \hED, \hF0}, b \in SomeBytes,
                                 c \in {\h41, \h80, \hC2}}
    \union {Quote(FlattenSeq(us)) : us \in Seqs(Units, 2) \union [1..1 -> Escapes]}
    \union Numbers \union Structures \union Objects \union Arrays \union Framed

A4 == [i \in 1..4 |-> \h41]
MCStrings ==
  Seqs(SomeBytes, 2) \union FourBytes
    \union {A4 \o s : s \in FourBytes \union {<<\h41, \h41>>, <<\h1F, \h1F>>, <<\hC2>>}}
    \union {<<a, b, c>> : a \in {\hC2, \hE0, \hED, \hF0}, b \in {\h80, \hA0, \h41},
                          c \in {\h80, \h41}}

-----------------------------------------------------------------------------
Hi(a, b, c, d, e, f, g, h) == <<a, b, c, d, e, f, g, h>>
Words ==     \* at the limits of 8, 16, 32 and 64 bits, and of the short forms
  {Word(n) : n \in {0, 1, 23, 24, 31, 32, 127, 128, 255, 256, 32767, 32768, 65535,
                    65536, 2147483647}}
    \union {Hi(0, 0, 0, 0, 128, 0, 0, 0), Hi(0, 0, 0, 0, 255, 255, 255, 255),
            Hi(0, 0, 0, 1, 0, 0, 0, 0), Hi(127, 255, 255, 255, 255, 255, 255, 255),
            Hi(128, 0, 0, 0, 0, 0, 0, 0), Hi(255, 255, 255, 255, 255, 255, 255, 255)}
Integers2 ==
  {Unsigned(w) : w \in Words}
    \union {Signed(w) : w \in {w \in Words : ~IsNegative(w)}}
    \union {Signed(Complement(w)) : w \in {w \in Words : ~IsNegative(w)}}

F(sign, digits, exp) == <<sign, digits, exp>>
MCIeee754 ==
  F(0, <<>>, 0) :> <<0, 0, 0, 0, 0, 0, 0, 0>>
    @@ F(1, <<1, 5>>, -1) :> <<191, 248, 0, 0, 0, 0, 0, 0>>
    @@ F(0, <<1>>, -1) :> <<63, 185, 153, 153, 153, 153, 153, 154>>
    @@ F(0, <<1>>, 22) :> <<68, 128, 240, 207, 6, 77, 213, 146>>
    @@ F(0, <<2>>, -5) :> <<62, 244, 248, 181, 136, 227, 104, 241>>

Fl(f) == <<"number_float", f>>
U(n) == Unsigned(Word(n))
Ch(c) == String(<<c>>)
Obj(kvs) == FoldLeft(LAMBDA o, e : Put(o, e[1], e[2]), Object(<<>>), kvs)
Rep(v, n) == Array([i \in 1..n |-> v])

Keys == <<<<>>, <<\h30>>, <<\h61>>, <<Tilde, One>>, <<Slash>>, <<\h2D>>>>

\* Containers with more elements than the short forms take
Long ==
  {Array([i \in 1..n |-> U(i)]) : n \in {15, 16, 24}}
    \union {Obj([i \in 1..n |-> <<<<\h61 + i>>, Null>>]) : n \in {15, 16, 24}}
    \union {String([i \in 1..n |-> \h61]) : n \in {1, 23, 24, 31, 32, 255, 256}}

\* Containers whose elements have one type, and others
Mixed ==
  {Rep(v, 2) : v \in {Null, Boolean(TRUE), U(7), U(200), Ch(\h61), Array(<<>>),
                      Object(<<>>), Rep(U(1), 1), Fl(F(0, <<1>>, -1))}}
    \union {Array(<<Boolean(TRUE), Boolean(FALSE)>>), Array(<<U(7), U(200)>>),
            Array(<<U(7), Signed(Complement(Word(6)))>>),
            Array(<<Null, Array(<<U(1), Null>>)>>)}

Small ==
  {Array(vs) : vs \in Seqs({U(1), U(2), Null}, 3)}
    \union {Obj(<<<<k, v>>>>) : k \in {Keys[i] : i \in DOMAIN Keys},
                                v \in {U(1), Array(<<U(1), U(2)>>), Object(<<>>)}}
    \union {Obj(<<<<k, U(1)>>, <<l, Obj(<<<<l, Null>>, <<k, Ch(k[1])>>>>)>>>>) :
              k \in {<<\h61>>, <<Slash>>}, l \in {<<\h62>>, <<Tilde, One>>, <<0>>}}
    \union {U(1), Null, Ch(\h61), Object(<<>>)}

MCDocuments ==
  Small \union Mixed \union Long \union Integers2
    \union {Fl(f) : f \in DOMAIN MCIeee754}
    \union {Obj(<<<<<<\h61>>, v>>>>) : v \in Integers2 \union Mixed \union Long
                                            \union {Fl(f) : f \in DOMAIN MCIeee754}}

MCTargets ==
  {U(1), Null, Array(<<>>), Array(<<U(2)>>), Array(<<U(2), U(2), U(1), Null>>),
   Object(<<>>), Obj(<<<<<<\h61>>, Array(<<U(2)>>)>>>>),
   Obj(<<<<<<\h61>>, Null>>, <<<<\h62>>, Obj(<<<<<<\h62>>, Null>>, <<<<\h63>>, U(2)>>>>)>>>>),
   Obj(<<<<<<Tilde, One>>, U(2)>>, <<<<Slash>>, Obj(<<<<<<Tilde, One>>, U(3)>>>>)>>>>),
   Obj(<<<<<<>>, U(1)>>, <<<<\h30>>, Array(<<>>)>>>>)}

-----------------------------------------------------------------------------
Pointers ==
  {<<>>, <<\h2F>>, <<\h2F, \h30>>, <<\h2F, \h31>>, <<\h2F, \h2D>>, <<\h2F, \h30, \h31>>,
   <<\h2F, \h61>>, <<\h2F, \h61, \h2F, \h30>>, <<\h2F, \h61, \h2F, \h61>>,
   <<\h2F, Tilde, One>>, <<\h2F, Tilde>>, <<\h61>>, <<\h2F, \h62, \h2F, \h63, \h2F, \h64>>}
With(o, k, v) == Put(o, k, v)
MCPatches ==
  {<<Operation3(op, p, U(9))>> : op \in {AddOp, ReplaceOp, RemoveOp, TestOp}, p \in Pointers}
    \union {<<With(Operation(op, p), FromKey, String(q))>> :
              op \in {MoveOp, CopyOp}, p \in Pointers, q \in Pointers}
    \union {<<Operation3(TestOp, <<>>, U(1)), Operation(RemoveOp, <<\h2F, \h61>>)>>,
            <<Operation(AddOp, <<>>)>>, <<Object(<<>>)>>, <<Null>>,
            <<Operation3(<<\h61>>, <<>>, U(1))>>}

-----------------------------------------------------------------------------
M(format, bytes, v) == [format |-> format, bytes |-> bytes, value |-> v]
Wide(n, k) == SubSeq(Word(n), 9 - k, 8)     \* n in k bytes
Back(n) == Signed(Complement(Word(n - 1)))     \* -n
OneA == Obj(<<<<<<\h61>>, U(1)>>>>)

\* Longer forms than the shortest, indefinite lengths, chunks, a key twice
CborMessages ==
  UNION {{M("cbor", <<24 + k>> \o Wide(1, 2^k), U(1)),
          M("cbor", <<\h38 + k>> \o Wide(1, 2^k), Back(2)),
          M("cbor", <<\h78 + k>> \o Wide(1, 2^k) \o <<\h61>>, Ch(\h61)),
          M("cbor", <<\h98 + k>> \o Wide(1, 2^k) \o <<1>>, Rep(U(1), 1)),
          M("cbor", <<\hB8 + k>> \o Wide(1, 2^k) \o <<\h61, \h61, 1>>, OneA)} : k \in 0..3}
    \union {M("cbor", <<\h7F, \h61, \h61, \h60, \h61, \h62, \hFF>>, String(<<\h61, \h62>>)),
            M("cbor", <<\h9F, 1, \h9F, \hFF, \hFF>>, Array(<<U(1), Array(<<>>)>>)),
            M("cbor", <<\hBF, \h7F, \h61, \h61, \hFF, 1, \hFF>>, OneA),
            M("cbor", <<\hA2, \h61, \h61, 2, \h61, \h61, 1>>, OneA)}
MsgpackMessages ==
  UNION {{M("msgpack", <<\hCC + k>> \o Wide(1, 2^k), U(1)),
          M("msgpack", <<\hD0 + k>> \o [i \in 1..2^k |-> 255], Back(1))} : k \in 0..3}
    \union {M("msgpack", <<\hD9 + k>> \o Wide(1, 2^k) \o <<\h61>>, Ch(\h61)) : k \in 0..2}
    \union UNION {{M("msgpack", <<\hDB + k>> \o Wide(1, 2^k) \o <<1>>, Rep(U(1), 1)),
                   M("msgpack", <<\hDD + k>> \o Wide(1, 2^k) \o <<\hA1, \h61, 1>>, OneA)} :
                  k \in 1..2}

\* No-ops, characters, sizes without a type, and an array of no-ops
UbjsonMessages ==
  {M("ubjson", b[1], b[2]) : b \in {
     <<<<\h4E, \h5B, \h4E, \h69, 1, \h4E, \h5D>>, Rep(U(1), 1)>>,
     <<<<\h7B, \h4E, \h69, 1, \h61, \h4E, \h55, 1, \h4E, \h7D>>, OneA>>,
     <<<<\h5B, \h23, \h4E, \h55, 1, \h4E, \h43, \h61>>, Rep(Ch(\h61), 1)>>,
     <<<<\h7B, \h24, \h6C, \h23, \h49, 0, 1, \h69, 1, \h61, 0, 0, 0, 1>>, OneA>>,
     <<<<\h5B, \h24, \h4E, \h23, \h55, 2>>, Array(<<>>)>>}}

\* A small number in 64 bits, and an array whose keys are no indices
BsonMessages ==
  {M("bson", <<16, 0, 0, 0, \h12, \h61, 0, 1, 0, 0, 0, 0, 0, 0, 0, 0>>, OneA),
   M("bson", <<20, 0, 0, 0, \h04, \h61, 0, 12, 0, 0, 0, \h10, \h78, 0, 1, 0, 0, 0, 0, 0>>,
     Obj(<<<<<<\h61>>, Rep(U(1), 1)>>>>))}
MCMessages == CborMessages \union MsgpackMessages \union UbjsonMessages \union BsonMessages
=============================================================================
