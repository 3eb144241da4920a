-------------------------- MODULE ChatClientProofs ---------------------------
(***************************************************************************)
(* Theorems about ChatClient, for any bounds and failures.  When each read *)
(* returns one message, every sem_wait() of the main thread is paired with *)
(* its own answer, and client and server agree on who is logged in.  And   *)
(* whatever a read returns, what the tables hold is consistent and each    *)
(* list that the client shows of it is that of the account whose answer    *)
(* filled it last.                                                         *)
(***************************************************************************)
EXTENDS ChatClient, FiniteSetTheorems, FunctionTheorems, SequenceTheorems,
        TLAPS

-----------------------------------------------------------------------------
(* The inductive invariants.                                               *)

IsSequence(s) == s \in Seq(ToSet(s))

\* The streams are sequences, the requests are those the server has handlers
\* for, and the semaphore counts.
StreamInv ==
  /\ IsSequence(toServer) /\ IsSequence(toClient)
  /\ \A i \in DOMAIN toServer :
       toServer[i].type \in {"LOGIN_MSG", "REG_MSG", "LOGINOUT_MSG"} \union Commands
  /\ sem \in Nat /\ rpc \in {"recv", "post"}
  /\ pc \in {"menu", "login", "reg", "commands", "exited"}

AnswerInv == StreamInv /\ OneOutstanding

\* The first n requests end with the loginout of the session's user (whose entry
\* in the map may hold another connection), or there
\* are none and nobody is logged in.
Leaves(n) ==
  \/ n = 0 /\ session = {}
  \/ /\ n > 0 /\ toServer[n].type = "LOGINOUT_MSG" /\ session = {toServer[n].id} \ elsewhere
     /\ \A i \in 1..n - 1 : toServer[i].type \in Commands

\* The request of that type is the last one and has not been read.
Asked(type) ==
  LET n == Len(toServer)
  IN  n > 0 /\ toServer[n].type = type /\ Leaves(n - 1)

\* What the server knows fits what the main thread does, and what it still
\* has to learn.
SessionInv ==
  /\ pc = "commands" =>
       /\ session = {user} \ elsewhere
       /\ \A i \in DOMAIN toServer : toServer[i].type \in Commands
  /\ pc = "menu" => Leaves(Len(toServer))
  /\ pc = "reg" => \/ Asked("REG_MSG")
                   \/ toServer = <<>> /\ session = {}
  /\ pc = "login" =>
       \/ Asked("LOGIN_MSG")
       \/ /\ toServer = <<>>
          /\ \E i \in DOMAIN toClient :
               /\ toClient[i].type = "LOGIN_MSG_ACK"
               /\ session = IF toClient[i].errno = 0 THEN {toClient[i].id} \ elsewhere ELSE {}
       \/ /\ toServer = <<>> /\ (sem > 0 \/ rpc = "post")
          /\ session = IF success THEN {user} \ elsewhere ELSE {}

ClientInv ==
  AnswerInv /\ (~down /\ pc # "exited" => SessionInv)

-----------------------------------------------------------------------------
(* Streams.                                                                *)

\* A sequence of anything is one in the sense of IsSequence.
LEMMA SequenceOf ==
  ASSUME NEW S, NEW s \in Seq(S)
  PROVE  IsSequence(s) /\ Len(s) \in Nat /\ DOMAIN s = 1..Len(s)
<1>1. Len(s) \in Nat /\ DOMAIN s = 1..Len(s)
  OBVIOUS
<1>2. \A i \in 1..Len(s) : s[i] \in ToSet(s)
  BY <1>1 DEF ToSet
<1>3. s \in Seq(ToSet(s))
  <2>1. s = [i \in 1..Len(s) |-> s[i]]
    OBVIOUS
  <2>2. PICK n \in Nat : n = Len(s)
    BY <1>1
  <2>3. s \in [1..n -> ToSet(s)]
    BY <1>1, <1>2, <2>1, <2>2
  <2>4. QED
    BY <2>2, <2>3
<1>4. QED
  BY <1>1, <1>3 DEF IsSequence

\* Stream t is stream s with x at its end.
IsAppended(s, x, t) ==
  /\ IsSequence(t) /\ Len(t) = Len(s) + 1 /\ t[Len(t)] = x
  /\ \A i \in 1..Len(s) : t[i] = s[i]
  /\ Len(s) \in Nat /\ DOMAIN s = 1..Len(s) /\ DOMAIN t = 1..Len(t)

\* Stream r is stream s without its first message.
IsRest(s, r) ==
  /\ IsSequence(r) /\ Len(s) = Len(r) + 1 /\ Len(r) \in Nat
  /\ \A i \in 1..Len(r) : r[i] = s[i + 1]
  /\ DOMAIN s = 1..Len(s) /\ DOMAIN r = 1..Len(r) /\ Head(s) = s[1]

\* A message is put at the end of a stream.
LEMMA Appended ==
  ASSUME NEW s, IsSequence(s), NEW x
  PROVE  IsAppended(s, x, Append(s, x))
<1>1. PICK S : S = ToSet(s) \union {x}
  OBVIOUS
<1>2. PICK t : t = Append(s, x)
  OBVIOUS
<1>3. s \in Seq(S) /\ x \in S
  <2>1. s \in Seq(ToSet(s)) /\ Len(s) \in Nat
    BY DEF IsSequence
  <2>2. QED
    BY <1>1, <2>1
<1>4. /\ t \in Seq(S) /\ Len(t) = Len(s) + 1 /\ t[Len(s) + 1] = x
      /\ \A i \in 1..Len(s) : t[i] = s[i]
  BY <1>2, <1>3, AppendProperties
<1>5. /\ Len(s) \in Nat /\ DOMAIN s = 1..Len(s)
      /\ IsSequence(t) /\ DOMAIN t = 1..Len(t)
  BY <1>3, <1>4, SequenceOf
<1>6. IsAppended(s, x, t)
  BY <1>4, <1>5 DEF IsAppended
<1>7. QED
  BY <1>2, <1>6

\* The first message of a stream is read.
LEMMA Rest ==
  ASSUME NEW s, IsSequence(s), s # <<>>
  PROVE  IsRest(s, SubSeq(s, 2, Len(s)))
<1>1. s \in Seq(ToSet(s))
  BY DEF IsSequence
<1>2. PICK r : r = SubSeq(s, 2, Len(s))
  OBVIOUS
<1>3. r = Tail(s)
  BY <1>1, <1>2, TailIsSubSeq
<1>4. /\ r \in Seq(ToSet(s)) /\ Len(r) = Len(s) - 1
      /\ \A i \in 1..Len(r) : r[i] = s[i + 1]
  BY <1>1, <1>3, HeadTailProperties
<1>5. Len(s) \in Nat /\ Head(s) = s[1] /\ DOMAIN s = 1..Len(s)
  BY <1>1
<1>6. IsSequence(r) /\ Len(r) \in Nat /\ DOMAIN r = 1..Len(r)
  BY <1>4, SequenceOf
<1>7. IsRest(s, r)
  BY <1>4, <1>5, <1>6 DEF IsRest
<1>8. QED
  BY <1>2, <1>7

\* The places of the messages of one type
Places(s, type) == {i \in DOMAIN s : s[i].type = type}

\* They are finitely many, and none when the stream is empty.
LEMMA Counted ==
  ASSUME NEW s, IsSequence(s), NEW type
  PROVE  /\ IsFiniteSet(Places(s, type))
         /\ Count(s, type) = Cardinality(Places(s, type))
         /\ Count(s, type) \in Nat
         /\ \A i \in DOMAIN s : s[i].type = type => Count(s, type) > 0
         /\ Count(s, type) > 0 => \E i \in DOMAIN s : s[i].type = type
<1>1. Len(s) \in Nat /\ DOMAIN s = 1..Len(s)
  BY DEF IsSequence
<1>2. IsFiniteSet(1..Len(s)) /\ Places(s, type) \in SUBSET (1..Len(s))
  BY <1>1, FS_Interval DEF Places
<1>3. IsFiniteSet(Places(s, type))
  BY <1>2, FS_Subset
<1>4. Count(s, type) = Cardinality(Places(s, type))
  BY DEF Count, Places
<1>5. Count(s, type) \in Nat
  BY <1>3, <1>4, FS_CardinalityType
<1>6. Count(s, type) = 0 <=> Places(s, type) = {}
  BY <1>3, <1>4, FS_EmptySet
<1>7. QED
  BY <1>3, <1>4, <1>5, <1>6 DEF Places

\* One more of its own type.
LEMMA CountAppended ==
  ASSUME NEW s, IsSequence(s), NEW x, NEW t, IsAppended(s, x, t), NEW type
  PROVE  Count(t, type) = IF x.type = type THEN Count(s, type) + 1 ELSE Count(s, type)
<1>1. /\ IsSequence(t) /\ Len(t) = Len(s) + 1 /\ t[Len(t)] = x
      /\ \A i \in 1..Len(s) : t[i] = s[i]
      /\ Len(s) \in Nat /\ DOMAIN s = 1..Len(s) /\ DOMAIN t = 1..Len(t)
  BY DEF IsAppended
<1>2. CASE x.type = type
  <2>1. Places(t, type) = Places(s, type) \union {Len(t)} /\ Len(t) \notin Places(s, type)
    BY <1>1, <1>2 DEF Places
  <2>2. QED
    BY <1>1, <1>2, <2>1, Counted, FS_AddElement
<1>3. CASE x.type # type
  <2>1. Places(t, type) = Places(s, type)
    BY <1>1, <1>3 DEF Places
  <2>2. QED
    BY <1>1, <1>3, <2>1, Counted
<1>4. QED
  BY <1>2, <1>3

\* One less of the type of the first.
LEMMA CountRest ==
  ASSUME NEW s, IsSequence(s), NEW r, IsRest(s, r), NEW type
  PROVE  Count(s, type)
           = IF s[1].type = type THEN Count(r, type) + 1 ELSE Count(r, type)
<1>1. /\ IsSequence(r) /\ Len(s) = Len(r) + 1 /\ Len(r) \in Nat
      /\ \A i \in 1..Len(r) : r[i] = s[i + 1]
      /\ DOMAIN s = 1..Len(s) /\ DOMAIN r = 1..Len(r)
  BY DEF IsRest
<1>2. PICK P : P = Places(r, type)
  OBVIOUS
<1>3. PICK Q : Q = Places(s, type) \ {1}
  OBVIOUS
<1>4. PICK f : f = [i \in P |-> i + 1]
  OBVIOUS
<1>5. P \in SUBSET (1..Len(r)) /\ Q \in SUBSET (2..Len(s))
  BY <1>1, <1>2, <1>3 DEF Places
<1>6. \A i \in P : i + 1 \in Q
  BY <1>1, <1>2, <1>3 DEF Places
<1>7. \A j \in Q : j - 1 \in P
  <2>1. SUFFICES ASSUME NEW j \in Q PROVE j - 1 \in P
    OBVIOUS
  <2>2. j \in 2..Len(s) /\ s[j].type = type
    BY <1>3, <1>5 DEF Places
  <2>3. j - 1 \in 1..Len(r) /\ r[j - 1] = s[j - 1 + 1] /\ j - 1 + 1 = j
    BY <1>1, <2>2
  <2>4. QED
    BY <1>1, <1>2, <2>2, <2>3 DEF Places
<1>8. ExistsBijection(P, Q)
  <2>1. f \in [P -> Q]
    BY <1>4, <1>6
  <2>2. \A a, b \in P : f[a] = f[b] => a = b
    BY <1>4, <1>5
  <2>3. \A j \in Q : \E i \in P : f[i] = j
    BY <1>4, <1>5, <1>7
  <2>4. QED
    BY <2>1, <2>2, <2>3, Fun_IsBij DEF ExistsBijection
<1>9. Cardinality(Q) = Cardinality(P)
  BY <1>1, <1>2, <1>8, Counted, FS_Bijection
<1>10. /\ Count(r, type) = Cardinality(P) /\ Count(r, type) \in Nat
       /\ Count(s, type) = Cardinality(Places(s, type)) /\ Count(s, type) \in Nat
       /\ IsFiniteSet(Places(s, type))
  BY <1>1, <1>2, Counted
<1>11. CASE s[1].type = type
  <2>1. 1 \in Places(s, type)
    BY <1>1, <1>11 DEF Places
  <2>2. Cardinality(Q) = Cardinality(Places(s, type)) - 1
    BY <1>3, <1>10, <2>1, FS_RemoveElement
  <2>3. QED
    BY <1>9, <1>10, <1>11, <2>2
<1>12. CASE s[1].type # type
  <2>1. Q = Places(s, type)
    BY <1>3, <1>12 DEF Places
  <2>2. QED
    BY <1>9, <1>10, <1>12, <2>1
<1>13. QED
  BY <1>11, <1>12

-----------------------------------------------------------------------------
(* What the steps do to the streams.                                       *)

RequestTypes == {"LOGIN_MSG", "REG_MSG", "LOGINOUT_MSG"} \union Commands

\* A handler that answers puts one message at the end of toClient.
LEMMA Answered ==
  ASSUME NEW s, IsSequence(s), NEW x
  PROVE  s \o <<>> = s /\ IsAppended(s, x, s \o <<x>>)
<1>1. PICK S : S = ToSet(s) \union {x}
  OBVIOUS
<1>2. s \in Seq(S) /\ x \in S
  <2>1. s \in Seq(ToSet(s)) /\ Len(s) \in Nat
    BY DEF IsSequence
  <2>2. QED
    BY <1>1, <2>1
<1>3. s \o <<>> = s /\ s \o <<x>> = Append(s, x)
  BY <1>2
<1>4. QED
  BY <1>3, Appended

\* Send() adds the request, and nothing when the server has gone.
LEMMA Sent ==
  ASSUME StreamInv, NEW r, r.type \in RequestTypes, Send(r)
  PROVE  /\ IsSequence(toServer')
         /\ \A i \in DOMAIN toServer' : toServer'[i].type \in RequestTypes
         /\ ~down => IsAppended(toServer, r, toServer')
         /\ down => toServer' = toServer
         /\ \A type : Count(toServer', type)
              = IF ~down /\ r.type = type THEN Count(toServer, type) + 1
                ELSE Count(toServer, type)
<1>1. IsSequence(toServer) /\ \A i \in DOMAIN toServer : toServer[i].type \in RequestTypes
  BY DEF StreamInv, RequestTypes
<1>2. CASE down
  <2>1. toServer' = toServer
    BY <1>2 DEF Send
  <2>2. QED
    BY <1>1, <1>2, <2>1
<1>3. CASE ~down
  <2>1. IsAppended(toServer, r, toServer')
    BY <1>1, <1>3, Appended DEF Send
  <2>2. \A i \in DOMAIN toServer' : toServer'[i].type \in RequestTypes
    BY <1>1, <2>1 DEF IsAppended
  <2>3. \A type : Count(toServer', type)
          = IF r.type = type THEN Count(toServer, type) + 1 ELSE Count(toServer, type)
    BY <1>1, <2>1, CountAppended
  <2>4. IsSequence(toServer')
    BY <2>1 DEF IsAppended
  <2>5. QED
    BY <1>3, <2>1, <2>2, <2>3, <2>4
<1>4. QED
  BY <1>2, <1>3

\* What a handler sends, and what it does to the users of the connection.
LEMMA OutcomesOf ==
  ASSUME NEW r, r.type \in RequestTypes, NEW o \in Outcomes(r)
  PROVE  /\ r.type = "LOGIN_MSG" =>
              \E m : /\ o.answers = <<m>> /\ m.type = "LOGIN_MSG_ACK"
                     /\ o.session = IF m.errno = 0 THEN session \union ({m.id} \ elsewhere) ELSE session
         /\ r.type = "REG_MSG" =>
              \E m : o.answers = <<m>> /\ m.type = "REG_MSG_ACK" /\ o.session = session
         /\ r.type = "LOGINOUT_MSG" => o.answers = <<>> /\ o.session = session \ {r.id}
         /\ r.type \in Commands => o.answers = <<>> /\ o.session = session
         /\ o.elsewhere = IF r.type = "LOGINOUT_MSG" THEN elsewhere \ {r.id} ELSE elsewhere
<1>1. CASE r.type = "LOGIN_MSG"
  <2>1. o \in LoginOutcomes(r.id)
    BY <1>1 DEF Outcomes
  <2>2. o \in {Refusal(1), Refusal(2)} \union Accepted(r.id)
    BY <2>1 DEF LoginOutcomes
  <2>3. ASSUME NEW e \in {1, 2}, o = Refusal(e)
        PROVE  /\ \E m :
                    /\ o.answers = <<m>> /\ m.type = "LOGIN_MSG_ACK"
                    /\ o.session = IF m.errno = 0 THEN session \union ({m.id} \ elsewhere)
                                   ELSE session
               /\ o.elsewhere = elsewhere
    <3>1. o.elsewhere = elsewhere /\ o.answers = <<Answer("LOGIN_MSG_ACK", e, None)>> /\ o.session = session
      BY <2>3 DEF Refusal, Handled
    <3>2. Answer("LOGIN_MSG_ACK", e, None).type = "LOGIN_MSG_ACK"
          /\ Answer("LOGIN_MSG_ACK", e, None).errno # 0
      BY DEF Answer
    <3>3. QED
      BY <3>1, <3>2
  <2>4. ASSUME o \in Accepted(r.id)
        PROVE  /\ \E m :
                    /\ o.answers = <<m>> /\ m.type = "LOGIN_MSG_ACK"
                    /\ o.session = IF m.errno = 0 THEN session \union ({m.id} \ elsewhere)
                                   ELSE session
               /\ o.elsewhere = elsewhere
    <3>1. PICK u \in UpdateState(tables, r.id, "online"), m \in LoginAnswers(r.id) :
            o = Handled(u.tables, session \union ({r.id} \ elsewhere), elsewhere, <<m>>)
      BY <2>4 DEF Accepted
    <3>2. m.type = "LOGIN_MSG_ACK" /\ m.errno = 0 /\ m.id = r.id
      <4>1. PICK fs \in Query(Friends(tables, r.id)), gs \in QueryGroups(tables, r.id) :
              m = LoginAnswer(r.id, fs, gs)
        BY DEF LoginAnswers
      <4>2. QED
        BY <4>1 DEF LoginAnswer, Answer
    <3>3. /\ o.answers = <<m>> /\ o.session = session \union ({r.id} \ elsewhere)
          /\ o.elsewhere = elsewhere
      BY <3>1 DEF Handled
    <3>4. QED
      BY <3>2, <3>3
  <2>5. QED
    BY <1>1, <2>2, <2>3, <2>4 DEF Commands
<1>2. CASE r.type = "REG_MSG"
  <2>1. o \in RegOutcomes(r.arg)
    BY <1>2 DEF Outcomes
  <2>2. PICK m : /\ o.answers = <<m>> /\ m.type = "REG_MSG_ACK" /\ o.session = session
                 /\ o.elsewhere = elsewhere
    BY <2>1 DEF RegOutcomes, Handled, Answer
  <2>3. QED
    BY <1>2, <2>2 DEF Commands
<1>3. CASE r.type = "LOGINOUT_MSG"
  <2>1. o \in LoginoutOutcomes(r.id)
    BY <1>3 DEF Outcomes
  <2>2. o.answers = <<>> /\ o.session = session \ {r.id} /\ o.elsewhere = elsewhere \ {r.id}
    BY <2>1 DEF LoginoutOutcomes, Handled
  <2>3. QED
    BY <1>3, <2>2 DEF Commands
<1>4. CASE r.type \in Commands
  <2>1. \A S : \A x \in Silent(S) :
          x.answers = <<>> /\ x.session = session /\ x.elsewhere = elsewhere
    BY DEF Silent, Handled
  <2>2. o.answers = <<>> /\ o.session = session /\ o.elsewhere = elsewhere
    BY <1>4, <2>1 DEF Outcomes, Commands, CreatGroup, Handled
  <2>3. QED
    BY <1>4, <2>2 DEF Commands
<1>5. QED
  BY <1>1, <1>2, <1>3, <1>4 DEF RequestTypes

\* onMessage() reads one request, and its answer, if it has one, is under way.
LEMMA Served ==
  ASSUME ~Coalesce, StreamInv, OnMessage
  PROVE  /\ toServer # <<>> /\ toServer[1].type \in RequestTypes
         /\ IsRest(toServer, toServer')
         /\ \E o \in Outcomes(toServer[1]) :
              /\ session' = o.session /\ elsewhere' = o.elsewhere
              /\ toClient' = toClient \o o.answers
<1>1. /\ IsSequence(toServer)
      /\ \A i \in DOMAIN toServer : toServer[i].type \in RequestTypes
  BY DEF StreamInv, RequestTypes
<1>2. toServer # <<>> /\ toServer' = SubSeq(toServer, 2, Len(toServer))
  BY DEF OnMessage, Reads
<1>3. IsRest(toServer, toServer')
  BY <1>1, <1>2, Rest
<1>4. Head(toServer) = toServer[1] /\ 1 \in DOMAIN toServer
  BY <1>3 DEF IsRest
<1>5. PICK o \in Outcomes(Head(toServer)) :
        /\ session' = o.session /\ elsewhere' = o.elsewhere
        /\ toClient' = toClient \o o.answers
  BY DEF OnMessage
<1>6. QED
  BY <1>1, <1>2, <1>3, <1>4, <1>5

\* recv() takes one message, and the process ends or it is handled.
LEMMA Received ==
  ASSUME ~Coalesce, StreamInv, Recv
  PROVE  /\ toClient # <<>> /\ IsRest(toClient, toClient')
         /\ pc # "exited" /\ rpc = "recv"
         /\ \/ pc' = "exited" /\ rpc' = rpc
            \/ pc' = pc /\ Handle(toClient[1])
<1>1. toClient # <<>> /\ toClient' = SubSeq(toClient, 2, Len(toClient))
  BY DEF Recv, Reads
<1>2. IsRest(toClient, toClient')
  BY <1>1, Rest DEF StreamInv
<1>3. Head(toClient) = toClient[1]
  BY <1>2 DEF IsRest
<1>4. QED
  BY <1>1, <1>2, <1>3 DEF Recv, Reads, Handle, Terminate, readerVars

-----------------------------------------------------------------------------
(* Every wait is paired with its own answer.                               *)

\* What counts for OneOutstanding, as numbers.
LEMMA CountsAreNumbers ==
  ASSUME StreamInv
  PROVE  /\ \A type : Count(toServer, type) \in Nat /\ Count(toClient, type) \in Nat
         /\ sem \in Nat
  BY Counted DEF StreamInv

\* An empty stream holds nothing.
LEMMA Nothing ==
  IsSequence(<<>>) /\ \A type : Count(<<>>, type) = 0
<1>1. <<>> \in Seq({})
  OBVIOUS
<1>2. IsSequence(<<>>)
  BY <1>1, SequenceOf
<1>3. \A type : {i \in DOMAIN <<>> : <<>>[i].type = type} = {}
  OBVIOUS
<1>4. QED
  BY <1>2, <1>3, FS_EmptySet DEF Count

\* Nothing is under way at the start.
LEMMA AnswerInit == ASSUME Init PROVE AnswerInv
<1>1. StreamInv
  BY Nothing DEF Init, StreamInv
<1>2. OneOutstanding
  BY Nothing DEF Init, OneOutstanding, Outstanding, Waiting
<1>3. QED
  BY <1>1, <1>2 DEF AnswerInv

\* Every step keeps the pairing.
LEMMA AnswerStep ==
  ASSUME ~Coalesce, AnswerInv, [Next]_vars
  PROVE  AnswerInv'
<1>1. StreamInv /\ OneOutstanding
  BY DEF AnswerInv
<1>2. \A type : Count(toServer, type) \in Nat /\ Count(toClient, type) \in Nat
  BY <1>1, CountsAreNumbers
<1>3. IsSequence(toServer) /\ IsSequence(toClient) /\ sem \in Nat
      /\ rpc \in {"recv", "post"}
      /\ pc \in {"menu", "login", "reg", "commands", "exited"}
  BY <1>1 DEF StreamInv
<1>4. ASSUME NEW a \in Id, Login(a) PROVE AnswerInv'
  <2>1. PICK r : r = Request("LOGIN_MSG", a, None)
    OBVIOUS
  <2>2. r.type = "LOGIN_MSG" /\ Send(r)
    BY <1>4, <2>1 DEF Login, Request
  <2>3. /\ IsSequence(toServer')
        /\ \A i \in DOMAIN toServer' : toServer'[i].type \in RequestTypes
        /\ Count(toServer', "LOGIN_MSG")
             = IF ~down THEN Count(toServer, "LOGIN_MSG") + 1 ELSE Count(toServer, "LOGIN_MSG")
        /\ Count(toServer', "REG_MSG") = Count(toServer, "REG_MSG")
    BY <1>1, <2>2, Sent DEF RequestTypes
  <2>4. StreamInv'
    BY <1>3, <1>4, <2>3 DEF StreamInv, RequestTypes, Login, readerVars, serverVars
  <2>5. OneOutstanding'
    BY <1>1, <1>2, <1>3, <1>4, <2>3
       DEF OneOutstanding, Outstanding, Waiting, Login, readerVars, serverVars
  <2>6. QED
    BY <2>4, <2>5 DEF AnswerInv
<1>5. ASSUME NEW n \in Name, Register(n) PROVE AnswerInv'
  <2>1. PICK r : r = Request("REG_MSG", None, n)
    OBVIOUS
  <2>2. r.type = "REG_MSG" /\ Send(r)
    BY <1>5, <2>1 DEF Register, Request
  <2>3. /\ IsSequence(toServer')
        /\ \A i \in DOMAIN toServer' : toServer'[i].type \in RequestTypes
        /\ Count(toServer', "REG_MSG")
             = IF ~down THEN Count(toServer, "REG_MSG") + 1 ELSE Count(toServer, "REG_MSG")
        /\ Count(toServer', "LOGIN_MSG") = Count(toServer, "LOGIN_MSG")
    BY <1>1, <2>2, Sent DEF RequestTypes
  <2>4. StreamInv'
    BY <1>3, <1>5, <2>3 DEF StreamInv, RequestTypes, Register, readerVars, serverVars
  <2>5. OneOutstanding'
    BY <1>1, <1>2, <1>3, <1>5, <2>3
       DEF OneOutstanding, Outstanding, Waiting, Register, readerVars, serverVars
  <2>6. QED
    BY <2>4, <2>5 DEF AnswerInv
<1>6. ASSUME NEW type \in Commands, NEW arg, Command(type, arg) PROVE AnswerInv'
  <2>1. PICK r : r = Request(type, user, arg)
    OBVIOUS
  <2>2. r.type = type /\ Send(r)
    BY <1>6, <2>1 DEF Command, Request
  <2>3. /\ IsSequence(toServer')
        /\ \A i \in DOMAIN toServer' : toServer'[i].type \in RequestTypes
        /\ Count(toServer', "REG_MSG") = Count(toServer, "REG_MSG")
        /\ Count(toServer', "LOGIN_MSG") = Count(toServer, "LOGIN_MSG")
    BY <1>1, <2>2, Sent DEF RequestTypes, Commands
  <2>4. StreamInv'
    BY <1>3, <1>6, <2>3
       DEF StreamInv, RequestTypes, Command, mainVars, readerVars, serverVars
  <2>5. OneOutstanding'
    BY <1>1, <1>2, <1>3, <1>6, <2>3
       DEF OneOutstanding, Outstanding, Waiting, Command, mainVars, readerVars, serverVars
  <2>6. QED
    BY <2>4, <2>5 DEF AnswerInv
<1>7. CASE Loginout
  <2>1. PICK r : r = Request("LOGINOUT_MSG", user, None)
    OBVIOUS
  <2>2. r.type = "LOGINOUT_MSG" /\ Send(r)
    BY <1>7, <2>1 DEF Loginout, Request
  <2>3. /\ IsSequence(toServer')
        /\ \A i \in DOMAIN toServer' : toServer'[i].type \in RequestTypes
        /\ Count(toServer', "REG_MSG") = Count(toServer, "REG_MSG")
        /\ Count(toServer', "LOGIN_MSG") = Count(toServer, "LOGIN_MSG")
    BY <1>1, <2>2, Sent DEF RequestTypes, Commands
  <2>4. StreamInv'
    BY <1>3, <1>7, <2>3 DEF StreamInv, RequestTypes, Loginout, readerVars, serverVars
  <2>5. OneOutstanding'
    BY <1>1, <1>2, <1>3, <1>7, <2>3
       DEF OneOutstanding, Outstanding, Waiting, Loginout, readerVars, serverVars
  <2>6. QED
    BY <2>4, <2>5 DEF AnswerInv
<1>8. CASE SemWait
  <2>1. StreamInv'
    BY <1>1, <1>8 DEF StreamInv, SemWait, readerVars, serverVars
  <2>2. OneOutstanding'
    BY <1>1, <1>2, <1>3, <1>8
       DEF OneOutstanding, Outstanding, Waiting, SemWait, readerVars, serverVars
  <2>3. QED
    BY <2>1, <2>2 DEF AnswerInv
<1>9. CASE CommandThrows \/ Quit \/ RecvEnd
  <2>1. pc' = "exited" /\ UNCHANGED <<sem, rpc, toServer, toClient>>
    BY <1>9 DEF CommandThrows, Quit, RecvEnd, readerVars, serverVars
  <2>2. QED
    BY <1>1, <2>1 DEF AnswerInv, StreamInv, OneOutstanding
<1>10. CASE Recv
  <2>1. /\ IsRest(toClient, toClient') /\ UNCHANGED <<sem, toServer, down>>
        /\ pc # "exited" /\ rpc = "recv"
        /\ \/ pc' = "exited" /\ rpc' = rpc
           \/ pc' = pc /\ Handle(toClient[1])
    BY <1>1, <1>10, Received DEF Recv
  <2>2. StreamInv'
    BY <1>1, <2>1 DEF StreamInv, IsRest, Handle
  <2>3. CASE pc' = "exited"
    BY <2>2, <2>3 DEF AnswerInv, OneOutstanding
  <2>4. CASE pc' = pc /\ Handle(toClient[1])
    <3>1. /\ Count(toClient, "LOGIN_MSG_ACK")
               = IF toClient[1].type = "LOGIN_MSG_ACK"
                 THEN Count(toClient', "LOGIN_MSG_ACK") + 1
                 ELSE Count(toClient', "LOGIN_MSG_ACK")
          /\ Count(toClient, "REG_MSG_ACK")
               = IF toClient[1].type = "REG_MSG_ACK"
                 THEN Count(toClient', "REG_MSG_ACK") + 1
                 ELSE Count(toClient', "REG_MSG_ACK")
      BY <1>3, <2>1, CountRest
    <3>2. \A type : Count(toClient', type) \in Nat
      BY <2>2, Counted DEF StreamInv
    <3>3. rpc' = IF toClient[1].type = "LOGIN_MSG_ACK" \/ toClient[1].type = "REG_MSG_ACK"
                 THEN "post" ELSE "recv"
      BY <2>4 DEF Handle, IsAnswer
    <3>4. OneOutstanding'
      BY <1>1, <1>2, <1>3, <2>1, <2>4, <3>1, <3>2, <3>3
         DEF OneOutstanding, Outstanding, Waiting
    <3>5. QED
      BY <2>2, <3>4 DEF AnswerInv
  <2>5. QED
    BY <2>1, <2>3, <2>4
<1>11. CASE SemPost
  <2>1. StreamInv'
    BY <1>1, <1>11 DEF StreamInv, SemPost, listVars, serverVars
  <2>2. OneOutstanding'
    BY <1>1, <1>2, <1>3, <1>11
       DEF OneOutstanding, Outstanding, Waiting, SemPost, listVars, serverVars
  <2>3. QED
    BY <2>1, <2>2 DEF AnswerInv
<1>12. CASE OnMessage
  <2>1. /\ toServer[1].type \in RequestTypes /\ IsRest(toServer, toServer')
        /\ UNCHANGED <<pc, sem, rpc, down>> /\ ~down
    BY <1>1, <1>12, Served DEF OnMessage, mainVars, readerVars
  <2>2. PICK o \in Outcomes(toServer[1]) : toClient' = toClient \o o.answers
    BY <1>1, <1>12, Served
  <2>3. \A type : Count(toServer, type)
          = IF toServer[1].type = type THEN Count(toServer', type) + 1
            ELSE Count(toServer', type)
    BY <1>3, <2>1, CountRest
  <2>4. \A type : Count(toServer', type) \in Nat
    BY <2>1, Counted DEF IsRest
  <2>5. ASSUME NEW m, o.answers = <<m>>
        PROVE  /\ IsSequence(toClient')
               /\ \A type : Count(toClient', type)
                    = IF m.type = type THEN Count(toClient, type) + 1
                      ELSE Count(toClient, type)
    <3>1. IsAppended(toClient, m, toClient')
      BY <1>3, <2>2, <2>5, Answered
    <3>2. QED
      BY <1>3, <3>1, CountAppended DEF IsAppended
  <2>6. CASE toServer[1].type = "LOGIN_MSG"
    <3>1. PICK m : o.answers = <<m>> /\ m.type = "LOGIN_MSG_ACK"
      BY <2>1, <2>6, OutcomesOf, ZenonT(30)
    <3>2. /\ IsSequence(toClient')
          /\ Count(toClient', "LOGIN_MSG_ACK") = Count(toClient, "LOGIN_MSG_ACK") + 1
          /\ Count(toClient', "REG_MSG_ACK") = Count(toClient, "REG_MSG_ACK")
      BY <2>5, <3>1
    <3>3. Count(toServer', "LOGIN_MSG") = Count(toServer, "LOGIN_MSG") - 1
          /\ Count(toServer', "REG_MSG") = Count(toServer, "REG_MSG")
      BY <1>2, <2>3, <2>4, <2>6
    <3>4. OneOutstanding'
      BY <1>1, <1>2, <1>3, <2>1, <3>2, <3>3 DEF OneOutstanding, Outstanding, Waiting
    <3>5. QED
      BY <1>1, <2>1, <3>2, <3>4 DEF AnswerInv, StreamInv, IsRest
  <2>7. CASE toServer[1].type = "REG_MSG"
    <3>1. PICK m : o.answers = <<m>> /\ m.type = "REG_MSG_ACK" /\ o.session = session
      BY <2>1, <2>7, OutcomesOf, ZenonT(30)
    <3>2. /\ IsSequence(toClient')
          /\ Count(toClient', "LOGIN_MSG_ACK") = Count(toClient, "LOGIN_MSG_ACK")
          /\ Count(toClient', "REG_MSG_ACK") = Count(toClient, "REG_MSG_ACK") + 1
      BY <2>5, <3>1
    <3>3. Count(toServer', "LOGIN_MSG") = Count(toServer, "LOGIN_MSG")
          /\ Count(toServer', "REG_MSG") = Count(toServer, "REG_MSG") - 1
      BY <1>2, <2>3, <2>4, <2>7
    <3>4. OneOutstanding'
      BY <1>1, <1>2, <1>3, <2>1, <3>2, <3>3 DEF OneOutstanding, Outstanding, Waiting
    <3>5. QED
      BY <1>1, <2>1, <3>2, <3>4 DEF AnswerInv, StreamInv, IsRest
  <2>8. CASE toServer[1].type \in {"LOGINOUT_MSG"} \union Commands
    <3>1. toClient' = toClient
      <4>1. o.answers = <<>>
        BY <2>1, <2>8, OutcomesOf
      <4>2. QED
        BY <1>3, <2>2, <4>1, Answered
    <3>2. Count(toServer', "LOGIN_MSG") = Count(toServer, "LOGIN_MSG")
          /\ Count(toServer', "REG_MSG") = Count(toServer, "REG_MSG")
      BY <2>3, <2>8 DEF Commands
    <3>3. OneOutstanding'
      BY <1>1, <1>2, <1>3, <2>1, <3>1, <3>2 DEF OneOutstanding, Outstanding, Waiting
    <3>4. QED
      BY <1>1, <2>1, <3>1, <3>3 DEF AnswerInv, StreamInv, IsRest
  <2>9. QED
    BY <2>1, <2>6, <2>7, <2>8 DEF RequestTypes
<1>13. CASE Push
  <2>1. PICK m : m = Answer("CHAT", 0, None)
    OBVIOUS
  <2>2. m.type = "CHAT" /\ toClient' = Append(toClient, m)
        /\ UNCHANGED <<pc, sem, rpc, toServer, down>>
    BY <1>13, <2>1 DEF Push, Answer, mainVars, readerVars
  <2>3. IsAppended(toClient, m, toClient')
    BY <1>3, <2>2, Appended
  <2>4. /\ Count(toClient', "LOGIN_MSG_ACK") = Count(toClient, "LOGIN_MSG_ACK")
        /\ Count(toClient', "REG_MSG_ACK") = Count(toClient, "REG_MSG_ACK")
    BY <1>3, <2>2, <2>3, CountAppended
  <2>5. OneOutstanding'
    BY <1>1, <2>2, <2>4 DEF OneOutstanding, Outstanding, Waiting
  <2>6. QED
    BY <1>1, <2>2, <2>3, <2>5 DEF AnswerInv, StreamInv, IsAppended
<1>14. CASE ServerGoes
  <2>1. /\ down' = TRUE /\ toServer' = <<>>
        /\ UNCHANGED <<pc, sem, rpc, toClient>>
    BY <1>14 DEF ServerGoes, mainVars, readerVars
  <2>2. OneOutstanding'
    <3>1. Count(toServer', "LOGIN_MSG") = 0 /\ Count(toServer', "REG_MSG") = 0
      BY <2>1, Nothing
    <3>2. QED
      BY <1>1, <1>2, <1>3, <2>1, <3>1, SMTT(30) DEF OneOutstanding, Outstanding, Waiting
  <2>3. IsSequence(toServer') /\ \A i \in DOMAIN toServer' : FALSE
    <3>1. IsSequence(toServer')
      BY <2>1, Nothing
    <3>2. QED
      BY <2>1, <3>1
  <2>4. StreamInv'
    BY <1>1, <2>1, <2>3 DEF StreamInv
  <2>5. QED
    BY <2>2, <2>4 DEF AnswerInv
<1>15. CASE UNCHANGED vars
  BY <1>1, <1>15 DEF AnswerInv, StreamInv, OneOutstanding, Outstanding, Waiting,
     vars, mainVars, readerVars, serverVars
<1>16. QED
  BY <1>4, <1>5, <1>6, <1>7, <1>8, <1>9, <1>10, <1>11, <1>12, <1>13, <1>14, <1>15
     DEF Next, ReaderStep, Commands

-----------------------------------------------------------------------------
(* Client and server agree on who is logged in.                            *)

\* A step that leaves the first n requests and the session alone
LEMMA LeavesKept ==
  ASSUME NEW n \in Nat, Leaves(n), UNCHANGED <<session, elsewhere>>,
         \A i \in 1..n : toServer'[i] = toServer[i]
  PROVE  Leaves(n)'
<1>1. CASE n = 0
  BY <1>1 DEF Leaves
<1>2. CASE n > 0
  <2>1. n \in 1..n /\ \A i \in 1..n - 1 : i \in 1..n
    BY <1>2
  <2>2. QED
    BY <1>2, <2>1 DEF Leaves
<1>3. QED
  BY <1>1, <1>2

\* The server reads the first of n requests, of which one is left.
LEMMA LeavesServed ==
  ASSUME ~Coalesce, StreamInv, OnMessage,
         NEW n \in Nat, n > 0, n <= Len(toServer), Leaves(n)
  PROVE  Leaves(n - 1)'
<1>1. /\ toServer[1].type \in RequestTypes /\ IsRest(toServer, toServer')
  BY Served
<1>2. PICK o \in Outcomes(toServer[1]) :
        session' = o.session /\ elsewhere' = o.elsewhere
  BY Served
<1>3. /\ toServer[n].type = "LOGINOUT_MSG" /\ session = {toServer[n].id} \ elsewhere
      /\ \A i \in 1..n - 1 : toServer[i].type \in Commands
  BY DEF Leaves
<1>4. CASE n = 1
  <2>1. session' = session \ {toServer[1].id}
    <3>1. toServer[1].type = "LOGINOUT_MSG"
      BY <1>3, <1>4
    <3>2. o.session = session \ {toServer[1].id}
      BY <1>1, <3>1, OutcomesOf, ZenonT(30)
    <3>3. QED
      BY <1>2, <3>2
  <2>2. session' = {}
    BY <1>3, <1>4, <2>1
  <2>3. QED
    BY <1>4, <2>2 DEF Leaves
<1>5. CASE n > 1
  <2>1. toServer[1].type \in Commands
    BY <1>3, <1>5
  <2>2. session' = session /\ elsewhere' = elsewhere
    BY <1>1, <1>2, <2>1, OutcomesOf DEF Commands
  <2>3. n - 1 > 0 /\ n - 1 \in 1..Len(toServer') /\ n - 1 + 1 = n
    BY <1>1, <1>5 DEF IsRest
  <2>4. toServer'[n - 1] = toServer[n]
    BY <1>1, <2>3 DEF IsRest
  <2>5. \A i \in 1..n - 1 - 1 : toServer'[i].type \in Commands
    <3>1. SUFFICES ASSUME NEW i \in 1..n - 1 - 1 PROVE toServer'[i].type \in Commands
      OBVIOUS
    <3>2. i \in 1..Len(toServer') /\ i + 1 \in 1..n - 1
      BY <1>1, <1>5, <2>3
    <3>3. QED
      BY <1>1, <1>3, <3>2 DEF IsRest
  <2>6. QED
    BY <1>3, <2>2, <2>3, <2>4, <2>5 DEF Leaves
<1>6. QED
  BY <1>4, <1>5

\* With the count at zero there is no message of the type.
LEMMA NoneOf ==
  ASSUME NEW s, IsSequence(s), NEW type, Count(s, type) = 0
  PROVE  \A i \in DOMAIN s : s[i].type # type
  BY Counted

\* While the main thread waits for nothing, and once an answer has been
\* handled, no login and no registration is under way.
LEMMA NothingUnderWay ==
  ASSUME AnswerInv, pc # "exited", ~Waiting \/ sem > 0 \/ rpc = "post"
  PROVE  /\ \A i \in DOMAIN toServer : toServer[i].type \notin {"LOGIN_MSG", "REG_MSG"}
         /\ \A i \in DOMAIN toClient :
              toClient[i].type \notin {"LOGIN_MSG_ACK", "REG_MSG_ACK"}
<1>1. StreamInv /\ OneOutstanding
  BY DEF AnswerInv
<1>2. \A type : Count(toServer, type) \in Nat /\ Count(toClient, type) \in Nat
  BY <1>1, CountsAreNumbers
<1>3. IsSequence(toServer) /\ IsSequence(toClient) /\ sem \in Nat
      /\ rpc \in {"recv", "post"}
  BY <1>1 DEF StreamInv
<1>4. /\ Count(toServer, "LOGIN_MSG") = 0 /\ Count(toClient, "LOGIN_MSG_ACK") = 0
      /\ Count(toServer, "REG_MSG") = 0 /\ Count(toClient, "REG_MSG_ACK") = 0
  BY <1>1, <1>2, <1>3 DEF OneOutstanding, Outstanding
<1>5. QED
  BY <1>3, <1>4, NoneOf

\* The request that is added is the one the main thread waits for.
LEMMA AskedFor ==
  ASSUME StreamInv, Leaves(Len(toServer)), UNCHANGED <<session, elsewhere>>,
         NEW r, IsAppended(toServer, r, toServer')
  PROVE  Asked(r.type)'
<1>1. /\ Len(toServer') = Len(toServer) + 1 /\ toServer'[Len(toServer')] = r
      /\ \A i \in 1..Len(toServer) : toServer'[i] = toServer[i]
      /\ Len(toServer) \in Nat
  BY DEF IsAppended
<1>2. PICK n \in Nat : n = Len(toServer)
  BY <1>1
<1>3. Leaves(n)'
  BY <1>1, <1>2, LeavesKept
<1>4. QED
  BY <1>1, <1>2, <1>3 DEF Asked

\* The last request stays the last, or has just been read.
LEMMA AskedServed ==
  ASSUME ~Coalesce, StreamInv, OnMessage, NEW type, Asked(type)
  PROVE  \/ Asked(type)'
         \/ toServer' = <<>> /\ session = {} /\ toServer[1].type = type
<1>1. /\ toServer[1].type \in RequestTypes /\ IsRest(toServer, toServer')
  BY Served
<1>2. PICK n \in Nat : n = Len(toServer)
  BY <1>1 DEF IsRest
<1>3. n > 0 /\ toServer[n].type = type /\ Leaves(n - 1)
  BY <1>2 DEF Asked
<1>4. Len(toServer') = n - 1 /\ \A i \in 1..n - 1 : toServer'[i] = toServer[i + 1]
  BY <1>1, <1>2 DEF IsRest
<1>5. CASE n = 1
  <2>1. session = {}
    BY <1>3, <1>5 DEF Leaves
  <2>2. toServer' = <<>>
    BY <1>1, <1>4, <1>5 DEF IsRest, IsSequence
  <2>3. QED
    BY <1>3, <1>5, <2>1, <2>2
<1>6. CASE n > 1
  <2>1. n - 1 \in Nat /\ n - 1 > 0 /\ n - 1 <= Len(toServer)
    BY <1>2, <1>6
  <2>2. Leaves(n - 1 - 1)'
    BY <1>3, <2>1, LeavesServed
  <2>3. toServer'[n - 1] = toServer[n - 1 + 1] /\ n - 1 + 1 = n
    BY <1>4, <1>6
  <2>4. QED
    BY <1>3, <1>4, <1>6, <2>2, <2>3 DEF Asked
<1>7. QED
  BY <1>3, <1>5, <1>6

\* Every step keeps the agreement.
LEMMA SessionStep ==
  ASSUME ~Coalesce, ClientInv, [Next]_vars, ~down', pc' # "exited"
  PROVE  SessionInv'
<1>1. AnswerInv /\ StreamInv /\ OneOutstanding
  BY DEF ClientInv, AnswerInv
<1>2. /\ IsSequence(toServer) /\ IsSequence(toClient) /\ sem \in Nat
      /\ rpc \in {"recv", "post"}
      /\ pc \in {"menu", "login", "reg", "commands", "exited"}
      /\ Len(toServer) \in Nat /\ DOMAIN toServer = 1..Len(toServer)
  BY <1>1 DEF StreamInv, IsSequence
<1>3. ASSUME ~down, pc # "exited" PROVE SessionInv
  BY <1>3 DEF ClientInv
<1>4. ASSUME NEW a \in Id, Login(a) PROVE SessionInv'
  <2>1. PICK r : r = Request("LOGIN_MSG", a, None)
    OBVIOUS
  <2>2. r.type = "LOGIN_MSG" /\ Send(r)
    BY <1>4, <2>1 DEF Login, Request
  <2>3. /\ pc = "menu" /\ pc' = "login" /\ ~down /\ UNCHANGED <<session, elsewhere>>
    BY <1>4 DEF Login, serverVars
  <2>4. IsAppended(toServer, r, toServer')
    BY <1>1, <2>2, <2>3, Sent DEF RequestTypes
  <2>5. Leaves(Len(toServer))
    BY <1>3, <2>3 DEF SessionInv
  <2>6. Asked("LOGIN_MSG")'
    BY <1>1, <2>2, <2>3, <2>4, <2>5, AskedFor
  <2>7. QED
    BY <2>3, <2>6 DEF SessionInv
<1>5. ASSUME NEW n \in Name, Register(n) PROVE SessionInv'
  <2>1. PICK r : r = Request("REG_MSG", None, n)
    OBVIOUS
  <2>2. r.type = "REG_MSG" /\ Send(r)
    BY <1>5, <2>1 DEF Register, Request
  <2>3. /\ pc = "menu" /\ pc' = "reg" /\ ~down /\ UNCHANGED <<session, elsewhere>>
    BY <1>5 DEF Register, serverVars
  <2>4. IsAppended(toServer, r, toServer')
    BY <1>1, <2>2, <2>3, Sent DEF RequestTypes
  <2>5. Leaves(Len(toServer))
    BY <1>3, <2>3 DEF SessionInv
  <2>6. Asked("REG_MSG")'
    BY <1>1, <2>2, <2>3, <2>4, <2>5, AskedFor
  <2>7. QED
    BY <2>3, <2>6 DEF SessionInv
<1>6. ASSUME NEW type \in Commands, NEW arg, Command(type, arg) PROVE SessionInv'
  <2>1. PICK r : r = Request(type, user, arg)
    OBVIOUS
  <2>2. r.type \in Commands /\ Send(r)
    BY <1>6, <2>1 DEF Command, Request
  <2>3. /\ pc = "commands" /\ pc' = pc /\ ~down /\ UNCHANGED <<session, elsewhere, user>>
    BY <1>6 DEF Command, mainVars, readerVars, serverVars
  <2>4. IsAppended(toServer, r, toServer')
    BY <1>1, <2>2, <2>3, Sent DEF RequestTypes
  <2>5. session = {user} \ elsewhere /\ \A i \in DOMAIN toServer : toServer[i].type \in Commands
    BY <1>3, <2>3 DEF SessionInv
  <2>6. \A i \in DOMAIN toServer' : toServer'[i].type \in Commands
    BY <2>2, <2>4, <2>5 DEF IsAppended
  <2>7. QED
    BY <2>3, <2>5, <2>6 DEF SessionInv
<1>7. CASE Loginout
  <2>1. PICK r : r = Request("LOGINOUT_MSG", user, None)
    OBVIOUS
  <2>2. r.type = "LOGINOUT_MSG" /\ r.id = user /\ Send(r)
    BY <1>7, <2>1 DEF Loginout, Request
  <2>3. /\ pc = "commands" /\ ~down /\ pc' = "menu" /\ UNCHANGED <<session, elsewhere>>
    BY <1>7 DEF Loginout, serverVars
  <2>4. IsAppended(toServer, r, toServer')
    BY <1>1, <2>2, <2>3, Sent DEF RequestTypes
  <2>5. session = {user} \ elsewhere /\ \A i \in DOMAIN toServer : toServer[i].type \in Commands
    BY <1>3, <2>3 DEF SessionInv
  <2>6. PICK n \in Nat : n = Len(toServer) + 1 /\ Len(toServer') = n
    BY <1>2, <2>4 DEF IsAppended
  <2>7. toServer'[n] = r /\ \A i \in 1..n - 1 : toServer'[i].type \in Commands
    BY <1>2, <2>4, <2>5, <2>6 DEF IsAppended
  <2>8. Leaves(n)'
    BY <1>2, <2>2, <2>3, <2>5, <2>6, <2>7 DEF Leaves
  <2>9. QED
    BY <2>3, <2>6, <2>8 DEF SessionInv
<1>8. CASE SemWait
  <2>1. /\ pc \in {"login", "reg"} /\ sem > 0 /\ ~down
        /\ pc' = IF pc = "login" /\ success THEN "commands" ELSE "menu"
        /\ UNCHANGED <<user, session, elsewhere, toServer>>
    BY <1>8 DEF SemWait, readerVars, serverVars
  <2>2. /\ \A i \in DOMAIN toServer : toServer[i].type \notin {"LOGIN_MSG", "REG_MSG"}
        /\ \A i \in DOMAIN toClient : toClient[i].type # "LOGIN_MSG_ACK"
    BY <1>1, <2>1, NothingUnderWay
  <2>3. ~Asked("LOGIN_MSG") /\ ~Asked("REG_MSG")
    BY <1>2, <2>2 DEF Asked
  <2>4. /\ toServer = <<>>
        /\ session = IF pc = "login" /\ success THEN {user} \ elsewhere ELSE {}
    BY <1>3, <2>1, <2>2, <2>3 DEF SessionInv
  <2>5. Len(toServer') = 0 /\ DOMAIN toServer' = {}
    BY <2>1, <2>4
  <2>6. QED
    BY <2>1, <2>4, <2>5 DEF SessionInv, Leaves
<1>9. CASE CommandThrows \/ Quit \/ RecvEnd
  BY <1>9 DEF CommandThrows, Quit, RecvEnd
<1>10. CASE Recv
  <2>1. /\ IsRest(toClient, toClient') /\ UNCHANGED <<sem, toServer, session, elsewhere, down>>
        /\ pc # "exited" /\ rpc = "recv" /\ pc' = pc /\ Handle(toClient[1])
    BY <1>1, <1>10, Received DEF Recv
  <2>2. 1 \in DOMAIN toClient
    BY <2>1 DEF IsRest
  <2>3. SessionInv
    BY <1>3, <2>1
  <2>4. ASSUME toClient[1].type # "LOGIN_MSG_ACK" PROVE UNCHANGED <<success, user>>
    BY <2>1, <2>4 DEF Handle
  <2>5. \A n : Leaves(n) => Leaves(n)'
    BY <2>1 DEF Leaves
  <2>6. \A type : Asked(type) => Asked(type)'
    BY <2>1, <2>5 DEF Asked
  <2>7. CASE pc = "commands"
    <3>1. toClient[1].type # "LOGIN_MSG_ACK"
      BY <1>1, <2>1, <2>2, <2>7, NothingUnderWay DEF Waiting
    <3>2. QED
      BY <2>1, <2>3, <2>4, <2>7, <3>1 DEF SessionInv
  <2>8. CASE pc = "menu" \/ pc = "reg"
    BY <2>1, <2>3, <2>5, <2>6, <2>8 DEF SessionInv
  <2>9. CASE pc = "login"
    <3>1. CASE Asked("LOGIN_MSG")
      BY <2>1, <2>6, <2>9, <3>1 DEF SessionInv
    <3>2. CASE /\ toServer = <<>>
               /\ \E i \in DOMAIN toClient :
                    /\ toClient[i].type = "LOGIN_MSG_ACK"
                    /\ session = IF toClient[i].errno = 0 THEN {toClient[i].id} \ elsewhere ELSE {}
      <4>1. PICK i \in DOMAIN toClient :
                 /\ toClient[i].type = "LOGIN_MSG_ACK"
                 /\ session = IF toClient[i].errno = 0 THEN {toClient[i].id} \ elsewhere ELSE {}
        BY <3>2
      <4>2. CASE i = 1
        <5>1. rpc' = "post" /\ DoLoginResponse(toClient[1])
          BY <2>1, <4>1, <4>2 DEF Handle, IsAnswer
        <5>2. session' = IF success' THEN {user'} \ elsewhere' ELSE {}
          BY <2>1, <4>1, <4>2, <5>1 DEF DoLoginResponse
        <5>3. QED
          BY <2>1, <2>9, <3>2, <5>1, <5>2 DEF SessionInv
      <4>3. CASE i # 1
        <5>1. i - 1 \in DOMAIN toClient' /\ toClient'[i - 1] = toClient[i]
          BY <2>1, <4>1, <4>3 DEF IsRest
        <5>2. QED
          BY <2>1, <2>9, <3>2, <4>1, <5>1 DEF SessionInv
      <4>4. QED
        BY <4>2, <4>3
    <3>3. CASE /\ toServer = <<>> /\ (sem > 0 \/ rpc = "post")
               /\ session = IF success THEN {user} \ elsewhere ELSE {}
      <4>1. toClient[1].type # "LOGIN_MSG_ACK"
        BY <1>1, <2>1, <2>2, <3>3, NothingUnderWay
      <4>2. sem' > 0
        BY <2>1, <3>3
      <4>3. session' = IF success' THEN {user'} \ elsewhere' ELSE {}
        <5>1. success' = success /\ user' = user
          BY <2>4, <4>1
        <5>2. session' = session /\ elsewhere' = elsewhere
          BY <2>1
        <5>3. QED
          BY <3>3, <5>1, <5>2, Zenon
      <4>4. pc' = "login" /\ toServer' = <<>>
        BY <2>1, <2>9, <3>3
      <4>5. QED
        BY <4>2, <4>3, <4>4 DEF SessionInv
    <3>4. QED
      BY <2>3, <2>9, <3>1, <3>2, <3>3 DEF SessionInv
  <2>10. QED
    BY <1>2, <2>1, <2>7, <2>8, <2>9
<1>11. CASE SemPost
  <2>1. /\ UNCHANGED <<pc, success, user, toServer, toClient, session, elsewhere, down>>
        /\ sem' > 0 /\ pc # "exited"
    BY <1>2, <1>11 DEF SemPost, listVars, serverVars
  <2>2. SessionInv
    BY <1>3, <2>1
  <2>3. QED
    BY <2>1, <2>2 DEF SessionInv, Leaves, Asked
<1>12. CASE OnMessage
  <2>1. UNCHANGED <<pc, sem, success, user, rpc, down>>
    BY <1>12 DEF OnMessage, mainVars, readerVars
  <2>2. SessionInv
    BY <1>3, <2>1
  <2>3. /\ toServer # <<>> /\ toServer[1].type \in RequestTypes
        /\ IsRest(toServer, toServer') /\ 1 \in DOMAIN toServer
    BY <1>1, <1>12, Served DEF IsRest
  <2>4. PICK o \in Outcomes(toServer[1]) :
          /\ session' = o.session /\ elsewhere' = o.elsewhere
          /\ toClient' = toClient \o o.answers
    BY <1>1, <1>12, Served
  <2>5. CASE pc = "commands"
    <3>1. session = {user} \ elsewhere /\ \A i \in DOMAIN toServer : toServer[i].type \in Commands
      BY <2>2, <2>5 DEF SessionInv
    <3>2. session' = session /\ elsewhere' = elsewhere
      <4>1. toServer[1].type \in Commands /\ toServer[1].type # "LOGINOUT_MSG"
        BY <2>3, <3>1 DEF Commands
      <4>2. o.session = session /\ o.elsewhere = elsewhere
        BY <2>3, <4>1, OutcomesOf, ZenonT(30)
      <4>3. QED
        BY <2>4, <4>2
    <3>3. \A i \in DOMAIN toServer' : toServer'[i].type \in Commands
      BY <2>3, <3>1 DEF IsRest
    <3>4. QED
      BY <2>1, <2>5, <3>1, <3>2, <3>3 DEF SessionInv
  <2>6. CASE pc = "menu"
    <3>1. PICK n \in Nat : n = Len(toServer)
      BY <1>2
    <3>2. n > 0 /\ n <= Len(toServer) /\ Len(toServer') = n - 1
      BY <2>3, <3>1 DEF IsRest
    <3>3. Leaves(n)
      BY <2>2, <2>6, <3>1 DEF SessionInv
    <3>4. Leaves(n - 1)'
      BY <1>1, <1>12, <3>2, <3>3, LeavesServed
    <3>5. QED
      BY <2>1, <2>6, <3>2, <3>4 DEF SessionInv
  <2>7. CASE pc = "reg"
    <3>1. Asked("REG_MSG")
      BY <2>2, <2>3, <2>7 DEF SessionInv
    <3>2. CASE Asked("REG_MSG")'
      BY <2>1, <2>7, <3>2 DEF SessionInv
    <3>3. CASE toServer' = <<>> /\ session = {} /\ toServer[1].type = "REG_MSG"
      <4>1. session' = {}
        BY <2>3, <2>4, <3>3, OutcomesOf
      <4>2. QED
        BY <2>1, <2>7, <3>3, <4>1 DEF SessionInv
    <3>4. QED
      BY <1>1, <1>12, <3>1, <3>2, <3>3, AskedServed
  <2>8. CASE pc = "login"
    <3>1. Asked("LOGIN_MSG")
      BY <2>2, <2>3, <2>8 DEF SessionInv
    <3>2. CASE Asked("LOGIN_MSG")'
      BY <2>1, <2>8, <3>2 DEF SessionInv
    <3>3. CASE toServer' = <<>> /\ session = {} /\ toServer[1].type = "LOGIN_MSG"
      <4>1. PICK m : /\ o.answers = <<m>> /\ m.type = "LOGIN_MSG_ACK"
                     /\ o.session = IF m.errno = 0 THEN session \union ({m.id} \ elsewhere)
                                    ELSE session
                     /\ o.elsewhere = elsewhere
        <5>1. PICK m : /\ o.answers = <<m>> /\ m.type = "LOGIN_MSG_ACK"
                       /\ o.session = IF m.errno = 0 THEN session \union ({m.id} \ elsewhere)
                                      ELSE session
          BY <2>3, <3>3, OutcomesOf, ZenonT(30)
        <5>2. "LOGIN_MSG" # "LOGINOUT_MSG"
          OBVIOUS
        <5>3. o.elsewhere = elsewhere
          BY <2>3, <3>3, <5>2, OutcomesOf, ZenonT(30)
        <5>4. QED
          BY <5>1, <5>3
      <4>2. session' = IF m.errno = 0 THEN {m.id} \ elsewhere' ELSE {}
        BY <2>4, <3>3, <4>1
      <4>3. IsAppended(toClient, m, toClient')
        BY <1>2, <2>4, <4>1, Answered
      <4>4. PICK i \in DOMAIN toClient' : toClient'[i] = m
        <5>1. /\ Len(toClient') = Len(toClient) + 1 /\ toClient'[Len(toClient')] = m
              /\ Len(toClient) \in Nat /\ DOMAIN toClient' = 1..Len(toClient')
          BY <4>3 DEF IsAppended
        <5>2. QED
          BY <5>1
      <4>5. QED
        BY <2>1, <2>8, <3>3, <4>1, <4>2, <4>4 DEF SessionInv
    <3>4. QED
      BY <1>1, <1>12, <3>1, <3>2, <3>3, AskedServed
  <2>9. QED
    BY <1>2, <2>1, <2>5, <2>6, <2>7, <2>8
<1>13. CASE Push
  <2>1. PICK m : m = Answer("CHAT", 0, None)
    OBVIOUS
  <2>2. /\ UNCHANGED <<pc, sem, success, user, rpc, toServer, session, elsewhere, down>>
        /\ toClient' = Append(toClient, m)
    BY <1>13, <2>1 DEF Push, mainVars, readerVars
  <2>3. IsAppended(toClient, m, toClient')
    BY <1>2, <2>2, Appended
  <2>4. \A i \in DOMAIN toClient : i \in DOMAIN toClient' /\ toClient'[i] = toClient[i]
    BY <2>3 DEF IsAppended
  <2>5. SessionInv
    BY <1>3, <2>2
  <2>6. QED
    BY <2>2, <2>4, <2>5 DEF SessionInv, Leaves, Asked
<1>14. CASE ServerGoes
  BY <1>14 DEF ServerGoes
<1>15. CASE UNCHANGED vars
  <2>1. UNCHANGED <<pc, rpc, sem, success, user, toServer, toClient, session, elsewhere, down>>
    BY <1>15 DEF vars
  <2>2. SessionInv
    BY <1>3, <2>1
  <2>3. QED
    BY <2>1, <2>2 DEF SessionInv, Leaves, Asked
<1>16. QED
  BY <1>4, <1>5, <1>6, <1>7, <1>8, <1>9, <1>10, <1>11, <1>12, <1>13, <1>14, <1>15
     DEF Next, ReaderStep, Commands

\* The invariant holds at the start and after every step: neither a server
\* that has gone nor a process that has ended comes back.
LEMMA ClientStep ==
  ASSUME ~Coalesce
  PROVE  /\ Init => ClientInv
         /\ ClientInv /\ [Next]_vars => ClientInv'
<1>1. ASSUME Init PROVE ClientInv
  <2>1. AnswerInv
    BY <1>1, AnswerInit
  <2>2. Leaves(0) /\ Len(toServer) = 0 /\ pc = "menu"
    BY <1>1 DEF Init, Leaves
  <2>3. SessionInv
    BY <2>2 DEF SessionInv
  <2>4. QED
    BY <2>1, <2>3 DEF ClientInv
<1>2. ASSUME ClientInv, [Next]_vars PROVE ClientInv'
  <2>1. AnswerInv'
    BY <1>2, AnswerStep DEF ClientInv
  <2>2. ASSUME ~down', pc' # "exited" PROVE SessionInv'
    BY <1>2, <2>2, SessionStep
  <2>3. QED
    BY <2>1, <2>2 DEF ClientInv
<1>3. QED
  BY <1>1, <1>2

\* OneOutstanding of any client: rwsem pairs every wait of the main thread
\* with the answer to its own request (main(), readTaskHandler()), whatever
\* the server answers, whatever else it sends in between, and when it goes
\* away.  One read must return one message: recv() finding two at once
\* ends the process.
THEOREM AnswersArePaired ==
  ASSUME ~Coalesce
  PROVE  Spec => []OneOutstanding
<1>1. Init => AnswerInv
  BY AnswerInit
<1>2. AnswerInv /\ [Next]_vars => AnswerInv'
  BY AnswerStep
<1>3. AnswerInv => OneOutstanding
  BY DEF AnswerInv
<1>4. QED
  BY <1>1, <1>2, <1>3, PTL DEF Spec

\* MenuMatchesSession of any client: mainMenu() runs only while _userConnMap
\* holds the connection for g_currentUser alone, or another one for him, and the
\* first menu only when it is to hold it for nobody (login(), loginout() of the server,
\* doLoginResponse() and the loginout command of the client).
THEOREM ClientAndServerAgree ==
  ASSUME ~Coalesce
  PROVE  Spec => []MenuMatchesSession
<1>1. Init => ClientInv
  BY ClientStep
<1>2. ClientInv /\ [Next]_vars => ClientInv'
  BY ClientStep
<1>3. ClientInv => MenuMatchesSession
  <2>1. ASSUME ClientInv, ~down, pc = "commands" PROVE session = {user} \ elsewhere
    BY <2>1 DEF ClientInv, SessionInv
  <2>2. ASSUME ClientInv, ~down, pc = "menu", toServer = <<>> PROVE session = {}
    <3>1. Leaves(Len(toServer)) /\ Len(toServer) = 0
      BY <2>2 DEF ClientInv, SessionInv
    <3>2. QED
      BY <3>1 DEF Leaves
  <2>3. QED
    BY <2>1, <2>2 DEF MenuMatchesSession
<1>4. QED
  BY <1>1, <1>2, <1>3, PTL DEF Spec

-----------------------------------------------------------------------------
(* The rows a query returns.                                               *)

\* SetToSeq() lists each element of a finite set once.
LEMMA Listed ==
  ASSUME NEW P, IsFiniteSet(P)
  PROVE  /\ Cardinality(P) \in Nat
         /\ SetToSeq(P) \in Bijection(1..Cardinality(P), P)
<1>1. PICK n \in Nat : n = Cardinality(P)
  BY FS_CardinalityType
<1>2. ExistsBijection(1..n, P)
  BY <1>1, FS_CardinalityType
<1>3. PICK f \in Bijection(1..n, P) : TRUE
  BY <1>2 DEF ExistsBijection
<1>4. f \in [1..n -> P] /\ IsInjective(f)
  BY <1>3 DEF Bijection, Injection
<1>5. SetToSeq(P) \in [1..n -> P] /\ IsInjective(SetToSeq(P))
  BY <1>1, <1>4, Zenon DEF SetToSeq
<1>6. SetToSeq(P) \in Injection(1..n, P)
  BY <1>5 DEF Injection
<1>7. IsFiniteSet(1..n) /\ Cardinality(1..n) = n
  BY <1>1, FS_Interval
<1>8. SetToSeq(P) \in Surjection(1..n, P)
  BY <1>1, <1>6, <1>7, FS_Injection
<1>9. QED
  BY <1>1, <1>6, <1>8 DEF Bijection

\* The list has what v says of each position in P, once, in some order.
Lists(list, P, v) ==
  \E n \in Nat : \E p \in Bijection(1..n, P) : list = [i \in 1..n |-> v[p[i]]]

\* So the rows of a query are those at its positions, each once.
LEMMA RowsAre ==
  ASSUME NEW table, NEW P, IsFiniteSet(P)
  PROVE  Lists(Rows(table, P), P, table)
<1>1. PICK n \in Nat : n = Cardinality(P)
  BY Listed
<1>2. PICK p : p = SetToSeq(P)
  OBVIOUS
<1>3. p \in Bijection(1..n, P)
  BY <1>1, <1>2, Listed
<1>4. DOMAIN p = 1..n
  BY <1>3 DEF Bijection, Injection
<1>5. Rows(table, P) = [i \in 1..n |-> table[p[i]]]
  BY <1>2, <1>4 DEF Rows
<1>6. QED
  BY <1>3, <1>5 DEF Lists

\* A value is in a list of rows as often as it is at the positions listed.
LEMMA OccurrencesOf ==
  ASSUME NEW P, IsFiniteSet(P), NEW n \in Nat, NEW p \in Bijection(1..n, P),
         NEW v, NEW list, list = [i \in 1..n |-> v[p[i]]], NEW x
  PROVE  Occurrences(list, x) = Cardinality({j \in P : v[j] = x})
<1>1. PICK A, B : A = {i \in 1..n : v[p[i]] = x} /\ B = {j \in P : v[j] = x}
  OBVIOUS
<1>2. /\ p \in [1..n -> P] /\ \A i, j \in 1..n : p[i] = p[j] => i = j
      /\ \A j \in P : \E i \in 1..n : p[i] = j
  BY Fun_BijectionProperties
<1>3. [i \in A |-> p[i]] \in Bijection(A, B)
  <2>1. PICK g : g = [i \in A |-> p[i]]
    OBVIOUS
  <2>2. /\ g \in [A -> B] /\ \A i, j \in A : g[i] = g[j] => i = j
        /\ \A j \in B : \E i \in A : g[i] = j
    BY <1>1, <1>2, <2>1
  <2>3. QED
    BY <2>1, <2>2, Fun_IsBij
<1>4. IsFiniteSet(A)
  BY <1>1, FS_Interval, FS_Subset
<1>5. Cardinality(A) = Cardinality(B)
  <2>1. ExistsBijection(A, B)
    BY <1>3 DEF ExistsBijection
  <2>2. QED
    BY <1>4, <2>1, FS_Bijection
<1>6. Occurrences(list, x) = Cardinality(A)
  BY <1>1 DEF Occurrences
<1>7. QED
  BY <1>1, <1>5, <1>6

-----------------------------------------------------------------------------
(* What the tables hold.                                                   *)

\* The ids that AUTO_INCREMENT has given, and at most one creator's row for
\* each group.
StoreOk(t) ==
  /\ t \in TableType
  /\ Len(t.user) <= MaxRows /\ Len(t.allgroup) <= MaxRows
  /\ \A i \in DOMAIN t.groupuser : t.groupuser[i].role = "creator" =>
       /\ t.groupuser[i].groupid \in DOMAIN t.allgroup
       /\ \A j \in DOMAIN t.groupuser :
            /\ t.groupuser[j].role = "creator"
            /\ t.groupuser[j].groupid = t.groupuser[i].groupid
            => j = i

\* No row goes away, and only a user's state is changed.
Grows(t, u) ==
  /\ DOMAIN t.user \subseteq DOMAIN u.user
  /\ DOMAIN t.allgroup \subseteq DOMAIN u.allgroup
  /\ DOMAIN t.friend \subseteq DOMAIN u.friend
  /\ DOMAIN t.groupuser \subseteq DOMAIN u.groupuser
  /\ \A i \in DOMAIN t.friend : u.friend[i] = t.friend[i]
  /\ \A i \in DOMAIN t.groupuser : u.groupuser[i] = t.groupuser[i]

\* The columns of a table, and its rows' positions.
LEMMA Tables ==
  ASSUME NEW t \in TableType
  PROVE  /\ t.user \in Seq(UserRow) /\ t.friend \in Seq(FriendRow)
         /\ t.allgroup \in Seq(GroupName) /\ t.groupuser \in Seq(GroupUserRow)
         /\ Len(t.user) \in Nat /\ DOMAIN t.user = 1..Len(t.user)
         /\ Len(t.friend) \in Nat /\ DOMAIN t.friend = 1..Len(t.friend)
         /\ Len(t.allgroup) \in Nat /\ DOMAIN t.allgroup = 1..Len(t.allgroup)
         /\ Len(t.groupuser) \in Nat /\ DOMAIN t.groupuser = 1..Len(t.groupuser)
         /\ \A i \in DOMAIN t.friend : t.friend[i].friendid \in Id
         /\ \A i \in DOMAIN t.groupuser : /\ t.groupuser[i].groupid \in Id
                                          /\ t.groupuser[i].userid \in Id
                                          /\ t.groupuser[i].role \in {"creator", "normal"}
<1>1. /\ t.user \in Seq(UserRow) /\ t.friend \in Seq(FriendRow)
      /\ t.allgroup \in Seq(GroupName) /\ t.groupuser \in Seq(GroupUserRow)
  BY DEF TableType
<1>2. /\ \A i \in DOMAIN t.friend : t.friend[i] \in FriendRow
      /\ \A i \in DOMAIN t.groupuser : t.groupuser[i] \in GroupUserRow
  BY <1>1
<1>3. /\ \A r \in FriendRow : r.friendid \in Id
      /\ \A r \in GroupUserRow : /\ r.groupid \in Id /\ r.userid \in Id
                                 /\ r.role \in {"creator", "normal"}
  BY DEF FriendRow, GroupUserRow
<1>4. QED
  BY <1>1, <1>2, <1>3

\* A list of rows has members of the column's type, each as often as the rows do.
LEMMA ListOf ==
  ASSUME NEW S, NEW P, IsFiniteSet(P), NEW v, \A j \in P : v[j] \in S,
         NEW list, Lists(list, P, v)
  PROVE  /\ list \in Seq(S)
         /\ \A x : /\ Occurrences(list, x) = Cardinality({j \in P : v[j] = x})
                   /\ Occurrences(list, x) \in Nat
<1>0. PICK n \in Nat : \E p \in Bijection(1..n, P) : list = [i \in 1..n |-> v[p[i]]]
  BY DEF Lists
<1>1. PICK p \in Bijection(1..n, P) : list = [i \in 1..n |-> v[p[i]]]
  BY <1>0
<1>2. p \in [1..n -> P]
  BY Fun_BijectionProperties
<1>3. list \in Seq(S)
  BY <1>1, <1>2
<1>4. ASSUME NEW x
      PROVE  /\ Occurrences(list, x) = Cardinality({j \in P : v[j] = x})
             /\ Occurrences(list, x) \in Nat
  <2>1. Occurrences(list, x) = Cardinality({j \in P : v[j] = x})
    BY <1>1, OccurrencesOf
  <2>2. IsFiniteSet({j \in P : v[j] = x})
    BY FS_Subset
  <2>3. QED
    BY <2>1, <2>2, FS_CardinalityType
<1>5. QED
  BY <1>3, <1>4

\* One column of rows that are listed
LEMMA ColumnOf ==
  ASSUME NEW P, NEW table, NEW rows, Lists(rows, P, table), NEW field
  PROVE  Lists(Column(rows, field), P, [j \in P |-> table[j][field]])
<1>0. PICK n \in Nat : \E p \in Bijection(1..n, P) : rows = [i \in 1..n |-> table[p[i]]]
  BY DEF Lists
<1>1. PICK p \in Bijection(1..n, P) : rows = [i \in 1..n |-> table[p[i]]]
  BY <1>0
<1>2. p \in [1..n -> P]
  BY Fun_BijectionProperties
<1>3. PICK v : v = [j \in P |-> table[j][field]]
  OBVIOUS
<1>4. Column(rows, field) = [i \in 1..n |-> table[p[i]][field]]
  BY <1>1 DEF Column
<1>5. Column(rows, field) = [i \in 1..n |-> v[p[i]]]
  BY <1>2, <1>3, <1>4
<1>6. Lists(Column(rows, field), P, v)
  BY <1>5 DEF Lists
<1>7. QED
  BY <1>3, <1>6

\* FriendModel::query() returns each row of the user once.
LEMMA FriendsAre ==
  ASSUME NEW t \in TableType, NEW a
  PROVE  /\ Friends(t, a) \in Seq(Id)
         /\ \A x : /\ Occurrences(Friends(t, a), x)
                        = Cardinality({j \in FriendRows(t, a) : t.friend[j].friendid = x})
                   /\ Occurrences(Friends(t, a), x) \in Nat
<1>1. PICK P : P = FriendRows(t, a)
  OBVIOUS
<1>2. /\ t.friend \in Seq(FriendRow) /\ P \in SUBSET DOMAIN t.friend
      /\ \A j \in P : t.friend[j].friendid \in Id
  BY <1>1, Tables DEF FriendRows
<1>3. IsFiniteSet(P)
  BY <1>2, FS_Interval, FS_Subset
<1>4. PICK v : v = [j \in P |-> t.friend[j].friendid]
  OBVIOUS
<1>5. Lists(Friends(t, a), P, v)
  BY <1>1, <1>3, <1>4, RowsAre, ColumnOf DEF Friends
<1>6. \A j \in P : v[j] \in Id
  BY <1>2, <1>4
<1>7. /\ Friends(t, a) \in Seq(Id)
      /\ \A x : /\ Occurrences(Friends(t, a), x) = Cardinality({j \in P : v[j] = x})
                /\ Occurrences(Friends(t, a), x) \in Nat
  BY <1>3, <1>5, <1>6, ListOf
<1>8. \A x : {j \in P : v[j] = x} = {j \in P : t.friend[j].friendid = x}
  BY <1>4
<1>9. QED
  BY <1>1, <1>7, <1>8

\* GroupModel::queryGroups() starts with each row of the user, once.
LEMMA GroupsAre ==
  ASSUME NEW t \in TableType, NEW a
  PROVE  /\ GroupsOf(t, a) \in Seq(Id)
         /\ \A x : /\ Occurrences(GroupsOf(t, a), x)
                        = Cardinality({j \in GroupRows(t, a) : t.groupuser[j].groupid = x})
                   /\ Occurrences(GroupsOf(t, a), x) \in Nat
<1>1. PICK P : P = GroupRows(t, a)
  OBVIOUS
<1>2. /\ t.groupuser \in Seq(GroupUserRow) /\ P \in SUBSET DOMAIN t.groupuser
      /\ \A j \in P : t.groupuser[j].groupid \in Id
  BY <1>1, Tables DEF GroupRows
<1>3. IsFiniteSet(P)
  BY <1>2, FS_Interval, FS_Subset
<1>4. PICK v : v = [j \in P |-> t.groupuser[j].groupid]
  OBVIOUS
<1>5. Lists(GroupsOf(t, a), P, v)
  BY <1>1, <1>3, <1>4, RowsAre, ColumnOf DEF GroupsOf
<1>6. \A j \in P : v[j] \in Id
  BY <1>2, <1>4
<1>7. /\ GroupsOf(t, a) \in Seq(Id)
      /\ \A x : /\ Occurrences(GroupsOf(t, a), x) = Cardinality({j \in P : v[j] = x})
                /\ Occurrences(GroupsOf(t, a), x) \in Nat
  BY <1>3, <1>5, <1>6, ListOf
<1>8. \A x : {j \in P : v[j] = x} = {j \in P : t.groupuser[j].groupid = x}
  BY <1>4
<1>9. QED
  BY <1>1, <1>7, <1>8

MemberType == [id : Id, role : {"creator", "normal"}]
GroupType == [id : Id, users : Seq(MemberType)]

\* The second statement lists the members of a group.
LEMMA MembersAre ==
  ASSUME NEW t \in TableType, NEW g
  PROVE  Members(t, g) \in Seq(MemberType)
<1>1. PICK P : P = MemberRows(t, g)
  OBVIOUS
<1>2. /\ P \in SUBSET DOMAIN t.groupuser /\ t.groupuser \in Seq(GroupUserRow)
      /\ \A j \in P : t.groupuser[j].userid \in Id
                      /\ t.groupuser[j].role \in {"creator", "normal"}
  BY <1>1, Tables DEF MemberRows
<1>3. IsFiniteSet(P)
  BY <1>2, FS_Interval, FS_Subset
<1>4. PICK rows : rows = Rows(t.groupuser, P)
  OBVIOUS
<1>5. PICK n \in Nat : \E p \in Bijection(1..n, P) :
        rows = [i \in 1..n |-> t.groupuser[p[i]]]
  <2>1. Lists(rows, P, t.groupuser)
    BY <1>3, <1>4, RowsAre
  <2>2. QED
    BY <2>1 DEF Lists
<1>6. PICK p \in Bijection(1..n, P) : rows = [i \in 1..n |-> t.groupuser[p[i]]]
  BY <1>5
<1>7. p \in [1..n -> P]
  BY Fun_BijectionProperties
<1>8. ASSUME NEW i \in 1..n
      PROVE  [id |-> rows[i].userid, role |-> rows[i].role] \in MemberType
  BY <1>2, <1>6, <1>7 DEF MemberType
<1>9. Members(t, g) = [i \in 1..n |-> [id |-> rows[i].userid, role |-> rows[i].role]]
  BY <1>1, <1>4, <1>6 DEF Members
<1>10. QED
  BY <1>8, <1>9

-----------------------------------------------------------------------------
(* What is shown of the tables stays true of them.                         *)

FriendsOk(t, a, fs) ==
  /\ fs \in Seq(Id)
  /\ fs # <<>> => a \in DOMAIN t.user /\ Within(fs, Friends(t, a))

GroupsOk(t, a, gs) ==
  /\ gs \in Seq(GroupType)
  /\ gs # <<>> => a \in DOMAIN t.user /\ Within(Column(gs, "id"), GroupsOf(t, a))

\* The occurrences in a list are counted.
LEMMA CountedOccurrences ==
  ASSUME NEW S, NEW s \in Seq(S), NEW x
  PROVE  Occurrences(s, x) \in Nat
<1>1. IsFiniteSet(DOMAIN s)
  BY FS_Interval
<1>2. IsFiniteSet({i \in DOMAIN s : s[i] = x})
  BY <1>1, FS_Subset
<1>3. QED
  BY <1>2, FS_CardinalityType DEF Occurrences

\* A user's friends stay his friends.
LEMMA FriendsStay ==
  ASSUME NEW t \in TableType, NEW u \in TableType, Grows(t, u),
         NEW a, NEW fs, FriendsOk(t, a, fs)
  PROVE  FriendsOk(u, a, fs)
<1>1. SUFFICES ASSUME fs # <<>>, a \in DOMAIN t.user, Within(fs, Friends(t, a))
               PROVE  Within(fs, Friends(u, a)) /\ a \in DOMAIN u.user
  BY DEF FriendsOk
<1>2. a \in DOMAIN u.user
  BY <1>1 DEF Grows
<1>3. ASSUME NEW x PROVE Occurrences(Friends(t, a), x) <= Occurrences(Friends(u, a), x)
  <2>1. PICK A, B : /\ A = {j \in FriendRows(t, a) : t.friend[j].friendid = x}
                    /\ B = {j \in FriendRows(u, a) : u.friend[j].friendid = x}
    OBVIOUS
  <2>2. A \subseteq B
    BY <2>1 DEF FriendRows, Grows
  <2>3. IsFiniteSet(B)
    <3>1. PICK n \in Nat : B \subseteq 1..n
      BY <2>1, Tables DEF FriendRows
    <3>2. IsFiniteSet(1..n)
      BY FS_Interval
    <3>3. QED
      BY <3>1, <3>2, FS_Subset
  <2>4. Cardinality(A) <= Cardinality(B)
    BY <2>2, <2>3, FS_Subset
  <2>5. QED
    BY <2>1, <2>4, FriendsAre
<1>4. \A x \in ToSet(fs) : Occurrences(fs, x) <= Occurrences(Friends(u, a), x)
  <2>1. TAKE x \in ToSet(fs)
  <2>2. /\ Occurrences(fs, x) \in Nat /\ Occurrences(Friends(t, a), x) \in Nat
        /\ Occurrences(Friends(u, a), x) \in Nat
    BY CountedOccurrences, FriendsAre DEF FriendsOk
  <2>3. Occurrences(fs, x) <= Occurrences(Friends(t, a), x)
    BY <1>1 DEF Within
  <2>4. QED
    BY <1>3, <2>2, <2>3
<1>5. QED
  BY <1>2, <1>4 DEF Within

\* A list of groups, by their ids
LEMMA ColumnIds ==
  ASSUME NEW gs \in Seq(GroupType)
  PROVE  Column(gs, "id") \in Seq(Id)
<1>1. \A i \in DOMAIN gs : gs[i] \in GroupType
  OBVIOUS
<1>2. \A i \in DOMAIN gs : gs[i]["id"] \in Id
  BY <1>1 DEF GroupType
<1>3. DOMAIN gs = 1..Len(gs) /\ Len(gs) \in Nat
  OBVIOUS
<1>4. QED
  BY <1>2, <1>3 DEF Column

\* A user stays in his groups.
LEMMA GroupsStay ==
  ASSUME NEW t \in TableType, NEW u \in TableType, Grows(t, u),
         NEW a, NEW gs, GroupsOk(t, a, gs)
  PROVE  GroupsOk(u, a, gs)
<1>1. SUFFICES ASSUME gs # <<>>, a \in DOMAIN t.user,
                      Within(Column(gs, "id"), GroupsOf(t, a))
               PROVE  Within(Column(gs, "id"), GroupsOf(u, a)) /\ a \in DOMAIN u.user
  BY DEF GroupsOk
<1>2. a \in DOMAIN u.user
  BY <1>1 DEF Grows
<1>3. PICK ids \in Seq(Id) : ids = Column(gs, "id")
  BY ColumnIds DEF GroupsOk
<1>4. ASSUME NEW x PROVE Occurrences(GroupsOf(t, a), x) <= Occurrences(GroupsOf(u, a), x)
  <2>1. PICK A, B : /\ A = {j \in GroupRows(t, a) : t.groupuser[j].groupid = x}
                    /\ B = {j \in GroupRows(u, a) : u.groupuser[j].groupid = x}
    OBVIOUS
  <2>2. A \subseteq B
    BY <2>1 DEF GroupRows, Grows
  <2>3. IsFiniteSet(B)
    <3>1. PICK n \in Nat : B \subseteq 1..n
      BY <2>1, Tables DEF GroupRows
    <3>2. IsFiniteSet(1..n)
      BY FS_Interval
    <3>3. QED
      BY <3>1, <3>2, FS_Subset
  <2>4. Cardinality(A) <= Cardinality(B)
    BY <2>2, <2>3, FS_Subset
  <2>5. QED
    BY <2>1, <2>4, GroupsAre
<1>5. \A x \in ToSet(ids) : Occurrences(ids, x) <= Occurrences(GroupsOf(u, a), x)
  <2>1. TAKE x \in ToSet(ids)
  <2>2. /\ Occurrences(ids, x) \in Nat /\ Occurrences(GroupsOf(t, a), x) \in Nat
        /\ Occurrences(GroupsOf(u, a), x) \in Nat
    BY CountedOccurrences, GroupsAre
  <2>3. Occurrences(ids, x) <= Occurrences(GroupsOf(t, a), x)
    BY <1>1, <1>3 DEF Within
  <2>4. QED
    BY <1>4, <2>2, <2>3
<1>6. QED
  BY <1>2, <1>3, <1>5 DEF Within

\* What the queries return is so to begin with.
LEMMA QueriesOk ==
  ASSUME NEW t \in TableType, NEW a \in DOMAIN t.user
  PROVE  /\ \A fs \in Query(Friends(t, a)) : FriendsOk(t, a, fs)
         /\ \A gs \in QueryGroups(t, a) : GroupsOk(t, a, gs)
<1>1. ASSUME NEW fs \in Query(Friends(t, a)) PROVE FriendsOk(t, a, fs)
  <2>1. fs = Friends(t, a) \/ fs = <<>>
    BY DEF Query
  <2>2. Friends(t, a) \in Seq(Id) /\ \A x : Occurrences(Friends(t, a), x) \in Nat
    BY FriendsAre
  <2>3. Within(Friends(t, a), Friends(t, a))
    BY <2>2 DEF Within
  <2>4. FriendsOk(t, a, Friends(t, a)) /\ FriendsOk(t, a, <<>>)
    BY <2>2, <2>3 DEF FriendsOk
  <2>5. QED
    BY <2>1, <2>4
<1>2. ASSUME NEW gs \in QueryGroups(t, a) PROVE GroupsOk(t, a, gs)
  <2>0. PICK ids \in Query(GroupsOf(t, a)) : \E lost \in SUBSET DOMAIN ids :
          gs = [i \in DOMAIN ids |->
                  [id |-> ids[i],
                   users |-> IF i \in lost THEN <<>> ELSE Members(t, ids[i])]]
    BY DEF QueryGroups
  <2>1. PICK lost \in SUBSET DOMAIN ids :
          gs = [i \in DOMAIN ids |->
                  [id |-> ids[i],
                   users |-> IF i \in lost THEN <<>> ELSE Members(t, ids[i])]]
    BY <2>0
  <2>2. GroupsOf(t, a) \in Seq(Id) /\ \A x : Occurrences(GroupsOf(t, a), x) \in Nat
    BY GroupsAre
  <2>3. ids \in Seq(Id) /\ (ids = GroupsOf(t, a) \/ ids = <<>>)
    BY <2>1, <2>2 DEF Query
  <2>4. PICK n \in Nat : n = Len(ids) /\ DOMAIN ids = 1..n
    BY <2>3
  <2>5. \A i \in 1..n : gs[i] \in GroupType /\ gs[i]["id"] = ids[i]
    <3>1. TAKE i \in 1..n
    <3>2. PICK us \in Seq(MemberType) : gs[i] = [id |-> ids[i], users |-> us]
      <4>1. <<>> \in Seq(MemberType) /\ Members(t, ids[i]) \in Seq(MemberType)
        BY MembersAre
      <4>2. QED
        BY <2>1, <2>4, <4>1
    <3>3. ids[i] \in Id
      BY <2>3, <2>4
    <3>4. QED
      BY <3>2, <3>3 DEF GroupType
  <2>6. gs \in Seq(GroupType) /\ DOMAIN gs = 1..n /\ (gs # <<>> => ids # <<>>)
    <3>1. gs = [i \in 1..n |-> gs[i]]
      BY <2>1, <2>4
    <3>2. gs \in [1..n -> GroupType]
      BY <2>5, <3>1
    <3>3. n = 0 => gs = <<>>
      BY <3>2
    <3>4. QED
      BY <2>3, <2>4, <3>2, <3>3
  <2>7. Column(gs, "id") = ids
    BY <2>3, <2>4, <2>5, <2>6 DEF Column
  <2>8. Within(GroupsOf(t, a), GroupsOf(t, a))
    BY <2>2 DEF Within
  <2>9. QED
    BY <2>3, <2>6, <2>7, <2>8 DEF GroupsOk
<1>3. QED
  BY <1>1, <1>2

-----------------------------------------------------------------------------
(* What the statements leave.                                              *)

\* One table is replaced.
LEMMA Replaced ==
  ASSUME NEW t \in TableType
  PROVE  /\ \A x \in Seq(UserRow) : \A u : u = [t EXCEPT !.user = x] =>
              /\ u \in TableType /\ u.user = x /\ u.friend = t.friend
              /\ u.allgroup = t.allgroup /\ u.groupuser = t.groupuser
         /\ \A x \in Seq(FriendRow) : \A u : u = [t EXCEPT !.friend = x] =>
              /\ u \in TableType /\ u.friend = x /\ u.user = t.user
              /\ u.allgroup = t.allgroup /\ u.groupuser = t.groupuser
         /\ \A x \in Seq(GroupName) : \A u : u = [t EXCEPT !.allgroup = x] =>
              /\ u \in TableType /\ u.allgroup = x /\ u.user = t.user
              /\ u.friend = t.friend /\ u.groupuser = t.groupuser
         /\ \A x \in Seq(GroupUserRow) : \A u : u = [t EXCEPT !.groupuser = x] =>
              /\ u \in TableType /\ u.groupuser = x /\ u.user = t.user
              /\ u.friend = t.friend /\ u.allgroup = t.allgroup
BY DEF TableType

\* Table u is table s with row x at its end.
OneRowMore(s, x, u) ==
  /\ Len(s) \in Nat /\ DOMAIN s = 1..Len(s)
  /\ Len(u) = Len(s) + 1 /\ DOMAIN u = 1..Len(s) + 1
  /\ u[Len(s) + 1] = x /\ \A i \in 1..Len(s) : u[i] = s[i]

\* An insert puts a row at the end.
LEMMA RowAdded ==
  ASSUME NEW S, NEW s \in Seq(S), NEW x \in S
  PROVE  Append(s, x) \in Seq(S) /\ OneRowMore(s, x, Append(s, x))
<1>1. PICK u : u = Append(s, x)
  OBVIOUS
<1>2. /\ u \in Seq(S) /\ Len(u) = Len(s) + 1 /\ u[Len(s) + 1] = x
      /\ \A i \in 1..Len(s) : u[i] = s[i]
  BY <1>1, AppendProperties
<1>3. Len(s) \in Nat /\ DOMAIN s = 1..Len(s) /\ DOMAIN u = 1..Len(u)
  BY <1>2
<1>4. QED
  BY <1>1, <1>2, <1>3 DEF OneRowMore

\* A statement may also fail.
LEMMA UpdateOk ==
  ASSUME NEW t, StoreOk(t), NEW u, StoreOk(u), Grows(t, u), NEW id,
         NEW o \in Update(t, u, id)
  PROVE  /\ StoreOk(o.tables) /\ Grows(t, o.tables)
         /\ \/ o.tables = u /\ o.id = id
            \/ o.tables = t /\ o.id = 0
<1>1. o = Outcome(u, id) \/ o = Outcome(t, 0)
  BY DEF Update
<1>2. \/ o.tables = u /\ o.id = id
      \/ o.tables = t /\ o.id = 0
  BY <1>1 DEF Outcome
<1>3. Grows(t, t)
  BY DEF Grows
<1>4. QED
  BY <1>2, <1>3

\* A statement that is refused leaves the tables alone.
LEMMA RefusedOk ==
  ASSUME NEW t, StoreOk(t), NEW o \in Refused(t)
  PROVE  StoreOk(o.tables) /\ Grows(t, o.tables) /\ o.tables = t /\ o.id = 0
BY DEF Refused, Outcome, Grows

\* UserModel::insert() gives the next id.
LEMMA UserInsertOk ==
  ASSUME NEW t, StoreOk(t), NEW name \in Name, NEW o \in UserInsert(t, name)
  PROVE  /\ StoreOk(o.tables) /\ Grows(t, o.tables)
         /\ (o.id = 0 \/ o.id \in DOMAIN o.tables.user)
<1>1. t \in TableType
  BY DEF StoreOk
<1>2. CASE o \in Refused(t)
  BY <1>2, RefusedOk
<1>3. CASE /\ Len(t.user) # MaxRows
           /\ o \in Update(t, [t EXCEPT !.user =
                      Append(@, [name |-> name, state |-> "offline"])], Len(t.user) + 1)
  <2>1. PICK r \in UserRow : r = [name |-> name, state |-> "offline"]
    BY DEF UserRow
  <2>2. PICK x : x = Append(t.user, r)
    OBVIOUS
  <2>3. PICK u : u = [t EXCEPT !.user = x]
    OBVIOUS
  <2>4. x \in Seq(UserRow) /\ OneRowMore(t.user, r, x)
    BY <1>1, <2>2, Tables, RowAdded
  <2>5. /\ u \in TableType /\ u.user = x /\ u.friend = t.friend
        /\ u.allgroup = t.allgroup /\ u.groupuser = t.groupuser
    BY <1>1, <2>3, <2>4, Replaced
  <2>6. StoreOk(u) /\ Grows(t, u)
    BY <1>3, <2>4, <2>5, StoreAssumption DEF StoreOk, Grows, OneRowMore
  <2>7. o \in Update(t, u, Len(t.user) + 1)
    BY <1>3, <2>1, <2>2, <2>3
  <2>8. Len(t.user) + 1 \in DOMAIN u.user
    BY <2>4, <2>5 DEF OneRowMore
  <2>9. QED
    BY <2>6, <2>7, <2>8, UpdateOk
<1>4. QED
  BY <1>2, <1>3 DEF UserInsert

\* UserModel::updateState() leaves the rows where they are.
LEMMA UpdateStateOk ==
  ASSUME NEW t, StoreOk(t), NEW id, NEW state \in {"online", "offline"},
         NEW o \in UpdateState(t, id, state)
  PROVE  StoreOk(o.tables) /\ Grows(t, o.tables)
<1>1. t \in TableType
  BY DEF StoreOk
<1>2. CASE o \in Refused(t)
  BY <1>2, RefusedOk
<1>3. CASE /\ id \in DOMAIN t.user
           /\ o \in Update(t, [t EXCEPT !.user[id].state = state], id)
  <2>1. PICK row \in UserRow : row = t.user[id]
    BY <1>1, <1>3, Tables
  <2>2. PICK r \in UserRow : r = [row EXCEPT !.state = state]
    BY DEF UserRow
  <2>3. PICK x : x = [t.user EXCEPT ![id] = r]
    OBVIOUS
  <2>4. x \in Seq(UserRow) /\ Len(x) = Len(t.user) /\ DOMAIN x = DOMAIN t.user
    BY <1>1, <1>3, <2>3, Tables
  <2>5. PICK u : u = [t EXCEPT !.user = x]
    OBVIOUS
  <2>6. /\ u \in TableType /\ u.user = x /\ u.friend = t.friend
        /\ u.allgroup = t.allgroup /\ u.groupuser = t.groupuser
    BY <1>1, <2>4, <2>5, Replaced
  <2>7. StoreOk(u) /\ Grows(t, u)
    BY <2>4, <2>6 DEF StoreOk, Grows
  <2>8. [t EXCEPT !.user[id].state = state] = u
    BY <2>1, <2>2, <2>3, <2>5, Zenon
  <2>9. QED
    BY <1>3, <2>7, <2>8, UpdateOk
<1>4. QED
  BY <1>2, <1>3 DEF UpdateState

\* FriendModel::insert() adds a row and changes none.
LEMMA FriendInsertOk ==
  ASSUME NEW t, StoreOk(t), NEW a \in Id, NEW b \in Id, NEW o \in FriendInsert(t, a, b)
  PROVE  StoreOk(o.tables) /\ Grows(t, o.tables)
<1>1. t \in TableType
  BY DEF StoreOk
<1>2. CASE o \in Refused(t)
  BY <1>2, RefusedOk
<1>3. CASE o \in Update(t, [t EXCEPT !.friend =
                           Append(@, [userid |-> a, friendid |-> b])], a)
  <2>1. PICK r \in FriendRow : r = [userid |-> a, friendid |-> b]
    BY DEF FriendRow
  <2>2. PICK x : x = Append(t.friend, r)
    OBVIOUS
  <2>3. PICK u : u = [t EXCEPT !.friend = x]
    OBVIOUS
  <2>4. x \in Seq(FriendRow) /\ OneRowMore(t.friend, r, x)
    BY <1>1, <2>2, Tables, RowAdded
  <2>5. /\ u \in TableType /\ u.friend = x /\ u.user = t.user
        /\ u.allgroup = t.allgroup /\ u.groupuser = t.groupuser
    BY <1>1, <2>3, <2>4, Replaced
  <2>6. StoreOk(u) /\ Grows(t, u)
    BY <2>4, <2>5 DEF StoreOk, Grows, OneRowMore
  <2>7. o \in Update(t, u, a)
    BY <1>3, <2>1, <2>2, <2>3
  <2>8. QED
    BY <2>6, <2>7, UpdateOk
<1>4. QED
  BY <1>2, <1>3 DEF FriendInsert

\* A group that has no creator's row
NoCreator(t, g) ==
  /\ g \in DOMAIN t.allgroup
  /\ \A i \in DOMAIN t.groupuser :
       t.groupuser[i].role = "creator" => t.groupuser[i].groupid # g

\* GroupModel::createGroup() gives an id that no creator's row has.
LEMMA CreateGroupOk ==
  ASSUME NEW t, StoreOk(t), NEW name \in GroupName, NEW o \in CreateGroup(t, name)
  PROVE  /\ StoreOk(o.tables) /\ Grows(t, o.tables)
         /\ (o.id = 0 \/ NoCreator(o.tables, o.id))
<1>1. t \in TableType
  BY DEF StoreOk
<1>2. CASE o \in Refused(t)
  BY <1>2, RefusedOk
<1>3. CASE /\ Len(t.allgroup) # MaxRows
           /\ o \in Update(t, [t EXCEPT !.allgroup = Append(@, name)], Len(t.allgroup) + 1)
  <2>1. PICK x : x = Append(t.allgroup, name)
    OBVIOUS
  <2>2. PICK u : u = [t EXCEPT !.allgroup = x]
    OBVIOUS
  <2>3. x \in Seq(GroupName) /\ OneRowMore(t.allgroup, name, x)
    BY <1>1, <2>1, Tables, RowAdded
  <2>4. /\ u \in TableType /\ u.allgroup = x /\ u.user = t.user
        /\ u.friend = t.friend /\ u.groupuser = t.groupuser
    BY <1>1, <2>2, <2>3, Replaced
  <2>5. StoreOk(u) /\ Grows(t, u)
    BY <1>3, <2>3, <2>4, StoreAssumption DEF StoreOk, Grows, OneRowMore
  <2>6. o \in Update(t, u, Len(t.allgroup) + 1)
    BY <1>3, <2>1, <2>2
  <2>7. NoCreator(u, Len(t.allgroup) + 1)
    BY <2>3, <2>4 DEF StoreOk, NoCreator, OneRowMore
  <2>8. QED
    BY <2>5, <2>6, <2>7, UpdateOk
<1>4. QED
  BY <1>2, <1>3 DEF CreateGroup

\* GroupModel::addGroup() as it is called: for a member, or for the creator of
\* a group that has none.
LEMMA AddGroupOk ==
  ASSUME NEW t, StoreOk(t), NEW a \in Id, NEW g \in Id, NEW role \in {"creator", "normal"},
         role = "creator" => NoCreator(t, g), NEW o \in AddGroup(t, a, g, role)
  PROVE  StoreOk(o.tables) /\ Grows(t, o.tables)
<1>1. t \in TableType
  BY DEF StoreOk
<1>2. CASE o \in Refused(t)
  BY <1>2, RefusedOk
<1>3. CASE o \in Update(t, [t EXCEPT !.groupuser =
                    Append(@, [groupid |-> g, userid |-> a, role |-> role])], a)
  <2>1. PICK r \in GroupUserRow : r = [groupid |-> g, userid |-> a, role |-> role]
    BY DEF GroupUserRow
  <2>2. PICK x : x = Append(t.groupuser, r)
    OBVIOUS
  <2>3. PICK u : u = [t EXCEPT !.groupuser = x]
    OBVIOUS
  <2>4. x \in Seq(GroupUserRow) /\ OneRowMore(t.groupuser, r, x)
    BY <1>1, <2>2, Tables, RowAdded
  <2>5. /\ u \in TableType /\ u.groupuser = x /\ u.user = t.user
        /\ u.friend = t.friend /\ u.allgroup = t.allgroup
    BY <1>1, <2>3, <2>4, Replaced
  <2>6. Grows(t, u)
    BY <2>4, <2>5 DEF Grows, OneRowMore
  <2>7. StoreOk(u)
    <3>1. r.groupid = g /\ r.role = role
      BY <2>1
    <3>2. PICK n \in Nat : /\ DOMAIN t.groupuser = 1..n /\ DOMAIN u.groupuser = 1..n + 1
                           /\ u.groupuser[n + 1] = r
                           /\ \A i \in 1..n : u.groupuser[i] = t.groupuser[i]
      BY <2>4, <2>5 DEF OneRowMore
    <3>3. /\ Len(t.user) <= MaxRows /\ Len(t.allgroup) <= MaxRows
          /\ \A i \in 1..n : t.groupuser[i].role = "creator" =>
               /\ t.groupuser[i].groupid \in DOMAIN t.allgroup
               /\ \A j \in 1..n :
                    /\ t.groupuser[j].role = "creator"
                    /\ t.groupuser[j].groupid = t.groupuser[i].groupid
                    => j = i
      BY <3>2 DEF StoreOk
    <3>4. CASE role = "normal"
      BY <2>5, <3>1, <3>2, <3>3, <3>4 DEF StoreOk
    <3>5. CASE role = "creator"
      <4>1. /\ g \in DOMAIN t.allgroup
            /\ \A i \in 1..n : t.groupuser[i].role = "creator" => t.groupuser[i].groupid # g
        BY <3>2, <3>5 DEF NoCreator
      <4>2. \A i \in 1..n + 1 : i \in 1..n \/ i = n + 1
        OBVIOUS
      <4>3. u.groupuser[n + 1].role = "creator" /\ u.groupuser[n + 1].groupid = g
        BY <3>1, <3>2, <3>5
      <4>4. ASSUME NEW i \in 1..n, u.groupuser[i].role = "creator"
            PROVE  /\ t.groupuser[i].role = "creator"
                   /\ u.groupuser[i].groupid = t.groupuser[i].groupid
                   /\ u.groupuser[i].groupid \in DOMAIN t.allgroup
                   /\ u.groupuser[i].groupid # g
        BY <3>2, <3>3, <4>1, <4>4
      <4>5. ASSUME NEW i \in 1..n + 1, u.groupuser[i].role = "creator"
            PROVE  u.groupuser[i].groupid \in DOMAIN t.allgroup
        BY <4>1, <4>2, <4>3, <4>4, <4>5
      <4>6. ASSUME NEW i \in 1..n + 1, u.groupuser[i].role = "creator",
                   NEW j \in 1..n + 1, u.groupuser[j].role = "creator",
                   u.groupuser[j].groupid = u.groupuser[i].groupid
            PROVE  j = i
        <5>1. CASE i \in 1..n /\ j \in 1..n
          BY <3>3, <4>4, <4>6, <5>1
        <5>2. CASE i = n + 1 \/ j = n + 1
          BY <4>2, <4>3, <4>4, <4>6, <5>2
        <5>3. QED
          BY <4>2, <5>1, <5>2
      <4>7. QED
        BY <2>5, <3>2, <3>3, <4>5, <4>6 DEF StoreOk
    <3>6. QED
      BY <3>4, <3>5
  <2>8. o \in Update(t, u, a)
    BY <1>3, <2>1, <2>2, <2>3
  <2>9. QED
    BY <2>6, <2>7, <2>8, UpdateOk
<1>4. QED
  BY <1>2, <1>3 DEF AddGroup

-----------------------------------------------------------------------------
(* The inductive invariant.                                                *)

\* What the main thread sends: an id where a handler enters one in a table
RequestOk(r) ==
  /\ r \in RequestType
  /\ r.type \in {"LOGIN_MSG", "ADD_FRIEND_MSG", "CREATE_GROUP_MSG", "ADD_GROUP_MSG"}
       => r.id \in Id
  /\ r.type \in {"ADD_FRIEND_MSG", "ADD_GROUP_MSG"} => r.arg \in Id
  /\ r.type = "CREATE_GROUP_MSG" => r.arg \in GroupName
  /\ r.type = "REG_MSG" => r.arg \in Name

\* What the server answers: lists of one account each
AnswerOk(t, m) ==
  /\ m \in AnswerType
  /\ m.type = "LOGIN_MSG_ACK" /\ m.errno = 0 => m.id \in DOMAIN t.user
  /\ FriendsOk(t, m.id, m.friends)
  /\ GroupsOk(t, m.id, m.groups)

RequestsOk(s) == s \in Seq(RequestType) /\ \A i \in DOMAIN s : RequestOk(s[i])

AnswersOk(t, s) == s \in Seq(AnswerType) /\ \A i \in DOMAIN s : AnswerOk(t, s[i])

\* What the variables but the lists and the tables hold: g_currentUser has an
\* account once a login succeeded, and in mainMenu().
ThreadsOk ==
  /\ pc \in {"menu", "login", "reg", "commands", "exited"}
  /\ rpc \in {"recv", "post"}
  /\ sem \in Nat
  /\ success \in BOOLEAN
  /\ user \in Id \union {None}
  /\ success \/ pc = "commands" => user \in DOMAIN tables.user
  /\ {friendsOf, groupsOf} \subseteq Id \union {None}
  /\ session \union elsewhere \subseteq DOMAIN tables.user
  /\ down \in BOOLEAN
  /\ StoreOk(tables)

\* A list is its account's now if it was when it was read, the tables only grow,
\* and mainMenu() runs for an account that exists.
StoreInv ==
  /\ ThreadsOk
  /\ FriendsOk(tables, friendsOf, friends)
  /\ GroupsOk(tables, groupsOf, groups)
  /\ RequestsOk(toServer)
  /\ AnswersOk(tables, toClient)

\* Rows that stay in two steps stay.
LEMMA GrowsOn ==
  ASSUME NEW t, NEW u, NEW v, Grows(t, u), Grows(u, v)
  PROVE  Grows(t, v)
BY DEF Grows

\* What is right of the tables stays right.
LEMMA AnswerStays ==
  ASSUME NEW t, StoreOk(t), NEW u, StoreOk(u), Grows(t, u), NEW m, AnswerOk(t, m)
  PROVE  AnswerOk(u, m)
<1>1. t \in TableType /\ u \in TableType
  BY DEF StoreOk
<1>2. FriendsOk(u, m.id, m.friends) /\ GroupsOk(u, m.id, m.groups)
  BY <1>1, FriendsStay, GroupsStay DEF AnswerOk
<1>3. DOMAIN t.user \subseteq DOMAIN u.user
  BY DEF Grows
<1>4. QED
  BY <1>2, <1>3 DEF AnswerOk

\* Ids of rows are ids.
LEMMA UserIds ==
  ASSUME NEW t, StoreOk(t)
  PROVE  DOMAIN t.user \subseteq Id /\ DOMAIN t.allgroup \subseteq Id
<1>1. t \in TableType /\ Len(t.user) <= MaxRows /\ Len(t.allgroup) <= MaxRows
  BY DEF StoreOk
<1>2. /\ Len(t.user) \in Nat /\ DOMAIN t.user = 1..Len(t.user)
      /\ Len(t.allgroup) \in Nat /\ DOMAIN t.allgroup = 1..Len(t.allgroup)
  BY <1>1, Tables
<1>3. QED
  BY <1>1, <1>2, StoreAssumption DEF Id

\* An answer with no lists
LEMMA PlainAnswer ==
  ASSUME NEW t, NEW type \in {"LOGIN_MSG_ACK", "REG_MSG_ACK", "CHAT"},
         NEW errno \in 0..2, NEW id \in Id \union {None},
         type = "LOGIN_MSG_ACK" => errno # 0
  PROVE  AnswerOk(t, Answer(type, errno, id))
<1>1. <<>> \in Seq(Id) /\ <<>> \in Seq(GroupType)
  OBVIOUS
<1>2. FriendsOk(t, id, <<>>) /\ GroupsOk(t, id, <<>>)
  BY <1>1 DEF FriendsOk, GroupsOk
<1>3. PICK m : m = Answer(type, errno, id)
  OBVIOUS
<1>4. /\ m.type = type /\ m.errno = errno /\ m.id = id
      /\ m.friends = <<>> /\ m.groups = <<>>
  BY <1>3 DEF Answer
<1>5. m \in AnswerType
  BY <1>1, <1>3 DEF Answer, AnswerType, GroupType, MemberType
<1>6. AnswerOk(t, m)
  BY <1>2, <1>4, <1>5 DEF AnswerOk
<1>7. QED
  BY <1>3, <1>6

\* The answer to a login that succeeds
LEMMA LoginAnswerOk ==
  ASSUME NEW t, NEW a \in DOMAIN t.user, a \in Id, NEW fs, FriendsOk(t, a, fs),
         NEW gs, GroupsOk(t, a, gs)
  PROVE  AnswerOk(t, LoginAnswer(a, fs, gs))
<1>1. fs \in Seq(Id) /\ gs \in Seq(GroupType)
  BY DEF FriendsOk, GroupsOk
<1>2. PICK m : m = LoginAnswer(a, fs, gs)
  OBVIOUS
<1>3. m = [type |-> "LOGIN_MSG_ACK", errno |-> 0, id |-> a, friends |-> fs, groups |-> gs]
  BY <1>2 DEF LoginAnswer, Answer
<1>4. m \in AnswerType
  BY <1>1, <1>3 DEF AnswerType, GroupType, MemberType
<1>5. AnswerOk(t, m)
  BY <1>3, <1>4 DEF AnswerOk
<1>6. QED
  BY <1>2, <1>5

\* What a handler may leave: good tables with the old rows, and a right answer
OutcomeOk(o) ==
  /\ StoreOk(o.tables) /\ Grows(tables, o.tables)
  /\ o.session \union o.elsewhere \subseteq DOMAIN o.tables.user
  /\ \/ o.answers = <<>>
     \/ \E m : o.answers = <<m>> /\ AnswerOk(o.tables, m)

\* A handler that answers nothing leaves what its statement does.
LEMMA SilentOk ==
  ASSUME NEW users, NEW others, users \union others \subseteq DOMAIN tables.user,
         NEW t, StoreOk(t), Grows(tables, t)
  PROVE  OutcomeOk(Handled(t, users, others, <<>>))
<1>1. users \union others \subseteq DOMAIN t.user
  BY DEF Grows
<1>2. QED
  BY <1>1 DEF Handled, OutcomeOk

\* A handler that answers.
LEMMA AnsweringOk ==
  ASSUME NEW users, NEW others, users \union others \subseteq DOMAIN tables.user,
         NEW t, StoreOk(t), Grows(tables, t), NEW m, AnswerOk(t, m)
  PROVE  OutcomeOk(Handled(t, users, others, <<m>>))
<1>1. users \union others \subseteq DOMAIN t.user
  BY DEF Grows
<1>2. QED
  BY <1>1 DEF Handled, OutcomeOk

\* login() answers with what the two queries return.
LEMMA LoginOk ==
  ASSUME StoreOk(tables), session \union elsewhere \subseteq DOMAIN tables.user, NEW a,
         NEW o \in LoginOutcomes(a)
  PROVE  OutcomeOk(o)
<1>1. tables \in TableType /\ Grows(tables, tables)
  BY DEF StoreOk, Grows
<1>2. \/ o \in {Refusal(1), Refusal(2)}
      \/ o \in Accepted(a) /\ a \in DOMAIN tables.user
  BY DEF LoginOutcomes
<1>3. ASSUME NEW e \in {1, 2}, o = Refusal(e) PROVE OutcomeOk(o)
  <2>1. AnswerOk(tables, Answer("LOGIN_MSG_ACK", e, None))
    BY PlainAnswer
  <2>2. QED
    BY <1>1, <1>3, <2>1, AnsweringOk DEF Refusal
<1>4. ASSUME o \in Accepted(a), a \in DOMAIN tables.user PROVE OutcomeOk(o)
  <2>1. PICK u \in UpdateState(tables, a, "online"), m \in LoginAnswers(a) :
          o = Handled(u.tables, session \union ({a} \ elsewhere), elsewhere, <<m>>)
    BY <1>4 DEF Accepted
  <2>2. PICK fs \in Query(Friends(tables, a)), gs \in QueryGroups(tables, a) :
          m = LoginAnswer(a, fs, gs)
    BY DEF LoginAnswers
  <2>3. FriendsOk(tables, a, fs) /\ GroupsOk(tables, a, gs)
    BY <1>1, <1>4, QueriesOk
  <2>4. a \in Id
    BY <1>4, UserIds
  <2>5. AnswerOk(tables, m)
    BY <1>4, <2>2, <2>3, <2>4, LoginAnswerOk
  <2>6. StoreOk(u.tables) /\ Grows(tables, u.tables)
    BY UpdateStateOk
  <2>7. AnswerOk(u.tables, m)
    BY <2>5, <2>6, AnswerStays
  <2>8. (session \union ({a} \ elsewhere)) \union elsewhere \subseteq DOMAIN tables.user
    BY <1>4
  <2>9. QED
    BY <2>1, <2>6, <2>7, <2>8, AnsweringOk
<1>5. QED
  BY <1>2, <1>3, <1>4

\* reg() answers with the new id.
LEMMA RegOk ==
  ASSUME StoreOk(tables), session \union elsewhere \subseteq DOMAIN tables.user, NEW name \in Name,
         NEW o \in RegOutcomes(name)
  PROVE  OutcomeOk(o)
<1>1. PICK u \in UserInsert(tables, name) :
        o = Handled(u.tables, session, elsewhere,
                    <<IF u.id = 0 THEN Answer("REG_MSG_ACK", 1, None)
                      ELSE Answer("REG_MSG_ACK", 0, u.id)>>)
  BY DEF RegOutcomes
<1>2. /\ StoreOk(u.tables) /\ Grows(tables, u.tables)
      /\ (u.id = 0 \/ u.id \in DOMAIN u.tables.user)
  BY UserInsertOk
<1>3. u.id = 0 \/ u.id \in Id
  BY <1>2, UserIds
<1>4. PICK m : m = IF u.id = 0 THEN Answer("REG_MSG_ACK", 1, None)
                   ELSE Answer("REG_MSG_ACK", 0, u.id)
  OBVIOUS
<1>5. AnswerOk(u.tables, m)
  BY <1>3, <1>4, PlainAnswer
<1>6. o = Handled(u.tables, session, elsewhere, <<m>>)
  BY <1>1, <1>4
<1>7. QED
  BY <1>2, <1>5, <1>6, AnsweringOk

\* creatGroup() gives a new group its creator, or leaves it without one.
LEMMA CreatGroupOk ==
  ASSUME StoreOk(tables), session \union elsewhere \subseteq DOMAIN tables.user, NEW a \in Id,
         NEW name \in GroupName, NEW o \in CreatGroup(a, name)
  PROVE  OutcomeOk(o)
<1>1. PICK u \in UNION {IF x.id = 0 THEN {x} ELSE AddGroup(x.tables, a, x.id, "creator") :
                          x \in CreateGroup(tables, name)} :
        o = Handled(u.tables, session, elsewhere, <<>>)
  BY DEF CreatGroup, Silent
<1>2. PICK x \in CreateGroup(tables, name) :
        u \in IF x.id = 0 THEN {x} ELSE AddGroup(x.tables, a, x.id, "creator")
  BY <1>1
<1>3. /\ StoreOk(x.tables) /\ Grows(tables, x.tables)
      /\ (x.id = 0 \/ NoCreator(x.tables, x.id))
  BY CreateGroupOk
<1>4. StoreOk(u.tables) /\ Grows(tables, u.tables)
  <2>1. CASE x.id = 0
    BY <1>2, <1>3, <2>1
  <2>2. CASE x.id # 0
    <3>1. NoCreator(x.tables, x.id) /\ x.id \in Id
      BY <1>3, <2>2, UserIds DEF NoCreator
    <3>2. StoreOk(u.tables) /\ Grows(x.tables, u.tables)
      BY <1>2, <1>3, <2>2, <3>1, AddGroupOk
    <3>3. QED
      BY <1>3, <3>2, GrowsOn
  <2>3. QED
    BY <2>1, <2>2
<1>5. QED
  BY <1>1, <1>4, SilentOk

\* Every handler leaves what is right.
LEMMA HandlersOk ==
  ASSUME StoreOk(tables), session \union elsewhere \subseteq DOMAIN tables.user, NEW r, RequestOk(r),
         NEW o \in Outcomes(r)
  PROVE  OutcomeOk(o)
<1>1. /\ r.type \in {"LOGIN_MSG", "REG_MSG", "LOGINOUT_MSG"} \union Commands
      /\ tables \in TableType /\ Grows(tables, tables)
  BY DEF RequestOk, RequestType, StoreOk, Grows
<1>2. CASE r.type = "LOGIN_MSG"
  <2>1. o \in LoginOutcomes(r.id)
    BY <1>2 DEF Outcomes
  <2>2. QED
    BY <2>1, LoginOk
<1>3. CASE r.type = "REG_MSG"
  <2>1. o \in RegOutcomes(r.arg) /\ r.arg \in Name
    BY <1>3 DEF Outcomes, RequestOk
  <2>2. QED
    BY <2>1, RegOk
<1>4. CASE r.type = "LOGINOUT_MSG"
  <2>1. o \in LoginoutOutcomes(r.id)
    BY <1>4 DEF Outcomes
  <2>2. PICK u \in UpdateState(tables, r.id, "offline") :
          o = Handled(u.tables, session \ {r.id}, elsewhere \ {r.id}, <<>>)
    BY <2>1 DEF LoginoutOutcomes
  <2>3. StoreOk(u.tables) /\ Grows(tables, u.tables)
    BY UpdateStateOk
  <2>4. QED
    BY <2>2, <2>3, SilentOk
<1>5. CASE r.type = "ADD_FRIEND_MSG"
  <2>1. o \in Silent(FriendInsert(tables, r.id, r.arg))
    BY <1>5 DEF Outcomes
  <2>2. PICK u \in FriendInsert(tables, r.id, r.arg) : o = Handled(u.tables, session, elsewhere, <<>>)
    BY <2>1 DEF Silent
  <2>3. StoreOk(u.tables) /\ Grows(tables, u.tables)
    BY <1>5, FriendInsertOk DEF RequestOk
  <2>4. QED
    BY <2>2, <2>3, SilentOk
<1>6. CASE r.type = "CREATE_GROUP_MSG"
  <2>1. o \in CreatGroup(r.id, r.arg) /\ r.id \in Id /\ r.arg \in GroupName
    BY <1>6 DEF Outcomes, RequestOk
  <2>2. QED
    BY <2>1, CreatGroupOk
<1>7. CASE r.type = "ADD_GROUP_MSG"
  <2>1. o \in Silent(AddGroup(tables, r.id, r.arg, "normal"))
    BY <1>7 DEF Outcomes
  <2>2. PICK u \in AddGroup(tables, r.id, r.arg, "normal") : o = Handled(u.tables, session, elsewhere, <<>>)
    BY <2>1 DEF Silent
  <2>3. r.id \in Id /\ r.arg \in Id
    BY <1>7 DEF RequestOk
  <2>4. StoreOk(u.tables) /\ Grows(tables, u.tables)
    BY <2>2, <2>3, AddGroupOk
  <2>5. QED
    BY <2>2, <2>4, SilentOk
<1>8. CASE r.type = "CHAT_MSG"
  <2>1. o = Handled(tables, session, elsewhere, <<>>)
    BY <1>8 DEF Outcomes
  <2>2. QED
    BY <1>1, <2>1, SilentOk
<1>9. QED
  BY <1>1, <1>2, <1>3, <1>4, <1>5, <1>6, <1>7, <1>8 DEF Commands

-----------------------------------------------------------------------------
(* The steps.                                                              *)

\* What is left of a stream after some reads
LEMMA StreamRest ==
  ASSUME NEW S, NEW s \in Seq(S), NEW n \in 1..Len(s)
  PROVE  /\ SubSeq(s, n + 1, Len(s)) \in Seq(S)
         /\ \A i \in DOMAIN SubSeq(s, n + 1, Len(s)) :
              /\ n + i \in DOMAIN s
              /\ SubSeq(s, n + 1, Len(s))[i] = s[n + i]
<1>1. /\ Len(s) \in Nat /\ DOMAIN s = 1..Len(s)
      /\ \A i \in 1..Len(s) : s[i] \in S
  OBVIOUS
<1>2. Len(s) - n \in Nat
  BY <1>1
<1>3. PICK k : k = Len(s) - n
  OBVIOUS
<1>4. SubSeq(s, n + 1, Len(s)) = [i \in 1..k |-> s[n + i]]
  BY <1>1, <1>2, <1>3
<1>5. \A i \in 1..k : n + i \in 1..Len(s)
  BY <1>1, <1>2, <1>3
<1>6. QED
  BY <1>1, <1>2, <1>3, <1>4, <1>5

\* A reader finds at least one message.
LEMMA SomeRead ==
  ASSUME NEW S, NEW s \in Seq(S), NEW n \in Reads(s)
  PROVE  n \in 1..Len(s) /\ Head(s) = s[1] /\ 1 \in DOMAIN s
<1>1. n \in 1..Len(s)
  BY DEF Reads
<1>2. QED
  BY <1>1

\* The main thread sends a request the server can handle.
LEMMA SentOk ==
  ASSUME RequestsOk(toServer), NEW r, RequestOk(r), Send(r)
  PROVE  RequestsOk(toServer')
<1>1. CASE toServer' = toServer
  BY <1>1
<1>2. CASE toServer' = Append(toServer, r)
  <2>1. toServer \in Seq(RequestType) /\ r \in RequestType
    BY DEF RequestsOk, RequestOk
  <2>2. toServer' \in Seq(RequestType) /\ OneRowMore(toServer, r, toServer')
    BY <1>2, <2>1, RowAdded
  <2>3. QED
    BY <2>2 DEF RequestsOk, OneRowMore
<1>3. QED
  BY <1>1, <1>2 DEF Send

\* One more right answer is under way.
LEMMA OneAnswerMore ==
  ASSUME NEW t, NEW s, AnswersOk(t, s), NEW m, AnswerOk(t, m)
  PROVE  AnswersOk(t, Append(s, m)) /\ s \o <<m>> = Append(s, m)
<1>1. s \in Seq(AnswerType) /\ m \in AnswerType
  BY DEF AnswersOk, AnswerOk
<1>2. PICK u : u = Append(s, m)
  OBVIOUS
<1>3. u \in Seq(AnswerType) /\ OneRowMore(s, m, u)
  BY <1>1, <1>2, RowAdded
<1>4. AnswersOk(t, u)
  BY <1>3 DEF AnswersOk, OneRowMore
<1>5. s \o <<m>> = Append(s, m)
  BY <1>1
<1>6. QED
  BY <1>2, <1>4, <1>5

\* A request of the user or of g_currentUser
LEMMA RequestsAreOk ==
  /\ \A a \in Id : /\ RequestOk(Request("LOGIN_MSG", a, None))
                   /\ RequestOk(Request("LOGINOUT_MSG", a, None))
                   /\ RequestOk(Request("CHAT_MSG", a, None))
  /\ \A n \in Name : RequestOk(Request("REG_MSG", None, n))
  /\ \A a \in Id, n \in GroupName : RequestOk(Request("CREATE_GROUP_MSG", a, n))
  /\ \A a, i \in Id : /\ RequestOk(Request("ADD_FRIEND_MSG", a, i))
                      /\ RequestOk(Request("ADD_GROUP_MSG", a, i))
<1>1. ASSUME NEW type \in {"LOGIN_MSG", "REG_MSG", "LOGINOUT_MSG"} \union Commands,
             NEW id \in Id \union {None}, NEW arg \in Id \union Name \union GroupName \union {None}
      PROVE  /\ Request(type, id, arg) \in RequestType
             /\ Request(type, id, arg).type = type
             /\ Request(type, id, arg).id = id /\ Request(type, id, arg).arg = arg
  BY DEF Request, RequestType
<1>2. QED
  BY <1>1 DEF RequestOk, Commands

\* Commands are sent for g_currentUser, who has an id.
LEMMA UserSends ==
  ASSUME ThreadsOk, pc = "commands"
  PROVE  user \in Id
BY UserIds DEF ThreadsOk

\* What a step that reads no answer and leaves the tables keeps.
LEMMA Untouched ==
  ASSUME StoreInv, UNCHANGED <<user, listVars, toClient, session, elsewhere, tables>>
  PROVE  /\ FriendsOk(tables, friendsOf, friends)' /\ GroupsOk(tables, groupsOf, groups)'
         /\ AnswersOk(tables, toClient)'
         /\ RequestsOk(toServer)
         /\ ThreadsOk
         /\ session' \union elsewhere' \subseteq DOMAIN tables'.user /\ StoreOk(tables)'
         /\ {user, friendsOf, groupsOf}' \subseteq Id \union {None}
BY DEF StoreInv, ThreadsOk, listVars

\* The steps of the main thread
LEMMA MainStep ==
  ASSUME StoreInv,
         \/ \E a \in Id : Login(a)
         \/ \E n \in Name : Register(n)
         \/ \E n \in GroupName : Command("CREATE_GROUP_MSG", n)
         \/ \E i \in Id, t \in {"ADD_FRIEND_MSG", "ADD_GROUP_MSG"} : Command(t, i)
         \/ Command("CHAT_MSG", None)
         \/ CommandThrows \/ SemWait \/ Loginout \/ Quit
  PROVE  StoreInv'
<1>1. ThreadsOk /\ RequestsOk(toServer)
  BY DEF StoreInv
<1>2. UNCHANGED <<user, listVars, toClient, session, elsewhere, tables, rpc, down>>
  BY DEF Login, Register, Command, CommandThrows, SemWait, Loginout, Quit,
         mainVars, readerVars, serverVars
<1>3. RequestsOk(toServer)'
  <2>1. \/ UNCHANGED toServer
        \/ \E r : RequestOk(r) /\ Send(r)
    <3>1. ASSUME NEW a \in Id, Login(a) PROVE \E r : RequestOk(r) /\ Send(r)
      BY <3>1, RequestsAreOk DEF Login
    <3>2. ASSUME NEW n \in Name, Register(n) PROVE \E r : RequestOk(r) /\ Send(r)
      BY <3>2, RequestsAreOk DEF Register
    <3>3. ASSUME NEW n \in GroupName, Command("CREATE_GROUP_MSG", n)
          PROVE  \E r : RequestOk(r) /\ Send(r)
      BY <1>1, <3>3, RequestsAreOk, UserSends DEF Command
    <3>4. ASSUME NEW i \in Id, NEW t \in {"ADD_FRIEND_MSG", "ADD_GROUP_MSG"}, Command(t, i)
          PROVE  \E r : RequestOk(r) /\ Send(r)
      <4>1. user \in Id /\ Send(Request(t, user, i))
        BY <1>1, <3>4, UserSends DEF Command
      <4>2. RequestOk(Request(t, user, i))
        BY <4>1, RequestsAreOk
      <4>3. QED
        BY <4>1, <4>2
    <3>5. CASE Command("CHAT_MSG", None)
      BY <1>1, <3>5, RequestsAreOk, UserSends DEF Command
    <3>6. CASE Loginout
      BY <1>1, <3>6, RequestsAreOk, UserSends DEF Loginout
    <3>7. CASE CommandThrows \/ SemWait \/ Quit
      BY <3>7 DEF CommandThrows, SemWait, Quit
    <3>8. QED
      BY <3>1, <3>2, <3>3, <3>4, <3>5, <3>6, <3>7
  <2>2. QED
    BY <1>1, <2>1, SentOk
<1>4. /\ pc' \in {"menu", "login", "reg", "commands", "exited"}
      /\ sem' \in Nat /\ success' \in BOOLEAN
      /\ success' => success
      /\ pc' = "commands" => pc = "commands" \/ success
  <2>1. /\ pc \in {"menu", "login", "reg", "commands", "exited"}
        /\ sem \in Nat /\ success \in BOOLEAN
    BY <1>1 DEF ThreadsOk
  <2>2. CASE SemWait
    BY <2>1, <2>2 DEF SemWait
  <2>3. CASE CommandThrows \/ Loginout \/ Quit
    BY <2>1, <2>3 DEF CommandThrows, Loginout, Quit
  <2>4. ASSUME NEW a, Login(a) \/ Register(a)
        PROVE  /\ pc' \in {"login", "reg"} /\ sem' = sem /\ success' \in {FALSE, success}
    BY <2>4 DEF Login, Register
  <2>5. ASSUME NEW type, NEW arg, Command(type, arg) PROVE UNCHANGED <<pc, sem, success>>
    BY <2>5 DEF Command, mainVars
  <2>6. QED
    BY <2>1, <2>2, <2>3, <2>4, <2>5
<1>5. ThreadsOk'
  BY <1>1, <1>2, <1>4, Untouched DEF ThreadsOk
<1>6. QED
  BY <1>2, <1>3, <1>5, Untouched DEF StoreInv

\* The steps of the reading thread
LEMMA ReadingStep ==
  ASSUME StoreInv, ReaderStep
  PROVE  StoreInv'
<1>1. /\ ThreadsOk /\ RequestsOk(toServer) /\ AnswersOk(tables, toClient)
      /\ FriendsOk(tables, friendsOf, friends) /\ GroupsOk(tables, groupsOf, groups)
  BY DEF StoreInv
<1>2. CASE RecvEnd \/ SemPost
  <2>1. /\ UNCHANGED <<user, listVars, toClient, session, elsewhere, tables, toServer, down, success>>
        /\ pc' \in {pc, "exited"} /\ rpc' \in {rpc, "recv"} /\ sem' \in {sem, sem + 1}
    BY <1>2 DEF RecvEnd, SemPost, readerVars, serverVars
  <2>2. ThreadsOk'
    BY <1>1, <2>1, Untouched DEF ThreadsOk
  <2>3. RequestsOk(toServer)'
    BY <1>1, <2>1
  <2>4. QED
    BY <2>1, <2>2, <2>3, Untouched DEF StoreInv
<1>3. CASE Recv
  <2>1. UNCHANGED <<sem, toServer, session, elsewhere, tables, down>>
    BY <1>3 DEF Recv
  <2>2. PICK n \in Reads(toClient) :
          /\ toClient' = SubSeq(toClient, n + 1, Len(toClient))
          /\ \/ Handle(Head(toClient))
             \/ Terminate
    BY <1>3 DEF Recv
  <2>3. toClient \in Seq(AnswerType) /\ \A i \in DOMAIN toClient : AnswerOk(tables, toClient[i])
    BY <1>1 DEF AnswersOk
  <2>4. n \in 1..Len(toClient) /\ Head(toClient) = toClient[1] /\ 1 \in DOMAIN toClient
    BY <2>3, SomeRead
  <2>5. AnswersOk(tables, toClient')
    BY <2>2, <2>3, <2>4, StreamRest DEF AnswersOk
  <2>6. PICK m : m = toClient[1] /\ AnswerOk(tables, m)
    BY <2>3, <2>4
  <2>7. /\ FriendsOk(tables, m.id, m.friends) /\ GroupsOk(tables, m.id, m.groups)
        /\ (m.type = "LOGIN_MSG_ACK" /\ m.errno = 0 => m.id \in DOMAIN tables.user)
    BY <2>6 DEF AnswerOk
  <2>8. /\ pc' \in {pc, "exited"} /\ rpc' \in {rpc, "recv", "post"}
        /\ \/ UNCHANGED <<success, user, listVars>>
           \/ success' = FALSE /\ UNCHANGED <<user, listVars>>
           \/ /\ success' = TRUE /\ user' = m.id /\ m.id \in DOMAIN tables.user
              /\ \/ friends' = friends /\ friendsOf' = friendsOf
                 \/ friends' = m.friends /\ friendsOf' = m.id
              /\ \/ groups' = groups /\ groupsOf' = groupsOf
                 \/ groups' = m.groups /\ groupsOf' = m.id
    <3>1. CASE Terminate
      BY <3>1 DEF Terminate, readerVars
    <3>2. CASE Handle(m)
      BY <2>7, <3>2 DEF Handle, DoLoginResponse, ListsAnswered
    <3>3. QED
      BY <2>2, <2>4, <2>6, <3>1, <3>2
  <2>9. FriendsOk(tables, friendsOf', friends') /\ GroupsOk(tables, groupsOf', groups')
    BY <1>1, <2>7, <2>8 DEF listVars
  <2>10. DOMAIN tables.user \subseteq Id
    BY <1>1, UserIds DEF ThreadsOk
  <2>11. ThreadsOk'
    <3>0. {friendsOf, groupsOf}' \subseteq Id \union {None}
      BY <1>1, <2>8, <2>10 DEF ThreadsOk, listVars
    <3>1. CASE UNCHANGED <<success, user>>
      BY <1>1, <2>1, <2>8, <3>0, <3>1 DEF ThreadsOk
    <3>2. CASE success' = FALSE /\ UNCHANGED user
      BY <1>1, <2>1, <2>8, <3>0, <3>2 DEF ThreadsOk
    <3>3. CASE success' = TRUE /\ user' \in DOMAIN tables.user
      BY <1>1, <2>1, <2>8, <2>10, <3>0, <3>3 DEF ThreadsOk
    <3>4. QED
      BY <2>8, <3>1, <3>2, <3>3
  <2>12. QED
    BY <1>1, <2>1, <2>5, <2>9, <2>11 DEF StoreInv
<1>4. QED
  BY <1>2, <1>3 DEF ReaderStep

\* The steps of the server
LEMMA ServingStep ==
  ASSUME StoreInv, OnMessage \/ Push \/ ServerGoes
  PROVE  StoreInv'
<1>1. /\ ThreadsOk /\ RequestsOk(toServer) /\ AnswersOk(tables, toClient)
      /\ FriendsOk(tables, friendsOf, friends) /\ GroupsOk(tables, groupsOf, groups)
      /\ StoreOk(tables) /\ session \union elsewhere \subseteq DOMAIN tables.user
  BY DEF StoreInv, ThreadsOk
<1>2. CASE OnMessage
  <2>1. UNCHANGED <<pc, sem, success, rpc, user, friends, groups, friendsOf, groupsOf, down>>
    BY <1>2 DEF OnMessage, mainVars, readerVars, listVars
  <2>2. PICK n \in Reads(toServer) : toServer' = SubSeq(toServer, n + 1, Len(toServer))
    BY <1>2 DEF OnMessage
  <2>3. toServer \in Seq(RequestType) /\ \A i \in DOMAIN toServer : RequestOk(toServer[i])
    BY <1>1 DEF RequestsOk
  <2>4. n \in 1..Len(toServer) /\ Head(toServer) = toServer[1] /\ 1 \in DOMAIN toServer
    BY <2>3, SomeRead
  <2>5. RequestsOk(toServer')
    BY <2>2, <2>3, <2>4, StreamRest DEF RequestsOk
  <2>6. PICK o \in Outcomes(toServer[1]) :
          /\ session' = o.session /\ elsewhere' = o.elsewhere
          /\ tables' = o.tables /\ toClient' = toClient \o o.answers
    BY <1>2, <2>4 DEF OnMessage
  <2>7. OutcomeOk(o)
    BY <1>1, <2>3, <2>4, HandlersOk
  <2>8. /\ StoreOk(tables') /\ Grows(tables, tables')
        /\ session' \union elsewhere' \subseteq DOMAIN tables'.user
    BY <2>6, <2>7 DEF OutcomeOk
  <2>9. tables \in TableType /\ tables' \in TableType
    BY <1>1, <2>8 DEF StoreOk
  <2>10. FriendsOk(tables', friendsOf', friends') /\ GroupsOk(tables', groupsOf', groups')
    BY <1>1, <2>1, <2>8, <2>9, FriendsStay, GroupsStay
  <2>11. AnswersOk(tables', toClient)
    BY <1>1, <2>8, AnswerStays DEF AnswersOk
  <2>12. AnswersOk(tables', toClient')
    <3>1. CASE o.answers = <<>>
      <4>1. toClient' = toClient
        BY <2>6, <2>11, <3>1 DEF AnswersOk
      <4>2. QED
        BY <2>11, <4>1
    <3>2. CASE \E m : o.answers = <<m>> /\ AnswerOk(o.tables, m)
      <4>1. PICK m : o.answers = <<m>> /\ AnswerOk(tables', m)
        BY <2>6, <3>2
      <4>2. AnswersOk(tables', Append(toClient, m)) /\ toClient \o <<m>> = Append(toClient, m)
        BY <2>11, <4>1, OneAnswerMore
      <4>3. QED
        BY <2>6, <4>1, <4>2
    <3>3. QED
      BY <2>7, <3>1, <3>2 DEF OutcomeOk
  <2>13. ThreadsOk'
    BY <1>1, <2>1, <2>8 DEF ThreadsOk, Grows
  <2>14. QED
    BY <2>5, <2>10, <2>12, <2>13 DEF StoreInv
<1>3. CASE Push
  <2>1. UNCHANGED <<pc, sem, success, rpc, user, friends, groups, friendsOf, groupsOf, down,
                    toServer, session, elsewhere, tables>>
    BY <1>3 DEF Push, mainVars, readerVars, listVars
  <2>2. AnswerOk(tables, Answer("CHAT", 0, None))
    BY PlainAnswer
  <2>3. AnswersOk(tables, toClient')
    BY <1>1, <1>3, <2>2, OneAnswerMore DEF Push
  <2>4. ThreadsOk'
    BY <1>1, <2>1 DEF ThreadsOk
  <2>5. QED
    BY <1>1, <2>1, <2>3, <2>4 DEF StoreInv
<1>4. CASE ServerGoes
  <2>1. /\ UNCHANGED <<pc, sem, success, rpc, user, friends, groups, friendsOf, groupsOf,
                       toClient, session, elsewhere, tables>>
        /\ down' = TRUE /\ toServer' = <<>>
    BY <1>4 DEF ServerGoes, mainVars, readerVars, listVars
  <2>2. RequestsOk(<<>>)
    BY DEF RequestsOk
  <2>3. ThreadsOk'
    BY <1>1, <2>1 DEF ThreadsOk
  <2>4. QED
    BY <1>1, <2>1, <2>2, <2>3 DEF StoreInv
<1>5. QED
  BY <1>2, <1>3, <1>4

\* Nothing happens.
LEMMA Unchanged ==
  ASSUME StoreInv, UNCHANGED vars
  PROVE  StoreInv'
<1>1. UNCHANGED <<pc, rpc, sem, success, user, friends, groups, friendsOf, groupsOf,
                  toServer, toClient, session, elsewhere, tables, down>>
  BY DEF vars
<1>2. ThreadsOk'
  BY <1>1 DEF StoreInv, ThreadsOk
<1>3. QED
  BY <1>1, <1>2 DEF StoreInv

\* The tables the client finds are right.
LEMMA StoreInit ==
  ASSUME Init
  PROVE  StoreInv
<1>0. tables \in StartTables
  BY DEF Init
<1>1. PICK n \in 1..Min({MaxRows, Cardinality(Name)}), st \in [Id -> {"online", "offline"}] :
        tables = [user |-> [i \in 1..n |-> [name |-> SetToSeq(Name)[i], state |-> st[i]]],
                  friend |-> <<>>, allgroup |-> <<>>, groupuser |-> <<>>]
  BY <1>0 DEF StartTables
<1>2. /\ Cardinality(Name) \in Nat /\ MaxRows \in Nat
      /\ SetToSeq(Name) \in [1..Cardinality(Name) -> Name]
  BY StoreAssumption, Listed, Fun_BijectionProperties
<1>3. n \in Nat /\ n <= MaxRows /\ n <= Cardinality(Name)
  <2>1. PICK k : k = Min({MaxRows, Cardinality(Name)})
    OBVIOUS
  <2>2. \E x \in {MaxRows, Cardinality(Name)} : \A y \in {MaxRows, Cardinality(Name)} : x <= y
    BY <1>2
  <2>3. k \in {MaxRows, Cardinality(Name)} /\ k <= MaxRows /\ k <= Cardinality(Name)
    BY <2>1, <2>2 DEF Min
  <2>4. QED
    BY <1>1, <1>2, <2>1, <2>3
<1>4. ASSUME NEW i \in 1..n
      PROVE  [name |-> SetToSeq(Name)[i], state |-> st[i]] \in UserRow
  <2>1. i \in 1..Cardinality(Name) /\ i \in Id
    BY <1>2, <1>3 DEF Id
  <2>2. QED
    BY <1>1, <1>2, <2>1 DEF UserRow
<1>5. PICK us : us = [i \in 1..n |-> [name |-> SetToSeq(Name)[i], state |-> st[i]]]
  OBVIOUS
<1>6. us \in Seq(UserRow) /\ Len(us) = n
  BY <1>3, <1>4, <1>5
<1>7. tables = [user |-> us, friend |-> <<>>, allgroup |-> <<>>, groupuser |-> <<>>]
  BY <1>1, <1>5
<1>8. StoreOk(tables)
  <2>1. tables \in TableType
    BY <1>6, <1>7 DEF TableType
  <2>2. QED
    BY <1>2, <1>3, <1>6, <1>7, <2>1 DEF StoreOk
<1>9. ThreadsOk
  BY <1>8 DEF Init, ThreadsOk
<1>10. /\ FriendsOk(tables, friendsOf, friends) /\ GroupsOk(tables, groupsOf, groups)
       /\ RequestsOk(toServer) /\ AnswersOk(tables, toClient)
  BY DEF Init, FriendsOk, GroupsOk, RequestsOk, AnswersOk
<1>11. QED
  BY <1>9, <1>10 DEF StoreInv

\* The invariant types the variables.
LEMMA TypesOk ==
  ASSUME StoreInv
  PROVE  TypeOK
<1>1. tables \in TableType
  BY DEF StoreInv, ThreadsOk, StoreOk
<1>2. QED
  BY <1>1 DEF StoreInv, ThreadsOk, RequestsOk, AnswersOk, TypeOK

\* StoreIsShown of any client, also of one whose reads return several messages
\* and whose server's statements fail (FriendModel, GroupModel, UserModel,
\* creatGroup(), doLoginResponse()): a group has at most the one creator that
\* createGroup() gave it, and each list shown holds rows of the account whose
\* answer filled that list last, none of them twice.  Friends and groups may be
\* of different accounts (friendsOf, groupsOf).
THEOREM StoreStaysShown == Spec => []StoreIsShown
<1>1. Init => StoreInv
  BY StoreInit
<1>2. StoreInv /\ [Next]_vars => StoreInv'
  <2>1. SUFFICES ASSUME StoreInv, [Next]_vars PROVE StoreInv'
    OBVIOUS
  <2>2. CASE UNCHANGED vars
    BY <2>1, <2>2, Unchanged
  <2>3. QED
    BY <2>1, <2>2, MainStep, ReadingStep, ServingStep DEF Next
<1>3. StoreInv => StoreIsShown
  <2>0. ASSUME StoreInv PROVE TypeOK
    BY <2>0, TypesOk
  <2>1. ASSUME StoreInv PROVE EachListOfItsAccount
    BY <2>1 DEF StoreInv, FriendsOk, GroupsOk, EachListOfItsAccount
  <2>2. ASSUME StoreInv PROVE OneCreator
    BY <2>2 DEF StoreInv, ThreadsOk, StoreOk, OneCreator
  <2>3. QED
    BY <2>0, <2>1, <2>2 DEF StoreIsShown
<1>4. QED
  BY <1>1, <1>2, <1>3, PTL DEF Spec
=============================================================================
