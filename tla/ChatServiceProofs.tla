-------------------------- MODULE ChatServiceProofs -------------------------
(***************************************************************************)
(* Theorems about ChatService, for any number of servers, connections,     *)
(* accounts and messages: what a server's _userConnMap holds whatever its  *)
(* clients ask for and whenever servers end, that the map, the             *)
(* subscriptions and the rows agree, and that no client gets a message     *)
(* twice.                                                                  *)
(***************************************************************************)
EXTENDS ChatService, SequenceTheorems, TLAPS

-----------------------------------------------------------------------------
(* The inductive invariants.                                               *)

\* Where the handler of a connection is that login() has put into the map,
\* and of one that is between two requests or in a chat handler.
Inserted == {"l_subscribe", "l_online", "l_read", "l_remove", "l_ack"}
Serving == {"idle"} \union ChatPcs

\* What a handler is about is known where it is used, and the client's account
\* is the one its login() is for.
HandlerOk(c) ==
  /\ h[c].pc \in LoginPcs \union LeavePcs
                   \union {"c_query", "c_publish", "c_store"}
       => h[c].user \in User
  /\ h[c].pc \in ChatPcs => h[c].msg \in Msg
  /\ h[c].pc \in LoginPcs /\ open[c] => acct[c] = h[c].user
  /\ c \in acked => open[c] /\ acct[c] \in User /\ h[c].pc \in Serving

\* Where every login ends before the next one of its connection, a connection
\* that has entry u of server s is there with a reason to have it, and as long
\* as the client is there loginout() will know it.
EntryOk(c) ==
  ~Relogin => \A s \in Server, u \in User : map[s][u] = c =>
    /\ SrvOf[c] = s
    /\ \/ h[c].pc \in Inserted \union {"o_erase"} /\ h[c].user = u
       \/ h[c].pc \in Serving /\ (open[c] => acct[c] = u)
    /\ \A v \in User : map[s][v] = c => v = u

HandlerInv == \A c \in Conn : HandlerOk(c)
EntryInv == \A c \in Conn : EntryOk(c)

\* In any case an entry is under an account that was entered for its connection
\* and not erased, and when the connection closes it had another one.
Closing == {"d_unsubscribe", "d_offline", "closed"}

NameOk(c) ==
  \A s \in Server, u \in User : map[s][u] = c =>
    /\ SrvOf[c] = s /\ u \in names[c] /\ h[c].pc # "new"
    /\ h[c].pc \in Closing => \E v \in names[c] \ {u} : map[s][v] # c

NameInv == \A c \in Conn : NameOk(c)

MapInv == TypeOK /\ HandlerInv /\ EntryInv /\ NameInv

\* Connection c has account u, or is on its way into it or out of it.
Holds(c, u) ==
  \/ h[c].pc \in (LoginPcs \ {"l_query"}) \union LeavePcs /\ h[c].user = u
  \/ h[c].pc \in Serving /\ map[SrvOf[c]][u] = c

\* One connection at most holds an account, and the row in table user says so
\* from updateState(online) to updateState(offline).
HolderInv ==
  \A u \in User, c \in Conn : Holds(c, u) =>
    /\ \A d \in Conn : Holds(d, u) => c = d
    /\ h[c].pc \in {"l_insert", "l_subscribe", "l_online"} \/ db[u] = "online"

\* One login() is under way for an account, and a session is in the map.
SessionInv ==
  /\ \A c, d \in Conn :
       h[c].pc \in LoginPcs /\ h[d].pc \in LoginPcs /\ h[c].user = h[d].user
         => c = d
  /\ \A c \in Conn : h[c].pc \in Inserted \union {"o_erase"}
                       => map[SrvOf[c]][h[c].user] = c
  /\ \A c \in acked : map[SrvOf[c]][acct[c]] = c

AccountInv == MapInv /\ HolderInv /\ SessionInv

-----------------------------------------------------------------------------
(* Handlers.                                                               *)

Pcs == {"new", "idle", "closed"} \union LoginPcs \union LeavePcs \union ChatPcs

\* A handler's record in full.
Full(p, u, t, m, l, v) ==
  [pc |-> p, user |-> u, to |-> t, msg |-> m, locked |-> l, vec |-> v]

\* The fields of a record in full, and its type.
LEMMA Fields ==
  ASSUME NEW p, NEW u, NEW t, NEW m, NEW l, NEW v
  PROVE  /\ Full(p, u, t, m, l, v).pc = p /\ Full(p, u, t, m, l, v).user = u
         /\ Full(p, u, t, m, l, v).to = t /\ Full(p, u, t, m, l, v).msg = m
         /\ Full(p, u, t, m, l, v).vec = v
         /\ p \in Pcs /\ u \in User \union {None} /\ t \in SUBSET User
            /\ m \in Msg \union {None} /\ l \in BOOLEAN /\ v \in Seq(Msg)
              => Full(p, u, t, m, l, v) \in HandlerType
BY DEF Full, HandlerType, Pcs

\* Every handler is such a record.
LEMMA IsFull ==
  ASSUME NEW k \in HandlerType
  PROVE  \E p \in Pcs, u \in User \union {None}, t \in SUBSET User,
            m \in Msg \union {None}, l \in BOOLEAN, v \in Seq(Msg) :
              k = Full(p, u, t, m, l, v)
BY DEF Full, HandlerType, Pcs

\* The handler of connection c goes on to p, and is then about u and m; the
\* other handlers stay where they are.
Moved(c, p, u, m) ==
  /\ h' \in [Conn -> HandlerType]
  /\ h'[c].pc = p /\ h'[c].user = u /\ h'[c].msg = m
  /\ \A d \in Conn : d # c => h'[d] = h[d]

\* Storing a handler's record is such a step.
LEMMA Stored ==
  ASSUME TypeOK, NEW c \in Conn, NEW p \in Pcs, NEW u \in User \union {None},
         NEW t \in SUBSET User, NEW m \in Msg \union {None}, NEW l \in BOOLEAN,
         NEW v \in Seq(Msg), h' = [h EXCEPT ![c] = Full(p, u, t, m, l, v)]
  PROVE  Moved(c, p, u, m)
<1>1. PICK k : k = Full(p, u, t, m, l, v)
  OBVIOUS
<1>2. k \in HandlerType /\ k.pc = p /\ k.user = u /\ k.msg = m
  BY <1>1, Fields
<1>3. h \in [Conn -> HandlerType] /\ h' = [h EXCEPT ![c] = k]
  BY <1>1 DEF TypeOK
<1>4. QED
  BY <1>2, <1>3 DEF Moved

\* ... and so is each way in which the handlers go on.
LEMMA Moves ==
  ASSUME TypeOK, NEW c \in Conn, NEW p \in Pcs, NEW u \in User \union {None}
  PROVE  /\ Go(c, p) => Moved(c, p, h[c].user, h[c].msg)
         /\ h' = [h EXCEPT ![c] = Handler(p)] => Moved(c, p, None, None)
         /\ h' = [h EXCEPT ![c] = [Handler(p) EXCEPT !.user = u]]
              => Moved(c, p, u, None)
         /\ h' = [h EXCEPT ![c].pc = p, ![c].user = u] => Moved(c, p, u, h[c].msg)
         /\ Served(c, u) => \/ Moved(c, "idle", None, None)
                            \/ Moved(c, "c_find", None, h[c].msg)
<1>1. h \in [Conn -> HandlerType] /\ h[c] \in HandlerType
  BY DEF TypeOK
<1>2. PICK q \in Pcs, w \in User \union {None}, t \in SUBSET User,
           m \in Msg \union {None}, l \in BOOLEAN, v \in Seq(Msg) :
             h[c] = Full(q, w, t, m, l, v)
  BY <1>1, IsFull
<1>3. h[c].user = w /\ h[c].msg = m /\ h[c].to = t
  BY <1>2, Fields
<1>4. /\ "idle" \in Pcs /\ "c_find" \in Pcs /\ None \in User \union {None}
      /\ None \in Msg \union {None} /\ {} \in SUBSET User /\ FALSE \in BOOLEAN
      /\ <<>> \in Seq(Msg) /\ u \in User \union {None}
  BY DEF Pcs, ChatPcs
<1>5. PICK no, f, none : no = {} /\ f = FALSE /\ none = <<>>
  OBVIOUS
<1>5a. \A x : Handler(x) = Full(x, None, no, None, f, none)
  BY <1>5, Zenon DEF Handler, Full
<1>5b. no \in SUBSET User /\ f \in BOOLEAN /\ none \in Seq(Msg)
  BY <1>4, <1>5
<1>6. ASSUME Go(c, p) PROVE Moved(c, p, h[c].user, h[c].msg)
  <2>1. h' = [h EXCEPT ![c] = [Full(q, w, t, m, l, v) EXCEPT !.pc = p]]
    BY <1>2, <1>6, Zenon DEF Go
  <2>2. h' = [h EXCEPT ![c] = Full(p, w, t, m, l, v)]
    <3>1. [Full(q, w, t, m, l, v) EXCEPT !.pc = p] = Full(p, w, t, m, l, v)
      BY DEF Full
    <3>2. QED
      BY <2>1, <3>1, Zenon
  <2>3. QED
    BY <1>3, <2>2, Stored
<1>7. ASSUME h' = [h EXCEPT ![c] = Handler(p)] PROVE Moved(c, p, None, None)
  <2>1. h' = [h EXCEPT ![c] = Full(p, None, no, None, f, none)]
    BY <1>5a, <1>7, Zenon
  <2>2. QED
    BY <1>4, <1>5b, <2>1, Stored
<1>8. ASSUME h' = [h EXCEPT ![c] = [Handler(p) EXCEPT !.user = u]]
      PROVE  Moved(c, p, u, None)
  <2>1. h' = [h EXCEPT ![c] = [Full(p, None, no, None, f, none) EXCEPT !.user = u]]
    BY <1>5a, <1>8, Zenon
  <2>2. h' = [h EXCEPT ![c] = Full(p, u, no, None, f, none)]
    <3>1. [Full(p, None, no, None, f, none) EXCEPT !.user = u]
            = Full(p, u, no, None, f, none)
      BY DEF Full
    <3>2. QED
      BY <2>1, <3>1, Zenon
  <2>3. QED
    BY <1>4, <1>5b, <2>2, Stored
<1>9. ASSUME h' = [h EXCEPT ![c].pc = p, ![c].user = u]
      PROVE  Moved(c, p, u, h[c].msg)
  <2>1. PICK g : g = [h EXCEPT ![c].pc = p]
    OBVIOUS
  <2>2. g = [h EXCEPT ![c] = [Full(q, w, t, m, l, v) EXCEPT !.pc = p]]
    BY <1>2, <2>1, Zenon
  <2>3. g = [h EXCEPT ![c] = Full(p, w, t, m, l, v)]
    <3>1. [Full(q, w, t, m, l, v) EXCEPT !.pc = p] = Full(p, w, t, m, l, v)
      BY DEF Full
    <3>2. QED
      BY <2>2, <3>1, Zenon
  <2>4. g[c] = Full(p, w, t, m, l, v)
    BY <1>1, <2>3
  <2>5. h' = [g EXCEPT ![c] = [Full(p, w, t, m, l, v) EXCEPT !.user = u]]
    BY <1>9, <2>1, <2>4, Zenon
  <2>6. h' = [g EXCEPT ![c] = Full(p, u, t, m, l, v)]
    <3>1. [Full(p, w, t, m, l, v) EXCEPT !.user = u] = Full(p, u, t, m, l, v)
      BY DEF Full
    <3>2. QED
      BY <2>5, <3>1, Zenon
  <2>7. PICK k : k = Full(p, u, t, m, l, v)
    OBVIOUS
  <2>8. h' = [h EXCEPT ![c] = k]
    BY <1>1, <2>3, <2>6, <2>7
  <2>9. QED
    BY <1>3, <1>4, <2>7, <2>8, Stored
<1>10. ASSUME Served(c, u)
       PROVE  Moved(c, "idle", None, None) \/ Moved(c, "c_find", None, h[c].msg)
  <2>1. CASE h[c].to = {u}
    <3>1. h' = [h EXCEPT ![c] = Full("idle", None, no, None, f, none)]
      BY <1>5a, <1>10, <2>1 DEF Served
    <3>2. QED
      BY <1>4, <1>5b, <3>1, Stored
  <2>2. CASE h[c].to # {u}
    <3>0. PICK r : r = t \ {u}
      OBVIOUS
    <3>1. PICK k : k = [h[c] EXCEPT !.to = h[c].to \ {u}, !.pc = "c_find", !.user = None]
      OBVIOUS
    <3>2. k = [Full(q, w, t, m, l, v) EXCEPT !.to = r, !.pc = "c_find", !.user = None]
      BY <1>2, <1>3, <3>0, <3>1, Zenon
    <3>3. k = [Full(q, w, r, m, l, v) EXCEPT !.pc = "c_find", !.user = None]
      <4>1. [Full(q, w, t, m, l, v) EXCEPT !.to = r] = Full(q, w, r, m, l, v)
        BY DEF Full
      <4>2. QED
        BY <3>2, <4>1, Zenon
    <3>4. k = [Full("c_find", w, r, m, l, v) EXCEPT !.user = None]
      <4>1. [Full(q, w, r, m, l, v) EXCEPT !.pc = "c_find"]
              = Full("c_find", w, r, m, l, v)
        BY DEF Full
      <4>2. QED
        BY <3>3, <4>1, Zenon
    <3>5. k = Full("c_find", None, r, m, l, v)
      <4>1. [Full("c_find", w, r, m, l, v) EXCEPT !.user = None]
              = Full("c_find", None, r, m, l, v)
        BY DEF Full
      <4>2. QED
        BY <3>4, <4>1, Zenon
    <3>6. h' = [h EXCEPT ![c] = k]
      BY <1>10, <2>2, <3>1, Zenon DEF Served
    <3>7. h' = [h EXCEPT ![c] = Full("c_find", None, r, m, l, v)]
      BY <3>5, <3>6, Zenon
    <3>8. r \in SUBSET User
      BY <3>0
    <3>9. QED
      BY <1>3, <1>4, <3>7, <3>8, Stored
  <2>3. QED
    BY <2>1, <2>2
<1>11. QED
  BY <1>6, <1>7, <1>8, <1>9, <1>10

\* The beginning of a chat handler, and login() when it has read the messages.
LEMMA ChatMoves ==
  ASSUME TypeOK, NEW c \in Conn, NEW p \in Pcs, NEW m \in Msg \union {None},
         NEW to \in SUBSET User, NEW b \in BOOLEAN, NEW vec \in Seq(Msg)
  PROVE  /\ h' = [h EXCEPT ![c] = [Handler("c_find") EXCEPT
                                     !.msg = m, !.to = to, !.locked = b]]
              => Moved(c, "c_find", None, m)
         /\ h' = [h EXCEPT ![c].vec = vec, ![c].pc = p]
              => Moved(c, p, h[c].user, h[c].msg)
<1>1. h \in [Conn -> HandlerType] /\ h[c] \in HandlerType
  BY DEF TypeOK
<1>2. PICK q \in Pcs, w \in User \union {None}, t \in SUBSET User,
           n \in Msg \union {None}, l \in BOOLEAN, v \in Seq(Msg) :
             h[c] = Full(q, w, t, n, l, v)
  BY <1>1, IsFull
<1>3. h[c].user = w /\ h[c].msg = n
  BY <1>2, Fields
<1>4. ASSUME h' = [h EXCEPT ![c] = [Handler("c_find") EXCEPT
                                      !.msg = m, !.to = to, !.locked = b]]
      PROVE  Moved(c, "c_find", None, m)
  <2>1. PICK a, no, f, none : a = "c_find" /\ no = {} /\ f = FALSE /\ none = <<>>
    OBVIOUS
  <2>2. Handler("c_find") = Full(a, None, no, None, f, none)
    BY <2>1, Zenon DEF Handler, Full
  <2>3. PICK k : k = [Handler("c_find") EXCEPT !.msg = m, !.to = to, !.locked = b]
    OBVIOUS
  <2>4. k = [Full(a, None, no, None, f, none) EXCEPT !.msg = m, !.to = to, !.locked = b]
    BY <2>2, <2>3, Zenon
  <2>5. k = [Full(a, None, no, m, f, none) EXCEPT !.to = to, !.locked = b]
    <3>1. [Full(a, None, no, None, f, none) EXCEPT !.msg = m] = Full(a, None, no, m, f, none)
      BY DEF Full
    <3>2. QED
      BY <2>4, <3>1, Zenon
  <2>6. k = [Full(a, None, to, m, f, none) EXCEPT !.locked = b]
    <3>1. [Full(a, None, no, m, f, none) EXCEPT !.to = to] = Full(a, None, to, m, f, none)
      BY DEF Full
    <3>2. QED
      BY <2>5, <3>1, Zenon
  <2>7. k = Full(a, None, to, m, b, none)
    <3>1. [Full(a, None, to, m, f, none) EXCEPT !.locked = b] = Full(a, None, to, m, b, none)
      BY DEF Full
    <3>2. QED
      BY <2>6, <3>1, Zenon
  <2>8. h' = [h EXCEPT ![c] = Full(a, None, to, m, b, none)]
    BY <1>4, <2>3, <2>7, Zenon
  <2>9. /\ a \in Pcs /\ None \in User \union {None} /\ m \in Msg \union {None}
        /\ none \in Seq(Msg)
    BY <2>1 DEF Pcs, ChatPcs
  <2>10. Moved(c, a, None, m)
    BY <2>8, <2>9, Stored
  <2>11. QED
    BY <2>1, <2>10
<1>5. ASSUME h' = [h EXCEPT ![c].vec = vec, ![c].pc = p]
      PROVE  Moved(c, p, h[c].user, h[c].msg)
  <2>1. PICK g : g = [h EXCEPT ![c].vec = vec]
    OBVIOUS
  <2>2. g = [h EXCEPT ![c] = [Full(q, w, t, n, l, v) EXCEPT !.vec = vec]]
    BY <1>2, <2>1, Zenon
  <2>3. g = [h EXCEPT ![c] = Full(q, w, t, n, l, vec)]
    <3>1. [Full(q, w, t, n, l, v) EXCEPT !.vec = vec] = Full(q, w, t, n, l, vec)
      BY DEF Full
    <3>2. QED
      BY <2>2, <3>1, Zenon
  <2>4. g[c] = Full(q, w, t, n, l, vec)
    BY <1>1, <2>3
  <2>5. h' = [g EXCEPT ![c] = [Full(q, w, t, n, l, vec) EXCEPT !.pc = p]]
    BY <1>5, <2>1, <2>4, Zenon
  <2>6. h' = [g EXCEPT ![c] = Full(p, w, t, n, l, vec)]
    <3>1. [Full(q, w, t, n, l, vec) EXCEPT !.pc = p] = Full(p, w, t, n, l, vec)
      BY DEF Full
    <3>2. QED
      BY <2>5, <3>1, Zenon
  <2>7. PICK k : k = Full(p, w, t, n, l, vec)
    OBVIOUS
  <2>8. h' = [h EXCEPT ![c] = k]
    BY <1>1, <2>3, <2>6, <2>7
  <2>9. QED
    BY <1>3, <2>7, <2>8, Stored
<1>6. QED
  BY <1>4, <1>5

-----------------------------------------------------------------------------
(* Types.                                                                  *)

\* A command to redis, executed now or later, keeps subs and cmds typed.
LEMMA CommandType ==
  ASSUME TypeOK, NEW s \in Server, NEW b \in BOOLEAN, NEW u \in User,
         Command(s, [sub |-> b, user |-> u])
  PROVE  /\ subs' \in [Server -> SUBSET User]
         /\ cmds' \in [Server -> Seq([sub : BOOLEAN, user : User])]
<1>1. PICK k : k = [sub |-> b, user |-> u]
  OBVIOUS
<1>2. k \in [sub : BOOLEAN, user : User] /\ k.user = u
  BY <1>1
<1>3. /\ subs \in [Server -> SUBSET User]
      /\ cmds \in [Server -> Seq([sub : BOOLEAN, user : User])]
  BY DEF TypeOK
<1>4. Append(cmds[s], k) \in Seq([sub : BOOLEAN, user : User])
  BY <1>2, <1>3, AppendProperties
<1>5. Execute(subs[s], k) \in SUBSET User
  BY <1>2, <1>3 DEF Execute
<1>6. \/ cmds' = [cmds EXCEPT ![s] = Append(cmds[s], k)] /\ subs' = subs
      \/ subs' = [subs EXCEPT ![s] = Execute(subs[s], k)] /\ cmds' = cmds
  BY <1>1, Zenon DEF Command
<1>7. QED
  BY <1>3, <1>4, <1>5, <1>6

\* A copy on its way through redis.
LEMMA PublishType ==
  ASSUME TypeOK, NEW u \in User, NEW m \in Msg, Publish(u, m)
  PROVE  chan' \in [Server -> Seq(Copy)]
<1>1. PICK p : p = <<m, u>>
  OBVIOUS
<1>2. p \in Copy
  BY <1>1 DEF Copy
<1>3. chan \in [Server -> Seq(Copy)]
  BY DEF TypeOK
<1>4. \A s \in Server : Append(chan[s], p) \in Seq(Copy)
  BY <1>2, <1>3, AppendProperties
<1>5. chan' = [s \in Server |-> IF u \in subs[s] THEN Append(chan[s], p) ELSE chan[s]]
  BY <1>1 DEF Publish
<1>6. QED
  BY <1>3, <1>4, <1>5

\* ... and in the table.
LEMMA StoreType ==
  ASSUME TypeOK, NEW u \in User, NEW m \in Msg, StoreOffline(u, m)
  PROVE  offline' \in [User -> Seq(Msg)]
<1>1. offline \in [User -> Seq(Msg)]
  BY DEF TypeOK
<1>2. Append(offline[u], m) \in Seq(Msg)
  BY <1>1, AppendProperties
<1>3. QED
  BY <1>1, <1>2 DEF StoreOffline

\* The places of a handler are among Pcs.
LEMMA PcsFacts ==
  /\ {"new", "idle", "closed", "l_query", "l_insert", "l_subscribe", "l_online",
      "l_read", "l_remove", "l_ack", "o_erase", "o_unsubscribe", "o_offline",
      "d_unsubscribe", "d_offline", "c_find", "c_query", "c_publish",
      "c_store"} \subseteq Pcs
BY DEF Pcs, LoginPcs, LeavePcs, ChatPcs

\* What a step of the handler of c, or of its client, does to it.
LEMMA HandlerSteps ==
  ASSUME TypeOK, HandlerInv, NEW c \in Conn
  PROVE  /\ Connect(c) => Moved(c, "idle", None, None)
         /\ CloseErase(c) =>
              \/ /\ \A u \in User : map[SrvOf[c]][u] # c
                 /\ UNCHANGED map /\ Moved(c, "closed", None, None)
              \/ \E u \in User : /\ map[SrvOf[c]][u] = c /\ MapErase(SrvOf[c], u)
                                 /\ Moved(c, "d_unsubscribe", u, None)
         /\ Unsubscribe(c) =>
              \/ At(c, "o_unsubscribe") /\ Moved(c, "o_offline", h[c].user, h[c].msg)
              \/ At(c, "d_unsubscribe") /\ Moved(c, "d_offline", h[c].user, h[c].msg)
         /\ SetOffline(c) =>
              \/ At(c, "o_offline") /\ Moved(c, "idle", None, None)
              \/ At(c, "d_offline") /\ Moved(c, "closed", None, None)
         /\ LoginQuery(c) =>
              \/ /\ db[h[c].user] = "offline" /\ UNCHANGED acct
                 /\ Moved(c, "l_insert", h[c].user, h[c].msg)
              \/ /\ acct' = [acct EXCEPT ![c] = None]
                 /\ Moved(c, "idle", None, None)
         /\ LoginInsert(c) => Moved(c, "l_subscribe", h[c].user, h[c].msg)
         /\ LoginSubscribe(c) => Moved(c, "l_online", h[c].user, h[c].msg)
         /\ LoginOnline(c) => Moved(c, "l_read", h[c].user, h[c].msg)
         /\ LoginReadOffline(c) =>
              \/ Moved(c, "l_remove", h[c].user, h[c].msg)
              \/ Moved(c, "l_ack", h[c].user, h[c].msg)
         /\ LoginRemoveOffline(c) => Moved(c, "l_ack", h[c].user, h[c].msg)
         /\ LoginAck(c) => Moved(c, "idle", None, None)
         /\ LogoutErase(c) => Moved(c, "o_unsubscribe", h[c].user, h[c].msg)
         /\ ChatQuery(c) => \/ Moved(c, "c_publish", h[c].user, h[c].msg)
                            \/ Moved(c, "c_store", h[c].user, h[c].msg)
         /\ ChatPublish(c) \/ ChatStore(c) =>
              \/ Moved(c, "idle", None, None)
              \/ Moved(c, "c_find", None, h[c].msg)
         /\ \A u \in User : Login(c, u) => Moved(c, "l_query", u, None)
         /\ Loginout(c) => Moved(c, "o_erase", acct[c], None)
         /\ \A u \in User : ChatFind(c, u) =>
              \/ Moved(c, "idle", None, None)
              \/ Moved(c, "c_find", None, h[c].msg)
              \/ Moved(c, "c_query", u, h[c].msg)
         /\ \A m \in Msg, u \in User : OneChat(c, m, u) => Moved(c, "c_find", None, m)
         /\ \A m \in Msg : GroupChat(c, m) => Moved(c, "c_find", None, m)
<1>1. /\ "closed" \in Pcs /\ "d_unsubscribe" \in Pcs /\ "idle" \in Pcs
      /\ "o_offline" \in Pcs /\ "d_offline" \in Pcs /\ "l_insert" \in Pcs
      /\ "l_subscribe" \in Pcs /\ "l_online" \in Pcs /\ "l_read" \in Pcs
      /\ "l_remove" \in Pcs /\ "l_ack" \in Pcs /\ "o_unsubscribe" \in Pcs
      /\ "c_publish" \in Pcs /\ "c_store" \in Pcs /\ "l_query" \in Pcs
      /\ "o_erase" \in Pcs /\ "c_query" \in Pcs
  BY PcsFacts
<1>2. \A p \in Pcs : /\ Go(c, p) => Moved(c, p, h[c].user, h[c].msg)
                     /\ h' = [h EXCEPT ![c] = Handler(p)] => Moved(c, p, None, None)
  <2>1. None \in User \union {None}
    OBVIOUS
  <2>2. QED
    BY <2>1, Moves
<1>3. \A p \in Pcs, u \in User :
        h' = [h EXCEPT ![c] = [Handler(p) EXCEPT !.user = u]] => Moved(c, p, u, None)
  BY Moves
<1>4. \A p \in Pcs, u \in User :
        /\ h' = [h EXCEPT ![c].pc = p, ![c].user = u] => Moved(c, p, u, h[c].msg)
        /\ Served(c, u) => \/ Moved(c, "idle", None, None)
                           \/ Moved(c, "c_find", None, h[c].msg)
  BY Moves
<1>5. \A m \in Msg, to \in SUBSET User, b \in BOOLEAN :
        h' = [h EXCEPT ![c] = [Handler("c_find") EXCEPT !.msg = m, !.to = to, !.locked = b]]
          => Moved(c, "c_find", None, m)
  <2>1. <<>> \in Seq(Msg)
    OBVIOUS
  <2>2. QED
    BY <1>1, <2>1, ChatMoves
<1>6. ASSUME Connect(c)
      PROVE  Moved(c, "idle", None, None)
  BY <1>6, <1>1, <1>2 DEF Connect, Finish
<1>7. ASSUME CloseErase(c)
      PROVE  \/ /\ \A u \in User : map[SrvOf[c]][u] # c
                /\ UNCHANGED map /\ Moved(c, "closed", None, None)
             \/ \E u \in User : /\ map[SrvOf[c]][u] = c /\ MapErase(SrvOf[c], u)
                                /\ Moved(c, "d_unsubscribe", u, None)
  BY <1>7, <1>1, <1>2, <1>3 DEF CloseErase
<1>8. ASSUME Unsubscribe(c)
      PROVE  \/ At(c, "o_unsubscribe") /\ Moved(c, "o_offline", h[c].user, h[c].msg)
             \/ At(c, "d_unsubscribe") /\ Moved(c, "d_offline", h[c].user, h[c].msg)
  BY <1>8, <1>1, <1>2 DEF Unsubscribe, At
<1>9. ASSUME SetOffline(c)
      PROVE  \/ At(c, "o_offline") /\ Moved(c, "idle", None, None)
             \/ At(c, "d_offline") /\ Moved(c, "closed", None, None)
  BY <1>9, <1>1, <1>2 DEF SetOffline, At
<1>10. ASSUME LoginQuery(c)
      PROVE  \/ /\ db[h[c].user] = "offline" /\ UNCHANGED acct
                /\ Moved(c, "l_insert", h[c].user, h[c].msg)
             \/ /\ acct' = [acct EXCEPT ![c] = None]
                /\ Moved(c, "idle", None, None)
  BY <1>10, <1>1, <1>2 DEF LoginQuery, Finish
<1>11. ASSUME LoginInsert(c)
      PROVE  Moved(c, "l_subscribe", h[c].user, h[c].msg)
  BY <1>11, <1>1, <1>2 DEF LoginInsert
<1>12. ASSUME LoginSubscribe(c)
      PROVE  Moved(c, "l_online", h[c].user, h[c].msg)
  BY <1>12, <1>1, <1>2 DEF LoginSubscribe
<1>13. ASSUME LoginOnline(c)
      PROVE  Moved(c, "l_read", h[c].user, h[c].msg)
  BY <1>13, <1>1, <1>2 DEF LoginOnline
<1>14. ASSUME LoginReadOffline(c)
      PROVE  \/ Moved(c, "l_remove", h[c].user, h[c].msg)
             \/ Moved(c, "l_ack", h[c].user, h[c].msg)
  <2>1. PICK vec \in Seq(Msg) : vec = offline[h[c].user]
    <3>1. h[c].user \in User /\ offline \in [User -> Seq(Msg)]
      BY <1>14 DEF LoginReadOffline, At, HandlerInv, HandlerOk, LoginPcs, TypeOK
    <3>2. QED
      BY <3>1
  <2>2. PICK p : p = AfterRead(vec)
    OBVIOUS
  <2>3. h' = [h EXCEPT ![c].vec = vec, ![c].pc = p]
    BY <1>14, <2>1, <2>2, Zenon DEF LoginReadOffline
  <2>4. p \in {"l_remove", "l_ack"}
    BY <2>2 DEF AfterRead
  <2>5. Moved(c, p, h[c].user, h[c].msg)
    <3>1. p \in Pcs /\ None \in Msg \union {None} /\ {} \in SUBSET User /\ TRUE \in BOOLEAN
      BY <1>1, <2>4
    <3>2. QED
      BY <2>3, <3>1, ChatMoves
  <2>6. QED
    BY <2>4, <2>5
<1>15. ASSUME LoginRemoveOffline(c)
      PROVE  Moved(c, "l_ack", h[c].user, h[c].msg)
  BY <1>15, <1>1, <1>2 DEF LoginRemoveOffline
<1>16. ASSUME LoginAck(c)
      PROVE  Moved(c, "idle", None, None)
  BY <1>16, <1>1, <1>2 DEF LoginAck, Finish
<1>17. ASSUME LogoutErase(c)
      PROVE  Moved(c, "o_unsubscribe", h[c].user, h[c].msg)
  BY <1>17, <1>1, <1>2 DEF LogoutErase
<1>18. ASSUME ChatQuery(c)
      PROVE  \/ Moved(c, "c_publish", h[c].user, h[c].msg)
             \/ Moved(c, "c_store", h[c].user, h[c].msg)
  BY <1>18, <1>1, <1>2 DEF ChatQuery
<1>19. ASSUME ChatPublish(c) \/ ChatStore(c)
      PROVE  \/ Moved(c, "idle", None, None)
             \/ Moved(c, "c_find", None, h[c].msg)
  <2>1. h[c].user \in User
    BY <1>19 DEF ChatPublish, ChatStore, At, HandlerInv, HandlerOk
  <2>2. Served(c, h[c].user)
    BY <1>19 DEF ChatPublish, ChatStore
  <2>3. QED
    BY <1>1, <1>4, <2>1, <2>2
<1>20. ASSUME NEW u \in User, Login(c, u)
      PROVE  Moved(c, "l_query", u, None)
  BY <1>20, <1>1, <1>3 DEF Login
<1>21. ASSUME Loginout(c)
      PROVE  Moved(c, "o_erase", acct[c], None)
  <2>1. acct[c] \in User
    BY <1>21 DEF Loginout, HandlerInv, HandlerOk
  <2>2. QED
    BY <1>21, <1>1, <1>3, <2>1 DEF Loginout
<1>22. ASSUME NEW u \in User, ChatFind(c, u)
      PROVE  \/ Moved(c, "idle", None, None)
             \/ Moved(c, "c_find", None, h[c].msg)
             \/ Moved(c, "c_query", u, h[c].msg)
  <2>1. Served(c, u) \/ h' = [h EXCEPT ![c].pc = "c_query", ![c].user = u]
    BY <1>22 DEF ChatFind
  <2>2. QED
    BY <1>1, <1>4, <2>1
<1>23. ASSUME NEW m \in Msg, NEW u \in User, OneChat(c, m, u)
      PROVE  Moved(c, "c_find", None, m)
  <2>1. PICK t \in SUBSET User, f \in BOOLEAN : t = {u} /\ f = TRUE
    OBVIOUS
  <2>2. h' = [h EXCEPT ![c] = [Handler("c_find") EXCEPT !.msg = m, !.to = t, !.locked = f]]
    BY <1>23, <2>1, Zenon DEF OneChat, BeginChat
  <2>3. QED
    BY <1>5, <2>2
<1>24. ASSUME NEW m \in Msg, GroupChat(c, m)
      PROVE  Moved(c, "c_find", None, m)
  <2>1. PICK t \in SUBSET User, f \in BOOLEAN : t = QueryGroupUsers(acct[c]) /\ f = FALSE
    BY ChatAssumption DEF QueryGroupUsers
  <2>2. h' = [h EXCEPT ![c] = [Handler("c_find") EXCEPT !.msg = m, !.to = t, !.locked = f]]
    BY <1>24, <2>1, Zenon DEF GroupChat, BeginChat
  <2>3. QED
    BY <1>5, <2>2
<1>25. QED
  BY <1>6, <1>7, <1>8, <1>9, <1>10, <1>11, <1>12, <1>13, <1>14, <1>15, <1>16, <1>17, <1>18, <1>19, <1>20, <1>21, <1>22, <1>23, <1>24

\* The types, one by one.
LEMMA TypeFacts ==
  ASSUME TypeOK
  PROVE  /\ map \in [Server -> [User -> Conn \union {None}]]
         /\ subs \in [Server -> SUBSET User]
         /\ cmds \in [Server -> Seq([sub : BOOLEAN, user : User])]
         /\ chan \in [Server -> Seq(Copy)] /\ obs \in [Server -> Seq(Copy)]
         /\ db \in [User -> {"online", "offline"}]
         /\ offline \in [User -> Seq(Msg)]
         /\ h \in [Conn -> HandlerType]
         /\ open \in [Conn -> BOOLEAN] /\ acct \in [Conn -> User \union {None}]
         /\ acked \in SUBSET Conn /\ logins \in [Conn -> Nat]
         /\ names \in [Conn -> SUBSET User]
         /\ exiting \in SUBSET Server /\ exits \in Nat
         /\ used \in SUBSET Msg /\ handed \in [Copy -> Nat]
         /\ SrvOf \in [Conn -> Server] /\ None \notin Conn /\ None \notin User
BY ChatAssumption DEF TypeOK

\* A change of one entry of one server's map.
LEMMA MapChange ==
  ASSUME TypeOK, NEW s \in Server, NEW u \in User, NEW v \in Conn \union {None},
         map' = [map EXCEPT ![s][u] = v]
  PROVE  /\ map' \in [Server -> [User -> Conn \union {None}]]
         /\ map'[s][u] = v
         /\ \A t \in Server, w \in User : t # s \/ w # u => map'[t][w] = map[t][w]
<1>1. map \in [Server -> [User -> Conn \union {None}]]
  BY DEF TypeOK
<1>2. PICK f : f = [map[s] EXCEPT ![u] = v]
  OBVIOUS
<1>3. /\ f \in [User -> Conn \union {None}] /\ f[u] = v
      /\ \A w \in User : w # u => f[w] = map[s][w]
  BY <1>1, <1>2
<1>4. map' = [map EXCEPT ![s] = f]
  BY <1>2, Zenon
<1>5. QED
  BY <1>1, <1>3, <1>4

\* insert() and erase() are such changes.
LEMMA MapMoves ==
  ASSUME TypeOK, NEW s \in Server, NEW u \in User, NEW c \in Conn,
         MapInsert(s, u, c) \/ MapErase(s, u)
  PROVE  /\ map' \in [Server -> [User -> Conn \union {None}]]
         /\ MapErase(s, u) => map'[s][u] = None
         /\ MapInsert(s, u, c) =>
              map'[s][u] = IF map[s][u] = None THEN c ELSE map[s][u]
         /\ \A t \in Server, w \in User : t # s \/ w # u => map'[t][w] = map[t][w]
<1>1. map[s][u] \in Conn \union {None}
  BY DEF TypeOK
<1>2. CASE MapErase(s, u)
  <2>1. PICK v \in Conn \union {None} : v = None
    OBVIOUS
  <2>2. map' = [map EXCEPT ![s][u] = v]
    BY <1>2, <2>1 DEF MapErase
  <2>3. /\ map' \in [Server -> [User -> Conn \union {None}]]
        /\ map'[s][u] = v
        /\ \A t \in Server, w \in User : t # s \/ w # u => map'[t][w] = map[t][w]
    <3>1. map' \in [Server -> [User -> Conn \union {None}]]
      BY <2>2, MapChange
    <3>2. map'[s][u] = v
      BY <2>2, MapChange
    <3>3. \A t \in Server, w \in User : t # s \/ w # u => map'[t][w] = map[t][w]
      BY <2>2, MapChange
    <3>4. QED
      BY <3>1, <3>2, <3>3
  <2>4. MapInsert(s, u, c) =>
          map'[s][u] = IF map[s][u] = None THEN c ELSE map[s][u]
    <3>1. SUFFICES ASSUME MapInsert(s, u, c)
                   PROVE  map'[s][u] = IF map[s][u] = None THEN c ELSE map[s][u]
      OBVIOUS
    <3>2. PICK v1 \in Conn \union {None} :
            v1 = IF map[s][u] = None THEN c ELSE map[s][u]
      BY <1>1
    <3>3. map' = [map EXCEPT ![s][u] = v1]
      BY <3>1, <3>2, Zenon DEF MapInsert
    <3>4. map'[s][u] = v1
      BY <3>3, MapChange
    <3>5. QED
      BY <3>2, <3>4
  <2>5. QED
    BY <2>1, <2>3, <2>4
<1>3. CASE MapInsert(s, u, c) /\ ~MapErase(s, u)
  <2>1. PICK v \in Conn \union {None} :
          v = IF map[s][u] = None THEN c ELSE map[s][u]
    BY <1>1
  <2>2. map' = [map EXCEPT ![s][u] = v]
    BY <1>3, <2>1, Zenon DEF MapInsert
  <2>3. /\ map' \in [Server -> [User -> Conn \union {None}]]
        /\ map'[s][u] = v
        /\ \A t \in Server, w \in User : t # s \/ w # u => map'[t][w] = map[t][w]
    <3>1. map' \in [Server -> [User -> Conn \union {None}]]
      BY <2>2, MapChange
    <3>2. map'[s][u] = v
      BY <2>2, MapChange
    <3>3. \A t \in Server, w \in User : t # s \/ w # u => map'[t][w] = map[t][w]
      BY <2>2, MapChange
    <3>4. QED
      BY <3>1, <3>2, <3>3
  <2>4. QED
    BY <1>3, <2>1, <2>3
<1>4. QED
  BY <1>2, <1>3

\* No step leaves the types.
LEMMA TypeStep == MapInv /\ [Next]_vars => TypeOK'
<1> SUFFICES ASSUME MapInv, [Next]_vars PROVE TypeOK'
  OBVIOUS
<1> USE DEF redisVars, histVars, msgVars, clientVars, lifeVars
<1>1. TypeOK /\ HandlerInv
  BY DEF MapInv
<1>2. /\ map \in [Server -> [User -> Conn \union {None}]]
      /\ subs \in [Server -> SUBSET User]
      /\ cmds \in [Server -> Seq([sub : BOOLEAN, user : User])]
      /\ chan \in [Server -> Seq(Copy)] /\ obs \in [Server -> Seq(Copy)]
      /\ db \in [User -> {"online", "offline"}]
      /\ offline \in [User -> Seq(Msg)]
      /\ h \in [Conn -> HandlerType]
      /\ open \in [Conn -> BOOLEAN] /\ acct \in [Conn -> User \union {None}]
      /\ acked \in SUBSET Conn /\ logins \in [Conn -> Nat]
      /\ names \in [Conn -> SUBSET User]
      /\ exiting \in SUBSET Server /\ exits \in Nat
      /\ used \in SUBSET Msg /\ handed \in [Copy -> Nat]
      /\ SrvOf \in [Conn -> Server] /\ None \notin Conn /\ None \notin User
  BY <1>1, TypeFacts
<1>3. ASSUME NEW c \in Conn, HandlerStep(c) PROVE TypeOK'
  <2>1. ASSUME NEW p, NEW u, NEW m, Moved(c, p, u, m)
        PROVE  h' \in [Conn -> HandlerType]
    BY <2>1 DEF Moved
  <2>2. CASE CloseErase(c)
    <3>1. h' \in [Conn -> HandlerType]
      BY <1>1, <2>1, <2>2, HandlerSteps
    <3>2. map' \in [Server -> [User -> Conn \union {None}]]
      <4>1. SrvOf[c] \in Server /\ c \in Conn
        BY <1>2
      <4>2. map' = map \/ \E u \in User : MapErase(SrvOf[c], u)
        BY <2>2 DEF CloseErase
      <4>3. QED
        BY <1>1, <1>2, <4>1, <4>2, MapMoves
    <3>3. QED
      BY <1>2, <2>2, <3>1, <3>2 DEF CloseErase, TypeOK
  <2>3. CASE Unsubscribe(c)
    <3>1. h' \in [Conn -> HandlerType]
      BY <1>1, <2>1, <2>3, HandlerSteps
    <3>2. h[c].user \in User /\ SrvOf[c] \in Server /\ FALSE \in BOOLEAN
      BY <1>1, <1>2, <2>3 DEF Unsubscribe, HandlerInv, HandlerOk, LeavePcs
    <3>3. Command(SrvOf[c], [sub |-> FALSE, user |-> h[c].user])
      BY <2>3 DEF Unsubscribe
    <3>4. /\ subs' \in [Server -> SUBSET User]
          /\ cmds' \in [Server -> Seq([sub : BOOLEAN, user : User])]
      BY <1>1, <3>2, <3>3, CommandType
    <3>5. QED
      BY <1>2, <2>3, <3>1, <3>4 DEF Unsubscribe, TypeOK
  <2>4. CASE SetOffline(c)
    <3>1. h' \in [Conn -> HandlerType]
      BY <1>1, <2>1, <2>4, HandlerSteps
    <3>2. db' \in [User -> {"online", "offline"}]
      BY <1>2, <2>4 DEF SetOffline
    <3>3. QED
      BY <1>2, <2>4, <3>1, <3>2 DEF SetOffline, TypeOK
  <2>5. CASE LoginQuery(c)
    <3>1. h' \in [Conn -> HandlerType]
      BY <1>1, <2>1, <2>5, HandlerSteps
    <3>2. acct' \in [Conn -> User \union {None}]
      BY <1>2, <2>5 DEF LoginQuery
    <3>3. QED
      BY <1>2, <2>5, <3>1, <3>2 DEF LoginQuery, TypeOK
  <2>6. CASE LoginInsert(c)
    <3>1. h' \in [Conn -> HandlerType]
      BY <1>1, <2>1, <2>6, HandlerSteps
    <3>2. map' \in [Server -> [User -> Conn \union {None}]]
      <4>1. SrvOf[c] \in Server /\ h[c].user \in User
        BY <1>1, <1>2, <2>6 DEF LoginInsert, At, HandlerInv, HandlerOk, LoginPcs
      <4>2. QED
        BY <1>1, <2>6, <4>1, MapMoves DEF LoginInsert
    <3>3. names' \in [Conn -> SUBSET User]
      <4>1. h[c].user \in User
        BY <1>1, <2>6 DEF LoginInsert, At, HandlerInv, HandlerOk, LoginPcs, LeavePcs
      <4>2. QED
        BY <1>2, <2>6, <4>1 DEF LoginInsert
    <3>4. QED
      BY <1>2, <2>6, <3>1, <3>2, <3>3 DEF LoginInsert, TypeOK
  <2>7. CASE LoginSubscribe(c)
    <3>1. h' \in [Conn -> HandlerType]
      BY <1>1, <2>1, <2>7, HandlerSteps
    <3>2. h[c].user \in User /\ SrvOf[c] \in Server /\ TRUE \in BOOLEAN
      BY <1>1, <1>2, <2>7 DEF LoginSubscribe, At, HandlerInv, HandlerOk, LoginPcs
    <3>3. Command(SrvOf[c], [sub |-> TRUE, user |-> h[c].user])
      BY <2>7 DEF LoginSubscribe
    <3>4. /\ subs' \in [Server -> SUBSET User]
          /\ cmds' \in [Server -> Seq([sub : BOOLEAN, user : User])]
      BY <1>1, <3>2, <3>3, CommandType
    <3>5. QED
      BY <1>2, <2>7, <3>1, <3>4 DEF LoginSubscribe, TypeOK
  <2>8. CASE LoginOnline(c)
    <3>1. h' \in [Conn -> HandlerType]
      BY <1>1, <2>1, <2>8, HandlerSteps
    <3>2. db' \in [User -> {"online", "offline"}]
      BY <1>2, <2>8 DEF LoginOnline
    <3>3. QED
      BY <1>2, <2>8, <3>1, <3>2 DEF LoginOnline, TypeOK
  <2>9. CASE LoginReadOffline(c)
    <3>1. h' \in [Conn -> HandlerType]
      BY <1>1, <2>1, <2>9, HandlerSteps
    <3>2. QED
      BY <1>2, <2>9, <3>1 DEF LoginReadOffline, TypeOK
  <2>10. CASE LoginRemoveOffline(c)
    <3>1. h' \in [Conn -> HandlerType]
      BY <1>1, <2>1, <2>10, HandlerSteps
    <3>2. offline' \in [User -> Seq(Msg)]
      <4>1. <<>> \in Seq(Msg)
        OBVIOUS
      <4>2. QED
        BY <1>2, <2>10, <4>1 DEF LoginRemoveOffline
    <3>3. QED
      BY <1>2, <2>10, <3>1, <3>2 DEF LoginRemoveOffline, TypeOK
  <2>11. CASE LoginAck(c)
    <3>1. h' \in [Conn -> HandlerType]
      BY <1>1, <2>1, <2>11, HandlerSteps
    <3>2. acked' \in SUBSET Conn
      BY <1>2, <2>11 DEF LoginAck
    <3>3. handed' \in [Copy -> Nat]
      BY <1>2, <2>11 DEF LoginAck
    <3>4. QED
      BY <1>2, <2>11, <3>1, <3>2, <3>3 DEF LoginAck, TypeOK
  <2>12. CASE LogoutErase(c)
    <3>1. h' \in [Conn -> HandlerType]
      BY <1>1, <2>1, <2>12, HandlerSteps
    <3>2. map' \in [Server -> [User -> Conn \union {None}]]
      <4>1. SrvOf[c] \in Server /\ h[c].user \in User
        BY <1>1, <1>2, <2>12 DEF LogoutErase, At, HandlerInv, HandlerOk, LeavePcs
      <4>2. QED
        BY <1>1, <2>12, <4>1, MapMoves DEF LogoutErase
    <3>3. names' \in [Conn -> SUBSET User]
      <4>1. h[c].user \in User
        BY <1>1, <2>12 DEF LogoutErase, At, HandlerInv, HandlerOk, LoginPcs, LeavePcs
      <4>2. QED
        BY <1>2, <2>12, <4>1 DEF LogoutErase
    <3>4. QED
      BY <1>2, <2>12, <3>1, <3>2, <3>3 DEF LogoutErase, TypeOK
  <2>13. ASSUME NEW u \in User, ChatFind(c, u) PROVE TypeOK'
    <3>1. h' \in [Conn -> HandlerType]
      BY <1>1, <2>1, <2>13, HandlerSteps
    <3>2. handed' \in [Copy -> Nat]
      <4>1. PICK p : p = <<h[c].msg, u>>
        OBVIOUS
      <4>2. p \in Copy
        BY <1>1, <2>13, <4>1 DEF ChatFind, At, HandlerInv, HandlerOk, ChatPcs, Copy
      <4>3. handed' = [handed EXCEPT ![p] = handed[p] + 1] \/ handed' = handed
        BY <2>13, <4>1, Zenon DEF ChatFind
      <4>4. handed[p] + 1 \in Nat
        BY <1>2, <4>2
      <4>5. QED
        BY <1>2, <4>3, <4>4
    <3>3. QED
      BY <1>2, <2>13, <3>1, <3>2 DEF ChatFind, TypeOK
  <2>14. CASE ChatQuery(c)
    <3>1. h' \in [Conn -> HandlerType]
      BY <1>1, <2>1, <2>14, HandlerSteps
    <3>2. QED
      BY <1>2, <2>14, <3>1 DEF ChatQuery, TypeOK
  <2>15. CASE ChatPublish(c)
    <3>1. h' \in [Conn -> HandlerType]
      BY <1>1, <2>1, <2>15, HandlerSteps
    <3>2. h[c].user \in User /\ h[c].msg \in Msg
      BY <1>1, <2>15 DEF ChatPublish, At, HandlerInv, HandlerOk, ChatPcs
    <3>3. chan' \in [Server -> Seq(Copy)]
      BY <1>1, <2>15, <3>2, PublishType DEF ChatPublish
    <3>4. QED
      BY <1>2, <2>15, <3>1, <3>3 DEF ChatPublish, TypeOK
  <2>16. CASE ChatStore(c)
    <3>1. h' \in [Conn -> HandlerType]
      BY <1>1, <2>1, <2>16, HandlerSteps
    <3>2. h[c].user \in User /\ h[c].msg \in Msg
      BY <1>1, <2>16 DEF ChatStore, At, HandlerInv, HandlerOk, ChatPcs
    <3>3. offline' \in [User -> Seq(Msg)]
      BY <1>1, <2>16, <3>2, StoreType DEF ChatStore
    <3>4. QED
      BY <1>2, <2>16, <3>1, <3>3 DEF ChatStore, TypeOK
  <2>17. QED
    BY <1>3, <2>2, <2>3, <2>4, <2>5, <2>6, <2>7, <2>8, <2>9, <2>10, <2>11, <2>12,
       <2>13, <2>14, <2>15, <2>16 DEF HandlerStep
<1>4. ASSUME NEW c \in Conn, ClientStep(c) PROVE TypeOK'
  <2>1. ASSUME NEW p, NEW u, NEW m, Moved(c, p, u, m)
        PROVE  h' \in [Conn -> HandlerType]
    BY <2>1 DEF Moved
  <2>2. CASE Connect(c)
    <3>1. h' \in [Conn -> HandlerType]
      BY <1>1, <2>1, <2>2, HandlerSteps
    <3>2. QED
      BY <1>2, <2>2, <3>1 DEF Connect, TypeOK
  <2>3. CASE ClientClose(c)
    <3>1. /\ open' \in [Conn -> BOOLEAN] /\ acct' \in [Conn -> User \union {None}]
          /\ acked' \in SUBSET Conn
      BY <1>2, <2>3 DEF ClientClose
    <3>2. QED
      BY <1>2, <2>3, <3>1 DEF ClientClose, TypeOK
  <2>4. CASE Loginout(c)
    <3>1. h' \in [Conn -> HandlerType]
      BY <1>1, <2>1, <2>4, HandlerSteps
    <3>2. acct' \in [Conn -> User \union {None}] /\ acked' \in SUBSET Conn
      BY <1>2, <2>4 DEF Loginout
    <3>3. QED
      BY <1>2, <2>4, <3>1, <3>2 DEF Loginout, TypeOK
  <2>5. ASSUME NEW u \in User, Login(c, u) PROVE TypeOK'
    <3>1. h' \in [Conn -> HandlerType]
      BY <1>1, <2>1, <2>5, HandlerSteps
    <3>2. acct' \in [Conn -> User \union {None}]
      BY <1>2, <2>5 DEF Login
    <3>3. logins' \in [Conn -> Nat] /\ acked' \in SUBSET Conn
      BY <1>2, <2>5 DEF Login
    <3>4. QED
      BY <1>2, <2>5, <3>1, <3>2, <3>3 DEF Login, TypeOK
  <2>6. ASSUME NEW m \in Msg, GroupChat(c, m) \/ \E u \in User : OneChat(c, m, u)
        PROVE  TypeOK'
    <3>1. h' \in [Conn -> HandlerType]
      BY <1>1, <2>1, <2>6, HandlerSteps
    <3>2. QED
      BY <1>2, <2>6, <3>1 DEF GroupChat, OneChat, BeginChat, TypeOK
  <2>7. QED
    BY <1>4, <2>2, <2>3, <2>4, <2>5, <2>6 DEF ClientStep
<1>5. ASSUME NEW s \in Server, ObserverFind(s) PROVE TypeOK'
  <2>1. Head(chan[s]) \in Copy /\ Tail(chan[s]) \in Seq(Copy)
    BY <1>2, <1>5, HeadTailProperties DEF ObserverFind
  <2>2. chan' \in [Server -> Seq(Copy)]
    BY <1>2, <1>5, <2>1 DEF ObserverFind
  <2>3. PICK p \in Copy : p = Head(chan[s])
    BY <2>1
  <2>4. <<p>> \in Seq(Copy)
    OBVIOUS
  <2>5. \/ handed' = [handed EXCEPT ![p] = handed[p] + 1] /\ obs' = obs
        \/ obs' = [obs EXCEPT ![s] = <<p>>] /\ handed' = handed
    BY <1>5, <2>3 DEF ObserverFind
  <2>6. handed' \in [Copy -> Nat] /\ obs' \in [Server -> Seq(Copy)]
    <3>1. PICK n, q : n = handed[p] + 1 /\ q = <<p>>
      OBVIOUS
    <3>2. n \in Nat /\ q \in Seq(Copy)
      BY <1>2, <2>4, <3>1
    <3>3. \/ handed' = [handed EXCEPT ![p] = n] /\ obs' = obs
          \/ obs' = [obs EXCEPT ![s] = q] /\ handed' = handed
      BY <2>5, <3>1, Zenon
    <3>4. handed' \in [Copy -> Nat]
      BY <1>2, <3>2, <3>3
    <3>5. obs' \in [Server -> Seq(Copy)]
      BY <1>2, <3>2, <3>3
    <3>6. QED
      BY <3>4, <3>5
  <2>7. QED
    BY <1>2, <1>5, <2>2, <2>6 DEF ObserverFind, TypeOK
<1>6. ASSUME NEW s \in Server, ObserverStore(s) PROVE TypeOK'
  <2>1. Head(obs[s]) \in Copy
    BY <1>2, <1>6, HeadTailProperties DEF ObserverStore
  <2>2. Head(obs[s])[1] \in Msg /\ Head(obs[s])[2] \in User
    BY <2>1 DEF Copy
  <2>3. offline' \in [User -> Seq(Msg)]
    BY <1>1, <1>6, <2>2, StoreType DEF ObserverStore
  <2>4. obs' \in [Server -> Seq(Copy)]
    <3>1. <<>> \in Seq(Copy)
      OBVIOUS
    <3>2. QED
      BY <1>2, <1>6, <3>1 DEF ObserverStore
  <2>5. QED
    BY <1>2, <1>6, <2>3, <2>4 DEF ObserverStore, TypeOK
<1>7. ASSUME NEW s \in Server, RedisExecute(s) PROVE TypeOK'
  <2>1. /\ Head(cmds[s]) \in [sub : BOOLEAN, user : User]
        /\ Tail(cmds[s]) \in Seq([sub : BOOLEAN, user : User])
    BY <1>2, <1>7, HeadTailProperties DEF RedisExecute
  <2>2. PICK k \in [sub : BOOLEAN, user : User] : k = Head(cmds[s])
    BY <2>1
  <2>3. Execute(subs[s], k) \in SUBSET User
    BY <1>2 DEF Execute
  <2>4. /\ subs' = [subs EXCEPT ![s] = Execute(subs[s], k)]
        /\ cmds' = [cmds EXCEPT ![s] = Tail(cmds[s])]
    BY <1>7, <2>2, Zenon DEF RedisExecute
  <2>5. /\ subs' \in [Server -> SUBSET User]
        /\ cmds' \in [Server -> Seq([sub : BOOLEAN, user : User])]
    BY <1>2, <2>1, <2>3, <2>4
  <2>6. QED
    BY <1>2, <1>7, <2>5 DEF RedisExecute, TypeOK
<1>8. ASSUME NEW s \in Server, Exit(s), exits' \in Nat
      PROVE  TypeOK'
  <2>1. <<>> \in Seq(Copy) /\ <<>> \in Seq([sub : BOOLEAN, user : User])
    OBVIOUS
  <2>2. /\ map' \in [Server -> [User -> Conn \union {None}]]
        /\ subs' \in [Server -> SUBSET User]
    BY <1>2, <1>8 DEF Exit, EmptyMap
  <2>3. /\ cmds' \in [Server -> Seq([sub : BOOLEAN, user : User])]
        /\ chan' \in [Server -> Seq(Copy)] /\ obs' \in [Server -> Seq(Copy)]
    BY <1>2, <1>8, <2>1 DEF Exit
  <2>4. PICK k \in HandlerType : k = Handler("closed")
    <3>1. PICK no, f, none : no = {} /\ f = FALSE /\ none = <<>>
      OBVIOUS
    <3>2. Handler("closed") = Full("closed", None, no, None, f, none)
      BY <3>1, Zenon DEF Handler, Full
    <3>3. no \in SUBSET User /\ f \in BOOLEAN /\ none \in Seq(Msg)
      <4>1. {} \in SUBSET User /\ FALSE \in BOOLEAN /\ <<>> \in Seq(Msg)
        OBVIOUS
      <4>2. QED
        BY <3>1, <4>1
    <3>4. /\ "closed" \in Pcs /\ None \in User \union {None}
          /\ None \in Msg \union {None}
      BY PcsFacts
    <3>5. PICK r : r = Full("closed", None, no, None, f, none)
      OBVIOUS
    <3>6. r \in HandlerType
      BY <3>3, <3>4, <3>5, Fields
    <3>7. QED
      BY <3>2, <3>5, <3>6, Zenon
  <2>5. h' \in [Conn -> HandlerType]
    BY <1>2, <1>8, <2>4 DEF Exit
  <2>6. /\ open' \in [Conn -> BOOLEAN] /\ acct' \in [Conn -> User \union {None}]
        /\ acked' \in SUBSET Conn /\ exiting' \in SUBSET Server
    BY <1>2, <1>8 DEF Exit
  <2>7. QED
    BY <1>2, <1>8, <2>2, <2>3, <2>5, <2>6 DEF Exit, TypeOK
<1>9. ASSUME NEW s \in Server, ResetState(s) PROVE TypeOK'
  <2>1. /\ db' \in [User -> {"online", "offline"}]
        /\ exiting' \in SUBSET Server /\ exits' \in Nat
    BY <1>2, <1>9 DEF ResetState
  <2>2. QED
    BY <1>2, <1>9, <2>1 DEF ResetState, TypeOK
<1>10. ASSUME NEW s \in Server, ResetExit(s) \/ Crash(s) PROVE TypeOK'
  <2>1. Exit(s) /\ exits' \in Nat
    BY <1>2, <1>10 DEF ResetExit, Crash
  <2>2. QED
    BY <1>8, <2>1
<1>11. CASE UNCHANGED vars
  BY <1>2, <1>11 DEF vars, TypeOK
<1>12. QED
  BY <1>3, <1>4, <1>5, <1>6, <1>7, <1>9, <1>10, <1>11 DEF Next, ObserverStep

-----------------------------------------------------------------------------
(* What the map holds.                                                     *)

\* A step for connection c does not touch the handlers and the clients of the
\* others, and enters no other connection into a map.
Local(c) ==
  /\ \A d \in Conn : d # c =>
       /\ h'[d] = h[d] /\ open'[d] = open[d] /\ acct'[d] = acct[d]
       /\ d \in acked' <=> d \in acked
  /\ \A s \in Server, u \in User : map'[s][u] \in {map[s][u], None, c}

\* The client of connection c notices nothing.
Silent(c) ==
  /\ open'[c] = open[c] /\ acct'[c] = acct[c]
  /\ c \in acked' <=> c \in acked

\* For a step of connection c it is enough to look at c.
LEMMA LocalKeeps ==
  ASSUME TypeOK, HandlerInv, EntryInv, NEW c \in Conn, Local(c),
         HandlerOk(c)', EntryOk(c)'
  PROVE  HandlerInv' /\ EntryInv'
<1>1. None \notin Conn
  BY TypeFacts
<1>2. HandlerInv'
  <2>1. SUFFICES ASSUME NEW d \in Conn PROVE HandlerOk(d)'
    BY DEF HandlerInv
  <2>2. CASE d = c
    BY <2>2
  <2>3. CASE d # c
    <3>1. HandlerOk(d)
      BY DEF HandlerInv
    <3>2. QED
      BY <2>3, <3>1 DEF HandlerOk, Local
  <2>4. QED
    BY <2>2, <2>3
<1>3. EntryInv'
  <2>1. SUFFICES ASSUME NEW d \in Conn PROVE EntryOk(d)'
    BY DEF EntryInv
  <2>2. CASE d = c
    BY <2>2
  <2>3. CASE d # c
    <3>1. EntryOk(d)
      BY DEF EntryInv
    <3>2. \A s \in Server, u \in User : map'[s][u] = d => map[s][u] = d
      BY <1>1, <2>3 DEF Local
    <3>3. h'[d] = h[d] /\ open'[d] = open[d] /\ acct'[d] = acct[d]
      BY <2>3 DEF Local
    <3>4. QED
      BY <3>1, <3>2, <3>3 DEF EntryOk
  <2>4. QED
    BY <2>2, <2>3
<1>4. QED
  BY <1>2, <1>3

\* A handler goes on, and neither the client nor the map is concerned.
LEMMA SilentMove ==
  ASSUME TypeOK, NEW c \in Conn, NEW p, NEW u, NEW m, Moved(c, p, u, m),
         UNCHANGED <<open, acct, acked, map>>
  PROVE  Local(c) /\ Silent(c)
BY DEF Moved, Local, Silent

\* HandlerInv and EntryInv survive each step of a connection, which is local.
LEMMA LocalStep ==
  ASSUME MapInv, NEW c \in Conn, HandlerStep(c) \/ ClientStep(c)
  PROVE  Local(c) /\ HandlerInv' /\ EntryInv'
<1> USE DEF redisVars, histVars, msgVars, clientVars, lifeVars
<1>1. TypeOK /\ HandlerInv /\ EntryInv
  BY DEF MapInv
<1>2. HandlerOk(c) /\ EntryOk(c)
  BY <1>1 DEF HandlerInv, EntryInv
<1>3. /\ h \in [Conn -> HandlerType]
      /\ open \in [Conn -> BOOLEAN] /\ acct \in [Conn -> User \union {None}]
      /\ acked \in SUBSET Conn /\ SrvOf \in [Conn -> Server]
      /\ None \notin Conn /\ None \notin User
      /\ map \in [Server -> [User -> Conn \union {None}]]
  BY <1>1, TypeFacts
<1>4. ASSUME Local(c), HandlerOk(c)', EntryOk(c)' PROVE Local(c) /\ HandlerInv' /\ EntryInv'
  BY <1>1, <1>4, LocalKeeps
<1>5. CASE Unsubscribe(c)
  <2>1. \/ At(c, "o_unsubscribe") /\ Moved(c, "o_offline", h[c].user, h[c].msg)
        \/ At(c, "d_unsubscribe") /\ Moved(c, "d_offline", h[c].user, h[c].msg)
    BY <1>1, <1>5, HandlerSteps
  <2>2. UNCHANGED <<open, acct, acked, map>>
    BY <1>5 DEF Unsubscribe
  <2>3. Local(c) /\ Silent(c)
    BY <1>1, <2>1, <2>2, SilentMove
  <2>4. HandlerOk(c)'
    BY <1>2, <1>5, <2>1, <2>3
       DEF Unsubscribe, At, Moved, Silent, HandlerOk,
           LoginPcs, LeavePcs, ChatPcs, Serving, Inserted
  <2>5. EntryOk(c)'
    BY <1>2, <1>5, <2>1, <2>2, <2>3
       DEF Unsubscribe, At, Moved, Silent, EntryOk,
           LoginPcs, LeavePcs, ChatPcs, Serving, Inserted
  <2>6. QED
    BY <1>4, <2>3, <2>4, <2>5
<1>6. CASE SetOffline(c)
  <2>1. \/ At(c, "o_offline") /\ Moved(c, "idle", None, None)
        \/ At(c, "d_offline") /\ Moved(c, "closed", None, None)
    BY <1>1, <1>6, HandlerSteps
  <2>2. UNCHANGED <<open, acct, acked, map>>
    BY <1>6 DEF SetOffline
  <2>3. Local(c) /\ Silent(c)
    BY <1>1, <2>1, <2>2, SilentMove
  <2>4. HandlerOk(c)'
    BY <1>2, <1>6, <2>1, <2>3
       DEF SetOffline, At, Moved, Silent, HandlerOk,
           LoginPcs, LeavePcs, ChatPcs, Serving, Inserted
  <2>5. EntryOk(c)'
    BY <1>2, <1>6, <2>1, <2>2, <2>3
       DEF SetOffline, At, Moved, Silent, EntryOk,
           LoginPcs, LeavePcs, ChatPcs, Serving, Inserted
  <2>6. QED
    BY <1>4, <2>3, <2>4, <2>5
<1>7. CASE LoginSubscribe(c)
  <2>1. Moved(c, "l_online", h[c].user, h[c].msg)
    BY <1>1, <1>7, HandlerSteps
  <2>2. UNCHANGED <<open, acct, acked, map>>
    BY <1>7 DEF LoginSubscribe
  <2>3. Local(c) /\ Silent(c)
    BY <1>1, <2>1, <2>2, SilentMove
  <2>4. HandlerOk(c)'
    BY <1>2, <1>7, <2>1, <2>3
       DEF LoginSubscribe, At, Moved, Silent, HandlerOk,
           LoginPcs, LeavePcs, ChatPcs, Serving, Inserted
  <2>5. EntryOk(c)'
    BY <1>2, <1>7, <2>1, <2>2, <2>3
       DEF LoginSubscribe, At, Moved, Silent, EntryOk,
           LoginPcs, LeavePcs, ChatPcs, Serving, Inserted
  <2>6. QED
    BY <1>4, <2>3, <2>4, <2>5
<1>8. CASE LoginOnline(c)
  <2>1. Moved(c, "l_read", h[c].user, h[c].msg)
    BY <1>1, <1>8, HandlerSteps
  <2>2. UNCHANGED <<open, acct, acked, map>>
    BY <1>8 DEF LoginOnline
  <2>3. Local(c) /\ Silent(c)
    BY <1>1, <2>1, <2>2, SilentMove
  <2>4. HandlerOk(c)'
    BY <1>2, <1>8, <2>1, <2>3
       DEF LoginOnline, At, Moved, Silent, HandlerOk,
           LoginPcs, LeavePcs, ChatPcs, Serving, Inserted
  <2>5. EntryOk(c)'
    BY <1>2, <1>8, <2>1, <2>2, <2>3
       DEF LoginOnline, At, Moved, Silent, EntryOk,
           LoginPcs, LeavePcs, ChatPcs, Serving, Inserted
  <2>6. QED
    BY <1>4, <2>3, <2>4, <2>5
<1>9. CASE LoginReadOffline(c)
  <2>1. \/ Moved(c, "l_remove", h[c].user, h[c].msg)
        \/ Moved(c, "l_ack", h[c].user, h[c].msg)
    BY <1>1, <1>9, HandlerSteps
  <2>2. UNCHANGED <<open, acct, acked, map>>
    BY <1>9 DEF LoginReadOffline
  <2>3. Local(c) /\ Silent(c)
    BY <1>1, <2>1, <2>2, SilentMove
  <2>4. HandlerOk(c)'
    BY <1>2, <1>9, <2>1, <2>3
       DEF LoginReadOffline, At, Moved, Silent, HandlerOk,
           LoginPcs, LeavePcs, ChatPcs, Serving, Inserted
  <2>5. EntryOk(c)'
    BY <1>2, <1>9, <2>1, <2>2, <2>3
       DEF LoginReadOffline, At, Moved, Silent, EntryOk,
           LoginPcs, LeavePcs, ChatPcs, Serving, Inserted
  <2>6. QED
    BY <1>4, <2>3, <2>4, <2>5
<1>10. CASE LoginRemoveOffline(c)
  <2>1. Moved(c, "l_ack", h[c].user, h[c].msg)
    BY <1>1, <1>10, HandlerSteps
  <2>2. UNCHANGED <<open, acct, acked, map>>
    BY <1>10 DEF LoginRemoveOffline
  <2>3. Local(c) /\ Silent(c)
    BY <1>1, <2>1, <2>2, SilentMove
  <2>4. HandlerOk(c)'
    BY <1>2, <1>10, <2>1, <2>3
       DEF LoginRemoveOffline, At, Moved, Silent, HandlerOk,
           LoginPcs, LeavePcs, ChatPcs, Serving, Inserted
  <2>5. EntryOk(c)'
    BY <1>2, <1>10, <2>1, <2>2, <2>3
       DEF LoginRemoveOffline, At, Moved, Silent, EntryOk,
           LoginPcs, LeavePcs, ChatPcs, Serving, Inserted
  <2>6. QED
    BY <1>4, <2>3, <2>4, <2>5
<1>11. CASE ChatQuery(c)
  <2>1. \/ Moved(c, "c_publish", h[c].user, h[c].msg)
        \/ Moved(c, "c_store", h[c].user, h[c].msg)
    BY <1>1, <1>11, HandlerSteps
  <2>2. UNCHANGED <<open, acct, acked, map>>
    BY <1>11 DEF ChatQuery
  <2>3. Local(c) /\ Silent(c)
    BY <1>1, <2>1, <2>2, SilentMove
  <2>4. HandlerOk(c)'
    BY <1>2, <1>11, <2>1, <2>3
       DEF ChatQuery, At, Moved, Silent, HandlerOk,
           LoginPcs, LeavePcs, ChatPcs, Serving, Inserted
  <2>5. EntryOk(c)'
    BY <1>2, <1>11, <2>1, <2>2, <2>3
       DEF ChatQuery, At, Moved, Silent, EntryOk,
           LoginPcs, LeavePcs, ChatPcs, Serving, Inserted
  <2>6. QED
    BY <1>4, <2>3, <2>4, <2>5
<1>12. CASE ChatPublish(c) \/ ChatStore(c)
  <2>1. \/ Moved(c, "idle", None, None)
        \/ Moved(c, "c_find", None, h[c].msg)
    BY <1>1, <1>12, HandlerSteps
  <2>2. UNCHANGED <<open, acct, acked, map>>
    BY <1>12 DEF ChatPublish, ChatStore
  <2>3. Local(c) /\ Silent(c)
    BY <1>1, <2>1, <2>2, SilentMove
  <2>4. HandlerOk(c)'
    BY <1>2, <1>12, <2>1, <2>3
       DEF ChatPublish, ChatStore, At, Moved, Silent, HandlerOk,
           LoginPcs, LeavePcs, ChatPcs, Serving, Inserted
  <2>5. EntryOk(c)'
    BY <1>2, <1>12, <2>1, <2>2, <2>3
       DEF ChatPublish, ChatStore, At, Moved, Silent, EntryOk,
           LoginPcs, LeavePcs, ChatPcs, Serving, Inserted
  <2>6. QED
    BY <1>4, <2>3, <2>4, <2>5
<1>13. ASSUME NEW u \in User, ChatFind(c, u)
      PROVE  Local(c) /\ HandlerInv' /\ EntryInv'
  <2>1. \/ Moved(c, "idle", None, None)
        \/ Moved(c, "c_find", None, h[c].msg)
        \/ Moved(c, "c_query", u, h[c].msg)
    BY <1>1, <1>13, HandlerSteps
  <2>2. UNCHANGED <<open, acct, acked, map>>
    BY <1>13 DEF ChatFind
  <2>3. Local(c) /\ Silent(c)
    BY <1>1, <2>1, <2>2, SilentMove
  <2>4. HandlerOk(c)'
    BY <1>2, <1>13, <2>1, <2>3
       DEF ChatFind, At, Moved, Silent, HandlerOk,
           LoginPcs, LeavePcs, ChatPcs, Serving, Inserted
  <2>5. EntryOk(c)'
    BY <1>2, <1>13, <2>1, <2>2, <2>3
       DEF ChatFind, At, Moved, Silent, EntryOk,
           LoginPcs, LeavePcs, ChatPcs, Serving, Inserted
  <2>6. QED
    BY <1>4, <2>3, <2>4, <2>5
<1>14. ASSUME NEW m \in Msg, GroupChat(c, m) \/ \E u \in User : OneChat(c, m, u)
      PROVE  Local(c) /\ HandlerInv' /\ EntryInv'
  <2>1. Moved(c, "c_find", None, m)
    BY <1>1, <1>14, HandlerSteps
  <2>2. UNCHANGED <<open, acct, acked, map>> /\ At(c, "idle")
    BY <1>14 DEF GroupChat, OneChat, BeginChat, Ready
  <2>3. Local(c) /\ Silent(c)
    BY <1>1, <2>1, <2>2, SilentMove
  <2>4. HandlerOk(c)'
    BY <1>2, <1>14, <2>1, <2>2, <2>3
       DEF At, Moved, Silent, HandlerOk,
           LoginPcs, LeavePcs, ChatPcs, Serving, Inserted
  <2>5. EntryOk(c)'
    BY <1>2, <1>14, <2>1, <2>2, <2>3
       DEF At, Moved, Silent, EntryOk,
           LoginPcs, LeavePcs, ChatPcs, Serving, Inserted
  <2>6. QED
    BY <1>4, <2>3, <2>4, <2>5
<1>15. CASE Connect(c)
  <2>1. Moved(c, "idle", None, None)
    BY <1>1, <1>15, HandlerSteps
  <2>2. /\ open'[c] = TRUE /\ map' = map /\ acct' = acct /\ acked' = acked
    BY <1>1, <1>3, <1>15 DEF Connect
  <2>3. Local(c)
    BY <1>3, <1>15, <2>1, <2>2 DEF Connect, Moved, Local
  <2>4. HandlerOk(c)'
    BY <1>2, <1>3, <1>15, <2>1, <2>2
       DEF Connect, At, Ready, Moved, HandlerOk,
           LoginPcs, LeavePcs, ChatPcs, Serving, Inserted
  <2>5. EntryOk(c)'
    BY <1>2, <1>3, <1>15, <2>1, <2>2
       DEF Connect, At, Ready, Moved, EntryOk, HandlerOk,
           LoginPcs, LeavePcs, ChatPcs, Serving, Inserted
  <2>6. QED
    BY <1>4, <2>3, <2>4, <2>5
<1>16. CASE LoginQuery(c)
  <2>1. \/ /\ db[h[c].user] = "offline" /\ UNCHANGED acct
           /\ Moved(c, "l_insert", h[c].user, h[c].msg)
        \/ acct' = [acct EXCEPT ![c] = None] /\ Moved(c, "idle", None, None)
    BY <1>1, <1>16, HandlerSteps
  <2>2. /\ open' = open /\ map' = map /\ acked' = acked
    BY <1>1, <1>3, <1>16 DEF LoginQuery
  <2>3. Local(c)
    BY <1>3, <1>16, <2>1, <2>2 DEF LoginQuery, Moved, Local
  <2>4. HandlerOk(c)'
    BY <1>2, <1>3, <1>16, <2>1, <2>2
       DEF LoginQuery, At, Ready, Moved, HandlerOk,
           LoginPcs, LeavePcs, ChatPcs, Serving, Inserted
  <2>5. EntryOk(c)'
    BY <1>2, <1>3, <1>16, <2>1, <2>2
       DEF LoginQuery, At, Ready, Moved, EntryOk, HandlerOk,
           LoginPcs, LeavePcs, ChatPcs, Serving, Inserted
  <2>6. QED
    BY <1>4, <2>3, <2>4, <2>5
<1>17. CASE LoginAck(c)
  <2>1. Moved(c, "idle", None, None)
    BY <1>1, <1>17, HandlerSteps
  <2>2. /\ open' = open /\ map' = map /\ acct' = acct
        /\ acked' = IF open[c] THEN acked \union {c} ELSE acked
    BY <1>1, <1>3, <1>17 DEF LoginAck
  <2>3. Local(c)
    BY <1>3, <1>17, <2>1, <2>2 DEF LoginAck, Moved, Local
  <2>4. HandlerOk(c)'
    BY <1>2, <1>3, <1>17, <2>1, <2>2
       DEF LoginAck, At, Ready, Moved, HandlerOk,
           LoginPcs, LeavePcs, ChatPcs, Serving, Inserted
  <2>5. EntryOk(c)'
    BY <1>2, <1>3, <1>17, <2>1, <2>2
       DEF LoginAck, At, Ready, Moved, EntryOk, HandlerOk,
           LoginPcs, LeavePcs, ChatPcs, Serving, Inserted
  <2>6. QED
    BY <1>4, <2>3, <2>4, <2>5
<1>18. CASE Loginout(c)
  <2>1. Moved(c, "o_erase", acct[c], None)
    BY <1>1, <1>18, HandlerSteps
  <2>2. /\ open' = open /\ map' = map /\ acked' = acked \ {c}
        /\ acct' = [acct EXCEPT ![c] = None]
    BY <1>1, <1>3, <1>18 DEF Loginout
  <2>3. Local(c)
    BY <1>3, <1>18, <2>1, <2>2 DEF Loginout, Moved, Local
  <2>4. HandlerOk(c)'
    BY <1>2, <1>3, <1>18, <2>1, <2>2
       DEF Loginout, At, Ready, Moved, HandlerOk,
           LoginPcs, LeavePcs, ChatPcs, Serving, Inserted
  <2>5. EntryOk(c)'
    BY <1>2, <1>3, <1>18, <2>1, <2>2
       DEF Loginout, At, Ready, Moved, EntryOk, HandlerOk,
           LoginPcs, LeavePcs, ChatPcs, Serving, Inserted
  <2>6. QED
    BY <1>4, <2>3, <2>4, <2>5
<1>19. ASSUME NEW u \in User, Login(c, u)
      PROVE  Local(c) /\ HandlerInv' /\ EntryInv'
  <2>1. Moved(c, "l_query", u, None)
    BY <1>1, <1>19, HandlerSteps
  <2>2. /\ open' = open /\ map' = map /\ acked' = acked \ {c}
        /\ acct' = [acct EXCEPT ![c] = u]
    BY <1>1, <1>3, <1>19 DEF Login
  <2>3. Local(c)
    BY <1>3, <1>19, <2>1, <2>2 DEF Login, Moved, Local
  <2>4. HandlerOk(c)'
    BY <1>2, <1>3, <1>19, <2>1, <2>2
       DEF Login, At, Ready, Moved, HandlerOk,
           LoginPcs, LeavePcs, ChatPcs, Serving, Inserted
  <2>5. EntryOk(c)'
    BY <1>2, <1>3, <1>19, <2>1, <2>2
       DEF Login, At, Ready, Moved, EntryOk, HandlerOk,
           LoginPcs, LeavePcs, ChatPcs, Serving, Inserted
  <2>6. QED
    BY <1>4, <2>3, <2>4, <2>5
<1>20. CASE LoginInsert(c)
  <2>1. Moved(c, "l_subscribe", h[c].user, h[c].msg)
    BY <1>1, <1>20, HandlerSteps
  <2>2. SrvOf[c] \in Server /\ h[c].user \in User /\ UNCHANGED <<open, acct, acked>>
    BY <1>2, <1>3, <1>20 DEF LoginInsert, At, HandlerOk, LoginPcs, LeavePcs
  <2>3. /\ map'[SrvOf[c]][h[c].user] = IF map[SrvOf[c]][h[c].user] = None THEN c
                                      ELSE map[SrvOf[c]][h[c].user]
        /\ \A t \in Server, w \in User :
             t # SrvOf[c] \/ w # h[c].user => map'[t][w] = map[t][w]
    BY <1>1, <1>20, <2>2, MapMoves DEF LoginInsert
  <2>4. Local(c)
    <3>1. \A s \in Server, u \in User : map'[s][u] \in {map[s][u], None, c}
      BY <2>2, <2>3
    <3>2. QED
      BY <2>1, <2>2, <3>1 DEF Moved, Local
  <2>5. HandlerOk(c)'
    BY <1>2, <1>20, <2>1, <2>2
       DEF LoginInsert, At, Moved, HandlerOk,
           LoginPcs, LeavePcs, ChatPcs, Serving, Inserted
  <2>6. EntryOk(c)'
    BY <1>2, <1>3, <1>20, <2>1, <2>2, <2>3
       DEF LoginInsert, At, Moved, EntryOk,
           LoginPcs, LeavePcs, ChatPcs, Serving, Inserted
  <2>7. QED
    BY <1>4, <2>4, <2>5, <2>6
<1>21. CASE LogoutErase(c)
  <2>1. Moved(c, "o_unsubscribe", h[c].user, h[c].msg)
    BY <1>1, <1>21, HandlerSteps
  <2>2. SrvOf[c] \in Server /\ h[c].user \in User /\ UNCHANGED <<open, acct, acked>>
    BY <1>2, <1>3, <1>21 DEF LogoutErase, At, HandlerOk, LoginPcs, LeavePcs
  <2>3. /\ map'[SrvOf[c]][h[c].user] = None
        /\ \A t \in Server, w \in User :
             t # SrvOf[c] \/ w # h[c].user => map'[t][w] = map[t][w]
    BY <1>1, <1>21, <2>2, MapMoves DEF LogoutErase
  <2>4. Local(c)
    <3>1. \A s \in Server, u \in User : map'[s][u] \in {map[s][u], None, c}
      BY <2>2, <2>3
    <3>2. QED
      BY <2>1, <2>2, <3>1 DEF Moved, Local
  <2>5. HandlerOk(c)'
    BY <1>2, <1>21, <2>1, <2>2
       DEF LogoutErase, At, Moved, HandlerOk,
           LoginPcs, LeavePcs, ChatPcs, Serving, Inserted
  <2>6. EntryOk(c)'
    BY <1>2, <1>3, <1>21, <2>1, <2>2, <2>3
       DEF LogoutErase, At, Moved, EntryOk,
           LoginPcs, LeavePcs, ChatPcs, Serving, Inserted
  <2>7. QED
    BY <1>4, <2>4, <2>5, <2>6
<1>22. CASE CloseErase(c)
  <2>1. /\ UNCHANGED <<open, acct, acked>> /\ At(c, "idle") /\ ~open[c]
        /\ SrvOf[c] \in Server
    BY <1>3, <1>22 DEF CloseErase
  <2>2. CASE /\ \A u \in User : map[SrvOf[c]][u] # c
             /\ UNCHANGED map /\ Moved(c, "closed", None, None)
    <3>1. Local(c) /\ Silent(c)
      BY <1>1, <2>1, <2>2, SilentMove
    <3>2. HandlerOk(c)'
      BY <1>2, <2>1, <2>2, <3>1
         DEF At, Moved, Silent, HandlerOk, LoginPcs, LeavePcs, ChatPcs, Serving
    <3>3. EntryOk(c)'
      BY <1>2, <2>1, <2>2, <3>1 DEF Moved, Silent, EntryOk
    <3>4. QED
      BY <1>4, <3>1, <3>2, <3>3
  <2>3. ASSUME NEW u \in User, map[SrvOf[c]][u] = c, MapErase(SrvOf[c], u),
               Moved(c, "d_unsubscribe", u, None)
        PROVE  Local(c) /\ HandlerInv' /\ EntryInv'
    <3>1. /\ map'[SrvOf[c]][u] = None
          /\ \A t \in Server, w \in User :
               t # SrvOf[c] \/ w # u => map'[t][w] = map[t][w]
      BY <1>1, <2>1, <2>3, MapMoves
    <3>2. \A s \in Server, w \in User : map'[s][w] \in {map[s][w], None, c}
      BY <2>1, <3>1
    <3>3. Local(c)
      BY <2>1, <2>3, <3>2 DEF Moved, Local
    <3>4. HandlerOk(c)'
      BY <1>2, <2>1, <2>3
         DEF At, Moved, HandlerOk, LoginPcs, LeavePcs, ChatPcs, Serving
    <3>5. EntryOk(c)'
      BY <1>2, <1>3, <2>1, <2>3, <3>1 DEF EntryOk
    <3>6. QED
      BY <1>4, <3>3, <3>4, <3>5
  <2>4. QED
    BY <1>1, <1>22, <2>2, <2>3, HandlerSteps
<1>23. CASE ClientClose(c)
  <2>1. /\ h' = h /\ map' = map /\ open'[c] = FALSE /\ c \notin acked'
        /\ acct'[c] = None
    BY <1>3, <1>23 DEF ClientClose
  <2>2. Local(c)
    BY <1>3, <1>23, <2>1 DEF ClientClose, Local
  <2>3. HandlerOk(c)'
    BY <1>2, <2>1 DEF HandlerOk
  <2>4. EntryOk(c)'
    BY <1>2, <2>1 DEF EntryOk
  <2>5. QED
    BY <1>4, <2>2, <2>3, <2>4
<1>24. QED
  <2>1. CASE HandlerStep(c)
    BY <1>5, <1>6, <1>7, <1>8, <1>9, <1>10, <1>11, <1>12, <1>13, <1>16, <1>17,
       <1>20, <1>21, <1>22, <2>1 DEF HandlerStep
  <2>2. CASE ClientStep(c)
    BY <1>14, <1>15, <1>18, <1>19, <1>23, <2>2 DEF ClientStep
  <2>3. QED
    BY <2>1, <2>2

\* The end of a server takes its entries and its connections together.
LEMMA ExitStep ==
  ASSUME MapInv, NEW s \in Server, Exit(s)
  PROVE  HandlerInv' /\ EntryInv' /\ NameInv'
<1>1. TypeOK /\ HandlerInv /\ EntryInv /\ NameInv
  BY DEF MapInv
<1>2. /\ h \in [Conn -> HandlerType]
      /\ open \in [Conn -> BOOLEAN] /\ acct \in [Conn -> User \union {None}]
      /\ acked \in SUBSET Conn /\ None \notin Conn
      /\ map \in [Server -> [User -> Conn \union {None}]]
  BY <1>1, TypeFacts
<1>3. ASSUME NEW c \in Conn PROVE HandlerOk(c)' /\ EntryOk(c)' /\ NameOk(c)'
  <2>1. HandlerOk(c) /\ EntryOk(c) /\ NameOk(c) /\ names' = names
    BY <1>1 DEF HandlerInv, EntryInv, NameInv, Exit, histVars
  <2>2. \A u \in User : /\ map'[s][u] = None
                        /\ \A t \in Server : t # s => map'[t][u] = map[t][u]
    BY <1>2 DEF Exit, EmptyMap
  <2>3. CASE SrvOf[c] = s /\ ~At(c, "new")
    <3>1. h'[c] = Handler("closed") /\ c \notin acked'
      BY <2>3 DEF Exit
    <3>2. h'[c].pc = "closed"
      BY <3>1 DEF Handler
    <3>3. HandlerOk(c)'
      BY <3>1, <3>2
         DEF HandlerOk, LoginPcs, LeavePcs, ChatPcs
    <3>4. \A t \in Server, u \in User : map'[t][u] # c
      BY <1>2, <2>1, <2>2, <2>3 DEF NameOk
    <3>5. QED
      BY <3>3, <3>4 DEF EntryOk, NameOk
  <2>4. CASE ~(SrvOf[c] = s /\ ~At(c, "new"))
    <3>1. /\ h'[c] = h[c] /\ open'[c] = open[c] /\ acct'[c] = acct[c]
          /\ c \in acked' <=> c \in acked
      <4>1. h'[c] = h[c] /\ acct'[c] = acct[c] /\ (c \in acked' <=> c \in acked)
        BY <2>4 DEF Exit
      <4>2. open'[c] = open[c]
        <5>1. open'[c] = (open[c] /\ ~(SrvOf[c] = s /\ ~At(c, "new")))
          BY DEF Exit
        <5>2. open[c] \in BOOLEAN
          BY <1>2
        <5>3. QED
          BY <2>4, <5>1, <5>2
      <4>3. QED
        BY <4>1, <4>2
    <3>2. HandlerOk(c)'
      BY <2>1, <3>1 DEF HandlerOk
    <3>3. EntryOk(c)'
      BY <1>2, <2>1, <2>2, <3>1 DEF EntryOk
    <3>4. NameOk(c)'
      <4>1. \A t \in Server, u \in User : map'[t][u] = c => t # s /\ map[t][u] = c
        BY <1>2, <2>2
      <4>2. ASSUME NEW t \in Server, NEW u \in User, map'[t][u] = c
            PROVE  /\ SrvOf[c] = t /\ u \in names[c] /\ h[c].pc # "new"
                   /\ h[c].pc \in Closing =>
                        \E v \in names[c] \ {u} : map'[t][v] # c
        <5>1. t # s /\ map[t][u] = c /\ names[c] \subseteq User
          BY <2>1, <4>1, <4>2, <1>1, TypeFacts
        <5>2. \A v \in User : map'[t][v] = map[t][v]
          BY <2>2, <5>1
        <5>3. QED
          BY <2>1, <5>1, <5>2 DEF NameOk
      <4>3. QED
        BY <2>1, <3>1, <4>2 DEF NameOk
    <3>5. QED
      BY <3>2, <3>3, <3>4
  <2>5. QED
    BY <2>3, <2>4
<1>4. QED
  BY <1>3 DEF HandlerInv, EntryInv, NameInv

\* Initially no connection is in a map.
LEMMA MapInit == Init => MapInv
<1> SUFFICES ASSUME Init PROVE MapInv
  OBVIOUS
<1>1. h = [c \in Conn |-> Handler("new")]
  BY DEF Init
<1>2. \A c \in Conn : h[c].pc = "new"
  BY <1>1 DEF Handler
<1>3. TypeOK
  <2>1. PICK k : k = Handler("new")
    OBVIOUS
  <2>2. k \in HandlerType
    <3>1. PICK no, f, none : no = {} /\ f = FALSE /\ none = <<>>
      OBVIOUS
    <3>2. k = Full("new", None, no, None, f, none)
      BY <2>1, <3>1, Zenon DEF Handler, Full
    <3>3. no \in SUBSET User /\ f \in BOOLEAN /\ none \in Seq(Msg)
      <4>1. {} \in SUBSET User /\ FALSE \in BOOLEAN /\ <<>> \in Seq(Msg)
        OBVIOUS
      <4>2. QED
        BY <3>1, <4>1
    <3>4. /\ "new" \in Pcs /\ None \in User \union {None}
          /\ None \in Msg \union {None}
      BY PcsFacts
    <3>5. QED
      BY <3>2, <3>3, <3>4, Fields
  <2>3. h \in [Conn -> HandlerType]
    <3>1. h = [c \in Conn |-> k]
      BY <1>1, <2>1, Zenon
    <3>2. QED
      BY <2>2, <3>1
  <2>4. /\ map \in [Server -> [User -> Conn \union {None}]]
        /\ subs \in [Server -> SUBSET User]
        /\ db \in [User -> {"online", "offline"}]
    BY DEF Init, EmptyMap
  <2>5. /\ cmds \in [Server -> Seq([sub : BOOLEAN, user : User])]
        /\ chan \in [Server -> Seq(Copy)] /\ obs \in [Server -> Seq(Copy)]
        /\ offline \in [User -> Seq(Msg)]
    <3>1. /\ <<>> \in Seq([sub : BOOLEAN, user : User]) /\ <<>> \in Seq(Copy)
          /\ <<>> \in Seq(Msg)
      OBVIOUS
    <3>2. QED
      BY <3>1 DEF Init
  <2>6. /\ open \in [Conn -> BOOLEAN] /\ acct \in [Conn -> User \union {None}]
        /\ acked \in SUBSET Conn /\ logins \in [Conn -> Nat]
        /\ names \in [Conn -> SUBSET User]
        /\ exiting \in SUBSET Server /\ exits \in Nat
        /\ used \in SUBSET Msg /\ handed \in [Copy -> Nat]
    BY ChatAssumption DEF Init
  <2>7. QED
    BY <2>3, <2>4, <2>5, <2>6 DEF TypeOK
<1>4. HandlerInv
  BY <1>2 DEF Init, HandlerInv, HandlerOk, LoginPcs, LeavePcs, ChatPcs
<1>5. EntryInv /\ NameInv
  <2>1. \A s \in Server, u \in User : map[s][u] = None
    BY DEF Init, EmptyMap
  <2>2. None \notin Conn
    BY ChatAssumption
  <2>3. QED
    BY <2>1, <2>2 DEF EntryInv, EntryOk, NameInv, NameOk
<1>6. QED
  BY <1>3, <1>4, <1>5 DEF MapInv

\* For a step of connection c it is enough to look at the names of c.
LEMMA NamesKeep ==
  ASSUME TypeOK, NameInv, NEW c \in Conn, Local(c),
         \A d \in Conn : d # c => names'[d] = names[d], NameOk(c)'
  PROVE  NameInv'
<1>1. None \notin Conn
  BY TypeFacts
<1>2. SUFFICES ASSUME NEW d \in Conn, d # c PROVE NameOk(d)'
  BY DEF NameInv
<1>3. NameOk(d) /\ h'[d] = h[d] /\ names'[d] = names[d]
  BY <1>2 DEF NameInv, Local
<1>4. \A s \in Server, u \in User : map'[s][u] = d => map[s][u] = d
  BY <1>1, <1>2 DEF Local
<1>5. ASSUME NEW s \in Server, NEW u \in User, map'[s][u] = d
      PROVE  /\ SrvOf[d] = s /\ u \in names'[d] /\ h'[d].pc # "new"
             /\ h'[d].pc \in Closing => \E v \in names'[d] \ {u} : map'[s][v] # d
  <2>1. map[s][u] = d /\ names[d] \subseteq User
    BY <1>4, <1>5, TypeFacts
  <2>2. QED
    BY <1>3, <1>4, <1>5, <2>1 DEF NameOk
<1>6. QED
  BY <1>5 DEF NameOk

\* A connection does not take the accounts of others, and forgets one of its
\* own only together with the entry.
LEMMA NameStep ==
  ASSUME MapInv, NEW c \in Conn, HandlerStep(c) \/ ClientStep(c)
  PROVE  NameInv'
<1> USE DEF redisVars, histVars, msgVars, clientVars, lifeVars
<1>1. /\ TypeOK /\ HandlerInv /\ NameInv /\ HandlerOk(c) /\ NameOk(c)
      /\ Local(c)
  BY LocalStep DEF MapInv, HandlerInv, NameInv
<1>2. /\ h \in [Conn -> HandlerType] /\ names \in [Conn -> SUBSET User]
      /\ SrvOf \in [Conn -> Server] /\ None \notin Conn
      /\ map \in [Server -> [User -> Conn \union {None}]]
  BY <1>1, TypeFacts
<1>3. ASSUME \A d \in Conn : d # c => names'[d] = names[d], NameOk(c)' PROVE NameInv'
  BY <1>1, <1>3, NamesKeep
<1>4. ASSUME UNCHANGED <<map, names>>,
             h'[c].pc # "new" \/ h[c].pc = "new",
             h'[c].pc \in Closing => h[c].pc \in Closing
      PROVE  NameInv'
  <2>1. NameOk(c)'
    BY <1>1, <1>4 DEF NameOk
  <2>2. QED
    BY <1>3, <1>4, <2>1
<1>5. CASE LoginInsert(c)
  <2>1. Moved(c, "l_subscribe", h[c].user, h[c].msg)
    BY <1>1, <1>5, HandlerSteps
  <2>2. SrvOf[c] \in Server /\ h[c].user \in User
    BY <1>1, <1>2, <1>5 DEF LoginInsert, At, HandlerOk, LoginPcs, LeavePcs
  <2>3. \A t \in Server, w \in User :
          t # SrvOf[c] \/ w # h[c].user => map'[t][w] = map[t][w]
    BY <1>1, <1>5, <2>2, MapMoves DEF LoginInsert
  <2>4. /\ names'[c] = names[c] \union {h[c].user}
        /\ \A d \in Conn : d # c => names'[d] = names[d]
    BY <1>2, <1>5 DEF LoginInsert
  <2>5. NameOk(c)'
    BY <1>1, <2>1, <2>2, <2>3, <2>4 DEF Moved, NameOk, Closing
  <2>6. QED
    BY <1>3, <2>4, <2>5
<1>6. CASE LogoutErase(c)
  <2>1. Moved(c, "o_unsubscribe", h[c].user, h[c].msg)
    BY <1>1, <1>6, HandlerSteps
  <2>2. SrvOf[c] \in Server /\ h[c].user \in User
    BY <1>1, <1>2, <1>6 DEF LogoutErase, At, HandlerOk, LoginPcs, LeavePcs
  <2>3. /\ map'[SrvOf[c]][h[c].user] = None
        /\ \A t \in Server, w \in User :
             t # SrvOf[c] \/ w # h[c].user => map'[t][w] = map[t][w]
    BY <1>1, <1>6, <2>2, MapMoves DEF LogoutErase
  <2>4. /\ names'[c] = names[c] \ {h[c].user}
        /\ \A d \in Conn : d # c => names'[d] = names[d]
    BY <1>2, <1>6 DEF LogoutErase
  <2>5. NameOk(c)'
    BY <1>1, <1>2, <2>1, <2>2, <2>3, <2>4 DEF Moved, NameOk, Closing
  <2>6. QED
    BY <1>3, <2>4, <2>5
<1>7. CASE CloseErase(c)
  <2>1. UNCHANGED names /\ SrvOf[c] \in Server
    BY <1>2, <1>7 DEF CloseErase
  <2>2. CASE /\ \A u \in User : map[SrvOf[c]][u] # c
             /\ UNCHANGED map /\ Moved(c, "closed", None, None)
    <3>1. NameOk(c)'
      BY <1>1, <2>2 DEF NameOk
    <3>2. QED
      BY <1>3, <2>1, <3>1
  <2>3. ASSUME NEW u \in User, map[SrvOf[c]][u] = c, MapErase(SrvOf[c], u),
               Moved(c, "d_unsubscribe", u, None)
        PROVE  NameInv'
    <3>1. /\ map'[SrvOf[c]][u] = None
          /\ \A t \in Server, w \in User :
               t # SrvOf[c] \/ w # u => map'[t][w] = map[t][w]
      BY <1>1, <2>1, <2>3, MapMoves
    <3>2. u \in names[c] /\ h'[c].pc = "d_unsubscribe"
      BY <1>1, <2>1, <2>3 DEF NameOk, Moved
    <3>3. ASSUME NEW s \in Server, NEW w \in User, map'[s][w] = c
          PROVE  /\ SrvOf[c] = s /\ w \in names'[c]
                 /\ \E v \in names'[c] \ {w} : map'[s][v] # c
      <4>1. s = SrvOf[c] /\ w \in names[c] /\ w # u
        <5>1. s # SrvOf[c] \/ w # u
          BY <1>2, <3>1, <3>3
        <5>2. map[s][w] = c
          BY <3>1, <3>3, <5>1
        <5>3. QED
          BY <1>1, <5>1, <5>2 DEF NameOk
      <4>2. u \in names'[c] \ {w} /\ map'[s][u] # c
        BY <1>2, <2>1, <3>1, <3>2, <4>1
      <4>3. QED
        BY <2>1, <4>1, <4>2
    <3>4. NameOk(c)'
      BY <3>2, <3>3 DEF NameOk
    <3>5. QED
      BY <1>3, <2>1, <3>4
  <2>4. QED
    BY <1>1, <1>7, <2>2, <2>3, HandlerSteps
<1>8. CASE ClientClose(c)
  BY <1>4, <1>8 DEF ClientClose
<1>9. CASE Unsubscribe(c) \/ SetOffline(c)
  <2>1. UNCHANGED <<map, names>>
    BY <1>9 DEF Unsubscribe, SetOffline
  <2>2. \/ At(c, "o_unsubscribe") /\ Moved(c, "o_offline", h[c].user, h[c].msg)
        \/ At(c, "d_unsubscribe") /\ Moved(c, "d_offline", h[c].user, h[c].msg)
        \/ At(c, "o_offline") /\ Moved(c, "idle", None, None)
        \/ At(c, "d_offline") /\ Moved(c, "closed", None, None)
    BY <1>1, <1>9, HandlerSteps
  <2>3. QED
    BY <1>4, <2>1, <2>2 DEF At, Moved, Closing
<1>10. ASSUME UNCHANGED <<map, names>>, NEW u, NEW m,
              NEW p \in {"idle"} \union LoginPcs \union ChatPcs \union {"o_erase"},
              Moved(c, p, u, m)
       PROVE  NameInv'
  BY <1>4, <1>10 DEF Moved, Closing, LoginPcs, ChatPcs
<1>11. CASE \/ LoginQuery(c) \/ LoginSubscribe(c) \/ LoginOnline(c)
            \/ LoginReadOffline(c) \/ LoginRemoveOffline(c) \/ LoginAck(c)
  <2>1. UNCHANGED <<map, names>>
    BY <1>11 DEF LoginQuery, LoginSubscribe, LoginOnline, LoginReadOffline,
                 LoginRemoveOffline, LoginAck
  <2>2. \E p \in {"idle"} \union LoginPcs : \E u, m : Moved(c, p, u, m)
    <3>1. \A p \in {"idle", "l_insert", "l_online", "l_read", "l_remove", "l_ack"} :
            p \in {"idle"} \union LoginPcs
      BY DEF LoginPcs
    <3>2. CASE LoginQuery(c)
      BY <1>1, <3>1, <3>2, HandlerSteps
    <3>3. CASE LoginSubscribe(c)
      BY <1>1, <3>1, <3>3, HandlerSteps
    <3>4. CASE LoginOnline(c)
      BY <1>1, <3>1, <3>4, HandlerSteps
    <3>5. CASE LoginReadOffline(c)
      BY <1>1, <3>1, <3>5, HandlerSteps
    <3>6. CASE LoginRemoveOffline(c)
      BY <1>1, <3>1, <3>6, HandlerSteps
    <3>7. CASE LoginAck(c)
      BY <1>1, <3>1, <3>7, HandlerSteps
    <3>8. QED
      BY <1>11, <3>2, <3>3, <3>4, <3>5, <3>6, <3>7
  <2>3. QED
    BY <1>10, <2>1, <2>2
<1>12. CASE \/ \E u \in User : ChatFind(c, u)
            \/ ChatQuery(c) \/ ChatPublish(c) \/ ChatStore(c)
            \/ \E m \in Msg : GroupChat(c, m) \/ \E u \in User : OneChat(c, m, u)
  <2>1. UNCHANGED <<map, names>>
    BY <1>12 DEF ChatFind, ChatQuery, ChatPublish, ChatStore, GroupChat, OneChat,
                 BeginChat
  <2>2. \E p \in {"idle"} \union ChatPcs : \E u, m : Moved(c, p, u, m)
    <3>1. \A p \in {"idle", "c_find", "c_query", "c_publish", "c_store"} :
            p \in {"idle"} \union ChatPcs
      BY DEF ChatPcs
    <3>2. CASE \E u \in User : ChatFind(c, u)
      BY <1>1, <3>1, <3>2, HandlerSteps
    <3>3. CASE ChatQuery(c)
      BY <1>1, <3>1, <3>3, HandlerSteps
    <3>4. CASE ChatPublish(c) \/ ChatStore(c)
      BY <1>1, <3>1, <3>4, HandlerSteps
    <3>5. CASE \E m \in Msg : GroupChat(c, m) \/ \E u \in User : OneChat(c, m, u)
      BY <1>1, <3>1, <3>5, HandlerSteps
    <3>6. QED
      BY <1>12, <3>2, <3>3, <3>4, <3>5
  <2>3. QED
    BY <1>10, <2>1, <2>2
<1>13. CASE Connect(c) \/ Loginout(c) \/ \E u \in User : Login(c, u)
  <2>1. UNCHANGED <<map, names>>
    BY <1>13 DEF Connect, Loginout, Login
  <2>2. \E p \in {"idle", "l_query", "o_erase"} : \E u, m : Moved(c, p, u, m)
    BY <1>1, <1>13, HandlerSteps
  <2>3. QED
    BY <1>10, <2>1, <2>2 DEF LoginPcs
<1>14. CASE HandlerStep(c)
  BY <1>5, <1>6, <1>7, <1>9, <1>11, <1>12, <1>14 DEF HandlerStep
<1>15. CASE ClientStep(c)
  BY <1>8, <1>12, <1>13, <1>15 DEF ClientStep
<1>16. QED
  BY <1>14, <1>15

\* Every step keeps the invariant.
LEMMA MapStep == MapInv /\ [Next]_vars => MapInv'
<1> SUFFICES ASSUME MapInv, [Next]_vars PROVE MapInv'
  OBVIOUS
<1>1. TypeOK'
  BY TypeStep
<1>2. HandlerInv' /\ EntryInv' /\ NameInv'
  <2>1. ASSUME NEW c \in Conn, HandlerStep(c) \/ ClientStep(c)
        PROVE  HandlerInv' /\ EntryInv' /\ NameInv'
    BY <2>1, LocalStep, NameStep
  <2>2. ASSUME NEW s \in Server, ResetExit(s) \/ Crash(s)
        PROVE  HandlerInv' /\ EntryInv' /\ NameInv'
    BY <2>2, ExitStep DEF ResetExit, Crash
  <2>3. ASSUME UNCHANGED <<h, open, acct, acked, map, names>>
        PROVE  HandlerInv' /\ EntryInv' /\ NameInv'
    <3>1. HandlerInv /\ EntryInv /\ NameInv
      BY DEF MapInv
    <3>2. HandlerInv'
      BY <2>3, <3>1 DEF HandlerInv, HandlerOk
    <3>3. EntryInv'
      BY <2>3, <3>1 DEF EntryInv, EntryOk
    <3>4. NameInv'
      BY <2>3, <3>1 DEF NameInv, NameOk
    <3>5. QED
      BY <3>2, <3>3, <3>4
  <2>4. ASSUME NEW s \in Server, ObserverStep(s) \/ RedisExecute(s) \/ ResetState(s)
        PROVE  UNCHANGED <<h, open, acct, acked, map, names>>
    BY <2>4 DEF ObserverStep, ObserverFind, ObserverStore, RedisExecute,
                ResetState, clientVars
  <2>5. CASE UNCHANGED vars
    BY <2>3, <2>5 DEF vars
  <2>6. QED
    BY <2>1, <2>2, <2>3, <2>4, <2>5 DEF Next
<1>3. QED
  BY <1>1, <1>2 DEF MapInv

\* login(), loginout() and clientCloseException() of any number of connections
\* and servers, overlapping and repeated in any way, with servers interrupted or
\* killed at any step, leave in a server's _userConnMap only its own
\* connections, under accounts that login() entered for them and loginout() did
\* not erase, and a closed one only where it had two accounts as it closed.
THEOREM MapHoldsLive == Spec => []MapHoldsLiveOnce
<1>1. MapInv => MapHoldsLiveOnce
  <2>1. SUFFICES ASSUME MapInv, NEW s \in Server, NEW u \in User, map[s][u] # None
                 PROVE  /\ SrvOf[map[s][u]] = s /\ u \in names[map[s][u]]
                        /\ ~At(map[s][u], "new")
                        /\ At(map[s][u], "closed") =>
                             \E v \in names[map[s][u]] \ {u} : map[s][v] # map[s][u]
    BY DEF MapHoldsLiveOnce
  <2>2. PICK c \in Conn : c = map[s][u]
    BY <2>1, TypeFacts DEF MapInv
  <2>3. NameOk(c)
    BY <2>1 DEF MapInv, NameInv
  <2>4. QED
    BY <2>2, <2>3 DEF NameOk, Closing, At
<1>2. QED
  BY <1>1, MapInit, MapStep, PTL DEF Spec

-----------------------------------------------------------------------------
(* One session of an account.  The code does not keep it from two logins   *)
(* of one account at the same time, nor through a reset that marks the     *)
(* users of all servers offline; the theorems below are about what holds   *)
(* where neither occurs and where a client logs in when its logout was     *)
(* handled.  Servers may die at any step, and redis may be late.           *)

\* What a step of connection c may do to the accounts: c holds afterwards what
\* it held before or nobody did, and no row is marked offline under another
\* holder ...
Claims(c) ==
  \A u \in User :
    /\ Holds(c, u)' => /\ Holds(c, u) \/ \A d \in Conn : ~Holds(d, u)
                       /\ \/ h'[c].pc \in {"l_insert", "l_subscribe", "l_online"}
                          \/ db'[u] = "online"
    /\ \/ db'[u] = db[u] \/ db'[u] = "online"
       \/ \A d \in Conn : d # c => ~Holds(d, u)

\* ... its login() is the only one for the account, and its entry is there for
\* as long as it relies on it.
Secures(c) ==
  /\ h'[c].pc \in LoginPcs =>
       \/ h[c].pc \in LoginPcs /\ h'[c].user = h[c].user
       \/ \A d \in Conn : h[d].pc \in LoginPcs => h[d].user # h'[c].user
  /\ h'[c].pc \in Inserted \union {"o_erase"} => map'[SrvOf[c]][h'[c].user] = c
  /\ c \in acked' => map'[SrvOf[c]][acct'[c]] = c
  /\ \A d \in Conn, s \in Server, u \in User :
       d # c /\ map[s][u] = d => map'[s][u] = d

\* Such a step keeps the invariants.
LEMMA ClaimsKeep ==
  ASSUME AccountInv, TypeOK', NEW c \in Conn, Local(c), Claims(c), Secures(c)
  PROVE  HolderInv' /\ SessionInv'
<1>1. /\ TypeOK /\ HandlerInv /\ EntryInv /\ HolderInv /\ SessionInv
      /\ SrvOf \in [Conn -> Server] /\ None \notin Conn
  BY TypeFacts DEF AccountInv, MapInv
<1>2. ASSUME NEW d \in Conn, NEW u \in User, d # c, Holds(d, u)'
      PROVE  Holds(d, u) /\ h'[d].pc = h[d].pc
  BY <1>1, <1>2 DEF Local, Holds
<1>3. HolderInv'
  <2>1. SUFFICES ASSUME NEW u \in User, NEW d \in Conn, Holds(d, u)'
                 PROVE  /\ \A e \in Conn : Holds(e, u)' => d = e
                        /\ \/ h'[d].pc \in {"l_insert", "l_subscribe", "l_online"}
                           \/ db'[u] = "online"
    BY DEF HolderInv
  <2>2. ASSUME NEW e \in Conn, Holds(e, u)' PROVE d = e
    <3>1. CASE d = c /\ e # c
      <4>1. Holds(e, u)
        BY <1>2, <2>2, <3>1
      <4>2. Holds(c, u)
        BY <2>1, <3>1, <4>1 DEF Claims
      <4>3. QED
        BY <1>1, <3>1, <4>1, <4>2 DEF HolderInv
    <3>2. CASE d # c /\ e = c
      <4>1. Holds(d, u)
        BY <1>2, <2>1, <3>2
      <4>2. Holds(c, u)
        BY <2>2, <3>2, <4>1 DEF Claims
      <4>3. QED
        BY <1>1, <3>2, <4>1, <4>2 DEF HolderInv
    <3>3. CASE d # c /\ e # c
      <4>1. Holds(d, u) /\ Holds(e, u)
        BY <1>2, <2>1, <2>2, <3>3
      <4>2. QED
        BY <1>1, <4>1 DEF HolderInv
    <3>4. QED
      BY <3>1, <3>2, <3>3
  <2>3. \/ h'[d].pc \in {"l_insert", "l_subscribe", "l_online"}
        \/ db'[u] = "online"
    <3>1. CASE d = c
      BY <2>1, <3>1 DEF Claims
    <3>2. CASE d # c
      <4>1. Holds(d, u) /\ h'[d].pc = h[d].pc
        BY <1>2, <2>1, <3>2
      <4>2. db'[u] = db[u] \/ db'[u] = "online"
        BY <3>2, <4>1 DEF Claims
      <4>3. QED
        BY <1>1, <4>1, <4>2 DEF HolderInv
    <3>3. QED
      BY <3>1, <3>2
  <2>4. QED
    BY <2>2, <2>3
<1>4. SessionInv'
  <2>1. ASSUME NEW d \in Conn, NEW e \in Conn, h'[d].pc \in LoginPcs,
               h'[e].pc \in LoginPcs, h'[d].user = h'[e].user
        PROVE  d = e
    <3>1. \A g \in Conn : g # c => h'[g] = h[g]
      BY DEF Local
    <3>2. \A g, k \in Conn :
            h[g].pc \in LoginPcs /\ h[k].pc \in LoginPcs /\ h[g].user = h[k].user
              => g = k
      BY <1>1 DEF SessionInv
    <3>3. h'[c].pc \in LoginPcs =>
            \/ h[c].pc \in LoginPcs /\ h'[c].user = h[c].user
            \/ \A g \in Conn : h[g].pc \in LoginPcs => h[g].user # h'[c].user
      BY DEF Secures
    <3>4. QED
      BY <2>1, <3>1, <3>2, <3>3
  <2>2. ASSUME NEW d \in Conn, h'[d].pc \in Inserted \union {"o_erase"}
        PROVE  map'[SrvOf[d]][h'[d].user] = d
    <3>1. CASE d = c
      BY <2>2, <3>1 DEF Secures
    <3>2. CASE d # c
      <4>1. h'[d] = h[d]
        BY <3>2 DEF Local
      <4>2. map[SrvOf[d]][h[d].user] = d
        BY <1>1, <2>2, <4>1 DEF SessionInv
      <4>3. h[d].user \in User /\ SrvOf[d] \in Server
        BY <1>1, <2>2, <4>1
           DEF HandlerInv, HandlerOk, Inserted, LoginPcs, LeavePcs
      <4>4. QED
        BY <3>2, <4>1, <4>2, <4>3 DEF Secures
    <3>3. QED
      BY <3>1, <3>2
  <2>3. ASSUME NEW d \in acked' PROVE map'[SrvOf[d]][acct'[d]] = d
    <3>1. CASE d = c
      BY <2>3, <3>1 DEF Secures
    <3>2. CASE d # c /\ d \in Conn
      <4>1. acct'[d] = acct[d] /\ d \in acked
        BY <2>3, <3>2 DEF Local
      <4>2. map[SrvOf[d]][acct[d]] = d
        BY <1>1, <4>1 DEF SessionInv
      <4>3. acct[d] \in User /\ SrvOf[d] \in Server
        BY <1>1, <3>2, <4>1 DEF HandlerInv, HandlerOk
      <4>4. QED
        BY <3>2, <4>1, <4>2, <4>3 DEF Secures
    <3>3. d \in Conn
      BY DEF TypeOK
    <3>4. QED
      BY <3>1, <3>2, <3>3
  <2>4. QED
    BY <2>1, <2>2, <2>3 DEF SessionInv
<1>5. QED
  BY <1>3, <1>4

\* Each step of a connection is of this kind.
LEMMA ClaimStep ==
  ASSUME AccountInv, ~Overlap, ~Relogin, NEW c \in Conn, HandlerStep(c) \/ ClientStep(c)
  PROVE  Claims(c) /\ Secures(c)
<1> USE DEF redisVars, histVars, msgVars, clientVars, lifeVars
<1>1. TypeOK /\ HandlerInv /\ EntryInv /\ HolderInv /\ SessionInv
  BY DEF AccountInv, MapInv
<1>2. HandlerOk(c) /\ EntryOk(c)
  BY <1>1 DEF HandlerInv, EntryInv
<1>3. /\ h \in [Conn -> HandlerType] /\ db \in [User -> {"online", "offline"}]
      /\ open \in [Conn -> BOOLEAN] /\ acct \in [Conn -> User \union {None}]
      /\ acked \in SUBSET Conn /\ SrvOf \in [Conn -> Server] /\ SrvOf[c] \in Server
      /\ None \notin Conn /\ None \notin User
      /\ map \in [Server -> [User -> Conn \union {None}]]
  BY <1>1, TypeFacts
<1>4. /\ \A d \in Conn : h[c].pc \in LoginPcs /\ h[d].pc \in LoginPcs
                         /\ h[c].user = h[d].user => c = d
      /\ h[c].pc \in Inserted \union {"o_erase"} => map[SrvOf[c]][h[c].user] = c
      /\ c \in acked => map[SrvOf[c]][acct[c]] = c
  BY <1>1 DEF SessionInv
<1>5. \A u \in User : Holds(c, u) =>
        /\ \A d \in Conn : Holds(d, u) => c = d
        /\ h[c].pc \in {"l_insert", "l_subscribe", "l_online"} \/ db[u] = "online"
  BY <1>1 DEF HolderInv
<1>6. ASSUME UNCHANGED map,
             h'[c].pc \in LoginPcs => h[c].pc \in LoginPcs /\ h'[c].user = h[c].user,
             h'[c].pc \in Inserted \union {"o_erase"} =>
               map[SrvOf[c]][h'[c].user] = c,
             c \in acked' => map[SrvOf[c]][acct'[c]] = c
      PROVE  Secures(c)
  BY <1>6 DEF Secures
<1>7. ASSUME UNCHANGED db, \A u \in User : Holds(c, u)' => Holds(c, u),
             h[c].pc \in {"l_insert", "l_subscribe", "l_online"}
               => h'[c].pc \in {"l_insert", "l_subscribe", "l_online"}
      PROVE  Claims(c)
  BY <1>5, <1>7 DEF Claims
<1>8. CASE Unsubscribe(c)
  <2>1. \/ At(c, "o_unsubscribe") /\ Moved(c, "o_offline", h[c].user, h[c].msg)
        \/ At(c, "d_unsubscribe") /\ Moved(c, "d_offline", h[c].user, h[c].msg)
    BY <1>1, <1>8, HandlerSteps
  <2>2. /\ UNCHANGED <<map, db, acct, acked>>
    BY <1>3, <1>8 DEF Unsubscribe
  <2>3. Secures(c)
    BY <1>2, <1>3, <1>4, <1>6, <2>1, <2>2
       DEF Moved, At, HandlerOk, EntryOk,
           LoginPcs, LeavePcs, ChatPcs, Serving, Inserted
  <2>4. \A u \in User : Holds(c, u)' => Holds(c, u)
    BY <1>2, <1>3, <1>4, <2>1, <2>2
       DEF Moved, At, HandlerOk, EntryOk, Holds,
           LoginPcs, LeavePcs, ChatPcs, Serving, Inserted
  <2>5. Claims(c)
    BY <1>7, <2>1, <2>2, <2>4 DEF Moved, At
  <2>6. QED
    BY <2>3, <2>5
<1>9. CASE LoginSubscribe(c)
  <2>1. Moved(c, "l_online", h[c].user, h[c].msg)
    BY <1>1, <1>9, HandlerSteps
  <2>2. /\ UNCHANGED <<map, db, acct, acked>>
        /\ At(c, "l_subscribe")
    BY <1>3, <1>9 DEF LoginSubscribe
  <2>3. Secures(c)
    BY <1>2, <1>3, <1>4, <1>6, <2>1, <2>2
       DEF Moved, At, HandlerOk, EntryOk,
           LoginPcs, LeavePcs, ChatPcs, Serving, Inserted
  <2>4. \A u \in User : Holds(c, u)' => Holds(c, u)
    BY <1>2, <1>3, <1>4, <2>1, <2>2
       DEF Moved, At, HandlerOk, EntryOk, Holds,
           LoginPcs, LeavePcs, ChatPcs, Serving, Inserted
  <2>5. Claims(c)
    BY <1>7, <2>1, <2>2, <2>4 DEF Moved, At
  <2>6. QED
    BY <2>3, <2>5
<1>10. CASE LoginReadOffline(c)
  <2>1. \/ Moved(c, "l_remove", h[c].user, h[c].msg)
        \/ Moved(c, "l_ack", h[c].user, h[c].msg)
    BY <1>1, <1>10, HandlerSteps
  <2>2. /\ UNCHANGED <<map, db, acct, acked>>
        /\ At(c, "l_read")
    BY <1>3, <1>10 DEF LoginReadOffline
  <2>3. Secures(c)
    BY <1>2, <1>3, <1>4, <1>6, <2>1, <2>2
       DEF Moved, At, HandlerOk, EntryOk,
           LoginPcs, LeavePcs, ChatPcs, Serving, Inserted
  <2>4. \A u \in User : Holds(c, u)' => Holds(c, u)
    BY <1>2, <1>3, <1>4, <2>1, <2>2
       DEF Moved, At, HandlerOk, EntryOk, Holds,
           LoginPcs, LeavePcs, ChatPcs, Serving, Inserted
  <2>5. Claims(c)
    BY <1>7, <2>1, <2>2, <2>4 DEF Moved, At
  <2>6. QED
    BY <2>3, <2>5
<1>11. CASE LoginRemoveOffline(c)
  <2>1. Moved(c, "l_ack", h[c].user, h[c].msg)
    BY <1>1, <1>11, HandlerSteps
  <2>2. /\ UNCHANGED <<map, db, acct, acked>>
        /\ At(c, "l_remove")
    BY <1>3, <1>11 DEF LoginRemoveOffline
  <2>3. Secures(c)
    BY <1>2, <1>3, <1>4, <1>6, <2>1, <2>2
       DEF Moved, At, HandlerOk, EntryOk,
           LoginPcs, LeavePcs, ChatPcs, Serving, Inserted
  <2>4. \A u \in User : Holds(c, u)' => Holds(c, u)
    BY <1>2, <1>3, <1>4, <2>1, <2>2
       DEF Moved, At, HandlerOk, EntryOk, Holds,
           LoginPcs, LeavePcs, ChatPcs, Serving, Inserted
  <2>5. Claims(c)
    BY <1>7, <2>1, <2>2, <2>4 DEF Moved, At
  <2>6. QED
    BY <2>3, <2>5
<1>12. CASE ChatQuery(c)
  <2>1. \/ Moved(c, "c_publish", h[c].user, h[c].msg)
        \/ Moved(c, "c_store", h[c].user, h[c].msg)
    BY <1>1, <1>12, HandlerSteps
  <2>2. /\ UNCHANGED <<map, db, acct, acked>>
        /\ At(c, "c_query")
    BY <1>3, <1>12 DEF ChatQuery
  <2>3. Secures(c)
    BY <1>2, <1>3, <1>4, <1>6, <2>1, <2>2
       DEF Moved, At, HandlerOk, EntryOk,
           LoginPcs, LeavePcs, ChatPcs, Serving, Inserted
  <2>4. \A u \in User : Holds(c, u)' => Holds(c, u)
    BY <1>2, <1>3, <1>4, <2>1, <2>2
       DEF Moved, At, HandlerOk, EntryOk, Holds,
           LoginPcs, LeavePcs, ChatPcs, Serving, Inserted
  <2>5. Claims(c)
    BY <1>7, <2>1, <2>2, <2>4 DEF Moved, At
  <2>6. QED
    BY <2>3, <2>5
<1>13. CASE ChatPublish(c) \/ ChatStore(c)
  <2>1. \/ Moved(c, "idle", None, None)
        \/ Moved(c, "c_find", None, h[c].msg)
    BY <1>1, <1>13, HandlerSteps
  <2>2. /\ UNCHANGED <<map, db, acct, acked>>
        /\ h[c].pc \in ChatPcs
    BY <1>3, <1>13 DEF ChatPublish, ChatStore, At, ChatPcs
  <2>3. Secures(c)
    BY <1>2, <1>3, <1>4, <1>6, <2>1, <2>2
       DEF Moved, At, HandlerOk, EntryOk,
           LoginPcs, LeavePcs, ChatPcs, Serving, Inserted
  <2>4. \A u \in User : Holds(c, u)' => Holds(c, u)
    BY <1>2, <1>3, <1>4, <2>1, <2>2
       DEF Moved, At, HandlerOk, EntryOk, Holds,
           LoginPcs, LeavePcs, ChatPcs, Serving, Inserted
  <2>5. Claims(c)
    BY <1>7, <2>1, <2>2, <2>4 DEF Moved, At, ChatPcs
  <2>6. QED
    BY <2>3, <2>5
<1>14. ASSUME NEW u \in User, ChatFind(c, u)
      PROVE  Claims(c) /\ Secures(c)
  <2>1. \/ Moved(c, "idle", None, None)
        \/ Moved(c, "c_find", None, h[c].msg)
        \/ Moved(c, "c_query", u, h[c].msg)
    BY <1>1, <1>14, HandlerSteps
  <2>2. /\ UNCHANGED <<map, db, acct, acked>>
        /\ At(c, "c_find")
    BY <1>3, <1>14 DEF ChatFind
  <2>3. Secures(c)
    BY <1>2, <1>3, <1>4, <1>6, <2>1, <2>2
       DEF Moved, At, HandlerOk, EntryOk,
           LoginPcs, LeavePcs, ChatPcs, Serving, Inserted
  <2>4. \A v \in User : Holds(c, v)' => Holds(c, v)
    BY <1>2, <1>3, <1>4, <2>1, <2>2
       DEF Moved, At, HandlerOk, EntryOk, Holds,
           LoginPcs, LeavePcs, ChatPcs, Serving, Inserted
  <2>5. Claims(c)
    BY <1>7, <2>1, <2>2, <2>4 DEF Moved, At
  <2>6. QED
    BY <2>3, <2>5
<1>15. ASSUME NEW m \in Msg, GroupChat(c, m) \/ \E u \in User : OneChat(c, m, u)
      PROVE  Claims(c) /\ Secures(c)
  <2>1. Moved(c, "c_find", None, m)
    BY <1>1, <1>15, HandlerSteps
  <2>2. /\ UNCHANGED <<map, db, acct, acked>>
        /\ At(c, "idle")
    BY <1>3, <1>15 DEF GroupChat, OneChat, BeginChat, Ready
  <2>3. Secures(c)
    BY <1>2, <1>3, <1>4, <1>6, <2>1, <2>2
       DEF Moved, At, HandlerOk, EntryOk,
           LoginPcs, LeavePcs, ChatPcs, Serving, Inserted
  <2>4. \A u \in User : Holds(c, u)' => Holds(c, u)
    BY <1>2, <1>3, <1>4, <2>1, <2>2
       DEF Moved, At, HandlerOk, EntryOk, Holds,
           LoginPcs, LeavePcs, ChatPcs, Serving, Inserted
  <2>5. Claims(c)
    BY <1>7, <2>1, <2>2, <2>4 DEF Moved, At
  <2>6. QED
    BY <2>3, <2>5
<1>16. CASE Connect(c)
  <2>1. Moved(c, "idle", None, None)
    BY <1>1, <1>16, HandlerSteps
  <2>2. /\ UNCHANGED <<map, db, acct, acked>>
        /\ At(c, "new")
    BY <1>3, <1>16 DEF Connect
  <2>3. Secures(c)
    BY <1>2, <1>3, <1>4, <1>6, <2>1, <2>2
       DEF Moved, At, HandlerOk, EntryOk,
           LoginPcs, LeavePcs, ChatPcs, Serving, Inserted
  <2>4. \A u \in User : Holds(c, u)' => Holds(c, u)
    BY <1>2, <1>3, <1>4, <2>1, <2>2
       DEF Moved, At, HandlerOk, EntryOk, Holds,
           LoginPcs, LeavePcs, ChatPcs, Serving, Inserted
  <2>5. Claims(c)
    BY <1>7, <2>1, <2>2, <2>4 DEF Moved, At
  <2>6. QED
    BY <2>3, <2>5
<1>17. CASE LoginAck(c)
  <2>1. Moved(c, "idle", None, None)
    BY <1>1, <1>17, HandlerSteps
  <2>2. /\ UNCHANGED <<map, db, acct>> /\ At(c, "l_ack")
        /\ c \in acked' => c \in acked \/ open[c]
    BY <1>3, <1>17 DEF LoginAck
  <2>3. Secures(c)
    BY <1>2, <1>3, <1>4, <1>6, <2>1, <2>2
       DEF Moved, At, HandlerOk, EntryOk,
           LoginPcs, LeavePcs, ChatPcs, Serving, Inserted
  <2>4. \A u \in User : Holds(c, u)' => Holds(c, u)
    BY <1>2, <1>3, <1>4, <2>1, <2>2
       DEF Moved, At, HandlerOk, EntryOk, Holds,
           LoginPcs, LeavePcs, ChatPcs, Serving, Inserted
  <2>5. Claims(c)
    BY <1>7, <2>1, <2>2, <2>4 DEF Moved, At
  <2>6. QED
    BY <2>3, <2>5
<1>18. CASE Loginout(c)
  <2>1. Moved(c, "o_erase", acct[c], None)
    BY <1>1, <1>18, HandlerSteps
  <2>2. /\ UNCHANGED <<map, db>> /\ At(c, "idle") /\ c \in acked /\ c \notin acked'
    BY <1>3, <1>18 DEF Loginout, Ready
  <2>3. Secures(c)
    BY <1>2, <1>3, <1>4, <1>6, <2>1, <2>2
       DEF Moved, At, HandlerOk, EntryOk,
           LoginPcs, LeavePcs, ChatPcs, Serving, Inserted
  <2>4. \A u \in User : Holds(c, u)' => Holds(c, u)
    BY <1>2, <1>3, <1>4, <2>1, <2>2
       DEF Moved, At, HandlerOk, EntryOk, Holds,
           LoginPcs, LeavePcs, ChatPcs, Serving, Inserted
  <2>5. Claims(c)
    BY <1>7, <2>1, <2>2, <2>4 DEF Moved, At
  <2>6. QED
    BY <2>3, <2>5
<1>19. CASE LoginQuery(c)
  <2>1. \/ /\ db[h[c].user] = "offline" /\ UNCHANGED acct
           /\ Moved(c, "l_insert", h[c].user, h[c].msg)
        \/ acct' = [acct EXCEPT ![c] = None] /\ Moved(c, "idle", None, None)
    BY <1>1, <1>19, HandlerSteps
  <2>2. /\ UNCHANGED <<map, db, acked>> /\ At(c, "l_query") /\ c \notin acked
        /\ h[c].user \in User
    BY <1>2, <1>19 DEF LoginQuery, At, HandlerOk, Serving, ChatPcs, LoginPcs
  <2>3. Secures(c)
    BY <1>3, <1>6, <2>1, <2>2 DEF Moved, At, LoginPcs, Inserted
  <2>4. CASE db[h[c].user] = "offline" /\ Moved(c, "l_insert", h[c].user, h[c].msg)
    <3>1. ASSUME NEW d \in Conn, Holds(d, h[c].user) PROVE FALSE
      <4>1. h[d].pc \in {"l_insert", "l_subscribe", "l_online"}
        BY <1>1, <2>2, <2>4, <3>1 DEF HolderInv
      <4>2. h[d].pc \in LoginPcs /\ h[d].user = h[c].user
        BY <3>1, <4>1 DEF Holds, LoginPcs, LeavePcs, Serving, ChatPcs
      <4>3. d = c
        BY <1>4, <2>2, <4>2 DEF At, LoginPcs
      <4>4. QED
        BY <2>2, <4>1, <4>3 DEF At
    <3>2. \A u \in User : Holds(c, u)' => u = h[c].user
      BY <2>2, <2>4 DEF Moved, Holds, Serving, ChatPcs
    <3>3. QED
      BY <2>2, <2>3, <2>4, <3>1, <3>2 DEF Claims, Moved
  <2>5. CASE Moved(c, "idle", None, None)
    <3>1. \A u \in User : Holds(c, u)' => Holds(c, u)
      BY <1>2, <1>3, <2>2, <2>5
         DEF Moved, At, EntryOk, Holds,
             LoginPcs, LeavePcs, ChatPcs, Serving, Inserted
    <3>2. QED
      BY <1>7, <2>2, <2>3, <3>1 DEF At
  <2>6. QED
    BY <2>1, <2>4, <2>5
<1>20. ASSUME NEW u \in User, Login(c, u)
      PROVE  Claims(c) /\ Secures(c)
  <2>1. Moved(c, "l_query", u, None)
    BY <1>1, <1>20, HandlerSteps
  <2>2. /\ UNCHANGED <<map, db, acked>> /\ At(c, "idle") /\ c \notin acked
        /\ ~LoggingIn(u)
    BY <1>2, <1>3, <1>20 DEF Login, Ready, HandlerOk
  <2>3. Secures(c)
    BY <1>3, <2>1, <2>2 DEF Secures, Moved, LoggingIn, LoginPcs, Inserted
  <2>4. \A v \in User : ~Holds(c, v)'
    BY <2>1 DEF Moved, Holds, LoginPcs, LeavePcs, Serving, ChatPcs
  <2>5. QED
    BY <1>7, <2>2, <2>3, <2>4 DEF At
<1>21. CASE SetOffline(c)
  <2>1. \/ At(c, "o_offline") /\ Moved(c, "idle", None, None)
        \/ At(c, "d_offline") /\ Moved(c, "closed", None, None)
    BY <1>1, <1>21, HandlerSteps
  <2>2. /\ UNCHANGED <<map, acct, acked>> /\ c \notin acked /\ h[c].user \in User
        /\ db' = [db EXCEPT ![h[c].user] = "offline"]
    BY <1>2, <1>21 DEF SetOffline, HandlerOk, LeavePcs, Serving, ChatPcs
  <2>3. Secures(c)
    BY <1>3, <1>6, <2>1, <2>2 DEF Moved, At, LoginPcs, Inserted
  <2>4. \A u \in User : ~Holds(c, u)'
    BY <1>2, <1>3, <2>1, <2>2
       DEF Moved, At, EntryOk, Holds, LoginPcs, LeavePcs, ChatPcs, Serving, Inserted
  <2>5. Holds(c, h[c].user)
    BY <2>1 DEF At, Holds, LeavePcs
  <2>6. \A d \in Conn : d # c => ~Holds(d, h[c].user)
    BY <1>5, <2>2, <2>5
  <2>7. \A u \in User : u # h[c].user => db'[u] = db[u]
    BY <1>3, <2>2
  <2>8. Claims(c)
    BY <2>4, <2>6, <2>7 DEF Claims
  <2>9. QED
    BY <2>3, <2>8
<1>22. CASE LoginOnline(c)
  <2>1. Moved(c, "l_read", h[c].user, h[c].msg)
    BY <1>1, <1>22, HandlerSteps
  <2>2. /\ UNCHANGED <<map, acct, acked>> /\ At(c, "l_online") /\ h[c].user \in User
        /\ db' = [db EXCEPT ![h[c].user] = "online"]
    BY <1>2, <1>22 DEF LoginOnline, At, HandlerOk, LoginPcs
  <2>3. Secures(c)
    BY <1>3, <1>4, <1>6, <2>1, <2>2 DEF Moved, At, LoginPcs, Inserted
  <2>4. \A u \in User : db'[u] = db[u] \/ db'[u] = "online"
    BY <1>3, <2>2
  <2>5. \A u \in User : Holds(c, u)' => u = h[c].user
    BY <2>1 DEF Moved, Holds, Serving, ChatPcs
  <2>6. Holds(c, h[c].user) /\ db'[h[c].user] = "online"
    BY <1>3, <2>2 DEF At, Holds, LoginPcs
  <2>7. Claims(c)
    BY <2>4, <2>5, <2>6 DEF Claims
  <2>8. QED
    BY <2>3, <2>7
<1>23. CASE LoginInsert(c)
  <2>1. Moved(c, "l_subscribe", h[c].user, h[c].msg)
    BY <1>1, <1>23, HandlerSteps
  <2>2. /\ UNCHANGED <<db, acct, acked>> /\ At(c, "l_insert") /\ h[c].user \in User
        /\ c \notin acked
    BY <1>2, <1>23 DEF LoginInsert, At, HandlerOk, LoginPcs, Serving, ChatPcs
  <2>3. map[SrvOf[c]][h[c].user] = None
    <3>1. SUFFICES ASSUME NEW d \in Conn, map[SrvOf[c]][h[c].user] = d PROVE FALSE
      BY <1>3, <2>2
    <3>2. EntryOk(d)
      BY <1>1 DEF EntryInv
    <3>3. Holds(d, h[c].user)
      BY <1>3, <2>2, <3>1, <3>2 DEF EntryOk, Holds, Inserted, LoginPcs, LeavePcs
    <3>4. Holds(c, h[c].user)
      BY <2>2 DEF At, Holds, LoginPcs
    <3>5. d = c
      BY <1>5, <2>2, <3>3, <3>4
    <3>6. QED
      BY <1>2, <1>3, <2>2, <3>1, <3>5
         DEF At, EntryOk, Inserted, Serving, ChatPcs
  <2>4. /\ map'[SrvOf[c]][h[c].user] = c
        /\ \A t \in Server, w \in User :
             t # SrvOf[c] \/ w # h[c].user => map'[t][w] = map[t][w]
    <3>1. MapInsert(SrvOf[c], h[c].user, c)
      BY <1>23 DEF LoginInsert
    <3>2. QED
      BY <1>1, <1>3, <2>2, <2>3, <3>1, MapMoves
  <2>5. \A d \in Conn, s \in Server, u \in User :
          d # c /\ map[s][u] = d => map'[s][u] = d
    BY <1>3, <2>2, <2>3, <2>4
  <2>6. Secures(c)
    BY <2>1, <2>2, <2>4, <2>5 DEF Secures, Moved, At, LoginPcs
  <2>7. \A u \in User : Holds(c, u)' => Holds(c, u)
    BY <2>1, <2>2 DEF Moved, At, Holds, LoginPcs, LeavePcs, Serving, ChatPcs
  <2>8. Claims(c)
    BY <1>7, <2>1, <2>2, <2>7 DEF Moved
  <2>9. QED
    BY <2>6, <2>8
<1>24. CASE LogoutErase(c)
  <2>1. Moved(c, "o_unsubscribe", h[c].user, h[c].msg)
    BY <1>1, <1>24, HandlerSteps
  <2>2. /\ UNCHANGED <<db, acct, acked>> /\ At(c, "o_erase") /\ h[c].user \in User
        /\ c \notin acked
    BY <1>2, <1>24 DEF LogoutErase, At, HandlerOk, LeavePcs, Serving, ChatPcs
  <2>3. map[SrvOf[c]][h[c].user] = c
    BY <1>4, <2>2 DEF At
  <2>4. \A t \in Server, w \in User :
          t # SrvOf[c] \/ w # h[c].user => map'[t][w] = map[t][w]
    <3>1. MapErase(SrvOf[c], h[c].user)
      BY <1>24 DEF LogoutErase
    <3>2. QED
      BY <1>1, <1>3, <2>2, <3>1, MapMoves
  <2>5. \A d \in Conn, s \in Server, u \in User :
          d # c /\ map[s][u] = d => map'[s][u] = d
    BY <2>2, <2>3, <2>4
  <2>6. Secures(c)
    BY <2>1, <2>2, <2>5 DEF Secures, Moved, At, LoginPcs, Inserted
  <2>7. \A u \in User : Holds(c, u)' => Holds(c, u)
    BY <2>1, <2>2 DEF Moved, At, Holds, LoginPcs, LeavePcs, Serving, ChatPcs
  <2>8. Claims(c)
    BY <1>7, <2>1, <2>2, <2>7 DEF Moved, At
  <2>9. QED
    BY <2>6, <2>8
<1>25. CASE CloseErase(c)
  <2>1. /\ UNCHANGED <<db, acct, acked>> /\ At(c, "idle") /\ c \notin acked
    BY <1>2, <1>25 DEF CloseErase, HandlerOk
  <2>2. CASE UNCHANGED map /\ Moved(c, "closed", None, None)
    <3>1. Secures(c)
      BY <1>6, <2>1, <2>2 DEF Moved, LoginPcs, Inserted
    <3>2. \A u \in User : ~Holds(c, u)'
      BY <2>2 DEF Moved, Holds, LoginPcs, LeavePcs, Serving, ChatPcs
    <3>3. QED
      BY <1>7, <2>1, <3>1, <3>2 DEF At
  <2>3. ASSUME NEW u \in User, map[SrvOf[c]][u] = c, MapErase(SrvOf[c], u),
               Moved(c, "d_unsubscribe", u, None)
        PROVE  Claims(c) /\ Secures(c)
    <3>1. \A t \in Server, w \in User : t # SrvOf[c] \/ w # u => map'[t][w] = map[t][w]
      BY <1>1, <1>3, <2>3, MapMoves
    <3>2. \A d \in Conn, s \in Server, v \in User :
            d # c /\ map[s][v] = d => map'[s][v] = d
      BY <2>3, <3>1
    <3>3. Secures(c)
      BY <2>1, <2>3, <3>2 DEF Secures, Moved, LoginPcs, Inserted
    <3>4. \A v \in User : Holds(c, v)' => Holds(c, v)
      BY <2>1, <2>3 DEF At, Moved, Holds, LoginPcs, LeavePcs, Serving, ChatPcs
    <3>5. Claims(c)
      BY <1>7, <2>1, <3>4 DEF At
    <3>6. QED
      BY <3>3, <3>5
  <2>4. QED
    BY <1>1, <1>25, <2>2, <2>3, HandlerSteps
<1>26. CASE ClientClose(c)
  <2>1. h' = h /\ UNCHANGED <<map, db>> /\ c \notin acked'
    BY <1>26 DEF ClientClose
  <2>2. Secures(c)
    BY <1>4, <1>6, <2>1
  <2>3. \A u \in User : Holds(c, u)' => Holds(c, u)
    BY <2>1 DEF Holds
  <2>4. QED
    BY <1>7, <2>1, <2>2, <2>3
<1>27. QED
  <2>1. CASE HandlerStep(c)
    BY <1>8, <1>9, <1>10, <1>11, <1>12, <1>13, <1>14, <1>17, <1>19, <1>21, <1>22,
       <1>23, <1>24, <1>25, <2>1 DEF HandlerStep
  <2>2. CASE ClientStep(c)
    BY <1>15, <1>16, <1>18, <1>20, <1>26, <2>2 DEF ClientStep
  <2>3. QED
    BY <2>1, <2>2

\* A server that dies takes the sessions of its clients away; the rows stay.
LEMMA CrashKeeps ==
  ASSUME AccountInv, TypeOK', NEW s \in Server, Exit(s), db' = db
  PROVE  HolderInv' /\ SessionInv'
<1>1. /\ TypeOK /\ HandlerInv /\ EntryInv /\ HolderInv /\ SessionInv
      /\ SrvOf \in [Conn -> Server] /\ None \notin Conn
      /\ map \in [Server -> [User -> Conn \union {None}]]
  BY TypeFacts DEF AccountInv, MapInv
<1>2. ASSUME NEW c \in Conn
      PROVE  \/ h'[c].pc = "closed" /\ c \notin acked'
             \/ /\ h'[c] = h[c] /\ acct'[c] = acct[c]
                /\ c \in acked' <=> c \in acked
                /\ h[c].pc = "new" \/ SrvOf[c] # s
  BY DEF Exit, Handler, At
<1>3. \A t \in Server, u \in User :
        map'[t][u] = map[t][u] \/ (t = s /\ map'[t][u] = None)
  <2>1. \A u \in User : /\ map'[s][u] = None
                        /\ \A t \in Server : t # s => map'[t][u] = map[t][u]
    BY <1>1 DEF Exit, EmptyMap
  <2>2. ASSUME NEW t \in Server, NEW u \in User
        PROVE  map'[t][u] = map[t][u] \/ (t = s /\ map'[t][u] = None)
    BY <2>1, Zenon
  <2>3. QED
    BY <2>2, Zenon
<1>4. ASSUME NEW c \in Conn, NEW u \in User, Holds(c, u)'
      PROVE  Holds(c, u) /\ h'[c].pc = h[c].pc
  <2>1. h'[c] = h[c]
    BY <1>2, <1>4 DEF Holds, LoginPcs, LeavePcs, Serving, ChatPcs
  <2>2. map'[SrvOf[c]][u] = c => map[SrvOf[c]][u] = c
    BY <1>1, <1>3
  <2>3. QED
    BY <1>4, <2>1, <2>2 DEF Holds
<1>5. HolderInv'
  BY <1>1, <1>4 DEF HolderInv
<1>6. SessionInv'
  <2>1. ASSUME NEW c \in Conn, h'[c].pc \in LoginPcs \/ h'[c].pc \in Inserted \union {"o_erase"}
        PROVE  h'[c] = h[c] /\ SrvOf[c] # s
    BY <1>2, <2>1 DEF LoginPcs, Inserted
  <2>2. \A c, d \in Conn :
          h'[c].pc \in LoginPcs /\ h'[d].pc \in LoginPcs /\ h'[c].user = h'[d].user
            => c = d
    BY <1>1, <2>1 DEF SessionInv
  <2>3. ASSUME NEW c \in Conn, h'[c].pc \in Inserted \union {"o_erase"}
        PROVE  map'[SrvOf[c]][h'[c].user] = c
    <3>1. h'[c] = h[c] /\ SrvOf[c] # s
      BY <2>1, <2>3
    <3>2. map[SrvOf[c]][h[c].user] = c
      BY <1>1, <2>3, <3>1 DEF SessionInv
    <3>3. h[c].user \in User
      BY <1>1, <2>3, <3>1 DEF HandlerInv, HandlerOk, Inserted, LoginPcs, LeavePcs
    <3>4. QED
      BY <1>1, <1>3, <3>1, <3>2, <3>3
  <2>4. ASSUME NEW c \in acked' PROVE map'[SrvOf[c]][acct'[c]] = c
    <3>1. c \in Conn
      BY DEF TypeOK
    <3>2. /\ acct'[c] = acct[c] /\ c \in acked
          /\ h[c].pc = "new" \/ SrvOf[c] # s
      BY <1>2, <2>4, <3>1
    <3>3. acct[c] \in User /\ SrvOf[c] # s
      BY <1>1, <3>1, <3>2 DEF HandlerInv, HandlerOk, Serving, ChatPcs
    <3>4. map[SrvOf[c]][acct[c]] = c
      BY <1>1, <3>2 DEF SessionInv
    <3>5. QED
      BY <1>1, <1>3, <3>1, <3>2, <3>3, <3>4
  <2>5. QED
    BY <2>2, <2>3, <2>4 DEF SessionInv
<1>7. QED
  BY <1>5, <1>6

\* Nobody holds an account at first.
LEMMA AccountInit == Init => AccountInv
<1> SUFFICES ASSUME Init PROVE AccountInv
  OBVIOUS
<1>1. MapInv
  BY MapInit
<1>2. \A c \in Conn : h[c].pc = "new"
  BY DEF Init, Handler
<1>3. acked = {}
  BY DEF Init
<1>4. HolderInv
  BY <1>2 DEF HolderInv, Holds, LoginPcs, LeavePcs, Serving, ChatPcs
<1>5. SessionInv
  BY <1>2, <1>3 DEF SessionInv, LoginPcs, Inserted
<1>6. QED
  BY <1>1, <1>4, <1>5 DEF AccountInv

\* Every step keeps the invariant.
LEMMA AccountStep ==
  ASSUME ~Overlap, ~Relogin, ~CanReset, AccountInv, [Next]_vars
  PROVE  AccountInv'
<1>1. MapInv'
  BY MapStep DEF AccountInv
<1>2. TypeOK' /\ MapInv
  BY <1>1 DEF MapInv, AccountInv
<1>3. HolderInv' /\ SessionInv'
  <2>1. ASSUME NEW c \in Conn, HandlerStep(c) \/ ClientStep(c)
        PROVE  HolderInv' /\ SessionInv'
    <3>1. Local(c)
      BY <1>2, <2>1, LocalStep
    <3>2. Claims(c) /\ Secures(c)
      BY <2>1, ClaimStep
    <3>3. QED
      BY <1>2, <3>1, <3>2, ClaimsKeep
  <2>2. ASSUME NEW s \in Server, ResetExit(s) \/ Crash(s)
        PROVE  HolderInv' /\ SessionInv'
    <3>1. Exit(s) /\ db' = db
      BY <2>2 DEF ResetExit, Crash, Exit
    <3>2. QED
      BY <1>2, <3>1, CrashKeeps
  <2>3. ASSUME UNCHANGED <<h, map, acct, acked, db>>
        PROVE  HolderInv' /\ SessionInv'
    <3>1. HolderInv /\ SessionInv
      BY DEF AccountInv
    <3>2. QED
      BY <2>3, <3>1 DEF HolderInv, Holds, SessionInv
  <2>4. ASSUME NEW s \in Server, ObserverStep(s) \/ RedisExecute(s)
        PROVE  UNCHANGED <<h, map, acct, acked, db>>
    BY <2>4 DEF ObserverStep, ObserverFind, ObserverStore, RedisExecute, clientVars
  <2>5. CASE UNCHANGED vars
    BY <2>3, <2>5 DEF vars
  <2>6. QED
    BY <2>1, <2>2, <2>3, <2>4, <2>5 DEF Next, ResetState
<1>4. QED
  BY <1>1, <1>3 DEF AccountInv

-----------------------------------------------------------------------------
(* Where a copy of a message is: with a handler, in redis, with the        *)
(* observer thread, in the table, in the answer to a login, with a client. *)

Chats(c, p) == h[c].pc \in ChatPcs /\ h[c].msg = p[1] /\ p[2] \in h[c].to
Queued(s, i, p) == i \in DOMAIN chan[s] /\ chan[s][i] = p
Observed(s, i, p) == i \in DOMAIN obs[s] /\ obs[s][i] = p
Tabled(i, p) == i \in DOMAIN offline[p[2]] /\ offline[p[2]][i] = p[1]
Answers(c, i, p) ==
  h[c].pc = "l_ack" /\ h[c].user = p[2] /\ i \in DOMAIN h[c].vec /\ h[c].vec[i] = p[1]

\* Place i of kind k at x has copy p.
Has(k, x, i, p) ==
  \/ k = "handler" /\ x \in Conn /\ i = 0 /\ Chats(x, p)
  \/ k = "redis" /\ x \in Server /\ Queued(x, i, p)
  \/ k = "observer" /\ x \in Server /\ Observed(x, i, p)
  \/ k = "table" /\ x = p[2] /\ Tabled(i, p)
  \/ k = "answer" /\ x \in Conn /\ Answers(x, i, p)
  \/ k = "client" /\ x = p[2] /\ i = 0 /\ handed[p] > 0

Place == Conn \union Server \union User
Kind == {"handler", "redis", "observer", "table", "answer", "client"}

\* It is in one place only, was handed over once at most, and is of a message
\* that some client has sent.
CopyOk(p) ==
  /\ \A k, l \in Kind, x, y \in Place, i, j \in Nat :
       Has(k, x, i, p) /\ Has(l, y, j, p) => k = l /\ x = y /\ i = j
  /\ handed[p] <= 1
  /\ \A k \in Kind, x \in Place, i \in Nat :
       Has(k, x, i, p) => p[1] \in used

\* Connection c has account u and may have its server subscribed for it.
Subscribes(c, u) ==
  Holds(c, u) /\ h[c].pc \notin {"l_insert", "l_subscribe", "o_offline", "d_offline"}

\* A server that has subscribed for a user has his connection or is about to
\* unsubscribe, and redis has executed all commands.
SubsInv ==
  /\ \A s \in Server : cmds[s] = <<>>
  /\ \A s \in Server : \A u \in subs[s] :
       \E c \in Conn : SrvOf[c] = s /\ Subscribes(c, u)

\* What login() has read is what it is going to delete, and a chat handler
\* works on one of its recipients.
ReadOk(c) ==
  /\ h[c].pc = "l_remove" =>
       /\ Len(h[c].vec) <= Len(offline[h[c].user])
       /\ \A i \in DOMAIN h[c].vec : h[c].vec[i] = offline[h[c].user][i]
  /\ h[c].pc \in {"c_query", "c_publish", "c_store"} => h[c].user \in h[c].to

ReadInv == \A c \in Conn : ReadOk(c)

MessageInv ==
  AccountInv /\ SubsInv /\ ReadInv /\ \A p \in Copy : CopyOk(p)
-----------------------------------------------------------------------------
(* What the handlers hold.                                                 *)

\* What else is in the handler of c after a step.
Carries(c, t, v) == h'[c].to = t /\ h'[c].vec = v

\* ... when that step stores a record in full.
LEMMA StoredContents ==
  ASSUME TypeOK, NEW c \in Conn, NEW p \in Pcs, NEW u \in User \union {None},
         NEW t \in SUBSET User, NEW m \in Msg \union {None}, NEW l \in BOOLEAN,
         NEW v \in Seq(Msg), h' = [h EXCEPT ![c] = Full(p, u, t, m, l, v)]
  PROVE  Carries(c, t, v)
<1>1. PICK k : k = Full(p, u, t, m, l, v)
  OBVIOUS
<1>2. k.pc = p /\ k.to = t /\ k.vec = v
  BY <1>1, Fields
<1>3. h \in [Conn -> HandlerType] /\ h' = [h EXCEPT ![c] = k]
  BY <1>1 DEF TypeOK
<1>4. QED
  BY <1>2, <1>3 DEF Carries

\* The recipients that a chat handler has left, and the messages that login()
\* has read, as the handlers go on.
LEMMA Contents ==
  ASSUME TypeOK, NEW c \in Conn, NEW p \in Pcs, NEW u \in User,
         NEW m \in Msg \union {None}, NEW to \in SUBSET User, NEW b \in BOOLEAN
  PROVE  /\ Go(c, p) => h'[c].to = h[c].to /\ h'[c].vec = h[c].vec
         /\ h' = [h EXCEPT ![c].pc = p, ![c].user = u] => h'[c].to = h[c].to
         /\ Served(c, u) =>
              \/ h'[c].pc = "idle"
              \/ h'[c].pc = "c_find" /\ h'[c].to = h[c].to \ {u}
         /\ h' = [h EXCEPT ![c] = [Handler("c_find") EXCEPT
                                     !.msg = m, !.to = to, !.locked = b]]
              => h'[c].to = to
<1>1. h \in [Conn -> HandlerType] /\ h[c] \in HandlerType
  BY DEF TypeOK
<1>2. PICK q \in Pcs, w \in User \union {None}, t \in SUBSET User,
           n \in Msg \union {None}, l \in BOOLEAN, v \in Seq(Msg) :
             h[c] = Full(q, w, t, n, l, v)
  BY <1>1, IsFull
<1>3. h[c].to = t /\ h[c].vec = v
  BY <1>2, Fields
<1>4. ASSUME Go(c, p) PROVE h'[c].to = h[c].to /\ h'[c].vec = h[c].vec
  <2>1. h' = [h EXCEPT ![c] = [Full(q, w, t, n, l, v) EXCEPT !.pc = p]]
    BY <1>2, <1>4, Zenon DEF Go
  <2>2. [Full(q, w, t, n, l, v) EXCEPT !.pc = p] = Full(p, w, t, n, l, v)
    BY DEF Full
  <2>3. h' = [h EXCEPT ![c] = Full(p, w, t, n, l, v)]
    BY <2>1, <2>2, Zenon
  <2>4. Carries(c, t, v)
    BY <2>3, StoredContents
  <2>5. QED
    BY <1>3, <2>4 DEF Carries
<1>5. ASSUME h' = [h EXCEPT ![c].pc = p, ![c].user = u] PROVE h'[c].to = h[c].to
  <2>1. PICK g : g = [h EXCEPT ![c].pc = p]
    OBVIOUS
  <2>2. g = [h EXCEPT ![c] = [Full(q, w, t, n, l, v) EXCEPT !.pc = p]]
    BY <1>2, <2>1, Zenon
  <2>3. [Full(q, w, t, n, l, v) EXCEPT !.pc = p] = Full(p, w, t, n, l, v)
    BY DEF Full
  <2>4. g = [h EXCEPT ![c] = Full(p, w, t, n, l, v)]
    BY <2>2, <2>3, Zenon
  <2>5. g[c] = Full(p, w, t, n, l, v)
    BY <1>1, <2>4
  <2>6. h' = [g EXCEPT ![c] = [Full(p, w, t, n, l, v) EXCEPT !.user = u]]
    BY <1>5, <2>1, <2>5, Zenon
  <2>7. [Full(p, w, t, n, l, v) EXCEPT !.user = u] = Full(p, u, t, n, l, v)
    BY DEF Full
  <2>8. PICK k : k = Full(p, u, t, n, l, v)
    OBVIOUS
  <2>9. h' = [h EXCEPT ![c] = k]
    BY <1>1, <2>4, <2>6, <2>7, <2>8
  <2>10. Carries(c, t, v)
    BY <2>8, <2>9, StoredContents
  <2>11. QED
    BY <1>3, <2>10 DEF Carries
<1>6. ASSUME Served(c, u)
      PROVE  \/ h'[c].pc = "idle"
             \/ h'[c].pc = "c_find" /\ h'[c].to = h[c].to \ {u}
  <2>1. CASE h[c].to = {u}
    BY <1>1, <1>6, <2>1 DEF Served, Handler
  <2>2. CASE h[c].to # {u}
    <3>1. PICK r : r = h[c].to \ {u}
      OBVIOUS
    <3>2. PICK k : k = [h[c] EXCEPT !.to = h[c].to \ {u}, !.pc = "c_find", !.user = None]
      OBVIOUS
    <3>3. k = [h[c] EXCEPT !.to = r, !.pc = "c_find", !.user = None]
      BY <3>1, <3>2, Zenon
    <3>4. k.pc = "c_find" /\ k.to = r
      BY <1>1, <3>3 DEF HandlerType
    <3>5. h' = [h EXCEPT ![c] = k]
      BY <1>6, <2>2, <3>2, Zenon DEF Served
    <3>6. QED
      BY <1>1, <3>1, <3>4, <3>5
  <2>3. QED
    BY <2>1, <2>2
<1>7. ASSUME h' = [h EXCEPT ![c] = [Handler("c_find") EXCEPT
                                      !.msg = m, !.to = to, !.locked = b]]
      PROVE  h'[c].to = to
  BY <1>1, <1>7 DEF Handler
<1>8. QED
  BY <1>4, <1>5, <1>6, <1>7

\* ... and as login() reads them.
LEMMA ReadContents ==
  ASSUME TypeOK, NEW c \in Conn, NEW p \in Pcs, NEW vec \in Seq(Msg),
         h' = [h EXCEPT ![c].vec = vec, ![c].pc = p]
  PROVE  h'[c].vec = vec /\ h'[c].pc = p
<1>1. h \in [Conn -> HandlerType] /\ h[c] \in HandlerType
  BY DEF TypeOK
<1>2. PICK q \in Pcs, w \in User \union {None}, t \in SUBSET User,
           n \in Msg \union {None}, l \in BOOLEAN, v \in Seq(Msg) :
             h[c] = Full(q, w, t, n, l, v)
  BY <1>1, IsFull
<1>3. PICK g : g = [h EXCEPT ![c].vec = vec]
  OBVIOUS
<1>4. g = [h EXCEPT ![c] = [Full(q, w, t, n, l, v) EXCEPT !.vec = vec]]
  BY <1>2, <1>3, Zenon
<1>5. [Full(q, w, t, n, l, v) EXCEPT !.vec = vec] = Full(q, w, t, n, l, vec)
  BY DEF Full
<1>6. g = [h EXCEPT ![c] = Full(q, w, t, n, l, vec)]
  BY <1>4, <1>5, Zenon
<1>7. g[c] = Full(q, w, t, n, l, vec)
  BY <1>1, <1>6
<1>8. h' = [g EXCEPT ![c] = [Full(q, w, t, n, l, vec) EXCEPT !.pc = p]]
  BY <1>3, <1>7, Zenon
<1>9. [Full(q, w, t, n, l, vec) EXCEPT !.pc = p] = Full(p, w, t, n, l, vec)
  BY DEF Full
<1>10. PICK k : k = Full(p, w, t, n, l, vec)
  OBVIOUS
<1>11. k.pc = p /\ k.vec = vec
  BY <1>10, Fields
<1>12. h' = [h EXCEPT ![c] = k]
  BY <1>1, <1>6, <1>8, <1>9, <1>10
<1>13. QED
  BY <1>1, <1>11, <1>12

-----------------------------------------------------------------------------
(* Where the copies are, step by step.                                     *)

\* Copy p is nowhere after the step where it was not before, as far as the
\* queues, the table and the clients are concerned.
RestStays(p) ==
  /\ \A s \in Server, i \in Nat :
       /\ Queued(s, i, p)' => Queued(s, i, p)
       /\ Observed(s, i, p)' => Observed(s, i, p)
  /\ \A i \in Nat : Tabled(i, p)' => Tabled(i, p)
  /\ handed'[p] = handed[p] /\ used \subseteq used'

HandlersStay(p) ==
  \A c \in Conn : /\ Chats(c, p)' => Chats(c, p)
                  /\ \A i \in Nat : Answers(c, i, p)' => Answers(c, i, p)

\* A place of p after the step has one before it: the same, or for those of
\* kind k at x the one of kind l at y that is d further on.
Shifts(p, k, x, l, y, d) ==
  \A k1 \in Kind, x1 \in Place, i1 \in Nat :
    Has(k1, x1, i1, p)' =>
      \/ k1 = k /\ x1 = x /\ Has(l, y, i1 + d, p)
      \/ /\ k1 # k \/ x1 # x
         /\ k1 # l \/ y # x1
         /\ Has(k1, x1, i1, p)

\* A copy that moves up in its queue, or is deleted from the table as the
\* answer to a login() takes it along, is still in one place.
LEMMA Renamed ==
  ASSUME NEW p \in Copy, CopyOk(p), handed'[p] <= 1, used \subseteq used',
         NEW k \in Kind, NEW x \in Place, NEW l \in Kind, NEW y \in Place,
         NEW d \in Nat, Shifts(p, k, x, l, y, d)
  PROVE  CopyOk(p)'
<1> USE DEF Shifts
<1>1. ASSUME NEW k1 \in Kind, NEW k2 \in Kind, NEW x1 \in Place, NEW x2 \in Place,
             NEW i1 \in Nat, NEW i2 \in Nat, Has(k1, x1, i1, p)', Has(k2, x2, i2, p)'
      PROVE  k1 = k2 /\ x1 = x2 /\ i1 = i2
  <2>1. i1 + d \in Nat /\ i2 + d \in Nat
    OBVIOUS
  <2>2. \A k3, k4 \in Kind, x3, x4 \in Place, i3, i4 \in Nat :
          Has(k3, x3, i3, p) /\ Has(k4, x4, i4, p) => k3 = k4 /\ x3 = x4 /\ i3 = i4
    BY DEF CopyOk
  <2>3. CASE k1 = k /\ x1 = x /\ Has(l, y, i1 + d, p)
    <3>1. CASE k2 = k /\ x2 = x /\ Has(l, y, i2 + d, p)
      <4>1. i1 + d = i2 + d
        BY <2>1, <2>2, <2>3, <3>1
      <4>2. QED
        BY <2>3, <3>1, <4>1
    <3>2. CASE (k2 # l \/ y # x2) /\ Has(k2, x2, i2, p)
      BY <2>1, <2>2, <2>3, <3>2
    <3>3. QED
      BY <1>1, <3>1, <3>2
  <2>4. CASE (k1 # k \/ x1 # x) /\ (k1 # l \/ y # x1) /\ Has(k1, x1, i1, p)
    <3>1. CASE k2 = k /\ x2 = x /\ Has(l, y, i2 + d, p)
      BY <2>1, <2>2, <2>4, <3>1
    <3>2. CASE Has(k2, x2, i2, p)
      BY <2>2, <2>4, <3>2
    <3>3. QED
      BY <1>1, <3>1, <3>2
  <2>5. QED
    BY <1>1, <2>3, <2>4
<1>2. ASSUME NEW k1 \in Kind, NEW x1 \in Place, NEW i1 \in Nat, Has(k1, x1, i1, p)'
      PROVE  p[1] \in used'
  <2>1. i1 + d \in Nat
    OBVIOUS
  <2>2. Has(l, y, i1 + d, p) \/ Has(k1, x1, i1, p)
    BY <1>2
  <2>3. QED
    BY <2>1, <2>2 DEF CopyOk
<1>3. QED
  BY <1>1, <1>2 DEF CopyOk

\* In particular, a copy may stay or get lost.
LEMMA Stays ==
  ASSUME NEW p \in Copy, CopyOk(p), RestStays(p), HandlersStay(p)
  PROVE  CopyOk(p)'
<1>1. \A k \in Kind, x \in Place, i \in Nat : Has(k, x, i, p)' => Has(k, x, i, p)
  BY DEF Has, RestStays, HandlersStay
<1>2. handed'[p] <= 1 /\ used \subseteq used'
  BY DEF CopyOk, RestStays
<1>3. ASSUME NEW k1 \in Kind, NEW k2 \in Kind, NEW x1 \in Place, NEW x2 \in Place,
             NEW i1 \in Nat, NEW i2 \in Nat, Has(k1, x1, i1, p)', Has(k2, x2, i2, p)'
      PROVE  k1 = k2 /\ x1 = x2 /\ i1 = i2
  BY <1>1, <1>3 DEF CopyOk
<1>4. ASSUME NEW k1 \in Kind, NEW x1 \in Place, NEW i1 \in Nat, Has(k1, x1, i1, p)'
      PROVE  p[1] \in used'
  BY <1>1, <1>2, <1>4 DEF CopyOk
<1>5. QED
  BY <1>2, <1>3, <1>4 DEF CopyOk

\* A copy that is in one place after the step.
LEMMA OnlyAt ==
  ASSUME NEW p \in Copy, handed'[p] <= 1, p[1] \in used',
         NEW k, NEW x, NEW i,
         \A k1 \in Kind, x1 \in Place, i1 \in Nat :
           Has(k1, x1, i1, p)' => k1 = k /\ x1 = x /\ i1 = i
  PROVE  CopyOk(p)'
<1>1. ASSUME NEW k1 \in Kind, NEW k2 \in Kind, NEW x1 \in Place, NEW x2 \in Place,
             NEW i1 \in Nat, NEW i2 \in Nat, Has(k1, x1, i1, p)', Has(k2, x2, i2, p)'
      PROVE  k1 = k2 /\ x1 = x2 /\ i1 = i2
  BY <1>1
<1>2. QED
  BY <1>1 DEF CopyOk

-----------------------------------------------------------------------------
(* The queues and the table.                                               *)

\* A stored message is the last one in the table.
LEMMA StoredIsLast ==
  ASSUME TypeOK, NEW u \in User, NEW m \in Msg, StoreOffline(u, m),
         NEW p \in Copy, NEW i \in Nat
  PROVE  /\ i \in DOMAIN offline[p[2]] => Tabled(i, p)' = Tabled(i, p)
         /\ Tabled(i, p)' => \/ Tabled(i, p)
                             \/ /\ p[2] = u /\ p[1] = m
                                /\ i = Len(offline[u]) + 1
<1>1. offline \in [User -> Seq(Msg)] /\ p[1] \in Msg /\ p[2] \in User
  BY DEF TypeOK, Copy
<1>2. offline' = [offline EXCEPT ![u] = Append(offline[u], m)]
  BY DEF StoreOffline
<1>3. CASE p[2] # u
  BY <1>1, <1>2, <1>3 DEF Tabled
<1>4. CASE p[2] = u
  <2>1. PICK q \in Seq(Msg) : q = offline[u]
    BY <1>1
  <2>2. offline'[u] = Append(q, m)
    BY <1>1, <1>2, <2>1
  <2>3. /\ Append(q, m) \in Seq(Msg) /\ Len(Append(q, m)) = Len(q) + 1
        /\ \A j \in 1..Len(q) : Append(q, m)[j] = q[j]
        /\ Append(q, m)[Len(q) + 1] = m
    BY <2>1, AppendProperties
  <2>4. /\ Len(q) \in Nat /\ DOMAIN q = 1..Len(q)
        /\ DOMAIN Append(q, m) = 1..(Len(q) + 1)
    BY <2>1, <2>3, LenProperties
  <2>5. QED
    BY <1>4, <2>1, <2>2, <2>3, <2>4 DEF Tabled
<1>5. QED
  BY <1>3, <1>4

\* Redis appends a published copy to the queues of the subscribed servers.
LEMMA PublishedIsLast ==
  ASSUME TypeOK, NEW u \in User, NEW m \in Msg, Publish(u, m),
         NEW p \in Copy, NEW s \in Server, NEW i \in Nat, Queued(s, i, p)'
  PROVE  \/ Queued(s, i, p)
         \/ p[2] = u /\ p[1] = m /\ u \in subs[s] /\ i = Len(chan[s]) + 1
<1>1. chan \in [Server -> Seq(Copy)]
  BY DEF TypeOK
<1>2. PICK r : r = <<m, u>>
  OBVIOUS
<1>3. r \in Copy /\ r[1] = m /\ r[2] = u
  BY <1>2 DEF Copy
<1>4. chan'[s] = IF u \in subs[s] THEN Append(chan[s], r) ELSE chan[s]
  BY <1>2 DEF Publish
<1>5. CASE u \notin subs[s]
  BY <1>4, <1>5 DEF Queued
<1>6. CASE u \in subs[s]
  <2>1. PICK q \in Seq(Copy) : q = chan[s]
    BY <1>1
  <2>2. chan'[s] = Append(q, r)
    BY <1>4, <1>6, <2>1
  <2>3. /\ Append(q, r) \in Seq(Copy) /\ Len(Append(q, r)) = Len(q) + 1
        /\ \A j \in 1..Len(q) : Append(q, r)[j] = q[j]
        /\ Append(q, r)[Len(q) + 1] = r
    BY <1>3, <2>1, AppendProperties
  <2>4. /\ Len(q) \in Nat /\ DOMAIN q = 1..Len(q)
        /\ DOMAIN Append(q, r) = 1..(Len(q) + 1)
    BY <2>1, <2>3, LenProperties
  <2>5. QED
    BY <1>3, <1>6, <2>1, <2>2, <2>3, <2>4 DEF Queued
<1>7. QED
  BY <1>5, <1>6

\* The observer thread takes the first copy; the others move up.
LEMMA TakenIsFirst ==
  ASSUME TypeOK, NEW s \in Server, chan[s] # <<>>,
         chan' = [chan EXCEPT ![s] = Tail(chan[s])]
  PROVE  /\ Head(chan[s]) \in Copy /\ Queued(s, 1, Head(chan[s]))
         /\ \A p \in Copy, i \in Nat : Queued(s, i, p)' => i > 0 /\ Queued(s, i + 1, p)
         /\ \A t \in Server, p \in Copy, i \in Nat :
              t # s => Queued(t, i, p)' = Queued(t, i, p)
<1>1. chan \in [Server -> Seq(Copy)]
  BY DEF TypeOK
<1>2. PICK q \in Seq(Copy) : q = chan[s]
  BY <1>1
<1>3. /\ Head(q) \in Copy /\ Tail(q) \in Seq(Copy) /\ Len(Tail(q)) = Len(q) - 1
      /\ \A i \in 1..Len(Tail(q)) : Tail(q)[i] = q[i + 1]
  BY <1>2, HeadTailProperties
<1>4. /\ Len(q) \in Nat \ {0} /\ DOMAIN q = 1..Len(q)
      /\ DOMAIN Tail(q) = 1..Len(Tail(q)) /\ Head(q) = q[1]
  BY <1>2, <1>3, LenProperties, EmptySeq
<1>5. chan'[s] = Tail(q)
  BY <1>1, <1>2
<1>6. Head(chan[s]) \in Copy /\ Queued(s, 1, Head(chan[s]))
  BY <1>2, <1>3, <1>4 DEF Queued
<1>7. ASSUME NEW p \in Copy, NEW i \in Nat, Queued(s, i, p)'
      PROVE  i > 0 /\ Queued(s, i + 1, p)
  <2>1. PICK r : r = Tail(q)
    OBVIOUS
  <2>2. i \in DOMAIN r /\ r[i] = p
    BY <1>5, <1>7, <2>1 DEF Queued
  <2>3. i \in 1..Len(r) /\ Len(r) = Len(q) - 1
    BY <1>3, <1>4, <2>1, <2>2
  <2>4. r[i] = q[i + 1]
    BY <1>3, <2>1, <2>3
  <2>5. i + 1 \in DOMAIN q
    BY <1>4, <2>3
  <2>6. QED
    BY <1>2, <2>2, <2>3, <2>4, <2>5 DEF Queued
<1>8. ASSUME NEW t \in Server, NEW p \in Copy, NEW i \in Nat, t # s
      PROVE  Queued(t, i, p)' = Queued(t, i, p)
  BY <1>1, <1>8 DEF Queued
<1>9. QED
  BY <1>6, <1>7, <1>8

-----------------------------------------------------------------------------
(* The handlers.                                                           *)

\* What becomes of recipients and messages in the steps of login() and of the
\* chat handlers.
LEMMA ContentSteps ==
  ASSUME TypeOK, HandlerInv, NEW c \in Conn
  PROVE  /\ ChatQuery(c) => h'[c].to = h[c].to
         /\ \A u \in User : ChatFind(c, u) =>
              \/ UNCHANGED handed /\ h'[c].pc = "c_query" /\ h'[c].to = h[c].to
              \/ /\ handed' = [handed EXCEPT ![<<h[c].msg, u>>] = @ + 1]
                 /\ \/ h'[c].pc = "idle"
                    \/ h'[c].pc = "c_find" /\ h'[c].to = h[c].to \ {u}
         /\ ChatPublish(c) \/ ChatStore(c) =>
              \/ h'[c].pc = "idle"
              \/ h'[c].pc = "c_find" /\ h'[c].to = h[c].to \ {h[c].user}
         /\ LoginReadOffline(c) =>
              /\ h'[c].vec = offline[h[c].user]
              /\ h'[c].pc = "l_ack" => h'[c].vec = <<>>
         /\ LoginRemoveOffline(c) => h'[c].vec = h[c].vec
<1>1. HandlerOk(c)
  BY DEF HandlerInv
<1>2. PICK m \in Msg \union {None}, to \in SUBSET User, b \in BOOLEAN : m = None
  <2>1. None \in Msg \union {None} /\ {} \in SUBSET User /\ TRUE \in BOOLEAN
    OBVIOUS
  <2>2. QED
    BY <2>1, Zenon
<1>3. ASSUME ChatQuery(c) PROVE h'[c].to = h[c].to
  <2>1. PICK q \in Pcs : Go(c, q)
    BY <1>3, PcsFacts DEF ChatQuery
  <2>2. PICK u \in User : u = h[c].user
    BY <1>1, <1>3 DEF ChatQuery, At, HandlerOk
  <2>3. QED
    BY <1>2, <2>1, <2>2, Contents
<1>4. ASSUME NEW u \in User, ChatFind(c, u)
      PROVE  \/ UNCHANGED handed /\ h'[c].pc = "c_query" /\ h'[c].to = h[c].to
             \/ /\ handed' = [handed EXCEPT ![<<h[c].msg, u>>] = @ + 1]
                /\ \/ h'[c].pc = "idle"
                   \/ h'[c].pc = "c_find" /\ h'[c].to = h[c].to \ {u}
  <2>1. CASE /\ handed' = [handed EXCEPT ![<<h[c].msg, u>>] = @ + 1]
             /\ Served(c, u)
    <3>1. "idle" \in Pcs
      BY PcsFacts
    <3>2. QED
      BY <1>2, <2>1, <3>1, Contents
  <2>2. CASE /\ h' = [h EXCEPT ![c].pc = "c_query", ![c].user = u]
             /\ UNCHANGED handed
    <3>1. PICK q \in Pcs : q = "c_query"
      BY PcsFacts
    <3>2. h' = [h EXCEPT ![c].pc = q, ![c].user = u]
      BY <2>2, <3>1
    <3>3. h'[c].to = h[c].to
      BY <1>2, <3>2, Contents
    <3>4. Moved(c, q, u, h[c].msg)
      BY <3>2, Moves
    <3>5. QED
      BY <2>2, <3>1, <3>3, <3>4 DEF Moved
  <2>3. QED
    BY <1>4, <2>1, <2>2 DEF ChatFind
<1>5. ASSUME ChatPublish(c) \/ ChatStore(c)
      PROVE  \/ h'[c].pc = "idle"
             \/ h'[c].pc = "c_find" /\ h'[c].to = h[c].to \ {h[c].user}
  <2>1. PICK u \in User : u = h[c].user
    BY <1>1, <1>5 DEF ChatPublish, ChatStore, At, HandlerOk
  <2>2. Served(c, u) /\ "idle" \in Pcs
    BY <1>5, <2>1, PcsFacts DEF ChatPublish, ChatStore
  <2>3. QED
    BY <1>2, <2>1, <2>2, Contents
<1>6. ASSUME LoginReadOffline(c)
      PROVE  /\ h'[c].vec = offline[h[c].user]
             /\ h'[c].pc = "l_ack" => h'[c].vec = <<>>
  <2>1. PICK u \in User : u = h[c].user
    BY <1>1, <1>6 DEF LoginReadOffline, At, HandlerOk, LoginPcs
  <2>2. PICK v \in Seq(Msg) : v = offline[u]
    BY DEF TypeOK
  <2>3. PICK q \in Pcs : q = AfterRead(v)
    BY PcsFacts DEF AfterRead
  <2>4. h' = [h EXCEPT ![c].vec = v, ![c].pc = q]
    BY <1>6, <2>1, <2>2, <2>3, Zenon DEF LoginReadOffline
  <2>5. h'[c].vec = v /\ h'[c].pc = q
    BY <2>4, ReadContents
  <2>6. QED
    BY <2>1, <2>2, <2>3, <2>5 DEF AfterRead
<1>7. ASSUME LoginRemoveOffline(c) PROVE h'[c].vec = h[c].vec
  <2>1. PICK q \in Pcs : Go(c, q)
    BY <1>7, PcsFacts DEF LoginRemoveOffline
  <2>2. PICK u \in User : u = h[c].user
    BY <1>1, <1>7 DEF LoginRemoveOffline, At, HandlerOk, LoginPcs
  <2>3. QED
    BY <1>2, <2>1, <2>2, Contents
<1>8. QED
  BY <1>3, <1>4, <1>5, <1>6, <1>7

\* The step gives the handler of c no recipient and no message that it had not
\* before.
TakesNothing(c) ==
  /\ \A d \in Conn : d # c => h'[d] = h[d]
  /\ \/ h'[c].pc \notin ChatPcs \union {"l_ack"}
     \/ h'[c].pc = "l_ack" /\ h'[c].vec = <<>>
     \/ /\ h[c].pc \in ChatPcs /\ h'[c].pc \in ChatPcs
        /\ h'[c].msg = h[c].msg /\ h'[c].to \subseteq h[c].to

\* After such a step, as most are, no handler has a copy that it had not before.
LEMMA HandlersStill ==
  ASSUME NEW p \in Copy, NEW c \in Conn, TakesNothing(c)
  PROVE  HandlersStay(p)
<1>1. ASSUME NEW d \in Conn
      PROVE  /\ Chats(d, p)' => Chats(d, p)
             /\ \A i \in Nat : Answers(d, i, p)' => Answers(d, i, p)
  <2>1. CASE d # c
    BY <2>1 DEF Chats, Answers, TakesNothing
  <2>2. CASE d = c
    BY <2>2 DEF Chats, Answers, TakesNothing, ChatPcs
  <2>3. QED
    BY <2>1, <2>2
<1>2. QED
  BY <1>1 DEF HandlersStay

\* Steps that are about no message.
LEMMA SilentSteps ==
  ASSUME TypeOK, HandlerInv, NEW c \in Conn, NEW p \in Copy, CopyOk(p),
         \/ Connect(c) \/ ClientClose(c) \/ CloseErase(c) \/ Unsubscribe(c)
         \/ SetOffline(c) \/ LoginQuery(c) \/ LoginInsert(c)
         \/ LoginSubscribe(c) \/ LoginOnline(c) \/ LoginReadOffline(c)
         \/ LogoutErase(c) \/ ChatQuery(c) \/ Loginout(c)
         \/ \E u \in User : Login(c, u)
         \/ \E u \in User : ChatFind(c, u) /\ UNCHANGED handed
  PROVE  CopyOk(p)'
<1>1. RestStays(p)
  <2>1. UNCHANGED <<chan, obs, offline, handed, used>>
    BY DEF redisVars, histVars, msgVars, clientVars, Command, Connect, ClientClose,
           CloseErase, Unsubscribe, SetOffline, LoginQuery, LoginInsert,
           LoginSubscribe, LoginOnline, LoginReadOffline, LogoutErase,
           ChatQuery, Loginout, Login, ChatFind
  <2>2. QED
    BY <2>1 DEF RestStays, Queued, Observed, Tabled
<1> SUFFICES HandlersStay(p)
  BY <1>1, Stays
<1>2. ASSUME NEW q \in Pcs, q \notin ChatPcs \union {"l_ack"}, NEW u, NEW m,
             Moved(c, q, u, m)
      PROVE  HandlersStay(p)
  <2>1. TakesNothing(c)
    BY <1>2 DEF Moved, TakesNothing
  <2>2. QED
    BY <2>1, HandlersStill
<1>3. CASE ClientClose(c)
  BY <1>3 DEF ClientClose, HandlersStay, Chats, Answers
<1>4. CASE \/ Connect(c) \/ CloseErase(c) \/ Unsubscribe(c) \/ SetOffline(c)
           \/ LoginQuery(c) \/ LoginInsert(c) \/ LoginSubscribe(c)
           \/ LoginOnline(c) \/ LogoutErase(c) \/ Loginout(c)
           \/ \E u \in User : Login(c, u)
  <2>1. {"idle", "closed", "l_query", "l_insert", "l_subscribe", "l_online", "l_read",
         "o_erase", "o_unsubscribe", "o_offline", "d_unsubscribe", "d_offline"}
          \subseteq Pcs \ (ChatPcs \union {"l_ack"})
    BY PcsFacts DEF ChatPcs
  <2>2. \E q \in Pcs \ (ChatPcs \union {"l_ack"}) :
          \E u \in User \union {None}, m \in Msg \union {None} : Moved(c, q, u, m)
    <3>1. h[c].user \in User \union {None} /\ h[c].msg \in Msg \union {None}
          /\ acct[c] \in User \union {None} /\ None \in User \union {None}
          /\ None \in Msg \union {None}
      BY DEF TypeOK, HandlerType
    <3>2. CASE Connect(c) \/ CloseErase(c) \/ Unsubscribe(c) \/ SetOffline(c)
      BY <2>1, <3>1, <3>2, HandlerSteps
    <3>3. CASE \/ LoginQuery(c) \/ LoginInsert(c) \/ LoginSubscribe(c)
               \/ LoginOnline(c)
      BY <2>1, <3>1, <3>3, HandlerSteps
    <3>4. CASE LogoutErase(c) \/ Loginout(c) \/ \E u \in User : Login(c, u)
      BY <2>1, <3>1, <3>4, HandlerSteps
    <3>5. QED
      BY <1>4, <3>2, <3>3, <3>4
  <2>3. QED
    BY <1>2, <2>2
<1>5. CASE LoginReadOffline(c)
  <2>1. \/ Moved(c, "l_remove", h[c].user, h[c].msg)
        \/ Moved(c, "l_ack", h[c].user, h[c].msg)
    BY <1>5, HandlerSteps
  <2>2. h'[c].pc = "l_ack" => h'[c].vec = <<>>
    BY <1>5, ContentSteps
  <2>3. TakesNothing(c)
    BY <2>1, <2>2 DEF Moved, TakesNothing, ChatPcs
  <2>4. QED
    BY <2>3, HandlersStill
<1>6. CASE ChatQuery(c)
  <2>1. \/ Moved(c, "c_publish", h[c].user, h[c].msg)
        \/ Moved(c, "c_store", h[c].user, h[c].msg)
    BY <1>6, HandlerSteps
  <2>2. h'[c].to = h[c].to /\ h[c].pc = "c_query"
    BY <1>6, ContentSteps DEF ChatQuery, At
  <2>3. TakesNothing(c)
    BY <2>1, <2>2 DEF Moved, TakesNothing, ChatPcs
  <2>4. QED
    BY <2>3, HandlersStill
<1>7. ASSUME NEW u \in User, ChatFind(c, u), UNCHANGED handed
      PROVE  HandlersStay(p)
  <2>1. \/ Moved(c, "idle", None, None)
        \/ Moved(c, "c_find", None, h[c].msg)
        \/ Moved(c, "c_query", u, h[c].msg)
    BY <1>7, HandlerSteps
  <2>2. \/ h'[c].pc = "idle"
        \/ h'[c].pc \in {"c_query", "c_find"} /\ h'[c].to \subseteq h[c].to
    BY <1>7, ContentSteps
  <2>3. h[c].pc = "c_find"
    BY <1>7 DEF ChatFind, At
  <2>4. TakesNothing(c)
    BY <2>1, <2>2, <2>3 DEF Moved, TakesNothing, ChatPcs
  <2>5. QED
    BY <2>4, HandlersStill
<1>8. QED
  BY <1>3, <1>4, <1>5, <1>6, <1>7

-----------------------------------------------------------------------------
(* A copy passes from one place to another.                                *)

\* A copy is what its message and its recipient are.
LEMMA CopyIs ==
  ASSUME NEW m \in Msg, NEW u \in User
  PROVE  /\ <<m, u>> \in Copy
         /\ \A p \in Copy : p = <<m, u>> <=> p[1] = m /\ p[2] = u
BY DEF Copy

\* It leaves x0, where it was, and is nowhere but in the new place then.
PassesOn(p, k0, x0, k, x, i) ==
  \A k1 \in Kind, x1 \in Place, i1 \in Nat :
    Has(k1, x1, i1, p)' =>
      \/ k1 = k /\ x1 = x /\ i1 = i
      \/ (k1 # k0 \/ x1 # x0) /\ Has(k1, x1, i1, p)

\* A copy that passes on like this is still in one place.
LEMMA Passes ==
  ASSUME NEW p \in Copy, CopyOk(p), handed'[p] <= 1, used \subseteq used',
         NEW k0 \in Kind, NEW x0 \in Place, NEW i0 \in Nat, Has(k0, x0, i0, p),
         NEW k, NEW x, NEW i, PassesOn(p, k0, x0, k, x, i)
  PROVE  CopyOk(p)'
<1>1. p[1] \in used'
  BY DEF CopyOk
<1>2. ASSUME NEW k1 \in Kind, NEW x1 \in Place, NEW i1 \in Nat, Has(k1, x1, i1, p)'
      PROVE  k1 = k /\ x1 = x /\ i1 = i
  <2>1. ASSUME k1 # k0 \/ x1 # x0, Has(k1, x1, i1, p) PROVE FALSE
    BY <2>1 DEF CopyOk
  <2>2. QED
    BY <1>2, <2>1 DEF PassesOn
<1>3. QED
  BY <1>1, <1>2, OnlyAt

\* A client sends a new message: there is no copy of it yet.
LEMMA BeginChatCopies ==
  ASSUME TypeOK, HandlerInv, NEW c \in Conn, NEW m \in Msg,
         GroupChat(c, m) \/ \E u \in User : OneChat(c, m, u),
         NEW p \in Copy, CopyOk(p)
  PROVE  CopyOk(p)'
<1>1. Moved(c, "c_find", None, m)
  BY HandlerSteps
<1>2. /\ UNCHANGED <<chan, obs, offline, handed>> /\ m \notin used
      /\ used' = used \union {m}
  BY DEF GroupChat, OneChat, BeginChat, redisVars
<1>3. RestStays(p)
  BY <1>2 DEF RestStays, Queued, Observed, Tabled
<1>4. \A d \in Conn : /\ d # c \/ p[1] # m => (Chats(d, p)' => Chats(d, p))
                      /\ \A i \in Nat : Answers(d, i, p)' => Answers(d, i, p)
  BY <1>1 DEF Moved, Chats, Answers
<1>5. CASE p[1] # m
  <2>1. HandlersStay(p)
    BY <1>4, <1>5 DEF HandlersStay
  <2>2. QED
    BY <1>3, <2>1, Stays
<1>6. CASE p[1] = m
  <2>1. handed'[p] <= 1 /\ p[1] \in used'
    BY <1>2, <1>6 DEF CopyOk
  <2>2. ASSUME NEW k1 \in Kind, NEW x1 \in Place, NEW i1 \in Nat, Has(k1, x1, i1, p)'
        PROVE  k1 = "handler" /\ x1 = c /\ i1 = 0
    <3>1. ~Has(k1, x1, i1, p)
      BY <1>2, <1>6 DEF CopyOk
    <3>2. CASE k1 = "handler"
      BY <1>4, <2>2, <3>1, <3>2 DEF Has
    <3>3. CASE k1 # "handler"
      BY <1>3, <1>4, <2>2, <3>1, <3>3 DEF Has, RestStays
    <3>4. QED
      BY <3>2, <3>3
  <2>3. QED
    BY <2>1, <2>2, OnlyAt
<1>7. QED
  BY <1>5, <1>6

\* A chat handler that has served a recipient has his copy no more.
LEMMA HandlerGivesUp ==
  ASSUME TypeOK, HandlerInv, NEW c \in Conn, h[c].pc \in ChatPcs,
         NEW u \in User, NEW p \in Copy,
         Moved(c, "idle", None, None) \/ Moved(c, "c_find", None, h[c].msg),
         \/ h'[c].pc = "idle"
         \/ h'[c].pc = "c_find" /\ h'[c].to = h[c].to \ {u}
  PROVE  /\ HandlersStay(p)
         /\ p[2] = u => ~Chats(c, p)'
<1>1. TakesNothing(c)
  BY DEF Moved, TakesNothing, ChatPcs
<1>2. p[2] = u => ~Chats(c, p)'
  BY DEF Chats, ChatPcs
<1>3. QED
  BY <1>1, <1>2, HandlersStill

\* It hands the copy over to the client ...
LEMMA ChatFindCopies ==
  ASSUME TypeOK, HandlerInv, NEW c \in Conn, NEW u \in User, ChatFind(c, u),
         NEW p \in Copy, CopyOk(p)
  PROVE  CopyOk(p)'
<1>1. h[c].pc = "c_find" /\ u \in h[c].to /\ h[c].msg \in Msg
  BY DEF ChatFind, At, HandlerInv, HandlerOk, ChatPcs
<1>2. CASE UNCHANGED handed
  BY <1>2, SilentSteps
<1>3. CASE /\ handed' = [handed EXCEPT ![<<h[c].msg, u>>] = @ + 1]
           /\ \/ h'[c].pc = "idle"
              \/ h'[c].pc = "c_find" /\ h'[c].to = h[c].to \ {u}
  <2>1. Moved(c, "idle", None, None) \/ Moved(c, "c_find", None, h[c].msg)
    <3>1. \/ Moved(c, "idle", None, None)
          \/ Moved(c, "c_find", None, h[c].msg)
          \/ Moved(c, "c_query", u, h[c].msg)
      BY HandlerSteps
    <3>2. QED
      BY <1>3, <3>1 DEF Moved
  <2>2. HandlersStay(p) /\ (p[2] = u => ~Chats(c, p)')
    BY <1>1, <1>3, <2>1, HandlerGivesUp DEF ChatPcs
  <2>3. UNCHANGED <<chan, obs, offline, used>>
    BY DEF ChatFind, redisVars
  <2>4. handed \in [Copy -> Nat]
    BY DEF TypeOK
  <2>5. CASE p # <<h[c].msg, u>>
    <3>1. handed'[p] = handed[p]
      BY <1>3, <2>4, <2>5
    <3>2. RestStays(p)
      BY <2>3, <3>1 DEF RestStays, Queued, Observed, Tabled
    <3>3. QED
      BY <2>2, <3>2, Stays
  <2>6. CASE p = <<h[c].msg, u>>
    <3>1. p[1] = h[c].msg /\ p[2] = u
      BY <1>1, <2>6, CopyIs
    <3>2. Has("handler", c, 0, p)
      BY <1>1, <3>1 DEF Has, Chats, ChatPcs
    <3>3. ~Has("client", u, 0, p)
      BY <3>2 DEF CopyOk, Kind, Place
    <3>4. handed[p] = 0
      BY <2>4, <3>1, <3>3 DEF Has
    <3>5. handed'[p] <= 1
      BY <1>3, <2>4, <2>6, <3>4
    <3>6. ASSUME NEW k1 \in Kind, NEW x1 \in Place, NEW i1 \in Nat,
                 Has(k1, x1, i1, p)'
          PROVE  \/ k1 = "client" /\ x1 = u /\ i1 = 0
                 \/ (k1 # "handler" \/ x1 # c) /\ Has(k1, x1, i1, p)
      <4>1. CASE k1 = "client"
        BY <3>1, <3>6, <4>1 DEF Has
      <4>2. CASE k1 = "handler" \/ k1 = "answer"
        BY <2>2, <3>1, <3>6, <4>2 DEF Has, HandlersStay
      <4>3. CASE k1 \notin {"client", "handler", "answer"}
        BY <2>3, <3>6, <4>3 DEF Has, Queued, Observed, Tabled
      <4>4. QED
        BY <4>1, <4>2, <4>3
    <3>7. PassesOn(p, "handler", c, "client", u, 0)
      BY <3>6 DEF PassesOn
    <3>8. "handler" \in Kind /\ c \in Place /\ 0 \in Nat /\ used \subseteq used'
      BY <2>3 DEF Kind, Place
    <3>9. QED
      BY <3>2, <3>5, <3>7, <3>8, Passes
  <2>7. QED
    BY <2>5, <2>6
<1>4. QED
  BY <1>2, <1>3, ContentSteps

\* ... or to redis, which has subscribers on one server at most ...
LEMMA ChatPublishCopies ==
  ASSUME TypeOK, HandlerInv, ReadInv, NEW c \in Conn, ChatPublish(c),
         \A s, t \in Server : \A u \in User : u \in subs[s] /\ u \in subs[t] => s = t,
         NEW p \in Copy, CopyOk(p)
  PROVE  CopyOk(p)'
<1>1. PICK u \in User : u = h[c].user
  BY DEF ChatPublish, At, HandlerInv, HandlerOk
<1>2. PICK m \in Msg : m = h[c].msg
  BY DEF ChatPublish, At, HandlerInv, HandlerOk, ChatPcs
<1>3. h[c].pc \in ChatPcs /\ u \in h[c].to
  BY <1>1 DEF ChatPublish, At, ReadInv, ReadOk, ChatPcs
<1>4. HandlersStay(p) /\ (p[2] = u => ~Chats(c, p)')
  <2>1. \/ Moved(c, "idle", None, None)
        \/ Moved(c, "c_find", None, h[c].msg)
    BY HandlerSteps
  <2>2. \/ h'[c].pc = "idle"
        \/ h'[c].pc = "c_find" /\ h'[c].to = h[c].to \ {u}
    BY <1>1, ContentSteps
  <2>3. QED
    BY <1>3, <2>1, <2>2, HandlerGivesUp
<1>5. /\ UNCHANGED <<obs, offline, used, handed>> /\ Publish(u, m)
      /\ used \subseteq used'
  BY <1>1, <1>2 DEF ChatPublish, msgVars
<1>6. \A s \in Server, i \in Nat : Queued(s, i, p)' =>
        \/ Queued(s, i, p)
        \/ p[2] = u /\ p[1] = m /\ u \in subs[s] /\ i = Len(chan[s]) + 1
  BY <1>5, PublishedIsLast
<1>7. CASE p[2] = u /\ p[1] = m /\ \E s \in Server : u \in subs[s]
  <2>1. PICK s \in Server : u \in subs[s]
    BY <1>7
  <2>2. Has("handler", c, 0, p)
    BY <1>2, <1>3, <1>7 DEF Has, Chats
  <2>3. handed'[p] <= 1
    BY <1>5 DEF CopyOk
  <2>4. ASSUME NEW k1 \in Kind, NEW x1 \in Place, NEW i1 \in Nat, Has(k1, x1, i1, p)'
        PROVE  \/ k1 = "redis" /\ x1 = s /\ i1 = Len(chan[s]) + 1
               \/ (k1 # "handler" \/ x1 # c) /\ Has(k1, x1, i1, p)
    <3>1. CASE k1 = "redis"
      <4>1. x1 \in Server /\ Queued(x1, i1, p)'
        BY <2>4, <3>1 DEF Has
      <4>2. Queued(x1, i1, p) \/ (u \in subs[x1] /\ i1 = Len(chan[x1]) + 1)
        BY <1>6, <4>1
      <4>3. u \in subs[x1] => x1 = s
        BY <2>1, <4>1
      <4>4. QED
        BY <3>1, <4>1, <4>2, <4>3 DEF Has
    <3>2. CASE k1 = "handler" \/ k1 = "answer"
      BY <1>4, <1>7, <2>4, <3>2 DEF Has, HandlersStay
    <3>3. CASE k1 \notin {"redis", "handler", "answer"}
      BY <1>5, <2>4, <3>3 DEF Has, Observed, Tabled
    <3>4. QED
      BY <3>1, <3>2, <3>3
  <2>5. PassesOn(p, "handler", c, "redis", s, Len(chan[s]) + 1)
    BY <2>4 DEF PassesOn
  <2>6. "handler" \in Kind /\ c \in Place /\ 0 \in Nat
    BY DEF Kind, Place
  <2>7. QED
    BY <1>5, <2>2, <2>3, <2>5, <2>6, Passes
<1>8. CASE ~(p[2] = u /\ p[1] = m /\ \E s \in Server : u \in subs[s])
  <2>1. \A s \in Server, i \in Nat : Queued(s, i, p)' => Queued(s, i, p)
    BY <1>6, <1>8
  <2>2. RestStays(p)
    BY <1>5, <2>1 DEF RestStays, Observed, Tabled
  <2>3. QED
    BY <1>4, <2>2, Stays
<1>9. QED
  BY <1>7, <1>8

\* ... or to the table.
LEMMA ChatStoreCopies ==
  ASSUME TypeOK, HandlerInv, ReadInv, NEW c \in Conn, ChatStore(c),
         NEW p \in Copy, CopyOk(p)
  PROVE  CopyOk(p)'
<1>1. PICK u \in User : u = h[c].user
  BY DEF ChatStore, At, HandlerInv, HandlerOk
<1>2. PICK m \in Msg : m = h[c].msg
  BY DEF ChatStore, At, HandlerInv, HandlerOk, ChatPcs
<1>3. h[c].pc \in ChatPcs /\ u \in h[c].to
  BY <1>1 DEF ChatStore, At, ReadInv, ReadOk, ChatPcs
<1>4. HandlersStay(p) /\ (p[2] = u => ~Chats(c, p)')
  <2>1. \/ Moved(c, "idle", None, None)
        \/ Moved(c, "c_find", None, h[c].msg)
    BY HandlerSteps
  <2>2. \/ h'[c].pc = "idle"
        \/ h'[c].pc = "c_find" /\ h'[c].to = h[c].to \ {u}
    BY <1>1, ContentSteps
  <2>3. QED
    BY <1>3, <2>1, <2>2, HandlerGivesUp
<1>5. /\ UNCHANGED <<chan, obs, used, handed>> /\ StoreOffline(u, m)
      /\ used \subseteq used'
  BY <1>1, <1>2 DEF ChatStore, redisVars
<1>6. \A i \in Nat : Tabled(i, p)' =>
        \/ Tabled(i, p)
        \/ p[2] = u /\ p[1] = m /\ i = Len(offline[u]) + 1
  BY <1>5, StoredIsLast
<1>7. CASE p[2] = u /\ p[1] = m
  <2>1. Has("handler", c, 0, p)
    BY <1>2, <1>3, <1>7 DEF Has, Chats
  <2>2. handed'[p] <= 1
    BY <1>5 DEF CopyOk
  <2>3. ASSUME NEW k1 \in Kind, NEW x1 \in Place, NEW i1 \in Nat, Has(k1, x1, i1, p)'
        PROVE  \/ k1 = "table" /\ x1 = u /\ i1 = Len(offline[u]) + 1
               \/ (k1 # "handler" \/ x1 # c) /\ Has(k1, x1, i1, p)
    <3>1. CASE k1 = "table"
      BY <1>6, <1>7, <2>3, <3>1 DEF Has
    <3>2. CASE k1 = "handler" \/ k1 = "answer"
      BY <1>4, <1>7, <2>3, <3>2 DEF Has, HandlersStay
    <3>3. CASE k1 \notin {"table", "handler", "answer"}
      BY <1>5, <2>3, <3>3 DEF Has, Observed, Queued
    <3>4. QED
      BY <3>1, <3>2, <3>3
  <2>4. PassesOn(p, "handler", c, "table", u, Len(offline[u]) + 1)
    BY <2>3 DEF PassesOn
  <2>5. "handler" \in Kind /\ c \in Place /\ 0 \in Nat
    BY DEF Kind, Place
  <2>6. QED
    BY <1>5, <2>1, <2>2, <2>4, <2>5, Passes
<1>8. CASE ~(p[2] = u /\ p[1] = m)
  <2>1. \A i \in Nat : Tabled(i, p)' => Tabled(i, p)
    BY <1>6, <1>8
  <2>2. RestStays(p)
    BY <1>5, <2>1 DEF RestStays, Observed, Queued
  <2>3. QED
    BY <1>4, <2>2, Stays
<1>9. QED
  BY <1>7, <1>8

\* login() deletes from the table what it has read and answers with it ...
LEMMA LoginRemoveCopies ==
  ASSUME TypeOK, HandlerInv, ReadInv, NEW c \in Conn, LoginRemoveOffline(c),
         NEW p \in Copy, CopyOk(p)
  PROVE  CopyOk(p)'
<1>1. PICK u \in User : u = h[c].user
  BY DEF LoginRemoveOffline, At, HandlerInv, HandlerOk, LoginPcs
<1>2. /\ h[c].pc = "l_remove" /\ UNCHANGED <<chan, obs, handed, used>>
      /\ offline' = [offline EXCEPT ![u] = <<>>] /\ used \subseteq used'
  BY <1>1 DEF LoginRemoveOffline, At, redisVars, msgVars
<1>3. offline \in [User -> Seq(Msg)] /\ p[2] \in User
  BY DEF TypeOK, Copy
<1>4. Moved(c, "l_ack", u, h[c].msg) /\ h'[c].vec = h[c].vec
  BY <1>1, HandlerSteps, ContentSteps
<1>5. \A d \in Conn : /\ Chats(d, p)' => Chats(d, p)
                      /\ \A i \in Nat : d # c \/ p[2] # u =>
                           (Answers(d, i, p)' => Answers(d, i, p))
  BY <1>4 DEF Moved, Chats, Answers, ChatPcs
<1>6. CASE p[2] # u
  <2>1. HandlersStay(p)
    BY <1>5, <1>6 DEF HandlersStay
  <2>2. offline'[p[2]] = offline[p[2]]
    BY <1>2, <1>3, <1>6
  <2>3. RestStays(p)
    BY <1>2, <2>2 DEF RestStays, Queued, Observed, Tabled
  <2>4. QED
    BY <2>1, <2>3, Stays
<1>7. CASE p[2] = u
  <2>1. \A i \in Nat : ~Tabled(i, p)'
    <3>1. offline'[p[2]] = <<>>
      BY <1>2, <1>3, <1>7
    <3>2. DOMAIN offline'[p[2]] = {}
      BY <3>1
    <3>3. QED
      BY <3>2 DEF Tabled
  <2>2. \A i \in Nat : Answers(c, i, p)' => Tabled(i, p)
    <3>1. /\ Len(h[c].vec) <= Len(offline[u])
          /\ \A i \in DOMAIN h[c].vec : h[c].vec[i] = offline[u][i]
      BY <1>1, <1>2 DEF ReadInv, ReadOk
    <3>2. h[c].vec \in Seq(Msg) /\ offline[u] \in Seq(Msg)
      BY <1>3 DEF TypeOK, HandlerType
    <3>3. /\ DOMAIN h[c].vec = 1..Len(h[c].vec) /\ DOMAIN offline[u] = 1..Len(offline[u])
          /\ Len(h[c].vec) \in Nat /\ Len(offline[u]) \in Nat
      BY <3>2, LenProperties
    <3>4. DOMAIN h[c].vec \subseteq DOMAIN offline[u]
      BY <3>1, <3>3
    <3>5. QED
      BY <1>4, <1>7, <3>1, <3>4 DEF Answers, Tabled
  <2>3. ASSUME NEW k1 \in Kind, NEW x1 \in Place, NEW i1 \in Nat, Has(k1, x1, i1, p)'
        PROVE  \/ k1 = "answer" /\ x1 = c /\ Has("table", u, i1 + 0, p)
               \/ /\ k1 # "answer" \/ x1 # c
                  /\ k1 # "table" \/ u # x1
                  /\ Has(k1, x1, i1, p)
    <3>0. i1 + 0 = i1
      OBVIOUS
    <3>1. CASE k1 = "answer"
      BY <1>5, <1>7, <2>2, <2>3, <3>0, <3>1 DEF Has
    <3>2. CASE k1 = "handler"
      BY <1>5, <2>3, <3>2 DEF Has
    <3>3. CASE k1 = "table"
      BY <2>1, <2>3, <3>3 DEF Has
    <3>4. CASE k1 \in {"redis", "observer", "client"}
      BY <1>2, <2>3, <3>4 DEF Has, Queued, Observed
    <3>5. QED
      BY <3>1, <3>2, <3>3, <3>4 DEF Kind
  <2>4. /\ "answer" \in Kind /\ "table" \in Kind /\ c \in Place /\ u \in Place
        /\ 0 \in Nat /\ handed'[p] <= 1
    BY <1>2 DEF Kind, Place, CopyOk
  <2>5. Shifts(p, "answer", c, "table", u, 0)
    BY <2>3 DEF Shifts
  <2>6. QED
    BY <1>2, <2>4, <2>5, Renamed
<1>8. QED
  BY <1>6, <1>7

\* ... once.
LEMMA LoginAckCopies ==
  ASSUME TypeOK, HandlerInv, NEW c \in Conn, LoginAck(c), NEW p \in Copy, CopyOk(p)
  PROVE  CopyOk(p)'
<1>1. PICK u \in User : u = h[c].user
  BY DEF LoginAck, At, HandlerInv, HandlerOk, LoginPcs
<1>2. /\ h[c].pc = "l_ack" /\ UNCHANGED <<chan, obs, offline, used>>
      /\ used \subseteq used'
      /\ handed'[p] = IF p[2] = u /\ p[1] \in Range(h[c].vec)
                      THEN handed[p] + 1 ELSE handed[p]
  BY <1>1 DEF LoginAck, At, redisVars, histVars
<1>3. handed \in [Copy -> Nat] /\ h[c].vec \in Seq(Msg)
  BY DEF TypeOK, HandlerType
<1>4. Moved(c, "idle", None, None)
  BY HandlerSteps
<1>5. TakesNothing(c)
  BY <1>4 DEF Moved, TakesNothing, ChatPcs
<1>6. HandlersStay(p)
  BY <1>5, HandlersStill
<1>7. CASE p[2] = u /\ p[1] \in Range(h[c].vec)
  <2>1. PICK j \in DOMAIN h[c].vec : h[c].vec[j] = p[1]
    BY <1>7 DEF Range
  <2>2. j \in Nat
    BY <1>3, <2>1, LenProperties
  <2>3. Has("answer", c, j, p)
    BY <1>1, <1>2, <1>7, <2>1 DEF Has, Answers
  <2>4. "answer" \in Kind /\ "client" \in Kind /\ c \in Place /\ u \in Place /\ 0 \in Nat
    BY DEF Kind, Place
  <2>5. ~Has("client", u, 0, p)
    BY <2>2, <2>3, <2>4 DEF CopyOk
  <2>6. handed[p] = 0
    BY <1>3, <1>7, <2>5 DEF Has
  <2>7. handed'[p] <= 1
    BY <1>2, <1>7, <2>6
  <2>8. ASSUME NEW k1 \in Kind, NEW x1 \in Place, NEW i1 \in Nat, Has(k1, x1, i1, p)'
        PROVE  \/ k1 = "client" /\ x1 = u /\ i1 = 0
               \/ (k1 # "answer" \/ x1 # c) /\ Has(k1, x1, i1, p)
    <3>1. CASE k1 = "client"
      BY <1>7, <2>8, <3>1 DEF Has
    <3>2. CASE k1 = "answer"
      BY <1>4, <1>6, <2>8, <3>2 DEF Has, Answers, Moved, HandlersStay
    <3>3. CASE k1 = "handler"
      BY <1>6, <2>8, <3>3 DEF Has, HandlersStay
    <3>4. CASE k1 \in {"redis", "observer", "table"}
      BY <1>2, <2>8, <3>4 DEF Has, Queued, Observed, Tabled
    <3>5. QED
      BY <3>1, <3>2, <3>3, <3>4 DEF Kind
  <2>9. PassesOn(p, "answer", c, "client", u, 0)
    BY <2>8 DEF PassesOn
  <2>10. QED
    BY <1>2, <2>2, <2>3, <2>4, <2>7, <2>9, Passes
<1>8. CASE ~(p[2] = u /\ p[1] \in Range(h[c].vec))
  <2>1. RestStays(p)
    BY <1>2, <1>8 DEF RestStays, Queued, Observed, Tabled
  <2>2. QED
    BY <1>6, <2>1, Stays
<1>9. QED
  BY <1>7, <1>8

\* The observer thread hands over the first copy of its queue, or keeps it ...
LEMMA ObserverFindCopies ==
  ASSUME TypeOK, NEW s \in Server, ObserverFind(s), NEW p \in Copy, CopyOk(p)
  PROVE  CopyOk(p)'
<1>1. PICK q : q = Head(chan[s])
  OBVIOUS
<1>2. /\ q \in Copy /\ Queued(s, 1, q)
      /\ \A i \in Nat : Queued(s, i, p)' => i > 0 /\ Queued(s, i + 1, p)
      /\ \A t \in Server, i \in Nat : t # s => Queued(t, i, p)' = Queued(t, i, p)
  <2>1. chan[s] # <<>> /\ chan' = [chan EXCEPT ![s] = Tail(chan[s])]
    BY DEF ObserverFind
  <2>2. QED
    BY <1>1, <2>1, TakenIsFirst
<1>3. /\ UNCHANGED <<offline, h, used>> /\ used \subseteq used' /\ obs[s] = <<>>
      /\ \/ handed' = [handed EXCEPT ![q] = @ + 1] /\ UNCHANGED obs
         \/ obs' = [obs EXCEPT ![s] = <<q>>] /\ UNCHANGED handed
  BY <1>1 DEF ObserverFind
<1>4. handed \in [Copy -> Nat] /\ obs \in [Server -> Seq(Copy)]
  BY DEF TypeOK
<1>5. \A t \in Server, i \in Nat : Observed(t, i, p)' =>
        Observed(t, i, p) \/ (t = s /\ i = 1 /\ p = q /\ handed' = handed)
  BY <1>3, <1>4 DEF Observed
<1>6. \A c \in Conn : /\ Chats(c, p)' => Chats(c, p)
                      /\ \A i \in Nat : Answers(c, i, p)' => Answers(c, i, p)
  BY <1>3 DEF Chats, Answers
<1>7. "redis" \in Kind /\ s \in Place /\ 1 \in Nat /\ p[2] \in Place
  BY DEF Kind, Place, Copy
<1>8. CASE p # q
  <2>1. handed'[p] = handed[p]
    BY <1>2, <1>3, <1>4, <1>8
  <2>2. ASSUME NEW k1 \in Kind, NEW x1 \in Place, NEW i1 \in Nat, Has(k1, x1, i1, p)'
        PROVE  \/ k1 = "redis" /\ x1 = s /\ Has("redis", s, i1 + 1, p)
               \/ /\ k1 # "redis" \/ x1 # s
                  /\ k1 # "redis" \/ s # x1
                  /\ Has(k1, x1, i1, p)
    <3>1. CASE k1 = "redis"
      BY <1>2, <2>2, <3>1 DEF Has
    <3>2. CASE k1 \in {"observer", "handler", "answer"}
      BY <1>5, <1>6, <1>8, <2>2, <3>2 DEF Has
    <3>3. CASE k1 \in {"table", "client"}
      BY <1>3, <2>1, <2>2, <3>3 DEF Has, Tabled
    <3>4. QED
      BY <3>1, <3>2, <3>3 DEF Kind
  <2>3. handed'[p] <= 1
    BY <2>1 DEF CopyOk
  <2>4. Shifts(p, "redis", s, "redis", s, 1)
    BY <2>2 DEF Shifts
  <2>5. QED
    BY <1>3, <1>7, <2>3, <2>4, Renamed
<1>9. CASE p = q
  <2>1. Has("redis", s, 1, p)
    BY <1>2, <1>9 DEF Has
  <2>2. \A k1 \in Kind, x1 \in Place, i1 \in Nat :
          Has(k1, x1, i1, p) => k1 = "redis" /\ x1 = s /\ i1 = 1
    BY <1>7, <2>1 DEF CopyOk
  <2>3. \A t \in Server, i \in Nat : ~Queued(t, i, p)'
    <3>1. \A t \in Server, i \in Nat : Queued(t, i, p) => t = s /\ i = 1
      BY <1>7, <2>2 DEF Has, Place
    <3>2. \A i \in Nat : i > 0 => i + 1 \in Nat /\ i + 1 # 1
      OBVIOUS
    <3>3. QED
      BY <1>2, <3>1, <3>2
  <2>4. handed[p] = 0
    <3>1. "client" \in Kind /\ 0 \in Nat
      BY DEF Kind
    <3>2. ~Has("client", p[2], 0, p)
      BY <1>7, <2>2, <3>1
    <3>3. QED
      BY <1>4, <3>2 DEF Has
  <2>5. p[1] \in used'
    BY <1>3, <1>7, <2>1 DEF CopyOk
  <2>6. ASSUME NEW k1 \in Kind, NEW x1 \in Place, NEW i1 \in Nat, Has(k1, x1, i1, p)'
        PROVE  \/ k1 = "client" /\ x1 = p[2] /\ i1 = 0
               \/ k1 = "observer" /\ x1 = s /\ i1 = 1 /\ handed' = handed
    <3>1. CASE k1 = "redis"
      BY <2>3, <2>6, <3>1 DEF Has
    <3>2. CASE k1 = "client"
      BY <2>6, <3>2 DEF Has
    <3>3. CASE k1 = "observer"
      BY <1>5, <2>2, <2>6, <3>3 DEF Has
    <3>4. CASE k1 \in {"handler", "answer"}
      BY <1>6, <2>2, <2>6, <3>4 DEF Has
    <3>5. CASE k1 = "table"
      BY <1>3, <2>2, <2>6, <3>5 DEF Has, Tabled
    <3>6. QED
      BY <3>1, <3>2, <3>3, <3>4, <3>5 DEF Kind
  <2>7. CASE handed' = handed
    <3>1. ~Has("client", p[2], 0, p)'
      BY <2>4, <2>7 DEF Has
    <3>2. \A k1 \in Kind, x1 \in Place, i1 \in Nat :
            Has(k1, x1, i1, p)' => k1 = "observer" /\ x1 = s /\ i1 = 1
      BY <2>6, <3>1
    <3>3. handed'[p] <= 1
      BY <2>4, <2>7
    <3>4. QED
      BY <2>5, <3>2, <3>3, OnlyAt
  <2>8. CASE handed' = [handed EXCEPT ![q] = @ + 1]
    <3>1. handed'[p] = 1
      BY <1>4, <1>9, <2>4, <2>8
    <3>2. \A k1 \in Kind, x1 \in Place, i1 \in Nat :
            Has(k1, x1, i1, p)' => k1 = "client" /\ x1 = p[2] /\ i1 = 0
      BY <2>4, <2>6, <3>1
    <3>3. handed'[p] <= 1
      BY <3>1
    <3>4. QED
      BY <2>5, <3>2, <3>3, OnlyAt
  <2>9. QED
    BY <1>3, <2>7, <2>8
<1>10. QED
  BY <1>8, <1>9

\* ... and stores it in the table then.
LEMMA ObserverStoreCopies ==
  ASSUME TypeOK, NEW s \in Server, ObserverStore(s), NEW p \in Copy, CopyOk(p)
  PROVE  CopyOk(p)'
<1>1. obs \in [Server -> Seq(Copy)] /\ obs[s] # <<>>
  BY DEF TypeOK, ObserverStore
<1>2. PICK q \in Copy : q = obs[s][1] /\ q = Head(obs[s]) /\ 1 \in DOMAIN obs[s]
  <2>1. PICK w \in Seq(Copy) : w = obs[s]
    BY <1>1
  <2>2. Head(w) \in Copy /\ Head(w) = w[1] /\ Len(w) \in Nat \ {0}
        /\ DOMAIN w = 1..Len(w)
    BY <1>1, <2>1, HeadTailProperties, EmptySeq, LenProperties
  <2>3. QED
    BY <2>1, <2>2
<1>3. PICK m \in Msg, u \in User : m = q[1] /\ u = q[2]
  BY DEF Copy
<1>4. /\ UNCHANGED <<chan, h, used, handed>> /\ used \subseteq used'
      /\ StoreOffline(u, m) /\ obs' = [obs EXCEPT ![s] = <<>>]
  BY <1>2, <1>3 DEF ObserverStore, redisVars
<1>5. \A i \in Nat : Tabled(i, p)' =>
        Tabled(i, p) \/ (p[2] = u /\ p[1] = m /\ i = Len(offline[u]) + 1)
  BY <1>4, StoredIsLast
<1>6. p[2] = u /\ p[1] = m => p = q
  <2>1. \A r \in Copy : r = <<m, u>> <=> r[1] = m /\ r[2] = u
    BY CopyIs
  <2>2. q = <<m, u>>
    BY <1>2, <1>3, <2>1
  <2>3. QED
    BY <2>1, <2>2
<1>7. HandlersStay(p)
  BY <1>4 DEF HandlersStay, Chats, Answers
<1>8. \A t \in Server, i \in Nat : Observed(t, i, p)' => t # s /\ Observed(t, i, p)
  BY <1>1, <1>4 DEF Observed
<1>9. CASE p # q
  <2>1. RestStays(p)
    BY <1>4, <1>5, <1>6, <1>8, <1>9 DEF RestStays, Queued
  <2>2. QED
    BY <1>7, <2>1, Stays
<1>10. CASE p = q
  <2>1. Has("observer", s, 1, p)
    BY <1>2, <1>10 DEF Has, Observed
  <2>2. ASSUME NEW k1 \in Kind, NEW x1 \in Place, NEW i1 \in Nat, Has(k1, x1, i1, p)'
        PROVE  \/ k1 = "table" /\ x1 = u /\ i1 = Len(offline[u]) + 1
               \/ (k1 # "observer" \/ x1 # s) /\ Has(k1, x1, i1, p)
    <3>1. CASE k1 = "table"
      BY <1>3, <1>5, <1>10, <2>2, <3>1 DEF Has
    <3>2. CASE k1 = "observer"
      BY <1>8, <2>2, <3>2 DEF Has
    <3>3. CASE k1 \in {"handler", "answer"}
      BY <1>7, <2>2, <3>3 DEF Has, HandlersStay
    <3>4. CASE k1 \in {"redis", "client"}
      BY <1>4, <2>2, <3>4 DEF Has, Queued
    <3>5. QED
      BY <3>1, <3>2, <3>3, <3>4 DEF Kind
  <2>3. PassesOn(p, "observer", s, "table", u, Len(offline[u]) + 1)
    BY <2>2 DEF PassesOn
  <2>4. "observer" \in Kind /\ s \in Place /\ 1 \in Nat /\ handed'[p] <= 1
    BY <1>4 DEF Kind, Place, CopyOk
  <2>5. QED
    BY <1>4, <2>1, <2>3, <2>4, Passes
<1>11. QED
  BY <1>9, <1>10

-----------------------------------------------------------------------------
(* Subscriptions.                                                          *)

\* Redis executes a command at once: it adds u to the subscriptions of s, or
\* takes it from them.
LEMMA CommandNow ==
  ASSUME TypeOK, ~LateRedis, NEW s \in Server, NEW b \in BOOLEAN, NEW u \in User,
         Command(s, [sub |-> b, user |-> u])
  PROVE  /\ cmds' = cmds
         /\ subs'[s] = IF b THEN subs[s] \union {u} ELSE subs[s] \ {u}
         /\ \A t \in Server : t # s => subs'[t] = subs[t]
<1>1. PICK k : k = [sub |-> b, user |-> u]
  OBVIOUS
<1>2. k.sub = b /\ k.user = u
  BY <1>1
<1>3. subs \in [Server -> SUBSET User]
  BY DEF TypeOK
<1>4. cmds' = cmds /\ subs' = [subs EXCEPT ![s] = Execute(subs[s], k)]
  BY <1>1, Zenon DEF Command
<1>5. QED
  BY <1>2, <1>3, <1>4 DEF Execute

\* For a step of connection c it is enough to look at its own account.
Serves(c) ==
  /\ UNCHANGED cmds
  /\ \A s \in Server : \A u \in subs'[s] :
       u \in subs[s] \/ (s = SrvOf[c] /\ Subscribes(c, u)')
  /\ \A u \in User : Subscribes(c, u) =>
       Subscribes(c, u)' \/ u \notin subs'[SrvOf[c]]

\* Such a step keeps the invariant.
LEMMA ServesKeep ==
  ASSUME AccountInv, TypeOK', SubsInv, NEW c \in Conn, Local(c), Secures(c), Serves(c)
  PROVE  SubsInv'
<1>1. /\ subs' \in [Server -> SUBSET User] /\ SrvOf \in [Conn -> Server]
      /\ map \in [Server -> [User -> Conn \union {None}]] /\ None \notin Conn
  BY TypeFacts DEF TypeOK, AccountInv, MapInv
<1>2. ASSUME NEW s \in Server, NEW u \in subs'[s]
      PROVE  \E d \in Conn : SrvOf[d] = s /\ Subscribes(d, u)'
  <2>1. u \in User
    BY <1>1
  <2>2. CASE s = SrvOf[c] /\ Subscribes(c, u)'
    BY <2>2
  <2>3. CASE u \in subs[s]
    <3>1. PICK d \in Conn : SrvOf[d] = s /\ Subscribes(d, u)
      BY <2>3 DEF SubsInv
    <3>2. CASE d = c
      BY <2>1, <3>1, <3>2 DEF Serves
    <3>3. CASE d # c
      <4>1. h'[d] = h[d]
        BY <3>3 DEF Local
      <4>2. map[SrvOf[d]][u] = d => map'[SrvOf[d]][u] = d
        BY <1>1, <2>1, <3>3 DEF Secures
      <4>3. QED
        BY <3>1, <4>1, <4>2 DEF Subscribes, Holds
    <3>4. QED
      BY <3>2, <3>3
  <2>4. QED
    BY <2>2, <2>3 DEF Serves
<1>3. \A s \in Server : cmds'[s] = <<>>
  BY DEF SubsInv, Serves
<1>4. QED
  BY <1>2, <1>3 DEF SubsInv

\* Every step of a handler or a client is one: login() has its entry when it
\* subscribes, and keeps it till loginout() or the end of the connection takes
\* both away.
LEMMA ServesStep ==
  ASSUME AccountInv, ~LateRedis, ~Relogin, NEW c \in Conn,
         HandlerStep(c) \/ ClientStep(c)
  PROVE  Serves(c)
<1> USE DEF redisVars, histVars, msgVars, clientVars, lifeVars
<1>1. TypeOK /\ HandlerInv /\ EntryInv /\ SessionInv
  BY DEF AccountInv, MapInv
<1>2. HandlerOk(c) /\ EntryOk(c)
  BY <1>1 DEF HandlerInv, EntryInv
<1>3. /\ SrvOf[c] \in Server /\ None \notin User /\ None \notin Conn
      /\ open \in [Conn -> BOOLEAN] /\ acct \in [Conn -> User \union {None}]
  BY <1>1, TypeFacts
<1>4. ASSUME UNCHANGED <<cmds, subs>>,
             \A u \in User : Subscribes(c, u) => Subscribes(c, u)'
      PROVE  Serves(c)
  BY <1>4 DEF Serves
<1>5. CASE \/ LoginOnline(c) \/ LoginReadOffline(c) \/ LoginRemoveOffline(c)
           \/ LogoutErase(c)
  <2>1. \/ Moved(c, "l_read", h[c].user, h[c].msg)
        \/ Moved(c, "l_remove", h[c].user, h[c].msg)
        \/ Moved(c, "l_ack", h[c].user, h[c].msg)
        \/ Moved(c, "o_unsubscribe", h[c].user, h[c].msg)
    BY <1>1, <1>5, HandlerSteps
  <2>2. /\ UNCHANGED <<cmds, subs>>
        /\ h[c].pc \in {"l_online", "l_read", "l_remove", "o_erase"}
    BY <1>5 DEF LoginOnline, LoginReadOffline, LoginRemoveOffline, LogoutErase, At
  <2>3. QED
    BY <1>4, <2>1, <2>2 DEF Moved, Subscribes, Holds, LoginPcs, LeavePcs, Serving, ChatPcs
<1>6. CASE Connect(c) \/ SetOffline(c) \/ LoginQuery(c) \/ LoginInsert(c)
  <2>1. /\ UNCHANGED <<cmds, subs>>
        /\ h[c].pc \in {"new", "o_offline", "d_offline", "l_query", "l_insert"}
    BY <1>6 DEF Connect, SetOffline, LoginQuery, LoginInsert, At
  <2>2. QED
    BY <1>4, <2>1 DEF Subscribes, Holds, LoginPcs, LeavePcs, Serving, ChatPcs
<1>7. CASE \/ (\E u \in User : ChatFind(c, u)) \/ ChatQuery(c) \/ ChatPublish(c)
           \/ ChatStore(c) \/ \E m \in Msg : GroupChat(c, m) \/ \E u \in User : OneChat(c, m, u)
  <2>1. h'[c].pc \in Serving
    <3>1. \E q \in Serving : \E u, m : Moved(c, q, u, m)
      <4>1. {"idle", "c_find", "c_query", "c_publish", "c_store"} \subseteq Serving
        BY DEF Serving, ChatPcs
      <4>2. CASE \E u \in User : ChatFind(c, u)
        BY <1>1, <4>1, <4>2, HandlerSteps
      <4>3. CASE ChatQuery(c) \/ ChatPublish(c) \/ ChatStore(c)
        BY <1>1, <4>1, <4>3, HandlerSteps
      <4>4. CASE \E m \in Msg : GroupChat(c, m) \/ \E u \in User : OneChat(c, m, u)
        BY <1>1, <4>1, <4>4, HandlerSteps
      <4>5. QED
        BY <1>7, <4>2, <4>3, <4>4
    <3>2. QED
      BY <3>1 DEF Moved
  <2>2. CASE \E u \in User : ChatFind(c, u)
    <3>1. UNCHANGED <<cmds, subs, map>> /\ h[c].pc \in Serving
      BY <2>2 DEF ChatFind, At, Serving, ChatPcs
    <3>2. QED
      BY <1>4, <2>1, <3>1 DEF Subscribes, Holds, LoginPcs, LeavePcs, Serving, ChatPcs
  <2>3. CASE ChatQuery(c) \/ ChatPublish(c) \/ ChatStore(c)
    <3>1. UNCHANGED <<cmds, subs, map>> /\ h[c].pc \in Serving
      BY <2>3 DEF ChatQuery, ChatPublish, ChatStore, At, Serving, ChatPcs
    <3>2. QED
      BY <1>4, <2>1, <3>1 DEF Subscribes, Holds, LoginPcs, LeavePcs, Serving, ChatPcs
  <2>4. CASE \E m \in Msg : GroupChat(c, m) \/ \E u \in User : OneChat(c, m, u)
    <3>1. UNCHANGED <<cmds, subs, map>> /\ h[c].pc \in Serving
      BY <2>4 DEF GroupChat, OneChat, BeginChat, Ready, At, Serving
    <3>2. QED
      BY <1>4, <2>1, <3>1 DEF Subscribes, Holds, LoginPcs, LeavePcs, Serving, ChatPcs
  <2>5. QED
    BY <1>7, <2>2, <2>3, <2>4
<1>8. CASE LoginSubscribe(c)
  <2>1. Moved(c, "l_online", h[c].user, h[c].msg)
    BY <1>1, <1>8, HandlerSteps
  <2>2. PICK u \in User : u = h[c].user
    BY <1>2, <1>8 DEF LoginSubscribe, At, HandlerOk, LoginPcs
  <2>3. Command(SrvOf[c], [sub |-> TRUE, user |-> u]) /\ h[c].pc = "l_subscribe"
    BY <1>8, <2>2 DEF LoginSubscribe, At
  <2>4. /\ cmds' = cmds /\ subs'[SrvOf[c]] = subs[SrvOf[c]] \union {u}
        /\ \A t \in Server : t # SrvOf[c] => subs'[t] = subs[t]
    BY <1>1, <1>3, <2>3, CommandNow
  <2>5. Subscribes(c, u)'
    BY <2>1, <2>2 DEF Moved, Subscribes, Holds, LoginPcs
  <2>6. QED
    BY <2>3, <2>4, <2>5 DEF Serves, Subscribes
<1>9. CASE Unsubscribe(c)
  <2>1. PICK u \in User : u = h[c].user
    BY <1>2, <1>9 DEF Unsubscribe, HandlerOk, LeavePcs
  <2>2. /\ Command(SrvOf[c], [sub |-> FALSE, user |-> u])
        /\ h[c].pc \in {"o_unsubscribe", "d_unsubscribe"}
    BY <1>9, <2>1 DEF Unsubscribe
  <2>3. /\ cmds' = cmds /\ subs'[SrvOf[c]] = subs[SrvOf[c]] \ {u}
        /\ \A t \in Server : t # SrvOf[c] => subs'[t] = subs[t]
    BY <1>1, <1>3, <2>2, CommandNow
  <2>4. \A v \in User : Subscribes(c, v) => v = u
    BY <2>1, <2>2 DEF Subscribes, Holds, Serving, ChatPcs
  <2>5. QED
    BY <2>3, <2>4 DEF Serves
<1>10. CASE LoginAck(c)
  <2>1. Moved(c, "idle", None, None)
    BY <1>1, <1>10, HandlerSteps
  <2>2. UNCHANGED <<cmds, subs, map>> /\ h[c].pc = "l_ack"
    BY <1>10 DEF LoginAck, At
  <2>3. map[SrvOf[c]][h[c].user] = c
    BY <1>1, <2>2 DEF SessionInv, Inserted
  <2>4. QED
    BY <1>4, <2>1, <2>2, <2>3 DEF Moved, Subscribes, Holds, Serving, ChatPcs
<1>11. CASE CloseErase(c)
  <2>1. UNCHANGED <<cmds, subs>> /\ h[c].pc = "idle"
    BY <1>11 DEF CloseErase, At
  <2>2. CASE \A u \in User : map[SrvOf[c]][u] # c
    BY <1>4, <2>1, <2>2 DEF Subscribes, Holds, LoginPcs, LeavePcs
  <2>3. ASSUME NEW u \in User, map[SrvOf[c]][u] = c, Moved(c, "d_unsubscribe", u, None)
        PROVE  Serves(c)
    <3>1. \A v \in User : map[SrvOf[c]][v] = c => v = u
      BY <1>2, <1>3, <2>3 DEF EntryOk
    <3>2. QED
      BY <1>4, <2>1, <2>3, <3>1 DEF Moved, Subscribes, Holds, LoginPcs, LeavePcs
  <2>4. QED
    BY <1>1, <1>11, <2>2, <2>3, HandlerSteps
<1>12. CASE Loginout(c)
  <2>1. Moved(c, "o_erase", acct[c], None)
    BY <1>1, <1>12, HandlerSteps
  <2>2. UNCHANGED <<cmds, subs>> /\ h[c].pc = "idle" /\ open[c]
    BY <1>12 DEF Loginout, Ready, At
  <2>3. \A v \in User : map[SrvOf[c]][v] = c => acct[c] = v
    BY <1>2, <1>3, <2>2 DEF EntryOk, Inserted
  <2>4. QED
    BY <1>4, <2>1, <2>2, <2>3 DEF Moved, Subscribes, Holds, LoginPcs, LeavePcs
<1>13. ASSUME NEW u \in User, Login(c, u) PROVE Serves(c)
  <2>1. UNCHANGED <<cmds, subs>> /\ h[c].pc = "idle" /\ open[c] /\ acct[c] = None
    BY <1>13 DEF Login, Ready, At
  <2>2. \A v \in User : map[SrvOf[c]][v] # c
    BY <1>2, <1>3, <2>1 DEF EntryOk, Inserted
  <2>3. QED
    BY <1>4, <2>1, <2>2 DEF Subscribes, Holds, LoginPcs, LeavePcs
<1>14. CASE ClientClose(c)
  <2>1. UNCHANGED <<cmds, subs, h, map>>
    BY <1>14 DEF ClientClose
  <2>2. QED
    BY <1>4, <2>1 DEF Subscribes, Holds
<1>15. QED
  <2>1. CASE HandlerStep(c)
    BY <1>5, <1>6, <1>7, <1>8, <1>9, <1>10, <1>11, <2>1 DEF HandlerStep
  <2>2. CASE ClientStep(c)
    BY <1>6, <1>7, <1>12, <1>13, <1>14, <2>2 DEF ClientStep
  <2>3. QED
    BY <2>1, <2>2

-----------------------------------------------------------------------------
(* What login() has read.                                                  *)

\* The messages of user u stay in the table, with others after them.
Grows(u) ==
  /\ Len(offline[u]) <= Len(offline'[u])
  /\ \A i \in DOMAIN offline[u] : offline'[u][i] = offline[u][i]

\* So they do when a message is stored.
LEMMA StoreGrows ==
  ASSUME TypeOK, NEW u \in User, NEW m \in Msg, StoreOffline(u, m), NEW v \in User
  PROVE  Grows(v)
<1>1. offline \in [User -> Seq(Msg)]
  BY DEF TypeOK
<1>2. PICK q \in Seq(Msg) : q = offline[v]
  BY <1>1
<1>3. Len(q) \in Nat /\ DOMAIN q = 1..Len(q)
  BY <1>2, LenProperties
<1>4. CASE v # u
  <2>1. offline'[v] = q
    BY <1>1, <1>2, <1>4 DEF StoreOffline
  <2>2. QED
    BY <1>2, <1>3, <2>1 DEF Grows
<1>5. CASE v = u
  <2>1. offline'[v] = Append(q, m)
    BY <1>1, <1>2, <1>5 DEF StoreOffline
  <2>2. Len(Append(q, m)) = Len(q) + 1 /\ \A j \in 1..Len(q) : Append(q, m)[j] = q[j]
    BY <1>2, AppendProperties
  <2>3. QED
    BY <1>2, <1>3, <2>1, <2>2 DEF Grows
<1>6. QED
  BY <1>4, <1>5

\* A handler that the step leaves alone keeps what it has read.
LEMMA ReadKeeps ==
  ASSUME TypeOK, TypeOK', HandlerInv, NEW c \in Conn, ReadOk(c),
         \/ h'[c] = h[c]
         \/ h'[c].pc \notin {"l_remove", "c_query", "c_publish", "c_store"},
         h[c].pc = "l_remove" => Grows(h[c].user)
  PROVE  ReadOk(c)'
<1>1. CASE h'[c].pc \notin {"l_remove", "c_query", "c_publish", "c_store"}
  BY <1>1 DEF ReadOk
<1>2. CASE h'[c] = h[c] /\ h[c].pc # "l_remove"
  BY <1>2 DEF ReadOk
<1>3. CASE h'[c] = h[c] /\ h[c].pc = "l_remove"
  <2>1. PICK u \in User, v \in Seq(Msg), q \in Seq(Msg) :
          u = h[c].user /\ v = h[c].vec /\ q = offline[u]
    <3>1. h[c].user \in User
      BY <1>3 DEF HandlerInv, HandlerOk, LoginPcs
    <3>2. h[c].vec \in Seq(Msg) /\ offline[h[c].user] \in Seq(Msg)
      BY <3>1 DEF TypeOK, HandlerType
    <3>3. QED
      BY <3>1, <3>2
  <2>2. /\ Len(v) \in Nat /\ DOMAIN v = 1..Len(v)
        /\ Len(q) \in Nat /\ DOMAIN q = 1..Len(q)
    BY LenProperties
  <2>3. Len(v) <= Len(q) /\ \A i \in DOMAIN v : v[i] = q[i]
    BY <1>3, <2>1 DEF ReadOk
  <2>4. Len(q) <= Len(offline'[u]) /\ \A i \in DOMAIN q : offline'[u][i] = q[i]
    BY <1>3, <2>1 DEF Grows
  <2>5. \A i \in DOMAIN v : v[i] = offline'[u][i]
    BY <2>2, <2>3, <2>4
  <2>6. Len(offline'[u]) \in Nat
    <3>1. offline'[u] \in Seq(Msg)
      BY DEF TypeOK
    <3>2. QED
      BY <3>1, LenProperties
  <2>7. Len(v) <= Len(offline'[u])
    BY <2>2, <2>3, <2>4, <2>6
  <2>8. QED
    BY <1>3, <2>1, <2>5, <2>7 DEF ReadOk
<1>4. QED
  BY <1>1, <1>2, <1>3

\* A step of a handler or a client leaves the others what they have read: no
\* other login() of the account is under way that could delete it.
LEMMA ReadStep ==
  ASSUME AccountInv, TypeOK', ReadInv, NEW c \in Conn, HandlerStep(c) \/ ClientStep(c)
  PROVE  ReadInv'
<1> USE DEF redisVars, histVars, msgVars, clientVars, lifeVars
<1>1. TypeOK /\ HandlerInv /\ SessionInv /\ MapInv
  BY DEF AccountInv, MapInv
<1>2. Local(c)
  BY <1>1, LocalStep
<1>3. HandlerOk(c) /\ ReadOk(c) /\ offline \in [User -> Seq(Msg)]
  BY <1>1 DEF HandlerInv, ReadInv, TypeOK
<1>4. ASSUME NEW u \in User, UNCHANGED offline PROVE Grows(u)
  <2>1. offline[u] \in Seq(Msg)
    BY <1>3
  <2>2. Len(offline[u]) \in Nat
    BY <2>1, LenProperties
  <2>3. QED
    BY <1>4, <2>2 DEF Grows
<1>5. ASSUME NEW u \in User
      PROVE  Grows(u) \/ (h[c].pc = "l_remove" /\ h[c].user = u)
  <2>1. CASE ChatStore(c)
    <3>1. PICK v \in User, m \in Msg : StoreOffline(v, m)
      BY <1>3, <2>1 DEF ChatStore, At, HandlerOk, ChatPcs
    <3>2. QED
      BY <1>1, <3>1, StoreGrows
  <2>2. CASE LoginRemoveOffline(c) /\ u # h[c].user
    <3>1. h[c].user \in User /\ offline' = [offline EXCEPT ![h[c].user] = <<>>]
      BY <1>3, <2>2 DEF LoginRemoveOffline, At, HandlerOk, LoginPcs
    <3>2. offline'[u] = offline[u] /\ offline[u] \in Seq(Msg)
      BY <1>3, <2>2, <3>1
    <3>3. Len(offline[u]) \in Nat
      BY <3>2, LenProperties
    <3>4. QED
      BY <3>2, <3>3 DEF Grows
  <2>3. CASE LoginRemoveOffline(c) /\ u = h[c].user
    BY <2>3 DEF LoginRemoveOffline, At
  <2>4. CASE HandlerStep(c) /\ ~ChatStore(c) /\ ~LoginRemoveOffline(c)
    <3>1. UNCHANGED offline
      BY <2>4 DEF HandlerStep, CloseErase, Unsubscribe, SetOffline, LoginQuery,
                  LoginInsert, LoginSubscribe, LoginOnline, LoginReadOffline,
                  LoginAck, LogoutErase, ChatFind, ChatQuery, ChatPublish
    <3>2. QED
      BY <1>4, <3>1
  <2>5. CASE ClientStep(c)
    <3>1. UNCHANGED offline
      BY <2>5 DEF ClientStep, Connect, ClientClose, Loginout, Login, GroupChat,
                  OneChat, BeginChat
    <3>2. QED
      BY <1>4, <3>1
  <2>6. QED
    BY <2>1, <2>2, <2>3, <2>4, <2>5
<1>6. ASSUME NEW d \in Conn, d # c PROVE ReadOk(d)'
  <2>1. h'[d] = h[d] /\ ReadOk(d)
    BY <1>2, <1>6 DEF Local, ReadInv
  <2>2. h[d].pc = "l_remove" => Grows(h[d].user)
    <3>1. SUFFICES ASSUME h[d].pc = "l_remove" PROVE Grows(h[d].user)
      OBVIOUS
    <3>2. h[d].user \in User
      BY <1>1, <3>1 DEF HandlerInv, HandlerOk, LoginPcs
    <3>3. ~(h[c].pc = "l_remove" /\ h[c].user = h[d].user)
      BY <1>1, <1>6, <3>1 DEF SessionInv, LoginPcs
    <3>4. QED
      BY <1>5, <3>2, <3>3
  <2>3. QED
    BY <1>1, <2>1, <2>2, ReadKeeps
<1>7. ReadOk(c)'
  <2>1. CASE LoginReadOffline(c)
    <3>1. PICK u \in User : u = h[c].user
      BY <1>3, <2>1 DEF LoginReadOffline, At, HandlerOk, LoginPcs
    <3>2. /\ offline' = offline /\ h'[c].vec = offline[u]
          /\ h'[c].user = u /\ h'[c].pc \in {"l_remove", "l_ack"}
      <4>1. \/ Moved(c, "l_remove", h[c].user, h[c].msg)
            \/ Moved(c, "l_ack", h[c].user, h[c].msg)
        BY <1>1, <2>1, HandlerSteps
      <4>2. h'[c].vec = offline[u]
        BY <1>1, <2>1, <3>1, ContentSteps
      <4>3. QED
        BY <2>1, <3>1, <4>1, <4>2 DEF Moved, LoginReadOffline
    <3>3. Len(offline[u]) \in Nat
      <4>1. offline[u] \in Seq(Msg)
        BY <1>3
      <4>2. QED
        BY <4>1, LenProperties
    <3>4. QED
      BY <3>2, <3>3 DEF ReadOk
  <2>2. CASE ChatQuery(c)
    <3>1. \/ Moved(c, "c_publish", h[c].user, h[c].msg)
          \/ Moved(c, "c_store", h[c].user, h[c].msg)
      BY <1>1, <2>2, HandlerSteps
    <3>2. h'[c].to = h[c].to /\ h[c].user \in h[c].to
      BY <1>1, <1>3, <2>2, ContentSteps DEF ChatQuery, At, ReadOk
    <3>3. QED
      BY <3>1, <3>2 DEF Moved, ReadOk
  <2>3. ASSUME NEW u \in User, ChatFind(c, u) PROVE ReadOk(c)'
    <3>1. \/ Moved(c, "idle", None, None)
          \/ Moved(c, "c_find", None, h[c].msg)
          \/ Moved(c, "c_query", u, h[c].msg)
      BY <1>1, <2>3, HandlerSteps
    <3>2. h'[c].pc = "c_query" => h'[c].to = h[c].to
      BY <1>1, <2>3, ContentSteps
    <3>3. u \in h[c].to
      BY <2>3 DEF ChatFind
    <3>4. QED
      BY <3>1, <3>2, <3>3 DEF Moved, ReadOk
  <2>4. ASSUME NEW q, NEW u, NEW m, Moved(c, q, u, m),
               q \notin {"l_remove", "c_query", "c_publish", "c_store"}
        PROVE  ReadOk(c)'
    BY <2>4 DEF Moved, ReadOk
  <2>5. CASE \/ CloseErase(c) \/ Unsubscribe(c) \/ SetOffline(c) \/ LoginQuery(c)
             \/ LoginInsert(c) \/ LoginSubscribe(c) \/ LoginOnline(c)
    BY <1>1, <2>4, <2>5, HandlerSteps
  <2>6. CASE \/ LoginRemoveOffline(c) \/ LoginAck(c) \/ LogoutErase(c)
             \/ ChatPublish(c) \/ ChatStore(c)
    BY <1>1, <2>4, <2>6, HandlerSteps
  <2>7. CASE ClientClose(c)
    <3>1. UNCHANGED <<h, offline>>
      BY <2>7 DEF ClientClose
    <3>2. QED
      BY <1>3, <3>1 DEF ReadOk
  <2>8. CASE Connect(c) \/ Loginout(c) \/ \E u \in User : Login(c, u)
    BY <1>1, <2>4, <2>8, HandlerSteps
  <2>9. CASE \E m \in Msg : GroupChat(c, m) \/ \E u \in User : OneChat(c, m, u)
    BY <1>1, <2>4, <2>9, HandlerSteps
  <2>10. QED
    <3>1. CASE HandlerStep(c)
      BY <2>1, <2>2, <2>3, <2>5, <2>6, <3>1 DEF HandlerStep
    <3>2. CASE ClientStep(c)
      BY <2>7, <2>8, <2>9, <3>2 DEF ClientStep
    <3>3. QED
      BY <3>1, <3>2
<1>8. QED
  BY <1>6, <1>7 DEF ReadInv

-----------------------------------------------------------------------------
(* The invariant, and what it means for the messages.                      *)

\* A server that dies loses the copies that it has; the others stay where they
\* are.
LEMMA CrashMessages ==
  ASSUME MessageInv, TypeOK', NEW s \in Server, Exit(s)
  PROVE  SubsInv' /\ ReadInv' /\ \A p \in Copy : CopyOk(p)'
<1>1. TypeOK /\ HandlerInv /\ SubsInv /\ ReadInv
  BY DEF MessageInv, AccountInv, MapInv
<1>2. /\ UNCHANGED <<offline, used, handed>>
      /\ subs' = [subs EXCEPT ![s] = {}] /\ cmds' = [cmds EXCEPT ![s] = <<>>]
      /\ chan' = [chan EXCEPT ![s] = <<>>] /\ obs' = [obs EXCEPT ![s] = <<>>]
      /\ map' = [map EXCEPT ![s] = EmptyMap]
  BY DEF Exit, histVars
<1>3. /\ subs \in [Server -> SUBSET User] /\ SrvOf \in [Conn -> Server]
      /\ cmds \in [Server -> Seq([sub : BOOLEAN, user : User])]
      /\ chan \in [Server -> Seq(Copy)] /\ obs \in [Server -> Seq(Copy)]
      /\ map \in [Server -> [User -> Conn \union {None}]]
      /\ offline \in [User -> Seq(Msg)]
  BY <1>1, TypeFacts
<1>4. \A c \in Conn : /\ h'[c] = h[c] \/ h'[c].pc = "closed"
                      /\ SrvOf[c] # s => h'[c] = h[c]
  BY DEF Exit, Handler
<1>5. SubsInv'
  <2>1. \A t \in Server : cmds'[t] = <<>>
    BY <1>1, <1>2, <1>3 DEF SubsInv
  <2>2. ASSUME NEW t \in Server, NEW u \in subs'[t]
        PROVE  \E c \in Conn : SrvOf[c] = t /\ Subscribes(c, u)'
    <3>1. t # s /\ u \in subs[t] /\ map'[t] = map[t]
      BY <1>2, <1>3, <2>2
    <3>2. PICK c \in Conn : SrvOf[c] = t /\ Subscribes(c, u)
      BY <1>1, <3>1 DEF SubsInv
    <3>3. h'[c] = h[c]
      BY <1>4, <3>1, <3>2
    <3>4. QED
      BY <3>1, <3>2, <3>3 DEF Subscribes, Holds
  <2>3. QED
    BY <2>1, <2>2 DEF SubsInv
<1>6. ReadInv'
  <2>1. ASSUME NEW c \in Conn PROVE ReadOk(c)'
    <3>1. h'[c] = h[c] \/ h'[c].pc \notin {"l_remove", "c_query", "c_publish", "c_store"}
      BY <1>4
    <3>2. ASSUME h[c].pc = "l_remove" PROVE Grows(h[c].user)
      <4>1. offline[h[c].user] \in Seq(Msg)
        BY <1>1, <1>3, <3>2 DEF HandlerInv, HandlerOk, LoginPcs
      <4>2. Len(offline[h[c].user]) \in Nat
        BY <4>1, LenProperties
      <4>3. QED
        BY <1>2, <4>2 DEF Grows
    <3>3. QED
      BY <1>1, <3>1, <3>2, ReadKeeps DEF ReadInv
  <2>2. QED
    BY <2>1 DEF ReadInv
<1>7. ASSUME NEW p \in Copy PROVE CopyOk(p)'
  <2>1. RestStays(p)
    <3>1. DOMAIN <<>> = {}
      OBVIOUS
    <3>2. ASSUME NEW t \in Server
          PROVE  /\ chan'[t] = chan[t] \/ chan'[t] = <<>>
                 /\ obs'[t] = obs[t] \/ obs'[t] = <<>>
      BY <1>2, <1>3
    <3>3. QED
      BY <1>2, <3>1, <3>2 DEF RestStays, Queued, Observed, Tabled
  <2>2. HandlersStay(p)
    BY <1>4 DEF HandlersStay, Chats, Answers, ChatPcs
  <2>3. QED
    BY <2>1, <2>2, Stays DEF MessageInv
<1>8. QED
  BY <1>5, <1>6, <1>7

\* There are no messages at first.
LEMMA MessageInit == Init => MessageInv
<1> SUFFICES ASSUME Init PROVE MessageInv
  OBVIOUS
<1>1. AccountInv
  BY AccountInit
<1>2. /\ \A c \in Conn : h[c].pc = "new"
      /\ \A s \in Server : subs[s] = {} /\ cmds[s] = <<>>
      /\ \A s \in Server : chan[s] = <<>> /\ obs[s] = <<>>
      /\ \A u \in User : offline[u] = <<>>
      /\ \A p \in Copy : handed[p] = 0
  BY DEF Init, Handler
<1>3. SubsInv /\ ReadInv
  BY <1>2 DEF SubsInv, ReadInv, ReadOk
<1>4. ASSUME NEW p \in Copy PROVE CopyOk(p)
  <2>1. DOMAIN <<>> = {} /\ p[2] \in User
    BY DEF Copy
  <2>2. \A k \in Kind, x \in Place, i \in Nat : ~Has(k, x, i, p)
    BY <1>2, <2>1 DEF Has, Chats, Queued, Observed, Tabled, Answers, ChatPcs
  <2>3. QED
    BY <1>2, <2>2 DEF CopyOk
<1>5. QED
  BY <1>1, <1>3, <1>4 DEF MessageInv

\* Every step keeps the invariant.
LEMMA MessageStep ==
  ASSUME ~LateRedis, ~Overlap, ~Relogin, ~CanReset, MessageInv, [Next]_vars
  PROVE  MessageInv'
<1>1. AccountInv /\ TypeOK /\ HandlerInv /\ SubsInv /\ ReadInv
  BY DEF MessageInv, AccountInv, MapInv
<1>2. AccountInv' /\ TypeOK'
  BY <1>1, AccountStep DEF AccountInv, MapInv
<1>3. \A s, t \in Server : \A u \in User : u \in subs[s] /\ u \in subs[t] => s = t
  BY <1>1 DEF SubsInv, Subscribes, AccountInv, HolderInv
<1>4. ASSUME NEW c \in Conn, HandlerStep(c) \/ ClientStep(c)
      PROVE  SubsInv' /\ ReadInv' /\ \A p \in Copy : CopyOk(p)'
  <2>1. Local(c) /\ Secures(c)
    BY <1>1, <1>4, LocalStep, ClaimStep DEF AccountInv
  <2>2. Serves(c)
    BY <1>1, <1>4, ServesStep
  <2>3. SubsInv'
    BY <1>1, <1>2, <2>1, <2>2, ServesKeep
  <2>4. ReadInv'
    BY <1>1, <1>2, <1>4, ReadStep
  <2>5. ASSUME NEW p \in Copy PROVE CopyOk(p)'
    <3>1. CopyOk(p)
      BY DEF MessageInv
    <3>2. CASE \E u \in User : ChatFind(c, u)
      BY <1>1, <3>1, <3>2, ChatFindCopies
    <3>3. CASE ChatPublish(c)
      BY <1>1, <1>3, <3>1, <3>3, ChatPublishCopies
    <3>4. CASE ChatStore(c)
      BY <1>1, <3>1, <3>4, ChatStoreCopies
    <3>5. CASE LoginRemoveOffline(c)
      BY <1>1, <3>1, <3>5, LoginRemoveCopies
    <3>6. CASE LoginAck(c)
      BY <1>1, <3>1, <3>6, LoginAckCopies
    <3>7. CASE \E m \in Msg : GroupChat(c, m) \/ \E u \in User : OneChat(c, m, u)
      BY <1>1, <3>1, <3>7, BeginChatCopies
    <3>8. CASE \/ Connect(c) \/ ClientClose(c) \/ CloseErase(c) \/ Unsubscribe(c)
               \/ SetOffline(c) \/ LoginQuery(c) \/ LoginInsert(c)
               \/ LoginSubscribe(c) \/ LoginOnline(c) \/ LoginReadOffline(c)
               \/ LogoutErase(c) \/ ChatQuery(c) \/ Loginout(c)
               \/ \E u \in User : Login(c, u)
      BY <1>1, <3>1, <3>8, SilentSteps
    <3>9. CASE HandlerStep(c)
      BY <3>2, <3>3, <3>4, <3>5, <3>6, <3>8, <3>9 DEF HandlerStep
    <3>10. CASE ClientStep(c)
      BY <3>7, <3>8, <3>10 DEF ClientStep
    <3>11. QED
      BY <1>4, <3>9, <3>10
  <2>6. QED
    BY <2>3, <2>4, <2>5
<1>5. ASSUME NEW s \in Server, ObserverStep(s)
      PROVE  SubsInv' /\ ReadInv' /\ \A p \in Copy : CopyOk(p)'
  <2>1. UNCHANGED <<h, map, subs, cmds>>
    BY <1>5 DEF ObserverStep, ObserverFind, ObserverStore, redisVars
  <2>2. SubsInv'
    BY <1>1, <2>1 DEF SubsInv, Subscribes, Holds
  <2>3. \A u \in User : Grows(u)
    <3>1. CASE ObserverFind(s)
      <4>1. ASSUME NEW u \in User PROVE Grows(u)
        <5>1. offline' = offline /\ offline[u] \in Seq(Msg)
          BY <1>1, <3>1 DEF ObserverFind, TypeOK
        <5>2. Len(offline[u]) \in Nat
          BY <5>1, LenProperties
        <5>3. QED
          BY <5>1, <5>2 DEF Grows
      <4>2. QED
        BY <4>1
    <3>2. CASE ObserverStore(s)
      <4>1. PICK q \in Seq(Copy) : q = obs[s] /\ q # <<>>
        BY <1>1, <3>2 DEF ObserverStore, TypeOK
      <4>2. Head(q) \in Copy
        BY <4>1, HeadTailProperties
      <4>3. PICK u \in User, m \in Msg : StoreOffline(u, m)
        BY <3>2, <4>1, <4>2 DEF ObserverStore, Copy
      <4>4. QED
        BY <1>1, <4>3, StoreGrows
    <3>3. QED
      BY <1>5, <3>1, <3>2 DEF ObserverStep
  <2>4. ASSUME NEW c \in Conn PROVE ReadOk(c)'
    <3>1. h[c].pc = "l_remove" => h[c].user \in User
      BY <1>1 DEF HandlerInv, HandlerOk, LoginPcs
    <3>2. QED
      BY <1>1, <1>2, <2>1, <2>3, <3>1, ReadKeeps DEF ReadInv
  <2>5. ASSUME NEW p \in Copy PROVE CopyOk(p)'
    BY <1>1, <1>5, ObserverFindCopies, ObserverStoreCopies DEF MessageInv, ObserverStep
  <2>6. QED
    BY <2>2, <2>4, <2>5 DEF ReadInv
<1>6. ASSUME NEW s \in Server, ResetExit(s) \/ Crash(s)
      PROVE  SubsInv' /\ ReadInv' /\ \A p \in Copy : CopyOk(p)'
  BY <1>2, <1>6, CrashMessages DEF ResetExit, Crash
<1>7. \A s \in Server : ~RedisExecute(s) /\ ~ResetState(s)
  BY <1>1 DEF SubsInv, RedisExecute, ResetState
<1>8. CASE UNCHANGED vars
  <2>1. UNCHANGED <<map, subs, cmds, chan, obs, offline, h, used, handed>>
    BY <1>8 DEF vars
  <2>2. SubsInv' /\ ReadInv'
    BY <1>1, <2>1 DEF SubsInv, ReadInv, ReadOk, Subscribes, Holds
  <2>3. ASSUME NEW p \in Copy PROVE CopyOk(p)'
    <3>1. RestStays(p) /\ HandlersStay(p)
      BY <2>1 DEF RestStays, HandlersStay, Queued, Observed, Tabled, Chats, Answers
    <3>2. QED
      BY <3>1, Stays DEF MessageInv
  <2>4. QED
    BY <1>2, <2>2, <2>3 DEF MessageInv
<1>9. CASE Next
  BY <1>2, <1>4, <1>5, <1>6, <1>7, <1>9 DEF Next, MessageInv
<1>10. QED
  BY <1>8, <1>9

\* Whatever way a message takes, through _userConnMap, redis and the observer
\* thread, or the offline table and the answer to a login(), no client gets it
\* twice, also when servers die: as long as redis executes a subscription before
\* the next step, no two logins of one account overlap and no server resets the
\* others' users.
THEOREM HandedOnce ==
  ASSUME ~LateRedis, ~Overlap, ~Relogin, ~CanReset
  PROVE  Spec => []AtMostOnce
<1>1. MessageInv => AtMostOnce
  BY DEF MessageInv, CopyOk, AtMostOnce
<1>2. MessageInv /\ [Next]_vars => MessageInv'
  BY MessageStep
<1>3. QED
  BY <1>1, <1>2, MessageInit, PTL DEF Spec

-----------------------------------------------------------------------------
(* The map, the subscriptions and the rows agree, redis being as late as   *)
(* it likes.                                                               *)

\* Connection c has account u, and the row in table user says so.
IsOnline(c, u) ==
  Holds(c, u) /\ h[c].pc \notin {"l_insert", "l_subscribe", "l_online"}

\* A server is subscribed for a user, once redis has executed its commands,
\* exactly when a connection of its keeps it so, and the row of a user says
\* online only when a connection has set it.
ReachInv ==
  /\ \A s \in Server : LateRedis \/ cmds[s] = <<>>
  /\ \A s \in Server, u \in User :
       u \in Subscribed(s) <=> \E c \in Conn : SrvOf[c] = s /\ Subscribes(c, u)
  /\ \A u \in User : db[u] = "online" => \E c \in Conn : IsOnline(c, u)

AgreeInv == AccountInv /\ ReachInv /\ exiting = {}

\* What is subscribed depends on the commands and on what redis has done.
LEMMA SubscribedSame ==
  ASSUME NEW s \in Server, cmds'[s] = cmds[s], subs'[s] = subs[s]
  PROVE  Subscribed(s)' = Subscribed(s)
BY DEF Subscribed

\* A command to redis counts from the moment it is given, and for its server
\* and its user only.
LEMMA CommandCounts ==
  ASSUME TypeOK, NEW s \in Server, NEW b \in BOOLEAN, NEW u \in User,
         LateRedis \/ cmds[s] = <<>>,
         Command(s, [sub |-> b, user |-> u])
  PROVE  /\ \A v \in User : v # u =>
              (v \in Subscribed(s)' <=> v \in Subscribed(s))
         /\ u \in Subscribed(s)' <=> b
         /\ \A t \in Server : t # s => Subscribed(t)' = Subscribed(t)
<1>1. PICK k : k = [sub |-> b, user |-> u]
  OBVIOUS
<1>2. k.sub = b /\ k.user = u /\ k \in [sub : BOOLEAN, user : User]
  BY <1>1
<1>3. /\ subs \in [Server -> SUBSET User]
      /\ cmds \in [Server -> Seq([sub : BOOLEAN, user : User])]
  BY DEF TypeOK
<1>4. PICK q \in Seq([sub : BOOLEAN, user : User]) : q = cmds[s]
  BY <1>3
<1>5. CASE LateRedis
  <2>1. cmds' = [cmds EXCEPT ![s] = Append(cmds[s], k)] /\ subs' = subs
    BY <1>1, <1>5, Zenon DEF Command
  <2>2. cmds'[s] = Append(q, k) /\ \A t \in Server : t # s => cmds'[t] = cmds[t]
    BY <1>3, <1>4, <2>1
  <2>3. /\ DOMAIN cmds[s] = 1..Len(q) /\ DOMAIN cmds'[s] = 1..Len(q) + 1
        /\ \A i \in 1..Len(q) : cmds'[s][i] = cmds[s][i]
        /\ cmds'[s][Len(q) + 1] = k /\ Len(q) \in Nat
    BY <1>2, <1>4, <2>2
  <2>4. ASSUME NEW v \in User, v # u
        PROVE  v \in Subscribed(s)' <=> v \in Subscribed(s)
    <3>1. {i \in DOMAIN cmds'[s] : cmds'[s][i].user = v}
            = {i \in DOMAIN cmds[s] : cmds[s][i].user = v}
      BY <1>2, <2>3, <2>4
    <3>2. \A i \in DOMAIN cmds[s] : cmds'[s][i].sub = cmds[s][i].sub
      BY <2>3
    <3>3. QED
      BY <2>1, <3>1, <3>2 DEF Subscribed
  <2>5. u \in Subscribed(s)' <=> b
    <3>1. PICK D : D = {i \in DOMAIN cmds'[s] : cmds'[s][i].user = u}
      OBVIOUS
    <3>2. Len(q) + 1 \in D /\ \A j \in D : j <= Len(q) + 1 /\ j \in Nat
      BY <1>2, <2>3, <3>1
    <3>3. u \in Subscribed(s)' <=>
            \E i \in D : cmds'[s][i].sub /\ \A j \in D : j <= i
      BY <3>1, <3>2 DEF Subscribed
    <3>4. \A i \in D : (\A j \in D : j <= i) <=> i = Len(q) + 1
      BY <2>3, <3>2
    <3>5. QED
      BY <1>2, <2>3, <3>2, <3>3, <3>4
  <2>6. \A t \in Server : t # s => Subscribed(t)' = Subscribed(t)
    BY <2>1, <2>2, SubscribedSame
  <2>7. QED
    BY <2>4, <2>5, <2>6
<1>6. CASE ~LateRedis
  <2>1. cmds' = cmds /\ subs' = [subs EXCEPT ![s] = Execute(subs[s], k)]
    BY <1>1, <1>6, Zenon DEF Command
  <2>2. /\ cmds'[s] = <<>> /\ cmds[s] = <<>>
        /\ subs'[s] = IF b THEN subs[s] \union {u} ELSE subs[s] \ {u}
        /\ \A t \in Server : t # s => subs'[t] = subs[t] /\ cmds'[t] = cmds[t]
    BY <1>2, <1>3, <1>6, <2>1 DEF Execute
  <2>3. /\ Subscribed(s) = {v \in User : v \in subs[s]}
        /\ Subscribed(s)' = {v \in User : v \in subs'[s]}
    <3>1. {i \in DOMAIN <<>> : cmds[s][i].user = u} = {}
      OBVIOUS
    <3>2. QED
      BY <2>2, <3>1 DEF Subscribed
  <2>4. \A t \in Server : t # s => Subscribed(t)' = Subscribed(t)
    BY <2>2, SubscribedSame
  <2>5. QED
    BY <2>2, <2>3, <2>4
<1>7. QED
  BY <1>5, <1>6

\* What redis has executed was counted before.
LEMMA ExecuteCounts ==
  ASSUME TypeOK, NEW s \in Server, RedisExecute(s)
  PROVE  /\ \A t \in Server : Subscribed(t)' = Subscribed(t)
         /\ \A t \in Server : cmds[t] = <<>> => cmds'[t] = <<>>
<1>1. /\ subs \in [Server -> SUBSET User]
      /\ cmds \in [Server -> Seq([sub : BOOLEAN, user : User])]
  BY DEF TypeOK
<1>2. PICK q \in Seq([sub : BOOLEAN, user : User]) : q = cmds[s]
  BY <1>1
<1>3. PICK k \in [sub : BOOLEAN, user : User] : k = q[1]
  <2>1. q # <<>>
    BY <1>2 DEF RedisExecute
  <2>2. q[1] \in [sub : BOOLEAN, user : User]
    <3>1. 1 \in 1..Len(q)
      BY <2>1
    <3>2. QED
      BY <3>1, ElementOfSeq
  <2>3. QED
    BY <2>2
<1>4. /\ cmds' = [cmds EXCEPT ![s] = Tail(q)]
      /\ subs' = [subs EXCEPT ![s] = Execute(subs[s], k)]
      /\ q # <<>>
  BY <1>1, <1>2, <1>3 DEF RedisExecute
<1>5. /\ cmds'[s] = Tail(q) /\ subs'[s] = Execute(subs[s], k)
      /\ \A t \in Server : t # s => cmds'[t] = cmds[t] /\ subs'[t] = subs[t]
  BY <1>1, <1>4
<1>6. /\ Len(q) \in Nat /\ Len(q) > 0
      /\ DOMAIN q = 1..Len(q) /\ DOMAIN cmds'[s] = 1..Len(q) - 1
      /\ \A i \in 1..Len(q) - 1 : cmds'[s][i] = q[i + 1]
  BY <1>4, <1>5
<1>7. ASSUME NEW v \in User
      PROVE  v \in Subscribed(s)' <=> v \in Subscribed(s)
  <2>1. PICK D, E : /\ D = {i \in DOMAIN q : q[i].user = v}
                    /\ E = {i \in DOMAIN cmds'[s] : cmds'[s][i].user = v}
    OBVIOUS
  <2>2. /\ v \in Subscribed(s) <=>
             IF D = {} THEN v \in subs[s]
             ELSE \E i \in D : q[i].sub /\ \A j \in D : j <= i
        /\ v \in Subscribed(s)' <=>
             IF E = {} THEN v \in subs'[s]
             ELSE \E i \in E : cmds'[s][i].sub /\ \A j \in E : j <= i
    BY <1>2, <2>1 DEF Subscribed
  <2>3. /\ \A i \in E : i + 1 \in D /\ cmds'[s][i] = q[i + 1] /\ i \in Nat /\ i > 0
        /\ \A i \in D : i \in Nat /\ (i # 1 => i - 1 \in E)
        /\ 1 \in D <=> k.user = v
    BY <1>3, <1>6, <2>1
  <2>4. CASE E = {} /\ k.user = v
    <3>1. D = {1}
      BY <2>3, <2>4
    <3>2. v \in subs'[s] <=> k.sub
      BY <1>5, <2>4 DEF Execute
    <3>3. QED
      BY <1>3, <2>2, <2>4, <3>1, <3>2
  <2>5. CASE E = {} /\ k.user # v
    <3>1. D = {}
      BY <2>3, <2>5
    <3>2. v \in subs'[s] <=> v \in subs[s]
      BY <1>5, <2>5 DEF Execute
    <3>3. QED
      BY <2>2, <2>5, <3>1, <3>2
  <2>6. CASE E # {}
    <3>1. D # {}
      BY <2>3, <2>6
    <3>2. ASSUME NEW i \in E, cmds'[s][i].sub, \A j \in E : j <= i
          PROVE  \E m \in D : q[m].sub /\ \A j \in D : j <= m
      <4>1. /\ i + 1 \in D /\ cmds'[s][i] = q[i + 1] /\ i \in Nat /\ i > 0
        BY <2>3, <3>2
      <4>2. ASSUME NEW j \in D PROVE j <= i + 1
        <5>1. j \in Nat /\ (j # 1 => j - 1 \in E)
          BY <2>3, <4>2
        <5>2. j # 1 => j - 1 <= i
          BY <3>2, <5>1
        <5>3. QED
          BY <4>1, <5>1, <5>2
      <4>3. QED
        BY <3>2, <4>1, <4>2
    <3>3. ASSUME NEW i \in D, q[i].sub, \A j \in D : j <= i
          PROVE  \E m \in E : cmds'[s][m].sub /\ \A j \in E : j <= m
      <4>1. PICK e \in E : TRUE
        BY <2>6
      <4>2. e + 1 <= i /\ e > 0 /\ i \in Nat /\ e \in Nat
        BY <2>3, <3>3
      <4>3. i - 1 \in E /\ cmds'[s][i - 1] = q[i]
        BY <2>3, <4>2
      <4>4. \A j \in E : j <= i - 1
        BY <2>3, <3>3
      <4>5. QED
        BY <3>3, <4>3, <4>4
    <3>4. QED
      BY <2>2, <2>6, <3>1, <3>2, <3>3
  <2>7. QED
    BY <2>4, <2>5, <2>6
<1>8. Subscribed(s)' = Subscribed(s)
  BY <1>7 DEF Subscribed
<1>9. \A t \in Server : t # s => Subscribed(t)' = Subscribed(t)
  BY <1>5, SubscribedSame
<1>10. QED
  BY <1>2, <1>4, <1>5, <1>8, <1>9

\* For a step of connection c it is enough to look at its own account: its
\* server's subscription goes with what c needs, and c is there for a row that
\* says online.
Tells(c) ==
  /\ \A s \in Server : LateRedis \/ cmds'[s] = <<>>
  /\ \A u \in User :
       \/ /\ Subscribes(c, u)' <=> Subscribes(c, u)
          /\ \A s \in Server : u \in Subscribed(s)' <=> u \in Subscribed(s)
       \/ /\ Subscribes(c, u)'
          /\ \A s \in Server :
               u \in Subscribed(s)' <=> u \in Subscribed(s) \/ s = SrvOf[c]
       \/ /\ Subscribes(c, u) /\ ~Subscribes(c, u)'
          /\ \A s \in Server :
               u \in Subscribed(s)' <=> u \in Subscribed(s) /\ s # SrvOf[c]
  /\ \A u \in User : db'[u] = "online" =>
       IsOnline(c, u)' \/ (db[u] = "online" /\ ~IsOnline(c, u))

\* Such a step keeps the invariant.
LEMMA TellsKeep ==
  ASSUME AgreeInv, NEW c \in Conn, Local(c), Secures(c), Tells(c)
  PROVE  ReachInv'
<1>1. /\ SrvOf \in [Conn -> Server]
      /\ map \in [Server -> [User -> Conn \union {None}]] /\ None \notin Conn
      /\ HolderInv /\ ReachInv
  BY TypeFacts DEF AccountInv, MapInv, AgreeInv
<1>2. ASSUME NEW d \in Conn, NEW u \in User, d # c
      PROVE  /\ Holds(d, u)' <=> Holds(d, u)
             /\ h'[d].pc = h[d].pc
  <2>1. h'[d] = h[d]
    BY <1>2 DEF Local
  <2>2. map'[SrvOf[d]][u] = d <=> map[SrvOf[d]][u] = d
    BY <1>1, <1>2 DEF Local, Secures
  <2>3. QED
    BY <2>1, <2>2 DEF Holds
<1>3. ASSUME NEW d \in Conn, NEW u \in User, d # c
      PROVE  /\ Subscribes(d, u)' <=> Subscribes(d, u)
             /\ IsOnline(d, u)' <=> IsOnline(d, u)
  BY <1>2, <1>3 DEF Subscribes, IsOnline
<1>4. ASSUME NEW s \in Server, NEW u \in User
      PROVE  u \in Subscribed(s)' <=> \E d \in Conn : SrvOf[d] = s /\ Subscribes(d, u)'
  <2>1. u \in Subscribed(s) <=> \E d \in Conn : SrvOf[d] = s /\ Subscribes(d, u)
    BY <1>1 DEF ReachInv
  <2>2. CASE /\ Subscribes(c, u)' <=> Subscribes(c, u)
             /\ u \in Subscribed(s)' <=> u \in Subscribed(s)
    BY <1>3, <2>1, <2>2
  <2>3. CASE /\ Subscribes(c, u)'
             /\ u \in Subscribed(s)' <=> u \in Subscribed(s) \/ s = SrvOf[c]
    <3>1. CASE s = SrvOf[c]
      BY <2>3, <3>1
    <3>2. CASE s # SrvOf[c]
      BY <1>3, <2>1, <2>3, <3>2
    <3>3. QED
      BY <3>1, <3>2
  <2>4. CASE /\ Subscribes(c, u) /\ ~Subscribes(c, u)'
             /\ u \in Subscribed(s)' <=> u \in Subscribed(s) /\ s # SrvOf[c]
    <3>1. \A d \in Conn : d # c => ~Subscribes(d, u)
      BY <1>1, <2>4 DEF HolderInv, Subscribes
    <3>2. QED
      BY <1>3, <2>1, <2>4, <3>1
  <2>5. QED
    BY <2>2, <2>3, <2>4 DEF Tells
<1>5. ASSUME NEW u \in User, db'[u] = "online"
      PROVE  \E d \in Conn : IsOnline(d, u)'
  <2>1. CASE db[u] = "online" /\ ~IsOnline(c, u)
    <3>1. PICK d \in Conn : IsOnline(d, u)
      BY <1>1, <2>1 DEF ReachInv
    <3>2. d # c
      BY <2>1, <3>1
    <3>3. QED
      BY <1>3, <3>1, <3>2
  <2>2. QED
    BY <1>5, <2>1 DEF Tells
<1>6. QED
  BY <1>4, <1>5 DEF ReachInv, Tells

\* Every step of a handler or a client is one: login() subscribes after it has
\* its entry and before it marks the row, loginout() and the end of the
\* connection undo the three in the same order.
LEMMA TellsStep ==
  ASSUME AgreeInv, ~Relogin, NEW c \in Conn, HandlerStep(c) \/ ClientStep(c)
  PROVE  Tells(c)
<1> USE DEF redisVars, histVars, msgVars, clientVars, lifeVars
<1>1. TypeOK /\ HandlerInv /\ EntryInv /\ SessionInv /\ ReachInv
  BY DEF AgreeInv, AccountInv, MapInv
<1>2. HandlerOk(c) /\ EntryOk(c) /\ \A s \in Server : LateRedis \/ cmds[s] = <<>>
  BY <1>1 DEF HandlerInv, EntryInv, ReachInv
<1>3. /\ SrvOf[c] \in Server /\ None \notin User /\ None \notin Conn
      /\ open \in [Conn -> BOOLEAN] /\ acct \in [Conn -> User \union {None}]
      /\ db \in [User -> {"online", "offline"}]
  BY <1>1, TypeFacts
<1>4. ASSUME UNCHANGED <<cmds, subs, db>>,
             \A u \in User : /\ Subscribes(c, u) <=> Subscribes(c, u)'
                             /\ IsOnline(c, u) => IsOnline(c, u)'
      PROVE  Tells(c)
  <2>1. \A s \in Server : Subscribed(s)' = Subscribed(s)
    BY <1>4, SubscribedSame
  <2>2. QED
    BY <1>2, <1>4, <2>1 DEF Tells
<1>5. CASE LoginReadOffline(c) \/ LoginRemoveOffline(c) \/ LogoutErase(c)
  <2>1. \/ Moved(c, "l_remove", h[c].user, h[c].msg)
        \/ Moved(c, "l_ack", h[c].user, h[c].msg)
        \/ Moved(c, "o_unsubscribe", h[c].user, h[c].msg)
    BY <1>1, <1>5, HandlerSteps
  <2>2. /\ UNCHANGED <<cmds, subs, db>>
        /\ h[c].pc \in {"l_read", "l_remove", "o_erase"}
    BY <1>5 DEF LoginReadOffline, LoginRemoveOffline, LogoutErase, At
  <2>3. QED
    BY <1>4, <2>1, <2>2
       DEF Moved, Subscribes, IsOnline, Holds, LoginPcs, LeavePcs, Serving, ChatPcs
<1>6. CASE Connect(c) \/ LoginQuery(c)
  <2>1. /\ UNCHANGED <<cmds, subs, db, map>> /\ h[c].pc \in {"new", "l_query"}
    BY <1>6 DEF Connect, LoginQuery, At
  <2>2. h'[c].pc \in {"idle", "l_insert"}
    BY <1>1, <1>6, HandlerSteps DEF Moved
  <2>3. \A u \in User : map[SrvOf[c]][u] # c
    BY <1>2, <1>3, <2>1 DEF EntryOk, Inserted, Serving, ChatPcs
  <2>4. QED
    BY <1>4, <2>1, <2>2, <2>3
       DEF Subscribes, IsOnline, Holds, LoginPcs, LeavePcs, Serving, ChatPcs
<1>7. CASE LoginInsert(c)
  <2>1. /\ UNCHANGED <<cmds, subs, db>> /\ h[c].pc = "l_insert"
    BY <1>7 DEF LoginInsert, At
  <2>2. h'[c].pc = "l_subscribe"
    BY <1>1, <1>7, HandlerSteps DEF Moved
  <2>3. QED
    BY <1>4, <2>1, <2>2
       DEF Subscribes, IsOnline, Holds, LoginPcs, LeavePcs, Serving, ChatPcs
<1>8. CASE LoginOnline(c)
  <2>1. Moved(c, "l_read", h[c].user, h[c].msg)
    BY <1>1, <1>8, HandlerSteps
  <2>2. PICK u \in User : u = h[c].user
    BY <1>2, <1>8 DEF LoginOnline, At, HandlerOk, LoginPcs
  <2>3. /\ UNCHANGED <<cmds, subs>> /\ h[c].pc = "l_online"
        /\ db' = [db EXCEPT ![u] = "online"]
    BY <1>8, <2>2 DEF LoginOnline, At
  <2>4. /\ \A v \in User : Subscribes(c, v)' <=> Subscribes(c, v)
        /\ \A v \in User : ~IsOnline(c, v)
        /\ IsOnline(c, u)'
    BY <2>1, <2>2, <2>3
       DEF Moved, Subscribes, IsOnline, Holds, LoginPcs, LeavePcs, Serving, ChatPcs
  <2>5. \A v \in User : v # u => db'[v] = db[v]
    BY <1>3, <2>3
  <2>6. \A s \in Server : Subscribed(s)' = Subscribed(s)
    BY <2>3, SubscribedSame
  <2>7. QED
    BY <1>2, <2>3, <2>4, <2>5, <2>6 DEF Tells
<1>9. CASE SetOffline(c)
  <2>1. \/ At(c, "o_offline") /\ Moved(c, "idle", None, None)
        \/ At(c, "d_offline") /\ Moved(c, "closed", None, None)
    BY <1>1, <1>9, HandlerSteps
  <2>2. PICK u \in User : u = h[c].user
    BY <1>2, <1>9 DEF SetOffline, HandlerOk, LeavePcs
  <2>3. UNCHANGED <<cmds, subs, map>> /\ db' = [db EXCEPT ![u] = "offline"]
    BY <1>9, <2>2 DEF SetOffline
  <2>4. \A v \in User : map[SrvOf[c]][v] # c
    BY <1>2, <1>3, <2>1 DEF At, EntryOk, Inserted, Serving, ChatPcs
  <2>5. /\ \A v \in User : ~Subscribes(c, v) /\ ~Subscribes(c, v)'
        /\ \A v \in User : IsOnline(c, v) => v = u
    BY <2>1, <2>2, <2>3, <2>4
       DEF At, Moved, Subscribes, IsOnline, Holds, LoginPcs, LeavePcs, Serving, ChatPcs
  <2>6. \A v \in User : db'[v] = "online" => v # u /\ db[v] = "online"
    BY <1>3, <2>3
  <2>7. \A s \in Server : Subscribed(s)' = Subscribed(s)
    BY <2>3, SubscribedSame
  <2>8. QED
    BY <1>2, <2>3, <2>5, <2>6, <2>7 DEF Tells
<1>10. CASE \/ (\E u \in User : ChatFind(c, u)) \/ ChatQuery(c) \/ ChatPublish(c)
            \/ ChatStore(c) \/ \E m \in Msg : GroupChat(c, m) \/ \E u \in User : OneChat(c, m, u)
  <2>1. h'[c].pc \in Serving
    <3>1. \E q \in Serving : \E u, m : Moved(c, q, u, m)
      <4>1. {"idle", "c_find", "c_query", "c_publish", "c_store"} \subseteq Serving
        BY DEF Serving, ChatPcs
      <4>2. CASE \E u \in User : ChatFind(c, u)
        BY <1>1, <4>1, <4>2, HandlerSteps
      <4>3. CASE ChatQuery(c) \/ ChatPublish(c) \/ ChatStore(c)
        BY <1>1, <4>1, <4>3, HandlerSteps
      <4>4. CASE \E m \in Msg : GroupChat(c, m) \/ \E u \in User : OneChat(c, m, u)
        BY <1>1, <4>1, <4>4, HandlerSteps
      <4>5. QED
        BY <1>10, <4>2, <4>3, <4>4
    <3>2. QED
      BY <3>1 DEF Moved
  <2>2. UNCHANGED <<cmds, subs, map, db>> /\ h[c].pc \in Serving
    <3>1. CASE \E u \in User : ChatFind(c, u)
      BY <3>1 DEF ChatFind, At, Serving, ChatPcs
    <3>2. CASE ChatQuery(c) \/ ChatPublish(c) \/ ChatStore(c)
      BY <3>2 DEF ChatQuery, ChatPublish, ChatStore, At, Serving, ChatPcs
    <3>3. CASE \E m \in Msg : GroupChat(c, m) \/ \E u \in User : OneChat(c, m, u)
      BY <3>3 DEF GroupChat, OneChat, BeginChat, Ready, At, Serving
    <3>4. QED
      BY <1>10, <3>1, <3>2, <3>3
  <2>3. QED
    BY <1>4, <2>1, <2>2
       DEF Subscribes, IsOnline, Holds, LoginPcs, LeavePcs, Serving, ChatPcs
<1>11. CASE LoginSubscribe(c)
  <2>1. Moved(c, "l_online", h[c].user, h[c].msg)
    BY <1>1, <1>11, HandlerSteps
  <2>2. PICK u \in User : u = h[c].user
    BY <1>2, <1>11 DEF LoginSubscribe, At, HandlerOk, LoginPcs
  <2>3. /\ Command(SrvOf[c], [sub |-> TRUE, user |-> u]) /\ h[c].pc = "l_subscribe"
        /\ UNCHANGED <<map, db>>
    BY <1>11, <2>2 DEF LoginSubscribe, At
  <2>4. /\ \A v \in User : v # u =>
             (v \in Subscribed(SrvOf[c])' <=> v \in Subscribed(SrvOf[c]))
        /\ u \in Subscribed(SrvOf[c])'
        /\ \A t \in Server : t # SrvOf[c] => Subscribed(t)' = Subscribed(t)
    BY <1>1, <1>2, <1>3, <2>3, CommandCounts
  <2>5. /\ Subscribes(c, u)'
        /\ \A v \in User : v # u => ~Subscribes(c, v) /\ ~Subscribes(c, v)'
        /\ \A v \in User : ~IsOnline(c, v)
    BY <2>1, <2>2, <2>3
       DEF Moved, Subscribes, IsOnline, Holds, LoginPcs, LeavePcs, Serving, ChatPcs
  <2>6. \A s \in Server : LateRedis \/ cmds'[s] = <<>>
    BY <1>2, <2>3 DEF Command
  <2>7. QED
    BY <2>3, <2>4, <2>5, <2>6 DEF Tells
<1>12. CASE Unsubscribe(c)
  <2>1. \/ At(c, "o_unsubscribe") /\ Moved(c, "o_offline", h[c].user, h[c].msg)
        \/ At(c, "d_unsubscribe") /\ Moved(c, "d_offline", h[c].user, h[c].msg)
    BY <1>1, <1>12, HandlerSteps
  <2>2. PICK u \in User : u = h[c].user
    BY <1>2, <1>12 DEF Unsubscribe, HandlerOk, LeavePcs
  <2>3. Command(SrvOf[c], [sub |-> FALSE, user |-> u]) /\ UNCHANGED <<map, db>>
    BY <1>12, <2>2 DEF Unsubscribe
  <2>4. /\ \A v \in User : v # u =>
             (v \in Subscribed(SrvOf[c])' <=> v \in Subscribed(SrvOf[c]))
        /\ u \notin Subscribed(SrvOf[c])'
        /\ \A t \in Server : t # SrvOf[c] => Subscribed(t)' = Subscribed(t)
    BY <1>1, <1>2, <1>3, <2>3, CommandCounts
  <2>5. /\ Subscribes(c, u) /\ ~Subscribes(c, u)'
        /\ \A v \in User : v # u => ~Subscribes(c, v) /\ ~Subscribes(c, v)'
        /\ \A v \in User : IsOnline(c, v)' <=> IsOnline(c, v)
    BY <2>1, <2>2, <2>3
       DEF At, Moved, Subscribes, IsOnline, Holds, LoginPcs, LeavePcs, Serving, ChatPcs
  <2>6. \A s \in Server : LateRedis \/ cmds'[s] = <<>>
    BY <1>2, <2>3 DEF Command
  <2>7. QED
    BY <2>3, <2>4, <2>5, <2>6 DEF Tells
<1>13. CASE LoginAck(c)
  <2>1. Moved(c, "idle", None, None)
    BY <1>1, <1>13, HandlerSteps
  <2>2. UNCHANGED <<cmds, subs, map, db>> /\ h[c].pc = "l_ack"
    BY <1>13 DEF LoginAck, At
  <2>3. \A u \in User : map[SrvOf[c]][u] = c <=> h[c].user = u
    BY <1>1, <1>2, <1>3, <2>2
       DEF SessionInv, EntryOk, Inserted, Serving, ChatPcs
  <2>4. QED
    BY <1>4, <2>1, <2>2, <2>3
       DEF Moved, Subscribes, IsOnline, Holds, LoginPcs, LeavePcs, Serving, ChatPcs
<1>14. CASE CloseErase(c)
  <2>1. UNCHANGED <<cmds, subs, db>> /\ h[c].pc = "idle"
    BY <1>14 DEF CloseErase, At
  <2>2. ASSUME \A u \in User : map[SrvOf[c]][u] # c, Moved(c, "closed", None, None)
        PROVE  Tells(c)
    BY <1>4, <2>1, <2>2
       DEF Moved, Subscribes, IsOnline, Holds, LoginPcs, LeavePcs, Serving, ChatPcs
  <2>3. ASSUME NEW u \in User, map[SrvOf[c]][u] = c, Moved(c, "d_unsubscribe", u, None)
        PROVE  Tells(c)
    <3>1. \A v \in User : map[SrvOf[c]][v] = c <=> v = u
      BY <1>2, <1>3, <2>3 DEF EntryOk
    <3>2. QED
      BY <1>4, <2>1, <2>3, <3>1
         DEF Moved, Subscribes, IsOnline, Holds, LoginPcs, LeavePcs, Serving, ChatPcs
  <2>4. QED
    BY <1>1, <1>14, <2>2, <2>3, HandlerSteps
<1>15. CASE Loginout(c)
  <2>1. Moved(c, "o_erase", acct[c], None)
    BY <1>1, <1>15, HandlerSteps
  <2>2. /\ UNCHANGED <<cmds, subs, db>> /\ h[c].pc = "idle" /\ open[c] /\ c \in acked
    BY <1>15 DEF Loginout, Ready, At
  <2>3. \A v \in User : map[SrvOf[c]][v] = c <=> acct[c] = v
    BY <1>1, <1>2, <1>3, <2>2 DEF SessionInv, EntryOk, Inserted
  <2>4. QED
    BY <1>4, <2>1, <2>2, <2>3
       DEF Moved, Subscribes, IsOnline, Holds, LoginPcs, LeavePcs, Serving, ChatPcs
<1>16. ASSUME NEW u \in User, Login(c, u) PROVE Tells(c)
  <2>1. UNCHANGED <<cmds, subs, db>> /\ h[c].pc = "idle" /\ open[c] /\ acct[c] = None
    BY <1>16 DEF Login, Ready, At
  <2>2. Moved(c, "l_query", u, None)
    BY <1>1, <1>16, HandlerSteps
  <2>3. \A v \in User : map[SrvOf[c]][v] # c
    BY <1>2, <1>3, <2>1 DEF EntryOk, Inserted
  <2>4. QED
    BY <1>4, <2>1, <2>2, <2>3
       DEF Moved, Subscribes, IsOnline, Holds, LoginPcs, LeavePcs, Serving, ChatPcs
<1>17. CASE ClientClose(c)
  <2>1. UNCHANGED <<cmds, subs, h, map, db>>
    BY <1>17 DEF ClientClose
  <2>2. QED
    BY <1>4, <2>1 DEF Subscribes, IsOnline, Holds
<1>18. QED
  <2>1. CASE HandlerStep(c)
    BY <1>5, <1>6, <1>7, <1>8, <1>9, <1>10, <1>11, <1>12, <1>13, <1>14, <2>1
       DEF HandlerStep
  <2>2. CASE ClientStep(c)
    BY <1>6, <1>10, <1>15, <1>16, <1>17, <2>2 DEF ClientStep
  <2>3. QED
    BY <2>1, <2>2

\* At first nobody has an account, and nothing is subscribed.
LEMMA AgreeInit == Init => AgreeInv
<1> SUFFICES ASSUME Init PROVE AgreeInv
  OBVIOUS
<1>1. AccountInv
  BY AccountInit
<1>2. /\ \A s \in Server : cmds[s] = <<>> /\ subs[s] = {}
      /\ \A c \in Conn : h[c].pc = "new"
      /\ \A u \in User : db[u] = "offline"
      /\ exiting = {}
  BY DEF Init, Handler
<1>3. \A s \in Server : Subscribed(s) = {}
  BY <1>2 DEF Subscribed
<1>4. \A c \in Conn, u \in User : ~Subscribes(c, u)
  BY <1>2 DEF Subscribes, Holds, LoginPcs, LeavePcs, Serving, ChatPcs
<1>5. QED
  BY <1>1, <1>2, <1>3, <1>4 DEF AgreeInv, ReachInv

\* Every step keeps the invariant.
LEMMA AgreeStep ==
  ASSUME ~Overlap, ~Relogin, ~CanReset, ~CanCrash, AgreeInv, [Next]_vars
  PROVE  AgreeInv'
<1>1. AccountInv'
  BY AccountStep DEF AgreeInv
<1>2. /\ AccountInv /\ MapInv /\ TypeOK /\ HandlerInv /\ EntryInv /\ ReachInv
      /\ exiting = {}
  BY DEF AgreeInv, AccountInv, MapInv
<1>3. ReachInv'
  <2>1. ASSUME NEW c \in Conn, HandlerStep(c) \/ ClientStep(c) PROVE ReachInv'
    <3>1. Local(c) /\ Secures(c)
      BY <1>2, <2>1, LocalStep, ClaimStep
    <3>2. Tells(c)
      BY <2>1, TellsStep
    <3>3. QED
      BY <3>1, <3>2, TellsKeep
  <2>2. ASSUME UNCHANGED <<h, map, db>>,
               \A s \in Server : /\ Subscribed(s)' = Subscribed(s)
                                 /\ cmds[s] = <<>> => cmds'[s] = <<>>
        PROVE  ReachInv'
    <3>1. \A c \in Conn, u \in User : /\ Subscribes(c, u)' <=> Subscribes(c, u)
                                      /\ IsOnline(c, u)' <=> IsOnline(c, u)
      BY <2>2 DEF Subscribes, IsOnline, Holds
    <3>2. QED
      BY <1>2, <2>2, <3>1 DEF ReachInv
  <2>3. ASSUME NEW s \in Server, ObserverStep(s) PROVE ReachInv'
    <3>1. UNCHANGED <<h, map, db, subs, cmds>>
      BY <2>3 DEF ObserverStep, ObserverFind, ObserverStore, redisVars
    <3>2. QED
      BY <2>2, <3>1, SubscribedSame
  <2>4. ASSUME NEW s \in Server, RedisExecute(s) PROVE ReachInv'
    <3>1. UNCHANGED <<h, map, db>>
      BY <2>4 DEF RedisExecute
    <3>2. QED
      BY <1>2, <2>2, <2>4, <3>1, ExecuteCounts
  <2>5. CASE UNCHANGED vars
    <3>1. UNCHANGED <<h, map, db, subs, cmds>>
      BY <2>5 DEF vars
    <3>2. QED
      BY <2>2, <3>1, SubscribedSame
  <2>6. QED
    <3>1. \A s \in Server : ~ResetState(s) /\ ~ResetExit(s) /\ ~Crash(s)
      BY <1>2 DEF ResetState, ResetExit, Crash
    <3>2. QED
      BY <2>1, <2>3, <2>4, <2>5, <3>1 DEF Next
<1>4. exiting' = {}
  <2>1. ASSUME NEW c \in Conn, HandlerStep(c) PROVE UNCHANGED exiting
    BY <2>1 DEF HandlerStep, CloseErase, Unsubscribe, SetOffline, LoginQuery,
         LoginInsert, LoginSubscribe, LoginOnline, LoginReadOffline,
         LoginRemoveOffline, LoginAck, LogoutErase, ChatFind, ChatQuery,
         ChatPublish, ChatStore, lifeVars
  <2>2. ASSUME NEW c \in Conn, ClientStep(c) PROVE UNCHANGED exiting
    BY <2>2 DEF ClientStep, Connect, ClientClose, Loginout, Login, GroupChat,
         OneChat, BeginChat, lifeVars
  <2>3. ASSUME NEW s \in Server, ObserverStep(s) \/ RedisExecute(s)
        PROVE  UNCHANGED exiting
    BY <2>3 DEF ObserverStep, ObserverFind, ObserverStore, RedisExecute, lifeVars
  <2>4. \A s \in Server : ~ResetState(s) /\ ~ResetExit(s) /\ ~Crash(s)
    BY <1>2 DEF ResetState, ResetExit, Crash
  <2>5. QED
    BY <1>2, <2>1, <2>2, <2>3, <2>4 DEF Next, vars
<1>5. QED
  BY <1>1, <1>3, <1>4 DEF AgreeInv

\* What the three places say of a user for whom no login, logout or close is
\* under way is what they say of the connection that has his account.
THEOREM SessionsDoAgree ==
  ASSUME ~Overlap, ~Relogin, ~CanReset, ~CanCrash
  PROVE  Spec => []SessionsAgree
<1>1. AgreeInv => SessionsAgree
  <2>1. SUFFICES ASSUME AgreeInv, NEW u \in User, ~Changing(u)
                 PROVE  /\ \A s \in Server : map[s][u] # None <=> u \in Subscribed(s)
                        /\ db[u] = "online" <=> \E s \in Server : map[s][u] # None
                        /\ \A s, t \in Server :
                             map[s][u] # None /\ map[t][u] # None => s = t
    BY DEF SessionsAgree, AgreeInv, AccountInv, MapInv
  <2>2. /\ HandlerInv /\ EntryInv /\ HolderInv /\ ReachInv
        /\ map \in [Server -> [User -> Conn \union {None}]]
        /\ SrvOf \in [Conn -> Server] /\ None \notin Conn
    BY <2>1, TypeFacts DEF AgreeInv, AccountInv, MapInv
  <2>3. ASSUME NEW s \in Server, map[s][u] # None
        PROVE  /\ map[s][u] \in Conn /\ SrvOf[map[s][u]] = s
               /\ Holds(map[s][u], u) /\ Subscribes(map[s][u], u)
               /\ db[u] = "online"
    <3>1. PICK c \in Conn : c = map[s][u]
      BY <2>2, <2>3
    <3>2. SrvOf[c] = s /\ h[c].pc \in Serving
      BY <2>1, <2>2, <3>1
         DEF EntryInv, EntryOk, Changing, Inserted, LoginPcs, LeavePcs
    <3>3. Holds(c, u)
      BY <3>1, <3>2 DEF Holds
    <3>4. Subscribes(c, u)
      BY <3>2, <3>3 DEF Subscribes, Serving, ChatPcs
    <3>5. db[u] = "online"
      BY <2>2, <3>2, <3>3 DEF HolderInv, Serving, ChatPcs
    <3>6. QED
      BY <3>1, <3>2, <3>3, <3>4, <3>5
  <2>4. ASSUME NEW c \in Conn, Holds(c, u) PROVE map[SrvOf[c]][u] # None
    BY <2>1, <2>2, <2>4 DEF Holds, Changing
  <2>5. ASSUME NEW s \in Server PROVE map[s][u] # None <=> u \in Subscribed(s)
    <3>1. u \in Subscribed(s) <=> \E c \in Conn : SrvOf[c] = s /\ Subscribes(c, u)
      BY <2>2 DEF ReachInv
    <3>2. map[s][u] # None => \E c \in Conn : SrvOf[c] = s /\ Subscribes(c, u)
      BY <2>3
    <3>3. \A c \in Conn : Subscribes(c, u) => map[SrvOf[c]][u] # None
      BY <2>4 DEF Subscribes
    <3>4. QED
      BY <3>1, <3>2, <3>3
  <2>6. db[u] = "online" <=> \E s \in Server : map[s][u] # None
    BY <2>2, <2>3, <2>4 DEF ReachInv, IsOnline
  <2>7. \A s, t \in Server : map[s][u] # None /\ map[t][u] # None => s = t
    BY <2>2, <2>3 DEF HolderInv
  <2>8. QED
    BY <2>5, <2>6, <2>7
<1>2. AgreeInv /\ [Next]_vars => AgreeInv'
  BY AgreeStep
<1>3. QED
  BY <1>1, <1>2, AgreeInit, PTL DEF Spec

\* For a user whom oneChat() finds online and who is not leaving, the server
\* that has his connection has given SUBSCRIBE and no UNSUBSCRIBE since: login()
\* subscribes before it marks him online.  Redis may still have to execute it.
THEOREM OnlineCanBeReached ==
  ASSUME ~Overlap, ~Relogin, ~CanReset, ~CanCrash
  PROVE  Spec => []OnlineIsReachable
<1>1. AgreeInv => OnlineIsReachable
  <2>1. SUFFICES ASSUME AgreeInv, NEW u \in User, db[u] = "online", ~Leaving(u)
                 PROVE  \E s \in Server : u \in Subscribed(s) /\ map[s][u] # None
    BY DEF OnlineIsReachable
  <2>2. /\ SessionInv /\ ReachInv /\ SrvOf \in [Conn -> Server] /\ None \notin Conn
    BY <2>1, TypeFacts DEF AgreeInv, AccountInv, MapInv
  <2>3. PICK c \in Conn : IsOnline(c, u)
    BY <2>1, <2>2 DEF ReachInv
  <2>4. h[c].pc \notin LeavePcs \/ h[c].user # u
    BY <2>1 DEF Leaving
  <2>5. map[SrvOf[c]][u] = c
    BY <2>2, <2>3, <2>4
       DEF IsOnline, Holds, SessionInv, Inserted, LoginPcs, Serving, ChatPcs
  <2>6. Subscribes(c, u)
    BY <2>3, <2>4
       DEF Subscribes, IsOnline, Holds, LoginPcs, LeavePcs, Serving, ChatPcs
  <2>7. QED
    BY <2>2, <2>5, <2>6 DEF ReachInv
<1>2. AgreeInv /\ [Next]_vars => AgreeInv'
  BY AgreeStep
<1>3. QED
  BY <1>1, <1>2, AgreeInit, PTL DEF Spec
=============================================================================
