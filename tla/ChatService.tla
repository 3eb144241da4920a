---------------------------- MODULE ChatService -----------------------------
(***************************************************************************)
(* The cluster chat server: ChatServer processes behind a load balancer,   *)
(* each with its ChatService (_userConnMap and its mutex), its io threads  *)
(* and the thread that reads its redis subscriptions; one MySQL database   *)
(* and one redis server shared by all.                                     *)
(*                                                                         *)
(* A handler runs on the io thread of its connection, one at a time per    *)
(* connection; every access to the map, every SQL statement and every      *)
(* redis command is a step of its own, so handlers of other connections,   *)
(* of this server and of others, come in between.  MySQL and redis are     *)
(* external: a statement or a PUBLISH takes effect in one step; SUBSCRIBE  *)
(* and UNSUBSCRIBE are only written to a socket, and redis executes them   *)
(* when it gets to them.  Messages carry an identity only.                 *)
(***************************************************************************)
EXTENDS Naturals, Sequences, SequencesExt

CONSTANTS Server,     \* ChatServer processes
          Conn,       \* client connections
          SrvOf,      \* the server each connection was balanced to
          User,       \* registered accounts
          Member,     \* the members of the chat group
          Msg,        \* identities of messages, each sent at most once
          None,       \* no connection, no user
          MaxLogins,  \* bound: login requests of each connection
          MaxExits,   \* bound: times that servers end and are started again
          LateRedis,  \* redis may take its time over (UN)SUBSCRIBE commands
          Overlap,    \* two clients may log in to one account at the same time
          Relogin,    \* a client may log in again although its logout was not
                      \* handled: onMessage() drops requests read together
          CanReset,   \* a server may be interrupted (SIGINT: reset and exit)
          CanCrash    \* a server may die in any other way

ASSUME ChatAssumption ==
  /\ SrvOf \in [Conn -> Server]
  /\ Member \subseteq User
  /\ None \notin Conn \union User
  /\ MaxLogins \in [Conn -> Nat] /\ MaxExits \in Nat
  /\ {LateRedis, Overlap, Relogin, CanReset, CanCrash} \subseteq BOOLEAN

VARIABLES
  map,      \* _userConnMap of each server
  subs,     \* the channels each server has subscribed to in redis
  cmds,     \* commands on each server's way to redis
  chan,     \* what redis has sent to each server's subscribe context
  obs,      \* the observer thread: <<>>, or the message it is storing while
            \* it holds _connMutex
  db,       \* column state of table user
  offline,  \* table offlinemessage: the messages of each user, in order
  h,        \* the handler running for each connection, see HandlerType
  open,     \* the client's end of the connection is open
  acct,     \* the account the client is using (history)
  acked,    \* connections whose login was answered with errno 0 (history)
  names,    \* the accounts login() has entered for a connection and loginout()
            \* has not erased (history)
  logins,   \* login requests of each connection
  used,     \* messages already sent by some client
  exiting,  \* servers interrupted by SIGINT that have reset the rows
  exits,    \* how often a server was interrupted or has died
  handed    \* how often copy <<m, u>> was handed to a connection (history)

vars == <<map, subs, cmds, chan, obs, db, offline, h, open, acct, acked, names,
          logins, used, exiting, exits, handed>>
redisVars == <<subs, cmds, chan>>
histVars == <<logins, names, used>>
msgVars == <<used, handed>>
lifeVars == <<exiting, exits>>
clientVars == <<open, acct, acked, names, logins>>

Copy == Msg \X User

LoginPcs == {"l_query", "l_insert", "l_subscribe", "l_online", "l_read",
             "l_remove", "l_ack"}
LeavePcs == {"o_erase", "o_unsubscribe", "o_offline",
             "d_unsubscribe", "d_offline"}
ChatPcs == {"c_find", "c_query", "c_publish", "c_store"}

HandlerType ==
  [pc : {"new", "idle", "closed"} \union LoginPcs \union LeavePcs
          \union ChatPcs,
   user : User \union {None},     \* whom the handler is about
   to : SUBSET User,              \* recipients left
   msg : Msg \union {None},
   locked : BOOLEAN,              \* the map is searched under the mutex
   vec : Seq(Msg)]                \* offline messages that login() has read

TypeOK ==
  /\ map \in [Server -> [User -> Conn \union {None}]]
  /\ subs \in [Server -> SUBSET User]
  /\ cmds \in [Server -> Seq([sub : BOOLEAN, user : User])]
  /\ chan \in [Server -> Seq(Copy)]
  /\ obs \in [Server -> Seq(Copy)]
  /\ db \in [User -> {"online", "offline"}]
  /\ offline \in [User -> Seq(Msg)]
  /\ h \in [Conn -> HandlerType]
  /\ open \in [Conn -> BOOLEAN]
  /\ acct \in [Conn -> User \union {None}]
  /\ acked \in SUBSET Conn
  /\ names \in [Conn -> SUBSET User]
  /\ logins \in [Conn -> Nat]
  /\ used \in SUBSET Msg
  /\ exiting \in SUBSET Server
  /\ exits \in Nat
  /\ handed \in [Copy -> Nat]

Handler(pc) ==
  [pc |-> pc, user |-> None, to |-> {}, msg |-> None, locked |-> FALSE,
   vec |-> <<>>]

EmptyMap == [u \in User |-> None]

Init ==
  /\ map = [s \in Server |-> EmptyMap]
  /\ subs = [s \in Server |-> {}]
  /\ cmds = [s \in Server |-> <<>>]
  /\ chan = [s \in Server |-> <<>>]
  /\ obs = [s \in Server |-> <<>>]
  /\ db = [u \in User |-> "offline"]
  /\ offline = [u \in User |-> <<>>]
  /\ h = [c \in Conn |-> Handler("new")]
  /\ open = [c \in Conn |-> FALSE]
  /\ acct = [c \in Conn |-> None]
  /\ acked = {}
  /\ names = [c \in Conn |-> {}]
  /\ logins = [c \in Conn |-> 0]
  /\ used = {}
  /\ exiting = {}
  /\ exits = 0
  /\ handed = [p \in Copy |-> 0]

-----------------------------------------------------------------------------
(* Parts of the handlers.                                                  *)

At(c, pc) == h[c].pc = pc
Go(c, pc) == h' = [h EXCEPT ![c].pc = pc]
Finish(c) == h' = [h EXCEPT ![c] = Handler("idle")]
Ready(c) == At(c, "idle") /\ open[c]

\* _connMutex of server s can be taken.
Unlocked(s) == obs[s] = <<>>

\* unordered_map::insert() leaves an existing entry alone.
MapInsert(s, u, c) ==
  map' = [map EXCEPT ![s][u] = IF @ = None THEN c ELSE @]

MapEraseNothing(s, u) == UNCHANGED map

MapErase(s, u) == map' = [map EXCEPT ![s][u] = None]

StoreOffline(u, m) ==
  offline' = [offline EXCEPT ![u] = Append(@, m)]

\* What redis does on SUBSCRIBE and UNSUBSCRIBE.
Execute(subscribed, k) ==
  IF k.sub THEN subscribed \union {k.user} ELSE subscribed \ {k.user}

\* redisAppendCommand() and redisBufferWrite(): the reply is not awaited.
Command(s, k) ==
  \/ LateRedis /\ cmds' = [cmds EXCEPT ![s] = Append(@, k)] /\ UNCHANGED subs
  \/ ~LateRedis /\ subs' = [subs EXCEPT ![s] = Execute(@, k)] /\ UNCHANGED cmds

\* PUBLISH reaches every server subscribed to the channel; with none, redis
\* drops the message.
Publish(u, m) ==
  chan' = [s \in Server |-> IF u \in subs[s] THEN Append(chan[s], <<m, u>>)
                            ELSE chan[s]]

-----------------------------------------------------------------------------
(* Connections.                                                            *)

Connect(c) ==
  /\ At(c, "new")
  /\ Finish(c)
  /\ open' = [open EXCEPT ![c] = TRUE]
  /\ UNCHANGED <<map, redisVars, obs, db, offline, acct, acked, histVars,
                 handed, lifeVars>>

\* The client quits or dies; its io thread finds out when it is idle.
ClientClose(c) ==
  /\ open[c]
  /\ open' = [open EXCEPT ![c] = FALSE]
  /\ acct' = [acct EXCEPT ![c] = None]
  /\ acked' = acked \ {c}
  /\ UNCHANGED <<map, redisVars, obs, db, offline, h, histVars, handed, lifeVars>>

\* clientCloseException(): erase the connection's entry; when there is none
\* only channel -1 is unsubscribed, to which nobody subscribes.
CloseErase(c) ==
  /\ At(c, "idle") /\ ~open[c] /\ Unlocked(SrvOf[c])
  /\ \/ \E u \in User :
          /\ map[SrvOf[c]][u] = c
          /\ MapErase(SrvOf[c], u)
          /\ h' = [h EXCEPT ![c] = [Handler("d_unsubscribe") EXCEPT !.user = u]]
     \/ /\ \A u \in User : map[SrvOf[c]][u] # c
        /\ h' = [h EXCEPT ![c] = Handler("closed")]
        /\ UNCHANGED map
  /\ UNCHANGED <<redisVars, obs, db, offline, clientVars, msgVars, lifeVars>>

\* unsubscribe() of clientCloseException() and of loginout()
Unsubscribe(c) ==
  /\ h[c].pc \in {"o_unsubscribe", "d_unsubscribe"}
  /\ Command(SrvOf[c], [sub |-> FALSE, user |-> h[c].user])
  /\ Go(c, IF At(c, "o_unsubscribe") THEN "o_offline" ELSE "d_offline")
  /\ UNCHANGED <<map, chan, obs, db, offline, clientVars, msgVars, lifeVars>>

\* updateState(offline) of both
SetOffline(c) ==
  /\ h[c].pc \in {"o_offline", "d_offline"}
  /\ db' = [db EXCEPT ![h[c].user] = "offline"]
  /\ h' = [h EXCEPT ![c] =
             Handler(IF At(c, "o_offline") THEN "idle" ELSE "closed")]
  /\ UNCHANGED <<map, redisVars, obs, offline, clientVars, msgVars, lifeVars>>

-----------------------------------------------------------------------------
(* login()                                                                 *)

LoggingIn(u) == \E c \in Conn : h[c].pc \in LoginPcs /\ h[c].user = u

\* login() itself does not ask whether its connection has an account already.
Login(c, u) ==
  /\ Ready(c) /\ (acct[c] = None \/ Relogin)
  /\ logins[c] < MaxLogins[c]
  /\ Overlap \/ ~LoggingIn(u)
  /\ h' = [h EXCEPT ![c] = [Handler("l_query") EXCEPT !.user = u]]
  /\ acct' = [acct EXCEPT ![c] = u]
  /\ acked' = acked \ {c}
  /\ logins' = [logins EXCEPT ![c] = @ + 1]
  /\ UNCHANGED <<map, redisVars, obs, db, offline, open, names, msgVars, lifeVars>>

\* Refused with errno 2 when the row says online ("this account is using"),
\* with errno 1 when the id or the password is wrong.
LoginQuery(c) ==
  /\ At(c, "l_query")
  /\ \/ db[h[c].user] = "offline" /\ Go(c, "l_insert") /\ UNCHANGED acct
     \/ Finish(c) /\ acct' = [acct EXCEPT ![c] = None]
  /\ UNCHANGED <<map, redisVars, obs, db, offline, open, acked, histVars,
                 handed, lifeVars>>

LoginInsertThenOnline(c) ==
  /\ At(c, "l_insert")
  /\ MapInsert(SrvOf[c], h[c].user, c)
  /\ Go(c, "l_online")
  /\ names' = [names EXCEPT ![c] = @ \union {h[c].user}]
  /\ UNCHANGED <<redisVars, obs, db, offline, open, acct, acked, logins, msgVars,
                 lifeVars>>

\* unique_lock<mutex>(_connMutex); declares a variable: no lock is taken.
LoginInsert(c) ==
  /\ At(c, "l_insert")
  /\ MapInsert(SrvOf[c], h[c].user, c)
  /\ Go(c, "l_subscribe")
  /\ names' = [names EXCEPT ![c] = @ \union {h[c].user}]
  /\ UNCHANGED <<redisVars, obs, db, offline, open, acct, acked, logins, msgVars,
                 lifeVars>>

LoginSubscribe(c) ==
  /\ At(c, "l_subscribe")
  /\ Command(SrvOf[c], [sub |-> TRUE, user |-> h[c].user])
  /\ Go(c, "l_online")
  /\ UNCHANGED <<map, chan, obs, db, offline, clientVars, msgVars, lifeVars>>

LoginOnline(c) ==
  /\ At(c, "l_online")
  /\ db' = [db EXCEPT ![h[c].user] = "online"]
  /\ Go(c, "l_read")
  /\ UNCHANGED <<map, redisVars, obs, offline, clientVars, msgVars, lifeVars>>

AfterReadAck(vec) == "l_ack"

AfterRead(vec) == IF vec = <<>> THEN "l_ack" ELSE "l_remove"

\* _offlineMsgModel.query(id); remove(id) follows only if there was something
LoginReadOffline(c) ==
  /\ At(c, "l_read")
  /\ LET vec == offline[h[c].user]
     IN  h' = [h EXCEPT ![c].vec = vec, ![c].pc = AfterRead(vec)]
  /\ UNCHANGED <<map, redisVars, obs, db, offline, clientVars, msgVars, lifeVars>>

\* delete from offlinemessage where userid = id
LoginRemoveOffline(c) ==
  /\ At(c, "l_remove")
  /\ offline' = [offline EXCEPT ![h[c].user] = <<>>]
  /\ Go(c, "l_ack")
  /\ UNCHANGED <<map, redisVars, obs, db, clientVars, msgVars, lifeVars>>

\* conn->send(response), with the offline messages in it
LoginAck(c) ==
  /\ At(c, "l_ack")
  /\ acked' = IF open[c] THEN acked \union {c} ELSE acked
  /\ handed' = [p \in Copy |->
                  IF p[2] = h[c].user /\ p[1] \in Range(h[c].vec)
                  THEN handed[p] + 1 ELSE handed[p]]
  /\ Finish(c)
  /\ UNCHANGED <<map, redisVars, obs, db, offline, open, acct, histVars, lifeVars>>

-----------------------------------------------------------------------------
(* loginout()                                                              *)

Loginout(c) ==
  /\ Ready(c) /\ c \in acked
  /\ h' = [h EXCEPT ![c] = [Handler("o_erase") EXCEPT !.user = acct[c]]]
  /\ acct' = [acct EXCEPT ![c] = None]
  /\ acked' = acked \ {c}
  /\ UNCHANGED <<map, redisVars, obs, db, offline, open, histVars, handed, lifeVars>>

LogoutEraseThenOffline(c) ==
  /\ At(c, "o_erase") /\ Unlocked(SrvOf[c])
  /\ MapErase(SrvOf[c], h[c].user)
  /\ Go(c, "o_offline")
  /\ names' = [names EXCEPT ![c] = @ \ {h[c].user}]
  /\ UNCHANGED <<redisVars, obs, db, offline, open, acct, acked, logins, msgVars,
                 lifeVars>>

LogoutSkipsErase(c) ==
  /\ At(c, "o_erase") /\ Unlocked(SrvOf[c])
  /\ Go(c, "o_unsubscribe")
  /\ names' = [names EXCEPT ![c] = @ \ {h[c].user}]
  /\ UNCHANGED <<map, redisVars, obs, db, offline, open, acct, acked, logins, msgVars,
                 lifeVars>>

LogoutErase(c) ==
  /\ At(c, "o_erase") /\ Unlocked(SrvOf[c])
  /\ MapErase(SrvOf[c], h[c].user)
  /\ Go(c, "o_unsubscribe")
  /\ names' = [names EXCEPT ![c] = @ \ {h[c].user}]
  /\ UNCHANGED <<redisVars, obs, db, offline, open, acct, acked, logins, msgVars,
                 lifeVars>>

-----------------------------------------------------------------------------
(* oneChat() and groupChat(): the same steps for each recipient; groupChat *)
(* takes no lock (the declaration of line 327).                            *)

BeginChat(c, m, to, locked) ==
  /\ Ready(c) /\ c \in acked /\ m \notin used /\ to # {}
  /\ h' = [h EXCEPT ![c] = [Handler("c_find") EXCEPT
                              !.msg = m, !.to = to, !.locked = locked]]
  /\ used' = used \union {m}
  /\ UNCHANGED <<map, redisVars, obs, db, offline, clientVars, handed, lifeVars>>

OneChat(c, m, u) == BeginChat(c, m, {u}, TRUE)

\* Everybody in the group but the sender
QueryGroupUsers(u) == Member \ {u}

GroupChat(c, m) == BeginChat(c, m, QueryGroupUsers(acct[c]), FALSE)

\* The recipient is served: on to the next one, or done.
Served(c, u) ==
  h' = [h EXCEPT ![c] =
          IF h[c].to = {u} THEN Handler("idle")
          ELSE [h[c] EXCEPT !.to = @ \ {u}, !.pc = "c_find", !.user = None]]

\* find() in _userConnMap, and send() on the connection that was found
ChatFind(c, u) ==
  /\ At(c, "c_find") /\ u \in h[c].to
  /\ h[c].locked => Unlocked(SrvOf[c])
  /\ \/ /\ map[SrvOf[c]][u] # None
        /\ handed' = [handed EXCEPT ![<<h[c].msg, u>>] = @ + 1]
        /\ Served(c, u)
     \/ /\ map[SrvOf[c]][u] = None
        /\ h' = [h EXCEPT ![c].pc = "c_query", ![c].user = u]
        /\ UNCHANGED handed
  /\ UNCHANGED <<map, redisVars, obs, db, offline, clientVars, used, lifeVars>>

ChatQuery(c) ==
  /\ At(c, "c_query")
  /\ Go(c, IF db[h[c].user] = "online" THEN "c_publish" ELSE "c_store")
  /\ UNCHANGED <<map, redisVars, obs, db, offline, clientVars, msgVars, lifeVars>>

ChatPublish(c) ==
  /\ At(c, "c_publish")
  /\ Publish(h[c].user, h[c].msg)
  /\ Served(c, h[c].user)
  /\ UNCHANGED <<map, subs, cmds, obs, db, offline, clientVars, msgVars, lifeVars>>

ChatStore(c) ==
  /\ At(c, "c_store")
  /\ StoreOffline(h[c].user, h[c].msg)
  /\ Served(c, h[c].user)
  /\ UNCHANGED <<map, redisVars, obs, db, clientVars, used, handed, lifeVars>>

-----------------------------------------------------------------------------
(* Redis executes the oldest command of server s.                          *)

RedisExecute(s) ==
  /\ cmds[s] # <<>>
  /\ subs' = [subs EXCEPT ![s] = Execute(@, Head(cmds[s]))]
  /\ cmds' = [cmds EXCEPT ![s] = Tail(@)]
  /\ UNCHANGED <<map, chan, obs, db, offline, h, clientVars, msgVars, lifeVars>>

-----------------------------------------------------------------------------
(* handlerRedisSubscribeMessage(), on the observer thread of server s.     *)

ObserverFind(s) ==
  /\ obs[s] = <<>> /\ chan[s] # <<>>
  /\ chan' = [chan EXCEPT ![s] = Tail(@)]
  /\ LET p == Head(chan[s])
     IN \/ /\ map[s][p[2]] # None
           /\ handed' = [handed EXCEPT ![p] = @ + 1]
           /\ UNCHANGED obs
        \/ /\ map[s][p[2]] = None
           /\ obs' = [obs EXCEPT ![s] = <<p>>]
           /\ UNCHANGED handed
  /\ UNCHANGED <<map, subs, cmds, db, offline, h, clientVars, used, lifeVars>>

\* The message is stored before the mutex is released.
ObserverStore(s) ==
  /\ obs[s] # <<>>
  /\ StoreOffline(Head(obs[s])[2], Head(obs[s])[1])
  /\ obs' = [obs EXCEPT ![s] = <<>>]
  /\ UNCHANGED <<map, redisVars, db, h, clientVars, used, handed, lifeVars>>

-----------------------------------------------------------------------------
(* The end of a server.  Its connections and its redis contexts close.     *)

Exit(s) ==
  /\ \E c \in Conn : SrvOf[c] = s /\ ~At(c, "new")
  /\ map' = [map EXCEPT ![s] = EmptyMap]
  /\ subs' = [subs EXCEPT ![s] = {}]
  /\ cmds' = [cmds EXCEPT ![s] = <<>>]
  /\ chan' = [chan EXCEPT ![s] = <<>>]
  /\ obs' = [obs EXCEPT ![s] = <<>>]
  /\ LET gone(c) == SrvOf[c] = s /\ ~At(c, "new")
     IN /\ h' = [c \in Conn |-> IF gone(c) THEN Handler("closed") ELSE h[c]]
        /\ open' = [c \in Conn |-> open[c] /\ ~gone(c)]
        /\ acct' = [c \in Conn |-> IF gone(c) THEN None ELSE acct[c]]
        /\ acked' = {c \in acked : ~gone(c)}
  /\ exiting' = exiting \ {s}
  /\ UNCHANGED <<db, offline, histVars, handed>>

\* resetHandler() calls resetState(): update user set state = 'offline' where
\* state = 'online', whosever sessions these are.
ResetState(s) ==
  /\ CanReset /\ s \notin exiting /\ exits < MaxExits
  /\ \E c \in Conn : SrvOf[c] = s /\ ~At(c, "new")
  /\ db' = [u \in User |-> "offline"]
  /\ exiting' = exiting \union {s} /\ exits' = exits + 1
  /\ UNCHANGED <<map, redisVars, obs, offline, h, clientVars, msgVars>>

\* ... and exit(0).  The server's other threads may take steps in between.
ResetExit(s) == s \in exiting /\ Exit(s) /\ UNCHANGED exits

Crash(s) ==
  /\ CanCrash /\ exits < MaxExits
  /\ Exit(s)
  /\ exits' = exits + 1

-----------------------------------------------------------------------------
\* The steps an io thread takes by itself once a handler has begun.
HandlerStep(c) ==
  \/ CloseErase(c) \/ Unsubscribe(c) \/ SetOffline(c)
  \/ LoginQuery(c) \/ LoginInsert(c) \/ LoginSubscribe(c) \/ LoginOnline(c)
  \/ LoginReadOffline(c) \/ LoginRemoveOffline(c) \/ LoginAck(c)
  \/ LogoutErase(c)
  \/ (\E u \in User : ChatFind(c, u))
  \/ ChatQuery(c) \/ ChatPublish(c) \/ ChatStore(c)

ObserverStep(s) == ObserverFind(s) \/ ObserverStore(s)

ClientStep(c) ==
  \/ Connect(c) \/ ClientClose(c) \/ Loginout(c)
  \/ \E u \in User : Login(c, u)
  \/ \E m \in Msg : GroupChat(c, m) \/ \E u \in User : OneChat(c, m, u)

Next ==
  \/ \E c \in Conn : HandlerStep(c) \/ ClientStep(c)
  \/ \E s \in Server :
       \/ ObserverStep(s) \/ RedisExecute(s)
       \/ ResetState(s) \/ ResetExit(s) \/ Crash(s)

Spec == Init /\ [][Next]_vars

\* Every io thread and every observer thread keeps running, the database and
\* redis answer, and resetHandler() ends.  Clients need not do anything.
Fairness ==
  /\ \A c \in Conn : WF_vars(HandlerStep(c))
  /\ \A s \in Server : /\ WF_vars(ObserverStep(s)) /\ WF_vars(RedisExecute(s))
                       /\ WF_vars(ResetExit(s))

FairSpec == Spec /\ Fairness

-----------------------------------------------------------------------------
(* Properties.                                                             *)

\* A login, logout or close that concerns u is between two of its steps.
Changing(u) ==
  \E c \in Conn : h[c].user = u /\ h[c].pc \in LoginPcs \union LeavePcs

Leaving(u) == \E c \in Conn : h[c].user = u /\ h[c].pc \in LeavePcs

\* An account is used by one client at a time, over all servers: login() says
\* of an account whose row is online that "this user is already logged in and
\* cannot log in again" (chatservice.cpp:80).  The code does not keep this: two
\* logins may both read the row before either of them sets it.
OneSession ==
  \A c, d \in acked : acct[c] = acct[d] => c = d

\* The subscriptions of server s once redis has executed its commands: for each
\* user the last command about him counts.
Subscribed(s) ==
  {u \in User :
     LET about == {i \in DOMAIN cmds[s] : cmds[s][i].user = u}
     IN  IF about = {} THEN u \in subs[s]
         ELSE \E i \in about : cmds[s][i].sub /\ \A j \in about : j <= i}

\* The map, the subscriptions and the state column, changed by separate steps
\* of login(), loginout() and clientCloseException() on several servers,
\* agree on each user whenever none of these is under way for him; no variable
\* leaves its type.
SessionsAgree ==
  /\ TypeOK
  /\ \A u \in User : ~Changing(u) =>
       /\ \A s \in Server : map[s][u] # None <=> u \in Subscribed(s)
       /\ db[u] = "online" <=> \E s \in Server : map[s][u] # None
       /\ \A s, t \in Server : map[s][u] # None /\ map[t][u] # None => s = t

\* What oneChat() relies on when it reads "online" and publishes: unless the
\* user is leaving, a server that has his connection has given SUBSCRIBE for
\* him and no UNSUBSCRIBE since, also while his login() is not finished.  With
\* a late redis the command may still be on its way, and a PUBLISH be missed.
OnlineIsReachable ==
  \A u \in User : db[u] = "online" /\ ~Leaving(u) =>
    \E s \in Server : u \in Subscribed(s) /\ map[s][u] # None

\* No copy of a message is handed to a client twice, although it may go
\* through redis, the observer thread and the offline table on its way.
AtMostOnce == \A p \in Copy : handed[p] <= 1

\* A server's map holds only connections of its own, each under accounts that
\* login() has entered for it and loginout() has not erased; an entry outlives
\* its connection only when the connection had a second account as it closed,
\* for clientCloseException() stops at the first entry it finds.  This holds
\* with overlapping and repeated logins and with servers interrupted or killed
\* at any step.
MapHoldsLiveOnce ==
  \A s \in Server, u \in User :
    LET c == map[s][u] IN
      c # None =>
        /\ SrvOf[c] = s /\ u \in names[c] /\ ~At(c, "new")
        /\ At(c, "closed") => \E v \in names[c] \ {u} : map[s][v] # c

\* A client that is gone does not leave its connection in the map, unless it
\* has logged in to a second account without its logout being handled: the
\* map's pointer is dropped, and the account can be used again.
GoneIsForgotten ==
  \A c \in Conn : (~open[c] /\ ~At(c, "new"))
    ~> (/\ At(c, "closed")
        /\ \A u \in User : map[SrvOf[c]][u] = c => names[c] # {u})
=============================================================================
