----------------------------- MODULE ChatClient -----------------------------
(***************************************************************************)
(* The console client of the chat server: the main thread, which sends     *)
(* requests, the reading thread, which handles what comes back, and rwsem, *)
(* on which the main thread waits for the answer to a login or to a        *)
(* registration; with the two byte streams of its connection, and at the   *)
(* other end the server's handlers and the tables they work on.            *)
(*                                                                         *)
(* Neither side frames its messages: what one recv() or one read callback  *)
(* finds is taken for one JSON document.  A stream is a sequence of whole  *)
(* messages; with Coalesce a reader may find several of them at once.      *)
(* isMainMenuRunning is TRUE exactly when pc = "commands".                 *)
(***************************************************************************)
EXTENDS ChatStore

CONSTANTS None,       \* no account, no name
          MaxStream,  \* bound: requests under way
          MaxPush,    \* bound: answers and pushed messages under way
          RecvMax,    \* friends and groups in an answer of 1024 bytes
          Others,     \* accounts that others may hold in the server's map
          Coalesce,   \* one read may return more than one message
          CanFail     \* the server may go away

ASSUME ClientAssumption ==
  /\ None \notin Id \union Name \union GroupName
  /\ {MaxStream, MaxPush, RecvMax} \subseteq Nat
  /\ {Coalesce, CanFail} \subseteq BOOLEAN

VARIABLES
  pc,        \* the main thread
  rpc,       \* the reading thread: in recv(), or about to call sem_post()
  sem,       \* rwsem
  success,   \* g_isLoginSuccess
  user,      \* g_currentUser
  friends,   \* g_currentUserFriendList
  groups,    \* g_currentUserGroupList
  friendsOf, \* the account whose answer last filled friends,
  groupsOf,  \* and the one whose answer last filled groups (history)
  toServer,  \* requests sent and not yet read by the server
  toClient,  \* what the server has sent and recv() has not yet returned
  session,   \* the users for which _userConnMap holds this connection
  elsewhere, \* and, of the users not online, those for which it holds another
  tables,    \* the database, see ChatStore
  down       \* the server has closed the connection

vars == <<pc, rpc, sem, success, user, friends, groups, friendsOf, groupsOf,
          toServer, toClient, session, elsewhere, tables, down>>
mainVars == <<pc, sem, success>>
listVars == <<friends, groups, friendsOf, groupsOf>>
readerVars == <<rpc, user, listVars>>
serverVars == <<toClient, session, elsewhere, tables, down>>

Commands == {"ADD_FRIEND_MSG", "CREATE_GROUP_MSG", "ADD_GROUP_MSG", "CHAT_MSG"}

RequestType ==
  [type : {"LOGIN_MSG", "REG_MSG", "LOGINOUT_MSG"} \union Commands,
   id : Id \union {None},            \* the account it speaks for
   arg : Id \union Name \union GroupName \union {None}]

AnswerType ==
  [type : {"LOGIN_MSG_ACK", "REG_MSG_ACK", "CHAT"}, errno : 0..2,
   id : Id \union {None}, friends : Seq(Id),
   groups : Seq([id : Id, users : Seq([id : Id, role : {"creator", "normal"}])])]

TypeOK ==
  /\ pc \in {"menu", "login", "reg", "commands", "exited"}
  /\ rpc \in {"recv", "post"}
  /\ sem \in Nat
  /\ success \in BOOLEAN
  /\ user \in IF success THEN DOMAIN tables.user ELSE Id \union {None}
  /\ {friendsOf, groupsOf} \subseteq Id \union {None}
  /\ toServer \in Seq(RequestType)
  /\ toClient \in Seq(AnswerType)
  /\ session \union elsewhere \subseteq DOMAIN tables.user
  /\ tables \in TableType
  /\ down \in BOOLEAN

\* The accounts that exist when the client starts; any of them may be in use
\* by others.
StartTables ==
  UNION {{[user |-> [i \in 1..n |-> [name |-> SetToSeq(Name)[i], state |-> st[i]]],
           friend |-> <<>>, allgroup |-> <<>>, groupuser |-> <<>>] :
            st \in [Id -> {"online", "offline"}]} :
           n \in 1..Min({MaxRows, Cardinality(Name)})}

Init ==
  /\ pc = "menu"
  /\ rpc = "recv"
  /\ sem = 0
  /\ success = FALSE
  /\ user = None
  /\ friends = <<>>
  /\ groups = <<>>
  /\ friendsOf = None
  /\ groupsOf = None
  /\ toServer = <<>>
  /\ toClient = <<>>
  /\ session = {}
  /\ tables \in StartTables
  /\ elsewhere \in
       SUBSET {a \in Others \intersect DOMAIN tables.user :
                 tables.user[a].state = "offline"}
  /\ down = FALSE

-----------------------------------------------------------------------------
(* The main thread.                                                        *)

Request(type, id, arg) == [type |-> type, id |-> id, arg |-> arg]

\* send(); it returns -1 when the server has gone, which is only reported.
Send(r) ==
  /\ Len(toServer) < MaxStream
  /\ toServer' = IF down THEN toServer ELSE Append(toServer, r)

\* Choice 1: g_isLoginSuccess = false, send() and sem_wait()
Login(a) ==
  /\ pc = "menu"
  /\ success' = FALSE
  /\ Send(Request("LOGIN_MSG", a, None))
  /\ pc' = "login"
  /\ UNCHANGED <<sem, readerVars, serverVars>>

\* Choice 2
Register(name) ==
  /\ pc = "menu"
  /\ Send(Request("REG_MSG", None, name))
  /\ pc' = "reg"
  /\ UNCHANGED <<sem, success, readerVars, serverVars>>

SemWaitIgnoresResult ==
  /\ pc \in {"login", "reg"} /\ sem > 0
  /\ sem' = sem - 1
  /\ pc' = IF pc = "login" THEN "commands" ELSE "menu"
  /\ UNCHANGED <<success, readerVars, toServer, serverVars>>

\* sem_wait() returns; a successful login enters mainMenu().
SemWait ==
  /\ pc \in {"login", "reg"} /\ sem > 0
  /\ sem' = sem - 1
  /\ pc' = IF pc = "login" /\ success THEN "commands" ELSE "menu"
  /\ UNCHANGED <<success, readerVars, toServer, serverVars>>

\* chat, groupchat, addfriend, creategroup, addgroup: one request each, for
\* g_currentUser, with the id or the name that was typed, to which the server
\* sends no answer
Command(type, arg) ==
  /\ pc = "commands"
  /\ Send(Request(type, user, arg))
  /\ UNCHANGED <<mainVars, readerVars, serverVars>>

\* loginout: back to the first menu without waiting, if send() succeeds
Loginout ==
  /\ pc = "commands"
  /\ Send(Request("LOGINOUT_MSG", user, None))
  /\ pc' = IF down THEN pc ELSE "menu"
  /\ UNCHANGED <<sem, success, readerVars, serverVars>>

\* Choice 3: close() and exit()
Quit ==
  /\ pc = "menu"
  /\ pc' = "exited"
  /\ UNCHANGED <<sem, success, readerVars, toServer, serverVars>>

\* stoi() of a group's id that is no number throws, and so does js.dump() of
\* a message that is not UTF-8: nobody catches, and the process ends.
CommandThrows ==
  /\ pc = "commands"
  /\ pc' = "exited"
  /\ UNCHANGED <<sem, success, readerVars, toServer, serverVars>>

-----------------------------------------------------------------------------
(* The reading thread, readTaskHandler().                                  *)

\* How many messages one read of stream s may return.
Reads(s) == IF Coalesce THEN 1..Len(s) ELSE {n \in {1} : s # <<>>}

IsAnswerOrChat(m) == TRUE

PostsLoginOnly(m) == m.type = "LOGIN_MSG_ACK"

\* The messages whose handling ends with sem_post()
IsAnswer(m) == m.type \in {"LOGIN_MSG_ACK", "REG_MSG_ACK"}

\* friendsOf and groupsOf: m.id, where the answer holds the list
ListsAnswered(m) ==
  /\ friendsOf' = IF m.friends = <<>> THEN friendsOf ELSE m.id
  /\ groupsOf' = IF m.groups = <<>> THEN groupsOf ELSE m.id

DoLoginResponseNoClear(m) ==
  IF m.errno = 0
  THEN /\ success' = TRUE /\ user' = m.id
       /\ friends' = friends \o m.friends
       /\ groups' = groups \o m.groups
       /\ ListsAnswered(m)
  ELSE success' = FALSE /\ UNCHANGED <<user, listVars>>

\* doLoginResponse(): a list is cleared and filled if the answer holds it, and
\* the server leaves out an empty one; a refusal carries no id.
DoLoginResponse(m) ==
  IF m.errno = 0
  THEN /\ success' = TRUE /\ user' = m.id
       /\ friends' = IF m.friends = <<>> THEN friends ELSE m.friends
       /\ groups' = IF m.groups = <<>> THEN groups ELSE m.groups
       /\ ListsAnswered(m)
  ELSE success' = FALSE /\ UNCHANGED <<user, listVars>>

\* A chat message and the answer to a registration are only shown.
Handle(m) ==
  /\ rpc' = IF IsAnswer(m) THEN "post" ELSE "recv"
  /\ IF m.type = "LOGIN_MSG_ACK" THEN DoLoginResponse(m)
     ELSE UNCHANGED <<success, user, listVars>>
  /\ UNCHANGED pc

\* What does not fit in buffer is cut off: more friends and groups than
\* RecvMax do not, and what users wrote, names and messages, may not.
IsCut(m) == Len(m.friends) + Len(m.groups) > RecvMax
HasText(m) == m.type = "CHAT" \/ (m.type = "LOGIN_MSG_ACK" /\ m.errno = 0)

\* json::parse() of part of a document or of more than one throws, and nobody
\* catches.
Terminate == pc' = "exited" /\ UNCHANGED <<success, readerVars>>

Recv ==
  /\ pc # "exited" /\ rpc = "recv"
  /\ \E n \in Reads(toClient) :
       /\ toClient' = SubSeq(toClient, n + 1, Len(toClient))
       /\ \/ n = 1 /\ ~IsCut(Head(toClient)) /\ Handle(Head(toClient))
          \/ /\ n > 1 \/ IsCut(Head(toClient)) \/ HasText(Head(toClient))
             /\ Terminate
  /\ UNCHANGED <<sem, toServer, session, elsewhere, tables, down>>

\* recv() returns 0 or -1: exit(-1)
RecvEnd ==
  /\ pc # "exited" /\ rpc = "recv" /\ down /\ toClient = <<>>
  /\ pc' = "exited"
  /\ UNCHANGED <<sem, success, readerVars, toServer, serverVars>>

SemPost ==
  /\ pc # "exited" /\ rpc = "post"
  /\ sem' = sem + 1
  /\ rpc' = "recv"
  /\ UNCHANGED <<pc, success, user, listVars, toServer, serverVars>>

-----------------------------------------------------------------------------
(* The server: what the handlers do to this connection and to the tables.  *)
(* A request is one step here; ChatService.tla takes the steps of login(), *)
(* loginout() and the chat handlers apart.                                 *)

Answer(type, errno, id) ==
  [type |-> type, errno |-> errno, id |-> id, friends |-> <<>>,
   groups |-> <<>>]

\* What a handler may leave: tables, users of this connection and of others,
\* and answers
Handled(t, users, others, answers) ==
  [tables |-> t, session |-> users, elsewhere |-> others, answers |-> answers]

Refusal(errno) ==
  Handled(tables, session, elsewhere, <<Answer("LOGIN_MSG_ACK", errno, None)>>)

LoginAnswer(a, fs, gs) ==
  [Answer("LOGIN_MSG_ACK", 0, a) EXCEPT !.friends = fs, !.groups = gs]

\* The answer holds the lists that the two queries return.
LoginAnswers(a) ==
  UNION {{LoginAnswer(a, fs, gs) : gs \in QueryGroups(tables, a)} :
           fs \in Query(Friends(tables, a))}

\* login() of a user who is not online: insert(), which does nothing where the
\* map has the user already, updateState() and the answer
Accepted(a) ==
  UNION {{Handled(o.tables, session \union ({a} \ elsewhere), elsewhere, <<m>>) :
            m \in LoginAnswers(a)} :
           o \in UpdateState(tables, a, "online")}

\* The password may be wrong; UserModel::query() may fail, which looks the same.
LoginOutcomes(a) ==
  {Refusal(1)} \union
    (CASE a \notin DOMAIN tables.user        -> {}
       [] tables.user[a].state = "online"    -> {Refusal(2)}
       [] OTHER                              -> Accepted(a))

\* reg(): the new id, or errno 1 when insert() fails
RegOutcomes(name) ==
  {Handled(o.tables, session, elsewhere,
           <<IF o.id = 0 THEN Answer("REG_MSG_ACK", 1, None)
             ELSE Answer("REG_MSG_ACK", 0, o.id)>>) :
     o \in UserInsert(tables, name)}

\* loginout() erases the entry, whichever connection it holds.
LoginoutOutcomes(a) ==
  {Handled(o.tables, session \ {a}, elsewhere \ {a}, <<>>) :
     o \in UpdateState(tables, a, "offline")}

Silent(outcomes) ==
  {Handled(o.tables, session, elsewhere, <<>>) : o \in outcomes}

\* creatGroup(): two statements; the second only if the first returned true
CreatGroup(a, name) ==
  Silent(UNION {IF o.id = 0 THEN {o}
                ELSE AddGroup(o.tables, a, o.id, "creator") :
                  o \in CreateGroup(tables, name)})

\* getHandler() is the choice between the handlers; oneChat() and groupChat()
\* do nothing to this connection.
Outcomes(r) ==
  CASE r.type = "LOGIN_MSG"        -> LoginOutcomes(r.id)
    [] r.type = "REG_MSG"          -> RegOutcomes(r.arg)
    [] r.type = "LOGINOUT_MSG"     -> LoginoutOutcomes(r.id)
    [] r.type = "ADD_FRIEND_MSG"   -> Silent(FriendInsert(tables, r.id, r.arg))
    [] r.type = "CREATE_GROUP_MSG" -> CreatGroup(r.id, r.arg)
    [] r.type = "ADD_GROUP_MSG"    ->
         Silent(AddGroup(tables, r.id, r.arg, "normal"))
    [] r.type = "CHAT_MSG"         -> {Handled(tables, session, elsewhere, <<>>)}

\* onMessage(): everything that has arrived is taken out of the buffer, and
\* json::parse() stops at the NUL that ends the first request: the requests
\* behind it are lost.
OnMessage ==
  /\ ~down
  /\ \E n \in Reads(toServer) :
       toServer' = SubSeq(toServer, n + 1, Len(toServer))
  /\ \E o \in Outcomes(Head(toServer)) :
       /\ session' = o.session
       /\ elsewhere' = o.elsewhere
       /\ tables' = o.tables
       /\ toClient' = toClient \o o.answers
  /\ UNCHANGED <<mainVars, readerVars, down>>

\* A message from another user to the one who is logged in here
Push ==
  /\ ~down /\ session # {} /\ Len(toClient) < MaxPush
  /\ toClient' = Append(toClient, Answer("CHAT", 0, None))
  /\ UNCHANGED <<mainVars, readerVars, toServer, session, elsewhere, tables, down>>

ServerGoes ==
  /\ CanFail /\ ~down
  /\ down' = TRUE
  /\ toServer' = <<>>
  /\ UNCHANGED <<mainVars, readerVars, toClient, session, elsewhere, tables>>

-----------------------------------------------------------------------------
ReaderStep == Recv \/ RecvEnd \/ SemPost

Next ==
  \/ \E a \in Id : Login(a)
  \/ \E n \in Name : Register(n)
  \/ \E n \in GroupName : Command("CREATE_GROUP_MSG", n)
  \/ \E i \in Id, t \in {"ADD_FRIEND_MSG", "ADD_GROUP_MSG"} : Command(t, i)
  \/ Command("CHAT_MSG", None)
  \/ CommandThrows
  \/ SemWait \/ Loginout \/ Quit
  \/ ReaderStep
  \/ OnMessage \/ Push \/ ServerGoes

Spec == Init /\ [][Next]_vars

\* The reading thread and the server run, and a posted semaphore lets the
\* main thread go on; the user need not do anything.
Fairness == WF_vars(ReaderStep) /\ WF_vars(SemWait) /\ WF_vars(OnMessage)

FairSpec == Spec /\ Fairness

-----------------------------------------------------------------------------
(* Properties.                                                             *)

Waiting == pc \in {"login", "reg"}

\* The messages of one type in a stream
Count(s, type) == Cardinality({i \in DOMAIN s : s[i].type = type})

\* The requests and answers that still have to reach the main thread
Outstanding(request, ack) == Count(toServer, request) + Count(toClient, ack)

\* The semaphore pairs every wait of the main thread with the answer to its
\* own request: there is exactly one request, answer or post under way while
\* it waits, of the kind it waits for, and none while it does not (main(),
\* readTaskHandler()).  An extra one would let a later login go on before
\* its answer, with the result of an earlier one.
OneOutstanding ==
  LET logins == Outstanding("LOGIN_MSG", "LOGIN_MSG_ACK")
      regs   == Outstanding("REG_MSG", "REG_MSG_ACK")
      posts  == sem + (IF rpc = "post" THEN 1 ELSE 0)
  IN  pc # "exited" =>
        /\ logins + regs + posts <= (IF Waiting THEN 1 ELSE 0)
        /\ Waiting /\ ~down => logins + regs + posts = 1
        /\ logins > 0 => pc = "login"
        /\ regs > 0 => pc = "reg"

\* What the client shows is what the server has: in mainMenu() the connection
\* is in the map for g_currentUser and for nobody else (for nobody at all where
\* insert() found another connection there, chatservice.cpp:90), and in the
\* first menu, once the server has read all requests, for nobody.
MenuMatchesSession ==
  ~down => /\ pc = "commands" => session = {user} \ elsewhere
           /\ pc = "menu" /\ toServer = <<>> => session = {}

\* How often x is in a list, and that no member of one list is there more often
\* than in another
Occurrences(list, x) == Cardinality({i \in DOMAIN list : list[i] = x})
Within(list, other) ==
  \A x \in ToSet(list) : Occurrences(list, x) <= Occurrences(other, x)

\* Each list holds what the database has for the account whose answer filled it
\* last, no row twice and none of another account: doLoginResponse() clears a
\* list before it fills it, so that a login after a loginout does not pull the
\* information twice, as its comment says.  It replaces each list only when the
\* answer holds it, so the two may be of different accounts, and neither need
\* be that of g_currentUser.
EachListOfItsAccount ==
  /\ friends # <<>> =>
       friendsOf \in DOMAIN tables.user /\ Within(friends, Friends(tables, friendsOf))
  /\ groups # <<>> =>
       groupsOf \in DOMAIN tables.user
       /\ Within(Column(groups, "id"), GroupsOf(tables, groupsOf))

\* Every creator's row in groupuser is that of the one user whose createGroup()
\* made the group, also when either statement of creatGroup() fails: the group
\* exists and has no second creator.
OneCreator ==
  LET creators == {i \in DOMAIN tables.groupuser :
                     tables.groupuser[i].role = "creator"}
  IN  \A i \in creators :
        /\ tables.groupuser[i].groupid \in DOMAIN tables.allgroup
        /\ \A j \in creators :
             tables.groupuser[j].groupid = tables.groupuser[i].groupid => j = i

\* What the statements leave in the tables is consistent, and each list that
\* doLoginResponse() filled is one account's; no variable leaves its type.
StoreIsShown == TypeOK /\ OneCreator /\ EachListOfItsAccount

\* A main thread that waits for an answer goes on, or the process ends:
\* client/main.cpp says that the reading thread "notifies here" once it has
\* handled the answer.
AnswerComes == Waiting ~> ~Waiting
=============================================================================
