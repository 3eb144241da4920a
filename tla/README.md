# TLA+ models of MyMuduo and the cluster chat server

The repository holds two programs of its own:

* **MyMuduo** (`src/project/MyMuduo`), a C++11 reactor library after muduo: one
  event loop per thread, a TCP server whose connections are spread over loops;
* **the cluster chat server** (`src/project/CHAT`), several server processes
  behind a load balancer that share one MySQL database and pass messages for
  each other's users through redis, and a console client.

The chat programs bring along the header-only JSON library they speak with
(`CHAT/thirdparty/json.hpp`, nlohmann json 3.6.1), by far the largest file of the
repository; its sequential algorithms are modelled too.

The two programs are hard for the same reason: objects whose life and state are changed by
several threads (or processes), in steps that are individually right. This
directory models those steps, model-checks them on small instances with TLC and
proves the parts that everything else rests on with TLAPS.

Paths below are relative to `src/project/`.

## 1. Inventory

| component | state | operations | talks to |
|---|---|---|---|
| EventLoop (`MyMuduo/EventLoop.*`) | `looping_ quit_ callingPendingFunctors_ pendingFunctors_ activeChannels_`, eventfd | `loop quit runInLoop queueInLoop wakeup handleRead doPendingFunctors` | any thread posts functors; polls its EpollPoller |
| Channel (`Channel.*`) | `events_ revents_ index_ tie_` | enable/disable read/write, `remove`, `tie`, `handleEvent` | its loop's poller; callbacks into its owner |
| EpollPoller (`EPollPoller.*`, `Poller.*`) | `channels_ events_`, the kernel's epoll set | `poll updateChannel removeChannel` | kernel |
| TcpConnection (`TcpConnection.*`) | `state_`, socket, channel, two Buffers | `send shutdown connectEstablished connectDestroyed handleRead/Write/Close/Error` | its loop; user callbacks; TcpServer through `closeCallback_` |
| TcpServer, Acceptor (`TcpServer.*`, `Acceptor.*`) | `connections_ started_ nextConnId_`, listening socket | `start newConnection removeConnection removeConnectionInLoop` | base loop and io loops |
| EventLoopThreadPool, EventLoopThread, Thread | loops and threads, `next_` | start handshake, `getNextLoop`, stop | base loop |
| Buffer (`Buffer.*`) | vector, two indices | append, retrieve, `readFd`, `writeFd` | sockets |
| ChatServer, ChatService (`CHAT/src/server/chatserver.cpp`, `chatservice.cpp`) | `_userConnMap` with `_connMutex` | `login loginout reg oneChat groupChat addFriend creatGroup addGroup clientCloseException reset` | MySQL models, Redis |
| Redis (`CHAT/src/server/redis/redis.cpp`) | a publish and a subscribe context, an observer thread | `publish subscribe unsubscribe` | redis; ChatService callback |
| UserModel, OfflineMsgModel, FriendModel, GroupModel | tables `user offlinemessage friend allgroup groupuser` | one or more statements each | MySQL |
| MySQL (`CHAT/src/server/db/db.cpp`) | one connection per object | `connect update query` | the models |
| Chat client (`CHAT/src/client/main.cpp`) | current user, friends, groups, semaphore | menu thread and reading thread | one server |
| nlohmann json (`CHAT/thirdparty/json.hpp`) | lexer position, parser and builder stacks, serializer buffer | `parse dump`, CBOR / MessagePack / UBJSON / BSON, pointer, `patch diff merge_patch flatten unflatten` | both chat programs call `parse` and `dump` |

What makes each one correct, and what is hard about it:

* *EventLoop*: a functor handed over by any thread runs once, in order, soon.
  The push, the test of `callingPendingFunctors_`, the write to the eventfd and
  the loop's own swap interleave.
* *Channel and EpollPoller*: `index_`, `channels_` and the kernel agree after
  any sequence of calls; otherwise `epoll_ctl()` fails and `LOG_FATAL` ends the
  process.
* *TcpServer and TcpConnection*: a connection is announced up once and down
  once, is forgotten once its peer has closed it, and is destroyed only when no
  callback, functor or poller still points to it. Closing goes io loop → base
  loop → io loop, while application threads call `send()` and `shutdown()`.
* *ChatService*: an account is used by one client; the map, the redis
  subscription and the `state` column, changed in separate steps on several
  servers, agree; messages are delivered once. Handlers of different
  connections interleave, clients vanish in the middle, servers die.

* *EventLoopThread, Thread, ~TcpServer*: the address of a loop on another
  thread's stack is handed over by a semaphore and a condition variable, and
  taken back by `quit()` and `join()`, with functors still queued.
* *Buffer and the send path*: bytes keep their number and order through
  `readv()` into two places, moving, growing, partial writes and sends queued by
  other threads; the write side closes after the last of them.
* *Models and client*: what several single statements, each of which may fail,
  leave in the tables, and what a client shows of it.
* *JSON*: parser and serializer are inverse to each other on UTF-8 and refuse
  the rest; each binary format has its own thresholds, written once in the
  writer and once in the reader; a patch moves what it has not changed yet.

`PROJECT.json` lists every component with its status, and the hazards with the
line where each bites and the properties that watch it.

## 2. Modules

| module | models | extends / uses |
|---|---|---|
| `Executor` | abstract: accepted functors are executed once, in order, until stopped | |
| `EventLoop` | one EventLoop, its thread, the threads that use it | instantiates `Executor` |
| `EventLoopProofs` | theorems about it | |
| `Channel` | a Channel and what the poller does to it, as operators on a record | |
| `EPollPoller` | one EpollPoller with arbitrary users | `Channel` |
| `EPollPollerProofs` | theorems about it | |
| `TcpServer` | TcpServer, Acceptor, getNextLoop, TcpConnections, loops, application threads, peers | `Channel` |
| `TcpServerProofs` | theorems about it | |
| `ServerLife` | Thread, EventLoopThread, EventLoopThreadPool, `~TcpServer`, `~EventLoop` | |
| `ServerLifeProofs` | theorems about it | |
| `Buffer` | Buffer, as operators on a record | |
| `BufferProofs` | what each operator does to the indices and the contents | |
| `ByteQueue` | abstract: bytes come out as they went in | |
| `ByteStream` | the bytes of one TcpConnection in both directions | `Buffer`; instantiates `ByteQueue` twice |
| `ByteStreamProofs` | theorems about it | `BufferProofs` |
| `ChatService` | ChatServer, ChatService, Redis, UserModel, OfflineMsgModel, MySQL and redis | |
| `ChatServiceProofs` | theorems about it | |
| `ChatStore` | the tables, and UserModel, FriendModel, GroupModel and MySQL on them | |
| `ChatClient` | the client's two threads, its semaphore and lists, both byte streams, the server's side of one connection | `ChatStore` |
| `ChatClientProofs` | theorems about it | |
| `JsonValue` | `basic_json`: the nine types, numbers as bytes of their width, equality, object and array access | |
| `JsonLexer`, `JsonParser` | `lexer`, `parser::sax_parse_internal`, `json_sax_dom_parser` | `JsonValue` |
| `JsonSerializer` | `serializer`: `dump`, `dump_escaped`, `decode`, number formatting | `JsonValue` |
| `JsonBinaryWriter`, `JsonBinaryReader` | `binary_writer`, `binary_reader` | `JsonSerializer`, `JsonLexer` |
| `JsonPointer` | `json_pointer`, `patch`, `diff`, `merge_patch`, `flatten`, `unflatten` | `JsonSerializer` |
| `JsonGrammar` | reference: what a text means by RFC 8259, what UTF-8 is | `JsonValue` |
| `JsonPatchRfc` | reference: what an operation of a patch does by RFC 6902, and where the library is known to do otherwise | `JsonValue` |
| `Json` | a document on its way through all of these | all Json modules |
| `MC...` | instances for TLC: model values, connection placement, symmetry | |

Some definitions have a faulty variant just before them (`NeedsWakeupOnlyForeign`
before `NeedsWakeup`, `CborHeadOffByOne` before `CborHead`): it is a plausible bug of that code, no specification uses
it, and putting it in the definition's place makes the property paired with it
in `PROJECT.json` fail. That is how each property is known to depend on the code.

### EventLoop

`pc` is the loop thread's place in `loop()` (`test` of `quit_`, `poll`,
`handle`, `swap`, `run`). A callback lasts from the moment it is at the head of
its list until the step that removes it; in between its thread may call
`queueInLoop()` and `quit()`. Posting is two steps for every thread
(`QueueInLoop`: locked push and the decision of `EventLoop.cc:131`; `Wakeup`:
the `write()`), so the loop may swap, poll and read the eventfd between them.
The eventfd is a Boolean, since one `read()` resets the whole counter.
`runInLoop()` by another thread is `queueInLoop()`; by the loop's own thread it
is a plain call. `EarlyCalls` lets the loop be used before `loop()`, as
`EventLoopThread::threadFunc()` allows once it has published the loop. The
history variables `posted`, `ran` and `quitCalled` are only read by properties.

### Channel and EPollPoller

A channel is the record `index`, `events`, `listed` (`channels_`), `reg` (the
kernel's set), `fatal` (an `epoll_ctl(ADD|MOD)` has failed). Each `enable…`,
`disable…` and `remove()` is `UpdateChannel` or `RemoveChannel`, as in
`EPollPoller.cc:69-101`, including the fact that disabling a channel that was
never added adds it with an empty mask. `Poll` fills at most `size` entries and
doubles a full vector.

### TcpServer

A loop is a record with its phase, the callbacks of the current
`activeChannels_`, `queue` (`pendingFunctors_`), `batch` (the swapped vector),
and the references it holds: `guard` (the locked `tie_`) and `kept` (functors
that were called but whose vector is not destroyed yet). One callback of a
channel, or one functor, is one step: everything it touches except `state_`
belongs to its loop's thread, and `state_` is read once in each of them before
anything else depends on it. Application threads interleave: `shutdown()` is
test, `setState` and queueing in three steps, `send()` two.

*Lifetime.* `Alive(c)` says some `shared_ptr` exists: in `connections_`, held by
an application thread, in a queued, swapped or called functor, or as the guard.
`Strong` says which functors own one: all but `shutdownInLoop()`, which
`TcpConnection.cc:159` binds to a raw `this`.

*Kernel.* A peer is `open`, has sent FIN, has reset, or has reset and the error
was collected (`gone`); `Revents` derives what epoll reports, `Callbacks` the
order of `handleEventWithGuard()`. A write takes everything or a part (or
nothing, `EWOULDBLOCK`). Bytes are abstracted to "the output buffer is empty or
not". In a message callback the application may send, shut down, do both (as the
echo servers do) or neither. `accept()` may fail. `HasWriteCb` says whether
`writeCompleteCallback_` is set; the programs of the repository do not set it.

### ServerLife

`main` walks through `EventLoopThreadPool::start()` (`create` a Thread, wait for
its semaphore, `lock` and test `loop_`, perhaps be `blocked` on the condition
variable), serves, and then through `~TcpServer` (`closing`: one queued
`connectDestroyed()` per connection) and each `~EventLoopThread`: the test of
`loop_` (`quit`), `quit_ = true` (`tell`), `wakeup()` (`wakeup`) and `join()`
are steps of their own. Each io thread posts the semaphore, constructs its EventLoop, publishes
it, runs `loop()`, leaves it, unpublishes and destroys it; functors that are left
are dropped with it. A blocked main thread may also wake up without a
notification. With `EarlyQuit` the server may end before every io thread has
entered `loop()`. `queueInLoop()` is one step here, since `EventLoop` takes it
apart.

### Buffer, ByteQueue, ByteStream

A Buffer is the record of its vector and two indices. `ReadFd` reads into the
writable part and, if that is too small, into an array of `ExtraSize` (65536 in
the code) that is appended; `MakeSpace` moves or grows on the test of
`Buffer.h:115`. Bytes are numbers, so a lost, doubled or displaced one is seen.
In `ByteStream` the application retrieves what it likes of the input and echoes
it in the loop or hands it to a worker thread. `send()` of another thread queues
a pointer to the caller's string (`TcpConnection.cc:83`): with
`StringsOutlive = FALSE` the string may be gone when `RunSend` reads it, and the
bytes read are then `Junk`. The kernel takes any number of bytes up to its room.
`taken`, `peerSent`, `sent`, `lost`, `received` are histories: `sent` are the bytes
`sendInLoop()` was called for, and `lost` those of them that were given up because
`shutdown()` had closed the write side before their functor ran. Both directions are shown
to implement `ByteQueue`. Connection end and errors are in `TcpServer`.

### ChatService

Each handler runs on its connection's io thread; every access to
`_userConnMap`, every SQL statement and every redis command is one step
(`h[c].pc` names the next one). `obs[s]` is the observer thread holding
`_connMutex` while it stores a message. `MapInsert` keeps an existing entry, as
`unordered_map::insert` does. `login()` and `groupChat()` take no lock: the line
`unique_lock<mutex>(_connMutex);` declares a new variable of that name.
SUBSCRIBE and UNSUBSCRIBE are written to a socket and not awaited: with
`LateRedis` they wait in `cmds` until `RedisExecute`. PUBLISH reaches whoever is
subscribed when it is executed. MySQL, redis and the clients' ends are external
and modelled from how the code uses them. `Overlap`, `CanReset` and `CanCrash`
switch on overlapping logins to one account, SIGINT (`resetHandler()`: the rows are
reset in one step, the process ends in another, and its threads may run in between) and death
without handlers. Clients follow the console client: they log in when not logged
in, chat or log out when they are; any of them may vanish at any moment. A login
may also be refused for a wrong id or password. `login()` itself does not ask whether the
connection has an account, and `onMessage()` may drop a logout that is read together
with another request; with `Relogin` a client therefore also logs in while the
server still has its connection under the former account. `names` is the history
of the accounts that `login()` entered for a connection and `loginout()` did not erase.

### ChatStore and ChatClient

A table is the sequence of its rows. `chat.sql` makes names unique and gives
`friend` and `groupuser` no key at all, so rows may be there twice. A method
yields the set of its outcomes: what the tables are then and what it returns.
With `DbFails` every connection and every statement may fail by itself, which
the code answers with "nothing happened" or "nothing found".

The main thread is in the first menu, waiting in `sem_wait()` for the answer to
a login or a registration, in `mainMenu()` (`commands`), or gone. The reading
thread handles one message per `recv()` and then, for an answer, calls
`sem_post()` in a step of its own. The commands differ in what they send; one
whose `stoi()` or `dump()` throws ends the process (`CommandThrows`). The server
is reduced to what its handlers do to this connection: the users under which it
is known (`session`), the offline accounts under which its map still has another
connection (`elsewhere`: `insert()` then does nothing), the tables, and the answers;
`ChatService` takes the same handlers
apart. `doLoginResponse()` clears and fills a list only if the answer holds one;
`friendsOf` and `groupsOf` remember whose answer filled each list last.
An answer longer than the 1024 bytes of `recv()` is cut, always when its lists have more
than `RecvMax` rows (`IsCut`), possibly also when it carries other text, such as
offline messages or a chat (`HasText`), and `json::parse()` of a part throws. Neither side frames its
messages. With `Coalesce` one read may return several of them: the server then
handles the first request only (the text up to the NUL that the client sends
with each request decides), and the client's `json::parse()` throws.

### The JSON modules

Bytes are numbers from 0 to 255, texts sequences of bytes. A value is its type
and payload; an integer is its eight bytes, most significant first, so that the
three number types, the sign and the limits of each width are those of the code
although TLC's integers have 32 bits; an object is the sequence of its members in
the order of `std::map`. A floating-point number is its shortest decimal form:
what `strtod()` and `dtoa` make of digits is not modelled, and its IEEE bytes are
the constant table `Ieee754`.

`Json` parses a text, one step per round of `sax_parse_internal()`, so the two
stacks can be compared in between; a document that was parsed or built is then
dumped (with and without indentation, `ensure_ascii` and each error handler) and
parsed again; written in a format and read; flattened and unflattened; patched
by `diff()` towards a target or by a given patch, one step per operation; or
merged. `JsonGrammar` is not translated from code: it says which texts are JSON
and what they mean, by the ranges and rules of RFC 8259 and not by the lexer's
loops, and is what the parser is compared with; the numbers that no double holds are
a constant of its own there and computed from 2^1024 in the lexer. `JsonPatchRfc` plays
the same part for patches: it gives the result that RFC 6902 asks for, and names the
operations where this library is known to give another one. A failed assertion ends the
process (`aborted`).

## 3. Runs

Run one with `tlc -config X.cfg M` in this directory.

| run | checks | shows |
|---|---|---|
| `event_loop` | `NoLostWakeup FunctorsInOrder ImplementsExecutor PostedRuns QuitEndsLoop` | a loop used once `loop()` runs loses no wakeup and no functor, keeps their order, implements `Executor`; without help from the 10 s poll limit each functor runs, and `quit()` ends the loop |
| `epoll_poller` | `IndexAgrees CtlNeverFails` | any sequence of calls on three channels, also from callbacks, keeps the three records of what is polled in agreement |
| `tcp_server` | `NoDanglingChannel UpThenDownOnce WritingIffBuffered ClosedIsRemoved` | with an io loop, an application thread that sends, and a peer that sends, closes or resets at any time: lifetime, callbacks and write interest are right, and a closed connection is forgotten |
| `tcp_server_shutdown` | `ActiveAlive NoFatalCtl` | base loop only, two connections in one `epoll_wait()`, and one application thread that calls `send()` or `shutdown()` once, whatever happens inside it: reported channels survive until their callback and `epoll_ctl()` is never refused |
| `server_life` | `PublishedLoopLives NoOrphanThread UpThenDownOnce StartReturns ServerEnds` | the start handshake never blocks and never yields a null or dead loop; a loop lives until its `quit_` is set; `~TcpServer` returns with all threads joined, and announces nothing twice |
| `byte_stream` | `BuffersWellFormed ImplementsInput ImplementsOutput ClosedAfterAllIsWritten WarnedOncePerFilling SentArrives` | both directions are queues of bytes; the write side closes after the last byte; the high-water callback comes once per filling; what was sent arrives at a peer that reads, but for queued sends that `shutdown()` has overtaken |
| `chat_service` | `SessionsAgree OnlineIsReachable MapHoldsLiveOnce` | two servers, three clients, slow redis, repeated but no overlapping logins: map, subscription and database agree on everyone who is not in the middle of a handler; the map holds a server's own connections, under accounts entered for them |
| `chat_service_messages` | `AtMostOnce MapHoldsLiveOnce GoneIsForgotten` | also with SIGINT and crashes no copy of a message is handed over twice and the map holds no connection it should not; a vanished client leaves the map, unless it had a second account |
| `chat_service_one_session` | `OneSession` | *fails*: two overlapping logins both get the account |
| `chat_client` | `OneOutstanding MenuMatchesSession StoreIsShown AnswerComes` | while each read returns one message, every wait is paired with its own answer, client and server agree on who is logged in, each list is of the account whose answer filled it last, groups have at most one creator, and no wait lasts for ever, also when statements fail, answers are cut or the server goes away |
| `json` | `ParserIsRight DumpIsRight BufferInBounds BinaryIsRight EditsAreRight PatchApplies` | the parser accepts the grammar and builds its meaning; dump and parse, writers and readers are inverse; truncated messages are refused; patches do what RFC 6902 says, but for the deviations of `JsonPatchRfc`, and `diff()` reaches its target |

Type correctness is a conjunct of `UpThenDownOnce` (TcpServer),
`PublishedLoopLives`, `BuffersWellFormed`, `SessionsAgree` and `StoreIsShown`; it
is proved for every module that has proofs.

Two runs are expected to fail: each states what the code says of itself, and TLC
shows a behaviour of the code that contradicts it.

* `tcp_server_raw_shutdown` (`FunctorTargetAlive`): `shutdown()` of another thread is
  queued behind the connection's end and `shutdownInLoop()` runs on a destroyed object;
  the comment at `TcpConnection.cc:159` says its destruction need not be considered.
* `chat_service_one_session` (`OneSession`): `login()` answers "this user is logged in
  already and cannot log in again" (`chatservice.cpp:80`) by a test of the `state` column,
  which it sets only 20 lines later, in a second statement: two logins that overlap, on
  one server or on two, both pass the test.

### Bounds, and why they are enough

* `event_loop`: two foreign threads besides the loop's own (one posts while the
  other is between push and write), two functors, `MaxPosts = 4`, so that posts
  fall before, between and after two swaps.
* `epoll_poller`: a channel's record does not depend on the others; three
  channels and an `InitialSize` of 1 make the vector full and grow twice
  (`MaxSize = 4`).
* `tcp_server`: one connection (connections meet only in the loops' queues; what a
  failure of one does to another is not exercised here) on one io loop, two calls by the application thread, one message from the peer:
  enough for a call before and one after each stage of the close path.
  `tcp_server_shutdown` has two connections, since `ActiveAlive` is about what
  the callback of one does to the other in the same round; on the base loop
  `removeConnectionInLoop()` runs inside the close callback, where it is most
  dangerous.
* `chat_service`: two clients on one server and one on another cover "same
  server" and "other server" for every pair of handlers; two accounts. Login
  and logout by the same client and again by another are reached with one login
  per connection; the first connection has two, so that it can log in again with its
  former account still entered. `chat_service_messages` has one connection per server and
  lets either server end once. Overlapping logins with the map's contents are left to
  the theorem `MapHoldsLive`. Accounts and messages are symmetric;
  symmetry is not used in runs with a temporal property.
* `server_life`: two io threads (one is started, or stopped, while the other
  runs) and two connections, which round robin puts on different loops. The
  model has no other bound.
* `byte_stream`: four bytes, and every size (`kCheapPrepend`, `kInitialSize`,
  `ExtraSize`, the socket's room, the high-water mark) is 2, half of what is
  sent: the input overflows into the second array and both buffers move and
  grow, the mark is passed and left, and writes are partial. With sizes of one
  some of these cases coincide.
* `chat_client`: two names and at most two accounts, so that a login can follow a
  logout of another account; one group; two rows in the tables without a key (a
  creator and a member, or the same row twice); `RecvMax = 1`, so answers fit or
  are cut; two requests and one answer or push under way, as many as an unanswered
  command and the login behind a logout need. There is no bound on the length of
  a session.
* `json`: texts, strings, values, patches and messages are chosen with a member
  on each side of every limit the code tests (`MCJson`): all strings of up to two
  bytes of different classes and selected longer ones, code points at the ends of
  their ranges, all token sequences of up to four tokens, numbers on both sides of
  `DBL_MAX`, with a point and without, numbers around 2^7, 2^8,
  2^15, 2^16, 2^31, 2^32, 2^63 and 2^64, lengths around 16, 24, 32 and 256. `string_buffer` has 16 bytes
  instead of 512, the least that holds an escape of 12 or 13 bytes and what was there
  before, so that its edge is met by short strings; lengths above 65535 are only
  reached by their encodings. The algorithms have no state between documents, so
  one document at a time is enough.
* Deadlock is checked for the loop and the poller, which never stop. The other
  runs say `CHECK_DEADLOCK FALSE`: once all connections are used up and closed,
  the server is gone, all bytes have arrived, the client has exited or a document
  is done with, nothing is left to happen within the bounds.

### Fairness

* `EventLoop`: the loop's thread runs and its callbacks return; a readable
  eventfd ends `epoll_wait()`; a thread on its way to `write()` gets there.
  Neither other channels' events nor the poll's time limit are assumed, so
  `PostedRuns` is about the wakeup alone. `FairSpecWithTimeout` adds the limit.
* `TcpServer`: each loop's thread runs (for one loop this is what `PostedRuns`
  gives), accept callbacks are made, and a thread inside `send()` or
  `shutdown()` finishes. Peers and applications owe nothing: `ClosedIsRemoved`
  is about what follows when a peer has closed.
* `ChatService`: io threads and observer threads run, MySQL and redis answer.
  Clients owe nothing.
* `ChatClient`: the reading thread and the server run, and a posted semaphore
  releases the main thread. The user owes nothing.
* `ServerLife`: the main thread and the io threads run. Neither connections nor
  the end of the base loop nor a spurious wakeup are assumed.
* `ByteStream`: the loop handles writability and queued functors, and the peer
  reads. That anybody sends, or that the loop reads, is not assumed.
* `Json`: none, it is sequential and has no liveness property.

## 4. Proofs

Checked with `tlapm M.tla` for each `...Proofs` module. The theorems hold for every
set of threads, loops, connections, servers, accounts and bytes and for all bounds,
from the assumptions on constants each module names: the loop's thread is one of
the threads (`LoopAssumption`); `events_` starts with at least one entry
(`SizeAssumption`); the connections are finitely many, `loops_` is a sequence of
loops other than the base loop, and the acceptor is no connection
(`ServerAssumption`); there is an io thread (`LifeAssumption`); the sizes of
`ByteStream` and the constants of `ChatService` are of their types; user names are finitely
many (`varchar(50)`) and a table has room for a row (`StoreAssumption`); `None` is no id and
no name (`ClientAssumption`). Where a theorem has a hypothesis of its own it is named below,
with the reason.

**EventLoop**

* `TypeCorrect`: the types, and `looping_` is true exactly between entering and
  leaving `loop()`.
* `WakeupNotLost`: `~EarlyCalls => (Spec => []NoLostWakeup)`. `NoLostWakeup`
  speaks of `test` and `poll` only and is not inductive: while handlers run the
  vector may fill without a wakeup (the swap comes later), while functors run it
  may not. `WakeupInv` adds the phase `run` and says that
  `callingPendingFunctors_` is true exactly from before the swap to the end of
  the functors, which is why the test in `queueInLoop()` is the right one. The
  hypothesis is needed: see the first observation below.
* `FunctorsKeepOrder`: `posted = ran ∘ functors ∘ pending`. Inductive together
  with "the swapped vector is empty outside `run`" (`OrderInv`), without which a
  swap could overwrite functors. It rests on lemma `MoveHead` about sequences.
* `Refinement`: the loop implements `Executor`, by the order invariant: the
  functor that runs is the one that is next in `posted`.

**EPollPoller**

* `PollerInvariant`, `IndexesAgree`, `CtlIsNeverRefused`, `PollerTypeCorrect`:
  agreement of `index_`, `channels_` and the kernel is inductive jointly with
  "no `epoll_ctl` has failed" (`ChannelInv`), shown once per operator (`UpdateKeeps`,
  `RemoveKeeps`) and lifted to the poller (`StoreKeeps`).

**TcpServer**

* `ChannelsAgree`, `CtlNeverFails` (`NoFatalCtl`), without any hypothesis: here too
  the agreement of a channel's memories is inductive, and it survives even a
  late send that registers a closed channel again. `ChannelInv` adds the types and that
  an entry of `activeChannels_` has a callback left, which `PopCallback` needs.
* `ReportedIsAlive` (`ActiveAlive`), `NothingDangles` (`NoDanglingChannel`),
  `AnnouncedOnce` (`UpThenDownOnce`), `BufferedIsWritten` (`WritingIffBuffered`), all
  from one inductive invariant, `LifeInv`. A connection is fresh, up or down, and
  `ConnOk` says for each stage what its channel, `outputBuffer_` and callback
  counters are. That is not inductive: the functors and the reported events
  that refer to a connection must fit its stage when their turn comes.
  `FunctorOk` and `TodoOk` (in `LoopInv`): whatever waits in a loop fits now, and
  keeps fitting, as stages are only passed forward; `connectEstablished()` waits once and
  in the connection's own loop. `ActiveOk`: events are worked off before functors
  run, so nothing reported is taken out of the poller in between; a connection that
  is down has no `close` or `read` callback left in its event, since only the first
  callback or the read callback can close it and `Callbacks` makes them in that
  order (`Ordered`). `UserInv`: application threads only have connections that were
  announced. `ServerInv` is what keeps raw pointers valid: a connection that TcpServer has
  forgotten is down, and either out of the poller or `connectDestroyed()` waits
  in its loop, bound to a `TcpConnectionPtr`. Hence a channel that is in the poller, or
  reported, is alive (`ForgottenIsHeld`).
* The proof goes from the connection to the system: each member function moves
  one connection forward (`Follows`, `Works`); each action changes one connection
  and takes at most one functor from each loop and appends some (`Moves`, `Posts`); and
  `LifeInv` survives every step of that shape whose posted functors fit (`RunLives`,
  `QuietStepLives`).
* These four assume `"shutdown" \notin UserOps`: application threads send; only
  message callbacks, in the connection's own loop, shut down. The hypothesis
  cannot be dropped, since `shutdown()` of another thread can set `state_` back
  from `kDisconnected` to `kDisconnecting`. TLC then refutes `UpThenDownOnce` and `WritingIffBuffered`
  with one application thread, `ActiveAlive` and `NoDanglingChannel` with two (section 5).

**ServerLife**

* `PublishedLoopsLive` (`PublishedLoopLives`: a published loop is there as long as
  functors may be queued in it and until `quit()` has set its `quit_`; its `wakeup()`
  after that is excluded, see section 5), `ThreadsAreJoined` (`NoOrphanThread`):
  `LifeInv` ties each thread's place in `threadFunc()` to `loop_`, to the loop's life and to
  `quit_` (`ThreadInv`), and the main thread's place to theirs (`StartInv`); its core
  is that a thread leaves its loop only when it was told to (`Told`), so every
  published loop is there until then.
* `CallbacksOnce` (`UpThenDownOnce`): `StateInv` counts callbacks by `state_`; it needs
  `QueueInv`, that `connectEstablished()` is queued once, in the right loop, and while the
  connection is still `kConnecting`.

**Buffer and ByteStream**

* `BufferProofs` states what `append`, `retrieve`, `makeSpace`, `readFd` and `writeFd` do
  to the indices and the contents, for all bytes and sizes.
* `BuffersStayWellFormed`, `CallbackOncePerFilling`, `InputImplementsQueue`: `StreamInv`,
  in which `InputInv` says where each byte from the peer is: taken, in
  `inputBuffer_`, in the kernel.
* `ShutdownIsGraceful` (`ClosedAfterAllIsWritten`) and `OutputImplementsQueue`, by
  `OutputInv`, the same for the bytes to the peer. They assume `StringsOutlive`,
  that the string of a `send()` from another thread lives until it is sent:
  otherwise what is sent are not the bytes given to `send()` (section 5).

**ChatService**

* `MapHoldsLive` (`MapHoldsLiveOnce`): with overlapping and repeated logins, late redis,
  SIGINT and crashes. `NameInv`: an entry is under one of the `names` of its connection, and
  once `clientCloseException()` has begun any that is left is one of several. It needs to know
  whom each handler is about (`HandlerInv`). For clients that have one account at a time,
  `EntryInv` adds why an entry is there: its connection is in the part of `login()`
  behind the insertion, or serving, or in `loginout()` before the erasure, for that account.
* `HolderInv` and `SessionInv`, on which the next three rest: one connection at most holds an account,
  its row says `online` from the update in `login()` to the one in `loginout()`, and
  a session is in the map. They are proved for `~Overlap` and `~CanReset`, since two overlapping
  logins of one account both find it offline (`chat_service_one_session`) and `reset()` sets
  others' users offline, and for `~Relogin`: `HolderInv` lets a connection have one
  account. That last hypothesis is the proof's: the runs `chat_service` and
  `chat_service_messages` have `Relogin = TRUE` and find no violation.
* `SessionsDoAgree` (`SessionsAgree`) and `OnlineCanBeReached` (`OnlineIsReachable`),
  however late redis is. Both follow from `AgreeInv`, which describes the subscriptions
  and the rows at every moment, handlers under way included: a server is subscribed for a user
  exactly when one of its connections holds his account and is past the SUBSCRIBE of
  `login()` and before the UNSUBSCRIBE, and a row says `online` only when a connection has
  set it (`ReachInv`). "Subscribed" counts the commands on their way: one that
  is given takes effect at once and for its user only (`CommandCounts`), and redis
  executing it changes nothing (`ExecuteCounts`). Each step of a connection changes the
  subscription of its own account at most (`Tells`), and that the account is held by nobody
  else is `HolderInv`. The hypotheses are `~Overlap`, `~CanReset`, `~CanCrash` and, as said,
  `~Relogin`; TLC refutes both properties without any one of the first three: overlapping logins share an account,
  `reset()` writes others' rows, and a server that dies leaves its users' rows `online`. `OnlineIsReachable` does not say that a PUBLISH gets through:
  the SUBSCRIBE may still be on its way.
* `HandedOnce` (`AtMostOnce`): whatever crashes. `MessageInv` adds that a copy of a message
  is in one place at a time: with a chat handler that has its recipient left, in redis, with
  the observer thread, in the table, in the answer of a `login()`, or with the client
  (`CopyOk`); each step leaves it there, loses it or passes it on (`Stays`, `Passes`,
  `Renamed`). Two steps need more. PUBLISH multiplies a copy unless one server at most
  has subscribed for the user: whoever has, has the connection that holds the
  account (`SubsInv`, and `HolderInv` for "one"). `login()` would answer with messages that stay in
  the table unless the DELETE takes what the SELECT has read (`ReadInv`, and `SessionInv`
  for no other login in between). It assumes `~LateRedis`, `~Overlap`, `~CanReset` and `~Relogin`; each of the first three
  leaves two servers subscribed for one user, and TLC refutes `AtMostOnce` with each alone
  (section 5).

**ChatClient**

The first two theorems assume `~Coalesce`: when one `recv()` or one read callback finds
two messages, requests are lost, and a wait goes without its answer (section 5). The
third has no hypothesis.

* `AnswersArePaired` (`OneOutstanding`): inductive together with what the streams
  are (`AnswerInv`). It counts the requests, answers and posts of each kind; a message
  that is sent or read changes one count by one (`CountAppended`, `CountRest`), a handler
  turns one request into at most one answer of its kind (`OutcomesOf`), and `recv()`
  turns an answer into a post. Without the conjunct that requests of one kind are
  under way only while that kind is waited for, a command could be taken for a login.
* `ClientAndServerAgree` (`MenuMatchesSession`): `ClientInv` adds what the server knows
  while requests are still under way (`SessionInv`). In the first menu the requests
  are commands that end with the `LOGINOUT_MSG` of the session's user (`Leaves`), since
  the client does not wait for a logout; a login or a registration waits behind
  those (`Asked`), then its answer says what the session has become, and then
  `g_isLoginSuccess` and `g_currentUser` do. That `sem_wait()` returns only in this last
  place is `OneOutstanding`, so the second proof needs the first.
* `StoreStaysShown` (`StoreIsShown`), whatever a read returns and whichever statements fail.
  `StoreInv` says of everything on its way what must hold when it arrives: requests carry
  ids where a handler enters them in a table (`RequestOk`), and the lists of an answer that
  waits in `toClient` are those of its account *now* (`AnswerOk`), although they were read
  earlier. The client then keeps each of the two lists for the account of the answer that held it
  (`friendsOf`, `groupsOf`), which may be two accounts (section 5). The latter keeps holding because no statement removes or changes a row
  of `friend` or `groupuser` (`Grows`), so that a query returns each row at least as often as before
  (`FriendsStay`, `GroupsStay`). How often is counted through the bijection between
  the positions of the rows and those of the list, since no statement fixes an order
  (`RowsAre`, `ListOf`). `OneCreator` rests on `AUTO_INCREMENT`: a new group's id is larger than any
  that a creator's row may have, also when the second statement of an earlier `creatGroup()`
  failed (`CreateGroupOk`, `AddGroupOk`).

**Only model-checked**, and why:

* all liveness properties: temporal reasoning under fairness is out of the prover's reach;
* the JSON modules, whose recursive operators follow recursive functions of the code:
  induction over data;
* what the hypotheses above exclude, as far as it holds: `ActiveAlive` with one
  application thread that also shuts down (`tcp_server_shutdown`).

## 5. Observations beyond the runs

Found while modelling; each can be reproduced by changing the constants of a
config or is plain from the lines.

* A functor queued by the loop's own thread before `loop()` gets no wakeup
  (`EventLoop.cc:131`; `EventLoop.h:35` says it wakes the thread): with
  `EarlyCalls = TRUE`, `NoLostWakeup` fails. Cost: up to 10 s.
* `loop()` starts with `quit_ = false` (`EventLoop.cc:71`) and forgets a `quit()`
  that came between the publication of the loop (`EventLoopThread.cc:54`) and
  `loop()`: with `EarlyCalls = TRUE`, `QuitEndsLoop` fails even under
  `FairSpecWithTimeout`, and `~EventLoopThread` waits in `join()` for ever.
* `quit()` sets `quit_` and then calls `isInloopThread()` and `wakeup()`
  (`EventLoop.cc:104-107`). The loop of an EventLoopThread lives on its thread's stack: a thread that is
  awake anyway, say for the `connectDestroyed()` that `~TcpServer` has just queued, may see
  `quit_`, leave `loop()` and destroy the EventLoop before that, and `~EventLoopThread`
  (`EventLoopThread.cc:19`) then uses a destroyed object. In `ServerLife` this is an
  `alive[i]` that is false while `main.pc` is `wakeup`; `PublishedLoopLives` excludes it.
* With `UserOps = {"send", "shutdown"}` and an io loop, `UpThenDownOnce` fails:
  `shutdown()` tests `state_` and sets it in two steps and overwrites
  `handleClose()`'s `kDisconnected` with `kDisconnecting` (`TcpConnection.cc:158`);
  a queued `send()` then passes the test of `sendInLoop()`, registers the closed
  channel again, and the connection is announced as down a second time.
* A `send()` that was queued while `kConnected` is given up, without a word to the
  caller, when `shutdown()` has closed the write side before it runs: the bytes
  are in `lost` of `ByteStream`.
* `sendInLoop()` refuses to send only when `kDisconnected`; its comment
  (`TcpConnection.cc:95`) says after `shutdown()`. A send queued earlier may
  write after `shutdownWrite()`; SIGPIPE is not ignored.
* `shutdown()` closes the write side; `TcpConnection.cc:153` expects EPOLLHUP to
  follow, which needs the peer to close too. There is no timer.
* `TcpConnection.h:72` says `loop_` is never the base loop; without
  `setThreadNum()` it always is (`EventLoopThreadPool.cc:44`).
* The same race of `shutdown()` breaks `ActiveAlive` and `NoDanglingChannel` when
  two application threads meet (`User` of two, `MaxSends = 2`): one queues a send,
  the connection is closed, removed and taken out of the poller, the other, which
  found it `kConnected`, now sets `kDisconnecting`; the queued `sendInLoop()` runs
  and `enableWriting()` puts the channel back into the poller, which keeps it
  when the last pointer is released. With one application thread
  both hold (`MaxSends = 2`), since it cannot be inside `shutdown()` and send.
* `reset()` sets every user offline, also those of other servers:
  `CanReset = TRUE` breaks `OneSession` (`chatservice.cpp:381`). A crash repairs
  nothing: accounts in use stay `online` and are refused from then on
  (`chatservice.cpp:378-380` promise otherwise).
* `unique_lock<mutex>(_connMutex);` in `login()` and `groupChat()` declares a
  variable of that name and locks nothing (`chatservice.cpp:89`), so the map is
  changed while other threads use it; `chatservice.hpp:80` says it must be locked.
  The model makes these accesses atomic steps without the lock.
* `login()` selects the offline messages and deletes them with a second
  statement (`chatservice.cpp:110-111`): a message stored in between, by a
  sender who saw the user offline, is deleted unread.
* With `Coalesce = TRUE`, `AnswerComes` fails: a logout, which is not answered,
  and the next login are read together, `onMessage()` (`chatserver.cpp:51`) drops
  the second, and the client hangs in `sem_wait()`; `client/main.cpp:156` says
  the answer will notify it. `MenuMatchesSession` fails too: a command and the
  logout behind it are read together, the logout is lost, and the next login
  puts the connection into the map under a second user, which
  `clientCloseException()` does not clean up.
* With `StringsOutlive = FALSE`, `ImplementsOutput` fails: `send()` from another
  thread queues `buf.c_str()` (`TcpConnection.cc:83`), and the caller's string may
  be gone when it is sent.
* With `EarlyQuit = TRUE`, `ServerEnds` fails: the forgotten `quit()` above, seen
  from the server.
* At the end of a server not every connection that was announced as up is
  announced as down: `connectDestroyed()` queued by `~TcpServer`
  (`TcpServer.cc:39`) may still be in the queue when its loop leaves `loop()`;
  `TcpConnection.cc:189` relies on it.
* After a second login the client keeps the former account's friends or groups
  if the new answer holds no such list (`client/main.cpp:258-304`); as each list is
  replaced on its own, one account's friends may be shown with another's groups
  (`friendsOf` and `groupsOf` of `ChatClient` then differ).
* A connection that has two accounts as it closes (its logout was dropped by `onMessage()`)
  leaves one of them in the map for good: `clientCloseException()` stops at the first entry
  it finds (`chatservice.cpp:357`), the `TcpConnectionPtr` is kept, and the account's row stays
  `online`. `MapHoldsLiveOnce` and `GoneIsForgotten` except exactly this.
* `creatGroup()` is two statements (`chatservice.cpp:290`): when the second fails
  the group exists, its name is taken, and nobody is in it.
* `friend` and `groupuser` have no unique key, so a user may join a group twice
  and then gets each message twice; `ChatService` assumes he joins once.
* `stoi()` of what a user types and `dump()` of what is not UTF-8 throw in the
  client, and nobody catches; so does `json::parse()` of a login answer that is
  longer than 1024 bytes (`client/main.cpp:339`).
* JSON: the documentation of `unflatten()` says `j == j.flatten().unflatten()`
  but for empty containers (`json.hpp:20331-20334`); an object with a key `0` may
  come back as an array, and `EditsAreRight` leaves these out. `patch()` is documented to succeed or
  throw (`json.hpp:20373-20388`), but `add` below a primitive ends in
  `assert(false)` (`json.hpp:20501-20503`, whose comment says that a parent cannot be
  primitive): the process ends unless `NDEBUG` is defined. It departs from RFC 6902 in
  operations that `JsonPatchRfc` lists and `PatchApplies` leaves out: `remove`
  below a primitive does nothing and succeeds (`20507-20534`), `add` makes a parent that
  is missing and an object out of null (`20457-20475`), the last token of an array path
  may have leading zeros, and `move` may put a value below the place it came from.
  `from_bson()` ignores the document's size; a NUL ends the text that is parsed,
  whatever follows.
* With `LateRedis = TRUE`, `AtMostOnce` fails: a user moves to another server,
  his old server's UNSUBSCRIBE is late, the message is handed over by the new
  one and stored by the old one. `CHAT/README.md:127` accepts that messages
  may be lost in such windows; duplicates are not mentioned.
  `Overlap = TRUE` (three servers, one login each) and `CanReset = TRUE` (a third
  server that is interrupted and started again) break it too: the user is logged in on two
  servers, both have subscribed for him, and the sender's server publishes to both.

## 6. Not modelled

* What two unlocked accesses at once do to `_userConnMap` or to hiredis' buffers:
  undefined, so no outcome can be named. A lost redis connection.
* Messages that arrive in pieces (`parse()` throws and the process ends), and
  message contents in the chat modules.
* What the client shows and how it splits its input into words.
* Failing statements in `ChatService` (they are in `ChatStore` and `ChatClient`), and
  the C client library behind `MySQL`.
* Logger, Timestamp, InetAddress, CurrentThread, noncopyable, Callbacks: no state
  a property could be about.
* Of nlohmann json: the digits of floating-point numbers (`strtod`, Grisu2), floats
  of two and four bytes in CBOR and MessagePack, parser callbacks and SAX
  interfaces of users, iterators, conversions to and from C++ types, wide strings,
  allocation.

## 7. Plan

What is left is proof, for all values of the constants:

* `TcpServer`: `ActiveAlive` and `NoDanglingChannel` for a single application thread
  that may shut down, where `state_` may return to `kDisconnecting` but nobody
  sends any more.
