# NodeServer: a TLA+ model of the IM service

NodeServer (`src/app`) is an instant-messaging and live-room server: several
Node.js processes accept websocket clients, keep online users and rooms in one
shared Redis, and relay notices to each other over socket.io. The code is
callback and promise code over a pipelined Redis connection; almost every
request is a chain of Redis commands with other requests, sockets and servers
in between. The repository carries its own Redis (`src/redis`), configured to keep
snapshots only. This directory models the service and the part of Redis that its
data depends on, checks them with TLC, and proves the directory of online users, the
room registry, the numbers and copies of notices, the durability of the store, the
exactness of its hash table and the attendance of its connections with TLAPS.

## 1. Inventory

| Component (source under `src/app/src`) | State | Operations | Talks to |
|---|---|---|---|
| Online users: `user/online-users.js`, `user/users.js`, `login-handler.js`, `logout-handler.js` | `userList` of each process (socket id to User); Redis hash `OnlineUserKey-<user>-<socket>` | login, displacement of older sessions, logout, logout of all on a signal, lookup by user id | Redis, notice sender, websockets |
| Connections and dispatch: `im-service.js`, `client-main-router.js`, `base-handler.js` | websocket and `ctx` (socket id, `ctx.roomId`) of a connection | connect, message, answer, close event, error event, `disconnect` | every handler |
| Live rooms: `router/im/room/room.js`, the six room handlers | Redis `RoomMaxIdKey`, hashes `RoomIdKey-n`, sets `RoomMemberKey-n`; `ctx.roomId` | create, close, list, enter, leave, broadcast | Redis, notice sender |
| Notice sender and relay: `notice-sender.js`, `base-notice.js`, `server-main-router.js` | notices in transit on socket.io connections | send to each session found, local or relayed; drop; close the websocket of a kick | online users, other processes |
| Redis connection: `lib/redis-connector.js` | commands not yet run, replies not yet handled | issue, run, call back, lose the connection | Redis |
| Process life cycle: `app.js`, `pm2.json` | running or not | start, SIGINT/SIGTERM, crash, restart | all |
| Private messages: `sendmsg-handler.js`, `sendmsg-notice.js` | none | send to every session of a user | notice sender |
| Vendored Redis 5.0.2: `server.c`, `db.c`, `multi.c`, `rdb.c` | the keys above; change counter, save status, clients' queues and watched keys, saving child, dump file | commands, MULTI/EXEC/WATCH, SAVE, BGSAVE, save points, FLUSHALL, SHUTDOWN, signals, restart | every process |
| Vendored Redis 5.0.2: `dict.c` | the two tables of the keyspace, rehash index, iterators, scan cursors | add, find, delete, clear, resize, rehash, KEYS, SCAN | the commands, the cron |
| Vendored Redis 5.0.2: `networking.c`, `ae.c`, `blocked.c` | per client: query buffer, static reply buffer, list of reply blocks, bytes sent, flags, write handler; clients to write to, to look at again, to free; the pause | accept, read, parse, add replies, write, limit, pause, close | the commands, every process |
| HTTP service, logging, FreeSWITCH client, MySQL queries, browser test page | none that the IM service reads | - | - |

What is hard here, and what makes a component correct:

* **Online users.** A login looks the user up, sends kicks, looks the user up
  again, closes the local sessions, writes its hash and only then registers
  itself: seven or more turns, each a chance for another login, a close, a
  kick, a crash or a lost connection. Correct means: whoever is registered can
  be found; no hash survives its session on a running server; a finished login
  has displaced all sessions it saw; and it heals what a crash left.
* **Live rooms.** "Does the room exist?" and the write that relies on it are
  several commands apart, and `ctx.roomId` is set by callbacks of requests that
  a client may pipeline. Correct means: an id is given to one room ever; closing
  removes room and members in one step and tells those it removed; `ctx.roomId`
  tells the truth; closing a connection leaves its room; requests are answered.
* **Relay and life cycle.** Kicks are late, lost with their sender, or arrive at
  a websocket that began to close. Correct means: displaced sessions end.
* **Notices.** A private message looks the receiver up, and then once more per
  session found; each copy is numbered by whichever process sends it. Correct means:
  a session gets what it is due, numbered without gap, in order where one server
  handles it and no session of the user ends, and in a bounded number of copies.
* **Redis.** A forked child writes a snapshot while commands go on, counts what it
  saved when it is reaped, and may fail, be killed or outlive its server; an EXEC runs
  over several commands. Correct means: a restart finds a whole commit, no older than
  the last snapshot; no change is forgotten by the counter; a shutdown loses nothing.
* **The hash table.** Buckets move one at a time inside other operations, under
  iterators and cursors. Correct means: lookups are exact at every moment, KEYS and
  SCAN miss nothing, a resize ends.

* **Connections to Redis.** Replies pass through a buffer, blocks and lengths filled in
  afterwards, and are written in pieces by whoever is responsible at the moment. Correct
  means: one stream in order, and never a reply or a command that nobody attends to.

The full list of hazards with their lines is in `PROJECT.json`.

## 2. Modules

| Module | Content |
|---|---|
| `Session` | login, displacement, logout, relay of kicks, exit, restart, lost Redis connection |
| `MCSession` | instances of `Session` |
| `SessionProofs` | the directory of online users, displacement, healing |
| `Room` | rooms and members, every room handler as a chain of commands, broadcast, clean-up on close |
| `RoomRegistry` | abstract specification: what the room keys promise |
| `MCRoom` | instances of `Room` |
| `RoomProofs` | type correctness of `Room` |
| `RegistryProofs` | inductive invariant of `Room`; `Room` implements `RoomRegistry` |
| `AnswerProofs` | which requests of `Room` may stay unanswered; who hears of a close; `ctx.roomId` tells the truth |
| `Notice` | messages, broadcasts, entries and leaves: lookup, local send, relay, numbering |
| `MCNotice` | instance of `Notice` |
| `NoticeProofs` | numbers and copies of the notices a client gets |
| `DurableStore` | abstract specification: what a Redis with snapshots promises |
| `RedisServer` | commands, transactions, snapshots, shutdown, crash and restart of Redis |
| `MCRedis` | instance of `RedisServer` |
| `RedisProofs` | inductive invariant of `RedisServer`; it implements `DurableStore` |
| `Dict` | the hash table of the keyspace: resizing, rehashing, KEYS, SCAN |
| `MCDict` | instance of `Dict` |
| `DictProofs` | lookups stay exact during a resize; KEYS returns each key once; SCAN misses none |
| `ReplyStream` | abstract specification: the replies of a connection are one stream |
| `Networking` | connections and event loop of Redis |
| `MCNetworking` | instance of `Networking` |
| `NetworkingProofs` | no reply and no command is left unattended; the books agree; `Networking` implements `ReplyStream` |

### How state and actions correspond to the code

**One turn, one action.** A process is single threaded, so an action is one
turn of its event loop (a callback up to the next await or issued command) or
one command run by Redis. A handler's trailing effects are in the action of the
turn that performs them.

**The Redis connection** (`wire`, `inbox`). Each process has one pipelined
node_redis client. `wire[h]` holds issued commands, which Redis runs in order
(`Exec...`); `inbox[h]` holds replies, whose callbacks run in order (`Reply...`).
`LinkDrop` is the client's behaviour on a lost connection: all outstanding
commands, run or not, call back with an error. The callbacks treat an error
like an empty answer, or go on as if nothing happened, and so do the models. In
`Session` several DELs issued together are one entry that Redis works off key by
key in any order.

**Websockets** (`ws`). `open`; `kicked`: the server called `close()` and still
receives; `closing`: the client closed or an error stopped reading, the close
event is to come; `closed`; `dead`: the process ended.

**Session.** `keys` are the online-user hashes; `reg` is the `userList`, one
entry per socket at its home server; a request is a login with phases
`kick` (first lookup), `sweep` (second lookup), `set` (HMSET issued), then
`done`, `hung` (a promise never settled) or `lost` (process ended); or `again`: it is
answered at once because the socket is registered already. `todo` and
`found` are the loop of `getUserWithId`. `net` is a set of kicks: each has its own
socket.io connection, so there is no order; notices of a process that exits may
be lost. `Matches` is what the key pattern `OnlineUserKey-<u>-*` selects: it
includes users whose id extends `u` by a hyphen, which `MatchesHyphen` shows.
`Crash` and `Shutdown` leave some prefix of the issued commands to Redis; the
signal handler issues its DELs and exits at once, so any part of them may be
lost. `Restart` waits until Redis has worked off the old connection's commands.
A throw out of the relay handler (`RelayThrow`) ends the process.

**Room.** A task is a chain of callbacks: a request in one of the client's slots
or the clean-up of a close or error event. `task[t].pc` is the command it waits
for, `user` is the user object the handler found in the `userList` when the request came
(requests are accepted before login and fail when a callback dereferences the
null user: `Hang`), `data` whether the request had a `req_data` (without one the handler
throws inside the promise's executor: `Throws`), and the other fields hold what Redis answered.
A client may send any value as a room: `Name` is the numbers that INCR gives out, and
`Pattern`, everything else. The keys of a room and of its members are built from the name
literally, but the existence check is KEYS, which takes the name for a glob: `Matches` are the
numbers that a pattern finds. Session is reduced to what these handlers see of it: `ws`, the `entry` of
the socket in the `userList`, and `asked`, the users its login requests named. As the code looks
for an entry only when a login request arrives (`LoginRequest`), several logins may be under
way on one socket, of several users; each of them makes or replaces the entry when it ends (`Login`),
after the close too. `Exit` is an exit together with the restart, and drops the commands
that had not run; a behaviour in which some of them still run is one in which they ran just
before the exit.

**Notice.** An origin is a request or the close of a socket; its tasks are the
handler's own chain (`Main`) and one per call of `NoticeSender.send` (a `Copy` number
for a private message, the member's name for the room). The Redis connection is as in
`Room`, with the commands as records. The loop of `getUserWithId` awaits one HGETALL after
the other, and node_redis calls back for every reply of one read from the socket before what
awaits any of them goes on. So `ReplyKeys` issues the first HGETALL; `ReplyHgetall` notes what it read,
puts the lookup into `ready` and chooses how many more replies the read holds (`chunk`);
their callbacks run first, and then `ReadOn` and `FindEnds` take the lookups of `ready`, those that read
on before those that end. No other event of the process comes in between (`Free`).
`Deliver` is the loop of `NoticeSender.send` over what was found, with one DEL for each local
session that cannot be sent to; `RelaySend`, `RelayDrop` and `RelayThrow` are the relay
handler. `noticeId` is the counter in a session's User object; `got` is what the client has
received. `due` is history: what a request has to tell whom, taken when the request comes and
taken back by the SREM of a leaver; so is `ended`, the sockets whose hash was deleted.
A login begins at its HMSET: its kicks, which are notices to other sessions of the user and
take a number there, are in `Session`.

**Reads in the other modules.** `Session` and `Room` take each reply for a read of its own: a
continuation runs in the step of its callback. In `Room` every command but the HGETs of a list is issued in
a callback itself, and `ctx.roomId` is set by continuations that are equally far behind
their callbacks, so they keep the callbacks' order. In `Session` a lookup that
goes on later has noted what it found at its callback already.

**RedisServer.** One event loop: an action is a command, a turn of `serverCron`, or a
step of the saving child, the disk or the machine. A key is a number or absent, and
the three kinds of commands (always changes, changes if there, reads) stand for those
the service issues. EXEC is `ExecBegin`, one `ExecStep` per queued command and
`ExecEnd`, so that a crash may fall in between; nothing else runs meanwhile.
`serverCron` is split into `CronShutdown`, `CronReap` and `CronSave`, as if each were done
by a tick of its own. A save point's seconds are abstracted to "may have passed"; its
number of changes is kept. `Replace` is the rename that makes a snapshot the dump.
`orphans` are children whose server ended without them: they still rename.
`log`, `durable`, `imageAt`, `seen` and `overwritten` are history.

**Dict.** A table is its size and its keys; the bucket of a key follows from the hash,
and the order of a chain is left out. `hash` is chosen once, as by the seed of the
process. `Rehash` is `dictRehash(d, 1)`, the only form in which buckets move here:
`CronRehash` takes the buckets of `dictRehashMilliseconds` one by one, because its
millisecond may end after any. `canResize` follows the saving child. `Advance` and
`Expansions` are the cursor arithmetic of `dictScan`, at `Bits` bits.

**Networking.** `at` is where the event loop is: in `beforeSleep`, handling the events of a
poll, or at `serverCron`. `job` is the handler under way: `processInputBuffer`, one turn of
its loop a step, or `writeToClient`, one write a step; only the peers run beside it. `cl[c]`
is the client structure; its `flags` are the code's flags, the lists of clients being the
clients that carry the flag (each list and its flag change together). A byte of a reply
is its position in the replies of its connection, so that `wire` shows what is lost,
repeated or swapped. A command is a header and its arguments, which may arrive
apart. `paused` is "over" when the end time is past already (a pause of 0); otherwise only
`serverCron`, which reads the clock, sees the end. `Slack` is what the allocator adds to a
block. A call takes as much as the socket has room for. SMEMBERS stands for the replies with
a deferred length, `call` for all others.

**Left out on purpose**: wording, time stamps, log lines, in `Room` the order of notices,
answers that change nothing (heartbeat, "you are not in live room."), the
connect and login times in the hash.

**History variables** (`prior`, `torn` in `Session`, `closed`, `owed` in `Room`, `due`, `ended` in
`Notice`, `made` in `Networking`, those named above in `RedisServer`, `keys` and the `owed`, `got`, `twice` fields in
`Dict`) decide nothing the code does. (`Delete` during a KEYS command is allowed for keys
that the iterator has returned, which is how the callers of a safe iterator use it.)

## 3. Runs

Bounds: `LoginsPerSocket` and `MaxLogin` limit login requests, `Slot` and
`MaxRequest` room requests, `AskedRoom` the rooms clients name, `LoginAs` the users of a
socket's logins, `Ask` and `Leaver` the requests and closes in `Notice`, `MaxExit` and
`MaxDrop` failures. The smallest bounds that let two logins, or a room's creation,
an entry, and a close or a leave, meet in every order are used. `CHECK_DEADLOCK FALSE` in
the runs of `Session`, `Room` and `Notice`: clients are finite and may stop sending, after
which nothing is left to do. The modules of Redis always have a step to take, and
deadlock is checked. The symmetries swap
sockets (with their users and servers) that the instance does not tell apart; runs
with liveness properties use none, and `ImplementsRegistry` in `room_two` has no
liveness part.

| Run | Instance | Checks |
|---|---|---|
| `session_race` | one user, three sockets on two servers, no failures | `DirectoryInv`, `Displaced` |
| `session_local` | one user, two sockets on one server, three logins with a repeated one, one exit with restart, one lost Redis connection | `DirectoryAccurate`, `Heals` |
| `session_remote` | two users with overlapping key patterns on two servers, one exit with restart, fairness | `DirectoryInv`, `DisplacedGone`, `LoginEnds` |
| `room_two` | two users on two servers, three requests that name room 1, the pattern `*` or no room (without `req_data`), any number of logins, one exit | `TypeOK`, `ClosedAreTold`, `RegistryInv`, `ImplementsRegistry` |
| `room_pipe` | one user, two pipelined requests of three, room 1 and the pattern `*`, one lost Redis connection, fairness | `MembershipBacked`, `OnlyListHangs`, `ChainsEnd`, `CloseLeavesRoom` |
| `notice` | user a with one session, user b with one on each of two servers; two requests out of a message, a broadcast and an entry; a login and a close meanwhile; reads of any number of replies; fairness | `NumbersInv`, `CopiesBounded`, `InOrder`, `Delivered` |
| `redis_durable` | one client with transactions and one without, one key, one fault, one crash, three commits in memory; fairness | `TypeOK`, `DirtyCountsAll`, `WatchedUnchanged`, `CleanStop`, `StopWrites`, `ImplementsStore`, `ChangesReachDisk`, `WritesResume` |
| `redis_dict` | three keys, words of three bits, two hash functions (with and without collisions), tables of 1 to 8 buckets; fairness | `TablesInv`, `KeysOnce`, `ScanComplete`, `ScanForward`, `RehashEnds` |
| `redis_pipe` | two connections, scripts of up to four commands, pieces of 1 and 3 bytes, buffer and block of 2, writes and socket of 3, an output limit of 12; fairness | `NoReplyStranded`, `NoCommandStranded`, `BooksInv`, `QuitIsLast`, `ImplementsStream`, `RepliesArrive`, `CommandsRun`, `LastReplyCloses` |
| `session_single` | violation of `SingleSession` | two logins at once both stay |
| `session_relay` | violation of `NoticeKillsNoServer` | a relayed kick to a closing websocket ends the process |
| `room_orphan` | violation of `ClosedIsEmpty` | an entry that races a close leaves a member in a closed room |

Four invariants have named parts: `DirectoryInv` is `TypeOK`, `RegisteredIsListed` and
`DirectoryAccurate`; `NumbersInv` is `TypeOK` and `IdsConsecutive`; `TablesInv` is `TypeOK`,
`MovedBehind` and `LookupExact`; `BooksInv` is `TypeOK`, `Accounted` and `HandlerNeeded`.

Why these bounds suffice: in the runs of `Room` one pattern that matches every room is the
worst a name can do, and `Login` may replace an entry or come after the close; two users on one
socket, which `MembershipBacked` excepts, are left to the theorems. In `notice` two requests are the fewest that can
overtake each other, and b's second session logs in during a lookup; a third user would
only add another independent lookup; a read may hold all replies that have arrived. In `redis_durable` two INCRs in one transaction and
a limit of 1 for numbers give a transaction that is half done, a command that fails and a
DEL that changes nothing; one fault and one crash give a child that fails, an orphan, and
an orphan beside a child of the next server. The theorems hold for every bound. In
`redis_dict` three keys in tables of 1, 2, 4 and 8 buckets grow and shrink by one and
by two powers, with two keys that collide in every table but the largest; a rehash step
skips at most two empty buckets, so it also ends without moving any. In `redis_pipe` every
size is one that some reply exceeds and another does not: a piece fits the buffer or goes
to the list, a block is filled in part or passed over, a length is glued or gets a block,
a write ends in the middle of a block, at the socket's or at the turn's limit, and one or
two replies of SMEMBERS stay within the output limit or exceed it. The scripts put each
kind of command before and behind a long reply, malformed headers and malformed arguments, and
more behind a QUIT than the query buffer may hold; the pause is tried against the other connection's input.

The violation runs state what a comment of the source says and show that the code
does something else; `PROJECT.json` quotes the lines under `findings`.

**Fairness.** Weak fairness of Redis running a command, of an event loop handling
the reply at the head of its inbox, of the relay delivering a notice (socket.io
reconnects), and of the closing handshake (ws ends it with a timeout). Clients,
signals, failures and restarts get none. That is all the service relies on: there
are no timeouts or retries of its own. In `Notice` it is one condition, that one of these steps is
taken while some are possible: it asks less, and is enough because requests, logins and closes
are bounded and each step uses something up. In `RedisServer` the cron has strong fairness
(the event loop returns to it between commands, at which it is enabled again and again),
a child ends and an EXEC goes on under weak fairness; bounded faults mean that saving
works again at some time. In `Dict` the cron has strong fairness, a KEYS command runs
to its end, and a saving child ends, so that resizing is allowed again. In `Networking` the
event loop runs: whatever the state, it has a next step, so that "infinitely many steps of
`Server`" is what weak fairness of it would say. A pause ends, since it has an end
time, and a peer that is there takes what arrives; peers may leave at any time.

**Mutants.** Each property of each passing run is tied to a mutated definition
(dropped guard, missing command, wrong order) in `PROJECT.json` which violates it.

### Behaviours the models contain and no property excludes

Reading the models, one can reach these states; they are consequences of the
code and bound how the properties are stated.

* A connection that closes while its HMSET is under way is registered afterwards
  and stays registered until the next login of the user.
* Two logins pipelined on one socket: the second finds and closes its own socket. A close
  event between their callbacks deletes the hash, and the second registers all the same:
  registered, and not to be found. With two users, the second takes the first one's entry
  in the `userList`, and the first one's hash stays. `RegisteredIsListed` and `Displaced`
  are therefore about sockets with one login under way (`OneLogin`), `DirectoryAccurate` about
  sockets that log in one user (`OneUser`). The attempt to prove them without found this.
* `u-1`'s sessions match the pattern of `u`, and a login of `u` displaces them.
* `roomOut` of another room clears `ctx.roomId`; the user stays a member of the room
  it was in, and is told that it is in no room.
* A connection that closes does not always leave its room. A close event during `roomIn` finds
  `ctx.roomId` not yet set; a notice that fails first takes the entry out of the `userList`, and
  the close event finds no user; a request that still arrives while the client has not
  answered the server's close may change the room. `CloseLeavesRoom` is about a connection that
  begins to close logged in, in a room and without requests under way, and names what can still come
  between.
* Two users who enter at the same time are not told of each other.
* The existence check of a room is a glob: `*` or `[0-9]` is found as long as some room matches, and
  entering it makes a member of `RoomMemberKey-*`, a room that nobody created. A roomClose of
  it succeeds and deletes that member set only. `RoomRegistry` says what is left of the check.
* A second login of a socket, sent before the first has ended, registers it again: after an
  error event and its clean-up, the close event may then clean up once more. If it is of another user,
  it takes over `ctx.roomId`: the socket is recorded to be in a room that lists only the first user.
  `CleanUpOnce` is about each event by itself, `MembershipBacked` about sockets whose logins are all of
  one user.
* A room request before login gets no answer; nor does one without `req_data` where the handler
  reads it (roomIn, roomOut, roomClose, sendLiveChat), which throws in the promise's executor;
  `roomList` gets none if a room is closed between KEYS and HGET, or if Redis fails. `OnlyListHangs`
  says that these are all the cases; what never answers has ended for `ChainsEnd`.
* A session that ends between KEYS and HGETALL, or an HGETALL that fails, leaves the promise of the
  lookup unsettled: a login or a message that listed it hangs. `LoginEnds` counts that as an end and
  `Delivered` excuses it; `hung` is entered there only.
* A user with n sessions gets n copies of a private message on each of them.
* A younger message overtakes an older one when a session of the receiver is logged out
  between their lookups: the younger has less to read. With its KEYS reply in the same read
  as an HGETALL reply of the older it is even first to ask. `InOrder` is about users of whom no session
  has ended.
* Redis: the child of a server that was killed may rename its image over a newer dump;
  `DurableStore` has `Overwrite` for it, and the server's change counter does not notice.
* Redis: after a failed background save with nothing left to save, no save point is
  reached and no write accepted, so writes stay refused until BGSAVE, SAVE or a restart.
  `WritesResume` excepts this case.
* Redis: after CLIENT REPLY OFF or SKIP a QUIT or a protocol error flags the client to be closed
  after its reply, and there is no reply: nothing is written, so nothing closes it. The
  comment above `processMultibulkBuffer` promises reply and close. `LastReplyCloses` is about
  clients with a reply that waits.
* Redis: a client that is to be closed after its reply is still read from, and the limit on the query
  buffer closes it at once, with the reply not yet sent. The attempt to prove `QuitIsLast` without this
  case found it; the property excepts it, and a script of `redis_pipe` reaches it.
* Members are user ids, so the clean-up of a displaced connection takes the new
  connection of the same user out of the room: `MembershipBacked` is about users
  with one connection (`Sole`).

## 4. Proofs

TLAPS proves the theorems below for every value of the constants.

### Session

Under the named assumptions of `Session` (`HomeAssumption`: sockets have a server;
`MatchesAssumption`: the pattern of a user matches the user; `BoundAssumption`: bounds are
naturals; `NoUserAssumption`, `NoReqAssumption`: the sentinels are no users and no requests),
`SessionProofs` shows

* `DirectoryHolds`: `Spec => []DirectoryInv`;
* `AccurateHolds`: `Spec => []DirectoryAccurate`;
* `DisplacedHolds`: `Spec => []Displaced`;
* `HealsHold`: `Spec => []Heals`.

All four follow from one inductive invariant, `IInv`. A login is spread over many
turns, and each turn relies on what earlier commands of the same connection did, so most of
`IInv` is about commands and replies that are on their way:

* `Queues` and `Single`: a login waits for one command at a time, which is in the `wire` or in the
  `inbox` of its own server, once.
* `Life`: a login has a websocket; a stopped process has only dead ones, a dead one has no
  login and no user left; a registered user has logged in.
* `Origin`: the keys in Redis, those that DELs name, and those that lookups list and find
  were written by the HMSET of some login.
* `Waits`: a login that writes its hash has the HMSET or its reply under way.
* `Writing`: until the only login of a socket is registered, nobody can delete its hash: no DEL
  of it is under way, and no lookup of its own server has found it. A lookup can list it only
  after the HMSET, and such a lookup is behind it in the queue.
* `Listed`: a registered session is listed, and no DEL of its hash is under way: whoever
  issues one takes the session out of the `userList` in the same turn.
* `Looked` and `Displacing`: a session in `prior` (which has logged in) is among the keys that the
  lookup will list, has still to read, or has found; or was sent its notice. In the second
  lookup the same for local sessions, until the login has closed them.
* `Healing`: for a hash that a crash left, the DEL that the failed kick issues is ahead of the
  second lookup in the same `wire`; so that lookup, and the HMSET after it, come later.

TLC finds `IInv` true in all states of `session_local` and `session_remote`.

### Room

Under the named assumptions of `Room` (sockets have a server and users that they may log in; request slots are
not called `close` or `error`; names are numbers or patterns, and patterns match numbers; bounds are
naturals; `NoRoom` is no name and `NoUser` no user):

* `TypeCorrect` (`RoomProofs`): `Spec => []TypeOK`. One lemma per kind of step; the
  content is in the chains: records stay well formed through commands, callbacks,
  the loop over the room list and a lost connection, ids stay numbers, and no member is a null user.
* `RegistryInvariant` (`RegistryProofs`): `Spec => []RegistryInv`.
* `RoomImplementsRegistry` (`RegistryProofs`): `Spec => Registry!Spec`, the refinement
  that `room_two` checks.

**Why an invariant is needed.** A step of `RoomRegistry` opens only ids that were never
opened, and lets members join, and rooms close, only for numbers that were opened and patterns
that match one. `ExecHmset`,
`ExecSadd` and `ExecClose` check none of this: they rely on what happened earlier in
their chain. `RegistryInv` is that memory:

* `OneCommandEach`: each queue holds a chain at most once, chains in a queue belong to
  that server and wait, and none is in both queues; otherwise an HMSET could run
  twice and reopen a closed id.
* `CleanUpOnce`: a clean-up of the error event runs only behind that event, one of the close event
  only behind that one, and neither event comes twice, so that neither chain is started while it runs
  (needed for `OneCommandEach`). A connection may well be cleaned up by both.
* `FreshIds`: ids between INCR and HMSET are at most `maxId`, unused and pairwise
  different.
* `FoundExisted`: a chain past its KEYS check is about a number that was opened, or about a
  pattern that matches one that was.

The argument has three layers: what Append, Tail and concatenation do to an
injective sequence; how starting, continuing and ending a chain, running a
command, losing the connection and exiting move chains between queues; and, per
action, the four parts of the invariant. `RegistryStep` then maps each action to a
step of the registry or a stutter. TLC checks the same `RegistryInv` in `room_two`.

* `AnswersGiven` (`AnswerProofs`): `Spec => []OnlyListHangs`. The strengthening: only a
  roomList waits for HGET, the one command after which a chain with a user gives up; and a request
  without `req_data` has no chain at all.
* `MembersTold` (`AnswerProofs`): `Spec => []ClosedAreTold`. A chain that waits for "exec" may
  not have run it yet; `ToldInv` says that the reply that names the member is in the inbox,
  and `OneCommandEach` that no other command of that chain changes it there.
* `RoomRecordTrue` (`AnswerProofs`): `Spec => []MembershipBacked`. The property is about
  idle connections, and says nothing of the pipelined requests that make it hard.
  `ClaimInv` does: number the replies that wait, with `ctx.roomId` as reply 0; each claim
  "you are in room n" is backed by the member set, or n was closed, or a later reply takes
  it back. It is kept because Redis runs the commands of a server in the order in which
  the server handles the replies. `ChainInv` adds that entries and chains of a socket are of users
  that its logins named (so that `Sole` excludes foreign SREMs), and that only clean-ups leave
  without telling `ctx`.

### Notice

Under `NoticeAssumption` (sockets have a server and a user, and are finitely many; natural bounds;
sockets and users are no numbers) `NoticeProofs` shows

* `NumbersHold`: `Spec => []NumbersInv`;
* `CopiesHold`: `Spec => []CopiesBounded`.

A copy too many could come from a send that is carried out twice, or from a send that
delivers to a session itself and relays to it as well. So the proof follows chains and not
notices. The replies a server has not handled, and behind them the commands Redis has not run,
are one `Line`, in which Redis only moves the border; in it every chain that waits has
exactly one place, with the command that its `pc` names, and a chain that ended has none. `Origins`
and `Chain` say which states a request's own chain and its sends may be in: sends run only once the request's own
chain has found whom to tell. `Lookup` says that a lookup lists, reads and finds sessions of its
addressee only, and each once. This part is `Base`. A lookup between its callback and its
continuation has no place in the line but one in `ready`, once and on its own server (`Turn`);
without that a continuation could run twice. `Ledger` adds,
for each client, an injective map from the notices it holds to the sends (`Source`): every notice is of a
send of its own, which is done and has no relay to this client on its way. A send can be done
only once, so it adds one notice, and the relay that delivers a notice is used up. `Counted` adds that the counter
of a session counts the notices of its client. `CopiesBounded` follows by counting: at
most one send per found session and request, or per member. The argument has
one lemma per way the line changes (a command is issued, run, handled, dropped), and one per
callback.

The order of messages (`InOrder`) is left to TLC. It rests on a race of two lookups, each with as
many rounds as it listed sessions, that may be called back in one read or in several.

### RedisServer

Under `RedisAssumption` (finitely many keys, save points of at least one
change, natural bounds), `RedisProofs` shows:

* `TypeCorrect`, `ChangesCounted` (`DirtyCountsAll`), `OptimisticLock` (`WatchedUnchanged`),
  `ShutdownSaves` (`CleanStop`), `WritesStop` (`StopWrites`);
* `ServerImplementsStore`: `Spec => ImplementsStore`, the refinement that `redis_durable` checks.

The invariant is `ServerInv`. `HistoryInv` ties the dump, the keyspace and the child's image to
the history of commits: without the order `durable <= imageAt <= Len(log)` a child that ends
late would undo a SAVE. (That it does not is because SAVE and SHUTDOWN kill or refuse
the child.) `DirtyInv` says of a running or finished child that `dirty_before_bgsave` is part
of `dirty`, and that if nothing was added since, the keyspace is the child's image:
`DirtyCountsAll` alone is not inductive, as the reaping of a child subtracts. `DownInv` holds what a
stopped process lacks. `StopInv`, for `CleanStop`, adds that there are no orphans before the
first crash. The refinement maps `mem` to what clients see: the keyspace between
commands, the last commit during EXEC or while the server is down.

### Dict

Under `DictAssumption` (finitely many keys, at most half as many as the largest table has
buckets; that size is reached from the initial one by doubling; hash functions yield words)
`DictProofs` shows `TablesHold` (`TablesInv`), `KeysReturned` (`KeysOnce`), `ScanReturnsAll`
(`ScanComplete`) and `ScanMovesForward` (`ScanForward`). `TablesInv` is inductive as it stands:
`Sound` says what it says of a dictionary, and there is one lemma per function of `dict.c` (`Expand`,
`FinishRehash`, `Rehash`, `RehashStep`, adding and deleting), so that an operation that calls several of
them puts their lemmas together. `FirstBucket` is the part that the assert in `dictRehash` is
about: because of `MovedBehind` the search for a bucket with keys ends inside the table. For KEYS
the invariant is `IterInv`: all keys that the iterator owes, and none that it has returned, are
`Ahead` of its position, where a key of the second table is ahead as long as the iterator is in the first. It is
kept because no bucket moves while a safe iterator runs, and it has to be shown for a rehashing
that begins under the iterator. TLC finds `IterInv` true in all states of `redis_dict`.

SCAN is why `dictScan` has its long comment, and the proof is that comment made exact, for
words of any width:

* *Reversal.* `Rev` is defined by its bits. `Part` adds up the weights of the lowest bits of a
  word; the whole sum is the reversed word (`RevIs`), so that reversing is its own inverse.
* *Buckets are intervals.* The words that share the lowest b bits, that is a bucket of a table
  of `Pow2[b]`, follow each other in the order of the reversed words, up to `End(v, b)` (`Blocks`,
  `EndIs`). This holds in every table at once, and is all that a resize leaves unchanged.
* *One step.* `Advance(v, Pow2[b])` is the word at `End(v, b)`, or 0 behind the last (`AdvanceIs`).
* *The loop over the larger table.* Each turn visits one bucket and stays within the bucket of the smaller
  table until its end (`LoopTurn`). So the loop ends, there is exactly one function that it computes,
  and this is the keys from the cursor's bucket to the end of the smaller table's, with the cursor
  behind it (`ExpansionsIs`).
* *One call.* `ScanIs`: whatever the two tables are, a call visits an interval of reversed
  words that begins at or before the cursor and leaves the cursor at its end (`Visits`).

With this the invariant `ScanInv` is short: what a scan owes is not behind its cursor in the
order of the reversed words. No other step of the dictionary touches cursor or hashes. TLC finds `ScanInv` true in all states of
`redis_dict`.

### Networking

Under `NetworkingAssumption` (scripts of commands; sizes, buffers and limits are naturals, and
there is a longest piece of a reply, as the refinement needs a longest reply) `NetworkingProofs` shows

* `RepliesWatched`: `Spec => []NoReplyStranded`;
* `CommandsServed`: `Spec => []NoCommandStranded`;
* `BooksAgree`: `Spec => []BooksInv`;
* `LastReplyIsLast`: `Spec => QuitIsLast`;
* `ServerImplementsStream`: `Spec => ImplementsStream`, the refinement that `redis_pipe` checks.

The first two need no assumption on the sizes. `prepareClientToWrite` schedules a client only if nothing waits for it yet, so each
operation on the output relies on what the earlier ones left: `NetInv` says of every
client, also of those not connected, that what it holds is attended to (`RepliesOK`), the same
for its input (`CommandsOK`), that only connected clients hold anything (`Shape`), and that
the handler under way serves a connected client, with its write handler installed if it is
`sendReplyToClient` (`JobOK`): otherwise a write that is cut short would leave its rest to
nobody. The lemmas on the output say that its operations keep the socket, the input, the
handler and the flags (`Kept`) and leave an attended client attended; one lemma per handler
carries this to the steps.

The other three follow from `BooksIInv`, which adds what the output *is*. `OutOK(k, w, m)` says that
the static buffer and the joined blocks of client `k` are the bytes from `w - sentlen` to `m` of the
stream of replies, where `w` were written and `m` were made; that `reply_bytes` is the size of
the blocks; and that `sentlen` ends short of the block that is being sent. Each
operation on the output (copying to the buffer, appending to the last block, a new block, the
place for a length and filling or gluing it, one `write`, dropping a block that was sent) has a
lemma that takes `OutOK` to `OutOK` with the new `w` or `m`; the sums and concatenations over
the list of blocks that they need are proved once for all lists. `HandlerOK` says that the
write handler is there for data, is not there for a client in `clients_pending_write`, and is
the one at work. `BooksStep` shows for every step that it keeps `BooksIInv` and that what it
does to the replies is one of five things (`Shown`): nothing, a reply made, a part written, a
connection opened, some closed. `QuitIsLast` is about what is made and what is closed,
and each of the five is a step of `ReplyStream` or a stutter (`StreamStep`).

**Induction over data.** The library's induction theorems cannot be used here, and neither can
RECURSIVE operators. The proofs of `Networking` and `Dict` therefore state recursion as recursive
functions (`ReplySize`, `Joined`, `Pow2`, the loop of `Expansions`), show that such a function exists, and argue from a least
counterexample, whose existence is a theorem about the order of the naturals (`NatMin`, `Least`, `UpTo`).

### Model-checked only

Every invariant, action property and refinement of the passing runs but `InOrder` is also a theorem. What
else is left to TLC is everything temporal with fairness (`ChainsEnd`, `CloseLeavesRoom`, `RepliesArrive`, `CommandsRun`,
`LastReplyCloses`, `DisplacedGone`, `LoginEnds`, `Delivered`, `ChangesReachDisk`,
`WritesResume`, `RehashEnds`): liveness and ENABLED are out of the prover's reach.

## 5. Not modelled

* In `Notice`: the roomOut request (a close does the same), the notice of a closing room
  (`ClosedAreTold` in `Room`), a second login on one socket (it starts the numbers again), the kicks of a
  login, a lost Redis connection, a restart, overlapping key patterns (all in `Session` or `Room`).
* A Redis that falls back under a running service. `RedisServer` shows how far it falls
  (to the last snapshot), so `RoomMaxIdKey` can go back and an id be given twice; `Session`,
  `Room` and `Notice` take Redis to be always there.
* The offline queue of node_redis as something apart from the pipeline.
* In `RedisServer`: SAVE, BGSAVE, FLUSHALL and SHUTDOWN inside a transaction (Redis allows them
  there; the service's only transaction, that of `delRoom`, has none), expiry and
  eviction (no key has a time to live, no memory limit is set), the layout of the RDB
  file, a child that is between its rename and its exit when it is killed, FLUSHALL's
  narrowing of the change counter to an int.
* In `Dict`: random keys, unsafe iterators, fingerprints, the order of chains, more than one
  iterator at a time (only one command runs).
* In `Networking`: inline commands, tokens that arrived in part (they stay in the query buffer like
  ones that did not arrive), blocked, protected, slave, master and scripting clients, CLIENT KILL,
  idle timeouts, soft output limits, blocks of no bytes, spurious events, writes that take
  less than fits. maxclients is reached by connections other than those modelled.
* The rest of the vendored Redis: replication, cluster, sentinel, append-only file,
  scripting, modules, streams, lists, sorted sets, the command-line client and the
  benchmark. It is third-party code of some 90 000 lines, of which the service
  configures and calls almost nothing: one master, no append-only file, strings, hashes and
  sets. What is modelled is what the service's data depends on.
* HTTP service (static files, a test route, a request counter per cookie), logging,
  FreeSWITCH client (unused), MySQL queries (dead code: no configuration, no
  caller), browser test page (its role is the clients of the models).

## 6. Plan

Done: `Session`, `Room` with `RoomRegistry`, `Notice`, `RedisServer` with `DurableStore`, `Dict`,
`Networking` with `ReplyStream`, and the proofs above: every invariant, action property and refinement
that a passing run checks, `InOrder` excepted, is a theorem. Next:

1. `Room` above `DurableStore`: what `RoomRegistry` keeps when the store falls back.
2. A proof of `InOrder`, from an invariant on the rounds that two lookups have still to go.
