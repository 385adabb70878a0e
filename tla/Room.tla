-------------------------------- MODULE Room --------------------------------
(***************************************************************************)
(* Live rooms: creating, closing, listing, entering and leaving a room and *)
(* broadcasting in it, for clients of several server processes that keep   *)
(* rooms and members in one Redis.                                         *)
(*                                                                         *)
(* Every handler is a chain of Redis commands with a callback after each;  *)
(* chains of different requests, of the same socket too, interleave. A     *)
(* server's commands share one connection: Redis runs them in issue order  *)
(* and the callbacks run in that order. The sessions (module Session) are  *)
(* reduced here to what the handlers see of them: the socket's entry in    *)
(* the userList, and the state of its websocket.                           *)
(*                                                                         *)
(* Rooms are created with the numbers that INCR gives. A client names a    *)
(* room by any value: the keys of members and of the room are built from   *)
(* it literally, but KEYS takes it for a glob pattern.                     *)
(***************************************************************************)
EXTENDS Naturals, Sequences, FiniteSets, Functions

CONSTANTS
    Server, Socket, User,
    Home,        \* the server a socket is connected to
    LoginAs,     \* bound: the users that a socket asks to log in
    Pattern,     \* names of rooms that are not numbers
    Matches,     \* the numbers that KEYS finds for such a name
    Slot,        \* bound: unanswered requests a client has on one socket
    AskedRoom,   \* bound: the names that clients use in their requests
    MaxRequest,  \* bound: requests that all clients send together
    MaxExit,     \* bound: process exits
    MaxDrop,     \* bound: lost Redis connections
    NoRoom, NoUser

\* What a client may send as a room: a number or anything else.
Name == Nat \cup Pattern

ASSUME RoomSocketAssumption ==
    Home \in [Socket -> Server] /\ LoginAs \in [Socket -> SUBSET User]
ASSUME SlotAssumption == {"close", "error"} \cap Slot = {}
ASSUME PatternAssumption ==
    Pattern \cap Nat = {} /\ Matches \in [Pattern -> SUBSET Nat]
ASSUME AskedRoomAssumption == AskedRoom \subseteq Name
ASSUME RoomBoundAssumption ==
    MaxRequest \in Nat /\ MaxExit \in Nat /\ MaxDrop \in Nat
ASSUME NoRoomAssumption == NoRoom \notin Name
ASSUME NoUserAssumption == NoUser \notin User

\* A chain of callbacks: a request in one of the client's slots, or the clean-up
\* that the close or the error event of a socket starts.
Task == Socket \X (Slot \cup {"close", "error"})

VARIABLES
    maxId,    \* Redis: RoomMaxIdKey
    rooms,    \* Redis: ids n with a hash RoomIdKey-n
    members,  \* Redis: pairs <<n, user>> with user in the set RoomMemberKey-n
    ws,       \* websocket of each socket, as in Session; lost with its process
    asked,    \* the users that login requests of the socket named, ever
    entry,    \* the user of the socket in the userList, or NoUser
    ctxRoom,  \* ctx.roomId of each connection
    task,     \* the chains
    wire,     \* tasks whose command is issued, per server
    inbox,    \* tasks whose reply has arrived, per server
    requests, exits, drops,
    \* History variables, read by no action.
    closed,   \* names of rooms that were closed
    owed      \* <<n, user>>: removed by a close of n and not yet told so

redisVars == <<maxId, rooms, members, closed>>
sockVars  == <<ws, asked, entry, ctxRoom>>
boundVars == <<requests, exits, drops>>
vars == <<maxId, rooms, members, ws, asked, entry, ctxRoom, task, wire, inbox,
          requests, exits, drops, closed, owed>>

Kind == {"none", "create", "close", "in", "out", "msg", "list", "leave"}
Pc   == {"idle", "incr", "hmset", "keys", "exec", "members", "sadd", "srem",
         "hget", "hung"}

\* pc is the command a task waits for; room is the name it is about, if any; user
\* is what the handler found in the userList; data says whether the request has a
\* req_data; id, list, users and ok hold what Redis answered. No SADD and no SREM
\* is issued for a null user.
TaskRecord ==
    {rec \in [kind : Kind, pc : Pc, room : Name, user : User \cup {NoUser},
              data : BOOLEAN, id : Nat, list : SUBSET Nat, users : SUBSET User,
              ok : BOOLEAN] :
        rec.pc \in {"sadd", "srem"} => rec.user # NoUser}

NewTask(kind, pc, n, user) ==
    [kind |-> kind, pc |-> pc, room |-> n, user |-> user, data |-> TRUE,
     id |-> 0, list |-> {}, users |-> {}, ok |-> TRUE]

NoTask == NewTask("none", "idle", 0, NoUser)

TypeOK ==
    /\ maxId \in Nat
    /\ rooms \subseteq Nat
    /\ members \subseteq Name \X User
    /\ ws \in [Socket -> {"none", "open", "kicked", "closing", "closed", "lost"}]
    /\ asked \in [Socket -> SUBSET User]
    /\ entry \in [Socket -> User \cup {NoUser}]
    /\ ctxRoom \in [Socket -> Name \cup {NoRoom}]
    /\ task \in [Task -> TaskRecord]
    /\ wire \in [Server -> Seq(Task)]
    /\ inbox \in [Server -> Seq(Task)]
    /\ requests \in 0 .. MaxRequest
    /\ exits \in 0 .. MaxExit
    /\ drops \in 0 .. MaxDrop
    /\ closed \subseteq Name
    /\ owed \subseteq Name \X User

Init ==
    /\ maxId = 0
    /\ rooms = {}
    /\ members = {}
    /\ ws = [s \in Socket |-> "none"]
    /\ asked = [s \in Socket |-> {}]
    /\ entry = [s \in Socket |-> NoUser]
    /\ ctxRoom = [s \in Socket |-> NoRoom]
    /\ task = [t \in Task |-> NoTask]
    /\ wire = [h \in Server |-> <<>>]
    /\ inbox = [h \in Server |-> <<>>]
    /\ requests = 0
    /\ exits = 0
    /\ drops = 0
    /\ closed = {}
    /\ owed = {}

-----------------------------------------------------------------------------
(* The environment of the handlers: connections and sessions.              *)

Busy(t) == task[t].pc \notin {"idle", "hung"}

Srv(t) == Home[t[1]]

\* Task t goes on with record rec, whose command is issued.
Run(t, rec) ==
    /\ task' = [task EXCEPT ![t] = rec]
    /\ wire' = [wire EXCEPT ![Srv(t)] = Append(@, t)]

Connect(s) ==
    /\ ws[s] = "none"
    /\ ws' = [ws EXCEPT ![s] = "open"]
    /\ UNCHANGED <<redisVars, asked, entry, ctxRoom, task, wire, inbox, boundVars, owed>>

\* A login request goes on (module Session) if the socket has no entry when it
\* arrives; that is not looked at again.
LoginRequest(s, u) ==
    /\ ws[s] \in {"open", "kicked"} /\ entry[s] = NoUser
    /\ u \in LoginAs[s]
    /\ asked' = [asked EXCEPT ![s] = @ \cup {u}]
    /\ UNCHANGED <<redisVars, ws, entry, ctxRoom, task, wire, inbox, boundVars, owed>>

\* A login comes to its end, perhaps after the close, and takes the place of the
\* entry that another login of the socket made.
Login(s, u) ==
    /\ ws[s] # "lost" /\ u \in asked[s]
    /\ entry' = [entry EXCEPT ![s] = u]
    /\ UNCHANGED <<redisVars, ws, asked, ctxRoom, task, wire, inbox, boundVars, owed>>

\* The server closes the websocket: a logout request or a newer login.
ServerClose(s) ==
    /\ ws[s] = "open" /\ entry[s] # NoUser
    /\ ws' = [ws EXCEPT ![s] = "kicked"]
    /\ UNCHANGED <<redisVars, asked, entry, ctxRoom, task, wire, inbox, boundVars, owed>>

ClientClose(s) ==
    /\ ws[s] = "open"
    /\ ws' = [ws EXCEPT ![s] = "closing"]
    /\ UNCHANGED <<redisVars, asked, entry, ctxRoom, task, wire, inbox, boundVars, owed>>

\* A notice to a user whose websocket is not open fails and logs the user out.
Expire(s) ==
    /\ entry[s] # NoUser /\ ws[s] # "open"
    /\ entry' = [entry EXCEPT ![s] = NoUser]
    /\ UNCHANGED <<redisVars, ws, asked, ctxRoom, task, wire, inbox, boundVars, owed>>

\* disconnect: log the user out and, if the connection is in a room, start
\* delRoomUser for it. A socket that is not registered is left as it is.
Disconnect(s, event) ==
    IF entry[s] # NoUser
    THEN /\ entry' = [entry EXCEPT ![s] = NoUser]
         /\ IF ctxRoom[s] = NoRoom
            THEN UNCHANGED <<task, wire>>
            ELSE Run(<<s, event>>, NewTask("leave", "members", ctxRoom[s], entry[s]))
    ELSE UNCHANGED <<entry, task, wire>>

CloseEvent(s) ==
    /\ ws[s] \in {"kicked", "closing"}
    /\ ws' = [ws EXCEPT ![s] = "closed"]
    /\ Disconnect(s, "close")
    /\ UNCHANGED <<redisVars, asked, ctxRoom, inbox, boundVars, owed>>

ErrorEvent(s) ==
    /\ ws[s] \in {"open", "kicked"}
    /\ ws' = [ws EXCEPT ![s] = "closing"]
    /\ Disconnect(s, "error")
    /\ UNCHANGED <<redisVars, asked, ctxRoom, inbox, boundVars, owed>>

\* The process of server h ends and its successor starts with nothing.
Exit(h) ==
    /\ exits < MaxExit
    /\ exits' = exits + 1
    /\ ws' = [s \in Socket |->
                 IF Home[s] = h /\ ws[s] # "none" THEN "lost" ELSE ws[s]]
    /\ entry' = [s \in Socket |-> IF Home[s] = h THEN NoUser ELSE entry[s]]
    /\ ctxRoom' = [s \in Socket |-> IF Home[s] = h THEN NoRoom ELSE ctxRoom[s]]
    /\ task' = [t \in Task |-> IF Srv(t) = h THEN NoTask ELSE task[t]]
    /\ wire' = [wire EXCEPT ![h] = <<>>]
    /\ inbox' = [inbox EXCEPT ![h] = <<>>]
    /\ UNCHANGED <<redisVars, asked, requests, drops, owed>>

-----------------------------------------------------------------------------
(* Requests. user is looked up when the request arrives and may be null.   *)

\* Messages still arrive while a close the server started is unanswered.
Arrives(t) ==
    /\ t[2] \in Slot /\ ~Busy(t)
    /\ ws[t[1]] \in {"open", "kicked"}
    /\ requests < MaxRequest
    /\ requests' = requests + 1
    /\ UNCHANGED <<redisVars, sockVars, inbox, exits, drops, owed>>

Begin(t, kind, pc, n) ==
    Arrives(t) /\ Run(t, NewTask(kind, pc, n, entry[t[1]]))

\* The handler throws in its promise's executor, where it reads a field of the
\* req_data that the request does not have: the promise is never settled.
Throws(t, kind) ==
    /\ Arrives(t)
    /\ task' = [task EXCEPT ![t] =
                   [NewTask(kind, "hung", 0, entry[t[1]]) EXCEPT !.data = FALSE]]
    /\ UNCHANGED wire

RoomCreate(t) == Begin(t, "create", "incr", 0)
RoomList(t)   == Begin(t, "list", "keys", 0)

\* A request about room n; NoRoom stands for a request without req_data.
Ask(t, kind, pc, n) ==
    \/ n # NoRoom /\ Begin(t, kind, pc, n)
    \/ n = NoRoom /\ Throws(t, kind)

RoomClose(t, n) == Ask(t, "close", "keys", n)
RoomIn(t, n)    == Ask(t, "in", "keys", n)

\* roomOut wants the connection to be in some room and leaves the room that the
\* request names; otherwise it answers "you are not in live room." at once.
RoomOut(t, n) ==
    /\ ctxRoom[t[1]] # NoRoom
    /\ Ask(t, "out", "members", n)

\* sendLiveChat goes to the room of the connection; msg is in req_data.
BroadcastMsg(t) ==
    /\ ctxRoom[t[1]] # NoRoom
    /\ Begin(t, "msg", "keys", ctxRoom[t[1]]) \/ Throws(t, "msg")

-----------------------------------------------------------------------------
(* Redis runs the next command of server h.                                *)

Executes(h, pc) == wire[h] # <<>> /\ task[Head(wire[h])].pc = pc

\* The reply of the command goes into the task's record.
Answer(h, rec) ==
    /\ task' = [task EXCEPT ![Head(wire[h])] = rec]
    /\ wire' = [wire EXCEPT ![h] = Tail(@)]
    /\ inbox' = [inbox EXCEPT ![h] = Append(@, Head(wire[h]))]
    /\ UNCHANGED <<sockVars, boundVars>>

Members(n) == {u \in User : <<n, u>> \in members}

\* Mutant: the id is the number of rooms plus one, not a counter.
ExecIncrByCount(h) ==
    /\ Executes(h, "incr")
    /\ Answer(h, [task[Head(wire[h])] EXCEPT !.id = Cardinality(rooms) + 1])
    /\ UNCHANGED <<redisVars, owed>>

\* INCR RoomMaxIdKey
ExecIncr(h) ==
    /\ Executes(h, "incr")
    /\ maxId' = maxId + 1
    /\ Answer(h, [task[Head(wire[h])] EXCEPT !.id = maxId + 1])
    /\ UNCHANGED <<rooms, members, closed, owed>>

\* HMSET RoomIdKey-n
ExecHmset(h) ==
    /\ Executes(h, "hmset")
    /\ LET t == Head(wire[h])
       IN  rooms' = rooms \cup {task[t].id} /\ Answer(h, task[t])
    /\ UNCHANGED <<maxId, members, closed, owed>>

\* The rooms that KEYS RoomIdKey-n finds: a number matches itself.
Matched(n) == IF n \in Pattern THEN Matches[n] ELSE {n}

\* KEYS RoomIdKey-n, or KEYS RoomIdKey-* for the list
ExecKeys(h) ==
    /\ Executes(h, "keys")
    /\ LET t == Head(wire[h])
       IN  Answer(h, [task[t] EXCEPT !.list =
              {n \in rooms : task[t].kind = "list" \/ n \in Matched(task[t].room)}])
    /\ UNCHANGED <<redisVars, owed>>

\* SMEMBERS RoomMemberKey-n
ExecSmembers(h) ==
    /\ Executes(h, "members")
    /\ LET t == Head(wire[h])
       IN  Answer(h, [task[t] EXCEPT !.users = Members(task[t].room)])
    /\ UNCHANGED <<redisVars, owed>>

ExecSadd(h) ==
    /\ Executes(h, "sadd")
    /\ LET t == Head(wire[h])
       IN  /\ members' = members \cup {<<task[t].room, task[t].user>>}
           /\ Answer(h, task[t])
    /\ UNCHANGED <<maxId, rooms, closed, owed>>

ExecSrem(h) ==
    /\ Executes(h, "srem")
    /\ LET t == Head(wire[h])
       IN  /\ members' = members \ {<<task[t].room, task[t].user>>}
           /\ Answer(h, task[t])
    /\ UNCHANGED <<maxId, rooms, closed, owed>>

\* Mutant: the transaction deletes the members before it reads them.
ExecCloseDeletesFirst(h) ==
    /\ Executes(h, "exec")
    /\ LET t == Head(wire[h])
           n == task[t].room
       IN  /\ Answer(h, [task[t] EXCEPT !.users = {}])
           /\ members' = {m \in members : m[1] # n}
           /\ rooms' = rooms \ {n}
           /\ closed' = closed \cup {n}
           /\ owed' = owed \cup ({n} \X Members(n))
    /\ UNCHANGED maxId

\* MULTI SMEMBERS, DEL RoomMemberKey-n, DEL RoomIdKey-n EXEC
ExecClose(h) ==
    /\ Executes(h, "exec")
    /\ LET t == Head(wire[h])
           n == task[t].room
       IN  /\ Answer(h, [task[t] EXCEPT !.users = Members(n)])
           /\ members' = {m \in members : m[1] # n}
           /\ rooms' = rooms \ {n}
           /\ closed' = closed \cup {n}
           /\ owed' = owed \cup ({n} \X Members(n))
    /\ UNCHANGED maxId

\* HGET of a room of the list: null when the room is gone.
ExecHget(h) ==
    /\ Executes(h, "hget")
    /\ LET t == Head(wire[h])
       IN  Answer(h, [task[t] EXCEPT !.ok = (task[t].room \in rooms)])
    /\ UNCHANGED <<redisVars, owed>>

\* The connection of h breaks: every outstanding command calls back with an error.
LinkDrop(h) ==
    /\ drops < MaxDrop
    /\ inbox[h] \o wire[h] # <<>>
    /\ drops' = drops + 1
    /\ task' = [t \in Task |->
                   IF Srv(t) = h /\ Busy(t)
                   THEN [NewTask(task[t].kind, task[t].pc, task[t].room, task[t].user)
                            EXCEPT !.ok = FALSE]
                   ELSE task[t]]
    /\ inbox' = [inbox EXCEPT ![h] = @ \o wire[h]]
    /\ wire' = [wire EXCEPT ![h] = <<>>]
    /\ UNCHANGED <<redisVars, sockVars, requests, exits, owed>>

-----------------------------------------------------------------------------
(* Callbacks. Task t is the one whose reply is first in its server's inbox. *)

Called(t, pc) ==
    /\ inbox[Srv(t)] # <<>> /\ Head(inbox[Srv(t)]) = t
    /\ task[t].pc = pc
    /\ inbox' = [inbox EXCEPT ![Srv(t)] = Tail(@)]
    /\ UNCHANGED <<redisVars, ws, asked, entry, boundVars>>

\* The handler found a user for the socket.
Known(t) == task[t].user # NoUser

\* The handler answers its request (or the clean-up ends).
Done(t) == task' = [task EXCEPT ![t] = NoTask] /\ UNCHANGED wire

\* The callback throws or leaves its promise unresolved: no answer, ever.
Hang(t) ==
    /\ task' = [task EXCEPT ![t] =
                   NewTask(task[t].kind, "hung", 0, task[t].user)]
    /\ UNCHANGED wire

\* The next command of the chain.
Step(t, pc) == Run(t, [task[t] EXCEPT !.pc = pc, !.ok = TRUE])

\* Mutant: the answer of INCR is not put into the room.
ReplyIncrLosesId(t) ==
    /\ Called(t, "incr")
    /\ \/ ~Known(t) /\ Hang(t)
       \/ Known(t) /\ Run(t, [task[t] EXCEPT !.pc = "hmset", !.id = NoRoom])
    /\ UNCHANGED <<ctxRoom, owed>>

\* The callbacks' log lines read user.userId, which throws for a null user.
ReplyIncr(t) ==
    /\ Called(t, "incr")
    /\ \/ ~Known(t) /\ Hang(t)
       \/ Known(t) /\ task[t].ok /\ Step(t, "hmset")
       \/ Known(t) /\ ~task[t].ok /\ Done(t)
    /\ UNCHANGED <<ctxRoom, owed>>

ReplyHmset(t) == Called(t, "hmset") /\ Done(t) /\ UNCHANGED <<ctxRoom, owed>>

\* Mutant: the room is not checked to exist.
ReplyKeysUnchecked(t) ==
    /\ Called(t, "keys")
    /\ task[t].kind \in {"close", "in"}
    /\ \/ ~Known(t) /\ Hang(t)
       \/ Known(t) /\ Step(t, IF task[t].kind = "close" THEN "exec" ELSE "members")
    /\ UNCHANGED <<ctxRoom, owed>>

\* delRoom, addRoomUser: does the room exist? A failed KEYS counts as no.
ReplyKeysOne(t) ==
    /\ Called(t, "keys")
    /\ task[t].kind \in {"close", "in"}
    /\ \/ ~Known(t) /\ Hang(t)
       \/ Known(t) /\ task[t].list = {} /\ Done(t)
       \/ /\ Known(t) /\ task[t].list # {}
          /\ Step(t, IF task[t].kind = "close" THEN "exec" ELSE "members")
    /\ UNCHANGED <<ctxRoom, owed>>

\* broadcast logs the user only when the room does not exist.
ReplyKeysMsg(t) ==
    /\ Called(t, "keys")
    /\ task[t].kind = "msg"
    /\ \/ task[t].list # {} /\ Step(t, "members")
       \/ task[t].list = {} /\ (IF Known(t) THEN Done(t) ELSE Hang(t))
    /\ UNCHANGED <<ctxRoom, owed>>

\* getRoomList reads the rooms one at a time.
ReadRooms(t, rest) ==
    \/ rest = {} /\ Done(t)
    \/ \E n \in rest :
          Run(t, [NewTask("list", "hget", n, task[t].user) EXCEPT !.list = rest \ {n}])

ReplyKeysList(t) ==
    /\ Called(t, "keys")
    /\ task[t].kind = "list"
    /\ \/ ~(Known(t) /\ task[t].ok) /\ Hang(t)
       \/ Known(t) /\ task[t].ok /\ ReadRooms(t, task[t].list)
    /\ UNCHANGED <<ctxRoom, owed>>

ReplyHget(t) ==
    /\ Called(t, "hget")
    /\ \/ ~task[t].ok /\ Hang(t)
       \/ task[t].ok /\ ReadRooms(t, task[t].list)
    /\ UNCHANGED <<ctxRoom, owed>>

\* Mutant: the chain goes on only if SMEMBERS succeeded.
ReplySmembersHangs(t) ==
    /\ Called(t, "members")
    /\ \/ ~(Known(t) /\ task[t].ok) /\ Hang(t)
       \/ Known(t) /\ task[t].ok /\ task[t].kind = "in" /\ Step(t, "sadd")
       \/ Known(t) /\ task[t].ok /\ task[t].kind \in {"out", "leave"} /\ Step(t, "srem")
       \/ Known(t) /\ task[t].ok /\ task[t].kind = "msg" /\ Done(t)
    /\ UNCHANGED <<ctxRoom, owed>>

\* Mutant: a connection that closes only tells the others that it left.
ReplySmembersStays(t) ==
    /\ Called(t, "members")
    /\ \/ ~Known(t) /\ Hang(t)
       \/ Known(t) /\ task[t].kind = "in" /\ Step(t, "sadd")
       \/ Known(t) /\ task[t].kind = "out" /\ Step(t, "srem")
       \/ Known(t) /\ task[t].kind \in {"msg", "leave"} /\ Done(t)
    /\ UNCHANGED <<ctxRoom, owed>>

\* Mutant: leaving waits for an SREM that was never issued.
ReplySmembersForgets(t) ==
    /\ Called(t, "members")
    /\ \/ ~Known(t) /\ Hang(t)
       \/ Known(t) /\ task[t].kind = "in" /\ Step(t, "sadd")
       \/ /\ Known(t) /\ task[t].kind \in {"out", "leave"}
          /\ task' = [task EXCEPT ![t].pc = "srem"] /\ UNCHANGED wire
       \/ Known(t) /\ task[t].kind = "msg" /\ Done(t)
    /\ UNCHANGED <<ctxRoom, owed>>

\* The members listed are notified (all but the user itself on entering and
\* leaving); an error only skips the notices, except in broadcast.
ReplySmembers(t) ==
    /\ Called(t, "members")
    /\ \/ ~Known(t) /\ Hang(t)
       \/ Known(t) /\ task[t].kind = "in" /\ Step(t, "sadd")
       \/ Known(t) /\ task[t].kind \in {"out", "leave"} /\ Step(t, "srem")
       \/ Known(t) /\ task[t].kind = "msg" /\ Done(t)
    /\ UNCHANGED <<ctxRoom, owed>>

ReplySadd(t) ==
    /\ Called(t, "sadd")
    /\ ctxRoom' = IF task[t].ok THEN [ctxRoom EXCEPT ![t[1]] = task[t].room]
                                ELSE ctxRoom
    /\ Done(t)
    /\ UNCHANGED owed

\* Mutant: ctx.roomId is kept after leaving.
ReplySremKeepsRoom(t) == Called(t, "srem") /\ Done(t) /\ UNCHANGED <<ctxRoom, owed>>

ReplySrem(t) ==
    /\ Called(t, "srem")
    /\ ctxRoom' = IF task[t].kind = "out" /\ task[t].ok
                  THEN [ctxRoom EXCEPT ![t[1]] = NoRoom] ELSE ctxRoom
    /\ Done(t)
    /\ UNCHANGED owed

\* Everyone the transaction removed is told that the room closed.
ReplyExec(t) ==
    /\ Called(t, "exec")
    /\ owed' = owed \ ({task[t].room} \X task[t].users)
    /\ Done(t)
    /\ UNCHANGED ctxRoom

-----------------------------------------------------------------------------
Exec(h) == \/ ExecIncr(h) \/ ExecHmset(h) \/ ExecKeys(h) \/ ExecSmembers(h)
           \/ ExecSadd(h) \/ ExecSrem(h) \/ ExecClose(h) \/ ExecHget(h)

HandleReply(t) == \/ ReplyIncr(t) \/ ReplyHmset(t) \/ ReplyKeysOne(t)
                  \/ ReplyKeysMsg(t) \/ ReplyKeysList(t) \/ ReplyHget(t)
                  \/ ReplySmembers(t) \/ ReplySadd(t) \/ ReplySrem(t)
                  \/ ReplyExec(t)

\* Server h takes the next reply.
EventLoop(h) == inbox[h] # <<>> /\ HandleReply(Head(inbox[h]))

Request(t) == \/ RoomCreate(t) \/ RoomList(t) \/ BroadcastMsg(t)
              \/ \E n \in AskedRoom \cup {NoRoom} :
                    RoomClose(t, n) \/ RoomIn(t, n) \/ RoomOut(t, n)

Next ==
    \/ \E s \in Socket, u \in User : LoginRequest(s, u) \/ Login(s, u)
    \/ \E s \in Socket : \/ Connect(s) \/ ServerClose(s)
                         \/ ClientClose(s) \/ Expire(s)
                         \/ CloseEvent(s) \/ ErrorEvent(s)
    \/ \E t \in Socket \X Slot : Request(t)
    \/ \E h \in Server : Exec(h) \/ EventLoop(h) \/ LinkDrop(h) \/ Exit(h)

Spec == Init /\ [][Next]_vars

\* Redis, the event loops and the closing handshake make progress; clients and
\* failures owe nothing.
Fairness ==
    /\ \A h \in Server : WF_vars(Exec(h)) /\ WF_vars(EventLoop(h))
    /\ \A s \in Socket : WF_vars(CloseEvent(s))

FairSpec == Spec /\ Fairness

-----------------------------------------------------------------------------
(* Properties.                                                             *)

Registry == INSTANCE RoomRegistry

\* The handlers use the Redis keys as the registry promises: addRoom opens fresh
\* ids only, delRoom removes a room and its members in one step, nobody enters a
\* number that was never opened, and a name that is not a number has members only
\* after some room that it matches was opened.
ImplementsRegistry == Registry!Spec

\* Whoever a closing room throws out is told: the transaction of delRoom reads
\* exactly the members it deletes, so each of them is in the reply that its
\* callback has still to handle. Only a lost reply or process loses notices.
ClosedAreTold ==
    exits = 0 /\ drops = 0 =>
        \A m \in owed : \E t \in Task :
            task[t].pc = "exec" /\ task[t].room = m[1] /\ m[2] \in task[t].users

Still(s) == \A t \in Task : t[1] = s => ~Busy(t)

\* The login requests of socket s were all for user u, and no other socket's was.
Sole(s, u) == asked[s] = {u} /\ \A r \in Socket \ {s} : u \notin asked[r]

\* ctx.roomId tells the truth: when nothing is under way on a connection that has
\* not begun to close, the room it is recorded to be in lists its user as a
\* member, unless the room was closed, whatever requests were pipelined before.
\* Not so for a user with two connections or a connection with two users, which
\* pipelined logins make: roomIn and roomOut are then of different users.
MembershipBacked ==
    drops = 0 => \A s \in Socket, u \in User :
        Still(s) /\ Sole(s, u) /\ ws[s] \in {"open", "kicked"} /\ ctxRoom[s] # NoRoom =>
            \/ <<ctxRoom[s], u>> \in members
            \/ ctxRoom[s] \in closed

\* A request of a logged-in user that has the req_data its handler reads is left
\* without an answer only by roomList: the other handlers answer on every path,
\* errors from Redis included.
OnlyListHangs ==
    \A t \in Task : task[t].pc = "hung" =>
        task[t].kind = "list" \/ ~Known(t) \/ ~task[t].data

\* Every chain of callbacks ends: no handler waits for a command it did not issue.
ChainsEnd == \A t \in Task : Busy(t) ~> ~Busy(t)

\* The entry of a connection that closes was removed by a failed notice: the close
\* event will find no user and leave the room as it is.
Expired(s) ==
    ws[s] \in {"kicked", "closing"} /\ entry[s] = NoUser /\ ~Busy(<<s, "error">>)

\* A connection that begins to close while its only user is logged in, in a room,
\* and waits for no answer, takes the user out of the room. What can come between
\* is a failed notice that removes the entry first, a request that still arrives
\* while the client has not answered the server's close, and a lost process or
\* Redis connection, and with it perhaps the SREM.
CloseLeavesRoom ==
    \A s \in Socket, u \in User, n \in AskedRoom :
        (/\ ws[s] \in {"kicked", "closing"} /\ entry[s] = u /\ ctxRoom[s] = n
         /\ Sole(s, u) /\ Still(s))
        ~> \/ <<n, u>> \notin members \/ exits + drops > 0 \/ Expired(s)
           \/ \E t \in Task : t[1] = s /\ t[2] \in Slot /\ Busy(t)

-----------------------------------------------------------------------------
(* Why Room implements RoomRegistry: an inductive invariant.               *)

\* Every outstanding command belongs to a chain that waits for it, and no chain
\* has two: it is either still to be run by Redis or to be handled by its server.
OneCommandEach ==
    \A h \in Server :
        /\ IsInjective(wire[h]) /\ IsInjective(inbox[h])
        /\ Range(wire[h]) \cap Range(inbox[h]) = {}
        /\ \A t \in Range(wire[h]) \cup Range(inbox[h]) : Srv(t) = h /\ Busy(t)

\* Each event of a connection starts at most one clean-up. A connection may be
\* cleaned up twice, by its error and by its close, if a login comes in between.
CleanUpOnce ==
    \A s \in Socket :
        /\ Busy(<<s, "error">>) => ws[s] \in {"closing", "closed"}
        /\ Busy(<<s, "close">>) => ws[s] = "closed"

\* The id that INCR gave to task t is not yet used: HMSET is still to run.
HoldsId(t) ==
    \/ task[t].pc = "incr" /\ task[t].ok /\ t \in Range(inbox[Srv(t)])
    \/ task[t].pc = "hmset" /\ t \in Range(wire[Srv(t)])

\* Ids are given out once: an id between INCR and HMSET is held by one task, and
\* no room has it or had it.
FreshIds ==
    /\ \A n \in (rooms \cup closed) \ Pattern : n <= maxId
    /\ \A t \in Task : HoldsId(t) =>
          /\ task[t].id <= maxId /\ task[t].id \notin rooms \cup closed
          /\ \A u \in Task : HoldsId(u) /\ task[t].id = task[u].id => t = u

\* Task t found its room and will enter or close it.
FoundRoom(t) ==
    \/ task[t].pc \in {"exec", "sadd"}
    \/ task[t].pc = "members" /\ task[t].kind = "in"
    \/ task[t].pc = "keys" /\ task[t].kind \in {"close", "in"} /\ task[t].list # {}

\* Name n is, or as a pattern matches, a room that was opened once.
Existed(n) == Matched(n) \cap (rooms \cup closed) # {}

\* Who found a room may find it closed later, but it did exist; who asked with a
\* pattern found some room that the pattern matches.
FoundExisted == \A t \in Task : FoundRoom(t) => Existed(task[t].room)

\* The bookkeeping on which the room registry rests, kept by every handler
\* whatever the interleaving, the exits and the lost connections.
RegistryInv == OneCommandEach /\ CleanUpOnce /\ FreshIds /\ FoundExisted

-----------------------------------------------------------------------------
(* What comments and messages of the source promise and the code does not  *)
(* keep.                                                                   *)

AllStill == \A t \in Task : ~Busy(t)

\* "Delete the members of the room" (delRoom), "check that the room exists"
\* (addRoomUser): a closed room has no members.
ClosedIsEmpty == AllStill => \A m \in members : m[1] \in rooms
=============================================================================
