----------------------------- MODULE RoomProofs -----------------------------
(***************************************************************************)
(* Proofs about Room for any servers, sockets, users and bounds.           *)
(***************************************************************************)
EXTENDS Room, TLAPS

-----------------------------------------------------------------------------
(* Type correctness.                                                       *)

\* The constructor of a chain's record, for the kinds and commands of the model.
LEMMA NewTaskType ==
    ASSUME NEW kind \in Kind, NEW pc \in Pc, NEW n \in Name,
           NEW user \in User \cup {NoUser}, pc \in {"sadd", "srem"} => user # NoUser
    PROVE  NewTask(kind, pc, n, user) \in TaskRecord
BY DEF NewTask, TaskRecord

LEMMA NoTaskType == NoTask \in TaskRecord
BY DEF NoTask, NewTask, TaskRecord, Kind, Pc, Name

LEMMA SrvType ==
    ASSUME NEW t \in Task
    PROVE  Srv(t) \in Server /\ t[1] \in Socket
BY RoomSocketAssumption DEF Srv, Task

\* The slots of the clients, and the reply that an event loop takes.
LEMMA NextSteps ==
    ASSUME TypeOK, Next
    PROVE  \/ \E s \in Socket, u \in User : LoginRequest(s, u) \/ Login(s, u)
           \/ \E s \in Socket : \/ Connect(s) \/ ServerClose(s) \/ ClientClose(s)
                                \/ Expire(s) \/ CloseEvent(s) \/ ErrorEvent(s)
           \/ \E t \in Task : Request(t) \/ HandleReply(t)
           \/ \E h \in Server : Exec(h) \/ LinkDrop(h) \/ Exit(h)
<1>1. Socket \X Slot \subseteq Task
  BY DEF Task
<1>2. ASSUME NEW h \in Server, EventLoop(h) PROVE \E t \in Task : HandleReply(t)
  <2>1. Head(inbox[h]) \in Task
    BY <1>2 DEF EventLoop, TypeOK
  <2> QED
    BY <1>2, <2>1 DEF EventLoop
<1> QED
  BY <1>1, <1>2 DEF Next

\* Updates of one field, and of the step of a chain.
LEMMA IdType ==
    ASSUME NEW rec \in TaskRecord, NEW n \in Nat
    PROVE  [rec EXCEPT !.id = n] \in TaskRecord
BY DEF TaskRecord

LEMMA ListType ==
    ASSUME NEW rec \in TaskRecord, NEW list \in SUBSET Nat
    PROVE  [rec EXCEPT !.list = list] \in TaskRecord
BY DEF TaskRecord

LEMMA UsersType ==
    ASSUME NEW rec \in TaskRecord, NEW users \in SUBSET User
    PROVE  [rec EXCEPT !.users = users] \in TaskRecord
BY DEF TaskRecord

LEMMA OkType ==
    ASSUME NEW rec \in TaskRecord, NEW ok \in BOOLEAN
    PROVE  [rec EXCEPT !.ok = ok] \in TaskRecord
BY DEF TaskRecord

LEMMA StepType ==
    ASSUME NEW rec \in TaskRecord, NEW pc \in Pc,
           pc \in {"sadd", "srem"} => rec.user # NoUser
    PROVE  [rec EXCEPT !.pc = pc, !.ok = TRUE] \in TaskRecord
BY DEF TaskRecord

\* Starting a chain or sending its next command keeps tasks and queues well typed.
LEMMA RunType ==
    ASSUME TypeOK, NEW t \in Task, NEW rec \in TaskRecord, Run(t, rec)
    PROVE  task' \in [Task -> TaskRecord] /\ wire' \in [Server -> Seq(Task)]
BY SrvType DEF TypeOK, Run

LEMMA DisconnectType ==
    ASSUME TypeOK, NEW s \in Socket, NEW event \in {"close", "error"},
           Disconnect(s, event)
    PROVE  /\ entry' \in [Socket -> User \cup {NoUser}]
           /\ task' \in [Task -> TaskRecord]
           /\ wire' \in [Server -> Seq(Task)]
<1> DEFINE rec == NewTask("leave", "members", ctxRoom[s], entry[s])
<1>1. <<s, event>> \in Task
  BY DEF Task
<1>2. CASE entry[s] # NoUser /\ ctxRoom[s] # NoRoom
  <2>0. rec \in TaskRecord
    BY <1>2, NewTaskType DEF TypeOK, Kind, Pc
  <2>1. Run(<<s, event>>, rec) /\ entry' = [entry EXCEPT ![s] = NoUser]
    BY <1>2 DEF Disconnect
  <2> QED
    BY <1>1, <2>0, <2>1, RunType DEF TypeOK
<1>3. CASE ~(entry[s] # NoUser /\ ctxRoom[s] # NoRoom)
  BY <1>3 DEF Disconnect, TypeOK
<1> QED
  BY <1>2, <1>3

LEMMA ArrivesType ==
    ASSUME TypeOK, NEW t \in Task, Arrives(t), task' \in [Task -> TaskRecord],
           wire' \in [Server -> Seq(Task)]
    PROVE  TypeOK'
<1>1. requests' \in 0 .. MaxRequest
  BY RoomBoundAssumption DEF Arrives, TypeOK
<1> QED
  BY <1>1 DEF Arrives, TypeOK, redisVars, sockVars

LEMMA BeginType ==
    ASSUME TypeOK, NEW t \in Task, NEW kind \in Kind, NEW pc \in Pc \ {"sadd", "srem"},
           NEW n \in Name, Begin(t, kind, pc, n)
    PROVE  TypeOK'
<1>0. entry[t[1]] \in User \cup {NoUser}
  BY SrvType DEF TypeOK
<1>1. NewTask(kind, pc, n, entry[t[1]]) \in TaskRecord
  BY <1>0, NewTaskType
<1>2. task' \in [Task -> TaskRecord] /\ wire' \in [Server -> Seq(Task)]
  BY <1>1, RunType DEF Begin
<1> QED
  BY <1>2, ArrivesType DEF Begin

LEMMA ThrowsType ==
    ASSUME TypeOK, NEW t \in Task, NEW kind \in Kind, Throws(t, kind)
    PROVE  TypeOK'
<1>0. entry[t[1]] \in User \cup {NoUser}
  BY SrvType DEF TypeOK
<1>1. [NewTask(kind, "hung", 0, entry[t[1]]) EXCEPT !.data = FALSE] \in TaskRecord
  BY <1>0 DEF NewTask, TaskRecord, Pc, Name
<1>2. task' \in [Task -> TaskRecord] /\ wire' \in [Server -> Seq(Task)]
  BY <1>1 DEF Throws, TypeOK
<1> QED
  BY <1>2, ArrivesType DEF Throws

LEMMA AskType ==
    ASSUME TypeOK, NEW t \in Task, NEW kind \in Kind, NEW pc \in Pc \ {"sadd", "srem"},
           NEW n \in AskedRoom \cup {NoRoom}, Ask(t, kind, pc, n)
    PROVE  TypeOK'
BY BeginType, ThrowsType, AskedRoomAssumption DEF Ask

\* Running a command keeps tasks and queues well typed.
LEMMA AnswerType ==
    ASSUME TypeOK, NEW h \in Server, wire[h] # <<>>, NEW rec \in TaskRecord,
           Answer(h, rec)
    PROVE  /\ task' \in [Task -> TaskRecord]
           /\ wire' \in [Server -> Seq(Task)]
           /\ inbox' \in [Server -> Seq(Task)]
           /\ UNCHANGED <<ws, asked, entry, ctxRoom, requests, exits, drops>>
<1>1. Head(wire[h]) \in Task /\ Tail(wire[h]) \in Seq(Task)
  BY DEF TypeOK
<1> QED
  BY <1>1 DEF TypeOK, Answer, sockVars, boundVars

LEMMA HeadType ==
    ASSUME TypeOK, NEW h \in Server, NEW pc, Executes(h, pc)
    PROVE  /\ Head(wire[h]) \in Task
           /\ task[Head(wire[h])] \in TaskRecord
           /\ task[Head(wire[h])].pc = pc
BY DEF Executes, TypeOK

\* The KEYS, SMEMBERS and HGET commands only read.
LEMMA ReadType ==
    ASSUME TypeOK, NEW h \in Server, NEW rec \in TaskRecord, wire[h] # <<>>,
           Answer(h, rec), UNCHANGED <<redisVars, owed>>
    PROVE  TypeOK'
BY AnswerType DEF TypeOK, redisVars

LEMMA ExecType ==
    ASSUME TypeOK, NEW h \in Server, Exec(h)
    PROVE  TypeOK'
<1> DEFINE t == Head(wire[h])
<1>1. ASSUME ExecIncr(h) PROVE TypeOK'
  <2>0. task[t] \in TaskRecord /\ maxId + 1 \in Nat
    BY <1>1, HeadType DEF ExecIncr, TypeOK
  <2>1. [task[t] EXCEPT !.id = maxId + 1] \in TaskRecord
    BY <2>0, IdType
  <2> QED
    BY <1>1, <2>1, AnswerType DEF ExecIncr, Executes, TypeOK
<1>2. ASSUME ExecHmset(h) PROVE TypeOK'
  <2>1. task[t] \in TaskRecord /\ task[t].id \in Nat
    BY <1>2, HeadType DEF ExecHmset, TaskRecord
  <2> QED
    BY <1>2, <2>1, AnswerType DEF ExecHmset, Executes, TypeOK
<1>3. ASSUME ExecKeys(h) PROVE TypeOK'
  <2> DEFINE list == {n \in rooms : task[t].kind = "list" \/ n \in Matched(task[t].room)}
  <2>1. [task[t] EXCEPT !.list = list] \in TaskRecord
    BY <1>3, HeadType, ListType DEF ExecKeys, TypeOK
  <2> QED
    BY <1>3, <2>1, ReadType DEF ExecKeys, Executes
<1>4. ASSUME ExecSmembers(h) PROVE TypeOK'
  <2>1. [task[t] EXCEPT !.users = Members(task[t].room)] \in TaskRecord
    BY <1>4, HeadType, UsersType DEF ExecSmembers, Members
  <2> QED
    BY <1>4, <2>1, ReadType DEF ExecSmembers, Executes
<1>5. ASSUME ExecSadd(h) PROVE TypeOK'
  <2>1. task[t] \in TaskRecord /\ task[t].room \in Name /\ task[t].user \in User
    BY <1>5, HeadType DEF ExecSadd, TaskRecord
  <2>2. members' \subseteq Name \X User
    BY <1>5, <2>1 DEF ExecSadd, TypeOK
  <2> QED
    BY <1>5, <2>1, <2>2, AnswerType DEF ExecSadd, Executes, TypeOK
<1>6. ASSUME ExecSrem(h) PROVE TypeOK'
  <2>1. task[t] \in TaskRecord
    BY <1>6, HeadType DEF ExecSrem
  <2>2. members' \subseteq Name \X User
    BY <1>6 DEF ExecSrem, TypeOK
  <2> QED
    BY <1>6, <2>1, <2>2, AnswerType DEF ExecSrem, Executes, TypeOK
<1>7. ASSUME ExecClose(h) PROVE TypeOK'
  <2>1. task[t] \in TaskRecord /\ task[t].room \in Name
    BY <1>7, HeadType DEF ExecClose, TaskRecord
  <2>2. [task[t] EXCEPT !.users = Members(task[t].room)] \in TaskRecord
    BY <2>1, UsersType DEF Members
  <2>3. /\ members' \subseteq Name \X User /\ owed' \subseteq Name \X User
        /\ rooms' \subseteq Nat /\ closed' \subseteq Name /\ maxId' \in Nat
    BY <1>7, <2>1 DEF ExecClose, TypeOK, Members
  <2> QED
    BY <1>7, <2>2, <2>3, AnswerType DEF ExecClose, Executes, TypeOK
<1>8. ASSUME ExecHget(h) PROVE TypeOK'
  <2>0. task[t] \in TaskRecord
    BY <1>8, HeadType DEF ExecHget
  <2> DEFINE ok == task[t].room \in rooms
  <2>2. ok \in BOOLEAN
    OBVIOUS
  <2> HIDE DEF ok
  <2>3. [task[t] EXCEPT !.ok = ok] \in TaskRecord
    BY <2>0, <2>2, OkType
  <2>1. [task[t] EXCEPT !.ok = (task[t].room \in rooms)] \in TaskRecord
    BY <2>3, Zenon DEF ok
  <2> QED
    BY <1>8, <2>1, ReadType DEF ExecHget, Executes
<1> QED
  BY <1>1, <1>2, <1>3, <1>4, <1>5, <1>6, <1>7, <1>8 DEF Exec

LEMMA CalledType ==
    ASSUME TypeOK, NEW t \in Task, NEW pc, Called(t, pc)
    PROVE  /\ task[t] \in TaskRecord /\ task[t].pc = pc
           /\ inbox' \in [Server -> Seq(Task)]
           /\ UNCHANGED <<maxId, rooms, members, closed, ws, asked, entry, requests,
                          exits, drops>>
<1>1. Srv(t) \in Server
  BY SrvType
<1>2. inbox[Srv(t)] \in Seq(Task) /\ inbox[Srv(t)] # <<>>
  BY <1>1 DEF TypeOK, Called
<1>3. Tail(inbox[Srv(t)]) \in Seq(Task)
  BY <1>2
<1> QED
  BY <1>1, <1>3 DEF Called, TypeOK, redisVars, boundVars

\* A callback that ends its chain, gives up on it or sends the next command.
LEMMA CallbackType ==
    ASSUME TypeOK, NEW t \in Task, NEW pc, Called(t, pc), UNCHANGED <<ctxRoom, owed>>,
           NEW next \in Pc, Done(t) \/ Hang(t) \/ Step(t, next),
           next \in {"sadd", "srem"} => Known(t)
    PROVE  TypeOK'
<1>1. task[t] \in TaskRecord
  BY DEF TypeOK
<1>2. NewTask(task[t].kind, "hung", 0, task[t].user) \in TaskRecord
  BY <1>1, NewTaskType DEF TaskRecord, Pc, Name
<1>3. [task[t] EXCEPT !.pc = next, !.ok = TRUE] \in TaskRecord
  BY <1>1, StepType DEF Known
<1>4. task' \in [Task -> TaskRecord] /\ wire' \in [Server -> Seq(Task)]
  <2>1. CASE Done(t)
    BY <2>1, NoTaskType DEF Done, TypeOK
  <2>2. CASE Hang(t)
    BY <2>2, <1>2 DEF Hang, TypeOK
  <2>3. CASE Step(t, next)
    BY <2>3, <1>3, RunType DEF Step
  <2> QED
    BY <2>1, <2>2, <2>3
<1> QED
  BY <1>4, CalledType DEF TypeOK

LEMMA ReadRoomsType ==
    ASSUME TypeOK, NEW t \in Task, NEW pc, Called(t, pc), UNCHANGED <<ctxRoom, owed>>,
           ReadRooms(t, task[t].list)
    PROVE  TypeOK'
<1>1. task[t] \in TaskRecord /\ task[t].list \subseteq Nat
      /\ task[t].user \in User \cup {NoUser}
  BY DEF TypeOK, TaskRecord
<1>2. CASE Done(t)
  BY <1>2, CallbackType DEF Pc
<1>3. ASSUME NEW n \in task[t].list,
             Run(t, [NewTask("list", "hget", n, task[t].user)
                        EXCEPT !.list = task[t].list \ {n}])
      PROVE  TypeOK'
  <2>1. NewTask("list", "hget", n, task[t].user) \in TaskRecord
    BY <1>1, NewTaskType DEF Kind, Pc, Name
  <2>2. [NewTask("list", "hget", n, task[t].user)
            EXCEPT !.list = task[t].list \ {n}] \in TaskRecord
    BY <1>1, <2>1, ListType
  <2>3. task' \in [Task -> TaskRecord] /\ wire' \in [Server -> Seq(Task)]
    BY <1>3, <2>2, RunType
  <2> QED
    BY <2>3, CalledType DEF TypeOK
<1> QED
  BY <1>2, <1>3 DEF ReadRooms

LEMMA HandleReplyType ==
    ASSUME TypeOK, NEW t \in Task, HandleReply(t)
    PROVE  TypeOK'
<1>1. ASSUME ReplyIncr(t) PROVE TypeOK'
  BY <1>1, CallbackType DEF ReplyIncr, Pc
<1>2. ASSUME ReplyHmset(t) PROVE TypeOK'
  BY <1>2, CallbackType DEF ReplyHmset, Pc
<1>3. ASSUME ReplyKeysOne(t) PROVE TypeOK'
  BY <1>3, CallbackType DEF ReplyKeysOne, Pc
<1>4. ASSUME ReplyKeysMsg(t) PROVE TypeOK'
  BY <1>4, CallbackType DEF ReplyKeysMsg, Pc
<1>5. ASSUME ReplyKeysList(t) PROVE TypeOK'
  BY <1>5, CallbackType, ReadRoomsType DEF ReplyKeysList, Pc
<1>6. ASSUME ReplyHget(t) PROVE TypeOK'
  BY <1>6, CallbackType, ReadRoomsType DEF ReplyHget, Pc
<1>7. ASSUME ReplySmembers(t) PROVE TypeOK'
  BY <1>7, CallbackType DEF ReplySmembers, Pc
<1>8. ASSUME ReplySadd(t) \/ ReplySrem(t) \/ ReplyExec(t) PROVE TypeOK'
  <2>0. task[t].room \in Name /\ t[1] \in Socket
    BY SrvType DEF TypeOK, TaskRecord
  <2>4. Done(t)
    BY <1>8 DEF ReplySadd, ReplySrem, ReplyExec
  <2>1. task' \in [Task -> TaskRecord] /\ UNCHANGED wire
    BY <2>4, NoTaskType DEF Done, TypeOK
  <2>2. ctxRoom' \in [Socket -> Name \cup {NoRoom}] /\ owed' \subseteq Name \X User
    BY <1>8, <2>0 DEF ReplySadd, ReplySrem, ReplyExec, TypeOK
  <2>3. \E pc \in Pc : Called(t, pc)
    BY <1>8 DEF ReplySadd, ReplySrem, ReplyExec, Pc
  <2> QED
    BY <2>1, <2>2, <2>3, CalledType DEF TypeOK
<1> QED
  BY <1>1, <1>2, <1>3, <1>4, <1>5, <1>6, <1>7, <1>8 DEF HandleReply

\* A message of the chat is for the room of the connection, any other request for
\* a room that the client names.
LEMMA RequestType ==
    ASSUME TypeOK, NEW t \in Task, Request(t)
    PROVE  TypeOK'
<1>1. ASSUME RoomCreate(t) PROVE TypeOK'
  BY <1>1, BeginType DEF RoomCreate, Kind, Pc, Name
<1>2. ASSUME RoomList(t) PROVE TypeOK'
  BY <1>2, BeginType DEF RoomList, Kind, Pc, Name
<1>3. ASSUME BroadcastMsg(t) PROVE TypeOK'
  <2>1. t[1] \in Socket
    BY SrvType
  <2>2. ctxRoom[t[1]] \in Name
    BY <1>3, <2>1 DEF BroadcastMsg, TypeOK
  <2> QED
    BY <1>3, <2>2, BeginType, ThrowsType DEF BroadcastMsg, Kind, Pc
<1>4. ASSUME NEW n \in AskedRoom \cup {NoRoom},
             RoomClose(t, n) \/ RoomIn(t, n) \/ RoomOut(t, n)
      PROVE  TypeOK'
  BY <1>4, AskType DEF RoomClose, RoomIn, RoomOut, Kind, Pc
<1> QED
  BY <1>1, <1>2, <1>3, <1>4 DEF Request

LEMMA LoginType ==
    ASSUME TypeOK, NEW s \in Socket, NEW u \in User, LoginRequest(s, u) \/ Login(s, u)
    PROVE  TypeOK'
BY DEF LoginRequest, Login, TypeOK, redisVars, boundVars

LEMMA SocketType ==
    ASSUME TypeOK, NEW s \in Socket,
           \/ Connect(s) \/ ServerClose(s) \/ ClientClose(s)
           \/ Expire(s) \/ CloseEvent(s) \/ ErrorEvent(s)
    PROVE  TypeOK'
<1>1. CASE Connect(s) \/ ServerClose(s) \/ ClientClose(s)
  BY <1>1 DEF Connect, ServerClose, ClientClose, TypeOK, redisVars, boundVars
<1>2. CASE Expire(s)
  BY <1>2 DEF Expire, TypeOK, redisVars, boundVars
<1>3. CASE CloseEvent(s)
  BY <1>3, DisconnectType DEF CloseEvent, TypeOK, redisVars, boundVars
<1>4. CASE ErrorEvent(s)
  BY <1>4, DisconnectType DEF ErrorEvent, TypeOK, redisVars, boundVars
<1> QED
  BY <1>1, <1>2, <1>3, <1>4

\* The end of a process and the loss of its Redis connection.
LEMMA FailureType ==
    ASSUME TypeOK, NEW h \in Server, LinkDrop(h) \/ Exit(h)
    PROVE  TypeOK'
<1>1. ASSUME LinkDrop(h) PROVE TypeOK'
  <2>1. ASSUME NEW t \in Task PROVE task'[t] \in TaskRecord
    <3> DEFINE rec == NewTask(task[t].kind, task[t].pc, task[t].room, task[t].user)
    <3>1. task[t] \in TaskRecord
      BY DEF TypeOK
    <3>2. rec \in TaskRecord
      BY <3>1, NewTaskType DEF TaskRecord
    <3>3. [rec EXCEPT !.ok = FALSE] \in TaskRecord
      BY <3>2, OkType
    <3>4. task'[t] = IF Srv(t) = h /\ Busy(t) THEN [rec EXCEPT !.ok = FALSE] ELSE task[t]
      BY <1>1 DEF LinkDrop
    <3> QED
      BY <3>1, <3>3, <3>4
  <2>2. task' \in [Task -> TaskRecord]
    <3>1. task' = [t \in Task |-> task'[t]]
      BY <1>1 DEF LinkDrop
    <3> QED
      BY <2>1, <3>1
  <2>3. inbox' \in [Server -> Seq(Task)] /\ wire' \in [Server -> Seq(Task)]
    BY <1>1 DEF LinkDrop, TypeOK
  <2>4. drops' \in 0 .. MaxDrop
    BY <1>1, RoomBoundAssumption DEF LinkDrop, TypeOK
  <2> QED
    BY <1>1, <2>2, <2>3, <2>4 DEF LinkDrop, TypeOK, redisVars, sockVars
<1>2. ASSUME Exit(h) PROVE TypeOK'
  <2>1. task' \in [Task -> TaskRecord]
    BY <1>2, NoTaskType DEF Exit, TypeOK
  <2>2. inbox' \in [Server -> Seq(Task)] /\ wire' \in [Server -> Seq(Task)]
    BY <1>2 DEF Exit, TypeOK
  <2>3. exits' \in 0 .. MaxExit
    BY <1>2, RoomBoundAssumption DEF Exit, TypeOK
  <2>4. /\ ws' \in [Socket -> {"none", "open", "kicked", "closing", "closed", "lost"}]
        /\ entry' \in [Socket -> User \cup {NoUser}]
        /\ ctxRoom' \in [Socket -> Name \cup {NoRoom}]
    BY <1>2 DEF Exit, TypeOK
  <2> QED
    BY <1>2, <2>1, <2>2, <2>3, <2>4 DEF Exit, TypeOK, redisVars
<1> QED
  BY <1>1, <1>2

LEMMA InitType == Init => TypeOK
BY NoTaskType, RoomBoundAssumption DEF Init, TypeOK

LEMMA NextType == TypeOK /\ [Next]_vars => TypeOK'
<1> SUFFICES ASSUME TypeOK, [Next]_vars PROVE TypeOK'
  OBVIOUS
<1>1. CASE UNCHANGED vars
  BY <1>1 DEF vars, TypeOK
<1>2. CASE Next
  BY <1>2, NextSteps, LoginType, SocketType, RequestType, HandleReplyType, ExecType,
     FailureType
<1> QED
  BY <1>1, <1>2

\* Redis, the connections and the chains of callbacks keep their types: above all
\* the ids of rooms stay numbers, whatever names the clients use, and no member is
\* added or removed for a null user, through every callback, error and lost process.
THEOREM TypeCorrect == Spec => []TypeOK
BY InitType, NextType, PTL DEF Spec
=============================================================================
