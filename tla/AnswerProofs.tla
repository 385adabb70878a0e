---------------------------- MODULE AnswerProofs ----------------------------
(***************************************************************************)
(* Who gets an answer, who hears of a room that closes, and that           *)
(* ctx.roomId tells the truth: proofs about Room for any servers, sockets, *)
(* users, pipelined requests and bounds.                                   *)
(***************************************************************************)
EXTENDS RegistryProofs

-----------------------------------------------------------------------------
(* Requests without an answer.                                             *)

\* A chain that gave up was a roomList, had no user or no req_data; only roomList
\* reads rooms one at a time, so only it can come across a room that is gone.
GoodRecord(rec) ==
    /\ rec.pc = "hung" => rec.kind = "list" \/ rec.user = NoUser \/ ~rec.data
    /\ rec.pc = "hget" => rec.kind = "list"

GoodRecords == \A t \in Task : GoodRecord(task[t])

\* A step that gives one chain a good record.
LEMMA OneGood ==
    ASSUME TypeOK, GoodRecords, NEW t \in Task, NEW rec, GoodRecord(rec),
           task' = [task EXCEPT ![t] = rec]
    PROVE  GoodRecords'
BY DEF GoodRecords, TypeOK, GoodRecord

LEMMA NewGood ==
    ASSUME NEW kind, NEW pc \in {"incr", "keys", "members", "idle"}, NEW n, NEW user
    PROVE  GoodRecord(NewTask(kind, pc, n, user))
BY DEF NewTask, GoodRecord

\* Ending a chain, going on with it, or giving up where the code may.
LEMMA CallbackGood ==
    ASSUME TypeOK, GoodRecords, NEW t \in Task,
           NEW next \in {"hmset", "exec", "members", "sadd", "srem"},
           \/ Done(t) \/ Step(t, next)
           \/ Hang(t) /\ (~Known(t) \/ task[t].kind = "list")
    PROVE  GoodRecords'
<1>0. task[t] \in TaskRecord
  BY DEF TypeOK
<1>1. CASE Done(t)
  <2>1. GoodRecord(NoTask)
    BY NewGood DEF NoTask
  <2> QED
    BY <1>1, <2>1, OneGood DEF Done
<1>2. CASE Step(t, next)
  <2>1. GoodRecord([task[t] EXCEPT !.pc = next, !.ok = TRUE])
    BY <1>0 DEF GoodRecord, TaskRecord
  <2> QED
    BY <1>2, <2>1, OneGood DEF Step, Run
<1>3. CASE Hang(t) /\ (~Known(t) \/ task[t].kind = "list")
  <2>1. GoodRecord(NewTask(task[t].kind, "hung", 0, task[t].user))
    BY <1>3 DEF GoodRecord, NewTask, Known
  <2> QED
    BY <1>3, <2>1, OneGood DEF Hang
<1> QED
  BY <1>1, <1>2, <1>3

LEMMA ReadRoomsGood ==
    ASSUME TypeOK, GoodRecords, NEW t \in Task, NEW rest, ReadRooms(t, rest)
    PROVE  GoodRecords'
<1>1. CASE Done(t)
  BY <1>1, CallbackGood
<1>2. ASSUME NEW n \in rest,
             Run(t, [NewTask("list", "hget", n, task[t].user) EXCEPT !.list = rest \ {n}])
      PROVE  GoodRecords'
  <2>1. GoodRecord([NewTask("list", "hget", n, task[t].user) EXCEPT !.list = rest \ {n}])
    BY DEF GoodRecord, NewTask
  <2> QED
    BY <1>2, <2>1, OneGood DEF Run
<1> QED
  BY <1>1, <1>2 DEF ReadRooms

LEMMA HandleReplyGood ==
    ASSUME TypeOK, GoodRecords, NEW t \in Task, HandleReply(t)
    PROVE  GoodRecords'
<1>1. CASE \/ ReplyHmset(t) \/ ReplySadd(t) \/ ReplySrem(t) \/ ReplyExec(t)
  <2>1. Done(t)
    BY <1>1 DEF ReplyHmset, ReplySadd, ReplySrem, ReplyExec
  <2> QED
    BY <2>1, CallbackGood
<1>2. CASE ReplyIncr(t)
  BY <1>2, CallbackGood DEF ReplyIncr
<1>3. CASE ReplyKeysOne(t)
  BY <1>3, CallbackGood DEF ReplyKeysOne
<1>4. CASE ReplyKeysMsg(t)
  BY <1>4, CallbackGood DEF ReplyKeysMsg
<1>5. CASE ReplyKeysList(t)
  BY <1>5, CallbackGood, ReadRoomsGood DEF ReplyKeysList
<1>6. CASE ReplyHget(t)
  <2>1. task[t].kind = "list"
    BY <1>6 DEF ReplyHget, Called, GoodRecords, GoodRecord
  <2> QED
    BY <1>6, <2>1, CallbackGood, ReadRoomsGood DEF ReplyHget
<1>7. CASE ReplySmembers(t)
  BY <1>7, CallbackGood DEF ReplySmembers
<1> QED
  BY <1>1, <1>2, <1>3, <1>4, <1>5, <1>6, <1>7 DEF HandleReply

\* The kinds of requests.
Asks == {"create", "close", "in", "out", "msg", "list"}

\* A request starts a chain or throws before its first command.
LEMMA RequestBegins ==
    ASSUME NEW t \in Task, Request(t)
    PROVE  \/ \E kind \in Asks, pc \in {"incr", "keys", "members"} :
                 \E n : Begin(t, kind, pc, n)
           \/ \E kind \in Asks : Throws(t, kind)
<1>1. ASSUME NEW kind \in Asks, NEW pc \in {"keys", "members"}, NEW n, Ask(t, kind, pc, n)
      PROVE  Begin(t, kind, pc, n) \/ Throws(t, kind)
  BY <1>1 DEF Ask
<1>2. CASE RoomCreate(t) \/ RoomList(t) \/ BroadcastMsg(t)
  BY <1>2 DEF RoomCreate, RoomList, BroadcastMsg, Asks
<1>3. ASSUME NEW n, RoomClose(t, n) \/ RoomIn(t, n) \/ RoomOut(t, n)
      PROVE  \E kind \in Asks, pc \in {"keys", "members"} : Ask(t, kind, pc, n)
  BY <1>3 DEF RoomClose, RoomIn, RoomOut, Asks
<1> QED
  BY <1>1, <1>2, <1>3 DEF Request

LEMMA RequestGood ==
    ASSUME TypeOK, GoodRecords, NEW t \in Task, Request(t)
    PROVE  GoodRecords'
<1>1. ASSUME NEW kind \in Asks, NEW pc \in {"incr", "keys", "members"}, NEW n,
             Begin(t, kind, pc, n)
      PROVE  GoodRecords'
  BY <1>1, NewGood, OneGood DEF Begin, Run
<1>2. ASSUME NEW kind \in Asks, Throws(t, kind) PROVE GoodRecords'
  <2>1. GoodRecord([NewTask(kind, "hung", 0, entry[t[1]]) EXCEPT !.data = FALSE])
    BY DEF GoodRecord, NewTask
  <2> QED
    BY <1>2, <2>1, OneGood DEF Throws
<1> QED
  BY <1>1, <1>2, RequestBegins

LEMMA DisconnectGood ==
    ASSUME TypeOK, GoodRecords, NEW s \in Socket, NEW event \in {"close", "error"},
           Disconnect(s, event)
    PROVE  GoodRecords'
<1>1. CASE UNCHANGED task
  BY <1>1 DEF GoodRecords
<1>2. CASE Run(<<s, event>>, NewTask("leave", "members", ctxRoom[s], entry[s]))
  BY <1>2, NewGood, OneGood, EventTask DEF Run
<1> QED
  BY <1>1, <1>2 DEF Disconnect

\* What a command answers goes into its chain's record and leaves kind, command and
\* user of the chain as they were.
LEMMA ExecAnswers ==
    ASSUME TypeOK, NEW h \in Server, Exec(h)
    PROVE  /\ wire[h] # <<>> /\ Head(wire[h]) \in Task
           /\ \E rec \in TaskRecord :
                 /\ Answer(h, rec) /\ rec.pc = task[Head(wire[h])].pc
                 /\ rec.kind = task[Head(wire[h])].kind
                 /\ rec.user = task[Head(wire[h])].user
                 /\ rec.data = task[Head(wire[h])].data
<1> DEFINE t == Head(wire[h])
<1>1. wire[h] # <<>> /\ t \in Task /\ task[t] \in TaskRecord
  BY HeadType DEF Exec, ExecIncr, ExecHmset, ExecKeys, ExecSmembers, ExecSadd, ExecSrem,
     ExecClose, ExecHget, Executes
<1>2. CASE ExecIncr(h)
  <2>0. maxId + 1 \in Nat
    BY DEF TypeOK
  <2>1. [task[t] EXCEPT !.id = maxId + 1] \in TaskRecord
    BY <1>1, <2>0, IdType
  <2> QED
    BY <1>1, <1>2, <2>1 DEF ExecIncr, TaskRecord
<1>3. CASE ExecHmset(h) \/ ExecSadd(h) \/ ExecSrem(h)
  BY <1>1, <1>3 DEF ExecHmset, ExecSadd, ExecSrem
<1>4. CASE ExecKeys(h)
  <2> DEFINE list == {n \in rooms : task[t].kind = "list" \/ n \in Matched(task[t].room)}
  <2>1. [task[t] EXCEPT !.list = list] \in TaskRecord
    BY <1>1, ListType DEF TypeOK
  <2> QED
    BY <1>1, <1>4, <2>1 DEF ExecKeys, TaskRecord
<1>5. CASE ExecSmembers(h) \/ ExecClose(h)
  <2>1. [task[t] EXCEPT !.users = Members(task[t].room)] \in TaskRecord
    BY <1>1, UsersType DEF Members
  <2> QED
    BY <1>1, <1>5, <2>1 DEF ExecSmembers, ExecClose, TaskRecord
<1>6. CASE ExecHget(h)
  <2> DEFINE ok == task[t].room \in rooms
  <2>1. ok \in BOOLEAN
    OBVIOUS
  <2>2. Answer(h, [task[t] EXCEPT !.ok = ok])
    BY <1>6 DEF ExecHget
  <2> HIDE DEF ok
  <2>3. [task[t] EXCEPT !.ok = ok] \in TaskRecord
    BY <1>1, <2>1, OkType
  <2> QED
    BY <1>1, <2>2, <2>3 DEF TaskRecord
<1> QED
  BY <1>1, <1>2, <1>3, <1>4, <1>5, <1>6 DEF Exec

LEMMA ExecGood ==
    ASSUME TypeOK, GoodRecords, NEW h \in Server, Exec(h)
    PROVE  GoodRecords'
<1> DEFINE t == Head(wire[h])
<1>1. PICK rec \in TaskRecord : /\ Answer(h, rec) /\ rec.pc = task[t].pc
                                /\ rec.kind = task[t].kind /\ rec.user = task[t].user
                                /\ rec.data = task[t].data
  BY ExecAnswers
<1>2. t \in Task /\ GoodRecord(task[t])
  BY ExecAnswers DEF GoodRecords
<1> QED
  BY <1>1, <1>2, OneGood DEF Answer, GoodRecord

\* A lost connection keeps kind, command and user of every chain.
LEMMA FailureGood ==
    ASSUME TypeOK, GoodRecords, NEW h \in Server, LinkDrop(h) \/ Exit(h)
    PROVE  GoodRecords'
<1>1. CASE LinkDrop(h)
  <2>1. ASSUME NEW t \in Task PROVE GoodRecord(task'[t])
    <3>1. CASE Srv(t) = h /\ Busy(t)
      BY <1>1, <3>1 DEF LinkDrop, NewTask, GoodRecord, GoodRecords, Busy
    <3>2. CASE ~(Srv(t) = h /\ Busy(t))
      BY <1>1, <3>2 DEF LinkDrop, GoodRecords
    <3> QED
      BY <3>1, <3>2
  <2> QED
    BY <2>1 DEF GoodRecords, GoodRecord
<1>2. CASE Exit(h)
  <2>1. GoodRecord(NoTask)
    BY NewGood DEF NoTask
  <2>2. \A t \in Task : GoodRecord(task'[t])
    BY <1>2, <2>1 DEF Exit, GoodRecords
  <2> QED
    BY <2>2 DEF GoodRecords, GoodRecord
<1> QED
  BY <1>1, <1>2

LEMMA NextGood == TypeOK /\ GoodRecords /\ [Next]_vars => GoodRecords'
<1> SUFFICES ASSUME TypeOK, GoodRecords, [Next]_vars PROVE GoodRecords'
  OBVIOUS
<1>1. CASE UNCHANGED vars
  BY <1>1 DEF vars, GoodRecords
<1>2. ASSUME NEW s \in Socket, NEW u \in User, LoginRequest(s, u) \/ Login(s, u)
      PROVE  GoodRecords'
  BY <1>2 DEF LoginRequest, Login, GoodRecords
<1>3. ASSUME NEW s \in Socket,
             Connect(s) \/ ServerClose(s) \/ ClientClose(s) \/ Expire(s)
      PROVE  GoodRecords'
  BY <1>3 DEF Connect, ServerClose, ClientClose, Expire, GoodRecords
<1>4. ASSUME NEW s \in Socket, CloseEvent(s) \/ ErrorEvent(s) PROVE GoodRecords'
  BY <1>4, DisconnectGood DEF CloseEvent, ErrorEvent
<1> QED
  BY <1>1, <1>2, <1>3, <1>4, RequestGood, HandleReplyGood, ExecGood, FailureGood,
     NextSteps

\* Of the requests of logged-in users that carry the req_data their handler reads,
\* only a roomList stays without an answer, for any interleaving of requests and
\* logins, any errors from Redis and any lost processes.
THEOREM AnswersGiven == Spec => []OnlyListHangs
<1>1. Init => GoodRecords
  <2>1. GoodRecord(NoTask)
    BY NewGood DEF NoTask
  <2> QED
    BY <2>1 DEF Init, GoodRecords
<1>2. GoodRecords => OnlyListHangs
  BY DEF GoodRecords, GoodRecord, OnlyListHangs, Known
<1>3. Spec => []TypeOK
  BY TypeCorrect
<1> QED
  BY <1>1, <1>2, <1>3, NextGood, PTL DEF Spec

-----------------------------------------------------------------------------
(* Members of a room that closes.                                          *)

\* The reply that chain t has still to handle names user m[2] of room m[1].
Tells(t, m) ==
    /\ t \in Range(inbox[Srv(t)])
    /\ task[t].pc = "exec" /\ task[t].room = m[1] /\ m[2] \in task[t].users

\* ClosedAreTold with the place of the reply: a chain that waits for "exec" may
\* still have its command on the wire, where nothing was removed for it yet.
ToldInv == exits = 0 /\ drops = 0 => \A m \in owed : \E t \in Task : Tells(t, m)

LEMMA ToldKept ==
    ASSUME ToldInv, UNCHANGED <<exits, drops>>,
           \A m \in owed' : m \in owed /\ \A u \in Task : Tells(u, m) => Tells(u, m)'
    PROVE  ToldInv'
BY DEF ToldInv

\* A chain that a step leaves alone keeps its reply.
LEMMA TellsKept ==
    ASSUME NEW u \in Task, NEW m, Tells(u, m), task'[u] = task[u],
           u \in Range(inbox'[Srv(u)])
    PROVE  Tells(u, m)'
BY DEF Tells, Srv

\* A chain that did not wait starts: it had no reply to handle.
LEMMA StartTold ==
    ASSUME TypeOK, ToldInv, NEW t \in Task, ~Busy(t), NEW rec,
           task' = [task EXCEPT ![t] = rec], UNCHANGED <<inbox, owed, exits, drops>>
    PROVE  ToldInv'
<1>1. ASSUME NEW u \in Task, NEW m, Tells(u, m) PROVE Tells(u, m)'
  <2>1. u # t
    BY <1>1 DEF Tells, Busy
  <2> QED
    BY <1>1, <2>1, TellsKept DEF TypeOK, Tells
<1> QED
  BY <1>1, ToldKept

\* A callback takes its own chain out of the inbox, and no other.
LEMMA CallbackTold ==
    ASSUME TypeOK, OneCommandEach, ToldInv, NEW t \in Task, NEW pc, Called(t, pc),
           NEW rec, task' = [task EXCEPT ![t] = rec], owed' \subseteq owed,
           \A m \in owed' : ~Tells(t, m)
    PROVE  ToldInv'
<1>1. ASSUME NEW u \in Task, NEW m \in owed', Tells(u, m) PROVE Tells(u, m)'
  <2>1. u # t
    BY <1>1
  <2>2. u \in Range(inbox'[Srv(u)])
    BY <1>1, <2>1, CalledQueues, SrvType DEF Tells
  <2> QED
    BY <1>1, <2>1, <2>2, TellsKept DEF TypeOK
<1>2. UNCHANGED <<exits, drops>>
  BY DEF Called, boundVars
<1> QED
  BY <1>1, <1>2, ToldKept

LEMMA HandleReplyTold ==
    ASSUME TypeOK, OneCommandEach, ToldInv, NEW t \in Task, HandleReply(t)
    PROVE  ToldInv'
<1>1. CASE ReplyExec(t)
  <2>1. \A m \in owed' : m \in owed /\ ~Tells(t, m)
    <3> SUFFICES ASSUME NEW m \in owed', Tells(t, m) PROVE FALSE
      BY <1>1 DEF ReplyExec
    <3>1. m \in Name \X User /\ m \notin {task[t].room} \X task[t].users
      BY <1>1 DEF ReplyExec, TypeOK
    <3>2. m = <<m[1], m[2]>>
      BY <3>1
    <3> QED
      BY <3>1, <3>2 DEF Tells
  <2>2. Called(t, "exec") /\ task' = [task EXCEPT ![t] = NoTask]
    BY <1>1 DEF ReplyExec, Done
  <2> QED
    BY <2>1, <2>2, CallbackTold
<1>2. CASE ~ReplyExec(t)
  <2>1. PICK pc \in Pc \ {"exec"} : Called(t, pc)
    BY <1>2 DEF HandleReply, ReplyIncr, ReplyHmset, ReplyKeysOne, ReplyKeysMsg,
       ReplyKeysList, ReplyHget, ReplySmembers, ReplySadd, ReplySrem, Pc
  <2>2. UNCHANGED owed
    BY <1>2 DEF HandleReply, ReplyIncr, ReplyHmset, ReplyKeysOne, ReplyKeysMsg,
       ReplyKeysList, ReplyHget, ReplySmembers, ReplySadd, ReplySrem
  <2>3. \E rec : task' = [task EXCEPT ![t] = rec]
    <3>1. \/ Done(t) \/ Hang(t) \/ (\E next \in Pc : Step(t, next))
          \/ (\E rest : ReadRooms(t, rest))
      BY <1>2 DEF HandleReply, ReplyIncr, ReplyHmset, ReplyKeysOne, ReplyKeysMsg,
         ReplyKeysList, ReplyHget, ReplySmembers, ReplySadd, ReplySrem, Pc
    <3> QED
      BY <3>1 DEF Done, Hang, Step, Run, ReadRooms
  <2>4. \A m : ~Tells(t, m)
    BY <2>1 DEF Called, Tells
  <2> QED
    BY <2>1, <2>2, <2>3, <2>4, CallbackTold
<1> QED
  BY <1>1, <1>2

\* Redis runs a command: replies that wait are not touched by it.
LEMMA AnswerTold ==
    ASSUME TypeOK, OneCommandEach, NEW h \in Server, wire[h] # <<>>, NEW rec,
           rec.pc = task[Head(wire[h])].pc, Answer(h, rec),
           NEW u \in Task, NEW m, Tells(u, m)
    PROVE  Tells(u, m)'
<1>1. u # Head(wire[h])
  <2>1. Head(wire[h]) \in Range(wire[h]) /\ Srv(Head(wire[h])) = h
    BY AnswerQueues
  <2> QED
    BY <2>1 DEF OneCommandEach, Tells
<1>2. task'[u] = task[u] /\ u \in Range(inbox'[Srv(u)])
  BY <1>1, AnswerQueues, SrvType DEF Tells
<1> QED
  BY <1>2, TellsKept

LEMMA ExecTold ==
    ASSUME TypeOK, OneCommandEach, ToldInv, NEW h \in Server, Exec(h)
    PROVE  ToldInv'
<1> DEFINE t == Head(wire[h])
<1>1. PICK rec \in TaskRecord : Answer(h, rec) /\ rec.pc = task[t].pc
  BY ExecAnswers
<1>2. \A u \in Task : \A m : Tells(u, m) => Tells(u, m)'
  BY <1>1, ExecAnswers, AnswerTold
<1>3. UNCHANGED <<exits, drops>>
  BY <1>1 DEF Answer, boundVars
<1>4. CASE ExecClose(h)
  <2>1. PICK u \in Task : u = Head(wire[h])
    BY ExecAnswers
  <2>2. PICK n \in Name, users \in SUBSET User :
           n = task[u].room /\ users = Members(n)
    BY <2>1 DEF TypeOK, TaskRecord, Members
  <2> DEFINE told == [task[u] EXCEPT !.users = users]
  <2>3. /\ task[u] \in TaskRecord /\ task[u].pc = "exec"
        /\ wire[h] # <<>> /\ Answer(h, told)
        /\ owed' = owed \cup ({n} \X users)
    BY <1>4, <2>1, <2>2, HeadType DEF ExecClose, Executes
  <2>4. told.pc = "exec" /\ told.room = n /\ told.users = users
    BY <2>2, <2>3 DEF TaskRecord
  <2> HIDE DEF told
  <2>5. task'[u] = told /\ u \in Range(inbox'[Srv(u)])
    BY <2>1, <2>3, <2>4, AnswerQueues
  <2>6. ASSUME NEW m \in {n} \X users PROVE Tells(u, m)'
    BY <2>4, <2>5 DEF Tells, Srv
  <2> QED
    BY <1>2, <1>3, <2>3, <2>6 DEF ToldInv
<1>5. CASE ~ExecClose(h)
  <2>1. UNCHANGED owed
    BY <1>5 DEF Exec, ExecIncr, ExecHmset, ExecKeys, ExecSmembers, ExecSadd, ExecSrem,
       ExecHget
  <2> QED
    BY <1>2, <1>3, <2>1, ToldKept
<1> QED
  BY <1>4, <1>5

\* The clean-up of an event starts when the event comes, hence was not running.
LEMMA DisconnectTold ==
    ASSUME TypeOK, CleanUpOnce, ToldInv, NEW s \in Socket,
           NEW event \in {"close", "error"}, ~Past(event, ws[s]), Disconnect(s, event),
           UNCHANGED <<inbox, owed, exits, drops>>
    PROVE  ToldInv'
<1>1. CASE UNCHANGED task
  BY <1>1, ToldKept DEF Tells
<1>2. CASE Run(<<s, event>>, NewTask("leave", "members", ctxRoom[s], entry[s]))
  <2>1. ~Busy(<<s, event>>)
    BY CleanUpPast
  <2> QED
    BY <1>2, <2>1, EventTask, StartTold DEF Run
<1> QED
  BY <1>1, <1>2 DEF Disconnect

LEMMA NextTold == TypeOK /\ RegistryInv /\ ToldInv /\ [Next]_vars => ToldInv'
<1> SUFFICES ASSUME TypeOK, RegistryInv, ToldInv, [Next]_vars PROVE ToldInv'
  OBVIOUS
<1>0. OneCommandEach /\ CleanUpOnce
  BY DEF RegistryInv
<1>1. CASE UNCHANGED vars
  BY <1>1, ToldKept DEF vars, Tells
<1>2. ASSUME NEW s \in Socket,
             Connect(s) \/ ServerClose(s) \/ ClientClose(s) \/ Expire(s)
      PROVE  ToldInv'
  BY <1>2, ToldKept DEF Connect, ServerClose, ClientClose, Expire, boundVars, Tells
<1>3. ASSUME NEW s \in Socket, CloseEvent(s) \/ ErrorEvent(s) PROVE ToldInv'
  <2>1. PICK event \in {"close", "error"} : Disconnect(s, event) /\ ~Past(event, ws[s])
    BY <1>3 DEF CloseEvent, ErrorEvent, Past
  <2> QED
    BY <1>0, <1>3, <2>1, DisconnectTold DEF CloseEvent, ErrorEvent, boundVars
<1>4. ASSUME NEW t \in Task, Request(t) PROVE ToldInv'
  <2>1. PICK rec : Arrives(t) /\ task' = [task EXCEPT ![t] = rec]
    BY <1>4, RequestBegins DEF Begin, Run, Throws
  <2> QED
    BY <2>1, StartTold DEF Arrives
<1>6. ASSUME NEW s \in Socket, NEW u \in User, LoginRequest(s, u) \/ Login(s, u)
      PROVE  ToldInv'
  BY <1>6, ToldKept DEF LoginRequest, Login, boundVars, Tells
<1>5. ASSUME NEW h \in Server, LinkDrop(h) \/ Exit(h) PROVE ToldInv'
  <2>1. exits \in Nat /\ drops \in Nat /\ (exits' = exits + 1 \/ drops' = drops + 1)
    BY <1>5, RoomBoundAssumption DEF LinkDrop, Exit, TypeOK
  <2> QED
    BY <2>1 DEF ToldInv
<1> QED
  BY <1>0, <1>1, <1>2, <1>3, <1>4, <1>5, <1>6, HandleReplyTold, ExecTold, NextSteps

\* Whoever a closing room throws out is in a reply that delRoom's callback has still
\* to handle, as long as no process and no connection is lost.
THEOREM MembersTold == Spec => []ClosedAreTold
<1>1. Init => ToldInv
  BY DEF Init, ToldInv
<1>2. ToldInv => ClosedAreTold
  BY DEF ToldInv, Tells, ClosedAreTold
<1>3. Spec => []TypeOK /\ []RegistryInv
  BY TypeCorrect, RegistryInvariant
<1> QED
  BY <1>1, <1>2, <1>3, NextTold, PTL DEF Spec

-----------------------------------------------------------------------------
(* The chains that enter and leave rooms.                                  *)

\* Only clean-ups have kind "leave"; SREM is sent by roomOut and clean-ups; without
\* a lost connection SADD and SREM do not fail.
Sound(t, rec) ==
    /\ rec.kind = "leave" => t[2] \notin Slot
    /\ rec.pc = "srem" => rec.kind \in {"out", "leave"}
    /\ drops = 0 /\ rec.pc \in {"sadd", "srem"} => rec.ok

\* The users that the logins of socket s can have given it.
Own(s) == asked[s] \cup {NoUser}

\* Chains are sound, and they and the sockets are of users that the socket logged in.
ChainInv ==
    /\ \A s \in Socket : entry[s] \in Own(s)
    /\ \A t \in Task : Sound(t, task[t]) /\ task[t].user \in Own(t[1])

LEMMA ChainKept ==
    ASSUME TypeOK, ChainInv, NEW t \in Task, NEW rec, task' = [task EXCEPT ![t] = rec],
           UNCHANGED <<drops, asked>>, \A s \in Socket : entry'[s] \in {entry[s], NoUser},
           Sound(t, rec), rec.user \in Own(t[1])
    PROVE  ChainInv'
<1>1. ASSUME NEW u \in Task
      PROVE  Sound(u, task'[u]) /\ task'[u].user \in Own(u[1])
  <2>1. task'[u] = IF u = t THEN rec ELSE task[u]
    BY DEF TypeOK
  <2> QED
    BY <2>1 DEF ChainInv
<1>2. \A s \in Socket : entry'[s] \in Own(s)
  BY DEF ChainInv, Own
<1> QED
  BY <1>1, <1>2 DEF ChainInv, Sound, Own

\* Only logins and the sockets' entries change.
LEMMA ChainUnchanged ==
    ASSUME TypeOK, ChainInv, UNCHANGED <<task, drops>>,
           \A s \in Socket : /\ asked[s] \subseteq asked'[s]
                             /\ entry'[s] \in {entry[s], NoUser} \cup asked'[s]
    PROVE  ChainInv'
<1>1. \A u \in Task : u[1] \in Socket
  BY SrvType
<1> QED
  BY <1>1 DEF ChainInv, Sound, Own

LEMMA NoTaskSound ==
    ASSUME NEW t
    PROVE  Sound(t, NoTask) /\ NoTask.user = NoUser
BY DEF Sound, NoTask, NewTask

LEMMA CalledSame ==
    ASSUME TypeOK, NEW t \in Task, NEW pc, Called(t, pc)
    PROVE  UNCHANGED <<drops, exits, ws, asked, entry, members, closed, rooms>>
BY DEF Called, redisVars, boundVars

LEMMA HandleReplyChain ==
    ASSUME TypeOK, OneCommandEach, ChainInv, NEW t \in Task, HandleReply(t)
    PROVE  ChainInv'
<1>0. task[t] \in TaskRecord /\ Sound(t, task[t]) /\ task[t].user \in Own(t[1])
  BY DEF TypeOK, ChainInv
<1>1. PICK pc \in Pc : Called(t, pc)
  BY DEF HandleReply, ReplyIncr, ReplyHmset, ReplyKeysOne, ReplyKeysMsg,
     ReplyKeysList, ReplyHget, ReplySmembers, ReplySadd, ReplySrem, ReplyExec, Pc
<1>2. UNCHANGED <<drops, asked, entry>>
  BY <1>1, CalledSame
<1>3. ASSUME Done(t) PROVE ChainInv'
  BY <1>2, <1>3, NoTaskSound, ChainKept DEF Done, Own
<1>4. ASSUME Hang(t) PROVE ChainInv'
  <2> DEFINE rec == NewTask(task[t].kind, "hung", 0, task[t].user)
  <2>1. Sound(t, rec) /\ rec.user = task[t].user
    BY <1>0 DEF Sound, NewTask
  <2>2. task' = [task EXCEPT ![t] = rec]
    BY <1>4 DEF Hang
  <2> QED
    BY <1>0, <1>2, <2>1, <2>2, ChainKept
<1>5. ASSUME NEW next \in {"hmset", "exec", "members", "sadd", "srem"}, Step(t, next),
             next = "srem" => task[t].kind \in {"out", "leave"}
      PROVE  ChainInv'
  <2> DEFINE rec == [task[t] EXCEPT !.pc = next, !.ok = TRUE]
  <2>1. Sound(t, rec) /\ rec.user = task[t].user
    BY <1>0, <1>5 DEF Sound, TaskRecord
  <2>2. task' = [task EXCEPT ![t] = rec]
    BY <1>5 DEF Step, Run
  <2> QED
    BY <1>0, <1>2, <2>1, <2>2, ChainKept
<1>6. ASSUME NEW rest, ReadRooms(t, rest) PROVE ChainInv'
  <2>1. ASSUME NEW n \in rest,
               Run(t, [NewTask("list", "hget", n, task[t].user) EXCEPT !.list = rest \ {n}])
        PROVE  ChainInv'
    <3> DEFINE rec == [NewTask("list", "hget", n, task[t].user) EXCEPT !.list = rest \ {n}]
    <3>1. Sound(t, rec) /\ rec.user = task[t].user
      BY DEF Sound, NewTask
    <3>2. task' = [task EXCEPT ![t] = rec]
      BY <2>1 DEF Run
    <3> QED
      BY <1>0, <1>2, <3>1, <3>2, ChainKept
  <2> QED
    BY <1>3, <1>6, <2>1 DEF ReadRooms
<1>7. CASE \/ ReplyHmset(t) \/ ReplySadd(t) \/ ReplySrem(t) \/ ReplyExec(t)
  BY <1>3, <1>7 DEF ReplyHmset, ReplySadd, ReplySrem, ReplyExec
<1>8. CASE ReplyIncr(t) \/ ReplyKeysOne(t) \/ ReplyKeysMsg(t)
  BY <1>3, <1>4, <1>5, <1>8 DEF ReplyIncr, ReplyKeysOne, ReplyKeysMsg
<1>9. CASE ReplyKeysList(t) \/ ReplyHget(t)
  BY <1>4, <1>6, <1>9 DEF ReplyKeysList, ReplyHget
<1>10. CASE ReplySmembers(t)
  BY <1>3, <1>4, <1>5, <1>10 DEF ReplySmembers
<1> QED
  BY <1>7, <1>8, <1>9, <1>10 DEF HandleReply

LEMMA ExecOkKept ==
    ASSUME TypeOK, NEW h \in Server, Exec(h)
    PROVE  LET t == Head(wire[h]) IN
           \E rec \in TaskRecord : /\ Answer(h, rec) /\ rec.pc = task[t].pc
                                   /\ rec.kind = task[t].kind /\ rec.user = task[t].user
                                   /\ rec.pc \in {"sadd", "srem"} => rec = task[t]
<1> DEFINE t == Head(wire[h])
<1>1. PICK rec \in TaskRecord : /\ Answer(h, rec) /\ rec.pc = task[t].pc
                                /\ rec.kind = task[t].kind /\ rec.user = task[t].user
  BY ExecAnswers
<1>2. t \in Task /\ task[t] \in TaskRecord
  BY ExecAnswers DEF TypeOK
<1>3. CASE task[t].pc \in {"sadd", "srem"}
  <2>1. Answer(h, task[t])
    BY <1>3 DEF Exec, ExecIncr, ExecHmset, ExecKeys, ExecSmembers, ExecSadd, ExecSrem,
       ExecClose, ExecHget, Executes
  <2> QED
    BY <1>2, <2>1
<1>4. CASE task[t].pc \notin {"sadd", "srem"}
  BY <1>1, <1>4
<1> QED
  BY <1>3, <1>4

LEMMA ExecChain ==
    ASSUME TypeOK, OneCommandEach, ChainInv, NEW h \in Server, Exec(h)
    PROVE  ChainInv'
<1>1. PICK t \in Task : t = Head(wire[h])
  BY ExecAnswers
<1>2. PICK rec \in TaskRecord : /\ Answer(h, rec) /\ rec.pc = task[t].pc
                                /\ rec.kind = task[t].kind /\ rec.user = task[t].user
                                /\ rec.pc \in {"sadd", "srem"} => rec = task[t]
  BY <1>1, ExecOkKept
<1>3. UNCHANGED <<drops, asked, entry>>
  BY <1>2 DEF Answer, sockVars, boundVars
<1>4. Sound(t, task[t]) /\ task[t].user \in Own(t[1])
  BY DEF ChainInv
<1>5. Sound(t, rec)
  BY <1>2, <1>4 DEF Sound
<1>6. task' = [task EXCEPT ![t] = rec]
  BY <1>1, <1>2 DEF Answer
<1> QED
  BY <1>2, <1>3, <1>4, <1>5, <1>6, ChainKept

LEMMA RequestChain ==
    ASSUME TypeOK, ChainInv, NEW t \in Task, Request(t)
    PROVE  ChainInv'
<1>0. t[1] \in Socket /\ entry[t[1]] \in Own(t[1])
  BY SrvType DEF ChainInv
<1>1. ASSUME NEW rec, Arrives(t), task' = [task EXCEPT ![t] = rec], Sound(t, rec),
             rec.user = entry[t[1]]
      PROVE  ChainInv'
  <2>1. UNCHANGED <<drops, asked, entry>>
    BY <1>1 DEF Arrives, sockVars
  <2> QED
    BY <1>0, <1>1, <2>1, ChainKept
<1>2. ASSUME NEW kind \in Asks, NEW pc \in {"incr", "keys", "members"}, NEW n,
             Begin(t, kind, pc, n)
      PROVE  ChainInv'
  <2> DEFINE rec == NewTask(kind, pc, n, entry[t[1]])
  <2>1. Sound(t, rec) /\ rec.user = entry[t[1]]
    BY DEF Sound, NewTask, Asks
  <2>2. Arrives(t) /\ task' = [task EXCEPT ![t] = rec]
    BY <1>2 DEF Begin, Run
  <2> QED
    BY <1>1, <2>1, <2>2
<1>3. ASSUME NEW kind \in Asks, Throws(t, kind) PROVE ChainInv'
  <2> DEFINE rec == [NewTask(kind, "hung", 0, entry[t[1]]) EXCEPT !.data = FALSE]
  <2>1. Sound(t, rec) /\ rec.user = entry[t[1]]
    BY DEF Sound, NewTask, Asks
  <2>2. Arrives(t) /\ task' = [task EXCEPT ![t] = rec]
    BY <1>3 DEF Throws
  <2> QED
    BY <1>1, <2>1, <2>2
<1> QED
  BY <1>2, <1>3, RequestBegins

LEMMA NextChain == TypeOK /\ OneCommandEach /\ ChainInv /\ [Next]_vars => ChainInv'
<1> SUFFICES ASSUME TypeOK, OneCommandEach, ChainInv, [Next]_vars PROVE ChainInv'
  OBVIOUS
<1>1. CASE UNCHANGED vars
  BY <1>1, ChainUnchanged DEF vars
<1>2. ASSUME NEW s \in Socket,
             Connect(s) \/ ServerClose(s) \/ ClientClose(s) \/ Expire(s)
      PROVE  ChainInv'
  <2>1. UNCHANGED <<task, drops, asked>>
    BY <1>2 DEF Connect, ServerClose, ClientClose, Expire, boundVars
  <2>2. \A r \in Socket : entry'[r] \in {entry[r], NoUser}
    BY <1>2 DEF Connect, ServerClose, ClientClose, Expire, TypeOK
  <2> QED
    BY <2>1, <2>2, ChainUnchanged
<1>3. ASSUME NEW s \in Socket, CloseEvent(s) \/ ErrorEvent(s) PROVE ChainInv'
  <2>1. UNCHANGED <<drops, asked>>
    BY <1>3 DEF CloseEvent, ErrorEvent, boundVars
  <2>2. PICK event \in {"close", "error"} : Disconnect(s, event)
    BY <1>3 DEF CloseEvent, ErrorEvent
  <2>3. \A r \in Socket : entry'[r] \in {entry[r], NoUser}
    BY <2>2 DEF Disconnect, TypeOK
  <2>4. CASE UNCHANGED task
    BY <2>1, <2>3, <2>4, ChainUnchanged
  <2>5. CASE Run(<<s, event>>, NewTask("leave", "members", ctxRoom[s], entry[s]))
    <3> DEFINE rec == NewTask("leave", "members", ctxRoom[s], entry[s])
    <3>1. Sound(<<s, event>>, rec) /\ rec.user \in Own(s)
      BY SlotAssumption DEF Sound, NewTask, ChainInv
    <3>2. task' = [task EXCEPT ![<<s, event>>] = rec]
      BY <2>5 DEF Run
    <3> QED
      BY <2>1, <2>3, <3>1, <3>2, EventTask, ChainKept
  <2> QED
    BY <2>2, <2>4, <2>5 DEF Disconnect
<1>4. ASSUME NEW s \in Socket, NEW u \in User, LoginRequest(s, u) \/ Login(s, u)
      PROVE  ChainInv'
  <2>1. UNCHANGED <<task, drops>>
    BY <1>4 DEF LoginRequest, Login, boundVars
  <2>2. \A r \in Socket : /\ asked[r] \subseteq asked'[r]
                          /\ entry'[r] \in {entry[r], NoUser} \cup asked'[r]
    BY <1>4 DEF LoginRequest, Login, TypeOK
  <2> QED
    BY <2>1, <2>2, ChainUnchanged
<1>5. ASSUME NEW h \in Server, LinkDrop(h) PROVE ChainInv'
  <2>1. UNCHANGED <<entry, asked>> /\ drops' # 0
    BY <1>5, RoomBoundAssumption DEF LinkDrop, sockVars, TypeOK
  <2>2. ASSUME NEW t \in Task
        PROVE  /\ task'[t].kind = task[t].kind /\ task'[t].pc = task[t].pc
               /\ task'[t].user = task[t].user
    BY <1>5 DEF LinkDrop, NewTask
  <2> QED
    BY <2>1, <2>2 DEF ChainInv, Sound, Own
<1>6. ASSUME NEW h \in Server, Exit(h) PROVE ChainInv'
  <2>1. UNCHANGED <<drops, asked>>
    BY <1>6 DEF Exit
  <2>2. ASSUME NEW t \in Task PROVE Sound(t, task'[t]) /\ task'[t].user \in Own(t[1])
    <3>1. CASE Srv(t) = h
      BY <1>6, <3>1, NoTaskSound DEF Exit, Own
    <3>2. CASE Srv(t) # h
      BY <1>6, <3>2 DEF Exit, ChainInv
    <3> QED
      BY <3>1, <3>2
  <2>3. \A s \in Socket : entry'[s] \in Own(s)
    BY <1>6 DEF Exit, ChainInv, Own
  <2> QED
    BY <2>1, <2>2, <2>3 DEF ChainInv, Sound, Own
<1> QED
  BY <1>1, <1>2, <1>3, <1>4, <1>5, <1>6, RequestChain, HandleReplyChain, ExecChain,
     NextSteps

-----------------------------------------------------------------------------
(* The order of replies.                                                   *)

\* Connection s has been told, or its i-th reply will tell it, that it is in room n:
\* ctx.roomId is reply number 0.
Claim(s, n, i) ==
    LET q == inbox[Home[s]] IN
    \/ i = 0 /\ ctxRoom[s] = n
    \/ i \in DOMAIN q /\ q[i][1] = s /\ task[q[i]].pc = "sadd" /\ task[q[i]].room = n

\* A reply after the i-th tells s that it left room n.
Leaves(s, n, i) ==
    LET q == inbox[Home[s]] IN
    \E j \in DOMAIN q : /\ j > i /\ q[j][1] = s
                        /\ task[q[j]].pc = "srem" /\ task[q[j]].room = n

Backed(u, n) == <<n, u>> \in members \/ n \in closed

\* No login of socket s was for another user than u, none of another socket was for
\* u, and s has not begun to close.
Mine(s, u) ==
    /\ asked[s] \subseteq {u} /\ \A r \in Socket \ {s} : u \notin asked[r]
    /\ ws[s] \in {"none", "open", "kicked"}

\* MembershipBacked for connections in the middle of things: Redis runs a server's
\* commands in the order in which their replies are handled, so a claim that is no
\* longer true is taken back by a later reply.
ClaimInv ==
    drops = 0 => \A s \in Socket, u \in User : Mine(s, u) =>
        \A n \in Name, i \in Nat : Claim(s, n, i) => Backed(u, n) \/ Leaves(s, n, i)

MineKept == \A s \in Socket, u \in User : Mine(s, u)' => Mine(s, u)

\* Logins are remembered, and a connection that closes stays so.
LEMMA MineFrom ==
    ASSUME \A s \in Socket : /\ asked[s] \subseteq asked'[s]
                             /\ ws'[s] \in {"none", "open", "kicked"} =>
                                   ws[s] \in {"none", "open", "kicked"}
    PROVE  MineKept
BY DEF MineKept, Mine

\* A step that leaves the replies alone, and the chains they are for.
LEMMA ClaimUnchanged ==
    ASSUME TypeOK, ClaimInv, MineKept, UNCHANGED <<inbox, ctxRoom, members, closed, drops>>,
           \A h \in Server : \A i \in DOMAIN inbox[h] :
              task'[inbox[h][i]] = task[inbox[h][i]]
    PROVE  ClaimInv'
<1> SUFFICES ASSUME drops = 0, NEW s \in Socket, NEW u \in User, Mine(s, u)',
                    NEW n \in Name, NEW i \in Nat, Claim(s, n, i)'
             PROVE  Backed(u, n)' \/ Leaves(s, n, i)'
  BY DEF ClaimInv
<1>1. Home[s] \in Server
  BY RoomSocketAssumption
<1>2. Claim(s, n, i)
  BY <1>1 DEF Claim
<1>3. Backed(u, n) \/ Leaves(s, n, i)
  BY <1>2 DEF ClaimInv, MineKept
<1> QED
  BY <1>1, <1>3 DEF Backed, Leaves

\* A chain that does not wait has no reply to come.
LEMMA ClaimStart ==
    ASSUME TypeOK, OneCommandEach, ClaimInv, MineKept, NEW t \in Task, ~Busy(t), NEW rec,
           task' = [task EXCEPT ![t] = rec], UNCHANGED <<inbox, ctxRoom, members, closed, drops>>
    PROVE  ClaimInv'
<1>1. ASSUME NEW h \in Server, NEW i \in DOMAIN inbox[h]
      PROVE  task'[inbox[h][i]] = task[inbox[h][i]]
  <2>1. inbox[h][i] \in Range(inbox[h])
    BY DEF Range
  <2>2. inbox[h][i] # t
    BY <2>1 DEF OneCommandEach
  <2>3. inbox[h][i] \in Task
    BY <2>1, QueueType
  <2> QED
    BY <2>2, <2>3 DEF TypeOK
<1> QED
  BY <1>1, ClaimUnchanged

\* A callback handles the first reply of its server. It may set ctx.roomId to what
\* that reply says and must not keep it when the reply says that s left.
LEMMA ClaimCalled ==
    ASSUME TypeOK, OneCommandEach, ClaimInv, NEW t \in Task, NEW pc, Called(t, pc),
           NEW rec, task' = [task EXCEPT ![t] = rec],
           \A s \in Socket : ws[s] \in {"none", "open", "kicked"} =>
              \/ ctxRoom'[s] = ctxRoom[s] /\ ~(t[1] = s /\ pc = "srem")
              \/ ctxRoom'[s] = NoRoom
              \/ t[1] = s /\ pc = "sadd" /\ ctxRoom'[s] = task[t].room
    PROVE  ClaimInv'
<1>0. UNCHANGED <<drops, ws, asked, members, closed>>
  BY CalledSame
<1> SUFFICES ASSUME drops = 0, NEW s \in Socket, NEW u \in User, Mine(s, u),
                    NEW n \in Name, NEW i \in Nat, Claim(s, n, i)'
             PROVE  Backed(u, n) \/ Leaves(s, n, i)'
  BY <1>0 DEF ClaimInv, Mine, Backed
<1> DEFINE h == Home[s]
           q == inbox[h]
<1>1. /\ h \in Server /\ q \in Seq(Task) /\ IsInjective(q)
      /\ Srv(t) \in Server /\ task[t].pc = pc
  BY RoomSocketAssumption, SrvType DEF TypeOK, OneCommandEach, Called
<1>2. ASSUME NEW j \in Nat, Claim(s, n, j) PROVE Backed(u, n) \/ Leaves(s, n, j)
  BY <1>2 DEF ClaimInv
<1>3. CASE Srv(t) # h
  <2>1. inbox'[h] = q /\ t[1] # s
    BY <1>1, <1>3 DEF Called, Srv, TypeOK
  <2>2. \A j \in DOMAIN q : q[j] \in Task /\ q[j] # t
    BY <1>1, <1>3 DEF OneCommandEach, Range
  <2>3. \A j \in DOMAIN q : task'[q[j]] = task[q[j]]
    BY <2>2 DEF TypeOK
  <2>4. Claim(s, n, i)
    BY <2>1, <2>3, NoRoomAssumption DEF Claim, Mine
  <2>5. Leaves(s, n, i) => Leaves(s, n, i)'
    BY <2>1, <2>3 DEF Leaves
  <2> QED
    BY <1>2, <2>4, <2>5
<1>4. CASE Srv(t) = h
  <2>1. q # <<>> /\ Head(q) = t /\ inbox'[h] = Tail(q)
    BY <1>1, <1>4 DEF Called, TypeOK
  <2>2. /\ DOMAIN q = 1 .. Len(q) /\ Len(q) \in Nat /\ Len(q) > 0
        /\ DOMAIN Tail(q) = 1 .. Len(q) - 1
        /\ \A j \in 1 .. Len(q) - 1 : Tail(q)[j] = q[j + 1]
        /\ q[1] = t
    BY <1>1, <2>1
  <2>3. \A j \in 2 .. Len(q) : q[j] \in Task /\ q[j] # t
    <3>1. \A j \in DOMAIN q : q[j] \in Task
      BY <1>1
    <3>2. \A a, b \in DOMAIN q : q[a] = q[b] => a = b
      BY <1>1 DEF IsInjective
    <3>3. 1 \in DOMAIN q /\ \A j \in 2 .. Len(q) : j \in DOMAIN q /\ j # 1
      BY <2>2
    <3> QED
      BY <2>2, <3>1, <3>2, <3>3
  <2>4. \A j \in 2 .. Len(q) : task'[q[j]] = task[q[j]]
    BY <2>3 DEF TypeOK
  <2>5. ASSUME NEW j \in Nat, j >= i, Leaves(s, n, j), j > 0 \/ ~(t[1] = s /\ pc = "srem")
        PROVE  j = i + 1 \/ j = 0 => Leaves(s, n, i)'
    <3>1. PICK k \in DOMAIN q : /\ k > j /\ q[k][1] = s
                                /\ task[q[k]].pc = "srem" /\ task[q[k]].room = n
      BY <2>5 DEF Leaves
    <3>2. k # 1
      BY <1>1, <2>2, <2>5, <3>1
    <3>3. k \in 2 .. Len(q) /\ k - 1 \in 1 .. Len(q) - 1
      BY <2>2, <3>1, <3>2
    <3>4. Tail(q)[k - 1] = q[k]
      BY <2>2, <3>3
    <3>5. j = i + 1 \/ j = 0 => k - 1 > i
      BY <2>2, <2>5, <3>1, <3>3
    <3>6. /\ k - 1 \in DOMAIN inbox'[Home[s]] /\ inbox'[Home[s]][k - 1] = q[k]
          /\ task'[q[k]] = task[q[k]]
      BY <2>1, <2>2, <2>4, <3>3, <3>4
    <3> HIDE DEF q, h
    <3> QED
      BY <3>1, <3>5, <3>6 DEF Leaves
  <2>6. CASE i = 0 /\ ctxRoom'[s] = n
    <3>1. n # NoRoom /\ ws[s] \in {"none", "open", "kicked"}
      BY NoRoomAssumption DEF Mine
    <3>2. CASE ctxRoom[s] = n /\ ~(t[1] = s /\ pc = "srem")
      <4>1. Claim(s, n, 0)
        BY <3>2 DEF Claim
      <4> QED
        BY <1>2, <2>5, <2>6, <3>2, <4>1
    <3>3. CASE t[1] = s /\ pc = "sadd" /\ n = task[t].room
      <4>1. Claim(s, n, 1)
        BY <1>1, <2>2, <3>3 DEF Claim
      <4> QED
        BY <1>2, <2>5, <2>6, <4>1
    <3> QED
      BY <2>6, <3>1, <3>2, <3>3
  <2>7. CASE ~(i = 0 /\ ctxRoom'[s] = n)
    <3>1. /\ i \in 1 .. Len(q) - 1 /\ Tail(q)[i][1] = s
          /\ task'[Tail(q)[i]].pc = "sadd" /\ task'[Tail(q)[i]].room = n
      BY <2>1, <2>2, <2>7 DEF Claim
    <3>2. i + 1 \in 2 .. Len(q) /\ Tail(q)[i] = q[i + 1]
      BY <2>2, <3>1
    <3>3. Claim(s, n, i + 1)
      BY <2>2, <2>4, <3>1, <3>2 DEF Claim
    <3> QED
      BY <1>2, <2>5, <3>3
  <2> QED
    BY <2>6, <2>7
<1> QED
  BY <1>3, <1>4

\* Redis runs a command of server h: its reply comes after all others of h.
LEMMA ClaimAnswer ==
    ASSUME TypeOK, OneCommandEach, ClaimInv, NEW h \in Server, wire[h] # <<>>,
           NEW t \in Task, t = Head(wire[h]), NEW rec, Answer(h, rec),
           rec.pc = task[t].pc,
           rec.pc \in {"sadd", "srem"} => rec = task[t],
           \A s \in Socket, u \in User, n \in Name : Mine(s, u) /\ Backed(u, n) =>
              Backed(u, n)' \/ (t[1] = s /\ rec.pc = "srem" /\ rec.room = n),
           rec.pc = "sadd" => Backed(rec.user, rec.room)' /\ rec.user \in asked[t[1]]
    PROVE  ClaimInv'
<1>0. UNCHANGED <<drops, ws, asked, ctxRoom>>
  BY DEF Answer, sockVars, boundVars
<1> SUFFICES ASSUME drops = 0, NEW s \in Socket, NEW u \in User, Mine(s, u),
                    NEW n \in Name, NEW i \in Nat, Claim(s, n, i)'
             PROVE  Backed(u, n)' \/ Leaves(s, n, i)'
  BY <1>0 DEF ClaimInv, Mine
<1> DEFINE q == inbox[Home[s]]
<1>1. Home[s] \in Server /\ q \in Seq(Task) /\ Len(q) \in Nat /\ DOMAIN q = 1 .. Len(q)
  BY RoomSocketAssumption DEF TypeOK
<1>2. Srv(t) = h /\ t \in Range(wire[h])
  BY AnswerQueues
<1>3. \A j \in DOMAIN q : q[j] \in Task /\ q[j] # t
  <2>1. ASSUME NEW j \in DOMAIN q PROVE q[j] \in Task /\ q[j] # t
    <3>1. q[j] \in Range(q)
      BY DEF Range
    <3>2. q[j] \in Task /\ Srv(q[j]) = Home[s]
      BY <1>1, <3>1, QueueType DEF OneCommandEach
    <3>3. Range(wire[h]) \cap Range(inbox[h]) = {}
      BY DEF OneCommandEach
    <3> QED
      BY <1>2, <3>1, <3>2, <3>3
  <2> QED
    BY <2>1
<1>4. \A j \in DOMAIN q : task'[q[j]] = task[q[j]]
  BY <1>3 DEF Answer, TypeOK
<1>5. task'[t] = rec
  BY DEF Answer, TypeOK
<1>6. /\ Home[s] # h => inbox'[Home[s]] = q
      /\ Home[s] = h => inbox'[Home[s]] = Append(q, t)
  BY <1>1 DEF Answer, TypeOK
<1>7. /\ DOMAIN q \subseteq DOMAIN inbox'[Home[s]]
      /\ \A j \in DOMAIN q : inbox'[Home[s]][j] = q[j]
      /\ \A j \in DOMAIN inbox'[Home[s]] \ DOMAIN q :
            j = Len(q) + 1 /\ Home[s] = h /\ inbox'[Home[s]][j] = t
  <2>1. CASE Home[s] # h
    BY <1>6, <2>1
  <2>2. CASE Home[s] = h
    BY <1>1, <1>6, <2>2
  <2> QED
    BY <2>1, <2>2
<1>8. Leaves(s, n, i) => Leaves(s, n, i)'
  BY <1>4, <1>7 DEF Leaves
<1>9. CASE Claim(s, n, i)
  <2>1. Backed(u, n) \/ Leaves(s, n, i)
    BY <1>9 DEF ClaimInv
  <2>2. CASE t[1] = s /\ rec.pc = "srem" /\ rec.room = n
    <3>1. Home[s] = h /\ inbox'[Home[s]] = Append(q, t)
      BY <1>2, <1>6, <2>2 DEF Srv
    <3>2. Len(q) + 1 \in DOMAIN inbox'[Home[s]] /\ inbox'[Home[s]][Len(q) + 1] = t
      BY <1>1, <3>1
    <3>3. Len(q) + 1 > i
      BY <1>1, <1>9 DEF Claim
    <3> QED
      BY <1>5, <2>2, <3>2, <3>3 DEF Leaves
  <2> QED
    BY <1>8, <2>1, <2>2
<1>10. CASE ~Claim(s, n, i)
  <2>1. /\ i \in DOMAIN inbox'[Home[s]] /\ i \notin DOMAIN q
    BY <1>0, <1>4, <1>7, <1>10 DEF Claim
  <2>2. inbox'[Home[s]][i] = t
    BY <1>7, <2>1
  <2>3. i # 0
    BY <1>7, <1>1, <2>1
  <2>4. t[1] = s /\ rec.pc = "sadd" /\ rec.room = n
    BY <1>5, <2>2, <2>3 DEF Claim
  <2>5. rec.user = u
    BY <2>4 DEF Mine
  <2> QED
    BY <2>4, <2>5
<1> QED
  BY <1>9, <1>10

LEMMA ExecClaim ==
    ASSUME TypeOK, OneCommandEach, ChainInv, ClaimInv, NEW h \in Server, Exec(h)
    PROVE  ClaimInv'
<1>1. PICK t \in Task : t = Head(wire[h])
  BY ExecAnswers
<1>2. wire[h] # <<>> /\ task[t] \in TaskRecord /\ t[1] \in Socket
  BY ExecAnswers, SrvType DEF TypeOK
<1>3. PICK rec \in TaskRecord : /\ Answer(h, rec) /\ rec.pc = task[t].pc
                                /\ rec.pc \in {"sadd", "srem"} => rec = task[t]
  BY <1>1, ExecOkKept
<1>4. rec.pc \in {"sadd", "srem"} => rec.user \in asked[t[1]]
  BY <1>2, <1>3 DEF ChainInv, Own, TaskRecord
<1>5. ASSUME NEW s \in Socket, NEW u \in User, NEW n \in Name, Mine(s, u), Backed(u, n)
      PROVE  Backed(u, n)' \/ (t[1] = s /\ rec.pc = "srem" /\ rec.room = n)
  <2>1. CASE \/ ExecIncr(h) \/ ExecHmset(h) \/ ExecKeys(h) \/ ExecSmembers(h)
             \/ ExecHget(h)
    BY <1>5, <2>1 DEF ExecIncr, ExecHmset, ExecKeys, ExecSmembers, ExecHget, redisVars,
       Backed
  <2>2. CASE ExecSadd(h)
    BY <1>5, <2>2 DEF ExecSadd, Backed
  <2>3. CASE ExecClose(h)
    <3>1. <<n, u>>[1] = n
      OBVIOUS
    <3> QED
      BY <1>5, <2>3, <3>1 DEF ExecClose, Backed
  <2>4. CASE ExecSrem(h)
    <3>1. rec = task[t] /\ rec.pc = "srem" /\ UNCHANGED closed
          /\ members' = members \ {<<task[t].room, task[t].user>>}
      BY <1>1, <1>3, <2>4 DEF ExecSrem, Executes
    <3>2. task[t].user = u => t[1] = s
      BY <1>2, <1>4, <1>5, <3>1 DEF Mine
    <3> QED
      BY <1>5, <3>1, <3>2 DEF Backed
  <2> QED
    BY <2>1, <2>2, <2>3, <2>4 DEF Exec
<1>6. rec.pc = "sadd" => Backed(rec.user, rec.room)' /\ rec.user \in asked[t[1]]
  BY <1>1, <1>3, <1>4 DEF Exec, ExecIncr, ExecHmset, ExecKeys, ExecSmembers, ExecSadd,
     ExecSrem, ExecClose, ExecHget, Executes, Backed
<1> QED
  BY <1>1, <1>2, <1>3, <1>5, <1>6, ClaimAnswer

LEMMA HandleReplyClaim ==
    ASSUME TypeOK, OneCommandEach, CleanUpOnce, ChainInv, ClaimInv, NEW t \in Task,
           HandleReply(t)
    PROVE  ClaimInv'
<1>0. PICK pc \in Pc : Called(t, pc)
  BY DEF HandleReply, ReplyIncr, ReplyHmset, ReplyKeysOne, ReplyKeysMsg,
     ReplyKeysList, ReplyHget, ReplySmembers, ReplySadd, ReplySrem, ReplyExec, Pc
<1>1. task[t].pc = pc /\ Busy(t) /\ t[1] \in Socket
  BY <1>0, CalledQueues, SrvType DEF Called
<1>2. CASE drops # 0
  BY <1>0, <1>2, CalledSame DEF ClaimInv
<1>3. CASE drops = 0
  <2>1. \E rec : task' = [task EXCEPT ![t] = rec]
    <3>1. \/ Done(t) \/ Hang(t) \/ (\E next \in Pc : Step(t, next))
          \/ (\E rest : ReadRooms(t, rest))
      BY DEF HandleReply, ReplyIncr, ReplyHmset, ReplyKeysOne, ReplyKeysMsg,
         ReplyKeysList, ReplyHget, ReplySmembers, ReplySadd, ReplySrem, ReplyExec, Pc
    <3> QED
      BY <3>1 DEF Done, Hang, Step, Run, ReadRooms
  <2>2. ASSUME NEW s \in Socket, ws[s] \in {"none", "open", "kicked"}
        PROVE  \/ ctxRoom'[s] = ctxRoom[s] /\ ~(t[1] = s /\ pc = "srem")
               \/ ctxRoom'[s] = NoRoom
               \/ t[1] = s /\ pc = "sadd" /\ ctxRoom'[s] = task[t].room
    <3>1. CASE pc = "srem"
      <4>1. ReplySrem(t)
        BY <1>1, <3>1 DEF HandleReply, ReplyIncr, ReplyHmset, ReplyKeysOne, ReplyKeysMsg,
           ReplyKeysList, ReplyHget, ReplySmembers, ReplySadd, ReplyExec, Called
      <4>2. t[1] = s => task[t].kind = "out" /\ task[t].ok
        <5>1. t[1] = s => t[2] \in Slot
          <6>1. t = <<t[1], t[2]>> /\ t[2] \in Slot \cup {"close", "error"}
            BY DEF Task
          <6>2. \A event \in {"close", "error"} : ~Busy(<<s, event>>)
            BY <2>2 DEF CleanUpOnce
          <6> QED
            BY <1>1, <6>1, <6>2
        <5> QED
          BY <1>1, <1>3, <3>1, <5>1 DEF ChainInv, Sound
      <4> QED
        BY <1>1, <4>1, <4>2 DEF ReplySrem, TypeOK
    <3>2. CASE pc = "sadd"
      <4>1. ReplySadd(t)
        BY <1>1, <3>2 DEF HandleReply, ReplyIncr, ReplyHmset, ReplyKeysOne, ReplyKeysMsg,
           ReplyKeysList, ReplyHget, ReplySmembers, ReplySrem, ReplyExec, Called
      <4> QED
        BY <1>1, <3>2, <4>1 DEF ReplySadd, TypeOK
    <3>3. CASE pc \notin {"sadd", "srem"}
      <4>1. UNCHANGED ctxRoom
        BY <1>1, <3>3 DEF HandleReply, ReplyIncr, ReplyHmset, ReplyKeysOne, ReplyKeysMsg,
           ReplyKeysList, ReplyHget, ReplySmembers, ReplySadd, ReplySrem, ReplyExec, Called
      <4> QED
        BY <3>3, <4>1
    <3> QED
      BY <3>1, <3>2, <3>3
  <2> QED
    BY <1>0, <2>1, <2>2, ClaimCalled
<1> QED
  BY <1>2, <1>3

LEMMA NextClaim ==
    TypeOK /\ RegistryInv /\ ChainInv /\ ClaimInv /\ [Next]_vars => ClaimInv'
<1> SUFFICES ASSUME TypeOK, RegistryInv, ChainInv, ClaimInv, [Next]_vars
             PROVE  ClaimInv'
  OBVIOUS
<1>0. OneCommandEach /\ CleanUpOnce
  BY DEF RegistryInv
<1>1. CASE UNCHANGED vars
  <2>1. MineKept /\ UNCHANGED <<inbox, task, ctxRoom, members, closed, drops>>
    BY <1>1, MineFrom DEF vars
  <2> QED
    BY <2>1, ClaimUnchanged
<1>2. ASSUME NEW s \in Socket,
             Connect(s) \/ ServerClose(s) \/ ClientClose(s) \/ Expire(s)
      PROVE  ClaimInv'
  <2>1. UNCHANGED <<inbox, task, ctxRoom, members, closed, drops>>
    BY <1>2 DEF Connect, ServerClose, ClientClose, Expire, boundVars, redisVars
  <2>2. MineKept
    BY <1>2, MineFrom DEF Connect, ServerClose, ClientClose, Expire, TypeOK
  <2> QED
    BY <2>1, <2>2, ClaimUnchanged
<1>3. ASSUME NEW s \in Socket, CloseEvent(s) \/ ErrorEvent(s) PROVE ClaimInv'
  <2>1. PICK event \in {"close", "error"} : Disconnect(s, event) /\ ~Past(event, ws[s])
    BY <1>3 DEF CloseEvent, ErrorEvent, Past
  <2>2. UNCHANGED <<inbox, ctxRoom, members, closed, drops>>
    BY <1>3 DEF CloseEvent, ErrorEvent, boundVars, redisVars
  <2>3. MineKept
    BY <1>3, MineFrom DEF CloseEvent, ErrorEvent, TypeOK
  <2>4. CASE UNCHANGED task
    BY <2>2, <2>3, <2>4, ClaimUnchanged
  <2>5. CASE Run(<<s, event>>, NewTask("leave", "members", ctxRoom[s], entry[s]))
    <3>1. ~Busy(<<s, event>>)
      BY <1>0, <2>1, CleanUpPast
    <3> QED
      BY <1>0, <2>2, <2>3, <2>5, <3>1, EventTask, ClaimStart DEF Run
  <2> QED
    BY <2>1, <2>4, <2>5 DEF Disconnect
<1>4. ASSUME NEW t \in Task, Request(t) PROVE ClaimInv'
  <2>1. PICK rec : Arrives(t) /\ task' = [task EXCEPT ![t] = rec]
    BY <1>4, RequestBegins DEF Begin, Run, Throws
  <2>2. UNCHANGED <<inbox, ctxRoom, members, closed, drops, ws, asked>> /\ ~Busy(t)
    BY <2>1 DEF Arrives, sockVars, redisVars
  <2>3. MineKept
    BY <2>2, MineFrom
  <2> QED
    BY <1>0, <2>1, <2>2, <2>3, ClaimStart
<1>7. ASSUME NEW s \in Socket, NEW u \in User, LoginRequest(s, u) \/ Login(s, u)
      PROVE  ClaimInv'
  <2>1. UNCHANGED <<inbox, task, ctxRoom, members, closed, drops>>
    BY <1>7 DEF LoginRequest, Login, boundVars, redisVars
  <2>2. MineKept
    BY <1>7, MineFrom DEF LoginRequest, Login, TypeOK
  <2> QED
    BY <2>1, <2>2, ClaimUnchanged
<1>5. ASSUME NEW h \in Server, LinkDrop(h) PROVE ClaimInv'
  <2>1. drops' # 0
    BY <1>5, RoomBoundAssumption DEF LinkDrop, TypeOK
  <2> QED
    BY <2>1 DEF ClaimInv
<1>6. ASSUME NEW h \in Server, Exit(h) PROVE ClaimInv'
  <2>1. UNCHANGED <<members, closed, drops>>
    BY <1>6 DEF Exit, redisVars
  <2>2. MineKept
    BY <1>6, MineFrom DEF Exit, TypeOK
  <2> SUFFICES ASSUME drops = 0, NEW s \in Socket, NEW u \in User, Mine(s, u)',
                      NEW n \in Name, NEW i \in Nat, Claim(s, n, i)'
               PROVE  Backed(u, n)' \/ Leaves(s, n, i)'
    BY <2>1 DEF ClaimInv
  <2>3. Home[s] \in Server
    BY RoomSocketAssumption
  <2>4. Home[s] # h
    <3>1. Home[s] = h => ctxRoom'[s] = NoRoom /\ inbox'[Home[s]] = <<>>
      BY <1>6, <2>3 DEF Exit, TypeOK
    <3>2. DOMAIN <<>> = {}
      OBVIOUS
    <3> QED
      BY <3>1, <3>2, NoRoomAssumption DEF Claim
  <2>5. ctxRoom'[s] = ctxRoom[s] /\ inbox'[Home[s]] = inbox[Home[s]]
    BY <1>6, <2>3, <2>4 DEF Exit, TypeOK
  <2>6. ASSUME NEW j \in DOMAIN inbox[Home[s]]
        PROVE  task'[inbox[Home[s]][j]] = task[inbox[Home[s]][j]]
    <3>1. inbox[Home[s]][j] \in Range(inbox[Home[s]])
      BY DEF Range
    <3>2. inbox[Home[s]][j] \in Task /\ Srv(inbox[Home[s]][j]) = Home[s]
      BY <1>0, <2>3, <3>1, QueueType DEF OneCommandEach
    <3> QED
      BY <1>6, <2>4, <3>2 DEF Exit
  <2>7. Claim(s, n, i)
    BY <2>5, <2>6 DEF Claim
  <2>8. Backed(u, n) \/ Leaves(s, n, i)
    BY <2>2, <2>7 DEF ClaimInv, MineKept
  <2> QED
    BY <2>1, <2>5, <2>6, <2>8 DEF Backed, Leaves
<1> QED
  BY <1>0, <1>1, <1>2, <1>3, <1>4, <1>5, <1>6, <1>7, HandleReplyClaim, ExecClaim,
     NextSteps

LEMMA ClaimImpliesBacked ==
    ASSUME TypeOK, OneCommandEach, ClaimInv
    PROVE  MembershipBacked
<1> SUFFICES ASSUME drops = 0, NEW s \in Socket, NEW u \in User, Still(s), Sole(s, u),
                    ws[s] \in {"open", "kicked"}, ctxRoom[s] # NoRoom
             PROVE  Backed(u, ctxRoom[s])
  BY DEF MembershipBacked, Backed
<1>0. Mine(s, u)
  BY DEF Mine, Sole
<1>1. ctxRoom[s] \in Name /\ Claim(s, ctxRoom[s], 0)
  BY DEF TypeOK, Claim
<1>2. ~Leaves(s, ctxRoom[s], 0)
  <2>1. ASSUME NEW j \in DOMAIN inbox[Home[s]], inbox[Home[s]][j][1] = s PROVE FALSE
    <3>1. inbox[Home[s]][j] \in Range(inbox[Home[s]]) /\ Home[s] \in Server
      BY RoomSocketAssumption DEF Range
    <3>2. inbox[Home[s]][j] \in Task /\ Busy(inbox[Home[s]][j])
      BY <3>1, QueueType DEF OneCommandEach
    <3> QED
      BY <2>1, <3>2 DEF Still
  <2> QED
    BY <2>1 DEF Leaves
<1> QED
  BY <1>0, <1>1, <1>2 DEF ClaimInv

\* When nothing is under way on a connection whose logins were all for one user, who
\* logged in on no other, and that has not begun to close, the room that ctx.roomId
\* names lists the user or was closed, whatever requests were pipelined before.
THEOREM RoomRecordTrue == Spec => []MembershipBacked
<1>1. Init => ChainInv
  <2>1. \A t \in Task : Sound(t, NoTask) /\ NoTask.user = NoUser
    BY NoTaskSound
  <2> QED
    BY <2>1 DEF Init, ChainInv, Own
<1>2. Init => ClaimInv
  <2> SUFFICES ASSUME Init, NEW s \in Socket, NEW n \in Name, NEW i \in Nat
               PROVE  ~Claim(s, n, i)
    BY DEF ClaimInv
  <2>1. Home[s] \in Server /\ inbox[Home[s]] = <<>> /\ ctxRoom[s] = NoRoom
    BY RoomSocketAssumption DEF Init
  <2>2. DOMAIN <<>> = {}
    OBVIOUS
  <2> QED
    BY <2>1, <2>2, NoRoomAssumption DEF Claim
<1>3. Spec => []TypeOK /\ []RegistryInv
  BY TypeCorrect, RegistryInvariant
<1>4. RegistryInv => OneCommandEach
  BY DEF RegistryInv
<1>5. TypeOK /\ OneCommandEach /\ ClaimInv => MembershipBacked
  BY ClaimImpliesBacked
<1> QED
  BY <1>1, <1>2, <1>3, <1>4, <1>5, NextChain, NextClaim, PTL DEF Spec
=============================================================================
