------------------------------- MODULE Notice -------------------------------
(***************************************************************************)
(* Notices to users: private messages, and what a live room tells its      *)
(* members. NoticeSender looks the sessions of a user up in Redis, sends   *)
(* to the websockets of its own process and relays to other processes,     *)
(* which number the notice and send it on.                                 *)
(*                                                                         *)
(* Every handler is a chain of Redis commands on the one connection of its *)
(* process, which runs them, and calls back, in the order they are issued. *)
(* The client library calls back for all the replies of one read from the  *)
(* connection before what awaits any of them goes on.                      *)
(* Sessions and rooms are the subject of Session and Room: here a socket   *)
(* logs in once, one room exists, which is left by closing the connection, *)
(* and no connection to Redis is lost.                                     *)
(***************************************************************************)
EXTENDS Naturals, Sequences, FiniteSets, SequencesExt

CONSTANTS
    Server, Socket, User,
    Home,        \* the server a socket is connected to
    UserOf,      \* the user that logs in on a socket
    Early,       \* sockets that are logged in at the start
    Guests,      \* users of Early that are in the room at the start
    Ask,         \* bound: the requests clients make, <<socket, kind, users>>
    MaxRequest,  \* bound: requests that all clients send together
    Leaver,      \* bound: sockets whose connection may close
    MaxClose     \* bound: connections that close

\* The origin of notices: a request, or the close of a socket.
Origin == (1 .. MaxRequest) \cup Socket

\* The chain of an origin, and one for each call of NoticeSender.send it makes:
\* for a private message one per session found, for the room one per member.
Main == 0
Copy == 1 .. Cardinality(Socket)
Task == Origin \X ({Main} \cup Copy \cup User)

ASSUME NoticeAssumption ==
    /\ Home \in [Socket -> Server]
    /\ UserOf \in [Socket -> User]
    /\ Early \subseteq Socket
    /\ Guests \subseteq {UserOf[s] : s \in Early}
    /\ MaxRequest \in Nat /\ MaxClose \in Nat
    /\ IsFiniteSet(Socket)
    /\ (Socket \cup User) \cap Nat = {}

VARIABLES
    hash,      \* Redis: sockets whose session has a hash
    members,   \* Redis: the users in the room
    up,        \* does the process run
    ws,        \* the websocket of each socket
    reg,       \* sockets in the userList of their server
    ctxRoom,   \* sockets with ctx.roomId set
    noticeId,  \* the counter in each session's User object
    origin,    \* what each origin is about
    task,      \* the chains
    wire,      \* commands issued, per server
    inbox,     \* replies not yet handled, per server
    ready,     \* lookups to go on with when the current read is called back
    chunk,     \* replies of the current read that are still to be called back
    net,       \* notices relayed and not yet delivered
    got,       \* the notices each client has received
    closes,
    due,       \* history: <<request, socket>>, what the request has to tell whom
    ended      \* history: sockets whose session was taken out of Redis

redisVars == <<hash, members>>
sockVars == <<up, ws, reg, ctxRoom>>
turnVars == <<ready, chunk>>
histVars == <<due, ended>>
vars == <<hash, members, up, ws, reg, ctxRoom, noticeId, origin, task, wire,
          inbox, ready, chunk, net, got, closes, due, ended>>

Kind == {"none", "msg", "in", "out", "cast"}
Op == {"keys", "hgetall", "exists", "smembers", "sadd", "srem", "hmset", "del"}

\* What goes to Redis for a chain, and what comes back: sockets, or users.
Command == [op : Op, who : Task, key : SUBSET Socket]
Response == [op : Op, who : Task, key : SUBSET Socket,
             list : SUBSET (Socket \cup User)]

NoOrigin == [kind |-> "none", from |-> {}, to |-> {}]

\* left: listed keys still to read; found: the User objects read, and whether
\* each has a websocket here.
NoTask == [pc |-> "idle", left |-> {}, found |-> {}]

\* The socket a request came from, and the server a chain runs on.
Asker(o) == CHOOSE s \in o.from : TRUE

Srv(t) == Home[IF t[1] \in Socket THEN t[1] ELSE Asker(origin[t[1]])]

\* The user that a lookup is for.
Addressee(t) ==
    IF t[2] \in User THEN {t[2]} ELSE origin[t[1]].to

Sessions(us) == {s \in Socket : UserOf[s] \in us}

Init ==
    /\ hash = Early
    /\ members = Guests
    /\ up = [h \in Server |-> TRUE]
    /\ ws = [s \in Socket |-> "open"]
    /\ reg = Early
    /\ ctxRoom = {s \in Early : UserOf[s] \in Guests}
    /\ noticeId = [s \in Socket |-> 0]
    /\ origin = [r \in Origin |-> NoOrigin]
    /\ task = [t \in Task |-> NoTask]
    /\ wire = [h \in Server |-> <<>>]
    /\ inbox = [h \in Server |-> <<>>]
    /\ ready = [h \in Server |-> <<>>]
    /\ chunk = [h \in Server |-> 0]
    /\ net = {}
    /\ got = [s \in Socket |-> <<>>]
    /\ closes = 0
    /\ due = {}
    /\ ended = {}

-----------------------------------------------------------------------------
(* Redis.                                                                  *)

Cmd(op, who, key) == [op |-> op, who |-> who, key |-> key]

Issued(h, cmds) == wire' = [wire EXCEPT ![h] = @ \o cmds]

\* What Redis answers, and what it changes.
Answer(c) ==
    CASE c.op = "keys" -> hash \cap Sessions(Addressee(c.who))
      [] c.op = "hgetall" -> hash \cap c.key
      [] c.op = "smembers" -> members
      [] OTHER -> {}

Effect(c) ==
    /\ hash' = CASE c.op = "hmset" -> hash \cup c.key
                 [] c.op = "del" -> hash \ c.key
                 [] OTHER -> hash
    /\ members' = CASE c.op = "sadd" -> members \cup {UserOf[s] : s \in c.key}
                    [] c.op = "srem" -> members \ {UserOf[s] : s \in c.key}
                    [] OTHER -> members

\* History: who is taken out of the room is owed nothing more by it; whose hash
\* is deleted is logged out.
Leaves(c) ==
    /\ ended' = IF c.op = "del" THEN ended \cup (hash \cap c.key) ELSE ended
    /\ due' = {p \in due : c.op = "srem" => \/ origin[p[1]].kind = "msg"
                                           \/ \A s \in c.key : UserOf[s] # UserOf[p[2]]}

Reply(c) == [op |-> c.op, who |-> c.who, key |-> c.key, list |-> Answer(c)]

\* The callback of DEL only logs.
Awaited(h, c) == up[h] /\ c.op # "del"

\* Mutant: the commands of a process go over a pool of connections.
ExecPooled(h) ==
    \E i \in DOMAIN wire[h] :
        LET c == wire[h][i] IN
        /\ Effect(c)
        /\ Leaves(c)
        /\ wire' = [wire EXCEPT ![h] = RemoveAt(@, i)]
        /\ inbox' = [inbox EXCEPT ![h] = IF Awaited(h, c) THEN Append(@, Reply(c)) ELSE @]
        /\ UNCHANGED <<sockVars, turnVars, noticeId, origin, task, net, got, closes>>

\* Redis runs the oldest command of a connection.
Exec(h) ==
    /\ wire[h] # <<>>
    /\ LET c == Head(wire[h]) IN
        /\ Effect(c)
        /\ Leaves(c)
        /\ wire' = [wire EXCEPT ![h] = Tail(@)]
        /\ inbox' = [inbox EXCEPT ![h] = IF Awaited(h, c) THEN Append(@, Reply(c)) ELSE @]
    /\ UNCHANGED <<sockVars, turnVars, noticeId, origin, task, net, got, closes>>

-----------------------------------------------------------------------------
(* Requests of clients.                                                    *)

\* History: must a request of s tell user u, as things stand when it comes.
Tells(s, kind, to, u) ==
    \/ kind = "msg" /\ u \in to
    \/ kind = "cast" /\ u \in members
    \/ kind = "in" /\ u \in members /\ u # UserOf[s]

\* The event loop of h is free for another event.
Free(h) == ready[h] = <<>>

\* The next request, of a logged-in socket that is open.
Begin(s, kind, to, op) ==
    \E r \in 1 .. MaxRequest :
        /\ origin[r] = NoOrigin
        /\ \A q \in 1 .. r - 1 : origin[q] # NoOrigin
        /\ ws[s] = "open" /\ s \in reg /\ Free(Home[s])
        /\ <<s, kind, to>> \in Ask
        /\ origin' = [origin EXCEPT ![r] = [kind |-> kind, from |-> {s}, to |-> to]]
        /\ task' = [task EXCEPT ![<<r, Main>>].pc = op]
        /\ Issued(Home[s], <<Cmd(op, <<r, Main>>, {})>>)
        /\ due' = due \cup {<<r, x>> : x \in {y \in hash \cap reg :
                               ws[y] = "open" /\ Tells(s, kind, to, UserOf[y])}}
        /\ UNCHANGED <<redisVars, sockVars, turnVars, noticeId, inbox, net, got,
                       closes, ended>>

\* SendMsgHandler.handle: the answer does not wait for the lookup.
SendMsg(s, u) == Begin(s, "msg", {u}, "keys")

\* RoomInHandler, and RoomManager.addRoomUser up to its first command.
RoomIn(s) == Begin(s, "in", {}, "exists")

\* BroadcastMsgHandler and RoomManager.broadcast.
Broadcast(s) == s \in ctxRoom /\ Begin(s, "cast", {}, "exists")

-----------------------------------------------------------------------------
(* Connections.                                                            *)

\* The login of a new socket comes to its HMSET (module Session).
Login(s) ==
    /\ ws[s] = "open" /\ up[Home[s]] /\ Free(Home[s])
    /\ s \notin Early
    /\ task[<<s, Main>>].pc = "idle"
    /\ task' = [task EXCEPT ![<<s, Main>>].pc = "hmset"]
    /\ Issued(Home[s], <<Cmd("hmset", <<s, Main>>, {s})>>)
    /\ UNCHANGED <<redisVars, sockVars, turnVars, histVars, noticeId, origin, inbox,
                   net, got, closes>>

ClientClose(s) ==
    /\ ws[s] = "open"
    /\ s \in Leaver /\ closes < MaxClose
    /\ ws' = [ws EXCEPT ![s] = "closing"]
    /\ closes' = closes + 1
    /\ UNCHANGED <<redisVars, turnVars, histVars, up, reg, ctxRoom, noticeId, origin,
                   task, wire, inbox, net, got>>

\* disconnect: log a registered user out and take it out of its room.
CloseEvent(s) ==
    /\ ws[s] = "closing" /\ Free(Home[s])
    /\ ws' = [ws EXCEPT ![s] = "closed"]
    /\ reg' = reg \ {s}
    /\ LET leaves == s \in reg /\ s \in ctxRoom IN
        /\ origin' = IF leaves
                     THEN [origin EXCEPT ![s] = [kind |-> "out", from |-> {s}, to |-> {}]]
                     ELSE origin
        /\ task' = IF leaves THEN [task EXCEPT ![<<s, Main>>].pc = "smembers"] ELSE task
        /\ Issued(Home[s],
               (IF s \in reg THEN <<Cmd("del", <<s, Main>>, {s})>> ELSE <<>>)
               \o (IF leaves THEN <<Cmd("smembers", <<s, Main>>, {})>> ELSE <<>>))
    /\ UNCHANGED <<redisVars, turnVars, histVars, up, ctxRoom, noticeId, inbox, net,
                   got, closes>>

-----------------------------------------------------------------------------
(* NoticeSender.                                                           *)

\* Mutant: a local session is relayed to as well.
DeliverTwice(t, objects) ==
    LET h == Srv(t)
        local == {o \in objects : Home[o[1]] = h}
        open == {o[1] : o \in {x \in local : x[2] /\ ws[x[1]] = "open"}}
    IN
    /\ got' = [s \in Socket |->
                  IF s \in open
                  THEN Append(got[s], [id |-> noticeId[s], about |-> t[1]])
                  ELSE got[s]]
    /\ noticeId' = [s \in Socket |->
                       IF s \in open THEN noticeId[s] + 1 ELSE noticeId[s]]
    /\ net' = net \cup {<<t, o[1]>> : o \in objects}
    /\ UNCHANGED <<reg, wire>>

\* The loop of NoticeSender.send over the User objects found: a local session
\* gets the notice with its next number, and is logged out if its websocket
\* cannot send; the others are relayed.
Deliver(t, objects) ==
    LET h == Srv(t)
        local == {o \in objects : Home[o[1]] = h}
        open == {o[1] : o \in {x \in local : x[2] /\ ws[x[1]] = "open"}}
        expired == {o[1] : o \in local} \ open
    IN
    /\ got' = [s \in Socket |->
                  IF s \in open
                  THEN Append(got[s], [id |-> noticeId[s], about |-> t[1]])
                  ELSE got[s]]
    /\ noticeId' = [s \in Socket |->
                       IF s \in open THEN noticeId[s] + 1 ELSE noticeId[s]]
    /\ reg' = reg \ expired
    /\ \E q \in SetToSeqs(expired) :
          Issued(h, [i \in DOMAIN q |-> Cmd("del", t, {q[i]})])
    /\ net' = net \cup {<<t, o[1]>> : o \in objects \ local}

\* Start a NoticeSender.send for every element of q, then issue cmds.
Spawn(t, q, cmds) ==
    /\ task' = [u \in Task |->
                   IF u = t
                   THEN [NoTask EXCEPT !.pc = IF cmds = <<>> THEN "done" ELSE cmds[1].op]
                   ELSE IF u[1] = t[1] /\ u[2] \in Range(q)
                   THEN [NoTask EXCEPT !.pc = "keys"]
                   ELSE task[u]]
    /\ Issued(Srv(t), [i \in DOMAIN q |-> Cmd("keys", <<t[1], q[i]>>, {})] \o cmds)

\* getUserWithId reads one of the keys that are left.
ReadNext(t, rest, objects) ==
    \E s \in rest :
        /\ task' = [task EXCEPT ![t] = [pc |-> "hgetall", left |-> rest \ {s},
                                        found |-> objects]]
        /\ Issued(Srv(t), <<Cmd("hgetall", t, {s})>>)
        /\ UNCHANGED <<reg, noticeId, net, got>>

\* It resolves: into the sends of a private message, or into the delivery of a send.
Resolve(t, objects) ==
    \/ /\ t[2] = Main
       /\ Spawn(t, [i \in 1 .. Cardinality(objects) |-> i], <<>>)
       /\ UNCHANGED <<reg, noticeId, net, got>>
    \/ /\ t[2] # Main
       /\ task' = [task EXCEPT ![t] = [NoTask EXCEPT !.pc = "done"]]
       /\ Deliver(t, objects)

-----------------------------------------------------------------------------
(* Callbacks. An HGETALL's callback lets its lookup go on only when the     *)
(* read is called back to its end; a read that holds none is as good as     *)
(* several reads of one reply.                                              *)

Replied(h, op) ==
    /\ inbox[h] # <<>> /\ Head(inbox[h]).op = op
    /\ chunk[h] > 0 \/ Free(h)

Handled(h) ==
    /\ inbox' = [inbox EXCEPT ![h] = Tail(@)]
    /\ UNCHANGED <<redisVars, histVars, up, ws, origin, closes>>

\* The callback leaves no continuation behind.
CallsBack(h) ==
    /\ Handled(h)
    /\ chunk' = [chunk EXCEPT ![h] = IF @ > 0 THEN @ - 1 ELSE 0]
    /\ UNCHANGED ready

\* The first key is read at once; with no key there is nobody to tell.
ReplyKeys(h) ==
    /\ Replied(h, "keys")
    /\ LET t == Head(inbox[h]).who
           list == Head(inbox[h]).list
       IN  \/ list # {} /\ ReadNext(t, list, {})
           \/ list = {} /\ Resolve(t, {})
    /\ CallsBack(h)
    /\ UNCHANGED ctxRoom

\* getUserWithRedis: a socket registered here comes with its websocket. What
\* else the read holds is called back before the lookup goes on.
ReplyHgetall(h) ==
    /\ Replied(h, "hgetall")
    /\ LET t == Head(inbox[h]).who IN
        /\ \E s \in Head(inbox[h]).list :
              task' = [task EXCEPT ![t].pc = "ready",
                                   ![t].found = @ \cup {<<s, Home[s] = h /\ s \in reg>>}]
        /\ ready' = [ready EXCEPT ![h] = Append(@, t)]
    /\ \E n \in IF chunk[h] > 0 THEN {chunk[h] - 1} ELSE 0 .. Len(inbox[h]) - 1 :
          chunk' = [chunk EXCEPT ![h] = n]
    /\ Handled(h)
    /\ UNCHANGED <<ctxRoom, wire, reg, noticeId, net, got>>

\* The hash is gone since KEYS listed it: the promise is never resolved.
ReplyNull(h) ==
    /\ Replied(h, "hgetall")
    /\ Head(inbox[h]).list = {}
    /\ task' = [task EXCEPT ![Head(inbox[h]).who] = [NoTask EXCEPT !.pc = "hung"]]
    /\ CallsBack(h)
    /\ UNCHANGED <<ctxRoom, wire, reg, noticeId, net, got>>

\* The room exists: ask for its members.
ReplyExists(h) ==
    /\ Replied(h, "exists")
    /\ LET t == Head(inbox[h]).who IN
        /\ task' = [task EXCEPT ![t].pc = "smembers"]
        /\ Issued(h, <<Cmd("smembers", t, {})>>)
    /\ CallsBack(h)
    /\ UNCHANGED <<ctxRoom, reg, noticeId, net, got>>

\* Mutant: an entering user is announced only where others are already.
ReplyMembersFew(h) ==
    /\ Replied(h, "smembers")
    /\ LET t == Head(inbox[h]).who
           o == origin[t[1]]
           list == Head(inbox[h]).list
       IN  \E q \in SetToSeqs(IF Cardinality(list) > 1 THEN list ELSE {}) :
              Spawn(t, q, CASE o.kind = "in" -> <<Cmd("sadd", t, o.from)>>
                            [] o.kind = "out" -> <<Cmd("srem", t, o.from)>>
                            [] OTHER -> <<>>)
    /\ CallsBack(h)
    /\ UNCHANGED <<ctxRoom, reg, noticeId, net, got>>

\* Tell the members, or the others, in any order, and go on with the member set.
ReplyMembers(h) ==
    /\ Replied(h, "smembers")
    /\ LET t == Head(inbox[h]).who
           o == origin[t[1]]
           self == {UserOf[s] : s \in o.from}
           list == Head(inbox[h]).list
       IN  \E q \in SetToSeqs(IF o.kind = "cast" THEN list ELSE list \ self) :
              Spawn(t, q, CASE o.kind = "in" -> <<Cmd("sadd", t, o.from)>>
                            [] o.kind = "out" -> <<Cmd("srem", t, o.from)>>
                            [] OTHER -> <<>>)
    /\ CallsBack(h)
    /\ UNCHANGED <<ctxRoom, reg, noticeId, net, got>>

\* The last callback of roomIn sets ctx.roomId; that of a close only logs.
ReplyMember(h) ==
    /\ Replied(h, "sadd") \/ Replied(h, "srem")
    /\ LET t == Head(inbox[h]).who
           o == origin[t[1]]
       IN  /\ task' = [task EXCEPT ![t].pc = "done"]
           /\ ctxRoom' = IF o.kind = "in" THEN ctxRoom \cup o.from ELSE ctxRoom
    /\ CallsBack(h)
    /\ UNCHANGED <<wire, reg, noticeId, net, got>>

\* The callback of HMSET registers the session.
ReplyHmset(h) ==
    /\ Replied(h, "hmset")
    /\ LET c == Head(inbox[h]) IN
        /\ reg' = reg \cup c.key
        /\ task' = [task EXCEPT ![c.who].pc = "done"]
    /\ CallsBack(h)
    /\ UNCHANGED <<ctxRoom, wire, noticeId, net, got>>

HandleReply(h) ==
    \/ ReplyKeys(h) \/ ReplyHgetall(h) \/ ReplyNull(h) \/ ReplyExists(h)
    \/ ReplyMembers(h) \/ ReplyMember(h) \/ ReplyHmset(h)

-----------------------------------------------------------------------------
(* The lookups whose callbacks have run go on: the ones with a key left     *)
(* first, as a lookup that resolves calls its consumer some ticks later.    *)

\* The place of the first lookup to go on, of those that have a key left or not.
First(h, more) ==
    LET at == {i \in DOMAIN ready[h] : (task[ready[h][i]].left # {}) = more}
    IN  {i \in at : \A j \in at : i <= j}

GoesOn(h, i) ==
    /\ chunk[h] = 0
    /\ ready' = [ready EXCEPT ![h] = RemoveAt(@, i)]
    /\ UNCHANGED <<redisVars, histVars, up, ws, ctxRoom, origin, inbox, chunk, closes>>

ReadOn(h) ==
    \E i \in First(h, TRUE) :
        LET t == ready[h][i] IN
        /\ ReadNext(t, task[t].left, task[t].found)
        /\ GoesOn(h, i)

FindEnds(h) ==
    /\ First(h, TRUE) = {}
    /\ \E i \in First(h, FALSE) :
        LET t == ready[h][i] IN
        /\ Resolve(t, task[t].found)
        /\ GoesOn(h, i)

Resume(h) == ReadOn(h) \/ FindEnds(h)

-----------------------------------------------------------------------------
(* The relay, on the server of the session.                                *)

\* A notice for a socket that is not registered, not yet or not any more.
RelayDrop(m) ==
    /\ m \in net /\ up[Home[m[2]]] /\ Free(Home[m[2]])
    /\ m[2] \notin reg
    /\ net' = net \ {m}
    /\ UNCHANGED <<redisVars, sockVars, turnVars, histVars, noticeId, origin, task, wire,
                   inbox, got, closes>>

\* Mutant: the notice keeps the number 0 it was relayed with.
RelaySendKeepsId(m) ==
    /\ m \in net /\ up[Home[m[2]]] /\ Free(Home[m[2]])
    /\ m[2] \in reg /\ ws[m[2]] = "open"
    /\ got' = [got EXCEPT ![m[2]] = Append(@, [id |-> 0, about |-> m[1][1]])]
    /\ net' = net \ {m}
    /\ UNCHANGED <<redisVars, sockVars, turnVars, histVars, noticeId, origin, task, wire,
                   inbox, closes>>

\* The notice gets the next number of the session.
RelaySend(m) ==
    /\ m \in net /\ up[Home[m[2]]] /\ Free(Home[m[2]])
    /\ m[2] \in reg /\ ws[m[2]] = "open"
    /\ got' = [got EXCEPT ![m[2]] =
                  Append(@, [id |-> noticeId[m[2]], about |-> m[1][1]])]
    /\ noticeId' = [noticeId EXCEPT ![m[2]] = @ + 1]
    /\ net' = net \ {m}
    /\ UNCHANGED <<redisVars, sockVars, turnVars, histVars, origin, task, wire, inbox,
                   closes>>

\* send on a websocket that is not open throws, and the process ends: with its
\* sockets, its chains, and perhaps what it had not handed to the network.
RelayThrow(m) ==
    LET h == Home[m[2]] IN
    /\ m \in net /\ up[h] /\ Free(h)
    /\ m[2] \in reg /\ ws[m[2]] # "open"
    /\ up' = [up EXCEPT ![h] = FALSE]
    /\ ws' = [s \in Socket |-> IF Home[s] = h THEN "dead" ELSE ws[s]]
    /\ reg' = {s \in reg : Home[s] # h}
    /\ ctxRoom' = {s \in ctxRoom : Home[s] # h}
    /\ \E n \in 0 .. Len(wire[h]) : wire' = [wire EXCEPT ![h] = SubSeq(@, 1, n)]
    /\ inbox' = [inbox EXCEPT ![h] = <<>>]
    /\ \E lost \in SUBSET {x \in net : Srv(x[1]) = h} : net' = net \ ({m} \cup lost)
    /\ UNCHANGED <<redisVars, turnVars, histVars, noticeId, origin, task, got, closes>>

Relay(m) == RelayDrop(m) \/ RelaySend(m) \/ RelayThrow(m)

-----------------------------------------------------------------------------
Next ==
    \/ \E h \in Server : Exec(h) \/ HandleReply(h) \/ Resume(h)
    \/ \E s \in Socket : \/ \E u \in User : SendMsg(s, u)
                         \/ RoomIn(s) \/ Broadcast(s)
                         \/ Login(s) \/ ClientClose(s) \/ CloseEvent(s)
    \/ \E m \in net : Relay(m)

\* While Redis, an event loop, the relay or a closing handshake has something to
\* do, one of them does it: as requests are bounded, no more is asked of each.
Fairness ==
    WF_vars(\/ \E h \in Server : Exec(h) \/ HandleReply(h) \/ Resume(h)
            \/ \E s \in Socket : CloseEvent(s)
            \/ \E m \in net : Relay(m))

Spec == Init /\ [][Next]_vars

FairSpec == Spec /\ Fairness
-----------------------------------------------------------------------------
(* Properties.                                                             *)

\* The shape of the state; what is relayed is for sessions of other servers.
TypeOK ==
    /\ hash \subseteq Socket
    /\ members \subseteq User
    /\ up \in [Server -> BOOLEAN]
    /\ ws \in [Socket -> {"open", "closing", "closed", "dead"}]
    /\ reg \subseteq Socket
    /\ ctxRoom \subseteq Socket
    /\ noticeId \in [Socket -> Nat]
    /\ origin \in [Origin -> [kind : Kind, from : SUBSET Socket, to : SUBSET User]]
    /\ task \in [Task -> [pc : Op \cup {"idle", "ready", "done", "hung"},
                          left : SUBSET Socket, found : SUBSET (Socket \X BOOLEAN)]]
    /\ wire \in [Server -> Seq(Command)]
    /\ inbox \in [Server -> Seq(Response)]
    /\ ready \in [Server -> Seq(Task)]
    /\ chunk \in [Server -> Nat]
    /\ net \subseteq Task \X Socket
    /\ \A m \in net : Home[m[2]] # Srv(m[1])
    /\ got \in [Socket -> Seq([id : Nat, about : Origin])]
    /\ closes \in 0 .. MaxClose
    /\ ended \subseteq Socket

\* A client sees the numbers 0, 1, 2, ... with no gap and none twice, although
\* its own server and the relays of others both number its notices.
IdsConsecutive ==
    \A s \in Socket : \A i \in DOMAIN got[s] : got[s][i].id = i - 1

\* The notices that a client holds are well formed and numbered without gap.
NumbersInv == TypeOK /\ IdsConsecutive

\* A session gets at most one copy of a notice for each session of its user that
\* the message's lookup found, and one copy of what the room tells.
CopiesBounded ==
    \A s \in Socket, r \in Origin :
        Cardinality({i \in DOMAIN got[s] : got[s][i].about = r})
            <= IF origin[r].kind = "msg"
               THEN Cardinality({i \in Copy : task[<<r, i>>].pc # "idle"})
               ELSE 1

\* Private messages, and messages to the room, that one server handles reach a
\* session of that server in the order they came, whatever sessions of the user
\* log in between their lookups and however the replies are read. Once a session
\* of the user is logged out a younger lookup has less to read and may come first.
InOrder ==
    \A s \in Socket : \A j \in DOMAIN got[s] : \A i \in 1 .. j - 1 :
        LET first == got[s][i].about
            second == got[s][j].about
        IN  (/\ Sessions({UserOf[s]}) \cap ended = {}
             /\ {first, second} \cap Socket = {}
             /\ origin[first].kind \in {"msg", "cast"}
             /\ origin[first].kind = origin[second].kind
             /\ \A x \in origin[first].from \cup origin[second].from : Home[x] = Home[s])
            => first <= second

Received(r, s) == \E i \in DOMAIN got[s] : got[s][i].about = r

\* Some session of the user ends (which can leave a lookup hanging), or a process
\* dies.
Excused(s) ==
    \/ \E x \in Sessions({UserOf[s]}) : ws[x] # "open"
    \/ \E h \in Server : ~up[h]

\* A private message reaches every session that the user has, and what a room has
\* to tell every session of every member: also when sessions of the user log in
\* meanwhile, and when other users come, go and write at the same time.
Delivered == []<>(\A p \in due : Received(p[1], p[2]) \/ Excused(p[2]))
=============================================================================
