------------------------------ MODULE Session ------------------------------
(***************************************************************************)
(* Login, displacement ("kick") and logout of IM sessions in a cluster of  *)
(* server processes that share one Redis directory of online users.        *)
(*                                                                         *)
(* Every server process is single threaded and owns one pipelined Redis    *)
(* connection, so an action here is one turn of an event loop (from one    *)
(* callback to the next await) or the execution of one command by Redis.   *)
(* A "session" is the pair of the Redis hash OnlineUserKey-<user>-<socket> *)
(* and the entry of the owning process's userList for that socket.         *)
(***************************************************************************)
EXTENDS Naturals, Sequences, FiniteSets

CONSTANTS
    Server,           \* server processes
    User,             \* user ids that clients log in with
    Socket,           \* websocket connections, each used once
    Home,             \* the server a socket is connected to
    Matches,          \* users whose keys the pattern OnlineUserKey-<u>-* selects
    LoginsPerSocket,  \* bound: login requests a client sends on one socket
    MaxLogin,         \* bound: login requests of all clients together
    MaxExit,          \* bound: process exits by signal or failure
    MaxDrop,          \* bound: lost Redis connections
    NoUser, NoReq

ASSUME HomeAssumption == Home \in [Socket -> Server]
ASSUME MatchesAssumption ==
    Matches \in [User -> SUBSET User] /\ \A u \in User : u \in Matches[u]
ASSUME BoundAssumption ==
    LoginsPerSocket \in Nat /\ MaxLogin \in Nat /\ MaxExit \in Nat /\ MaxDrop \in Nat
ASSUME NoUserAssumption == NoUser \notin User

Key == User \X Socket

\* A login request: its socket, the user id it asks for, its place on the socket.
Request == Socket \X User \X (1 .. LoginsPerSocket)

ASSUME NoReqAssumption == NoReq \notin Request

VARIABLES
    keys,    \* the OnlineUserKey-* hashes in Redis
    up,      \* which server processes run
    ws,      \* life cycle of each websocket, as its server sees it
    reg,     \* userList: the user registered for a socket at its home server
    pc,      \* progress of each login request
    todo,    \* keys of the current lookup that are still to be read
    found,   \* user objects <<user, socket, has websocket>> the lookup returned
    wire,    \* commands each server has issued and Redis not yet executed
    inbox,   \* replies each server has not yet handled
    net,     \* kick notices <<request, socket>> travelling between servers
    exits, drops,
    \* History variables, read by no action.
    prior,   \* sessions of the user that were registered when the login looked
    torn     \* keys whose commands a lost Redis connection cut off

redisVars == <<keys, wire, inbox>>
loginVars == <<pc, todo, found, prior>>
vars == <<keys, up, ws, reg, pc, todo, found, wire, inbox, net, exits, drops,
          prior, torn>>

WsState == {"none", "open", "kicked", "closing", "closed", "dead"}
Phase   == {"idle", "again", "kick", "sweep", "set", "done", "hung", "lost"}
Op      == {"keys", "hgetall", "hmset", "del"}
Object  == User \X Socket \X BOOLEAN
Command == [op : Op, req : Request \cup {NoReq}, keys : SUBSET Key]
Reply   == [op : Op, req : Request \cup {NoReq}, list : SUBSET Key]

TypeOK ==
    /\ keys \subseteq Key
    /\ up \in [Server -> BOOLEAN]
    /\ ws \in [Socket -> WsState]
    /\ reg \in [Socket -> User \cup {NoUser}]
    /\ pc \in [Request -> Phase]
    /\ todo \in [Request -> SUBSET Key]
    /\ found \in [Request -> SUBSET Object]
    /\ wire \in [Server -> Seq(Command)]
    /\ inbox \in [Server -> Seq(Reply)]
    /\ net \subseteq Request \X Socket
    /\ exits \in 0 .. MaxExit
    /\ drops \in 0 .. MaxDrop
    /\ prior \in [Request -> SUBSET Socket]
    /\ torn \subseteq Key

Init ==
    /\ keys = {}
    /\ up = [h \in Server |-> TRUE]
    /\ ws = [s \in Socket |-> "none"]
    /\ reg = [s \in Socket |-> NoUser]
    /\ pc = [r \in Request |-> "idle"]
    /\ todo = [r \in Request |-> {}]
    /\ found = [r \in Request |-> {}]
    /\ wire = [h \in Server |-> <<>>]
    /\ inbox = [h \in Server |-> <<>>]
    /\ net = {}
    /\ exits = 0
    /\ drops = 0
    /\ prior = [r \in Request |-> {}]
    /\ torn = {}

-----------------------------------------------------------------------------
(* The Redis connection: commands run in issue order, replies come back in *)
(* that order, and the callback of a reply may issue further commands.     *)

Srv(r) == Home[r[1]]
OwnKey(r) == <<r[2], r[1]>>

Cmd(op, r, ks) == [op |-> op, req |-> r, keys |-> ks]
Answer(c, list) == [op |-> c.op, req |-> c.req, list |-> list]

Issue(h, cmds) == wire' = [wire EXCEPT ![h] = @ \o cmds]

\* The DEL commands of several keys, which Redis runs one by one in any order.
Dels(ks) == IF ks = {} THEN <<>> ELSE <<Cmd("del", NoReq, ks)>>

Next1(h, op) == wire[h] # <<>> /\ Head(wire[h]).op = op

\* Redis runs the next command of server h; a dead server gets no reply.
Executed(h, list) ==
    /\ wire' = [wire EXCEPT ![h] = Tail(@)]
    /\ inbox' = IF up[h]
                THEN [inbox EXCEPT ![h] = Append(@, Answer(Head(wire[h]), list))]
                ELSE inbox

\* KEYS OnlineUserKey-<user>-*
ExecKeys(h) ==
    /\ Next1(h, "keys")
    /\ LET r == Head(wire[h]).req
       IN  /\ Executed(h, {k \in keys : k[1] \in Matches[r[2]]})
           /\ prior' = IF pc[r] = "kick"
                       THEN [prior EXCEPT ![r] = {s \in Socket : reg[s] = r[2]}]
                       ELSE prior
    /\ UNCHANGED <<keys, up, ws, reg, pc, todo, found, net, exits, drops, torn>>

\* HGETALL of one key: a missing hash is answered with null.
ExecHgetall(h) ==
    /\ Next1(h, "hgetall")
    /\ Executed(h, Head(wire[h]).keys \cap keys)
    /\ UNCHANGED <<keys, up, ws, reg, loginVars, net, exits, drops, torn>>

ExecHmset(h) ==
    /\ Next1(h, "hmset")
    /\ Executed(h, {})
    /\ keys' = keys \cup Head(wire[h]).keys
    /\ UNCHANGED <<up, ws, reg, loginVars, net, exits, drops, torn>>

ExecDel(h) ==
    /\ Next1(h, "del")
    /\ \E k \in Head(wire[h]).keys :
          /\ keys' = keys \ {k}
          /\ IF Head(wire[h]).keys = {k}
             THEN Executed(h, {})
             ELSE /\ wire' = [wire EXCEPT ![h][1].keys = @ \ {k}]
                  /\ UNCHANGED inbox
    /\ UNCHANGED <<up, ws, reg, loginVars, net, exits, drops, torn>>

\* The connection of h breaks: every outstanding command calls back with an
\* error, which the callbacks treat like an empty result.
LinkDrop(h) ==
    /\ drops < MaxDrop
    /\ LET q == inbox[h] \o wire[h]
           cut == {i \in 1 .. Len(wire[h]) : wire[h][i].op \in {"hmset", "del"}}
           blind == {i \in 1 .. Len(q) : q[i].op \in {"keys", "hgetall"}}
       IN  /\ q # <<>> /\ up[h]
           /\ inbox' = [inbox EXCEPT ![h] =
                           [i \in 1 .. Len(q) |-> Answer(q[i], {})]]
           /\ torn' = torn \cup (UNION {wire[h][i].keys : i \in cut})
                           \cup {OwnKey(q[i].req) : i \in blind}
    /\ wire' = [wire EXCEPT ![h] = <<>>]
    /\ drops' = drops + 1
    /\ UNCHANGED <<keys, up, ws, reg, loginVars, net, exits>>

-----------------------------------------------------------------------------
(* Connections.                                                            *)

Connect(s) ==
    /\ ws[s] = "none" /\ up[Home[s]]
    /\ ws' = [ws EXCEPT ![s] = "open"]
    /\ UNCHANGED <<redisVars, up, reg, loginVars, net, exits, drops, torn>>

\* The client closes, or its connection is lost; the close event follows.
ClientClose(s) ==
    /\ ws[s] = "open"
    /\ ws' = [ws EXCEPT ![s] = "closing"]
    /\ UNCHANGED <<redisVars, up, reg, loginVars, net, exits, drops, torn>>

\* Mutants: the DEL is missing; the userList entry is kept.
DisconnectKeepsHash(s) ==
    /\ reg' = [reg EXCEPT ![s] = NoUser]
    /\ UNCHANGED wire

DisconnectKeepsEntry(s) ==
    /\ IF reg[s] = NoUser
       THEN UNCHANGED wire
       ELSE Issue(Home[s], Dels({<<reg[s], s>>}))
    /\ UNCHANGED reg

\* OnlineUserManager.logout of the user registered for s, if there is one.
Disconnect(s) ==
    /\ reg' = [reg EXCEPT ![s] = NoUser]
    /\ IF reg[s] = NoUser
       THEN UNCHANGED wire
       ELSE Issue(Home[s], Dels({<<reg[s], s>>}))

CloseEvent(s) ==
    /\ ws[s] \in {"kicked", "closing"}
    /\ ws' = [ws EXCEPT ![s] = "closed"]
    /\ Disconnect(s)
    /\ UNCHANGED <<keys, up, loginVars, inbox, net, exits, drops, torn>>

\* A protocol or socket error: ws stops reading, then reports the error.
ErrorEvent(s) ==
    /\ ws[s] \in {"open", "kicked"}
    /\ ws' = [ws EXCEPT ![s] = "closing"]
    /\ Disconnect(s)
    /\ UNCHANGED <<keys, up, loginVars, inbox, net, exits, drops, torn>>

\* imLogin/logout of a registered user: answer, then close the websocket.
Logout(s) ==
    /\ ws[s] = "open" /\ reg[s] # NoUser
    /\ ws' = [ws EXCEPT ![s] = "kicked"]
    /\ UNCHANGED <<redisVars, up, reg, loginVars, net, exits, drops, torn>>

-----------------------------------------------------------------------------
(* Login: look the user up, notify the sessions found, look it up again,   *)
(* close the local ones, write the new hash, register locally.             *)

\* Requests of a socket are numbered in the order they are sent.
NextOnSocket(r) ==
    /\ Cardinality({q \in Request : pc[q] # "idle"}) < MaxLogin
    /\ \A q \in Request : q[1] = r[1] /\ q[3] = r[3] => pc[q] = "idle"
    /\ \A n \in 1 .. (r[3] - 1) :
          \E q \in Request : q[1] = r[1] /\ q[3] = n /\ pc[q] # "idle"

\* Messages still arrive while a close the server started is unanswered.
Receives(s) == ws[s] \in {"open", "kicked"}

\* A socket that is registered already is answered at once.
LoginAgain(r) ==
    /\ Receives(r[1]) /\ NextOnSocket(r)
    /\ reg[r[1]] # NoUser
    /\ pc' = [pc EXCEPT ![r] = "again"]
    /\ UNCHANGED <<redisVars, up, ws, reg, todo, found, prior, net, exits, drops, torn>>

Login(r) ==
    /\ Receives(r[1]) /\ NextOnSocket(r)
    /\ reg[r[1]] = NoUser
    /\ pc' = [pc EXCEPT ![r] = "kick"]
    /\ Issue(Srv(r), <<Cmd("keys", r, {})>>)
    /\ UNCHANGED <<keys, inbox, up, ws, reg, todo, found, prior, net, exits, drops, torn>>

\* Mutant: a failed send is ignored.
SendKickIgnoresExpired(r, hits) ==
    /\ net' = net \cup {<<r, e[2]>> : e \in {x \in hits : Home[x[2]] # Srv(r)}}
    /\ Issue(Srv(r), <<Cmd("keys", r, {})>>)
    /\ pc' = [pc EXCEPT ![r] = "sweep"]
    /\ UNCHANGED <<ws, reg>>

\* NoticeSender.send: remote sessions get a relayed notice; a local one whose
\* websocket cannot send is logged out; then the second lookup starts.
SendKick(r, hits) ==
    LET local   == {e \in hits : Home[e[2]] = Srv(r)}
        expired == {e \in local : ~e[3] \/ ws[e[2]] # "open"}
    IN  /\ net' = net \cup {<<r, e[2]>> : e \in hits \ local}
        /\ reg' = [s \in Socket |->
                      IF \E e \in expired : e[2] = s THEN NoUser ELSE reg[s]]
        /\ Issue(Srv(r), Dels({<<e[1], e[2]>> : e \in expired})
                            \o <<Cmd("keys", r, {})>>)
        /\ pc' = [pc EXCEPT ![r] = "sweep"]
        /\ UNCHANGED ws

\* Mutants: the old websockets stay open; the user is registered before the hash
\* is written.
SweepKeepsOpen(r, hits) ==
    /\ Issue(Srv(r), <<Cmd("hmset", r, {OwnKey(r)})>>)
    /\ pc' = [pc EXCEPT ![r] = "set"]
    /\ UNCHANGED <<ws, reg, net>>

SweepRegisters(r, hits) ==
    /\ ws' = [s \in Socket |->
                 IF ws[s] = "open" /\ \E e \in hits : e[2] = s /\ e[3]
                 THEN "kicked" ELSE ws[s]]
    /\ reg' = [reg EXCEPT ![r[1]] = r[2]]
    /\ Issue(Srv(r), <<Cmd("hmset", r, {OwnKey(r)})>>)
    /\ pc' = [pc EXCEPT ![r] = "set"]
    /\ UNCHANGED net

\* The second lookup closes every session that has a websocket here.
Sweep(r, hits) ==
    /\ ws' = [s \in Socket |->
                 IF ws[s] = "open" /\ \E e \in hits : e[2] = s /\ e[3]
                 THEN "kicked" ELSE ws[s]]
    /\ Issue(Srv(r), <<Cmd("hmset", r, {OwnKey(r)})>>)
    /\ pc' = [pc EXCEPT ![r] = "set"]
    /\ UNCHANGED <<reg, net>>

\* getUserWithId reads the listed keys one at a time, then resolves.
LookupStep(r, rest, hits) ==
    /\ found' = [found EXCEPT ![r] = hits]
    /\ IF rest = {}
       THEN /\ todo' = [todo EXCEPT ![r] = {}]
            /\ IF pc[r] = "kick" THEN SendKick(r, hits) ELSE Sweep(r, hits)
       ELSE \E k \in rest :
               /\ todo' = [todo EXCEPT ![r] = rest \ {k}]
               /\ Issue(Srv(r), <<Cmd("hgetall", r, {k})>>)
               /\ UNCHANGED <<pc, ws, reg, net>>

Replied(h, op) == inbox[h] # <<>> /\ Head(inbox[h]).op = op
Handled(h) == inbox' = [inbox EXCEPT ![h] = Tail(@)]

\* Mutant: getUserWithId resolves only if KEYS listed something.
ReplyKeysNonempty(h) ==
    /\ Replied(h, "keys")
    /\ IF Head(inbox[h]).list = {}
       THEN UNCHANGED <<found, todo, pc, ws, reg, net, wire>>
       ELSE LookupStep(Head(inbox[h]).req, Head(inbox[h]).list, {})
    /\ Handled(h)
    /\ UNCHANGED <<keys, up, exits, drops, prior, torn>>

ReplyKeys(h) ==
    /\ Replied(h, "keys")
    /\ LookupStep(Head(inbox[h]).req, Head(inbox[h]).list, {})
    /\ Handled(h)
    /\ UNCHANGED <<keys, up, exits, drops, prior, torn>>

\* getUserWithRedis: the local user object if the socket is registered here,
\* otherwise a copy made from the hash, which has no websocket.
UserObject(h, k) ==
    IF Home[k[2]] = h /\ reg[k[2]] # NoUser
    THEN <<reg[k[2]], k[2], TRUE>>
    ELSE <<k[1], k[2], FALSE>>

ReplyHgetall(h) ==
    /\ Replied(h, "hgetall")
    /\ \E k \in Head(inbox[h]).list :
          LET r == Head(inbox[h]).req
          IN  LookupStep(r, todo[r], found[r] \cup {UserObject(h, k)})
    /\ Handled(h)
    /\ UNCHANGED <<keys, up, exits, drops, prior, torn>>

\* A null or failed HGETALL: the promise is never resolved.
ReplyNull(h) ==
    /\ Replied(h, "hgetall")
    /\ Head(inbox[h]).list = {}
    /\ pc' = [pc EXCEPT ![Head(inbox[h]).req] = "hung"]
    /\ Handled(h)
    /\ UNCHANGED <<keys, wire, up, ws, reg, todo, found, prior, net, exits, drops, torn>>

\* setUserToRedis' callback registers the user whatever Redis answered and
\* whatever became of the websocket meanwhile.
ReplyHmset(h) ==
    /\ Replied(h, "hmset")
    /\ LET r == Head(inbox[h]).req
       IN  /\ reg' = [reg EXCEPT ![r[1]] = r[2]]
           /\ pc' = [pc EXCEPT ![r] = "done"]
           /\ found' = [found EXCEPT ![r] = {}]
    /\ Handled(h)
    /\ UNCHANGED <<keys, wire, up, ws, todo, prior, net, exits, drops, torn>>

ReplyDel(h) ==
    /\ Replied(h, "del")
    /\ Handled(h)
    /\ UNCHANGED <<keys, wire, up, ws, reg, loginVars, net, exits, drops, torn>>

-----------------------------------------------------------------------------
(* Process exit and the relay of notices between servers.                  *)

\* Process h ends; left is what had reached Redis of the commands it issued.
\* Notices its socket.io clients had not delivered may be lost with it.
ProcessExit(h, left) ==
    /\ up' = [up EXCEPT ![h] = FALSE]
    /\ wire' = [wire EXCEPT ![h] = left]
    /\ inbox' = [inbox EXCEPT ![h] = <<>>]
    /\ ws' = [s \in Socket |->
                 IF Home[s] = h /\ ws[s] # "none" THEN "dead" ELSE ws[s]]
    /\ reg' = [s \in Socket |-> IF Home[s] = h THEN NoUser ELSE reg[s]]
    /\ pc' = [r \in Request |->
                 IF Srv(r) = h /\ pc[r] # "idle" THEN "lost" ELSE pc[r]]
    /\ todo' = [r \in Request |-> IF Srv(r) = h THEN {} ELSE todo[r]]
    /\ found' = [r \in Request |-> IF Srv(r) = h THEN {} ELSE found[r]]
    /\ prior' = [r \in Request |-> IF Srv(r) = h THEN {} ELSE prior[r]]
    /\ UNCHANGED <<keys, drops, torn>>

LoseNotices(h, sent) ==
    \E lost \in SUBSET {m \in sent : Srv(m[1]) = h} : net' = sent \ lost

Prefixes(q) == {SubSeq(q, 1, n) : n \in 0 .. Len(q)}

Crash(h) ==
    /\ up[h] /\ exits < MaxExit
    /\ \E left \in Prefixes(wire[h]) : ProcessExit(h, left)
    /\ LoseNotices(h, net)
    /\ exits' = exits + 1

\* SIGINT/SIGTERM: DEL for every registered user, then exit at once.
Shutdown(h) ==
    /\ up[h] /\ exits < MaxExit
    /\ \/ \E left \in Prefixes(wire[h]) : ProcessExit(h, left)
       \/ \E ks \in SUBSET {<<reg[s], s>> : s \in {t \in Socket :
                               Home[t] = h /\ reg[t] # NoUser}} :
             ProcessExit(h, wire[h] \o Dels(ks))
    /\ LoseNotices(h, net)
    /\ exits' = exits + 1

\* A new process takes over once the old connection's commands have run.
Restart(h) ==
    /\ ~up[h] /\ wire[h] = <<>>
    /\ up' = [up EXCEPT ![h] = TRUE]
    /\ UNCHANGED <<redisVars, ws, reg, loginVars, net, exits, drops, torn>>

\* A relayed kick for a socket that is not registered (any more, or yet).
RelayDrop(m) ==
    /\ m \in net /\ up[Home[m[2]]]
    /\ reg[m[2]] = NoUser
    /\ net' = net \ {m}
    /\ UNCHANGED <<redisVars, up, ws, reg, loginVars, exits, drops, torn>>

\* Mutant: the relayed notice is shown but its isKick flag is not obeyed.
RelayShows(m) ==
    /\ m \in net /\ up[Home[m[2]]]
    /\ reg[m[2]] # NoUser /\ ws[m[2]] = "open"
    /\ net' = net \ {m}
    /\ UNCHANGED <<redisVars, up, ws, reg, loginVars, exits, drops, torn>>

RelayKick(m) ==
    /\ m \in net /\ up[Home[m[2]]]
    /\ reg[m[2]] # NoUser /\ ws[m[2]] = "open"
    /\ ws' = [ws EXCEPT ![m[2]] = "kicked"]
    /\ net' = net \ {m}
    /\ UNCHANGED <<redisVars, up, reg, loginVars, exits, drops, torn>>

\* send on a websocket that is not open throws out of the event handler.
RelayThrow(m) ==
    /\ m \in net /\ up[Home[m[2]]]
    /\ reg[m[2]] # NoUser /\ ws[m[2]] # "open"
    /\ \E left \in Prefixes(wire[Home[m[2]]]) : ProcessExit(Home[m[2]], left)
    /\ LoseNotices(Home[m[2]], net \ {m})
    /\ UNCHANGED exits

-----------------------------------------------------------------------------
Exec(h)  == ExecKeys(h) \/ ExecHgetall(h) \/ ExecHmset(h) \/ ExecDel(h)
HandleReply(h) == \/ ReplyKeys(h) \/ ReplyHgetall(h) \/ ReplyNull(h)
                  \/ ReplyHmset(h) \/ ReplyDel(h)
Relay(m) == RelayDrop(m) \/ RelayKick(m) \/ RelayThrow(m)

Next ==
    \/ \E h \in Server : \/ Exec(h) \/ HandleReply(h) \/ LinkDrop(h)
                         \/ Crash(h) \/ Shutdown(h) \/ Restart(h)
    \/ \E s \in Socket : \/ Connect(s) \/ ClientClose(s) \/ CloseEvent(s)
                         \/ ErrorEvent(s) \/ Logout(s)
    \/ \E r \in Request : Login(r) \/ LoginAgain(r)
    \/ \E m \in net : Relay(m)

Spec == Init /\ [][Next]_vars

\* Redis, the event loops, the relay and the closing handshake make progress;
\* clients, signals, failures and restarts owe nothing.
Fairness ==
    /\ \A h \in Server : WF_vars(Exec(h)) /\ WF_vars(HandleReply(h))
    /\ \A s \in Socket : WF_vars(CloseEvent(s))
    /\ \A m \in Request \X Socket : WF_vars(Relay(m))

FairSpec == Spec /\ Fairness

-----------------------------------------------------------------------------
(* Properties.                                                             *)

Pending(r) == pc[r] \in {"kick", "sweep", "set"}

\* A client may send a second login before the first is answered; both then run.
Accepted(r) == pc[r] \notin {"idle", "again"}

OneLogin(s) ==
    \A q, r \in Request :
        q[1] = s /\ r[1] = s /\ Accepted(q) /\ Accepted(r) => q = r

OneUser(s) ==
    \A q, r \in Request :
        q[1] = s /\ r[1] = s /\ Accepted(q) /\ Accepted(r) => q[2] = r[2]

InWire(op, k) ==
    \E h \in Server : \E i \in 1 .. Len(wire[h]) :
        wire[h][i].op = op /\ k \in wire[h][i].keys

AwaitsHmset(k) ==
    \E h \in Server : \E i \in 1 .. Len(inbox[h]) :
        inbox[h][i].op = "hmset" /\ OwnKey(inbox[h][i].req) = k

\* Every user registered in a userList can be found through Redis, so that a
\* later login of the same user can displace it. A lost Redis connection breaks
\* this (setUserToRedis registers after a failed HMSET), and so do two logins that
\* run at once on one socket (a close between them deletes the hash, and the
\* second one registers all the same).
RegisteredIsListed ==
    \A s \in Socket :
        OneLogin(s) /\ reg[s] # NoUser => <<reg[s], s>> \in keys \cup torn

\* A hash in Redis belongs to a registered session, to one whose registration
\* or removal is on its way, or to a socket that died with its process: close,
\* error, kick and logout never leave a hash behind on a running server. (Two
\* users logged in at once on one socket would: the second takes the entry of the
\* first in the userList.)
DirectoryAccurate ==
    \A k \in keys \ torn : OneUser(k[2]) =>
        \/ reg[k[2]] = k[1]
        \/ ws[k[2]] = "dead"
        \/ AwaitsHmset(k)
        \/ InWire("del", k)

\* The userLists and the directory in Redis agree, but for what is on its way.
DirectoryInv == TypeOK /\ RegisteredIsListed /\ DirectoryAccurate

\* A completed login has displaced every session of its user that was
\* registered when it looked: each is closing, gone, or has a kick on its way.
Displaced ==
    \A r \in Request : pc[r] = "done" /\ OwnKey(r) \notin torn =>
        \A s \in prior[r] \ {r[1]} : OneLogin(s) =>
            \/ ws[s] # "open" \/ reg[s] # r[2]
            \/ <<r, s>> \in net
            \/ <<r[2], s>> \in torn

\* A login heals what a crash of its own server left behind: once it writes its
\* own hash, Redis lists no dead socket of that server for the user. (The failed
\* send of the kick notice logs them out, and the second lookup waits for that.)
Heals ==
    \A r \in Request : pc[r] \in {"set", "done"} /\ OwnKey(r) \notin torn =>
        \A s \in Socket : ws[s] = "dead" /\ Home[s] = Srv(r) =>
            <<r[2], s>> \notin keys \ torn

\* A kick once sent does its work: after a completed login, each session it
\* found registered eventually stops being an open session of that user, unless
\* the server that owed the notice died first.
DisplacedGone ==
    \A r \in Request, s \in Socket :
        (pc[r] = "done" /\ s \in prior[r] \ {r[1]}
            /\ {OwnKey(r), <<r[2], s>>} \cap torn = {})
        ~> (ws[s] # "open" \/ reg[s] # r[2] \/ pc[r] = "lost")

\* Every login the server accepted comes to an end: it is answered, its process
\* ends, or a lookup hit a hash that had just been deleted.
LoginEnds == \A r \in Request : Pending(r) ~> ~Pending(r)

-----------------------------------------------------------------------------
(* What comments in the source promise and the code does not keep.         *)

Quiet == net = {} /\ (\A r \in Request : ~Pending(r))
              /\ \A h \in Server : wire[h] = <<>> /\ inbox[h] = <<>>

\* "If already logged in, have the other processes kick it out, then log in"
\* (OnlineUserManager.login): once the system is quiet a user has at most one
\* open session.
SingleSession ==
    Quiet => \A s, t \in Socket :
        ws[s] = "open" /\ ws[t] = "open" /\ reg[s] # NoUser /\ reg[s] = reg[t]
            => s = t

\* "Delete the expired local user" (BaseNotice.send): a notice for a user whose
\* websocket is no longer open removes that user; it never ends the process.
NoticeKillsNoServer == exits = 0 => \A h \in Server : up[h]
=============================================================================
