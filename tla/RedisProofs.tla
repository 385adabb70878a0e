---------------------------- MODULE RedisProofs ----------------------------
(***************************************************************************)
(* RedisServer implements DurableStore, for every number of clients, keys  *)
(* and commands and for every bound.                                       *)
(*                                                                         *)
(* The invariant ties the server's own variables to the history of its     *)
(* commits: the dump is the commit at `durable', the child's image one     *)
(* that is no older, and server.dirty counts at least every change that    *)
(* tells the keyspace from the image or the dump.                          *)
(***************************************************************************)
EXTENDS RedisServer, FiniteSetTheorems, TLAPS

\* The dump and the image of a saving child are commits, in that order.
HistoryInv ==
    /\ dump = log[durable]
    /\ Idle => db = log[Len(log)]
    /\ child = "saving" => /\ imageAt \in durable .. Len(log)
                           /\ image = log[imageAt]

\* What is known of a process that does not run.
DownInv ==
    ~up => /\ child = "none"
           /\ exec = NoClient
           /\ \A c \in Client : cl[c].watched = {}

\* dirty_before_bgsave is part of dirty as long as it may be subtracted.
DirtyInv ==
    /\ child \in {"saving", "saved"} => dirtyBefore <= dirty
    /\ child = "saving" /\ dirty = dirtyBefore => db = image
    /\ child = "saved" /\ dirty = dirtyBefore /\ ~overwritten => db = dump
    /\ DirtyCountsAll

ServerInv == TypeOK /\ HistoryInv /\ DownInv /\ DirtyInv /\ WatchedUnchanged

-----------------------------------------------------------------------------
(* Sequences of commits.                                                   *)

\* What Commit makes of the history.
LEMMA LogAppend ==
    ASSUME NEW l \in Seq(DB), Len(l) > 0, NEW s \in DB,
           NEW m, m = IF s = l[Len(l)] THEN l ELSE Append(l, s)
    PROVE  /\ m \in Seq(DB)
           /\ Len(m) \in Nat /\ Len(l) \in Nat /\ Len(m) >= Len(l)
           /\ m[Len(m)] = s
           /\ \A i \in 1 .. Len(l) : m[i] = l[i]
<1>1. CASE s = l[Len(l)]
  BY <1>1
<1>2. CASE s # l[Len(l)]
  BY <1>2
<1> QED
  BY <1>1, <1>2

\* What a restart makes of it.
LEMMA LogCut ==
    ASSUME NEW l \in Seq(DB), NEW n \in 1 .. Len(l)
    PROVE  /\ SubSeq(l, 1, n) \in Seq(DB)
           /\ Len(SubSeq(l, 1, n)) = n
           /\ SubSeq(l, 1, n)[n] = l[n]
  OBVIOUS

\* What the child of a dead server makes of it.
LEMMA LogCons ==
    ASSUME NEW l \in Seq(DB), NEW s \in DB
    PROVE  /\ <<s>> \o l \in Seq(DB)
           /\ Len(<<s>> \o l) = Len(l) + 1
           /\ (<<s>> \o l)[1] = s
           /\ \A i \in 1 .. Len(l) : (<<s>> \o l)[i + 1] = l[i]
<1>1. <<s>> \in Seq(DB) /\ Len(<<s>>) = 1 /\ <<s>>[1] = s /\ Len(l) \in Nat
  OBVIOUS
<1>2. /\ <<s>> \o l \in Seq(DB) /\ Len(<<s>> \o l) = Len(l) + 1
      /\ \A i \in 1 .. Len(l) + 1 :
            (<<s>> \o l)[i] = IF i <= 1 THEN <<s>>[i] ELSE l[i - 1]
  BY <1>1
<1> QED
  BY <1>1, <1>2

-----------------------------------------------------------------------------
(* Commands and clients.                                                   *)

LEMMA ResultType ==
    ASSUME TypeOK, NEW op \in Ops
    PROVE  /\ Result(op) \in DB
           /\ ~Changes(op) => Result(op) = db
           /\ \A k \in Key : k # op.key => Result(op)[k] = db[k]
           /\ op.key \in Key
<1>1. op.key \in Key /\ op \in Op /\ MaxVal \in Nat
  BY RedisAssumption DEF Op
<1>2. Empty \in DB
  BY <1>1 DEF Empty, DB
<1> QED
  BY <1>1 DEF Result, Changes, DB, TypeOK, Op

LEMMA TouchType ==
    ASSUME NEW clients \in [Client -> ClientRecord], NEW ks
    PROVE  /\ Touch(clients, ks) \in [Client -> ClientRecord]
           /\ \A c \in Client :
                /\ Touch(clients, ks)[c].multi = clients[c].multi
                /\ Touch(clients, ks)[c].watched = clients[c].watched
                /\ ~Touch(clients, ks)[c].cas =>
                        ~clients[c].cas /\ clients[c].watched \cap ks = {}
  BY DEF Touch, ClientRecord

LEMMA FreshType == Fresh \in ClientRecord /\ Fresh.watched = {} /\ ~Fresh.cas
  BY DEF Fresh, ClientRecord

LEMMA EmptyType == Empty \in DB
  BY RedisAssumption DEF Empty, DB

-----------------------------------------------------------------------------
(* Every step keeps the invariant.                                         *)

LEMMA InitInv == Init => ServerInv
<1> SUFFICES ASSUME Init PROVE ServerInv
  OBVIOUS
<1>1. <<Empty>> \in Seq(DB) /\ Len(<<Empty>>) = 1 /\ <<Empty>>[1] = Empty
  BY EmptyType
<1>2. TypeOK
  <2>1. cl \in [Client -> ClientRecord] /\ seen \in [Client -> DB]
    BY EmptyType, FreshType DEF Init
  <2>2. log \in Seq(DB) /\ durable \in 1 .. Len(log)
    BY <1>1 DEF Init
  <2> QED
    BY <2>1, <2>2, EmptyType DEF Init, TypeOK
<1>3. HistoryInv /\ DownInv /\ DirtyInv /\ WatchedUnchanged
  BY <1>1, FreshType
  DEF Init, HistoryInv, DownInv, DirtyInv, DirtyCountsAll, WatchedUnchanged
<1> QED
  BY <1>2, <1>3 DEF ServerInv

\* A step that changes nothing but the clients, with the event loop free.
LEMMA ClientsInv ==
    ASSUME ServerInv, Idle, OnlyClients,
           cl' \in [Client -> ClientRecord],
           exec' \in Client \cup {NoClient},
           exec' # NoClient => cl'[exec'].multi,
           mustProp' \in BOOLEAN,
           seen' \in [Client -> DB],
           WatchedUnchanged'
    PROVE  ServerInv'
<1>1. TypeOK'
  BY DEF ServerInv, TypeOK, OnlyClients, childVars, diskVars, worldVars
<1>2. HistoryInv' /\ DownInv' /\ DirtyInv'
  BY DEF ServerInv, HistoryInv, DownInv, DirtyInv, DirtyCountsAll, Idle, OnlyClients, childVars,
         diskVars, worldVars
<1> QED
  BY <1>1, <1>2 DEF ServerInv

LEMMA FlagType ==
    ASSUME TypeOK, NEW c \in Client
    PROVE  /\ Flag(c) \in [Client -> ClientRecord]
           /\ \A x \in Client : /\ Flag(c)[x].multi = cl[x].multi
                                /\ Flag(c)[x].watched = cl[x].watched
                                /\ Flag(c)[x].cas = cl[x].cas
  BY DEF TypeOK, Flag, ClientRecord

LEMMA BadCommandInv ==
    ASSUME ServerInv, NEW c \in Client, BadCommand(c)
    PROVE  ServerInv'
<1>1. cl' = Flag(c) /\ UNCHANGED <<exec, mustProp, seen, db>> /\ OnlyClients /\ Idle
  BY DEF BadCommand, OnlyClients
<1>2. WatchedUnchanged'
  BY <1>1, FlagType DEF ServerInv, WatchedUnchanged
<1> QED
  BY <1>1, <1>2, FlagType, ClientsInv DEF ServerInv, TypeOK, Idle

LEMMA MultiCommandInv ==
    ASSUME ServerInv, NEW c \in Client, MultiCommand(c)
    PROVE  ServerInv'
<1>1. /\ cl' = [cl EXCEPT ![c].multi = TRUE]
      /\ UNCHANGED <<exec, mustProp, seen, db>> /\ OnlyClients /\ Idle
  BY DEF MultiCommand, OnlyClients
<1>2. cl' \in [Client -> ClientRecord]
  BY <1>1 DEF ServerInv, TypeOK, ClientRecord
<1>3. WatchedUnchanged'
  BY <1>1 DEF ServerInv, TypeOK, WatchedUnchanged, ClientRecord
<1> QED
  BY <1>1, <1>2, <1>3, ClientsInv DEF ServerInv, TypeOK, Idle

LEMMA WatchCommandInv ==
    ASSUME ServerInv, NEW c \in Client, NEW k \in Key, WatchCommand(c, k)
    PROVE  ServerInv'
<1>1. /\ cl' = [cl EXCEPT ![c].watched = @ \cup {k}]
      /\ seen' = [seen EXCEPT ![c][k] = db[k]]
      /\ k \notin cl[c].watched
      /\ UNCHANGED <<exec, mustProp, db>> /\ OnlyClients /\ Idle
  BY DEF WatchCommand, OnlyClients
<1>2. cl' \in [Client -> ClientRecord]
  BY <1>1 DEF ServerInv, TypeOK, ClientRecord
<1>3. seen' \in [Client -> DB]
  BY <1>1 DEF ServerInv, TypeOK, DB
<1>4. WatchedUnchanged'
  <2> SUFFICES ASSUME NEW x \in Client, NEW y \in cl'[x].watched, ~cl'[x].cas
               PROVE  db'[y] = seen'[x][y]
    BY DEF WatchedUnchanged
  <2>1. ~cl[x].cas /\ (y \in cl[x].watched \/ (x = c /\ y = k))
    BY <1>1 DEF ServerInv, TypeOK, ClientRecord
  <2>2. y \in Key
    BY <1>2 DEF ClientRecord
  <2> QED
    BY <1>1, <2>1, <2>2 DEF ServerInv, TypeOK, WatchedUnchanged, DB
<1> QED
  BY <1>1, <1>2, <1>3, <1>4, ClientsInv DEF ServerInv, TypeOK, Idle

LEMMA UnwatchCommandInv ==
    ASSUME ServerInv, NEW c \in Client, UnwatchCommand(c)
    PROVE  ServerInv'
<1>1. /\ cl' = [cl EXCEPT ![c].watched = {}, ![c].cas = FALSE]
      /\ seen' = [seen EXCEPT ![c] = Empty]
      /\ UNCHANGED <<exec, mustProp, db>> /\ OnlyClients /\ Idle
  BY DEF UnwatchCommand, OnlyClients
<1>2. cl' \in [Client -> ClientRecord] /\ seen' \in [Client -> DB]
  BY <1>1, EmptyType DEF ServerInv, TypeOK, ClientRecord
<1>3. WatchedUnchanged'
  BY <1>1 DEF ServerInv, TypeOK, WatchedUnchanged, ClientRecord
<1> QED
  BY <1>1, <1>2, <1>3, ClientsInv DEF ServerInv, TypeOK, Idle

\* DISCARD and an EXEC that is refused.
LEMMA DropInv ==
    ASSUME ServerInv, NEW c \in Client, DiscardCommand(c) \/ ExecAbort(c)
    PROVE  ServerInv'
<1>1. /\ cl' = [cl EXCEPT ![c] = Fresh]
      /\ seen' = [seen EXCEPT ![c] = Empty]
      /\ UNCHANGED <<exec, mustProp, db>> /\ OnlyClients /\ Idle
  BY DEF DiscardCommand, ExecAbort, OnlyClients
<1>2. cl' \in [Client -> ClientRecord] /\ seen' \in [Client -> DB]
  BY <1>1, EmptyType, FreshType DEF ServerInv, TypeOK
<1>3. WatchedUnchanged'
  BY <1>1, FreshType DEF ServerInv, TypeOK, WatchedUnchanged
<1> QED
  BY <1>1, <1>2, <1>3, ClientsInv DEF ServerInv, TypeOK, Idle

LEMMA ExecBeginInv ==
    ASSUME ServerInv, NEW c \in Client, ExecBegin(c)
    PROVE  ServerInv'
<1>1. /\ cl' = [cl EXCEPT ![c].watched = {}]
      /\ seen' = [seen EXCEPT ![c] = Empty]
      /\ exec' = c /\ mustProp' = FALSE /\ cl[c].multi
      /\ UNCHANGED db /\ OnlyClients /\ Idle
  BY DEF ExecBegin, OnlyClients
<1>2. cl' \in [Client -> ClientRecord] /\ seen' \in [Client -> DB] /\ cl'[c].multi
  BY <1>1, EmptyType DEF ServerInv, TypeOK, ClientRecord
<1>3. WatchedUnchanged'
  BY <1>1 DEF ServerInv, TypeOK, WatchedUnchanged, ClientRecord
<1> QED
  BY <1>1, <1>2, <1>3, ClientsInv

\* Running one command.
LEMMA CallFacts ==
    ASSUME ServerInv, NEW op \in Ops, NEW clients \in [Client -> ClientRecord],
           \A c \in Client : /\ clients[c].multi = cl[c].multi
                             /\ clients[c].cas = cl[c].cas
                             /\ clients[c].watched = cl[c].watched,
           Call(op, clients), UNCHANGED seen
    PROVE  /\ db' \in DB /\ db' = Result(op)
           /\ dirty' \in Nat /\ dirty' >= dirty
           /\ dirty' = dirty => db' = db
           /\ cl' \in [Client -> ClientRecord]
           /\ \A c \in Client : /\ cl'[c].multi = cl[c].multi
                                /\ cl'[c].watched = cl[c].watched
           /\ WatchedUnchanged'
<1>1. /\ db' = Result(op)
      /\ dirty' = dirty + (IF Changes(op) THEN 1 ELSE 0)
      /\ cl' = IF Changes(op) THEN Touch(clients, {op.key}) ELSE clients
  BY DEF Call
<1>2. /\ Result(op) \in DB
      /\ ~Changes(op) => Result(op) = db
      /\ \A k \in Key : k # op.key => Result(op)[k] = db[k]
  BY ResultType DEF ServerInv
<1>3. dirty' \in Nat /\ dirty' >= dirty /\ (dirty' = dirty => ~Changes(op))
  BY <1>1 DEF ServerInv, TypeOK
<1>4. /\ Touch(clients, {op.key}) \in [Client -> ClientRecord]
      /\ \A c \in Client :
            /\ Touch(clients, {op.key})[c].multi = clients[c].multi
            /\ Touch(clients, {op.key})[c].watched = clients[c].watched
            /\ ~Touch(clients, {op.key})[c].cas =>
                    ~clients[c].cas /\ clients[c].watched \cap {op.key} = {}
  BY TouchType
<1>5. cl' \in [Client -> ClientRecord]
  BY <1>1, <1>4
<1>6. \A c \in Client : cl'[c].multi = cl[c].multi /\ cl'[c].watched = cl[c].watched
  BY <1>1, <1>4
<1>7. ASSUME NEW c \in Client, NEW k \in cl'[c].watched, ~cl'[c].cas
      PROVE  db'[k] = seen'[c][k]
  <2>1. k \in Key /\ k \in cl[c].watched
    BY <1>5, <1>6 DEF ClientRecord
  <2>2. ~cl[c].cas /\ (Changes(op) => k # op.key)
    BY <1>1, <1>4, <1>7, <2>1
  <2>3. db[k] = seen[c][k]
    BY <2>1, <2>2 DEF ServerInv, WatchedUnchanged
  <2> QED
    BY <1>1, <1>2, <2>1, <2>2, <2>3
<1>8. WatchedUnchanged'
  BY <1>7 DEF WatchedUnchanged
<1> QED
  BY <1>1, <1>2, <1>3, <1>5, <1>6, <1>8

\* A step that counts its changes keeps the accounts.
LEMMA CountedInv ==
    ASSUME ServerInv, dirty' \in Nat, dirty' >= dirty, dirty' = dirty => db' = db,
           UNCHANGED <<up, child, dirtyBefore, image, dump, overwritten>>
    PROVE  DirtyInv'
  BY DEF ServerInv, TypeOK, DirtyInv, DirtyCountsAll

\* A commit keeps the places of dump and image in the history.
LEMMA CommitFacts ==
    ASSUME ServerInv, NEW s \in DB, Commit(s)
    PROVE  /\ log' \in Seq(DB) /\ Len(log') \in Nat /\ Len(log') >= Len(log)
           /\ log'[Len(log')] = s
           /\ durable \in 1 .. Len(log') /\ dump = log'[durable]
           /\ child = "saving" => /\ imageAt \in durable .. Len(log')
                                  /\ image = log'[imageAt]
           /\ s = log[Len(log)] => log' = log
           /\ s # log[Len(log)] => log' = Append(log, s)
<1>1. log \in Seq(DB) /\ Len(log) \in Nat /\ Len(log) > 0 /\ durable \in 1 .. Len(log)
  BY DEF ServerInv, TypeOK
<1>2. log' = IF s = log[Len(log)] THEN log ELSE Append(log, s)
  BY DEF Commit
<1>3. /\ log' \in Seq(DB) /\ Len(log') \in Nat /\ Len(log') >= Len(log)
      /\ log'[Len(log')] = s /\ \A i \in 1 .. Len(log) : log'[i] = log[i]
  BY <1>1, <1>2, LogAppend
<1>4. /\ durable \in 1 .. Len(log') /\ dump = log'[durable]
      /\ child = "saving" => /\ imageAt \in durable .. Len(log')
                             /\ image = log'[imageAt]
  BY <1>1, <1>3 DEF ServerInv, TypeOK, HistoryInv
<1> QED
  BY <1>2, <1>3, <1>4

LEMMA ProcessCommandInv ==
    ASSUME ServerInv, NEW c \in Client, NEW op \in Ops, ProcessCommand(c, op)
    PROVE  ServerInv'
<1>1. /\ Idle /\ UNCHANGED <<exec, mustProp, seen>>
      /\ UNCHANGED <<up, status, asap, childVars, diskVars, worldVars>>
  BY DEF ProcessCommand
<1>2. CASE cl' = Flag(c) /\ UNCHANGED <<db, dirty, log>>
  <2>1. OnlyClients
    BY <1>1, <1>2 DEF OnlyClients
  <2>2. WatchedUnchanged'
    BY <1>1, <1>2, FlagType DEF ServerInv, WatchedUnchanged
  <2> QED
    BY <1>1, <1>2, <2>1, <2>2, FlagType, ClientsInv DEF ServerInv, TypeOK, Idle
<1>3. CASE cl' = [cl EXCEPT ![c].queue = Append(@, op)] /\ UNCHANGED <<db, dirty, log>>
  <2>1. OnlyClients
    BY <1>1, <1>3 DEF OnlyClients
  <2>2. cl' \in [Client -> ClientRecord]
    <3>1. Append(cl[c].queue, op) \in Seq(Ops)
      BY DEF ServerInv, TypeOK, ClientRecord
    <3> QED
      BY <1>3, <3>1 DEF ServerInv, TypeOK, ClientRecord
  <2>3. WatchedUnchanged'
    BY <1>1, <1>3 DEF ServerInv, TypeOK, WatchedUnchanged, ClientRecord
  <2> QED
    BY <1>1, <2>1, <2>2, <2>3, ClientsInv DEF ServerInv, TypeOK, Idle
<1>4. CASE Call(op, cl) /\ Commit(Result(op))
  <2>1. /\ db' \in DB /\ db' = Result(op)
        /\ dirty' \in Nat /\ dirty' >= dirty /\ (dirty' = dirty => db' = db)
        /\ cl' \in [Client -> ClientRecord]
        /\ \A x \in Client : /\ cl'[x].multi = cl[x].multi
                             /\ cl'[x].watched = cl[x].watched
        /\ WatchedUnchanged'
    BY <1>1, <1>4, CallFacts DEF ServerInv, TypeOK
  <2>2. /\ log' \in Seq(DB) /\ log'[Len(log')] = db'
        /\ durable \in 1 .. Len(log') /\ dump = log'[durable]
        /\ child = "saving" => imageAt \in durable .. Len(log') /\ image = log'[imageAt]
    BY <1>4, <2>1, CommitFacts
  <2>3. TypeOK'
    BY <1>1, <2>1, <2>2
    DEF ServerInv, TypeOK, Idle, childVars, diskVars, worldVars
  <2>4. HistoryInv' /\ DownInv'
    BY <1>1, <2>1, <2>2 DEF HistoryInv, DownInv, Idle, childVars, diskVars
  <2>5. DirtyInv'
    BY <1>1, <2>1, CountedInv DEF childVars, diskVars
  <2> QED
    BY <2>1, <2>3, <2>4, <2>5 DEF ServerInv
<1> QED
  BY <1>2, <1>3, <1>4 DEF ProcessCommand

LEMMA ExecStepInv ==
    ASSUME ServerInv, ExecStep
    PROVE  ServerInv'
<1> DEFINE op == Head(cl[exec].queue)
           clients == [cl EXCEPT ![exec].queue = Tail(@)]
<1>1. /\ up /\ exec \in Client /\ cl[exec].queue # <<>>
      /\ Call(op, clients) /\ mustProp' = (mustProp \/ IsWrite(op))
      /\ UNCHANGED <<exec, seen, log>>
      /\ UNCHANGED <<up, status, asap, childVars, diskVars, worldVars>>
  BY DEF ExecStep, ServerInv, TypeOK
<1>2. op \in Ops /\ Tail(cl[exec].queue) \in Seq(Ops)
  <2>1. cl[exec].queue \in Seq(Ops)
    BY <1>1 DEF ServerInv, TypeOK, ClientRecord
  <2> QED
    BY <1>1, <2>1
<1>3. /\ clients \in [Client -> ClientRecord]
      /\ \A c \in Client : /\ clients[c].multi = cl[c].multi
                           /\ clients[c].cas = cl[c].cas
                           /\ clients[c].watched = cl[c].watched
  BY <1>1, <1>2 DEF ServerInv, TypeOK, ClientRecord
<1>4. /\ db' \in DB
      /\ dirty' \in Nat /\ dirty' >= dirty /\ (dirty' = dirty => db' = db)
      /\ cl' \in [Client -> ClientRecord]
      /\ \A x \in Client : /\ cl'[x].multi = cl[x].multi
                           /\ cl'[x].watched = cl[x].watched
      /\ WatchedUnchanged'
  <2> HIDE DEF op, clients
  <2> QED
    BY <1>1, <1>2, <1>3, CallFacts
<1>5. mustProp' \in BOOLEAN
  BY <1>1
<1>6. TypeOK'
  BY <1>1, <1>4, <1>5
  DEF ServerInv, TypeOK, childVars, diskVars, worldVars
<1>7. HistoryInv' /\ DownInv'
  BY <1>1, <1>4, RedisAssumption
  DEF ServerInv, HistoryInv, DownInv, Idle, childVars, diskVars
<1>8. DirtyInv'
  BY <1>1, <1>4, CountedInv DEF childVars, diskVars
<1> QED
  BY <1>4, <1>6, <1>7, <1>8 DEF ServerInv

LEMMA ExecEndInv ==
    ASSUME ServerInv, ExecEnd
    PROVE  ServerInv'
<1>1. /\ up /\ exec \in Client /\ cl' = [cl EXCEPT ![exec] = Fresh]
      /\ dirty' = dirty + (IF mustProp THEN 1 ELSE 0)
      /\ exec' = NoClient /\ mustProp' = FALSE /\ Commit(db)
      /\ UNCHANGED <<up, db, status, asap, seen, childVars, diskVars, worldVars>>
  BY DEF ExecEnd, ServerInv, TypeOK
<1>2. /\ dirty' \in Nat /\ dirty' >= dirty
      /\ cl' \in [Client -> ClientRecord] /\ WatchedUnchanged'
  BY <1>1, FreshType DEF ServerInv, TypeOK, WatchedUnchanged
<1>3. /\ log' \in Seq(DB) /\ log'[Len(log')] = db'
      /\ durable \in 1 .. Len(log') /\ dump = log'[durable]
      /\ child = "saving" => imageAt \in durable .. Len(log') /\ image = log'[imageAt]
  BY <1>1, CommitFacts DEF ServerInv, TypeOK
<1>4. TypeOK'
  BY <1>1, <1>2, <1>3 DEF ServerInv, TypeOK, childVars, diskVars, worldVars
<1>5. HistoryInv' /\ DownInv'
  BY <1>1, <1>3 DEF HistoryInv, DownInv, Idle, childVars, diskVars
<1>6. DirtyInv'
  BY <1>1, <1>2, CountedInv DEF childVars, diskVars
<1> QED
  BY <1>2, <1>4, <1>5, <1>6 DEF ServerInv

\* Steps of the snapshots, which leave the clients alone.
LEMMA SaveCommandInv ==
    ASSUME ServerInv, SaveCommand
    PROVE  ServerInv'
<1>1. /\ Idle /\ child = "none" /\ UNCHANGED <<db, log>>
      /\ UNCHANGED <<up, asap, clientVars, childVars, orphans, crashes>>
  BY DEF SaveCommand
<1>2. CASE RdbSaveOk /\ dirty' = 0
  <2>1. /\ dump' = db /\ durable' = Len(log) /\ overwritten' = FALSE /\ status' = "ok"
        /\ UNCHANGED faults
    BY <1>1, <1>2 DEF RdbSaveOk, Replace
  <2>4. Len(log) \in Nat /\ Len(log) > 0 /\ durable' \in 1 .. Len(log')
    BY <1>1, <2>1 DEF ServerInv, TypeOK
  <2>2. TypeOK'
    BY <1>1, <1>2, <2>1, <2>4 DEF ServerInv, TypeOK, clientVars, childVars
  <2>3. HistoryInv' /\ DownInv' /\ DirtyInv' /\ WatchedUnchanged'
    BY <1>1, <1>2, <2>1
    DEF ServerInv, TypeOK, HistoryInv, DownInv, DirtyInv, DirtyCountsAll,
        WatchedUnchanged, Idle, clientVars, childVars
  <2> QED
    BY <2>2, <2>3 DEF ServerInv
<1>3. CASE RdbSaveError /\ UNCHANGED dirty
  <2>1. TypeOK'
    BY <1>1, <1>3
    DEF ServerInv, TypeOK, RdbSaveError, Fault, clientVars, childVars, diskVars
  <2>2. HistoryInv' /\ DownInv' /\ DirtyInv' /\ WatchedUnchanged'
    BY <1>1, <1>3
    DEF ServerInv, RdbSaveError, HistoryInv, DownInv, DirtyInv, DirtyCountsAll,
        WatchedUnchanged, Idle, clientVars, childVars, diskVars
  <2> QED
    BY <2>1, <2>2 DEF ServerInv
<1> QED
  BY <1>2, <1>3 DEF SaveCommand

LEMMA RdbSaveBackgroundInv ==
    ASSUME ServerInv, Idle, child = "none", RdbSaveBackground
    PROVE  ServerInv'
<1>1. TypeOK'
  BY DEF ServerInv, TypeOK, RdbSaveBackground, Fault, clientVars, diskVars
<1>2. HistoryInv'
  BY DEF ServerInv, TypeOK, HistoryInv, RdbSaveBackground, Idle, clientVars, diskVars
<1>3. DownInv' /\ DirtyInv' /\ WatchedUnchanged'
  BY DEF ServerInv, TypeOK, DownInv, DirtyInv, DirtyCountsAll, WatchedUnchanged,
         RdbSaveBackground, Idle, clientVars, diskVars
<1> QED
  BY <1>1, <1>2, <1>3 DEF ServerInv

LEMMA ChildStepInv ==
    ASSUME ServerInv, ChildStep
    PROVE  ServerInv'
<1>1. CASE ChildSaves
  <2>1. imageAt \in 1 .. Len(log) /\ image = log[imageAt] /\ up
    BY <1>1 DEF ChildSaves, ServerInv, TypeOK, HistoryInv, DownInv
  <2>2. TypeOK'
    BY <1>1, <2>1 DEF ServerInv, TypeOK, ChildSaves, Replace, OnlyChild, clientVars
  <2>3. HistoryInv' /\ DownInv' /\ WatchedUnchanged'
    BY <1>1, <2>1
    DEF ServerInv, HistoryInv, DownInv, WatchedUnchanged, ChildSaves, Replace,
        OnlyChild, Idle, clientVars
  <2>4. DirtyInv'
    BY <1>1, <2>1
    DEF ServerInv, TypeOK, DirtyInv, DirtyCountsAll, ChildSaves, Replace, OnlyChild,
        clientVars
  <2> QED
    BY <2>2, <2>3, <2>4 DEF ServerInv
<1>2. CASE ChildFails
  <2>1. TypeOK'
    BY <1>2 DEF ServerInv, TypeOK, ChildFails, Fault, OnlyChild, clientVars, diskVars
  <2>2. HistoryInv' /\ DownInv' /\ DirtyInv' /\ WatchedUnchanged'
    BY <1>2
    DEF ServerInv, HistoryInv, DownInv, DirtyInv, DirtyCountsAll, WatchedUnchanged,
        ChildFails, OnlyChild, Idle, clientVars, diskVars
  <2> QED
    BY <2>1, <2>2 DEF ServerInv
<1> QED
  BY <1>1, <1>2 DEF ChildStep

LEMMA CronReapInv ==
    ASSUME ServerInv, CronReap
    PROVE  ServerInv'
<1>1. dirty' \in Nat /\ status' \in {"ok", "err"}
  BY DEF CronReap, ServerInv, TypeOK, DirtyInv
<1>2. TypeOK'
  BY <1>1, EmptyType
  DEF ServerInv, TypeOK, CronReap, clientVars, diskVars, worldVars
<1>3. HistoryInv' /\ DownInv' /\ WatchedUnchanged'
  BY DEF ServerInv, HistoryInv, DownInv, WatchedUnchanged, CronReap, Idle, clientVars,
         diskVars
<1>4. DirtyInv'
  BY <1>1
  DEF ServerInv, TypeOK, DirtyInv, DirtyCountsAll, CronReap, diskVars
<1> QED
  BY <1>2, <1>3, <1>4 DEF ServerInv

LEMMA FlushallCommandInv ==
    ASSUME ServerInv, FlushallCommand
    PROVE  ServerInv'
<1> DEFINE ks == {k \in Key : db[k] # 0}
<1>1. /\ Idle /\ cl' = Touch(cl, ks) /\ db' = Empty
      /\ dirty' = dirty + Cardinality(ks) + 1
      /\ Commit(Empty) /\ KillChild /\ (RdbSaveOk \/ RdbSaveError)
      /\ UNCHANGED <<up, asap, exec, mustProp, seen, image, imageAt, dirtyBefore,
                     orphans, crashes>>
  BY DEF FlushallCommand
<1>2. Cardinality(ks) \in Nat
  BY RedisAssumption, FS_Subset, FS_CardinalityType
<1>3. dirty' \in Nat /\ dirty' > dirty
  <2> HIDE DEF ks
  <2> QED
    BY <1>1, <1>2 DEF ServerInv, TypeOK
<1>4. /\ cl' \in [Client -> ClientRecord]
      /\ \A c \in Client : /\ cl'[c].multi = cl[c].multi
                           /\ cl'[c].watched = cl[c].watched
                           /\ ~cl'[c].cas => ~cl[c].cas /\ cl[c].watched \cap ks = {}
  BY <1>1, TouchType DEF ServerInv, TypeOK
<1>5. WatchedUnchanged'
  <2> SUFFICES ASSUME NEW c \in Client, NEW k \in cl'[c].watched, ~cl'[c].cas
               PROVE  db'[k] = seen'[c][k]
    BY DEF WatchedUnchanged
  <2>1. k \in cl[c].watched /\ k \in Key /\ ~cl[c].cas /\ k \notin ks
    BY <1>4 DEF ClientRecord
  <2>2. db[k] = 0 /\ db[k] = seen[c][k]
    BY <2>1 DEF ServerInv, WatchedUnchanged
  <2> QED
    BY <1>1, <2>1, <2>2 DEF Empty
<1>6. /\ log' \in Seq(DB) /\ Len(log') \in Nat /\ Len(log') >= Len(log)
      /\ log'[Len(log')] = Empty
      /\ durable \in 1 .. Len(log') /\ dump = log'[durable]
  BY <1>1, EmptyType, CommitFacts
<1>7. /\ durable' \in 1 .. Len(log') /\ dump' = log'[durable'] /\ dump' \in DB
      /\ overwritten' \in BOOLEAN /\ status' \in {"ok", "err"} /\ faults' \in Nat
  <2>1. CASE RdbSaveOk
    <3>1. /\ dump' = Empty /\ durable' = Len(log') /\ overwritten' = FALSE
          /\ status' = "ok" /\ faults' = faults
      BY <1>1, <2>1 DEF RdbSaveOk, Replace
    <3>2. faults \in Nat
      BY DEF ServerInv, TypeOK
    <3>3. durable' \in 1 .. Len(log')
      BY <1>6, <3>1
    <3>4. dump' = log'[durable']
      BY <1>6, <3>1
    <3> QED
      BY <3>1, <3>2, <3>3, <3>4, EmptyType
  <2>2. CASE RdbSaveError
    BY <1>6, <2>2 DEF RdbSaveError, Fault, diskVars, ServerInv, TypeOK
  <2> QED
    BY <1>1, <2>1, <2>2
<1>8. child' # "saving" /\ (child' = "saved" => child = "saved")
      /\ child' \in {"none", "saving", "saved", "failed", "killed"}
  BY <1>1 DEF KillChild, ServerInv, TypeOK
<1>9. TypeOK'
  BY <1>1, <1>3, <1>4, <1>6, <1>7, <1>8, EmptyType DEF ServerInv, TypeOK, Idle
<1>10. HistoryInv' /\ DownInv'
  BY <1>1, <1>6, <1>7, <1>8 DEF HistoryInv, DownInv, Idle
<1>11. DirtyInv'
  BY <1>1, <1>3, <1>8 DEF ServerInv, TypeOK, DirtyInv, DirtyCountsAll
<1> QED
  BY <1>5, <1>9, <1>10, <1>11 DEF ServerInv

-----------------------------------------------------------------------------
(* The end of the process, and the next one.                               *)

LEMMA SignalInv ==
    ASSUME ServerInv, Signal
    PROVE  ServerInv'
<1>1. TypeOK'
  BY DEF ServerInv, TypeOK, Signal, clientVars, childVars, diskVars, worldVars
<1>2. HistoryInv' /\ DownInv' /\ DirtyInv' /\ WatchedUnchanged'
  BY DEF ServerInv, HistoryInv, DownInv, DirtyInv, DirtyCountsAll, WatchedUnchanged,
         Signal, Idle, clientVars, childVars, diskVars
<1> QED
  BY <1>1, <1>2 DEF ServerInv

\* Whatever is left on the disk, a process that has ended is in order.
LEMMA GoneInv ==
    ASSUME ServerInv, Gone,
           asap' \in BOOLEAN, dump' \in DB, overwritten' \in BOOLEAN,
           orphans' \subseteq [pid : Nat, image : DB],
           faults' \in Nat, crashes' \in Nat,
           log' \in Seq(DB), durable' \in 1 .. Len(log'), dump' = log'[durable']
    PROVE  ServerInv'
<1>1. cl' \in [Client -> ClientRecord] /\ \A c \in Client : cl'[c].watched = {}
  BY FreshType DEF Gone
<1>2. seen' \in [Client -> DB]
  BY EmptyType DEF Gone
<1>3. TypeOK'
  BY <1>1, <1>2, EmptyType DEF TypeOK, Gone
<1>4. HistoryInv' /\ DownInv' /\ DirtyInv'
  BY <1>1 DEF HistoryInv, DownInv, DirtyInv, DirtyCountsAll, Gone, Idle
<1>5. WatchedUnchanged'
  BY <1>1 DEF WatchedUnchanged
<1> QED
  BY <1>3, <1>4, <1>5 DEF ServerInv

LEMMA PrepareForShutdownInv ==
    ASSUME ServerInv, Idle, PrepareForShutdown, asap' \in BOOLEAN
    PROVE  ServerInv'
<1>1. CASE Gone /\ Replace(db, Len(log)) /\ UNCHANGED <<log, worldVars>>
  <2>1. dump' = db /\ durable' = Len(log) /\ overwritten' = FALSE /\ log' = log
    BY <1>1 DEF Replace
  <2>2. /\ db \in DB /\ db = log[Len(log)] /\ log \in Seq(DB) /\ Len(log) \in 1 .. Len(log)
        /\ orphans \subseteq [pid : Nat, image : DB] /\ faults \in Nat /\ crashes \in Nat
    BY DEF ServerInv, TypeOK, HistoryInv
  <2> QED
    BY <1>1, <2>1, <2>2, GoneInv DEF worldVars
<1>2. CASE /\ KillChild /\ Fault
           /\ UNCHANGED <<up, db, dirty, dirtyBefore, status, clientVars, image,
                          imageAt, log, diskVars, orphans, crashes>>
  <2>1. child' # "saving" /\ (child' = "saved" => child = "saved")
        /\ child' \in {"none", "saving", "saved", "failed", "killed"}
    BY <1>2 DEF KillChild, ServerInv, TypeOK
  <2>2. TypeOK'
    BY <1>2, <2>1 DEF ServerInv, TypeOK, Fault, clientVars, diskVars
  <2>3. HistoryInv' /\ DownInv' /\ DirtyInv' /\ WatchedUnchanged'
    BY <1>2, <2>1
    DEF ServerInv, HistoryInv, DownInv, DirtyInv, DirtyCountsAll, WatchedUnchanged,
        Idle, clientVars, diskVars
  <2> QED
    BY <2>2, <2>3 DEF ServerInv
<1> QED
  BY <1>1, <1>2 DEF PrepareForShutdown

LEMMA LoseInv ==
    ASSUME ServerInv, Gone, Lose, orphans' \subseteq [pid : Nat, image : DB]
    PROVE  ServerInv'
<1>1. /\ SubSeq(log, 1, durable) \in Seq(DB)
      /\ Len(SubSeq(log, 1, durable)) = durable
      /\ SubSeq(log, 1, durable)[durable] = log[durable]
  BY LogCut DEF ServerInv, TypeOK
<1>2. /\ durable \in Nat /\ durable > 0 /\ dump = log[durable] /\ dump \in DB
      /\ overwritten \in BOOLEAN /\ faults \in Nat /\ crashes \in Nat
  BY DEF ServerInv, TypeOK, HistoryInv
<1>3. /\ log' = SubSeq(log, 1, durable) /\ crashes' = crashes + 1 /\ asap' = FALSE
      /\ UNCHANGED <<dump, durable, overwritten, faults>>
  BY DEF Lose, diskVars
<1>4. durable' \in 1 .. Len(log') /\ dump' = log'[durable'] /\ crashes' \in Nat
  BY <1>1, <1>2, <1>3
<1> QED
  BY <1>1, <1>2, <1>3, <1>4, GoneInv

LEMMA CrashInv ==
    ASSUME ServerInv, ShutdownNosave \/ HostCrash \/ ProcessCrash
    PROVE  ServerInv'
<1>1. Gone /\ Lose
  BY DEF ShutdownNosave, HostCrash, ProcessCrash
<1>2. orphans' \subseteq orphans \cup {[pid |-> crashes, image |-> image]}
  BY DEF ShutdownNosave, HostCrash, ProcessCrash
<1>3. orphans' \subseteq [pid : Nat, image : DB]
  BY <1>2 DEF ServerInv, TypeOK
<1> QED
  BY <1>1, <1>3, LoseInv

LEMMA OrphanSavesInv ==
    ASSUME ServerInv, OrphanSaves
    PROVE  ServerInv'
<1>1. PICK o \in orphans :
        /\ orphans' = orphans \ {o}
        /\ dump' = o.image
        /\ overwritten' = up
        /\ log' = <<o.image>> \o log
        /\ durable' = 1
        /\ imageAt' = IF child = "none" THEN imageAt ELSE imageAt + 1
        /\ UNCHANGED <<up, db, dirty, dirtyBefore, status, asap, clientVars,
                       child, image, faults, crashes>>
  BY DEF OrphanSaves
<1>2. o.image \in DB
  BY DEF ServerInv, TypeOK
<1>3. /\ log' \in Seq(DB) /\ Len(log') = Len(log) + 1 /\ log'[1] = o.image
      /\ \A i \in 1 .. Len(log) : log'[i + 1] = log[i]
      /\ Len(log) \in Nat /\ Len(log) > 0
  BY <1>1, <1>2, LogCons DEF ServerInv, TypeOK
<1>4. TypeOK'
  BY <1>1, <1>2, <1>3 DEF ServerInv, TypeOK, clientVars
<1>5. HistoryInv'
  BY <1>1, <1>3 DEF ServerInv, TypeOK, HistoryInv, Idle, clientVars
<1>6. DownInv' /\ DirtyInv' /\ WatchedUnchanged'
  BY <1>1
  DEF ServerInv, TypeOK, DownInv, DirtyInv, DirtyCountsAll, WatchedUnchanged, clientVars
<1> QED
  BY <1>4, <1>5, <1>6 DEF ServerInv

LEMMA OrphanFailsInv ==
    ASSUME ServerInv, OrphanFails
    PROVE  ServerInv'
<1>1. TypeOK'
  BY DEF ServerInv, TypeOK, OrphanFails, Fault, clientVars, childVars, diskVars
<1>2. HistoryInv' /\ DownInv' /\ DirtyInv' /\ WatchedUnchanged'
  BY DEF ServerInv, HistoryInv, DownInv, DirtyInv, DirtyCountsAll, WatchedUnchanged,
         OrphanFails, Idle, clientVars, childVars, diskVars
<1> QED
  BY <1>1, <1>2 DEF ServerInv

LEMMA RestartInv ==
    ASSUME ServerInv, Restart
    PROVE  ServerInv'
<1>1. /\ SubSeq(log, 1, durable) \in Seq(DB)
      /\ Len(SubSeq(log, 1, durable)) = durable
      /\ SubSeq(log, 1, durable)[durable] = log[durable]
  BY LogCut DEF ServerInv, TypeOK
<1>5. durable' \in 1 .. Len(log') /\ log' \in Seq(DB)
  BY <1>1 DEF ServerInv, TypeOK, Restart
<1>2. TypeOK'
  BY <1>5 DEF ServerInv, TypeOK, Restart, clientVars, childVars, worldVars
<1>3. HistoryInv' /\ DownInv' /\ DirtyInv'
  BY <1>1
  DEF ServerInv, HistoryInv, DownInv, DirtyInv, DirtyCountsAll, Restart, Idle,
      clientVars, childVars
<1>4. WatchedUnchanged'
  BY DEF ServerInv, DownInv, WatchedUnchanged, Restart, clientVars
<1> QED
  BY <1>2, <1>3, <1>4 DEF ServerInv

LEMMA StutterInv == ServerInv /\ UNCHANGED vars => ServerInv'
<1> SUFFICES ASSUME ServerInv, UNCHANGED vars PROVE ServerInv'
  OBVIOUS
<1>1. TypeOK'
  BY DEF ServerInv, TypeOK, vars
<1>2. HistoryInv' /\ DownInv' /\ DirtyInv' /\ WatchedUnchanged'
  BY DEF ServerInv, HistoryInv, DownInv, DirtyInv, DirtyCountsAll, WatchedUnchanged,
         Idle, vars
<1> QED
  BY <1>1, <1>2 DEF ServerInv

LEMMA NextInv == ServerInv /\ [Next]_vars => ServerInv'
<1> SUFFICES ASSUME ServerInv, [Next]_vars PROVE ServerInv'
  OBVIOUS
<1>1. ASSUME NEW c \in Client, NEW op \in Ops, ProcessCommand(c, op) PROVE ServerInv'
  BY <1>1, ProcessCommandInv
<1>2. ASSUME NEW c \in TxClient,
             \/ BadCommand(c) \/ MultiCommand(c) \/ (\E k \in Key : WatchCommand(c, k))
             \/ UnwatchCommand(c) \/ DiscardCommand(c) \/ ExecAbort(c) \/ ExecBegin(c)
      PROVE  ServerInv'
  <2>1. c \in Client
    BY RedisAssumption
  <2> QED
    BY <1>2, <2>1, BadCommandInv, MultiCommandInv, WatchCommandInv, UnwatchCommandInv,
       DropInv, ExecBeginInv
<1>3. CASE ExecStep \/ ExecEnd
  BY <1>3, ExecStepInv, ExecEndInv
<1>4. CASE SaveCommand \/ BgsaveCommand \/ CronSave
  BY <1>4, SaveCommandInv, RdbSaveBackgroundInv DEF BgsaveCommand, CronSave
<1>5. CASE FlushallCommand \/ CronReap \/ ChildStep \/ Signal
  BY <1>5, FlushallCommandInv, CronReapInv, ChildStepInv, SignalInv
<1>6. CASE CronShutdown \/ ShutdownCommand
  <2>1. Idle /\ PrepareForShutdown /\ asap' \in BOOLEAN
    BY <1>6 DEF CronShutdown, ShutdownCommand
  <2> QED
    BY <2>1, PrepareForShutdownInv
<1>7. CASE ShutdownNosave \/ HostCrash \/ ProcessCrash
  BY <1>7, CrashInv
<1>8. CASE OrphanSaves \/ OrphanFails \/ Restart
  BY <1>8, OrphanSavesInv, OrphanFailsInv, RestartInv
<1>9. CASE UNCHANGED vars
  BY <1>9, StutterInv
<1> QED
  BY <1>1, <1>2, <1>3, <1>4, <1>5, <1>6, <1>7, <1>8, <1>9 DEF Next

-----------------------------------------------------------------------------
(* Invariants.                                                             *)

LEMMA Invariant == Spec => []ServerInv
  BY InitInv, NextInv, PTL DEF Spec

\* The variables of the server keep their types for all clients, keys, commands
\* and bounds; above all the change counter stays a natural number although a
\* finished child is subtracted from it (backgroundSaveDoneHandlerDisk).
THEOREM TypeCorrect == Spec => []TypeOK
<1>1. ServerInv => TypeOK
  BY DEF ServerInv
<1> QED
  BY <1>1, Invariant, PTL

\* server.dirty is 0 only if the dump is the keyspace, in whatever order SAVE,
\* children, FLUSHALL, failed shutdowns and restarts come (rdb.c, db.c).
THEOREM ChangesCounted == Spec => []DirtyCountsAll
<1>1. ServerInv => DirtyCountsAll
  BY DEF ServerInv, DirtyInv
<1> QED
  BY <1>1, Invariant, PTL

\* A client that may EXEC has seen the values its watched keys have (multi.c).
THEOREM OptimisticLock == Spec => []WatchedUnchanged
<1>1. ServerInv => WatchedUnchanged
  BY DEF ServerInv
<1> QED
  BY <1>1, Invariant, PTL

\* Before the first crash there are no orphans, and a stopped server has saved
\* its last commit.
StopInv ==
    /\ ~up /\ crashes = 0 => durable = Len(log)
    /\ orphans # {} => crashes > 0

LEMMA StopStep == ServerInv /\ StopInv /\ [Next]_vars => StopInv'
<1> SUFFICES ASSUME ServerInv, StopInv, [Next]_vars PROVE StopInv'
  OBVIOUS
<1> USE DEF StopInv
<1>1. ASSUME up', UNCHANGED <<orphans, crashes>> PROVE StopInv'
  BY <1>1
<1>2. CASE UNCHANGED vars
  BY <1>2 DEF vars
<1>3. ASSUME NEW c \in Client, NEW op \in Ops, ProcessCommand(c, op) PROVE StopInv'
  BY <1>1, <1>3 DEF ProcessCommand, Idle, worldVars
<1>4. ASSUME NEW c \in TxClient,
             \/ BadCommand(c) \/ MultiCommand(c) \/ (\E k \in Key : WatchCommand(c, k))
             \/ UnwatchCommand(c) \/ DiscardCommand(c) \/ ExecAbort(c) \/ ExecBegin(c)
      PROVE  StopInv'
  BY <1>1, <1>4
  DEF BadCommand, MultiCommand, WatchCommand, UnwatchCommand, DiscardCommand, ExecAbort,
      ExecBegin, OnlyClients, Idle, worldVars
<1>5. CASE ExecStep \/ ExecEnd
  BY <1>1, <1>5 DEF ExecStep, ExecEnd, worldVars
<1>6. CASE SaveCommand \/ BgsaveCommand \/ CronSave \/ FlushallCommand \/ CronReap
  BY <1>1, <1>6
  DEF SaveCommand, BgsaveCommand, CronSave, FlushallCommand, CronReap, RdbSaveBackground,
      Idle, worldVars
<1>7. CASE ChildStep
  <2>1. up /\ UNCHANGED <<up, orphans, crashes>>
    BY <1>7
    DEF ChildStep, ChildSaves, ChildFails, OnlyChild, ServerInv, DownInv
  <2> QED
    BY <1>1, <2>1
<1>8. CASE Signal
  BY <1>1, <1>8 DEF Signal, worldVars
<1>9. CASE CronShutdown \/ ShutdownCommand
  <2>1. CASE Gone /\ Replace(db, Len(log)) /\ UNCHANGED <<log, worldVars>>
    BY <2>1 DEF Replace, worldVars
  <2>2. CASE UNCHANGED <<up, orphans, crashes>>
    BY <1>1, <1>9, <2>2 DEF CronShutdown, ShutdownCommand, Idle
  <2> QED
    BY <1>9, <2>1, <2>2 DEF CronShutdown, ShutdownCommand, PrepareForShutdown
<1>10. CASE ShutdownNosave \/ HostCrash \/ ProcessCrash
  <2>1. crashes' = crashes + 1 /\ crashes \in Nat
    BY <1>10 DEF ShutdownNosave, HostCrash, ProcessCrash, Lose, ServerInv, TypeOK
  <2> QED
    BY <2>1
<1>11. CASE OrphanSaves \/ OrphanFails
  <2>1. orphans # {} /\ crashes' = crashes
    BY <1>11 DEF OrphanSaves, OrphanFails
  <2>2. crashes \in Nat /\ crashes > 0
    BY <2>1 DEF ServerInv, TypeOK
  <2> QED
    BY <2>1, <2>2
<1>12. CASE Restart
  BY <1>1, <1>12 DEF Restart, worldVars
<1> QED
  BY <1>2, <1>3, <1>4, <1>5, <1>6, <1>7, <1>8, <1>9, <1>10, <1>11, <1>12 DEF Next

\* A shutdown that saves loses no commit, whatever child it interrupts
\* (prepareForShutdown).
THEOREM ShutdownSaves == Spec => []CleanStop
<1>1. Init => StopInv
  BY DEF Init, StopInv
<1>2. ServerInv /\ StopInv => CleanStop
  BY DEF ServerInv, HistoryInv, StopInv, CleanStop
<1> QED
  BY <1>1, <1>2, StopStep, Invariant, PTL DEF Spec

LEMMA StopWritesStep ==
    ServerInv /\ [Next]_vars =>
        [up /\ up' /\ status = "err" /\ db' # db => exec # NoClient]_vars
<1> SUFFICES ASSUME ServerInv, Next, up, status = "err", exec = NoClient
             PROVE  up' => db' = db
  OBVIOUS
<1>1. ASSUME NEW c \in Client, NEW op \in Ops, ProcessCommand(c, op) PROVE db' = db
  <2>1. CASE Call(op, cl) /\ ~IsWrite(op)
    <3>1. ~Changes(op)
      BY <2>1 DEF IsWrite, Changes
    <3> QED
      BY <2>1, <3>1, ResultType DEF Call, ServerInv
  <2> QED
    BY <1>1, <2>1 DEF ProcessCommand, Denied
<1>2. ASSUME NEW c \in TxClient,
             \/ BadCommand(c) \/ MultiCommand(c) \/ (\E k \in Key : WatchCommand(c, k))
             \/ UnwatchCommand(c) \/ DiscardCommand(c) \/ ExecAbort(c) \/ ExecBegin(c)
      PROVE  db' = db
  BY <1>2
  DEF BadCommand, MultiCommand, WatchCommand, UnwatchCommand, DiscardCommand, ExecAbort,
      ExecBegin, OnlyClients
<1>3. CASE SaveCommand \/ BgsaveCommand \/ CronSave \/ CronReap \/ ChildStep \/ Signal
  BY <1>3
  DEF SaveCommand, BgsaveCommand, CronSave, CronReap, RdbSaveBackground, ChildStep,
      ChildSaves, ChildFails, OnlyChild, Signal
<1>4. CASE CronShutdown \/ ShutdownCommand
  BY <1>4 DEF CronShutdown, ShutdownCommand, PrepareForShutdown, Gone
<1>5. CASE ShutdownNosave \/ HostCrash \/ ProcessCrash
  BY <1>5 DEF ShutdownNosave, HostCrash, ProcessCrash, Gone
<1>6. CASE OrphanSaves \/ OrphanFails
  BY <1>6 DEF OrphanSaves, OrphanFails
<1>7. ~FlushallCommand /\ ~ExecStep /\ ~ExecEnd /\ ~Restart
  BY DEF FlushallCommand, Denied, ExecStep, ExecEnd, Restart
<1> QED
  BY <1>1, <1>2, <1>3, <1>4, <1>5, <1>6, <1>7 DEF Next

\* After a failed save only transactions that were queued before still write
\* (processCommand, execCommand).
THEOREM WritesStop == Spec => StopWrites
  BY Invariant, StopWritesStep, PTL DEF Spec, StopWrites

-----------------------------------------------------------------------------
(* The refinement.                                                         *)

LEMMA StoreStep ==
    ServerInv /\ ServerInv' /\ [Next]_vars => [Store!Next]_(Store!vars)
<1> DEFINE images == {o.image : o \in orphans}
<1> SUFFICES ASSUME ServerInv, ServerInv', [Next]_vars
             PROVE  Store!Next \/ UNCHANGED <<Visible, dump, log, durable, images>>
  BY DEF Store!vars
<1>1. /\ Visible = log[Len(log)] /\ Visible' = log'[Len(log')]
      /\ Visible \in DB /\ Visible' \in DB
  BY DEF ServerInv, TypeOK, HistoryInv, Visible
<1>2. /\ log \in Seq(DB) /\ Len(log) \in Nat /\ Len(log) > 0
      /\ durable \in 1 .. Len(log) /\ dump = log[durable]
  BY DEF ServerInv, TypeOK, HistoryInv
<1>3. ASSUME UNCHANGED <<dump, log, durable, orphans>>
      PROVE  UNCHANGED <<Visible, dump, log, durable, images>>
  BY <1>1, <1>3
<1>4. ASSUME NEW s \in DB, Commit(s), UNCHANGED <<dump, durable, orphans>>
      PROVE  Store!Next \/ UNCHANGED <<Visible, dump, log, durable, images>>
  <2>1. CASE log' = log
    BY <1>3, <1>4, <2>1
  <2>2. CASE log' # log
    <3>1. s # Visible /\ log' = Append(log, s) /\ log'[Len(log')] = s
      BY <1>1, <1>4, <2>2, CommitFacts DEF Commit
    <3>2. Store!Commit
      BY <1>1, <1>4, <3>1 DEF Store!Commit
    <3> QED
      BY <3>2 DEF Store!Next
  <2> QED
    BY <2>1, <2>2
<1>5. ASSUME NEW i \in durable .. Len(log), durable' = i, dump' = log[i],
             UNCHANGED <<log, orphans>>
      PROVE  Store!Next
  <2>1. Store!Persist
    BY <1>1, <1>5 DEF Store!Persist
  <2> QED
    BY <2>1 DEF Store!Next
<1>6. CASE UNCHANGED vars
  BY <1>3, <1>6 DEF vars
<1>7. ASSUME NEW c \in Client, NEW op \in Ops, ProcessCommand(c, op)
      PROVE  Store!Next \/ UNCHANGED <<Visible, dump, log, durable, images>>
  <2>1. UNCHANGED <<dump, durable, orphans>>
    BY <1>7 DEF ProcessCommand, diskVars, worldVars
  <2>2. Result(op) \in DB
    BY ResultType DEF ServerInv
  <2>3. UNCHANGED log \/ Commit(Result(op))
    BY <1>7 DEF ProcessCommand
  <2> QED
    BY <1>3, <1>4, <2>1, <2>2, <2>3
<1>8. ASSUME NEW c \in TxClient,
             \/ BadCommand(c) \/ MultiCommand(c) \/ (\E k \in Key : WatchCommand(c, k))
             \/ UnwatchCommand(c) \/ DiscardCommand(c) \/ ExecAbort(c) \/ ExecBegin(c)
      PROVE  UNCHANGED <<Visible, dump, log, durable, images>>
  BY <1>3, <1>8
  DEF BadCommand, MultiCommand, WatchCommand, UnwatchCommand, DiscardCommand, ExecAbort,
      ExecBegin, OnlyClients, diskVars, worldVars
<1>9. CASE \/ ExecStep \/ BgsaveCommand \/ CronSave \/ CronReap \/ ChildFails \/ Signal
  BY <1>3, <1>9
  DEF ExecStep, BgsaveCommand, CronSave, RdbSaveBackground, CronReap, ChildFails,
      OnlyChild, Signal, diskVars, worldVars
<1>10. CASE ExecEnd
  <2>1. Commit(db) /\ db \in DB /\ UNCHANGED <<dump, durable, orphans>>
    BY <1>10 DEF ExecEnd, ServerInv, TypeOK, diskVars, worldVars
  <2> QED
    BY <1>4, <2>1
<1>11. CASE SaveCommand
  <2>1. CASE RdbSaveOk
    <3>1. /\ durable' = Len(log) /\ dump' = log[Len(log)] /\ UNCHANGED <<log, orphans>>
      BY <1>11, <2>1 DEF SaveCommand, RdbSaveOk, Replace, ServerInv, HistoryInv
    <3> QED
      BY <1>2, <1>5, <3>1
  <2>2. CASE RdbSaveError
    BY <1>3, <1>11, <2>2 DEF SaveCommand, RdbSaveError, diskVars
  <2> QED
    BY <1>11, <2>1, <2>2 DEF SaveCommand
<1>12. CASE ChildSaves
  <2>1. /\ imageAt \in durable .. Len(log) /\ image = log[imageAt]
        /\ durable' = imageAt /\ dump' = image /\ UNCHANGED <<log, orphans>>
    BY <1>12 DEF ChildSaves, Replace, OnlyChild, ServerInv, HistoryInv
  <2> QED
    BY <1>5, <2>1
<1>13. CASE FlushallCommand
  <2>1. Commit(Empty) /\ Empty \in DB /\ UNCHANGED orphans
    BY <1>13, EmptyType DEF FlushallCommand
  <2>2. CASE RdbSaveError
    BY <1>4, <2>1, <2>2 DEF RdbSaveError, diskVars
  <2>3. CASE RdbSaveOk
    <3>1. dump' = Empty /\ durable' = Len(log')
      BY <1>13, <2>3 DEF FlushallCommand, RdbSaveOk, Replace
    <3>2. CASE log' = log
      <4>1. Len(log) \in durable .. Len(log) /\ log[Len(log)] = Empty
        BY <1>2, <2>1, <3>2, CommitFacts
      <4> QED
        BY <1>5, <2>1, <3>1, <3>2, <4>1
    <3>3. CASE log' # log
      <4>1. Empty # Visible /\ log' = Append(log, Empty) /\ log'[Len(log')] = Empty
        BY <1>1, <2>1, <3>3, CommitFacts DEF Commit
      <4>2. Store!CommitSaved
        BY <1>1, <2>1, <3>1, <4>1 DEF Store!CommitSaved
      <4> QED
        BY <4>2 DEF Store!Next
    <3> QED
      BY <3>2, <3>3
  <2> QED
    BY <1>13, <2>2, <2>3 DEF FlushallCommand
<1>14. CASE CronShutdown \/ ShutdownCommand
  <2>1. CASE Gone /\ Replace(db, Len(log)) /\ UNCHANGED <<log, worldVars>>
    <3>1. db = log[Len(log)]
      BY <1>14 DEF CronShutdown, ShutdownCommand, ServerInv, HistoryInv
    <3>2. /\ durable' = Len(log) /\ dump' = log[Len(log)] /\ UNCHANGED <<log, orphans>>
      BY <2>1, <3>1 DEF Replace, worldVars
    <3> QED
      BY <1>2, <1>5, <3>2
  <2>2. CASE UNCHANGED <<log, diskVars, orphans>>
    BY <1>3, <2>2 DEF diskVars
  <2> QED
    BY <1>14, <2>1, <2>2 DEF CronShutdown, ShutdownCommand, PrepareForShutdown
<1>15. /\ SubSeq(log, 1, durable) \in Seq(DB)
       /\ Len(SubSeq(log, 1, durable)) = durable
       /\ SubSeq(log, 1, durable)[durable] = log[durable]
  BY <1>2, LogCut
<1>16. ASSUME log' = SubSeq(log, 1, durable), UNCHANGED <<dump, durable>>,
              images' \subseteq images \cup {log[i] : i \in durable .. Len(log)}
       PROVE  Store!Next
  <2>1. Visible' = dump
    BY <1>1, <1>2, <1>15, <1>16
  <2>2. Store!Restart
    BY <1>16, <2>1 DEF Store!Restart
  <2> QED
    BY <2>2 DEF Store!Next
<1>17. CASE ShutdownNosave \/ HostCrash \/ ProcessCrash
  <2>1. log' = SubSeq(log, 1, durable) /\ UNCHANGED <<dump, durable>>
    BY <1>17 DEF ShutdownNosave, HostCrash, ProcessCrash, Lose, diskVars
  <2>2. \A o \in orphans' : \/ o \in orphans
                            \/ child = "saving" /\ o.image = image
    BY <1>17 DEF ShutdownNosave, HostCrash, ProcessCrash
  <2>3. child = "saving" => image \in {log[i] : i \in durable .. Len(log)}
    BY DEF ServerInv, HistoryInv
  <2> QED
    BY <1>16, <2>1, <2>2, <2>3
<1>18. CASE OrphanSaves
  <2>1. PICK o \in orphans :
            /\ orphans' = orphans \ {o} /\ dump' = o.image
            /\ log' = <<o.image>> \o log /\ durable' = 1
    BY <1>18 DEF OrphanSaves
  <2>2. o.image \in DB /\ o.image \in images /\ images' \subseteq images
    BY <2>1 DEF ServerInv, TypeOK
  <2>3. Visible' = Visible
    BY <1>1, <1>2, <2>1, <2>2, LogCons
  <2>4. Store!Overwrite
    BY <2>1, <2>2, <2>3 DEF Store!Overwrite
  <2> QED
    BY <2>4 DEF Store!Next
<1>19. CASE OrphanFails
  <2>1. images' \subseteq images /\ UNCHANGED <<dump, log, durable>>
    BY <1>19 DEF OrphanFails, diskVars
  <2>2. Store!Abandon
    BY <1>1, <2>1 DEF Store!Abandon
  <2> QED
    BY <2>2 DEF Store!Next
<1>20. CASE Restart
  <2>1. /\ log' = SubSeq(log, 1, durable) /\ UNCHANGED <<dump, durable>>
        /\ images' \subseteq images
    BY <1>20 DEF Restart, worldVars
  <2> QED
    BY <1>16, <2>1
<1> QED
  BY <1>6, <1>7, <1>8, <1>9, <1>10, <1>11, <1>12, <1>13, <1>14, <1>17, <1>18, <1>19, <1>20
  DEF Next, ChildStep

\* The server keeps the promise of DurableStore for any clients, keys, commands,
\* failures and crashes: what a restart finds is one of the commits, no older than
\* the last snapshot of a living server.
THEOREM ServerImplementsStore == Spec => ImplementsStore
<1>1. Init => Store!Init
  BY DEF Init, Store!Init, Visible, Idle
<1> QED
  BY <1>1, Invariant, StoreStep, PTL DEF Spec, ImplementsStore, Store!Spec
=============================================================================
