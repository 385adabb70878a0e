---------------------------- MODULE RedisServer ----------------------------
(***************************************************************************)
(* The Redis server of src/redis as this service configures it: one event  *)
(* loop that runs commands and transactions (multi.c, server.c, db.c), a   *)
(* forked child that writes snapshots (rdb.c), and what is left of the     *)
(* data after a crash, a signal or a SHUTDOWN.                             *)
(*                                                                         *)
(* A key holds 0 (it does not exist) or a number: INCR always changes it,  *)
(* unless the number is at its limit, DEL changes it only if it exists,    *)
(* and a read never does.  The other commands of the service behave like   *)
(* one of the three.                                                       *)
(***************************************************************************)
EXTENDS Naturals, Sequences, FiniteSets

CONSTANTS
    Client,         \* connections
    TxClient,       \* the ones that use MULTI and WATCH
    Key,            \* names of keys
    Ops,            \* the commands that clients send
    NoClient,       \* no transaction is running
    SaveChanges,    \* the change counts of the save points of redis.conf
    MaxVal,         \* LLONG_MAX
    MaxLog,         \* bound: commits
    MaxDirty,       \* bound: server.dirty at which commands stop coming
    MaxQueue,       \* bound: commands queued in one transaction
    MaxFault,       \* bound: failures of disk, fork or child
    MaxCrash        \* bound: ends of the process that save nothing

DB == [Key -> 0 .. MaxVal]

Op == [kind : {"incr", "del", "get"}, key : Key]

ASSUME RedisAssumption ==
    /\ TxClient \subseteq Client
    /\ NoClient \notin Client
    /\ IsFiniteSet(Key)
    /\ Ops \subseteq Op
    /\ SaveChanges \subseteq Nat \ {0}
    /\ {MaxVal, MaxLog, MaxDirty, MaxQueue, MaxFault, MaxCrash} \subseteq Nat

VARIABLES
    up,          \* the server process runs
    db,          \* server.db: the keyspace in memory
    dirty,       \* server.dirty: changes since the last save
    dirtyBefore, \* server.dirty_before_bgsave
    status,      \* server.lastbgsave_status
    asap,        \* server.shutdown_asap
    cl,          \* the clients' flags, queues and watched keys
    exec,        \* the client whose EXEC is running
    mustProp,    \* must_propagate of execCommand
    child,       \* the saving child and how it ended
    image,       \* its copy of the keyspace
    dump,        \* the keyspace in dump.rdb
    orphans,     \* saving children of dead servers
    faults,      \* failures so far
    crashes,     \* ends of the process without a save so far
    \* The rest is history: what the properties compare the server with.
    log,         \* the states committed, up to the current one
    durable,     \* the one that dump holds
    imageAt,     \* the one that image holds
    seen,        \* the values that watched keys had at their WATCH
    overwritten  \* dump was last written by an orphan

clientVars == <<cl, exec, mustProp, seen>>
childVars  == <<child, image, imageAt, dirtyBefore>>
diskVars   == <<dump, durable, overwritten>>
worldVars  == <<orphans, faults, crashes>>
vars == <<up, db, dirty, dirtyBefore, status, asap, cl, exec, mustProp, child,
          image, dump, orphans, faults, crashes, log, durable, imageAt, seen,
          overwritten>>

Empty == [k \in Key |-> 0]

\* A client without a transaction and without watched keys.
Fresh == [multi |-> FALSE, cas |-> FALSE, bad |-> FALSE, queue |-> <<>>,
          watched |-> {}]

Init ==
    /\ up = TRUE
    /\ db = Empty
    /\ dirty = 0
    /\ dirtyBefore = 0
    /\ status = "ok"
    /\ asap = FALSE
    /\ cl = [c \in Client |-> Fresh]
    /\ exec = NoClient
    /\ mustProp = FALSE
    /\ child = "none"
    /\ image = Empty
    /\ dump = Empty
    /\ orphans = {}
    /\ faults = 0
    /\ crashes = 0
    /\ log = <<Empty>>
    /\ durable = 1
    /\ imageAt = 1
    /\ seen = [c \in Client |-> Empty]
    /\ overwritten = FALSE

-----------------------------------------------------------------------------
(* Commands.                                                               *)

\* The event loop is free to run a command or serverCron.
Idle == up /\ exec = NoClient

\* CMD_WRITE.
IsWrite(op) == op.kind # "get"

\* The command changes the keyspace, and so signals its key and counts.
Changes(op) ==
    \/ op.kind = "incr" /\ db[op.key] < MaxVal
    \/ op.kind = "del" /\ db[op.key] # 0

Result(op) ==
    IF Changes(op)
    THEN [db EXCEPT ![op.key] = IF op.kind = "incr" THEN @ + 1 ELSE 0]
    ELSE db

\* Mutant: only the commands of a transaction signal their key.
TouchInExec(clients, keys) ==
    [c \in Client |->
        [clients[c] EXCEPT !.cas =
            @ \/ (clients[c].watched \cap keys # {} /\ exec # NoClient)]]

\* touchWatchedKey: whoever watches one of the keys will not EXEC.
Touch(clients, keys) ==
    [c \in Client |->
        [clients[c] EXCEPT !.cas = @ \/ clients[c].watched \cap keys # {}]]

\* call: run the command of a client, or the next one of a transaction.
Call(op, clients) ==
    /\ db' = Result(op)
    /\ dirty' = dirty + (IF Changes(op) THEN 1 ELSE 0)
    /\ cl' = IF Changes(op) THEN Touch(clients, {op.key}) ELSE clients

\* History: the keyspace that clients see from now on.
Commit(state) ==
    log' = IF state = log[Len(log)] THEN log ELSE Append(log, state)

\* Mutant: the error is forgotten while another child is saving.
DeniedIfIdle == status = "err" /\ child = "none"

\* writeCommandsDeniedByDiskError.
Denied == status = "err"

\* flagTransaction.
Flag(c) == [cl EXCEPT ![c].bad = @ \/ cl[c].multi]

\* processCommand, for a command that is not about transactions.
ProcessCommand(c, op) ==
    /\ Idle
    /\ dirty < MaxDirty
    /\ Len(log) < MaxLog
    /\ \/ /\ Denied /\ IsWrite(op)
          /\ cl' = Flag(c)
          /\ UNCHANGED <<db, dirty, log>>
       \/ /\ ~(Denied /\ IsWrite(op))
          /\ cl[c].multi
          /\ Len(cl[c].queue) < MaxQueue
          /\ cl' = [cl EXCEPT ![c].queue = Append(@, op)]
          /\ UNCHANGED <<db, dirty, log>>
       \/ /\ ~(Denied /\ IsWrite(op))
          /\ ~cl[c].multi
          /\ Call(op, cl)
          /\ Commit(Result(op))
    /\ UNCHANGED <<up, status, asap, exec, mustProp, seen, childVars,
                   diskVars, worldVars>>

\* processCommand, for a name or a number of arguments that does not exist.
BadCommand(c) ==
    /\ Idle
    /\ cl' = Flag(c)
    /\ UNCHANGED <<up, db, dirty, status, asap, exec, mustProp, seen, log,
                   childVars, diskVars, worldVars>>

-----------------------------------------------------------------------------
(* Transactions (multi.c).                                                 *)

OnlyClients ==
    UNCHANGED <<up, db, dirty, status, asap, log, childVars, diskVars,
                worldVars>>

MultiCommand(c) ==
    /\ Idle
    /\ ~cl[c].multi
    /\ cl' = [cl EXCEPT ![c].multi = TRUE]
    /\ UNCHANGED <<exec, mustProp, seen>>
    /\ OnlyClients

\* WATCH of one key; a key watched already stays as it is.
WatchCommand(c, k) ==
    /\ Idle
    /\ ~cl[c].multi
    /\ k \notin cl[c].watched
    /\ cl' = [cl EXCEPT ![c].watched = @ \cup {k}]
    /\ seen' = [seen EXCEPT ![c][k] = db[k]]
    /\ UNCHANGED <<exec, mustProp>>
    /\ OnlyClients

UnwatchCommand(c) ==
    /\ Idle
    /\ ~cl[c].multi
    /\ cl' = [cl EXCEPT ![c].watched = {}, ![c].cas = FALSE]
    /\ seen' = [seen EXCEPT ![c] = Empty]
    /\ UNCHANGED <<exec, mustProp>>
    /\ OnlyClients

\* discardTransaction, by DISCARD or by freeClient when the connection ends.
DiscardCommand(c) ==
    /\ Idle
    /\ cl[c] # Fresh
    /\ cl' = [cl EXCEPT ![c] = Fresh]
    /\ seen' = [seen EXCEPT ![c] = Empty]
    /\ UNCHANGED <<exec, mustProp>>
    /\ OnlyClients

\* execCommand up to the loop: a touched or flagged transaction is dropped.
ExecAbort(c) ==
    /\ Idle
    /\ cl[c].multi
    /\ cl[c].cas \/ cl[c].bad
    /\ cl' = [cl EXCEPT ![c] = Fresh]
    /\ seen' = [seen EXCEPT ![c] = Empty]
    /\ UNCHANGED <<exec, mustProp>>
    /\ OnlyClients

ExecBegin(c) ==
    /\ Idle
    /\ dirty < MaxDirty
    /\ Len(log) < MaxLog
    /\ cl[c].multi
    /\ ~cl[c].cas /\ ~cl[c].bad
    /\ cl' = [cl EXCEPT ![c].watched = {}]
    /\ exec' = c
    /\ mustProp' = FALSE
    /\ seen' = [seen EXCEPT ![c] = Empty]
    /\ OnlyClients

\* One turn of the loop of execCommand.  The event loop waits for it, a child
\* of the server does not.
ExecStep ==
    /\ up
    /\ exec # NoClient
    /\ cl[exec].queue # <<>>
    /\ LET op == Head(cl[exec].queue) IN
        /\ Call(op, [cl EXCEPT ![exec].queue = Tail(@)])
        /\ mustProp' = (mustProp \/ IsWrite(op))
    /\ UNCHANGED <<up, status, asap, exec, seen, log, childVars, diskVars,
                   worldVars>>

ExecEnd ==
    /\ up
    /\ exec # NoClient
    /\ cl[exec].queue = <<>>
    /\ cl' = [cl EXCEPT ![exec] = Fresh]
    /\ dirty' = dirty + (IF mustProp THEN 1 ELSE 0)
    /\ exec' = NoClient
    /\ mustProp' = FALSE
    /\ Commit(db)
    /\ UNCHANGED <<up, db, status, asap, seen, childVars, diskVars, worldVars>>

-----------------------------------------------------------------------------
(* Snapshots (rdb.c).                                                      *)

\* A failure of the disk, of fork or of a child.
Fault ==
    /\ faults < MaxFault
    /\ faults' = faults + 1

\* rename in rdbSave: the dump is replaced as a whole.
Replace(state, at) ==
    /\ dump' = state
    /\ durable' = at
    /\ overwritten' = FALSE

\* rdbSave in the server itself, of a keyspace that is the last one of log'.
\* An error leaves the old dump in its place.
RdbSaveOk ==
    /\ Replace(db', Len(log'))
    /\ status' = "ok"
    /\ UNCHANGED faults

RdbSaveError ==
    /\ Fault
    /\ UNCHANGED <<status, diskVars>>

\* kill(SIGUSR1) and rdbRemoveTempFile: a child that has not renamed its file
\* never will.
KillChild == child' = IF child = "saving" THEN "killed" ELSE child

\* Mutant: SAVE does not look for a saving child.
SaveBesideChild ==
    /\ Idle
    /\ UNCHANGED <<db, log>>
    /\ \/ RdbSaveOk /\ dirty' = 0
       \/ RdbSaveError /\ UNCHANGED dirty
    /\ UNCHANGED <<up, asap, clientVars, childVars, orphans, crashes>>

\* saveCommand.
SaveCommand ==
    /\ Idle
    /\ child = "none"
    /\ UNCHANGED <<db, log>>
    /\ \/ RdbSaveOk /\ dirty' = 0
       \/ RdbSaveError /\ UNCHANGED dirty
    /\ UNCHANGED <<up, asap, clientVars, childVars, orphans, crashes>>

\* rdbSaveBackground: fork, or fail to.
RdbSaveBackground ==
    /\ dirtyBefore' = dirty
    /\ \/ /\ child' = "saving"
          /\ image' = db
          /\ imageAt' = Len(log)
          /\ UNCHANGED <<status, faults>>
       \/ /\ Fault
          /\ status' = "err"
          /\ UNCHANGED <<child, image, imageAt>>
    /\ UNCHANGED <<up, db, dirty, asap, clientVars, log, diskVars, orphans,
                   crashes>>

\* bgsaveCommand.
BgsaveCommand ==
    /\ Idle
    /\ child = "none"
    /\ RdbSaveBackground

\* Mutants: the save point is tested between the commands of a transaction; a
\* failed save is not tried again.
CronSaveInExec ==
    /\ up
    /\ child = "none"
    /\ \E n \in SaveChanges : dirty >= n
    /\ RdbSaveBackground

CronSaveOnce ==
    /\ Idle
    /\ child = "none"
    /\ status = "ok"
    /\ \E n \in SaveChanges : dirty >= n
    /\ RdbSaveBackground

\* serverCron: one of the save points is reached and enough time has passed.
CronSave ==
    /\ Idle
    /\ child = "none"
    /\ \E n \in SaveChanges : dirty >= n
    /\ RdbSaveBackground

OnlyChild ==
    UNCHANGED <<up, db, dirty, dirtyBefore, status, asap, clientVars, image,
                imageAt, log, orphans, crashes>>

\* rdbSave in the child.
ChildSaves ==
    /\ child = "saving"
    /\ child' = "saved"
    /\ Replace(image, imageAt)
    /\ UNCHANGED faults
    /\ OnlyChild

\* The child exits with an error, or a signal ends it.
ChildFails ==
    /\ child = "saving"
    /\ child' = "failed"
    /\ Fault
    /\ UNCHANGED diskVars
    /\ OnlyChild

\* Mutants: the changes since the fork are forgotten; a child that failed is
\* not forgotten.
CronReapResets ==
    /\ Idle
    /\ child \in {"saved", "failed", "killed"}
    /\ child' = "none"
    /\ dirty' = IF child = "saved" THEN 0 ELSE dirty
    /\ status' = IF child = "saved" THEN "ok" ELSE "err"
    /\ image' = Empty
    /\ imageAt' = 1
    /\ UNCHANGED <<up, db, dirtyBefore, asap, clientVars, log, diskVars,
                   worldVars>>

CronReapKeepsPid ==
    /\ Idle
    /\ child = "saved"
    /\ child' = "none"
    /\ dirty' = dirty - dirtyBefore
    /\ status' = "ok"
    /\ image' = Empty
    /\ imageAt' = 1
    /\ UNCHANGED <<up, db, dirtyBefore, asap, clientVars, log, diskVars,
                   worldVars>>

\* serverCron and backgroundSaveDoneHandlerDisk: wait3 returns the child.
CronReap ==
    /\ Idle
    /\ child \in {"saved", "failed", "killed"}
    /\ child' = "none"
    /\ dirty' = IF child = "saved" THEN dirty - dirtyBefore ELSE dirty
    /\ status' = CASE child = "saved"  -> "ok"
                   [] child = "failed" -> "err"
                   [] OTHER            -> status
    /\ image' = Empty
    /\ imageAt' = 1
    /\ UNCHANGED <<up, db, dirtyBefore, asap, clientVars, log, diskVars,
                   worldVars>>

\* flushallCommand: the save in it must not reset dirty.
FlushallCommand ==
    /\ Idle
    /\ ~Denied
    /\ dirty < MaxDirty
    /\ Len(log) < MaxLog
    /\ cl' = Touch(cl, {k \in Key : db[k] # 0})
    /\ db' = Empty
    /\ dirty' = dirty + Cardinality({k \in Key : db[k] # 0}) + 1
    /\ Commit(Empty)
    /\ KillChild
    /\ RdbSaveOk \/ RdbSaveError
    /\ UNCHANGED <<up, asap, exec, mustProp, seen, image, imageAt, dirtyBefore,
                   orphans, crashes>>

-----------------------------------------------------------------------------
(* The end of the process, and the next one.                               *)

\* The memory of the process is gone.
Gone ==
    /\ up' = FALSE
    /\ db' = Empty
    /\ dirty' = 0
    /\ dirtyBefore' = 0
    /\ status' = "ok"
    /\ cl' = [c \in Client |-> Fresh]
    /\ exec' = NoClient
    /\ mustProp' = FALSE
    /\ seen' = [c \in Client |-> Empty]
    /\ child' = "none"
    /\ image' = Empty
    /\ imageAt' = 1

\* sigShutdownHandler: the first SIGINT, or any SIGTERM.
Signal ==
    /\ up
    /\ ~asap
    /\ asap' = TRUE
    /\ UNCHANGED <<up, db, dirty, status, clientVars, childVars, log, diskVars,
                   worldVars>>

\* Mutant: the child is left to finish.
PrepareForShutdownBesideChild ==
    /\ Gone
    /\ Replace(db, Len(log))
    /\ orphans' = IF child = "saving"
                  THEN orphans \cup {[pid |-> crashes, image |-> image]}
                  ELSE orphans
    /\ UNCHANGED <<log, faults, crashes>>

\* prepareForShutdown: kill the child, save, exit; stay if the save fails.
PrepareForShutdown ==
    \/ /\ Gone
       /\ Replace(db, Len(log))
       /\ UNCHANGED <<log, worldVars>>
    \/ /\ KillChild
       /\ Fault
       /\ UNCHANGED <<up, db, dirty, dirtyBefore, status, clientVars, image,
                      imageAt, log, diskVars, orphans, crashes>>

\* serverCron after a signal: a shutdown that fails is not tried again.
CronShutdown ==
    /\ Idle
    /\ asap
    /\ PrepareForShutdown
    /\ asap' = FALSE

\* shutdownCommand.
ShutdownCommand ==
    /\ Idle
    /\ PrepareForShutdown
    /\ asap' = (asap /\ up')

\* History: what was not on the disk is lost.
Lose ==
    /\ log' = SubSeq(log, 1, durable)
    /\ crashes < MaxCrash
    /\ crashes' = crashes + 1
    /\ asap' = FALSE
    /\ UNCHANGED <<diskVars, faults>>

\* SHUTDOWN NOSAVE kills the child as well, a failure of the machine ends it.
ShutdownNosave ==
    /\ Idle
    /\ Gone
    /\ Lose
    /\ UNCHANGED orphans

HostCrash ==
    /\ up
    /\ Gone
    /\ Lose
    /\ orphans' = {}

\* The process alone ends: a crash, kill -9, or the second SIGINT.  Its child
\* goes on.
ProcessCrash ==
    /\ up
    /\ Gone
    /\ Lose
    /\ orphans' = IF child = "saving"
                  THEN orphans \cup {[pid |-> crashes, image |-> image]}
                  ELSE orphans

\* The child of a dead server comes to its rename, or fails.
OrphanSaves ==
    \E o \in orphans :
        /\ orphans' = orphans \ {o}
        /\ dump' = o.image
        /\ overwritten' = up
        /\ log' = <<o.image>> \o log
        /\ durable' = 1
        /\ imageAt' = IF child = "none" THEN imageAt ELSE imageAt + 1
        /\ UNCHANGED <<up, db, dirty, dirtyBefore, status, asap, clientVars,
                       child, image, faults, crashes>>

OrphanFails ==
    \E o \in orphans :
        /\ orphans' = orphans \ {o}
        /\ Fault
        /\ UNCHANGED <<up, db, dirty, status, asap, clientVars, childVars, log,
                       diskVars, crashes>>

\* initServer and loadDataFromDisk.
Restart ==
    /\ ~up
    /\ up' = TRUE
    /\ db' = dump
    /\ log' = SubSeq(log, 1, durable)
    /\ overwritten' = FALSE
    /\ UNCHANGED <<dirty, status, asap, clientVars, childVars, dump, durable,
                   worldVars>>

-----------------------------------------------------------------------------
Cron == CronSave \/ CronReap \/ CronShutdown

ChildStep == ChildSaves \/ ChildFails

Next ==
    \/ \E c \in Client, op \in Ops : ProcessCommand(c, op)
    \/ \E c \in TxClient :
        \/ BadCommand(c)
        \/ MultiCommand(c)
        \/ \E k \in Key : WatchCommand(c, k)
        \/ UnwatchCommand(c)
        \/ DiscardCommand(c)
        \/ ExecAbort(c)
        \/ ExecBegin(c)
    \/ ExecStep
    \/ ExecEnd
    \/ SaveCommand
    \/ BgsaveCommand
    \/ FlushallCommand
    \/ CronSave
    \/ CronReap
    \/ CronShutdown
    \/ ChildStep
    \/ Signal
    \/ ShutdownCommand
    \/ ShutdownNosave
    \/ HostCrash
    \/ ProcessCrash
    \/ OrphanSaves
    \/ OrphanFails
    \/ Restart

\* The event loop comes back to serverCron between commands, a transaction
\* runs to its end, and a child is scheduled by the system.
Fairness ==
    /\ SF_vars(CronSave)
    /\ SF_vars(CronReap)
    /\ SF_vars(CronShutdown)
    /\ WF_vars(ChildStep)
    /\ WF_vars(ExecStep \/ ExecEnd)

Spec == Init /\ [][Next]_vars

FairSpec == Spec /\ Fairness

-----------------------------------------------------------------------------
(* Properties.                                                             *)

ClientRecord ==
    [multi : BOOLEAN, cas : BOOLEAN, bad : BOOLEAN, queue : Seq(Ops),
     watched : SUBSET Key]

\* The variables have the types of the fields they model, a transaction runs
\* only for a client in MULTI, and the counters of commits stay in range
\* (server.h: redisServer and client).
TypeOK ==
    /\ up \in BOOLEAN
    /\ db \in DB
    /\ dirty \in Nat
    /\ dirtyBefore \in Nat
    /\ status \in {"ok", "err"}
    /\ asap \in BOOLEAN
    /\ cl \in [Client -> ClientRecord]
    /\ exec \in Client \cup {NoClient}
    /\ exec # NoClient => cl[exec].multi
    /\ mustProp \in BOOLEAN
    /\ child \in {"none", "saving", "saved", "failed", "killed"}
    /\ image \in DB
    /\ dump \in DB
    /\ orphans \subseteq [pid : Nat, image : DB]
    /\ faults \in Nat
    /\ crashes \in Nat
    /\ log \in Seq(DB)
    /\ durable \in 1 .. Len(log)
    /\ imageAt \in Nat
    /\ seen \in [Client -> DB]
    /\ overwritten \in BOOLEAN

\* What the clients see: in the middle of EXEC, or with the server down, the
\* state of the last commit.
Visible == IF Idle THEN db ELSE log[Len(log)]

Store == INSTANCE DurableStore WITH
            State <- DB,
            Initial <- Empty,
            mem <- Visible,
            disk <- dump,
            log <- log,
            durable <- durable,
            abandoned <- {o.image : o \in orphans}

\* Commands, transactions, snapshots, shutdowns and crashes together keep the
\* promise of DurableStore: a restart (loadDataFromDisk) finds the state after
\* some whole command or transaction, and a finished snapshot is never undone
\* except by the child of a dead server.
ImplementsStore == Store!Spec

\* server.dirty never hides a change: if it is 0, the dump is the keyspace, in
\* whatever order saves, children that end late, FLUSHALL and failed shutdowns
\* came (backgroundSaveDoneHandlerDisk subtracts, rdbSave resets,
\* flushallCommand restores it).
DirtyCountsAll ==
    up /\ dirty = 0 /\ ~overwritten => dump = db

\* Optimistic locking: as long as a client is not marked CLIENT_DIRTY_CAS, and
\* so may EXEC, the keys it watches have the value they had at its WATCH
\* (touchWatchedKey, touchWatchedKeysOnFlush).
WatchedUnchanged ==
    \A c \in Client : \A k \in cl[c].watched :
        ~cl[c].cas => db[k] = seen[c][k]

\* A shutdown that saves loses nothing, whatever child it interrupts: the dump
\* is the last commit until an orphan of an earlier crash overwrites it
\* (prepareForShutdown kills the child before it saves).
CleanStop ==
    ~up /\ crashes = 0 => dump = log[Len(log)]

\* While the last background save has failed, data changes only through a
\* transaction: stop-writes-on-bgsave-error is checked when a command is
\* queued, not again at EXEC (processCommand, writeCommandsDeniedByDiskError).
StopWrites ==
    [][up /\ up' /\ status = "err" /\ db' # db => exec # NoClient]_vars

\* Commits do not wait forever: again and again the disk holds the last commit
\* or a snapshot replaces the dump by a later one, even if children fail and
\* shutdowns are refused (serverCron, backgroundSaveDoneHandlerDisk).  A dump
\* that the child of a dead server has overwritten is not noticed.
ChangesReachDisk ==
    \/ []<>(~up \/ overwritten \/ durable = Len(log))
    \/ []<><<durable' > durable>>_vars

\* After a failed save writes are accepted again once saving works, except
\* when no change is waiting to be saved: then no save point is reached, and
\* no write is accepted that would reach one (serverCron, processCommand).
WritesResume ==
    (up /\ status = "err") ~> (status = "ok" \/ dirty = 0)
=============================================================================
