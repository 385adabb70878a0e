--------------------------- MODULE RegistryProofs ---------------------------
(***************************************************************************)
(* Room implements RoomRegistry, for any servers, sockets, users and       *)
(* bounds, lost Redis connections and ended processes included.            *)
(***************************************************************************)
EXTENDS RoomProofs

-----------------------------------------------------------------------------
(* What queue operations do to the elements of a queue.                    *)

LEMMA EmptyQueue == Range(<<>>) = {} /\ IsInjective(<<>>)
BY DEF Range, IsInjective

LEMMA AppendRange ==
    ASSUME NEW S, NEW q \in Seq(S), NEW x \in S
    PROVE  Range(Append(q, x)) = Range(q) \cup {x}
<1>1. /\ DOMAIN q = 1 .. Len(q) /\ DOMAIN Append(q, x) = 1 .. Len(q) + 1
      /\ Len(q) \in Nat
      /\ \A i \in 1 .. Len(q) : Append(q, x)[i] = q[i]
      /\ Append(q, x)[Len(q) + 1] = x
  OBVIOUS
<1> QED
  BY <1>1 DEF Range

LEMMA AppendInjective ==
    ASSUME NEW S, NEW q \in Seq(S), NEW x \in S, IsInjective(q), x \notin Range(q)
    PROVE  IsInjective(Append(q, x))
<1>1. /\ DOMAIN q = 1 .. Len(q) /\ DOMAIN Append(q, x) = 1 .. Len(q) + 1
      /\ Len(q) \in Nat
      /\ \A i \in 1 .. Len(q) : Append(q, x)[i] = q[i]
      /\ Append(q, x)[Len(q) + 1] = x
  OBVIOUS
<1> QED
  BY <1>1 DEF Range, IsInjective

LEMMA TailQueue ==
    ASSUME NEW S, NEW q \in Seq(S), q # <<>>, IsInjective(q)
    PROVE  /\ Head(q) \in S /\ Head(q) \in Range(q) /\ Tail(q) \in Seq(S)
           /\ Range(Tail(q)) = Range(q) \ {Head(q)}
           /\ IsInjective(Tail(q))
<1>1. /\ DOMAIN q = 1 .. Len(q) /\ Len(q) \in Nat /\ Len(q) > 0
      /\ Tail(q) \in Seq(S) /\ DOMAIN Tail(q) = 1 .. Len(q) - 1
      /\ \A i \in 1 .. Len(q) - 1 : Tail(q)[i] = q[i + 1]
      /\ Head(q) = q[1] /\ q[1] \in S
  OBVIOUS
<1>2. Head(q) \in Range(q)
  BY <1>1 DEF Range
<1>3. IsInjective(Tail(q))
  BY <1>1 DEF IsInjective
<1>4. Range(Tail(q)) \subseteq Range(q) \ {Head(q)}
  BY <1>1 DEF IsInjective, Range
<1>5. ASSUME NEW x \in Range(q) \ {Head(q)} PROVE x \in Range(Tail(q))
  <2>1. PICK i \in 1 .. Len(q) : x = q[i]
    BY <1>1, <1>5 DEF Range
  <2>2. i # 1 /\ i - 1 \in 1 .. Len(q) - 1
    BY <1>1, <1>5, <2>1
  <2>3. x = Tail(q)[i - 1]
    BY <1>1, <2>1, <2>2
  <2> QED
    BY <1>1, <2>2, <2>3 DEF Range
<1> QED
  BY <1>1, <1>2, <1>3, <1>4, <1>5

LEMMA ConcatQueue ==
    ASSUME NEW S, NEW p \in Seq(S), NEW q \in Seq(S),
           IsInjective(p), IsInjective(q), Range(p) \cap Range(q) = {}
    PROVE  Range(p \o q) = Range(p) \cup Range(q) /\ IsInjective(p \o q)
<1>1. /\ DOMAIN p = 1 .. Len(p) /\ DOMAIN q = 1 .. Len(q)
      /\ Len(p) \in Nat /\ Len(q) \in Nat
      /\ DOMAIN (p \o q) = 1 .. Len(p) + Len(q)
      /\ \A i \in 1 .. Len(p) + Len(q) :
            (p \o q)[i] = IF i <= Len(p) THEN p[i] ELSE q[i - Len(p)]
  OBVIOUS
<1>2. \A i \in 1 .. Len(p) : p[i] \in Range(p) /\ (p \o q)[i] = p[i]
  BY <1>1 DEF Range
<1>3. \A i \in 1 .. Len(q) : q[i] \in Range(q) /\ (p \o q)[Len(p) + i] = q[i]
  BY <1>1 DEF Range
<1>4. IsInjective(p \o q)
  <2> SUFFICES ASSUME NEW i \in 1 .. Len(p) + Len(q), NEW j \in 1 .. Len(p) + Len(q),
                      (p \o q)[i] = (p \o q)[j]
               PROVE  i = j
    BY <1>1 DEF IsInjective
  <2>1. CASE i <= Len(p) /\ j <= Len(p)
    BY <2>1, <1>1 DEF IsInjective
  <2>2. CASE i > Len(p) /\ j > Len(p)
    <3>1. /\ i - Len(p) \in 1 .. Len(q) /\ j - Len(p) \in 1 .. Len(q)
          /\ q[i - Len(p)] = q[j - Len(p)]
      BY <2>2, <1>1
    <3>2. i - Len(p) = j - Len(p)
      BY <3>1, <1>1 DEF IsInjective
    <3> QED
      BY <3>2, <1>1
  <2>3. CASE i <= Len(p) /\ j > Len(p)
    BY <2>3, <1>1, <1>2, <1>3
  <2>4. CASE i > Len(p) /\ j <= Len(p)
    BY <2>4, <1>1, <1>2, <1>3
  <2> QED
    BY <1>1, <2>1, <2>2, <2>3, <2>4
<1>5. Range(p) \cup Range(q) \subseteq Range(p \o q)
  <2>1. ASSUME NEW x \in Range(p) PROVE x \in Range(p \o q)
    BY <2>1, <1>1, <1>2 DEF Range
  <2>2. ASSUME NEW x \in Range(q) PROVE x \in Range(p \o q)
    <3>1. PICK i \in 1 .. Len(q) : x = q[i]
      BY <2>2, <1>1 DEF Range
    <3>2. Len(p) + i \in 1 .. Len(p) + Len(q)
      BY <1>1, <3>1
    <3> QED
      BY <1>1, <1>3, <3>1, <3>2 DEF Range
  <2> QED
    BY <2>1, <2>2
<1>6. Range(p \o q) \subseteq Range(p) \cup Range(q)
  <2> SUFFICES ASSUME NEW i \in 1 .. Len(p) + Len(q)
               PROVE  (p \o q)[i] \in Range(p) \cup Range(q)
    BY <1>1 DEF Range
  <2>1. CASE i <= Len(p)
    BY <2>1, <1>1, <1>2
  <2>2. CASE i > Len(p)
    BY <2>2, <1>1, <1>3
  <2> QED
    BY <1>1, <2>1, <2>2
<1> QED
  BY <1>4, <1>5, <1>6

-----------------------------------------------------------------------------
(* How the steps of the chains move commands.                              *)

LEMMA QueueType ==
    ASSUME TypeOK, NEW h \in Server
    PROVE  /\ wire[h] \in Seq(Task) /\ inbox[h] \in Seq(Task)
           /\ Range(wire[h]) \subseteq Task /\ Range(inbox[h]) \subseteq Task
BY DEF TypeOK, Range

\* A task that is not yet waiting for a command, or whose reply was just taken
\* from the inbox, issues one.
LEMMA RunQueues ==
    ASSUME TypeOK, OneCommandEach, NEW t \in Task, NEW rec,
           rec.pc \notin {"idle", "hung"}, Run(t, rec),
           t \notin Range(wire[Srv(t)]), t \notin Range(inbox'[Srv(t)]),
           \A h \in Server : /\ IsInjective(inbox'[h])
                             /\ Range(inbox'[h]) \subseteq Range(inbox[h])
    PROVE  /\ OneCommandEach'
           /\ \A h \in Server : Range(wire'[h]) =
                 IF h = Srv(t) THEN Range(wire[h]) \cup {t} ELSE Range(wire[h])
<1>1. Srv(t) \in Server
  BY SrvType
<1>2. /\ wire'[Srv(t)] = Append(wire[Srv(t)], t)
      /\ \A h \in Server : h # Srv(t) => wire'[h] = wire[h]
      /\ \A u \in Task : task'[u] = IF u = t THEN rec ELSE task[u]
  BY <1>1 DEF Run, TypeOK
<1>3. /\ Range(wire'[Srv(t)]) = Range(wire[Srv(t)]) \cup {t}
      /\ IsInjective(wire'[Srv(t)])
  BY <1>1, <1>2, QueueType, AppendRange, AppendInjective DEF OneCommandEach
<1>4. \A h \in Server : Range(wire'[h]) =
                 IF h = Srv(t) THEN Range(wire[h]) \cup {t} ELSE Range(wire[h])
  BY <1>2, <1>3
<1>5. ASSUME NEW h \in Server
      PROVE  /\ IsInjective(wire'[h])
             /\ Range(wire'[h]) \cap Range(inbox'[h]) = {}
             /\ \A u \in Range(wire'[h]) \cup Range(inbox'[h]) :
                   Srv(u) = h /\ task'[u].pc \notin {"idle", "hung"}
  <2>1. IsInjective(wire'[h])
    BY <1>2, <1>3 DEF OneCommandEach
  <2>2. Range(wire'[h]) \cap Range(inbox'[h]) = {}
    <3>1. Range(wire[h]) \cap Range(inbox'[h]) = {}
      BY DEF OneCommandEach
    <3>2. CASE h = Srv(t)
      BY <3>1, <3>2, <1>3
    <3>3. CASE h # Srv(t)
      BY <3>1, <3>3, <1>2
    <3> QED
      BY <3>2, <3>3
  <2>3. ASSUME NEW u \in Range(wire'[h]) \cup Range(inbox'[h])
        PROVE  Srv(u) = h /\ task'[u].pc \notin {"idle", "hung"}
    <3>1. CASE u = t
      <4>1. h = Srv(t)
        BY <3>1, <2>3, <1>4 DEF OneCommandEach
      <4> QED
        BY <3>1, <4>1, <1>2
    <3>2. CASE u # t
      <4>1. u \in Range(wire[h]) \cup Range(inbox[h])
        BY <3>2, <2>3, <1>4
      <4>2. u \in Task /\ Srv(u) = h /\ task[u].pc \notin {"idle", "hung"}
        BY <4>1, QueueType DEF OneCommandEach, Busy
      <4> QED
        BY <4>2, <3>2, <1>2
    <3> QED
      BY <3>1, <3>2
  <2> QED
    BY <2>1, <2>2, <2>3
<1> QED
  BY <1>4, <1>5 DEF OneCommandEach, Busy, Srv

\* A callback takes its reply from the inbox.
LEMMA CalledQueues ==
    ASSUME TypeOK, OneCommandEach, NEW t \in Task, NEW pc, Called(t, pc)
    PROVE  /\ t \in Range(inbox[Srv(t)]) /\ t \notin Range(wire[Srv(t)])
           /\ Busy(t)
           /\ \A h \in Server :
                 /\ IsInjective(inbox'[h])
                 /\ Range(inbox'[h]) =
                       IF h = Srv(t) THEN Range(inbox[h]) \ {t} ELSE Range(inbox[h])
<1>1. Srv(t) \in Server
  BY SrvType
<1>2. /\ inbox[Srv(t)] # <<>> /\ Head(inbox[Srv(t)]) = t
      /\ inbox'[Srv(t)] = Tail(inbox[Srv(t)])
      /\ \A h \in Server : h # Srv(t) => inbox'[h] = inbox[h]
  BY <1>1 DEF Called, TypeOK
<1>3. inbox[Srv(t)] \in Seq(Task) /\ IsInjective(inbox[Srv(t)])
  BY <1>1, QueueType DEF OneCommandEach
<1>4. /\ t \in Range(inbox[Srv(t)]) /\ IsInjective(inbox'[Srv(t)])
      /\ Range(inbox'[Srv(t)]) = Range(inbox[Srv(t)]) \ {t}
  BY <1>2, <1>3, TailQueue
<1>5. t \notin Range(wire[Srv(t)]) /\ Busy(t)
  BY <1>1, <1>4 DEF OneCommandEach
<1> QED
  BY <1>1, <1>2, <1>4, <1>5 DEF OneCommandEach

\* A chain that ends waits for nothing.
LEMMA EndQueues ==
    ASSUME TypeOK, OneCommandEach, NEW t \in Task, NEW pc, Called(t, pc),
           UNCHANGED wire, NEW rec, task' = [task EXCEPT ![t] = rec]
    PROVE  OneCommandEach'
<1>1. \A u \in Task : u # t => task'[u] = task[u]
  BY DEF TypeOK
<1>2. ASSUME NEW h \in Server,
             NEW u \in Range(wire[h]) \cup Range(inbox'[h])
      PROVE  Srv(u) = h /\ task'[u].pc \notin {"idle", "hung"}
  <2>2. u \in Range(wire[h]) \cup Range(inbox[h])
    BY <1>2, CalledQueues
  <2>1. u # t
    <3>1. Srv(u) = h
      BY <2>2 DEF OneCommandEach
    <3>2. t \notin Range(wire[Srv(t)]) /\ t \notin Range(inbox'[Srv(t)])
      BY CalledQueues, SrvType
    <3> QED
      BY <1>2, <3>1, <3>2
  <2>3. u \in Task /\ Srv(u) = h /\ task[u].pc \notin {"idle", "hung"}
    BY <2>2, QueueType DEF OneCommandEach, Busy
  <2> QED
    BY <1>1, <2>1, <2>3
<1>3. ASSUME NEW h \in Server
      PROVE  /\ IsInjective(wire[h]) /\ IsInjective(inbox'[h])
             /\ Range(wire[h]) \cap Range(inbox'[h]) = {}
  BY CalledQueues DEF OneCommandEach
<1> QED
  BY <1>2, <1>3 DEF OneCommandEach, Busy, Srv

\* Redis runs a command: it moves from the wire to the inbox.
LEMMA AnswerQueues ==
    ASSUME TypeOK, OneCommandEach, NEW h \in Server, wire[h] # <<>>, NEW rec,
           rec.pc = task[Head(wire[h])].pc, Answer(h, rec)
    PROVE  /\ OneCommandEach'
           /\ Head(wire[h]) \in Task /\ Srv(Head(wire[h])) = h
           /\ Busy(Head(wire[h])) /\ Head(wire[h]) \in Range(wire[h])
           /\ \A u \in Task : task'[u] = IF u = Head(wire[h]) THEN rec ELSE task[u]
           /\ \A g \in Server :
                 /\ Range(wire'[g]) =
                       IF g = h THEN Range(wire[g]) \ {Head(wire[h])} ELSE Range(wire[g])
                 /\ Range(inbox'[g]) =
                       IF g = h THEN Range(inbox[g]) \cup {Head(wire[h])} ELSE Range(inbox[g])
<1> DEFINE t == Head(wire[h])
<1>1. /\ wire[h] \in Seq(Task) /\ inbox[h] \in Seq(Task)
      /\ IsInjective(wire[h]) /\ IsInjective(inbox[h])
      /\ Range(wire[h]) \cap Range(inbox[h]) = {}
  BY QueueType DEF OneCommandEach
<1>2. /\ t \in Task /\ t \in Range(wire[h])
      /\ Range(Tail(wire[h])) = Range(wire[h]) \ {t} /\ IsInjective(Tail(wire[h]))
  BY <1>1, TailQueue
<1>3. Srv(t) = h /\ Busy(t) /\ t \notin Range(inbox[h])
  BY <1>1, <1>2 DEF OneCommandEach
<1>4. /\ Range(Append(inbox[h], t)) = Range(inbox[h]) \cup {t}
      /\ IsInjective(Append(inbox[h], t))
  BY <1>1, <1>2, <1>3, AppendRange, AppendInjective
<1>5. /\ wire'[h] = Tail(wire[h]) /\ inbox'[h] = Append(inbox[h], t)
      /\ \A g \in Server : g # h => wire'[g] = wire[g] /\ inbox'[g] = inbox[g]
      /\ \A u \in Task : task'[u] = IF u = t THEN rec ELSE task[u]
  BY <1>2 DEF Answer, TypeOK
<1> HIDE DEF t
<1>6. \A g \in Server :
         /\ Range(wire'[g]) = IF g = h THEN Range(wire[g]) \ {t} ELSE Range(wire[g])
         /\ Range(inbox'[g]) = IF g = h THEN Range(inbox[g]) \cup {t} ELSE Range(inbox[g])
  BY <1>2, <1>4, <1>5
<1>7. ASSUME NEW g \in Server
      PROVE  /\ IsInjective(wire'[g]) /\ IsInjective(inbox'[g])
             /\ Range(wire'[g]) \cap Range(inbox'[g]) = {}
  BY <1>2, <1>4, <1>5, <1>6 DEF OneCommandEach
<1>8. ASSUME NEW g \in Server, NEW u \in Range(wire'[g]) \cup Range(inbox'[g])
      PROVE  Srv(u) = g /\ task'[u].pc \notin {"idle", "hung"}
  <2>1. u \in Range(wire[g]) \cup Range(inbox[g])
    BY <1>2, <1>6, <1>8
  <2>2. u \in Task /\ Srv(u) = g /\ task[u].pc \notin {"idle", "hung"}
    BY <2>1, QueueType DEF OneCommandEach, Busy
  <2>3. rec.pc = task[t].pc
    BY DEF t
  <2> QED
    BY <2>2, <2>3, <1>5
<1>9. OneCommandEach'
  BY <1>7, <1>8 DEF OneCommandEach, Busy, Srv
<1> QED
  BY <1>2, <1>3, <1>5, <1>6, <1>9 DEF t

-----------------------------------------------------------------------------
(* The parts of the invariant that only some steps touch.                  *)

LEMMA FreshKept ==
    ASSUME TypeOK, FreshIds, UNCHANGED maxId,
           (rooms' \cup closed') \ Pattern = (rooms \cup closed) \ Pattern,
           \A u \in Task : HoldsId(u)' => HoldsId(u) /\ task'[u].id = task[u].id
    PROVE  FreshIds'
<1>1. \A u \in Task : task[u].id \notin Pattern
  BY PatternAssumption DEF TypeOK, TaskRecord
<1>2. ASSUME NEW u \in Task, HoldsId(u)'
      PROVE  task'[u].id <= maxId' /\ task'[u].id \notin rooms' \cup closed'
  BY <1>1, <1>2 DEF FreshIds
<1>3. ASSUME NEW u \in Task, NEW v \in Task, HoldsId(u)', HoldsId(v)',
             task'[u].id = task'[v].id
      PROVE  u = v
  BY <1>3 DEF FreshIds
<1>4. \A n \in (rooms' \cup closed') \ Pattern : n <= maxId'
  BY DEF FreshIds
<1> QED
  BY <1>2, <1>3, <1>4 DEF FreshIds

LEMMA FoundKept ==
    ASSUME FoundExisted, rooms \cup closed \subseteq rooms' \cup closed',
           \A u \in Task : FoundRoom(u)' =>
              \/ FoundRoom(u) /\ task'[u].room = task[u].room
              \/ Existed(task[u].room)'
    PROVE  FoundExisted'
BY DEF FoundExisted, Existed

\* The state w of a websocket after the event.
Past(event, w) == IF event = "error" THEN w \in {"closing", "closed"} ELSE w = "closed"

LEMMA CleanUpPast ==
    CleanUpOnce <=> \A s \in Socket, event \in {"close", "error"} :
                       Busy(<<s, event>>) => Past(event, ws[s])
BY DEF CleanUpOnce, Past

LEMMA CleanUpKept ==
    ASSUME CleanUpOnce,
           \A s \in Socket, event \in {"close", "error"} :
              Busy(<<s, event>>)' =>
                 \/ Busy(<<s, event>>) /\ (Past(event, ws[s]) => Past(event, ws'[s]))
                 \/ Past(event, ws'[s])
    PROVE  CleanUpOnce'
<1>1. \A s \in Socket, event \in {"close", "error"} :
         Busy(<<s, event>>)' => Past(event, ws'[s])
  BY CleanUpPast
<1> QED
  BY <1>1 DEF CleanUpOnce, Past

LEMMA EventTask ==
    ASSUME NEW s \in Socket, NEW event \in {"close", "error"}
    PROVE  <<s, event>> \in Task
BY DEF Task

\* A websocket's state w becomes v: it does not come back from a close.
WsOn(w, v) == \A event \in {"close", "error"} : Past(event, w) => Past(event, v)

\* Nothing happens to the chains.
LEMMA QuietInv ==
    ASSUME TypeOK, RegistryInv, UNCHANGED <<redisVars, task, wire, inbox>>,
           \A s \in Socket : WsOn(ws[s], ws'[s])
    PROVE  RegistryInv'
<1>1. OneCommandEach'
  BY DEF RegistryInv, OneCommandEach, Busy, Srv
<1>2. CleanUpOnce'
  BY CleanUpKept DEF RegistryInv, Busy, WsOn
<1>3. FreshIds'
  BY FreshKept DEF RegistryInv, HoldsId, redisVars, Srv
<1>4. FoundExisted'
  BY FoundKept DEF RegistryInv, FoundRoom, redisVars
<1> QED
  BY <1>1, <1>2, <1>3, <1>4 DEF RegistryInv

\* A chain starts. Only the chains that disconnect starts have no request slot.
LEMMA StartInv ==
    ASSUME TypeOK, RegistryInv, NEW t \in Task, ~Busy(t), NEW rec, Run(t, rec),
           rec.pc \in {"incr", "keys", "members"}, rec.list = {},
           rec.pc = "members" => rec.kind # "in",
           UNCHANGED <<redisVars, inbox>>,
           \A s \in Socket : WsOn(ws[s], ws'[s]),
           t[2] \in {"close", "error"} => Past(t[2], ws'[t[1]])
    PROVE  RegistryInv'
<1>1. \A u \in Task : task'[u] = IF u = t THEN rec ELSE task[u]
  BY DEF Run, TypeOK
<1>2. \A h \in Server : t \notin Range(wire[h]) /\ t \notin Range(inbox[h])
  BY DEF RegistryInv, OneCommandEach
<1>3. /\ OneCommandEach'
      /\ \A h \in Server : Range(wire'[h]) =
            IF h = Srv(t) THEN Range(wire[h]) \cup {t} ELSE Range(wire[h])
  <2>1. Srv(t) \in Server
    BY SrvType
  <2>2. \A h \in Server : IsInjective(inbox'[h]) /\ Range(inbox'[h]) \subseteq Range(inbox[h])
    BY DEF RegistryInv, OneCommandEach
  <2> QED
    BY <1>2, <2>1, <2>2, RunQueues DEF RegistryInv
<1>4. CleanUpOnce'
  <2>1. ASSUME NEW s \in Socket, NEW event \in {"close", "error"}, Busy(<<s, event>>)'
        PROVE  Busy(<<s, event>>) \/ Past(event, ws'[s])
    <3>1. CASE <<s, event>> = t
      BY <3>1
    <3>2. CASE <<s, event>> # t
      BY <2>1, <3>2, <1>1, EventTask DEF Busy
    <3> QED
      BY <3>1, <3>2
  <2> QED
    BY <2>1, CleanUpKept DEF RegistryInv, WsOn
<1>5. FreshIds'
  <2>1. ASSUME NEW u \in Task, HoldsId(u)'
        PROVE  HoldsId(u) /\ task'[u].id = task[u].id
    <3>1. u # t
      BY <2>1, <1>1, <1>2, SrvType DEF HoldsId, Srv
    <3> QED
      BY <2>1, <3>1, <1>1, <1>3, SrvType DEF HoldsId, Srv
  <2> QED
    BY <2>1, FreshKept DEF RegistryInv, redisVars
<1>6. FoundExisted'
  <2>1. ASSUME NEW u \in Task, FoundRoom(u)'
        PROVE  FoundRoom(u) /\ task'[u].room = task[u].room
    BY <2>1, <1>1 DEF FoundRoom
  <2> QED
    BY <2>1, FoundKept DEF RegistryInv, redisVars
<1> QED
  BY <1>3, <1>4, <1>5, <1>6 DEF RegistryInv

\* A callback issues the next command of its chain.
LEMMA ContinueInv ==
    ASSUME TypeOK, RegistryInv, NEW t \in Task, NEW pc, Called(t, pc),
           NEW rec, Run(t, rec),
           rec.pc \notin {"idle", "hung", "incr"},
           rec.pc = "hmset" => pc = "incr" /\ task[t].ok /\ rec.id = task[t].id,
           rec.pc # "hget" => rec.room = task[t].room,
           rec.pc \in {"exec", "sadd", "keys"} => FoundRoom(t),
           rec.pc = "members" /\ rec.kind = "in" => FoundRoom(t)
    PROVE  RegistryInv'
<1>1. \A u \in Task : task'[u] = IF u = t THEN rec ELSE task[u]
  BY DEF Run, TypeOK
<1>2. /\ task[t].pc = pc /\ UNCHANGED <<maxId, rooms, closed, ws>>
  BY DEF Called, redisVars
<1>3. /\ t \in Range(inbox[Srv(t)]) /\ t \notin Range(wire[Srv(t)]) /\ Busy(t)
      /\ \A h \in Server :
            /\ IsInjective(inbox'[h])
            /\ Range(inbox'[h]) =
                  IF h = Srv(t) THEN Range(inbox[h]) \ {t} ELSE Range(inbox[h])
  BY CalledQueues DEF RegistryInv
<1>4. /\ OneCommandEach'
      /\ \A h \in Server : Range(wire'[h]) =
            IF h = Srv(t) THEN Range(wire[h]) \cup {t} ELSE Range(wire[h])
  <2>1. Srv(t) \in Server
    BY SrvType
  <2>2. t \notin Range(inbox'[Srv(t)])
    BY <1>3, <2>1
  <2>3. \A h \in Server : IsInjective(inbox'[h]) /\ Range(inbox'[h]) \subseteq Range(inbox[h])
    BY <1>3
  <2> QED
    BY <1>3, <2>2, <2>3, RunQueues DEF RegistryInv
<1>5. CleanUpOnce'
  <2>1. ASSUME NEW s \in Socket, NEW event \in {"close", "error"}, Busy(<<s, event>>)'
        PROVE  Busy(<<s, event>>)
    <3>1. CASE <<s, event>> = t
      BY <3>1, <1>3
    <3>2. CASE <<s, event>> # t
      BY <2>1, <3>2, <1>1, EventTask DEF Busy
    <3> QED
      BY <3>1, <3>2
  <2> QED
    BY <2>1, <1>2, CleanUpKept DEF RegistryInv
<1>6. FreshIds'
  <2>1. ASSUME NEW u \in Task, HoldsId(u)'
        PROVE  HoldsId(u) /\ task'[u].id = task[u].id
    <3>1. CASE u = t
      <4>1. task'[t].pc = "hmset"
        BY <2>1, <3>1, <1>1 DEF HoldsId
      <4> QED
        BY <3>1, <4>1, <1>1, <1>2, <1>3 DEF HoldsId
    <3>2. CASE u # t
      BY <2>1, <3>2, <1>1, <1>3, <1>4, SrvType DEF HoldsId, Srv
    <3> QED
      BY <3>1, <3>2
  <2> QED
    BY <2>1, <1>2, FreshKept DEF RegistryInv
<1>7. FoundExisted'
  <2>1. ASSUME NEW u \in Task, FoundRoom(u)'
        PROVE  FoundRoom(u) /\ task'[u].room = task[u].room
    <3>1. CASE u = t
      <4>1. task'[u] = rec
        BY <3>1, <1>1
      <4>2. \/ rec.pc \in {"exec", "sadd", "keys"}
            \/ rec.pc = "members" /\ rec.kind = "in"
        BY <2>1, <4>1 DEF FoundRoom
      <4> QED
        BY <3>1, <4>1, <4>2
    <3>2. CASE u # t
      BY <2>1, <3>2, <1>1 DEF FoundRoom
    <3> QED
      BY <3>1, <3>2
  <2> QED
    BY <2>1, <1>2, FoundKept DEF RegistryInv
<1> QED
  BY <1>4, <1>5, <1>6, <1>7 DEF RegistryInv

\* A callback ends its chain.
LEMMA EndInv ==
    ASSUME TypeOK, RegistryInv, NEW t \in Task, NEW pc, Called(t, pc),
           UNCHANGED wire, NEW rec, task' = [task EXCEPT ![t] = rec],
           rec.pc \in {"idle", "hung"}
    PROVE  RegistryInv'
<1>1. \A u \in Task : task'[u] = IF u = t THEN rec ELSE task[u]
  BY DEF TypeOK
<1>2. UNCHANGED <<maxId, rooms, closed, ws>>
  BY DEF Called, redisVars
<1>3. OneCommandEach'
  BY EndQueues DEF RegistryInv
<1>4. CleanUpOnce'
  <2>1. ASSUME NEW s \in Socket, NEW event \in {"close", "error"}, Busy(<<s, event>>)'
        PROVE  Busy(<<s, event>>)
    BY <2>1, <1>1, EventTask DEF Busy
  <2> QED
    BY <2>1, <1>2, CleanUpKept DEF RegistryInv
<1>5. FreshIds'
  <2>0. \A h \in Server : Range(inbox'[h]) \subseteq Range(inbox[h])
    BY CalledQueues DEF RegistryInv
  <2>1. ASSUME NEW u \in Task, HoldsId(u)'
        PROVE  HoldsId(u) /\ task'[u].id = task[u].id
    BY <2>0, <2>1, <1>1, SrvType DEF HoldsId, Srv
  <2> QED
    BY <2>1, <1>2, FreshKept DEF RegistryInv
<1>6. FoundExisted'
  <2>1. ASSUME NEW u \in Task, FoundRoom(u)'
        PROVE  FoundRoom(u) /\ task'[u].room = task[u].room
    BY <2>1, <1>1 DEF FoundRoom
  <2> QED
    BY <2>1, <1>2, FoundKept DEF RegistryInv
<1> QED
  BY <1>3, <1>4, <1>5, <1>6 DEF RegistryInv

-----------------------------------------------------------------------------
(* Redis runs a command.                                                   *)

\* Whatever the command, its chain still waits, for the callback now.
LEMMA AnswerCleanUp ==
    ASSUME TypeOK, RegistryInv, NEW h \in Server, wire[h] # <<>>, NEW rec,
           rec.pc = task[Head(wire[h])].pc, Answer(h, rec)
    PROVE  CleanUpOnce'
<1>1. ASSUME NEW s \in Socket, NEW event \in {"close", "error"}, Busy(<<s, event>>)'
      PROVE  Busy(<<s, event>>)
  BY <1>1, AnswerQueues, EventTask DEF RegistryInv, Busy
<1>2. UNCHANGED ws
  BY DEF Answer, sockVars
<1> QED
  BY <1>1, <1>2, CleanUpKept DEF RegistryInv

\* Commands that neither give out nor use up an id.
LEMMA AnswerInv ==
    ASSUME TypeOK, RegistryInv, NEW h \in Server, wire[h] # <<>>, NEW rec,
           rec.pc = task[Head(wire[h])].pc, rec.pc \notin {"incr", "hmset"},
           rec.room = task[Head(wire[h])].room, rec.kind = task[Head(wire[h])].kind,
           rec.pc = "keys" /\ rec.kind \in {"close", "in"} /\ rec.list # {} =>
              Existed(rec.room),
           Answer(h, rec), UNCHANGED maxId,
           rooms \cup closed \subseteq rooms' \cup closed',
           (rooms' \cup closed') \ Pattern = (rooms \cup closed) \ Pattern
    PROVE  RegistryInv'
<1> DEFINE t == Head(wire[h])
<1>1. /\ OneCommandEach' /\ t \in Task /\ Srv(t) = h
      /\ \A u \in Task : task'[u] = IF u = t THEN rec ELSE task[u]
      /\ \A g \in Server :
            /\ Range(wire'[g]) = IF g = h THEN Range(wire[g]) \ {t} ELSE Range(wire[g])
            /\ Range(inbox'[g]) = IF g = h THEN Range(inbox[g]) \cup {t} ELSE Range(inbox[g])
  BY AnswerQueues DEF RegistryInv
<1>2. rec.pc = task[t].pc /\ rec.room = task[t].room /\ rec.kind = task[t].kind
  OBVIOUS
<1>3. CleanUpOnce'
  BY AnswerCleanUp
<1> HIDE DEF t
<1>4. FreshIds'
  <2>1. ASSUME NEW u \in Task, HoldsId(u)'
        PROVE  HoldsId(u) /\ task'[u].id = task[u].id
    <3>1. u # t
      BY <2>1, <1>1 DEF HoldsId
    <3> QED
      BY <2>1, <3>1, <1>1, SrvType DEF HoldsId, Srv
  <2> QED
    BY <2>1, FreshKept DEF RegistryInv
<1>5. FoundExisted'
  <2>1. ASSUME NEW u \in Task, FoundRoom(u)'
        PROVE  \/ FoundRoom(u) /\ task'[u].room = task[u].room
               \/ Existed(task[u].room)'
    <3>1. CASE u = t
      <4>1. task'[u] = rec
        BY <3>1, <1>1
      <4>2. Existed(rec.room) => Existed(task[u].room)'
        BY <4>1 DEF Existed
      <4> QED
        BY <2>1, <3>1, <4>1, <4>2, <1>2 DEF FoundRoom
    <3>2. CASE u # t
      BY <2>1, <3>2, <1>1 DEF FoundRoom
    <3> QED
      BY <3>1, <3>2
  <2> QED
    BY <2>1, FoundKept DEF RegistryInv
<1> QED
  BY <1>1, <1>3, <1>4, <1>5 DEF RegistryInv

\* INCR gives out an id above all others.
LEMMA IncrInv ==
    ASSUME TypeOK, RegistryInv, NEW h \in Server, ExecIncr(h)
    PROVE  RegistryInv'
<1> DEFINE t == Head(wire[h])
           rec == [task[t] EXCEPT !.id = maxId + 1]
<1>0. /\ t \in Task /\ task[t] \in TaskRecord /\ task[t].pc = "incr"
      /\ wire[h] # <<>> /\ Answer(h, rec) /\ maxId' = maxId + 1
      /\ UNCHANGED <<rooms, closed>>
  BY HeadType DEF ExecIncr, Executes
<1>1. rec.pc = "incr" /\ rec.id = maxId + 1
  BY <1>0 DEF TaskRecord
<1>2. /\ maxId \in Nat /\ maxId + 1 \notin Pattern
      /\ \A n \in (rooms \cup closed) \ Pattern : n \in Nat
  <2>1. maxId \in Nat /\ rooms \subseteq Nat /\ closed \subseteq Name
    BY DEF TypeOK
  <2>2. maxId + 1 \in Nat
    BY <2>1
  <2> HIDE DEF t, rec
  <2>3. maxId + 1 \notin Pattern
    BY <2>2, PatternAssumption
  <2>4. \A n \in (rooms \cup closed) \ Pattern : n \in Nat
    BY <2>1 DEF Name
  <2> QED
    BY <2>1, <2>3, <2>4
<1>3. \A u \in Task : task[u].id \in Nat
  BY DEF TypeOK, TaskRecord
<1> HIDE DEF rec
<1>4. /\ OneCommandEach' /\ Srv(t) = h
      /\ \A u \in Task : task'[u] = IF u = t THEN rec ELSE task[u]
      /\ \A g \in Server :
            /\ Range(wire'[g]) = IF g = h THEN Range(wire[g]) \ {t} ELSE Range(wire[g])
            /\ Range(inbox'[g]) = IF g = h THEN Range(inbox[g]) \cup {t} ELSE Range(inbox[g])
  BY <1>0, <1>1, AnswerQueues DEF RegistryInv
<1>5. CleanUpOnce'
  BY <1>0, <1>1, AnswerCleanUp
<1> HIDE DEF t
<1>6. ASSUME NEW u \in Task, u # t, HoldsId(u)'
      PROVE  HoldsId(u) /\ task'[u].id = task[u].id
  BY <1>4, <1>6, SrvType DEF HoldsId, Srv
<1>7. FreshIds'
  <2>1. \A n \in (rooms' \cup closed') \ Pattern : n <= maxId'
    BY <1>0, <1>2 DEF RegistryInv, FreshIds
  <2>2. ASSUME NEW u \in Task, HoldsId(u)'
        PROVE  task'[u].id <= maxId' /\ task'[u].id \notin rooms' \cup closed'
    <3>1. CASE u = t
      <4>1. task'[u].id = maxId + 1
        BY <3>1, <1>1, <1>4
      <4>2. maxId + 1 \notin rooms \cup closed
        BY <1>2 DEF RegistryInv, FreshIds
      <4> QED
        BY <4>1, <4>2, <1>0, <1>2
    <3>2. CASE u # t
      BY <2>2, <3>2, <1>0, <1>2, <1>3, <1>6 DEF RegistryInv, FreshIds
    <3> QED
      BY <3>1, <3>2
  <2>3. ASSUME NEW u \in Task, NEW v \in Task, HoldsId(u)', HoldsId(v)',
               task'[u].id = task'[v].id
        PROVE  u = v
    <3>1. CASE u # t /\ v # t
      BY <2>3, <3>1, <1>6 DEF RegistryInv, FreshIds
    <3>2. ASSUME NEW w \in Task, w # t, HoldsId(w)' PROVE task'[w].id # task'[t].id
      <4>1. task'[w].id <= maxId /\ task'[w].id \in Nat
        BY <3>2, <1>3, <1>6 DEF RegistryInv, FreshIds
      <4>2. task'[t].id = maxId + 1
        BY <1>0, <1>1, <1>4
      <4> QED
        BY <4>1, <4>2, <1>2
    <3> QED
      BY <2>3, <3>1, <3>2
  <2> QED
    BY <2>1, <2>2, <2>3 DEF FreshIds
<1>8. FoundExisted'
  <2>1. ASSUME NEW u \in Task, FoundRoom(u)'
        PROVE  FoundRoom(u) /\ task'[u].room = task[u].room
    BY <2>1, <1>0, <1>1, <1>4 DEF FoundRoom
  <2> QED
    BY <2>1, <1>0, FoundKept DEF RegistryInv
<1> QED
  BY <1>4, <1>5, <1>7, <1>8 DEF RegistryInv

\* HMSET uses up the id that its task alone holds.
LEMMA HmsetInv ==
    ASSUME TypeOK, RegistryInv, NEW h \in Server, ExecHmset(h)
    PROVE  /\ RegistryInv'
           /\ task[Head(wire[h])].id \notin rooms \cup closed
<1> DEFINE t == Head(wire[h])
<1>0. /\ t \in Task /\ task[t].pc = "hmset" /\ wire[h] # <<>>
      /\ Answer(h, task[t]) /\ rooms' = rooms \cup {task[t].id}
      /\ UNCHANGED <<maxId, closed>>
  BY HeadType DEF ExecHmset, Executes
<1>4. /\ OneCommandEach' /\ Srv(t) = h /\ t \in Range(wire[h])
      /\ \A u \in Task : task'[u] = task[u]
      /\ \A g \in Server :
            /\ Range(wire'[g]) = IF g = h THEN Range(wire[g]) \ {t} ELSE Range(wire[g])
            /\ Range(inbox'[g]) = IF g = h THEN Range(inbox[g]) \cup {t} ELSE Range(inbox[g])
  BY <1>0, AnswerQueues DEF RegistryInv
<1>5. CleanUpOnce'
  BY <1>0, AnswerCleanUp
<1>6. HoldsId(t)
  BY <1>0, <1>4 DEF HoldsId
<1>7. task[t].id \notin rooms \cup closed /\ task[t].id <= maxId
  BY <1>0, <1>6 DEF RegistryInv, FreshIds
<1> HIDE DEF t
<1>8. ASSUME NEW u \in Task, HoldsId(u)'
      PROVE  HoldsId(u) /\ task'[u].id = task[u].id /\ u # t
  BY <1>0, <1>4, <1>8, SrvType DEF HoldsId, Srv
<1>9. FreshIds'
  <2>1. \A n \in (rooms' \cup closed') \ Pattern : n <= maxId'
    BY <1>0, <1>7 DEF RegistryInv, FreshIds
  <2>2. ASSUME NEW u \in Task, HoldsId(u)'
        PROVE  task'[u].id <= maxId' /\ task'[u].id \notin rooms' \cup closed'
    <3>1. HoldsId(u) /\ task'[u].id = task[u].id /\ task[u].id # task[t].id
      BY <2>2, <1>0, <1>6, <1>8 DEF RegistryInv, FreshIds
    <3> QED
      BY <3>1, <1>0 DEF RegistryInv, FreshIds
  <2>3. ASSUME NEW u \in Task, NEW v \in Task, HoldsId(u)', HoldsId(v)',
               task'[u].id = task'[v].id
        PROVE  u = v
    BY <2>3, <1>8 DEF RegistryInv, FreshIds
  <2> QED
    BY <2>1, <2>2, <2>3 DEF FreshIds
<1>10. FoundExisted'
  <2>1. ASSUME NEW u \in Task, FoundRoom(u)'
        PROVE  FoundRoom(u) /\ task'[u].room = task[u].room
    BY <2>1, <1>4 DEF FoundRoom
  <2> QED
    BY <2>1, <1>0, FoundKept DEF RegistryInv
<1> QED
  BY <1>4, <1>5, <1>7, <1>9, <1>10 DEF RegistryInv, t

\* Who closes a room, or enters it, found it.
LEMMA FoundByHead ==
    ASSUME TypeOK, RegistryInv, NEW h \in Server, Executes(h, "exec") \/ Executes(h, "sadd")
    PROVE  Existed(task[Head(wire[h])].room)
<1>1. Head(wire[h]) \in Task /\ FoundRoom(Head(wire[h]))
  BY HeadType DEF FoundRoom
<1> QED
  BY <1>1 DEF RegistryInv, FoundExisted

\* Closing a name that is not a number closes no room.
LEMMA CloseOpened ==
    ASSUME TypeOK, NEW n, Existed(n), rooms' = rooms \ {n}, closed' = closed \cup {n}
    PROVE  /\ rooms \cup closed \subseteq rooms' \cup closed'
           /\ (rooms' \cup closed') \ Pattern = (rooms \cup closed) \ Pattern
<1>1. n \notin Pattern => n \in rooms \cup closed
  BY DEF Existed, Matched
<1> QED
  BY <1>1

LEMMA ExecInv ==
    ASSUME TypeOK, RegistryInv, NEW h \in Server, Exec(h)
    PROVE  RegistryInv'
<1> DEFINE t == Head(wire[h])
<1>1. CASE ExecIncr(h)
  BY <1>1, IncrInv
<1>2. CASE ExecHmset(h)
  BY <1>2, HmsetInv
<1>3. CASE ExecKeys(h)
  <2> DEFINE list == {n \in rooms : task[t].kind = "list" \/ n \in Matched(task[t].room)}
             rec == [task[t] EXCEPT !.list = list]
  <2>1. task[t] \in TaskRecord /\ task[t].pc = "keys" /\ wire[h] # <<>>
    BY <1>3, HeadType DEF ExecKeys, Executes
  <2>2. /\ rec.pc = task[t].pc /\ rec.room = task[t].room /\ rec.kind = task[t].kind
        /\ rec.list = list
    BY <2>1 DEF TaskRecord
  <2>3. rec.kind \in {"close", "in"} /\ rec.list # {} => Existed(rec.room)
    BY <2>2 DEF Existed
  <2>4. Answer(h, rec) /\ UNCHANGED <<maxId, rooms, closed>>
    BY <1>3 DEF ExecKeys, redisVars
  <2> HIDE DEF rec
  <2> QED
    BY <2>1, <2>2, <2>3, <2>4, AnswerInv
<1>4. CASE ExecSmembers(h) \/ ExecClose(h)
  <2> DEFINE rec == [task[t] EXCEPT !.users = Members(task[t].room)]
  <2>1. /\ task[t] \in TaskRecord /\ task[t].pc \in {"members", "exec"}
        /\ wire[h] # <<>>
    BY <1>4, HeadType DEF ExecSmembers, ExecClose, Executes
  <2>2. rec.pc = task[t].pc /\ rec.room = task[t].room /\ rec.kind = task[t].kind
    BY <2>1 DEF TaskRecord
  <2>4. Answer(h, rec) /\ UNCHANGED maxId
    BY <1>4 DEF ExecSmembers, ExecClose, redisVars
  <2>5. /\ rooms \cup closed \subseteq rooms' \cup closed'
        /\ (rooms' \cup closed') \ Pattern = (rooms \cup closed) \ Pattern
    BY <1>4, FoundByHead, CloseOpened DEF ExecSmembers, ExecClose, redisVars
  <2> HIDE DEF rec
  <2> QED
    BY <2>1, <2>2, <2>4, <2>5, AnswerInv
<1>5. CASE ExecSadd(h) \/ ExecSrem(h)
  <2>1. task[t].pc \in {"sadd", "srem"} /\ wire[h] # <<>>
    BY <1>5 DEF ExecSadd, ExecSrem, Executes
  <2>2. Answer(h, task[t]) /\ UNCHANGED <<maxId, rooms, closed>>
    BY <1>5 DEF ExecSadd, ExecSrem
  <2> QED
    BY <2>1, <2>2, AnswerInv
<1>6. CASE ExecHget(h)
  <2> DEFINE rec == [task[t] EXCEPT !.ok = (task[t].room \in rooms)]
  <2>1. task[t] \in TaskRecord /\ task[t].pc = "hget" /\ wire[h] # <<>>
    BY <1>6, HeadType DEF ExecHget, Executes
  <2>2. rec.pc = task[t].pc /\ rec.room = task[t].room /\ rec.kind = task[t].kind
    BY <2>1 DEF TaskRecord
  <2>4. Answer(h, rec) /\ UNCHANGED <<maxId, rooms, closed>>
    BY <1>6 DEF ExecHget, redisVars
  <2> HIDE DEF rec
  <2> QED
    BY <2>1, <2>2, <2>4, AnswerInv
<1> QED
  BY <1>1, <1>2, <1>3, <1>4, <1>5, <1>6 DEF Exec

-----------------------------------------------------------------------------
(* Callbacks.                                                              *)

LEMMA DoneHangInv ==
    ASSUME TypeOK, RegistryInv, NEW t \in Task, NEW pc, Called(t, pc),
           Done(t) \/ Hang(t)
    PROVE  RegistryInv'
<1>1. CASE Done(t)
  <2>1. NoTask.pc = "idle"
    BY DEF NoTask, NewTask
  <2> QED
    BY <1>1, <2>1, EndInv DEF Done
<1>2. CASE Hang(t)
  <2> DEFINE rec == NewTask(task[t].kind, "hung", 0, task[t].user)
  <2>1. rec.pc = "hung"
    BY DEF NewTask
  <2>2. task' = [task EXCEPT ![t] = rec] /\ UNCHANGED wire
    BY <1>2 DEF Hang
  <2> HIDE DEF rec
  <2> QED
    BY <2>1, <2>2, EndInv
<1> QED
  BY <1>1, <1>2

LEMMA StepInv ==
    ASSUME TypeOK, RegistryInv, NEW t \in Task, NEW pc, Called(t, pc),
           NEW next \in {"hmset", "exec", "members", "sadd", "srem"}, Step(t, next),
           next = "hmset" => pc = "incr" /\ task[t].ok,
           next \in {"exec", "sadd"} => FoundRoom(t),
           next = "members" /\ task[t].kind = "in" => FoundRoom(t)
    PROVE  RegistryInv'
<1> DEFINE rec == [task[t] EXCEPT !.pc = next, !.ok = TRUE]
<1>1. task[t] \in TaskRecord
  BY DEF TypeOK
<1>2. /\ rec.pc = next /\ rec.room = task[t].room /\ rec.kind = task[t].kind
      /\ rec.id = task[t].id
  BY <1>1 DEF TaskRecord
<1>3. Run(t, rec)
  BY DEF Step
<1> HIDE DEF rec
<1> QED
  BY <1>2, <1>3, ContinueInv

LEMMA ReadRoomsInv ==
    ASSUME TypeOK, RegistryInv, NEW t \in Task, NEW pc, Called(t, pc),
           NEW rest, ReadRooms(t, rest)
    PROVE  RegistryInv'
<1>1. CASE Done(t)
  BY <1>1, DoneHangInv
<1>2. ASSUME NEW n \in rest,
             Run(t, [NewTask("list", "hget", n, task[t].user) EXCEPT !.list = rest \ {n}])
      PROVE  RegistryInv'
  <2> DEFINE rec == [NewTask("list", "hget", n, task[t].user) EXCEPT !.list = rest \ {n}]
  <2>1. rec.pc = "hget"
    BY DEF NewTask
  <2>2. Run(t, rec)
    BY <1>2
  <2> HIDE DEF rec
  <2> QED
    BY <2>1, <2>2, ContinueInv
<1> QED
  BY <1>1, <1>2 DEF ReadRooms

LEMMA HandleReplyInv ==
    ASSUME TypeOK, RegistryInv, NEW t \in Task, HandleReply(t)
    PROVE  RegistryInv'
<1>1. CASE ReplyIncr(t)
  BY <1>1, DoneHangInv, StepInv DEF ReplyIncr
<1>2. CASE ReplyHmset(t) \/ ReplySadd(t) \/ ReplySrem(t) \/ ReplyExec(t)
  <2>1. Done(t) /\ \E pc \in Pc : Called(t, pc)
    BY <1>2 DEF ReplyHmset, ReplySadd, ReplySrem, ReplyExec, Pc
  <2> QED
    BY <2>1, DoneHangInv
<1>3. CASE ReplyKeysOne(t)
  <2>1. Called(t, "keys") /\ task[t].pc = "keys" /\ task[t].kind \in {"close", "in"}
    BY <1>3 DEF ReplyKeysOne, Called
  <2>2. CASE Done(t) \/ Hang(t)
    BY <2>1, <2>2, DoneHangInv
  <2>3. CASE task[t].list # {} /\ (Step(t, "exec") \/ Step(t, "members"))
    <3>1. FoundRoom(t)
      BY <2>1, <2>3 DEF FoundRoom
    <3> QED
      BY <2>1, <2>3, <3>1, StepInv
  <2> QED
    BY <1>3, <2>2, <2>3 DEF ReplyKeysOne
<1>4. CASE ReplyKeysMsg(t)
  BY <1>4, DoneHangInv, StepInv DEF ReplyKeysMsg
<1>5. CASE ReplyKeysList(t)
  BY <1>5, DoneHangInv, ReadRoomsInv DEF ReplyKeysList
<1>6. CASE ReplyHget(t)
  BY <1>6, DoneHangInv, ReadRoomsInv DEF ReplyHget
<1>7. CASE ReplySmembers(t)
  <2>1. Called(t, "members") /\ task[t].pc = "members"
    BY <1>7 DEF ReplySmembers, Called
  <2>2. CASE Done(t) \/ Hang(t)
    BY <2>1, <2>2, DoneHangInv
  <2>3. CASE task[t].kind = "in" /\ Step(t, "sadd")
    <3>1. FoundRoom(t)
      BY <2>1, <2>3 DEF FoundRoom
    <3> QED
      BY <2>1, <2>3, <3>1, StepInv
  <2>4. CASE Step(t, "srem")
    BY <2>1, <2>4, StepInv
  <2> QED
    BY <1>7, <2>2, <2>3, <2>4 DEF ReplySmembers
<1> QED
  BY <1>1, <1>2, <1>3, <1>4, <1>5, <1>6, <1>7 DEF HandleReply

-----------------------------------------------------------------------------
(* Requests, connections and failures.                                     *)

LEMMA BeginInv ==
    ASSUME TypeOK, RegistryInv, NEW t \in Task, NEW kind,
           NEW pc \in {"incr", "keys", "members"}, NEW n, Begin(t, kind, pc, n),
           pc = "members" => kind # "in"
    PROVE  RegistryInv'
<1> DEFINE rec == NewTask(kind, pc, n, entry[t[1]])
<1>1. rec.pc = pc /\ rec.kind = kind /\ rec.list = {}
  BY DEF NewTask
<1>2. /\ Run(t, rec) /\ ~Busy(t) /\ t[2] \in Slot
      /\ UNCHANGED <<redisVars, ws, inbox>>
  BY DEF Begin, Arrives, sockVars
<1>3. t[2] \notin {"close", "error"}
  BY <1>2, SlotAssumption
<1>4. \A s \in Socket : WsOn(ws[s], ws'[s])
  BY <1>2 DEF WsOn
<1> HIDE DEF rec
<1> QED
  BY <1>1, <1>2, <1>3, <1>4, StartInv

\* A request without req_data starts no chain.
LEMMA ThrowsInv ==
    ASSUME TypeOK, RegistryInv, NEW t \in Task, NEW kind, Throws(t, kind)
    PROVE  RegistryInv'
<1> DEFINE rec == [NewTask(kind, "hung", 0, entry[t[1]]) EXCEPT !.data = FALSE]
<1>1. rec.pc = "hung"
  BY DEF NewTask
<1>2. /\ task' = [task EXCEPT ![t] = rec] /\ ~Busy(t)
      /\ UNCHANGED <<maxId, rooms, members, closed, ws, inbox, wire>>
  BY DEF Throws, Arrives, sockVars, redisVars
<1> HIDE DEF rec
<1>3. \A u \in Task : task'[u] = IF u = t THEN rec ELSE task[u]
  BY <1>2 DEF TypeOK
<1>4. OneCommandEach'
  <2>1. ASSUME NEW h \in Server, NEW u \in Range(wire[h]) \cup Range(inbox[h])
        PROVE  Srv(u) = h /\ task'[u].pc \notin {"idle", "hung"}
    <3>1. u \in Task /\ Srv(u) = h /\ Busy(u)
      BY <2>1, QueueType DEF RegistryInv, OneCommandEach
    <3> QED
      BY <3>1, <1>2, <1>3 DEF Busy
  <2> QED
    BY <1>2, <2>1 DEF RegistryInv, OneCommandEach, Busy, Srv
<1>5. CleanUpOnce'
  <2>1. ASSUME NEW s \in Socket, NEW event \in {"close", "error"}, Busy(<<s, event>>)'
        PROVE  Busy(<<s, event>>)
    BY <2>1, <1>1, <1>3, EventTask DEF Busy
  <2> QED
    BY <2>1, <1>2, CleanUpKept DEF RegistryInv
<1>6. FreshIds'
  <2>1. ASSUME NEW u \in Task, HoldsId(u)'
        PROVE  HoldsId(u) /\ task'[u].id = task[u].id
    BY <2>1, <1>1, <1>2, <1>3 DEF HoldsId, Srv
  <2> QED
    BY <2>1, <1>2, FreshKept DEF RegistryInv
<1>7. FoundExisted'
  <2>1. ASSUME NEW u \in Task, FoundRoom(u)'
        PROVE  FoundRoom(u) /\ task'[u].room = task[u].room
    BY <2>1, <1>1, <1>3 DEF FoundRoom
  <2> QED
    BY <2>1, <1>2, FoundKept DEF RegistryInv
<1> QED
  BY <1>4, <1>5, <1>6, <1>7 DEF RegistryInv

LEMMA RequestInv ==
    ASSUME TypeOK, RegistryInv, NEW t \in Task, Request(t)
    PROVE  RegistryInv'
<1>1. CASE RoomCreate(t)
  BY <1>1, BeginInv DEF RoomCreate
<1>2. CASE RoomList(t)
  BY <1>2, BeginInv DEF RoomList
<1>3. CASE BroadcastMsg(t)
  BY <1>3, BeginInv, ThrowsInv DEF BroadcastMsg
<1>4. ASSUME NEW n \in AskedRoom \cup {NoRoom},
             RoomClose(t, n) \/ RoomIn(t, n) \/ RoomOut(t, n)
      PROVE  RegistryInv'
  BY <1>4, BeginInv, ThrowsInv DEF RoomClose, RoomIn, RoomOut, Ask
<1> QED
  BY <1>1, <1>2, <1>3, <1>4 DEF Request

\* The event is over when disconnect starts its chain, so it does not start it twice.
LEMMA DisconnectInv ==
    ASSUME TypeOK, RegistryInv, NEW s \in Socket, NEW event \in {"close", "error"},
           Disconnect(s, event), UNCHANGED <<redisVars, inbox>>,
           ~Past(event, ws[s]), Past(event, ws'[s]),
           \A r \in Socket : WsOn(ws[r], ws'[r])
    PROVE  RegistryInv'
<1>1. CASE entry[s] # NoUser /\ ctxRoom[s] # NoRoom
  <2> DEFINE t == <<s, event>>
             rec == NewTask("leave", "members", ctxRoom[s], entry[s])
  <2>1. t \in Task /\ t[1] = s /\ t[2] = event
    BY EventTask
  <2>2. ~Busy(t)
    BY CleanUpPast DEF RegistryInv
  <2>3. Run(t, rec)
    BY <1>1 DEF Disconnect
  <2>4. rec.pc = "members" /\ rec.kind = "leave" /\ rec.list = {}
    BY DEF NewTask
  <2> HIDE DEF t, rec
  <2> QED
    BY <2>1, <2>2, <2>3, <2>4, StartInv
<1>2. CASE ~(entry[s] # NoUser /\ ctxRoom[s] # NoRoom)
  <2>1. UNCHANGED <<task, wire>>
    BY <1>2 DEF Disconnect
  <2> QED
    BY <2>1, QuietInv
<1> QED
  BY <1>1, <1>2

LEMMA LoginInv ==
    ASSUME TypeOK, RegistryInv, NEW s \in Socket, NEW u \in User,
           LoginRequest(s, u) \/ Login(s, u)
    PROVE  RegistryInv'
<1>1. UNCHANGED <<redisVars, ws, task, wire, inbox>>
  BY DEF LoginRequest, Login
<1> QED
  BY <1>1, QuietInv DEF WsOn

LEMMA SocketInv ==
    ASSUME TypeOK, RegistryInv, NEW s \in Socket,
           \/ Connect(s) \/ ServerClose(s) \/ ClientClose(s)
           \/ Expire(s) \/ CloseEvent(s) \/ ErrorEvent(s)
    PROVE  RegistryInv'
<1>1. CASE CloseEvent(s)
  <2>1. ~Past("close", ws[s]) /\ Past("close", ws'[s])
    BY <1>1 DEF CloseEvent, Past, TypeOK
  <2>2. \A r \in Socket : WsOn(ws[r], ws'[r])
    BY <1>1 DEF CloseEvent, Past, WsOn, TypeOK
  <2> QED
    BY <1>1, <2>1, <2>2, DisconnectInv DEF CloseEvent
<1>2. CASE ErrorEvent(s)
  <2>1. ~Past("error", ws[s]) /\ Past("error", ws'[s])
    BY <1>2 DEF ErrorEvent, Past, TypeOK
  <2>2. \A r \in Socket : WsOn(ws[r], ws'[r])
    BY <1>2 DEF ErrorEvent, Past, WsOn, TypeOK
  <2> QED
    BY <1>2, <2>1, <2>2, DisconnectInv DEF ErrorEvent
<1>3. CASE Connect(s) \/ ServerClose(s) \/ ClientClose(s) \/ Expire(s)
  <2>1. UNCHANGED <<redisVars, task, wire, inbox>>
    BY <1>3 DEF Connect, ServerClose, ClientClose, Expire
  <2>2. \A r \in Socket : WsOn(ws[r], ws'[r])
    BY <1>3 DEF Connect, ServerClose, ClientClose, Expire, Past, WsOn, TypeOK
  <2> QED
    BY <2>1, <2>2, QuietInv
<1> QED
  BY <1>1, <1>2, <1>3

\* The lost commands of server h call back, and none of them holds an id.
LEMMA LinkDropInv ==
    ASSUME TypeOK, RegistryInv, NEW h \in Server, LinkDrop(h)
    PROVE  RegistryInv'
<1>1. /\ inbox'[h] = inbox[h] \o wire[h] /\ wire'[h] = <<>>
      /\ \A g \in Server : g # h => wire'[g] = wire[g] /\ inbox'[g] = inbox[g]
      /\ UNCHANGED <<maxId, rooms, closed, ws>>
  BY DEF LinkDrop, TypeOK, redisVars, sockVars
<1>2. ASSUME NEW u \in Task
      PROVE  /\ task'[u].pc = task[u].pc /\ task'[u].room = task[u].room
             /\ task'[u].kind = task[u].kind
             /\ task'[u].list # {} => task'[u].list = task[u].list
             /\ Srv(u) = h /\ Busy(u) => ~task'[u].ok
             /\ ~(Srv(u) = h /\ Busy(u)) => task'[u] = task[u]
  <2> DEFINE rec == [NewTask(task[u].kind, task[u].pc, task[u].room, task[u].user)
                        EXCEPT !.ok = FALSE]
  <2>1. /\ rec.pc = task[u].pc /\ rec.room = task[u].room /\ rec.kind = task[u].kind
        /\ rec.list = {} /\ ~rec.ok
    BY DEF NewTask
  <2>2. task'[u] = IF Srv(u) = h /\ Busy(u) THEN rec ELSE task[u]
    BY DEF LinkDrop
  <2> HIDE DEF rec
  <2> QED
    BY <2>1, <2>2
<1>3. /\ Range(inbox'[h]) = Range(inbox[h]) \cup Range(wire[h])
      /\ IsInjective(inbox'[h])
  <2>1. inbox[h] \in Seq(Task) /\ wire[h] \in Seq(Task)
    BY QueueType
  <2>2. /\ IsInjective(inbox[h]) /\ IsInjective(wire[h])
        /\ Range(inbox[h]) \cap Range(wire[h]) = {}
    BY DEF RegistryInv, OneCommandEach
  <2> QED
    BY <1>1, <2>1, <2>2, ConcatQueue
<1>4. Range(wire'[h]) = {} /\ IsInjective(wire'[h])
  BY <1>1, EmptyQueue
<1>5. OneCommandEach'
  <2>1. ASSUME NEW g \in Server
        PROVE  /\ IsInjective(wire'[g]) /\ IsInjective(inbox'[g])
               /\ Range(wire'[g]) \cap Range(inbox'[g]) = {}
    <3>1. CASE g = h
      BY <3>1, <1>3, <1>4
    <3>2. CASE g # h
      BY <3>2, <1>1 DEF RegistryInv, OneCommandEach
    <3> QED
      BY <3>1, <3>2
  <2>2. ASSUME NEW g \in Server, NEW u \in Range(wire'[g]) \cup Range(inbox'[g])
        PROVE  Srv(u) = g /\ task'[u].pc \notin {"idle", "hung"}
    <3>1. u \in Range(wire[g]) \cup Range(inbox[g])
      BY <2>2, <1>1, <1>3, <1>4
    <3>2. u \in Task /\ Srv(u) = g /\ task[u].pc \notin {"idle", "hung"}
      BY <3>1, QueueType DEF RegistryInv, OneCommandEach, Busy
    <3> QED
      BY <3>2, <1>2
  <2> QED
    BY <2>1, <2>2 DEF OneCommandEach, Busy, Srv
<1>6. CleanUpOnce'
  <2>1. ASSUME NEW s \in Socket, NEW event \in {"close", "error"}, Busy(<<s, event>>)'
        PROVE  Busy(<<s, event>>)
    BY <2>1, <1>2, EventTask DEF Busy
  <2> QED
    BY <2>1, <1>1, CleanUpKept DEF RegistryInv
<1>7. FreshIds'
  <2>1. ASSUME NEW u \in Task, HoldsId(u)'
        PROVE  HoldsId(u) /\ task'[u].id = task[u].id
    <3>0. Srv(u) \in Server
      BY SrvType
    <3>1. CASE Srv(u) = h
      <4>1. u \in Range(inbox'[h]) /\ task'[u].ok
        BY <2>1, <3>1, <1>4 DEF HoldsId, Srv
      <4>2. Busy(u)
        BY <4>1, <1>3 DEF RegistryInv, OneCommandEach
      <4> QED
        BY <3>1, <4>1, <4>2, <1>2
    <3>2. CASE Srv(u) # h
      BY <2>1, <3>0, <3>2, <1>1, <1>2 DEF HoldsId, Srv
    <3> QED
      BY <3>1, <3>2
  <2> QED
    BY <2>1, <1>1, FreshKept DEF RegistryInv
<1>8. FoundExisted'
  <2>1. ASSUME NEW u \in Task, FoundRoom(u)'
        PROVE  FoundRoom(u) /\ task'[u].room = task[u].room
    BY <2>1, <1>2 DEF FoundRoom
  <2> QED
    BY <2>1, <1>1, FoundKept DEF RegistryInv
<1> QED
  BY <1>5, <1>6, <1>7, <1>8 DEF RegistryInv

\* The chains of an ended process are gone with their commands.
LEMMA ExitInv ==
    ASSUME TypeOK, RegistryInv, NEW h \in Server, Exit(h)
    PROVE  RegistryInv'
<1>1. /\ inbox'[h] = <<>> /\ wire'[h] = <<>>
      /\ \A g \in Server : g # h => wire'[g] = wire[g] /\ inbox'[g] = inbox[g]
      /\ UNCHANGED <<maxId, rooms, closed>>
  BY DEF Exit, TypeOK, redisVars
<1>2. /\ \A u \in Task : task'[u] = IF Srv(u) = h THEN NoTask ELSE task[u]
      /\ NoTask.pc = "idle"
  BY DEF Exit, NoTask, NewTask
<1>3. \A s \in Socket : Home[s] # h => ws'[s] = ws[s]
  BY DEF Exit
<1>4. /\ Range(wire'[h]) = {} /\ IsInjective(wire'[h])
      /\ Range(inbox'[h]) = {} /\ IsInjective(inbox'[h])
  BY <1>1, EmptyQueue
<1>5. OneCommandEach'
  <2>1. ASSUME NEW g \in Server
        PROVE  /\ IsInjective(wire'[g]) /\ IsInjective(inbox'[g])
               /\ Range(wire'[g]) \cap Range(inbox'[g]) = {}
    <3>1. CASE g = h
      BY <3>1, <1>4
    <3>2. CASE g # h
      BY <3>2, <1>1 DEF RegistryInv, OneCommandEach
    <3> QED
      BY <3>1, <3>2
  <2>2. ASSUME NEW g \in Server, NEW u \in Range(wire'[g]) \cup Range(inbox'[g])
        PROVE  Srv(u) = g /\ task'[u].pc \notin {"idle", "hung"}
    <3>1. g # h /\ u \in Range(wire[g]) \cup Range(inbox[g])
      BY <2>2, <1>1, <1>4
    <3>2. u \in Task /\ Srv(u) = g /\ task[u].pc \notin {"idle", "hung"}
      BY <3>1, QueueType DEF RegistryInv, OneCommandEach, Busy
    <3> QED
      BY <3>1, <3>2, <1>2
  <2> QED
    BY <2>1, <2>2 DEF OneCommandEach, Busy, Srv
<1>6. CleanUpOnce'
  <2>1. ASSUME NEW s \in Socket, NEW event \in {"close", "error"}, Busy(<<s, event>>)'
        PROVE  Busy(<<s, event>>) /\ ws'[s] = ws[s]
    <3>1. <<s, event>> \in Task /\ Srv(<<s, event>>) = Home[s]
      BY EventTask DEF Srv
    <3> QED
      BY <2>1, <3>1, <1>2, <1>3 DEF Busy
  <2> QED
    BY <2>1, CleanUpKept DEF RegistryInv
<1>7. FreshIds'
  <2>1. ASSUME NEW u \in Task, HoldsId(u)'
        PROVE  HoldsId(u) /\ task'[u].id = task[u].id
    <3>0. Srv(u) \in Server
      BY SrvType
    <3>1. Srv(u) # h
      BY <2>1, <1>4 DEF HoldsId, Srv
    <3> QED
      BY <2>1, <3>0, <3>1, <1>1, <1>2 DEF HoldsId, Srv
  <2> QED
    BY <2>1, <1>1, FreshKept DEF RegistryInv
<1>8. FoundExisted'
  <2>1. ASSUME NEW u \in Task, FoundRoom(u)'
        PROVE  FoundRoom(u) /\ task'[u].room = task[u].room
    BY <2>1, <1>2 DEF FoundRoom
  <2> QED
    BY <2>1, <1>1, FoundKept DEF RegistryInv
<1> QED
  BY <1>5, <1>6, <1>7, <1>8 DEF RegistryInv

-----------------------------------------------------------------------------
(* The theorems.                                                           *)

LEMMA InitInv == Init => RegistryInv
<1> SUFFICES ASSUME Init PROVE RegistryInv
  OBVIOUS
<1>1. \A t \in Task : task[t].pc = "idle"
  BY DEF Init, NoTask, NewTask
<1>2. \A h \in Server : wire[h] = <<>> /\ inbox[h] = <<>>
  BY DEF Init
<1>3. OneCommandEach
  BY <1>2, EmptyQueue DEF OneCommandEach
<1>4. CleanUpOnce
  BY <1>1, EventTask DEF CleanUpOnce, Busy
<1>5. FreshIds
  BY <1>1 DEF Init, FreshIds, HoldsId
<1>6. FoundExisted
  BY <1>1 DEF FoundExisted, FoundRoom
<1> QED
  BY <1>3, <1>4, <1>5, <1>6 DEF RegistryInv

LEMMA NextInv == TypeOK /\ RegistryInv /\ [Next]_vars => RegistryInv'
<1> SUFFICES ASSUME TypeOK, RegistryInv, [Next]_vars PROVE RegistryInv'
  OBVIOUS
<1>1. CASE UNCHANGED vars
  BY <1>1, QuietInv DEF vars, redisVars, WsOn
<1>2. CASE Next
  BY <1>2, NextSteps, LoginInv, SocketInv, RequestInv, HandleReplyInv, ExecInv,
     LinkDropInv, ExitInv
<1> QED
  BY <1>1, <1>2

\* In every reachable state a chain has at most one outstanding command, each event
\* of a connection started at most one clean-up, ids between INCR and HMSET are
\* held by one chain and unused, and whoever is about to enter or to close a room
\* named one that was opened or a pattern that matches one, for any names that
\* clients send, any logins on a socket and any failures.
THEOREM RegistryInvariant == Spec => []RegistryInv
<1>1. Spec => []TypeOK
  BY TypeCorrect
<1> QED
  BY <1>1, InitInv, NextInv, PTL DEF Spec

LEMMA ExistedPasses ==
    ASSUME NEW n, Existed(n)
    PROVE  Registry!Passes(n)
BY DEF Existed, Matched, Registry!Passes, Registry!Opened

\* Every step of the handlers is a step of the registry or leaves it alone.
LEMMA RegistryStep ==
    TypeOK /\ RegistryInv /\ [Next]_vars => [Registry!Next]_(Registry!registry)
<1> SUFFICES ASSUME TypeOK, RegistryInv, [Next]_vars
             PROVE  Registry!Next \/ UNCHANGED <<rooms, closed, members>>
  BY DEF Registry!registry
<1>1. CASE UNCHANGED vars
  BY <1>1 DEF vars
<1>2. ASSUME NEW h \in Server, ExecHmset(h) PROVE Registry!Open
  <2> DEFINE n == task[Head(wire[h])].id
  <2>1. /\ n \notin rooms \cup closed /\ rooms' = rooms \cup {n}
        /\ UNCHANGED <<closed, members>>
    BY <1>2, HmsetInv DEF ExecHmset
  <2> HIDE DEF n
  <2> QED
    BY <2>1 DEF Registry!Open, Registry!Opened
<1>3. ASSUME NEW h \in Server, ExecClose(h) PROVE Registry!Close
  <2> DEFINE n == task[Head(wire[h])].room
  <2>1. Registry!Passes(n)
    BY <1>3, FoundByHead, ExistedPasses DEF ExecClose
  <2>2. /\ rooms' = rooms \ {n} /\ closed' = closed \cup {n}
        /\ members' = {m \in members : m[1] # n}
    BY <1>3 DEF ExecClose
  <2> HIDE DEF n
  <2> QED
    BY <2>1, <2>2 DEF Registry!Close
<1>4. ASSUME NEW h \in Server, ExecSadd(h)
      PROVE  Registry!Join \/ UNCHANGED <<rooms, closed, members>>
  <2> DEFINE n == task[Head(wire[h])].room
             m == <<n, task[Head(wire[h])].user>>
  <2>1. /\ Registry!Passes(n) /\ m[1] = n /\ members' = members \cup {m}
        /\ UNCHANGED <<rooms, closed>>
    BY <1>4, FoundByHead, ExistedPasses DEF ExecSadd
  <2> HIDE DEF n, m
  <2> QED
    BY <2>1 DEF Registry!Join
<1>5. ASSUME NEW h \in Server, ExecSrem(h)
      PROVE  Registry!Leave \/ UNCHANGED <<rooms, closed, members>>
  <2> DEFINE m == <<task[Head(wire[h])].room, task[Head(wire[h])].user>>
  <2>1. members' = members \ {m} /\ UNCHANGED <<rooms, closed>>
    BY <1>5 DEF ExecSrem
  <2> HIDE DEF m
  <2> QED
    BY <2>1 DEF Registry!Leave
<1>6. ASSUME NEW h \in Server,
             \/ ExecIncr(h) \/ ExecKeys(h) \/ ExecSmembers(h) \/ ExecHget(h)
             \/ LinkDrop(h) \/ Exit(h)
      PROVE  UNCHANGED <<rooms, closed, members>>
  BY <1>6 DEF ExecIncr, ExecKeys, ExecSmembers, ExecHget, LinkDrop, Exit, redisVars
<1>7. ASSUME NEW s \in Socket, NEW u \in User,
             \/ LoginRequest(s, u) \/ Login(s, u)
      PROVE  UNCHANGED <<rooms, closed, members>>
  BY <1>7 DEF LoginRequest, Login, redisVars
<1>10. ASSUME NEW s \in Socket,
             \/ Connect(s) \/ ServerClose(s) \/ ClientClose(s)
             \/ Expire(s) \/ CloseEvent(s) \/ ErrorEvent(s)
      PROVE  UNCHANGED <<rooms, closed, members>>
  BY <1>10 DEF Connect, ServerClose, ClientClose, Expire, CloseEvent, ErrorEvent, redisVars
<1>8. ASSUME NEW t \in Task, Request(t) PROVE UNCHANGED <<rooms, closed, members>>
  BY <1>8 DEF Request, RoomCreate, RoomList, BroadcastMsg, RoomClose, RoomIn, RoomOut,
     Ask, Begin, Throws, Arrives, redisVars
<1>9. ASSUME NEW t \in Task, HandleReply(t) PROVE UNCHANGED <<rooms, closed, members>>
  <2>1. \E pc \in Pc : Called(t, pc)
    BY <1>9 DEF HandleReply, ReplyIncr, ReplyHmset, ReplyKeysOne, ReplyKeysMsg,
       ReplyKeysList, ReplyHget, ReplySmembers, ReplySadd, ReplySrem, ReplyExec, Pc
  <2> QED
    BY <2>1 DEF Called, redisVars
<1> QED
  BY <1>1, <1>2, <1>3, <1>4, <1>5, <1>6, <1>7, <1>8, <1>9, <1>10, NextSteps
  DEF Exec, Registry!Next

\* The handlers keep the promises of the room registry: a room id is opened once, a
\* room closes together with its members, a number has members only if it was
\* opened, and another name only if it matches an id that was opened.
THEOREM RoomImplementsRegistry == Spec => ImplementsRegistry
<1>1. Init => Registry!Init
  BY DEF Init, Registry!Init
<1>2. Spec => []TypeOK /\ []RegistryInv
  BY TypeCorrect, RegistryInvariant
<1> QED
  BY <1>1, <1>2, RegistryStep, PTL DEF Spec, ImplementsRegistry, Registry!Spec
=============================================================================
