--------------------------- MODULE SessionProofs ---------------------------
(***************************************************************************)
(* The directory of online users and the displacement of older sessions:   *)
(* proofs about Session for any servers, users, sockets and bounds, lost   *)
(* Redis connections and ended processes included.                         *)
(***************************************************************************)
EXTENDS Session, TLAPS

-----------------------------------------------------------------------------
(* Queues.                                                                 *)

LEMMA TailFacts ==
    ASSUME NEW S, NEW q \in Seq(S), q # <<>>
    PROVE  /\ Tail(q) \in Seq(S) /\ Len(q) \in Nat /\ Len(q) >= 1
           /\ Len(Tail(q)) = Len(q) - 1
           /\ Head(q) = q[1] /\ q[1] \in S
           /\ \A i \in 1 .. Len(q) - 1 : Tail(q)[i] = q[i + 1] /\ i + 1 \in 1 .. Len(q)
OBVIOUS

LEMMA CatFacts ==
    ASSUME NEW S, NEW q \in Seq(S), NEW p \in Seq(S)
    PROVE  /\ q \o p \in Seq(S) /\ Len(q) \in Nat /\ Len(p) \in Nat
           /\ Len(q \o p) = Len(q) + Len(p)
           /\ \A i \in 1 .. Len(q) : (q \o p)[i] = q[i] /\ i \in 1 .. Len(q \o p)
           /\ \A i \in 1 .. Len(p) : /\ (q \o p)[Len(q) + i] = p[i]
                                     /\ Len(q) + i \in 1 .. Len(q \o p)
           /\ \A i \in 1 .. Len(q \o p) :
                 \/ i \in 1 .. Len(q)
                 \/ i - Len(q) \in 1 .. Len(p) /\ (q \o p)[i] = p[i - Len(q)]
OBVIOUS

LEMMA MixedFacts ==
    ASSUME NEW S, NEW T, NEW p \in Seq(S), NEW q \in Seq(T)
    PROVE  /\ p \o q \in Seq(S \cup T) /\ Len(p \o q) \in Nat
           /\ Len(p) \in Nat /\ Len(q) \in Nat /\ Len(p \o q) = Len(p) + Len(q)
           /\ \A i \in 1 .. Len(p) : (p \o q)[i] = p[i] /\ p[i] \in S
           /\ \A i \in 1 .. Len(q) : (p \o q)[Len(p) + i] = q[i] /\ q[i] \in T
<1>1. p \in Seq(S \cup T) /\ q \in Seq(S \cup T)
  OBVIOUS
<1> QED
  BY <1>1, CatFacts

LEMMA Split ==
    ASSUME NEW m \in Nat, NEW n \in Nat, NEW i \in 1 .. m + n
    PROVE  \/ i \in 1 .. m
           \/ i - m \in 1 .. n /\ i = m + (i - m)
OBVIOUS

LEMMA MixedEntries ==
    ASSUME NEW S, NEW T, NEW p \in Seq(S), NEW q \in Seq(T)
    PROVE  /\ \A i \in 1 .. Len(p) : i \in 1 .. Len(p \o q) /\ (p \o q)[i] = p[i]
           /\ \A j \in 1 .. Len(q) : \E i \in 1 .. Len(p \o q) : (p \o q)[i] = q[j]
           /\ \A i \in 1 .. Len(p \o q) :
                 \/ \E j \in 1 .. Len(p) : (p \o q)[i] = p[j]
                 \/ \E j \in 1 .. Len(q) : (p \o q)[i] = q[j]
<1>1. /\ Len(p) \in Nat /\ Len(q) \in Nat /\ Len(p \o q) = Len(p) + Len(q)
      /\ \A i \in 1 .. Len(p) : (p \o q)[i] = p[i]
      /\ \A i \in 1 .. Len(q) : (p \o q)[Len(p) + i] = q[i]
  BY MixedFacts
<1>4. \A i \in 1 .. Len(p) : i \in 1 .. Len(p \o q) /\ (p \o q)[i] = p[i]
  BY <1>1
<1>2. ASSUME NEW j \in 1 .. Len(q) PROVE \E i \in 1 .. Len(p \o q) : (p \o q)[i] = q[j]
  <2>1. Len(p) + j \in 1 .. Len(p \o q)
    BY <1>1
  <2> QED
    BY <1>1, <2>1
<1>3. ASSUME NEW i \in 1 .. Len(p \o q)
      PROVE  \/ \E j \in 1 .. Len(p) : (p \o q)[i] = p[j]
             \/ \E j \in 1 .. Len(q) : (p \o q)[i] = q[j]
  <2>1. \/ i \in 1 .. Len(p)
        \/ i - Len(p) \in 1 .. Len(q) /\ i = Len(p) + (i - Len(p))
    BY <1>1, Split
  <2> QED
    BY <1>1, <2>1
<1> QED
  BY <1>2, <1>3, <1>4

LEMMA AppendFacts ==
    ASSUME NEW S, NEW q \in Seq(S), NEW x \in S
    PROVE  /\ Append(q, x) \in Seq(S) /\ Len(q) \in Nat
           /\ Len(Append(q, x)) = Len(q) + 1
           /\ \A i \in 1 .. Len(q) : Append(q, x)[i] = q[i]
           /\ Append(q, x)[Len(q) + 1] = x
OBVIOUS

LEMMA PrefixFacts ==
    ASSUME NEW S, NEW q \in Seq(S), NEW p \in Prefixes(q)
    PROVE  /\ p \in Seq(S) /\ Len(p) \in 0 .. Len(q)
           /\ \A i \in 1 .. Len(p) : p[i] = q[i] /\ i \in 1 .. Len(q)
BY DEF Prefixes

-----------------------------------------------------------------------------
(* Well-formed queues: which commands and replies there are, that each      *)
(* belongs to a request in the right phase, and that a request never waits  *)
(* for two at once.                                                         *)

Match(h, x) ==
    /\ x.op = "del" <=> x.req = NoReq
    /\ x.req # NoReq =>
          /\ Srv(x.req) = h /\ pc[x.req] # "idle"
          /\ up[h] => IF x.op = "hmset" THEN pc[x.req] = "set"
                                        ELSE pc[x.req] \in {"kick", "sweep"}

GoodCommand(h, c) ==
    /\ Match(h, c)
    /\ c.op = "hmset" => c.keys = {OwnKey(c.req)}
    /\ c.op = "hgetall" => \A k, l \in c.keys : k = l
    /\ c.op = "del" => \A k \in c.keys : Home[k[2]] = h

GoodReply(h, x) ==
    /\ up[h]
    /\ Match(h, x)
    /\ x.op = "hgetall" => \A k, l \in x.list : k = l

Queues ==
    \A h \in Server :
        /\ \A i \in 1 .. Len(wire[h]) : GoodCommand(h, wire[h][i])
        /\ \A i \in 1 .. Len(inbox[h]) : GoodReply(h, inbox[h][i])

Single ==
    \A h \in Server :
        /\ \A i, j \in 1 .. Len(wire[h]) :
              wire[h][i].req = wire[h][j].req /\ wire[h][i].req # NoReq => i = j
        /\ \A i, j \in 1 .. Len(inbox[h]) :
              inbox[h][i].req = inbox[h][j].req /\ inbox[h][i].req # NoReq => i = j
        /\ \A i \in 1 .. Len(wire[h]), j \in 1 .. Len(inbox[h]) :
              wire[h][i].req = inbox[h][j].req => wire[h][i].req = NoReq

Base == TypeOK /\ Queues /\ Single

LEMMA HeadCommand ==
    ASSUME Base, NEW h \in Server, wire[h] # <<>>
    PROVE  /\ wire[h] \in Seq(Command) /\ Len(wire[h]) \in Nat /\ 1 \in 1 .. Len(wire[h])
           /\ Head(wire[h]) = wire[h][1] /\ Head(wire[h]) \in Command
           /\ GoodCommand(h, Head(wire[h]))
           /\ Head(wire[h]).op # "del" => Head(wire[h]).req \in Request
<1>1. wire[h] \in Seq(Command)
  BY DEF Base, TypeOK
<1>2. Head(wire[h]) = wire[h][1] /\ Head(wire[h]) \in Command /\ 1 \in 1 .. Len(wire[h])
      /\ Len(wire[h]) \in Nat
  BY <1>1, TailFacts
<1>3. GoodCommand(h, Head(wire[h]))
  BY <1>2 DEF Base, Queues
<1> QED
  BY <1>1, <1>2, <1>3 DEF GoodCommand, Match, Command

LEMMA HeadReply ==
    ASSUME Base, NEW h \in Server, inbox[h] # <<>>
    PROVE  /\ inbox[h] \in Seq(Reply) /\ Len(inbox[h]) \in Nat /\ 1 \in 1 .. Len(inbox[h])
           /\ Head(inbox[h]) = inbox[h][1] /\ Head(inbox[h]) \in Reply
           /\ GoodReply(h, Head(inbox[h]))
           /\ Head(inbox[h]).op # "del" => Head(inbox[h]).req \in Request
<1>1. inbox[h] \in Seq(Reply)
  BY DEF Base, TypeOK
<1>2. Head(inbox[h]) = inbox[h][1] /\ Head(inbox[h]) \in Reply /\ 1 \in 1 .. Len(inbox[h])
      /\ Len(inbox[h]) \in Nat
  BY <1>1, TailFacts
<1>3. GoodReply(h, Head(inbox[h]))
  BY <1>2 DEF Base, Queues
<1> QED
  BY <1>1, <1>2, <1>3 DEF GoodReply, Match, Reply

\* Where the entries of the queues come from when server h handles the head of its
\* inbox and issues cmds.
Fed(h, cmds) ==
    /\ wire' \in [Server -> Seq(Command)]
    /\ \A g \in Server \ {h} : wire'[g] = wire[g]
    /\ Len(wire[h]) \in Nat /\ Len(cmds) \in Nat
    /\ Len(wire'[h]) = Len(wire[h]) + Len(cmds)
    /\ \A i \in 1 .. Len(wire[h]) : wire'[h][i] = wire[h][i] /\ i \in 1 .. Len(wire'[h])
    /\ \A i \in 1 .. Len(cmds) : /\ wire'[h][Len(wire[h]) + i] = cmds[i]
                                 /\ Len(wire[h]) + i \in 1 .. Len(wire'[h])
    /\ \A i \in 1 .. Len(wire'[h]) :
          \/ i \in 1 .. Len(wire[h])
          \/ i - Len(wire[h]) \in 1 .. Len(cmds) /\ wire'[h][i] = cmds[i - Len(wire[h])]

Eaten(h) ==
    /\ inbox' \in [Server -> Seq(Reply)]
    /\ \A g \in Server \ {h} : inbox'[g] = inbox[g]
    /\ Len(inbox[h]) \in Nat /\ Len(inbox[h]) >= 1
    /\ Len(inbox'[h]) = Len(inbox[h]) - 1
    /\ \A i \in 1 .. Len(inbox'[h]) :
          inbox'[h][i] = inbox[h][i + 1] /\ i + 1 \in 1 .. Len(inbox[h])
    /\ \A i \in 1 .. Len(inbox[h]) :
          \/ i = 1
          \/ i - 1 \in 1 .. Len(inbox'[h]) /\ inbox'[h][i - 1] = inbox[h][i]

LEMMA IssueFed ==
    ASSUME TypeOK, NEW h \in Server, NEW cmds \in Seq(Command), Issue(h, cmds)
    PROVE  Fed(h, cmds)
<1>1. wire[h] \in Seq(Command) /\ wire'[h] = wire[h] \o cmds
  BY DEF TypeOK, Issue
<1>2. wire' \in [Server -> Seq(Command)] /\ \A g \in Server \ {h} : wire'[g] = wire[g]
  BY <1>1, CatFacts DEF TypeOK, Issue
<1> QED
  BY <1>1, <1>2, CatFacts DEF Fed

LEMMA HandledEaten ==
    ASSUME TypeOK, NEW h \in Server, inbox[h] # <<>>, Handled(h)
    PROVE  Eaten(h)
<1>1. inbox[h] \in Seq(Reply) /\ inbox'[h] = Tail(inbox[h])
  BY DEF TypeOK, Handled
<1>2. inbox' \in [Server -> Seq(Reply)] /\ \A g \in Server \ {h} : inbox'[g] = inbox[g]
  BY <1>1, TailFacts DEF TypeOK, Handled
<1>3. /\ Len(inbox[h]) \in Nat /\ Len(inbox[h]) >= 1
      /\ Len(inbox'[h]) = Len(inbox[h]) - 1
      /\ \A i \in 1 .. Len(inbox[h]) - 1 :
            inbox'[h][i] = inbox[h][i + 1] /\ i + 1 \in 1 .. Len(inbox[h])
  BY <1>1, TailFacts
<1>4. ASSUME NEW i \in 1 .. Len(inbox[h]), i # 1
      PROVE  i - 1 \in 1 .. Len(inbox'[h]) /\ inbox'[h][i - 1] = inbox[h][i]
  <2>1. i - 1 \in 1 .. Len(inbox[h]) - 1 /\ (i - 1) + 1 = i
    BY <1>3, <1>4
  <2> QED
    BY <1>3, <2>1
<1> QED
  BY <1>2, <1>3, <1>4 DEF Eaten

\* Commands that server h may issue for request r and for nobody else.
NewFor(h, r, cmds) ==
    /\ cmds \in Seq(Command)
    /\ \A i \in 1 .. Len(cmds) : cmds[i].req \in {r, NoReq}
    /\ \A i, j \in 1 .. Len(cmds) :
          cmds[i].req = cmds[j].req /\ cmds[i].req # NoReq => i = j

LEMMA CommandStays ==
    ASSUME NEW g \in Server, NEW c \in Command, GoodCommand(g, c), up'[g] => up[g],
           c.req # NoReq => pc'[c.req] = pc[c.req]
    PROVE  GoodCommand(g, c)'
BY DEF GoodCommand, Match

LEMMA ReplyStays ==
    ASSUME NEW g \in Server, NEW x \in Reply, GoodReply(g, x), up'[g] = up[g],
           x.req # NoReq => pc'[x.req] = pc[x.req]
    PROVE  GoodReply(g, x)'
BY DEF GoodReply, Match

\* A request's entries are all at its own server.
LEMMA EntryHome ==
    ASSUME Base, NEW g \in Server
    PROVE  /\ \A i \in 1 .. Len(wire[g]) :
                 /\ wire[g][i] \in Command /\ GoodCommand(g, wire[g][i])
                 /\ wire[g][i].req # NoReq => /\ wire[g][i].req \in Request
                                              /\ Srv(wire[g][i].req) = g
           /\ \A i \in 1 .. Len(inbox[g]) :
                 /\ inbox[g][i] \in Reply /\ GoodReply(g, inbox[g][i])
                 /\ inbox[g][i].req # NoReq => /\ inbox[g][i].req \in Request
                                               /\ Srv(inbox[g][i].req) = g
<1>1. wire[g] \in Seq(Command) /\ inbox[g] \in Seq(Reply)
  BY DEF Base, TypeOK
<1>2. /\ \A i \in 1 .. Len(wire[g]) : wire[g][i] \in Command /\ GoodCommand(g, wire[g][i])
      /\ \A i \in 1 .. Len(inbox[g]) : inbox[g][i] \in Reply /\ GoodReply(g, inbox[g][i])
  BY <1>1 DEF Base, Queues
<1> QED
  BY <1>2 DEF GoodCommand, GoodReply, Match, Command, Reply

LEMMA HandleQueues ==
    ASSUME Base, NEW h \in Server, inbox[h] # <<>>, Handled(h),
           NEW cmds, NewFor(h, Head(inbox[h]).req, cmds), Issue(h, cmds), up' = up,
           \A i \in 1 .. Len(cmds) : GoodCommand(h, cmds[i])',
           \A q \in Request : q # Head(inbox[h]).req => pc'[q] = pc[q]
    PROVE  Queues' /\ Single' /\ Fed(h, cmds) /\ Eaten(h)
<1> DEFINE r == Head(inbox[h]).req
<1>1. Fed(h, cmds) /\ Eaten(h)
  BY IssueFed, HandledEaten DEF Base, NewFor
<1>2. r = inbox[h][1].req /\ 1 \in 1 .. Len(inbox[h])
  BY HeadReply
<1>3. r # NoReq => Srv(r) = h
  BY <1>2, EntryHome
<1>4. ASSUME NEW g \in Server, NEW i \in 1 .. Len(wire[g]), wire[g][i].req # NoReq
      PROVE  wire[g][i].req # r
  BY <1>2, <1>3, <1>4, EntryHome DEF Base, Single
<1>5. ASSUME NEW g \in Server, NEW i \in 1 .. Len(inbox[g]), inbox[g][i].req = r, r # NoReq
      PROVE  g = h /\ i = 1
  BY <1>2, <1>3, <1>5, EntryHome DEF Base, Single
<1> HIDE DEF r
<1>6. ASSUME NEW g \in Server, NEW i \in 1 .. Len(wire[g])
      PROVE  \A c : c = wire[g][i] => GoodCommand(g, c)'
  <2>1. wire[g][i] \in Command /\ GoodCommand(g, wire[g][i])
        /\ (wire[g][i].req # NoReq => pc'[wire[g][i].req] = pc[wire[g][i].req])
    BY <1>4, EntryHome DEF r
  <2> QED
    BY <2>1, CommandStays
<1>7. ASSUME NEW g \in Server, NEW i \in 1 .. Len(inbox[g]), g # h \/ i # 1
      PROVE  \A x : x = inbox[g][i] => GoodReply(g, x)'
  <2>1. inbox[g][i] \in Reply /\ GoodReply(g, inbox[g][i])
        /\ (inbox[g][i].req # NoReq => pc'[inbox[g][i].req] = pc[inbox[g][i].req])
    BY <1>5, <1>7, EntryHome DEF r
  <2> QED
    BY <2>1, ReplyStays
<1>8. Queues'
  <2>1. ASSUME NEW g \in Server, NEW i \in 1 .. Len(wire'[g])
        PROVE  GoodCommand(g, wire[g][i])'
    <3>1. CASE g # h
      BY <1>1, <1>6, <3>1 DEF Fed
    <3>2. CASE g = h /\ i \in 1 .. Len(wire[h])
      BY <1>1, <1>6, <3>2 DEF Fed
    <3>3. CASE g = h /\ i \notin 1 .. Len(wire[h])
      BY <1>1, <3>3 DEF Fed
    <3> QED
      BY <3>1, <3>2, <3>3
  <2>2. ASSUME NEW g \in Server, NEW i \in 1 .. Len(inbox'[g])
        PROVE  GoodReply(g, inbox[g][i])'
    <3>1. CASE g # h
      BY <1>1, <1>7, <3>1 DEF Eaten
    <3>2. CASE g = h
      <4>1. inbox'[h][i] = inbox[h][i + 1] /\ i + 1 \in 1 .. Len(inbox[h]) /\ i + 1 # 1
        BY <1>1, <3>2 DEF Eaten
      <4>2. \A x : x = inbox[h][i + 1] => GoodReply(h, x)'
        BY <1>7, <4>1
      <4> QED
        BY <3>2, <4>1, <4>2
    <3> QED
      BY <3>1, <3>2
  <2> QED
    BY <2>1, <2>2 DEF Queues
<1>9. Single'
  <2>1. ASSUME NEW g \in Server \ {h} PROVE
          /\ \A i, j \in 1 .. Len(wire'[g]) :
              wire'[g][i].req = wire'[g][j].req /\ wire'[g][i].req # NoReq => i = j
          /\ \A i, j \in 1 .. Len(inbox'[g]) :
              inbox'[g][i].req = inbox'[g][j].req /\ inbox'[g][i].req # NoReq => i = j
          /\ \A i \in 1 .. Len(wire'[g]), j \in 1 .. Len(inbox'[g]) :
              wire'[g][i].req = inbox'[g][j].req => wire'[g][i].req = NoReq
    <3>1. wire'[g] = wire[g] /\ inbox'[g] = inbox[g]
      BY <1>1 DEF Fed, Eaten
    <3> QED
      BY <3>1 DEF Base, Single
  <2>a. ASSUME NEW i \in 1 .. Len(wire'[h])
        PROVE  \/ i \in 1 .. Len(wire[h]) /\ wire'[h][i] = wire[h][i]
               \/ /\ i - Len(wire[h]) \in 1 .. Len(cmds)
                  /\ wire'[h][i] = cmds[i - Len(wire[h])]
    BY <1>1 DEF Fed
  <2>b. ASSUME NEW i \in 1 .. Len(inbox'[h])
        PROVE  inbox'[h][i] = inbox[h][i + 1] /\ i + 1 \in 1 .. Len(inbox[h]) /\ i + 1 # 1
    BY <1>1 DEF Eaten
  <2>c. \A i \in 1 .. Len(cmds) : cmds[i].req \in {r, NoReq}
    BY DEF NewFor, r
  <2>2. ASSUME NEW i \in 1 .. Len(wire'[h]), NEW j \in 1 .. Len(wire'[h]),
               wire'[h][i].req = wire'[h][j].req, wire'[h][i].req # NoReq
        PROVE  i = j
    <3>1. CASE i \in 1 .. Len(wire[h]) /\ wire'[h][i] = wire[h][i]
      <4>1. wire'[h][i].req # r
        BY <1>4, <2>2, <3>1
      <4>2. j \in 1 .. Len(wire[h]) /\ wire'[h][j] = wire[h][j]
        BY <2>2, <4>1, <2>a, <2>c
      <4> QED
        BY <2>2, <3>1, <4>2 DEF Base, Single
    <3>2. CASE /\ i - Len(wire[h]) \in 1 .. Len(cmds)
               /\ wire'[h][i] = cmds[i - Len(wire[h])]
      <4>1. wire'[h][i].req = r
        BY <2>2, <2>c, <3>2
      <4>2. ~(j \in 1 .. Len(wire[h]) /\ wire'[h][j] = wire[h][j])
        BY <1>4, <2>2, <4>1
      <4>3. j - Len(wire[h]) \in 1 .. Len(cmds) /\ wire'[h][j] = cmds[j - Len(wire[h])]
        BY <2>a, <4>2
      <4>4. i - Len(wire[h]) = j - Len(wire[h])
        BY <2>2, <3>2, <4>3 DEF NewFor
      <4> QED
        BY <1>1, <4>4 DEF Fed
    <3> QED
      BY <2>a, <3>1, <3>2
  <2>3. ASSUME NEW i \in 1 .. Len(inbox'[h]), NEW j \in 1 .. Len(inbox'[h]),
               inbox'[h][i].req = inbox'[h][j].req, inbox'[h][i].req # NoReq
        PROVE  i = j
    <3>1. i + 1 = j + 1
      BY <2>b, <2>3 DEF Base, Single
    <3> QED
      BY <3>1
  <2>4. ASSUME NEW i \in 1 .. Len(wire'[h]), NEW j \in 1 .. Len(inbox'[h]),
               wire'[h][i].req = inbox'[h][j].req, wire'[h][i].req # NoReq
        PROVE  FALSE
    <3>1. inbox'[h][j] = inbox[h][j + 1] /\ j + 1 \in 1 .. Len(inbox[h]) /\ j + 1 # 1
      BY <2>b
    <3>2. inbox'[h][j].req # r
      BY <1>5, <2>4, <3>1
    <3>3. i \in 1 .. Len(wire[h]) /\ wire'[h][i] = wire[h][i]
      BY <2>4, <3>2, <2>a, <2>c
    <3> QED
      BY <2>4, <3>1, <3>3 DEF Base, Single
  <2> QED
    BY <2>1, <2>2, <2>3, <2>4 DEF Single
<1> QED
  BY <1>1, <1>8, <1>9

LEMMA IssueQueues ==
    ASSUME Base, NEW h \in Server, NEW r, r \in Request => pc[r] = "idle",
           NEW cmds, NewFor(h, r, cmds), Issue(h, cmds), up' = up, inbox' = inbox,
           \A i \in 1 .. Len(cmds) : GoodCommand(h, cmds[i])',
           \A q \in Request : q # r => pc'[q] = pc[q]
    PROVE  Queues' /\ Single' /\ Fed(h, cmds)
<1>1. Fed(h, cmds)
  BY IssueFed DEF Base, NewFor
<1>4. ASSUME NEW g \in Server, NEW i \in 1 .. Len(wire[g]), wire[g][i].req # NoReq
      PROVE  wire[g][i].req # r
  BY <1>4, EntryHome DEF GoodCommand, Match
<1>5. ASSUME NEW g \in Server, NEW i \in 1 .. Len(inbox[g]), inbox[g][i].req # NoReq
      PROVE  inbox[g][i].req # r
  BY <1>5, EntryHome DEF GoodReply, Match
<1>6. ASSUME NEW g \in Server, NEW i \in 1 .. Len(wire[g])
      PROVE  \A c : c = wire[g][i] => GoodCommand(g, c)'
  <2>1. wire[g][i] \in Command /\ GoodCommand(g, wire[g][i])
        /\ (wire[g][i].req # NoReq => pc'[wire[g][i].req] = pc[wire[g][i].req])
    BY <1>4, EntryHome
  <2> QED
    BY <2>1, CommandStays
<1>7. ASSUME NEW g \in Server, NEW i \in 1 .. Len(inbox[g])
      PROVE  GoodReply(g, inbox[g][i])'
  <2>1. inbox[g][i] \in Reply /\ GoodReply(g, inbox[g][i])
        /\ (inbox[g][i].req # NoReq => pc'[inbox[g][i].req] = pc[inbox[g][i].req])
    BY <1>5, EntryHome
  <2>2. \A x : x = inbox[g][i] => GoodReply(g, x)'
    BY <2>1, ReplyStays
  <2> QED
    BY <2>2
<1>8. Queues'
  <2>1. ASSUME NEW g \in Server, NEW i \in 1 .. Len(wire'[g])
        PROVE  GoodCommand(g, wire[g][i])'
    <3>1. CASE g # h
      BY <1>1, <1>6, <3>1 DEF Fed
    <3>2. CASE g = h /\ i \in 1 .. Len(wire[h])
      BY <1>1, <1>6, <3>2 DEF Fed
    <3>3. CASE g = h /\ i \notin 1 .. Len(wire[h])
      BY <1>1, <3>3 DEF Fed
    <3> QED
      BY <3>1, <3>2, <3>3
  <2> QED
    BY <2>1, <1>7 DEF Queues
<1>9. Single'
  <2>1. ASSUME NEW g \in Server \ {h} PROVE
           \A i, j \in 1 .. Len(wire'[g]) :
              wire'[g][i].req = wire'[g][j].req /\ wire'[g][i].req # NoReq => i = j
    <3>1. wire'[g] = wire[g]
      BY <1>1 DEF Fed
    <3> QED
      BY <3>1 DEF Base, Single
  <2>a. ASSUME NEW i \in 1 .. Len(wire'[h])
        PROVE  \/ i \in 1 .. Len(wire[h]) /\ wire'[h][i] = wire[h][i]
               \/ /\ i - Len(wire[h]) \in 1 .. Len(cmds)
                  /\ wire'[h][i] = cmds[i - Len(wire[h])]
    BY <1>1 DEF Fed
  <2>c. \A i \in 1 .. Len(cmds) : cmds[i].req \in {r, NoReq}
    BY DEF NewFor
  <2>2. ASSUME NEW i \in 1 .. Len(wire'[h]), NEW j \in 1 .. Len(wire'[h]),
               wire'[h][i].req = wire'[h][j].req, wire'[h][i].req # NoReq
        PROVE  i = j
    <3>1. CASE i \in 1 .. Len(wire[h]) /\ wire'[h][i] = wire[h][i]
      <4>1. wire'[h][i].req # r
        BY <1>4, <2>2, <3>1
      <4>2. j \in 1 .. Len(wire[h]) /\ wire'[h][j] = wire[h][j]
        BY <2>2, <4>1, <2>a, <2>c
      <4> QED
        BY <2>2, <3>1, <4>2 DEF Base, Single
    <3>2. CASE /\ i - Len(wire[h]) \in 1 .. Len(cmds)
               /\ wire'[h][i] = cmds[i - Len(wire[h])]
      <4>1. wire'[h][i].req = r
        BY <2>2, <2>c, <3>2
      <4>2. ~(j \in 1 .. Len(wire[h]) /\ wire'[h][j] = wire[h][j])
        BY <1>4, <2>2, <4>1
      <4>3. j - Len(wire[h]) \in 1 .. Len(cmds) /\ wire'[h][j] = cmds[j - Len(wire[h])]
        BY <2>a, <4>2
      <4>4. i - Len(wire[h]) = j - Len(wire[h])
        BY <2>2, <3>2, <4>3 DEF NewFor
      <4> QED
        BY <1>1, <4>4 DEF Fed
    <3> QED
      BY <2>a, <3>1, <3>2
  <2>4. ASSUME NEW g \in Server, NEW i \in 1 .. Len(wire'[g]), NEW j \in 1 .. Len(inbox[g]),
               wire'[g][i].req = inbox[g][j].req, wire'[g][i].req # NoReq
        PROVE  FALSE
    <3>1. inbox[g][j].req # r
      BY <1>5, <2>4
    <3>2. i \in 1 .. Len(wire[g]) /\ wire'[g][i] = wire[g][i]
      <4>1. CASE g = h
        BY <2>4, <3>1, <2>a, <2>c, <4>1
      <4>2. CASE g # h
        BY <1>1, <4>2 DEF Fed
      <4> QED
        BY <4>1, <4>2
    <3> QED
      BY <2>4, <3>2 DEF Base, Single
  <2>5. \A g \in Server : \A i, j \in 1 .. Len(wire'[g]) :
              wire'[g][i].req = wire'[g][j].req /\ wire'[g][i].req # NoReq => i = j
    BY <2>1, <2>2
  <2>6. \A g \in Server : \A i, j \in 1 .. Len(inbox'[g]) :
              inbox'[g][i].req = inbox'[g][j].req /\ inbox'[g][i].req # NoReq => i = j
    BY DEF Base, Single
  <2> QED
    BY <2>4, <2>5, <2>6 DEF Single
<1> QED
  BY <1>1, <1>8, <1>9

\* Where the entries come from when Redis runs the first command of server h.
Shifted(h) ==
    /\ wire' \in [Server -> Seq(Command)]
    /\ \A g \in Server \ {h} : wire'[g] = wire[g]
    /\ Len(wire[h]) \in Nat /\ Len(wire[h]) >= 1
    /\ Len(wire'[h]) = Len(wire[h]) - 1
    /\ \A i \in 1 .. Len(wire'[h]) :
          wire'[h][i] = wire[h][i + 1] /\ i + 1 \in 1 .. Len(wire[h]) /\ i + 1 # 1
    /\ \A i \in 1 .. Len(wire[h]) :
          \/ i = 1
          \/ i - 1 \in 1 .. Len(wire'[h]) /\ wire'[h][i - 1] = wire[h][i]

Answered(h, x) ==
    /\ inbox' \in [Server -> Seq(Reply)]
    /\ \A g \in Server : g # h \/ ~up[h] => inbox'[g] = inbox[g]
    /\ Len(inbox[h]) \in Nat
    /\ \A i \in 1 .. Len(inbox[h]) : inbox'[h][i] = inbox[h][i] /\ i \in 1 .. Len(inbox'[h])
    /\ up[h] => /\ Len(inbox'[h]) = Len(inbox[h]) + 1
                /\ Len(inbox[h]) + 1 \in 1 .. Len(inbox'[h])
                /\ inbox'[h][Len(inbox[h]) + 1] = x
    /\ \A i \in 1 .. Len(inbox'[h]) :
          \/ i \in 1 .. Len(inbox[h])
          \/ i = Len(inbox[h]) + 1 /\ up[h]

LEMMA ExecutedFacts ==
    ASSUME TypeOK, NEW h \in Server, wire[h] # <<>>, NEW list \in SUBSET Key,
           Executed(h, list)
    PROVE  Shifted(h) /\ Answered(h, Answer(Head(wire[h]), list))
<1>1. wire[h] \in Seq(Command) /\ inbox[h] \in Seq(Reply)
  BY DEF TypeOK
<1>2. Head(wire[h]) \in Command
  BY <1>1, TailFacts
<1> DEFINE x == Answer(Head(wire[h]), list)
<1>3. x \in Reply
  BY <1>2 DEF Answer, Command, Reply
<1> HIDE DEF x
<1>4. wire'[h] = Tail(wire[h]) /\ \A g \in Server \ {h} : wire'[g] = wire[g]
  BY DEF TypeOK, Executed
<1>5. wire' \in [Server -> Seq(Command)]
  BY <1>1, TailFacts DEF TypeOK, Executed
<1>6. /\ Len(wire[h]) \in Nat /\ Len(wire[h]) >= 1
      /\ Len(wire'[h]) = Len(wire[h]) - 1
      /\ \A i \in 1 .. Len(wire[h]) - 1 :
            wire'[h][i] = wire[h][i + 1] /\ i + 1 \in 1 .. Len(wire[h])
  BY <1>1, <1>4, TailFacts
<1>7. ASSUME NEW i \in 1 .. Len(wire[h]), i # 1
      PROVE  i - 1 \in 1 .. Len(wire'[h]) /\ wire'[h][i - 1] = wire[h][i]
  <2>1. i - 1 \in 1 .. Len(wire[h]) - 1 /\ (i - 1) + 1 = i
    BY <1>6, <1>7
  <2> QED
    BY <1>6, <2>1
<1>8. Shifted(h)
  BY <1>4, <1>5, <1>6, <1>7 DEF Shifted
<1>9. CASE up[h]
  <2>1. inbox' = [inbox EXCEPT ![h] = Append(inbox[h], x)]
    BY <1>9 DEF Executed, x
  <2>2. inbox'[h] = Append(inbox[h], x) /\ \A g \in Server \ {h} : inbox'[g] = inbox[g]
    BY <2>1 DEF TypeOK
  <2>3. inbox' \in [Server -> Seq(Reply)]
    BY <1>1, <1>3, <2>1, AppendFacts DEF TypeOK
  <2>a. /\ Len(inbox[h]) \in Nat /\ Len(inbox'[h]) = Len(inbox[h]) + 1
        /\ \A i \in 1 .. Len(inbox[h]) : inbox'[h][i] = inbox[h][i]
        /\ inbox'[h][Len(inbox[h]) + 1] = x
    BY <1>1, <1>3, <2>2, AppendFacts
  <2>4. Answered(h, x)
    BY <1>9, <2>a, <2>2, <2>3 DEF Answered
  <2> QED
    BY <1>8, <2>4 DEF x
<1>10. CASE ~up[h]
  <2>1. inbox' = inbox
    BY <1>10 DEF Executed
  <2>a. Len(inbox[h]) \in Nat /\ inbox \in [Server -> Seq(Reply)]
    BY <1>1 DEF TypeOK
  <2>2. Answered(h, x)
    BY <2>a, <1>10, <2>1 DEF Answered
  <2> QED
    BY <1>8, <2>2 DEF x
<1> QED
  BY <1>9, <1>10

LEMMA ExecQueues ==
    ASSUME Base, NEW h \in Server, wire[h] # <<>>, NEW list \in SUBSET Key,
           Head(wire[h]).op = "hgetall" => \A k, l \in list : k = l,
           Executed(h, list), up' = up, pc' = pc
    PROVE  /\ Queues' /\ Single' /\ Shifted(h)
           /\ Answered(h, Answer(Head(wire[h]), list))
<1> DEFINE x == Answer(Head(wire[h]), list)
<1>1. Shifted(h) /\ Answered(h, x)
  BY ExecutedFacts DEF Base
<1>2. /\ x.req = wire[h][1].req /\ x.op = wire[h][1].op /\ x.list = list
      /\ GoodCommand(h, wire[h][1]) /\ 1 \in 1 .. Len(wire[h])
      /\ wire[h][1].op = Head(wire[h]).op
  BY HeadCommand DEF Answer
<1> HIDE DEF x
<1>3. \A z : z = x => (up[h] => GoodReply(h, z)')
  BY <1>2 DEF GoodReply, GoodCommand, Match
<1>4. \A g \in Server : \A i \in 1 .. Len(wire[g]) : \A c : c = wire[g][i] => GoodCommand(g, c)'
  BY EntryHome, CommandStays
<1>5. \A g \in Server : \A i \in 1 .. Len(inbox[g]) : \A z : z = inbox[g][i] => GoodReply(g, z)'
  BY EntryHome, ReplyStays
<1>a. ASSUME NEW g \in Server, NEW i \in 1 .. Len(wire'[g])
      PROVE  \E j \in 1 .. Len(wire[g]) :
                /\ wire'[g][i] = wire[g][j]
                /\ j = IF g = h THEN i + 1 ELSE i
  BY <1>1 DEF Shifted
<1>b. ASSUME NEW g \in Server, NEW i \in 1 .. Len(inbox'[g])
      PROVE  \/ i \in 1 .. Len(inbox[g]) /\ inbox'[g][i] = inbox[g][i]
             \/ g = h /\ up[h] /\ i = Len(inbox[h]) + 1 /\ inbox'[g][i] = x
  <2>1. CASE g # h
    BY <1>1, <2>1 DEF Answered
  <2>2. CASE g = h
    BY <1>1, <2>2 DEF Answered
  <2> QED
    BY <2>1, <2>2
<1>6. Queues'
  <2>1. ASSUME NEW g \in Server, NEW i \in 1 .. Len(wire'[g])
        PROVE  GoodCommand(g, wire[g][i])'
    BY <1>4, <1>a
  <2>2. ASSUME NEW g \in Server, NEW i \in 1 .. Len(inbox'[g])
        PROVE  GoodReply(g, inbox[g][i])'
    BY <1>3, <1>5, <1>b
  <2> QED
    BY <2>1, <2>2 DEF Queues
<1>7. Single'
  <2>1. ASSUME NEW g \in Server, NEW i \in 1 .. Len(wire'[g]), NEW j \in 1 .. Len(wire'[g]),
               wire'[g][i].req = wire'[g][j].req, wire'[g][i].req # NoReq
        PROVE  i = j
    <3>1. PICK i0 \in 1 .. Len(wire[g]) :
            wire'[g][i] = wire[g][i0] /\ i0 = IF g = h THEN i + 1 ELSE i
      BY <1>a
    <3>2. PICK j0 \in 1 .. Len(wire[g]) :
            wire'[g][j] = wire[g][j0] /\ j0 = IF g = h THEN j + 1 ELSE j
      BY <1>a
    <3>3. i0 = j0
      BY <2>1, <3>1, <3>2 DEF Base, Single
    <3> QED
      BY <3>1, <3>2, <3>3
  <2>2. ASSUME NEW i \in 1 .. Len(wire'[h]), wire'[h][i].req # NoReq
        PROVE  wire'[h][i].req # x.req
    <3>1. PICK i0 \in 1 .. Len(wire[h]) : wire'[h][i] = wire[h][i0] /\ i0 = i + 1
      BY <1>a
    <3>2. i0 # 1
      BY <3>1
    <3> QED
      BY <1>2, <2>2, <3>1, <3>2 DEF Base, Single
  <2>3. ASSUME NEW i \in 1 .. Len(inbox[h]), inbox[h][i].req # NoReq
        PROVE  inbox[h][i].req # x.req
    BY <1>2, <2>3 DEF Base, Single
  <2>4. ASSUME NEW g \in Server, NEW i \in 1 .. Len(inbox'[g]), NEW j \in 1 .. Len(inbox'[g]),
               inbox'[g][i].req = inbox'[g][j].req, inbox'[g][i].req # NoReq
        PROVE  i = j
    <3>1. CASE /\ i \in 1 .. Len(inbox[g]) /\ inbox'[g][i] = inbox[g][i]
               /\ j \in 1 .. Len(inbox[g]) /\ inbox'[g][j] = inbox[g][j]
      BY <2>4, <3>1 DEF Base, Single
    <3> QED
      BY <1>b, <2>3, <2>4, <3>1
  <2>5. ASSUME NEW g \in Server, NEW i \in 1 .. Len(wire'[g]), NEW j \in 1 .. Len(inbox'[g]),
               wire'[g][i].req = inbox'[g][j].req, wire'[g][i].req # NoReq
        PROVE  FALSE
    <3>1. j \in 1 .. Len(inbox[g]) /\ inbox'[g][j] = inbox[g][j]
      BY <1>b, <2>2, <2>5
    <3>2. PICK i0 \in 1 .. Len(wire[g]) : wire'[g][i] = wire[g][i0]
      BY <1>a
    <3> QED
      BY <2>5, <3>1, <3>2 DEF Base, Single
  <2> QED
    BY <2>1, <2>4, <2>5 DEF Single
<1> QED
  BY <1>1, <1>6, <1>7 DEF x

\* A DEL of several keys that has run for some of them.
Shrunk(h, k) ==
    /\ wire' \in [Server -> Seq(Command)]
    /\ \A g \in Server \ {h} : wire'[g] = wire[g]
    /\ Len(wire'[h]) = Len(wire[h])
    /\ \A i \in 1 .. Len(wire[h]) :
          IF i = 1 THEN wire'[h][i] = [wire[h][i] EXCEPT !.keys = @ \ {k}]
                   ELSE wire'[h][i] = wire[h][i]

LEMMA DelQueues ==
    ASSUME Base, NEW h \in Server, wire[h] # <<>>, Head(wire[h]).op = "del", NEW k,
           wire' = [wire EXCEPT ![h][1].keys = @ \ {k}],
           inbox' = inbox, up' = up, pc' = pc
    PROVE  Queues' /\ Single' /\ Shrunk(h, k)
<1>1. /\ wire[h] \in Seq(Command) /\ wire[h][1] \in Command /\ Len(wire[h]) \in Nat
      /\ 1 \in 1 .. Len(wire[h]) /\ GoodCommand(h, wire[h][1]) /\ wire[h][1].op = "del"
  BY HeadCommand
<1> DEFINE c == [wire[h][1] EXCEPT !.keys = @ \ {k}]
<1>2. /\ c \in Command /\ c.op = "del" /\ c.req = wire[h][1].req
      /\ c.keys \subseteq wire[h][1].keys
  BY <1>1 DEF Command
<1>3. wire' = [wire EXCEPT ![h] = [wire[h] EXCEPT ![1] = c]]
  OBVIOUS
<1> HIDE DEF c
<1>4. [wire[h] EXCEPT ![1] = c] \in Seq(Command) /\ Len([wire[h] EXCEPT ![1] = c]) = Len(wire[h])
  BY <1>1, <1>2
<1>5. wire' \in [Server -> Seq(Command)] /\ wire'[h] = [wire[h] EXCEPT ![1] = c]
      /\ \A g \in Server \ {h} : wire'[g] = wire[g]
  BY <1>3, <1>4 DEF Base, TypeOK
<1>6. \A i \in 1 .. Len(wire[h]) : IF i = 1 THEN wire'[h][i] = c ELSE wire'[h][i] = wire[h][i]
  BY <1>1, <1>5
<1>7. Shrunk(h, k)
  BY <1>4, <1>5, <1>6 DEF Shrunk, c
<1>8. \A g \in Server : \A i \in 1 .. Len(wire[g]) : \A z : z = wire[g][i] => GoodCommand(g, z)'
  BY EntryHome, CommandStays
<1>9. \A g \in Server : \A i \in 1 .. Len(inbox[g]) : \A z : z = inbox[g][i] => GoodReply(g, z)'
  BY EntryHome, ReplyStays
<1>10. \A z : z = c => GoodCommand(h, z)'
  BY <1>1, <1>2 DEF GoodCommand, Match
<1>11. \A g \in Server : /\ Len(wire'[g]) = Len(wire[g])
                         /\ \A i \in 1 .. Len(wire[g]) :
                              \/ wire'[g][i] = wire[g][i]
                              \/ g = h /\ wire'[g][i] = c
  BY <1>4, <1>5, <1>6
<1>12. Queues'
  BY <1>8, <1>9, <1>10, <1>11 DEF Queues
<1>13. \A g \in Server : /\ Len(wire'[g]) = Len(wire[g])
                         /\ \A i \in 1 .. Len(wire[g]) : wire'[g][i].req = wire[g][i].req
  BY <1>2, <1>4, <1>5, <1>6
<1>14. Single'
  BY <1>13 DEF Single, Base
<1> QED
  BY <1>7, <1>12, <1>14

\* A broken connection turns every outstanding command into an empty answer.
Cut(h) ==
    /\ wire' \in [Server -> Seq(Command)] /\ inbox' \in [Server -> Seq(Reply)]
    /\ \A g \in Server \ {h} : wire'[g] = wire[g] /\ inbox'[g] = inbox[g]
    /\ Len(wire'[h]) = 0
    /\ Len(inbox[h]) \in Nat /\ Len(wire[h]) \in Nat
    /\ Len(inbox'[h]) = Len(inbox[h]) + Len(wire[h])
    /\ \A i \in 1 .. Len(inbox[h]) :
          /\ i \in 1 .. Len(inbox'[h])
          /\ inbox'[h][i] = Answer(inbox[h][i], {})
    /\ \A i \in 1 .. Len(wire[h]) :
          /\ Len(inbox[h]) + i \in 1 .. Len(inbox'[h])
          /\ inbox'[h][Len(inbox[h]) + i] = Answer(wire[h][i], {})
    /\ \A i \in 1 .. Len(inbox'[h]) :
          \/ i \in 1 .. Len(inbox[h])
          \/ /\ i - Len(inbox[h]) \in 1 .. Len(wire[h])
             /\ i = Len(inbox[h]) + (i - Len(inbox[h]))

LEMMA AnswerTyped ==
    /\ \A c \in Command, list \in SUBSET Key :
          /\ Answer(c, list) \in Reply
          /\ Answer(c, list).op = c.op /\ Answer(c, list).req = c.req
          /\ Answer(c, list).list = list
    /\ \A c \in Reply, list \in SUBSET Key :
          /\ Answer(c, list) \in Reply
          /\ Answer(c, list).op = c.op /\ Answer(c, list).req = c.req
          /\ Answer(c, list).list = list
BY DEF Answer, Command, Reply

Emptied(q) == [i \in 1 .. Len(q) |-> Answer(q[i], {})]

LEMMA EmptiedFacts ==
    ASSUME NEW p \in Seq(Reply), NEW w \in Seq(Command)
    PROVE  /\ Emptied(p \o w) \in Seq(Reply) /\ Len(p) \in Nat /\ Len(w) \in Nat
           /\ Len(Emptied(p \o w)) = Len(p) + Len(w)
           /\ \A i \in 1 .. Len(p) : /\ i \in 1 .. Len(p) + Len(w)
                                     /\ Emptied(p \o w)[i] = Answer(p[i], {})
           /\ \A i \in 1 .. Len(w) : /\ Len(p) + i \in 1 .. Len(p) + Len(w)
                                     /\ Emptied(p \o w)[Len(p) + i] = Answer(w[i], {})
<1> DEFINE q == p \o w
<1>1. /\ Len(p) \in Nat /\ Len(w) \in Nat /\ Len(q) \in Nat /\ Len(q) = Len(p) + Len(w)
      /\ \A i \in 1 .. Len(p) : q[i] = p[i] /\ p[i] \in Reply
      /\ \A i \in 1 .. Len(w) : q[Len(p) + i] = w[i] /\ w[i] \in Command
  <2> HIDE DEF Reply, Command
  <2> QED
    BY MixedFacts
<1> HIDE DEF q
<1> DEFINE n == Len(p) + Len(w)
<1>2. Emptied(q) = [i \in 1 .. n |-> Answer(q[i], {})] /\ n \in Nat
  BY <1>1 DEF Emptied
<1>3. /\ \A i \in 1 .. Len(p) : i \in 1 .. n /\ Answer(q[i], {}) = Answer(p[i], {})
      /\ \A i \in 1 .. Len(w) : Len(p) + i \in 1 .. n /\ Answer(q[Len(p) + i], {}) = Answer(w[i], {})
  BY <1>1
<1>4. \A i \in 1 .. n : Answer(q[i], {}) \in Reply
  <2> SUFFICES ASSUME NEW i \in 1 .. n PROVE Answer(q[i], {}) \in Reply
    OBVIOUS
  <2>1. CASE i \in 1 .. Len(p)
    BY <1>1, <1>3, <2>1, AnswerTyped
  <2>2. CASE i - Len(p) \in 1 .. Len(w) /\ i = Len(p) + (i - Len(p))
    <3>1. q[i] = w[i - Len(p)] /\ w[i - Len(p)] \in Command
      BY <1>1, <2>2
    <3> QED
      BY <3>1, AnswerTyped
  <2>3. Len(p) \in Nat /\ Len(w) \in Nat /\ i \in 1 .. Len(p) + Len(w)
    BY <1>1
  <2>4. \/ i \in 1 .. Len(p)
        \/ i - Len(p) \in 1 .. Len(w) /\ i = Len(p) + (i - Len(p))
    BY <2>3, Split
  <2> QED
    BY <2>1, <2>2, <2>4
<1> HIDE DEF n
<1>5. Emptied(q) \in Seq(Reply) /\ Len(Emptied(q)) = n
  BY <1>2, <1>4
<1> QED
  BY <1>1, <1>2, <1>3, <1>5 DEF n, q

LEMMA LinkCut ==
    ASSUME TypeOK, NEW h \in Server, LinkDrop(h)
    PROVE  Cut(h)
<1>1. inbox[h] \in Seq(Reply) /\ wire[h] \in Seq(Command)
  BY DEF TypeOK
<1> DEFINE b == Emptied(inbox[h] \o wire[h])
<1>2. inbox' = [inbox EXCEPT ![h] = b] /\ wire' = [wire EXCEPT ![h] = <<>>]
  BY DEF LinkDrop, Emptied
<1>3. /\ b \in Seq(Reply) /\ Len(inbox[h]) \in Nat /\ Len(wire[h]) \in Nat
      /\ Len(b) = Len(inbox[h]) + Len(wire[h])
      /\ \A i \in 1 .. Len(inbox[h]) : /\ i \in 1 .. Len(inbox[h]) + Len(wire[h])
                                       /\ b[i] = Answer(inbox[h][i], {})
      /\ \A i \in 1 .. Len(wire[h]) :
            /\ Len(inbox[h]) + i \in 1 .. Len(inbox[h]) + Len(wire[h])
            /\ b[Len(inbox[h]) + i] = Answer(wire[h][i], {})
  BY <1>1, EmptiedFacts
<1> HIDE DEF b
<1>4. /\ inbox' \in [Server -> Seq(Reply)] /\ inbox'[h] = b
      /\ \A g \in Server \ {h} : wire'[g] = wire[g] /\ inbox'[g] = inbox[g]
      /\ wire' \in [Server -> Seq(Command)] /\ wire'[h] = <<>>
  BY <1>2, <1>3 DEF TypeOK
<1>5. Len(wire'[h]) = 0
  BY <1>4
<1>6. \A i \in 1 .. Len(inbox[h]) + Len(wire[h]) :
          \/ i \in 1 .. Len(inbox[h])
          \/ /\ i - Len(inbox[h]) \in 1 .. Len(wire[h])
             /\ i = Len(inbox[h]) + (i - Len(inbox[h]))
  BY <1>3, Split
<1> QED
  BY <1>3, <1>4, <1>5, <1>6 DEF Cut

LEMMA DropQueues ==
    ASSUME Base, NEW h \in Server, LinkDrop(h)
    PROVE  Queues' /\ Single' /\ Cut(h)
<1>1. Cut(h) /\ up[h] /\ up' = up /\ pc' = pc
  BY LinkCut DEF Base, LinkDrop, loginVars
<1>a. ASSUME NEW i \in 1 .. Len(inbox'[h])
      PROVE  \/ /\ i \in 1 .. Len(inbox[h])
                /\ inbox'[h][i].req = inbox[h][i].req
             \/ /\ i - Len(inbox[h]) \in 1 .. Len(wire[h])
                /\ inbox'[h][i].req = wire[h][i - Len(inbox[h])].req
  <2>1. CASE i \in 1 .. Len(inbox[h])
    <3>1. inbox'[h][i] = Answer(inbox[h][i], {})
      BY <1>1, <2>1 DEF Cut
    <3>2. inbox[h][i] \in Reply
      BY <2>1, EntryHome
    <3> QED
      BY <2>1, <3>1, <3>2, AnswerTyped
  <2>2. CASE /\ i - Len(inbox[h]) \in 1 .. Len(wire[h])
             /\ i = Len(inbox[h]) + (i - Len(inbox[h]))
    <3>1. inbox'[h][i] = Answer(wire[h][i - Len(inbox[h])], {})
      BY <1>1, <2>2 DEF Cut
    <3>2. wire[h][i - Len(inbox[h])] \in Command
      BY <2>2, EntryHome
    <3> QED
      BY <2>2, <3>1, <3>2, AnswerTyped
  <2> QED
    BY <1>1, <2>1, <2>2 DEF Cut
<1>2. \A g \in Server : \A i \in 1 .. Len(wire[g]) : \A z : z = wire[g][i] => GoodCommand(g, z)'
  BY <1>1, EntryHome, CommandStays
<1>3. \A g \in Server : \A i \in 1 .. Len(inbox[g]) : \A z : z = inbox[g][i] => GoodReply(g, z)'
  BY <1>1, EntryHome, ReplyStays
<1>4. ASSUME NEW i \in 1 .. Len(inbox'[h]) PROVE GoodReply(h, inbox[h][i])'
  <2>1. CASE i \in 1 .. Len(inbox[h])
    <3>1. /\ inbox'[h][i].op = inbox[h][i].op /\ inbox'[h][i].req = inbox[h][i].req
          /\ inbox'[h][i].list = {} /\ GoodReply(h, inbox[h][i])
      <4>1. inbox'[h][i] = Answer(inbox[h][i], {})
        BY <1>1, <2>1 DEF Cut
      <4>2. inbox[h][i] \in Reply /\ GoodReply(h, inbox[h][i])
        BY <2>1, EntryHome
      <4> QED
        BY <4>1, <4>2, AnswerTyped
    <3> QED
      BY <1>1, <3>1 DEF GoodReply, Match
  <2>2. CASE /\ i - Len(inbox[h]) \in 1 .. Len(wire[h])
             /\ i = Len(inbox[h]) + (i - Len(inbox[h]))
    <3>1. inbox'[h][i] = Answer(wire[h][i - Len(inbox[h])], {})
      BY <1>1, <2>2 DEF Cut
    <3>2. /\ wire[h][i - Len(inbox[h])] \in Command
          /\ GoodCommand(h, wire[h][i - Len(inbox[h])])
      BY <2>2, EntryHome
    <3>3. /\ inbox'[h][i].op = wire[h][i - Len(inbox[h])].op
          /\ inbox'[h][i].req = wire[h][i - Len(inbox[h])].req
          /\ inbox'[h][i].list = {}
      BY <3>1, <3>2, AnswerTyped
    <3> QED
      BY <1>1, <3>2, <3>3 DEF GoodCommand, GoodReply, Match
  <2> QED
    BY <1>1, <2>1, <2>2 DEF Cut
<1>5. Queues'
  <2>1. ASSUME NEW g \in Server, NEW i \in 1 .. Len(wire'[g])
        PROVE  GoodCommand(g, wire[g][i])'
    <3>1. g # h /\ wire'[g] = wire[g]
      BY <1>1 DEF Cut
    <3> QED
      BY <1>2, <3>1
  <2>2. ASSUME NEW g \in Server, NEW i \in 1 .. Len(inbox'[g])
        PROVE  GoodReply(g, inbox[g][i])'
    <3>1. CASE g # h
      <4>1. inbox'[g] = inbox[g]
        BY <1>1, <3>1 DEF Cut
      <4> QED
        BY <1>3, <4>1
    <3> QED
      BY <1>4, <3>1
  <2> QED
    BY <2>1, <2>2 DEF Queues
<1>6. Single'
  <2>1. ASSUME NEW g \in Server, g # h
        PROVE  wire'[g] = wire[g] /\ inbox'[g] = inbox[g]
    BY <1>1, <2>1 DEF Cut
  <2>2. Len(wire'[h]) = 0
    BY <1>1 DEF Cut
  <2>3. ASSUME NEW i \in 1 .. Len(inbox'[h]), NEW j \in 1 .. Len(inbox'[h]),
               inbox'[h][i].req = inbox'[h][j].req, inbox'[h][i].req # NoReq
        PROVE  i = j
    <3>1. CASE /\ i \in 1 .. Len(inbox[h]) /\ inbox'[h][i].req = inbox[h][i].req
               /\ j \in 1 .. Len(inbox[h]) /\ inbox'[h][j].req = inbox[h][j].req
      BY <2>3, <3>1 DEF Base, Single
    <3>2. CASE /\ i - Len(inbox[h]) \in 1 .. Len(wire[h])
               /\ inbox'[h][i].req = wire[h][i - Len(inbox[h])].req
               /\ j - Len(inbox[h]) \in 1 .. Len(wire[h])
               /\ inbox'[h][j].req = wire[h][j - Len(inbox[h])].req
      <4>1. i - Len(inbox[h]) = j - Len(inbox[h])
        BY <2>3, <3>2 DEF Base, Single
      <4> QED
        BY <1>1, <4>1 DEF Cut
    <3> QED
      BY <1>a, <2>3, <3>1, <3>2 DEF Base, Single
  <2>4. \A g \in Server : \A i, j \in 1 .. Len(wire'[g]) :
              wire'[g][i].req = wire'[g][j].req /\ wire'[g][i].req # NoReq => i = j
    BY <2>1, <2>2 DEF Base, Single
  <2>5. \A g \in Server : \A i, j \in 1 .. Len(inbox'[g]) :
              inbox'[g][i].req = inbox'[g][j].req /\ inbox'[g][i].req # NoReq => i = j
    <3>1. ASSUME NEW g \in Server, g # h
          PROVE  \A i, j \in 1 .. Len(inbox'[g]) :
              inbox'[g][i].req = inbox'[g][j].req /\ inbox'[g][i].req # NoReq => i = j
      BY <2>1, <3>1 DEF Base, Single
    <3> QED
      BY <2>3, <3>1
  <2>6. \A g \in Server : \A i \in 1 .. Len(wire'[g]), j \in 1 .. Len(inbox'[g]) :
              wire'[g][i].req = inbox'[g][j].req => wire'[g][i].req = NoReq
    <3>1. ASSUME NEW g \in Server, g # h
          PROVE  \A i \in 1 .. Len(wire'[g]), j \in 1 .. Len(inbox'[g]) :
              wire'[g][i].req = inbox'[g][j].req => wire'[g][i].req = NoReq
      BY <2>1, <3>1 DEF Base, Single
    <3> QED
      BY <2>2, <3>1
  <2> QED
    BY <2>4, <2>5, <2>6 DEF Single
<1> QED
  BY <1>1, <1>5, <1>6

\* A process that ends leaves some of its commands behind, and perhaps a DEL.
Left(h, left) ==
    /\ left \in Seq(Command)
    /\ \A i \in 1 .. Len(left) :
          \/ i \in 1 .. Len(wire[h]) /\ left[i] = wire[h][i]
          \/ /\ left[i].op = "del" /\ left[i].req = NoReq
             /\ \A k \in left[i].keys : /\ Home[k[2]] = h
                                        /\ reg[k[2]] # NoUser /\ reg[k[2]] = k[1]

LEMMA ExitQueues ==
    ASSUME Base, NEW h \in Server, NEW left, Left(h, left), ProcessExit(h, left)
    PROVE  Queues' /\ Single'
<1>1. /\ wire' \in [Server -> Seq(Command)] /\ inbox' \in [Server -> Seq(Reply)]
      /\ wire'[h] = left /\ Len(inbox'[h]) = 0 /\ ~up'[h]
      /\ \A g \in Server \ {h} : /\ wire'[g] = wire[g] /\ inbox'[g] = inbox[g]
                                 /\ up'[g] = up[g]
      /\ \A r \in Request : /\ Srv(r) # h => pc'[r] = pc[r]
                            /\ pc'[r] = "idle" => pc[r] = "idle"
  BY DEF ProcessExit, Base, TypeOK, Left
<1>2. ASSUME NEW g \in Server \ {h}
      PROVE  /\ \A i \in 1 .. Len(wire[g]) : \A z : z = wire[g][i] => GoodCommand(g, z)'
             /\ \A i \in 1 .. Len(inbox[g]) : \A z : z = inbox[g][i] => GoodReply(g, z)'
  <2>1. ASSUME NEW i \in 1 .. Len(wire[g]) PROVE \A z : z = wire[g][i] => GoodCommand(g, z)'
    <3>1. /\ wire[g][i] \in Command /\ GoodCommand(g, wire[g][i]) /\ up'[g] = up[g]
          /\ wire[g][i].req # NoReq => pc'[wire[g][i].req] = pc[wire[g][i].req]
      BY <1>1, EntryHome
    <3> QED
      BY <3>1, CommandStays
  <2>2. ASSUME NEW i \in 1 .. Len(inbox[g]) PROVE \A z : z = inbox[g][i] => GoodReply(g, z)'
    <3>1. /\ inbox[g][i] \in Reply /\ GoodReply(g, inbox[g][i]) /\ up'[g] = up[g]
          /\ inbox[g][i].req # NoReq => pc'[inbox[g][i].req] = pc[inbox[g][i].req]
      BY <1>1, EntryHome
    <3> QED
      BY <3>1, ReplyStays
  <2> QED
    BY <2>1, <2>2
<1>3. ASSUME NEW i \in 1 .. Len(left) PROVE \A z : z = left[i] => GoodCommand(h, z)'
  <2>1. CASE i \in 1 .. Len(wire[h]) /\ left[i] = wire[h][i]
    BY <1>1, <2>1, EntryHome DEF GoodCommand, Match
  <2>2. CASE left[i].op = "del" /\ left[i].req = NoReq
             /\ \A k \in left[i].keys : Home[k[2]] = h
    BY <2>2 DEF GoodCommand, Match
  <2> QED
    BY <2>1, <2>2 DEF Left
<1>4. Queues'
  <2>1. ASSUME NEW g \in Server, NEW i \in 1 .. Len(wire'[g])
        PROVE  GoodCommand(g, wire[g][i])'
    <3>1. CASE g = h
      BY <1>1, <1>3, <3>1
    <3>2. CASE g # h
      BY <1>1, <1>2, <3>2
    <3> QED
      BY <3>1, <3>2
  <2>2. ASSUME NEW g \in Server, NEW i \in 1 .. Len(inbox'[g])
        PROVE  GoodReply(g, inbox[g][i])'
    <3>1. g # h
      BY <1>1
    <3> QED
      BY <1>1, <1>2, <3>1
  <2> QED
    BY <2>1, <2>2 DEF Queues
<1>5. Single'
  <2>1. ASSUME NEW i \in 1 .. Len(left), NEW j \in 1 .. Len(left),
               left[i].req = left[j].req, left[i].req # NoReq
        PROVE  i = j
    <3>1. /\ i \in 1 .. Len(wire[h]) /\ left[i] = wire[h][i]
          /\ j \in 1 .. Len(wire[h]) /\ left[j] = wire[h][j]
      BY <2>1 DEF Left
    <3> QED
      BY <2>1, <3>1 DEF Base, Single
  <2>2. ASSUME NEW g \in Server \ {h} PROVE
          /\ \A i, j \in 1 .. Len(wire'[g]) :
              wire'[g][i].req = wire'[g][j].req /\ wire'[g][i].req # NoReq => i = j
          /\ \A i, j \in 1 .. Len(inbox'[g]) :
              inbox'[g][i].req = inbox'[g][j].req /\ inbox'[g][i].req # NoReq => i = j
          /\ \A i \in 1 .. Len(wire'[g]), j \in 1 .. Len(inbox'[g]) :
              wire'[g][i].req = inbox'[g][j].req => wire'[g][i].req = NoReq
    <3>1. wire'[g] = wire[g] /\ inbox'[g] = inbox[g]
      BY <1>1
    <3> QED
      BY <3>1 DEF Base, Single
  <2>3. ASSUME NEW g \in Server, g = h PROVE
          /\ \A i, j \in 1 .. Len(wire'[g]) :
              wire'[g][i].req = wire'[g][j].req /\ wire'[g][i].req # NoReq => i = j
          /\ \A i, j \in 1 .. Len(inbox'[g]) :
              inbox'[g][i].req = inbox'[g][j].req /\ inbox'[g][i].req # NoReq => i = j
          /\ \A i \in 1 .. Len(wire'[g]), j \in 1 .. Len(inbox'[g]) :
              wire'[g][i].req = inbox'[g][j].req => wire'[g][i].req = NoReq
    BY <1>1, <2>1, <2>3
  <2> QED
    BY <2>2, <2>3 DEF Single
<1> QED
  BY <1>4, <1>5

-----------------------------------------------------------------------------
(* The steps of a lookup, and the commands that operations issue.          *)

LEMMA RequestParts ==
    ASSUME NEW r \in Request
    PROVE  /\ r[1] \in Socket /\ r[2] \in User /\ Srv(r) \in Server /\ r # NoReq
           /\ OwnKey(r) \in Key /\ OwnKey(r)[1] = r[2] /\ OwnKey(r)[2] = r[1]
BY HomeAssumption, NoReqAssumption DEF Request, Srv, OwnKey, Key

LEMMA CmdTyped ==
    ASSUME NEW op \in Op, NEW r \in Request \cup {NoReq}, NEW ks \in SUBSET Key
    PROVE  /\ Cmd(op, r, ks) \in Command
           /\ Cmd(op, r, ks).op = op /\ Cmd(op, r, ks).req = r /\ Cmd(op, r, ks).keys = ks
BY DEF Cmd, Command

LEMMA OneCommand ==
    ASSUME NEW h, NEW r, NEW c \in Command, c.req = r \/ c.req = NoReq
    PROVE  NewFor(h, r, <<c>>) /\ Len(<<c>>) = 1 /\ <<c>>[1] = c
BY DEF NewFor

LEMMA TwoCommands ==
    ASSUME NEW h, NEW r, NEW c \in Command, NEW d \in Command, c.req = NoReq, d.req = r
    PROVE  /\ NewFor(h, r, <<c>> \o <<d>>) /\ Len(<<c>> \o <<d>>) = 2
           /\ (<<c>> \o <<d>>)[1] = c /\ (<<c>> \o <<d>>)[2] = d
<1> DEFINE q == <<c>> \o <<d>>
<1>1. q \in Seq(Command) /\ Len(q) = 2 /\ q[1] = c /\ q[2] = d
  OBVIOUS
<1> HIDE DEF q
<1>2. \A i \in 1 .. Len(q) : i = 1 \/ i = 2
  BY <1>1
<1>3. \A i \in 1 .. Len(q) : q[i].req \in {r, NoReq}
  BY <1>1, <1>2
<1>4. \A i, j \in 1 .. Len(q) : q[i].req = q[j].req /\ q[i].req # NoReq => i = j
  BY <1>1, <1>2
<1>5. NewFor(h, r, q)
  BY <1>1, <1>3, <1>4 DEF NewFor
<1> QED
  BY <1>1, <1>5 DEF q

LEMMA NoCommand ==
    ASSUME NEW h, NEW r
    PROVE  NewFor(h, r, <<>>) /\ Len(<<>>) = 0
BY DEF NewFor

KickCommands(r, ks) == Dels(ks) \o <<Cmd("keys", r, {})>>

LEMMA KickFacts ==
    ASSUME NEW h, NEW r \in Request, NEW ks \in SUBSET Key
    PROVE  /\ NewFor(h, r, KickCommands(r, ks))
           /\ Len(KickCommands(r, ks)) = IF ks = {} THEN 1 ELSE 2
           /\ ks = {} => KickCommands(r, ks)[1] = Cmd("keys", r, {})
           /\ ks # {} => /\ KickCommands(r, ks)[1] = Cmd("del", NoReq, ks)
                         /\ KickCommands(r, ks)[2] = Cmd("keys", r, {})
<1>1. /\ Cmd("keys", r, {}) \in Command /\ Cmd("keys", r, {}).req = r
      /\ Cmd("del", NoReq, ks) \in Command /\ Cmd("del", NoReq, ks).req = NoReq
  BY CmdTyped DEF Op
<1>2. CASE ks = {}
  <2>1. KickCommands(r, ks) = <<Cmd("keys", r, {})>>
    BY <1>1, <1>2 DEF KickCommands, Dels
  <2> QED
    BY <1>1, <1>2, <2>1, OneCommand
<1>3. CASE ks # {}
  <2>1. KickCommands(r, ks) = <<Cmd("del", NoReq, ks)>> \o <<Cmd("keys", r, {})>>
    BY <1>1, <1>3 DEF KickCommands, Dels
  <2> DEFINE c == Cmd("del", NoReq, ks)
             d == Cmd("keys", r, {})
             q == <<c>> \o <<d>>
  <2>2. NewFor(h, r, q) /\ Len(q) = 2 /\ q[1] = c /\ q[2] = d
    BY <1>1, TwoCommands
  <2>3. KickCommands(r, ks) = q
    BY <2>1
  <2> HIDE DEF q, c, d
  <2>4. NewFor(h, r, KickCommands(r, ks)) /\ Len(KickCommands(r, ks)) = 2
        /\ KickCommands(r, ks)[1] = c /\ KickCommands(r, ks)[2] = d
    BY <2>2, <2>3
  <2> QED
    BY <1>3, <2>4 DEF c, d
<1> QED
  BY <1>2, <1>3

\* The reply at the head of h's inbox continues the lookup of request r: rest is
\* still to be read, hits has been read.
Given(h, r, rest, hits) ==
    /\ inbox[h] # <<>> /\ r = Head(inbox[h]).req /\ Handled(h)
    /\ \/ Head(inbox[h]).op = "keys" /\ rest = Head(inbox[h]).list /\ hits = {}
       \/ /\ Head(inbox[h]).op = "hgetall" /\ rest = todo[r]
          /\ \E k \in Head(inbox[h]).list : hits = found[r] \cup {UserObject(h, k)}
    /\ found' = [found EXCEPT ![r] = hits]
    /\ UNCHANGED <<keys, up, exits, drops, prior, torn>>

LookupNext(h, r, rest, k) ==
    /\ pc[r] \in {"kick", "sweep"} /\ k \in rest
    /\ todo' = [todo EXCEPT ![r] = rest \ {k}]
    /\ Issue(h, <<Cmd("hgetall", r, {k})>>)
    /\ UNCHANGED <<pc, ws, reg, net>>

LookupKick(h, r, rest, hits) ==
    /\ pc[r] = "kick" /\ rest = {}
    /\ todo' = [todo EXCEPT ![r] = {}]
    /\ SendKick(r, hits)

LookupSweep(h, r, rest, hits) ==
    /\ pc[r] = "sweep" /\ rest = {}
    /\ todo' = [todo EXCEPT ![r] = {}]
    /\ Sweep(r, hits)

LEMMA ObjectTyped ==
    ASSUME TypeOK, NEW h \in Server, NEW k \in Key
    PROVE  UserObject(h, k) \in Object
BY DEF UserObject, Object, TypeOK, Key

LEMMA LookupCases ==
    ASSUME Base, NEW h \in Server, ReplyKeys(h) \/ ReplyHgetall(h)
    PROVE  \E r \in Request, rest \in SUBSET Key, hits \in SUBSET Object :
              /\ Srv(r) = h /\ Given(h, r, rest, hits)
              /\ \/ \E k \in rest : LookupNext(h, r, rest, k)
                 \/ LookupKick(h, r, rest, hits)
                 \/ LookupSweep(h, r, rest, hits)
<1> DEFINE r == Head(inbox[h]).req
<1>1. inbox[h] # <<>> /\ Head(inbox[h]).op \in {"keys", "hgetall"}
  BY DEF ReplyKeys, ReplyHgetall, Replied
<1>2. /\ r \in Request /\ Srv(r) = h /\ pc[r] \in {"kick", "sweep"}
      /\ Head(inbox[h]) \in Reply /\ Head(inbox[h]).list \in SUBSET Key
  BY <1>1, HeadReply, RequestParts DEF GoodReply, Match, Reply
<1>3. PICK rest, hits :
         /\ LookupStep(r, rest, hits)
         /\ \/ Head(inbox[h]).op = "keys" /\ rest = Head(inbox[h]).list /\ hits = {}
            \/ /\ Head(inbox[h]).op = "hgetall" /\ rest = todo[r]
               /\ \E k \in Head(inbox[h]).list : hits = found[r] \cup {UserObject(h, k)}
  BY DEF ReplyKeys, ReplyHgetall, Replied
<1>4. rest \in SUBSET Key /\ hits \in SUBSET Object
  <2>1. todo[r] \in SUBSET Key /\ found[r] \in SUBSET Object
    BY <1>2 DEF Base, TypeOK
  <2>2. \A k \in Head(inbox[h]).list : UserObject(h, k) \in Object
    BY <1>2, ObjectTyped DEF Base
  <2> QED
    BY <1>2, <1>3, <2>1, <2>2
<1>5. Handled(h) /\ UNCHANGED <<keys, up, exits, drops, prior, torn>>
  BY DEF ReplyKeys, ReplyHgetall
<1>6. Given(h, r, rest, hits)
  BY <1>1, <1>3, <1>5 DEF Given, LookupStep
<1>7. \/ \E k \in rest : LookupNext(h, r, rest, k)
      \/ LookupKick(h, r, rest, hits)
      \/ LookupSweep(h, r, rest, hits)
  BY <1>2, <1>3 DEF LookupStep, LookupNext, LookupKick, LookupSweep
<1> QED
  BY <1>2, <1>4, <1>6, <1>7

Expired(r, hits) ==
    {e \in {x \in hits : Home[x[2]] = Srv(r)} : ~e[3] \/ ws[e[2]] # "open"}

ExpiredKeys(r, hits) == {<<e[1], e[2]>> : e \in Expired(r, hits)}

LEMMA KickIssues ==
    ASSUME NEW r \in Request, NEW hits \in SUBSET Object, SendKick(r, hits)
    PROVE  /\ ExpiredKeys(r, hits) \in SUBSET Key
           /\ \A k \in ExpiredKeys(r, hits) : Home[k[2]] = Srv(r)
           /\ Issue(Srv(r), KickCommands(r, ExpiredKeys(r, hits)))
           /\ net' = net \cup {<<r, e[2]>> : e \in {x \in hits : Home[x[2]] # Srv(r)}}
           /\ reg' = [s \in Socket |->
                         IF \E e \in Expired(r, hits) : e[2] = s THEN NoUser ELSE reg[s]]
           /\ pc' = [pc EXCEPT ![r] = "sweep"] /\ ws' = ws
<1>1. \A e \in Object : <<e[1], e[2]>> \in Key /\ <<e[1], e[2]>>[2] = e[2]
  BY DEF Object, Key
<1>2. /\ ExpiredKeys(r, hits) \in SUBSET Key
      /\ \A k \in ExpiredKeys(r, hits) : Home[k[2]] = Srv(r)
  BY <1>1 DEF ExpiredKeys, Expired
<1>3. Issue(Srv(r), KickCommands(r, ExpiredKeys(r, hits)))
  BY DEF SendKick, KickCommands, ExpiredKeys, Expired
<1>4. net' = net \cup {<<r, e[2]>> : e \in {x \in hits : Home[x[2]] # Srv(r)}}
  <2>1. net' = net \cup {<<r, e[2]>> : e \in hits \ {e \in hits : Home[e[2]] = Srv(r)}}
    BY DEF SendKick
  <2>2. hits \ {e \in hits : Home[e[2]] = Srv(r)} = {x \in hits : Home[x[2]] # Srv(r)}
    OBVIOUS
  <2> QED
    BY <2>1, <2>2
<1>5. /\ reg' = [s \in Socket |->
                    IF \E e \in Expired(r, hits) : e[2] = s THEN NoUser ELSE reg[s]]
      /\ pc' = [pc EXCEPT ![r] = "sweep"] /\ ws' = ws
  BY DEF SendKick, Expired
<1> QED
  BY <1>2, <1>3, <1>4, <1>5

-----------------------------------------------------------------------------
(* Every step keeps the types and the queues in order.                     *)

LEMMA InitBase == Init => Base
<1> SUFFICES ASSUME Init PROVE Base
  OBVIOUS
<1>1. TypeOK
  BY BoundAssumption DEF Init, TypeOK, WsState, Phase
<1>2. \A h \in Server : Len(wire[h]) = 0 /\ Len(inbox[h]) = 0
  BY DEF Init
<1> QED
  BY <1>1, <1>2 DEF Base, Queues, Single

LEMMA SameQueues ==
    ASSUME Base, UNCHANGED <<wire, inbox, up>>,
           \A q \in Request : pc[q] # "idle" => pc'[q] = pc[q]
    PROVE  Queues' /\ Single'
<1>1. ASSUME NEW g \in Server, NEW i \in 1 .. Len(wire[g])
      PROVE  \A z : z = wire[g][i] => GoodCommand(g, z)'
  <2>1. /\ wire[g][i] \in Command /\ GoodCommand(g, wire[g][i])
        /\ wire[g][i].req # NoReq => pc'[wire[g][i].req] = pc[wire[g][i].req]
    BY EntryHome DEF GoodCommand, Match
  <2> QED
    BY <2>1, CommandStays
<1>2. ASSUME NEW g \in Server, NEW i \in 1 .. Len(inbox[g])
      PROVE  \A z : z = inbox[g][i] => GoodReply(g, z)'
  <2>1. /\ inbox[g][i] \in Reply /\ GoodReply(g, inbox[g][i])
        /\ inbox[g][i].req # NoReq => pc'[inbox[g][i].req] = pc[inbox[g][i].req]
    BY EntryHome DEF GoodReply, Match
  <2> QED
    BY <2>1, ReplyStays
<1>3. Queues'
  BY <1>1, <1>2 DEF Queues
<1>4. Single'
  BY DEF Base, Single
<1> QED
  BY <1>3, <1>4

LEMMA QuietBase ==
    ASSUME Base,
           \/ \E s \in Socket : Connect(s) \/ ClientClose(s) \/ Logout(s)
           \/ \E m \in net : RelayDrop(m) \/ RelayKick(m)
           \/ \E r \in Request : LoginAgain(r)
    PROVE  Base'
<1>1. CASE \E s \in Socket : Connect(s) \/ ClientClose(s) \/ Logout(s)
  <2>1. /\ UNCHANGED <<redisVars, up, reg, loginVars, net, exits, drops, torn>>
        /\ ws' \in [Socket -> WsState]
    BY <1>1 DEF Connect, ClientClose, Logout, Base, TypeOK, WsState
  <2>2. TypeOK' /\ UNCHANGED <<wire, inbox, up, pc>>
    BY <2>1 DEF Base, TypeOK, redisVars, loginVars
  <2> QED
    BY <2>2, SameQueues DEF Base
<1>2. CASE \E m \in net : RelayDrop(m) \/ RelayKick(m)
  <2>1. /\ UNCHANGED <<redisVars, up, reg, loginVars, exits, drops, torn>>
        /\ ws' \in [Socket -> WsState] /\ net' \subseteq net
    <3>1. PICK m \in net : RelayDrop(m) \/ RelayKick(m)
      BY <1>2
    <3>2. CASE RelayDrop(m)
      BY <3>2 DEF RelayDrop, Base, TypeOK
    <3>3. CASE RelayKick(m)
      BY <3>3 DEF RelayKick, Base, TypeOK, WsState
    <3> QED
      BY <3>1, <3>2, <3>3
  <2>2. TypeOK' /\ UNCHANGED <<wire, inbox, up, pc>>
    BY <2>1 DEF Base, TypeOK, redisVars, loginVars
  <2> QED
    BY <2>2, SameQueues DEF Base
<1>3. ASSUME NEW r \in Request, LoginAgain(r) PROVE Base'
  <2>1. pc[r] = "idle"
    BY <1>3 DEF LoginAgain, NextOnSocket
  <2>2. /\ pc' = [pc EXCEPT ![r] = "again"]
        /\ UNCHANGED <<redisVars, up, ws, reg, todo, found, prior, net, exits, drops, torn>>
    BY <1>3 DEF LoginAgain
  <2>3. TypeOK' /\ UNCHANGED <<wire, inbox, up>>
    BY <2>2 DEF Base, TypeOK, redisVars, Phase
  <2>4. \A q \in Request : pc[q] # "idle" => pc'[q] = pc[q]
    BY <2>1, <2>2 DEF Base, TypeOK
  <2> QED
    BY <2>3, <2>4, SameQueues DEF Base
<1> QED
  BY <1>1, <1>2, <1>3

LEMMA RestartBase ==
    ASSUME Base, NEW h \in Server, Restart(h)
    PROVE  Base'
<1>1. /\ ~up[h] /\ wire[h] = <<>> /\ up' = [up EXCEPT ![h] = TRUE]
      /\ UNCHANGED <<redisVars, ws, reg, loginVars, net, exits, drops, torn>>
  BY DEF Restart
<1>2. TypeOK' /\ UNCHANGED <<wire, inbox, pc>>
  BY <1>1 DEF Base, TypeOK, redisVars, loginVars
<1>3. Len(wire[h]) = 0 /\ \A g \in Server \ {h} : up'[g] = up[g]
  BY <1>1 DEF Base, TypeOK
<1>4. ASSUME NEW g \in Server, NEW i \in 1 .. Len(wire[g])
      PROVE  \A z : z = wire[g][i] => GoodCommand(g, z)'
  BY <1>2, <1>3, EntryHome, CommandStays
<1>5. ASSUME NEW g \in Server, NEW i \in 1 .. Len(inbox[g])
      PROVE  \A z : z = inbox[g][i] => GoodReply(g, z)'
  <2>1. g # h
    BY <1>1, EntryHome DEF GoodReply
  <2> QED
    BY <1>2, <1>3, <2>1, EntryHome, ReplyStays
<1>6. Queues'
  BY <1>2, <1>4, <1>5 DEF Queues
<1> QED
  BY <1>2, <1>6 DEF Base, Single

LEMMA LoginBase ==
    ASSUME Base, NEW r \in Request, Login(r)
    PROVE  Base' /\ Fed(Srv(r), <<Cmd("keys", r, {})>>) /\ pc[r] = "idle"
<1>1. pc[r] = "idle" /\ pc' = [pc EXCEPT ![r] = "kick"] /\ Srv(r) \in Server
  BY RequestParts DEF Login, NextOnSocket
<1> DEFINE c == Cmd("keys", r, {})
<1>2. c \in Command /\ c.op = "keys" /\ c.req = r
  BY CmdTyped DEF Op
<1>3. /\ Issue(Srv(r), <<c>>)
      /\ UNCHANGED <<keys, inbox, up, ws, reg, todo, found, prior, net, exits, drops, torn>>
  BY DEF Login
<1>4. \A z : z = c => GoodCommand(Srv(r), z)'
  BY <1>1, <1>2, RequestParts DEF GoodCommand, Match, Base, TypeOK
<1>5. NewFor(Srv(r), r, <<c>>) /\ Len(<<c>>) = 1 /\ <<c>>[1] = c
  BY <1>2, OneCommand
<1> DEFINE cs == <<c>>
<1> HIDE DEF c
<1>6. \A i \in 1 .. Len(cs) : GoodCommand(Srv(r), cs[i])'
  BY <1>4, <1>5
<1> HIDE DEF cs
<1>7. Queues' /\ Single' /\ Fed(Srv(r), cs)
  BY <1>1, <1>3, <1>5, <1>6, IssueQueues DEF cs, Base, TypeOK
<1>8. TypeOK'
  BY <1>1, <1>3, <1>7 DEF Base, TypeOK, Phase, Fed
<1> QED
  BY <1>1, <1>7, <1>8 DEF Base, cs, c

LEMMA DisconnectIssues ==
    ASSUME TypeOK, NEW s \in Socket, Disconnect(s)
    PROVE  /\ Home[s] \in Server /\ reg' = [reg EXCEPT ![s] = NoUser]
           /\ reg[s] = NoUser => wire' = wire
           /\ reg[s] # NoUser =>
                 /\ <<reg[s], s>> \in Key
                 /\ Cmd("del", NoReq, {<<reg[s], s>>}) \in Command
                 /\ Issue(Home[s], <<Cmd("del", NoReq, {<<reg[s], s>>})>>)
<1>1. reg[s] # NoUser => <<reg[s], s>> \in Key
  BY DEF TypeOK, Key
<1>2. reg[s] # NoUser => Cmd("del", NoReq, {<<reg[s], s>>}) \in Command
  BY <1>1, CmdTyped DEF Op
<1> QED
  BY <1>1, <1>2, HomeAssumption DEF Disconnect, Dels

LEMMA DisconnectBase ==
    ASSUME Base, NEW s \in Socket, CloseEvent(s) \/ ErrorEvent(s)
    PROVE  /\ Base'
           /\ reg[s] # NoUser => Fed(Home[s], <<Cmd("del", NoReq, {<<reg[s], s>>})>>)
<1>1. /\ Disconnect(s) /\ ws' \in [Socket -> WsState]
      /\ UNCHANGED <<keys, up, loginVars, inbox, net, exits, drops, torn>>
  BY DEF CloseEvent, ErrorEvent, Base, TypeOK, WsState
<1>2. reg' \in [Socket -> User \cup {NoUser}]
  BY <1>1, DisconnectIssues DEF Base, TypeOK
<1>3. CASE reg[s] = NoUser
  <2>1. UNCHANGED <<wire, inbox, up, pc>>
    BY <1>1, <1>3, DisconnectIssues DEF Base, loginVars
  <2>2. TypeOK'
    BY <1>1, <1>2, <2>1 DEF Base, TypeOK, loginVars
  <2> QED
    BY <1>3, <2>1, <2>2, SameQueues DEF Base
<1>4. CASE reg[s] # NoUser
  <2>1. PICK c : c = Cmd("del", NoReq, {<<reg[s], s>>})
    OBVIOUS
  <2>2. /\ c \in Command /\ c.op = "del" /\ c.req = NoReq /\ c.keys = {<<reg[s], s>>}
        /\ Issue(Home[s], <<c>>) /\ Home[s] \in Server
    BY <1>1, <1>4, <2>1, DisconnectIssues DEF Base, Cmd
  <2>3. GoodCommand(Home[s], c)'
    BY <2>2 DEF GoodCommand, Match
  <2>4. NewFor(Home[s], NoReq, <<c>>) /\ Len(<<c>>) = 1 /\ <<c>>[1] = c
    BY <2>2, OneCommand
  <2> DEFINE cs == <<c>>
  <2>5. \A i \in 1 .. Len(cs) : GoodCommand(Home[s], cs[i])'
    BY <2>3, <2>4
  <2>6. NoReq \in Request => pc[NoReq] = "idle"
    BY NoReqAssumption
  <2>7. up' = up /\ inbox' = inbox /\ pc' = pc
    BY <1>1 DEF loginVars
  <2> HIDE DEF cs
  <2>8. Queues' /\ Single' /\ Fed(Home[s], cs)
    BY <2>2, <2>4, <2>5, <2>6, <2>7, IssueQueues DEF cs
  <2>9. TypeOK'
    BY <1>1, <1>2, <2>8 DEF Base, TypeOK, loginVars, Fed
  <2> QED
    BY <2>1, <2>8, <2>9 DEF Base, cs
<1> QED
  BY <1>3, <1>4

LEMMA ExecBase ==
    ASSUME Base, NEW h \in Server, Exec(h)
    PROVE  Base'
<1>1. CASE ExecKeys(h)
  <2> DEFINE r == Head(wire[h]).req
             list == {k \in keys : k[1] \in Matches[r[2]]}
  <2>1. /\ wire[h] # <<>> /\ Head(wire[h]).op = "keys" /\ Executed(h, list)
        /\ UNCHANGED <<keys, up, ws, reg, pc, todo, found, net, exits, drops, torn>>
        /\ prior' = prior \/ prior' = [prior EXCEPT ![r] = {s \in Socket : reg[s] = r[2]}]
    BY <1>1 DEF ExecKeys, Next1
  <2>2. list \in SUBSET Key
    BY DEF Base, TypeOK
  <2>3. prior' \in [Request -> SUBSET Socket]
    BY <2>1 DEF Base, TypeOK
  <2> HIDE DEF list, r
  <2>4. Queues' /\ Single' /\ Shifted(h) /\ Answered(h, Answer(Head(wire[h]), list))
    BY <2>1, <2>2, ExecQueues
  <2>5. TypeOK'
    BY <2>1, <2>3, <2>4 DEF Base, TypeOK, Shifted, Answered
  <2> QED
    BY <2>4, <2>5 DEF Base
<1>2. CASE ExecHgetall(h)
  <2> DEFINE list == Head(wire[h]).keys \cap keys
  <2>1. /\ wire[h] # <<>> /\ Head(wire[h]).op = "hgetall" /\ Executed(h, list)
        /\ UNCHANGED <<keys, up, ws, reg, loginVars, net, exits, drops, torn>>
    BY <1>2 DEF ExecHgetall, Next1
  <2>2. list \in SUBSET Key /\ \A k, l \in list : k = l
    BY <2>1, HeadCommand DEF Base, TypeOK, GoodCommand
  <2> HIDE DEF list
  <2>4. Queues' /\ Single' /\ Shifted(h) /\ Answered(h, Answer(Head(wire[h]), list))
    BY <2>1, <2>2, ExecQueues DEF loginVars
  <2>5. TypeOK'
    BY <2>1, <2>4 DEF Base, TypeOK, Shifted, Answered, loginVars
  <2> QED
    BY <2>4, <2>5 DEF Base
<1>3. CASE ExecHmset(h)
  <2>1. /\ wire[h] # <<>> /\ Head(wire[h]).op = "hmset" /\ Executed(h, {})
        /\ keys' = keys \cup Head(wire[h]).keys
        /\ UNCHANGED <<up, ws, reg, loginVars, net, exits, drops, torn>>
    BY <1>3 DEF ExecHmset, Next1
  <2>2. keys' \subseteq Key
    BY <2>1, HeadCommand DEF Base, TypeOK, Command
  <2>4. Queues' /\ Single' /\ Shifted(h) /\ Answered(h, Answer(Head(wire[h]), {}))
    BY <2>1, ExecQueues DEF loginVars
  <2>5. TypeOK'
    BY <2>1, <2>2, <2>4 DEF Base, TypeOK, Shifted, Answered, loginVars
  <2> QED
    BY <2>4, <2>5 DEF Base
<1>4. CASE ExecDel(h)
  <2>1. PICK k \in Head(wire[h]).keys :
          /\ keys' = keys \ {k}
          /\ \/ Executed(h, {})
             \/ wire' = [wire EXCEPT ![h][1].keys = @ \ {k}] /\ UNCHANGED inbox
    BY <1>4 DEF ExecDel
  <2>2. /\ wire[h] # <<>> /\ Head(wire[h]).op = "del"
        /\ UNCHANGED <<up, ws, reg, loginVars, net, exits, drops, torn>>
    BY <1>4 DEF ExecDel, Next1
  <2>3. CASE Executed(h, {})
    <3>1. Queues' /\ Single' /\ Shifted(h) /\ Answered(h, Answer(Head(wire[h]), {}))
      BY <2>2, <2>3, ExecQueues DEF loginVars
    <3>2. TypeOK'
      BY <2>1, <2>2, <3>1 DEF Base, TypeOK, Shifted, Answered, loginVars
    <3> QED
      BY <3>1, <3>2 DEF Base
  <2>4. CASE wire' = [wire EXCEPT ![h][1].keys = @ \ {k}] /\ UNCHANGED inbox
    <3>1. Queues' /\ Single' /\ Shrunk(h, k)
      BY <2>2, <2>4, DelQueues DEF loginVars
    <3>2. TypeOK'
      BY <2>1, <2>2, <2>4, <3>1 DEF Base, TypeOK, Shrunk, loginVars
    <3> QED
      BY <3>1, <3>2 DEF Base
  <2> QED
    BY <2>1, <2>3, <2>4
<1> QED
  BY <1>1, <1>2, <1>3, <1>4 DEF Exec

LEMMA LookupBase ==
    ASSUME Base, NEW h \in Server, NEW r \in Request, Srv(r) = h,
           NEW rest \in SUBSET Key, NEW hits \in SUBSET Object, Given(h, r, rest, hits),
           \/ \E k \in rest : LookupNext(h, r, rest, k)
           \/ LookupKick(h, r, rest, hits)
           \/ LookupSweep(h, r, rest, hits)
    PROVE  /\ Base' /\ Eaten(h)
           /\ \A k \in rest : LookupNext(h, r, rest, k) => Fed(h, <<Cmd("hgetall", r, {k})>>)
           /\ LookupKick(h, r, rest, hits) =>
                 Fed(h, KickCommands(r, ExpiredKeys(r, hits)))
           /\ LookupSweep(h, r, rest, hits) => Fed(h, <<Cmd("hmset", r, {OwnKey(r)})>>)
<1>1. /\ inbox[h] # <<>> /\ r = Head(inbox[h]).req /\ Handled(h) /\ up' = up
      /\ found' = [found EXCEPT ![r] = hits]
      /\ UNCHANGED <<keys, up, exits, drops, prior, torn>>
  BY DEF Given
<1>2. OwnKey(r) \in Key /\ r # NoReq
  BY RequestParts
<1>3. GoodReply(h, Head(inbox[h]))
  BY <1>1, HeadReply
<1>4. up[h]
  BY <1>3 DEF GoodReply
<1>5. ASSUME NEW k \in rest, LookupNext(h, r, rest, k)
      PROVE  Base' /\ Eaten(h) /\ Fed(h, <<Cmd("hgetall", r, {k})>>)
  <2>1. PICK c : c = Cmd("hgetall", r, {k})
    OBVIOUS
  <2>2. c \in Command /\ c.op = "hgetall" /\ c.req = r /\ c.keys = {k}
    BY <2>1, CmdTyped DEF Op
  <2>3. pc[r] \in {"kick", "sweep"} /\ pc' = pc /\ Issue(h, <<c>>)
        /\ todo' = [todo EXCEPT ![r] = rest \ {k}] /\ UNCHANGED <<ws, reg, net>>
    BY <1>5, <2>1 DEF LookupNext
  <2>4. GoodCommand(h, c)'
    BY <1>2, <2>2, <2>3 DEF GoodCommand, Match
  <2>5. NewFor(h, r, <<c>>) /\ Len(<<c>>) = 1 /\ <<c>>[1] = c
    BY <2>2, OneCommand
  <2> DEFINE cs == <<c>>
  <2>6. \A i \in 1 .. Len(cs) : GoodCommand(h, cs[i])'
    BY <2>4, <2>5
  <2> HIDE DEF cs
  <2>7. Queues' /\ Single' /\ Fed(h, cs) /\ Eaten(h)
    BY <1>1, <2>3, <2>5, <2>6, HandleQueues DEF cs
  <2>8. TypeOK'
    BY <1>1, <2>3, <2>7 DEF Base, TypeOK, Fed, Eaten
  <2> QED
    BY <2>1, <2>7, <2>8 DEF Base, cs
<1>6. ASSUME LookupSweep(h, r, rest, hits)
      PROVE  Base' /\ Eaten(h) /\ Fed(h, <<Cmd("hmset", r, {OwnKey(r)})>>)
  <2>1. PICK c : c = Cmd("hmset", r, {OwnKey(r)})
    OBVIOUS
  <2>2. c \in Command /\ c.op = "hmset" /\ c.req = r /\ c.keys = {OwnKey(r)}
    BY <1>2, <2>1, CmdTyped DEF Op
  <2>3. pc' = [pc EXCEPT ![r] = "set"] /\ Issue(h, <<c>>)
        /\ todo' = [todo EXCEPT ![r] = {}] /\ UNCHANGED <<reg, net>>
        /\ ws' = [s \in Socket |-> IF ws[s] = "open" /\ \E e \in hits : e[2] = s /\ e[3]
                                   THEN "kicked" ELSE ws[s]]
    BY <1>6, <2>1 DEF LookupSweep, Sweep
  <2>4. GoodCommand(h, c)'
    BY <1>2, <2>2, <2>3 DEF GoodCommand, Match, Base, TypeOK
  <2>5. NewFor(h, r, <<c>>) /\ Len(<<c>>) = 1 /\ <<c>>[1] = c
    BY <2>2, OneCommand
  <2> DEFINE cs == <<c>>
  <2>6. \A i \in 1 .. Len(cs) : GoodCommand(h, cs[i])'
    BY <2>4, <2>5
  <2>a. \A q \in Request : q # r => pc'[q] = pc[q]
    BY <2>3 DEF Base, TypeOK
  <2> HIDE DEF cs
  <2>7. Queues' /\ Single' /\ Fed(h, cs) /\ Eaten(h)
    BY <1>1, <2>3, <2>5, <2>6, <2>a, HandleQueues DEF cs
  <2>8. TypeOK'
    <3>1. ws' \in [Socket -> WsState] /\ pc' \in [Request -> Phase]
      BY <2>3 DEF Base, TypeOK, WsState, Phase
    <3> QED
      BY <1>1, <2>3, <2>7, <3>1 DEF Base, TypeOK, Fed, Eaten
  <2> QED
    BY <2>1, <2>7, <2>8 DEF Base, cs
<1>7. ASSUME LookupKick(h, r, rest, hits)
      PROVE  Base' /\ Eaten(h) /\ Fed(h, KickCommands(r, ExpiredKeys(r, hits)))
  <2>1. PICK ks : ks = ExpiredKeys(r, hits)
    OBVIOUS
  <2>2. /\ ks \in SUBSET Key /\ \A k \in ks : Home[k[2]] = h
        /\ Issue(h, KickCommands(r, ks)) /\ pc' = [pc EXCEPT ![r] = "sweep"] /\ ws' = ws
        /\ reg' = [s \in Socket |->
                     IF \E e \in Expired(r, hits) : e[2] = s THEN NoUser ELSE reg[s]]
        /\ net' = net \cup {<<r, e[2]>> : e \in {x \in hits : Home[x[2]] # Srv(r)}}
        /\ todo' = [todo EXCEPT ![r] = {}]
    BY <1>7, <2>1, KickIssues DEF LookupKick
  <2>3. \A z : z = Cmd("keys", r, {}) \/ z = Cmd("del", NoReq, ks) => GoodCommand(h, z)'
    <3>1. /\ Cmd("keys", r, {}).op = "keys" /\ Cmd("keys", r, {}).req = r
          /\ Cmd("del", NoReq, ks).op = "del" /\ Cmd("del", NoReq, ks).req = NoReq
          /\ Cmd("del", NoReq, ks).keys = ks
      BY DEF Cmd
    <3> QED
      BY <1>2, <2>2, <3>1 DEF GoodCommand, Match, Base, TypeOK
  <2> DEFINE cs == KickCommands(r, ks)
  <2>4. NewFor(h, r, cs) /\ \A i \in 1 .. Len(cs) :
          cs[i] = Cmd("keys", r, {}) \/ cs[i] = Cmd("del", NoReq, ks)
    <3>1. /\ NewFor(h, r, cs) /\ Len(cs) = IF ks = {} THEN 1 ELSE 2
          /\ ks = {} => cs[1] = Cmd("keys", r, {})
          /\ ks # {} => cs[1] = Cmd("del", NoReq, ks) /\ cs[2] = Cmd("keys", r, {})
      BY <2>2, KickFacts
    <3> HIDE DEF cs
    <3>2. \A i \in 1 .. Len(cs) : i = 1 \/ (i = 2 /\ ks # {})
      BY <3>1
    <3> QED
      BY <3>1, <3>2
  <2> HIDE DEF cs
  <2>6. \A i \in 1 .. Len(cs) : GoodCommand(h, cs[i])'
    BY <2>3, <2>4 DEF cs
  <2>a. \A q \in Request : q # r => pc'[q] = pc[q]
    BY <2>2 DEF Base, TypeOK
  <2>b. Issue(h, cs)
    BY <2>2 DEF cs
  <2>7. Queues' /\ Single' /\ Fed(h, cs) /\ Eaten(h)
    BY <1>1, <2>4, <2>6, <2>a, <2>b, HandleQueues
  <2>8. TypeOK'
    <3>1. reg' \in [Socket -> User \cup {NoUser}] /\ pc' \in [Request -> Phase]
      BY <2>2 DEF Base, TypeOK, Phase
    <3>2. net' \subseteq Request \X Socket
      BY <2>2 DEF Base, TypeOK, Object
    <3> QED
      BY <1>1, <2>2, <2>7, <3>1, <3>2 DEF Base, TypeOK, Fed, Eaten
  <2> QED
    BY <2>1, <2>7, <2>8 DEF Base, cs
<1> QED
  BY <1>5, <1>6, <1>7

LEMMA NoIssue ==
    ASSUME TypeOK, NEW h \in Server, wire' = wire
    PROVE  Issue(h, <<>>)
<1>1. wire[h] \in Seq(Command)
  BY DEF TypeOK
<1>2. wire[h] \o <<>> = wire[h]
  BY <1>1
<1>3. wire = [g \in Server |-> wire[g]]
  BY DEF TypeOK
<1> QED
  BY <1>2, <1>3 DEF Issue

LEMMA ReplyBase ==
    ASSUME Base, NEW h \in Server, ReplyNull(h) \/ ReplyHmset(h) \/ ReplyDel(h)
    PROVE  Base' /\ Eaten(h)
<1> DEFINE r == Head(inbox[h]).req
<1>1. /\ inbox[h] # <<>> /\ Handled(h)
      /\ UNCHANGED <<keys, wire, up, ws, todo, prior, net, exits, drops, torn>>
  BY DEF ReplyNull, ReplyHmset, ReplyDel, Replied, loginVars
<1>2. /\ \A q \in Request : q # r => pc'[q] = pc[q]
      /\ pc' \in [Request -> Phase] /\ reg' \in [Socket -> User \cup {NoUser}]
      /\ found' \in [Request -> SUBSET Object]
  <2>1. CASE ReplyDel(h)
    BY <2>1 DEF ReplyDel, loginVars, Base, TypeOK
  <2>2. CASE ReplyNull(h)
    BY <2>2 DEF ReplyNull, Base, TypeOK, Phase
  <2>3. CASE ReplyHmset(h)
    <3>1. r \in Request /\ r[1] \in Socket /\ r[2] \in User
      BY <2>3, HeadReply, RequestParts DEF ReplyHmset, Replied
    <3> QED
      BY <2>3, <3>1 DEF ReplyHmset, Base, TypeOK, Phase
  <2> QED
    BY <2>1, <2>2, <2>3
<1>3. Issue(h, <<>>) /\ NewFor(h, r, <<>>) /\ Len(<<>>) = 0
  BY <1>1, NoIssue, NoCommand DEF Base
<1> HIDE DEF r
<1> DEFINE cs == <<>>
<1>4. \A i \in 1 .. Len(cs) : GoodCommand(h, cs[i])'
  OBVIOUS
<1> HIDE DEF cs
<1>5. Queues' /\ Single' /\ Eaten(h)
  BY <1>1, <1>2, <1>3, <1>4, HandleQueues DEF r, cs
<1>6. TypeOK'
  BY <1>1, <1>2, <1>5 DEF Base, TypeOK, Eaten
<1> QED
  BY <1>5, <1>6 DEF Base

LEMMA DropBase ==
    ASSUME Base, NEW h \in Server, LinkDrop(h)
    PROVE  /\ Base' /\ Cut(h) /\ up[h] /\ torn \subseteq torn'
           /\ \A i \in 1 .. Len(wire[h]) :
                 /\ wire[h][i].op \in {"hmset", "del"} => wire[h][i].keys \subseteq torn'
                 /\ wire[h][i].op \in {"keys", "hgetall"} => OwnKey(wire[h][i].req) \in torn'
           /\ \A i \in 1 .. Len(inbox[h]) :
                 inbox[h][i].op \in {"keys", "hgetall"} => OwnKey(inbox[h][i].req) \in torn'
<1> DEFINE q == inbox[h] \o wire[h]
           cut == {i \in 1 .. Len(wire[h]) : wire[h][i].op \in {"hmset", "del"}}
           blind == {i \in 1 .. Len(q) : q[i].op \in {"keys", "hgetall"}}
           cutKeys == UNION {wire[h][i].keys : i \in cut}
           blindKeys == {OwnKey(q[i].req) : i \in blind}
<1>1. /\ drops < MaxDrop /\ drops' = drops + 1 /\ up[h]
      /\ torn' = torn \cup cutKeys \cup blindKeys
      /\ UNCHANGED <<keys, up, ws, reg, loginVars, net, exits>>
  BY DEF LinkDrop
<1>2. inbox[h] \in Seq(Reply) /\ wire[h] \in Seq(Command)
  BY DEF Base, TypeOK
<1>3. /\ \A i \in 1 .. Len(inbox[h]) : i \in 1 .. Len(q) /\ q[i] = inbox[h][i]
      /\ \A j \in 1 .. Len(wire[h]) : \E i \in 1 .. Len(q) : q[i] = wire[h][j]
      /\ \A i \in 1 .. Len(q) : \/ \E j \in 1 .. Len(inbox[h]) : q[i] = inbox[h][j]
                                \/ \E j \in 1 .. Len(wire[h]) : q[i] = wire[h][j]
  <2>1. PICK b \in Seq(Reply), w \in Seq(Command) : b = inbox[h] /\ w = wire[h]
    BY <1>2
  <2> DEFINE z == b \o w
  <2>a. \A i \in 1 .. Len(b) : i \in 1 .. Len(z) /\ z[i] = b[i]
    BY MixedEntries
  <2>b. \A j \in 1 .. Len(w) : \E i \in 1 .. Len(z) : z[i] = w[j]
    BY MixedEntries
  <2>c. \A i \in 1 .. Len(z) : \/ \E j \in 1 .. Len(b) : z[i] = b[j]
                               \/ \E j \in 1 .. Len(w) : z[i] = w[j]
    BY MixedEntries
  <2>3. z = q
    BY <2>1
  <2> HIDE DEF z, q
  <2> QED
    BY <2>1, <2>a, <2>b, <2>c, <2>3
<1> HIDE DEF q
<1>4. \A i \in 1 .. Len(wire[h]) :
          wire[h][i].op \in {"keys", "hgetall"} => OwnKey(wire[h][i].req) \in blindKeys
  BY <1>3
<1>5. \A i \in 1 .. Len(inbox[h]) :
          inbox[h][i].op \in {"keys", "hgetall"} => OwnKey(inbox[h][i].req) \in blindKeys
  BY <1>3
<1>6. \A i \in 1 .. Len(wire[h]) :
          wire[h][i].op \in {"hmset", "del"} => wire[h][i].keys \subseteq cutKeys
  OBVIOUS
<1>7. cutKeys \subseteq Key
  BY EntryHome DEF Command
<1>8. blindKeys \subseteq Key
  <2> SUFFICES ASSUME NEW i \in 1 .. Len(q), q[i].op \in {"keys", "hgetall"}
               PROVE  OwnKey(q[i].req) \in Key
    OBVIOUS
  <2>1. ASSUME NEW j \in 1 .. Len(inbox[h]), q[i] = inbox[h][j]
        PROVE  OwnKey(q[i].req) \in Key
    BY <2>1, EntryHome, RequestParts DEF GoodReply, Match
  <2>2. ASSUME NEW j \in 1 .. Len(wire[h]), q[i] = wire[h][j]
        PROVE  OwnKey(q[i].req) \in Key
    BY <2>2, EntryHome, RequestParts DEF GoodCommand, Match
  <2> QED
    BY <1>3, <2>1, <2>2
<1>9. Queues' /\ Single' /\ Cut(h)
  BY DropQueues
<1> HIDE DEF cutKeys, blindKeys
<1>10. TypeOK'
  <2>1. torn' \subseteq Key /\ drops' \in 0 .. MaxDrop
    BY <1>1, <1>7, <1>8, BoundAssumption DEF Base, TypeOK
  <2> QED
    BY <1>1, <1>9, <2>1 DEF Base, TypeOK, Cut, loginVars
<1> QED
  BY <1>1, <1>4, <1>5, <1>6, <1>9, <1>10 DEF Base

\* Process h ends, whatever the reason.
Exits(h) ==
    /\ \E left : Left(h, left) /\ ProcessExit(h, left)
    /\ net' \subseteq net
    /\ \A m \in net \ net' : Srv(m[1]) = h \/ Home[m[2]] = h

LEMMA PrefixLeft ==
    ASSUME Base, NEW h \in Server, NEW left \in Prefixes(wire[h])
    PROVE  Left(h, left)
<1>1. wire[h] \in Seq(Command)
  BY DEF Base, TypeOK
<1> QED
  BY <1>1, PrefixFacts DEF Left

LEMMA DelsLeft ==
    ASSUME Base, NEW h \in Server,
           NEW ks \in SUBSET {<<reg[s], s>> : s \in {t \in Socket :
                                 Home[t] = h /\ reg[t] # NoUser}}
    PROVE  Left(h, wire[h] \o Dels(ks))
<1>1. wire[h] \in Seq(Command)
  BY DEF Base, TypeOK
<1>2. CASE ks = {}
  <2>1. wire[h] \o Dels(ks) = wire[h]
    BY <1>1, <1>2 DEF Dels
  <2> QED
    BY <1>1, <2>1 DEF Left
<1>3. CASE ks # {}
  <2>1. PICK c : c = Cmd("del", NoReq, ks)
    OBVIOUS
  <2>2. ks \in SUBSET Key
    BY DEF Base, TypeOK, Key
  <2>3. c \in Command /\ c.op = "del" /\ c.req = NoReq /\ c.keys = ks
    BY <2>1, <2>2, CmdTyped DEF Op
  <2>4. \A k \in ks : Home[k[2]] = h /\ reg[k[2]] # NoUser /\ reg[k[2]] = k[1]
    OBVIOUS
  <2> DEFINE q == wire[h] \o <<c>>
  <2>5. /\ q \in Seq(Command) /\ Len(<<c>>) = 1 /\ <<c>>[1] = c
        /\ \A i \in 1 .. Len(q) :
              \/ i \in 1 .. Len(wire[h]) /\ q[i] = wire[h][i]
              \/ q[i] = c
    <3>1. <<c>> \in Seq(Command) /\ Len(<<c>>) = 1 /\ <<c>>[1] = c
      BY <2>3
    <3>2. PICK d \in Seq(Command) : d = <<c>>
      BY <3>1
    <3>3. /\ q \in Seq(Command) /\ Len(d) = 1 /\ d[1] = c
          /\ \A i \in 1 .. Len(wire[h]) : q[i] = wire[h][i]
          /\ \A i \in 1 .. Len(q) :
                \/ i \in 1 .. Len(wire[h])
                \/ i - Len(wire[h]) \in 1 .. Len(d) /\ q[i] = d[i - Len(wire[h])]
      <4>1. Len(d) = 1 /\ d[1] = c
        BY <3>1, <3>2
      <4>2. q = wire[h] \o d
        BY <3>2
      <4>3. /\ wire[h] \o d \in Seq(Command)
            /\ \A i \in 1 .. Len(wire[h]) : (wire[h] \o d)[i] = wire[h][i]
            /\ \A i \in 1 .. Len(wire[h] \o d) :
                \/ i \in 1 .. Len(wire[h])
                \/ i - Len(wire[h]) \in 1 .. Len(d) /\ (wire[h] \o d)[i] = d[i - Len(wire[h])]
        BY <1>1, CatFacts
      <4> HIDE DEF q
      <4> QED
        BY <4>1, <4>2, <4>3
    <3> HIDE DEF q
    <3> QED
      BY <3>1, <3>3
  <2>6. wire[h] \o Dels(ks) = q
    BY <1>3, <2>1 DEF Dels
  <2> HIDE DEF q
  <2>7. Left(h, q)
    BY <2>3, <2>4, <2>5 DEF Left
  <2> QED
    BY <2>6, <2>7
<1> QED
  BY <1>2, <1>3

LEMMA ExitCases ==
    ASSUME Base, NEW h \in Server,
           \/ Crash(h) \/ Shutdown(h)
           \/ \E m \in net : RelayThrow(m) /\ Home[m[2]] = h
    PROVE  Exits(h) /\ exits' \in 0 .. MaxExit
<1>1. CASE Crash(h)
  <2>1. PICK left \in Prefixes(wire[h]) : ProcessExit(h, left)
    BY <1>1 DEF Crash
  <2>2. net' \subseteq net /\ \A m \in net \ net' : Srv(m[1]) = h
    BY <1>1 DEF Crash, LoseNotices
  <2>3. exits' \in 0 .. MaxExit
    BY <1>1, BoundAssumption DEF Crash, Base, TypeOK
  <2> QED
    BY <2>1, <2>2, <2>3, PrefixLeft DEF Exits
<1>2. CASE Shutdown(h)
  <2>1. PICK left : Left(h, left) /\ ProcessExit(h, left)
    BY <1>2, PrefixLeft, DelsLeft DEF Shutdown
  <2>2. net' \subseteq net /\ \A m \in net \ net' : Srv(m[1]) = h
    BY <1>2 DEF Shutdown, LoseNotices
  <2>3. exits' \in 0 .. MaxExit
    BY <1>2, BoundAssumption DEF Shutdown, Base, TypeOK
  <2> QED
    BY <2>1, <2>2, <2>3 DEF Exits
<1>3. ASSUME NEW n \in net, RelayThrow(n), Home[n[2]] = h
      PROVE  Exits(h) /\ exits' \in 0 .. MaxExit
  <2>1. PICK left \in Prefixes(wire[h]) : ProcessExit(h, left)
    BY <1>3 DEF RelayThrow
  <2>2. net' \subseteq net /\ \A m \in net \ net' : Srv(m[1]) = h \/ Home[m[2]] = h
    BY <1>3 DEF RelayThrow, LoseNotices
  <2>3. exits' \in 0 .. MaxExit
    BY <1>3 DEF RelayThrow, Base, TypeOK
  <2> QED
    BY <2>1, <2>2, <2>3, PrefixLeft DEF Exits
<1> QED
  BY <1>1, <1>2, <1>3

LEMMA ExitBase ==
    ASSUME Base, NEW h \in Server, Exits(h), exits' \in 0 .. MaxExit
    PROVE  Base'
<1>1. PICK left : Left(h, left) /\ ProcessExit(h, left)
  BY DEF Exits
<1>2. Queues' /\ Single'
  BY <1>1, ExitQueues
<1>3. /\ wire' \in [Server -> Seq(Command)] /\ inbox' \in [Server -> Seq(Reply)]
      /\ up' \in [Server -> BOOLEAN]
  BY <1>1 DEF ProcessExit, Base, TypeOK, Left
<1>4. /\ ws' \in [Socket -> WsState] /\ reg' \in [Socket -> User \cup {NoUser}]
      /\ pc' \in [Request -> Phase]
  BY <1>1 DEF ProcessExit, Base, TypeOK, WsState, Phase
<1>5. /\ todo' \in [Request -> SUBSET Key] /\ found' \in [Request -> SUBSET Object]
      /\ prior' \in [Request -> SUBSET Socket]
  BY <1>1 DEF ProcessExit, Base, TypeOK
<1>6. TypeOK'
  BY <1>1, <1>3, <1>4, <1>5 DEF ProcessExit, Base, TypeOK, Exits
<1> QED
  BY <1>2, <1>6 DEF Base

\* The kinds of steps, as the proofs below tell them apart.
LEMMA StepCases ==
    ASSUME Base, [Next]_vars
    PROVE  \/ \E s \in Socket : Connect(s) \/ ClientClose(s) \/ Logout(s)
           \/ \E m \in net : RelayDrop(m) \/ RelayKick(m)
           \/ \E r \in Request : LoginAgain(r)
           \/ \E r \in Request : Login(r)
           \/ \E s \in Socket : CloseEvent(s) \/ ErrorEvent(s)
           \/ \E h \in Server : ExecKeys(h)
           \/ \E h \in Server : ExecHgetall(h)
           \/ \E h \in Server : ExecHmset(h)
           \/ \E h \in Server : ExecDel(h)
           \/ \E h \in Server : ReplyKeys(h) \/ ReplyHgetall(h)
           \/ \E h \in Server : ReplyNull(h)
           \/ \E h \in Server : ReplyHmset(h)
           \/ \E h \in Server : ReplyDel(h)
           \/ \E h \in Server : LinkDrop(h)
           \/ \E h \in Server : Exits(h) /\ exits' \in 0 .. MaxExit
           \/ \E h \in Server : Restart(h)
           \/ UNCHANGED vars
<1>1. CASE Next
  <2>1. CASE \E h \in Server : Exec(h) \/ HandleReply(h) \/ LinkDrop(h) \/ Restart(h)
    BY <2>1 DEF Exec, HandleReply
  <2>2. CASE \E h \in Server : Crash(h) \/ Shutdown(h)
    BY <2>2, ExitCases
  <2>3. CASE \E m \in net : Relay(m)
    <3>1. PICK m \in net : Relay(m)
      BY <2>3
    <3>2. Home[m[2]] \in Server
      BY HomeAssumption DEF Base, TypeOK
    <3> QED
      BY <3>1, <3>2, ExitCases DEF Relay
  <2> QED
    BY <1>1, <2>1, <2>2, <2>3 DEF Next
<1> QED
  BY <1>1

LEMMA BaseStep == Base /\ [Next]_vars => Base'
<1> SUFFICES ASSUME Base, [Next]_vars PROVE Base'
  OBVIOUS
<1>1. CASE \E h \in Server : ReplyKeys(h) \/ ReplyHgetall(h)
  BY <1>1, LookupCases, LookupBase
<1>2. CASE \E h \in Server : ExecKeys(h) \/ ExecHgetall(h) \/ ExecHmset(h) \/ ExecDel(h)
  BY <1>2, ExecBase DEF Exec
<1>3. CASE \E h \in Server : ReplyNull(h) \/ ReplyHmset(h) \/ ReplyDel(h)
  BY <1>3, ReplyBase
<1>4. CASE UNCHANGED vars
  <2>1. TypeOK' /\ UNCHANGED <<wire, inbox, up, pc>>
    BY <1>4 DEF vars, Base, TypeOK
  <2> QED
    BY <2>1, SameQueues DEF Base
<1>5. CASE \/ \E s \in Socket : Connect(s) \/ ClientClose(s) \/ Logout(s)
           \/ \E m \in net : RelayDrop(m) \/ RelayKick(m)
           \/ \E r \in Request : LoginAgain(r)
  BY <1>5, QuietBase
<1>6. CASE \E r \in Request : Login(r)
  BY <1>6, LoginBase
<1>7. CASE \E s \in Socket : CloseEvent(s) \/ ErrorEvent(s)
  BY <1>7, DisconnectBase
<1>8. CASE \E h \in Server : LinkDrop(h)
  BY <1>8, DropBase
<1>9. CASE \E h \in Server : Exits(h) /\ exits' \in 0 .. MaxExit
  BY <1>9, ExitBase
<1>10. CASE \E h \in Server : Restart(h)
  BY <1>10, RestartBase
<1> QED
  BY <1>1, <1>2, <1>3, <1>4, <1>5, <1>6, <1>7, <1>8, <1>9, <1>10, StepCases

-----------------------------------------------------------------------------
(* How logins, websockets and userLists move from one state to the next.   *)

PcMove(q) ==
    \/ pc'[q] = pc[q]
    \/ /\ pc[q] = "idle" /\ pc'[q] \in {"again", "kick"}
       /\ Receives(q[1]) /\ ws'[q[1]] = ws[q[1]]
    \/ pc[q] = "kick" /\ pc'[q] \in {"sweep", "hung"}
    \/ pc[q] = "sweep" /\ pc'[q] \in {"set", "hung"}
    \/ pc[q] = "set" /\ pc'[q] = "done"
    \/ pc[q] # "idle" /\ pc'[q] = "lost" /\ reg'[q[1]] = NoUser

WsMove(s) ==
    \/ ws'[s] = ws[s]
    \/ ws[s] = "none" /\ ws'[s] = "open" /\ up[Home[s]] /\ up' = up
    \/ ws[s] \in {"open", "kicked", "closing"} /\ ws'[s] \in {"kicked", "closing", "closed"}
    \/ /\ ws[s] # "none" /\ ws'[s] = "dead" /\ reg'[s] = NoUser
       /\ \A q \in Request : q[1] = s => pc'[q] \in {"idle", "lost"}

RegMove(s) ==
    \/ reg'[s] = reg[s]
    \/ reg'[s] = NoUser
    \/ \E r \in Request : r[1] = s /\ r[2] = reg'[s] /\ pc[r] = "set" /\ pc'[r] = "done"

Moves ==
    /\ \A q \in Request : PcMove(q)
    /\ \A s \in Socket : WsMove(s) /\ RegMove(s)
    /\ \A s \in Socket : up[Home[s]] /\ ~up'[Home[s]] => ws'[s] \in {"none", "dead"}

LEMMA LookupMoves ==
    ASSUME Base, NEW h \in Server, ReplyKeys(h) \/ ReplyHgetall(h)
    PROVE  Moves
<1>1. PICK r \in Request, rest \in SUBSET Key, hits \in SUBSET Object :
              /\ Srv(r) = h /\ Given(h, r, rest, hits)
              /\ \/ \E k \in rest : LookupNext(h, r, rest, k)
                 \/ LookupKick(h, r, rest, hits)
                 \/ LookupSweep(h, r, rest, hits)
  BY LookupCases
<1>2. up' = up
  BY <1>1 DEF Given
<1>3. CASE \E k \in rest : LookupNext(h, r, rest, k)
  <2>1. pc' = pc /\ ws' = ws /\ reg' = reg
    BY <1>3 DEF LookupNext
  <2> QED
    BY <1>2, <2>1 DEF Moves, PcMove, WsMove, RegMove
<1>4. CASE LookupKick(h, r, rest, hits)
  <2>1. /\ pc[r] = "kick" /\ pc' = [pc EXCEPT ![r] = "sweep"] /\ ws' = ws
        /\ \A s \in Socket : reg'[s] = reg[s] \/ reg'[s] = NoUser
    BY <1>4 DEF LookupKick, SendKick
  <2> QED
    BY <1>2, <2>1 DEF Moves, PcMove, WsMove, RegMove, Base, TypeOK
<1>5. CASE LookupSweep(h, r, rest, hits)
  <2>1. /\ pc[r] = "sweep" /\ pc' = [pc EXCEPT ![r] = "set"] /\ reg' = reg
        /\ \A s \in Socket : ws'[s] = ws[s] \/ (ws[s] = "open" /\ ws'[s] = "kicked")
    BY <1>5 DEF LookupSweep, Sweep
  <2> QED
    BY <1>2, <2>1 DEF Moves, PcMove, WsMove, RegMove, Base, TypeOK
<1> QED
  BY <1>1, <1>3, <1>4, <1>5

LEMMA ExitMoves ==
    ASSUME Base, NEW h \in Server, Exits(h)
    PROVE  Moves
<1>1. PICK left : ProcessExit(h, left)
  BY DEF Exits
<1>2. ASSUME NEW q \in Request
      PROVE  /\ Home[q[1]] = h => /\ reg'[q[1]] = NoUser
                                  /\ pc'[q] = IF pc[q] = "idle" THEN "idle" ELSE "lost"
             /\ Home[q[1]] # h => pc'[q] = pc[q]
  BY <1>1, RequestParts DEF ProcessExit, Srv, Base, TypeOK
<1>3. ASSUME NEW s \in Socket
      PROVE  /\ Home[s] = h => /\ reg'[s] = NoUser
                               /\ ws'[s] = IF ws[s] = "none" THEN "none" ELSE "dead"
             /\ Home[s] # h => reg'[s] = reg[s] /\ ws'[s] = ws[s] /\ up'[Home[s]] = up[Home[s]]
  BY <1>1, HomeAssumption DEF ProcessExit, Base, TypeOK
<1>4. \A q \in Request : PcMove(q)
  BY <1>2 DEF PcMove
<1>5. \A s \in Socket : WsMove(s) /\ RegMove(s)
  BY <1>2, <1>3 DEF WsMove, RegMove
<1>6. \A s \in Socket : up[Home[s]] /\ ~up'[Home[s]] => ws'[s] \in {"none", "dead"}
  BY <1>3
<1> QED
  BY <1>4, <1>5, <1>6 DEF Moves

LEMMA StepMoves ==
    ASSUME Base, [Next]_vars
    PROVE  Moves
<1>1. CASE \E s \in Socket : Connect(s) \/ ClientClose(s) \/ Logout(s)
  <2>1. PICK s \in Socket : Connect(s) \/ ClientClose(s) \/ Logout(s)
    BY <1>1
  <2>2. UNCHANGED <<up, reg, pc>> /\ \A t \in Socket : t # s => ws'[t] = ws[t]
    BY <2>1 DEF Connect, ClientClose, Logout, loginVars, Base, TypeOK
  <2>3. WsMove(s)
    BY <2>1, <2>2 DEF Connect, ClientClose, Logout, WsMove, Base, TypeOK
  <2> QED
    BY <2>2, <2>3 DEF Moves, PcMove, WsMove, RegMove
<1>2. CASE \E m \in net : RelayDrop(m) \/ RelayKick(m)
  <2>1. UNCHANGED <<up, reg, pc>>
    BY <1>2 DEF RelayDrop, RelayKick, loginVars
  <2>2. \A s \in Socket : ws'[s] = ws[s] \/ (ws[s] = "open" /\ ws'[s] = "kicked")
    BY <1>2 DEF RelayDrop, RelayKick, Base, TypeOK
  <2> QED
    BY <2>1, <2>2 DEF Moves, PcMove, WsMove, RegMove
<1>3. CASE \E r \in Request : LoginAgain(r) \/ Login(r)
  <2>1. PICK r \in Request : LoginAgain(r) \/ Login(r)
    BY <1>3
  <2>2. UNCHANGED <<up, reg, ws>> /\ Receives(r[1]) /\ pc[r] = "idle"
        /\ (pc' = [pc EXCEPT ![r] = "again"] \/ pc' = [pc EXCEPT ![r] = "kick"])
    BY <2>1 DEF LoginAgain, Login, NextOnSocket
  <2> QED
    BY <2>2 DEF Moves, PcMove, WsMove, RegMove, Base, TypeOK
<1>4. CASE \E s \in Socket : CloseEvent(s) \/ ErrorEvent(s)
  <2>1. PICK s \in Socket : CloseEvent(s) \/ ErrorEvent(s)
    BY <1>4
  <2>2. UNCHANGED <<up, pc>> /\ reg' = [reg EXCEPT ![s] = NoUser]
    BY <2>1 DEF CloseEvent, ErrorEvent, Disconnect, loginVars
  <2>3. \A t \in Socket : \/ ws'[t] = ws[t]
                          \/ /\ ws[t] \in {"open", "kicked", "closing"}
                             /\ ws'[t] \in {"kicked", "closing", "closed"}
    BY <2>1 DEF CloseEvent, ErrorEvent, Base, TypeOK
  <2> QED
    BY <2>2, <2>3 DEF Moves, PcMove, WsMove, RegMove, Base, TypeOK
<1>5. CASE \E h \in Server : ReplyNull(h)
  <2>1. PICK h \in Server : ReplyNull(h)
    BY <1>5
  <2>2. PICK r \in Request : /\ r = Head(inbox[h]).req /\ pc[r] \in {"kick", "sweep"}
                             /\ pc' = [pc EXCEPT ![r] = "hung"]
    <3>1. inbox[h] # <<>> /\ Head(inbox[h]).op = "hgetall"
          /\ pc' = [pc EXCEPT ![Head(inbox[h]).req] = "hung"]
      BY <2>1 DEF ReplyNull, Replied
    <3>2. Head(inbox[h]).req \in Request /\ pc[Head(inbox[h]).req] \in {"kick", "sweep"}
      BY <3>1, HeadReply, RequestParts DEF GoodReply, Match
    <3> QED
      BY <3>1, <3>2
  <2>3. UNCHANGED <<up, reg, ws>>
    BY <2>1 DEF ReplyNull
  <2> QED
    BY <2>2, <2>3 DEF Moves, PcMove, WsMove, RegMove, Base, TypeOK
<1>6. CASE \E h \in Server : ReplyHmset(h)
  <2>1. PICK h \in Server : ReplyHmset(h)
    BY <1>6
  <2>2. PICK r \in Request : /\ r = Head(inbox[h]).req /\ pc[r] = "set"
                             /\ pc' = [pc EXCEPT ![r] = "done"]
                             /\ reg' = [reg EXCEPT ![r[1]] = r[2]]
    <3>1. inbox[h] # <<>> /\ Head(inbox[h]).op = "hmset"
          /\ pc' = [pc EXCEPT ![Head(inbox[h]).req] = "done"]
          /\ reg' = [reg EXCEPT ![Head(inbox[h]).req[1]] = Head(inbox[h]).req[2]]
      BY <2>1 DEF ReplyHmset, Replied
    <3>2. Head(inbox[h]).req \in Request /\ pc[Head(inbox[h]).req] = "set"
      BY <3>1, HeadReply, RequestParts DEF GoodReply, Match
    <3> QED
      BY <3>1, <3>2
  <2>3. UNCHANGED <<up, ws>>
    BY <2>1 DEF ReplyHmset
  <2>4. pc'[r] = "done" /\ reg'[r[1]] = r[2] /\ \A s \in Socket : s # r[1] => reg'[s] = reg[s]
    BY <2>2, RequestParts DEF Base, TypeOK
  <2>5. \A s \in Socket : RegMove(s)
    BY <2>2, <2>4 DEF RegMove
  <2>6. \A q \in Request : PcMove(q)
    BY <2>2 DEF PcMove, Base, TypeOK
  <2> QED
    BY <2>3, <2>5, <2>6 DEF Moves, WsMove
<1>7. CASE \/ \E h \in Server : \/ ExecKeys(h) \/ ExecHgetall(h) \/ ExecHmset(h)
                                \/ ExecDel(h) \/ ReplyDel(h) \/ LinkDrop(h)
           \/ UNCHANGED vars
  <2>1. UNCHANGED <<up, ws, reg, pc>>
    BY <1>7 DEF ExecKeys, ExecHgetall, ExecHmset, ExecDel, ReplyDel, LinkDrop, loginVars, vars
  <2> QED
    BY <2>1 DEF Moves, PcMove, WsMove, RegMove
<1>8. CASE \E h \in Server : Restart(h)
  <2>1. UNCHANGED <<ws, reg, pc>> /\ \A h \in Server : up[h] => up'[h]
    BY <1>8 DEF Restart, loginVars, Base, TypeOK
  <2> QED
    BY <2>1, HomeAssumption DEF Moves, PcMove, WsMove, RegMove
<1> QED
  BY <1>1, <1>2, <1>3, <1>4, <1>5, <1>6, <1>7, <1>8, StepCases, LookupMoves, ExitMoves

\* A request has a websocket; a dead websocket has no login or user left, and so has
\* every websocket of a process that is down; a registered user has logged in.
Life ==
    /\ \A r \in Request : pc[r] # "idle" => ws[r[1]] # "none"
    /\ \A s \in Socket :
          /\ ~up[Home[s]] => ws[s] \in {"none", "dead"}
          /\ ws[s] = "dead" => \A q \in Request : q[1] = s => pc[q] \in {"idle", "lost"}
          /\ reg[s] # NoUser =>
                \E q \in Request : q[1] = s /\ q[2] = reg[s] /\ pc[q] = "done"

LEMMA LifeStep ==
    ASSUME Base, Life, Moves
    PROVE  Life'
<1>1. ASSUME NEW r \in Request, pc'[r] # "idle" PROVE ws'[r[1]] # "none"
  BY <1>1, RequestParts DEF Moves, PcMove, WsMove, Life, Receives
<1>2. ASSUME NEW s \in Socket, ~up'[Home[s]] PROVE ws'[s] \in {"none", "dead"}
  BY <1>2 DEF Moves, WsMove, Life
<1>3. ASSUME NEW s \in Socket, ws'[s] = "dead", NEW q \in Request, q[1] = s
      PROVE  pc'[q] \in {"idle", "lost"}
  BY <1>3 DEF Moves, PcMove, WsMove, Life, Receives
<1>4. ASSUME NEW s \in Socket, reg'[s] # NoUser
      PROVE  \E q \in Request : q[1] = s /\ q[2] = reg'[s] /\ pc'[q] = "done"
  <2>1. CASE reg'[s] = reg[s]
    <3>1. PICK q \in Request : q[1] = s /\ q[2] = reg[s] /\ pc[q] = "done"
      BY <1>4, <2>1 DEF Life
    <3>2. pc'[q] = "done"
      BY <1>4, <3>1 DEF Moves, PcMove
    <3> QED
      BY <2>1, <3>1, <3>2
  <2>2. CASE \E r \in Request : r[1] = s /\ r[2] = reg'[s] /\ pc[r] = "set" /\ pc'[r] = "done"
    BY <2>2
  <2> QED
    BY <1>4, <2>1, <2>2 DEF Moves, RegMove
<1> QED
  BY <1>1, <1>2, <1>3, <1>4 DEF Life

\* The hash k has been written, or will be, by some login.
Wrote(k) == \E q \in Request : OwnKey(q) = k /\ pc[q] \in {"set", "done", "lost"}

LEMMA WroteStays ==
    ASSUME Moves, NEW k, Wrote(k)
    PROVE  Wrote(k)'
BY DEF Wrote, Moves, PcMove

LEMMA OneStays ==
    ASSUME Moves, NEW s
    PROVE  /\ OneLogin(s)' => OneLogin(s)
           /\ OneUser(s)' => OneUser(s)
<1>1. \A q \in Request : Accepted(q) => Accepted(q)'
  BY DEF Accepted, Moves, PcMove
<1> QED
  BY <1>1 DEF OneLogin, OneUser

\* On a socket with one accepted login, that login wrote what there is.
LEMMA SoleWriter ==
    ASSUME NEW r \in Request, OneLogin(r[1]), Accepted(r), NEW u, Wrote(<<u, r[1]>>)
    PROVE  u = r[2] /\ pc[r] \in {"set", "done", "lost"}
<1>1. PICK q \in Request : OwnKey(q) = <<u, r[1]>> /\ pc[q] \in {"set", "done", "lost"}
  BY DEF Wrote
<1>2. q[2] = u /\ q[1] = r[1] /\ Accepted(q)
  BY <1>1 DEF OwnKey, Accepted
<1> QED
  BY <1>1, <1>2 DEF OneLogin

LEMMA RegWrote ==
    ASSUME Life, NEW s \in Socket, reg[s] # NoUser
    PROVE  Wrote(<<reg[s], s>>)
BY DEF Life, Wrote, OwnKey

-----------------------------------------------------------------------------
(* Which deletions are under way, and which HGETALL replies list a key.    *)

DelIn(h, k) ==
    \E i \in 1 .. Len(wire[h]) : wire[h][i].op = "del" /\ k \in wire[h][i].keys

ListIn(h, k) ==
    \E i \in 1 .. Len(inbox[h]) : inbox[h][i].op = "hgetall" /\ k \in inbox[h][i].list

LEMMA FedDels ==
    ASSUME NEW h \in Server, NEW cmds, Fed(h, cmds), NEW g \in Server, NEW k
    PROVE  /\ DelIn(g, k) => DelIn(g, k)'
           /\ DelIn(g, k)' =>
                 \/ DelIn(g, k)
                 \/ g = h /\ \E i \in 1 .. Len(cmds) : cmds[i].op = "del" /\ k \in cmds[i].keys
<1>1. CASE g # h
  <2>1. wire'[g] = wire[g]
    BY <1>1 DEF Fed
  <2> QED
    BY <2>1 DEF DelIn
<1>2. CASE g = h
  <2>1. ASSUME NEW i \in 1 .. Len(wire'[h])
        PROVE  \/ i \in 1 .. Len(wire[h]) /\ wire'[h][i] = wire[h][i]
               \/ \E j \in 1 .. Len(cmds) : wire'[h][i] = cmds[j]
    BY DEF Fed
  <2>2. \A i \in 1 .. Len(wire[h]) : wire'[h][i] = wire[h][i] /\ i \in 1 .. Len(wire'[h])
    BY DEF Fed
  <2>3. DelIn(h, k) => DelIn(h, k)'
    BY <2>2 DEF DelIn
  <2>4. ASSUME DelIn(h, k)'
        PROVE  DelIn(h, k) \/ \E i \in 1 .. Len(cmds) : cmds[i].op = "del" /\ k \in cmds[i].keys
    BY <2>1, <2>4 DEF DelIn
  <2> QED
    BY <1>2, <2>3, <2>4
<1> QED
  BY <1>1, <1>2

LEMMA OneFed ==
    ASSUME NEW h \in Server, NEW c \in Command, Fed(h, <<c>>), NEW g \in Server, NEW k
    PROVE  /\ DelIn(g, k) => DelIn(g, k)'
           /\ DelIn(g, k)' => DelIn(g, k) \/ (g = h /\ c.op = "del" /\ k \in c.keys)
           /\ c.op = "del" /\ k \in c.keys => DelIn(h, k)'
<1>1. Len(<<c>>) = 1 /\ <<c>>[1] = c
  OBVIOUS
<1>2. PICK cs : cs = <<c>>
  OBVIOUS
<1>3. Len(cs) = 1 /\ cs[1] = c /\ Fed(h, cs)
  BY <1>1, <1>2
<1>4. /\ DelIn(g, k) => DelIn(g, k)'
      /\ DelIn(g, k)' =>
            \/ DelIn(g, k)
            \/ g = h /\ \E i \in 1 .. Len(cs) : cs[i].op = "del" /\ k \in cs[i].keys
  BY <1>3, FedDels
<1>5. \A i \in 1 .. Len(cs) : cs[i] = c
  BY <1>3
<1>6. Len(wire[h]) + 1 \in 1 .. Len(wire'[h]) /\ wire'[h][Len(wire[h]) + 1] = c
  BY <1>3 DEF Fed
<1>7. c.op = "del" /\ k \in c.keys => DelIn(h, k)'
  BY <1>6 DEF DelIn
<1> QED
  BY <1>4, <1>5, <1>7

LEMMA KickFed ==
    ASSUME NEW h \in Server, NEW r \in Request, NEW ks \in SUBSET Key,
           Fed(h, KickCommands(r, ks)), NEW g \in Server, NEW k
    PROVE  /\ DelIn(g, k) => DelIn(g, k)'
           /\ DelIn(g, k)' => DelIn(g, k) \/ (g = h /\ k \in ks)
           /\ k \in ks => DelIn(h, k)'
<1>1. PICK cs : cs = KickCommands(r, ks)
  OBVIOUS
<1>2. /\ Fed(h, cs) /\ Len(cs) = IF ks = {} THEN 1 ELSE 2
      /\ ks = {} => cs[1] = Cmd("keys", r, {})
      /\ ks # {} => cs[1] = Cmd("del", NoReq, ks) /\ cs[2] = Cmd("keys", r, {})
  BY <1>1, KickFacts
<1>3. /\ Cmd("keys", r, {}).op = "keys"
      /\ Cmd("del", NoReq, ks).op = "del" /\ Cmd("del", NoReq, ks).keys = ks
  BY DEF Cmd
<1>4. \A i \in 1 .. Len(cs) : cs[i].op = "del" => cs[i].keys = ks
  <2>1. \A i \in 1 .. Len(cs) : i = 1 \/ (i = 2 /\ ks # {})
    BY <1>2
  <2> QED
    BY <1>2, <1>3, <2>1
<1>5. /\ DelIn(g, k) => DelIn(g, k)'
      /\ DelIn(g, k)' => DelIn(g, k) \/ (g = h /\ k \in ks)
  BY <1>2, <1>4, FedDels
<1>6. ASSUME k \in ks PROVE DelIn(h, k)'
  <2>1. 1 \in 1 .. Len(cs) /\ cs[1] = Cmd("del", NoReq, ks)
    BY <1>2, <1>6
  <2>2. Len(wire[h]) + 1 \in 1 .. Len(wire'[h]) /\ wire'[h][Len(wire[h]) + 1] = cs[1]
    BY <1>2, <2>1 DEF Fed
  <2> QED
    BY <1>3, <1>6, <2>1, <2>2 DEF DelIn
<1> QED
  BY <1>5, <1>6

LEMMA ShiftedDels ==
    ASSUME NEW h \in Server, Shifted(h), NEW g \in Server, NEW k
    PROVE  /\ DelIn(g, k)' => DelIn(g, k)
           /\ DelIn(g, k) /\ ~(g = h /\ wire[h][1].op = "del" /\ k \in wire[h][1].keys)
                 => DelIn(g, k)'
<1>1. CASE g # h
  <2>1. wire'[g] = wire[g]
    BY <1>1 DEF Shifted
  <2> QED
    BY <1>1, <2>1 DEF DelIn
<1>2. CASE g = h
  BY <1>2 DEF Shifted, DelIn
<1> QED
  BY <1>1, <1>2

LEMMA ShrunkDels ==
    ASSUME Base, NEW h \in Server, wire[h] # <<>>, Head(wire[h]).op = "del", NEW l,
           Shrunk(h, l), NEW g \in Server, NEW k
    PROVE  /\ DelIn(g, k)' => DelIn(g, k)
           /\ DelIn(g, k) /\ k # l => DelIn(g, k)'
<1>1. CASE g # h
  <2>1. wire'[g] = wire[g]
    BY <1>1 DEF Shrunk
  <2> QED
    BY <2>1 DEF DelIn
<1>2. CASE g = h
  <2>1. wire[h][1] \in Command /\ wire[h][1].op = "del"
    BY HeadCommand
  <2>2. Len(wire'[h]) = Len(wire[h])
    BY DEF Shrunk
  <2>3. ASSUME NEW i \in 1 .. Len(wire[h])
        PROVE  /\ wire'[h][i].op = wire[h][i].op
               /\ \/ wire'[h][i].keys = wire[h][i].keys
                  \/ wire'[h][i].keys = wire[h][i].keys \ {l}
    BY <2>1 DEF Shrunk, Command
  <2> QED
    BY <1>2, <2>2, <2>3 DEF DelIn
<1> QED
  BY <1>1, <1>2

LEMMA CutDels ==
    ASSUME Base, NEW h \in Server, LinkDrop(h), NEW g \in Server, NEW k
    PROVE  /\ DelIn(g, k)' => DelIn(g, k)
           /\ DelIn(g, k) => DelIn(g, k)' \/ k \in torn'
           /\ ListIn(g, k)' => ListIn(g, k)
<1>0. Cut(h)
  BY DropBase
<1>1. CASE g # h
  <2>1. wire'[g] = wire[g] /\ inbox'[g] = inbox[g]
    BY <1>0, <1>1 DEF Cut
  <2> QED
    BY <2>1 DEF DelIn, ListIn
<1>2. CASE g = h
  <2>1. Len(wire'[h]) = 0
    BY <1>0 DEF Cut
  <2>2. ~DelIn(h, k)'
    BY <2>1 DEF DelIn
  <2>3. DelIn(h, k) => k \in torn'
    BY DropBase DEF DelIn
  <2>4. ASSUME NEW i \in 1 .. Len(inbox'[h]) PROVE inbox'[h][i].list = {}
    <3>1. CASE i \in 1 .. Len(inbox[h])
      <4>1. inbox'[h][i] = Answer(inbox[h][i], {})
        BY <1>0, <3>1 DEF Cut
      <4> QED
        BY <4>1 DEF Answer
    <3>2. CASE /\ i - Len(inbox[h]) \in 1 .. Len(wire[h])
               /\ i = Len(inbox[h]) + (i - Len(inbox[h]))
      <4>1. inbox'[h][i] = Answer(wire[h][i - Len(inbox[h])], {})
        BY <1>0, <3>2 DEF Cut
      <4> QED
        BY <4>1 DEF Answer
    <3> QED
      BY <1>0, <3>1, <3>2 DEF Cut
  <2>5. ~ListIn(h, k)'
    BY <2>4 DEF ListIn
  <2> QED
    BY <1>2, <2>2, <2>3, <2>5
<1> QED
  BY <1>1, <1>2

LEMMA ExitDels ==
    ASSUME NEW h \in Server, NEW left, Left(h, left), ProcessExit(h, left), Base,
           NEW g \in Server, NEW k
    PROVE  /\ g # h => (DelIn(g, k)' <=> DelIn(g, k))
           /\ DelIn(h, k)' => \/ DelIn(h, k)
                              \/ Home[k[2]] = h /\ reg[k[2]] # NoUser /\ reg[k[2]] = k[1]
           /\ ListIn(g, k)' => ListIn(g, k)
<1>1. /\ wire'[h] = left /\ Len(inbox'[h]) = 0
      /\ g # h => wire'[g] = wire[g] /\ inbox'[g] = inbox[g]
  BY DEF ProcessExit, Base, TypeOK
<1>2. DelIn(h, k)' => \/ DelIn(h, k)
                      \/ Home[k[2]] = h /\ reg[k[2]] # NoUser /\ reg[k[2]] = k[1]
  BY <1>1 DEF DelIn, Left
<1>3. ListIn(g, k)' => ListIn(g, k)
  BY <1>1 DEF ListIn
<1>4. g # h => (DelIn(g, k)' <=> DelIn(g, k))
  BY <1>1 DEF DelIn
<1> QED
  BY <1>2, <1>3, <1>4

LEMMA EatenLists ==
    ASSUME NEW h \in Server, Eaten(h), NEW g \in Server, NEW k, ListIn(g, k)'
    PROVE  ListIn(g, k)
<1>1. CASE g # h
  BY <1>1 DEF Eaten, ListIn
<1>2. CASE g = h
  BY <1>2 DEF Eaten, ListIn
<1> QED
  BY <1>1, <1>2

LEMMA AnsweredLists ==
    ASSUME NEW h \in Server, NEW x, Answered(h, x), NEW g \in Server, NEW k, ListIn(g, k)'
    PROVE  ListIn(g, k) \/ (g = h /\ x.op = "hgetall" /\ k \in x.list)
<1>1. CASE g # h
  <2>1. inbox'[g] = inbox[g]
    BY <1>1 DEF Answered
  <2> QED
    BY <2>1 DEF ListIn
<1>2. CASE g = h
  <2>1. \A i \in 1 .. Len(inbox'[h]) :
           \/ i \in 1 .. Len(inbox[h]) /\ inbox'[h][i] = inbox[h][i]
           \/ inbox'[h][i] = x
    BY DEF Answered
  <2> QED
    BY <1>2, <2>1 DEF ListIn
<1> QED
  BY <1>1, <1>2

-----------------------------------------------------------------------------
(* What one step does to the keys, the deletions, the lists and the found   *)
(* objects, whatever the step is.                                           *)

\* Redis runs a command of server h to its end, or a DEL for one of its keys.
ExecWhole(h) ==
    LET c == Head(wire[h]) IN
    /\ Shifted(h)
    /\ \E list \in SUBSET Key :
          /\ Answered(h, Answer(c, list))
          /\ c.op = "keys" => list = {k \in keys : k[1] \in Matches[c.req[2]]}
          /\ c.op = "hgetall" => list = c.keys \cap keys
    /\ c.op = "del" => \E k \in c.keys : c.keys = {k} /\ keys' = keys \ {k}
    /\ c.op = "hmset" => keys' = keys \cup c.keys
    /\ c.op \in {"keys", "hgetall"} => keys' = keys

ExecPart(h) ==
    /\ Head(wire[h]).op = "del" /\ inbox' = inbox
    /\ \E k \in Head(wire[h]).keys : keys' = keys \ {k} /\ Shrunk(h, k)

LEMMA ExecShape ==
    ASSUME Base, NEW h \in Server,
           \/ ExecKeys(h) \/ ExecHgetall(h) \/ ExecHmset(h) \/ ExecDel(h)
    PROVE  /\ wire[h] # <<>> /\ UNCHANGED <<up, ws, reg, pc, todo, found, net, torn>>
           /\ ExecWhole(h) \/ ExecPart(h)
<1>1. CASE ExecKeys(h)
  <2> DEFINE r == Head(wire[h]).req
             list == {k \in keys : k[1] \in Matches[r[2]]}
  <2>1. /\ wire[h] # <<>> /\ Head(wire[h]).op = "keys" /\ Executed(h, list)
        /\ UNCHANGED <<keys, up, ws, reg, pc, todo, found, net, torn>>
    BY <1>1 DEF ExecKeys, Next1
  <2>2. list \in SUBSET Key /\ list = {k \in keys : k[1] \in Matches[Head(wire[h]).req[2]]}
    BY DEF Base, TypeOK
  <2> HIDE DEF list, r
  <2>4. Shifted(h) /\ Answered(h, Answer(Head(wire[h]), list))
    BY <2>1, <2>2, ExecutedFacts DEF Base
  <2> QED
    BY <2>1, <2>2, <2>4 DEF ExecWhole
<1>2. CASE ExecHgetall(h)
  <2> DEFINE list == Head(wire[h]).keys \cap keys
  <2>1. /\ wire[h] # <<>> /\ Head(wire[h]).op = "hgetall" /\ Executed(h, list)
        /\ UNCHANGED <<keys, up, ws, reg, pc, todo, found, net, torn>>
    BY <1>2 DEF ExecHgetall, Next1, loginVars
  <2>2. list \in SUBSET Key /\ list = Head(wire[h]).keys \cap keys
    BY DEF Base, TypeOK
  <2> HIDE DEF list
  <2>4. Shifted(h) /\ Answered(h, Answer(Head(wire[h]), list))
    BY <2>1, <2>2, ExecutedFacts DEF Base
  <2> QED
    BY <2>1, <2>2, <2>4 DEF ExecWhole
<1>3. CASE ExecHmset(h)
  <2>1. /\ wire[h] # <<>> /\ Head(wire[h]).op = "hmset" /\ Executed(h, {})
        /\ keys' = keys \cup Head(wire[h]).keys
        /\ UNCHANGED <<up, ws, reg, pc, todo, found, net, torn>>
    BY <1>3 DEF ExecHmset, Next1, loginVars
  <2>2. Shifted(h) /\ Answered(h, Answer(Head(wire[h]), {}))
    BY <2>1, ExecutedFacts DEF Base
  <2> QED
    BY <2>1, <2>2 DEF ExecWhole
<1>4. CASE ExecDel(h)
  <2>1. PICK k \in Head(wire[h]).keys :
          /\ keys' = keys \ {k}
          /\ \/ Head(wire[h]).keys = {k} /\ Executed(h, {})
             \/ wire' = [wire EXCEPT ![h][1].keys = @ \ {k}] /\ UNCHANGED inbox
    BY <1>4 DEF ExecDel
  <2>2. /\ wire[h] # <<>> /\ Head(wire[h]).op = "del"
        /\ UNCHANGED <<up, ws, reg, pc, todo, found, net, torn>>
    BY <1>4 DEF ExecDel, Next1, loginVars
  <2>3. CASE Head(wire[h]).keys = {k} /\ Executed(h, {})
    <3>1. Shifted(h) /\ Answered(h, Answer(Head(wire[h]), {}))
      BY <2>2, <2>3, ExecutedFacts DEF Base
    <3>2. \E l \in Head(wire[h]).keys : Head(wire[h]).keys = {l} /\ keys' = keys \ {l}
      BY <2>1, <2>3
    <3> QED
      BY <2>2, <3>1, <3>2 DEF ExecWhole
  <2>4. CASE wire' = [wire EXCEPT ![h][1].keys = @ \ {k}] /\ UNCHANGED inbox
    <3>1. Shrunk(h, k)
      BY <2>2, <2>4, DelQueues
    <3> QED
      BY <2>1, <2>2, <2>4, <3>1 DEF ExecPart
  <2> QED
    BY <2>1, <2>3, <2>4
<1> QED
  BY <1>1, <1>2, <1>3, <1>4

\* A new DEL removes the entry of a registered user, or an object a lookup found; the
\* socket is not registered afterwards.
LEMMA DelGrows ==
    ASSUME Base, [Next]_vars, NEW g \in Server, NEW k \in Key, DelIn(g, k)', ~DelIn(g, k)
    PROVE  /\ Home[k[2]] = g /\ reg'[k[2]] = NoUser
           /\ \/ reg[k[2]] # NoUser /\ reg[k[2]] = k[1]
              \/ \E r \in Request : Srv(r) = g /\ \E e \in found'[r] : <<e[1], e[2]>> = k
<1> USE DEF Key
<1>1. wire' # wire
  BY DEF DelIn
<1>2. CASE \E r \in Request : Login(r)
  <2>1. PICK r \in Request : Login(r)
    BY <1>2
  <2>2. Cmd("keys", r, {}) \in Command /\ Cmd("keys", r, {}).op = "keys" /\ Srv(r) \in Server
    BY CmdTyped, RequestParts DEF Op
  <2> QED
    BY <2>1, <2>2, LoginBase, OneFed
<1>3. CASE \E s \in Socket : CloseEvent(s) \/ ErrorEvent(s)
  <2>1. PICK s \in Socket : CloseEvent(s) \/ ErrorEvent(s)
    BY <1>3
  <2>2. Disconnect(s)
    BY <2>1 DEF CloseEvent, ErrorEvent
  <2>3. Home[s] \in Server /\ reg' = [reg EXCEPT ![s] = NoUser] /\ reg[s] # NoUser
    BY <1>1, <2>2, DisconnectIssues DEF Base
  <2> DEFINE c == Cmd("del", NoReq, {<<reg[s], s>>})
  <2>4. c \in Command /\ c.keys = {<<reg[s], s>>} /\ Fed(Home[s], <<c>>)
    <3>1. c \in Command
      BY <2>2, <2>3, DisconnectIssues DEF Base
    <3>2. c.keys = {<<reg[s], s>>}
      BY DEF Cmd
    <3>3. Fed(Home[s], <<c>>)
      BY <2>1, <2>3, DisconnectBase
    <3> QED
      BY <3>1, <3>2, <3>3
  <2> HIDE DEF c
  <2>5. g = Home[s] /\ k = <<reg[s], s>>
    BY <2>3, <2>4, OneFed
  <2> QED
    BY <2>3, <2>5 DEF Base, TypeOK
<1>4. CASE \E h \in Server : ExecKeys(h) \/ ExecHgetall(h) \/ ExecHmset(h) \/ ExecDel(h)
  <2>1. PICK h \in Server : ExecKeys(h) \/ ExecHgetall(h) \/ ExecHmset(h) \/ ExecDel(h)
    BY <1>4
  <2>2. CASE ExecWhole(h)
    BY <2>2, ShiftedDels DEF ExecWhole
  <2>3. CASE ExecPart(h)
    BY <2>1, <2>3, ExecShape, ShrunkDels DEF ExecPart
  <2> QED
    BY <2>1, <2>2, <2>3, ExecShape
<1>5. CASE \E h \in Server : ReplyKeys(h) \/ ReplyHgetall(h)
  <2>1. PICK h \in Server : ReplyKeys(h) \/ ReplyHgetall(h)
    BY <1>5
  <2>2. PICK r \in Request, rest \in SUBSET Key, hits \in SUBSET Object :
              /\ Srv(r) = h /\ Given(h, r, rest, hits)
              /\ \/ \E l \in rest : LookupNext(h, r, rest, l)
                 \/ LookupKick(h, r, rest, hits)
                 \/ LookupSweep(h, r, rest, hits)
    BY <2>1, LookupCases
  <2>3. CASE \E l \in rest : LookupNext(h, r, rest, l)
    <3>1. PICK l \in rest : LookupNext(h, r, rest, l)
      BY <2>3
    <3>2. Cmd("hgetall", r, {l}) \in Command /\ Cmd("hgetall", r, {l}).op = "hgetall"
      BY CmdTyped DEF Op
    <3>3. Fed(h, <<Cmd("hgetall", r, {l})>>)
      BY <2>2, <3>1, LookupBase
    <3> QED
      BY <3>2, <3>3, OneFed
  <2>4. CASE LookupSweep(h, r, rest, hits)
    <3>2. Cmd("hmset", r, {OwnKey(r)}) \in Command /\ Cmd("hmset", r, {OwnKey(r)}).op = "hmset"
      BY CmdTyped, RequestParts DEF Op
    <3>3. Fed(h, <<Cmd("hmset", r, {OwnKey(r)})>>)
      BY <2>2, <2>4, LookupBase
    <3> QED
      BY <3>2, <3>3, OneFed
  <2>5. CASE LookupKick(h, r, rest, hits)
    <3>1. Fed(h, KickCommands(r, ExpiredKeys(r, hits)))
      BY <2>2, <2>5, LookupBase
    <3>2. /\ ExpiredKeys(r, hits) \in SUBSET Key
          /\ \A l \in ExpiredKeys(r, hits) : Home[l[2]] = Srv(r)
          /\ reg' = [s \in Socket |->
                        IF \E e \in Expired(r, hits) : e[2] = s THEN NoUser ELSE reg[s]]
      BY <2>5, KickIssues DEF LookupKick
    <3>3. g = h /\ k \in ExpiredKeys(r, hits)
      BY <3>1, <3>2, KickFed
    <3>4. PICK e \in Expired(r, hits) : <<e[1], e[2]>> = k
      BY <3>3 DEF ExpiredKeys
    <3>5. e \in hits /\ k[2] = e[2] /\ found'[r] = hits
      BY <2>2, <3>4 DEF Expired, Given, Base, TypeOK
    <3>6. reg'[k[2]] = NoUser
      BY <3>2, <3>4, <3>5
    <3> QED
      BY <2>2, <3>2, <3>3, <3>4, <3>5, <3>6
  <2> QED
    BY <2>2, <2>3, <2>4, <2>5
<1>6. CASE \E h \in Server : LinkDrop(h)
  BY <1>6, CutDels
<1>7. CASE \E h \in Server : Exits(h)
  <2>1. PICK h \in Server : Exits(h)
    BY <1>7
  <2>2. PICK left : Left(h, left) /\ ProcessExit(h, left)
    BY <2>1 DEF Exits
  <2>3. g = h /\ Home[k[2]] = h /\ reg[k[2]] # NoUser /\ reg[k[2]] = k[1]
    BY <2>2, ExitDels
  <2> QED
    BY <2>2, <2>3 DEF ProcessExit
<1>8. CASE wire' = wire
  BY <1>1, <1>8
<1>9. \/ \E s \in Socket : Connect(s) \/ ClientClose(s) \/ Logout(s)
      \/ \E m \in net : RelayDrop(m) \/ RelayKick(m)
      \/ \E r \in Request : LoginAgain(r)
      \/ \E h \in Server : ReplyNull(h) \/ ReplyHmset(h) \/ ReplyDel(h) \/ Restart(h)
      \/ UNCHANGED vars
      => wire' = wire
  BY DEF Connect, ClientClose, Logout, RelayDrop, RelayKick, LoginAgain, ReplyNull,
         ReplyHmset, ReplyDel, Restart, redisVars, vars
<1> QED
  BY <1>2, <1>3, <1>4, <1>5, <1>6, <1>7, <1>8, <1>9, StepCases

\* An HGETALL reply lists what Redis holds.
LEMMA ListGrows ==
    ASSUME Base, [Next]_vars, NEW g \in Server, NEW k, ListIn(g, k)', ~ListIn(g, k)
    PROVE  k \in keys
<1>1. CASE \E h \in Server : ExecKeys(h) \/ ExecHgetall(h) \/ ExecHmset(h) \/ ExecDel(h)
  <2>1. PICK h \in Server : ExecKeys(h) \/ ExecHgetall(h) \/ ExecHmset(h) \/ ExecDel(h)
    BY <1>1
  <2>2. CASE ExecWhole(h)
    <3>1. PICK list \in SUBSET Key :
            /\ Answered(h, Answer(Head(wire[h]), list))
            /\ Head(wire[h]).op = "hgetall" => list = Head(wire[h]).keys \cap keys
      BY <2>2 DEF ExecWhole
    <3>2. /\ Answer(Head(wire[h]), list).op = Head(wire[h]).op
          /\ Answer(Head(wire[h]), list).list = list
      BY <2>1, ExecShape, HeadCommand, AnswerTyped
    <3>3. Head(wire[h]).op = "hgetall" /\ k \in list
      BY <3>1, <3>2, AnsweredLists
    <3> QED
      BY <3>1, <3>3
  <2>3. CASE ExecPart(h)
    BY <2>3 DEF ExecPart, ListIn
  <2> QED
    BY <2>1, <2>2, <2>3, ExecShape
<1>2. CASE \E h \in Server : ReplyKeys(h) \/ ReplyHgetall(h)
  <2>1. PICK h \in Server : ReplyKeys(h) \/ ReplyHgetall(h)
    BY <1>2
  <2>2. Eaten(h)
    BY <2>1, LookupCases, LookupBase
  <2> QED
    BY <2>2, EatenLists
<1>3. CASE \E h \in Server : ReplyNull(h) \/ ReplyHmset(h) \/ ReplyDel(h)
  BY <1>3, ReplyBase, EatenLists
<1>4. CASE \E h \in Server : LinkDrop(h)
  BY <1>4, CutDels
<1>5. CASE \E h \in Server : Exits(h)
  BY <1>5, ExitDels DEF Exits
<1>6. CASE inbox' = inbox
  BY <1>6 DEF ListIn
<1>7. \/ \E s \in Socket : Connect(s) \/ ClientClose(s) \/ Logout(s)
      \/ \E m \in net : RelayDrop(m) \/ RelayKick(m)
      \/ \E r \in Request : LoginAgain(r) \/ Login(r)
      \/ \E s \in Socket : CloseEvent(s) \/ ErrorEvent(s)
      \/ \E h \in Server : Restart(h)
      \/ UNCHANGED vars
      => inbox' = inbox
  BY DEF Connect, ClientClose, Logout, RelayDrop, RelayKick, LoginAgain, Login, CloseEvent,
         ErrorEvent, Restart, redisVars, vars
<1> QED
  BY <1>1, <1>2, <1>3, <1>4, <1>5, <1>6, <1>7, StepCases

\* A lookup's objects come from the HGETALL reply that its server handles.
LEMMA FoundGrows ==
    ASSUME Base, [Next]_vars, NEW r \in Request, NEW e \in found'[r], e \notin found[r]
    PROVE  LET h == Srv(r) IN
           /\ inbox[h] # <<>> /\ Head(inbox[h]).op = "hgetall" /\ Head(inbox[h]).req = r
           /\ \E k \in Head(inbox[h]).list : e = UserObject(h, k)
<1>1. CASE \E h \in Server : ReplyKeys(h) \/ ReplyHgetall(h)
  <2>1. PICK h \in Server : ReplyKeys(h) \/ ReplyHgetall(h)
    BY <1>1
  <2>2. PICK q \in Request, rest \in SUBSET Key, hits \in SUBSET Object :
              Srv(q) = h /\ Given(h, q, rest, hits)
    BY <2>1, LookupCases
  <2>3. r = q /\ e \in hits
    BY <2>2 DEF Given, Base, TypeOK
  <2> QED
    BY <2>2, <2>3 DEF Given
<1>2. CASE \E h \in Server : Exits(h)
  <2>0. PICK h \in Server : Exits(h)
    BY <1>2
  <2>1. PICK left : ProcessExit(h, left)
    BY <2>0 DEF Exits
  <2> QED
    BY <2>1 DEF ProcessExit
<1>3. CASE \E h \in Server : ReplyHmset(h)
  BY <1>3 DEF ReplyHmset, Base, TypeOK
<1>4. CASE found' = found
  BY <1>4
<1>5. \/ \E s \in Socket : Connect(s) \/ ClientClose(s) \/ Logout(s)
      \/ \E m \in net : RelayDrop(m) \/ RelayKick(m)
      \/ \E q \in Request : LoginAgain(q) \/ Login(q)
      \/ \E s \in Socket : CloseEvent(s) \/ ErrorEvent(s)
      \/ \E h \in Server : ExecKeys(h) \/ ExecHgetall(h) \/ ExecHmset(h) \/ ExecDel(h)
      \/ \E h \in Server : ReplyNull(h) \/ ReplyDel(h) \/ LinkDrop(h) \/ Restart(h)
      \/ UNCHANGED vars
      => found' = found
  BY DEF Connect, ClientClose, Logout, RelayDrop, RelayKick, LoginAgain, Login, CloseEvent,
         ErrorEvent, ExecKeys, ExecHgetall, ExecHmset, ExecDel, ReplyNull, ReplyDel, LinkDrop,
         Restart, loginVars, vars
<1> QED
  BY <1>1, <1>2, <1>3, <1>4, <1>5, StepCases

\* Only HMSET writes hashes.
LEMMA KeysGrow ==
    ASSUME Base, [Next]_vars, NEW k \in keys', k \notin keys
    PROVE  \E q \in Request :
              LET h == Srv(q) IN
              /\ wire[h] # <<>> /\ Head(wire[h]).op = "hmset" /\ Head(wire[h]).req = q
              /\ k = OwnKey(q) /\ GoodCommand(h, Head(wire[h])) /\ ExecHmset(h)
<1>1. CASE \E h \in Server : ExecHmset(h)
  <2>1. PICK h \in Server : ExecHmset(h)
    BY <1>1
  <2>2. /\ wire[h] # <<>> /\ Head(wire[h]).op = "hmset"
        /\ keys' = keys \cup Head(wire[h]).keys
    BY <2>1 DEF ExecHmset, Next1
  <2>3. GoodCommand(h, Head(wire[h])) /\ Head(wire[h]).req \in Request
    BY <2>2, HeadCommand
  <2>4. PICK q \in Request : q = Head(wire[h]).req
    BY <2>3
  <2>5. Srv(q) = h /\ Head(wire[h]).keys = {OwnKey(q)}
    BY <2>2, <2>3, <2>4, RequestParts DEF GoodCommand, Match
  <2>6. k = OwnKey(q)
    BY <2>2, <2>5
  <2> QED
    BY <2>1, <2>2, <2>3, <2>4, <2>5, <2>6
<1>2. CASE keys' \subseteq keys
  BY <1>2
<1>3. \/ \E s \in Socket : Connect(s) \/ ClientClose(s) \/ Logout(s)
      \/ \E m \in net : RelayDrop(m) \/ RelayKick(m)
      \/ \E q \in Request : LoginAgain(q) \/ Login(q)
      \/ \E s \in Socket : CloseEvent(s) \/ ErrorEvent(s)
      \/ \E h \in Server : ExecKeys(h) \/ ExecHgetall(h) \/ ExecDel(h)
      \/ \E h \in Server : \/ ReplyKeys(h) \/ ReplyHgetall(h) \/ ReplyNull(h) \/ ReplyHmset(h)
                           \/ ReplyDel(h) \/ LinkDrop(h) \/ Restart(h) \/ Exits(h)
      \/ UNCHANGED vars
      => keys' \subseteq keys
  BY DEF Connect, ClientClose, Logout, RelayDrop, RelayKick, LoginAgain, Login, CloseEvent,
         ErrorEvent, ExecKeys, ExecHgetall, ExecDel, ReplyKeys, ReplyHgetall, ReplyNull,
         ReplyHmset, ReplyDel, LinkDrop, Restart, Exits, ProcessExit, redisVars, vars
<1> QED
  BY <1>1, <1>2, <1>3, StepCases

\* Hashes, deletions, lists and objects speak only of what some login wrote.
Origin ==
    /\ \A k \in keys : Wrote(k)
    /\ \A h \in Server, k \in Key : DelIn(h, k) \/ ListIn(h, k) => Wrote(k)
    /\ \A r \in Request : \A e \in found[r] : Wrote(<<e[1], e[2]>>)

LEMMA HeadListed ==
    ASSUME Base, NEW h \in Server, inbox[h] # <<>>, Head(inbox[h]).op = "hgetall",
           NEW k \in Head(inbox[h]).list
    PROVE  k \in Key /\ ListIn(h, k)
<1>1. k \in Key
  BY HeadReply DEF Reply
<1>2. 1 \in 1 .. Len(inbox[h]) /\ inbox[h][1].op = "hgetall" /\ k \in inbox[h][1].list
  BY HeadReply
<1> QED
  BY <1>1, <1>2 DEF ListIn

LEMMA ObjectFacts ==
    ASSUME NEW h, NEW k \in Key
    PROVE  LET e == UserObject(h, k) IN
           /\ e[2] = k[2]
           /\ Home[k[2]] = h /\ reg[k[2]] # NoUser => e[1] = reg[k[2]] /\ e[3] = TRUE
           /\ ~(Home[k[2]] = h /\ reg[k[2]] # NoUser) =>
                 e[1] = k[1] /\ e[3] = FALSE /\ <<e[1], e[2]>> = k
BY DEF UserObject, Key

LEMMA OriginStep ==
    ASSUME Base, Life, Origin, [Next]_vars
    PROVE  Origin'
<1>1. Moves
  BY StepMoves
<1>2. ASSUME NEW k \in keys' PROVE Wrote(k)'
  <2>1. CASE k \in keys
    BY <1>1, <2>1, WroteStays DEF Origin
  <2>2. CASE k \notin keys
    <3>1. PICK q \in Request :
              /\ Head(wire[Srv(q)]).op = "hmset" /\ Head(wire[Srv(q)]).req = q
              /\ k = OwnKey(q) /\ GoodCommand(Srv(q), Head(wire[Srv(q)]))
      BY <1>2, <2>2, KeysGrow
    <3>2. pc[q] # "idle" /\ (up[Srv(q)] => pc[q] = "set")
      BY <3>1, RequestParts DEF GoodCommand, Match
    <3>3. ~up[Srv(q)] => pc[q] = "lost"
      BY <3>2, RequestParts DEF Life, Srv
    <3> QED
      BY <1>1, <3>1, <3>2, <3>3, WroteStays DEF Wrote
  <2> QED
    BY <2>1, <2>2
<1>3. ASSUME NEW r \in Request, NEW e \in found'[r] PROVE Wrote(<<e[1], e[2]>>)'
  <2>1. CASE e \in found[r]
    BY <1>1, <2>1, WroteStays DEF Origin
  <2>2. CASE e \notin found[r]
    <3>1. PICK k \in Head(inbox[Srv(r)]).list :
            /\ inbox[Srv(r)] # <<>> /\ Head(inbox[Srv(r)]).op = "hgetall"
            /\ e = UserObject(Srv(r), k)
      BY <1>3, <2>2, FoundGrows
    <3>2. k \in Key /\ Wrote(k)
      BY <3>1, HeadListed, RequestParts DEF Origin
    <3>3. k[2] \in Socket
      BY <3>2 DEF Key
    <3>4. Wrote(<<e[1], e[2]>>)
      <4>1. CASE Home[k[2]] = Srv(r) /\ reg[k[2]] # NoUser
        <5>1. e[1] = reg[k[2]] /\ e[2] = k[2]
          BY <3>1, <3>2, <4>1, ObjectFacts
        <5> QED
          BY <3>3, <4>1, <5>1, RegWrote
      <4>2. CASE ~(Home[k[2]] = Srv(r) /\ reg[k[2]] # NoUser)
        <5>1. <<e[1], e[2]>> = k
          BY <3>1, <3>2, <4>2, ObjectFacts
        <5> QED
          BY <3>2, <5>1
      <4> QED
        BY <4>1, <4>2
    <3> QED
      BY <1>1, <3>4, WroteStays
  <2> QED
    BY <2>1, <2>2
<1>4. ASSUME NEW h \in Server, NEW k \in Key, DelIn(h, k)' PROVE Wrote(k)'
  <2>1. CASE DelIn(h, k)
    BY <1>1, <2>1, WroteStays DEF Origin
  <2>2. CASE reg[k[2]] # NoUser /\ reg[k[2]] = k[1]
    <3>1. k[2] \in Socket /\ k = <<k[1], k[2]>>
      BY DEF Key
    <3>2. Wrote(k)
      BY <2>2, <3>1, RegWrote
    <3> QED
      BY <1>1, <3>2, WroteStays
  <2>3. CASE \E r \in Request : Srv(r) = h /\ \E e \in found'[r] : <<e[1], e[2]>> = k
    BY <1>3, <2>3
  <2> QED
    BY <1>4, <2>1, <2>2, <2>3, DelGrows
<1>5. ASSUME NEW h \in Server, NEW k \in Key, ListIn(h, k)' PROVE Wrote(k)'
  BY <1>1, <1>5, ListGrows, WroteStays DEF Origin
<1> QED
  BY <1>2, <1>3, <1>4, <1>5 DEF Origin

-----------------------------------------------------------------------------
(* The directory lists no session that is not there.                       *)

\* Every step but the end of a process leaves these alone or is one of theirs.
LEMMA ExitDead ==
    ASSUME Base, Life, NEW h \in Server, Exits(h), NEW r \in Request, Srv(r) = h,
           pc[r] # "idle"
    PROVE  ws'[r[1]] = "dead"
<1>1. PICK left : ProcessExit(h, left)
  BY DEF Exits
<1>2. r[1] \in Socket /\ ws[r[1]] # "none" /\ Home[r[1]] = h
  BY RequestParts DEF Life, Srv
<1> QED
  BY <1>1, <1>2 DEF ProcessExit

\* A DEL under way runs, unless the connection breaks or the process ends.
LEMMA DelGone ==
    ASSUME Base, Life, Origin, [Next]_vars, NEW g \in Server, NEW k \in Key, DelIn(g, k),
           ~DelIn(g, k)'
    PROVE  k \notin keys' \/ k \in torn' \/ ws'[k[2]] = "dead"
<1>1. wire' # wire
  BY DEF DelIn
<1>2. CASE \E r \in Request : Login(r)
  <2>1. PICK r \in Request : Login(r)
    BY <1>2
  <2>2. Cmd("keys", r, {}) \in Command /\ Srv(r) \in Server
    BY CmdTyped, RequestParts DEF Op
  <2> QED
    BY <2>1, <2>2, LoginBase, OneFed
<1>3. CASE \E s \in Socket : CloseEvent(s) \/ ErrorEvent(s)
  <2>1. PICK s \in Socket : CloseEvent(s) \/ ErrorEvent(s)
    BY <1>3
  <2>2. Disconnect(s)
    BY <2>1 DEF CloseEvent, ErrorEvent
  <2>3. Home[s] \in Server /\ reg[s] # NoUser /\ Cmd("del", NoReq, {<<reg[s], s>>}) \in Command
    BY <1>1, <2>2, DisconnectIssues DEF Base
  <2>4. Fed(Home[s], <<Cmd("del", NoReq, {<<reg[s], s>>})>>)
    BY <2>1, <2>3, DisconnectBase
  <2> QED
    BY <2>3, <2>4, OneFed
<1>4. CASE \E h \in Server : ExecKeys(h) \/ ExecHgetall(h) \/ ExecHmset(h) \/ ExecDel(h)
  <2>1. PICK h \in Server : ExecKeys(h) \/ ExecHgetall(h) \/ ExecHmset(h) \/ ExecDel(h)
    BY <1>4
  <2>2. wire[h] # <<>> /\ Head(wire[h]) = wire[h][1]
    BY <2>1, ExecShape, HeadCommand
  <2>3. CASE ExecWhole(h)
    <3>1. Head(wire[h]).op = "del" /\ k \in Head(wire[h]).keys
      BY <2>2, <2>3, ShiftedDels DEF ExecWhole
    <3> QED
      BY <2>3, <3>1 DEF ExecWhole
  <2>4. CASE ExecPart(h)
    BY <2>2, <2>4, ShrunkDels DEF ExecPart
  <2> QED
    BY <2>1, <2>3, <2>4, ExecShape
<1>5. CASE \E h \in Server : ReplyKeys(h) \/ ReplyHgetall(h)
  <2>1. PICK h \in Server : ReplyKeys(h) \/ ReplyHgetall(h)
    BY <1>5
  <2>2. PICK r \in Request, rest \in SUBSET Key, hits \in SUBSET Object :
              /\ Srv(r) = h /\ Given(h, r, rest, hits)
              /\ \/ \E l \in rest : LookupNext(h, r, rest, l)
                 \/ LookupKick(h, r, rest, hits)
                 \/ LookupSweep(h, r, rest, hits)
    BY <2>1, LookupCases
  <2>3. CASE \E l \in rest : LookupNext(h, r, rest, l)
    <3>1. PICK l \in rest : LookupNext(h, r, rest, l)
      BY <2>3
    <3>2. Cmd("hgetall", r, {l}) \in Command
      BY CmdTyped DEF Op
    <3>3. Fed(h, <<Cmd("hgetall", r, {l})>>)
      BY <2>2, <3>1, LookupBase
    <3> QED
      BY <3>2, <3>3, OneFed
  <2>4. CASE LookupSweep(h, r, rest, hits)
    <3>2. Cmd("hmset", r, {OwnKey(r)}) \in Command
      BY CmdTyped, RequestParts DEF Op
    <3>3. Fed(h, <<Cmd("hmset", r, {OwnKey(r)})>>)
      BY <2>2, <2>4, LookupBase
    <3> QED
      BY <3>2, <3>3, OneFed
  <2>5. CASE LookupKick(h, r, rest, hits)
    <3>1. Fed(h, KickCommands(r, ExpiredKeys(r, hits)))
      BY <2>2, <2>5, LookupBase
    <3>2. ExpiredKeys(r, hits) \in SUBSET Key
      BY <2>5, KickIssues DEF LookupKick
    <3> QED
      BY <3>1, <3>2, KickFed
  <2> QED
    BY <2>2, <2>3, <2>4, <2>5
<1>6. CASE \E h \in Server : LinkDrop(h)
  BY <1>6, CutDels
<1>7. CASE \E h \in Server : Exits(h)
  <2>1. PICK h \in Server : Exits(h)
    BY <1>7
  <2>2. PICK left : Left(h, left) /\ ProcessExit(h, left)
    BY <2>1 DEF Exits
  <2>3. g = h
    BY <2>2, ExitDels
  <2>4. PICK q \in Request : OwnKey(q) = k /\ pc[q] \in {"set", "done", "lost"}
    BY DEF Origin, Wrote
  <2>5. q[1] = k[2]
    BY <2>4 DEF OwnKey
  <2>6. Home[k[2]] = h
    <3>1. PICK i \in 1 .. Len(wire[h]) : wire[h][i].op = "del" /\ k \in wire[h][i].keys
      BY <2>3 DEF DelIn
    <3> QED
      BY <3>1, EntryHome DEF GoodCommand
  <2>7. ws'[q[1]] = "dead"
    BY <2>1, <2>4, <2>5, <2>6, ExitDead DEF Srv
  <2> QED
    BY <2>5, <2>7
<1>8. CASE wire' = wire
  BY <1>1, <1>8
<1>9. \/ \E s \in Socket : Connect(s) \/ ClientClose(s) \/ Logout(s)
      \/ \E m \in net : RelayDrop(m) \/ RelayKick(m)
      \/ \E r \in Request : LoginAgain(r)
      \/ \E h \in Server : ReplyNull(h) \/ ReplyHmset(h) \/ ReplyDel(h) \/ Restart(h)
      \/ UNCHANGED vars
      => wire' = wire
  BY DEF Connect, ClientClose, Logout, RelayDrop, RelayKick, LoginAgain, ReplyNull,
         ReplyHmset, ReplyDel, Restart, redisVars, vars
<1> QED
  BY <1>2, <1>3, <1>4, <1>5, <1>6, <1>7, <1>8, <1>9, StepCases

\* The reply to the HMSET of k is in the inbox of h.
SetIn(h, k) ==
    \E i \in 1 .. Len(inbox[h]) : inbox[h][i].op = "hmset" /\ OwnKey(inbox[h][i].req) = k

LEMMA EatenSets ==
    ASSUME NEW h \in Server, Eaten(h), NEW g \in Server, NEW k, SetIn(g, k), ~SetIn(g, k)'
    PROVE  g = h /\ inbox[h][1].op = "hmset" /\ OwnKey(inbox[h][1].req) = k
<1>1. PICK i \in 1 .. Len(inbox[g]) : inbox[g][i].op = "hmset" /\ OwnKey(inbox[g][i].req) = k
  BY DEF SetIn
<1>2. g = h
  BY <1>1 DEF Eaten, SetIn
<1>3. CASE i = 1
  BY <1>1, <1>2, <1>3
<1>4. CASE i - 1 \in 1 .. Len(inbox'[h]) /\ inbox'[h][i - 1] = inbox[h][i]
  BY <1>1, <1>2, <1>4 DEF SetIn
<1> QED
  BY <1>1, <1>2, <1>3, <1>4 DEF Eaten

\* That reply registers the user, unless the process ends first.
LEMMA SetGone ==
    ASSUME Base, Life, [Next]_vars, NEW g \in Server, NEW k, SetIn(g, k), ~SetIn(g, k)'
    PROVE  reg'[k[2]] = k[1] \/ ws'[k[2]] = "dead"
<1>1. CASE \E h \in Server : ExecKeys(h) \/ ExecHgetall(h) \/ ExecHmset(h) \/ ExecDel(h)
  <2>1. PICK h \in Server : ExecKeys(h) \/ ExecHgetall(h) \/ ExecHmset(h) \/ ExecDel(h)
    BY <1>1
  <2>2. CASE ExecWhole(h)
    <3>1. PICK x : Answered(h, x)
      BY <2>2 DEF ExecWhole
    <3> QED
      BY <3>1 DEF Answered, SetIn
  <2>3. CASE ExecPart(h)
    BY <2>3 DEF ExecPart, SetIn
  <2> QED
    BY <2>1, <2>2, <2>3, ExecShape
<1>2. ASSUME NEW h \in Server, Eaten(h), inbox[h] # <<>>, Head(inbox[h]).op # "hmset"
      PROVE  FALSE
  BY <1>2, EatenSets, HeadReply
<1>3. CASE \E h \in Server : ReplyKeys(h) \/ ReplyHgetall(h)
  <2>1. PICK h \in Server : ReplyKeys(h) \/ ReplyHgetall(h)
    BY <1>3
  <2>2. Eaten(h)
    BY <2>1, LookupCases, LookupBase
  <2>3. inbox[h] # <<>> /\ Head(inbox[h]).op # "hmset"
    BY <2>1 DEF ReplyKeys, ReplyHgetall, Replied
  <2> QED
    BY <1>2, <2>2, <2>3
<1>4. CASE \E h \in Server : ReplyNull(h) \/ ReplyDel(h)
  <2>1. PICK h \in Server : ReplyNull(h) \/ ReplyDel(h)
    BY <1>4
  <2>2. Eaten(h)
    BY <2>1, ReplyBase
  <2>3. inbox[h] # <<>> /\ Head(inbox[h]).op # "hmset"
    BY <2>1 DEF ReplyNull, ReplyDel, Replied
  <2> QED
    BY <1>2, <2>2, <2>3
<1>5. CASE \E h \in Server : ReplyHmset(h)
  <2>1. PICK h \in Server : ReplyHmset(h)
    BY <1>5
  <2>2. Eaten(h) /\ inbox[h] # <<>> /\ Head(inbox[h]).op = "hmset"
        /\ reg' = [reg EXCEPT ![Head(inbox[h]).req[1]] = Head(inbox[h]).req[2]]
    BY <2>1, ReplyBase DEF ReplyHmset, Replied
  <2>3. Head(inbox[h]) = inbox[h][1] /\ Head(inbox[h]).req \in Request
    BY <2>2, HeadReply
  <2>4. OwnKey(Head(inbox[h]).req) = k
    BY <2>2, <2>3, EatenSets
  <2> QED
    BY <2>2, <2>3, <2>4, RequestParts DEF Base, TypeOK
<1>6. CASE \E h \in Server : LinkDrop(h)
  <2>1. PICK h \in Server : Cut(h)
    BY <1>6, LinkCut DEF Base
  <2>2. PICK i \in 1 .. Len(inbox[g]) : inbox[g][i].op = "hmset" /\ OwnKey(inbox[g][i].req) = k
    BY DEF SetIn
  <2>3. CASE g # h
    BY <2>1, <2>3 DEF Cut, SetIn
  <2>4. CASE g = h
    <3>1. i \in 1 .. Len(inbox'[g]) /\ inbox'[g][i] = Answer(inbox[g][i], {})
      BY <2>1, <2>2, <2>4 DEF Cut
    <3>2. inbox'[g][i].op = inbox[g][i].op /\ inbox'[g][i].req = inbox[g][i].req
      BY <2>2, <3>1, EntryHome, AnswerTyped
    <3> QED
      BY <2>2, <3>1, <3>2 DEF SetIn
  <2> QED
    BY <2>3, <2>4
<1>7. CASE \E h \in Server : Exits(h)
  <2>1. PICK h \in Server : Exits(h)
    BY <1>7
  <2>2. g = h
    BY <2>1 DEF Exits, ProcessExit, SetIn, Base, TypeOK
  <2>3. PICK i \in 1 .. Len(inbox[g]) : inbox[g][i].op = "hmset" /\ OwnKey(inbox[g][i].req) = k
    BY DEF SetIn
  <2>4. PICK q \in Request : q = inbox[g][i].req /\ Srv(q) = h /\ pc[q] # "idle"
    BY <2>2, <2>3, EntryHome DEF GoodReply, Match
  <2>5. ws'[q[1]] = "dead"
    BY <2>1, <2>4, ExitDead
  <2> QED
    BY <2>3, <2>4, <2>5, RequestParts
<1>8. CASE inbox' = inbox
  BY <1>8 DEF SetIn
<1>9. \/ \E s \in Socket : Connect(s) \/ ClientClose(s) \/ Logout(s)
      \/ \E m \in net : RelayDrop(m) \/ RelayKick(m)
      \/ \E r \in Request : LoginAgain(r) \/ Login(r)
      \/ \E s \in Socket : CloseEvent(s) \/ ErrorEvent(s)
      \/ \E h \in Server : Restart(h)
      \/ UNCHANGED vars
      => inbox' = inbox
  BY DEF Connect, ClientClose, Logout, RelayDrop, RelayKick, LoginAgain, Login, CloseEvent,
         ErrorEvent, Restart, redisVars, vars
<1> QED
  BY <1>1, <1>3, <1>4, <1>5, <1>6, <1>7, <1>8, <1>9, StepCases

\* An entry leaves a userList with a DEL for its socket, or with its process.
LEMMA RegLeaves ==
    ASSUME Base, Life, [Next]_vars, NEW s \in Socket, reg[s] # NoUser, reg'[s] = NoUser
    PROVE  \/ ws'[s] = "dead"
           \/ \E u \in User : DelIn(Home[s], <<u, s>>)'
<1>1. reg' # reg /\ Home[s] \in Server
  BY HomeAssumption
<1>2. CASE \E t \in Socket : CloseEvent(t) \/ ErrorEvent(t)
  <2>1. PICK t \in Socket : CloseEvent(t) \/ ErrorEvent(t)
    BY <1>2
  <2>2. Disconnect(t)
    BY <2>1 DEF CloseEvent, ErrorEvent
  <2>3. t = s
    BY <2>2, DisconnectIssues DEF Base, TypeOK
  <2> DEFINE c == Cmd("del", NoReq, {<<reg[s], s>>})
  <2>4. c \in Command
    BY <2>2, <2>3, DisconnectIssues DEF Base
  <2>5. Fed(Home[s], <<c>>)
    BY <2>1, <2>3, DisconnectBase
  <2>6. c.op = "del" /\ <<reg[s], s>> \in c.keys /\ reg[s] \in User
    BY DEF Cmd, Base, TypeOK
  <2> HIDE DEF c
  <2>7. PICK u \in User : u = reg[s]
    BY <2>6
  <2>8. PICK d \in Command : d = c
    BY <2>4
  <2>9. DelIn(Home[s], <<u, s>>)'
    BY <1>1, <2>5, <2>6, <2>7, <2>8, OneFed
  <2> QED
    BY <2>9
<1>3. CASE \E h \in Server : ReplyKeys(h) \/ ReplyHgetall(h)
  <2>1. PICK h \in Server : ReplyKeys(h) \/ ReplyHgetall(h)
    BY <1>3
  <2>2. PICK r \in Request, rest \in SUBSET Key, hits \in SUBSET Object :
              /\ Srv(r) = h /\ Given(h, r, rest, hits)
              /\ \/ \E l \in rest : LookupNext(h, r, rest, l)
                 \/ LookupKick(h, r, rest, hits)
                 \/ LookupSweep(h, r, rest, hits)
    BY <2>1, LookupCases
  <2>3. LookupKick(h, r, rest, hits)
    BY <1>1, <2>2 DEF LookupNext, LookupSweep, Sweep
  <2>4. Fed(h, KickCommands(r, ExpiredKeys(r, hits)))
    BY <2>2, <2>3, LookupBase
  <2>5. /\ ExpiredKeys(r, hits) \in SUBSET Key
        /\ \A l \in ExpiredKeys(r, hits) : Home[l[2]] = Srv(r)
        /\ reg' = [t \in Socket |->
                        IF \E e \in Expired(r, hits) : e[2] = t THEN NoUser ELSE reg[t]]
    BY <2>3, KickIssues DEF LookupKick
  <2>6. PICK e \in Expired(r, hits) : e[2] = s
    BY <2>5
  <2>7. <<e[1], s>> \in ExpiredKeys(r, hits) /\ e[1] \in User
    <3>1. <<e[1], e[2]>> \in ExpiredKeys(r, hits)
      BY DEF ExpiredKeys
    <3> QED
      BY <2>5, <2>6, <3>1 DEF Key
  <2>8. Home[s] = h
    BY <2>2, <2>5, <2>7
  <2>9. DelIn(h, <<e[1], s>>)'
    BY <2>4, <2>5, <2>7, KickFed
  <2> QED
    BY <2>7, <2>8, <2>9
<1>4. CASE \E h \in Server : Exits(h)
  <2>1. PICK h \in Server : Exits(h)
    BY <1>4
  <2>2. PICK q \in Request : q[1] = s /\ pc[q] = "done"
    BY DEF Life
  <2>3. Srv(q) = h
    BY <2>1, <2>2 DEF Exits, ProcessExit, Srv
  <2> QED
    BY <2>1, <2>2, <2>3, ExitDead
<1>5. CASE \E h \in Server : ReplyHmset(h)
  <2>1. PICK h \in Server : ReplyHmset(h)
    BY <1>5
  <2>2. inbox[h] # <<>> /\ Head(inbox[h]).op = "hmset"
        /\ reg' = [reg EXCEPT ![Head(inbox[h]).req[1]] = Head(inbox[h]).req[2]]
    BY <2>1 DEF ReplyHmset, Replied
  <2>3. Head(inbox[h]).req \in Request /\ Head(inbox[h]).req[2] \in User
    BY <2>2, HeadReply, RequestParts
  <2> QED
    BY <2>2, <2>3, NoUserAssumption DEF Base, TypeOK
<1>6. \/ \E t \in Socket : Connect(t) \/ ClientClose(t) \/ Logout(t)
      \/ \E m \in net : RelayDrop(m) \/ RelayKick(m)
      \/ \E q \in Request : LoginAgain(q) \/ Login(q)
      \/ \E h \in Server : ExecKeys(h) \/ ExecHgetall(h) \/ ExecHmset(h) \/ ExecDel(h)
      \/ \E h \in Server : ReplyNull(h) \/ ReplyDel(h) \/ LinkDrop(h) \/ Restart(h)
      \/ UNCHANGED vars
      => reg' = reg
  BY DEF Connect, ClientClose, Logout, RelayDrop, RelayKick, LoginAgain, Login,
         ExecKeys, ExecHgetall, ExecHmset, ExecDel, ReplyNull, ReplyDel, LinkDrop,
         Restart, loginVars, vars
<1> QED
  BY <1>1, <1>2, <1>3, <1>4, <1>5, <1>6, StepCases

LEMMA TornGrows ==
    ASSUME Base, [Next]_vars
    PROVE  torn \subseteq torn'
<1>1. CASE \E h \in Server : LinkDrop(h)
  BY <1>1, DropBase
<1>2. CASE torn' = torn
  BY <1>2
<1>3. \/ \E s \in Socket : Connect(s) \/ ClientClose(s) \/ Logout(s)
      \/ \E m \in net : RelayDrop(m) \/ RelayKick(m)
      \/ \E q \in Request : LoginAgain(q) \/ Login(q)
      \/ \E s \in Socket : CloseEvent(s) \/ ErrorEvent(s)
      \/ \E h \in Server : ExecKeys(h) \/ ExecHgetall(h) \/ ExecHmset(h) \/ ExecDel(h)
      \/ \E h \in Server : \/ ReplyKeys(h) \/ ReplyHgetall(h) \/ ReplyNull(h) \/ ReplyHmset(h)
                           \/ ReplyDel(h) \/ Restart(h) \/ Exits(h)
      \/ UNCHANGED vars
      => torn' = torn
  BY DEF Connect, ClientClose, Logout, RelayDrop, RelayKick, LoginAgain, Login, CloseEvent,
         ErrorEvent, ExecKeys, ExecHgetall, ExecHmset, ExecDel, ReplyKeys, ReplyHgetall,
         ReplyNull, ReplyHmset, ReplyDel, Restart, Exits, ProcessExit, vars
<1> QED
  BY <1>1, <1>2, <1>3, StepCases

\* On a socket with one user, a registered user is the one whose hashes there are.
LEMMA RegIsWriter ==
    ASSUME Life, NEW s \in Socket, OneUser(s), reg[s] # NoUser, NEW u, Wrote(<<u, s>>)
    PROVE  u = reg[s]
<1>1. PICK q \in Request : q[1] = s /\ q[2] = reg[s] /\ pc[q] = "done"
  BY DEF Life
<1>2. PICK p \in Request : OwnKey(p) = <<u, s>> /\ pc[p] \in {"set", "done", "lost"}
  BY DEF Wrote
<1>3. p[1] = s /\ p[2] = u
  BY <1>2 DEF OwnKey
<1> QED
  BY <1>1, <1>2, <1>3 DEF OneUser, Accepted

LEMMA AccurateStep ==
    ASSUME Base, Life, Origin, DirectoryAccurate, [Next]_vars
    PROVE  DirectoryAccurate'
<1>1. Moves /\ Origin' /\ torn \subseteq torn' /\ Base'
  BY StepMoves, OriginStep, TornGrows, BaseStep
<1> SUFFICES ASSUME NEW k \in keys' \ torn', OneUser(k[2])'
             PROVE  \/ reg'[k[2]] = k[1] \/ ws'[k[2]] = "dead"
                    \/ \E g \in Server : SetIn(g, k)' \/ DelIn(g, k)'
  BY DEF DirectoryAccurate, AwaitsHmset, InWire, SetIn, DelIn
<1>2. k \in Key /\ k[2] \in Socket /\ k[1] \in User /\ k = <<k[1], k[2]>>
  BY <1>1 DEF Base, TypeOK, Key
<1>3. k \notin torn /\ OneUser(k[2])
  BY <1>1, OneStays
<1>4. CASE k \notin keys
  <2>1. PICK q \in Request :
              LET h == Srv(q) IN
              /\ wire[h] # <<>> /\ Head(wire[h]).op = "hmset" /\ Head(wire[h]).req = q
              /\ k = OwnKey(q) /\ GoodCommand(h, Head(wire[h])) /\ ExecHmset(h)
    BY <1>4, KeysGrow
  <2> DEFINE h == Srv(q)
  <2>2. h \in Server /\ wire[h] # <<>> /\ Head(wire[h]) \in Command
        /\ Answered(h, Answer(Head(wire[h]), {}))
    BY <2>1, RequestParts, ExecutedFacts, HeadCommand DEF ExecHmset, Base
  <2>3. CASE up[h]
    <3>1. /\ Answer(Head(wire[h]), {}).op = "hmset" /\ Answer(Head(wire[h]), {}).req = q
      BY <2>1, <2>2, AnswerTyped
    <3>2. SetIn(h, k)'
      BY <2>1, <2>2, <2>3, <3>1 DEF Answered, SetIn
    <3> QED
      BY <2>2, <3>2
  <2>4. CASE ~up[h]
    <3>1. pc[q] # "idle"
      BY <2>1, RequestParts DEF GoodCommand, Match
    <3>2. q[1] = k[2] /\ ws[k[2]] # "none"
      BY <2>1, <3>1, RequestParts DEF Life
    <3>3. ws[k[2]] = "dead" /\ ws' = ws
      BY <1>2, <2>1, <2>4, <3>2 DEF Life, Srv, ExecHmset
    <3> QED
      BY <3>3
  <2> QED
    BY <2>3, <2>4
<1>5. CASE k \in keys /\ ws[k[2]] = "dead"
  BY <1>1, <1>2, <1>5 DEF Moves, WsMove
<1>6. CASE k \in keys /\ \E g \in Server : SetIn(g, k)
  BY <1>6, SetGone
<1>7. CASE k \in keys /\ \E g \in Server : DelIn(g, k)
  BY <1>2, <1>7, DelGone
<1>8. CASE k \in keys /\ reg[k[2]] = k[1]
  <2>1. reg[k[2]] # NoUser
    BY <1>2, <1>8, NoUserAssumption
  <2>2. CASE reg'[k[2]] = NoUser
    <3>1. CASE \E u \in User : DelIn(Home[k[2]], <<u, k[2]>>)'
      <4>1. PICK u \in User : DelIn(Home[k[2]], <<u, k[2]>>)'
        BY <3>1
      <4>2. Home[k[2]] \in Server /\ <<u, k[2]>> \in Key
        BY <1>2, HomeAssumption DEF Key
      <4>3. Wrote(<<u, k[2]>>)'
        BY <1>1, <4>1, <4>2 DEF Origin
      <4>4. PICK p \in Request : OwnKey(p) = <<u, k[2]>> /\ pc'[p] \in {"set", "done", "lost"}
        BY <4>3 DEF Wrote
      <4>5. PICK q \in Request : q[1] = k[2] /\ q[2] = reg[k[2]] /\ pc[q] = "done"
        BY <1>2, <2>1 DEF Life
      <4>6. pc'[q] \in {"done", "lost"}
        BY <1>1, <4>5 DEF Moves, PcMove
      <4>7. p[1] = k[2] /\ p[2] = u
        BY <4>4 DEF OwnKey
      <4>8. u = k[1]
        BY <1>8, <4>4, <4>5, <4>6, <4>7 DEF OneUser, Accepted
      <4> QED
        BY <1>2, <4>1, <4>2, <4>8
    <3> QED
      BY <1>2, <2>1, <2>2, <3>1, RegLeaves
  <2>3. CASE reg'[k[2]] # NoUser /\ reg'[k[2]] # reg[k[2]]
    <3>1. PICK r \in Request : r[1] = k[2] /\ r[2] = reg'[k[2]] /\ pc[r] = "set"
      BY <1>1, <1>2, <2>3 DEF Moves, RegMove
    <3>2. Wrote(<<r[2], k[2]>>)
      BY <3>1 DEF Wrote, OwnKey
    <3>3. r[2] = reg[k[2]]
      BY <1>2, <1>3, <2>1, <3>2, RegIsWriter
    <3> QED
      BY <2>3, <3>1, <3>3
  <2> QED
    BY <1>8, <2>2, <2>3
<1> QED
  BY <1>2, <1>3, <1>4, <1>5, <1>6, <1>7, <1>8
     DEF DirectoryAccurate, AwaitsHmset, InWire, SetIn, DelIn

-----------------------------------------------------------------------------
(* The command and the reply that a request waits for.                     *)

Sent(r, c) == c.req = r /\ \E i \in 1 .. Len(wire[Srv(r)]) : wire[Srv(r)][i] = c
Got(r, x)  == x.req = r /\ \E i \in 1 .. Len(inbox[Srv(r)]) : inbox[Srv(r)][i] = x

\* The server handles the reply that request r waits for.
Handling(r) ==
    LET h == Srv(r) IN
    /\ inbox[h] # <<>> /\ Head(inbox[h]).req = r
    /\ ReplyKeys(h) \/ ReplyHgetall(h) \/ ReplyNull(h) \/ ReplyHmset(h)

\* Redis ran command c, or the connection broke before it could.
Ran(r, c) ==
    \E list \in SUBSET Key :
        /\ Got(r, Answer(c, list))'
        /\ c.op = "keys" => list = {k \in keys : k[1] \in Matches[r[2]]}
        /\ c.op = "hgetall" => list = c.keys \cap keys
        /\ c.op = "hmset" => keys' = keys \cup c.keys

Broke(r, c) ==
    /\ Got(r, Answer(c, {}))'
    /\ c.op = "hmset" => OwnKey(r) \in torn'
    /\ c.op \in {"keys", "hgetall"} => OwnKey(r) \in torn'

LEMMA PendingUp ==
    ASSUME Life, NEW r \in Request, Pending(r)
    PROVE  up[Srv(r)]
BY RequestParts DEF Life, Pending, Srv

LEMMA SentTyped ==
    ASSUME Base, NEW r \in Request, NEW c, Sent(r, c)
    PROVE  c \in Command /\ c.req = r /\ GoodCommand(Srv(r), c) /\ c.op # "del"
<1>1. c.req = r /\ r # NoReq /\ Srv(r) \in Server
  BY RequestParts DEF Sent
<1>2. c \in Command /\ GoodCommand(Srv(r), c)
  BY <1>1, EntryHome DEF Sent
<1> QED
  BY <1>1, <1>2 DEF GoodCommand, Match

LEMMA GotTyped ==
    ASSUME Base, NEW r \in Request, NEW x, Got(r, x)
    PROVE  x \in Reply /\ x.req = r /\ GoodReply(Srv(r), x) /\ x.op # "del"
<1>1. x.req = r /\ r # NoReq /\ Srv(r) \in Server
  BY RequestParts DEF Got
<1>2. x \in Reply /\ GoodReply(Srv(r), x)
  BY <1>1, EntryHome DEF Got
<1> QED
  BY <1>1, <1>2 DEF GoodReply, Match

LEMMA SentFed ==
    ASSUME NEW r \in Request, NEW c, Sent(r, c), NEW h \in Server, NEW cmds, Fed(h, cmds)
    PROVE  Sent(r, c)'
<1>1. Srv(r) \in Server
  BY RequestParts
<1>2. PICK i \in 1 .. Len(wire[Srv(r)]) : wire[Srv(r)][i] = c
  BY DEF Sent
<1>3. i \in 1 .. Len(wire'[Srv(r)]) /\ wire'[Srv(r)][i] = c
  BY <1>1, <1>2 DEF Fed
<1> QED
  BY <1>3 DEF Sent

LEMMA SentStays ==
    ASSUME Base, Life, [Next]_vars, NEW r \in Request, Pending(r), pc'[r] # "lost",
           NEW c, Sent(r, c)
    PROVE  Sent(r, c)' \/ Ran(r, c) \/ Broke(r, c)
<1>1. /\ c \in Command /\ c.req = r /\ c.op # "del" /\ GoodCommand(Srv(r), c)
      /\ Srv(r) \in Server /\ up[Srv(r)]
  BY SentTyped, PendingUp, RequestParts
<1>2. PICK i \in 1 .. Len(wire[Srv(r)]) : wire[Srv(r)][i] = c
  BY DEF Sent
<1>3. CASE \E q \in Request : Login(q)
  <2>1. PICK q \in Request : Login(q)
    BY <1>3
  <2> QED
    BY <2>1, LoginBase, RequestParts, SentFed
<1>4. CASE \E s \in Socket : CloseEvent(s) \/ ErrorEvent(s)
  <2>1. PICK s \in Socket : CloseEvent(s) \/ ErrorEvent(s)
    BY <1>4
  <2>2. Disconnect(s)
    BY <2>1 DEF CloseEvent, ErrorEvent
  <2>3. Home[s] \in Server /\ (reg[s] = NoUser => wire' = wire)
    BY <2>2, DisconnectIssues DEF Base
  <2>4. CASE wire' = wire
    BY <2>4 DEF Sent
  <2>5. CASE reg[s] # NoUser
    BY <2>1, <2>3, <2>5, DisconnectBase, SentFed
  <2> QED
    BY <2>3, <2>4, <2>5
<1>5. CASE \E h \in Server : ExecKeys(h) \/ ExecHgetall(h) \/ ExecHmset(h) \/ ExecDel(h)
  <2>1. PICK h \in Server : ExecKeys(h) \/ ExecHgetall(h) \/ ExecHmset(h) \/ ExecDel(h)
    BY <1>5
  <2>2. wire[h] # <<>> /\ Head(wire[h]) = wire[h][1]
    BY <2>1, ExecShape, HeadCommand
  <2>3. CASE ExecWhole(h) /\ (Srv(r) # h \/ i # 1)
    <3>1. Shifted(h)
      BY <2>3 DEF ExecWhole
    <3>2. CASE Srv(r) # h
      BY <1>1, <1>2, <3>1, <3>2 DEF Shifted, Sent
    <3>3. CASE Srv(r) = h /\ i # 1
      <4>1. i - 1 \in 1 .. Len(wire'[h]) /\ wire'[h][i - 1] = c
        BY <1>2, <3>1, <3>3 DEF Shifted
      <4> QED
        BY <1>1, <3>3, <4>1 DEF Sent
    <3> QED
      BY <2>3, <3>2, <3>3
  <2>4. CASE ExecWhole(h) /\ Srv(r) = h /\ i = 1
    <3>1. c = Head(wire[h])
      BY <1>2, <2>2, <2>4
    <3>2. PICK list \in SUBSET Key :
            /\ Answered(h, Answer(c, list))
            /\ c.op = "keys" => list = {k \in keys : k[1] \in Matches[c.req[2]]}
            /\ c.op = "hgetall" => list = c.keys \cap keys
      BY <2>4, <3>1 DEF ExecWhole
    <3>3. c.op = "hmset" => keys' = keys \cup c.keys
      BY <2>4, <3>1 DEF ExecWhole
    <3>4. Answer(c, list).req = r
      BY <1>1, AnswerTyped
    <3>5. Got(r, Answer(c, list))'
      BY <1>1, <2>4, <3>2, <3>4 DEF Answered, Got
    <3> QED
      BY <1>1, <3>2, <3>3, <3>5 DEF Ran
  <2>5. CASE ExecPart(h)
    <3>1. PICK l : Shrunk(h, l)
      BY <2>5 DEF ExecPart
    <3>2. Srv(r) # h \/ i # 1
      BY <1>1, <1>2, <2>2, <2>5 DEF ExecPart
    <3>3. i \in 1 .. Len(wire'[Srv(r)]) /\ wire'[Srv(r)][i] = c
      BY <1>1, <1>2, <3>1, <3>2 DEF Shrunk
    <3> QED
      BY <1>1, <3>3 DEF Sent
  <2> QED
    BY <2>1, <2>3, <2>4, <2>5, ExecShape
<1>6. CASE \E h \in Server : ReplyKeys(h) \/ ReplyHgetall(h)
  <2>1. PICK h \in Server : ReplyKeys(h) \/ ReplyHgetall(h)
    BY <1>6
  <2>2. PICK q \in Request, rest \in SUBSET Key, hits \in SUBSET Object :
              /\ Srv(q) = h /\ Given(h, q, rest, hits)
              /\ \/ \E l \in rest : LookupNext(h, q, rest, l)
                 \/ LookupKick(h, q, rest, hits)
                 \/ LookupSweep(h, q, rest, hits)
    BY <2>1, LookupCases
  <2>3. PICK cmds : Fed(h, cmds)
    BY <2>2, LookupBase
  <2> QED
    BY <2>3, SentFed
<1>7. CASE \E h \in Server : LinkDrop(h)
  <2>1. PICK h \in Server : LinkDrop(h)
    BY <1>7
  <2>2. /\ Cut(h)
        /\ \A j \in 1 .. Len(wire[h]) :
              /\ wire[h][j].op \in {"hmset", "del"} => wire[h][j].keys \subseteq torn'
              /\ wire[h][j].op \in {"keys", "hgetall"} => OwnKey(wire[h][j].req) \in torn'
    BY <2>1, DropBase
  <2>3. CASE Srv(r) # h
    BY <1>1, <1>2, <2>2, <2>3 DEF Cut, Sent
  <2>4. CASE Srv(r) = h
    <3>1. Answer(c, {}).req = r
      BY <1>1, AnswerTyped
    <3>2. Got(r, Answer(c, {}))'
      BY <1>2, <2>2, <2>4, <3>1 DEF Cut, Got
    <3>3. c.op = "hmset" => OwnKey(r) \in torn'
      BY <1>1, <1>2, <2>2, <2>4 DEF GoodCommand
    <3>4. c.op \in {"keys", "hgetall"} => OwnKey(r) \in torn'
      BY <1>1, <1>2, <2>2, <2>4
    <3> QED
      BY <3>2, <3>3, <3>4 DEF Broke
  <2> QED
    BY <2>3, <2>4
<1>8. CASE \E h \in Server : Exits(h)
  <2>0. PICK h \in Server : Exits(h)
    BY <1>8
  <2>1. PICK left : ProcessExit(h, left)
    BY <2>0 DEF Exits
  <2>2. Srv(r) # h
    BY <2>1 DEF ProcessExit, Pending
  <2>3. wire'[Srv(r)] = wire[Srv(r)]
    BY <1>1, <2>1, <2>2 DEF ProcessExit, Base, TypeOK
  <2> QED
    BY <2>3 DEF Sent
<1>9. CASE wire' = wire
  BY <1>9 DEF Sent
<1>10. \/ \E s \in Socket : Connect(s) \/ ClientClose(s) \/ Logout(s)
       \/ \E m \in net : RelayDrop(m) \/ RelayKick(m)
       \/ \E q \in Request : LoginAgain(q)
       \/ \E h \in Server : ReplyNull(h) \/ ReplyHmset(h) \/ ReplyDel(h) \/ Restart(h)
       \/ UNCHANGED vars
       => wire' = wire
  BY DEF Connect, ClientClose, Logout, RelayDrop, RelayKick, LoginAgain, ReplyNull,
         ReplyHmset, ReplyDel, Restart, redisVars, vars
<1> QED
  BY <1>3, <1>4, <1>5, <1>6, <1>7, <1>8, <1>9, <1>10, StepCases

LEMMA GotStays ==
    ASSUME Base, Life, [Next]_vars, NEW r \in Request, Pending(r), pc'[r] # "lost",
           NEW x, Got(r, x)
    PROVE  \/ Got(r, x)'
           \/ Handling(r) /\ Head(inbox[Srv(r)]) = x
           \/ Got(r, Answer(x, {}))' /\ (x.op \in {"keys", "hgetall"} => OwnKey(r) \in torn')
<1>1. x \in Reply /\ x.req = r /\ x.op # "del" /\ r # NoReq /\ Srv(r) \in Server
  BY GotTyped, RequestParts
<1>2. PICK i \in 1 .. Len(inbox[Srv(r)]) : inbox[Srv(r)][i] = x
  BY DEF Got
<1>3. CASE \E h \in Server : ExecKeys(h) \/ ExecHgetall(h) \/ ExecHmset(h) \/ ExecDel(h)
  <2>1. PICK h \in Server : ExecKeys(h) \/ ExecHgetall(h) \/ ExecHmset(h) \/ ExecDel(h)
    BY <1>3
  <2>2. CASE ExecWhole(h)
    <3>1. PICK y : Answered(h, y)
      BY <2>2 DEF ExecWhole
    <3>2. i \in 1 .. Len(inbox'[Srv(r)]) /\ inbox'[Srv(r)][i] = x
      BY <1>1, <1>2, <3>1 DEF Answered
    <3> QED
      BY <1>1, <3>2 DEF Got
  <2>3. CASE ExecPart(h)
    BY <2>3 DEF ExecPart, Got
  <2> QED
    BY <2>1, <2>2, <2>3, ExecShape
<1>4. CASE \E h \in Server : \/ ReplyKeys(h) \/ ReplyHgetall(h) \/ ReplyNull(h)
                             \/ ReplyHmset(h) \/ ReplyDel(h)
  <2>1. PICK h \in Server : \/ ReplyKeys(h) \/ ReplyHgetall(h) \/ ReplyNull(h)
                            \/ ReplyHmset(h) \/ ReplyDel(h)
    BY <1>4
  <2>2. Eaten(h)
    BY <2>1, LookupCases, LookupBase, ReplyBase
  <2>3. CASE Srv(r) # h
    BY <1>1, <2>2, <2>3 DEF Eaten, Got
  <2>4. CASE Srv(r) = h /\ i # 1
    <3>1. i - 1 \in 1 .. Len(inbox'[h]) /\ inbox'[h][i - 1] = x
      BY <1>2, <2>2, <2>4 DEF Eaten
    <3> QED
      BY <1>1, <2>4, <3>1 DEF Got
  <2>5. CASE Srv(r) = h /\ i = 1
    <3>1. inbox[h] # <<>>
      BY <2>1 DEF ReplyKeys, ReplyHgetall, ReplyNull, ReplyHmset, ReplyDel, Replied
    <3>2. Head(inbox[h]) = x
      BY <1>2, <2>5, <3>1, HeadReply
    <3>3. ~ReplyDel(h)
      BY <1>1, <3>2 DEF ReplyDel, Replied
    <3> QED
      BY <1>1, <2>1, <2>5, <3>1, <3>2, <3>3 DEF Handling
  <2> QED
    BY <2>3, <2>4, <2>5
<1>5. CASE \E h \in Server : LinkDrop(h)
  <2>1. PICK h \in Server : LinkDrop(h)
    BY <1>5
  <2>2. /\ Cut(h)
        /\ \A j \in 1 .. Len(inbox[h]) :
              inbox[h][j].op \in {"keys", "hgetall"} => OwnKey(inbox[h][j].req) \in torn'
    BY <2>1, DropBase
  <2>3. CASE Srv(r) # h
    BY <1>1, <1>2, <2>2, <2>3 DEF Cut, Got
  <2>4. CASE Srv(r) = h
    <3>1. Answer(x, {}).req = r
      BY <1>1, AnswerTyped
    <3>2. Got(r, Answer(x, {}))'
      <4>1. i \in 1 .. Len(inbox'[Srv(r)]) /\ inbox'[Srv(r)][i] = Answer(x, {})
        BY <1>2, <2>2, <2>4 DEF Cut
      <4> QED
        BY <3>1, <4>1 DEF Got
    <3>3. x.op \in {"keys", "hgetall"} => OwnKey(r) \in torn'
      BY <1>1, <1>2, <2>2, <2>4
    <3> QED
      BY <3>2, <3>3
  <2> QED
    BY <2>3, <2>4
<1>6. CASE \E h \in Server : Exits(h)
  <2>0. PICK h \in Server : Exits(h)
    BY <1>6
  <2>1. PICK left : ProcessExit(h, left)
    BY <2>0 DEF Exits
  <2>2. Srv(r) # h
    BY <2>1 DEF ProcessExit, Pending
  <2>3. inbox'[Srv(r)] = inbox[Srv(r)]
    BY <1>1, <2>1, <2>2 DEF ProcessExit, Base, TypeOK
  <2> QED
    BY <2>3 DEF Got
<1>7. CASE inbox' = inbox
  BY <1>7 DEF Got
<1>8. \/ \E s \in Socket : Connect(s) \/ ClientClose(s) \/ Logout(s)
      \/ \E m \in net : RelayDrop(m) \/ RelayKick(m)
      \/ \E q \in Request : LoginAgain(q) \/ Login(q)
      \/ \E s \in Socket : CloseEvent(s) \/ ErrorEvent(s)
      \/ \E h \in Server : Restart(h)
      \/ UNCHANGED vars
      => inbox' = inbox
  BY DEF Connect, ClientClose, Logout, RelayDrop, RelayKick, LoginAgain, Login, CloseEvent,
         ErrorEvent, Restart, redisVars, vars
<1> QED
  BY <1>3, <1>4, <1>5, <1>6, <1>7, <1>8, StepCases

\* A request has at most one command or reply under way.
LEMMA OneOfBoth ==
    ASSUME Base, NEW r \in Request
    PROVE  /\ \A c, d : Sent(r, c) /\ Sent(r, d) => c = d
           /\ \A x, y : Got(r, x) /\ Got(r, y) => x = y
           /\ \A c, x : ~(Sent(r, c) /\ Got(r, x))
           /\ inbox[Srv(r)] # <<>> /\ Head(inbox[Srv(r)]).req = r => Got(r, Head(inbox[Srv(r)]))
<1>1. Srv(r) \in Server /\ r # NoReq
  BY RequestParts
<1>2. ASSUME NEW c, NEW d, Sent(r, c), Sent(r, d) PROVE c = d
  BY <1>1, <1>2 DEF Base, Single, Sent
<1>3. ASSUME NEW x, NEW y, Got(r, x), Got(r, y) PROVE x = y
  BY <1>1, <1>3 DEF Base, Single, Got
<1>4. ASSUME NEW c, NEW x, Sent(r, c), Got(r, x) PROVE FALSE
  BY <1>1, <1>4 DEF Base, Single, Sent, Got
<1>5. ASSUME inbox[Srv(r)] # <<>>, Head(inbox[Srv(r)]).req = r
      PROVE  Got(r, Head(inbox[Srv(r)]))
  BY <1>1, <1>5, HeadReply DEF Got
<1> QED
  BY <1>2, <1>3, <1>4, <1>5

\* What only the request's own reply changes.
LEMMA LookupKeeps ==
    ASSUME Base, [Next]_vars, NEW r \in Request, pc[r] # "idle", pc'[r] # "lost",
           ~Handling(r)
    PROVE  todo'[r] = todo[r] /\ found'[r] = found[r] /\ pc'[r] = pc[r]
<1>1. CASE \E h \in Server : ReplyKeys(h) \/ ReplyHgetall(h)
  <2>1. PICK h \in Server : ReplyKeys(h) \/ ReplyHgetall(h)
    BY <1>1
  <2>2. PICK q \in Request, rest \in SUBSET Key, hits \in SUBSET Object :
              /\ Srv(q) = h /\ Given(h, q, rest, hits)
              /\ \/ \E l \in rest : LookupNext(h, q, rest, l)
                 \/ LookupKick(h, q, rest, hits)
                 \/ LookupSweep(h, q, rest, hits)
    BY <2>1, LookupCases
  <2>3. q # r
    BY <2>1, <2>2 DEF Handling, Given
  <2>4. found'[r] = found[r]
    BY <2>2, <2>3 DEF Given, Base, TypeOK
  <2>5. todo'[r] = todo[r] /\ pc'[r] = pc[r]
    BY <2>2, <2>3 DEF LookupNext, LookupKick, LookupSweep, SendKick, Sweep, Base, TypeOK
  <2> QED
    BY <2>4, <2>5
<1>2. CASE \E h \in Server : ReplyNull(h) \/ ReplyHmset(h)
  <2>1. PICK h \in Server : ReplyNull(h) \/ ReplyHmset(h)
    BY <1>2
  <2>2. inbox[h] # <<>> /\ Head(inbox[h]).op \in {"hgetall", "hmset"}
    BY <2>1 DEF ReplyNull, ReplyHmset, Replied
  <2>3. PICK q \in Request : q = Head(inbox[h]).req /\ Srv(q) = h
    BY <2>2, HeadReply, RequestParts DEF GoodReply, Match
  <2>4. q # r
    BY <2>1, <2>2, <2>3 DEF Handling
  <2> QED
    BY <2>1, <2>3, <2>4 DEF ReplyNull, ReplyHmset, Base, TypeOK
<1>3. CASE \E h \in Server : Exits(h)
  <2>0. PICK h \in Server : Exits(h)
    BY <1>3
  <2>1. PICK left : ProcessExit(h, left)
    BY <2>0 DEF Exits
  <2>2. CASE Srv(r) # h
    BY <2>1, <2>2 DEF ProcessExit
  <2>3. CASE Srv(r) = h
    BY <2>1, <2>3 DEF ProcessExit
  <2> QED
    BY <2>2, <2>3
<1>4. CASE \E q \in Request : LoginAgain(q) \/ Login(q)
  BY <1>4 DEF LoginAgain, Login, NextOnSocket, Base, TypeOK
<1>5. \/ \E s \in Socket : Connect(s) \/ ClientClose(s) \/ Logout(s)
      \/ \E m \in net : RelayDrop(m) \/ RelayKick(m)
      \/ \E s \in Socket : CloseEvent(s) \/ ErrorEvent(s)
      \/ \E h \in Server : ExecKeys(h) \/ ExecHgetall(h) \/ ExecHmset(h) \/ ExecDel(h)
      \/ \E h \in Server : ReplyDel(h) \/ LinkDrop(h) \/ Restart(h)
      \/ UNCHANGED vars
      => UNCHANGED <<todo, found, pc>>
  BY DEF Connect, ClientClose, Logout, RelayDrop, RelayKick, CloseEvent,
         ErrorEvent, ExecKeys, ExecHgetall, ExecHmset, ExecDel, ReplyDel, LinkDrop,
         Restart, loginVars, vars
<1> QED
  BY <1>1, <1>2, <1>3, <1>4, <1>5, StepCases

LEMMA HandlesLookup ==
    ASSUME Base, NEW r \in Request, Handling(r), pc[r] \in {"kick", "sweep"}, pc'[r] # "hung"
    PROVE  \E rest \in SUBSET Key, hits \in SUBSET Object :
              /\ Given(Srv(r), r, rest, hits)
              /\ \/ \E k \in rest : LookupNext(Srv(r), r, rest, k)
                 \/ LookupKick(Srv(r), r, rest, hits)
                 \/ LookupSweep(Srv(r), r, rest, hits)
<1> DEFINE h == Srv(r)
<1>1. h \in Server /\ inbox[h] # <<>> /\ Head(inbox[h]).req = r /\ r # NoReq
  BY RequestParts DEF Handling
<1>2. Head(inbox[h]).op # "hmset"
  BY <1>1, HeadReply DEF GoodReply, Match
<1>3. ~ReplyHmset(h)
  BY <1>2 DEF ReplyHmset, Replied
<1>4. ~ReplyNull(h)
  BY <1>1 DEF ReplyNull, Base, TypeOK
<1>5. ReplyKeys(h) \/ ReplyHgetall(h)
  BY <1>3, <1>4 DEF Handling
<1>6. PICK q \in Request, rest \in SUBSET Key, hits \in SUBSET Object :
              /\ Srv(q) = h /\ Given(h, q, rest, hits)
              /\ \/ \E l \in rest : LookupNext(h, q, rest, l)
                 \/ LookupKick(h, q, rest, hits)
                 \/ LookupSweep(h, q, rest, hits)
  BY <1>1, <1>5, LookupCases
<1>7. q = r
  BY <1>1, <1>6 DEF Given
<1> QED
  BY <1>6, <1>7

LEMMA FedSent ==
    ASSUME NEW r \in Request, NEW c, c.req = r, Fed(Srv(r), <<c>>)
    PROVE  Sent(r, c)'
<1>1. Len(<<c>>) = 1 /\ <<c>>[1] = c /\ 1 \in 1 .. Len(<<c>>)
  OBVIOUS
<1>2. /\ wire'[Srv(r)][Len(wire[Srv(r)]) + 1] = c
      /\ Len(wire[Srv(r)]) + 1 \in 1 .. Len(wire'[Srv(r)])
  BY <1>1 DEF Fed
<1> QED
  BY <1>2 DEF Sent

LEMMA KickSent ==
    ASSUME NEW r \in Request, NEW ks \in SUBSET Key, Fed(Srv(r), KickCommands(r, ks))
    PROVE  Sent(r, Cmd("keys", r, {}))'
<1>1. PICK c \in Command : c = Cmd("keys", r, {}) /\ c.req = r
  BY CmdTyped DEF Op
<1>2. PICK n \in 1 .. Len(KickCommands(r, ks)) : KickCommands(r, ks)[n] = c
  <2> DEFINE p == KickCommands(r, ks)
  <2>0. /\ NewFor(Srv(r), r, p) /\ Len(p) = IF ks = {} THEN 1 ELSE 2
        /\ ks = {} => p[1] = Cmd("keys", r, {})
        /\ ks # {} => p[2] = Cmd("keys", r, {})
    BY KickFacts
  <2> HIDE DEF p
  <2>1. CASE ks = {}
    <3>1. 1 \in 1 .. Len(p) /\ p[1] = c
      BY <1>1, <2>0, <2>1
    <3> QED
      BY <3>1 DEF p
  <2>2. CASE ks # {}
    <3>1. 2 \in 1 .. Len(p) /\ p[2] = c
      BY <1>1, <2>0, <2>2
    <3> QED
      BY <3>1 DEF p
  <2> QED
    BY <2>1, <2>2
<1>3. /\ wire'[Srv(r)][Len(wire[Srv(r)]) + n] = c
      /\ Len(wire[Srv(r)]) + n \in 1 .. Len(wire'[Srv(r)])
  BY <1>2 DEF Fed
<1> QED
  BY <1>1, <1>3 DEF Sent

\* What a lookup does to its request: it reads on, starts the second lookup, or
\* writes the hash.
LEMMA LookupSends ==
    ASSUME Base, NEW r \in Request, NEW rest \in SUBSET Key, NEW hits \in SUBSET Object,
           Given(Srv(r), r, rest, hits)
    PROVE  /\ \A k \in rest : LookupNext(Srv(r), r, rest, k) =>
                 Sent(r, Cmd("hgetall", r, {k}))'
           /\ LookupKick(Srv(r), r, rest, hits) => Sent(r, Cmd("keys", r, {}))'
           /\ LookupSweep(Srv(r), r, rest, hits) => Sent(r, Cmd("hmset", r, {OwnKey(r)}))'
<1>1. Srv(r) \in Server
  BY RequestParts
<1>2. ASSUME NEW k \in rest, LookupNext(Srv(r), r, rest, k)
      PROVE  Sent(r, Cmd("hgetall", r, {k}))'
  <2>1. Fed(Srv(r), <<Cmd("hgetall", r, {k})>>)
    BY <1>1, <1>2, LookupBase
  <2> QED
    BY <2>1, FedSent DEF Cmd
<1>3. ASSUME LookupKick(Srv(r), r, rest, hits)
      PROVE  Sent(r, Cmd("keys", r, {}))'
  <2>1. Fed(Srv(r), KickCommands(r, ExpiredKeys(r, hits)))
    BY <1>1, <1>3, LookupBase
  <2>2. ExpiredKeys(r, hits) \in SUBSET Key
    BY <1>3, KickIssues DEF LookupKick
  <2> QED
    BY <2>1, <2>2, KickSent
<1>4. ASSUME LookupSweep(Srv(r), r, rest, hits)
      PROVE  Sent(r, Cmd("hmset", r, {OwnKey(r)}))'
  <2>1. Fed(Srv(r), <<Cmd("hmset", r, {OwnKey(r)})>>)
    BY <1>1, <1>4, LookupBase
  <2> QED
    BY <2>1, FedSent DEF Cmd
<1> QED
  BY <1>2, <1>3, <1>4

\* A login that writes its hash has the HMSET or its reply under way.
Waiting(r) ==
    \/ \E i \in 1 .. Len(wire[Srv(r)]) : wire[Srv(r)][i].req = r
    \/ \E i \in 1 .. Len(inbox[Srv(r)]) : inbox[Srv(r)][i].req = r

Waits == \A r \in Request : pc[r] = "set" => Waiting(r)

LEMMA WaitingFor ==
    ASSUME NEW r \in Request
    PROVE  Waiting(r) <=> (\E c : Sent(r, c)) \/ (\E x : Got(r, x))
BY DEF Waiting, Sent, Got

LEMMA SweepSends ==
    ASSUME Base, [Next]_vars, NEW r \in Request, pc[r] = "sweep", pc'[r] = "set"
    PROVE  \E rest \in SUBSET Key, hits \in SUBSET Object :
              /\ Given(Srv(r), r, rest, hits) /\ LookupSweep(Srv(r), r, rest, hits)
              /\ Sent(r, Cmd("hmset", r, {OwnKey(r)}))'
<1>1. Handling(r)
  BY LookupKeeps
<1>2. PICK rest \in SUBSET Key, hits \in SUBSET Object :
              /\ Given(Srv(r), r, rest, hits)
              /\ \/ \E k \in rest : LookupNext(Srv(r), r, rest, k)
                 \/ LookupKick(Srv(r), r, rest, hits)
                 \/ LookupSweep(Srv(r), r, rest, hits)
  BY <1>1, HandlesLookup
<1>3. LookupSweep(Srv(r), r, rest, hits)
  BY <1>2 DEF LookupNext, LookupKick
<1> QED
  BY <1>2, <1>3, LookupSends

LEMMA SetHandled ==
    ASSUME Base, Life, NEW r \in Request, pc[r] = "set", Handling(r)
    PROVE  ReplyHmset(Srv(r)) /\ pc'[r] = "done"
<1> DEFINE h == Srv(r)
<1>1. h \in Server /\ inbox[h] # <<>> /\ Head(inbox[h]).req = r /\ r # NoReq
  BY RequestParts DEF Handling
<1>2. Head(inbox[h]).op = "hmset"
  BY <1>1, HeadReply DEF GoodReply, Match
<1>3. ReplyHmset(h)
  BY <1>2 DEF Handling, ReplyKeys, ReplyHgetall, ReplyNull, Replied
<1> QED
  BY <1>1, <1>3 DEF ReplyHmset, Base, TypeOK

LEMMA WaitsStep ==
    ASSUME Base, Life, Waits, [Next]_vars
    PROVE  Waits'
<1> SUFFICES ASSUME NEW r \in Request, pc'[r] = "set"
             PROVE  (\E c : Sent(r, c)') \/ (\E x : Got(r, x)')
  BY DEF Waits, Waiting, Sent, Got
<1>1. CASE pc[r] = "set"
  <2>1. Pending(r)
    BY <1>1 DEF Pending
  <2>2. ASSUME NEW c, Sent(r, c) PROVE (\E d : Sent(r, d)') \/ (\E x : Got(r, x)')
    BY <2>1, <2>2, SentStays DEF Ran, Broke
  <2>3. ASSUME NEW x, Got(r, x) PROVE \E y : Got(r, y)'
    BY <1>1, <2>1, <2>3, GotStays, SetHandled
  <2> QED
    BY <1>1, <2>2, <2>3, WaitingFor DEF Waits
<1>2. CASE pc[r] # "set"
  <2>1. pc[r] = "sweep"
    BY <1>2, StepMoves DEF Moves, PcMove
  <2> QED
    BY <2>1, SweepSends
<1> QED
  BY <1>1, <1>2

-----------------------------------------------------------------------------
(* Every registered user is listed: the hash was written before, and nobody *)
(* has issued a DEL of it.                                                  *)

LEMMA KeysShrink ==
    ASSUME Base, [Next]_vars, NEW k \in keys, k \notin keys'
    PROVE  \E g \in Server : DelIn(g, k)
<1>1. CASE \E h \in Server : ExecDel(h)
  <2>1. PICK h \in Server : ExecDel(h)
    BY <1>1
  <2>2. /\ wire[h] # <<>> /\ Head(wire[h]).op = "del"
        /\ \E l \in Head(wire[h]).keys : keys' = keys \ {l}
    BY <2>1 DEF ExecDel, Next1
  <2>3. k \in Head(wire[h]).keys /\ Head(wire[h]) = wire[h][1] /\ 1 \in 1 .. Len(wire[h])
    BY <2>2, HeadCommand
  <2> QED
    BY <2>2, <2>3 DEF DelIn
<1>2. \/ \E s \in Socket : Connect(s) \/ ClientClose(s) \/ Logout(s)
      \/ \E m \in net : RelayDrop(m) \/ RelayKick(m)
      \/ \E q \in Request : LoginAgain(q) \/ Login(q)
      \/ \E s \in Socket : CloseEvent(s) \/ ErrorEvent(s)
      \/ \E h \in Server : ExecKeys(h) \/ ExecHgetall(h) \/ ExecHmset(h)
      \/ \E h \in Server : \/ ReplyKeys(h) \/ ReplyHgetall(h) \/ ReplyNull(h) \/ ReplyHmset(h)
                           \/ ReplyDel(h) \/ LinkDrop(h) \/ Restart(h) \/ Exits(h)
      \/ UNCHANGED vars
      => keys \subseteq keys'
  BY DEF Connect, ClientClose, Logout, RelayDrop, RelayKick, LoginAgain, Login, CloseEvent,
         ErrorEvent, ExecKeys, ExecHgetall, ExecHmset, ReplyKeys, ReplyHgetall, ReplyNull,
         ReplyHmset, ReplyDel, LinkDrop, Restart, Exits, ProcessExit, redisVars, vars
<1> QED
  BY <1>1, <1>2, StepCases

\* An HGETALL reply that is handled before the reply of r lists the hash of r.
Quoted(r) ==
    LET h == Srv(r) IN
    \E i, j \in 1 .. Len(inbox[h]) :
        /\ j <= i /\ inbox[h][i].req = r
        /\ inbox[h][j].op = "hgetall" /\ OwnKey(r) \in inbox[h][j].list

LEMMA QuotedListed ==
    ASSUME NEW r \in Request, Quoted(r)
    PROVE  ListIn(Srv(r), OwnKey(r))
BY DEF Quoted, ListIn

LEMMA QuotedStays ==
    ASSUME Base, Life, [Next]_vars, NEW r \in Request, Pending(r), pc'[r] # "lost",
           NEW x, Got(r, x), Quoted(r)', ~Handling(r)
    PROVE  Quoted(r)
<1> DEFINE h == Srv(r)
<1>1. h \in Server /\ r # NoReq /\ Base'
  BY RequestParts, BaseStep
<1>2. PICK n \in 1 .. Len(inbox[h]) : inbox[h][n] = x /\ inbox[h][n].req = r
  BY DEF Got
<1>3. PICK i \in 1 .. Len(inbox'[h]), j \in 1 .. Len(inbox'[h]) :
        /\ j <= i /\ inbox'[h][i].req = r
        /\ inbox'[h][j].op = "hgetall" /\ OwnKey(r) \in inbox'[h][j].list
  BY DEF Quoted
<1>4. inbox[h] \in Seq(Reply) /\ inbox'[h] \in Seq(Reply)
  BY <1>1 DEF Base, TypeOK
<1> HIDE DEF h
<1>5. CASE inbox'[h] = inbox[h]
  BY <1>3, <1>5 DEF Quoted, h
<1>6. CASE \E g \in Server : ExecKeys(g) \/ ExecHgetall(g) \/ ExecHmset(g) \/ ExecDel(g)
  <2>1. PICK g \in Server : ExecKeys(g) \/ ExecHgetall(g) \/ ExecHmset(g) \/ ExecDel(g)
    BY <1>6
  <2>2. CASE ExecWhole(g)
    <3>1. PICK y : Answered(g, y)
      BY <2>2 DEF ExecWhole
    <3>2. CASE g # h
      <4>1. inbox'[h] = inbox[h]
        BY <1>1, <3>1, <3>2 DEF Answered
      <4> QED
        BY <1>5, <4>1
    <3>3. CASE g = h
      <4>1. /\ \A m \in 1 .. Len(inbox[h]) : /\ inbox'[h][m] = inbox[h][m]
                                             /\ m \in 1 .. Len(inbox'[h])
        BY <3>1, <3>3 DEF Answered
      <4>a. n \in 1 .. Len(inbox'[h]) /\ inbox'[h][n].req = r
        BY <1>2, <4>1
      <4>2. i = n
        BY <1>1, <1>3, <4>a DEF Base, Single
      <4>3. j \in 1 .. Len(inbox[h])
        BY <1>2, <1>3, <1>4, <4>2
      <4>4. inbox[h][j] = inbox'[h][j]
        BY <4>1, <4>3
      <4> QED
        BY <1>2, <1>3, <4>2, <4>3, <4>4 DEF Quoted, h
    <3> QED
      BY <3>2, <3>3
  <2>3. CASE ExecPart(g)
    BY <1>5, <2>3 DEF ExecPart
  <2> QED
    BY <2>1, <2>2, <2>3, ExecShape
<1>7. CASE \E g \in Server : \/ ReplyKeys(g) \/ ReplyHgetall(g) \/ ReplyNull(g)
                             \/ ReplyHmset(g) \/ ReplyDel(g)
  <2>1. PICK g \in Server : \/ ReplyKeys(g) \/ ReplyHgetall(g) \/ ReplyNull(g)
                            \/ ReplyHmset(g) \/ ReplyDel(g)
    BY <1>7
  <2>2. Eaten(g)
    BY <2>1, LookupCases, LookupBase, ReplyBase
  <2>3. CASE g # h
    <3>1. inbox'[h] = inbox[h]
      BY <1>1, <2>2, <2>3 DEF Eaten
    <3> QED
      BY <1>5, <3>1
  <2>4. CASE g = h
    <3>1. /\ inbox'[h][i] = inbox[h][i + 1] /\ i + 1 \in 1 .. Len(inbox[h])
          /\ inbox'[h][j] = inbox[h][j + 1] /\ j + 1 \in 1 .. Len(inbox[h])
      BY <2>2, <2>4 DEF Eaten
    <3>2. j + 1 <= i + 1
      BY <1>3, <1>4
    <3> QED
      BY <1>3, <3>1, <3>2 DEF Quoted, h
  <2> QED
    BY <2>3, <2>4
<1>8. CASE \E g \in Server : LinkDrop(g)
  <2>1. PICK g \in Server : LinkDrop(g)
    BY <1>8
  <2>2. Cut(g)
    BY <2>1, LinkCut DEF Base
  <2>3. CASE g # h
    <3>1. inbox'[h] = inbox[h]
      BY <1>1, <2>2, <2>3 DEF Cut
    <3> QED
      BY <1>5, <3>1
  <2>4. CASE g = h
    <3>1. \A m \in 1 .. Len(inbox[h]) : /\ m \in 1 .. Len(inbox'[h])
                                        /\ inbox'[h][m] = Answer(inbox[h][m], {})
      BY <2>2, <2>4 DEF Cut
    <3>2. \A m \in 1 .. Len(inbox[h]) : inbox[h][m] \in Reply
      BY <1>1, EntryHome
    <3>3. inbox'[h][n].req = r
      BY <1>2, <3>1, <3>2, AnswerTyped
    <3>4. i = n
      BY <1>1, <1>2, <1>3, <3>1, <3>3 DEF Base, Single
    <3>5. j \in 1 .. Len(inbox[h])
      BY <1>2, <1>3, <1>4, <3>4
    <3>6. inbox'[h][j].list = {}
      BY <3>1, <3>2, <3>5, AnswerTyped
    <3> QED
      BY <1>3, <3>6
  <2> QED
    BY <2>3, <2>4
<1>9. CASE \E g \in Server : Exits(g)
  <2>0. PICK g \in Server : Exits(g)
    BY <1>9
  <2>1. PICK left : ProcessExit(g, left)
    BY <2>0 DEF Exits
  <2>2. Srv(r) # g
    BY <2>1 DEF ProcessExit, Pending
  <2>3. inbox'[h] = inbox[h]
    BY <1>1, <2>1, <2>2 DEF ProcessExit, Base, TypeOK, h
  <2> QED
    BY <1>5, <2>3
<1>10. CASE inbox' = inbox
  BY <1>5, <1>10
<1>11. \/ \E s \in Socket : Connect(s) \/ ClientClose(s) \/ Logout(s)
       \/ \E m \in net : RelayDrop(m) \/ RelayKick(m)
       \/ \E q \in Request : LoginAgain(q) \/ Login(q)
       \/ \E s \in Socket : CloseEvent(s) \/ ErrorEvent(s)
       \/ \E g \in Server : Restart(g)
       \/ UNCHANGED vars
       => inbox' = inbox
  BY DEF Connect, ClientClose, Logout, RelayDrop, RelayKick, LoginAgain, Login, CloseEvent,
         ErrorEvent, Restart, redisVars, vars
<1> QED
  BY <1>6, <1>7, <1>8, <1>9, <1>10, <1>11, StepCases

\* Until a login that is alone on its socket is registered nobody can delete its hash:
\* no DEL of it is under way, and no lookup of its server knows it.
FirstOf(r) ==
    LET h == Srv(r)  k == OwnKey(r) IN
    /\ \A g \in Server : ~DelIn(g, k)
    /\ \A q \in Request : Srv(q) = h => \A e \in found[q] : e[2] # r[1]
    /\ (\E i \in 1 .. Len(wire[h]) : wire[h][i].req = r) => k \notin keys /\ ~ListIn(h, k)
    /\ (\E i \in 1 .. Len(inbox[h]) : inbox[h][i].req = r) =>
          k \in keys \cup torn /\ ~Quoted(r)

Writing == \A r \in Request : pc[r] = "set" /\ OneLogin(r[1]) => FirstOf(r)

Listed ==
    \A s \in Socket : OneLogin(s) /\ reg[s] # NoUser =>
        /\ <<reg[s], s>> \in keys \cup torn
        /\ \A g \in Server : ~DelIn(g, <<reg[s], s>>)

\* An object for socket s that a local lookup has just found is its own hash, listed
\* by the reply at the head of the inbox.
LEMMA NewObject ==
    ASSUME Base, Origin, [Next]_vars, NEW q \in Request, NEW e \in found'[q],
           e \notin found[q]
    PROVE  /\ inbox[Srv(q)] # <<>> /\ Head(inbox[Srv(q)]).op = "hgetall"
           /\ \E k \in Head(inbox[Srv(q)]).list : k \in Key /\ k[2] = e[2] /\ Wrote(k)
<1>1. PICK k \in Head(inbox[Srv(q)]).list :
            /\ inbox[Srv(q)] # <<>> /\ Head(inbox[Srv(q)]).op = "hgetall"
            /\ e = UserObject(Srv(q), k)
  BY FoundGrows
<1>2. k \in Key /\ Wrote(k)
  BY <1>1, HeadListed, RequestParts DEF Origin
<1>3. k[2] = e[2]
  <2>1. UserObject(Srv(q), k)[2] = k[2]
    BY DEF UserObject
  <2> QED
    BY <1>1, <2>1
<1> QED
  BY <1>1, <1>2, <1>3

\* A login that starts to write, alone on its socket, is the first to do so.
LEMMA WritingStarts ==
    ASSUME Base, Life, Origin, [Next]_vars, NEW r \in Request, OneLogin(r[1]),
           pc[r] = "sweep", pc'[r] = "set"
    PROVE  FirstOf(r)'
<1> DEFINE h == Srv(r)
           k == OwnKey(r)
<1>1. Base' /\ h \in Server /\ k \in Key /\ k = <<r[2], r[1]>> /\ r[1] \in Socket
  BY BaseStep, RequestParts DEF OwnKey
<1>2. \A u : ~Wrote(<<u, r[1]>>)
  BY SoleWriter DEF Accepted
<1>3. k \notin keys /\ reg[r[1]] = NoUser
  BY <1>1, <1>2, RegWrote DEF Origin
<1>4. \A g \in Server : ~DelIn(g, k) /\ ~ListIn(g, k)
  BY <1>1, <1>2 DEF Origin
<1>5. ASSUME NEW q \in Request, NEW e \in found'[q] PROVE e[2] # r[1]
  <2>1. CASE e \in found[q]
    BY <1>2, <2>1 DEF Origin
  <2>2. CASE e \notin found[q]
    <3>1. PICK l \in Key : l[2] = e[2] /\ Wrote(l)
      BY <1>5, <2>2, NewObject
    <3>2. l = <<l[1], l[2]>>
      BY DEF Key
    <3> QED
      BY <1>2, <3>1, <3>2
  <2> QED
    BY <2>1, <2>2
<1>6. ASSUME NEW g \in Server, DelIn(g, k)' PROVE FALSE
  <2>1. k[2] = r[1]
    BY RequestParts
  <2>2. \E q \in Request : \E e \in found'[q] : <<e[1], e[2]>> = k
    BY <1>1, <1>3, <1>4, <1>6, <2>1, DelGrows
  <2> QED
    BY <1>1, <1>5, <2>2
<1>7. ~ListIn(h, k)'
  BY <1>1, <1>3, <1>4, ListGrows
<1>8. PICK c : Sent(r, c)'
  BY SweepSends
<1>9. ~\E i \in 1 .. Len(inbox'[h]) : inbox'[h][i].req = r
  BY <1>1, <1>8, RequestParts DEF Base, Single, Sent
<1>10. k \notin keys'
  <2>1. PICK rest \in SUBSET Key, hits \in SUBSET Object : Given(h, r, rest, hits)
    BY SweepSends
  <2> QED
    BY <1>3, <2>1 DEF Given
<1> QED
  BY <1>5, <1>6, <1>7, <1>9, <1>10 DEF FirstOf

LEMMA WritingStays ==
    ASSUME Base, Life, Origin, Waits, [Next]_vars, NEW r \in Request, OneLogin(r[1]),
           FirstOf(r), pc[r] = "set", pc'[r] = "set"
    PROVE  FirstOf(r)'
<1> DEFINE h == Srv(r)
           k == OwnKey(r)
<1>1. /\ Base' /\ h \in Server /\ k \in Key /\ k = <<r[2], r[1]>> /\ r[1] \in Socket
      /\ k[1] = r[2] /\ k[2] = r[1] /\ r # NoReq /\ torn \subseteq torn' /\ Home[r[1]] = h
  BY BaseStep, RequestParts, TornGrows DEF OwnKey, Srv
<1>2. Pending(r) /\ Accepted(r) /\ up[h] /\ ~Handling(r)
  BY PendingUp, SetHandled DEF Pending, Accepted
<1>3. reg[r[1]] = NoUser
  <2>1. SUFFICES ASSUME reg[r[1]] # NoUser PROVE FALSE
    OBVIOUS
  <2>2. PICK q \in Request : q[1] = r[1] /\ pc[q] = "done"
    BY <1>1, <2>1 DEF Life
  <2> QED
    BY <1>2, <2>2 DEF OneLogin, Accepted
<1>4. (\E c : Sent(r, c)) \/ (\E x : Got(r, x))
  BY WaitingFor DEF Waits
<1>5. ASSUME NEW q \in Request, Srv(q) = h, NEW e \in found'[q] PROVE e[2] # r[1]
  <2>1. CASE e \in found[q]
    BY <1>5, <2>1 DEF FirstOf
  <2>2. CASE e \notin found[q]
    <3>1. /\ inbox[h] # <<>> /\ Head(inbox[h]).op = "hgetall"
          /\ \E l \in Head(inbox[h]).list : l \in Key /\ l[2] = e[2] /\ Wrote(l)
      BY <1>5, <2>2, NewObject
    <3>2. PICK l \in Head(inbox[h]).list : l \in Key /\ l[2] = e[2] /\ Wrote(l)
      BY <3>1
    <3>3. SUFFICES ASSUME e[2] = r[1] PROVE FALSE
      OBVIOUS
    <3>4. l = <<l[1], r[1]>>
      BY <3>2, <3>3 DEF Key
    <3>5. l[1] = r[2]
      BY <1>2, <3>2, <3>4, SoleWriter
    <3>6. k \in Head(inbox[h]).list
      BY <1>1, <3>2, <3>4, <3>5
    <3>7. ListIn(h, k)
      BY <1>1, <3>1, <3>6, HeadListed
    <3>8. PICK x : Got(r, x)
      BY <1>4, <3>7 DEF FirstOf, Sent
    <3>9. PICK i \in 1 .. Len(inbox[h]) : inbox[h][i].req = r
      BY <3>8 DEF Got
    <3>10. 1 \in 1 .. Len(inbox[h]) /\ Head(inbox[h]) = inbox[h][1] /\ 1 <= i
      BY <1>1, <3>1, HeadReply
    <3>11. Quoted(r)
      BY <3>1, <3>6, <3>9, <3>10 DEF Quoted
    <3> QED
      BY <3>9, <3>11 DEF FirstOf
  <2> QED
    BY <2>1, <2>2
<1>6. ASSUME NEW g \in Server, DelIn(g, k)' PROVE FALSE
  <2>1. ~DelIn(g, k)
    BY DEF FirstOf
  <2>2. g = h /\ \E q \in Request : Srv(q) = g /\ \E e \in found'[q] : <<e[1], e[2]>> = k
    BY <1>1, <1>3, <1>6, <2>1, DelGrows
  <2> QED
    BY <1>1, <1>5, <2>2
<1>7. k \in keys => k \in keys'
  BY KeysShrink DEF FirstOf
<1>8. ASSUME NEW c, Sent(r, c)
      PROVE  /\ k \notin keys /\ ~ListIn(h, k) /\ ~Quoted(r)'
             /\ \/ Sent(r, c)' /\ k \notin keys' /\ ~ListIn(h, k)'
                \/ \E x : Got(r, x)' /\ k \in keys' \cup torn'
  <2>1. k \notin keys /\ ~ListIn(h, k)
    BY <1>8 DEF FirstOf, Sent
  <2>2. ~ListIn(h, k)'
    BY <1>1, <2>1, ListGrows
  <2>3. ~Quoted(r)'
    BY <2>2 DEF Quoted, ListIn
  <2>4. c.op = "hmset" /\ c.keys = {k}
    BY <1>1, <1>2, <1>8, SentTyped DEF GoodCommand, Match
  <2>5. CASE Sent(r, c)'
    <3>1. k \notin keys'
      <4>1. SUFFICES ASSUME k \in keys' PROVE FALSE
        OBVIOUS
      <4>2. PICK q \in Request :
              /\ wire[Srv(q)] # <<>> /\ Head(wire[Srv(q)]).req = q
              /\ k = OwnKey(q) /\ GoodCommand(Srv(q), Head(wire[Srv(q)])) /\ ExecHmset(Srv(q))
        BY <2>1, <4>1, KeysGrow
      <4>3. q[1] = r[1] /\ Srv(q) = h /\ q # NoReq
        BY <1>1, <4>2, RequestParts DEF Srv
      <4>4. Head(wire[h]).op = "hmset" /\ Executed(h, {})
        BY <4>2, <4>3 DEF ExecHmset, Next1
      <4>5. pc[q] = "set"
        BY <1>2, <4>2, <4>3, <4>4 DEF GoodCommand, Match
      <4>6. q = r
        BY <1>2, <4>3, <4>5 DEF OneLogin, Accepted
      <4>7. Answered(h, Answer(Head(wire[h]), {})) /\ Head(wire[h]) \in Command
        BY <1>1, <4>2, <4>3, <4>4, ExecutedFacts, HeadCommand DEF Base
      <4>8. Answer(Head(wire[h]), {}).req = r
        BY <4>2, <4>3, <4>6, <4>7, AnswerTyped
      <4>9. \E i \in 1 .. Len(inbox'[h]) : inbox'[h][i].req = r
        BY <1>2, <4>7, <4>8 DEF Answered
      <4> QED
        BY <1>1, <2>5, <4>9 DEF Base, Single, Sent
    <3> QED
      BY <2>1, <2>2, <2>3, <2>5, <3>1
  <2>6. CASE Ran(r, c)
    BY <2>1, <2>3, <2>4, <2>6 DEF Ran
  <2>7. CASE Broke(r, c)
    BY <2>1, <2>3, <2>4, <2>7 DEF Broke
  <2> QED
    BY <1>2, <1>8, <2>5, <2>6, <2>7, SentStays
<1>9. ASSUME NEW x, Got(r, x)
      PROVE  k \in keys' \cup torn' /\ ~Quoted(r)' /\ \E y : Got(r, y)'
  <2>1. k \in keys \cup torn /\ ~Quoted(r)
    BY <1>9 DEF FirstOf, Got
  <2>2. ~Quoted(r)'
    BY <1>2, <1>9, <2>1, QuotedStays
  <2>3. \E y : Got(r, y)'
    BY <1>2, <1>9, GotStays
  <2> QED
    BY <1>1, <1>7, <2>1, <2>2, <2>3
<1>10. ASSUME NEW i \in 1 .. Len(wire'[h]), wire'[h][i].req = r
       PROVE  k \notin keys' /\ ~ListIn(h, k)'
  <2>1. \A y : ~Got(r, y)'
    BY <1>1, <1>10 DEF Base, Single, Got
  <2> QED
    BY <1>4, <1>8, <1>9, <2>1
<1>11. ASSUME NEW i \in 1 .. Len(inbox'[h]), inbox'[h][i].req = r
       PROVE  k \in keys' \cup torn' /\ ~Quoted(r)'
  <2>1. \A c : ~Sent(r, c)'
    BY <1>1, <1>11 DEF Base, Single, Sent
  <2> QED
    BY <1>4, <1>8, <1>9, <2>1
<1> QED
  BY <1>5, <1>6, <1>10, <1>11 DEF FirstOf

LEMMA WritingStep ==
    ASSUME Base, Life, Origin, Waits, Writing, [Next]_vars
    PROVE  Writing'
<1> SUFFICES ASSUME NEW r \in Request, pc'[r] = "set", OneLogin(r[1])' PROVE FirstOf(r)'
  BY DEF Writing
<1>1. Moves /\ OneLogin(r[1])
  BY StepMoves, OneStays
<1>2. CASE pc[r] = "set"
  BY <1>1, <1>2, WritingStays DEF Writing
<1>3. CASE pc[r] # "set"
  <2>1. pc[r] = "sweep"
    BY <1>1, <1>3 DEF Moves, PcMove
  <2> QED
    BY <1>1, <2>1, WritingStarts
<1> QED
  BY <1>2, <1>3

LEMMA ListedStep ==
    ASSUME Base, Life, Origin, Writing, Listed, [Next]_vars
    PROVE  Listed'
<1> SUFFICES ASSUME NEW s \in Socket, OneLogin(s)', reg'[s] # NoUser
             PROVE  /\ <<reg'[s], s>> \in keys' \cup torn'
                    /\ \A g \in Server : ~DelIn(g, <<reg[s], s>>)'
  BY DEF Listed
<1>1. Moves /\ OneLogin(s) /\ torn \subseteq torn' /\ Base'
  BY StepMoves, OneStays, TornGrows, BaseStep
<1>2. PICK k \in Key : k = <<reg'[s], s>>
  BY <1>1 DEF Base, TypeOK, Key
<1>3. k[2] = s
  BY <1>2
<1>4. \A g \in Server : DelIn(g, k)' => DelIn(g, k)
  BY <1>3, DelGrows
<1>5. SUFFICES k \in keys' \cup torn' /\ \A g \in Server : ~DelIn(g, k)'
  BY <1>2
<1>6. CASE reg'[s] = reg[s]
  <2>1. k \in keys \cup torn /\ \A g \in Server : ~DelIn(g, k)
    BY <1>1, <1>2, <1>6 DEF Listed
  <2> QED
    BY <1>1, <1>4, <2>1, KeysShrink
<1>7. CASE reg'[s] # reg[s]
  <2>1. PICK r \in Request : r[1] = s /\ r[2] = reg'[s] /\ pc[r] = "set" /\ pc'[r] = "done"
    BY <1>1, <1>7 DEF Moves, RegMove
  <2>2. k = OwnKey(r)
    BY <1>2, <2>1 DEF OwnKey
  <2>3. FirstOf(r)
    BY <1>1, <2>1 DEF Writing
  <2>4. Handling(r)
    BY <2>1, LookupKeeps
  <2>5. Got(r, Head(inbox[Srv(r)]))
    BY <2>4, OneOfBoth DEF Handling
  <2>6. k \in keys \cup torn /\ \A g \in Server : ~DelIn(g, k)
    BY <2>2, <2>3, <2>5 DEF FirstOf, Got
  <2> QED
    BY <1>1, <1>4, <2>6, KeysShrink
<1> QED
  BY <1>6, <1>7

-----------------------------------------------------------------------------
(* A lookup sees every hash that stays in Redis while it runs.             *)

Kept(r, k) == k \in todo[r] \/ UserObject(Srv(r), k) \in found[r]

\* The lookup of r will come upon k: it is still to be listed or read, or has been.
AsksFor(r, k, c) == c.op = "hgetall" => k \in c.keys \/ Kept(r, k)
Tells(r, k, x)   == k \in x.list \/ (x.op = "hgetall" /\ Kept(r, k))

Seen(r, k) ==
    LET h == Srv(r) IN
    \/ \E i \in 1 .. Len(wire[h]) : wire[h][i].req = r /\ AsksFor(r, k, wire[h][i])
    \/ \E i \in 1 .. Len(inbox[h]) : inbox[h][i].req = r /\ Tells(r, k, inbox[h][i])

LEMMA SeenBy ==
    ASSUME NEW r \in Request, NEW k, Seen(r, k)
    PROVE  \/ \E c : Sent(r, c) /\ AsksFor(r, k, c)
           \/ \E x : Got(r, x) /\ Tells(r, k, x)
BY DEF Seen, Sent, Got

LEMMA SeenSent ==
    ASSUME NEW r \in Request, NEW k, NEW c, Sent(r, c)',
           c.op = "hgetall" => k \in c.keys \/ Kept(r, k)'
    PROVE  Seen(r, k)'
BY DEF Seen, Sent, AsksFor

LEMMA SeenGot ==
    ASSUME NEW r \in Request, NEW k, NEW x, Got(r, x)',
           k \in x.list \/ (x.op = "hgetall" /\ Kept(r, k)')
    PROVE  Seen(r, k)'
BY DEF Seen, Got, Tells

LEMMA KeptSame ==
    ASSUME NEW r \in Request, NEW k, todo'[r] = todo[r], found'[r] = found[r],
           reg'[k[2]] = reg[k[2]], Kept(r, k)
    PROVE  Kept(r, k)'
BY DEF Kept, UserObject

LEMMA LookupOp ==
    ASSUME Base, Life, NEW r \in Request, pc[r] \in {"kick", "sweep"}
    PROVE  /\ Pending(r) /\ up[Srv(r)]
           /\ \A c : Sent(r, c) => c.op \in {"keys", "hgetall"} /\ c \in Command
           /\ \A x : Got(r, x) => x.op \in {"keys", "hgetall"} /\ x \in Reply
<1>1. Pending(r) /\ up[Srv(r)] /\ r # NoReq
  BY PendingUp, RequestParts DEF Pending
<1>2. ASSUME NEW c, Sent(r, c) PROVE c.op \in {"keys", "hgetall"} /\ c \in Command
  BY <1>1, <1>2, SentTyped DEF GoodCommand, Match, Command, Op
<1>3. ASSUME NEW x, Got(r, x) PROVE x.op \in {"keys", "hgetall"} /\ x \in Reply
  BY <1>1, <1>3, GotTyped DEF GoodReply, Match, Reply, Op
<1> QED
  BY <1>1, <1>2, <1>3

\* Handling the reply passes on what it tells.
LEMMA TellsOn ==
    ASSUME Base, NEW r \in Request, NEW rest \in SUBSET Key, NEW hits \in SUBSET Object,
           Given(Srv(r), r, rest, hits), NEW k, Tells(r, k, Head(inbox[Srv(r)]))
    PROVE  k \in rest \/ UserObject(Srv(r), k) \in hits
<1> DEFINE h == Srv(r)
           x == Head(inbox[h])
<1>1. h \in Server /\ inbox[h] # <<>>
  BY RequestParts DEF Given
<1>2. CASE x.op = "keys" /\ rest = x.list
  BY <1>2 DEF Tells
<1>3. CASE /\ x.op = "hgetall" /\ rest = todo[r]
           /\ \E l \in x.list : hits = found[r] \cup {UserObject(h, l)}
  <2>1. PICK l \in x.list : hits = found[r] \cup {UserObject(h, l)}
    BY <1>3
  <2>2. k \in x.list => k = l
    BY <1>1, <1>3, HeadReply DEF GoodReply
  <2> QED
    BY <1>3, <2>1, <2>2 DEF Tells, Kept
<1> QED
  BY <1>2, <1>3 DEF Given

LEMMA SeenStays ==
    ASSUME Base, Life, [Next]_vars, NEW r \in Request, NEW k \in keys, k[1] = r[2],
           Seen(r, k), pc[r] \in {"kick", "sweep"}, pc'[r] = pc[r],
           OwnKey(r) \notin torn', reg'[k[2]] = reg[k[2]]
    PROVE  Seen(r, k)'
<1>1. /\ Pending(r) /\ up[Srv(r)] /\ pc'[r] # "lost" /\ pc[r] # "idle" /\ pc'[r] # "hung"
      /\ k[1] \in Matches[r[2]] /\ Srv(r) \in Server
  BY LookupOp, RequestParts, MatchesAssumption
<1>2. CASE Handling(r)
  <2>1. Got(r, Head(inbox[Srv(r)]))
    BY <1>2, OneOfBoth DEF Handling
  <2>2. Tells(r, k, Head(inbox[Srv(r)]))
    BY <2>1, OneOfBoth, SeenBy
  <2>3. PICK rest \in SUBSET Key, hits \in SUBSET Object :
              /\ Given(Srv(r), r, rest, hits)
              /\ \/ \E l \in rest : LookupNext(Srv(r), r, rest, l)
                 \/ LookupKick(Srv(r), r, rest, hits)
                 \/ LookupSweep(Srv(r), r, rest, hits)
    BY <1>1, <1>2, HandlesLookup
  <2>4. ~LookupKick(Srv(r), r, rest, hits) /\ ~LookupSweep(Srv(r), r, rest, hits)
    BY DEF LookupKick, LookupSweep, SendKick, Sweep, Base, TypeOK
  <2>5. PICK l \in rest : LookupNext(Srv(r), r, rest, l)
    BY <2>3, <2>4
  <2>6. todo'[r] = rest \ {l} /\ found'[r] = hits
    BY <2>3, <2>5 DEF LookupNext, Given, Base, TypeOK
  <2>7. Sent(r, Cmd("hgetall", r, {l}))'
    BY <2>3, <2>5, LookupSends
  <2>8. k \in rest \/ UserObject(Srv(r), k) \in hits
    BY <2>2, <2>3, TellsOn
  <2>9. k = l \/ Kept(r, k)'
    BY <2>6, <2>8 DEF Kept, UserObject
  <2>10. Cmd("hgetall", r, {l}).keys = {l}
    BY DEF Cmd
  <2> QED
    BY <2>7, <2>9, <2>10, SeenSent
<1>3. CASE ~Handling(r)
  <2>1. todo'[r] = todo[r] /\ found'[r] = found[r]
    BY <1>1, <1>3, LookupKeeps
  <2>2. Kept(r, k) => Kept(r, k)'
    BY <2>1, KeptSame
  <2>3. ASSUME NEW c, Sent(r, c), AsksFor(r, k, c) PROVE Seen(r, k)'
    <3>1. c.op \in {"keys", "hgetall"} /\ c \in Command
      BY <2>3, LookupOp
    <3>2. CASE Sent(r, c)'
      BY <2>2, <2>3, <3>2, SeenSent DEF AsksFor
    <3>3. CASE Ran(r, c)
      <4>1. PICK list \in SUBSET Key :
              /\ Got(r, Answer(c, list))'
              /\ c.op = "keys" => list = {l \in keys : l[1] \in Matches[r[2]]}
              /\ c.op = "hgetall" => list = c.keys \cap keys
        BY <3>3 DEF Ran
      <4>2. Answer(c, list).op = c.op /\ Answer(c, list).list = list
        BY <3>1, AnswerTyped
      <4>3. k \in list \/ (c.op = "hgetall" /\ Kept(r, k)')
        BY <1>1, <2>2, <2>3, <3>1, <4>1 DEF AsksFor
      <4> QED
        BY <4>1, <4>2, <4>3, SeenGot
    <3>4. CASE Broke(r, c)
      BY <3>1, <3>4 DEF Broke
    <3> QED
      BY <1>1, <2>3, <3>2, <3>3, <3>4, SentStays
  <2>4. ASSUME NEW x, Got(r, x), Tells(r, k, x) PROVE Seen(r, k)'
    <3>1. x.op \in {"keys", "hgetall"}
      BY <2>4, LookupOp
    <3>2. Got(r, x)'
      BY <1>1, <1>3, <2>4, <3>1, GotStays
    <3> QED
      BY <2>2, <2>4, <3>2, SeenGot DEF Tells
  <2> QED
    BY <2>3, <2>4, SeenBy
<1> QED
  BY <1>2, <1>3

\* A lookup that ends has found what it saw.
LEMMA SeenFound ==
    ASSUME Base, NEW r \in Request, NEW hits \in SUBSET Object, Given(Srv(r), r, {}, hits),
           NEW k, Seen(r, k)
    PROVE  UserObject(Srv(r), k) \in hits
<1>1. Got(r, Head(inbox[Srv(r)]))
  BY OneOfBoth DEF Given
<1>2. Tells(r, k, Head(inbox[Srv(r)]))
  BY <1>1, OneOfBoth, SeenBy
<1>3. {} \in SUBSET Key
  OBVIOUS
<1> QED
  BY <1>2, <1>3, TellsOn

\* A login starts with a lookup of all the user's hashes.
LEMMA LoginSees ==
    ASSUME Base, [Next]_vars, NEW r \in Request, pc[r] = "idle", pc'[r] = "kick", NEW k
    PROVE  Seen(r, k)'
<1>1. CASE \E q \in Request : Login(q)
  <2>1. PICK q \in Request : Login(q)
    BY <1>1
  <2>2. q = r
    BY <2>1 DEF Login, Base, TypeOK
  <2>3. Fed(Srv(r), <<Cmd("keys", r, {})>>)
    BY <2>1, <2>2, LoginBase
  <2>4. Cmd("keys", r, {}).req = r /\ Cmd("keys", r, {}).op = "keys"
    BY DEF Cmd
  <2>5. Sent(r, Cmd("keys", r, {}))'
    BY <2>3, <2>4, FedSent
  <2> QED
    BY <2>4, <2>5, SeenSent
<1>2. CASE \E h \in Server : ReplyKeys(h) \/ ReplyHgetall(h)
  <2>1. PICK h \in Server, q \in Request, rest \in SUBSET Key, hits \in SUBSET Object :
              \/ \E l \in rest : LookupNext(h, q, rest, l)
              \/ LookupKick(h, q, rest, hits)
              \/ LookupSweep(h, q, rest, hits)
    BY <1>2, LookupCases
  <2> QED
    BY <2>1 DEF LookupNext, LookupKick, LookupSweep, SendKick, Sweep, Base, TypeOK
<1>3. CASE \E h \in Server : ReplyNull(h) \/ ReplyHmset(h)
  BY <1>3 DEF ReplyNull, ReplyHmset, Base, TypeOK
<1>4. CASE \E h \in Server : Exits(h)
  BY <1>4 DEF Exits, ProcessExit
<1>5. CASE \E q \in Request : LoginAgain(q)
  BY <1>5 DEF LoginAgain, Base, TypeOK
<1>6. \/ \E s \in Socket : Connect(s) \/ ClientClose(s) \/ Logout(s)
      \/ \E m \in net : RelayDrop(m) \/ RelayKick(m)
      \/ \E s \in Socket : CloseEvent(s) \/ ErrorEvent(s)
      \/ \E h \in Server : ExecKeys(h) \/ ExecHgetall(h) \/ ExecHmset(h) \/ ExecDel(h)
      \/ \E h \in Server : ReplyDel(h) \/ LinkDrop(h) \/ Restart(h)
      \/ UNCHANGED vars
      => pc' = pc
  BY DEF Connect, ClientClose, Logout, RelayDrop, RelayKick, CloseEvent,
         ErrorEvent, ExecKeys, ExecHgetall, ExecHmset, ExecDel, ReplyDel, LinkDrop,
         Restart, loginVars, vars
<1> QED
  BY <1>1, <1>2, <1>3, <1>4, <1>5, <1>6, StepCases

LEMMA KickSends ==
    ASSUME Base, [Next]_vars, NEW r \in Request, pc[r] = "kick", pc'[r] = "sweep"
    PROVE  \E hits \in SUBSET Object :
              Given(Srv(r), r, {}, hits) /\ LookupKick(Srv(r), r, {}, hits)
<1>1. Handling(r)
  BY LookupKeeps
<1>2. PICK rest \in SUBSET Key, hits \in SUBSET Object :
              /\ Given(Srv(r), r, rest, hits)
              /\ \/ \E k \in rest : LookupNext(Srv(r), r, rest, k)
                 \/ LookupKick(Srv(r), r, rest, hits)
                 \/ LookupSweep(Srv(r), r, rest, hits)
  BY <1>1, HandlesLookup
<1>3. LookupKick(Srv(r), r, rest, hits) /\ rest = {}
  BY <1>2 DEF LookupNext, LookupSweep, LookupKick
<1> QED
  BY <1>2, <1>3

-----------------------------------------------------------------------------
(* Displacement.                                                           *)

\* A kick notice is on its way until it is delivered or a process ends.
LEMMA NetStays ==
    ASSUME Base, Life, [Next]_vars, NEW r \in Request, NEW s \in Socket, <<r, s>> \in net,
           reg[s] # NoUser, ws'[s] = "open", pc'[r] \notin {"idle", "lost"}
    PROVE  <<r, s>> \in net'
<1>1. CASE \E m \in net : RelayDrop(m) \/ RelayKick(m)
  BY <1>1 DEF RelayDrop, RelayKick, Base, TypeOK
<1>2. CASE \E h \in Server : Exits(h)
  <2>1. PICK h \in Server : Exits(h)
    BY <1>2
  <2>2. PICK left : ProcessExit(h, left)
    BY <2>1 DEF Exits
  <2>3. Srv(r) # h
    BY <2>2 DEF ProcessExit
  <2>4. Home[s] # h
    BY <2>2 DEF ProcessExit
  <2> QED
    BY <2>1, <2>3, <2>4 DEF Exits
<1>3. CASE \E h \in Server : ReplyKeys(h) \/ ReplyHgetall(h)
  <2>1. PICK h \in Server, q \in Request, rest \in SUBSET Key, hits \in SUBSET Object :
              \/ \E l \in rest : LookupNext(h, q, rest, l)
              \/ LookupKick(h, q, rest, hits)
              \/ LookupSweep(h, q, rest, hits)
    BY <1>3, LookupCases
  <2> QED
    BY <2>1 DEF LookupNext, LookupKick, LookupSweep, SendKick, Sweep
<1>4. \/ \E t \in Socket : Connect(t) \/ ClientClose(t) \/ Logout(t)
      \/ \E q \in Request : LoginAgain(q) \/ Login(q)
      \/ \E t \in Socket : CloseEvent(t) \/ ErrorEvent(t)
      \/ \E h \in Server : ExecKeys(h) \/ ExecHgetall(h) \/ ExecHmset(h) \/ ExecDel(h)
      \/ \E h \in Server : ReplyNull(h) \/ ReplyHmset(h) \/ ReplyDel(h)
      \/ \E h \in Server : LinkDrop(h) \/ Restart(h)
      \/ UNCHANGED vars
      => net' = net
  BY DEF Connect, ClientClose, Logout, LoginAgain, Login, CloseEvent, ErrorEvent,
         ExecKeys, ExecHgetall, ExecHmset, ExecDel, ReplyNull, ReplyHmset, ReplyDel,
         LinkDrop, Restart, vars
<1> QED
  BY <1>1, <1>2, <1>3, <1>4, StepCases

\* The first lookup of a login notes who is registered for its user.
LEMMA PriorGrows ==
    ASSUME Base, [Next]_vars, NEW r \in Request, NEW s \in prior'[r], s \notin prior[r]
    PROVE  /\ pc[r] = "kick" /\ reg[s] = r[2] /\ UNCHANGED <<pc, reg, ws>>
           /\ \E c : Sent(r, c) /\ c.op = "keys" /\ ~Sent(r, c)'
<1>1. CASE \E h \in Server : ExecKeys(h)
  <2>1. PICK h \in Server : ExecKeys(h)
    BY <1>1
  <2> DEFINE q == Head(wire[h]).req
  <2>2. /\ wire[h] # <<>> /\ Head(wire[h]).op = "keys"
        /\ Executed(h, {k \in keys : k[1] \in Matches[q[2]]})
        /\ UNCHANGED <<pc, reg, ws>>
        /\ prior' # prior => /\ prior' = [prior EXCEPT ![q] = {t \in Socket : reg[t] = q[2]}]
                             /\ pc[q] = "kick"
    BY <2>1 DEF ExecKeys, Next1
  <2>3. q \in Request /\ GoodCommand(h, Head(wire[h])) /\ Head(wire[h]) = wire[h][1]
        /\ 1 \in 1 .. Len(wire[h]) /\ Head(wire[h]) \in Command
    BY <2>2, HeadCommand
  <2>4. Srv(q) = h
    BY <2>3, RequestParts DEF GoodCommand, Match
  <2>5. {k \in keys : k[1] \in Matches[q[2]]} \in SUBSET Key
    BY DEF Base, TypeOK
  <2>6. Shifted(h)
    BY <2>2, <2>5, ExecutedFacts DEF Base
  <2>7. q = r /\ pc[r] = "kick" /\ reg[s] = r[2]
    <3>1. prior' # prior
      OBVIOUS
    <3>2. prior' = [prior EXCEPT ![q] = {t \in Socket : reg[t] = q[2]}] /\ pc[q] = "kick"
      BY <2>2, <3>1
    <3> HIDE DEF q
    <3>3. q = r
      BY <3>2 DEF Base, TypeOK
    <3>4. prior'[r] = {t \in Socket : reg[t] = r[2]}
      BY <3>2, <3>3 DEF Base, TypeOK
    <3> QED
      BY <3>2, <3>3, <3>4
  <2>8. PICK c \in Command : c = Head(wire[h])
    BY <2>3
  <2>9. Sent(r, c) /\ c.op = "keys"
    BY <2>2, <2>3, <2>4, <2>7, <2>8 DEF Sent
  <2>10. ~Sent(r, c)'
    <3>1. SUFFICES ASSUME Sent(r, c)' PROVE FALSE
      OBVIOUS
    <3>2. PICK i \in 1 .. Len(wire'[h]) : wire'[h][i] = c
      BY <2>4, <2>7, <3>1 DEF Sent
    <3>3. wire[h][i + 1] = c /\ i + 1 \in 1 .. Len(wire[h]) /\ i + 1 # 1
      BY <2>6, <3>2 DEF Shifted
    <3> QED
      BY <2>3, <2>7, <2>8, <3>3, RequestParts DEF Base, Single
  <2> QED
    BY <2>2, <2>7, <2>9, <2>10
<1>2. CASE \E h \in Server : Exits(h)
  <2>0. PICK h \in Server : Exits(h)
    BY <1>2
  <2>1. PICK left : ProcessExit(h, left)
    BY <2>0 DEF Exits
  <2> QED
    BY <2>1 DEF ProcessExit
<1>3. \/ \E t \in Socket : Connect(t) \/ ClientClose(t) \/ Logout(t)
      \/ \E m \in net : RelayDrop(m) \/ RelayKick(m)
      \/ \E q \in Request : LoginAgain(q) \/ Login(q)
      \/ \E t \in Socket : CloseEvent(t) \/ ErrorEvent(t)
      \/ \E h \in Server : ExecHgetall(h) \/ ExecHmset(h) \/ ExecDel(h)
      \/ \E h \in Server : \/ ReplyKeys(h) \/ ReplyHgetall(h) \/ ReplyNull(h)
                           \/ ReplyHmset(h) \/ ReplyDel(h)
      \/ \E h \in Server : LinkDrop(h) \/ Restart(h)
      \/ UNCHANGED vars
      => prior' = prior
  BY DEF Connect, ClientClose, Logout, RelayDrop, RelayKick, LoginAgain, Login, CloseEvent,
         ErrorEvent, ExecHgetall, ExecHmset, ExecDel, ReplyKeys, ReplyHgetall, ReplyNull,
         ReplyHmset, ReplyDel, LinkDrop, Restart, loginVars, vars
<1> QED
  BY <1>1, <1>2, <1>3, StepCases

\* A session that a login noted has logged in.
Looked ==
    \A r \in Request : \A s \in prior[r] :
        \E q \in Request : q[1] = s /\ pc[q] \in {"done", "lost"}

LEMMA LookedStep ==
    ASSUME Base, Life, Looked, [Next]_vars
    PROVE  Looked'
<1> SUFFICES ASSUME NEW r \in Request, NEW s \in prior'[r]
             PROVE  \E q \in Request : q[1] = s /\ pc'[q] \in {"done", "lost"}
  BY DEF Looked
<1>1. PICK q \in Request : q[1] = s /\ pc[q] \in {"done", "lost"}
  <2>1. CASE s \in prior[r]
    BY <2>1 DEF Looked
  <2>2. CASE s \notin prior[r]
    <3>1. reg[s] = r[2] /\ r[2] \in User /\ s \in Socket
      BY <2>2, PriorGrows, RequestParts, BaseStep DEF Base, TypeOK
    <3> QED
      BY <3>1, NoUserAssumption DEF Life
  <2> QED
    BY <2>1, <2>2
<1>2. pc'[q] \in {"done", "lost"}
  BY <1>1, StepMoves DEF Moves, PcMove
<1> QED
  BY <1>1, <1>2

\* Session s is open and registered for the user of login r, whose commands and
\* those for the session's hash reached Redis.
Live(r, s) ==
    /\ OneLogin(s) /\ OwnKey(r) \notin torn /\ <<r[2], s>> \notin torn
    /\ ws[s] = "open" /\ reg[s] = r[2]

\* The login sees its hash, or has sent the notice that kicks it.
Pursued(r, s) ==
    /\ pc[r] = "kick" => Seen(r, <<r[2], s>>)
    /\ pc[r] = "sweep" => IF Home[s] = Srv(r) THEN Seen(r, <<r[2], s>>) ELSE <<r, s>> \in net
    /\ pc[r] \in {"set", "done"} => Home[s] # Srv(r) /\ <<r, s>> \in net

Displacing ==
    \A r \in Request : \A s \in prior[r] \ {r[1]} : Live(r, s) => Pursued(r, s)

LEMMA DisplacingStep ==
    ASSUME Base, Life, Listed, Looked, Displacing, [Next]_vars
    PROVE  Displacing'
<1> SUFFICES ASSUME NEW r \in Request, NEW s \in prior'[r], s # r[1], Live(r, s)'
             PROVE  Pursued(r, s)'
  BY DEF Displacing
<1> DEFINE k == <<r[2], s>>
           h == Srv(r)
<1>1. /\ Moves /\ OneLogin(s) /\ torn \subseteq torn' /\ s \in Socket /\ k \in Key
      /\ r[2] # NoUser /\ k[1] = r[2] /\ k[2] = s /\ h \in Server
      /\ OwnKey(r) \notin torn' /\ k \notin torn' /\ ws'[s] = "open" /\ reg'[s] = r[2]
  BY StepMoves, OneStays, TornGrows, BaseStep, RequestParts, NoUserAssumption
     DEF Live, Base, TypeOK, Key
<1>2. reg[s] = r[2] => k \in keys
  BY <1>1 DEF Listed
<1>3. CASE s \notin prior[r]
  <2>1. /\ pc[r] = "kick" /\ pc' = pc /\ k \in keys
        /\ \E c : Sent(r, c) /\ c.op = "keys" /\ ~Sent(r, c)'
    BY <1>2, <1>3, PriorGrows
  <2>2. PICK c : Sent(r, c) /\ c.op = "keys" /\ ~Sent(r, c)'
    BY <2>1
  <2>3. Pending(r) /\ pc'[r] # "lost" /\ c \in Command
    BY <2>1, <2>2, SentTyped DEF Pending
  <2>4. Ran(r, c)
    BY <1>1, <2>2, <2>3, SentStays DEF Broke
  <2>5. PICK list \in SUBSET Key :
          Got(r, Answer(c, list))' /\ list = {l \in keys : l[1] \in Matches[r[2]]}
    BY <2>2, <2>4 DEF Ran
  <2>6. k \in Answer(c, list).list
    BY <1>1, <2>1, <2>3, <2>5, AnswerTyped, RequestParts, MatchesAssumption
  <2>7. Seen(r, k)'
    BY <2>5, <2>6, SeenGot
  <2> QED
    BY <2>1, <2>7 DEF Pursued
<1>4. CASE s \in prior[r]
  <2>1. reg[s] = r[2]
    <3>1. SUFFICES ASSUME reg[s] # reg'[s] PROVE FALSE
      BY <1>1
    <3>2. PICK q \in Request : q[1] = s /\ pc[q] = "set"
      BY <1>1, <3>1 DEF Moves, RegMove
    <3>3. PICK p \in Request : p[1] = s /\ pc[p] \in {"done", "lost"}
      BY <1>4 DEF Looked
    <3> QED
      BY <1>1, <3>2, <3>3 DEF OneLogin, Accepted
  <2>2. ws[s] = "open"
    <3>1. ws[s] # "none"
      BY <1>1, <2>1 DEF Life
    <3> QED
      BY <1>1, <3>1 DEF Moves, WsMove
  <2>3. Pursued(r, s) /\ k \in keys
    BY <1>1, <1>2, <1>4, <2>1, <2>2 DEF Displacing, Live
  <2>4. pc[r] \in {"kick", "sweep"} /\ pc'[r] = pc[r] /\ Seen(r, k) => Seen(r, k)'
    BY <1>1, <2>1, <2>3, SeenStays
  <2>5. pc'[r] \notin {"idle", "lost"} /\ <<r, s>> \in net => <<r, s>> \in net'
    BY <1>1, <2>1, NetStays
  <2>6. CASE pc'[r] = pc[r]
    BY <2>3, <2>4, <2>5, <2>6 DEF Pursued
  <2>7. CASE pc[r] = "idle" /\ pc'[r] \in {"again", "kick"}
    BY <2>7, LoginSees DEF Pursued
  <2>8. CASE pc[r] = "kick" /\ pc'[r] = "sweep"
    <3>1. PICK hits \in SUBSET Object : Given(h, r, {}, hits) /\ LookupKick(h, r, {}, hits)
      BY <2>8, KickSends
    <3>2. UserObject(h, k) \in hits
      BY <2>3, <2>8, <3>1, SeenFound DEF Pursued
    <3>3. CASE Home[s] = h
      <4>1. Sent(r, Cmd("keys", r, {}))' /\ Cmd("keys", r, {}).op = "keys"
        BY <3>1, LookupSends DEF Cmd
      <4>2. Seen(r, k)'
        BY <4>1, SeenSent
      <4> QED
        BY <2>8, <3>3, <4>2 DEF Pursued
    <3>4. CASE Home[s] # h
      <4>1. net' = net \cup {<<r, e[2]>> : e \in {x \in hits : Home[x[2]] # h}}
        BY <3>1, KickIssues DEF LookupKick
      <4>2. UserObject(h, k)[2] = s
        BY DEF UserObject
      <4>3. <<r, s>> \in net'
        BY <3>2, <3>4, <4>1, <4>2
      <4> QED
        BY <2>8, <3>4, <4>3 DEF Pursued
    <3> QED
      BY <3>3, <3>4
  <2>9. CASE pc[r] = "sweep" /\ pc'[r] = "set"
    <3>1. CASE Home[s] = h
      <4>1. PICK rest \in SUBSET Key, hits \in SUBSET Object :
              Given(h, r, rest, hits) /\ LookupSweep(h, r, rest, hits)
        BY <2>9, SweepSends
      <4>2. rest = {} /\ Sweep(r, hits)
        BY <4>1 DEF LookupSweep
      <4>3. UserObject(h, k) \in hits
        BY <2>3, <2>9, <3>1, <4>1, <4>2, SeenFound DEF Pursued
      <4>4. UserObject(h, k)[2] = s /\ UserObject(h, k)[3] = TRUE
        BY <1>1, <2>1, <3>1 DEF UserObject
      <4>5. ws'[s] = "kicked"
        BY <1>1, <2>2, <4>2, <4>3, <4>4 DEF Sweep
      <4> QED
        BY <1>1, <4>5
    <3>2. CASE Home[s] # h
      BY <2>3, <2>5, <2>9, <3>2 DEF Pursued
    <3> QED
      BY <3>1, <3>2
  <2>10. CASE pc[r] = "set" /\ pc'[r] = "done"
    BY <2>3, <2>5, <2>10 DEF Pursued
  <2>11. CASE pc'[r] \in {"hung", "lost"}
    BY <2>11 DEF Pursued
  <2> QED
    BY <1>1, <2>6, <2>7, <2>8, <2>9, <2>10, <2>11 DEF Moves, PcMove
<1> QED
  BY <1>3, <1>4

-----------------------------------------------------------------------------
(* Healing: a login removes what a crash of its own server left behind.    *)

\* The DEL of k runs before the second lookup of r.
DelAhead(r, k) ==
    LET w == wire[Srv(r)] IN
    \E i, j \in 1 .. Len(w) :
        /\ i < j
        /\ w[i].op = "del" /\ k \in w[i].keys
        /\ w[j].req = r /\ w[j].op = "keys"

LEMMA AheadFed ==
    ASSUME NEW r \in Request, NEW k, DelAhead(r, k), NEW h \in Server, NEW cmds, Fed(h, cmds)
    PROVE  DelAhead(r, k)'
<1>1. Srv(r) \in Server
  BY RequestParts
<1>2. PICK i \in 1 .. Len(wire[Srv(r)]), j \in 1 .. Len(wire[Srv(r)]) :
        /\ i < j
        /\ wire[Srv(r)][i].op = "del" /\ k \in wire[Srv(r)][i].keys
        /\ wire[Srv(r)][j].req = r /\ wire[Srv(r)][j].op = "keys"
  BY DEF DelAhead
<1>3. /\ i \in 1 .. Len(wire'[Srv(r)]) /\ wire'[Srv(r)][i] = wire[Srv(r)][i]
      /\ j \in 1 .. Len(wire'[Srv(r)]) /\ wire'[Srv(r)][j] = wire[Srv(r)][j]
  BY <1>1, <1>2 DEF Fed
<1> QED
  BY <1>2, <1>3 DEF DelAhead

LEMMA AheadStays ==
    ASSUME Base, Life, [Next]_vars, NEW r \in Request, NEW k \in keys', DelAhead(r, k),
           pc[r] = "sweep", pc'[r] # "lost", OwnKey(r) \notin torn'
    PROVE  DelAhead(r, k)'
<1> DEFINE w == wire[Srv(r)]
<1>1. Srv(r) \in Server /\ w \in Seq(Command)
  BY RequestParts DEF Base, TypeOK
<1>2. PICK i \in 1 .. Len(w), j \in 1 .. Len(w) :
        /\ i < j
        /\ w[i].op = "del" /\ k \in w[i].keys
        /\ w[j].req = r /\ w[j].op = "keys"
  BY DEF DelAhead
<1> HIDE DEF w
<1>3. CASE \E q \in Request : Login(q)
  <2>1. PICK q \in Request : Login(q)
    BY <1>3
  <2> QED
    BY <2>1, LoginBase, RequestParts, AheadFed
<1>4. CASE \E s \in Socket : CloseEvent(s) \/ ErrorEvent(s)
  <2>1. PICK s \in Socket : CloseEvent(s) \/ ErrorEvent(s)
    BY <1>4
  <2>2. Disconnect(s)
    BY <2>1 DEF CloseEvent, ErrorEvent
  <2>3. Home[s] \in Server /\ (reg[s] = NoUser => wire' = wire)
    BY <2>2, DisconnectIssues DEF Base
  <2>4. CASE wire' = wire
    BY <2>4 DEF DelAhead
  <2>5. CASE reg[s] # NoUser
    BY <2>1, <2>3, <2>5, DisconnectBase, AheadFed
  <2> QED
    BY <2>3, <2>4, <2>5
<1>5. CASE \E h \in Server : ExecKeys(h) \/ ExecHgetall(h) \/ ExecHmset(h) \/ ExecDel(h)
  <2>1. PICK h \in Server : ExecKeys(h) \/ ExecHgetall(h) \/ ExecHmset(h) \/ ExecDel(h)
    BY <1>5
  <2>2. wire[h] # <<>> /\ Head(wire[h]) = wire[h][1]
    BY <2>1, ExecShape, HeadCommand
  <2>3. CASE Srv(r) # h
    <3>1. wire'[Srv(r)] = wire[Srv(r)]
      BY <1>1, <2>1, <2>3, ExecShape DEF ExecWhole, ExecPart, Shifted, Shrunk
    <3> QED
      BY <3>1 DEF DelAhead
  <2>4. CASE Srv(r) = h /\ ExecWhole(h)
    <3>1. w = wire[h] /\ Shifted(h)
      BY <2>4 DEF w, ExecWhole
    <3>2. i # 1
      <4>1. SUFFICES ASSUME i = 1 PROVE FALSE
        OBVIOUS
      <4>2. Head(wire[h]).op = "del" /\ k \in Head(wire[h]).keys
        BY <1>2, <2>2, <3>1, <4>1
      <4> QED
        BY <2>4, <4>2 DEF ExecWhole
    <3>3. j # 1 /\ i - 1 < j - 1
      BY <1>2
    <3>4. /\ i - 1 \in 1 .. Len(wire'[h]) /\ wire'[h][i - 1] = w[i]
          /\ j - 1 \in 1 .. Len(wire'[h]) /\ wire'[h][j - 1] = w[j]
      BY <1>2, <3>1, <3>2, <3>3 DEF Shifted
    <3> QED
      BY <1>2, <2>4, <3>3, <3>4 DEF DelAhead
  <2>5. CASE Srv(r) = h /\ ExecPart(h)
    <3>1. PICK l : keys' = keys \ {l} /\ Shrunk(h, l)
      BY <2>5 DEF ExecPart
    <3>2. w = wire[h] /\ k # l /\ j # 1
      BY <1>2, <2>5, <3>1 DEF w
    <3>3. /\ Len(wire'[h]) = Len(w) /\ wire'[h][j] = w[j]
          /\ wire'[h][i] = w[i] \/ wire'[h][i] = [w[i] EXCEPT !.keys = @ \ {l}]
      BY <1>2, <3>1, <3>2 DEF Shrunk
    <3>4. w[i] \in Command
      BY <1>1, <1>2
    <3>5. wire'[h][i].op = "del" /\ k \in wire'[h][i].keys
      BY <1>2, <3>2, <3>3, <3>4 DEF Command
    <3> QED
      BY <1>2, <2>5, <3>3, <3>5 DEF DelAhead
  <2> QED
    BY <2>1, <2>3, <2>4, <2>5, ExecShape
<1>6. CASE \E h \in Server : ReplyKeys(h) \/ ReplyHgetall(h)
  <2>1. PICK h \in Server : ReplyKeys(h) \/ ReplyHgetall(h)
    BY <1>6
  <2>2. PICK q \in Request, rest \in SUBSET Key, hits \in SUBSET Object :
              /\ Srv(q) = h /\ Given(h, q, rest, hits)
              /\ \/ \E l \in rest : LookupNext(h, q, rest, l)
                 \/ LookupKick(h, q, rest, hits)
                 \/ LookupSweep(h, q, rest, hits)
    BY <2>1, LookupCases
  <2>3. PICK cmds : Fed(h, cmds)
    BY <2>2, LookupBase
  <2> QED
    BY <2>3, AheadFed
<1>7. CASE \E h \in Server : LinkDrop(h)
  <2>1. PICK h \in Server : LinkDrop(h)
    BY <1>7
  <2>2. /\ Cut(h)
        /\ \A m \in 1 .. Len(wire[h]) :
              wire[h][m].op \in {"keys", "hgetall"} => OwnKey(wire[h][m].req) \in torn'
    BY <2>1, DropBase
  <2>3. Srv(r) # h
    BY <1>2, <2>2 DEF w
  <2>4. wire'[Srv(r)] = wire[Srv(r)]
    BY <1>1, <2>2, <2>3 DEF Cut
  <2> QED
    BY <2>4 DEF DelAhead
<1>8. CASE \E h \in Server : Exits(h)
  <2>0. PICK h \in Server : Exits(h)
    BY <1>8
  <2>1. PICK left : ProcessExit(h, left)
    BY <2>0 DEF Exits
  <2>2. Srv(r) # h
    BY <2>1 DEF ProcessExit
  <2>3. wire'[Srv(r)] = wire[Srv(r)]
    BY <1>1, <2>1, <2>2 DEF ProcessExit, Base, TypeOK
  <2> QED
    BY <2>3 DEF DelAhead
<1>9. CASE wire' = wire
  BY <1>9 DEF DelAhead
<1>10. \/ \E s \in Socket : Connect(s) \/ ClientClose(s) \/ Logout(s)
       \/ \E m \in net : RelayDrop(m) \/ RelayKick(m)
       \/ \E q \in Request : LoginAgain(q)
       \/ \E h \in Server : ReplyNull(h) \/ ReplyHmset(h) \/ ReplyDel(h) \/ Restart(h)
       \/ UNCHANGED vars
       => wire' = wire
  BY DEF Connect, ClientClose, Logout, RelayDrop, RelayKick, LoginAgain, ReplyNull,
         ReplyHmset, ReplyDel, Restart, redisVars, vars
<1> QED
  BY <1>3, <1>4, <1>5, <1>6, <1>7, <1>8, <1>9, <1>10, StepCases

LEMMA KickAhead ==
    ASSUME NEW r \in Request, NEW ks \in SUBSET Key, Fed(Srv(r), KickCommands(r, ks)),
           NEW k \in ks
    PROVE  DelAhead(r, k)'
<1> DEFINE p == KickCommands(r, ks)
           n == Len(wire[Srv(r)])
<1>1. /\ NewFor(Srv(r), r, p) /\ Len(p) = 2
      /\ p[1] = Cmd("del", NoReq, ks) /\ p[2] = Cmd("keys", r, {})
  BY KickFacts
<1>2. n \in Nat /\ n + 1 < n + 2
  BY DEF Fed
<1>3. 1 \in 1 .. Len(p) /\ 2 \in 1 .. Len(p)
  BY <1>1
<1>4. /\ wire'[Srv(r)][n + 1] = p[1] /\ n + 1 \in 1 .. Len(wire'[Srv(r)])
      /\ wire'[Srv(r)][n + 2] = p[2] /\ n + 2 \in 1 .. Len(wire'[Srv(r)])
  BY <1>3 DEF Fed
<1>5. /\ Cmd("del", NoReq, ks).op = "del" /\ Cmd("del", NoReq, ks).keys = ks
      /\ Cmd("keys", r, {}).op = "keys" /\ Cmd("keys", r, {}).req = r
  BY DEF Cmd
<1> HIDE DEF p, n
<1> QED
  BY <1>1, <1>2, <1>4, <1>5 DEF DelAhead

\* Redis lists socket s for the user of login r, though s died with an earlier
\* process of the login's server.
Stale(r, s) ==
    /\ ws[s] = "dead" /\ Home[s] = Srv(r)
    /\ <<r[2], s>> \in keys \ torn /\ OwnKey(r) \notin torn

Healing ==
    \A r \in Request, s \in Socket : Stale(r, s) =>
        /\ pc[r] = "kick" => Seen(r, <<r[2], s>>)
        /\ pc[r] = "sweep" => DelAhead(r, <<r[2], s>>)
        /\ pc[r] \notin {"set", "done"}

LEMMA DeadUnregistered ==
    ASSUME Life, NEW s \in Socket, ws[s] = "dead"
    PROVE  reg[s] = NoUser
BY DEF Life

LEMMA HealingStep ==
    ASSUME Base, Life, Healing, [Next]_vars
    PROVE  Healing'
<1> SUFFICES ASSUME NEW r \in Request, NEW s \in Socket, Stale(r, s)'
             PROVE  /\ pc'[r] = "kick" => Seen(r, <<r[2], s>>)'
                    /\ pc'[r] = "sweep" => DelAhead(r, <<r[2], s>>)'
                    /\ pc'[r] \notin {"set", "done"}
  BY DEF Healing
<1> DEFINE k == <<r[2], s>>
           h == Srv(r)
<1>1. /\ Moves /\ Life' /\ torn \subseteq torn' /\ k \in Key /\ h \in Server
      /\ k[1] = r[2] /\ k[2] = s /\ r[1] \in Socket /\ Home[r[1]] = h /\ r # NoReq
      /\ OwnKey(r) \notin torn' /\ k \notin torn' /\ k \in keys'
      /\ ws'[s] = "dead" /\ Home[s] = h /\ reg'[s] = NoUser
  <2>1. Moves /\ Life' /\ torn \subseteq torn'
    BY StepMoves, LifeStep, TornGrows
  <2>2. k \in Key /\ k[1] = r[2] /\ k[2] = s
    BY RequestParts DEF Key
  <2>3. h \in Server /\ r[1] \in Socket /\ Home[r[1]] = h /\ r # NoReq
    BY RequestParts DEF Srv
  <2>4. /\ OwnKey(r) \notin torn' /\ k \notin torn' /\ k \in keys'
        /\ ws'[s] = "dead" /\ Home[s] = h
    BY DEF Stale
  <2>5. reg'[s] = NoUser
    BY <2>1, <2>4 DEF Life
  <2> QED
    BY <2>1, <2>2, <2>3, <2>4, <2>5
<1>2. CASE ws[s] # "dead"
  <2>1. pc'[r] \in {"idle", "lost"}
    <3>1. CASE \E g \in Server : Exits(g)
      <4>0. PICK g \in Server : Exits(g)
        BY <3>1
      <4>1. PICK left : ProcessExit(g, left)
        BY <4>0 DEF Exits
      <4>2. g = h
        BY <1>1, <1>2, <4>1 DEF ProcessExit
      <4> QED
        BY <4>1, <4>2 DEF ProcessExit
    <3>2. CASE \E g \in Server : ReplyKeys(g) \/ ReplyHgetall(g)
      <4>1. PICK g \in Server, q \in Request, rest \in SUBSET Key, hits \in SUBSET Object :
              \/ \E l \in rest : LookupNext(g, q, rest, l)
              \/ LookupKick(g, q, rest, hits)
              \/ LookupSweep(g, q, rest, hits)
        BY <3>2, LookupCases
      <4> QED
        BY <1>1, <1>2, <4>1
           DEF LookupNext, LookupKick, LookupSweep, SendKick, Sweep, Base, TypeOK
    <3>3. CASE \/ \E t \in Socket : Connect(t) \/ ClientClose(t) \/ Logout(t)
               \/ \E m \in net : RelayDrop(m) \/ RelayKick(m)
               \/ \E t \in Socket : CloseEvent(t) \/ ErrorEvent(t)
      BY <1>1, <1>2, <3>3 DEF Connect, ClientClose, Logout, RelayDrop, RelayKick,
         CloseEvent, ErrorEvent, Base, TypeOK
    <3>4. \/ \E q \in Request : LoginAgain(q) \/ Login(q)
          \/ \E g \in Server : ExecKeys(g) \/ ExecHgetall(g) \/ ExecHmset(g) \/ ExecDel(g)
          \/ \E g \in Server : ReplyNull(g) \/ ReplyHmset(g) \/ ReplyDel(g)
          \/ \E g \in Server : LinkDrop(g) \/ Restart(g)
          \/ UNCHANGED vars
          => ws' = ws
      BY DEF LoginAgain, Login, ExecKeys, ExecHgetall, ExecHmset, ExecDel, ReplyNull,
         ReplyHmset, ReplyDel, LinkDrop, Restart, vars
    <3> QED
      BY <1>1, <1>2, <3>1, <3>2, <3>3, <3>4, StepCases
  <2> QED
    BY <2>1
<1>3. CASE ws[s] = "dead" /\ k \notin keys
  <2>1. PICK q \in Request :
              /\ wire[Srv(q)] # <<>> /\ Head(wire[Srv(q)]).op = "hmset"
              /\ Head(wire[Srv(q)]).req = q
              /\ k = OwnKey(q) /\ GoodCommand(Srv(q), Head(wire[Srv(q)])) /\ ExecHmset(Srv(q))
    BY <1>1, <1>3, KeysGrow
  <2>2. q[1] = s /\ Srv(q) = h /\ q # NoReq
    BY <1>1, <2>1, RequestParts DEF Srv
  <2>3. up[h] => pc[q] = "set"
    BY <2>1, <2>2 DEF GoodCommand, Match
  <2>4. ~up[h]
    BY <1>3, <2>2, <2>3 DEF Life
  <2>5. pc[r] \in {"idle", "lost"}
    BY <1>1, <2>4 DEF Life
  <2>6. pc' = pc
    BY <2>1 DEF ExecHmset, loginVars
  <2> QED
    BY <2>5, <2>6
<1>4. CASE ws[s] = "dead" /\ k \in keys
  <2>1. /\ pc[r] = "kick" => Seen(r, k)
        /\ pc[r] = "sweep" => DelAhead(r, k)
        /\ pc[r] \notin {"set", "done"}
        /\ reg[s] = NoUser
    BY <1>1, <1>4, DeadUnregistered DEF Healing, Stale
  <2>2. CASE pc'[r] = pc[r] /\ pc[r] = "kick"
    <3>1. Seen(r, k)'
      BY <1>1, <1>4, <2>1, <2>2, SeenStays
    <3> QED
      BY <2>2, <3>1
  <2>3. CASE pc'[r] = pc[r] /\ pc[r] = "sweep"
    <3>1. DelAhead(r, k)'
      BY <1>1, <2>1, <2>3, AheadStays
    <3> QED
      BY <2>3, <3>1
  <2>4. CASE pc'[r] = pc[r] /\ pc[r] \notin {"kick", "sweep"}
    BY <2>1, <2>4
  <2>5. CASE pc[r] = "idle" /\ pc'[r] \in {"again", "kick"}
    BY <2>5, LoginSees
  <2>6. CASE pc[r] = "kick" /\ pc'[r] = "sweep"
    <3>1. PICK hits \in SUBSET Object : Given(h, r, {}, hits) /\ LookupKick(h, r, {}, hits)
      BY <2>6, KickSends
    <3>2. UserObject(h, k) \in hits
      BY <2>1, <2>6, <3>1, SeenFound
    <3>3. UserObject(h, k) = <<r[2], s, FALSE>>
      BY <2>1 DEF UserObject
    <3>4. <<r[2], s, FALSE>> \in Expired(r, hits)
      BY <1>1, <3>2, <3>3 DEF Expired
    <3>5. k \in ExpiredKeys(r, hits)
      BY <3>4 DEF ExpiredKeys
    <3>6. ExpiredKeys(r, hits) \in SUBSET Key
      BY <3>1, KickIssues DEF LookupKick
    <3>7. {} \in SUBSET Key
      OBVIOUS
    <3>8. Fed(h, KickCommands(r, ExpiredKeys(r, hits)))
      BY <1>1, <3>1, <3>7, LookupBase
    <3>9. DelAhead(r, k)'
      BY <3>5, <3>6, <3>8, KickAhead
    <3> QED
      BY <2>6, <3>9
  <2>7. CASE pc[r] = "sweep" /\ pc'[r] = "set"
    <3>1. Handling(r)
      BY <2>7, LookupKeeps
    <3>2. Got(r, Head(inbox[h]))
      BY <3>1, OneOfBoth DEF Handling
    <3>3. \E c : Sent(r, c)
      BY <2>1, <2>7 DEF DelAhead, Sent
    <3> QED
      BY <3>2, <3>3, OneOfBoth
  <2>8. CASE pc[r] = "set" /\ pc'[r] = "done"
    BY <2>1, <2>8
  <2>9. CASE pc'[r] \in {"hung", "lost"}
    BY <2>9
  <2> QED
    BY <1>1, <2>2, <2>3, <2>4, <2>5, <2>6, <2>7, <2>8, <2>9 DEF Moves, PcMove
<1> QED
  BY <1>2, <1>3, <1>4

-----------------------------------------------------------------------------
(* The inductive invariant and what follows from it.                       *)

IInv ==
    /\ Base /\ Life /\ Origin /\ Waits
    /\ Writing /\ Listed /\ DirectoryAccurate
    /\ Looked /\ Displacing /\ Healing

LEMMA InitInv == Init => IInv
<1> SUFFICES ASSUME Init PROVE IInv
  OBVIOUS
<1>1. Base
  BY InitBase
<1>2. /\ \A r \in Request : pc[r] = "idle" /\ found[r] = {} /\ prior[r] = {}
      /\ \A s \in Socket : ws[s] = "none" /\ reg[s] = NoUser
      /\ \A h \in Server : up[h] /\ Len(wire[h]) = 0 /\ Len(inbox[h]) = 0
      /\ keys = {}
  BY DEF Init
<1>3. Life
  BY <1>2, HomeAssumption DEF Life
<1>4. Origin /\ Waits /\ Writing /\ Listed
  BY <1>2 DEF Origin, DelIn, ListIn, Waits, Writing, Listed
<1>5. DirectoryAccurate /\ Looked /\ Displacing /\ Healing
  BY <1>2 DEF DirectoryAccurate, Looked, Displacing, Healing, Stale
<1> QED
  BY <1>1, <1>3, <1>4, <1>5 DEF IInv

LEMMA StepInv == IInv /\ [Next]_vars => IInv'
<1> SUFFICES ASSUME IInv, [Next]_vars PROVE IInv'
  OBVIOUS
<1>1. /\ Base /\ Life /\ Origin /\ Waits /\ Writing /\ Listed /\ DirectoryAccurate
      /\ Looked /\ Displacing /\ Healing
  BY DEF IInv
<1>2. Base' /\ Life' /\ Origin' /\ Waits'
  BY <1>1, BaseStep, StepMoves, LifeStep, OriginStep, WaitsStep
<1>3. Writing' /\ Listed' /\ DirectoryAccurate'
  BY <1>1, WritingStep, ListedStep, AccurateStep
<1>4. Looked' /\ Displacing' /\ Healing'
  BY <1>1, LookedStep, DisplacingStep, HealingStep
<1> QED
  BY <1>2, <1>3, <1>4 DEF IInv

LEMMA InvHolds == Spec => []IInv
BY InitInv, StepInv, PTL DEF Spec

\* The userLists of the servers and the directory in Redis agree, but for what is on
\* its way: every registered user can be found through Redis (setUserToRedis writes the
\* hash before it registers), and no hash outlives its session on a running server.
THEOREM DirectoryHolds == Spec => []DirectoryInv
<1>1. IInv => DirectoryInv
  BY DEF IInv, Base, Listed, DirectoryInv, RegisteredIsListed
<1> QED
  BY <1>1, InvHolds, PTL

\* Close, error, kick and logout leave no hash behind on a running server.
THEOREM AccurateHolds == Spec => []DirectoryAccurate
<1>1. IInv => DirectoryAccurate
  BY DEF IInv
<1> QED
  BY <1>1, InvHolds, PTL

\* When OnlineUserManager.login completes, every session of the user that was
\* registered when it first looked is closing, gone, or has a kick on its way.
THEOREM DisplacedHolds == Spec => []Displaced
<1>1. IInv => Displaced
  <2> SUFFICES ASSUME IInv, NEW r \in Request, pc[r] = "done", OwnKey(r) \notin torn,
                      NEW s \in prior[r] \ {r[1]}, OneLogin(s), ws[s] = "open",
                      reg[s] = r[2], <<r[2], s>> \notin torn
               PROVE  <<r, s>> \in net
    BY DEF Displaced
  <2>1. Live(r, s)
    BY DEF Live
  <2> QED
    BY <2>1 DEF IInv, Displacing, Pursued
<1> QED
  BY <1>1, InvHolds, PTL

\* A login that writes its hash has removed what a crash of its own server left in
\* Redis for the user: the failed send of the kick notice logs the dead sessions out.
THEOREM HealsHold == Spec => []Heals
<1>1. IInv => Heals
  <2> SUFFICES ASSUME IInv, NEW r \in Request, pc[r] \in {"set", "done"},
                      OwnKey(r) \notin torn, NEW s \in Socket, ws[s] = "dead",
                      Home[s] = Srv(r), <<r[2], s>> \in keys \ torn
               PROVE  FALSE
    BY DEF Heals
  <2>1. Stale(r, s)
    BY DEF Stale
  <2> QED
    BY <2>1 DEF IInv, Healing
<1> QED
  BY <1>1, InvHolds, PTL
=============================================================================
