---------------------------- MODULE NoticeProofs ----------------------------
(***************************************************************************)
(* What reaches a client, under which numbers and in how many copies:      *)
(* proofs about Notice for any servers, users, sockets and bounds, logins, *)
(* closes and ended processes included.                                    *)
(***************************************************************************)
EXTENDS Notice, FiniteSetTheorems, TLAPS

-----------------------------------------------------------------------------
(* The line of a server: the replies it has not handled, oldest first, and *)
(* then the commands Redis has not run.                                    *)

Size(b, w) == Len(b) + Len(w)

At(b, w, n) == IF n <= Len(b) THEN b[n] ELSE w[n - Len(b)]

Slots(h) == 1 .. Size(inbox[h], wire[h])

Slot(h, n) == At(inbox[h], wire[h], n)

Boxed(h, n) == n <= Len(inbox[h])

Waits(h, n) == Slot(h, n).op # "del"

-----------------------------------------------------------------------------
(* The invariant: origins, their chains, what the lookups have read, that  *)
(* every chain has at most one place in the line, and what is relayed.     *)

Used == {UserOf[s] : s \in Socket}

Seen(t) == {o[1] : o \in task[t].found}

Origins ==
    /\ \A r \in 1 .. MaxRequest : origin[r] # NoOrigin =>
          /\ origin[r].kind \in {"msg", "in", "cast"}
          /\ \E s \in Socket : origin[r].from = {s}
          /\ IF origin[r].kind = "msg" THEN \E u \in User : origin[r].to = {u}
                                       ELSE origin[r].to = {}
    /\ \A s \in Socket : origin[s] # NoOrigin =>
          /\ origin[s] = [kind |-> "out", from |-> {s}, to |-> {}]
          /\ ws[s] \in {"closed", "dead"}

MainPc(r) ==
    IF origin[r] = NoOrigin
    THEN IF r \in Socket THEN {"idle", "hmset", "done"} ELSE {"idle"}
    ELSE CASE origin[r].kind = "msg" -> {"keys", "hgetall", "ready", "done", "hung"}
           [] origin[r].kind = "in" -> {"exists", "smembers", "sadd", "done"}
           [] origin[r].kind = "out" -> {"smembers", "srem", "done"}
           [] OTHER -> {"exists", "smembers", "done"}

Chain(r) ==
    /\ task[<<r, Main>>].pc \in MainPc(r)
    /\ r \in reg \ Early => task[<<r, Main>>].pc # "idle"
    /\ r \in reg /\ ws[r] \in {"open", "closing"} => task[<<r, Main>>].pc # "hmset"
    /\ \A k \in Copy \cup User : task[<<r, k>>].pc # "idle" =>
          /\ task[<<r, k>>].pc \in {"keys", "hgetall", "ready", "done", "hung"}
          /\ origin[r] # NoOrigin
          /\ task[<<r, Main>>].pc \in {"sadd", "srem", "done"}
          /\ k \in IF origin[r].kind = "msg" THEN Copy ELSE User

Lookup(t) ==
    /\ task[t].left \cup Seen(t) \subseteq Sessions(Addressee(t))
    /\ task[t].left \cap Seen(t) = {}
    /\ \A o, p \in task[t].found : o[1] = p[1] => o = p
    /\ task[t].pc = "idle" => task[t].left = {} /\ task[t].found = {}

GoodCommand(h, x) ==
    x.op # "del" =>
        /\ Srv(x.who) = h
        /\ task[x.who].pc = x.op
        /\ x.op = "hmset" => x.key = {x.who[1]} /\ x.who[1] \in Socket \ Early
        /\ x.op = "hgetall" =>
              \E s \in Sessions(Addressee(x.who)) :
                  x.key = {s} /\ s \notin task[x.who].left \cup Seen(x.who)

GoodReply(h, x) ==
    /\ up[h]
    /\ x.op # "del"
    /\ x.op = "keys" => x.list \subseteq Sessions(Addressee(x.who))
    /\ x.op = "hgetall" => x.list \subseteq x.key
    /\ x.op = "smembers" => x.list \subseteq Used

\* Every place of the line is in order, and no chain has two.
Line(h) ==
    /\ \A n \in Slots(h) : /\ GoodCommand(h, Slot(h, n))
                           /\ Boxed(h, n) => GoodReply(h, Slot(h, n))
    /\ \A m, n \in Slots(h) :
          Waits(h, m) /\ Waits(h, n) /\ Slot(h, m).who = Slot(h, n).who => m = n

Lines == \A h \in Server : Line(h)

\* The sends that told s something; what is relayed is of one of them.
Sends(s) == {t \in Task : /\ t[2] # Main
                          /\ task[t].pc = "done"
                          /\ s \in Sessions(Addressee(t))}

Relayed == \A m \in net : m[1] \in Sends(m[2])

\* The shape of what the chains and the queues are made of.
Typed ==
    /\ hash \subseteq Socket
    /\ members \subseteq User
    /\ up \in [Server -> BOOLEAN]
    /\ ws \in [Socket -> {"open", "closing", "closed", "dead"}]
    /\ reg \subseteq Socket
    /\ ctxRoom \subseteq Socket
    /\ noticeId \in [Socket -> Nat]
    /\ origin \in [Origin -> [kind : Kind, from : SUBSET Socket, to : SUBSET User]]
    /\ task \in [Task -> [pc : Op \cup {"idle", "ready", "done", "hung"},
                          left : SUBSET Socket, found : SUBSET (Socket \X BOOLEAN)]]
    /\ wire \in [Server -> Seq(Command)]
    /\ inbox \in [Server -> Seq(Response)]
    /\ net \subseteq Task \X Socket
    /\ \A m \in net : Home[m[2]] # Srv(m[1])
    /\ got \in [Socket -> Seq([id : Nat, about : Origin])]
    /\ closes \in 0 .. MaxClose

Base == /\ Typed /\ members \subseteq Used
        /\ Origins /\ (\A r \in Origin : Chain(r)) /\ (\A t \in Task : Lookup(t))
        /\ Lines /\ Relayed

\* The lookups that are to go on: each of them once, and on its own server.
Turn ==
    /\ ready \in [Server -> Seq(Task)] /\ chunk \in [Server -> Nat] /\ ended \subseteq Socket
    /\ \A h \in Server : \A i \in 1 .. Len(ready[h]) :
          /\ task[ready[h][i]].pc = "ready" /\ Srv(ready[h][i]) = h
          /\ \A j \in 1 .. Len(ready[h]) : ready[h][i] = ready[h][j] => i = j

-----------------------------------------------------------------------------
(* Where the notices a client holds come from.                             *)

\* Each notice of s is of a send of its own, and of one with no relay to s left;
\* the counter of s counts them.
Source(s) ==
    \E f \in [1 .. Len(got[s]) -> Sends(s)] :
        /\ \A i, j \in 1 .. Len(got[s]) : f[i] = f[j] => i = j
        /\ \A i \in 1 .. Len(got[s]) : f[i][1] = got[s][i].about /\ <<f[i], s>> \notin net

Counted(s) ==
    /\ Len(got[s]) = noticeId[s]
    /\ \A i \in 1 .. Len(got[s]) : got[s][i].id = i - 1

Ledger == Base /\ Turn /\ \A s \in Socket : Source(s) /\ Counted(s)

-----------------------------------------------------------------------------
(* Constants, sequences and records.                                       *)

LEMMA TaskFacts ==
    /\ Main \notin Copy \cup User /\ Copy \cap User = {}
    /\ Socket \cap 1 .. MaxRequest = {}
    /\ Socket \subseteq Origin /\ 1 .. MaxRequest \subseteq Origin
    /\ \A r \in Origin : r \in Socket \/ r \in 1 .. MaxRequest
    /\ \A r \in Origin : <<r, Main>> \in Task /\ \A k \in Copy \cup User : <<r, k>> \in Task
    /\ \A t \in Task : /\ t = <<t[1], t[2]>> /\ t[1] \in Origin
                       /\ t[2] = Main \/ t[2] \in Copy \cup User
    /\ \A r, q \in Origin : \A k, l : <<r, k>> = <<q, l>> => r = q /\ k = l
<1>1. Cardinality(Socket) \in Nat
  BY FS_CardinalityType, NoticeAssumption
<1>2. Main \notin Copy \cup User /\ Copy \cap User = {} /\ Copy \subseteq Nat
  BY <1>1, NoticeAssumption DEF Main, Copy
<1> QED
  BY <1>2, NoticeAssumption DEF Task, Origin

LEMMA TailFacts ==
    ASSUME NEW S, NEW q \in Seq(S), q # <<>>
    PROVE  /\ Tail(q) \in Seq(S) /\ Len(q) \in Nat /\ Len(q) >= 1
           /\ Len(Tail(q)) = Len(q) - 1
           /\ Head(q) = q[1] /\ q[1] \in S
           /\ \A i \in 1 .. Len(q) - 1 : Tail(q)[i] = q[i + 1]
OBVIOUS

LEMMA CatFacts ==
    ASSUME NEW S, NEW q \in Seq(S), NEW p \in Seq(S)
    PROVE  /\ q \o p \in Seq(S) /\ Len(q) \in Nat /\ Len(p) \in Nat
           /\ Len(q \o p) = Len(q) + Len(p)
           /\ \A i \in 1 .. Len(q) : (q \o p)[i] = q[i]
           /\ \A i \in 1 .. Len(p) : (q \o p)[Len(q) + i] = p[i]
OBVIOUS

Joined(S, q, n, p, m, c) ==
    /\ c \in Seq(S) /\ Len(c) = n + m
    /\ \A i \in 1 .. n : c[i] = q[i]
    /\ \A i \in 1 .. m : c[n + i] = p[i]

LEMMA CatIs ==
    ASSUME NEW S, NEW q \in Seq(S), NEW p \in Seq(S), NEW n, Len(q) = n,
           NEW m, Len(p) = m, NEW c, c = q \o p
    PROVE  Joined(S, q, n, p, m, c)
<1>1. Joined(S, q, Len(q), p, Len(p), q \o p)
  BY ONLY q \in Seq(S), p \in Seq(S) DEF Joined
<1>2. Joined(S, q, n, p, Len(p), c)
  BY ONLY <1>1, Len(q) = n, c = q \o p, Zenon
<1> QED
  BY ONLY <1>2, Len(p) = m, Zenon

LEMMA AppendFacts ==
    ASSUME NEW S, NEW q \in Seq(S), NEW x \in S
    PROVE  /\ Append(q, x) \in Seq(S) /\ Len(q) \in Nat
           /\ Len(Append(q, x)) = Len(q) + 1
           /\ \A i \in 1 .. Len(q) : Append(q, x)[i] = q[i]
           /\ Append(q, x)[Len(q) + 1] = x
OBVIOUS

LEMMA PrefixFacts ==
    ASSUME NEW S, NEW q \in Seq(S), NEW n \in 0 .. Len(q)
    PROVE  /\ SubSeq(q, 1, n) \in Seq(S) /\ Len(SubSeq(q, 1, n)) = n
           /\ Len(q) \in Nat /\ n \in Nat
           /\ \A i \in 1 .. n : SubSeq(q, 1, n)[i] = q[i]
OBVIOUS

LEMMA CmdType ==
    ASSUME NEW op \in Op, NEW t \in Task, NEW K \in SUBSET Socket
    PROVE  /\ Cmd(op, t, K) \in Command /\ Cmd(op, t, K).op = op
           /\ Cmd(op, t, K).who = t /\ Cmd(op, t, K).key = K
           /\ <<Cmd(op, t, K)>> \in Seq(Command) /\ Len(<<Cmd(op, t, K)>>) = 1
           /\ <<Cmd(op, t, K)>>[1] = Cmd(op, t, K)
BY DEF Cmd, Command

TaskRec == [pc : Op \cup {"idle", "ready", "done", "hung"},
            left : SUBSET Socket, found : SUBSET (Socket \X BOOLEAN)]

-----------------------------------------------------------------------------
(* How the line moves.                                                     *)

LEMMA SizeAt ==
    ASSUME NEW S, NEW T, NEW b \in Seq(S), NEW w \in Seq(T)
    PROVE  \E L, W \in Nat :
              /\ Len(b) = L /\ Len(w) = W /\ Size(b, w) = L + W
              /\ \A n \in 1 .. L + W :
                    /\ n <= L => At(b, w, n) = b[n] /\ n \in 1 .. L /\ At(b, w, n) \in S
                    /\ ~(n <= L) => At(b, w, n) = w[n - L] /\ n - L \in 1 .. W /\ At(b, w, n) \in T
<1>1. PICK L \in Nat : Len(b) = L
  OBVIOUS
<1>2. PICK W \in Nat : Len(w) = W
  OBVIOUS
<1>3. Size(b, w) = L + W
  BY <1>1, <1>2 DEF Size
<1>4. ASSUME NEW n \in 1 .. L + W
      PROVE  /\ n <= L => At(b, w, n) = b[n] /\ n \in 1 .. L /\ At(b, w, n) \in S
             /\ ~(n <= L) => At(b, w, n) = w[n - L] /\ n - L \in 1 .. W /\ At(b, w, n) \in T
  BY <1>1, <1>2 DEF At
<1> QED
  BY <1>1, <1>2, <1>3, <1>4

Extends(v, w, c) ==
    /\ Len(v) = Len(w) + Len(c)
    /\ \A i \in 1 .. Len(w) : v[i] = w[i]
    /\ \A i \in 1 .. Len(c) : v[Len(w) + i] = c[i]

LEMMA CatExtends ==
    ASSUME NEW S, NEW q \in Seq(S), NEW p \in Seq(S)
    PROVE  Extends(q \o p, q, p)
BY DEF Extends

LEMMA IssueAt ==
    ASSUME NEW S, NEW T, NEW b \in Seq(S), NEW w \in Seq(T), NEW c \in Seq(T),
           NEW v, Extends(v, w, c)
    PROVE  /\ Size(b, w) \in Nat
           /\ Size(b, v) = Size(b, w) + Len(c)
           /\ \A n \in 1 .. Size(b, w) : At(b, v, n) = At(b, w, n)
           /\ \A n \in 1 .. Len(c) : At(b, v, Size(b, w) + n) = c[n] /\ ~(Size(b, w) + n <= Len(b))
<1>1. PICK L \in Nat : Len(b) = L
  OBVIOUS
<1>2. PICK W \in Nat : Len(w) = W
  OBVIOUS
<1>3. PICK C \in Nat : Len(c) = C
  OBVIOUS
<1>4. /\ Len(v) = W + C /\ \A i \in 1 .. W : v[i] = w[i]
      /\ \A i \in 1 .. C : v[W + i] = c[i]
  BY <1>2, <1>3 DEF Extends
<1>5. Size(b, w) = L + W /\ Size(b, v) = L + (W + C)
  BY <1>1, <1>2, <1>4 DEF Size
<1>6. ASSUME NEW n \in 1 .. L + W PROVE At(b, v, n) = At(b, w, n)
  <2>1. ~(n <= L) => n - L \in 1 .. W
    OBVIOUS
  <2> QED
    BY <1>1, <1>4, <2>1 DEF At
<1>7. ASSUME NEW n \in 1 .. C PROVE At(b, v, (L + W) + n) = c[n] /\ ~((L + W) + n <= L)
  <2>1. ~((L + W) + n <= L) /\ ((L + W) + n) - L = W + n
    OBVIOUS
  <2> QED
    BY <1>1, <1>4, <2>1 DEF At
<1> QED
  BY <1>1, <1>3, <1>5, <1>6, <1>7
LEMMA SizeNat ==
    ASSUME NEW S, NEW T, NEW b \in Seq(S), NEW w \in Seq(T)
    PROVE  Size(b, w) \in Nat /\ Len(b) \in Nat
BY SizeAt

LEMMA HandleAt ==
    ASSUME NEW S, NEW T, NEW b \in Seq(S), NEW w \in Seq(T), b # <<>>
    PROVE  /\ Size(b, w) - 1 \in Nat /\ 1 <= Len(b) /\ 1 \in 1 .. Size(b, w)
           /\ At(b, w, 1) = Head(b)
           /\ Size(Tail(b), w) = Size(b, w) - 1
           /\ \A n \in 1 .. Size(b, w) - 1 :
                 /\ At(Tail(b), w, n) = At(b, w, n + 1)
                 /\ n <= Len(Tail(b)) <=> n + 1 <= Len(b)
<1>1. PICK L \in Nat : Len(b) = L
  OBVIOUS
<1>2. PICK W \in Nat : Len(w) = W
  OBVIOUS
<1>3. /\ L >= 1 /\ Len(Tail(b)) = L - 1 /\ L - 1 \in Nat /\ Head(b) = b[1]
      /\ \A i \in 1 .. L - 1 : Tail(b)[i] = b[i + 1]
  BY <1>1, TailFacts
<1>4. Size(b, w) = L + W /\ Size(Tail(b), w) = (L - 1) + W
  BY <1>1, <1>2, <1>3 DEF Size
<1>5. ASSUME NEW n \in 1 .. (L + W) - 1
      PROVE  /\ At(Tail(b), w, n) = At(b, w, n + 1)
             /\ n <= Len(Tail(b)) <=> n + 1 <= Len(b)
  <2>1. /\ n <= L - 1 <=> n + 1 <= L
        /\ n <= L - 1 => n \in 1 .. L - 1
        /\ ~(n <= L - 1) => n - (L - 1) = (n + 1) - L
    BY <1>3
  <2> QED
    BY <1>1, <1>3, <2>1 DEF At
<1>6. At(b, w, 1) = Head(b)
  BY <1>1, <1>3 DEF At
<1> QED
  BY <1>1, <1>3, <1>4, <1>5, <1>6

LEMMA RunAt ==
    ASSUME NEW S, NEW T, NEW b \in Seq(S), NEW w \in Seq(T), w # <<>>
    PROVE  /\ Len(b) \in Nat /\ Len(b) + 1 \in 1 .. Size(b, w) /\ Size(b, w) - 1 \in Nat
           /\ At(b, w, Len(b) + 1) = Head(w)
           /\ Size(b, Tail(w)) = Size(b, w) - 1
           /\ \A n \in 1 .. Size(b, w) - 1 :
                 At(b, Tail(w), n) = At(b, w, IF n <= Len(b) THEN n ELSE n + 1)
<1>1. PICK L \in Nat : Len(b) = L
  OBVIOUS
<1>2. PICK W \in Nat : Len(w) = W
  OBVIOUS
<1>3. /\ W >= 1 /\ Len(Tail(w)) = W - 1 /\ Head(w) = w[1]
      /\ \A i \in 1 .. W - 1 : Tail(w)[i] = w[i + 1]
  BY <1>2, TailFacts
<1>4. Size(b, w) = L + W /\ Size(b, Tail(w)) = L + (W - 1)
  BY <1>1, <1>2, <1>3 DEF Size
<1>5. ASSUME NEW n \in 1 .. (L + W) - 1
      PROVE  At(b, Tail(w), n) = At(b, w, IF n <= Len(b) THEN n ELSE n + 1)
  <2>1. ~(n <= L) => /\ ~(n + 1 <= L) /\ n - L \in 1 .. W - 1 /\ (n - L) + 1 = (n + 1) - L
    BY <1>3
  <2> QED
    BY <1>1, <1>3, <2>1 DEF At
<1>6. At(b, w, L + 1) = Head(w)
  <2>1. ~(L + 1 <= L) /\ (L + 1) - L = 1
    OBVIOUS
  <2> QED
    BY <1>1, <1>3, <2>1 DEF At
<1>7. L + 1 \in 1 .. L + W /\ (L + W) - 1 \in Nat /\ L + (W - 1) = (L + W) - 1
  BY <1>3
<1> QED
  BY <1>1, <1>4, <1>5, <1>6, <1>7

LEMMA AnswerAt ==
    ASSUME NEW S, NEW T, NEW b \in Seq(S), NEW w \in Seq(T), w # <<>>, NEW x \in S
    PROVE  /\ Size(Append(b, x), Tail(w)) = Size(b, w)
           /\ At(Append(b, x), Tail(w), Len(b) + 1) = x
           /\ Len(b) + 1 <= Len(Append(b, x)) /\ ~(Len(b) + 1 <= Len(b))
           /\ \A n \in 1 .. Size(b, w) : n # Len(b) + 1 =>
                 /\ At(Append(b, x), Tail(w), n) = At(b, w, n)
                 /\ n <= Len(Append(b, x)) <=> n <= Len(b)
                 /\ n < Len(b) + 1 <=> n <= Len(b)
<1>1. PICK L \in Nat : Len(b) = L
  OBVIOUS
<1>2. PICK W \in Nat : Len(w) = W
  OBVIOUS
<1>3. /\ W >= 1 /\ Len(Tail(w)) = W - 1 /\ Head(w) = w[1]
      /\ \A i \in 1 .. W - 1 : Tail(w)[i] = w[i + 1]
  BY <1>2, TailFacts
<1>4. /\ Len(Append(b, x)) = L + 1 /\ Append(b, x)[L + 1] = x
      /\ \A i \in 1 .. L : Append(b, x)[i] = b[i]
  BY <1>1, AppendFacts
<1>5. Size(b, w) = L + W /\ Size(Append(b, x), Tail(w)) = (L + 1) + (W - 1)
  BY <1>1, <1>2, <1>3, <1>4 DEF Size
<1>6. ASSUME NEW n \in 1 .. L + W, n # L + 1
      PROVE  /\ At(Append(b, x), Tail(w), n) = At(b, w, n)
             /\ n <= Len(Append(b, x)) <=> n <= Len(b)
             /\ n < L + 1 <=> n <= L
  <2>1. /\ n <= L + 1 <=> n <= L
        /\ n < L + 1 <=> n <= L
        /\ n <= L => n \in 1 .. L
        /\ ~(n <= L) => n - (L + 1) \in 1 .. W - 1 /\ (n - (L + 1)) + 1 = n - L
    BY <1>3, <1>6
  <2> QED
    BY <1>1, <1>3, <1>4, <2>1 DEF At
<1>7. At(Append(b, x), Tail(w), L + 1) = x
  BY <1>4 DEF At
<1>8. (L + 1) + (W - 1) = L + W /\ L + 1 <= L + 1 /\ ~(L + 1 <= L)
  BY <1>3
<1> QED
  BY <1>1, <1>4, <1>5, <1>6, <1>7, <1>8

LEMMA EndAt ==
    ASSUME NEW S, NEW T, NEW b \in Seq(S), NEW w \in Seq(T), NEW n \in 0 .. Len(w)
    PROVE  /\ n \in Nat /\ Len(b) \in Nat /\ Size(<<>>, SubSeq(w, 1, n)) = n
           /\ \A i \in 1 .. n :
                 /\ At(<<>>, SubSeq(w, 1, n), i) = At(b, w, Len(b) + i)
                 /\ Len(b) + i \in 1 .. Size(b, w) /\ ~(Len(b) + i <= Len(b))
                 /\ ~(i <= Len(<<>>))
<1>1. PICK L \in Nat : Len(b) = L
  OBVIOUS
<1>2. PICK W \in Nat : Len(w) = W
  OBVIOUS
<1>3. /\ n \in Nat /\ n <= W /\ Len(SubSeq(w, 1, n)) = n
      /\ \A i \in 1 .. n : SubSeq(w, 1, n)[i] = w[i]
  BY <1>2, PrefixFacts
<1>4. Size(b, w) = L + W /\ Size(<<>>, SubSeq(w, 1, n)) = 0 + n
  BY <1>1, <1>2, <1>3 DEF Size
<1>5. ASSUME NEW i \in 1 .. n
      PROVE  /\ At(<<>>, SubSeq(w, 1, n), i) = At(b, w, L + i)
             /\ L + i \in 1 .. L + W /\ ~(L + i <= L) /\ ~(i <= Len(<<>>))
  <2>1. /\ ~(i <= 0) /\ i - 0 = i /\ ~(L + i <= L) /\ (L + i) - L = i
        /\ L + i \in 1 .. L + W
    BY <1>3
  <2> QED
    BY <1>1, <1>3, <2>1 DEF At
<1> QED
  BY <1>1, <1>3, <1>4, <1>5

LEMMA SlotFacts ==
    ASSUME Typed, NEW h \in Server
    PROVE  /\ wire[h] \in Seq(Command) /\ inbox[h] \in Seq(Response)
           /\ \A n \in Slots(h) :
                 /\ n \in Nat /\ n >= 1
                 /\ Slot(h, n).op \in Op /\ Slot(h, n).who \in Task
                 /\ Slot(h, n).key \subseteq Socket
                 /\ Boxed(h, n) => /\ Slot(h, n) \in Response
                                   /\ Slot(h, n).list \subseteq Socket \cup User
                 /\ ~Boxed(h, n) => Slot(h, n) \in Command
<1>1. wire[h] \in Seq(Command) /\ inbox[h] \in Seq(Response)
  BY DEF Typed
<1>2. PICK L, W \in Nat :
        /\ Len(inbox[h]) = L /\ Size(inbox[h], wire[h]) = L + W
        /\ \A n \in 1 .. L + W :
              /\ n <= L => At(inbox[h], wire[h], n) \in Response
              /\ ~(n <= L) => At(inbox[h], wire[h], n) \in Command
  BY <1>1, SizeAt
<1>5. \A x \in Command : x.op \in Op /\ x.who \in Task /\ x.key \subseteq Socket
  BY DEF Command
<1>6. \A x \in Response : /\ x.op \in Op /\ x.who \in Task /\ x.key \subseteq Socket
                          /\ x.list \subseteq Socket \cup User
  BY DEF Response
<1>7. ASSUME NEW n \in Slots(h)
      PROVE  /\ n \in Nat /\ n >= 1
             /\ \/ Slot(h, n) \in Response /\ Boxed(h, n)
                \/ Slot(h, n) \in Command /\ ~Boxed(h, n)
  <2>1. n \in 1 .. L + W /\ (Boxed(h, n) <=> n <= L)
    BY <1>2 DEF Slots, Boxed
  <2> QED
    BY <1>2, <2>1 DEF Slot
<1> QED
  BY <1>1, <1>5, <1>6, <1>7

\* The line of g after a step: the places f[1] < ... < f[m] from before, then cmds.
Moved(g, m, f, cmds) ==
    /\ m \in Nat /\ cmds \in Seq(Command) /\ Len(cmds) \in Nat
    /\ Slots(g)' = 1 .. m + Len(cmds)
    /\ f \in [1 .. m -> Slots(g)]
    /\ \A i, j \in 1 .. m : i < j => f[i] < f[j]
    /\ \A i \in 1 .. m : Slot(g, i)' = Slot(g, f[i]) /\ (Boxed(g, i)' <=> Boxed(g, f[i]))
    /\ \A i \in 1 .. Len(cmds) : Slot(g, m + i)' = cmds[i] /\ ~Boxed(g, m + i)'

\* Commands are issued and nothing else moves; with the head of the inbox handled;
\* a command of no chain is run; the process ends.
LEMMA IssueMoves ==
    ASSUME Typed, NEW h \in Server, NEW cmds \in Seq(Command),
           wire'[h] = wire[h] \o cmds, inbox'[h] = inbox[h]
    PROVE  \E m, f : Moved(h, m, f, cmds)
<1>1. PICK b \in Seq(Response) : b = inbox[h]
  BY SlotFacts
<1>2. PICK w \in Seq(Command) : w = wire[h]
  BY SlotFacts
<1>v. PICK v : v = wire'[h] /\ Extends(v, w, cmds)
  <2>1. wire'[h] = w \o cmds /\ Extends(w \o cmds, w, cmds)
    BY <1>2, CatExtends
  <2> QED
    BY <2>1, Zenon
<1>3. PICK M \in Nat : M = Size(b, w)
  BY SizeNat
<1>4. /\ Size(b, v) = Size(b, w) + Len(cmds)
      /\ \A n \in 1 .. Size(b, w) : At(b, v, n) = At(b, w, n)
      /\ \A n \in 1 .. Len(cmds) : /\ At(b, v, Size(b, w) + n) = cmds[n]
                                    /\ ~(Size(b, w) + n <= Len(b))
  BY <1>v, IssueAt
<1> DEFINE f == [i \in 1 .. M |-> i]
<1>5. /\ f \in [1 .. M -> 1 .. M] /\ \A i, j \in 1 .. M : i < j => f[i] < f[j]
      /\ \A i \in 1 .. M : f[i] = i
  OBVIOUS
<1> HIDE DEF f
<1>6. Slots(h) = 1 .. M /\ Slots(h)' = 1 .. M + Len(cmds)
  BY <1>1, <1>2, <1>v, <1>3, <1>4 DEF Slots
<1>7. \A i \in 1 .. M : Slot(h, i)' = Slot(h, f[i])
  BY <1>1, <1>2, <1>v, <1>3, <1>4, <1>5 DEF Slot
<1>8. \A i \in 1 .. M : Boxed(h, i)' <=> Boxed(h, f[i])
  BY <1>1, <1>5 DEF Boxed
<1>9. \A i \in 1 .. Len(cmds) : Slot(h, M + i)' = cmds[i] /\ ~Boxed(h, M + i)'
  BY <1>1, <1>2, <1>v, <1>3, <1>4 DEF Slot, Boxed
<1>10. Len(cmds) \in Nat
  OBVIOUS
<1> QED
  BY <1>5, <1>6, <1>7, <1>8, <1>9, <1>10 DEF Moved

LEMMA HandleMoves ==
    ASSUME Typed, NEW h \in Server, NEW cmds \in Seq(Command), inbox[h] # <<>>,
           wire'[h] = wire[h] \o cmds, inbox'[h] = Tail(inbox[h])
    PROVE  /\ 1 \in Slots(h) /\ Boxed(h, 1) /\ Slot(h, 1) = Head(inbox[h])
           /\ \E m, f : Moved(h, m, f, cmds) /\ \A i \in 1 .. m : f[i] # 1
<1>1. PICK b \in Seq(Response) : b = inbox[h] /\ b # <<>>
  BY SlotFacts
<1>2. PICK w \in Seq(Command) : w = wire[h]
  BY SlotFacts
<1>3. PICK c \in Seq(Response) : c = Tail(b)
  BY <1>1, TailFacts
<1>4. PICK N \in Nat : N = Size(b, w)
  BY SizeNat
<1>5. PICK M \in Nat : M = Size(c, w)
  BY SizeNat
<1>v. PICK v : v = wire'[h] /\ Extends(v, w, cmds)
  <2>1. wire'[h] = w \o cmds /\ Extends(w \o cmds, w, cmds)
    BY <1>2, CatExtends
  <2> QED
    BY <2>1, Zenon
<1>6. /\ 1 <= Len(b) /\ 1 \in 1 .. N /\ At(b, w, 1) = Head(b)
      /\ M = N - 1
      /\ \A n \in 1 .. N - 1 : /\ At(c, w, n) = At(b, w, n + 1)
                               /\ n <= Len(c) <=> n + 1 <= Len(b)
  BY <1>1, <1>3, <1>4, <1>5, HandleAt
<1>7. /\ Size(c, v) = Size(c, w) + Len(cmds)
      /\ \A n \in 1 .. Size(c, w) : At(c, v, n) = At(c, w, n)
      /\ \A n \in 1 .. Len(cmds) : /\ At(c, v, Size(c, w) + n) = cmds[n]
                                    /\ ~(Size(c, w) + n <= Len(c))
  BY <1>v, IssueAt
<1> DEFINE f == [i \in 1 .. M |-> i + 1]
<1>8. /\ f \in [1 .. M -> 1 .. N] /\ \A i, j \in 1 .. M : i < j => f[i] < f[j]
      /\ \A i \in 1 .. M : f[i] = i + 1 /\ f[i] # 1
  BY <1>6
<1> HIDE DEF f
<1>9. Slots(h) = 1 .. N /\ Slots(h)' = 1 .. M + Len(cmds)
  BY <1>1, <1>2, <1>v, <1>3, <1>4, <1>5, <1>7 DEF Slots
<1>10. \A i \in 1 .. M : Slot(h, i)' = Slot(h, f[i])
  BY <1>1, <1>2, <1>v, <1>3, <1>5, <1>6, <1>7, <1>8 DEF Slot
<1>11. \A i \in 1 .. M : Boxed(h, i)' <=> Boxed(h, f[i])
  BY <1>1, <1>3, <1>6, <1>8 DEF Boxed
<1>12. \A i \in 1 .. Len(cmds) : Slot(h, M + i)' = cmds[i] /\ ~Boxed(h, M + i)'
  BY <1>1, <1>2, <1>v, <1>3, <1>5, <1>7 DEF Slot, Boxed
<1>13. Len(cmds) \in Nat
  OBVIOUS
<1>14. Moved(h, M, f, cmds)
  BY <1>8, <1>9, <1>10, <1>11, <1>12, <1>13 DEF Moved
<1>15. 1 \in Slots(h) /\ Boxed(h, 1) /\ Slot(h, 1) = Head(inbox[h])
  BY <1>1, <1>2, <1>v, <1>6, <1>9 DEF Slot, Boxed
<1> QED
  BY <1>8, <1>14, <1>15

LEMMA DropMoves ==
    ASSUME Typed, NEW h \in Server, wire[h] # <<>>,
           wire'[h] = Tail(wire[h]), inbox'[h] = inbox[h]
    PROVE  \E m, f, a : /\ Moved(h, m, f, <<>>) /\ a \in Slots(h) /\ ~Boxed(h, a)
                       /\ Slot(h, a) = Head(wire[h]) /\ \A i \in 1 .. m : f[i] # a
<1>1. PICK b \in Seq(Response) : b = inbox[h]
  BY SlotFacts
<1>2. PICK w \in Seq(Command) : w = wire[h] /\ w # <<>>
  BY SlotFacts
<1>3. PICK L \in Nat : L = Len(b)
  BY SizeNat
<1>4. PICK N \in Nat : N = Size(b, w)
  BY SizeNat
<1>5. PICK M \in Nat : M = Size(b, w) - 1
  BY <1>2, RunAt
<1>6. /\ Size(b, Tail(w)) = M
      /\ \A n \in 1 .. M : At(b, Tail(w), n) = At(b, w, IF n <= L THEN n ELSE n + 1)
  BY <1>2, <1>3, <1>5, RunAt
<1> DEFINE f == [i \in 1 .. M |-> IF i <= L THEN i ELSE i + 1]
<1>7. M = N - 1
  BY <1>4, <1>5
<1>8. /\ f \in [1 .. M -> 1 .. N]
      /\ \A i \in 1 .. M : f[i] = IF i <= L THEN i ELSE i + 1
  BY <1>7
<1> HIDE DEF f
<1>9. ASSUME NEW i \in 1 .. M, NEW j \in 1 .. M, i < j PROVE f[i] < f[j]
  <2>1. f[i] \in {i, i + 1} /\ f[j] \in {j, j + 1} /\ (j <= L => f[i] = i /\ f[j] = j)
        /\ (~(j <= L) => f[j] = j + 1)
    BY <1>8, <1>9
  <2> QED
    BY <2>1, <1>9
<1>10. \A i \in 1 .. M : i <= L <=> f[i] <= L
  BY <1>8
<1>11. Slots(h) = 1 .. N /\ Slots(h)' = 1 .. M
  BY <1>1, <1>2, <1>4, <1>6 DEF Slots
<1>12. \A i \in 1 .. M : Slot(h, i)' = Slot(h, f[i])
  BY <1>1, <1>2, <1>6, <1>8 DEF Slot
<1>13. \A i \in 1 .. M : Boxed(h, i)' <=> Boxed(h, f[i])
  BY <1>1, <1>3, <1>10 DEF Boxed
<1>14. <<>> \in Seq(Command) /\ Len(<<>>) = 0 /\ M + 0 = M /\ 1 .. 0 = {}
  OBVIOUS
<1>15. Moved(h, M, f, <<>>)
  BY <1>8, <1>9, <1>11, <1>12, <1>13, <1>14 DEF Moved
<1>16. L + 1 \in 1 .. N /\ At(b, w, L + 1) = Head(w) /\ ~(L + 1 <= L)
  BY <1>2, <1>3, <1>4, RunAt
<1>17. L + 1 \in Slots(h) /\ Slot(h, L + 1) = Head(wire[h]) /\ ~Boxed(h, L + 1)
  BY <1>1, <1>2, <1>3, <1>11, <1>16 DEF Slot, Boxed
<1>18. \A i \in 1 .. M : f[i] # L + 1
  BY <1>8
<1> QED
  BY <1>15, <1>17, <1>18

LEMMA EndMoves ==
    ASSUME Typed, NEW h \in Server, NEW n \in 0 .. Len(wire[h]),
           wire'[h] = SubSeq(wire[h], 1, n), inbox'[h] = <<>>
    PROVE  \E m, f : Moved(h, m, f, <<>>)
<1>1. PICK b \in Seq(Response) : b = inbox[h]
  BY SlotFacts
<1>2. PICK w \in Seq(Command) : w = wire[h] /\ n \in 0 .. Len(w)
  BY SlotFacts
<1>3. PICK L \in Nat : L = Len(b)
  BY SizeNat
<1>4. PICK N \in Nat : N = Size(b, w)
  BY SizeNat
<1>5. /\ n \in Nat /\ Size(<<>>, SubSeq(w, 1, n)) = n
      /\ \A i \in 1 .. n :
            /\ At(<<>>, SubSeq(w, 1, n), i) = At(b, w, Len(b) + i)
            /\ Len(b) + i \in 1 .. Size(b, w) /\ ~(Len(b) + i <= Len(b))
            /\ ~(i <= Len(<<>>))
  BY <1>2, EndAt
<1> DEFINE f == [i \in 1 .. n |-> L + i]
<1>6. f \in [1 .. n -> 1 .. N] /\ \A i \in 1 .. n : f[i] = L + i
  BY <1>3, <1>4, <1>5
<1> HIDE DEF f
<1>7. \A i, j \in 1 .. n : i < j => f[i] < f[j]
  BY <1>6
<1>8. Slots(h) = 1 .. N /\ Slots(h)' = 1 .. n
  BY <1>1, <1>2, <1>4, <1>5 DEF Slots
<1>9. \A i \in 1 .. n : Slot(h, i)' = Slot(h, f[i])
  BY <1>1, <1>2, <1>3, <1>5, <1>6 DEF Slot
<1>10. \A i \in 1 .. n : Boxed(h, i)' <=> Boxed(h, f[i])
  BY <1>1, <1>3, <1>5, <1>6 DEF Boxed
<1>11. <<>> \in Seq(Command) /\ Len(<<>>) = 0 /\ n + 0 = n /\ 1 .. 0 = {}
  BY <1>5
<1> QED
  BY <1>5, <1>6, <1>7, <1>8, <1>9, <1>10, <1>11 DEF Moved

LEMMA SameMoves ==
    ASSUME Typed, NEW g \in Server, wire'[g] = wire[g], inbox'[g] = inbox[g]
    PROVE  \E m, f : Moved(g, m, f, <<>>)
<1>1. <<>> \in Seq(Command) /\ wire[g] \in Seq(Command)
  BY SlotFacts
<1>2. wire'[g] = wire[g] \o <<>>
  BY <1>1
<1> QED
  BY <1>1, <1>2, IssueMoves

\* A command of a chain is run: its place a in the line goes to the reply.
Answers(h, a, x) ==
    /\ Slots(h)' = Slots(h)
    /\ a \in Slots(h) /\ ~Boxed(h, a) /\ Slot(h, a) = Head(wire[h])
    /\ Slot(h, a)' = x /\ Boxed(h, a)'
    /\ \A n \in Slots(h) : n # a =>
          /\ Slot(h, n)' = Slot(h, n) /\ (Boxed(h, n)' <=> Boxed(h, n))
          /\ n < a <=> Boxed(h, n)

LEMMA ExecAnswers ==
    ASSUME Typed, NEW h \in Server, wire[h] # <<>>, NEW x \in Response,
           wire'[h] = Tail(wire[h]), inbox'[h] = Append(inbox[h], x)
    PROVE  \E a : Answers(h, a, x)
<1>1. wire[h] \in Seq(Command) /\ inbox[h] \in Seq(Response)
  BY SlotFacts
<1>2. PICK a \in Nat : a = Len(inbox[h]) + 1
  BY <1>1
<1>3. PICK N \in Nat : N = Size(inbox[h], wire[h])
  BY <1>1, SizeNat
<1>4. /\ Size(Append(inbox[h], x), Tail(wire[h])) = N
      /\ At(Append(inbox[h], x), Tail(wire[h]), a) = x
      /\ a <= Len(Append(inbox[h], x)) /\ ~(a <= Len(inbox[h]))
      /\ \A n \in 1 .. N : n # a =>
            /\ At(Append(inbox[h], x), Tail(wire[h]), n) = At(inbox[h], wire[h], n)
            /\ n <= Len(Append(inbox[h], x)) <=> n <= Len(inbox[h])
            /\ n < a <=> n <= Len(inbox[h])
  BY <1>1, <1>2, <1>3, AnswerAt
<1>5. a \in 1 .. N /\ At(inbox[h], wire[h], a) = Head(wire[h])
  BY <1>1, <1>2, <1>3, RunAt
<1>6. Slots(h) = 1 .. N /\ Slots(h)' = 1 .. N
  BY <1>3, <1>4 DEF Slots
<1>7. /\ ~Boxed(h, a) /\ Slot(h, a) = Head(wire[h])
      /\ Slot(h, a)' = x /\ Boxed(h, a)'
  BY <1>4, <1>5 DEF Slot, Boxed
<1>8. ASSUME NEW n \in 1 .. N, n # a
      PROVE  /\ Slot(h, n)' = Slot(h, n) /\ (Boxed(h, n)' <=> Boxed(h, n))
             /\ n < a <=> Boxed(h, n)
  BY <1>4, <1>8 DEF Slot, Boxed
<1> QED
  BY <1>5, <1>6, <1>7, <1>8 DEF Answers

-----------------------------------------------------------------------------
(* The line stays in order.                                                *)

Settled(t) == task'[t] = task[t] /\ origin'[t[1]] = origin[t[1]]

LEMMA SettledFacts ==
    ASSUME NEW t, Settled(t)
    PROVE  Srv(t)' = Srv(t) /\ Addressee(t)' = Addressee(t) /\ Seen(t)' = Seen(t)
           /\ Sessions(Addressee(t))' = Sessions(Addressee(t))
<1>1. Srv(t)' = Srv(t)
  BY DEF Settled, Srv
<1>2. Addressee(t)' = Addressee(t)
  BY DEF Settled, Addressee
<1>3. Seen(t)' = Seen(t)
  BY DEF Settled, Seen
<1> QED
  BY <1>1, <1>2, <1>3 DEF Sessions

LEMMA EntryStays ==
    ASSUME NEW g, NEW x, GoodCommand(g, x), x.op # "del" => Settled(x.who)
    PROVE  GoodCommand(g, x)'
<1>1. CASE x.op = "del"
  BY <1>1 DEF GoodCommand
<1>2. CASE x.op # "del"
  <2>1. Settled(x.who)
    BY <1>2
  <2>2. /\ Srv(x.who)' = Srv(x.who) /\ Seen(x.who)' = Seen(x.who)
        /\ Sessions(Addressee(x.who))' = Sessions(Addressee(x.who))
        /\ task'[x.who] = task[x.who]
    BY <2>1, SettledFacts DEF Settled
  <2> QED
    BY <2>2, <1>2 DEF GoodCommand
<1> QED
  BY <1>1, <1>2

LEMMA ReplyStays ==
    ASSUME NEW g, NEW x, GoodReply(g, x), up'[g], Settled(x.who)
    PROVE  GoodReply(g, x)'
<1>1. Sessions(Addressee(x.who))' = Sessions(Addressee(x.who))
  BY SettledFacts
<1> QED
  BY <1>1 DEF GoodReply, Used

\* What a chain other than t does not see of a step of t.
Undisturbed(t) ==
    \A u \in Task : u # t /\ task[u].pc # "idle" => Settled(u)

\* Commands that a step of chain t may add to the line of h.
NewFor(h, t, cmds) ==
    /\ \A i \in 1 .. Len(cmds) : GoodCommand(h, cmds[i])'
    /\ \A i \in 1 .. Len(cmds) :
          cmds[i].op # "del" => cmds[i].who = t \/ task[cmds[i].who].pc = "idle"
    /\ \A i, j \in 1 .. Len(cmds) :
          cmds[i].op # "del" /\ cmds[j].op # "del" /\ cmds[i].who = cmds[j].who => i = j

LEMMA MovedLine ==
    ASSUME Typed, NEW g \in Server, Line(g), NEW m, NEW f, NEW cmds, Moved(g, m, f, cmds),
           \A i \in 1 .. m : Boxed(g, f[i]) => up'[g],
           NEW t, Undisturbed(t),
           \A i \in 1 .. m : Waits(g, f[i]) => Slot(g, f[i]).who # t,
           NewFor(g, t, cmds)
    PROVE  Line(g)'
<1>1. /\ m \in Nat /\ Len(cmds) \in Nat /\ Slots(g)' = 1 .. m + Len(cmds)
      /\ \A i \in 1 .. m : /\ f[i] \in Slots(g) /\ Slot(g, i)' = Slot(g, f[i])
                           /\ Boxed(g, i)' <=> Boxed(g, f[i])
      /\ \A i \in 1 .. Len(cmds) : Slot(g, m + i)' = cmds[i] /\ ~Boxed(g, m + i)'
  BY DEF Moved
<1>2. \A i, j \in 1 .. m : f[i] = f[j] => i = j
  <2> SUFFICES ASSUME NEW i \in 1 .. m, NEW j \in 1 .. m, f[i] = f[j] PROVE i = j
    OBVIOUS
  <2>1. i < j => f[i] < f[j]
    BY DEF Moved
  <2>2. j < i => f[j] < f[i]
    BY DEF Moved
  <2>3. f[i] \in Nat
    BY <1>1, SlotFacts
  <2> QED
    BY <2>1, <2>2, <2>3
<1>3. ASSUME NEW n \in Slots(g)', ~(n \in 1 .. m)
      PROVE  \E i \in 1 .. Len(cmds) : n = m + i
  <2>1. n - m \in 1 .. Len(cmds) /\ n = m + (n - m)
    BY <1>1, <1>3
  <2> QED
    BY <2>1
<1>4. ASSUME NEW i \in 1 .. m, Waits(g, f[i])
      PROVE  /\ Slot(g, f[i]).who \in Task /\ task[Slot(g, f[i]).who].pc \in Op
             /\ Settled(Slot(g, f[i]).who) /\ Slot(g, f[i]).who # t
  <2>1. Slot(g, f[i]).who \in Task /\ Slot(g, f[i]).op \in Op
    BY <1>1, SlotFacts
  <2>2. task[Slot(g, f[i]).who].pc = Slot(g, f[i]).op
    BY <1>1, <1>4 DEF Line, GoodCommand, Waits
  <2> QED
    BY <1>4, <2>1, <2>2 DEF Undisturbed, Op
<1>5. ASSUME NEW i \in 1 .. m
      PROVE  \A x : x = Slot(g, f[i]) => GoodCommand(g, x)'
  <2>1. GoodCommand(g, Slot(g, f[i])) /\ (Slot(g, f[i]).op # "del" => Settled(Slot(g, f[i]).who))
    BY <1>1, <1>4 DEF Line, Waits
  <2> QED
    BY <2>1, EntryStays
<1>6. ASSUME NEW i \in 1 .. m, Boxed(g, f[i])
      PROVE  \A x : x = Slot(g, f[i]) => GoodReply(g, x)'
  <2>1. GoodReply(g, Slot(g, f[i])) /\ Waits(g, f[i])
    BY <1>1, <1>6 DEF Line, Waits, GoodReply
  <2>2. Settled(Slot(g, f[i]).who) /\ up'[g]
    BY <1>4, <1>6, <2>1
  <2> QED
    BY <2>1, <2>2, ReplyStays
<1>7. ASSUME NEW n \in Slots(g)'
      PROVE  GoodCommand(g, Slot(g, n))' /\ (Boxed(g, n)' => GoodReply(g, Slot(g, n))')
  <2>1. CASE n \in 1 .. m
    <3>1. Slot(g, n)' = Slot(g, f[n]) /\ (Boxed(g, n)' <=> Boxed(g, f[n]))
      BY <1>1, <2>1
    <3>2. GoodCommand(g, Slot(g, n))'
      BY <3>1, <1>5, <2>1
    <3>3. Boxed(g, n)' => GoodReply(g, Slot(g, n))'
      BY <3>1, <1>6, <2>1
    <3> QED
      BY <3>2, <3>3
  <2>2. CASE ~(n \in 1 .. m)
    <3>1. PICK i \in 1 .. Len(cmds) : n = m + i
      BY <1>3, <2>2
    <3>2. Slot(g, n)' = cmds[i] /\ ~Boxed(g, n)'
      BY <1>1, <3>1
    <3> QED
      BY <3>2 DEF NewFor
  <2> QED
    BY <2>1, <2>2
<1>8. ASSUME NEW a \in Slots(g)', NEW n \in Slots(g)', Waits(g, a)', Waits(g, n)',
             Slot(g, a)'.who = Slot(g, n)'.who
      PROVE  a = n
  <2>1. ASSUME NEW i \in 1 .. m, NEW j \in 1 .. Len(cmds), Slot(g, f[i]).op # "del",
               cmds[j].op # "del"
        PROVE  Slot(g, f[i]).who # cmds[j].who
    BY <1>4, <2>1 DEF Waits, NewFor, Op
  <2>2. CASE a \in 1 .. m /\ n \in 1 .. m
    <3>1. f[a] = f[n]
      BY <1>1, <1>8, <2>2 DEF Line, Waits
    <3> QED
      BY <1>2, <2>2, <3>1
  <2>3. CASE a \in 1 .. m /\ ~(n \in 1 .. m)
    <3>1. PICK i \in 1 .. Len(cmds) : n = m + i
      BY <1>3, <2>3
    <3>2. Slot(g, n)' = cmds[i] /\ Slot(g, a)' = Slot(g, f[a])
      BY <1>1, <2>3, <3>1
    <3> QED
      BY <1>8, <2>1, <2>3, <3>2 DEF Waits
  <2>4. CASE ~(a \in 1 .. m) /\ n \in 1 .. m
    <3>1. PICK i \in 1 .. Len(cmds) : a = m + i
      BY <1>3, <2>4
    <3> QED
      BY <1>1, <1>8, <2>1, <2>4, <3>1 DEF Waits
  <2>5. CASE ~(a \in 1 .. m) /\ ~(n \in 1 .. m)
    <3>1. PICK i \in 1 .. Len(cmds) : a = m + i
      BY <1>3, <2>5
    <3>2. PICK j \in 1 .. Len(cmds) : n = m + j
      BY <1>3, <2>5
    <3>3. Slot(g, a)' = cmds[i] /\ Slot(g, n)' = cmds[j]
      BY <1>1, <3>1, <3>2
    <3>4. i = j
      BY <1>8, <3>3 DEF Waits, NewFor
    <3> QED
      BY <3>1, <3>2, <3>4
  <2> QED
    BY <2>2, <2>3, <2>4, <2>5
<1> QED
  BY <1>7, <1>8 DEF Line

\* Servers that a step of t does not touch.
LEMMA ElsewhereLine ==
    ASSUME Base, NEW g \in Server, wire'[g] = wire[g], inbox'[g] = inbox[g], up'[g] = up[g],
           NEW t, Undisturbed(t), t \in Task /\ task[t].pc \in Op => Srv(t) # g
    PROVE  Line(g)'
<1>1. PICK m, f : Moved(g, m, f, <<>>)
  BY SameMoves DEF Base
<1>2. Typed /\ Line(g)
  BY DEF Base, Lines
<1>3. \A i \in 1 .. m : f[i] \in Slots(g)
  BY <1>1 DEF Moved
<1>4. \A i \in 1 .. m : Boxed(g, f[i]) => up'[g]
  BY <1>2, <1>3 DEF Line, GoodReply
<1>5. ASSUME NEW i \in 1 .. m, Waits(g, f[i]), Slot(g, f[i]).who = t PROVE FALSE
  <2>1. t \in Task /\ task[t].pc \in Op /\ Srv(t) = g
    BY <1>2, <1>3, <1>5, SlotFacts DEF Line, GoodCommand, Waits
  <2> QED
    BY <2>1
<1>6. 1 .. Len(<<>>) = {}
  OBVIOUS
<1>7. NewFor(g, t, <<>>)
  BY <1>6 DEF NewFor
<1> QED
  BY <1>1, <1>2, <1>4, <1>5, <1>7, MovedLine

-----------------------------------------------------------------------------
(* What the steps leave alone.                                             *)

LEMMA SetPc ==
    ASSUME Typed, NEW t \in Task, NEW p \in Op \cup {"idle", "ready", "done", "hung"},
           task' = [task EXCEPT ![t].pc = p]
    PROVE  /\ task' \in [Task -> TaskRec]
           /\ task'[t].pc = p /\ task'[t].left = task[t].left /\ task'[t].found = task[t].found
           /\ \A u \in Task : u # t => task'[u] = task[u]
<1>1. task \in [Task -> TaskRec]
  BY DEF Typed, TaskRec
<1>2. task[t] \in TaskRec
  BY <1>1
<1>3. [task[t] EXCEPT !.pc = p] = [pc |-> p, left |-> task[t].left, found |-> task[t].found]
  BY <1>2 DEF TaskRec
<1>4. task' = [task EXCEPT ![t] = [pc |-> p, left |-> task[t].left, found |-> task[t].found]]
  BY <1>1, <1>3
<1>5. [pc |-> p, left |-> task[t].left, found |-> task[t].found] \in TaskRec
  BY <1>2 DEF TaskRec
<1> QED
  BY <1>1, <1>4, <1>5

LEMMA PutTask ==
    ASSUME Typed, NEW t \in Task, NEW x \in TaskRec, task' = [task EXCEPT ![t] = x]
    PROVE  /\ task' \in [Task -> TaskRec] /\ task'[t] = x
           /\ \A u \in Task : u # t => task'[u] = task[u]
BY DEF Typed, TaskRec

LEMMA NoTaskPc ==
    ASSUME NEW p \in Op \cup {"idle", "ready", "done", "hung"}
    PROVE  /\ [NoTask EXCEPT !.pc = p] \in TaskRec
           /\ [NoTask EXCEPT !.pc = p].pc = p /\ [NoTask EXCEPT !.pc = p].left = {}
           /\ [NoTask EXCEPT !.pc = p].found = {}
<1>1. [NoTask EXCEPT !.pc = p] = [pc |-> p, left |-> {}, found |-> {}]
  BY DEF NoTask
<1> QED
  BY <1>1 DEF TaskRec

LEMMA ChainStays ==
    ASSUME NEW r \in Origin, Chain(r), origin'[r] = origin[r],
           \A k \in {Main} \cup Copy \cup User : task'[<<r, k>>].pc = task[<<r, k>>].pc,
           r \in reg' => r \in reg \/ task[<<r, Main>>].pc \notin {"idle", "hmset"},
           r \in reg' /\ ws'[r] \in {"open", "closing"} => ws[r] \in {"open", "closing"}
    PROVE  Chain(r)'
<1>1. MainPc(r)' = MainPc(r)
  BY DEF MainPc
<1>2. task'[<<r, Main>>].pc = task[<<r, Main>>].pc
  OBVIOUS
<1> QED
  BY <1>1, <1>2 DEF Chain

LEMMA LookupStays ==
    ASSUME NEW t \in Task, Lookup(t), task'[t].left = task[t].left,
           task'[t].found = task[t].found, origin'[t[1]].to = origin[t[1]].to,
           task'[t].pc = "idle" => task[t].pc = "idle"
    PROVE  Lookup(t)'
<1>1. Seen(t)' = Seen(t) /\ Sessions(Addressee(t))' = Sessions(Addressee(t))
  BY DEF Seen, Sessions, Addressee
<1> QED
  BY <1>1 DEF Lookup

LEMMA LookupEmpty ==
    ASSUME NEW t, task'[t].left = {}, task'[t].found = {}
    PROVE  Lookup(t)'
<1>1. Seen(t)' = {}
  BY DEF Seen
<1> QED
  BY <1>1 DEF Lookup

\* The head of an inbox.
LEMMA HeadFacts ==
    ASSUME Base, NEW h \in Server, inbox[h] # <<>>, NEW x, x = Head(inbox[h])
    PROVE  /\ x \in Response /\ x.who \in Task /\ x.op \in Op /\ x.op # "del"
           /\ x.key \subseteq Socket /\ x.list \subseteq Socket \cup User
           /\ GoodCommand(h, x) /\ GoodReply(h, x)
           /\ task[x.who].pc = x.op /\ Srv(x.who) = h /\ up[h]
           /\ 1 \in Slots(h) /\ Boxed(h, 1) /\ Slot(h, 1) = x /\ Waits(h, 1)
<1>1. Typed /\ Line(h) /\ inbox[h] \in Seq(Response) /\ wire[h] \in Seq(Command)
  BY SlotFacts DEF Base, Lines
<1>2. 1 <= Len(inbox[h]) /\ 1 \in 1 .. Size(inbox[h], wire[h]) /\ At(inbox[h], wire[h], 1) = x
  BY <1>1, HandleAt
<1>3. 1 \in Slots(h) /\ Boxed(h, 1) /\ Slot(h, 1) = x
  BY <1>2 DEF Slots, Slot, Boxed
<1>4. /\ x \in Response /\ x.who \in Task /\ x.op \in Op
      /\ x.key \subseteq Socket /\ x.list \subseteq Socket \cup User
  BY <1>1, <1>3, SlotFacts
<1>5. GoodCommand(h, x) /\ GoodReply(h, x)
  BY <1>1, <1>3 DEF Line
<1> QED
  BY <1>3, <1>4, <1>5 DEF GoodCommand, GoodReply, Waits

LEMMA IssuedFacts ==
    ASSUME Typed, NEW h \in Server, NEW cmds \in Seq(Command), Issued(h, cmds)
    PROVE  /\ wire' \in [Server -> Seq(Command)] /\ wire'[h] = wire[h] \o cmds
           /\ \A g \in Server : g # h => wire'[g] = wire[g]
<1>1. wire[h] \in Seq(Command) /\ wire \in [Server -> Seq(Command)]
  BY DEF Typed
<1>2. wire[h] \o cmds \in Seq(Command)
  BY <1>1, CatFacts
<1> QED
  BY <1>1, <1>2 DEF Issued

LEMMA IssueLines ==
    ASSUME Base, NEW h \in Server, NEW t, NEW cmds \in Seq(Command), Issued(h, cmds),
           inbox' = inbox, up' = up, Undisturbed(t), NewFor(h, t, cmds),
           t \in Task => task[t].pc \notin Op
    PROVE  Lines' /\ wire' \in [Server -> Seq(Command)] /\ inbox' \in [Server -> Seq(Response)]
<1>1. /\ wire' \in [Server -> Seq(Command)] /\ wire'[h] = wire[h] \o cmds
      /\ \A g \in Server : g # h => wire'[g] = wire[g]
  BY IssuedFacts DEF Base
<1>2. ASSUME NEW g \in Server, g # h PROVE Line(g)'
  <2>1. wire'[g] = wire[g] /\ inbox'[g] = inbox[g] /\ up'[g] = up[g]
    BY <1>1, <1>2
  <2> QED
    BY <2>1, ElsewhereLine
<1>3. Line(h)'
  <2>1. PICK m, f : Moved(h, m, f, cmds)
    BY <1>1, IssueMoves DEF Base
  <2>2. Typed /\ Line(h)
    BY DEF Base, Lines
  <2>3. \A i \in 1 .. m : f[i] \in Slots(h)
    BY <2>1 DEF Moved
  <2>4. \A i \in 1 .. m : Boxed(h, f[i]) => up'[h]
    BY <2>2, <2>3 DEF Line, GoodReply
  <2>5. \A i \in 1 .. m : Waits(h, f[i]) => Slot(h, f[i]).who # t
    BY <2>2, <2>3, SlotFacts DEF Line, GoodCommand, Waits
  <2> QED
    BY <2>1, <2>2, <2>4, <2>5, MovedLine
<1> QED
  BY <1>1, <1>2, <1>3 DEF Lines, Base, Typed

LEMMA HandleLines ==
    ASSUME Base, NEW h \in Server, inbox[h] # <<>>, NEW t, t = Head(inbox[h]).who,
           NEW cmds \in Seq(Command), Issued(h, cmds),
           inbox' = [inbox EXCEPT ![h] = Tail(@)], up' = up,
           Undisturbed(t), NewFor(h, t, cmds)
    PROVE  Lines' /\ wire' \in [Server -> Seq(Command)] /\ inbox' \in [Server -> Seq(Response)]
<1>1. /\ wire' \in [Server -> Seq(Command)] /\ wire'[h] = wire[h] \o cmds
      /\ \A g \in Server : g # h => wire'[g] = wire[g]
  BY IssuedFacts DEF Base
<1>a. inbox \in [Server -> Seq(Response)]
  BY DEF Base, Typed
<1>b. Tail(inbox[h]) \in Seq(Response)
  BY <1>a, TailFacts
<1>c. /\ inbox' \in [Server -> Seq(Response)] /\ inbox'[h] = Tail(inbox[h])
      /\ \A g \in Server : g # h => inbox'[g] = inbox[g]
  BY <1>a, <1>b
<1>d. t \in Task /\ Srv(t) = h
  BY HeadFacts
<1>2. ASSUME NEW g \in Server, g # h PROVE Line(g)'
  <2>1. wire'[g] = wire[g] /\ inbox'[g] = inbox[g] /\ up'[g] = up[g]
    BY <1>1, <1>c, <1>2
  <2> QED
    BY <1>2, <1>d, <2>1, ElsewhereLine
<1>3. Line(h)'
  <2>1. PICK m, f : Moved(h, m, f, cmds) /\ \A i \in 1 .. m : f[i] # 1
    BY <1>1, <1>c, HandleMoves DEF Base
  <2>2. Typed /\ Line(h)
    BY DEF Base, Lines
  <2>3. \A i \in 1 .. m : f[i] \in Slots(h)
    BY <2>1 DEF Moved
  <2>4. \A i \in 1 .. m : Boxed(h, f[i]) => up'[h]
    BY <2>2, <2>3 DEF Line, GoodReply
  <2>5. 1 \in Slots(h) /\ Waits(h, 1) /\ Slot(h, 1).who = t
    BY HeadFacts
  <2>6. \A i \in 1 .. m : Waits(h, f[i]) => Slot(h, f[i]).who # t
    BY <2>1, <2>2, <2>3, <2>5 DEF Line
  <2> QED
    BY <2>1, <2>2, <2>4, <2>6, MovedLine
<1> QED
  BY <1>1, <1>c, <1>2, <1>3 DEF Lines

\* What a step of chain t does to the lookups that are to go on.
Turned(t) ==
    \/ ready' = ready /\ (t \in Task => task[t].pc # "ready")
    \/ \E h \in Server : /\ t \in Task /\ task[t].pc # "ready" /\ task'[t].pc = "ready"
                         /\ Srv(t)' = h /\ ready' = [ready EXCEPT ![h] = Append(@, t)]
    \/ \E h \in Server : \E i \in 1 .. Len(ready[h]) :
          t = ready[h][i] /\ ready' = [ready EXCEPT ![h] = RemoveAt(@, i)]

LEMMA NoTurn ==
    ASSUME NEW t, ready' = ready, t \in Task => task[t].pc # "ready"
    PROVE  Turned(t)
BY DEF Turned

\* A step of at most one chain, which does not undo what it has done.
Steady == \E t : /\ Undisturbed(t)
                 /\ t \in Task => t[2] = Main \/ task[t].pc # "done"
                 /\ Turned(t)

\* What the sends have done stays done.
LEMMA SendsGrow ==
    ASSUME NEW t, Undisturbed(t),
           t \in Task => t[2] = Main \/ task[t].pc # "done"
    PROVE  \A s : \A u \in Sends(s) : u \in Sends(s)' /\ Settled(u)
<1> SUFFICES ASSUME NEW s, NEW u \in Sends(s) PROVE u \in Sends(s)' /\ Settled(u)
  OBVIOUS
<1>1. u \in Task /\ u[2] # Main /\ task[u].pc = "done" /\ s \in Sessions(Addressee(u))
  BY DEF Sends
<1>2. u # t
  BY <1>1
<1>3. Settled(u)
  BY <1>1, <1>2 DEF Undisturbed
<1>4. Sessions(Addressee(u))' = Sessions(Addressee(u)) /\ task'[u] = task[u]
  BY <1>3, SettledFacts DEF Settled
<1> QED
  BY <1>1, <1>3, <1>4 DEF Sends

\* Relays already under way.
LEMMA NetStays ==
    ASSUME Typed, Relayed, NEW t, Undisturbed(t),
           t \in Task => t[2] = Main \/ task[t].pc # "done"
    PROVE  \A m \in net : m[1] \in Sends(m[2])' /\ Home[m[2]] # Srv(m[1])'
<1> SUFFICES ASSUME NEW m \in net PROVE m[1] \in Sends(m[2])' /\ Home[m[2]] # Srv(m[1])'
  OBVIOUS
<1>1. m[1] \in Sends(m[2])' /\ Settled(m[1])
  BY SendsGrow DEF Relayed
<1>2. Srv(m[1])' = Srv(m[1]) /\ Home[m[2]] # Srv(m[1])
  BY <1>1, SettledFacts DEF Typed
<1> QED
  BY <1>1, <1>2

-----------------------------------------------------------------------------
(* Redis.                                                                  *)

LEMMA NotTask == <<>> \notin Task
BY DEF Task

LEMMA ReplyFacts ==
    ASSUME Base, NEW c \in Command
    PROVE  /\ Reply(c) \in Response
           /\ Reply(c).op = c.op /\ Reply(c).who = c.who /\ Reply(c).key = c.key
           /\ c.op = "keys" => Reply(c).list = hash \cap Sessions(Addressee(c.who))
           /\ c.op = "hgetall" => Reply(c).list = hash \cap c.key
           /\ c.op = "smembers" => Reply(c).list = members
<1>1. hash \subseteq Socket /\ members \subseteq User
  BY DEF Base, Typed
<1>2. Answer(c) \in SUBSET (Socket \cup User)
  BY <1>1 DEF Answer, Sessions
<1>3. Reply(c) = [op |-> c.op, who |-> c.who, key |-> c.key, list |-> Answer(c)]
  BY DEF Reply
<1>4. c.op \in Op /\ c.who \in Task /\ c.key \in SUBSET Socket
  BY DEF Command
<1>5. Reply(c) \in Response
  BY <1>2, <1>3, <1>4 DEF Response
<1>6. Reply(c).op = c.op /\ Reply(c).who = c.who /\ Reply(c).key = c.key /\ Reply(c).list = Answer(c)
  BY <1>3
<1> QED
  BY <1>5, <1>6 DEF Answer

\* What Exec does to the queues: the command at place a leaves the line, if nobody
\* waits for its reply.
Drops(h, c, m, f, a) ==
    /\ Moved(h, m, f, <<>>) /\ a \in Slots(h) /\ ~Boxed(h, a) /\ Slot(h, a) = c
    /\ \A i \in 1 .. m : f[i] # a

LEMMA ExecQueues ==
    ASSUME Base, NEW h \in Server, Exec(h)
    PROVE  \E c \in Command :
              /\ c = Head(wire[h]) /\ wire[h] # <<>> /\ Effect(c) /\ Leaves(c)
              /\ wire' \in [Server -> Seq(Command)] /\ inbox' \in [Server -> Seq(Response)]
              /\ \A g \in Server : g # h => wire'[g] = wire[g] /\ inbox'[g] = inbox[g]
              /\ \/ Awaited(h, c) /\ \E a : Answers(h, a, Reply(c))
                 \/ ~Awaited(h, c) /\ \E m, f, a : Drops(h, c, m, f, a)
              /\ UNCHANGED <<sockVars, turnVars, noticeId, origin, task, net, got, closes>>
<1>1. /\ wire[h] # <<>> /\ wire \in [Server -> Seq(Command)] /\ inbox \in [Server -> Seq(Response)]
      /\ wire[h] \in Seq(Command) /\ inbox[h] \in Seq(Response) /\ Typed
  BY DEF Exec, Base, Typed
<1>2. PICK c \in Command : c = Head(wire[h])
  BY <1>1, TailFacts
<1>3. /\ Effect(c) /\ Leaves(c) /\ wire' = [wire EXCEPT ![h] = Tail(@)]
      /\ inbox' = [inbox EXCEPT ![h] = IF Awaited(h, c) THEN Append(@, Reply(c)) ELSE @]
      /\ UNCHANGED <<sockVars, turnVars, noticeId, origin, task, net, got, closes>>
  BY <1>2 DEF Exec
<1>4. Reply(c) \in Response
  BY ReplyFacts
<1>5. Tail(wire[h]) \in Seq(Command) /\ Append(inbox[h], Reply(c)) \in Seq(Response)
  BY <1>1, <1>4, TailFacts, AppendFacts
<1>6. /\ wire' \in [Server -> Seq(Command)] /\ inbox' \in [Server -> Seq(Response)]
      /\ wire'[h] = Tail(wire[h])
      /\ inbox'[h] = IF Awaited(h, c) THEN Append(inbox[h], Reply(c)) ELSE inbox[h]
      /\ \A g \in Server : g # h => wire'[g] = wire[g] /\ inbox'[g] = inbox[g]
  BY <1>1, <1>3, <1>5
<1>7. CASE Awaited(h, c)
  <2>1. \E a : Answers(h, a, Reply(c))
    BY <1>1, <1>4, <1>6, <1>7, ExecAnswers
  <2> QED
    BY <1>1, <1>2, <1>3, <1>6, <1>7, <2>1
<1>8. CASE ~Awaited(h, c)
  <2>0. wire'[h] = Tail(wire[h]) /\ inbox'[h] = inbox[h]
    BY <1>6, <1>8
  <2>a. PICK m, f, a : /\ Moved(h, m, f, <<>>) /\ a \in Slots(h) /\ ~Boxed(h, a)
                       /\ Slot(h, a) = Head(wire[h]) /\ \A i \in 1 .. m : f[i] # a
    BY <1>1, <2>0, DropMoves
  <2>b. Drops(h, c, m, f, a)
    BY <1>2, <2>a DEF Drops
  <2>1. \E n, k, b : Drops(h, c, n, k, b)
    BY <2>b
  <2> QED
    BY <1>1, <1>2, <1>3, <1>6, <1>8, <2>1
<1> QED
  BY <1>7, <1>8

LEMMA AnswersLine ==
    ASSUME Base, NEW h \in Server, NEW c \in Command, c = Head(wire[h]), Awaited(h, c),
           NEW a, Answers(h, a, Reply(c)), task' = task, origin' = origin, up' = up
    PROVE  Line(h)'
<1>1. Typed /\ Line(h)
  BY DEF Base, Lines
<1>2. /\ Slots(h)' = Slots(h) /\ a \in Slots(h) /\ ~Boxed(h, a) /\ Slot(h, a) = c
      /\ Slot(h, a)' = Reply(c) /\ Boxed(h, a)'
      /\ \A n \in Slots(h) : n # a =>
            Slot(h, n)' = Slot(h, n) /\ (Boxed(h, n)' <=> Boxed(h, n))
  BY DEF Answers
<1>3. GoodCommand(h, c)
  BY <1>1, <1>2 DEF Line
<1>a. \A u : Settled(u)
  BY DEF Settled
<1>4. ASSUME NEW x, GoodCommand(h, x) PROVE GoodCommand(h, x)'
  BY <1>a, <1>4, EntryStays
<1>5. ASSUME NEW x, GoodReply(h, x) PROVE GoodReply(h, x)'
  <2>1. up'[h]
    BY <1>5 DEF GoodReply
  <2> QED
    BY <1>a, <1>5, <2>1, ReplyStays
<1>6. PICK y : /\ y = Reply(c) /\ y.op = c.op /\ y.who = c.who /\ y.key = c.key
               /\ c.op = "keys" => y.list = hash \cap Sessions(Addressee(c.who))
               /\ c.op = "hgetall" => y.list = hash \cap c.key
               /\ c.op = "smembers" => y.list = members
  BY ReplyFacts
<1>7. GoodCommand(h, y) /\ GoodReply(h, y)
  <2>1. GoodCommand(h, y)
    BY <1>3, <1>6 DEF GoodCommand
  <2>2. members \subseteq Used
    BY DEF Base
  <2>3. GoodReply(h, y)
    BY <1>6, <2>2 DEF GoodReply, Awaited
  <2> QED
    BY <2>1, <2>3
<1>8. ASSUME NEW n \in Slots(h)'
      PROVE  GoodCommand(h, Slot(h, n))' /\ (Boxed(h, n)' => GoodReply(h, Slot(h, n))')
  <2>1. CASE n = a
    <3>1. Slot(h, n)' = y
      BY <1>2, <1>6, <2>1
    <3>2. GoodCommand(h, y)' /\ GoodReply(h, y)'
      BY <1>4, <1>5, <1>7
    <3> QED
      BY <3>1, <3>2
  <2>2. CASE n # a
    <3>1. PICK x : x = Slot(h, n) /\ x = Slot(h, n)' /\ (Boxed(h, n)' <=> Boxed(h, n))
      BY <1>2, <2>2
    <3>2. GoodCommand(h, x) /\ (Boxed(h, n) => GoodReply(h, x))
      BY <1>1, <1>2, <3>1 DEF Line
    <3>3. GoodCommand(h, x)' /\ (Boxed(h, n) => GoodReply(h, x)')
      BY <1>4, <1>5, <3>2
    <3> QED
      BY <3>1, <3>3
  <2> QED
    BY <2>1, <2>2
<1>9. \A n \in Slots(h) : Slot(h, n)'.op = Slot(h, n).op /\ Slot(h, n)'.who = Slot(h, n).who
  BY <1>2, <1>6
<1>10. \A m, n \in Slots(h)' :
         Waits(h, m)' /\ Waits(h, n)' /\ Slot(h, m)'.who = Slot(h, n)'.who => m = n
  BY <1>1, <1>2, <1>9 DEF Line, Waits
<1> QED
  BY <1>8, <1>10 DEF Line

LEMMA ExecBase ==
    ASSUME Base, NEW h \in Server, Exec(h)
    PROVE  Base' /\ Steady
<1>1. PICK c \in Command :
        /\ c = Head(wire[h]) /\ Effect(c)
        /\ wire' \in [Server -> Seq(Command)] /\ inbox' \in [Server -> Seq(Response)]
        /\ \A g \in Server : g # h => wire'[g] = wire[g] /\ inbox'[g] = inbox[g]
        /\ \/ Awaited(h, c) /\ \E a : Answers(h, a, Reply(c))
           \/ ~Awaited(h, c) /\ \E m, f, a : Drops(h, c, m, f, a)
        /\ UNCHANGED <<sockVars, turnVars, noticeId, origin, task, net, got, closes>>
  BY ExecQueues
<1>2. /\ up' = up /\ ws' = ws /\ reg' = reg /\ ctxRoom' = ctxRoom /\ noticeId' = noticeId
      /\ origin' = origin /\ task' = task /\ net' = net /\ got' = got /\ closes' = closes
      /\ ready' = ready
  BY <1>1 DEF sockVars, turnVars
<1>3. Undisturbed(<<>>) /\ \A u : Settled(u)
  BY <1>2 DEF Undisturbed, Settled
<1>4. Typed /\ Line(h)
  BY DEF Base, Lines
<1>5. ASSUME NEW g \in Server, g # h PROVE Line(g)'
  BY <1>1, <1>2, <1>3, <1>5, NotTask, ElsewhereLine
<1>6. Line(h)'
  <2>1. CASE Awaited(h, c)
    <3>1. PICK a : Answers(h, a, Reply(c))
      BY <1>1, <2>1
    <3> QED
      BY <1>1, <1>2, <2>1, <3>1, AnswersLine
  <2>2. CASE ~Awaited(h, c)
    <3>1. PICK m, f : Moved(h, m, f, <<>>)
      BY <1>1, <2>2 DEF Drops
    <3>2. \A i \in 1 .. m : f[i] \in Slots(h)
      BY <3>1 DEF Moved
    <3>3. \A i \in 1 .. m : Boxed(h, f[i]) => up'[h]
      BY <1>2, <1>4, <3>2 DEF Line, GoodReply
    <3>4. \A i \in 1 .. m : Slot(h, f[i]).who # <<>>
      BY <1>4, <3>2, NotTask, SlotFacts
    <3>5. NewFor(h, <<>>, <<>>)
      BY DEF NewFor
    <3> QED
      BY <1>3, <1>4, <3>1, <3>3, <3>4, <3>5, MovedLine
  <2> QED
    BY <2>1, <2>2
<1>7. hash' \subseteq Socket /\ members' \subseteq Used /\ members' \subseteq User
  <2>1. c.key \subseteq Socket
    BY DEF Command
  <2>2. {UserOf[s] : s \in c.key} \subseteq Used /\ Used \subseteq User
    BY <2>1, NoticeAssumption DEF Used
  <2>3. hash' \subseteq hash \cup c.key /\ members' \subseteq members \cup {UserOf[s] : s \in c.key}
    BY <1>1 DEF Effect
  <2> QED
    BY <2>1, <2>2, <2>3 DEF Base, Typed
<1>8. \A m \in net : m[1] \in Sends(m[2])' /\ Home[m[2]] # Srv(m[1])'
  BY <1>2 DEF Base, Typed, Relayed, Sends, Sessions, Addressee, Srv
<1>9. Typed' /\ Relayed'
  BY <1>1, <1>2, <1>4, <1>7, <1>8 DEF Typed, Relayed
<1>10. Origins' /\ (\A r \in Origin : Chain(r)')
  BY <1>2 DEF Base, Origins, Chain, MainPc
<1>11. \A t \in Task : Lookup(t)'
  BY <1>2, LookupStays DEF Base
<1>12. Steady
  BY <1>2, <1>3, NotTask, NoTurn DEF Steady
<1> QED
  BY <1>5, <1>6, <1>7, <1>9, <1>10, <1>11, <1>12 DEF Base, Lines

-----------------------------------------------------------------------------
(* Requests and connections.                                               *)

LEMMA AskerOf ==
    ASSUME NEW s, NEW o, o.from = {s}
    PROVE  Asker(o) = s
BY DEF Asker

LEMMA OneCommand ==
    ASSUME NEW h, NEW t \in Task, NEW op \in Op, NEW K \in SUBSET Socket,
           GoodCommand(h, Cmd(op, t, K))'
    PROVE  NewFor(h, t, <<Cmd(op, t, K)>>) /\ <<Cmd(op, t, K)>> \in Seq(Command)
<1>1. /\ <<Cmd(op, t, K)>> \in Seq(Command) /\ Len(<<Cmd(op, t, K)>>) = 1
      /\ <<Cmd(op, t, K)>>[1] = Cmd(op, t, K) /\ Cmd(op, t, K).who = t
  BY CmdType
<1>2. PICK q : q = <<Cmd(op, t, K)>>
  OBVIOUS
<1>3. \A i \in 1 .. Len(q) : i = 1 /\ q[i] = Cmd(op, t, K)
  BY <1>1, <1>2
<1>4. NewFor(h, t, q)
  BY <1>1, <1>3 DEF NewFor
<1> QED
  BY <1>1, <1>2, <1>4

\* The parameters that Begin is called with.
Asks(kind, to, op) ==
    \/ kind = "msg" /\ op = "keys" /\ \E u \in User : to = {u}
    \/ kind \in {"in", "cast"} /\ op = "exists" /\ to = {}

\* What Begin does, r the request.
Begins(s, kind, to, op, r) ==
    /\ r \in Origin /\ r \notin Socket /\ <<r, Main>> \in Task
    /\ op \in Op /\ op \notin {"del", "hmset", "hgetall"}
    /\ origin[r] = NoOrigin /\ s \in reg /\ ws[s] = "open"
    /\ \A q \in 1 .. r - 1 : origin[q] # NoOrigin
    /\ origin' \in [Origin -> [kind : Kind, from : SUBSET Socket, to : SUBSET User]]
    /\ origin'[r] = [kind |-> kind, from |-> {s}, to |-> to]
    /\ \A q \in Origin : q # r => origin'[q] = origin[q]
    /\ task' \in [Task -> TaskRec]
    /\ task'[<<r, Main>>].pc = op
    /\ task'[<<r, Main>>].left = task[<<r, Main>>].left
    /\ task'[<<r, Main>>].found = task[<<r, Main>>].found
    /\ \A u \in Task : u # <<r, Main>> => task'[u] = task[u]
    /\ \A k \in {Main} \cup Copy \cup User :
          /\ <<r, k>> \in Task /\ task[<<r, k>>].pc = "idle"
          /\ task[<<r, k>>].left = {} /\ task[<<r, k>>].found = {}
    /\ Undisturbed(<<r, Main>>)
    /\ Issued(Home[s], <<Cmd(op, <<r, Main>>, {})>>)
    /\ UNCHANGED <<redisVars, sockVars, turnVars, noticeId, inbox, net, got, closes>>

LEMMA BeginFacts ==
    ASSUME Base, NEW s \in Socket, NEW kind, NEW to, NEW op, Asks(kind, to, op),
           Begin(s, kind, to, op)
    PROVE  \E r \in 1 .. MaxRequest : Begins(s, kind, to, op, r)
<1>1. PICK r \in 1 .. MaxRequest :
        /\ origin[r] = NoOrigin /\ s \in reg /\ ws[s] = "open"
        /\ \A q \in 1 .. r - 1 : origin[q] # NoOrigin
        /\ origin' = [origin EXCEPT ![r] = [kind |-> kind, from |-> {s}, to |-> to]]
        /\ task' = [task EXCEPT ![<<r, Main>>].pc = op]
        /\ Issued(Home[s], <<Cmd(op, <<r, Main>>, {})>>)
        /\ UNCHANGED <<redisVars, sockVars, turnVars, noticeId, inbox, net, got, closes>>
  BY DEF Begin
<1>2. /\ r \in Origin /\ r \notin Socket /\ <<r, Main>> \in Task
      /\ \A k \in {Main} \cup Copy \cup User : <<r, k>> \in Task
  BY TaskFacts
<1>3. op \in Op /\ op \notin {"del", "hmset", "hgetall"} /\ kind \in Kind /\ to \in SUBSET User
  BY DEF Asks, Op, Kind
<1>4. [kind |-> kind, from |-> {s}, to |-> to] \in [kind : Kind, from : SUBSET Socket, to : SUBSET User]
  BY <1>3
<1>5. /\ origin' \in [Origin -> [kind : Kind, from : SUBSET Socket, to : SUBSET User]]
      /\ origin'[r] = [kind |-> kind, from |-> {s}, to |-> to]
      /\ \A q \in Origin : q # r => origin'[q] = origin[q]
  BY <1>1, <1>2, <1>4 DEF Base, Typed
<1>6. /\ task' \in [Task -> TaskRec] /\ task'[<<r, Main>>].pc = op
      /\ task'[<<r, Main>>].left = task[<<r, Main>>].left
      /\ task'[<<r, Main>>].found = task[<<r, Main>>].found
      /\ \A u \in Task : u # <<r, Main>> => task'[u] = task[u]
  BY <1>1, <1>2, <1>3, SetPc DEF Base
<1>7. ASSUME NEW k \in {Main} \cup Copy \cup User
      PROVE  /\ task[<<r, k>>].pc = "idle"
             /\ task[<<r, k>>].left = {} /\ task[<<r, k>>].found = {}
  <2>1. Chain(r) /\ Lookup(<<r, k>>)
    BY <1>2 DEF Base
  <2>2. task[<<r, k>>].pc = "idle"
    BY <1>1, <1>2, <2>1 DEF Chain, MainPc
  <2> QED
    BY <2>1, <2>2 DEF Lookup
<1>8. Undisturbed(<<r, Main>>)
  <2> SUFFICES ASSUME NEW u \in Task, u # <<r, Main>>, task[u].pc # "idle" PROVE Settled(u)
    BY DEF Undisturbed
  <2>1. u[1] # r
    BY <1>7, TaskFacts
  <2> QED
    BY <1>5, <1>6, <2>1, TaskFacts DEF Settled
<1> QED
  BY <1>1, <1>2, <1>3, <1>5, <1>6, <1>7, <1>8 DEF Begins

LEMMA BeginBase ==
    ASSUME Base, NEW s \in Socket, NEW kind, NEW to, NEW op, Asks(kind, to, op),
           Begin(s, kind, to, op)
    PROVE  Base' /\ Steady
<1>0. PICK r \in 1 .. MaxRequest : Begins(s, kind, to, op, r)
  BY BeginFacts
<1>1. /\ r \in Origin /\ r \notin Socket /\ <<r, Main>> \in Task
      /\ op \in Op /\ op \notin {"del", "hmset", "hgetall"}
      /\ origin[r] = NoOrigin
      /\ origin' \in [Origin -> [kind : Kind, from : SUBSET Socket, to : SUBSET User]]
      /\ origin'[r] = [kind |-> kind, from |-> {s}, to |-> to]
      /\ \A q \in Origin : q # r => origin'[q] = origin[q]
      /\ task' \in [Task -> TaskRec]
      /\ task'[<<r, Main>>].pc = op
      /\ task'[<<r, Main>>].left = task[<<r, Main>>].left
      /\ task'[<<r, Main>>].found = task[<<r, Main>>].found
      /\ \A u \in Task : u # <<r, Main>> => task'[u] = task[u]
      /\ \A k \in {Main} \cup Copy \cup User :
            /\ <<r, k>> \in Task /\ task[<<r, k>>].pc = "idle"
            /\ task[<<r, k>>].left = {} /\ task[<<r, k>>].found = {}
      /\ Undisturbed(<<r, Main>>)
      /\ Issued(Home[s], <<Cmd(op, <<r, Main>>, {})>>)
      /\ UNCHANGED <<redisVars, sockVars, turnVars, noticeId, inbox, net, got, closes>>
  BY <1>0 DEF Begins
<1>2. /\ hash' = hash /\ members' = members /\ up' = up /\ ws' = ws /\ reg' = reg
      /\ ctxRoom' = ctxRoom /\ noticeId' = noticeId /\ inbox' = inbox /\ net' = net
      /\ got' = got /\ closes' = closes /\ ready' = ready
  BY <1>1 DEF redisVars, sockVars, turnVars
<1>3. Srv(<<r, Main>>)' = Home[s]
  <2>1. PICK o : o = [kind |-> kind, from |-> {s}, to |-> to] /\ origin'[r] = o
    BY <1>1
  <2>2. o.from = {s}
    BY <2>1
  <2>3. Asker(o) = s
    BY <2>2, AskerOf
  <2>4. <<r, Main>>[1] = r /\ r \notin Socket
    BY <1>1
  <2> QED
    BY <2>1, <2>3, <2>4 DEF Srv
<1>4. GoodCommand(Home[s], Cmd(op, <<r, Main>>, {}))'
  BY <1>1, <1>3, CmdType DEF GoodCommand
<1>5. Home[s] \in Server
  BY NoticeAssumption
<1>6. /\ NewFor(Home[s], <<r, Main>>, <<Cmd(op, <<r, Main>>, {})>>)
      /\ <<Cmd(op, <<r, Main>>, {})>> \in Seq(Command)
  BY <1>1, <1>4, OneCommand
<1>7. task[<<r, Main>>].pc \notin Op
  BY <1>1 DEF Op
<1>8. Lines' /\ wire' \in [Server -> Seq(Command)] /\ inbox' \in [Server -> Seq(Response)]
  BY <1>1, <1>2, <1>5, <1>6, <1>7, IssueLines
<1>9. \A m \in net : m[1] \in Sends(m[2])' /\ Home[m[2]] # Srv(m[1])'
  BY <1>1, NetStays DEF Base
<1>10. Typed' /\ Relayed' /\ members' \subseteq Used
  BY <1>1, <1>2, <1>8, <1>9 DEF Base, Typed, Relayed, TaskRec
<1>11. Origins'
  <2>1. ASSUME NEW q \in 1 .. MaxRequest, origin'[q] # NoOrigin
        PROVE  /\ origin'[q].kind \in {"msg", "in", "cast"}
               /\ \E x \in Socket : origin'[q].from = {x}
               /\ IF origin'[q].kind = "msg" THEN \E u \in User : origin'[q].to = {u}
                                             ELSE origin'[q].to = {}
    <3>1. CASE q = r
      BY <1>1, <3>1 DEF Asks
    <3>2. CASE q # r
      <4>1. origin'[q] = origin[q]
        BY <1>1, <3>2, TaskFacts
      <4> QED
        BY <2>1, <4>1 DEF Base, Origins
    <3> QED
      BY <3>1, <3>2
  <2>2. \A x \in Socket : origin'[x] = origin[x]
    BY <1>1, TaskFacts
  <2> QED
    BY <1>2, <2>1, <2>2 DEF Base, Origins
<1>12. ASSUME NEW q \in Origin PROVE Chain(q)'
  <2>1. CASE q # r
    <3>1. \A k \in {Main} \cup Copy \cup User : task'[<<q, k>>] = task[<<q, k>>]
      BY <1>1, <2>1, TaskFacts
    <3> QED
      BY <1>1, <1>2, <2>1, <3>1, ChainStays DEF Base
  <2>2. CASE q = r
    <3>1. \A k \in Copy \cup User : task'[<<r, k>>].pc = "idle"
      BY <1>1, TaskFacts
    <3>2. op \in MainPc(r)'
      BY <1>1 DEF MainPc, NoOrigin, Asks
    <3> QED
      BY <1>1, <2>2, <3>1, <3>2 DEF Chain
  <2> QED
    BY <2>1, <2>2
<1>13. ASSUME NEW t \in Task PROVE Lookup(t)'
  <2>1. CASE t[1] = r
    <3>1. PICK k \in {Main} \cup Copy \cup User : t = <<r, k>>
      BY <2>1, TaskFacts
    <3>2. task'[t].left = {} /\ task'[t].found = {}
      BY <1>1, <3>1
    <3> QED
      BY <3>2, LookupEmpty
  <2>2. CASE t[1] # r
    <3>1. task'[t] = task[t] /\ origin'[t[1]] = origin[t[1]]
      BY <1>1, <2>2, TaskFacts
    <3> QED
      BY <3>1, LookupStays DEF Base
  <2> QED
    BY <2>1, <2>2
<1>14. Steady
  <2>1. <<r, Main>>[2] = Main
    OBVIOUS
  <2>2. Turned(<<r, Main>>)
    BY <1>1, <1>2, NoTurn
  <2> QED
    BY <1>1, <2>1, <2>2 DEF Steady
<1> QED
  BY <1>8, <1>10, <1>11, <1>12, <1>13, <1>14 DEF Base

LEMMA LoginBase ==
    ASSUME Base, NEW s \in Socket, Login(s)
    PROVE  Base' /\ Steady
<1>1. /\ ws[s] = "open" /\ s \notin Early /\ task[<<s, Main>>].pc = "idle"
      /\ task' = [task EXCEPT ![<<s, Main>>].pc = "hmset"]
      /\ Issued(Home[s], <<Cmd("hmset", <<s, Main>>, {s})>>)
      /\ hash' = hash /\ members' = members /\ up' = up /\ ws' = ws /\ reg' = reg
      /\ ctxRoom' = ctxRoom /\ noticeId' = noticeId /\ origin' = origin /\ inbox' = inbox
      /\ net' = net /\ got' = got /\ closes' = closes /\ ready' = ready
  BY DEF Login, redisVars, sockVars, turnVars
<1>2. s \in Origin /\ <<s, Main>> \in Task /\ "hmset" \in Op /\ Home[s] \in Server
  BY TaskFacts, NoticeAssumption DEF Op
<1>3. /\ task' \in [Task -> TaskRec] /\ task'[<<s, Main>>].pc = "hmset"
      /\ task'[<<s, Main>>].left = task[<<s, Main>>].left
      /\ task'[<<s, Main>>].found = task[<<s, Main>>].found
      /\ \A u \in Task : u # <<s, Main>> => task'[u] = task[u]
  BY <1>1, <1>2, SetPc DEF Base
<1>4. Undisturbed(<<s, Main>>)
  BY <1>1, <1>3 DEF Undisturbed, Settled
<1>5. GoodCommand(Home[s], Cmd("hmset", <<s, Main>>, {s}))'
  BY <1>1, <1>2, <1>3, CmdType DEF GoodCommand, Srv
<1>6. /\ NewFor(Home[s], <<s, Main>>, <<Cmd("hmset", <<s, Main>>, {s})>>)
      /\ <<Cmd("hmset", <<s, Main>>, {s})>> \in Seq(Command)
  BY <1>2, <1>5, OneCommand
<1>7. Lines' /\ wire' \in [Server -> Seq(Command)] /\ inbox' \in [Server -> Seq(Response)]
  BY <1>1, <1>2, <1>4, <1>6, IssueLines DEF Op
<1>8. \A m \in net : m[1] \in Sends(m[2])' /\ Home[m[2]] # Srv(m[1])'
  BY <1>4, NetStays DEF Base
<1>9. Typed' /\ Relayed' /\ members' \subseteq Used /\ Origins'
  BY <1>1, <1>3, <1>7, <1>8 DEF Base, Typed, Relayed, TaskRec, Origins
<1>10. ASSUME NEW q \in Origin PROVE Chain(q)'
  <2>1. CASE q # s
    <3>1. \A k \in {Main} \cup Copy \cup User : task'[<<q, k>>] = task[<<q, k>>]
      BY <1>3, <2>1, TaskFacts
    <3> QED
      BY <1>1, <2>1, <3>1, ChainStays DEF Base
  <2>2. CASE q = s
    <3>1. \A k \in Copy \cup User : task'[<<s, k>>] = task[<<s, k>>]
      BY <1>2, <1>3, TaskFacts
    <3>2. origin[s] = NoOrigin
      BY <1>1 DEF Base, Origins
    <3>3. Chain(s)
      BY <1>2 DEF Base
    <3>4. s \notin reg
      BY <1>1, <3>3 DEF Chain
    <3>5. MainPc(s)' = {"idle", "hmset", "done"}
      BY <1>1, <3>2 DEF MainPc
    <3>6. \A k \in Copy \cup User : task'[<<s, k>>].pc = "idle"
      BY <3>1, <3>2, <3>3 DEF Chain
    <3> QED
      BY <1>1, <1>3, <2>2, <3>4, <3>5, <3>6 DEF Chain
  <2> QED
    BY <2>1, <2>2
<1>11. ASSUME NEW t \in Task PROVE Lookup(t)'
  BY <1>1, <1>3, LookupStays DEF Base
<1>12. Steady
  <2>1. <<s, Main>>[2] = Main
    OBVIOUS
  <2>2. Turned(<<s, Main>>)
    BY <1>1, NoTurn
  <2> QED
    BY <1>4, <2>1, <2>2 DEF Steady
<1> QED
  BY <1>7, <1>9, <1>10, <1>11, <1>12 DEF Base

\* A step that touches no chain and no queue.
LEMMA QuietBase ==
    ASSUME Base, task' = task, origin' = origin, wire' = wire, inbox' = inbox, up' = up,
           ready' = ready, members' = members, reg' = reg, net' \subseteq net,
           hash' = hash, ctxRoom' = ctxRoom, closes' \in 0 .. MaxClose,
           ws' \in [Socket -> {"open", "closing", "closed", "dead"}],
           noticeId' \in [Socket -> Nat],
           got' \in [Socket -> Seq([id : Nat, about : Origin])],
           \A s \in Socket : ws'[s] = ws[s] \/ (ws[s] = "open" /\ ws'[s] = "closing")
    PROVE  Base' /\ Steady
<1>1. Undisturbed(<<>>)
  BY DEF Undisturbed, Settled
<1>2. ASSUME NEW g \in Server PROVE Line(g)'
  BY <1>1, NotTask, ElsewhereLine
<1>3. \A m \in net : m[1] \in Sends(m[2])' /\ Home[m[2]] # Srv(m[1])'
  BY DEF Base, Typed, Relayed, Sends, Sessions, Addressee, Srv
<1>4. Typed' /\ Relayed' /\ members' \subseteq Used
  BY <1>3 DEF Base, Typed, Relayed
<1>5. Origins'
  BY DEF Base, Origins
<1>6. ASSUME NEW r \in Origin PROVE Chain(r)'
  <2>1. Chain(r) /\ reg \subseteq Socket
    BY DEF Base, Typed
  <2> QED
    BY <2>1, ChainStays
<1>7. ASSUME NEW t \in Task PROVE Lookup(t)'
  BY LookupStays DEF Base
<1>8. Steady
  BY <1>1, NotTask, NoTurn DEF Steady
<1> QED
  BY <1>2, <1>4, <1>5, <1>6, <1>7, <1>8 DEF Base, Lines

LEMMA ClientCloseBase ==
    ASSUME Base, NEW s \in Socket, ClientClose(s)
    PROVE  Base' /\ Steady
<1>1. /\ ws[s] = "open" /\ closes < MaxClose /\ ws' = [ws EXCEPT ![s] = "closing"]
      /\ closes' = closes + 1
      /\ hash' = hash /\ members' = members /\ up' = up /\ reg' = reg /\ ctxRoom' = ctxRoom
      /\ noticeId' = noticeId /\ origin' = origin /\ task' = task /\ wire' = wire
      /\ inbox' = inbox /\ net' = net /\ got' = got /\ ready' = ready
  BY DEF ClientClose, redisVars, turnVars
<1>2. Typed
  BY DEF Base
<1>3. closes' \in 0 .. MaxClose
  BY <1>1, <1>2, NoticeAssumption DEF Typed
<1>4. /\ ws' \in [Socket -> {"open", "closing", "closed", "dead"}]
      /\ \A x \in Socket : ws'[x] = ws[x] \/ (ws[x] = "open" /\ ws'[x] = "closing")
  BY <1>1, <1>2 DEF Typed
<1>5. noticeId' \in [Socket -> Nat] /\ got' \in [Socket -> Seq([id : Nat, about : Origin])]
  BY <1>1, <1>2 DEF Typed
<1> QED
  BY <1>1, <1>3, <1>4, <1>5, QuietBase

LEMMA RelayDropBase ==
    ASSUME Base, NEW m \in net, RelayDrop(m)
    PROVE  Base' /\ Steady
<1>1. /\ net' = net \ {m} /\ closes' = closes /\ ws' = ws
      /\ hash' = hash /\ members' = members /\ up' = up /\ reg' = reg /\ ctxRoom' = ctxRoom
      /\ noticeId' = noticeId /\ origin' = origin /\ task' = task /\ wire' = wire
      /\ inbox' = inbox /\ got' = got /\ ready' = ready
  BY DEF RelayDrop, redisVars, sockVars, turnVars
<1>2. /\ closes' \in 0 .. MaxClose /\ ws' \in [Socket -> {"open", "closing", "closed", "dead"}]
      /\ noticeId' \in [Socket -> Nat] /\ got' \in [Socket -> Seq([id : Nat, about : Origin])]
  BY <1>1 DEF Base, Typed
<1> QED
  BY <1>1, <1>2, QuietBase

\* A notice with the next number of s.
Numbered(s, r) == [id |-> noticeId[s], about |-> r]

LEMMA NumberedType ==
    ASSUME Typed, NEW s \in Socket, NEW r \in Origin
    PROVE  /\ Numbered(s, r) \in [id : Nat, about : Origin]
           /\ Numbered(s, r).id = noticeId[s] /\ Numbered(s, r).about = r
           /\ got[s] \in Seq([id : Nat, about : Origin]) /\ Len(got[s]) \in Nat
           /\ noticeId[s] \in Nat
           /\ Append(got[s], Numbered(s, r)) \in Seq([id : Nat, about : Origin])
<1>1. got[s] \in Seq([id : Nat, about : Origin]) /\ noticeId[s] \in Nat
  BY DEF Typed
<1>2. /\ Numbered(s, r) \in [id : Nat, about : Origin]
      /\ Numbered(s, r).id = noticeId[s] /\ Numbered(s, r).about = r
  BY <1>1 DEF Numbered
<1> QED
  BY <1>1, <1>2, AppendFacts

LEMMA RelaySendFacts ==
    ASSUME Base, NEW m \in net, RelaySend(m)
    PROVE  \E s \in Socket, t \in Task :
              /\ m = <<t, s>> /\ t \in Sends(s) /\ t[1] \in Origin
              /\ s \in reg /\ ws[s] = "open" /\ Home[s] # Srv(t)
              /\ got' \in [Socket -> Seq([id : Nat, about : Origin])]
              /\ got'[s] = Append(got[s], Numbered(s, t[1]))
              /\ noticeId' \in [Socket -> Nat] /\ noticeId'[s] = noticeId[s] + 1
              /\ \A x \in Socket : x # s => got'[x] = got[x] /\ noticeId'[x] = noticeId[x]
              /\ net' = net \ {m} /\ closes' = closes /\ ws' = ws
              /\ hash' = hash /\ members' = members /\ up' = up /\ reg' = reg
              /\ ctxRoom' = ctxRoom /\ origin' = origin /\ task' = task /\ wire' = wire
              /\ inbox' = inbox /\ ready' = ready
<1>1. Typed /\ m[1] \in Sends(m[2]) /\ Home[m[2]] # Srv(m[1])
  BY DEF Base, Typed, Relayed
<1>2. PICK t \in Task, s \in Socket : m = <<t, s>> /\ m[1] = t /\ m[2] = s
  BY <1>1 DEF Typed
<1>3. t[1] \in Origin
  BY TaskFacts
<1>4. /\ s \in reg /\ ws[s] = "open" /\ net' = net \ {m}
      /\ got' = [got EXCEPT ![s] = Append(got[s], Numbered(s, t[1]))]
      /\ noticeId' = [noticeId EXCEPT ![s] = noticeId[s] + 1]
  BY <1>2 DEF RelaySend, Numbered
<1>5. /\ closes' = closes /\ ws' = ws
      /\ hash' = hash /\ members' = members /\ up' = up /\ reg' = reg
      /\ ctxRoom' = ctxRoom /\ origin' = origin /\ task' = task /\ wire' = wire
      /\ inbox' = inbox /\ ready' = ready
  BY DEF RelaySend, redisVars, sockVars, turnVars
<1>6. Append(got[s], Numbered(s, t[1])) \in Seq([id : Nat, about : Origin])
  BY <1>1, <1>3, NumberedType
<1>7. /\ got' \in [Socket -> Seq([id : Nat, about : Origin])]
      /\ got'[s] = Append(got[s], Numbered(s, t[1]))
      /\ \A x \in Socket : x # s => got'[x] = got[x]
  BY <1>1, <1>4, <1>6 DEF Typed
<1>8. /\ noticeId' \in [Socket -> Nat] /\ noticeId'[s] = noticeId[s] + 1
      /\ \A x \in Socket : x # s => noticeId'[x] = noticeId[x]
  BY <1>1, <1>4 DEF Typed
<1> QED
  BY <1>1, <1>2, <1>3, <1>4, <1>5, <1>7, <1>8

LEMMA RelaySendBase ==
    ASSUME Base, NEW m \in net, RelaySend(m)
    PROVE  Base' /\ Steady
<1>1. /\ got' \in [Socket -> Seq([id : Nat, about : Origin])]
      /\ noticeId' \in [Socket -> Nat]
      /\ net' = net \ {m} /\ closes' = closes /\ ws' = ws
      /\ hash' = hash /\ members' = members /\ up' = up /\ reg' = reg
      /\ ctxRoom' = ctxRoom /\ origin' = origin /\ task' = task /\ wire' = wire
      /\ inbox' = inbox /\ ready' = ready
  BY RelaySendFacts
<1>2. closes' \in 0 .. MaxClose /\ ws' \in [Socket -> {"open", "closing", "closed", "dead"}]
  BY <1>1 DEF Base, Typed
<1> QED
  BY <1>1, <1>2, QuietBase

LEMMA RelayThrowBase ==
    ASSUME Base, NEW m \in net, RelayThrow(m)
    PROVE  Base' /\ Steady
<1>1. Typed /\ m[2] \in Socket
  BY DEF Base, Typed
<1>2. PICK h \in Server : h = Home[m[2]]
  BY <1>1, NoticeAssumption
<1>3. /\ up' = [up EXCEPT ![h] = FALSE]
      /\ ws' = [s \in Socket |-> IF Home[s] = h THEN "dead" ELSE ws[s]]
      /\ reg' = {s \in reg : Home[s] # h}
      /\ ctxRoom' = {s \in ctxRoom : Home[s] # h}
      /\ \E n \in 0 .. Len(wire[h]) : wire' = [wire EXCEPT ![h] = SubSeq(@, 1, n)]
      /\ inbox' = [inbox EXCEPT ![h] = <<>>]
      /\ net' \subseteq net
      /\ hash' = hash /\ members' = members /\ noticeId' = noticeId /\ origin' = origin
      /\ task' = task /\ got' = got /\ closes' = closes /\ ready' = ready
  BY <1>2 DEF RelayThrow, redisVars, turnVars
<1>4. PICK n \in 0 .. Len(wire[h]) : wire' = [wire EXCEPT ![h] = SubSeq(@, 1, n)]
  BY <1>3
<1>5. SubSeq(wire[h], 1, n) \in Seq(Command) /\ <<>> \in Seq(Response)
  BY <1>1, PrefixFacts DEF Typed
<1>6. /\ wire' \in [Server -> Seq(Command)] /\ wire'[h] = SubSeq(wire[h], 1, n)
      /\ inbox' \in [Server -> Seq(Response)] /\ inbox'[h] = <<>>
      /\ \A g \in Server : g # h => wire'[g] = wire[g] /\ inbox'[g] = inbox[g] /\ up'[g] = up[g]
  BY <1>1, <1>3, <1>4, <1>5 DEF Typed
<1>7. Undisturbed(<<>>)
  BY <1>3 DEF Undisturbed, Settled
<1>8. ASSUME NEW g \in Server, g # h PROVE Line(g)'
  BY <1>6, <1>7, <1>8, NotTask, ElsewhereLine
<1>9. Line(h)'
  <2>1. PICK k, f : Moved(h, k, f, <<>>)
    BY <1>1, <1>6, EndMoves
  <2>2. /\ \A i \in 1 .. k : f[i] \in Slots(h) /\ (Boxed(h, i)' <=> Boxed(h, f[i])) /\ i \in Nat
        /\ \A i \in 1 .. k : 1 <= i
    BY <2>1 DEF Moved
  <2>3. \A i \in 1 .. k : ~Boxed(h, i)'
    <3>1. Len(inbox'[h]) = 0
      BY <1>6
    <3> QED
      BY <2>2, <3>1 DEF Boxed
  <2>4. \A i \in 1 .. k : Slot(h, f[i]).who # <<>>
    BY <1>1, <2>2, NotTask, SlotFacts
  <2>5. NewFor(h, <<>>, <<>>)
    BY DEF NewFor
  <2>6. Line(h)
    BY DEF Base, Lines
  <2> QED
    BY <1>1, <1>7, <2>1, <2>2, <2>3, <2>4, <2>5, <2>6, MovedLine
<1>10. \A x \in net : x[1] \in Sends(x[2])' /\ Home[x[2]] # Srv(x[1])'
  BY <1>3 DEF Base, Typed, Relayed, Sends, Sessions, Addressee, Srv
<1>11. Typed' /\ Relayed' /\ members' \subseteq Used
  BY <1>3, <1>6, <1>10 DEF Base, Typed, Relayed
<1>12. Origins'
  BY <1>3 DEF Base, Origins
<1>13. ASSUME NEW r \in Origin PROVE Chain(r)'
  <2>1. Chain(r) /\ reg \subseteq Socket
    BY DEF Base, Typed
  <2>2. r \in reg' => r \in reg /\ ws'[r] = ws[r]
    BY <1>3, <2>1
  <2> QED
    BY <1>3, <2>1, <2>2, ChainStays
<1>14. ASSUME NEW t \in Task PROVE Lookup(t)'
  BY <1>3, LookupStays DEF Base
<1>15. Steady
  BY <1>3, <1>7, NotTask, NoTurn DEF Steady
<1> QED
  BY <1>8, <1>9, <1>11, <1>12, <1>13, <1>14, <1>15 DEF Base, Lines

\* The DEL that the close of s issues, and what follows it when s is in a room.
CloseCommands(s) ==
    (IF s \in reg THEN <<Cmd("del", <<s, Main>>, {s})>> ELSE <<>>)
    \o (IF s \in reg /\ s \in ctxRoom THEN <<Cmd("smembers", <<s, Main>>, {})>> ELSE <<>>)

LEMMA CloseCommandsFacts ==
    ASSUME NEW s \in Socket
    PROVE  /\ CloseCommands(s) \in Seq(Command) /\ Len(CloseCommands(s)) \in Nat
           /\ \A i \in 1 .. Len(CloseCommands(s)) :
                 \/ CloseCommands(s)[i] = Cmd("del", <<s, Main>>, {s})
                 \/ /\ s \in reg /\ s \in ctxRoom /\ i = 2
                    /\ CloseCommands(s)[i] = Cmd("smembers", <<s, Main>>, {})
<1>1. <<s, Main>> \in Task /\ "del" \in Op /\ "smembers" \in Op /\ {s} \in SUBSET Socket
  BY TaskFacts DEF Op
<1>2. PICK d \in Command : d = Cmd("del", <<s, Main>>, {s})
  BY <1>1, CmdType
<1>3. PICK e \in Command : e = Cmd("smembers", <<s, Main>>, {})
  BY <1>1, CmdType
<1>4. CASE s \notin reg
  <2>1. CloseCommands(s) = <<>>
    BY <1>4 DEF CloseCommands
  <2> QED
    BY <2>1
<1>5. CASE s \in reg /\ s \notin ctxRoom
  <2>1. CloseCommands(s) = <<d>>
    BY <1>2, <1>5 DEF CloseCommands
  <2> QED
    BY <1>2, <2>1
<1>6. CASE s \in reg /\ s \in ctxRoom
  <2>1. CloseCommands(s) = <<d>> \o <<e>>
    BY <1>2, <1>3, <1>6 DEF CloseCommands
  <2>2. /\ <<d>> \in Seq(Command) /\ Len(<<d>>) = 1 /\ <<d>>[1] = d
        /\ <<e>> \in Seq(Command) /\ Len(<<e>>) = 1 /\ <<e>>[1] = e
    BY <1>2, <1>3
  <2>3. PICK c : c = <<d>> \o <<e>>
    OBVIOUS
  <2>4. c \in Seq(Command) /\ Len(c) = 2 /\ c[1] = d /\ c[1 + 1] = e
    BY <2>2, <2>3, CatFacts
  <2>5. \A i \in 1 .. Len(c) : c[i] = d \/ (i = 2 /\ c[i] = e)
    BY <2>4
  <2>6. CloseCommands(s) = c /\ Len(c) \in Nat
    BY <2>1, <2>3, <2>4
  <2> QED
    BY <1>2, <1>3, <1>6, <2>4, <2>5, <2>6
<1> QED
  BY <1>4, <1>5, <1>6

LEMMA CloseEventBase ==
    ASSUME Base, NEW s \in Socket, CloseEvent(s)
    PROVE  Base' /\ Steady
<1> DEFINE leaves == s \in reg /\ s \in ctxRoom
<1>1. /\ ws[s] = "closing" /\ ws' = [ws EXCEPT ![s] = "closed"] /\ reg' = reg \ {s}
      /\ origin' = IF leaves
                   THEN [origin EXCEPT ![s] = [kind |-> "out", from |-> {s}, to |-> {}]]
                   ELSE origin
      /\ task' = IF leaves THEN [task EXCEPT ![<<s, Main>>].pc = "smembers"] ELSE task
      /\ Issued(Home[s], CloseCommands(s))
      /\ hash' = hash /\ members' = members /\ up' = up /\ ctxRoom' = ctxRoom
      /\ noticeId' = noticeId /\ inbox' = inbox /\ net' = net /\ got' = got /\ closes' = closes
      /\ ready' = ready
  BY DEF CloseEvent, CloseCommands, redisVars, turnVars
<1>2. s \in Origin /\ <<s, Main>> \in Task /\ "smembers" \in Op /\ Home[s] \in Server
  BY TaskFacts, NoticeAssumption DEF Op
<1>3. Typed /\ Chain(s) /\ origin[s] = NoOrigin
  BY <1>1, <1>2 DEF Base, Origins
<1>4. \A k \in Copy \cup User : task[<<s, k>>].pc = "idle"
  BY <1>3 DEF Chain
<1>5. leaves => task[<<s, Main>>].pc \in {"idle", "done"}
  BY <1>1, <1>3 DEF Chain, MainPc
<1>6. /\ [kind |-> "out", from |-> {s}, to |-> {}]
            \in [kind : Kind, from : SUBSET Socket, to : SUBSET User]
      /\ [kind |-> "out", from |-> {s}, to |-> {}].to = {}
      /\ NoOrigin.to = {}
  BY DEF Kind, NoOrigin
<1>7. /\ origin' \in [Origin -> [kind : Kind, from : SUBSET Socket, to : SUBSET User]]
      /\ leaves => origin'[s] = [kind |-> "out", from |-> {s}, to |-> {}]
      /\ ~leaves => origin' = origin
      /\ \A q \in Origin : q # s => origin'[q] = origin[q]
  BY <1>1, <1>2, <1>3, <1>6 DEF Typed
<1>8. /\ task' \in [Task -> TaskRec]
      /\ leaves => task'[<<s, Main>>].pc = "smembers"
      /\ ~leaves => task' = task
      /\ \A u \in Task : u # <<s, Main>> => task'[u] = task[u]
      /\ \A u \in Task : task'[u].left = task[u].left /\ task'[u].found = task[u].found
  <2>1. CASE leaves
    <3>1. task' = [task EXCEPT ![<<s, Main>>].pc = "smembers"]
      BY <1>1, <2>1
    <3> QED
      BY <1>2, <1>3, <2>1, <3>1, SetPc
  <2>2. CASE ~leaves
    BY <1>1, <1>3, <2>2 DEF Typed, TaskRec
  <2> QED
    BY <2>1, <2>2
<1> DEFINE t == IF leaves THEN <<s, Main>> ELSE <<>>
<1>9. Undisturbed(t)
  <2> SUFFICES ASSUME NEW u \in Task, u # t, task[u].pc # "idle" PROVE Settled(u)
    BY DEF Undisturbed
  <2>1. leaves => u[1] # s
    BY <1>4, TaskFacts
  <2>2. origin'[u[1]] = origin[u[1]]
    BY <1>7, <2>1, TaskFacts
  <2>3. task'[u] = task[u]
    BY <1>8
  <2> QED
    BY <2>2, <2>3 DEF Settled
<1>10. /\ CloseCommands(s) \in Seq(Command) /\ Len(CloseCommands(s)) \in Nat
       /\ \A i \in 1 .. Len(CloseCommands(s)) :
             \/ CloseCommands(s)[i] = Cmd("del", <<s, Main>>, {s})
             \/ leaves /\ i = 2 /\ CloseCommands(s)[i] = Cmd("smembers", <<s, Main>>, {})
  BY CloseCommandsFacts
<1>11. /\ Cmd("del", <<s, Main>>, {s}).op = "del"
       /\ Cmd("smembers", <<s, Main>>, {}).op = "smembers"
       /\ Cmd("smembers", <<s, Main>>, {}).who = <<s, Main>>
  BY DEF Cmd
<1>12. GoodCommand(Home[s], Cmd("del", <<s, Main>>, {s}))'
  BY <1>11 DEF GoodCommand
<1>13. leaves => GoodCommand(Home[s], Cmd("smembers", <<s, Main>>, {}))'
  BY <1>8, <1>11 DEF GoodCommand, Srv
<1>14. NewFor(Home[s], t, CloseCommands(s))
  <2>1. PICK q : q = CloseCommands(s)
    OBVIOUS
  <2>2. \A i \in 1 .. Len(q) :
          /\ GoodCommand(Home[s], q[i])'
          /\ q[i].op # "del" => i = 2 /\ q[i].who = t
    BY <1>10, <1>11, <1>12, <1>13, <2>1
  <2>3. NewFor(Home[s], t, q)
    BY <2>2 DEF NewFor
  <2> QED
    BY <2>1, <2>3
<1>15. t \in Task => task[t].pc \notin Op /\ task[t].pc # "ready"
  BY <1>5, NotTask DEF Op
<1>16. t \in Task => t[2] = Main \/ task[t].pc # "done"
  BY NotTask
<1> HIDE DEF t
<1>17. Lines' /\ wire' \in [Server -> Seq(Command)] /\ inbox' \in [Server -> Seq(Response)]
  BY <1>1, <1>2, <1>9, <1>10, <1>14, <1>15, IssueLines
<1>18. \A m \in net : m[1] \in Sends(m[2])' /\ Home[m[2]] # Srv(m[1])'
  BY <1>9, <1>16, NetStays DEF Base
<1>19. Typed' /\ Relayed' /\ members' \subseteq Used
  BY <1>1, <1>3, <1>7, <1>8, <1>17, <1>18 DEF Base, Typed, Relayed, TaskRec
<1>20. Origins'
  <2>1. \A q \in 1 .. MaxRequest : origin'[q] = origin[q]
    BY <1>7, TaskFacts
  <2>2. ASSUME NEW x \in Socket, origin'[x] # NoOrigin
        PROVE  /\ origin'[x] = [kind |-> "out", from |-> {x}, to |-> {}]
               /\ ws'[x] \in {"closed", "dead"}
    <3>1. CASE x = s
      BY <1>1, <1>3, <1>7, <2>2, <3>1 DEF Typed
    <3>2. CASE x # s
      <4>1. origin'[x] = origin[x] /\ ws'[x] = ws[x]
        BY <1>1, <1>3, <1>7, <3>2, TaskFacts DEF Typed
      <4> QED
        BY <2>2, <4>1 DEF Base, Origins
    <3> QED
      BY <3>1, <3>2
  <2> QED
    BY <2>1, <2>2 DEF Base, Origins
<1>21. ASSUME NEW q \in Origin PROVE Chain(q)'
  <2>1. CASE q # s
    <3>1. \A k \in {Main} \cup Copy \cup User : task'[<<q, k>>] = task[<<q, k>>]
      BY <1>8, <2>1, TaskFacts
    <3>2. q \in reg' => q \in reg /\ ws'[q] = ws[q]
      BY <1>1, <1>3, <2>1 DEF Typed
    <3> QED
      BY <1>7, <2>1, <3>1, <3>2, ChainStays DEF Base
  <2>2. CASE q = s /\ leaves
    <3>1. \A k \in Copy \cup User : task'[<<s, k>>].pc = "idle"
      BY <1>4, <1>8, TaskFacts
    <3>2. "smembers" \in MainPc(s)'
      BY <1>7, <2>2 DEF MainPc, NoOrigin
    <3>3. s \notin reg'
      BY <1>1
    <3> QED
      BY <1>8, <2>2, <3>1, <3>2, <3>3 DEF Chain
  <2>3. CASE q = s /\ ~leaves
    BY <1>1, <1>3, <1>7, <1>8, <2>3, ChainStays
  <2> QED
    BY <2>1, <2>2, <2>3
<1>22. ASSUME NEW u \in Task PROVE Lookup(u)'
  <2>1. origin'[u[1]].to = origin[u[1]].to
    BY <1>3, <1>6, <1>7, TaskFacts
  <2>2. task'[u].pc = "idle" => task[u].pc = "idle"
    BY <1>8
  <2> QED
    BY <1>8, <2>1, <2>2, LookupStays DEF Base
<1>23. Steady
  BY <1>1, <1>9, <1>15, <1>16, NoTurn DEF Steady
<1> QED
  BY <1>17, <1>19, <1>20, <1>21, <1>22, <1>23 DEF Base

-----------------------------------------------------------------------------
(* Callbacks.                                                              *)

\* Chain t steps: the head of the inbox of h is handled, or t, which was ready, goes on.
Takes(h, t) ==
    /\ \/ /\ inbox[h] # <<>> /\ t = Head(inbox[h]).who
          /\ inbox' = [inbox EXCEPT ![h] = Tail(@)]
       \/ /\ t \in Task /\ Srv(t) = h /\ task[t].pc = "ready"
          /\ inbox' = inbox
    /\ Turned(t)
    /\ hash' = hash /\ members' = members /\ up' = up /\ ws' = ws
    /\ origin' = origin /\ closes' = closes

\* It issues cmds.
Handles(h, t, cmds) ==
    /\ Takes(h, t)
    /\ cmds \in Seq(Command) /\ Issued(h, cmds)
    /\ task' \in [Task -> TaskRec]
    /\ \A u \in Task : u[1] # t[1] => task'[u] = task[u]
    /\ Undisturbed(t) /\ NewFor(h, t, cmds)

LEMMA TakesFacts ==
    ASSUME Base, NEW h \in Server, NEW t, Takes(h, t)
    PROVE  /\ t \in Task /\ Srv(t) = h /\ task[t].pc \in Op \cup {"ready"} /\ Turned(t)
           /\ hash' = hash /\ members' = members /\ up' = up /\ ws' = ws
           /\ origin' = origin /\ closes' = closes
<1>1. CASE inbox[h] # <<>> /\ t = Head(inbox[h]).who
  BY <1>1, HeadFacts DEF Takes
<1>2. CASE t \in Task /\ Srv(t) = h /\ task[t].pc = "ready"
  BY <1>2 DEF Takes
<1> QED
  BY <1>1, <1>2 DEF Takes

LEMMA HeadTakes ==
    ASSUME Base, NEW h \in Server, inbox[h] # <<>>, NEW t, t = Head(inbox[h]).who, CallsBack(h)
    PROVE  Takes(h, t)
<1>1. task[t].pc \in Op
  BY HeadFacts
<1>2. Turned(t)
  BY <1>1, NoTurn DEF CallsBack, Op
<1> QED
  BY <1>2 DEF Takes, CallsBack, Handled, redisVars

LEMMA TakeLines ==
    ASSUME Base, NEW h \in Server, NEW t, Takes(h, t), NEW cmds \in Seq(Command),
           Issued(h, cmds), Undisturbed(t), NewFor(h, t, cmds)
    PROVE  Lines' /\ wire' \in [Server -> Seq(Command)] /\ inbox' \in [Server -> Seq(Response)]
<1>1. up' = up
  BY DEF Takes
<1>2. CASE /\ inbox[h] # <<>> /\ t = Head(inbox[h]).who
           /\ inbox' = [inbox EXCEPT ![h] = Tail(@)]
  BY <1>1, <1>2, HandleLines
<1>3. CASE t \in Task /\ task[t].pc = "ready" /\ inbox' = inbox
  BY <1>1, <1>3, IssueLines DEF Op
<1> QED
  BY <1>2, <1>3 DEF Takes

LEMMA NoneIssued ==
    ASSUME Typed, NEW h \in Server, wire' = wire
    PROVE  Issued(h, <<>>) /\ <<>> \in Seq(Command) /\ \A t : NewFor(h, t, <<>>)
<1>1. wire \in [Server -> Seq(Command)] /\ wire[h] \in Seq(Command)
  BY DEF Typed
<1>2. wire[h] \o <<>> = wire[h]
  BY <1>1
<1>3. wire' = [wire EXCEPT ![h] = @ \o <<>>]
  BY <1>1, <1>2
<1>4. Issued(h, <<>>)
  BY <1>3, Zenon DEF Issued
<1>5. <<>> \in Seq(Command) /\ 1 .. Len(<<>>) = {}
  OBVIOUS
<1>6. \A t : NewFor(h, t, <<>>)
  BY <1>5 DEF NewFor
<1> QED
  BY <1>4, <1>5, <1>6

LEMMA HandlerBase ==
    ASSUME Base, NEW h \in Server, NEW t, NEW cmds, Handles(h, t, cmds),
           reg' \subseteq Socket, ctxRoom' \subseteq Socket, noticeId' \in [Socket -> Nat],
           got' \in [Socket -> Seq([id : Nat, about : Origin])],
           \A r \in reg' : r \in reg \/ r = t[1],
           Chain(t[1])',
           \A u \in Task : u[1] = t[1] => Lookup(u)',
           net' \subseteq Task \X Socket,
           \A m \in net' : m \in net \/ (m[1] \in Sends(m[2])' /\ Home[m[2]] # Srv(m[1])')
    PROVE  Base' /\ Steady
<1>1. /\ Takes(h, t) /\ cmds \in Seq(Command) /\ Issued(h, cmds)
      /\ task' \in [Task -> TaskRec]
      /\ \A u \in Task : u[1] # t[1] => task'[u] = task[u]
      /\ Undisturbed(t) /\ NewFor(h, t, cmds)
  BY DEF Handles
<1>2. /\ hash' = hash /\ members' = members /\ up' = up /\ ws' = ws
      /\ origin' = origin /\ closes' = closes /\ Turned(t)
  BY <1>1, TakesFacts
<1>3. Typed /\ t \in Task /\ task[t].pc \in Op \cup {"ready"}
  BY <1>1, TakesFacts DEF Base
<1>4. Lines' /\ wire' \in [Server -> Seq(Command)] /\ inbox' \in [Server -> Seq(Response)]
  BY <1>1, TakeLines
<1>5. task[t].pc # "done"
  BY <1>3 DEF Op
<1>6. \A m \in net : m[1] \in Sends(m[2])' /\ Home[m[2]] # Srv(m[1])'
  BY <1>1, <1>5, NetStays DEF Base
<1>7. Typed' /\ Relayed' /\ members' \subseteq Used
  BY <1>1, <1>2, <1>3, <1>4, <1>6 DEF Base, Typed, Relayed, TaskRec
<1>8. Origins'
  BY <1>2 DEF Base, Origins
<1>9. ASSUME NEW r \in Origin PROVE Chain(r)'
  <2>1. CASE r # t[1]
    <3>1. \A k \in {Main} \cup Copy \cup User : task'[<<r, k>>] = task[<<r, k>>]
      BY <1>1, <2>1, TaskFacts
    <3>2. Chain(r) /\ (r \in reg' => r \in reg)
      BY <2>1 DEF Base
    <3> QED
      BY <1>2, <3>1, <3>2, ChainStays
  <2> QED
    BY <2>1
<1>10. ASSUME NEW u \in Task PROVE Lookup(u)'
  <2>1. CASE u[1] # t[1]
    <3>1. task'[u] = task[u] /\ Lookup(u)
      BY <1>1, <2>1 DEF Base
    <3> QED
      BY <1>2, <3>1, LookupStays
  <2> QED
    BY <2>1
<1>11. Steady
  BY <1>1, <1>2, <1>5 DEF Steady
<1> QED
  BY <1>4, <1>7, <1>8, <1>9, <1>10, <1>11 DEF Base

\* Only the chain of an origin itself waits for anything but lookups.
LEMMA MainOnly ==
    ASSUME Base, NEW t \in Task, task[t].pc \in Op, task[t].pc \notin {"keys", "hgetall"}
    PROVE  /\ t = <<t[1], Main>> /\ t[1] \in Origin
           /\ task[t].pc \in MainPc(t[1]) /\ Chain(t[1])
<1>1. t = <<t[1], t[2]>> /\ t[1] \in Origin /\ (t[2] = Main \/ t[2] \in Copy \cup User)
  BY TaskFacts
<1>2. Chain(t[1])
  BY <1>1 DEF Base
<1>3. t[2] \notin Copy \cup User
  <2> SUFFICES ASSUME t[2] \in Copy \cup User PROVE FALSE
    OBVIOUS
  <2>1. task[<<t[1], t[2]>>].pc \in {"idle", "keys", "hgetall", "ready", "done", "hung"}
    BY <1>2 DEF Chain
  <2> QED
    BY <1>1, <2>1 DEF Op
<1>4. t = <<t[1], Main>>
  BY <1>1, <1>3
<1>5. task[<<t[1], Main>>].pc \in MainPc(t[1])
  BY <1>2 DEF Chain
<1> QED
  BY <1>1, <1>2, <1>4, <1>5

\* The chain of an origin moves and starts no send.
LEMMA MainMoves ==
    ASSUME Base, NEW r \in Origin, origin' = origin,
           task'[<<r, Main>>].pc \in MainPc(r), task'[<<r, Main>>].pc \notin {"idle", "hmset"},
           \A k \in Copy \cup User : task'[<<r, k>>].pc = task[<<r, k>>].pc,
           task[<<r, Main>>].pc \in {"sadd", "srem", "done"} =>
               task'[<<r, Main>>].pc \in {"sadd", "srem", "done"}
    PROVE  Chain(r)'
<1>1. Chain(r)
  BY DEF Base
<1>2. MainPc(r)' = MainPc(r)
  BY DEF MainPc
<1> QED
  BY <1>1, <1>2 DEF Chain

\* A callback that only moves its own chain to p, and issues cmds.
LEMMA StepHandles ==
    ASSUME Base, NEW h \in Server, NEW t, Takes(h, t),
           NEW p, p \in Op \/ p \in {"done", "hung"}, task' = [task EXCEPT ![t].pc = p],
           NEW cmds \in Seq(Command), Issued(h, cmds), NewFor(h, t, cmds)
    PROVE  /\ Handles(h, t, cmds)
           /\ t \in Task /\ task'[t].pc = p
           /\ \A u \in Task : u # t => task'[u] = task[u]
           /\ \A u \in Task : u[1] = t[1] => Lookup(u)'
<1>1. t \in Task /\ task[t].pc \in Op \cup {"ready"}
  BY TakesFacts
<1>2. /\ task' \in [Task -> TaskRec]
      /\ task'[t].pc = p /\ task'[t].left = task[t].left /\ task'[t].found = task[t].found
      /\ \A u \in Task : u # t => task'[u] = task[u]
  BY <1>1, SetPc DEF Base
<1>3. origin' = origin
  BY TakesFacts
<1>4. Undisturbed(t)
  BY <1>2, <1>3 DEF Undisturbed, Settled
<1>5. ASSUME NEW u \in Task PROVE Lookup(u)'
  <2>1. /\ task'[u].left = task[u].left /\ task'[u].found = task[u].found
        /\ task'[u].pc = "idle" => task[u].pc = "idle"
    BY <1>2 DEF Op
  <2> QED
    BY <1>3, <2>1, LookupStays DEF Base
<1>6. \A u \in Task : u[1] # t[1] => task'[u] = task[u]
  BY <1>2
<1> QED
  BY <1>1, <1>2, <1>4, <1>5, <1>6 DEF Handles

LEMMA ReplyExistsBase ==
    ASSUME Base, NEW h \in Server, ReplyExists(h)
    PROVE  Base' /\ Steady
<1>1. PICK t : t = Head(inbox[h]).who
  OBVIOUS
<1>2. /\ inbox[h] # <<>> /\ Head(inbox[h]).op = "exists"
      /\ task' = [task EXCEPT ![t].pc = "smembers"]
      /\ Issued(h, <<Cmd("smembers", t, {})>>) /\ CallsBack(h)
      /\ ctxRoom' = ctxRoom /\ reg' = reg /\ noticeId' = noticeId /\ net' = net /\ got' = got
  BY <1>1 DEF ReplyExists, Replied
<1>t. Takes(h, t)
  BY <1>1, <1>2, HeadTakes
<1>3. t \in Task /\ task[t].pc = "exists" /\ Srv(t) = h /\ "smembers" \in Op /\ "exists" \in Op
  BY <1>1, <1>2, HeadFacts DEF Op
<1>4. origin' = origin /\ task'[t].pc = "smembers"
  BY <1>2, <1>3, <1>t, TakesFacts, SetPc DEF Base
<1>5. Srv(t)' = h
  BY <1>3, <1>4 DEF Srv
<1>6. GoodCommand(h, Cmd("smembers", t, {}))'
  BY <1>3, <1>4, <1>5, CmdType DEF GoodCommand
<1>7. NewFor(h, t, <<Cmd("smembers", t, {})>>) /\ <<Cmd("smembers", t, {})>> \in Seq(Command)
  BY <1>3, <1>6, OneCommand
<1>8. /\ Handles(h, t, <<Cmd("smembers", t, {})>>)
      /\ \A u \in Task : u # t => task'[u] = task[u]
      /\ \A u \in Task : u[1] = t[1] => Lookup(u)'
  BY <1>2, <1>3, <1>7, <1>t, StepHandles
<1>9. t = <<t[1], Main>> /\ t[1] \in Origin /\ "exists" \in MainPc(t[1])
  BY <1>3, MainOnly
<1>10. "smembers" \in MainPc(t[1])
  BY <1>9 DEF MainPc
<1>11. \A k \in Copy \cup User : task'[<<t[1], k>>].pc = task[<<t[1], k>>].pc
  BY <1>8, <1>9, TaskFacts
<1>12. Chain(t[1])'
  BY <1>3, <1>4, <1>9, <1>10, <1>11, MainMoves
<1>13. /\ reg' \subseteq Socket /\ ctxRoom' \subseteq Socket /\ noticeId' \in [Socket -> Nat]
       /\ got' \in [Socket -> Seq([id : Nat, about : Origin])] /\ net' \subseteq Task \X Socket
  BY <1>2 DEF Base, Typed
<1> QED
  BY <1>2, <1>8, <1>12, <1>13, HandlerBase

LEMMA ReplyMemberBase ==
    ASSUME Base, NEW h \in Server, ReplyMember(h)
    PROVE  Base' /\ Steady
<1>1. PICK t : t = Head(inbox[h]).who
  OBVIOUS
<1>2. /\ inbox[h] # <<>> /\ Head(inbox[h]).op \in {"sadd", "srem"}
      /\ task' = [task EXCEPT ![t].pc = "done"]
      /\ ctxRoom' = IF origin[t[1]].kind = "in" THEN ctxRoom \cup origin[t[1]].from ELSE ctxRoom
      /\ CallsBack(h)
      /\ wire' = wire /\ reg' = reg /\ noticeId' = noticeId /\ net' = net /\ got' = got
  BY <1>1 DEF ReplyMember, Replied
<1>t. Takes(h, t)
  BY <1>1, <1>2, HeadTakes
<1>3. /\ t \in Task /\ task[t].pc \in {"sadd", "srem"} /\ "sadd" \in Op /\ "srem" \in Op
      /\ Typed
  BY <1>1, <1>2, HeadFacts DEF Op, Base
<1>4. origin' = origin
  BY <1>t, TakesFacts
<1>5. PICK e \in Seq(Command) : Issued(h, e) /\ NewFor(h, t, e)
  BY <1>2, <1>3, NoneIssued
<1>p. PICK p : p = "done" /\ task' = [task EXCEPT ![t].pc = p] /\ p \in {"done", "hung"}
  BY <1>2
<1>6. /\ Handles(h, t, e) /\ task'[t].pc = p
      /\ \A u \in Task : u # t => task'[u] = task[u]
      /\ \A u \in Task : u[1] = t[1] => Lookup(u)'
  BY <1>5, <1>p, <1>t, StepHandles
<1>7. t = <<t[1], Main>> /\ t[1] \in Origin /\ task[t].pc \in MainPc(t[1])
  BY <1>3, MainOnly
<1>8. "done" \in MainPc(t[1])
  BY <1>3, <1>7 DEF MainPc
<1>9. \A k \in Copy \cup User : task'[<<t[1], k>>].pc = task[<<t[1], k>>].pc
  BY <1>6, <1>7, TaskFacts
<1>10. Chain(t[1])'
  BY <1>4, <1>6, <1>p, <1>7, <1>8, <1>9, MainMoves
<1>11. /\ reg' \subseteq Socket /\ ctxRoom' \subseteq Socket /\ noticeId' \in [Socket -> Nat]
       /\ got' \in [Socket -> Seq([id : Nat, about : Origin])] /\ net' \subseteq Task \X Socket
  BY <1>2, <1>3, <1>7 DEF Typed
<1> QED
  BY <1>2, <1>6, <1>10, <1>11, HandlerBase

LEMMA ReplyHmsetBase ==
    ASSUME Base, NEW h \in Server, ReplyHmset(h)
    PROVE  Base' /\ Steady
<1>1. PICK x : x = Head(inbox[h])
  OBVIOUS
<1>2. PICK t : t = x.who
  OBVIOUS
<1>3. /\ inbox[h] # <<>> /\ x.op = "hmset" /\ reg' = reg \cup x.key
      /\ task' = [task EXCEPT ![t].pc = "done"] /\ CallsBack(h)
      /\ ctxRoom' = ctxRoom /\ wire' = wire /\ noticeId' = noticeId /\ net' = net /\ got' = got
  BY <1>1, <1>2 DEF ReplyHmset, Replied
<1>t. Takes(h, t)
  BY <1>1, <1>2, <1>3, HeadTakes
<1>4. /\ t \in Task /\ task[t].pc = "hmset" /\ "hmset" \in Op /\ Typed
      /\ x.key = {t[1]} /\ t[1] \in Socket
  BY <1>1, <1>2, <1>3, HeadFacts DEF Op, Base, GoodCommand
<1>5. origin' = origin
  BY <1>t, TakesFacts
<1>6. PICK e \in Seq(Command) : Issued(h, e) /\ NewFor(h, t, e)
  BY <1>3, <1>4, NoneIssued
<1>p. PICK p : p = "done" /\ task' = [task EXCEPT ![t].pc = p] /\ p \in {"done", "hung"}
  BY <1>3
<1>7. /\ Handles(h, t, e) /\ task'[t].pc = p
      /\ \A u \in Task : u # t => task'[u] = task[u]
      /\ \A u \in Task : u[1] = t[1] => Lookup(u)'
  BY <1>6, <1>p, <1>t, StepHandles
<1>8. t = <<t[1], Main>> /\ t[1] \in Origin /\ "hmset" \in MainPc(t[1])
  BY <1>4, MainOnly
<1>9. "done" \in MainPc(t[1])
  BY <1>8 DEF MainPc
<1>10. \A k \in Copy \cup User : task'[<<t[1], k>>].pc = task[<<t[1], k>>].pc
  BY <1>7, <1>8, TaskFacts
<1>11. Chain(t[1])'
  BY <1>5, <1>7, <1>p, <1>8, <1>9, <1>10, MainMoves
<1>12. /\ reg' \subseteq Socket /\ ctxRoom' \subseteq Socket /\ noticeId' \in [Socket -> Nat]
       /\ got' \in [Socket -> Seq([id : Nat, about : Origin])] /\ net' \subseteq Task \X Socket
       /\ \A r \in reg' : r \in reg \/ r = t[1]
  BY <1>3, <1>4 DEF Typed
<1> QED
  BY <1>3, <1>7, <1>11, <1>12, HandlerBase

-----------------------------------------------------------------------------
(* Lookups.                                                                *)

\* What a lookup of t has still to read and what it has found.
Reading(t, rest, objects) ==
    /\ t \in Task /\ task[t].pc \in {"keys", "hgetall", "ready"}
    /\ objects \in SUBSET (Socket \X BOOLEAN)
    /\ rest \subseteq Sessions(Addressee(t))
    /\ \A o \in objects : o[1] \in Sessions(Addressee(t)) /\ o[1] \notin rest
    /\ \A o, p \in objects : o[1] = p[1] => o = p

LEMMA ReadKeys ==
    ASSUME Base, NEW h \in Server, Replied(h, "keys"), NEW x, x = Head(inbox[h])
    PROVE  Reading(x.who, x.list, {})
<1>1. inbox[h] # <<>> /\ x.op = "keys"
  BY DEF Replied
<1>2. /\ x.who \in Task /\ task[x.who].pc = "keys"
      /\ x.list \subseteq Sessions(Addressee(x.who))
  BY <1>1, HeadFacts DEF GoodReply
<1> QED
  BY <1>2 DEF Reading

LEMMA ReadHash ==
    ASSUME Base, NEW h \in Server, Replied(h, "hgetall"), NEW x, x = Head(inbox[h]),
           NEW s \in x.list, NEW b \in BOOLEAN
    PROVE  /\ Reading(x.who, task[x.who].left, task[x.who].found \cup {<<s, b>>})
           /\ x.key = {s}
<1>1. inbox[h] # <<>> /\ x.op = "hgetall"
  BY DEF Replied
<1>2. /\ x.who \in Task /\ task[x.who].pc = "hgetall" /\ x.list \subseteq x.key
      /\ GoodCommand(h, x)
  BY <1>1, HeadFacts DEF GoodReply
<1>3. PICK y \in Sessions(Addressee(x.who)) :
        x.key = {y} /\ y \notin task[x.who].left \cup Seen(x.who)
  BY <1>1, <1>2 DEF GoodCommand
<1>4. s = y
  BY <1>2, <1>3
<1>5. Lookup(x.who) /\ task[x.who].found \in SUBSET (Socket \X BOOLEAN)
  BY <1>2 DEF Base, Typed
<1>6. \A o \in task[x.who].found : o[1] \in Seen(x.who)
  BY DEF Seen
<1>7. s \in Socket /\ s \in Sessions(Addressee(x.who)) /\ s \notin task[x.who].left
      /\ s \notin Seen(x.who)
  BY <1>3, <1>4 DEF Sessions
<1> DEFINE objects == task[x.who].found \cup {<<s, b>>}
<1>8. objects \in SUBSET (Socket \X BOOLEAN)
  BY <1>5, <1>7
<1>9. /\ task[x.who].left \subseteq Sessions(Addressee(x.who))
      /\ \A o \in task[x.who].found : /\ o[1] \in Sessions(Addressee(x.who))
                                      /\ o[1] \notin task[x.who].left /\ o[1] # s
      /\ \A o, p \in task[x.who].found : o[1] = p[1] => o = p
  BY <1>5, <1>6, <1>7 DEF Lookup
<1>10. \A o \in objects : o \in task[x.who].found \/ (o = <<s, b>> /\ o[1] = s)
  OBVIOUS
<1>11. \A o \in objects : o[1] \in Sessions(Addressee(x.who)) /\ o[1] \notin task[x.who].left
  BY <1>7, <1>9, <1>10
<1>12. \A o, p \in objects : o[1] = p[1] => o = p
  BY <1>9, <1>10
<1> HIDE DEF objects
<1>13. Reading(x.who, task[x.who].left, objects)
  BY <1>2, <1>8, <1>9, <1>11, <1>12 DEF Reading
<1> QED
  BY <1>3, <1>4, <1>13 DEF objects

LEMMA ReadKinds ==
    ASSUME Base, NEW t \in Task, task[t].pc \in {"keys", "hgetall", "ready"}
    PROVE  /\ t[1] \in Origin /\ Chain(t[1]) /\ origin[t[1]] # NoOrigin
           /\ t[2] = Main => /\ t = <<t[1], Main>> /\ origin[t[1]].kind = "msg"
                             /\ MainPc(t[1]) = {"keys", "hgetall", "ready", "done", "hung"}
                             /\ \A k \in Copy \cup User : task[<<t[1], k>>].pc = "idle"
           /\ t[2] # Main => t[2] \in Copy \cup User
<1>1. t = <<t[1], t[2]>> /\ t[1] \in Origin /\ (t[2] = Main \/ t[2] \in Copy \cup User)
  BY TaskFacts
<1>2. Chain(t[1])
  BY <1>1 DEF Base
<1>3. CASE t[2] = Main
  <2>1. t = <<t[1], Main>> /\ task[<<t[1], Main>>].pc \in {"keys", "hgetall", "ready"}
    BY <1>1, <1>3
  <2>2. task[<<t[1], Main>>].pc \in MainPc(t[1])
    BY <1>2 DEF Chain
  <2>3. origin[t[1]] # NoOrigin /\ origin[t[1]].kind = "msg"
    BY <2>1, <2>2 DEF MainPc
  <2>4. MainPc(t[1]) = {"keys", "hgetall", "ready", "done", "hung"}
    BY <2>3 DEF MainPc
  <2>5. \A k \in Copy \cup User : task[<<t[1], k>>].pc = "idle"
    BY <1>2, <2>1 DEF Chain
  <2> QED
    BY <1>1, <1>2, <1>3, <2>1, <2>3, <2>4, <2>5
<1>4. CASE t[2] # Main
  <2>1. t[2] \in Copy \cup User /\ task[<<t[1], t[2]>>].pc # "idle"
    BY <1>1, <1>4
  <2> QED
    BY <1>1, <1>2, <1>4, <2>1 DEF Chain
<1> QED
  BY <1>3, <1>4

\* A send, or the lookup of a message, moves.
LEMMA LookupMoves ==
    ASSUME Base, NEW t \in Task, task[t].pc \in {"keys", "hgetall", "ready"},
           task'[t].pc \in {"hgetall", "ready", "done", "hung"}, origin' = origin, ws' = ws,
           reg' \subseteq reg, \A u \in Task : u # t => task'[u] = task[u]
    PROVE  Chain(t[1])'
<1>1. /\ t[1] \in Origin /\ Chain(t[1]) /\ origin[t[1]] # NoOrigin
      /\ t[2] = Main => /\ t = <<t[1], Main>>
                        /\ MainPc(t[1]) = {"keys", "hgetall", "ready", "done", "hung"}
                        /\ \A k \in Copy \cup User : task[<<t[1], k>>].pc = "idle"
      /\ t[2] # Main => t[2] \in Copy \cup User
  BY ReadKinds
<1>2. t = <<t[1], t[2]>> /\ \A k \in {Main} \cup Copy \cup User : <<t[1], k>> \in Task
  BY <1>1, TaskFacts
<1>3. CASE t[2] = Main
  <2>1. \A k \in Copy \cup User : task'[<<t[1], k>>].pc = task[<<t[1], k>>].pc
    BY <1>1, <1>2, <1>3, TaskFacts
  <2> QED
    BY <1>1, <1>3, <2>1, MainMoves
<1>4. CASE t[2] # Main
  <2>1. PICK r, l : r = t[1] /\ l = t[2] /\ t = <<r, l>> /\ l \in Copy \cup User /\ r \in Origin
    BY <1>1, <1>2, <1>4
  <2>2. /\ task'[<<r, Main>>] = task[<<r, Main>>]
        /\ \A k \in Copy \cup User : k # l => task'[<<r, k>>] = task[<<r, k>>]
    BY <1>2, <1>4, <2>1, TaskFacts
  <2>3. MainPc(r)' = MainPc(r)
    BY DEF MainPc
  <2>4. ASSUME NEW k \in Copy \cup User, task'[<<r, k>>].pc # "idle"
        PROVE  /\ task'[<<r, k>>].pc \in {"keys", "hgetall", "ready", "done", "hung"}
               /\ task[<<r, Main>>].pc \in {"sadd", "srem", "done"}
               /\ k \in IF origin[r].kind = "msg" THEN Copy ELSE User
    <3>1. task[<<r, k>>].pc # "idle"
      BY <2>1, <2>2, <2>4
    <3> QED
      BY <1>1, <2>1, <2>2, <3>1 DEF Chain
  <2>5. reg' \subseteq reg /\ Chain(r)
    BY <1>1, <2>1
  <2> QED
    BY <1>1, <2>1, <2>2, <2>3, <2>4, <2>5 DEF Chain
<1> QED
  BY <1>3, <1>4

\* A callback of a lookup that puts x for its chain, and issues cmds.
LEMMA PutHandles ==
    ASSUME Base, NEW h \in Server, NEW t, Takes(h, t),
           NEW x \in TaskRec, task' = [task EXCEPT ![t] = x],
           NEW cmds \in Seq(Command), Issued(h, cmds), NewFor(h, t, cmds)
    PROVE  /\ Handles(h, t, cmds) /\ t \in Task /\ task'[t] = x
           /\ \A u \in Task : u # t => task'[u] = task[u]
           /\ \A u \in Task : u # t => Lookup(u)'
<1>1. t \in Task
  BY TakesFacts
<1>2. /\ task' \in [Task -> TaskRec] /\ task'[t] = x
      /\ \A u \in Task : u # t => task'[u] = task[u]
  BY <1>1, PutTask DEF Base
<1>3. origin' = origin
  BY TakesFacts
<1>4. Undisturbed(t)
  BY <1>2, <1>3 DEF Undisturbed, Settled
<1>5. ASSUME NEW u \in Task, u # t PROVE Lookup(u)'
  <2>1. task'[u] = task[u] /\ Lookup(u)
    BY <1>2, <1>5 DEF Base
  <2> QED
    BY <1>3, <2>1, LookupStays
<1>6. \A u \in Task : u[1] # t[1] => task'[u] = task[u]
  BY <1>2
<1> QED
  BY <1>1, <1>2, <1>4, <1>5, <1>6 DEF Handles

\* The next round of a lookup.
Round(rest, s, objects) == [pc |-> "hgetall", left |-> rest \ {s}, found |-> objects]

Rounds(h, t, rest, objects, s) ==
    /\ Takes(h, t) /\ Reading(t, rest, objects) /\ s \in rest
    /\ task' = [task EXCEPT ![t] = Round(rest, s, objects)]
    /\ Issued(h, <<Cmd("hgetall", t, {s})>>)

LEMMA RoundHandles ==
    ASSUME Base, NEW h \in Server, NEW t, NEW rest, NEW objects, NEW s,
           Rounds(h, t, rest, objects, s)
    PROVE  /\ Handles(h, t, <<Cmd("hgetall", t, {s})>>) /\ t \in Task
           /\ task'[t] = Round(rest, s, objects)
           /\ \A u \in Task : u # t => task'[u] = task[u]
           /\ \A u \in Task : Lookup(u)'
<1>a. /\ Takes(h, t) /\ Reading(t, rest, objects) /\ s \in rest
      /\ task' = [task EXCEPT ![t] = Round(rest, s, objects)]
      /\ Issued(h, <<Cmd("hgetall", t, {s})>>)
  BY DEF Rounds
<1>1. /\ t \in Task /\ objects \in SUBSET (Socket \X BOOLEAN)
      /\ rest \subseteq Sessions(Addressee(t))
      /\ \A o \in objects : o[1] \in Sessions(Addressee(t)) /\ o[1] \notin rest
      /\ \A o, p \in objects : o[1] = p[1] => o = p
  BY <1>a DEF Reading
<1>2. rest \subseteq Socket /\ s \in Socket /\ "hgetall" \in Op
  BY <1>1, <1>a DEF Sessions, Op
<1>3. /\ Round(rest, s, objects) \in TaskRec /\ Round(rest, s, objects).pc = "hgetall"
      /\ Round(rest, s, objects).left = rest \ {s} /\ Round(rest, s, objects).found = objects
  BY <1>1, <1>2 DEF TaskRec, Round
<1>4. task'[t] = Round(rest, s, objects)
  BY <1>a, <1>1, <1>3, PutTask DEF Base
<1>5. origin' = origin /\ Srv(t) = h
  BY <1>a, TakesFacts
<1>6. Srv(t)' = h /\ Sessions(Addressee(t))' = Sessions(Addressee(t))
  BY <1>5 DEF Srv, Sessions, Addressee
<1>7. Seen(t)' = {o[1] : o \in objects}
  BY <1>3, <1>4 DEF Seen
<1>8. GoodCommand(h, Cmd("hgetall", t, {s}))'
  <2>1. PICK c : c = Cmd("hgetall", t, {s}) /\ c.op = "hgetall" /\ c.who = t /\ c.key = {s}
    BY <1>1, <1>2, CmdType
  <2>2. s \notin task'[t].left \cup Seen(t)'
    BY <1>a, <1>1, <1>3, <1>4, <1>7
  <2>3. GoodCommand(h, c)'
    BY <1>a, <1>1, <1>3, <1>4, <1>6, <2>1, <2>2 DEF GoodCommand
  <2> QED
    BY <2>1, <2>3
<1>9. NewFor(h, t, <<Cmd("hgetall", t, {s})>>) /\ <<Cmd("hgetall", t, {s})>> \in Seq(Command)
  BY <1>1, <1>2, <1>8, OneCommand
<1>10. PICK x \in TaskRec : x = Round(rest, s, objects) /\ task' = [task EXCEPT ![t] = x]
  BY <1>a, <1>3
<1>11. /\ Handles(h, t, <<Cmd("hgetall", t, {s})>>)
       /\ \A u \in Task : u # t => task'[u] = task[u]
       /\ \A u \in Task : u # t => Lookup(u)'
  <2>1. Takes(h, t) /\ Issued(h, <<Cmd("hgetall", t, {s})>>)
    BY <1>a
  <2> QED
    BY <1>9, <1>10, <2>1, PutHandles
<1>12. Lookup(t)'
  BY <1>1, <1>3, <1>4, <1>6, <1>7 DEF Lookup
<1> QED
  BY <1>1, <1>4, <1>11, <1>12

LEMMA RoundBase ==
    ASSUME Base, NEW h \in Server, NEW t, NEW rest, NEW objects, NEW s,
           Rounds(h, t, rest, objects, s),
           reg' = reg, ctxRoom' = ctxRoom, noticeId' = noticeId, net' = net, got' = got
    PROVE  Base' /\ Steady
<1>1. /\ Handles(h, t, <<Cmd("hgetall", t, {s})>>) /\ t \in Task
      /\ task'[t] = Round(rest, s, objects)
      /\ \A u \in Task : u # t => task'[u] = task[u]
      /\ \A u \in Task : Lookup(u)'
  BY RoundHandles
<1>2. task'[t].pc = "hgetall" /\ task[t].pc \in {"keys", "hgetall", "ready"}
  BY <1>1 DEF Round, Reading, Rounds
<1>3. Chain(t[1])'
  BY <1>1, <1>2, TakesFacts, LookupMoves DEF Rounds
<1>4. /\ reg' \subseteq Socket /\ ctxRoom' \subseteq Socket /\ noticeId' \in [Socket -> Nat]
      /\ got' \in [Socket -> Seq([id : Nat, about : Origin])] /\ net' \subseteq Task \X Socket
  BY DEF Base, Typed
<1> QED
  BY <1>1, <1>3, <1>4, HandlerBase

LEMMA ReplyNullBase ==
    ASSUME Base, NEW h \in Server, ReplyNull(h)
    PROVE  Base' /\ Steady
<1>1. PICK t : t = Head(inbox[h]).who
  OBVIOUS
<1>2. /\ inbox[h] # <<>> /\ Head(inbox[h]).op = "hgetall"
      /\ task' = [task EXCEPT ![t] = [NoTask EXCEPT !.pc = "hung"]] /\ CallsBack(h)
      /\ ctxRoom' = ctxRoom /\ wire' = wire /\ reg' = reg /\ noticeId' = noticeId
      /\ net' = net /\ got' = got
  BY <1>1 DEF ReplyNull, Replied
<1>t. Takes(h, t)
  BY <1>1, <1>2, HeadTakes
<1>3. PICK p : p = "hung" /\ p \in Op \cup {"idle", "ready", "done", "hung"}
  OBVIOUS
<1>4. PICK x \in TaskRec : /\ task' = [task EXCEPT ![t] = x]
                           /\ x.pc = p /\ x.left = {} /\ x.found = {}
  BY <1>2, <1>3, NoTaskPc
<1>5. PICK e \in Seq(Command) : Issued(h, e) /\ NewFor(h, t, e)
  BY <1>2, NoneIssued DEF Base
<1>6. /\ Handles(h, t, e) /\ t \in Task /\ task'[t] = x
      /\ \A u \in Task : u # t => task'[u] = task[u]
      /\ \A u \in Task : u # t => Lookup(u)'
  BY <1>4, <1>5, <1>t, PutHandles
<1>7. Lookup(t)'
  BY <1>4, <1>6, LookupEmpty
<1>8. task[t].pc = "hgetall" /\ task'[t].pc = "hung"
  BY <1>1, <1>2, <1>3, <1>4, <1>6, HeadFacts
<1>9. Chain(t[1])'
  BY <1>2, <1>6, <1>8, <1>t, TakesFacts, LookupMoves
<1>10. /\ reg' \subseteq Socket /\ ctxRoom' \subseteq Socket /\ noticeId' \in [Socket -> Nat]
       /\ got' \in [Socket -> Seq([id : Nat, about : Origin])] /\ net' \subseteq Task \X Socket
  BY <1>2 DEF Base, Typed
<1> QED
  BY <1>2, <1>6, <1>7, <1>9, <1>10, HandlerBase

-----------------------------------------------------------------------------
(* The sends that a chain starts.                                          *)

LEMMA SubTask ==
    ASSUME NEW r \in Origin, NEW k \in Copy \cup User
    PROVE  /\ <<r, k>> \in Task /\ <<r, k>> # <<r, Main>>
           /\ <<r, k>>[1] = r /\ <<r, k>>[2] = k
<1>1. <<r, k>> \in Task /\ k # Main
  BY TaskFacts
<1> QED
  BY <1>1

\* The command after them: none, or the change of the member set.
Follows(t, cmds) ==
    \/ cmds = <<>>
    \/ \E op \in {"sadd", "srem"}, K \in SUBSET Socket : cmds = <<Cmd(op, t, K)>>

After(cmds) == IF cmds = <<>> THEN "done" ELSE cmds[1].op

LEMMA FollowsFacts ==
    ASSUME NEW t \in Task, NEW cmds, Follows(t, cmds)
    PROVE  /\ cmds \in Seq(Command) /\ Len(cmds) \in Nat
           /\ After(cmds) \in {"sadd", "srem", "done"}
           /\ \A i \in 1 .. Len(cmds) : /\ i = 1 /\ cmds[i].who = t
                                        /\ cmds[i].op = After(cmds)
                                        /\ cmds[i].op \in {"sadd", "srem"}
<1>1. CASE cmds = <<>>
  BY <1>1 DEF After
<1>2. ASSUME NEW op \in {"sadd", "srem"}, NEW K \in SUBSET Socket, cmds = <<Cmd(op, t, K)>>
      PROVE  /\ cmds \in Seq(Command) /\ Len(cmds) \in Nat
             /\ After(cmds) \in {"sadd", "srem", "done"}
             /\ \A i \in 1 .. Len(cmds) : /\ i = 1 /\ cmds[i].who = t
                                          /\ cmds[i].op = After(cmds)
                                          /\ cmds[i].op \in {"sadd", "srem"}
  <2>1. PICK c \in Command : c = Cmd(op, t, K) /\ c.op = op /\ c.who = t /\ cmds = <<c>>
    <3>1. op \in Op
      BY DEF Op
    <3> QED
      BY <1>2, <3>1, CmdType
  <2>2. cmds # <<>> /\ cmds[1] = c /\ Len(cmds) = 1
    BY <2>1
  <2> QED
    BY <2>1, <2>2 DEF After
<1> QED
  BY <1>1, <1>2 DEF Follows

\* A callback of chain t that starts the n sends of q.
Spawns(h, t, n, q, cmds) ==
    /\ Takes(h, t) /\ t = <<t[1], Main>> /\ Follows(t, cmds)
    /\ n \in Nat /\ q \in [1 .. n -> Copy \cup User]
    /\ \A i, j \in 1 .. n : i # j => q[i] # q[j]
    /\ \A k \in Copy \cup User : task[<<t[1], k>>].pc = "idle"
    /\ Spawn(t, q, cmds)

\* What it issues: a KEYS for each, then cmds.
SpawnCommands(all, t, n, q, cmds) ==
    /\ all \in Seq(Command) /\ Len(all) = n + Len(cmds)
    /\ \A i \in 1 .. n : all[i] = Cmd("keys", <<t[1], q[i]>>, {})
    /\ \A i \in 1 .. Len(cmds) : all[n + i] = cmds[i]

LEMMA SpawnTasks ==
    ASSUME Base, NEW h \in Server, NEW t, NEW n, NEW q, NEW cmds, Spawns(h, t, n, q, cmds)
    PROVE  /\ t \in Task /\ t[1] \in Origin
           /\ task' \in [Task -> TaskRec]
           /\ task'[t].pc = After(cmds) /\ task'[t].left = {} /\ task'[t].found = {}
           /\ \A i \in 1 .. n : task'[<<t[1], q[i]>>].pc = "keys"
           /\ \A u \in Task : \/ u = t
                              \/ /\ u[1] = t[1] /\ (\E i \in 1 .. n : u[2] = q[i])
                                 /\ task'[u].pc = "keys" /\ task'[u].left = {} /\ task'[u].found = {}
                              \/ task'[u] = task[u]
           /\ \A u \in Task : u[1] # t[1] => task'[u] = task[u]
<1>1. /\ Takes(h, t) /\ t = <<t[1], Main>> /\ Follows(t, cmds)
      /\ n \in Nat /\ q \in [1 .. n -> Copy \cup User]
      /\ task' = [u \in Task |->
                   IF u = t
                   THEN [NoTask EXCEPT !.pc = IF cmds = <<>> THEN "done" ELSE cmds[1].op]
                   ELSE IF u[1] = t[1] /\ u[2] \in Range(q)
                   THEN [NoTask EXCEPT !.pc = "keys"]
                   ELSE task[u]]
  BY DEF Spawns, Spawn
<1>2. t \in Task /\ t[1] \in Origin /\ Typed
  BY <1>1, TakesFacts, TaskFacts DEF Base
<1>3. After(cmds) \in Op \cup {"idle", "ready", "done", "hung"} /\ "keys" \in Op \cup {"idle", "ready", "done", "hung"}
  BY <1>1, <1>2, FollowsFacts DEF Op
<1>4. PICK x \in TaskRec : /\ x = [NoTask EXCEPT !.pc = After(cmds)]
                           /\ x.pc = After(cmds) /\ x.left = {} /\ x.found = {}
  BY <1>3, NoTaskPc
<1>5. PICK y \in TaskRec : /\ y = [NoTask EXCEPT !.pc = "keys"]
                           /\ y.pc = "keys" /\ y.left = {} /\ y.found = {}
  BY <1>3, NoTaskPc
<1>6. task' = [u \in Task |-> IF u = t THEN x
                              ELSE IF u[1] = t[1] /\ u[2] \in Range(q) THEN y ELSE task[u]]
  BY <1>1, <1>4, <1>5 DEF After
<1>7. task \in [Task -> TaskRec]
  BY <1>2 DEF Typed, TaskRec
<1>8. task' \in [Task -> TaskRec]
  BY <1>6, <1>7
<1>9. \A k : k \in Range(q) <=> \E i \in 1 .. n : k = q[i]
  BY <1>1 DEF Range
<1>10. ASSUME NEW i \in 1 .. n PROVE task'[<<t[1], q[i]>>] = y
  <2>1. PICK k \in Copy \cup User : k = q[i]
    BY <1>1
  <2>2. PICK u \in Task : u = <<t[1], k>> /\ u # t /\ u[1] = t[1] /\ u[2] = k
    <3>1. PICK r \in Origin : r = t[1] /\ t = <<r, Main>>
      BY <1>1, <1>2
    <3>2. /\ <<r, k>> \in Task /\ <<r, k>> # <<r, Main>>
          /\ <<r, k>>[1] = r /\ <<r, k>>[2] = k
      BY SubTask
    <3> QED
      BY <3>1, <3>2, Zenon
  <2> QED
    BY <1>6, <1>9, <2>1, <2>2
<1>11. ASSUME NEW u \in Task
       PROVE  /\ u = t => task'[u] = x
              /\ u # t => \/ u[1] = t[1] /\ (\E i \in 1 .. n : u[2] = q[i]) /\ task'[u] = y
                          \/ task'[u] = task[u]
              /\ u[1] # t[1] => task'[u] = task[u]
  BY <1>6, <1>9
<1> QED
  BY <1>2, <1>4, <1>5, <1>8, <1>10, <1>11

LEMMA SpawnIssues ==
    ASSUME Base, NEW h \in Server, NEW t, NEW n, NEW q, NEW cmds, Spawns(h, t, n, q, cmds)
    PROVE  \E all : SpawnCommands(all, t, n, q, cmds) /\ Issued(h, all)
<1>1. /\ Takes(h, t) /\ t = <<t[1], Main>> /\ Follows(t, cmds)
      /\ n \in Nat /\ q \in [1 .. n -> Copy \cup User]
      /\ Issued(Srv(t), [i \in DOMAIN q |-> Cmd("keys", <<t[1], q[i]>>, {})] \o cmds)
  BY DEF Spawns, Spawn
<1>2. t \in Task /\ t[1] \in Origin /\ Srv(t) = h
  BY <1>1, TakesFacts, TaskFacts
<1>3. PICK ks : ks = [i \in DOMAIN q |-> Cmd("keys", <<t[1], q[i]>>, {})]
  OBVIOUS
<1>4. DOMAIN q = 1 .. n /\ "keys" \in Op
  BY <1>1 DEF Op
<1>5. \A i \in 1 .. n : Cmd("keys", <<t[1], q[i]>>, {}) \in Command
  <2> SUFFICES ASSUME NEW i \in 1 .. n PROVE Cmd("keys", <<t[1], q[i]>>, {}) \in Command
    OBVIOUS
  <2>1. <<t[1], q[i]>> \in Task
    BY <1>1, <1>2, TaskFacts
  <2> QED
    BY <1>4, <2>1, CmdType
<1>6. ks \in [1 .. n -> Command] /\ \A i \in 1 .. n : ks[i] = Cmd("keys", <<t[1], q[i]>>, {})
  BY <1>3, <1>4, <1>5
<1>7. ks \in Seq(Command) /\ Len(ks) = n
  BY <1>1, <1>6
<1>8. cmds \in Seq(Command) /\ Len(cmds) \in Nat
  BY <1>1, <1>2, FollowsFacts
<1>9. PICK all : all = ks \o cmds
  OBVIOUS
<1>10. /\ all \in Seq(Command) /\ Len(all) = n + Len(cmds)
       /\ \A i \in 1 .. n : all[i] = ks[i]
       /\ \A i \in 1 .. Len(cmds) : all[n + i] = cmds[i]
  <2>1. Joined(Command, ks, n, cmds, Len(cmds), all)
    BY <1>7, <1>8, <1>9, CatIs
  <2> QED
    BY ONLY <2>1 DEF Joined
<1>11. Issued(h, all)
  BY <1>1, <1>2, <1>3, <1>9, Zenon
<1> QED
  BY <1>6, <1>10, <1>11 DEF SpawnCommands

LEMMA SpawnHandles ==
    ASSUME Base, NEW h \in Server, NEW t, NEW n, NEW q, NEW cmds, Spawns(h, t, n, q, cmds)
    PROVE  /\ \E all : SpawnCommands(all, t, n, q, cmds) /\ Handles(h, t, all)
           /\ \A u \in Task : u[1] = t[1] => Lookup(u)'
<1>1. /\ Takes(h, t) /\ t = <<t[1], Main>> /\ Follows(t, cmds)
      /\ n \in Nat /\ q \in [1 .. n -> Copy \cup User]
      /\ \A i, j \in 1 .. n : i # j => q[i] # q[j]
      /\ \A k \in Copy \cup User : task[<<t[1], k>>].pc = "idle"
  BY DEF Spawns
<1>2. PICK all : SpawnCommands(all, t, n, q, cmds) /\ Issued(h, all)
  BY SpawnIssues
<1>3. /\ t \in Task /\ t[1] \in Origin
      /\ task' \in [Task -> TaskRec]
      /\ task'[t].pc = After(cmds) /\ task'[t].left = {} /\ task'[t].found = {}
      /\ \A i \in 1 .. n : task'[<<t[1], q[i]>>].pc = "keys"
      /\ \A u \in Task : \/ u = t
                         \/ /\ u[1] = t[1] /\ (\E i \in 1 .. n : u[2] = q[i])
                            /\ task'[u].pc = "keys" /\ task'[u].left = {} /\ task'[u].found = {}
                         \/ task'[u] = task[u]
      /\ \A u \in Task : u[1] # t[1] => task'[u] = task[u]
  BY SpawnTasks
<1>4. origin' = origin /\ Srv(t) = h
  BY <1>1, TakesFacts
<1>5. \A k : Srv(<<t[1], k>>)' = h
  BY <1>4 DEF Srv
<1>6. /\ cmds \in Seq(Command) /\ Len(cmds) \in Nat
      /\ \A i \in 1 .. Len(cmds) : /\ i = 1 /\ cmds[i].who = t
                                   /\ cmds[i].op = After(cmds)
                                   /\ cmds[i].op \in {"sadd", "srem"}
  BY <1>1, <1>3, FollowsFacts
<1>7. /\ all \in Seq(Command) /\ Len(all) = n + Len(cmds)
      /\ \A i \in 1 .. n : all[i] = Cmd("keys", <<t[1], q[i]>>, {})
      /\ \A i \in 1 .. Len(cmds) : all[n + i] = cmds[i]
  BY <1>2 DEF SpawnCommands
<1>8. ASSUME NEW i \in 1 .. n
      PROVE  /\ all[i].op = "keys" /\ all[i].who = <<t[1], q[i]>> /\ <<t[1], q[i]>> # t
             /\ task[all[i].who].pc = "idle" /\ GoodCommand(h, all[i])'
  <2>1. PICK k \in Copy \cup User : k = q[i]
    BY <1>1
  <2>2. <<t[1], k>> \in Task /\ <<t[1], k>> # t /\ "keys" \in Op
    BY <1>1, <1>3, TaskFacts DEF Op
  <2>3. PICK c : c = all[i] /\ c.op = "keys" /\ c.who = <<t[1], k>>
    <3>1. all[i] = Cmd("keys", <<t[1], k>>, {}) /\ {} \in SUBSET Socket
      BY <1>7, <2>1
    <3> QED
      BY <2>2, <3>1 DEF Cmd
  <2>4. GoodCommand(h, c)'
    BY <1>3, <1>5, <2>1, <2>3 DEF GoodCommand
  <2> QED
    BY <1>1, <2>1, <2>2, <2>3, <2>4
<1>9. ASSUME NEW i \in 1 .. Len(cmds)
      PROVE  i = 1 /\ all[n + i].who = t /\ GoodCommand(h, all[n + i])'
  <2>1. PICK c : c = all[n + i] /\ c = cmds[i]
    BY <1>7
  <2>2. c.who = t /\ c.op = task'[t].pc /\ c.op \in {"sadd", "srem"}
    BY <1>3, <1>6, <2>1
  <2>3. Srv(t)' = h
    BY <1>1, <1>5
  <2>4. GoodCommand(h, c)'
    BY <2>2, <2>3 DEF GoodCommand
  <2> QED
    BY <1>6, <2>1, <2>2, <2>4
<1>10. ASSUME NEW i \in 1 .. Len(all), ~(i \in 1 .. n)
       PROVE  /\ i = n + 1 /\ all[i].who = t /\ GoodCommand(h, all[i])'
  <2>1. i - n \in 1 .. Len(cmds) /\ i = n + (i - n)
    BY <1>1, <1>6, <1>7, <1>10
  <2>2. PICK j \in 1 .. Len(cmds) : i = n + j
    BY <2>1
  <2> QED
    BY <1>9, <2>2
<1>11. NewFor(h, t, all)
  <2>1. \A i \in 1 .. Len(all) : /\ GoodCommand(h, all[i])'
                                 /\ all[i].who = t \/ task[all[i].who].pc = "idle"
    BY <1>8, <1>10
  <2>2. ASSUME NEW i \in 1 .. Len(all), NEW j \in 1 .. Len(all), all[i].who = all[j].who
        PROVE  i = j
    <3>1. CASE i \in 1 .. n /\ j \in 1 .. n
      <4>1. <<t[1], q[i]>> = <<t[1], q[j]>>
        BY <1>8, <2>2, <3>1
      <4>2. q[i] = q[j]
        BY <4>1
      <4> QED
        BY <1>1, <3>1, <4>2
    <3>2. CASE i \in 1 .. n /\ ~(j \in 1 .. n)
      BY <1>8, <1>10, <2>2, <3>2
    <3>3. CASE ~(i \in 1 .. n) /\ j \in 1 .. n
      BY <1>8, <1>10, <2>2, <3>3
    <3>4. CASE ~(i \in 1 .. n) /\ ~(j \in 1 .. n)
      BY <1>10, <2>2, <3>4
    <3> QED
      BY <3>1, <3>2, <3>3, <3>4
  <2> QED
    BY <2>1, <2>2 DEF NewFor
<1>12. ASSUME NEW u \in Task, u # t, task'[u] # task[u]
       PROVE  task[u].pc = "idle" /\ task'[u].left = {} /\ task'[u].found = {}
  <2>1. /\ u[1] = t[1] /\ task'[u].left = {} /\ task'[u].found = {}
    BY <1>3, <1>12
  <2>2. u = <<t[1], u[2]>> /\ u[2] \in Copy \cup User
    BY <1>1, <1>12, <2>1, TaskFacts
  <2> QED
    BY <1>1, <2>1, <2>2
<1>13. Undisturbed(t)
  BY <1>4, <1>12 DEF Undisturbed, Settled
<1>14. Handles(h, t, all)
  BY <1>1, <1>2, <1>3, <1>7, <1>11, <1>13 DEF Handles
<1>15. ASSUME NEW u \in Task PROVE Lookup(u)'
  <2>1. CASE task'[u].left = {} /\ task'[u].found = {}
    BY <2>1, LookupEmpty
  <2>2. CASE task'[u] = task[u]
    BY <1>4, <2>2, LookupStays DEF Base
  <2> QED
    BY <1>3, <1>12, <2>1, <2>2
<1> QED
  BY <1>2, <1>14, <1>15

LEMMA SpawnBase ==
    ASSUME Base, NEW h \in Server, NEW t, NEW n, NEW q, NEW cmds, Spawns(h, t, n, q, cmds),
           origin[t[1]] # NoOrigin, After(cmds) \in MainPc(t[1]),
           \A i \in 1 .. n : q[i] \in IF origin[t[1]].kind = "msg" THEN Copy ELSE User,
           reg' = reg, ctxRoom' = ctxRoom, noticeId' = noticeId, net' = net, got' = got
    PROVE  Base' /\ Steady
<1>1. PICK all : Handles(h, t, all)
  BY SpawnHandles
<1>2. \A u \in Task : u[1] = t[1] => Lookup(u)'
  BY SpawnHandles
<1>3. /\ t \in Task /\ t[1] \in Origin
      /\ task'[t].pc = After(cmds)
      /\ \A u \in Task : \/ u = t
                         \/ /\ u[1] = t[1] /\ (\E i \in 1 .. n : u[2] = q[i])
                            /\ task'[u].pc = "keys"
                         \/ task'[u] = task[u]
  BY SpawnTasks
<1>4. /\ t = <<t[1], Main>> /\ Takes(h, t) /\ Follows(t, cmds)
      /\ \A k \in Copy \cup User : task[<<t[1], k>>].pc = "idle"
  BY DEF Spawns
<1>5. origin' = origin /\ After(cmds) \in {"sadd", "srem", "done"}
  BY <1>3, <1>4, TakesFacts, FollowsFacts
<1>6. PICK r \in Origin : r = t[1]
  BY <1>3
<1>7. ASSUME NEW k \in Copy \cup User, task'[<<r, k>>].pc # "idle"
      PROVE  /\ task'[<<r, k>>].pc = "keys"
             /\ k \in IF origin[r].kind = "msg" THEN Copy ELSE User
  <2>1. PICK u \in Task : u = <<r, k>> /\ u # t /\ u[2] = k
    <3>1. t = <<r, Main>>
      BY <1>4, <1>6
    <3>2. /\ <<r, k>> \in Task /\ <<r, k>> # <<r, Main>> /\ <<r, k>>[2] = k
      BY SubTask
    <3> QED
      BY <3>1, <3>2, Zenon
  <2>2. task'[u] # task[u]
    BY <1>4, <1>6, <1>7, <2>1
  <2>3. /\ \E i \in 1 .. n : k = q[i]
        /\ task'[u].pc = "keys"
    BY <1>3, <2>1, <2>2
  <2> QED
    BY <1>6, <2>1, <2>3
<1>8. task'[<<r, Main>>].pc = After(cmds) /\ MainPc(r)' = MainPc(r)
  BY <1>3, <1>4, <1>5, <1>6 DEF MainPc
<1>9. Chain(r)'
  BY <1>5, <1>6, <1>7, <1>8 DEF Chain
<1>10. /\ reg' \subseteq Socket /\ ctxRoom' \subseteq Socket /\ noticeId' \in [Socket -> Nat]
       /\ got' \in [Socket -> Seq([id : Nat, about : Origin])] /\ net' \subseteq Task \X Socket
  BY DEF Base, Typed
<1> QED
  BY <1>1, <1>2, <1>6, <1>9, <1>10, HandlerBase

-----------------------------------------------------------------------------
(* The end of a lookup.                                                    *)

LEMMA FoundBound ==
    ASSUME NEW t, NEW rest, NEW objects, Reading(t, rest, objects)
    PROVE  /\ Cardinality(objects) \in Nat
           /\ \A i \in 1 .. Cardinality(objects) : i \in Copy
<1>1. objects \in SUBSET (Socket \X BOOLEAN) /\ \A o, p \in objects : o[1] = p[1] => o = p
  BY DEF Reading
<1> DEFINE f == [o \in objects |-> o[1]]
<1>2. f \in [objects -> Socket] /\ \A o \in objects : f[o] = o[1]
  BY <1>1
<1> HIDE DEF f
<1>3. \A o, p \in objects : f[o] = f[p] => o = p
  BY <1>1, <1>2
<1>4. f \in Injection(objects, Socket)
  BY <1>2, <1>3 DEF Injection, IsInjective
<1>5. IsFiniteSet(objects) /\ Cardinality(objects) <= Cardinality(Socket)
  BY <1>4, NoticeAssumption, FS_Injection
<1>6. Cardinality(objects) \in Nat /\ Cardinality(Socket) \in Nat
  BY <1>5, NoticeAssumption, FS_CardinalityType
<1> QED
  BY <1>5, <1>6 DEF Copy

\* A send that has found its sessions: a callback, and what it tells whom.
Delivers(h, t, objects) ==
    /\ Takes(h, t) /\ Reading(t, {}, objects) /\ t[2] # Main
    /\ task' = [task EXCEPT ![t] = [NoTask EXCEPT !.pc = "done"]]
    /\ Deliver(t, objects)

TellsHere(h, t, s) ==
    /\ s \in Sessions(Addressee(t)) /\ Home[s] = h
    /\ got'[s] = Append(got[s], Numbered(s, t[1])) /\ noticeId'[s] = noticeId[s] + 1

Told(h, t) ==
    /\ reg' \subseteq reg
    /\ noticeId' \in [Socket -> Nat]
    /\ got' \in [Socket -> Seq([id : Nat, about : Origin])]
    /\ \A s \in Socket : \/ got'[s] = got[s] /\ noticeId'[s] = noticeId[s]
                         \/ TellsHere(h, t, s)
    /\ net' \subseteq Task \X Socket /\ net \subseteq net'
    /\ \A m \in net' : \/ m \in net
                       \/ m[1] = t /\ m[2] \in Sessions(Addressee(t)) /\ Home[m[2]] # h

LEMMA DeliverTells ==
    ASSUME Base, NEW h \in Server, NEW t, NEW objects, Delivers(h, t, objects)
    PROVE  Told(h, t)
<1>1. Takes(h, t) /\ Reading(t, {}, objects) /\ Deliver(t, objects)
  BY DEF Delivers
<1>2. /\ t \in Task /\ Srv(t) = h /\ objects \in SUBSET (Socket \X BOOLEAN)
      /\ \A o \in objects : o[1] \in Sessions(Addressee(t)) /\ o[1] \in Socket
      /\ t[1] \in Origin /\ Typed
  BY <1>1, TakesFacts, TaskFacts DEF Reading, Sessions, Base
<1>3. PICK local : local = {o \in objects : Home[o[1]] = h}
  OBVIOUS
<1>4. PICK open : open = {o[1] : o \in {x \in local : x[2] /\ ws[x[1]] = "open"}}
  OBVIOUS
<1>5. \A s \in open : s \in Sessions(Addressee(t)) /\ Home[s] = h
  BY <1>2, <1>3, <1>4
<1>6. /\ got' = [s \in Socket |-> IF s \in open THEN Append(got[s], Numbered(s, t[1]))
                                                ELSE got[s]]
      /\ noticeId' = [s \in Socket |-> IF s \in open THEN noticeId[s] + 1 ELSE noticeId[s]]
      /\ reg' \subseteq reg
      /\ net' = net \cup {<<t, o[1]>> : o \in objects \ local}
  BY <1>1, <1>2, <1>3, <1>4 DEF Deliver, Numbered
<1>7. ASSUME NEW s \in Socket
      PROVE  /\ got[s] \in Seq([id : Nat, about : Origin])
             /\ Append(got[s], Numbered(s, t[1])) \in Seq([id : Nat, about : Origin])
             /\ noticeId[s] \in Nat /\ noticeId[s] + 1 \in Nat
  <2>1. PICK r \in Origin : r = t[1]
    BY <1>2
  <2>2. /\ got[s] \in Seq([id : Nat, about : Origin]) /\ noticeId[s] \in Nat
        /\ Append(got[s], Numbered(s, r)) \in Seq([id : Nat, about : Origin])
    BY <1>2, NumberedType
  <2> QED
    BY <2>1, <2>2
<1>8. /\ noticeId' \in [Socket -> Nat]
      /\ got' \in [Socket -> Seq([id : Nat, about : Origin])]
  BY <1>6, <1>7
<1>9. ASSUME NEW s \in Socket
      PROVE  (got'[s] = got[s] /\ noticeId'[s] = noticeId[s]) \/ TellsHere(h, t, s)
  BY <1>5, <1>6 DEF TellsHere
<1>10. \A o \in objects \ local : Home[o[1]] # h
  BY <1>3
<1>11. net' \subseteq Task \X Socket /\ net \subseteq net'
  BY <1>2, <1>6 DEF Typed
<1>12. ASSUME NEW m \in net', m \notin net
       PROVE  m[1] = t /\ m[2] \in Sessions(Addressee(t)) /\ Home[m[2]] # h
  <2>1. PICK o \in objects \ local : m = <<t, o[1]>>
    BY <1>6, <1>12
  <2> QED
    BY <1>2, <1>10, <2>1
<1> QED
  BY <1>6, <1>8, <1>9, <1>11, <1>12 DEF Told

LEMMA DeliverHandles ==
    ASSUME Base, NEW h \in Server, NEW t, NEW objects, Delivers(h, t, objects)
    PROVE  /\ \E cmds : /\ Handles(h, t, cmds)
                        /\ \A i \in 1 .. Len(cmds) : cmds[i].op = "del"
           /\ t \in Task /\ task[t].pc \in {"keys", "hgetall", "ready"}
           /\ task'[t].pc = "done" /\ task'[t].left = {} /\ task'[t].found = {}
           /\ \A u \in Task : u # t => task'[u] = task[u]
           /\ \A u \in Task : Lookup(u)'
<1>1. /\ Takes(h, t) /\ Reading(t, {}, objects) /\ Deliver(t, objects)
      /\ task' = [task EXCEPT ![t] = [NoTask EXCEPT !.pc = "done"]]
  BY DEF Delivers
<1>2. t \in Task /\ Srv(t) = h /\ task[t].pc \in {"keys", "hgetall", "ready"}
      /\ objects \in SUBSET (Socket \X BOOLEAN)
  BY <1>1, TakesFacts DEF Reading
<1>3. PICK local : local = {o \in objects : Home[o[1]] = h}
  OBVIOUS
<1>4. PICK open : open = {o[1] : o \in {x \in local : x[2] /\ ws[x[1]] = "open"}}
  OBVIOUS
<1>5. PICK K : K = {o[1] : o \in local} \ open
  OBVIOUS
<1>6. K \in SUBSET Socket /\ "del" \in Op
  BY <1>2, <1>3, <1>5 DEF Op
<1>7. PICK q \in SetToSeqs(K) : Issued(h, [i \in DOMAIN q |-> Cmd("del", t, {q[i]})])
  BY <1>1, <1>2, <1>3, <1>4, <1>5 DEF Deliver
<1>8. PICK n \in Nat : q \in [1 .. n -> K]
  <2>1. Cardinality(K) \in Nat
    BY <1>6, NoticeAssumption, FS_Subset, FS_CardinalityType
  <2> QED
    BY <1>7, <2>1 DEF SetToSeqs
<1>9. PICK cmds : cmds = [i \in DOMAIN q |-> Cmd("del", t, {q[i]})] /\ Issued(h, cmds)
  BY <1>7
<1>10. cmds \in Seq(Command) /\ \A i \in 1 .. Len(cmds) : cmds[i].op = "del"
  <2>1. DOMAIN q = 1 .. n
    BY <1>8
  <2>2. ASSUME NEW i \in 1 .. n
        PROVE  Cmd("del", t, {q[i]}) \in Command /\ Cmd("del", t, {q[i]}).op = "del"
    <3>1. {q[i]} \in SUBSET Socket
      BY <1>6, <1>8
    <3> QED
      BY <1>2, <1>6, <3>1, CmdType
  <2>3. cmds \in [1 .. n -> Command] /\ \A i \in 1 .. n : cmds[i].op = "del"
    BY <1>9, <2>1, <2>2
  <2> QED
    BY <2>3
<1>11. NewFor(h, t, cmds)
  BY <1>10 DEF NewFor, GoodCommand
<1>12. PICK p : p = "done" /\ p \in Op \cup {"idle", "ready", "done", "hung"}
  OBVIOUS
<1>13. PICK x \in TaskRec : /\ task' = [task EXCEPT ![t] = x]
                            /\ x.pc = p /\ x.left = {} /\ x.found = {}
  BY <1>1, <1>12, NoTaskPc
<1>14. /\ Handles(h, t, cmds) /\ task'[t] = x
       /\ \A u \in Task : u # t => task'[u] = task[u]
       /\ \A u \in Task : u # t => Lookup(u)'
  <2>1. Takes(h, t) /\ Issued(h, cmds)
    BY <1>1, <1>9
  <2> QED
    BY <1>10, <1>11, <1>13, <2>1, PutHandles
<1>15. Lookup(t)'
  BY <1>13, <1>14, LookupEmpty
<1> QED
  BY <1>2, <1>10, <1>12, <1>13, <1>14, <1>15

LEMMA DeliverBase ==
    ASSUME Base, NEW h \in Server, NEW t, NEW objects, Delivers(h, t, objects),
           ctxRoom' = ctxRoom
    PROVE  Base' /\ Steady
<1>1. PICK cmds : Handles(h, t, cmds)
  BY DeliverHandles
<1>2. /\ t \in Task /\ task[t].pc \in {"keys", "hgetall", "ready"} /\ task'[t].pc = "done"
      /\ \A u \in Task : u # t => task'[u] = task[u]
      /\ \A u \in Task : Lookup(u)'
  BY DeliverHandles
<1>3. Told(h, t)
  BY DeliverTells
<1>4. Takes(h, t) /\ t[2] # Main
  BY DEF Delivers
<1>5. origin' = origin /\ ws' = ws /\ Srv(t) = h
  BY <1>4, TakesFacts
<1>6. Chain(t[1])'
  BY <1>2, <1>3, <1>5, LookupMoves DEF Told
<1>7. Srv(t)' = h /\ Sessions(Addressee(t))' = Sessions(Addressee(t))
  BY <1>5 DEF Srv, Sessions, Addressee
<1>8. \A s \in Sessions(Addressee(t)) : t \in Sends(s)'
  BY <1>2, <1>4, <1>7 DEF Sends
<1>9. \A m \in net' : m \in net \/ (m[1] \in Sends(m[2])' /\ Home[m[2]] # Srv(m[1])')
  BY <1>3, <1>7, <1>8 DEF Told
<1>10. reg \subseteq Socket /\ ctxRoom' \subseteq Socket
  BY DEF Base, Typed
<1>11. /\ reg' \subseteq Socket /\ noticeId' \in [Socket -> Nat]
       /\ got' \in [Socket -> Seq([id : Nat, about : Origin])] /\ net' \subseteq Task \X Socket
       /\ \A r \in reg' : r \in reg
  BY <1>3, <1>10 DEF Told
<1> QED
  BY <1>1, <1>2, <1>6, <1>9, <1>10, <1>11, HandlerBase

\* What a lookup that has rest still to read comes to.
Searches(t, rest, objects) ==
    \/ rest # {} /\ ReadNext(t, rest, objects)
    \/ rest = {} /\ Resolve(t, objects)

LookupStepIs(h, t, rest, objects) ==
    \/ /\ \E s : Rounds(h, t, rest, objects, s)
       /\ reg' = reg /\ noticeId' = noticeId /\ net' = net /\ got' = got
    \/ /\ rest = {} /\ t[2] = Main /\ Reading(t, rest, objects)
       /\ \E q : /\ Spawns(h, t, Cardinality(objects), q, <<>>)
                 /\ \A i \in 1 .. Cardinality(objects) : q[i] = i
       /\ reg' = reg /\ noticeId' = noticeId /\ net' = net /\ got' = got
    \/ rest = {} /\ Delivers(h, t, objects)

LEMMA LookupStepCases ==
    ASSUME Base, NEW h \in Server, NEW t, Takes(h, t),
           NEW rest, NEW objects, Reading(t, rest, objects), Searches(t, rest, objects)
    PROVE  LookupStepIs(h, t, rest, objects)
<1>1. t \in Task /\ task[t].pc \in {"keys", "hgetall", "ready"} /\ Srv(t) = h
  BY TakesFacts DEF Reading
<1>2. CASE rest # {}
  <2>1. PICK s \in rest :
          /\ task' = [task EXCEPT ![t] = [pc |-> "hgetall", left |-> rest \ {s},
                                          found |-> objects]]
          /\ Issued(Srv(t), <<Cmd("hgetall", t, {s})>>)
          /\ UNCHANGED <<reg, noticeId, net, got>>
    BY <1>2 DEF Searches, ReadNext
  <2>2. task' = [task EXCEPT ![t] = Round(rest, s, objects)]
    BY <2>1 DEF Round
  <2>3. Rounds(h, t, rest, objects, s)
    BY <1>1, <2>1, <2>2 DEF Rounds
  <2> QED
    BY <2>1, <2>3 DEF LookupStepIs
<1>3. CASE rest = {} /\ t[2] = Main
  <2>1. /\ Spawn(t, [i \in 1 .. Cardinality(objects) |-> i], <<>>)
        /\ UNCHANGED <<reg, noticeId, net, got>>
    BY <1>3 DEF Searches, Resolve
  <2>2. PICK n \in Nat : n = Cardinality(objects) /\ \A i \in 1 .. n : i \in Copy
    BY FoundBound
  <2>3. PICK q : q = [i \in 1 .. n |-> i] /\ Spawn(t, q, <<>>)
    BY <2>1, <2>2
  <2>4. q \in [1 .. n -> Copy \cup User] /\ \A i \in 1 .. n : q[i] = i
    BY <2>2, <2>3
  <2>5. /\ t = <<t[1], Main>>
        /\ \A k \in Copy \cup User : task[<<t[1], k>>].pc = "idle"
    BY <1>1, <1>3, ReadKinds
  <2>6. Follows(t, <<>>)
    BY DEF Follows
  <2>7. Spawns(h, t, n, q, <<>>)
    BY <2>2, <2>3, <2>4, <2>5, <2>6 DEF Spawns
  <2> QED
    BY <1>3, <2>1, <2>2, <2>4, <2>7 DEF LookupStepIs
<1>4. CASE rest = {} /\ t[2] # Main
  BY <1>4 DEF Searches, Resolve, LookupStepIs, Delivers
<1> QED
  BY <1>2, <1>3, <1>4

LEMMA LookupStepBase ==
    ASSUME Base, NEW h \in Server, NEW t, NEW rest, NEW objects,
           LookupStepIs(h, t, rest, objects), ctxRoom' = ctxRoom
    PROVE  Base' /\ Steady
<1>1. ASSUME NEW s, Rounds(h, t, rest, objects, s),
             reg' = reg, noticeId' = noticeId, net' = net, got' = got
      PROVE  Base' /\ Steady
  BY <1>1, RoundBase
<1>2. ASSUME t[2] = Main, NEW q, Spawns(h, t, Cardinality(objects), q, <<>>),
             Reading(t, rest, objects),
             \A i \in 1 .. Cardinality(objects) : q[i] = i,
             reg' = reg, noticeId' = noticeId, net' = net, got' = got
      PROVE  Base' /\ Steady
  <2>1. PICK n \in Nat : n = Cardinality(objects) /\ \A i \in 1 .. n : i \in Copy
    BY <1>2, FoundBound
  <2>2. t \in Task /\ task[t].pc \in {"keys", "hgetall", "ready"}
    BY <1>2 DEF Reading
  <2>3. /\ origin[t[1]] # NoOrigin /\ origin[t[1]].kind = "msg" /\ "done" \in MainPc(t[1])
    BY <1>2, <2>2, ReadKinds
  <2>4. PICK e : e = <<>> /\ Spawns(h, t, n, q, e) /\ After(e) = "done"
    BY <1>2, <2>1 DEF After
  <2>5. \A i \in 1 .. n : q[i] \in IF origin[t[1]].kind = "msg" THEN Copy ELSE User
    BY <1>2, <2>1, <2>3
  <2> QED
    BY <1>2, <2>3, <2>4, <2>5, SpawnBase
<1>3. ASSUME Delivers(h, t, objects) PROVE Base' /\ Steady
  BY <1>3, DeliverBase
<1> QED
  BY <1>1, <1>2, <1>3 DEF LookupStepIs

\* KEYS is answered.
LEMMA ReplyKeysIs ==
    ASSUME Base, NEW h \in Server, ReplyKeys(h)
    PROVE  /\ inbox[h] # <<>> /\ Head(inbox[h]).op = "keys"
           /\ LookupStepIs(h, Head(inbox[h]).who, Head(inbox[h]).list, {})
           /\ ctxRoom' = ctxRoom
<1>1. PICK x : x = Head(inbox[h])
  OBVIOUS
<1>2. /\ Replied(h, "keys") /\ inbox[h] # <<>> /\ x.op = "keys"
      /\ Searches(x.who, x.list, {}) /\ CallsBack(h) /\ ctxRoom' = ctxRoom
  BY <1>1 DEF ReplyKeys, Replied, Searches
<1>3. Reading(x.who, x.list, {}) /\ Takes(h, x.who)
  BY <1>1, <1>2, ReadKeys, HeadTakes
<1>4. LookupStepIs(h, x.who, x.list, {})
  BY <1>2, <1>3, LookupStepCases
<1> QED
  BY <1>1, <1>2, <1>4

\* A lookup goes on.
LEMMA ReadyReads ==
    ASSUME Base, Turn, NEW h \in Server, NEW i \in 1 .. Len(ready[h]), NEW t, t = ready[h][i]
    PROVE  /\ t \in Task /\ Srv(t) = h /\ task[t].pc = "ready"
           /\ Reading(t, task[t].left, task[t].found)
<1>1. t \in Task /\ Srv(t) = h /\ task[t].pc = "ready"
  BY DEF Turn
<1>2. Lookup(t) /\ task[t].found \in SUBSET (Socket \X BOOLEAN)
  BY <1>1 DEF Base, Typed
<1>3. \A o \in task[t].found : o[1] \in Seen(t)
  BY DEF Seen
<1> QED
  BY <1>1, <1>2, <1>3 DEF Lookup, Reading

LEMMA ResumeIs ==
    ASSUME Base, Turn, NEW h \in Server, Resume(h)
    PROVE  /\ \E t \in Task : task[t].pc = "ready" /\ LookupStepIs(h, t, task[t].left, task[t].found)
           /\ ctxRoom' = ctxRoom
<1>1. PICK i \in 1 .. Len(ready[h]) :
        /\ Searches(ready[h][i], task[ready[h][i]].left, task[ready[h][i]].found)
        /\ GoesOn(h, i)
  <2>1. DOMAIN ready[h] = 1 .. Len(ready[h])
    BY DEF Turn
  <2>2. \A more : \A i \in First(h, more) :
          i \in 1 .. Len(ready[h]) /\ (task[ready[h][i]].left # {}) = more
    BY <2>1 DEF First
  <2>3. CASE ReadOn(h)
    BY <2>2, <2>3 DEF ReadOn, Searches
  <2>4. CASE FindEnds(h)
    BY <2>2, <2>4 DEF FindEnds, Searches
  <2> QED
    BY <2>3, <2>4 DEF Resume
<1>2. PICK t : t = ready[h][i]
  OBVIOUS
<1>3. /\ t \in Task /\ Srv(t) = h /\ task[t].pc = "ready"
      /\ Reading(t, task[t].left, task[t].found)
  BY <1>2, ReadyReads
<1>4. Turned(t)
  BY <1>1, <1>2 DEF Turned, GoesOn
<1>5. Takes(h, t) /\ ctxRoom' = ctxRoom
  BY <1>1, <1>3, <1>4 DEF Takes, GoesOn, redisVars
<1>6. LookupStepIs(h, t, task[t].left, task[t].found)
  BY <1>1, <1>2, <1>3, <1>5, LookupStepCases
<1> QED
  BY <1>3, <1>5, <1>6

\* HGETALL is answered: the lookup is ready to go on.
Waiting(h, t, s, b) ==
    /\ Takes(h, t) /\ Reading(t, task[t].left, task[t].found \cup {<<s, b>>})
    /\ task[t].pc = "hgetall"
    /\ task' = [task EXCEPT ![t] = [pc |-> "ready", left |-> task[t].left,
                                    found |-> task[t].found \cup {<<s, b>>}]]
    /\ wire' = wire /\ reg' = reg /\ ctxRoom' = ctxRoom
    /\ noticeId' = noticeId /\ net' = net /\ got' = got

LEMMA TwoFields ==
    ASSUME NEW w \in [Task -> TaskRec], NEW t \in Task, NEW x
    PROVE  [w EXCEPT ![t].pc = "ready", ![t].found = @ \cup x]
              = [w EXCEPT ![t] = [pc |-> "ready", left |-> w[t].left, found |-> w[t].found \cup x]]
<1>1. PICK r \in TaskRec : r = w[t]
  OBVIOUS
<1>2. PICK f : f = r.found \cup x
  OBVIOUS
<1>3. PICK y, z : /\ y = [r EXCEPT !.pc = "ready", !.found = f]
                  /\ z = [pc |-> "ready", left |-> r.left, found |-> f]
  OBVIOUS
<1>4. /\ y.pc = "ready" /\ y.left = r.left /\ y.found = f
      /\ y = [k \in {"pc", "left", "found"} |-> y[k]]
  BY <1>3 DEF TaskRec
<1>5. y = z
  BY <1>3, <1>4
<1> QED
  BY <1>1, <1>2, <1>3, <1>5

LEMMA ReplyHgetallIs ==
    ASSUME Base, NEW h \in Server, ReplyHgetall(h)
    PROVE  /\ inbox[h] # <<>> /\ Head(inbox[h]).op = "hgetall" /\ Head(inbox[h]).list # {}
           /\ \E s, b : Waiting(h, Head(inbox[h]).who, s, b)
<1>1. PICK x : x = Head(inbox[h])
  OBVIOUS
<1>2. PICK t : t = x.who
  OBVIOUS
<1>3. /\ Replied(h, "hgetall") /\ inbox[h] # <<>> /\ x.op = "hgetall" /\ Handled(h)
      /\ ready' = [ready EXCEPT ![h] = Append(@, t)]
      /\ wire' = wire /\ reg' = reg /\ ctxRoom' = ctxRoom
      /\ noticeId' = noticeId /\ net' = net /\ got' = got
  BY <1>1, <1>2 DEF ReplyHgetall, Replied
<1>4. PICK s \in x.list :
        task' = [task EXCEPT ![t].pc = "ready",
                             ![t].found = @ \cup {<<s, Home[s] = h /\ s \in reg>>}]
  BY <1>1, <1>2 DEF ReplyHgetall
<1>5. PICK b \in BOOLEAN : b = (Home[s] = h /\ s \in reg)
  OBVIOUS
<1>6. t \in Task /\ task[t].pc = "hgetall" /\ Srv(t) = h
  BY <1>1, <1>2, <1>3, HeadFacts
<1>7. task \in [Task -> TaskRec] /\ task[t] \in TaskRec
  BY <1>6 DEF Base, Typed, TaskRec
<1>8. task' = [task EXCEPT ![t] = [pc |-> "ready", left |-> task[t].left,
                                   found |-> task[t].found \cup {<<s, b>>}]]
  <2>1. task' = [task EXCEPT ![t].pc = "ready", ![t].found = @ \cup {<<s, b>>}]
    BY <1>4, <1>5
  <2> QED
    BY <1>6, <1>7, <2>1, TwoFields, Zenon
<1>9. Reading(t, task[t].left, task[t].found \cup {<<s, b>>})
  BY <1>1, <1>2, <1>3, ReadHash
<1>10. task'[t].pc = "ready" /\ Srv(t)' = h
  <2>1. origin' = origin
    BY <1>3 DEF Handled
  <2> QED
    BY <1>6, <1>7, <1>8, <2>1 DEF Srv
<1>11. Turned(t)
  BY <1>3, <1>6, <1>10 DEF Turned
<1>12. Takes(h, t)
  BY <1>1, <1>2, <1>3, <1>11 DEF Takes, Handled, redisVars
<1>13. Waiting(h, t, s, b)
  BY <1>3, <1>6, <1>8, <1>9, <1>12 DEF Waiting
<1> QED
  BY <1>1, <1>2, <1>3, <1>4, <1>13

LEMMA ReplyHgetallBase ==
    ASSUME Base, NEW h \in Server, ReplyHgetall(h)
    PROVE  Base' /\ Steady
<1>1. PICK t, s, b : Waiting(h, t, s, b)
  BY ReplyHgetallIs
<1>2. PICK objects : objects = task[t].found \cup {<<s, b>>}
  OBVIOUS
<1>3. PICK x : x = [pc |-> "ready", left |-> task[t].left, found |-> objects]
  OBVIOUS
<1>4. /\ Takes(h, t) /\ Reading(t, task[t].left, objects) /\ task[t].pc = "hgetall"
      /\ task' = [task EXCEPT ![t] = x]
      /\ wire' = wire /\ reg' = reg /\ ctxRoom' = ctxRoom
      /\ noticeId' = noticeId /\ net' = net /\ got' = got
  BY <1>1, <1>2, <1>3 DEF Waiting
<1>5. /\ t \in Task /\ objects \in SUBSET (Socket \X BOOLEAN)
      /\ task[t].left \subseteq Sessions(Addressee(t))
      /\ \A o \in objects : o[1] \in Sessions(Addressee(t)) /\ o[1] \notin task[t].left
      /\ \A o, p \in objects : o[1] = p[1] => o = p
  BY <1>4 DEF Reading
<1>6. x \in TaskRec /\ x.pc = "ready" /\ x.left = task[t].left /\ x.found = objects
  BY <1>3, <1>5 DEF TaskRec, Sessions
<1>7. PICK e \in Seq(Command) : Issued(h, e) /\ NewFor(h, t, e)
  BY <1>4, NoneIssued DEF Base
<1>8. /\ Handles(h, t, e) /\ task'[t] = x
      /\ \A u \in Task : u # t => task'[u] = task[u]
      /\ \A u \in Task : u # t => Lookup(u)'
  BY <1>4, <1>6, <1>7, PutHandles
<1>9. origin' = origin /\ ws' = ws
  BY <1>4, TakesFacts
<1>10. Lookup(t)'
  <2>1. Sessions(Addressee(t))' = Sessions(Addressee(t))
    BY <1>9 DEF Sessions, Addressee
  <2>2. Seen(t)' = {o[1] : o \in objects}
    BY <1>6, <1>8 DEF Seen
  <2> QED
    BY <1>5, <1>6, <1>8, <2>1, <2>2 DEF Lookup
<1>11. Chain(t[1])'
  BY <1>4, <1>5, <1>6, <1>8, <1>9, LookupMoves
<1>12. /\ reg' \subseteq Socket /\ ctxRoom' \subseteq Socket /\ noticeId' \in [Socket -> Nat]
       /\ got' \in [Socket -> Seq([id : Nat, about : Origin])] /\ net' \subseteq Task \X Socket
  BY <1>4 DEF Base, Typed
<1> QED
  BY <1>4, <1>8, <1>10, <1>11, <1>12, HandlerBase

LEMMA UsedFinite == IsFiniteSet(Used) /\ Used \subseteq User
<1>1. UserOf \in [Socket -> Used] /\ Used \subseteq User
  BY NoticeAssumption DEF Used
<1>2. \A u \in Used : \E s \in Socket : UserOf[s] = u
  BY DEF Used
<1>3. UserOf \in Surjection(Socket, Used)
  BY <1>1, <1>2 DEF Surjection
<1> QED
  BY <1>1, <1>3, NoticeAssumption, FS_Surjection

\* SMEMBERS is answered: the sends of a room.
MembersAre(h, t, n, q, cmds) ==
    /\ Head(inbox[h]).op = "smembers" /\ task[t].pc = "smembers"
    /\ Spawns(h, t, n, q, cmds)
    /\ origin[t[1]] # NoOrigin /\ origin[t[1]].kind \in {"in", "out", "cast"}
    /\ origin[t[1]].kind = "cast" => cmds = <<>>
    /\ After(cmds) \in MainPc(t[1])
    /\ \A i \in 1 .. n : q[i] \in User
    /\ ctxRoom' = ctxRoom /\ reg' = reg /\ noticeId' = noticeId /\ net' = net /\ got' = got

LEMMA ReplyMembersIs ==
    ASSUME Base, NEW h \in Server, ReplyMembers(h)
    PROVE  \E t, n, q, cmds : MembersAre(h, t, n, q, cmds)
<1>1. PICK x : x = Head(inbox[h])
  OBVIOUS
<1>2. PICK t : t = x.who
  OBVIOUS
<1>3. PICK cmds : cmds = CASE origin[t[1]].kind = "in" -> <<Cmd("sadd", t, origin[t[1]].from)>>
                           [] origin[t[1]].kind = "out" -> <<Cmd("srem", t, origin[t[1]].from)>>
                           [] OTHER -> <<>>
  OBVIOUS
<1>4. /\ inbox[h] # <<>> /\ x.op = "smembers" /\ CallsBack(h)
      /\ ctxRoom' = ctxRoom /\ reg' = reg /\ noticeId' = noticeId /\ net' = net /\ got' = got
  BY <1>1 DEF ReplyMembers, Replied
<1>5. PICK S : S \subseteq x.list /\ \E q \in SetToSeqs(S) : Spawn(t, q, cmds)
  BY <1>1, <1>2, <1>3 DEF ReplyMembers
<1>6. PICK q \in SetToSeqs(S) : Spawn(t, q, cmds)
  BY <1>5
<1>7. /\ t \in Task /\ task[t].pc = "smembers" /\ x.list \subseteq Used /\ "smembers" \in Op
      /\ Typed
  BY <1>1, <1>2, <1>4, HeadFacts DEF GoodReply, Op, Base
<1>8. S \subseteq User /\ Cardinality(S) \in Nat
  <2>1. S \in SUBSET Used
    BY <1>5, <1>7
  <2>2. IsFiniteSet(S)
    BY <2>1, UsedFinite, FS_Subset
  <2> QED
    BY <2>1, <2>2, UsedFinite, FS_CardinalityType
<1>9. PICK n \in Nat : n = Cardinality(S)
  BY <1>8
<1>10. q \in [1 .. n -> S] /\ \A i, j \in 1 .. n : i # j => q[i] # q[j]
  BY <1>6, <1>9 DEF SetToSeqs
<1>11. q \in [1 .. n -> Copy \cup User] /\ \A i \in 1 .. n : q[i] \in User
  BY <1>8, <1>10
<1>12. t = <<t[1], Main>> /\ t[1] \in Origin /\ "smembers" \in MainPc(t[1]) /\ Chain(t[1])
  BY <1>7, MainOnly
<1>13. origin[t[1]] # NoOrigin /\ origin[t[1]].kind # "msg"
  BY <1>12 DEF MainPc
<1>14. origin[t[1]].kind \in {"in", "out", "cast"} /\ origin[t[1]].from \in SUBSET Socket
  <2>1. CASE t[1] \in Socket
    <3>1. origin[t[1]].kind = "out"
      <4>1. origin[t[1]] = [kind |-> "out", from |-> {t[1]}, to |-> {}]
        BY <1>13, <2>1 DEF Base, Origins
      <4> QED
        BY <4>1
    <3> QED
      BY <1>7, <1>12, <3>1 DEF Typed
  <2>2. CASE t[1] \in 1 .. MaxRequest
    <3>1. origin[t[1]].kind \in {"in", "cast"}
      BY <1>13, <2>2 DEF Base, Origins
    <3> QED
      BY <1>7, <1>12, <3>1 DEF Typed
  <2> QED
    BY <1>12, <2>1, <2>2, TaskFacts
<1>15. /\ Follows(t, cmds) /\ After(cmds) \in MainPc(t[1])
       /\ origin[t[1]].kind = "cast" => cmds = <<>>
  <2>1. CASE origin[t[1]].kind = "in"
    <3>1. cmds = <<Cmd("sadd", t, origin[t[1]].from)>>
      BY <1>3, <2>1
    <3>2. Follows(t, cmds)
      BY <1>14, <3>1 DEF Follows
    <3>3. cmds # <<>> /\ cmds[1].op = "sadd"
      BY <3>1 DEF Cmd
    <3> QED
      BY <1>13, <2>1, <3>2, <3>3 DEF After, MainPc
  <2>2. CASE origin[t[1]].kind = "out"
    <3>1. cmds = <<Cmd("srem", t, origin[t[1]].from)>>
      BY <1>3, <2>2
    <3>2. Follows(t, cmds)
      BY <1>14, <3>1 DEF Follows
    <3>3. cmds # <<>> /\ cmds[1].op = "srem"
      BY <3>1 DEF Cmd
    <3> QED
      BY <1>13, <2>2, <3>2, <3>3 DEF After, MainPc
  <2>3. CASE origin[t[1]].kind = "cast"
    <3>1. cmds = <<>>
      BY <1>3, <2>3
    <3> QED
      BY <1>13, <2>3, <3>1 DEF Follows, After, MainPc
  <2> QED
    BY <1>14, <2>1, <2>2, <2>3
<1>16. \A k \in Copy \cup User : task[<<t[1], k>>].pc = "idle"
  BY <1>7, <1>12 DEF Chain
<1>t. Takes(h, t)
  BY <1>1, <1>2, <1>4, HeadTakes
<1>17. Spawns(h, t, n, q, cmds)
  BY <1>t, <1>6, <1>10, <1>11, <1>12, <1>15, <1>16 DEF Spawns
<1>18. MembersAre(h, t, n, q, cmds)
  BY <1>1, <1>4, <1>7, <1>11, <1>13, <1>14, <1>15, <1>17 DEF MembersAre
<1> QED
  BY <1>18

LEMMA ReplyMembersBase ==
    ASSUME Base, NEW h \in Server, ReplyMembers(h)
    PROVE  Base' /\ Steady
<1>1. PICK t, n, q, cmds : MembersAre(h, t, n, q, cmds)
  BY ReplyMembersIs
<1>2. /\ Spawns(h, t, n, q, cmds) /\ origin[t[1]] # NoOrigin
      /\ After(cmds) \in MainPc(t[1])
      /\ \A i \in 1 .. n : q[i] \in IF origin[t[1]].kind = "msg" THEN Copy ELSE User
      /\ ctxRoom' = ctxRoom /\ reg' = reg /\ noticeId' = noticeId /\ net' = net /\ got' = got
  BY <1>1 DEF MembersAre
<1> QED
  BY <1>2, SpawnBase

LEMMA BaseInit == Init => Base
<1> SUFFICES ASSUME Init PROVE Base
  OBVIOUS
<1>1. /\ hash = Early /\ members = Guests /\ up = [h \in Server |-> TRUE]
      /\ ws = [s \in Socket |-> "open"] /\ reg = Early
      /\ ctxRoom = {s \in Early : UserOf[s] \in Guests}
      /\ noticeId = [s \in Socket |-> 0]
      /\ origin = [r \in Origin |-> NoOrigin] /\ task = [t \in Task |-> NoTask]
      /\ wire = [h \in Server |-> <<>>] /\ inbox = [h \in Server |-> <<>>] /\ net = {}
      /\ got = [s \in Socket |-> <<>>] /\ closes = 0
  BY DEF Init
<1>2. NoOrigin \in [kind : Kind, from : SUBSET Socket, to : SUBSET User]
  BY DEF NoOrigin, Kind
<1>3. NoTask \in [pc : Op \cup {"idle", "ready", "done", "hung"},
                  left : SUBSET Socket, found : SUBSET (Socket \X BOOLEAN)]
  BY DEF NoTask
<1>4. <<>> \in Seq(Command) /\ <<>> \in Seq(Response)
      /\ <<>> \in Seq([id : Nat, about : Origin])
  OBVIOUS
<1>5. Guests \subseteq Used /\ Used \subseteq User
  BY NoticeAssumption DEF Used
<1>6. wire \in [Server -> Seq(Command)] /\ inbox \in [Server -> Seq(Response)]
  BY <1>1, <1>4
<1>7. got \in [Socket -> Seq([id : Nat, about : Origin])]
  BY <1>1, <1>4
<1>8. Typed /\ members \subseteq Used
  BY <1>1, <1>2, <1>3, <1>5, <1>6, <1>7, NoticeAssumption DEF Typed
<1>9. Origins
  BY <1>1, TaskFacts DEF Origins
<1>10. ASSUME NEW r \in Origin PROVE Chain(r)
  <2>1. origin[r] = NoOrigin /\ task[<<r, Main>>] = NoTask
    BY <1>1, TaskFacts
  <2>2. \A k \in Copy \cup User : task[<<r, k>>] = NoTask
    BY <1>1, TaskFacts
  <2>3. NoTask.pc = "idle" /\ "idle" \in MainPc(r)
    BY <2>1 DEF NoTask, MainPc
  <2> QED
    BY <1>1, <2>1, <2>2, <2>3 DEF Chain
<1>11. ASSUME NEW t \in Task PROVE Lookup(t)
  <2>1. task[t].left = {} /\ task[t].found = {}
    BY <1>1 DEF NoTask
  <2>2. Seen(t) = {}
    BY <2>1 DEF Seen
  <2> QED
    BY <2>1, <2>2 DEF Lookup
<1>12. ASSUME NEW h \in Server PROVE Line(h)
  <2>1. inbox[h] = <<>> /\ wire[h] = <<>>
    BY <1>1
  <2>2. Size(<<>>, <<>>) = 0
    BY DEF Size
  <2>3. Slots(h) = {}
    BY <2>1, <2>2 DEF Slots
  <2> QED
    BY <2>3 DEF Line
<1> QED
  BY <1>1, <1>8, <1>9, <1>10, <1>11, <1>12 DEF Base, Lines, Relayed

LEMMA BaseNext == Base /\ Turn /\ [Next]_vars => Base' /\ Steady
<1> SUFFICES ASSUME Base, Turn, [Next]_vars PROVE Base' /\ Steady
  OBVIOUS
<1>1. CASE UNCHANGED vars
  <2>1. /\ task' = task /\ origin' = origin /\ wire' = wire /\ inbox' = inbox /\ up' = up
        /\ members' = members /\ reg' = reg /\ net' = net /\ hash' = hash
        /\ ctxRoom' = ctxRoom /\ closes' = closes /\ ws' = ws /\ noticeId' = noticeId
        /\ got' = got /\ ready' = ready
    BY <1>1 DEF vars
  <2>2. /\ closes' \in 0 .. MaxClose /\ ws' \in [Socket -> {"open", "closing", "closed", "dead"}]
        /\ noticeId' \in [Socket -> Nat] /\ got' \in [Socket -> Seq([id : Nat, about : Origin])]
    BY <2>1 DEF Base, Typed
  <2> QED
    BY <2>1, <2>2, QuietBase
<1>2. ASSUME NEW h \in Server, Exec(h) PROVE Base' /\ Steady
  BY <1>2, ExecBase
<1>3. ASSUME NEW h \in Server, HandleReply(h) PROVE Base' /\ Steady
  <2>0. CASE ReplyKeys(h)
    BY <2>0, ReplyKeysIs, LookupStepBase
  <2>1. CASE ReplyHgetall(h)
    BY <2>1, ReplyHgetallBase
  <2>2. CASE ReplyNull(h)
    BY <2>2, ReplyNullBase
  <2>3. CASE ReplyExists(h)
    BY <2>3, ReplyExistsBase
  <2>4. CASE ReplyMembers(h)
    BY <2>4, ReplyMembersBase
  <2>5. CASE ReplyMember(h)
    BY <2>5, ReplyMemberBase
  <2>6. CASE ReplyHmset(h)
    BY <2>6, ReplyHmsetBase
  <2> QED
    BY <1>3, <2>0, <2>1, <2>2, <2>3, <2>4, <2>5, <2>6 DEF HandleReply
<1>9. ASSUME NEW h \in Server, Resume(h) PROVE Base' /\ Steady
  BY <1>9, ResumeIs, LookupStepBase
<1>4. ASSUME NEW s \in Socket, NEW u \in User, SendMsg(s, u) PROVE Base' /\ Steady
  <2>1. Asks("msg", {u}, "keys")
    BY DEF Asks
  <2> QED
    BY <1>4, <2>1, BeginBase DEF SendMsg
<1>5. ASSUME NEW s \in Socket, RoomIn(s) PROVE Base' /\ Steady
  <2>1. Asks("in", {}, "exists")
    BY DEF Asks
  <2> QED
    BY <1>5, <2>1, BeginBase DEF RoomIn
<1>6. ASSUME NEW s \in Socket, Broadcast(s) PROVE Base' /\ Steady
  <2>1. Asks("cast", {}, "exists")
    BY DEF Asks
  <2> QED
    BY <1>6, <2>1, BeginBase DEF Broadcast
<1>7. ASSUME NEW s \in Socket, Login(s) \/ ClientClose(s) \/ CloseEvent(s) PROVE Base' /\ Steady
  BY <1>7, LoginBase, ClientCloseBase, CloseEventBase
<1>8. ASSUME NEW m \in net, Relay(m) PROVE Base' /\ Steady
  BY <1>8, RelayDropBase, RelaySendBase, RelayThrowBase DEF Relay
<1> QED
  BY <1>1, <1>2, <1>3, <1>4, <1>5, <1>6, <1>7, <1>8, <1>9 DEF Next

LEMMA TurnInit == Init => Turn
<1> SUFFICES ASSUME Init PROVE Turn
  OBVIOUS
<1>1. <<>> \in Seq(Task) /\ Len(<<>>) = 0
  OBVIOUS
<1>2. ready = [h \in Server |-> <<>>] /\ chunk = [h \in Server |-> 0] /\ ended = {}
  BY DEF Init
<1>3. ready \in [Server -> Seq(Task)] /\ \A h \in Server : Len(ready[h]) = 0
  BY <1>1, <1>2
<1> QED
  BY <1>2, <1>3 DEF Turn

LEMMA RemoveFacts ==
    ASSUME NEW S, NEW q \in Seq(S), NEW n \in 1 .. Len(q)
    PROVE  /\ RemoveAt(q, n) \in Seq(S) /\ Len(q) \in Nat /\ n \in Nat
           /\ Len(RemoveAt(q, n)) = Len(q) - 1
           /\ \A i \in 1 .. Len(q) - 1 :
                 RemoveAt(q, n)[i] = IF i < n THEN q[i] ELSE q[i + 1]
<1>1. PICK N \in Nat : N = Len(q) /\ n \in 1 .. N
  OBVIOUS
<1>2. PICK a : a = SubSeq(q, 1, n - 1)
  OBVIOUS
<1>3. a \in Seq(S) /\ Len(a) = n - 1 /\ \A i \in 1 .. n - 1 : a[i] = q[i]
  BY <1>1, <1>2
<1>4. PICK b : b = SubSeq(q, n + 1, N)
  OBVIOUS
<1>5. b \in Seq(S) /\ Len(b) = N - n /\ \A i \in 1 .. N - n : b[i] = q[n + i]
  BY <1>1, <1>4
<1>6. RemoveAt(q, n) = a \o b
  BY <1>1, <1>2, <1>4 DEF RemoveAt
<1>7. PICK c : c = a \o b
  OBVIOUS
<1>8. /\ c \in Seq(S) /\ Len(c) = N - 1
      /\ \A i \in 1 .. n - 1 : c[i] = a[i]
      /\ \A i \in 1 .. N - n : c[(n - 1) + i] = b[i]
  <2>1. Joined(S, a, n - 1, b, N - n, c)
    BY <1>3, <1>5, <1>7, CatIs
  <2>2. (n - 1) + (N - n) = N - 1
    BY <1>1
  <2> QED
    BY ONLY <2>1, <2>2 DEF Joined
<1>9. ASSUME NEW i \in 1 .. N - 1 PROVE c[i] = IF i < n THEN q[i] ELSE q[i + 1]
  <2>1. CASE i < n
    BY <1>1, <1>3, <1>8, <2>1
  <2>2. CASE ~(i < n)
    <3>1. PICK j \in 1 .. N - n : i = (n - 1) + j /\ n + j = i + 1
      <4>1. i - (n - 1) \in 1 .. N - n /\ i = (n - 1) + (i - (n - 1)) /\ n + (i - (n - 1)) = i + 1
        BY <1>1, <2>2
      <4> QED
        BY <4>1
    <3> QED
      BY <1>5, <1>8, <2>2, <3>1
  <2> QED
    BY <2>1, <2>2
<1> QED
  BY <1>1, <1>6, <1>7, <1>8, <1>9

\* A sequence without repetition stays one.
Distinct(q) == \A i, j \in 1 .. Len(q) : q[i] = q[j] => i = j

LEMMA DistinctAppend ==
    ASSUME NEW S, NEW q \in Seq(S), Distinct(q), NEW x \in S,
           \A i \in 1 .. Len(q) : q[i] # x
    PROVE  \E p \in Seq(S) : /\ p = Append(q, x) /\ Distinct(p)
                             /\ \A i \in 1 .. Len(p) : p[i] = x \/ \E j \in 1 .. Len(q) : p[i] = q[j]
<1>1. PICK N \in Nat : N = Len(q)
  OBVIOUS
<1>2. PICK p \in Seq(S) : /\ p = Append(q, x) /\ Len(p) = N + 1
                          /\ \A i \in 1 .. N : p[i] = q[i]
                          /\ p[N + 1] = x
  BY ONLY <1>1, q \in Seq(S), x \in S, AppendFacts, Zenon
<1>3. \A i \in 1 .. N + 1 : i \in 1 .. N \/ i = N + 1
  BY <1>1
<1>4. Distinct(p)
  BY ONLY N \in Nat, <1>1, <1>2, Distinct(q), \A i \in 1 .. Len(q) : q[i] # x DEF Distinct
<1> QED
  BY <1>1, <1>2, <1>3, <1>4, Zenon

LEMMA DistinctRemove ==
    ASSUME NEW S, NEW q \in Seq(S), Distinct(q), NEW n \in 1 .. Len(q)
    PROVE  \E p \in Seq(S) : /\ p = RemoveAt(q, n) /\ Distinct(p)
                             /\ \A i \in 1 .. Len(p) :
                                   p[i] # q[n] /\ \E j \in 1 .. Len(q) : p[i] = q[j]
<1>1. PICK N \in Nat : N = Len(q) /\ n \in 1 .. N
  OBVIOUS
<1>2. PICK p \in Seq(S) : /\ p = RemoveAt(q, n) /\ Len(p) = N - 1
                          /\ \A i \in 1 .. N - 1 : p[i] = IF i < n THEN q[i] ELSE q[i + 1]
  BY ONLY <1>1, q \in Seq(S), RemoveFacts, Zenon
<1> DEFINE k(i) == IF i < n THEN i ELSE i + 1
<1>3. \A i \in 1 .. N - 1 : k(i) \in 1 .. N /\ k(i) # n
  BY <1>1
<1>4. \A i, j \in 1 .. N - 1 : k(i) = k(j) => i = j
  BY <1>1
<1>5. \A i \in 1 .. N - 1 : p[i] = q[k(i)]
  BY <1>2
<1> HIDE DEF k
<1>6. Distinct(p)
  BY ONLY N \in Nat, <1>1, <1>2, <1>3, <1>4, <1>5, Distinct(q) DEF Distinct
<1>7. \A i \in 1 .. Len(p) : p[i] # q[n] /\ \E j \in 1 .. Len(q) : p[i] = q[j]
  BY ONLY N \in Nat, <1>1, <1>2, <1>3, <1>5, Distinct(q) DEF Distinct
<1> QED
  BY <1>2, <1>6, <1>7

\* The lookups that h is to go on with.
Standing(h, q) ==
    /\ q \in Seq(Task) /\ Distinct(q)
    /\ \A i \in 1 .. Len(q) : q[i] \in Task /\ task[q[i]].pc = "ready" /\ Srv(q[i]) = h

LEMMA TurnIs ==
    Turn <=> /\ chunk \in [Server -> Nat] /\ ended \subseteq Socket
             /\ ready \in [Server -> Seq(Task)] /\ \A h \in Server : Standing(h, ready[h])
<1>1. ASSUME NEW h \in Server, ready[h] \in Seq(Task)
      PROVE  Standing(h, ready[h]) <=>
                \A i \in 1 .. Len(ready[h]) :
                   /\ task[ready[h][i]].pc = "ready" /\ Srv(ready[h][i]) = h
                   /\ \A j \in 1 .. Len(ready[h]) : ready[h][i] = ready[h][j] => i = j
  <2>1. PICK q \in Seq(Task) : q = ready[h]
    BY <1>1
  <2>2. \A i \in 1 .. Len(q) : q[i] \in Task
    OBVIOUS
  <2> QED
    BY <2>1, <2>2, Zenon DEF Standing, Distinct
<1> QED
  BY <1>1, Zenon DEF Turn

\* They stay in order.
LEMMA TurnSteps ==
    ASSUME Base, Turn, Steady, task' \in [Task -> TaskRec], chunk' \in [Server -> Nat],
           ended' \subseteq Socket
    PROVE  Turn'
<1>1. PICK t : Undisturbed(t) /\ Turned(t)
  BY DEF Steady
<1>2. ready \in [Server -> Seq(Task)] /\ \A h \in Server : Standing(h, ready[h])
  BY TurnIs
<1>3. ASSUME NEW u \in Task, u # t, task[u].pc = "ready"
      PROVE  task'[u].pc = "ready" /\ Srv(u)' = Srv(u)
  <2>1. Settled(u)
    BY <1>1, <1>3 DEF Undisturbed
  <2> QED
    BY <1>3, <2>1, SettledFacts DEF Settled
<1>4. ASSUME NEW h, NEW q, Standing(h, q), \A i \in 1 .. Len(q) : q[i] # t
      PROVE  Standing(h, q)'
  BY <1>3, <1>4, Zenon DEF Standing
<1>5. CASE ready' = ready /\ (t \in Task => task[t].pc # "ready")
  <2>1. ASSUME NEW h \in Server PROVE Standing(h, ready[h])'
    <3>1. PICK q : q = ready[h] /\ Standing(h, q)
      BY <1>2
    <3>2. \A i \in 1 .. Len(q) : q[i] # t
      BY <1>5, <3>1 DEF Standing
    <3>3. Standing(h, q)'
      BY <1>4, <3>1, <3>2
    <3> QED
      BY <1>5, <3>1, <3>3
  <2> QED
    BY <1>2, <1>5, <2>1 DEF Turn, Standing, Distinct
<1>6. ASSUME NEW h \in Server, NEW p, Standing(h, p)', ready' = [ready EXCEPT ![h] = p],
             \A g \in Server : g # h => \A i \in 1 .. Len(ready[g]) : ready[g][i] # t
      PROVE  Turn'
  <2>1. p \in Seq(Task)
    BY <1>6 DEF Standing
  <2>2. /\ ready' \in [Server -> Seq(Task)] /\ ready'[h] = p
        /\ \A g \in Server : g # h => ready'[g] = ready[g]
    BY <1>2, <1>6, <2>1, Zenon
  <2>3. ASSUME NEW g \in Server PROVE Standing(g, ready[g])'
    <3>1. CASE g = h
      BY <1>6, <2>2, <3>1
    <3>2. CASE g # h
      <4>1. PICK q : q = ready[g] /\ Standing(g, q)
        BY <1>2
      <4>2. \A i \in 1 .. Len(q) : q[i] # t
        BY <1>6, <3>2, <4>1
      <4>3. Standing(g, q)'
        BY <1>4, <4>1, <4>2
      <4> QED
        BY <2>2, <3>2, <4>1, <4>3
    <3> QED
      BY <3>1, <3>2
  <2> QED
    BY <2>2, <2>3 DEF Turn, Standing, Distinct
<1>7. ASSUME NEW h \in Server, t \in Task, task[t].pc # "ready", task'[t].pc = "ready",
             Srv(t)' = h, ready' = [ready EXCEPT ![h] = Append(@, t)]
      PROVE  Turn'
  <2>1. PICK q : q = ready[h] /\ Standing(h, q)
    BY <1>2
  <2>2. \A g \in Server : \A i \in 1 .. Len(ready[g]) : ready[g][i] # t
    BY <1>2, <1>7 DEF Standing
  <2>3. q \in Seq(Task) /\ Distinct(q) /\ \A i \in 1 .. Len(q) : q[i] # t
    BY <2>1, <2>2 DEF Standing
  <2>4. PICK p \in Seq(Task) :
          /\ p = Append(q, t) /\ Distinct(p)
          /\ \A i \in 1 .. Len(p) : p[i] = t \/ \E j \in 1 .. Len(q) : p[i] = q[j]
    BY <1>7, <2>3, DistinctAppend
  <2>5. Standing(h, q)'
    BY <1>4, <2>1, <2>3
  <2>6. Standing(h, p)'
    BY ONLY <1>7, <2>4, <2>5, Zenon DEF Standing
  <2>7. ready' = [ready EXCEPT ![h] = p]
    BY ONLY <1>2, <1>7, <2>1, <2>4, Zenon
  <2> QED
    BY <1>6, <2>2, <2>6, <2>7
<1>8. ASSUME NEW h \in Server, NEW n \in 1 .. Len(ready[h]), t = ready[h][n],
             ready' = [ready EXCEPT ![h] = RemoveAt(@, n)]
      PROVE  Turn'
  <2>1. PICK q : q = ready[h] /\ Standing(h, q) /\ n \in 1 .. Len(q) /\ t = q[n]
    BY <1>2, <1>8
  <2>2. \A g \in Server : g # h => \A i \in 1 .. Len(ready[g]) : ready[g][i] # t
    <3>1. Srv(t) = h
      BY <2>1 DEF Standing
    <3>2. \A g \in Server : \A i \in 1 .. Len(ready[g]) : Srv(ready[g][i]) = g
      BY <1>2 DEF Standing
    <3> QED
      BY ONLY <3>1, <3>2, Zenon
  <2>3. q \in Seq(Task) /\ Distinct(q)
    BY <2>1 DEF Standing
  <2>4. PICK p \in Seq(Task) :
          /\ p = RemoveAt(q, n) /\ Distinct(p)
          /\ \A i \in 1 .. Len(p) : p[i] # t /\ \E j \in 1 .. Len(q) : p[i] = q[j]
    <3>1. n \in 1 .. Len(q)
      BY <2>1
    <3>2. PICK p \in Seq(Task) :
          /\ p = RemoveAt(q, n) /\ Distinct(p)
          /\ \A i \in 1 .. Len(p) : p[i] # q[n] /\ \E j \in 1 .. Len(q) : p[i] = q[j]
      BY <2>3, <3>1, DistinctRemove
    <3> QED
      BY <2>1, <3>2, Zenon
  <2>5. Standing(h, p)
    BY ONLY <2>1, <2>4, Zenon DEF Standing
  <2>6. Standing(h, p)'
    BY <1>4, <2>4, <2>5
  <2>7. ready' = [ready EXCEPT ![h] = p]
    BY ONLY <1>2, <1>8, <2>1, <2>4, Zenon
  <2> QED
    BY <1>6, <2>2, <2>6, <2>7
<1> QED
  BY <1>1, <1>5, <1>7, <1>8 DEF Turned

LEMMA TurnNext == Base /\ Turn /\ [Next]_vars => Turn'
<1> SUFFICES ASSUME Base, Turn, [Next]_vars PROVE Turn'
  OBVIOUS
<1>1. Base' /\ Steady /\ task' \in [Task -> TaskRec]
  BY BaseNext DEF Base, Typed, TaskRec
<1>2. chunk \in [Server -> Nat] /\ ended \subseteq Socket /\ inbox \in [Server -> Seq(Response)]
      /\ hash \subseteq Socket
  BY DEF Turn, Base, Typed
<1> DEFINE Fits == chunk' \in [Server -> Nat] /\ ended' \subseteq Socket
<1>3. Fits
  <2>1. CASE chunk' = chunk /\ ended' = ended
    BY <1>2, <2>1
  <2>2. ASSUME NEW h \in Server, CallsBack(h) PROVE Fits
    <3>1. chunk' = [chunk EXCEPT ![h] = IF chunk[h] > 0 THEN chunk[h] - 1 ELSE 0] /\ ended' = ended
      BY <2>2 DEF CallsBack, Handled, histVars
    <3>2. (IF chunk[h] > 0 THEN chunk[h] - 1 ELSE 0) \in Nat
      BY <1>2
    <3> QED
      BY <1>2, <3>1, <3>2
  <2>3. ASSUME NEW h \in Server, ReplyHgetall(h) PROVE Fits
    <3>1. ended' = ended /\ inbox[h] # <<>>
      BY <2>3 DEF ReplyHgetall, Replied, Handled, histVars
    <3>2. PICK n \in IF chunk[h] > 0 THEN {chunk[h] - 1} ELSE 0 .. Len(inbox[h]) - 1 :
            chunk' = [chunk EXCEPT ![h] = n]
      BY <2>3 DEF ReplyHgetall
    <3>3. chunk[h] \in Nat /\ Len(inbox[h]) \in Nat
      BY <1>2
    <3>4. n \in Nat
      BY <3>2, <3>3
    <3> QED
      BY <1>2, <3>1, <3>2, <3>4
  <2>4. ASSUME NEW h \in Server, Exec(h) PROVE Fits
    BY <1>2, <2>4 DEF Exec, Leaves, turnVars
  <2>5. ASSUME NEW h \in Server, HandleReply(h) PROVE Fits
    BY <2>2, <2>3, <2>5 DEF HandleReply, ReplyKeys, ReplyNull, ReplyExists, ReplyMembers,
                            ReplyMember, ReplyHmset
  <2>6. ASSUME NEW h \in Server, Resume(h) PROVE Fits
    BY <2>1, <2>6 DEF Resume, ReadOn, FindEnds, GoesOn, histVars
  <2>7. ASSUME NEW s, NEW kind, NEW to, NEW op, Begin(s, kind, to, op) PROVE Fits
    BY <2>1, <2>7 DEF Begin, turnVars
  <2>8. ASSUME NEW s, Login(s) \/ ClientClose(s) \/ CloseEvent(s) PROVE Fits
    BY <2>1, <2>8 DEF Login, ClientClose, CloseEvent, turnVars, histVars
  <2>9. ASSUME NEW m, Relay(m) PROVE Fits
    BY <2>1, <2>9 DEF Relay, RelayDrop, RelaySend, RelayThrow, turnVars, histVars
  <2>10. CASE UNCHANGED vars
    BY <2>1, <2>10 DEF vars
  <2> HIDE DEF Fits
  <2> QED
    BY <2>4, <2>5, <2>6, <2>7, <2>8, <2>9, <2>10 DEF Next, SendMsg, RoomIn, Broadcast
<1> QED
  BY <1>1, <1>3, TurnSteps

-----------------------------------------------------------------------------
(* Numbers and copies.                                                     *)

\* What a step does to the notices of s: nothing, or one more, of send t.
Quiet(s) == got'[s] = got[s] /\ noticeId'[s] = noticeId[s]

Hears(s, t) ==
    /\ got'[s] = Append(got[s], Numbered(s, t[1])) /\ noticeId'[s] = noticeId[s] + 1
    /\ t[1] \in Origin /\ t \in Sends(s)' /\ <<t, s>> \notin net'
    /\ t \notin Sends(s) \/ <<t, s>> \in net

News(s) ==
    /\ \A u \in Sends(s) : u \in Sends(s)' /\ (<<u, s>> \in net' => <<u, s>> \in net)
    /\ Quiet(s) \/ \E t : Hears(s, t)

LEMMA QuietNews ==
    ASSUME Steady, got' = got, noticeId' = noticeId, net' \subseteq net, NEW s \in Socket
    PROVE  News(s)
<1>1. \A u \in Sends(s) : u \in Sends(s)'
  BY SendsGrow DEF Steady
<1> QED
  BY <1>1 DEF News, Quiet

LEMMA RelayNews ==
    ASSUME Base, Steady, NEW m \in net, RelaySend(m), NEW s \in Socket
    PROVE  News(s)
<1>1. \A x : \A u \in Sends(x) : u \in Sends(x)'
  BY SendsGrow DEF Steady
<1>2. PICK y \in Socket, t \in Task :
              /\ m = <<t, y>> /\ t \in Sends(y) /\ t[1] \in Origin
              /\ got'[y] = Append(got[y], Numbered(y, t[1]))
              /\ noticeId'[y] = noticeId[y] + 1
              /\ \A x \in Socket : x # y => got'[x] = got[x] /\ noticeId'[x] = noticeId[x]
              /\ net' = net \ {m}
  BY RelaySendFacts
<1>3. CASE s = y
  <2>1. Hears(s, t)
    BY <1>1, <1>2, <1>3 DEF Hears
  <2> QED
    BY <1>1, <1>2, <2>1 DEF News
<1>4. CASE s # y
  BY <1>1, <1>2, <1>4 DEF News, Quiet
<1> QED
  BY <1>3, <1>4

LEMMA DeliverNews ==
    ASSUME Base, Base', Steady, NEW h \in Server, NEW t, NEW objects, Delivers(h, t, objects),
           NEW s \in Socket
    PROVE  News(s)
<1>1. \A u \in Sends(s) : u \in Sends(s)'
  BY SendsGrow DEF Steady
<1>2. /\ t \in Task /\ t[1] \in Origin /\ task[t].pc \in {"keys", "hgetall", "ready"}
      /\ task'[t].pc = "done"
  BY DeliverHandles, TaskFacts
<1>3. t \notin Sends(s)
  BY <1>2 DEF Sends
<1>4. t[2] # Main /\ origin' = origin
  BY TakesFacts DEF Delivers
<1>5. Told(h, t)
  BY DeliverTells
<1>6. \A u \in Sends(s) : <<u, s>> \in net' => <<u, s>> \in net
  <2> SUFFICES ASSUME NEW u \in Sends(s), <<u, s>> \in net' PROVE <<u, s>> \in net
    OBVIOUS
  <2>1. <<u, s>>[1] = u /\ u # t
    BY <1>3
  <2> QED
    BY <1>5, <2>1 DEF Told
<1>7. CASE TellsHere(h, t, s)
  <2>1. /\ s \in Sessions(Addressee(t)) /\ Home[s] = h
        /\ got'[s] = Append(got[s], Numbered(s, t[1])) /\ noticeId'[s] = noticeId[s] + 1
    BY <1>7 DEF TellsHere
  <2>2. Sessions(Addressee(t))' = Sessions(Addressee(t))
    BY <1>4 DEF Sessions, Addressee
  <2>3. t \in Sends(s)'
    BY <1>2, <1>4, <2>1, <2>2 DEF Sends
  <2>4. <<t, s>> \notin net'
    <3>1. <<t, s>> \notin net
      <4>1. <<t, s>>[1] = t /\ <<t, s>>[2] = s
        OBVIOUS
      <4> QED
        BY <1>3, <4>1 DEF Base, Relayed
    <3>2. <<t, s>>[2] = s
      OBVIOUS
    <3> QED
      BY <1>5, <2>1, <3>1, <3>2 DEF Told
  <2>5. Hears(s, t)
    BY <1>2, <1>3, <2>1, <2>3, <2>4 DEF Hears
  <2> QED
    BY <1>1, <1>6, <2>5 DEF News
<1>8. CASE Quiet(s)
  BY <1>1, <1>6, <1>8 DEF News
<1> QED
  BY <1>5, <1>7, <1>8 DEF Told, Quiet

\* No other step touches the notices.
LEMMA NewsNext ==
    ASSUME Base, Turn, [Next]_vars
    PROVE  \A s \in Socket : News(s)
<1>1. Base' /\ Steady
  BY BaseNext
<1> DEFINE Same == got' = got /\ noticeId' = noticeId /\ net' \subseteq net
<1>2. ASSUME Same PROVE \A s \in Socket : News(s)
  BY <1>1, <1>2, QuietNews
<1> HIDE DEF Same
<1>3. CASE UNCHANGED vars
  <2>1. Same
    BY <1>3 DEF vars, Same
  <2> QED
    BY <1>2, <2>1
<1>4. ASSUME NEW h \in Server, Exec(h) PROVE \A s \in Socket : News(s)
  <2>1. Same
    BY <1>4 DEF Exec, Same
  <2> QED
    BY <1>2, <2>1
<1>5. ASSUME NEW h \in Server, HandleReply(h) \/ Resume(h) PROVE \A s \in Socket : News(s)
  <2>1. ASSUME NEW t, NEW rest, NEW objects, LookupStepIs(h, t, rest, objects)
        PROVE  \A s \in Socket : News(s)
    <3>1. CASE Delivers(h, t, objects)
      BY <1>1, <3>1, DeliverNews
    <3>2. CASE reg' = reg /\ noticeId' = noticeId /\ net' = net /\ got' = got
      BY <1>2, <3>2 DEF Same
    <3> QED
      BY <2>1, <3>1, <3>2 DEF LookupStepIs
  <2>2. CASE ReplyKeys(h)
    BY <2>1, <2>2, ReplyKeysIs
  <2>3. CASE Resume(h)
    BY <2>1, <2>3, ResumeIs
  <2>4. CASE \/ ReplyHgetall(h) \/ ReplyNull(h) \/ ReplyExists(h)
             \/ ReplyMembers(h) \/ ReplyMember(h) \/ ReplyHmset(h)
    <3>1. Same
      BY <2>4 DEF ReplyHgetall, ReplyNull, ReplyExists, ReplyMembers, ReplyMember, ReplyHmset, Same
    <3> QED
      BY <1>2, <3>1
  <2> QED
    BY <1>5, <2>2, <2>3, <2>4 DEF HandleReply
<1>6. ASSUME NEW s \in Socket, NEW kind, NEW to, NEW op, Begin(s, kind, to, op)
      PROVE  \A x \in Socket : News(x)
  <2>1. Same
    BY <1>6 DEF Begin, Same
  <2> QED
    BY <1>2, <2>1
<1>7. ASSUME NEW s \in Socket, Login(s) \/ ClientClose(s) \/ CloseEvent(s)
      PROVE  \A x \in Socket : News(x)
  <2>1. Same
    BY <1>7 DEF Login, ClientClose, CloseEvent, Same
  <2> QED
    BY <1>2, <2>1
<1>8. ASSUME NEW m \in net, Relay(m) PROVE \A s \in Socket : News(s)
  <2>1. CASE RelaySend(m)
    BY <1>1, <2>1, RelayNews
  <2>2. CASE RelayDrop(m) \/ RelayThrow(m)
    <3>1. Same
      BY <2>2 DEF RelayDrop, RelayThrow, Same
    <3> QED
      BY <1>2, <3>1
  <2> QED
    BY <1>8, <2>1, <2>2 DEF Relay
<1> QED
  BY <1>3, <1>4, <1>5, <1>6, <1>7, <1>8 DEF Next, SendMsg, RoomIn, Broadcast

LEMMA HearsOne ==
    ASSUME Base, NEW s \in Socket, NEW r \in Origin,
           got'[s] = Append(got[s], Numbered(s, r))
    PROVE  \E N \in Nat :
              /\ Len(got[s]) = N /\ Len(got'[s]) = N + 1
              /\ \A i \in 1 .. N : got'[s][i] = got[s][i]
              /\ got'[s][N + 1].id = noticeId[s] /\ got'[s][N + 1].about = r
<1>1. PICK S : S = [id : Nat, about : Origin]
  OBVIOUS
<1>2. PICK x \in S : x = Numbered(s, r) /\ x.id = noticeId[s] /\ x.about = r
  BY <1>1, NumberedType DEF Base
<1>3. PICK g \in Seq(S) : g = got[s] /\ Len(g) \in Nat
  BY <1>1, NumberedType DEF Base
<1>4. PICK N \in Nat : N = Len(g)
  BY <1>3
<1>5. /\ Len(Append(g, x)) = N + 1 /\ Append(g, x)[N + 1] = x
      /\ \A i \in 1 .. N : Append(g, x)[i] = g[i]
  BY <1>4, AppendFacts
<1>6. got'[s] = Append(g, x)
  BY <1>2, <1>3
<1>7. Len(got'[s]) = N + 1 /\ got'[s][N + 1] = x /\ \A i \in 1 .. N : got'[s][i] = got[s][i]
  BY <1>3, <1>5, <1>6
<1> QED
  BY <1>2, <1>3, <1>4, <1>7

LEMMA CountedStays ==
    ASSUME Base, NEW s \in Socket, News(s), Counted(s)
    PROVE  Counted(s)'
<1>1. CASE Quiet(s)
  BY <1>1 DEF Quiet, Counted
<1>2. ASSUME NEW t, Hears(s, t) PROVE Counted(s)'
  <2>1. PICK r \in Origin :
          got'[s] = Append(got[s], Numbered(s, r)) /\ noticeId'[s] = noticeId[s] + 1
    BY <1>2 DEF Hears
  <2>2. PICK N \in Nat :
          /\ Len(got[s]) = N /\ Len(got'[s]) = N + 1
          /\ \A i \in 1 .. N : got'[s][i] = got[s][i]
          /\ got'[s][N + 1].id = noticeId[s]
    BY <2>1, HearsOne
  <2>3. noticeId[s] = N /\ \A i \in 1 .. N : got[s][i].id = i - 1
    BY <2>2 DEF Counted
  <2>4. PICK g : g = got'[s]
    OBVIOUS
  <2>5. ASSUME NEW i \in 1 .. N + 1 PROVE g[i].id = i - 1
    <3>1. CASE i \in 1 .. N
      BY <2>2, <2>3, <2>4, <3>1
    <3>2. CASE i = N + 1
      <4>1. g[i].id = N /\ N = i - 1
        BY <2>2, <2>3, <2>4, <3>2
      <4> QED
        BY <4>1
    <3> QED
      BY <3>1, <3>2
  <2> QED
    BY <2>1, <2>2, <2>3, <2>4, <2>5 DEF Counted
<1> QED
  BY <1>1, <1>2 DEF News

LEMMA SourceStays ==
    ASSUME Base, NEW s \in Socket, News(s), Source(s)
    PROVE  Source(s)'
<1>1. \A u \in Sends(s) : u \in Sends(s)' /\ (<<u, s>> \in net' => <<u, s>> \in net)
  BY DEF News
<1>2. PICK N \in Nat : N = Len(got[s])
  BY NumberedType DEF Base, Typed
<1>3. PICK f \in [1 .. N -> Sends(s)] :
        /\ \A i, j \in 1 .. N : f[i] = f[j] => i = j
        /\ \A i \in 1 .. N : f[i][1] = got[s][i].about /\ <<f[i], s>> \notin net
  BY <1>2 DEF Source
<1>4. \A i \in 1 .. N : f[i] \in Sends(s) /\ f[i] \in Sends(s)' /\ <<f[i], s>> \notin net'
  BY <1>1, <1>3
<1>5. CASE Quiet(s)
  <2>1. f \in [1 .. N -> Sends(s)']
    BY <1>3, <1>4
  <2> QED
    BY <1>2, <1>3, <1>4, <1>5, <2>1 DEF Source, Quiet
<1>6. ASSUME NEW t, Hears(s, t) PROVE Source(s)'
  <2>1. PICK r \in Origin : r = t[1] /\ got'[s] = Append(got[s], Numbered(s, r))
    BY <1>6 DEF Hears
  <2>4. /\ Len(got'[s]) = N + 1 /\ got'[s][N + 1].about = r
        /\ \A i \in 1 .. N : got'[s][i] = got[s][i]
    BY <1>2, <2>1, HearsOne
  <2>5. t \in Sends(s)' /\ <<t, s>> \notin net'
    BY <1>6 DEF Hears
  <2>6. \A i \in 1 .. N : f[i] # t
    BY <1>3, <1>4, <1>6 DEF Hears
  <2> DEFINE e == [i \in 1 .. N + 1 |-> IF i <= N THEN f[i] ELSE t]
  <2>7. \A i \in 1 .. N + 1 : \/ i \in 1 .. N /\ e[i] = f[i]
                              \/ i = N + 1 /\ e[i] = t
    OBVIOUS
  <2>8. e \in [1 .. N + 1 -> Sends(s)']
    <3>1. PICK T : T = Sends(s)'
      OBVIOUS
    <3>2. \A i \in 1 .. N + 1 : e[i] \in T
      BY <1>4, <2>5, <2>7, <3>1
    <3>3. e \in [1 .. N + 1 -> T]
      BY <3>2
    <3> QED
      BY <3>1, <3>3
  <2> HIDE DEF e
  <2>9. \A i, j \in 1 .. N + 1 : e[i] = e[j] => i = j
    BY <1>3, <2>6, <2>7
  <2>10. \A i \in 1 .. N + 1 : e[i][1] = got'[s][i].about /\ <<e[i], s>> \notin net'
    BY <1>3, <1>4, <2>1, <2>4, <2>5, <2>7
  <2> QED
    BY <2>4, <2>8, <2>9, <2>10 DEF Source
<1> QED
  BY <1>5, <1>6 DEF News

LEMMA LedgerInit == Init => Ledger
<1> SUFFICES ASSUME Init PROVE Ledger
  OBVIOUS
<1>1. Base /\ Turn
  BY BaseInit, TurnInit
<1>2. ASSUME NEW s \in Socket PROVE Source(s) /\ Counted(s)
  <2>1. got[s] = <<>> /\ noticeId[s] = 0
    BY DEF Init
  <2>2. 1 .. Len(got[s]) = {} /\ Len(got[s]) = 0
    BY <2>1
  <2>3. [i \in {} |-> i] \in [{} -> Sends(s)]
    OBVIOUS
  <2>4. Source(s)
    BY <2>2, <2>3 DEF Source
  <2> QED
    BY <2>1, <2>2, <2>4 DEF Counted
<1> QED
  BY <1>1, <1>2 DEF Ledger

LEMMA LedgerNext == Ledger /\ [Next]_vars => Ledger'
<1> SUFFICES ASSUME Ledger, [Next]_vars PROVE Ledger'
  OBVIOUS
<1>1. Base /\ Base' /\ Turn' /\ \A s \in Socket : News(s)
  BY BaseNext, TurnNext, NewsNext DEF Ledger
<1>2. ASSUME NEW s \in Socket PROVE Source(s)' /\ Counted(s)'
  BY <1>1, CountedStays, SourceStays DEF Ledger
<1> QED
  BY <1>1, <1>2 DEF Ledger

LEMMA LedgerNumbers == Ledger => NumbersInv
<1> SUFFICES ASSUME Ledger PROVE NumbersInv
  OBVIOUS
<1>1. ASSUME NEW s \in Socket PROVE \A i \in DOMAIN got[s] : got[s][i].id = i - 1
  <2>1. Counted(s) /\ got[s] \in Seq([id : Nat, about : Origin])
    BY DEF Ledger, Base, Typed
  <2>2. DOMAIN got[s] = 1 .. Len(got[s])
    BY <2>1
  <2> QED
    BY <2>1, <2>2 DEF Counted
<1>2. TypeOK
  BY DEF Ledger, Base, Typed, Turn, TypeOK
<1> QED
  BY <1>1, <1>2 DEF NumbersInv, IdsConsecutive

LEMMA LedgerCopies == Ledger => CopiesBounded
<1> SUFFICES ASSUME Ledger, NEW s \in Socket, NEW r \in Origin
             PROVE  Cardinality({i \in DOMAIN got[s] : got[s][i].about = r})
                        <= IF origin[r].kind = "msg"
                           THEN Cardinality({i \in Copy : task[<<r, i>>].pc # "idle"})
                           ELSE 1
  BY DEF CopiesBounded
<1>1. Base /\ Source(s) /\ Chain(r)
  BY DEF Ledger, Base
<1>2. got[s] \in Seq([id : Nat, about : Origin])
  BY <1>1 DEF Base, Typed
<1>3. PICK D : D = DOMAIN got[s] /\ D = 1 .. Len(got[s])
  BY <1>2
<1>4. PICK f \in [D -> Sends(s)] :
        /\ \A i, j \in D : f[i] = f[j] => i = j
        /\ \A i \in D : f[i][1] = got[s][i].about
  BY <1>1, <1>3 DEF Source
<1>5. PICK I : I = {i \in DOMAIN got[s] : got[s][i].about = r} /\ I \subseteq D
  BY <1>3
<1>6. ASSUME NEW i \in I
      PROVE  \E k \in Copy \cup User :
                /\ f[i] = <<r, k>> /\ f[i][2] = k /\ task[<<r, k>>].pc = "done"
                /\ s \in Sessions(Addressee(<<r, k>>))
  <2>1. /\ f[i] \in Task /\ f[i][2] # Main /\ task[f[i]].pc = "done"
        /\ s \in Sessions(Addressee(f[i])) /\ f[i][1] = r
    BY <1>3, <1>4, <1>5 DEF Sends
  <2>2. PICK k : k = f[i][2]
    OBVIOUS
  <2>3. f[i] = <<r, k>> /\ k \in Copy \cup User
    BY <2>1, <2>2, TaskFacts
  <2> QED
    BY <2>1, <2>2, <2>3
<1>7. \A k \in Copy \cup User : task[<<r, k>>].pc = "done" =>
          k \in IF origin[r].kind = "msg" THEN Copy ELSE User
  BY <1>1 DEF Chain
<1> DEFINE g == [i \in I |-> f[i][2]]
<1>8. \A i \in I : g[i] = f[i][2]
  OBVIOUS
<1>9. \A i, j \in I : g[i] = g[j] => i = j
  <2> SUFFICES ASSUME NEW i \in I, NEW j \in I, g[i] = g[j] PROVE i = j
    OBVIOUS
  <2>1. f[i] = <<r, g[i]>> /\ f[j] = <<r, g[j]>>
    BY <1>6
  <2>2. f[i] = f[j]
    BY <2>1
  <2> QED
    BY <1>4, <1>5, <2>2
<1>10. \A T : (\A i \in I : g[i] \in T) => g \in [I -> T]
  OBVIOUS
<1> HIDE DEF g
<1>11. ASSUME NEW T, \A i \in I : g[i] \in T, IsFiniteSet(T)
       PROVE  Cardinality(I) <= Cardinality(T)
  <2>1. g \in Injection(I, T)
    BY <1>9, <1>10, <1>11 DEF Injection, IsInjective
  <2> QED
    BY <1>11, <2>1, FS_Injection
<1>12. CASE origin[r].kind = "msg"
  <2>1. PICK T : T = {i \in Copy : task[<<r, i>>].pc # "idle"}
    OBVIOUS
  <2>2. ASSUME NEW i \in I PROVE g[i] \in T
    <3>1. PICK k \in Copy \cup User : f[i][2] = k /\ task[<<r, k>>].pc = "done"
      BY <1>6
    <3>2. k \in Copy
      BY <1>7, <1>12, <3>1
    <3> QED
      BY <1>8, <2>1, <3>1, <3>2
  <2>3. IsFiniteSet(Copy)
    <3>1. Cardinality(Socket) \in Int
      BY FS_CardinalityType, NoticeAssumption
    <3> QED
      BY <3>1, FS_Interval DEF Copy
  <2>4. IsFiniteSet(T)
    BY <2>1, <2>3, FS_Subset
  <2> QED
    BY <1>5, <1>11, <1>12, <2>1, <2>2, <2>4
<1>13. CASE origin[r].kind # "msg"
  <2>1. PICK T : T = {UserOf[s]}
    OBVIOUS
  <2>2. ASSUME NEW i \in I PROVE g[i] \in T
    <3>1. PICK k \in Copy \cup User :
                /\ f[i][2] = k /\ task[<<r, k>>].pc = "done"
                /\ s \in Sessions(Addressee(<<r, k>>))
      BY <1>6
    <3>2. k \in User
      BY <1>7, <1>13, <3>1
    <3>3. Addressee(<<r, k>>) = {k}
      BY <3>2 DEF Addressee
    <3> QED
      BY <1>8, <2>1, <3>1, <3>3 DEF Sessions
  <2>3. IsFiniteSet(T) /\ Cardinality(T) = 1
    BY <2>1, FS_Singleton
  <2>4. Cardinality(I) <= 1
    BY <1>11, <2>2, <2>3
  <2> QED
    BY <1>5, <1>13, <2>4
<1> QED
  BY <1>12, <1>13

\* NoticeSender.send and the relay handler both take the number of a notice from
\* the counter of the session's User object: a client sees 0, 1, 2, ... whatever
\* local sends and relays alternate, and the state keeps its shape.
THEOREM NumbersHold == Spec => []NumbersInv
<1>1. Init => Ledger
  BY LedgerInit
<1>2. Ledger /\ [Next]_vars => Ledger'
  BY LedgerNext
<1>3. Ledger => NumbersInv
  BY LedgerNumbers
<1> QED
  BY <1>1, <1>2, <1>3, PTL DEF Spec

\* A session gets no more copies of a private message than the message's lookup
\* found sessions, and of what a room tells at most one: a send writes to a session
\* itself or relays to it, never both, and a relay is delivered once.
THEOREM CopiesHold == Spec => []CopiesBounded
<1>1. Init => Ledger
  BY LedgerInit
<1>2. Ledger /\ [Next]_vars => Ledger'
  BY LedgerNext
<1>3. Ledger => CopiesBounded
  BY LedgerCopies
<1> QED
  BY <1>1, <1>2, <1>3, PTL DEF Spec
=============================================================================
