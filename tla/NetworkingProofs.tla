-------------------------- MODULE NetworkingProofs --------------------------
(***************************************************************************)
(* Proofs for every number of connections and every size of buffers,       *)
(* blocks, writes, sockets and limits: no reply and no command is left     *)
(* without anybody to attend to it; the static buffer, the list of blocks  *)
(* and sentlen are together the bytes that were made and not written; so   *)
(* the books agree, QUIT is answered last, and the server implements the   *)
(* stream of replies.                                                      *)
(*                                                                         *)
(* ReplySize and Joined are recursive functions.  What they compute is     *)
(* proved by induction, as the absence of a least counterexample (NatMin,  *)
(* from the well-foundedness of the order of Nat).                         *)
(***************************************************************************)
EXTENDS Networking, WellFoundedInduction, SequenceTheorems, TLAPS

Fields == {"fd", "query", "multibulk", "buf", "reply", "sentlen", "bytes", "flags",
           "writable"}

\* Somebody will write what client k holds, or free it.
Watched(k) == k.writable \/ k.flags \cap {"pending_write", "close_asap"} # {}

\* What a client holds is attended to.
Safe(k) == HasPending(k) => Watched(k)

\* r is k after operations on its output.
Kept(k, r) ==
    /\ DOMAIN r = Fields
    /\ r.fd = k.fd
    /\ r.query = k.query
    /\ r.writable = k.writable
    /\ k.flags \subseteq r.flags

-----------------------------------------------------------------------------

\* A client to which nothing was done is kept, and one kept twice is kept.
LEMMA KeptTrans ==
    ASSUME NEW k, NEW q, NEW r, Kept(k, q), Kept(q, r)
    PROVE  Kept(k, r)
BY DEF Kept

\* A client that is attended to stays so while its flags grow.
LEMMA KeptWatched ==
    ASSUME NEW k, NEW r, Kept(k, r), Watched(k)
    PROVE  Watched(r)
BY DEF Kept, Watched

\* prepareClientToWrite leaves a client that is attended to.
LEMMA PrepareWatches ==
    ASSUME NEW k, DOMAIN k = Fields, Safe(k)
    PROVE  Kept(k, Prepare(k)) /\ Watched(Prepare(k))
<1>1. CASE HasPending(k)
  BY <1>1 DEF Prepare, Kept, Safe
<1>2. CASE ~ HasPending(k)
  BY <1>2 DEF Prepare, Kept, Watched, Fields
<1> QED BY <1>1, <1>2

\* The output limit only flags a client.
LEMMA CheckLimitKeeps ==
    ASSUME NEW k, DOMAIN k = Fields
    PROVE  Kept(k, CheckLimit(k))
BY DEF CheckLimit, Kept, Fields

\* _addReplyStringToList changes the list and its size.
LEMMA ToListKeeps ==
    ASSUME NEW k, NEW s, NEW slack, DOMAIN k = Fields
    PROVE  Kept(k, ToList(k, s, slack))
<1> DEFINE n == Len(k.reply)
           avail == IF n = 0 THEN 0 ELSE k.reply[n].size - Len(k.reply[n].data)
           copy == IF avail >= Len(s) THEN Len(s) ELSE avail
           rest == SubSeq(s, copy + 1, Len(s))
           size == (IF Len(rest) < Chunk THEN Chunk ELSE Len(rest)) + slack
           tail == IF copy = 0 THEN k.reply
                   ELSE [k.reply EXCEPT ![n].data = @ \o SubSeq(s, 1, copy)]
           one == [k EXCEPT !.reply = tail]
           two == [k EXCEPT !.reply = Append(tail, [data |-> rest, size |-> size]),
                            !.bytes = @ + size]
           r == IF rest = <<>> THEN one ELSE two
<1>1. ToList(k, s, slack) = CheckLimit(r)
  BY DEF ToList
<1> HIDE DEF tail, rest, size
<1>2. Kept(k, one) /\ Kept(k, two)
  BY DEF Kept, Fields
<1>3. Kept(k, r)
  BY <1>2
<1> HIDE DEF r
<1>4. Kept(r, CheckLimit(r))
  BY <1>3, CheckLimitKeeps DEF Kept
<1> QED BY <1>1, <1>3, <1>4, KeptTrans

\* addReply keeps a client attended to.
LEMMA AddReplySafe ==
    ASSUME NEW k, NEW s, NEW slack, DOMAIN k = Fields, Safe(k)
    PROVE  /\ Kept(k, AddReply(k, s, slack))
           /\ Silent(k) => AddReply(k, s, slack) = k
           /\ ~ Silent(k) => Watched(AddReply(k, s, slack))
<1> DEFINE p == Prepare(k)
           one == [p EXCEPT !.buf = @ \o s]
<1>1. CASE Silent(k)
  BY <1>1 DEF AddReply, Kept
<1>2. ASSUME ~ Silent(k) PROVE Kept(k, AddReply(k, s, slack)) /\ Watched(AddReply(k, s, slack))
  <2>1. Kept(k, p) /\ Watched(p)
    BY PrepareWatches
  <2>2. AddReply(k, s, slack) \in {p, one, ToList(p, s, slack)}
    BY <1>2 DEF AddReply
  <2> HIDE DEF p
  <2>3. Kept(p, one)
    BY <2>1 DEF Kept, Fields
  <2>4. Kept(p, ToList(p, s, slack))
    BY <2>1, ToListKeeps DEF Kept
  <2>5. Kept(p, p)
    BY <2>1 DEF Kept
  <2>6. Kept(p, AddReply(k, s, slack))
    BY <2>2, <2>3, <2>4, <2>5
  <2> QED BY <2>1, <2>6, KeptTrans, KeptWatched
<1> QED BY <1>1, <1>2

\* addDeferredMultiBulkLength leaves a client that gets replies attended to.
LEMMA AddDeferredSafe ==
    ASSUME NEW k, DOMAIN k = Fields, Safe(k)
    PROVE  /\ Kept(k, AddDeferred(k))
           /\ Silent(k) => AddDeferred(k) = k
           /\ ~ Silent(k) => Watched(AddDeferred(k))
<1> DEFINE p == Prepare(k)
           one == [p EXCEPT !.reply = Append(@, NullNode)]
<1>1. Kept(k, p) /\ Watched(p)
  BY PrepareWatches
<1>2. AddDeferred(k) = IF Silent(k) THEN k ELSE one
  BY DEF AddDeferred
<1>3. Kept(k, k)
  BY DEF Kept
<1> HIDE DEF p
<1>4. Kept(p, one)
  BY <1>1 DEF Kept, Fields
<1> QED BY <1>1, <1>2, <1>3, <1>4, KeptTrans, KeptWatched

\* setDeferredMultiBulkLength changes the list and its size.
LEMMA SetDeferredKeeps ==
    ASSUME NEW k, NEW node, NEW s, NEW slack, DOMAIN k = Fields
    PROVE  /\ Kept(k, SetDeferred(k, node, s, slack))
           /\ Silent(k) => SetDeferred(k, node, s, slack) = k
<1>1. CASE Silent(k)
  BY <1>1 DEF SetDeferred, Kept
<1>2. CASE ~ Silent(k)
  <2>1. PICK reply, bytes :
            SetDeferred(k, node, s, slack) \in
                {CheckLimit([k EXCEPT !.reply = reply]),
                 CheckLimit([k EXCEPT !.reply = reply, !.bytes = bytes])}
    BY <1>2 DEF SetDeferred
  <2> DEFINE one == [k EXCEPT !.reply = reply]
             two == [k EXCEPT !.reply = reply, !.bytes = bytes]
  <2>2. Kept(k, one) /\ Kept(k, two)
    BY DEF Kept, Fields
  <2>3. Kept(one, CheckLimit(one)) /\ Kept(two, CheckLimit(two))
    BY <2>2, CheckLimitKeeps DEF Kept
  <2> QED BY <1>2, <2>1, <2>2, <2>3, KeptTrans
<1> QED BY <1>1, <1>2

-----------------------------------------------------------------------------

\* Nothing is left of a client that is not connected.
Idle(k) == k.query = <<>> /\ ~ HasPending(k) /\ ~ k.writable /\ k.flags = {}

Shape ==
    /\ cl = [c \in Client |-> cl[c]]
    /\ \A c \in Client : DOMAIN cl[c] = Fields
    /\ \A c \in Client : cl[c].fd = "open" \/ Idle(cl[c])

\* The handler under way serves a connected client, and sendReplyToClient one
\* whose write handler is installed.
JobOK ==
    \/ job = NoJob
    \/ \E c \in Client : job = [op |-> "input", c |-> c] /\ cl[c].fd = "open"
    \/ \E c \in Client, h \in BOOLEAN :
        /\ job = [op |-> "write", c |-> c, handler |-> h, tot |-> job.tot]
        /\ cl[c].fd = "open"
        /\ h => cl[c].writable

RepliesOK == \A c \in Client : Safe(cl[c]) \/ Busy("write", c)

\* The input of client k, with p for the state of the pause.
Served(k, p) ==
    \/ k.query = <<>>
    \/ p # "no"
    \/ k.flags \cap {"unblocked", "close_after", "close_asap"} # {}

CommandsOK == \A c \in Client : Served(cl[c], paused) \/ Busy("input", c)

NetInv == Shape /\ JobOK /\ RepliesOK /\ CommandsOK

LEMMA InitInv == Init => NetInv
BY DEF Init, NetInv, Shape, JobOK, RepliesOK, CommandsOK, NoClient, Fields, Idle, HasPending,
       Safe, Served, NoJob

\* A step that gives one client c a new structure r.
LEMMA OneClient ==
    ASSUME NetInv, NEW c \in Client, NEW r, cl' = [cl EXCEPT ![c] = r],
           DOMAIN r = Fields, r.fd = "open" \/ Idle(r),
           JobOK',
           \A d \in Client \ {c} : /\ Busy("write", d) => Busy("write", d)'
                                   /\ Busy("input", d) => Busy("input", d)',
           paused' = paused \/ paused' # "no",
           Safe(r) \/ Busy("write", c)',
           Served(r, paused') \/ Busy("input", c)'
    PROVE  NetInv'
<1> USE DEF NetInv
<1>1. cl'[c] = r /\ \A d \in Client \ {c} : cl'[d] = cl[d]
  BY DEF Shape
<1>2. Shape'
  BY <1>1 DEF Shape
<1>3. RepliesOK'
  BY <1>1 DEF RepliesOK
<1>4. CommandsOK'
  BY <1>1 DEF CommandsOK, Served
<1> QED BY <1>2, <1>3, <1>4

\* freeClient leaves nothing of a client.
LEMMA FreeIdle ==
    LET f == [NoClient EXCEPT !.fd = "closed"]
    IN DOMAIN f = Fields /\ Idle(f) /\ Safe(f) /\ \A p : Served(f, p)
BY DEF NoClient, Fields, Idle, HasPending, Safe, Served

\* One client freed, and no handler left to run.
LEMMA FreeOne ==
    ASSUME NetInv, NEW c \in Client, cl' = FreeClients({c}), job' = NoJob,
           job = NoJob \/ job.c = c, UNCHANGED paused
    PROVE  NetInv'
<1> DEFINE f == [NoClient EXCEPT !.fd = "closed"]
<1>1. cl' = [cl EXCEPT ![c] = f]
  BY DEF FreeClients, NetInv, Shape
<1>2. JobOK'
  BY DEF JobOK
<1>3. \A d \in Client \ {c} : ~ Busy("write", d) /\ ~ Busy("input", d)
  BY DEF Busy, NoJob
<1> HIDE DEF f
<1> QED BY <1>1, <1>2, <1>3, FreeIdle, OneClient DEF f

\* clientsArePaused at the end of a pause, after clients were freed: all that
\* are connected are in unblocked_clients.
LEMMA ResumeInv ==
    ASSUME NetInv, NEW gone \in SUBSET Client, cl' = Resume(FreeClients(gone)),
           UNCHANGED job, gone = {} \/ job = NoJob
    PROVE  NetInv'
<1> DEFINE f == FreeClients(gone)
<1>1. \A c \in Client : DOMAIN f[c] = Fields /\ (f[c].fd = "open" \/ Idle(f[c]))
  BY FreeIdle DEF FreeClients, NetInv, Shape
<1>2. \A c \in Client : f[c] = cl[c] \/ (c \in gone /\ Idle(f[c]))
  BY FreeIdle DEF FreeClients
<1>3. cl' = [c \in Client |->
               IF f[c].fd = "open" THEN [f[c] EXCEPT !.flags = @ \cup {"unblocked"}] ELSE f[c]]
  BY DEF Resume
<1> HIDE DEF f
<1>4. ASSUME NEW c \in Client
      PROVE  /\ DOMAIN cl'[c] = Fields
             /\ cl'[c].fd = f[c].fd
             /\ cl'[c].writable = f[c].writable
             /\ HasPending(cl'[c]) => HasPending(f[c])
             /\ f[c].flags \subseteq cl'[c].flags
             /\ cl'[c].fd = "open" \/ Idle(cl'[c])
             /\ cl'[c].fd = "open" => "unblocked" \in cl'[c].flags
  BY <1>1, <1>3 DEF Fields, HasPending
<1>5. Shape'
  BY <1>3, <1>4 DEF Shape
<1>6. JobOK'
  <2>1. CASE job = NoJob
    BY <2>1 DEF JobOK
  <2>2. CASE gone = {}
    BY <1>2, <1>4, <2>2 DEF JobOK, NetInv
  <2> QED BY <2>1, <2>2
<1>7. RepliesOK'
  <2> SUFFICES ASSUME NEW c \in Client PROVE Safe(cl'[c]) \/ Busy("write", c)'
    BY DEF RepliesOK
  <2>1. Safe(f[c]) \/ Busy("write", c)
    BY <1>2 DEF NetInv, RepliesOK, Safe, Idle
  <2>2. Safe(f[c]) => Safe(cl'[c])
    BY <1>4 DEF Safe, Watched
  <2> QED BY <2>1, <2>2 DEF Busy
<1>8. CommandsOK'
  BY <1>4 DEF CommandsOK, Served, Idle
<1> QED BY <1>5, <1>6, <1>7, <1>8 DEF NetInv

\* What the invariant says of the client of a handler.
LEMMA InputClient ==
    ASSUME NetInv, NEW c \in Client, Busy("input", c)
    PROVE  /\ job = [op |-> "input", c |-> c]
           /\ cl[c].fd = "open"
           /\ DOMAIN cl[c] = Fields
           /\ Safe(cl[c])
           /\ ~ Busy("write", c)
           /\ \A d \in Client \ {c} : ~ Busy("write", d) /\ ~ Busy("input", d)
<1>1. job = [op |-> "input", c |-> c] /\ cl[c].fd = "open"
  BY DEF NetInv, JobOK, Busy, NoJob
<1>2. ~ Busy("write", c) /\ \A d \in Client \ {c} : ~ Busy("write", d) /\ ~ Busy("input", d)
  BY <1>1 DEF Busy
<1> QED BY <1>1, <1>2 DEF NetInv, Shape, RepliesOK

LEMMA WriteClient ==
    ASSUME NetInv, NEW c \in Client, Busy("write", c)
    PROVE  /\ job = [op |-> "write", c |-> c, handler |-> job.handler, tot |-> job.tot]
           /\ job.handler \in BOOLEAN
           /\ job.handler => cl[c].writable
           /\ cl[c].fd = "open"
           /\ DOMAIN cl[c] = Fields
           /\ Served(cl[c], paused)
           /\ \A d \in Client \ {c} : ~ Busy("write", d) /\ ~ Busy("input", d)
<1>1. PICK h \in BOOLEAN :
        /\ job = [op |-> "write", c |-> c, handler |-> h, tot |-> job.tot]
        /\ cl[c].fd = "open"
        /\ h => cl[c].writable
  BY DEF NetInv, JobOK, Busy, NoJob
<1>2. ~ Busy("input", c) /\ \A d \in Client \ {c} : ~ Busy("write", d) /\ ~ Busy("input", d)
  BY <1>1 DEF Busy
<1> QED BY <1>1, <1>2 DEF NetInv, Shape, CommandsOK

\* resetClient leaves the output and the flags that matter.
LEMMA ResetSafe ==
    ASSUME NEW k, DOMAIN k = Fields, Safe(k)
    PROVE  /\ DOMAIN Reset(k) = Fields
           /\ Reset(k).fd = k.fd
           /\ Safe(Reset(k))
<1> USE DEF Reset, Fields
<1>1. DOMAIN Reset(k) = Fields /\ Reset(k).fd = k.fd /\ Reset(k).writable = k.writable
  OBVIOUS
<1>2. Reset(k).buf = k.buf /\ Reset(k).reply = k.reply
  OBVIOUS
<1>3. k.flags \cap {"pending_write", "close_asap"}
        \subseteq Reset(k).flags \cap {"pending_write", "close_asap"}
  OBVIOUS
<1> QED BY <1>1, <1>2, <1>3 DEF Safe, HasPending, Watched

\* A turn of processInputBuffer that gives its client a structure r.
LEMMA InputStep ==
    ASSUME NetInv, NEW c \in Client, Busy("input", c), NEW r,
           cl' = [cl EXCEPT ![c] = r], UNCHANGED job,
           DOMAIN r = Fields, r.fd = "open", Safe(r),
           paused' = paused \/ paused' # "no"
    PROVE  NetInv'
<1>1. job = [op |-> "input", c |-> c]
  BY InputClient
<1>2. cl'[c] = r
  BY DEF NetInv, Shape
<1>3. JobOK'
  BY <1>1, <1>2 DEF JobOK
<1>4. \A d \in Client : /\ Busy("write", d) => Busy("write", d)'
                        /\ Busy("input", d) => Busy("input", d)'
  BY DEF Busy
<1> QED BY <1>3, <1>4, OneClient

\* The token is consumed, and nothing else changes.
LEMMA ConsumeSafe ==
    ASSUME NetInv, NEW c \in Client, Busy("input", c)
    PROVE  /\ DOMAIN Consume(c) = Fields
           /\ Consume(c).fd = "open"
           /\ Consume(c).flags = cl[c].flags
           /\ Safe(Consume(c))
BY InputClient DEF Consume, Fields, Safe, HasPending, Watched

\* A reply of a client that is to be closed after it.
LEMMA CloseAfterSafe ==
    ASSUME NEW k, DOMAIN k = Fields, Safe(k)
    PROVE  LET r == [k EXCEPT !.flags = @ \cup {"close_after"}]
           IN DOMAIN r = Fields /\ r.fd = k.fd /\ Safe(r)
BY DEF Fields, Safe, HasPending, Watched

\* addReply, in the form in which the commands use it.
LEMMA ReplySafe ==
    ASSUME NEW k, NEW s, NEW slack, DOMAIN k = Fields, Safe(k)
    PROVE  /\ DOMAIN AddReply(k, s, slack) = Fields
           /\ AddReply(k, s, slack).fd = k.fd
           /\ Safe(AddReply(k, s, slack))
<1>1. Kept(k, AddReply(k, s, slack))
  BY AddReplySafe
<1>2. Safe(AddReply(k, s, slack))
  BY AddReplySafe DEF Safe
<1> QED BY <1>1, <1>2 DEF Kept

\* A reply in one piece, and resetClient.
LEMMA AnswerSafe ==
    ASSUME NEW k, NEW s, NEW slack, DOMAIN k = Fields, k.fd = "open", Safe(k)
    PROVE  /\ DOMAIN Reset(AddReply(k, s, slack)) = Fields
           /\ Reset(AddReply(k, s, slack)).fd = "open"
           /\ Safe(Reset(AddReply(k, s, slack)))
<1> DEFINE a == AddReply(k, s, slack)
<1>1. DOMAIN a = Fields /\ a.fd = "open" /\ Safe(a)
  BY ReplySafe
<1> HIDE DEF a
<1>2. DOMAIN Reset(a) = Fields /\ Reset(a).fd = "open" /\ Safe(Reset(a))
  BY <1>1, ResetSafe
<1> QED BY <1>2 DEF a

\* SMEMBERS: the place for the length makes the client attended to, and what
\* follows keeps it so.
LEMMA SmembersSafe ==
    ASSUME NEW k, DOMAIN k = Fields, Safe(k), NEW s, NEW t, NEW u, NEW node, NEW slack
    PROVE  LET one == AddReply(AddDeferred(k), s, slack)
               two == AddReply(one, t, slack)
               r == SetDeferred(two, node, u, slack)
           IN DOMAIN r = Fields /\ r.fd = k.fd /\ Safe(r)
<1> DEFINE q == AddDeferred(k)
           one == AddReply(q, s, slack)
           two == AddReply(one, t, slack)
           r == SetDeferred(two, node, u, slack)
<1>1. CASE Silent(k)
  <2>1. q = k
    BY <1>1, AddDeferredSafe
  <2>2. one = k
    BY <1>1, <2>1, AddReplySafe
  <2>3. two = k
    BY <1>1, <2>2, AddReplySafe
  <2>4. r = k
    BY <1>1, <2>3, SetDeferredKeeps
  <2> QED BY <2>4
<1>2. CASE ~ Silent(k)
  <2>1. Kept(k, q) /\ Watched(q)
    BY <1>2, AddDeferredSafe
  <2>2. Kept(q, one) /\ Watched(one)
    BY <2>1, AddReplySafe, KeptWatched DEF Safe, Kept
  <2>3. Kept(one, two) /\ Watched(two)
    BY <2>2, AddReplySafe, KeptWatched DEF Safe, Kept
  <2>4. Kept(two, r) /\ Watched(r)
    BY <2>3, SetDeferredKeeps, KeptWatched DEF Kept
  <2> HIDE DEF q, one, two, r
  <2>5. r.fd = k.fd /\ DOMAIN r = Fields
    BY <2>1, <2>2, <2>3, <2>4 DEF Kept
  <2>6. Safe(r)
    BY <2>4 DEF Safe
  <2> QED BY <2>5, <2>6 DEF q, one, two, r
<1> QED BY <1>1, <1>2

\* processInputBuffer preserves the invariant.
LEMMA InputInv ==
    ASSUME NetInv, NEW c \in Client, Input(c)
    PROVE  NetInv'
<1> DEFINE k == Consume(c)
<1>b. Busy("input", c)
  BY DEF Input, InputEnd, InputResume, Header, EmptyCommand, ProtocolError, Quit, Call,
         Smembers, Pause, ReplyOn, ReplyOff, ReplySkip, Parses
<1>k. DOMAIN k = Fields /\ k.fd = "open" /\ k.flags = cl[c].flags /\ Safe(k)
  BY <1>b, ConsumeSafe
<1>c. DOMAIN cl[c] = Fields /\ cl[c].fd = "open" /\ Safe(cl[c])
  BY <1>b, InputClient
<1> HIDE DEF k
<1>1. CASE InputEnd(c)
  <2>1. Served(cl[c], paused)
    BY <1>1 DEF InputEnd, Stops, Served
  <2>2. cl' = [cl EXCEPT ![c] = cl[c]]
    BY <1>1 DEF InputEnd, NetInv, Shape
  <2>3. job' = NoJob /\ UNCHANGED paused
    BY <1>1 DEF InputEnd
  <2>4. JobOK'
    BY <2>3 DEF JobOK
  <2>5. \A d \in Client \ {c} : ~ Busy("write", d) /\ ~ Busy("input", d)
    BY <1>b, InputClient
  <2>6. Safe(cl[c]) /\ Served(cl[c], paused') /\ paused' = paused
    BY <1>c, <2>1, <2>3
  <2> DEFINE r == cl[c]
  <2>7. DOMAIN r = Fields /\ r.fd = "open" /\ cl' = [cl EXCEPT ![c] = r]
        /\ Safe(r) /\ Served(r, paused')
    BY <1>c, <2>2, <2>6
  <2> HIDE DEF r
  <2> QED BY <2>4, <2>5, <2>6, <2>7, OneClient
<1>2. CASE InputResume(c)
  <2>1. cl' = Resume(cl) /\ UNCHANGED job
    BY <1>2 DEF InputResume
  <2>2. FreeClients({}) = cl
    BY DEF FreeClients, NetInv, Shape
  <2>3. {} \in SUBSET Client /\ cl' = Resume(FreeClients({}))
    BY <2>1, <2>2
  <2> QED BY <2>1, <2>3, ResumeInv
<1>3. CASE Header(c)
  <2>1. DOMAIN [k EXCEPT !.multibulk = TRUE] = Fields /\ [k EXCEPT !.multibulk = TRUE].fd = "open"
        /\ Safe([k EXCEPT !.multibulk = TRUE])
    BY <1>k DEF Fields, Safe, HasPending, Watched
  <2> QED BY <1>3, <1>b, <2>1, InputStep DEF Header, k
<1>4. CASE EmptyCommand(c)
  <2>1. cl' = [cl EXCEPT ![c] = Reset(k)] /\ UNCHANGED <<job, paused>>
    BY <1>4 DEF EmptyCommand, k
  <2>2. DOMAIN Reset(k) = Fields /\ Reset(k).fd = "open" /\ Safe(Reset(k))
    BY <1>k, ResetSafe
  <2> QED BY <1>b, <2>1, <2>2, InputStep
<1>5. CASE ProtocolError(c)
  <2>1. PICK n \in Sizes, slack \in Slack :
          Answers(c, [AddReply(cl[c], Bytes(made[c], n), slack)
                        EXCEPT !.flags = @ \cup {"close_after"}], n)
    BY <1>5 DEF ProtocolError
  <2> DEFINE a == AddReply(cl[c], Bytes(made[c], n), slack)
             r == [a EXCEPT !.flags = @ \cup {"close_after"}]
  <2>2. DOMAIN a = Fields /\ a.fd = "open" /\ Safe(a)
    BY <1>c, ReplySafe
  <2>3. cl' = [cl EXCEPT ![c] = r] /\ UNCHANGED <<job, paused>>
    BY <1>5, <2>1 DEF ProtocolError, Answers
  <2> HIDE DEF a
  <2>4. DOMAIN r = Fields /\ r.fd = "open" /\ Safe(r)
    BY <2>2, CloseAfterSafe
  <2> QED BY <1>b, <2>3, <2>4, InputStep
<1>6. CASE Quit(c)
  <2>1. PICK slack \in Slack :
          Answers(c, [AddReply(k, Bytes(made[c], 1), slack)
                        EXCEPT !.flags = @ \cup {"close_after"}], 1)
    BY <1>6 DEF Quit, k
  <2> DEFINE a == AddReply(k, Bytes(made[c], 1), slack)
             r == [a EXCEPT !.flags = @ \cup {"close_after"}]
  <2>2. DOMAIN a = Fields /\ a.fd = "open" /\ Safe(a)
    BY <1>k, ReplySafe
  <2>3. cl' = [cl EXCEPT ![c] = r] /\ UNCHANGED <<job, paused>>
    BY <1>6, <2>1 DEF Quit, Answers
  <2> HIDE DEF a
  <2>4. DOMAIN r = Fields /\ r.fd = "open" /\ Safe(r)
    BY <2>2, CloseAfterSafe
  <2> QED BY <1>b, <2>3, <2>4, InputStep
<1>7. CASE Call(c)
  <2>1. PICK n \in Sizes, slack \in Slack :
          Answers(c, Reset(AddReply(k, Bytes(made[c], n), slack)), n)
    BY <1>7 DEF Call, k
  <2>2. cl' = [cl EXCEPT ![c] = Reset(AddReply(k, Bytes(made[c], n), slack))]
        /\ UNCHANGED <<job, paused>>
    BY <1>7, <2>1 DEF Call, Answers
  <2> DEFINE r == Reset(AddReply(k, Bytes(made[c], n), slack))
  <2>3. DOMAIN r = Fields /\ r.fd = "open" /\ Safe(r)
    BY <1>k, AnswerSafe
  <2> HIDE DEF r
  <2> QED BY <1>b, <2>2, <2>3, InputStep DEF r
<1>8. CASE Smembers(c)
  <2>1. PICK n \in Sizes, m \in Sizes, slack \in Slack :
          Answers(c, Reset(SetDeferred(
                              AddReply(AddReply(AddDeferred(k), Bytes(made[c] + 1, n), slack),
                                       Bytes(made[c] + 1 + n, m), slack),
                              Len(AddDeferred(k).reply), Bytes(made[c], 1), slack)),
                  1 + n + m)
    BY <1>8 DEF Smembers, k
  <2> DEFINE r == SetDeferred(
                      AddReply(AddReply(AddDeferred(k), Bytes(made[c] + 1, n), slack),
                               Bytes(made[c] + 1 + n, m), slack),
                      Len(AddDeferred(k).reply), Bytes(made[c], 1), slack)
  <2>2. DOMAIN r = Fields /\ r.fd = "open" /\ Safe(r)
    BY <1>k, SmembersSafe
  <2>3. cl' = [cl EXCEPT ![c] = Reset(r)] /\ UNCHANGED <<job, paused>>
    BY <1>8, <2>1 DEF Smembers, Answers
  <2> HIDE DEF r
  <2> QED BY <1>b, <2>2, <2>3, ResetSafe, InputStep
<1>9. CASE Pause(c)
  <2>1. PICK slack \in Slack :
          Answers(c, Reset(AddReply(k, Bytes(made[c], 1), slack)), 1)
    BY <1>9 DEF Pause, k
  <2>2. cl' = [cl EXCEPT ![c] = Reset(AddReply(k, Bytes(made[c], 1), slack))]
        /\ UNCHANGED job /\ paused' # "no"
    BY <1>9, <2>1 DEF Pause, Answers
  <2> DEFINE r == Reset(AddReply(k, Bytes(made[c], 1), slack))
  <2>3. DOMAIN r = Fields /\ r.fd = "open" /\ Safe(r)
    BY <1>k, AnswerSafe
  <2> HIDE DEF r
  <2> QED BY <1>b, <2>2, <2>3, InputStep DEF r
<1>10. CASE ReplyOn(c)
  <2> DEFINE o == [k EXCEPT !.flags = @ \ {"off", "skip"}]
  <2>1. DOMAIN o = Fields /\ o.fd = "open" /\ Safe(o)
    BY <1>k DEF Fields, Safe, HasPending, Watched
  <2>2. PICK slack \in Slack : cl' = [cl EXCEPT ![c] = Reset(AddReply(o, Bytes(made[c], 1), slack))]
    BY <1>10 DEF ReplyOn, k
  <2>3. UNCHANGED <<job, paused>>
    BY <1>10 DEF ReplyOn
  <2> HIDE DEF o
  <2> DEFINE r == Reset(AddReply(o, Bytes(made[c], 1), slack))
  <2>4. DOMAIN r = Fields /\ r.fd = "open" /\ Safe(r)
    BY <2>1, AnswerSafe
  <2> HIDE DEF r
  <2> QED BY <1>b, <2>2, <2>3, <2>4, InputStep DEF r
<1>11. CASE ReplyOff(c)
  <2> DEFINE o == [k EXCEPT !.flags = @ \cup {"off"}]
  <2>1. DOMAIN o = Fields /\ o.fd = "open" /\ Safe(o)
    BY <1>k DEF Fields, Safe, HasPending, Watched
  <2>2. cl' = [cl EXCEPT ![c] = Reset(o)] /\ UNCHANGED <<job, paused>>
    BY <1>11 DEF ReplyOff, k
  <2> HIDE DEF o
  <2> QED BY <1>b, <2>1, <2>2, ResetSafe, InputStep
<1>12. CASE ReplySkip(c)
  <2> DEFINE o == [k EXCEPT !.flags = @ \cup {"skip_next"}]
             p == IF "off" \in cl[c].flags THEN k ELSE o
  <2>1. DOMAIN o = Fields /\ o.fd = "open" /\ Safe(o)
    BY <1>k DEF Fields, Safe, HasPending, Watched
  <2>2. DOMAIN p = Fields /\ p.fd = "open" /\ Safe(p)
    BY <1>k, <2>1
  <2>3. cl' = [cl EXCEPT ![c] = Reset(p)] /\ UNCHANGED <<job, paused>>
    BY <1>12 DEF ReplySkip, k
  <2> HIDE DEF p
  <2> QED BY <1>b, <2>2, <2>3, ResetSafe, InputStep
<1> QED
  BY <1>1, <1>2, <1>3, <1>4, <1>5, <1>6, <1>7, <1>8, <1>9, <1>10, <1>11, <1>12 DEF Input

-----------------------------------------------------------------------------

\* A write moves the output on and leaves the rest of the client.
LEMMA AdvanceKeeps ==
    ASSUME NEW k, NEW n, DOMAIN k = Fields
    PROVE  Kept(k, Advance(k, n))
<1> DEFINE one == [k EXCEPT !.sentlen = @ + n]
           two == [k EXCEPT !.buf = <<>>, !.sentlen = 0]
           three == [k EXCEPT !.reply = Tail(@), !.sentlen = 0, !.bytes = @ - k.reply[1].size]
<1>1. Advance(k, n) \in {one, two, three}
  BY DEF Advance
<1>2. Kept(k, one) /\ Kept(k, two) /\ Kept(k, three)
  BY DEF Kept, Fields
<1> QED BY <1>1, <1>2

\* The input of a client that is kept.
LEMMA KeptServed ==
    ASSUME NEW k, NEW r, NEW p, Kept(k, r), Served(k, p)
    PROVE  Served(r, p)
BY DEF Kept, Served

\* writeToClient preserves the invariant.
LEMMA OutputInv ==
    ASSUME NetInv, NEW c \in Client, Output(c)
    PROVE  NetInv'
<1>b. Busy("write", c)
  BY DEF Output, Write, WriteAll, WriteRest, WriteError
<1>c. /\ DOMAIN cl[c] = Fields
      /\ cl[c].fd = "open"
      /\ Served(cl[c], paused)
      /\ job = [op |-> "write", c |-> c, handler |-> job.handler, tot |-> job.tot]
      /\ job.handler \in BOOLEAN
      /\ job.handler => cl[c].writable
      /\ \A d \in Client \ {c} : ~ Busy("write", d) /\ ~ Busy("input", d)
  BY <1>b, WriteClient
<1>u. UNCHANGED paused
  BY DEF Output, Write, WriteAll, WriteRest, WriteError
<1>j. job' = NoJob => JobOK'
  BY DEF JobOK
<1>1. CASE Write(c)
  <2>1. PICK n : /\ cl' = [cl EXCEPT ![c] = Advance(cl[c], n)]
                 /\ job' = [job EXCEPT !.tot = @ + n]
    BY <1>1 DEF Write
  <2> DEFINE r == Advance(cl[c], n)
  <2>2. Kept(cl[c], r)
    BY <1>c, AdvanceKeeps
  <2> HIDE DEF r
  <2>3. DOMAIN r = Fields /\ r.fd = "open" /\ Served(r, paused')
    BY <1>c, <1>u, <2>2, KeptServed DEF Kept
  <2>4. cl' = [cl EXCEPT ![c] = r] /\ cl'[c] = r
    BY <2>1 DEF r, NetInv, Shape
  <2>5. job' = [op |-> "write", c |-> c, handler |-> job.handler, tot |-> job'.tot]
    BY <1>c, <2>1
  <2>6. JobOK'
    BY <1>c, <2>2, <2>3, <2>4, <2>5 DEF JobOK, Kept
  <2>7. Busy("write", c)'
    BY <2>5 DEF Busy
  <2> QED BY <1>c, <1>u, <2>3, <2>4, <2>6, <2>7, OneClient
<1>2. CASE WriteAll(c)
  <2>1. job' = NoJob /\ ~ HasPending(cl[c]) /\ cl' = Drained(c)
    BY <1>2 DEF WriteAll
  <2>2. CASE "close_after" \in cl[c].flags
    <3>1. cl' = FreeClients({c})
      BY <2>1, <2>2 DEF Drained
    <3>2. job.c = c
      BY <1>c
    <3> QED BY <1>u, <2>1, <3>1, <3>2, FreeOne
  <2>3. CASE "close_after" \notin cl[c].flags
    <3> DEFINE r == [cl[c] EXCEPT !.sentlen = 0, !.writable = @ /\ ~ job.handler]
    <3>1. cl' = [cl EXCEPT ![c] = r]
      BY <2>1, <2>3 DEF Drained
    <3>2. DOMAIN r = Fields /\ r.fd = "open" /\ r.query = cl[c].query
          /\ r.flags = cl[c].flags /\ ~ HasPending(r)
      BY <1>c, <2>1 DEF Fields, HasPending
    <3> HIDE DEF r
    <3>3. Safe(r) /\ Served(r, paused')
      BY <1>c, <1>u, <3>2 DEF Safe, Served
    <3> QED BY <1>c, <1>j, <1>u, <2>1, <3>1, <3>2, <3>3, OneClient
  <2> QED BY <2>2, <2>3
<1>3. CASE WriteRest(c)
  <2>1. job' = NoJob
    BY <1>3 DEF WriteRest
  <2> DEFINE w == [cl[c] EXCEPT !.writable = TRUE]
             f == [cl[c] EXCEPT !.flags = @ \cup {"close_asap"}]
  <2>2. DOMAIN w = Fields /\ w.fd = "open" /\ w.query = cl[c].query /\ w.flags = cl[c].flags
        /\ Watched(w)
    BY <1>c DEF Fields, Watched
  <2>3. Kept(cl[c], f) /\ Watched(f)
    BY <1>c DEF Fields, Watched, Kept
  <2>4. \/ job.handler /\ cl' = [cl EXCEPT ![c] = cl[c]]
        \/ cl' = [cl EXCEPT ![c] = w]
        \/ cl' = [cl EXCEPT ![c] = f]
    BY <1>3 DEF WriteRest, LeaveRest, NetInv, Shape
  <2> HIDE DEF w, f
  <2>5. PICK r \in {cl[c], w, f} : cl' = [cl EXCEPT ![c] = r] /\ Watched(r)
    BY <1>c, <2>2, <2>3, <2>4 DEF Watched
  <2>6. DOMAIN r = Fields /\ r.fd = "open" /\ Safe(r) /\ Served(r, paused')
    BY <1>c, <1>u, <2>2, <2>3, <2>5, KeptServed DEF Kept, Safe, Served
  <2> QED BY <1>c, <1>j, <1>u, <2>1, <2>5, <2>6, OneClient
<1>4. CASE WriteError(c)
  <2>1. job' = NoJob /\ cl' = FreeClients({c}) /\ job.c = c
    BY <1>4, <1>c DEF WriteError
  <2> QED BY <1>u, <2>1, FreeOne
<1> QED BY <1>1, <1>2, <1>3, <1>4 DEF Output

\* The handlers of events preserve the invariant.
LEMMA EventInv ==
    ASSUME NetInv, NEW c \in Client, Event(c)
    PROVE  NetInv'
<1>j. job = NoJob /\ \A d \in Client : ~ Busy("write", d) /\ ~ Busy("input", d)
  BY DEF Event, Accept, Read, ReadEnd, SendReply, Stale, Fires, Busy, NoJob
<1>u. UNCHANGED paused
  BY DEF Event, Accept, Read, ReadEnd, SendReply, Stale
<1>n. job' = NoJob => JobOK'
  BY DEF JobOK
<1>c. DOMAIN cl[c] = Fields /\ Safe(cl[c]) /\ Served(cl[c], paused)
      /\ (cl[c].fd = "open" \/ Idle(cl[c]))
  BY <1>j DEF NetInv, Shape, RepliesOK, CommandsOK
<1>1. CASE Accept(c)
  <2>1. PICK fd \in {"open", "closed"} : cl' = [cl EXCEPT ![c].fd = fd]
    BY <1>1 DEF Accept
  <2> DEFINE r == [cl[c] EXCEPT !.fd = fd]
  <2>2. cl' = [cl EXCEPT ![c] = r] /\ job' = NoJob /\ Idle(cl[c])
    BY <1>1, <1>c, <1>j, <2>1 DEF Accept
  <2>3. DOMAIN r = Fields /\ Idle(r)
    BY <1>c, <2>2 DEF Fields, Idle, HasPending
  <2> HIDE DEF r
  <2>4. Safe(r) /\ Served(r, paused')
    BY <2>3 DEF Safe, Served, Idle
  <2> QED BY <1>j, <1>n, <1>u, <2>2, <2>3, <2>4, OneClient
<1>2. CASE Read(c)
  <2>1. CASE cl' = FreeClients({c}) /\ UNCHANGED job
    BY <1>j, <1>u, <2>1, FreeOne
  <2>2. CASE /\ \E q : cl' = [cl EXCEPT ![c].query = q]
             /\ job' = [op |-> "input", c |-> c]
    <3>1. PICK q : cl' = [cl EXCEPT ![c].query = q]
      BY <2>2
    <3> DEFINE r == [cl[c] EXCEPT !.query = q]
    <3>2. cl' = [cl EXCEPT ![c] = r] /\ cl[c].fd = "open"
      BY <1>2, <3>1 DEF Read, Open
    <3>3. DOMAIN r = Fields /\ r.fd = "open" /\ Safe(r)
      BY <1>c, <3>2 DEF Fields, Safe, HasPending, Watched
    <3> HIDE DEF r
    <3>4. cl'[c] = r
      BY <3>2 DEF NetInv, Shape
    <3>5. JobOK' /\ Busy("input", c)'
      BY <2>2, <3>3, <3>4 DEF JobOK, Busy
    <3> QED BY <1>j, <1>u, <3>2, <3>3, <3>5, OneClient
  <2> QED BY <1>2, <2>1, <2>2 DEF Read
<1>3. CASE ReadEnd(c)
  <2>1. cl' = FreeClients({c}) /\ UNCHANGED job
    BY <1>3 DEF ReadEnd
  <2> QED BY <1>j, <1>u, <2>1, FreeOne
<1>4. CASE SendReply(c)
  <2>1. /\ job' = [op |-> "write", c |-> c, handler |-> TRUE, tot |-> 0]
        /\ cl[c].writable
        /\ cl' = cl
    BY <1>4 DEF SendReply
  <2>2. cl[c].fd = "open"
    BY <1>c, <2>1 DEF Idle
  <2>3. JobOK'
    BY <2>1, <2>2 DEF JobOK
  <2> QED BY <1>j, <1>u, <2>1, <2>3 DEF NetInv, Shape, RepliesOK, CommandsOK
<1>5. CASE Stale(c)
  BY <1>5, <1>u DEF Stale, NetInv, Shape, JobOK, RepliesOK, CommandsOK, Busy
<1> QED BY <1>1, <1>2, <1>3, <1>4, <1>5 DEF Event

\* beforeSleep takes a client from unblocked_clients and parses its input, if
\* it has any.
LEMMA UnblockedInv ==
    ASSUME NetInv, Unblocked
    PROVE  NetInv'
<1>j. job = NoJob /\ paused' = paused /\ \A d \in Client : ~ Busy("write", d) /\ ~ Busy("input", d)
  BY DEF Unblocked, Busy, NoJob
<1>1. PICK c \in Client :
        /\ "unblocked" \in cl[c].flags
        /\ cl' = [cl EXCEPT ![c].flags = @ \ {"unblocked"}]
        /\ job' = IF cl[c].query # <<>> THEN [op |-> "input", c |-> c] ELSE NoJob
  BY DEF Unblocked, Flagged
<1> DEFINE r == [cl[c] EXCEPT !.flags = @ \ {"unblocked"}]
<1>2. DOMAIN cl[c] = Fields /\ Safe(cl[c]) /\ cl[c].fd = "open"
  BY <1>1, <1>j DEF NetInv, Shape, RepliesOK, Idle
<1>3. cl' = [cl EXCEPT ![c] = r]
  BY <1>1
<1>4. DOMAIN r = Fields /\ r.fd = "open" /\ Safe(r) /\ r.query = cl[c].query
  BY <1>2 DEF Fields, Safe, HasPending, Watched
<1> HIDE DEF r
<1>5. cl'[c] = r
  BY <1>3 DEF NetInv, Shape
<1>6. JobOK'
  BY <1>1, <1>4, <1>5 DEF JobOK
<1>7. Served(r, paused') \/ Busy("input", c)'
  BY <1>1, <1>4 DEF Served, Busy
<1> QED BY <1>j, <1>3, <1>4, <1>6, <1>7, OneClient

\* beforeSleep takes a client from clients_pending_write and writes to it.
LEMMA PendingInv ==
    ASSUME NetInv, Pending
    PROVE  NetInv'
<1>j. job = NoJob /\ paused' = paused /\ \A d \in Client : ~ Busy("write", d) /\ ~ Busy("input", d)
  BY DEF Pending, Busy, NoJob
<1>1. PICK c \in Client :
        /\ "pending_write" \in cl[c].flags
        /\ cl' = [cl EXCEPT ![c].flags = @ \ {"pending_write"}]
        /\ job' = [op |-> "write", c |-> c, handler |-> FALSE, tot |-> 0]
  BY DEF Pending, Flagged
<1> DEFINE r == [cl[c] EXCEPT !.flags = @ \ {"pending_write"}]
<1>2. DOMAIN cl[c] = Fields /\ Served(cl[c], paused) /\ cl[c].fd = "open"
  BY <1>1, <1>j DEF NetInv, Shape, CommandsOK, Idle
<1>3. cl' = [cl EXCEPT ![c] = r]
  BY <1>1
<1>4. DOMAIN r = Fields /\ r.fd = "open" /\ r.query = cl[c].query
      /\ r.flags = cl[c].flags \ {"pending_write"}
  BY <1>2 DEF Fields
<1> HIDE DEF r
<1>5. cl'[c] = r
  BY <1>3 DEF NetInv, Shape
<1>6. JobOK' /\ Busy("write", c)'
  BY <1>1, <1>4, <1>5 DEF JobOK, Busy
<1>7. Served(r, paused')
  BY <1>j, <1>2, <1>4 DEF Served
<1> QED BY <1>j, <1>3, <1>4, <1>6, <1>7, OneClient

\* serverCron frees the clients to be closed, and may find a pause over.
LEMMA CronInv ==
    ASSUME NetInv, Cron
    PROVE  NetInv'
<1> DEFINE gone == Flagged("close_asap")
<1>1. gone \in SUBSET Client
  BY DEF Flagged
<1>2. job = NoJob /\ job' = NoJob
  BY DEF Cron
<1> HIDE DEF gone
<1>3. CASE cl' = Resume(FreeClients(gone))
  BY <1>1, <1>2, <1>3, ResumeInv
<1>4. CASE cl' = FreeClients(gone) /\ UNCHANGED paused
  <2>1. cl' = [c \in Client |-> IF c \in gone THEN [NoClient EXCEPT !.fd = "closed"] ELSE cl[c]]
    BY <1>4 DEF FreeClients
  <2>2. \A d \in Client : ~ Busy("write", d) /\ ~ Busy("input", d)
    BY <1>2 DEF Busy, NoJob
  <2>3. Shape'
    BY <2>1, FreeIdle DEF NetInv, Shape
  <2>4. JobOK'
    BY <1>2 DEF JobOK
  <2>5. RepliesOK'
    BY <2>1, <2>2, FreeIdle DEF NetInv, RepliesOK
  <2>6. CommandsOK'
    BY <1>4, <2>1, <2>2, FreeIdle DEF NetInv, CommandsOK
  <2> QED BY <2>3, <2>4, <2>5, <2>6 DEF NetInv
<1> QED BY <1>3, <1>4 DEF Cron, gone

\* Every step preserves the invariant.
LEMMA StepInv == NetInv /\ [Next]_vars => NetInv'
<1> SUFFICES ASSUME NetInv, [Next]_vars PROVE NetInv'
  OBVIOUS
<1>1. CASE UNCHANGED <<cl, job, paused>>
  BY <1>1 DEF NetInv, Shape, JobOK, RepliesOK, CommandsOK, Busy
<1>2. CASE Server
  <2>1. CASE Poll \/ EventsEnd
    BY <1>1, <2>1 DEF Poll, EventsEnd
  <2> QED BY <1>2, <2>1, UnblockedInv, PendingInv, CronInv, EventInv, InputInv, OutputInv DEF Server
<1>3. ASSUME NEW c \in Client, Peer(c) PROVE UNCHANGED <<cl, job, paused>>
  BY <1>3 DEF Peer, Connect, Send, Take, Leave, server
<1>4. CASE UNCHANGED vars
  BY <1>1, <1>4 DEF vars
<1> QED BY <1>1, <1>2, <1>3, <1>4 DEF Next

-----------------------------------------------------------------------------

\* A reply that waits is always somebody's to write: prepareClientToWrite, which
\* schedules a client only for its first pending byte, never leaves one behind.
THEOREM RepliesWatched == Spec => []NoReplyStranded
<1>1. NetInv => NoReplyStranded
  BY DEF NetInv, RepliesOK, NoReplyStranded, Safe, Watched, Open
<1> QED BY <1>1, InitInv, StepInv, PTL DEF Spec

\* Input that was read is always somebody's to parse, whatever commands paused
\* the clients and wherever the pause was found to be over.
THEOREM CommandsServed == Spec => []NoCommandStranded
<1>1. NetInv => NoCommandStranded
  BY DEF NetInv, CommandsOK, NoCommandStranded, Served, Open
<1> QED BY <1>1, InitInv, StepInv, PTL DEF Spec

-----------------------------------------------------------------------------

\* A set of numbers that is not empty has a least element: how the proofs
\* below go by induction.
LEMMA NatMin ==
    ASSUME NEW T, T \subseteq Nat, T # {}
    PROVE  \E n \in T : \A m \in T : n <= m
<1> DEFINE R == OpToRel(<, Nat)
<1>1. IsWellFoundedOn(R, Nat)
  BY NatLessThanWellFounded
<1>2. \A m, n \in Nat : m < n => <<m, n>> \in R
  <2>1. R = {ss \in Nat \X Nat : ss[1] < ss[2]}
    BY DEF OpToRel
  <2> HIDE DEF R
  <2>2. ASSUME NEW m \in Nat, NEW n \in Nat, m < n PROVE <<m, n>> \in R
    <3>1. <<m, n>> \in Nat \X Nat /\ <<m, n>>[1] < <<m, n>>[2]
      BY <2>2
    <3> QED BY <2>1, <3>1
  <2> QED BY <2>2
<1> HIDE DEF R
<1>3. PICK x \in T : \A y \in T : ~ (<<y, x>> \in R)
  BY <1>1, WFMin
<1>4. ASSUME NEW y \in T PROVE x <= y
  <2>1. ~ (y < x)
    BY <1>2, <1>3
  <2>2. x \in Nat /\ y \in Nat
    OBVIOUS
  <2> QED BY <2>1, <2>2
<1> QED BY <1>4

\* Induction up to n over a set T of numbers: what holds of 0, and of i + 1 if
\* it holds of i, holds up to n.
LEMMA UpTo ==
    ASSUME NEW T, NEW n \in Nat, 0 \in T, \A i \in 0 .. n - 1 : i \in T => i + 1 \in T
    PROVE  \A i \in 0 .. n : i \in T
<1> DEFINE B == {i \in 0 .. n : i \notin T}
<1> SUFFICES ASSUME B # {} PROVE FALSE
  OBVIOUS
<1>1. B \subseteq Nat
  OBVIOUS
<1>2. PICK m \in B : \A i \in B : m <= i
  BY <1>1, NatMin
<1>3. m # 0 /\ m \in 1 .. n /\ m \notin T
  OBVIOUS
<1>4. m - 1 \in 0 .. n - 1 /\ m - 1 \in 0 .. n /\ ~ (m <= m - 1)
  BY <1>3
<1>5. m - 1 \in T
  BY <1>2, <1>4
<1>6. (m - 1) + 1 \in T
  BY <1>4, <1>5
<1> QED BY <1>3, <1>6

-----------------------------------------------------------------------------

\* A block of the list of replies; its data are positions in the stream.
Node == [data : Seq(Int), size : Nat]

\* f adds up the sizes of the first n blocks of reply.
AddsUp(f, reply, n) ==
    f = [i \in 0 .. n |-> IF i = 0 THEN 0 ELSE f[i - 1] + reply[i].size]

\* The sums of the sizes exist, up to any number of blocks.
LEMMA AddsUpExists ==
    ASSUME NEW reply, NEW n \in Nat
    PROVE  \E f : AddsUp(f, reply, n)
<1> DEFINE T == {i \in 0 .. n : \E f : AddsUp(f, reply, i)}
<1>1. 0 \in T
  <2>1. AddsUp([i \in 0 .. 0 |-> 0], reply, 0)
    BY DEF AddsUp
  <2> QED BY <2>1
<1>2. ASSUME NEW i \in 0 .. n - 1, i \in T PROVE i + 1 \in T
  <2>1. PICK f : AddsUp(f, reply, i)
    BY <1>2
  <2> DEFINE g == [j \in 0 .. i + 1 |-> IF j = i + 1 THEN f[i] + reply[j].size ELSE f[j]]
  <2>2. AddsUp(g, reply, i + 1)
    <3> SUFFICES ASSUME NEW j \in 0 .. i + 1
                 PROVE  g[j] = IF j = 0 THEN 0 ELSE g[j - 1] + reply[j].size
      BY DEF AddsUp
    <3>1. CASE j = i + 1
      BY <3>1
    <3>2. CASE j # i + 1
      BY <2>1, <3>2 DEF AddsUp
    <3> QED BY <3>1, <3>2
  <2> QED BY <2>2
<1> HIDE DEF T
<1>3. \A i \in 0 .. n : i \in T
  BY <1>1, <1>2, UpTo
<1> QED BY <1>3 DEF T

\* ReplySize is the last of the sums.
LEMMA ReplySizeDef ==
    ASSUME NEW reply, Len(reply) \in Nat
    PROVE  \E f : AddsUp(f, reply, Len(reply)) /\ ReplySize(reply) = f[Len(reply)]
<1> DEFINE f == CHOOSE f : AddsUp(f, reply, Len(reply))
<1>1. AddsUp(f, reply, Len(reply))
  BY AddsUpExists
<1>2. ReplySize(reply) = f[Len(reply)]
  BY DEF ReplySize, AddsUp
<1> QED BY <1>1, <1>2

\* They are numbers.
LEMMA AddsUpType ==
    ASSUME NEW reply \in Seq(Node), NEW n \in 0 .. Len(reply), NEW f, AddsUp(f, reply, n)
    PROVE  \A i \in 0 .. n : f[i] \in Nat
<1> DEFINE T == {i \in 0 .. n : f[i] \in Nat}
<1>1. n \in Nat /\ 0 \in T
  BY DEF AddsUp
<1>2. ASSUME NEW i \in 0 .. n - 1, i \in T PROVE i + 1 \in T
  <2>1. i + 1 \in 1 .. Len(reply) /\ i + 1 \in 0 .. n /\ i + 1 # 0 /\ (i + 1) - 1 = i
    OBVIOUS
  <2>2. f[i + 1] = f[i] + reply[i + 1].size
    BY <2>1 DEF AddsUp
  <2>3. reply[i + 1].size \in Nat
    <3>1. reply[i + 1] \in Node
      BY <2>1
    <3> QED BY <3>1 DEF Node
  <2> QED BY <1>2, <2>1, <2>2, <2>3
<1> HIDE DEF T
<1>3. \A i \in 0 .. n : i \in T
  BY <1>1, <1>2, UpTo
<1> QED BY <1>3 DEF T

\* The blocks of two lists together.
LEMMA ReplySizeConcat ==
    ASSUME NEW s \in Seq(Node), NEW t \in Seq(Node)
    PROVE  /\ ReplySize(s) \in Nat
           /\ ReplySize(s \o t) = ReplySize(s) + ReplySize(t)
<1> DEFINE a == Len(s)
           b == Len(t)
           st == s \o t
<1>1. a \in Nat /\ b \in Nat /\ st \in Seq(Node) /\ Len(st) = a + b
  OBVIOUS
<1>e. (\A i \in 1 .. a : st[i] = s[i]) /\ (\A i \in 1 .. b : st[a + i] = t[i])
  BY <1>1
<1>n. \A i \in 1 .. b : t[i].size \in Nat
  <2>1. \A i \in 1 .. b : t[i] \in Node
    OBVIOUS
  <2> QED BY <2>1 DEF Node
<1> HIDE DEF st
<1>2. PICK f : AddsUp(f, st, a + b) /\ ReplySize(st) = f[a + b]
  BY <1>1, ReplySizeDef
<1>3. PICK g : AddsUp(g, s, a) /\ ReplySize(s) = g[a]
  BY <1>1, ReplySizeDef
<1>4. PICK h : AddsUp(h, t, b) /\ ReplySize(t) = h[b]
  BY <1>1, ReplySizeDef
<1>5. (\A i \in 0 .. a : g[i] \in Nat) /\ (\A i \in 0 .. b : h[i] \in Nat)
  <2>1. a \in 0 .. Len(s) /\ b \in 0 .. Len(t)
    BY <1>1
  <2> QED BY <1>3, <1>4, <2>1, AddsUpType
<1>6. \A i \in 0 .. a : f[i] = g[i]
  <2> DEFINE T == {i \in 0 .. a : f[i] = g[i]}
  <2>1. 0 \in T
    BY <1>1, <1>2, <1>3 DEF AddsUp
  <2>2. ASSUME NEW i \in 0 .. a - 1, i \in T PROVE i + 1 \in T
    <3>1. i + 1 \in 1 .. a /\ i + 1 \in 0 .. a /\ i + 1 \in 0 .. a + b /\ (i + 1) - 1 = i
      BY <1>1
    <3>2. st[i + 1] = s[i + 1]
      BY <1>e, <3>1
    <3> QED BY <1>1, <1>2, <1>3, <2>2, <3>1, <3>2 DEF AddsUp
  <2> HIDE DEF T
  <2>3. \A i \in 0 .. a : i \in T
    BY <1>1, <2>1, <2>2, UpTo
  <2> QED BY <2>3 DEF T
<1>7. \A i \in 0 .. b : f[a + i] = g[a] + h[i]
  <2> DEFINE T == {i \in 0 .. b : f[a + i] = g[a] + h[i]}
  <2>1. 0 \in T
    BY <1>1, <1>4, <1>5, <1>6 DEF AddsUp
  <2>2. ASSUME NEW i \in 0 .. b - 1, i \in T PROVE i + 1 \in T
    <3>1. /\ i + 1 \in 1 .. b /\ i + 1 \in 0 .. b /\ (i + 1) - 1 = i
          /\ a + (i + 1) \in 1 .. a + b /\ a + (i + 1) \in 0 .. a + b /\ a + (i + 1) - 1 = a + i
      BY <1>1
    <3>2. st[a + (i + 1)] = t[i + 1]
      BY <1>e, <3>1
    <3>3. f[a + (i + 1)] = f[a + i] + t[i + 1].size
      <4>1. PICK j : j = a + (i + 1) /\ j \in 0 .. a + b /\ j # 0 /\ j - 1 = a + i /\ st[j] = t[i + 1]
        BY <1>1, <3>1, <3>2
      <4>2. f[j] = f[j - 1] + st[j].size
        BY <1>2, <4>1 DEF AddsUp
      <4> QED BY <4>1, <4>2
    <3>4. h[i + 1] = h[i] + t[i + 1].size
      <4>1. PICK j : j = i + 1 /\ j \in 0 .. b /\ j # 0 /\ j - 1 = i
        BY <1>1, <3>1
      <4>2. h[j] = h[j - 1] + t[j].size
        BY <1>4, <4>1 DEF AddsUp
      <4> QED BY <4>1, <4>2
    <3>5. t[i + 1].size \in Nat /\ h[i] \in Nat /\ g[a] \in Nat
      BY <1>1, <1>5, <1>n, <3>1
    <3> QED BY <2>2, <3>1, <3>3, <3>4, <3>5
  <2> HIDE DEF T
  <2>3. \A i \in 0 .. b : i \in T
    BY <1>1, <2>1, <2>2, UpTo
  <2> QED BY <2>3 DEF T
<1>8. a \in 0 .. a /\ b \in 0 .. b
  BY <1>1
<1> QED BY <1>2, <1>3, <1>4, <1>5, <1>7, <1>8 DEF st

\* No block, and one block.
LEMMA ReplySizeOne ==
    /\ ReplySize(<<>>) = 0
    /\ \A x \in Node : ReplySize(<<x>>) = x.size
<1>1. ReplySize(<<>>) = 0
  <2>1. Len(<<>>) = 0
    OBVIOUS
  <2>2. PICK f : AddsUp(f, <<>>, 0) /\ ReplySize(<<>>) = f[0]
    BY <2>1, ReplySizeDef
  <2> QED BY <2>2 DEF AddsUp
<1>2. ASSUME NEW x \in Node PROVE ReplySize(<<x>>) = x.size
  <2>1. Len(<<x>>) = 1 /\ <<x>>[1] = x
    OBVIOUS
  <2>2. PICK f : AddsUp(f, <<x>>, 1) /\ ReplySize(<<x>>) = f[1]
    BY <2>1, ReplySizeDef
  <2>3. f[0] = 0 /\ f[1] = f[0] + x.size
    BY <2>1, <2>2 DEF AddsUp
  <2>4. x.size \in Nat
    BY DEF Node
  <2> QED BY <2>2, <2>3, <2>4
<1> QED BY <1>1, <1>2

-----------------------------------------------------------------------------

\* f joins what the first n blocks of reply hold.
Joins(f, reply, n) ==
    f = [i \in 0 .. n |-> IF i = 0 THEN <<>> ELSE f[i - 1] \o reply[i].data]

\* So do the joined contents.
LEMMA JoinsExists ==
    ASSUME NEW reply, NEW n \in Nat
    PROVE  \E f : Joins(f, reply, n)
<1> DEFINE T == {i \in 0 .. n : \E f : Joins(f, reply, i)}
<1>1. 0 \in T
  <2>1. Joins([i \in 0 .. 0 |-> <<>>], reply, 0)
    BY DEF Joins
  <2> QED BY <2>1
<1>2. ASSUME NEW i \in 0 .. n - 1, i \in T PROVE i + 1 \in T
  <2>1. PICK f : Joins(f, reply, i)
    BY <1>2
  <2> DEFINE g == [j \in 0 .. i + 1 |-> IF j = i + 1 THEN f[i] \o reply[j].data ELSE f[j]]
  <2>2. Joins(g, reply, i + 1)
    <3> SUFFICES ASSUME NEW j \in 0 .. i + 1
                 PROVE  g[j] = IF j = 0 THEN <<>> ELSE g[j - 1] \o reply[j].data
      BY DEF Joins
    <3>1. CASE j = i + 1
      <4>1. g[i] = f[i] /\ g[i + 1] = f[i] \o reply[i + 1].data /\ j - 1 = i /\ j # 0
        BY <3>1
      <4> QED BY <3>1, <4>1
    <3>2. CASE j # i + 1
      BY <2>1, <3>2 DEF Joins
    <3> QED BY <3>1, <3>2
  <2> QED BY <2>2
<1> HIDE DEF T
<1>3. \A i \in 0 .. n : i \in T
  BY <1>1, <1>2, UpTo
<1> QED BY <1>3 DEF T

\* Joined is the last of them.
LEMMA JoinedDef ==
    ASSUME NEW reply, Len(reply) \in Nat
    PROVE  \E f : Joins(f, reply, Len(reply)) /\ Joined(reply) = f[Len(reply)]
<1> DEFINE f == CHOOSE f : Joins(f, reply, Len(reply))
<1>1. Joins(f, reply, Len(reply))
  BY JoinsExists
<1>2. Joined(reply) = f[Len(reply)]
  BY DEF Joined, Joins
<1> QED BY <1>1, <1>2

\* One block more.
LEMMA JoinsStep ==
    ASSUME NEW reply, NEW n \in Nat, NEW f, Joins(f, reply, n)
    PROVE  /\ f[0] = <<>>
           /\ \A i \in 0 .. n - 1 : f[i + 1] = f[i] \o reply[i + 1].data
<1>1. f[0] = <<>>
  BY DEF Joins
<1>2. ASSUME NEW i \in 0 .. n - 1 PROVE f[i + 1] = f[i] \o reply[i + 1].data
  <2>1. PICK j : j = i + 1 /\ j \in 0 .. n /\ j # 0 /\ j - 1 = i
    OBVIOUS
  <2>2. f[j] = f[j - 1] \o reply[j].data
    BY <2>1 DEF Joins
  <2> QED BY <2>1, <2>2
<1> QED BY <1>1, <1>2

\* Concatenation of bytes, in the form in which the provers use it.
LEMMA Concat ==
    /\ \A s, t \in Seq(Int) : s \o t \in Seq(Int) /\ Len(s \o t) = Len(s) + Len(t)
    /\ \A s, t, u \in Seq(Int) : (s \o t) \o u = s \o (t \o u)
    /\ \A s \in Seq(Int) : s \o <<>> = s /\ <<>> \o s = s
BY ConcatProperties, ConcatAssociative, ConcatEmptySeq

\* The joined contents are bytes.
LEMMA JoinsType ==
    ASSUME NEW reply \in Seq(Node), NEW n \in 0 .. Len(reply), NEW f, Joins(f, reply, n)
    PROVE  \A i \in 0 .. n : f[i] \in Seq(Int)
<1> DEFINE T == {i \in 0 .. n : f[i] \in Seq(Int)}
<1>1. n \in Nat /\ 0 \in T
  BY DEF Joins
<1>2. ASSUME NEW i \in 0 .. n - 1, i \in T PROVE i + 1 \in T
  <2>1. i + 1 \in 1 .. Len(reply) /\ i + 1 \in 0 .. n /\ i + 1 # 0 /\ (i + 1) - 1 = i
    OBVIOUS
  <2>2. f[i + 1] = f[i] \o reply[i + 1].data
    BY <1>1, JoinsStep
  <2>3. reply[i + 1].data \in Seq(Int)
    <3>1. reply[i + 1] \in Node
      BY <2>1
    <3> QED BY <3>1 DEF Node
  <2> QED BY <1>2, <2>1, <2>2, <2>3, Concat
<1> HIDE DEF T
<1>3. \A i \in 0 .. n : i \in T
  BY <1>1, <1>2, UpTo
<1> QED BY <1>3 DEF T

\* What two lists hold together.
LEMMA JoinedConcat ==
    ASSUME NEW s \in Seq(Node), NEW t \in Seq(Node)
    PROVE  /\ Joined(s) \in Seq(Int)
           /\ Joined(s \o t) = Joined(s) \o Joined(t)
<1> DEFINE a == Len(s)
           b == Len(t)
           st == s \o t
<1>1. a \in Nat /\ b \in Nat /\ st \in Seq(Node) /\ Len(st) = a + b
  OBVIOUS
<1>e. (\A i \in 1 .. a : st[i] = s[i]) /\ (\A i \in 1 .. b : st[a + i] = t[i])
  BY <1>1
<1>n. \A i \in 1 .. b : t[i].data \in Seq(Int)
  <2>1. \A i \in 1 .. b : t[i] \in Node
    OBVIOUS
  <2> QED BY <2>1 DEF Node
<1> HIDE DEF st
<1>2. PICK f : Joins(f, st, a + b) /\ Joined(st) = f[a + b]
  BY <1>1, JoinedDef
<1>3. PICK g : Joins(g, s, a) /\ Joined(s) = g[a]
  BY <1>1, JoinedDef
<1>4. PICK h : Joins(h, t, b) /\ Joined(t) = h[b]
  BY <1>1, JoinedDef
<1>5. (\A i \in 0 .. a : g[i] \in Seq(Int)) /\ (\A i \in 0 .. b : h[i] \in Seq(Int))
  <2>1. a \in 0 .. Len(s) /\ b \in 0 .. Len(t)
    BY <1>1
  <2> QED BY <1>3, <1>4, <2>1, JoinsType
<1>6. \A i \in 0 .. a : f[i] = g[i]
  <2> DEFINE T == {i \in 0 .. a : f[i] = g[i]}
  <2>1. 0 \in T
    BY <1>1, <1>2, <1>3 DEF Joins
  <2>2. ASSUME NEW i \in 0 .. a - 1, i \in T PROVE i + 1 \in T
    <3>1. i + 1 \in 1 .. a /\ i + 1 \in 0 .. a /\ i + 1 \in 0 .. a + b /\ (i + 1) - 1 = i
      BY <1>1
    <3>2. st[i + 1] = s[i + 1]
      BY <1>e, <3>1
    <3>3. g[i + 1] = g[i] \o s[i + 1].data
      BY <1>1, <1>3, JoinsStep
    <3>4. f[i + 1] = f[i] \o st[i + 1].data
      <4>1. i \in 0 .. (a + b) - 1 /\ a + b \in Nat
        BY <1>1
      <4> QED BY <1>2, <4>1, JoinsStep
    <3> QED BY <2>2, <3>1, <3>2, <3>3, <3>4
  <2> HIDE DEF T
  <2>3. \A i \in 0 .. a : i \in T
    BY <1>1, <2>1, <2>2, UpTo
  <2> QED BY <2>3 DEF T
<1>7. \A i \in 0 .. b : f[a + i] = g[a] \o h[i]
  <2> DEFINE T == {i \in 0 .. b : f[a + i] = g[a] \o h[i]}
  <2>1. 0 \in T
    BY <1>1, <1>4, <1>5, <1>6 DEF Joins
  <2>2. ASSUME NEW i \in 0 .. b - 1, i \in T PROVE i + 1 \in T
    <3>1. /\ i + 1 \in 1 .. b /\ i + 1 \in 0 .. b /\ (i + 1) - 1 = i
          /\ a + (i + 1) \in 1 .. a + b /\ a + (i + 1) \in 0 .. a + b /\ a + (i + 1) - 1 = a + i
      BY <1>1
    <3>2. st[a + (i + 1)] = t[i + 1]
      BY <1>e, <3>1
    <3>3. f[a + (i + 1)] = f[a + i] \o t[i + 1].data
      <4>1. a + i \in 0 .. (a + b) - 1 /\ a + b \in Nat /\ (a + i) + 1 = a + (i + 1)
        BY <1>1
      <4>2. f[(a + i) + 1] = f[a + i] \o st[(a + i) + 1].data
        BY <1>2, <4>1, JoinsStep
      <4> QED BY <3>2, <4>1, <4>2
    <3>4. h[i + 1] = h[i] \o t[i + 1].data
      BY <1>1, <1>4, JoinsStep
    <3>5. t[i + 1].data \in Seq(Int) /\ h[i] \in Seq(Int) /\ g[a] \in Seq(Int)
      BY <1>1, <1>5, <1>n, <3>1
    <3>6. (g[a] \o h[i]) \o t[i + 1].data = g[a] \o (h[i] \o t[i + 1].data)
      BY <3>5, Concat
    <3> QED BY <2>2, <3>1, <3>3, <3>4, <3>6
  <2> HIDE DEF T
  <2>3. \A i \in 0 .. b : i \in T
    BY <1>1, <2>1, <2>2, UpTo
  <2> QED BY <2>3 DEF T
<1>8. a \in 0 .. a /\ b \in 0 .. b
  BY <1>1
<1> QED BY <1>2, <1>3, <1>4, <1>5, <1>7, <1>8 DEF st

\* No block, and one block.
LEMMA JoinedOne ==
    /\ Joined(<<>>) = <<>>
    /\ \A x \in Node : Joined(<<x>>) = x.data
<1>1. Joined(<<>>) = <<>>
  <2>1. Len(<<>>) = 0
    OBVIOUS
  <2>2. PICK f : Joins(f, <<>>, 0) /\ Joined(<<>>) = f[0]
    BY <2>1, JoinedDef
  <2> QED BY <2>2 DEF Joins
<1>2. ASSUME NEW x \in Node PROVE Joined(<<x>>) = x.data
  <2>1. Len(<<x>>) = 1 /\ <<x>>[1] = x
    OBVIOUS
  <2>2. PICK f : Joins(f, <<x>>, 1) /\ Joined(<<x>>) = f[1]
    BY <2>1, JoinedDef
  <2>3. f[0] = <<>> /\ f[1] = f[0] \o x.data
    BY <2>1, <2>2 DEF Joins
  <2>4. x.data \in Seq(Int)
    BY DEF Node
  <2> QED BY <2>2, <2>3, <2>4
<1> QED BY <1>1, <1>2

-----------------------------------------------------------------------------

\* Successive bytes: their number and their positions.
LEMMA BytesSeq ==
    ASSUME NEW m \in Int, NEW n \in Nat
    PROVE  /\ Bytes(m, n) \in Seq(Int)
           /\ Len(Bytes(m, n)) = n
           /\ \A i \in 1 .. n : Bytes(m, n)[i] = m + i
BY DEF Bytes

\* A sequence of bytes is the successive bytes if each is the next one.
LEMMA IsBytes ==
    ASSUME NEW s \in Seq(Int), NEW m \in Int, \A i \in 1 .. Len(s) : s[i] = m + i
    PROVE  s = Bytes(m, Len(s))
<1>1. Len(s) \in Nat
  OBVIOUS
<1>2. Bytes(m, Len(s)) \in Seq(Int) /\ Len(Bytes(m, Len(s))) = Len(s)
      /\ \A i \in 1 .. Len(s) : Bytes(m, Len(s))[i] = s[i]
  BY <1>1, BytesSeq
<1> QED BY <1>2, SeqEqual

\* Successive bytes that follow each other.
LEMMA BytesConcat ==
    ASSUME NEW m \in Int, NEW a \in Nat, NEW b \in Nat
    PROVE  Bytes(m, a) \o Bytes(m + a, b) = Bytes(m, a + b)
<1> DEFINE s == Bytes(m, a)
           t == Bytes(m + a, b)
           u == s \o t
<1>1. /\ s \in Seq(Int) /\ Len(s) = a /\ \A i \in 1 .. a : s[i] = m + i
      /\ t \in Seq(Int) /\ Len(t) = b /\ \A i \in 1 .. b : t[i] = (m + a) + i
  BY BytesSeq
<1> HIDE DEF s, t
<1>2. u \in Seq(Int) /\ Len(u) = a + b
      /\ \A i \in 1 .. a + b : u[i] = IF i <= a THEN s[i] ELSE t[i - a]
  BY <1>1, ConcatProperties
<1> HIDE DEF u
<1>3. \A i \in 1 .. Len(u) : u[i] = m + i
  BY <1>1, <1>2
<1>4. u = Bytes(m, Len(u))
  BY <1>2, <1>3, IsBytes
<1> QED BY <1>2, <1>4 DEF u, s, t

\* s and t together are n successive bytes.
Run(s, t, m, n) == s \o t = Bytes(m, n)

\* The parts of successive bytes are successive.
LEMMA BytesParts ==
    ASSUME NEW s \in Seq(Int), NEW t \in Seq(Int), NEW m \in Int, NEW n \in Nat,
           Run(s, t, m, n)
    PROVE  /\ s = Bytes(m, Len(s))
           /\ t = Bytes(m + Len(s), Len(t))
           /\ n = Len(s) + Len(t)
<1> DEFINE a == Len(s)
           b == Len(t)
           u == Bytes(m, n)
<1>1. a \in Nat /\ b \in Nat
  OBVIOUS
<1>2. u \in Seq(Int) /\ Len(u) = n /\ \A i \in 1 .. n : u[i] = m + i
  BY BytesSeq
<1>3. Len(u) = a + b /\ \A i \in 1 .. a + b : u[i] = IF i <= a THEN s[i] ELSE t[i - a]
  <2>1. s \o t = u
    BY DEF Run
  <2> QED BY <2>1, ConcatProperties
<1> HIDE DEF u, a, b
<1>4. ASSUME NEW i \in 1 .. a PROVE s[i] = m + i
  <2>1. i \in 1 .. n /\ i \in 1 .. a + b /\ i <= a
    BY <1>1, <1>2, <1>3
  <2> QED BY <1>2, <1>3, <2>1
<1>5. ASSUME NEW i \in 1 .. b PROVE t[i] = (m + a) + i
  <2>1. PICK j : j = a + i /\ j \in 1 .. a + b /\ ~ (j <= a) /\ j - a = i
    BY <1>1
  <2>2. u[j] = t[j - a] /\ u[j] = m + j
    BY <1>2, <1>3, <2>1
  <2>3. m + (a + i) = (m + a) + i
    BY <1>1
  <2> QED BY <2>1, <2>2, <2>3
<1>6. s = Bytes(m, a)
  BY <1>4, IsBytes DEF a
<1>7. t = Bytes(m + a, b)
  BY <1>1, <1>5, IsBytes DEF b
<1> QED BY <1>2, <1>3, <1>6, <1>7 DEF a, b

\* A part of successive bytes.
LEMMA BytesSub ==
    ASSUME NEW m \in Int, NEW n \in Nat, NEW a \in 1 .. n + 1, NEW b \in a - 1 .. n
    PROVE  SubSeq(Bytes(m, n), a, b) = Bytes(m + a - 1, b - a + 1)
<1> DEFINE u == Bytes(m, n)
           v == SubSeq(u, a, b)
<1>1. u \in Seq(Int) /\ Len(u) = n /\ \A i \in 1 .. n : u[i] = m + i
  BY BytesSeq
<1> HIDE DEF u
<1>2. a \in Int /\ b \in Int /\ \A i \in a .. b : u[i] \in Int
  BY <1>1
<1>3. v \in Seq(Int) /\ Len(v) = (IF a <= b THEN b - a + 1 ELSE 0)
      /\ \A i \in 1 .. b - a + 1 : v[i] = u[a + i - 1]
  BY <1>2, SubSeqProperties
<1> HIDE DEF v
<1>4. Len(v) = b - a + 1 /\ \A i \in 1 .. Len(v) : v[i] = (m + a - 1) + i
  BY <1>1, <1>2, <1>3
<1>5. v = Bytes(m + a - 1, Len(v))
  BY <1>2, <1>3, <1>4, IsBytes
<1> QED BY <1>4, <1>5 DEF u, v

-----------------------------------------------------------------------------

\* A block that is in use: it holds something, and no more than it can.
Block == {x \in Node : Len(x.data) \in 1 .. x.size}

\* A block in use is a block.
LEMMA BlockNode ==
    /\ \A x \in Block : x \in Node /\ x.data \in Seq(Int) /\ x.size \in Nat
                        /\ Len(x.data) \in 1 .. x.size
    /\ Seq(Block) \subseteq Seq(Node)
<1>1. Block \subseteq Node
  BY DEF Block
<1>2. Seq(Block) \subseteq Seq(Node)
  BY <1>1, SeqMonotonic
<1>3. \A x \in Block : x \in Node /\ x.data \in Seq(Int) /\ x.size \in Nat
                        /\ Len(x.data) \in 1 .. x.size
  BY DEF Block, Node
<1> QED BY <1>2, <1>3

\* A new block with something in it is in use.
LEMMA MakeBlock ==
    ASSUME NEW data \in Seq(Int), NEW size \in Nat, data # <<>>, Len(data) <= size
    PROVE  [data |-> data, size |-> size] \in Block
<1>1. Len(data) \in 1 .. size
  OBVIOUS
<1> QED BY <1>1 DEF Block, Node

\* r has the output of k but for its list.
SameButList(k, r) ==
    /\ DOMAIN r = Fields
    /\ r.buf = k.buf
    /\ r.sentlen = k.sentlen

\* The output limit leaves the output alone.
LEMMA CheckLimitOutput ==
    ASSUME NEW k, DOMAIN k = Fields
    PROVE  /\ SameButList(k, CheckLimit(k))
           /\ CheckLimit(k).reply = k.reply
           /\ CheckLimit(k).bytes = k.bytes
BY DEF CheckLimit, SameButList, Fields

\* The same after an operation on the list.
LEMMA ViaLimit ==
    ASSUME NEW k, NEW q, SameButList(k, q)
    PROVE  /\ SameButList(k, CheckLimit(q))
           /\ CheckLimit(q).reply = q.reply
           /\ CheckLimit(q).bytes = q.bytes
<1>1. DOMAIN q = Fields
  BY DEF SameButList
<1> QED BY <1>1, CheckLimitOutput DEF SameButList

\* Lists of blocks: one appended, the last one, and the last one replaced.
LEMMA ListAppend ==
    ASSUME NEW P \in Seq(Node), NEW Q \in Seq(Node), NEW x \in Node
    PROVE  Append(P \o Q, x) = P \o (Q \o <<x>>)
<1>1. P \o Q \in Seq(Node)
  BY ConcatProperties
<1>2. Append(P \o Q, x) = (P \o Q) \o <<x>>
  BY <1>1, AppendIsConcat
<1>3. <<x>> \in Seq(Node)
  OBVIOUS
<1>4. (P \o Q) \o <<x>> = P \o (Q \o <<x>>)
  BY <1>3, ConcatAssociative
<1> QED BY <1>2, <1>4

\* The elements of a list with a block at its end.
LEMMA ListEnd ==
    ASSUME NEW P \in Seq(Node), NEW Q \in Seq(Node), NEW y \in Node
    PROVE  LET t == P \o (Q \o <<y>>) IN
           /\ t \in Seq(Node) /\ Len(t) = Len(P) + Len(Q) + 1
           /\ \A i \in 1 .. Len(P) : t[i] = P[i]
           /\ \A i \in 1 .. Len(Q) : t[Len(P) + i] = Q[i]
           /\ t[Len(P) + Len(Q) + 1] = y
<1>0. <<y>> \in Seq(Node) /\ Len(<<y>>) = 1 /\ <<y>>[1] = y
  OBVIOUS
<1> DEFINE q == Q \o <<y>>
           t == P \o q
<1>1. q \in Seq(Node) /\ Len(q) = Len(Q) + 1 /\ \A i \in 1 .. Len(Q) + 1 :
          q[i] = IF i <= Len(Q) THEN Q[i] ELSE <<y>>[i - Len(Q)]
  BY <1>0, ConcatProperties
<1> HIDE DEF q
<1>2. t \in Seq(Node) /\ Len(t) = Len(P) + Len(q) /\ \A i \in 1 .. Len(P) + Len(q) :
          t[i] = IF i <= Len(P) THEN P[i] ELSE q[i - Len(P)]
  <2>1. q \in Seq(Node)
    BY <1>1
  <2> QED BY <2>1, ConcatProperties
<1> HIDE DEF t
<1>3. Len(P) \in Nat /\ Len(Q) \in Nat
  OBVIOUS
<1>4. \A i \in 1 .. Len(P) : t[i] = P[i]
  BY <1>1, <1>2, <1>3
<1>5. ASSUME NEW i \in 1 .. Len(Q) + 1 PROVE t[Len(P) + i] = q[i]
  <2>1. PICK j : j = Len(P) + i /\ j \in 1 .. Len(P) + Len(q) /\ ~ (j <= Len(P)) /\ j - Len(P) = i
    BY <1>1, <1>3
  <2> QED BY <1>2, <2>1
<1>6. \A i \in 1 .. Len(Q) : t[Len(P) + i] = Q[i]
  BY <1>1, <1>3, <1>5
<1>7. q[Len(Q) + 1] = y
  <2>1. Len(Q) + 1 \in 1 .. Len(Q) + 1 /\ ~ (Len(Q) + 1 <= Len(Q)) /\ (Len(Q) + 1) - Len(Q) = 1
    BY <1>3
  <2> QED BY <1>0, <1>1, <2>1
<1>8. t[Len(P) + (Len(Q) + 1)] = y
  BY <1>3, <1>5, <1>7
<1>9. Len(P) + (Len(Q) + 1) = Len(P) + Len(Q) + 1
  BY <1>3
<1> QED BY <1>1, <1>2, <1>4, <1>6, <1>8, <1>9 DEF t, q

\* t has the blocks of P and of Q, and then one more.
Ends(t, P, Q) ==
    /\ t \in Seq(Node) /\ Len(t) = Len(P) + Len(Q) + 1
    /\ \A i \in 1 .. Len(P) : t[i] = P[i]
    /\ \A i \in 1 .. Len(Q) : t[Len(P) + i] = Q[i]

\* v is t with another block at its end.
Replaced(v, t, y) == v = [t EXCEPT ![Len(t)] = y]

\* Replacing the last block of a list.
LEMMA ListReplace ==
    ASSUME NEW P \in Seq(Node), NEW Q \in Seq(Node), NEW y \in Node, NEW t, NEW v,
           Ends(t, P, Q), Replaced(v, t, y)
    PROVE  v = P \o (Q \o <<y>>)
<1> DEFINE n == Len(t)
<1> DEFINE u == P \o (Q \o <<y>>)
<1>1. /\ t \in Seq(Node) /\ Len(t) = n
      /\ \A i \in 1 .. Len(P) : t[i] = P[i]
      /\ \A i \in 1 .. Len(Q) : t[Len(P) + i] = Q[i]
      /\ n = Len(P) + Len(Q) + 1
      /\ v = [t EXCEPT ![n] = y]
  BY DEF Ends, Replaced
<1> HIDE DEF n
<1>2. /\ u \in Seq(Node) /\ Len(u) = n
      /\ \A i \in 1 .. Len(P) : u[i] = P[i]
      /\ \A i \in 1 .. Len(Q) : u[Len(P) + i] = Q[i]
      /\ u[n] = y
  BY <1>1, ListEnd
<1> HIDE DEF u
<1>3. Len(P) \in Nat /\ Len(Q) \in Nat /\ n \in 1 .. n
      /\ n = Len(P) + Len(Q) + 1
  BY <1>1
<1>4. v \in Seq(Node) /\ Len(v) = n /\ \A i \in 1 .. n : v[i] = IF i = n THEN y ELSE t[i]
  <2>1. n \in 1 .. Len(t)
    BY <1>1, <1>3
  <2>2. t \in Seq(Node)
    BY <1>1
  <2>3. v \in Seq(Node) /\ Len(v) = Len(t) /\ \A i \in 1 .. Len(t) : v[i] = IF i = n THEN y ELSE t[i]
    <3>1. /\ [t EXCEPT ![n] = y] \in Seq(Node)
          /\ Len([t EXCEPT ![n] = y]) = Len(t)
          /\ \A i \in 1 .. Len(t) : [t EXCEPT ![n] = y][i] = IF i = n THEN y ELSE t[i]
      BY ONLY <2>1, <2>2, y \in Node, ExceptSeq
    <3> QED BY <1>1, <3>1
  <2> QED BY <1>1, <2>3
<1>5. ASSUME NEW i \in 1 .. n PROVE v[i] = u[i]
  <2>1. CASE i = n
    BY <1>2, <1>4, <2>1
  <2>2. CASE i \in 1 .. Len(P)
    <3>1. i # n
      BY <1>3, <2>2
    <3> QED BY <1>1, <1>2, <1>4, <2>2, <3>1
  <2>3. CASE i # n /\ i \notin 1 .. Len(P)
    <3>1. PICK j \in 1 .. Len(Q) : i = Len(P) + j
      <4>1. i - Len(P) \in 1 .. Len(Q) /\ i = Len(P) + (i - Len(P))
        BY <1>3, <2>3
      <4> QED BY <4>1
    <3> QED BY <1>1, <1>2, <1>4, <2>3, <3>1
  <2> QED BY <2>1, <2>2, <2>3
<1>6. v = u
  BY <1>2, <1>4, <1>5, SeqEqual
<1> QED BY <1>6 DEF u

-----------------------------------------------------------------------------

\* What a list of blocks comes to when one more is put behind it.
LEMMA PutBehind ==
    ASSUME NEW Q \in Seq(Node), NEW x \in Node
    PROVE  /\ Q \o <<x>> \in Seq(Node)
           /\ Q \o <<x>> # <<>>
           /\ ReplySize(Q) \in Nat
           /\ Joined(Q) \in Seq(Int)
           /\ ReplySize(Q \o <<x>>) = ReplySize(Q) + x.size
           /\ Joined(Q \o <<x>>) = Joined(Q) \o x.data
<1>1. <<x>> \in Seq(Node) /\ <<x>> # <<>>
  OBVIOUS
<1>2. Q \o <<x>> \in Seq(Node)
  BY <1>1, ConcatProperties
<1>3. Q \o <<x>> # <<>>
  BY <1>1, ConcatEqualIffEmpty
<1>4. /\ ReplySize(Q) \in Nat
      /\ ReplySize(Q \o <<x>>) = ReplySize(Q) + ReplySize(<<x>>)
  BY <1>1, ReplySizeConcat
<1>5. /\ Joined(Q) \in Seq(Int)
      /\ Joined(Q \o <<x>>) = Joined(Q) \o Joined(<<x>>)
  BY <1>1, JoinedConcat
<1> QED BY <1>2, <1>3, <1>4, <1>5, ReplySizeOne, JoinedOne

\* A block with other contents.
LEMMA FillBlock ==
    ASSUME NEW x \in Node, NEW d
    PROVE  [x EXCEPT !.data = d] = [data |-> d, size |-> x.size]
BY DEF Node

\* The head of a list with more behind it.
LEMMA FirstOf ==
    ASSUME NEW S, NEW Q \in Seq(S), NEW R \in Seq(S)
    PROVE  /\ Q # <<>> => (Q \o R)[1] = Q[1]
           /\ Q # <<>> => Q \o R # <<>>
           /\ R # <<>> => Q \o R # <<>>
<1>1. Len(Q) \in Nat /\ Len(R) \in Nat /\ Q \o R \in Seq(S) /\ Len(Q \o R) = Len(Q) + Len(R)
      /\ \A i \in 1 .. Len(Q) + Len(R) : (Q \o R)[i] = IF i <= Len(Q) THEN Q[i] ELSE R[i - Len(Q)]
  BY ConcatProperties
<1>2. Q # <<>> => Len(Q) # 0
  OBVIOUS
<1>3. Q # <<>> => 1 \in 1 .. Len(Q) + Len(R) /\ 1 <= Len(Q)
  BY <1>1, <1>2
<1> QED BY <1>1, <1>3, ConcatEqualIffEmpty

\* The list of k is P, that stays as it is, and Q, to which more may be added.
ListIs(k, P, Q) ==
    /\ DOMAIN k = Fields /\ k.bytes \in Int
    /\ P \in Seq(Node) /\ Q \in Seq(Block)
    /\ k.reply = P \o Q
    /\ Q # <<>> \/ P = <<>> \/ P[Len(P)] = NullNode

\* r is k with s added behind Q, which became R.
ListGrows(k, r, P, Q, R, s) ==
    /\ R \in Seq(Block) /\ R # <<>>
    /\ r.reply = P \o R
    /\ Joined(R) = Joined(Q) \o s
    /\ r.bytes = k.bytes + ReplySize(R) - ReplySize(Q)
    /\ Q # <<>> => Len(R[1].data) >= Len(Q[1].data)

\* _addReplyStringToList: what it adds follows what the list holds, behind the
\* blocks P that stay as they are, and reply_bytes grows by the new block.
LEMMA ToListBlocks ==
    ASSUME NEW k, NEW P, NEW Q, ListIs(k, P, Q), NEW s \in Seq(Int), s # <<>>,
           NEW slack \in Nat
    PROVE  /\ SameButList(k, ToList(k, s, slack))
           /\ \E R : ListGrows(k, ToList(k, s, slack), P, Q, R, s)
<1>k. DOMAIN k = Fields /\ k.bytes \in Int /\ P \in Seq(Node) /\ Q \in Seq(Block)
      /\ k.reply = P \o Q /\ (Q # <<>> \/ P = <<>> \/ P[Len(P)] = NullNode)
  BY DEF ListIs
<1> USE <1>k
<1> DEFINE n == Len(k.reply)
           avail == IF n = 0 THEN 0 ELSE k.reply[n].size - Len(k.reply[n].data)
           copy == IF avail >= Len(s) THEN Len(s) ELSE avail
           rest == SubSeq(s, copy + 1, Len(s))
           size == (IF Len(rest) < Chunk THEN Chunk ELSE Len(rest)) + slack
           new == [data |-> rest, size |-> size]
           tail == IF copy = 0 THEN k.reply
                   ELSE [k.reply EXCEPT ![n].data = @ \o SubSeq(s, 1, copy)]
           one == [k EXCEPT !.reply = tail]
           two == [k EXCEPT !.reply = Append(tail, new), !.bytes = @ + size]
           q == IF rest = <<>> THEN one ELSE two
           r == ToList(k, s, slack)
<1>0. r = CheckLimit(q)
  BY DEF ToList
<1>1. Q \in Seq(Node) /\ P \o Q \in Seq(Node) /\ Len(P) \in Nat /\ Len(Q) \in Nat
      /\ n = Len(P) + Len(Q)
  BY BlockNode, ConcatProperties
<1>2. ASSUME Q = <<>> PROVE avail = 0
  <2>1. P \o Q = P
    BY <1>2, ConcatEmptySeq
  <2>2. CASE P = <<>>
    BY <2>1, <2>2
  <2>3. CASE P[Len(P)] = NullNode
    BY <2>1, <2>3 DEF NullNode
  <2> QED BY <1>2, <2>2, <2>3
<1>3. CASE copy = 0
  <2>1. avail = 0 /\ rest = s /\ rest # <<>> /\ tail = k.reply
    <3>1. Len(s) # 0 /\ Len(s) \in Nat
      OBVIOUS
    <3>2. avail = 0 /\ tail = k.reply
      BY <1>3, <3>1
    <3>3. rest = s
      BY <1>3, SubSeqFull
    <3> HIDE DEF avail, rest, tail
    <3> QED BY <3>2, <3>3
  <2>2. q = two /\ size \in Nat /\ Len(s) <= size
    <3>1. Len(s) \in Nat /\ Chunk \in Nat
      BY NetworkingAssumption
    <3>2. rest = s /\ rest # <<>>
      BY <2>1
    <3> HIDE DEF rest, one, two
    <3>3. q = two
      BY <3>2
    <3> QED BY <3>1, <3>2, <3>3
  <2>3. new \in Block /\ new = [data |-> s, size |-> size]
    BY <2>1, <2>2, MakeBlock
  <2> DEFINE R == Q \o <<new>>
  <2> HIDE DEF size, new, rest, copy, avail
  <2>4. new \in Node /\ new.data = s /\ new.size = size
    BY <2>3, BlockNode
  <2>5. two.reply = Append(P \o Q, new) /\ two.bytes = k.bytes + size /\ SameButList(k, two)
    BY <2>1 DEF SameButList, Fields
  <2>6. Append(P \o Q, new) = P \o R
    BY <1>1, <2>4, ListAppend
  <2>7. R \in Seq(Block) /\ R # <<>>
    <3>1. <<new>> \in Seq(Block) /\ <<new>> # <<>>
      BY <2>3
    <3> QED BY <3>1, ConcatProperties, ConcatEqualIffEmpty
  <2>8. /\ ReplySize(Q) \in Nat
        /\ ReplySize(R) = ReplySize(Q) + size
        /\ Joined(R) = Joined(Q) \o s
    BY <1>1, <2>4, PutBehind
  <2>9. Q # <<>> => R[1] = Q[1]
    <3>1. <<new>> \in Seq(Node)
      BY <2>4
    <3> QED BY <1>1, <3>1, FirstOf
  <2>10. Q # <<>> => Len(Q[1].data) \in Int
    <3>1. Q # <<>> => Q[1] \in Block
      OBVIOUS
    <3> QED BY <3>1, BlockNode
  <2> HIDE DEF R, two
  <2>11. r.reply = P \o R /\ r.bytes = k.bytes + size /\ SameButList(k, r)
    <3>1. r = CheckLimit(two)
      BY <1>0, <2>2
    <3> QED BY <2>5, <2>6, <3>1, ViaLimit
  <2>12. r.bytes = k.bytes + ReplySize(R) - ReplySize(Q)
    BY <2>2, <2>8, <2>11
  <2>13. Q # <<>> => Len(R[1].data) >= Len(Q[1].data)
    BY <2>9, <2>10
  <2> HIDE DEF r
  <2>a. ListGrows(k, r, P, Q, R, s)
    BY <2>7, <2>8, <2>11, <2>12, <2>13 DEF ListGrows
  <2> QED BY <2>7, <2>8, <2>11, <2>12, <2>13, <2>a DEF r
<1>4. CASE copy # 0
  <2>1. Q # <<>>
    <3>1. Len(s) # 0 /\ Len(s) \in Nat
      OBVIOUS
    <3> QED BY <1>2, <1>4, <3>1
  <2>2. PICK F \in Seq(Block), x \in Block : Q = F \o <<x>>
    <3>1. PICK F \in Seq(Block), x \in Block : Q = Append(F, x)
      BY <2>1, SequenceEmptyOrAppend
    <3>2. Append(F, x) = F \o <<x>>
      BY AppendIsConcat
    <3> QED BY <3>1, <3>2
  <2>3. F \in Seq(Node) /\ x \in Node /\ x.data \in Seq(Int) /\ x.size \in Nat
        /\ Len(x.data) \in 1 .. x.size
    BY <2>2, BlockNode
  <2>4. /\ k.reply = P \o (F \o <<x>>)
        /\ n = Len(P) + Len(F) + 1
        /\ k.reply[n] = x
        /\ Len(P) \in Nat /\ Len(F) \in Nat
    BY <2>2, <2>3, ListEnd
  <2>5. avail = x.size - Len(x.data) /\ avail \in Nat
    <3>1. n # 0
      BY <2>4
    <3>2. avail = k.reply[n].size - Len(k.reply[n].data)
      BY <3>1
    <3> HIDE DEF avail, n
    <3> QED BY <2>3, <2>4, <3>2
  <2>6. copy \in 1 .. Len(s) /\ copy <= x.size - Len(x.data) /\ Len(s) \in Nat
    <3>1. Len(s) \in Nat
      OBVIOUS
    <3>2. avail \in Nat /\ avail = x.size - Len(x.data)
      BY <2>5
    <3> HIDE DEF avail
    <3> QED BY <1>4, <3>1, <3>2
  <2> HIDE DEF avail, copy
  <2> DEFINE part == SubSeq(s, 1, copy)
             y == [data |-> x.data \o part, size |-> x.size]
  <2>7. /\ part \in Seq(Int) /\ Len(part) = copy
        /\ rest \in Seq(Int) /\ Len(rest) = Len(s) - copy
        /\ part \o rest = s
    <3>1. \A i \in 1 .. Len(s) : s[i] \in Int
      OBVIOUS
    <3>2. part \in Seq(Int) /\ Len(part) = copy
      <4>1. 1 \in Int /\ copy \in Int /\ 1 <= copy /\ \A i \in 1 .. copy : s[i] \in Int
        BY <2>6, <3>1
      <4> QED BY <4>1, SubSeqProperties
    <3>3. rest \in Seq(Int) /\ Len(rest) = Len(s) - copy
      <4>1. copy + 1 \in Int /\ Len(s) \in Int /\ \A i \in copy + 1 .. Len(s) : s[i] \in Int
        BY <2>6, <3>1
      <4>2. rest \in Seq(Int) /\ Len(rest) = IF copy + 1 <= Len(s) THEN Len(s) - (copy + 1) + 1 ELSE 0
        BY <4>1, SubSeqProperties
      <4> QED BY <2>6, <4>2
    <3>4. part \o rest = s
      <4>1. 1 \in 1 .. Len(s) + 1 /\ copy \in 1 - 1 .. Len(s) /\ Len(s) \in copy .. Len(s)
        BY <2>6
      <4>2. SubSeq(s, 1, copy) \o SubSeq(s, copy + 1, Len(s)) = SubSeq(s, 1, Len(s))
        BY <4>1, ConcatAdjacentSubSeq
      <4>3. SubSeq(s, 1, Len(s)) = s
        BY SubSeqFull
      <4> QED BY <4>2, <4>3
    <3> QED BY <3>2, <3>3, <3>4
  <2>8. tail = [k.reply EXCEPT ![n] = y]
    <3>2. [x EXCEPT !.data = @ \o part] = y
      <4> HIDE DEF part
      <4> QED BY <2>3, FillBlock
    <3> QED BY <1>4, <2>4, <3>2
  <2> HIDE DEF part, rest, tail
  <2>9. y \in Block /\ y.data = x.data \o part /\ y.size = x.size
        /\ Len(y.data) = Len(x.data) + copy
    <3>1. x.data \o part \in Seq(Int) /\ Len(x.data \o part) = Len(x.data) + copy
      BY <2>3, <2>7, Concat
    <3>2. x.data \o part # <<>> /\ Len(x.data \o part) <= x.size
      BY <2>3, <2>6, <3>1
    <3> QED BY <2>3, <3>1, <3>2, MakeBlock
  <2> HIDE DEF y
  <2> DEFINE T == F \o <<y>>
  <2>10. y \in Node
    BY <2>9, BlockNode
  <2>11. tail = P \o T
    <3>1. Ends(k.reply, P, F)
      BY <2>3, <2>4, ListEnd DEF Ends
    <3>2. Replaced(tail, k.reply, y)
      BY <2>8 DEF Replaced
    <3> QED BY <2>3, <2>10, <3>1, <3>2, ListReplace
  <2>12. T \in Seq(Block) /\ T # <<>> /\ T \in Seq(Node)
    <3>1. <<y>> \in Seq(Block) /\ <<y>> # <<>>
      BY <2>9
    <3>2. T \in Seq(Block) /\ T # <<>>
      BY <3>1, ConcatProperties, ConcatEqualIffEmpty
    <3> QED BY <3>2, BlockNode
  <2>13. /\ ReplySize(Q) \in Nat
         /\ ReplySize(T) = ReplySize(Q)
         /\ Joined(Q) \in Seq(Int)
         /\ Joined(T) = Joined(Q) \o part
    <3>1. /\ ReplySize(Q) = ReplySize(F) + x.size /\ Joined(Q) = Joined(F) \o x.data
          /\ ReplySize(F) \in Nat /\ Joined(F) \in Seq(Int)
      BY <2>2, <2>3, PutBehind
    <3>2. ReplySize(T) = ReplySize(F) + x.size /\ Joined(T) = Joined(F) \o (x.data \o part)
      BY <2>3, <2>9, <2>10, PutBehind
    <3>3. Joined(F) \o (x.data \o part) = (Joined(F) \o x.data) \o part
      BY <2>3, <2>7, <3>1, Concat
    <3>4. Joined(Q) \in Seq(Int)
      BY <2>3, <3>1, Concat
    <3> HIDE DEF T
    <3>5. ReplySize(Q) \in Nat /\ ReplySize(T) = ReplySize(Q)
      <4>1. PICK a, b, c : a = ReplySize(F) /\ b = x.size /\ c = ReplySize(Q) /\ a \in Nat
                           /\ b \in Nat /\ c = a + b /\ ReplySize(T) = a + b
        BY <2>3, <3>1, <3>2
      <4> QED BY <4>1
    <3>6. Joined(T) = Joined(Q) \o part
      BY <3>1, <3>2, <3>3
    <3> QED BY <3>4, <3>5, <3>6
  <2>14. Len(T[1].data) >= Len(Q[1].data) /\ Len(Q[1].data) \in Nat
    <3>1. CASE F = <<>>
      <4>1. T = <<y>> /\ Q = <<x>>
        <5>1. <<x>> \in Seq(Node) /\ <<y>> \in Seq(Node)
          BY <2>3, <2>10
        <5> QED BY <2>2, <3>1, <5>1, ConcatEmptySeq
      <4> HIDE DEF T
      <4>2. T[1] = y /\ Q[1] = x
        BY <4>1
      <4>3. Len(x.data) \in Nat /\ copy \in Nat /\ Len(y.data) = Len(x.data) + copy
        BY <2>3, <2>6, <2>9
      <4>4. Len(y.data) >= Len(x.data)
        BY <4>3
      <4> QED BY <4>2, <4>3, <4>4
    <3>2. CASE F # <<>>
      <4>1. <<x>> \in Seq(Node) /\ <<y>> \in Seq(Node)
        BY <2>3, <2>10
      <4>2. T[1] = F[1] /\ Q[1] = F[1]
        BY <2>2, <2>3, <3>2, <4>1, FirstOf
      <4>3. Q[1] \in Block
        BY <2>1
      <4>4. Len(Q[1].data) \in Nat
        BY <4>3, BlockNode
      <4> QED BY <4>2, <4>4
    <3> QED BY <3>1, <3>2
  <2> HIDE DEF T
  <2>15. CASE rest = <<>>
    <3>1. q = one /\ part = s
      BY <2>7, <2>15, Concat
    <3>2. one.reply = P \o T /\ one.bytes = k.bytes /\ SameButList(k, one)
      BY <2>11 DEF SameButList, Fields
    <3> HIDE DEF one
    <3>3. r.reply = P \o T /\ r.bytes = k.bytes /\ SameButList(k, r)
      <4>1. r = CheckLimit(one)
        BY <1>0, <3>1
      <4> QED BY <3>2, <4>1, ViaLimit
    <3>4. r.bytes = k.bytes + ReplySize(T) - ReplySize(Q)
      BY <2>13, <3>3
    <3> HIDE DEF r
    <3>a. ListGrows(k, r, P, Q, T, s)
      BY <2>12, <2>13, <2>14, <3>1, <3>3, <3>4 DEF ListGrows
    <3> QED BY <2>12, <2>13, <2>14, <3>1, <3>3, <3>4, <3>a DEF r
  <2>16. CASE rest # <<>>
    <3>1. q = two /\ size \in Nat /\ Len(rest) <= size
      <4>1. Len(rest) \in Nat /\ Chunk \in Nat
        BY <2>7, NetworkingAssumption
      <4> QED BY <2>16, <4>1
    <3>2. new \in Block
      BY <2>7, <2>16, <3>1, MakeBlock
    <3> DEFINE R == T \o <<new>>
    <3> HIDE DEF size
    <3>3. new \in Node /\ new.data = rest /\ new.size = size
      BY <3>2, BlockNode
    <3> HIDE DEF new
    <3>4. two.reply = Append(P \o T, new) /\ two.bytes = k.bytes + size /\ SameButList(k, two)
      BY <2>11 DEF SameButList, Fields
    <3>5. Append(P \o T, new) = P \o R
      BY <2>12, <3>3, ListAppend
    <3>6. R \in Seq(Block) /\ R # <<>>
      <4>1. <<new>> \in Seq(Block) /\ <<new>> # <<>>
        BY <3>2
      <4> QED BY <2>12, <4>1, ConcatProperties, ConcatEqualIffEmpty
    <3>7. /\ ReplySize(R) = ReplySize(Q) + size
          /\ Joined(R) = Joined(Q) \o s
      <4>1. ReplySize(R) = ReplySize(T) + size /\ Joined(R) = Joined(T) \o rest
        BY <2>12, <3>3, PutBehind
      <4>2. (Joined(Q) \o part) \o rest = Joined(Q) \o (part \o rest)
        BY <2>7, <2>13, Concat
      <4> QED BY <2>7, <2>13, <4>1, <4>2
    <3>8. R[1] = T[1]
      <4>1. <<new>> \in Seq(Node)
        BY <3>3
      <4> QED BY <2>12, <4>1, FirstOf
    <3> HIDE DEF R, two
    <3>9. r.reply = P \o R /\ r.bytes = k.bytes + size /\ SameButList(k, r)
      <4>1. r = CheckLimit(two)
        BY <1>0, <3>1
      <4> QED BY <3>4, <3>5, <4>1, ViaLimit
    <3>10. r.bytes = k.bytes + ReplySize(R) - ReplySize(Q)
      BY <2>13, <3>1, <3>7, <3>9
    <3> HIDE DEF r
    <3>a. ListGrows(k, r, P, Q, R, s)
      BY <2>14, <3>6, <3>7, <3>8, <3>9, <3>10 DEF ListGrows
    <3> QED BY <2>14, <3>6, <3>7, <3>8, <3>9, <3>10, <3>a DEF r
  <2> QED BY <2>15, <2>16
<1> QED BY <1>3, <1>4

-----------------------------------------------------------------------------

\* What the next write of client k is made from.
Source(k) == IF k.buf # <<>> THEN k.buf ELSE k.reply[1].data

\* The output of client k: it holds, in order, the bytes up to m of the stream
\* of replies, of which w were written.
OutOK(k, w, m) ==
    /\ k.buf \in Seq(Int) /\ Len(k.buf) <= BufSize
    /\ k.reply \in Seq(Block)
    /\ k.bytes = ReplySize(k.reply)
    /\ k.sentlen \in Nat /\ w \in Nat /\ m \in Nat /\ w <= m
    /\ k.buf \o Joined(k.reply) = Bytes(w - k.sentlen, (m - w) + k.sentlen)
    /\ HasPending(k) => k.sentlen < Len(Source(k))
    /\ ~ HasPending(k) => k.sentlen = 0

\* r has the output of k.
SameOutput(k, r) ==
    /\ r.buf = k.buf
    /\ r.reply = k.reply
    /\ r.bytes = k.bytes
    /\ r.sentlen = k.sentlen

\* The flags of r are those of k and the ones that adding to the output sets:
\* clients_pending_write for a client that had nothing to write.
Grown(k, r) ==
    /\ k.flags \subseteq r.flags
    /\ r.flags \subseteq k.flags \cup {"pending_write", "close_asap"}
    /\ "pending_write" \in r.flags => "pending_write" \in k.flags \/ ~ HasPending(k)

\* OutOK is about the output only.
LEMMA OutFrame ==
    ASSUME NEW k, NEW r, NEW w, NEW m, OutOK(k, w, m), SameOutput(k, r)
    PROVE  OutOK(r, w, m)
BY DEF OutOK, SameOutput, HasPending, Source

\* prepareClientToWrite sets a flag.
LEMMA PrepareOut ==
    ASSUME NEW k, DOMAIN k = Fields
    PROVE  SameOutput(k, Prepare(k)) /\ Grown(k, Prepare(k)) /\ DOMAIN Prepare(k) = Fields
BY DEF Prepare, SameOutput, Grown, Fields

\* The output limit sets a flag.
LEMMA CheckLimitGrown ==
    ASSUME NEW k, DOMAIN k = Fields
    PROVE  Grown(k, CheckLimit(k))
BY DEF CheckLimit, Grown, Fields

\* Growing in two steps.
LEMMA GrownTrans ==
    ASSUME NEW k, NEW q, NEW r, Grown(k, q), Grown(q, r), HasPending(q) \/ ~ HasPending(k)
    PROVE  Grown(k, r)
BY DEF Grown

\* A list of blocks holds as much as its blocks.
LEMMA OutTypes ==
    ASSUME NEW k, NEW w, NEW m, OutOK(k, w, m)
    PROVE  /\ k.reply \in Seq(Node)
           /\ Joined(k.reply) \in Seq(Int)
           /\ k.bytes \in Nat
           /\ Len(k.buf) \in Nat /\ Len(Joined(k.reply)) \in Nat
           /\ k.buf = Bytes(w - k.sentlen, Len(k.buf))
           /\ Joined(k.reply) = Bytes(w - k.sentlen + Len(k.buf), Len(Joined(k.reply)))
           /\ (m - w) + k.sentlen = Len(k.buf) + Len(Joined(k.reply))
<1>1. k.reply \in Seq(Node)
  BY BlockNode DEF OutOK
<1>2. ReplySize(k.reply) \in Nat /\ Joined(k.reply) \in Seq(Int)
  BY <1>1, ReplySizeConcat, JoinedConcat
<1>3. k.buf \in Seq(Int) /\ w - k.sentlen \in Int /\ (m - w) + k.sentlen \in Nat
      /\ k.buf \o Joined(k.reply) = Bytes(w - k.sentlen, (m - w) + k.sentlen)
      /\ k.bytes = ReplySize(k.reply)
  BY DEF OutOK
<1>4. /\ k.buf = Bytes(w - k.sentlen, Len(k.buf))
      /\ Joined(k.reply) = Bytes(w - k.sentlen + Len(k.buf), Len(Joined(k.reply)))
      /\ (m - w) + k.sentlen = Len(k.buf) + Len(Joined(k.reply))
  <2>1. Run(k.buf, Joined(k.reply), w - k.sentlen, (m - w) + k.sentlen)
    BY <1>3 DEF Run
  <2>2. k.buf \in Seq(Int) /\ Joined(k.reply) \in Seq(Int) /\ w - k.sentlen \in Int
        /\ (m - w) + k.sentlen \in Nat
    BY <1>2, <1>3
  <2> QED BY ONLY <2>1, <2>2, BytesParts, Zenon
<1>5. Len(k.buf) \in Nat /\ Len(Joined(k.reply)) \in Nat
  BY <1>2, <1>3
<1> QED BY <1>1, <1>2, <1>3, <1>4, <1>5

\* The bytes that the next command adds follow what client k holds.
LEMMA Follow ==
    ASSUME NEW k, NEW w, NEW m, OutOK(k, w, m), NEW n \in Nat
    PROVE  (k.buf \o Joined(k.reply)) \o Bytes(m, n)
              = Bytes(w - k.sentlen, ((m + n) - w) + k.sentlen)
<1> DEFINE a == w - k.sentlen
           b == (m - w) + k.sentlen
<1>1. k.buf \o Joined(k.reply) = Bytes(a, b) /\ a \in Int /\ b \in Nat /\ a + b = m
      /\ b + n = ((m + n) - w) + k.sentlen
  BY DEF OutOK
<1> HIDE DEF a, b
<1>2. Bytes(a, b) \o Bytes(a + b, n) = Bytes(a, b + n)
  BY <1>1, BytesConcat
<1> QED BY <1>1, <1>2 DEF a

\* The same, with the output changed into that of r.
LEMMA OutGrows ==
    ASSUME NEW k, NEW r, NEW w, NEW m, OutOK(k, w, m), NEW n \in Nat \ {0},
           r.buf \in Seq(Int), Len(r.buf) <= BufSize,
           r.reply \in Seq(Block), r.bytes = ReplySize(r.reply), r.sentlen = k.sentlen,
           r.buf \o Joined(r.reply) = (k.buf \o Joined(k.reply)) \o Bytes(m, n),
           k.sentlen < Len(Source(r))
    PROVE  OutOK(r, w, m + n)
<1>1. r.buf \o Joined(r.reply) = Bytes(w - r.sentlen, ((m + n) - w) + r.sentlen)
  BY Follow
<1>2. k.sentlen \in Nat /\ w \in Nat /\ m \in Nat /\ w <= m
  BY DEF OutOK
<1>3. HasPending(r)
  <2>1. CASE r.buf = <<>> /\ r.reply = <<>>
    <3>1. r.buf \o Joined(r.reply) = <<>>
      BY <2>1, JoinedOne, Concat
    <3>2. PICK a, d : a = w - r.sentlen /\ d = ((m + n) - w) + r.sentlen /\ a \in Int
                     /\ d \in Nat /\ d # 0
      BY <1>2
    <3>3. Len(Bytes(a, d)) = d /\ Bytes(a, d) = <<>>
      BY <1>1, <3>1, <3>2, BytesSeq
    <3>4. Len(<<>>) = 0
      OBVIOUS
    <3> QED BY <3>2, <3>3, <3>4
  <2> QED BY <2>1 DEF HasPending
<1>4. m + n \in Nat /\ w <= m + n
  BY <1>2
<1> QED BY <1>1, <1>2, <1>3, <1>4 DEF OutOK

-----------------------------------------------------------------------------

\* A list with the place of a length behind P and the blocks R after it.
LEMMA DeferredParts ==
    ASSUME NEW P \in Seq(Node), NEW R \in Seq(Node), NEW x \in Node
    PROVE  LET t == (P \o <<x>>) \o R IN
           /\ t \in Seq(Node)
           /\ Len(t) = Len(P) + 1 + Len(R)
           /\ \A i \in 1 .. Len(P) : t[i] = P[i]
           /\ t[Len(P) + 1] = x
           /\ \A i \in 1 .. Len(R) : t[Len(P) + 1 + i] = R[i]
<1> DEFINE p == P \o <<x>>
           t == p \o R
           a == Len(P)
           b == Len(R)
<1>1. <<x>> \in Seq(Node) /\ Len(<<x>>) = 1 /\ <<x>>[1] = x /\ a \in Nat /\ b \in Nat
  OBVIOUS
<1>2. p \in Seq(Node) /\ Len(p) = a + 1
      /\ \A i \in 1 .. a + 1 : p[i] = IF i <= a THEN P[i] ELSE <<x>>[i - a]
  BY <1>1, ConcatProperties
<1> HIDE DEF p
<1>3. t \in Seq(Node) /\ Len(t) = Len(p) + b
      /\ \A i \in 1 .. Len(p) + b : t[i] = IF i <= Len(p) THEN p[i] ELSE R[i - Len(p)]
  <2>1. p \in Seq(Node)
    BY <1>2
  <2> QED BY <2>1, ConcatProperties
<1> HIDE DEF t, a, b
<1>4. Len(t) = a + 1 + b
  BY <1>1, <1>2, <1>3
<1>5. \A i \in 1 .. a + 1 : t[i] = p[i]
  BY <1>1, <1>2, <1>3
<1>6. \A i \in 1 .. a : t[i] = P[i]
  <2>1. \A i \in 1 .. a : i \in 1 .. a + 1 /\ i <= a
    BY <1>1
  <2> QED BY <1>2, <1>5, <2>1
<1>7. t[a + 1] = x
  <2>1. a + 1 \in 1 .. a + 1 /\ ~ (a + 1 <= a) /\ (a + 1) - a = 1
    BY <1>1
  <2> QED BY <1>1, <1>2, <1>5, <2>1
<1>8. ASSUME NEW i \in 1 .. b PROVE t[a + 1 + i] = R[i]
  <2>1. PICK j : j = a + 1 + i /\ j \in 1 .. (a + 1) + b /\ ~ (j <= a + 1) /\ j - (a + 1) = i
    BY <1>1
  <2> QED BY <1>2, <1>3, <2>1
<1> QED BY <1>3, <1>4, <1>6, <1>7, <1>8 DEF t, p, a, b

\* v is t with the place of the length filled by y.
FilledIn(v, t, j, y) == v = [t EXCEPT ![j] = y]

\* Filling the place of the length replaces one block.
LEMMA DeferredFilled ==
    ASSUME NEW P \in Seq(Node), NEW R \in Seq(Node), NEW x \in Node, NEW y \in Node,
           NEW t, t = (P \o <<x>>) \o R, NEW v, FilledIn(v, t, Len(P) + 1, y)
    PROVE  v = (P \o <<y>>) \o R
<1> DEFINE u == (P \o <<y>>) \o R
           a == Len(P)
           b == Len(R)
<1>1. /\ t \in Seq(Node)
      /\ Len(t) = a + 1 + b
      /\ \A i \in 1 .. a : t[i] = P[i]
      /\ \A i \in 1 .. b : t[a + 1 + i] = R[i]
  BY DeferredParts
<1>2. /\ u \in Seq(Node)
      /\ Len(u) = a + 1 + b
      /\ \A i \in 1 .. a : u[i] = P[i]
      /\ u[a + 1] = y
      /\ \A i \in 1 .. b : u[a + 1 + i] = R[i]
  BY DeferredParts
<1>3. a \in Nat /\ b \in Nat
  OBVIOUS
<1>4. v \in Seq(Node) /\ Len(v) = a + 1 + b
      /\ \A i \in 1 .. a + 1 + b : v[i] = IF i = a + 1 THEN y ELSE t[i]
  <2> DEFINE n == a + 1
  <2>1. n \in 1 .. Len(t) /\ t \in Seq(Node)
    BY <1>1, <1>3
  <2> HIDE DEF n
  <2>2. /\ [t EXCEPT ![n] = y] \in Seq(Node)
        /\ Len([t EXCEPT ![n] = y]) = Len(t)
        /\ \A i \in 1 .. Len(t) : [t EXCEPT ![n] = y][i] = IF i = n THEN y ELSE t[i]
    BY ONLY <2>1, y \in Node, ExceptSeq
  <2>3. v = [t EXCEPT ![n] = y]
    BY DEF FilledIn, n
  <2>4. v \in Seq(Node) /\ Len(v) = Len(t) /\ \A i \in 1 .. Len(t) : v[i] = IF i = n THEN y ELSE t[i]
    BY ONLY <2>2, <2>3
  <2> QED BY <1>1, <2>4 DEF n
<1> HIDE DEF u, a, b
<1>5. ASSUME NEW i \in 1 .. a + 1 + b PROVE v[i] = u[i]
  <2>1. CASE i = a + 1
    BY <1>2, <1>4, <2>1
  <2>2. CASE i \in 1 .. a
    <3>1. i # a + 1
      BY <1>3, <2>2
    <3> QED BY <1>1, <1>2, <1>4, <2>2, <3>1
  <2>3. CASE i # a + 1 /\ i \notin 1 .. a
    <3>1. PICK j \in 1 .. b : i = a + 1 + j
      <4>1. i - (a + 1) \in 1 .. b /\ i = a + 1 + (i - (a + 1))
        BY <1>3, <2>3
      <4> QED BY <4>1
    <3> QED BY <1>1, <1>2, <1>4, <2>3, <3>1
  <2> QED BY <2>1, <2>2, <2>3
<1>6. v = u
  BY <1>2, <1>4, <1>5, SeqEqual
<1> QED BY <1>6 DEF u

\* The blocks before the place, and those after the next one.
LEMMA DeferredEnds ==
    ASSUME NEW P \in Seq(Node), NEW R \in Seq(Node), R # <<>>, NEW x \in Node,
           NEW t, t = (P \o <<x>>) \o R
    PROVE  /\ SubSeq(t, 1, (Len(P) + 1) - 1) = P
           /\ SubSeq(t, (Len(P) + 1) + 2, Len(t)) = Tail(R)
           /\ t[(Len(P) + 1) + 1] = R[1]
           /\ Len(P) + 1 < Len(t)
           /\ Tail(R) \in Seq(Node)
           /\ R = <<R[1]>> \o Tail(R)
<1> DEFINE a == Len(P)
           b == Len(R)
           e == SubSeq(t, 1, (a + 1) - 1)
           f == SubSeq(t, (a + 1) + 2, Len(t))
<1>1. /\ t \in Seq(Node)
      /\ Len(t) = a + 1 + b
      /\ \A i \in 1 .. a : t[i] = P[i]
      /\ \A i \in 1 .. b : t[a + 1 + i] = R[i]
  BY DeferredParts
<1>2. a \in Nat /\ b \in Nat /\ b # 0
  OBVIOUS
<1>3. \A i \in 1 .. a + 1 + b : t[i] \in Node
  BY <1>1
<1>4. Tail(R) \in Seq(Node) /\ Len(Tail(R)) = b - 1
      /\ \A i \in 1 .. b - 1 : Tail(R)[i] = R[i + 1]
  BY HeadTailProperties
<1> HIDE DEF a, b
<1>5. e = P
  <2>1. PICK d : d = (a + 1) - 1 /\ d = a /\ d \in Int /\ 1 \in Int
                /\ \A i \in 1 .. d : i \in 1 .. a + 1 + b
    BY <1>2
  <2>0. \A i \in 1 .. d : t[i] \in Node
    BY <1>3, <2>1
  <2>2. e \in Seq(Node) /\ Len(e) = (IF 1 <= (a + 1) - 1 THEN ((a + 1) - 1) - 1 + 1 ELSE 0)
        /\ \A i \in 1 .. ((a + 1) - 1) - 1 + 1 : e[i] = t[1 + i - 1]
    <3>1. /\ SubSeq(t, 1, d) \in Seq(Node)
          /\ Len(SubSeq(t, 1, d)) = (IF 1 <= d THEN d - 1 + 1 ELSE 0)
          /\ \A i \in 1 .. d - 1 + 1 : SubSeq(t, 1, d)[i] = t[1 + i - 1]
      BY ONLY <2>0, <2>1, SubSeqProperties
    <3> QED BY ONLY <2>1, <3>1 DEF e
  <2> HIDE DEF e
  <2>3. Len(e) = a
    BY <1>2, <2>2
  <2>4. \A i \in 1 .. a : i \in 1 .. ((a + 1) - 1) - 1 + 1 /\ 1 + i - 1 = i
    BY <1>2
  <2>5. \A i \in 1 .. a : e[i] = P[i]
    BY <1>1, <2>2, <2>4
  <2>6. e \in Seq(Node) /\ Len(e) = Len(P) /\ \A i \in 1 .. Len(e) : e[i] = P[i]
    BY <2>2, <2>3, <2>5 DEF a
  <2> QED BY <2>6, SeqEqual
<1>6. f = Tail(R)
  <2>1. PICK c, d : c = (a + 1) + 2 /\ d = Len(t) /\ c \in Int /\ d \in Int
                   /\ \A i \in c .. d : i \in 1 .. a + 1 + b
    BY <1>1, <1>2
  <2>0. \A i \in c .. d : t[i] \in Node
    BY <1>3, <2>1
  <2>2. f \in Seq(Node) /\ Len(f) = (IF c <= Len(t) THEN Len(t) - c + 1 ELSE 0)
        /\ \A i \in 1 .. Len(t) - c + 1 : f[i] = t[c + i - 1]
    <3>1. /\ SubSeq(t, c, d) \in Seq(Node)
          /\ Len(SubSeq(t, c, d)) = (IF c <= d THEN d - c + 1 ELSE 0)
          /\ \A i \in 1 .. d - c + 1 : SubSeq(t, c, d)[i] = t[c + i - 1]
      BY ONLY <2>0, <2>1, SubSeqProperties
    <3> QED BY ONLY <2>1, <3>1 DEF f
  <2> HIDE DEF f
  <2>3. Len(f) = b - 1
    BY <1>1, <1>2, <2>1, <2>2
  <2>4. ASSUME NEW i \in 1 .. b - 1 PROVE f[i] = Tail(R)[i]
    <3>1. i \in 1 .. Len(t) - c + 1 /\ i + 1 \in 1 .. b /\ c + i - 1 = a + 1 + (i + 1)
      <4>1. Len(t) = a + 1 + b /\ c = (a + 1) + 2 /\ a \in Nat /\ b \in Nat /\ i \in 1 .. b - 1
        BY <1>1, <1>2, <2>1
      <4> QED BY ONLY <4>1
    <3>2. f[i] = t[c + i - 1]
      BY <2>2, <3>1
    <3>3. t[a + 1 + (i + 1)] = R[i + 1]
      BY <1>1, <3>1
    <3> QED BY <1>4, <3>1, <3>2, <3>3
  <2>5. f \in Seq(Node) /\ Tail(R) \in Seq(Node) /\ Len(f) = Len(Tail(R))
        /\ \A i \in 1 .. Len(f) : f[i] = Tail(R)[i]
    BY <1>4, <2>2, <2>3, <2>4
  <2> QED BY <2>5, SeqEqual
<1>7. t[(a + 1) + 1] = R[1]
  <2>1. 1 \in 1 .. b
    BY <1>2
  <2> QED BY <1>1, <2>1
<1>8. a + 1 < Len(t)
  BY <1>1, <1>2
<1>9. R = <<R[1]>> \o Tail(R)
  <2>1. R[1] \in Node /\ <<R[1]>> \in Seq(Node) /\ Len(<<R[1]>>) = 1 /\ <<R[1]>>[1] = R[1]
    BY <1>2 DEF b
  <2> DEFINE g == <<R[1]>> \o Tail(R)
  <2>2. g \in Seq(Node) /\ Len(g) = 1 + (b - 1) /\ \A i \in 1 .. 1 + (b - 1) :
           g[i] = IF i <= 1 THEN <<R[1]>>[i] ELSE Tail(R)[i - 1]
    BY <1>4, <2>1, ConcatProperties
  <2> HIDE DEF g
  <2>3. ASSUME NEW i \in 1 .. b PROVE g[i] = R[i]
    <3>1. CASE i = 1
      BY <1>2, <2>1, <2>2, <3>1
    <3>2. CASE i # 1
      <4>1. i - 1 \in 1 .. b - 1 /\ (i - 1) + 1 = i /\ ~ (i <= 1) /\ i \in 1 .. 1 + (b - 1)
        BY <1>2, <3>2
      <4> QED BY <1>4, <2>2, <4>1
    <3> QED BY <3>1, <3>2
  <2>4. Len(g) = Len(R) /\ g \in Seq(Node) /\ \A i \in 1 .. Len(g) : g[i] = R[i]
    BY <1>2, <2>2, <2>3 DEF b
  <2>5. g = R
    BY <2>4, SeqEqual
  <2> QED BY <2>5 DEF g
<1> QED BY <1>4, <1>5, <1>6, <1>7, <1>8, <1>9 DEF a

-----------------------------------------------------------------------------

\* A list with one block in front.
LEMMA PutBefore ==
    ASSUME NEW R \in Seq(Block), NEW x \in Block
    PROVE  /\ <<x>> \o R \in Seq(Block)
           /\ <<x>> \o R # <<>>
           /\ ReplySize(R) \in Nat
           /\ Joined(R) \in Seq(Int)
           /\ ReplySize(<<x>> \o R) = x.size + ReplySize(R)
           /\ Joined(<<x>> \o R) = x.data \o Joined(R)
<1>1. R \in Seq(Node) /\ x \in Node
  BY BlockNode
<1>2. <<x>> \in Seq(Block) /\ <<x>> # <<>> /\ <<x>> \in Seq(Node)
  BY <1>1
<1>3. <<x>> \o R \in Seq(Block)
  BY <1>2, ConcatProperties
<1>4. <<x>> \o R # <<>>
  BY <1>2, ConcatEqualIffEmpty
<1>5. /\ ReplySize(R) \in Nat
      /\ ReplySize(<<x>> \o R) = ReplySize(<<x>>) + ReplySize(R)
  BY <1>1, <1>2, ReplySizeConcat
<1>6. /\ Joined(R) \in Seq(Int)
      /\ Joined(<<x>> \o R) = Joined(<<x>>) \o Joined(R)
  BY <1>1, <1>2, JoinedConcat
<1> QED BY <1>1, <1>3, <1>4, <1>5, <1>6, ReplySizeOne, JoinedOne

\* The list of k is P, the place of a length, and R.
Awaits(k, P, R) ==
    /\ DOMAIN k = Fields /\ k.bytes \in Int /\ ~ Silent(k)
    /\ P \in Seq(Block) /\ R \in Seq(Block) /\ R # <<>>
    /\ k.reply = (P \o <<NullNode>>) \o R

\* r is k with s before R, which became T.
LengthSet(k, r, P, R, T, s) ==
    /\ T \in Seq(Block) /\ T # <<>>
    /\ r.reply = P \o T
    /\ Joined(T) = s \o Joined(R)
    /\ r.bytes = k.bytes + ReplySize(T) - ReplySize(R)

\* setDeferredMultiBulkLength: the length comes before the blocks R that follow
\* its place, behind the blocks P that stay as they are.
LEMMA SetDeferredBlocks ==
    ASSUME NEW k, NEW P, NEW R, Awaits(k, P, R), NEW s \in Seq(Int), s # <<>>,
           NEW slack \in Nat
    PROVE  /\ SameButList(k, SetDeferred(k, Len(P) + 1, s, slack))
           /\ \E T : LengthSet(k, SetDeferred(k, Len(P) + 1, s, slack), P, R, T, s)
<1>k. DOMAIN k = Fields /\ k.bytes \in Int /\ ~ Silent(k) /\ P \in Seq(Block)
      /\ R \in Seq(Block) /\ R # <<>> /\ k.reply = (P \o <<NullNode>>) \o R
  BY DEF Awaits
<1> USE <1>k
<1> DEFINE node == Len(P) + 1
           next == k.reply[node + 1]
           glue == /\ node < Len(k.reply)
                   /\ next.size - Len(next.data) >= Len(s)
                   /\ Len(next.data) < Chunk * 4
           size == Len(s) + slack
           y == [data |-> s \o next.data, size |-> next.size]
           z == [data |-> s, size |-> size]
           one == [k EXCEPT !.reply = SubSeq(k.reply, 1, node - 1) \o <<y>>
                                      \o SubSeq(k.reply, node + 2, Len(k.reply))]
           two == [k EXCEPT !.reply = [k.reply EXCEPT ![node] = z], !.bytes = @ + size]
           q == IF glue THEN one ELSE two
           r == SetDeferred(k, node, s, slack)
<1>0. r = CheckLimit(q)
  BY DEF SetDeferred
<1>1. P \in Seq(Node) /\ R \in Seq(Node) /\ NullNode \in Node
  BY BlockNode DEF NullNode, Node
<1>2. /\ SubSeq(k.reply, 1, node - 1) = P
      /\ SubSeq(k.reply, node + 2, Len(k.reply)) = Tail(R)
      /\ next = R[1]
      /\ node < Len(k.reply)
      /\ Tail(R) \in Seq(Node)
      /\ R = <<R[1]>> \o Tail(R)
  BY <1>1, DeferredEnds
<1>3. R[1] \in Block /\ Tail(R) \in Seq(Block)
  BY HeadTailProperties
<1>4. PICK x : x = R[1] /\ x \in Block /\ x \in Node /\ x.data \in Seq(Int) /\ x.size \in Nat
               /\ Len(x.data) \in 1 .. x.size
  BY <1>3, BlockNode
<1>5. Len(s) \in Nat /\ Len(s) # 0
  OBVIOUS
<1>6. CASE glue
  <2>1. next = x /\ x.size - Len(x.data) >= Len(s)
    BY <1>2, <1>4, <1>6
  <2>2. q = one
    BY <1>6
  <2>3. y = [data |-> s \o x.data, size |-> x.size]
    BY <2>1
  <2>4. s \o x.data \in Seq(Int) /\ Len(s \o x.data) = Len(s) + Len(x.data)
    BY <1>4, Concat
  <2> HIDE DEF next, glue, y
  <2>5. s \o x.data # <<>> /\ Len(s \o x.data) <= x.size
    <3>1. Len(s \o x.data) # 0
      BY <1>4, <1>5, <2>4
    <3>2. Len(s \o x.data) <= x.size
      BY <1>4, <1>5, <2>1, <2>4
    <3> QED BY <3>1, <3>2
  <2>6. y \in Block /\ y.data = s \o x.data /\ y.size = x.size
    BY <1>4, <2>3, <2>4, <2>5, MakeBlock
  <2> DEFINE T == <<y>> \o Tail(R)
  <2>7. one.reply = P \o T /\ one.bytes = k.bytes /\ SameButList(k, one)
    <3>1. one.reply = (P \o <<y>>) \o Tail(R) /\ one.bytes = k.bytes /\ SameButList(k, one)
      BY <1>2 DEF SameButList, Fields
    <3>2. y \in Node /\ <<y>> \in Seq(Node)
      BY <2>6, BlockNode
    <3>3. (P \o <<y>>) \o Tail(R) = P \o (<<y>> \o Tail(R))
      BY <1>1, <1>2, <3>2, ConcatAssociative
    <3> QED BY <3>1, <3>3
  <2>8. /\ T \in Seq(Block) /\ T # <<>> /\ ReplySize(Tail(R)) \in Nat
        /\ ReplySize(T) = x.size + ReplySize(Tail(R))
        /\ Joined(Tail(R)) \in Seq(Int)
        /\ Joined(T) = (s \o x.data) \o Joined(Tail(R))
    <3>1. /\ T \in Seq(Block) /\ T # <<>> /\ ReplySize(Tail(R)) \in Nat
          /\ ReplySize(T) = y.size + ReplySize(Tail(R))
          /\ Joined(Tail(R)) \in Seq(Int)
          /\ Joined(T) = y.data \o Joined(Tail(R))
      BY ONLY <1>3, <2>6, PutBefore DEF T
    <3> HIDE DEF T
    <3> QED BY <2>6, <3>1
  <2>9. /\ ReplySize(R) = x.size + ReplySize(Tail(R))
        /\ Joined(R) = x.data \o Joined(Tail(R))
    <3>1. /\ ReplySize(<<x>> \o Tail(R)) = x.size + ReplySize(Tail(R))
          /\ Joined(<<x>> \o Tail(R)) = x.data \o Joined(Tail(R))
      BY <1>3, <1>4, PutBefore
    <3> QED BY <1>2, <1>4, <3>1
  <2>10. Joined(T) = s \o Joined(R)
    <3>1. (s \o x.data) \o Joined(Tail(R)) = s \o (x.data \o Joined(Tail(R)))
      BY <1>4, <2>8, Concat
    <3> QED BY <2>8, <2>9, <3>1
  <2> HIDE DEF T, one
  <2>11. r.reply = P \o T /\ r.bytes = k.bytes /\ SameButList(k, r)
    <3>1. r = CheckLimit(one)
      BY <1>0, <2>2
    <3> HIDE DEF r
    <3> QED BY <2>7, <3>1, ViaLimit
  <2>12. r.bytes = k.bytes + ReplySize(T) - ReplySize(R)
    <3>1. PICK a : a = ReplySize(T) /\ a = ReplySize(R) /\ a \in Nat
      BY ONLY <1>4, <2>8, <2>9
    <3> QED BY <2>11, <3>1
  <2> HIDE DEF r
  <2>a. LengthSet(k, r, P, R, T, s)
    BY <2>8, <2>10, <2>11, <2>12 DEF LengthSet
  <2> QED BY <2>8, <2>10, <2>11, <2>12, <2>a DEF r
<1>7. CASE ~ glue
  <2>1. q = two
    BY <1>7
  <2>2. size \in Nat /\ Len(s) <= size
    BY <1>5
  <2> HIDE DEF size, next, glue
  <2>3. z \in Block /\ z.data = s /\ z.size = size
    BY <2>2, MakeBlock
  <2> DEFINE T == <<z>> \o R
  <2>4. two.reply = P \o T /\ two.bytes = k.bytes + size /\ SameButList(k, two)
    <3> HIDE DEF z
    <3>1. two.reply = [k.reply EXCEPT ![node] = z] /\ two.bytes = k.bytes + size
          /\ SameButList(k, two)
      BY DEF SameButList, Fields
    <3>2. z \in Node /\ <<z>> \in Seq(Node)
      BY <2>3, BlockNode
    <3>3. FilledIn(two.reply, k.reply, Len(P) + 1, z)
      BY <3>1 DEF FilledIn
    <3>4. two.reply = (P \o <<z>>) \o R
      <4> DEFINE t == k.reply
                 v == two.reply
      <4>1. t = (P \o <<NullNode>>) \o R /\ FilledIn(v, t, Len(P) + 1, z)
        BY <3>3
      <4> HIDE DEF t, v
      <4>2. v = (P \o <<z>>) \o R
        BY ONLY <1>1, <3>2, <4>1, DeferredFilled
      <4> QED BY <4>2 DEF v
    <3>5. (P \o <<z>>) \o R = P \o (<<z>> \o R)
      BY <1>1, <3>2, ConcatAssociative
    <3> QED BY <3>1, <3>4, <3>5
  <2> HIDE DEF z
  <2>5. /\ T \in Seq(Block) /\ T # <<>> /\ ReplySize(R) \in Nat
        /\ ReplySize(T) = size + ReplySize(R)
        /\ Joined(T) = s \o Joined(R)
    BY <2>3, PutBefore
  <2> HIDE DEF T, two
  <2>6. r.reply = P \o T /\ r.bytes = k.bytes + size /\ SameButList(k, r)
    BY <1>0, <2>1, <2>4, ViaLimit
  <2>7. r.bytes = k.bytes + ReplySize(T) - ReplySize(R)
    BY <2>2, <2>5, <2>6
  <2> HIDE DEF r
  <2>a. LengthSet(k, r, P, R, T, s)
    BY <2>5, <2>6, <2>7 DEF LengthSet
  <2> QED BY <2>5, <2>6, <2>7, <2>a DEF r
<1> QED BY <1>6, <1>7

\* The list grows and the flags with it.
LEMMA ListGrown ==
    ASSUME NEW k, NEW q, Grown(k, q), DOMAIN q = Fields, q.flags = k.flags
    PROVE  Grown(k, CheckLimit(q))
BY DEF CheckLimit, Grown, Fields

\* _addReplyStringToList sets no other flags.
LEMMA ToListGrown ==
    ASSUME NEW k, NEW s, NEW slack, DOMAIN k = Fields
    PROVE  Grown(k, ToList(k, s, slack))
<1> DEFINE n == Len(k.reply)
           avail == IF n = 0 THEN 0 ELSE k.reply[n].size - Len(k.reply[n].data)
           copy == IF avail >= Len(s) THEN Len(s) ELSE avail
           rest == SubSeq(s, copy + 1, Len(s))
           size == (IF Len(rest) < Chunk THEN Chunk ELSE Len(rest)) + slack
           tail == IF copy = 0 THEN k.reply
                   ELSE [k.reply EXCEPT ![n].data = @ \o SubSeq(s, 1, copy)]
           one == [k EXCEPT !.reply = tail]
           two == [k EXCEPT !.reply = Append(tail, [data |-> rest, size |-> size]),
                            !.bytes = @ + size]
           r == IF rest = <<>> THEN one ELSE two
<1>1. ToList(k, s, slack) = CheckLimit(r)
  BY DEF ToList
<1> HIDE DEF tail, rest, size
<1>2. /\ DOMAIN one = Fields /\ one.flags = k.flags
      /\ DOMAIN two = Fields /\ two.flags = k.flags
  BY DEF Fields
<1>3. DOMAIN r = Fields /\ r.flags = k.flags
  BY <1>2
<1> HIDE DEF r
<1>4. Grown(k, r)
  BY <1>3 DEF Grown
<1> QED BY <1>1, <1>3, <1>4, ListGrown

\* Nor does setDeferredMultiBulkLength.
LEMMA SetDeferredGrown ==
    ASSUME NEW k, NEW node, NEW s, NEW slack, DOMAIN k = Fields, ~ Silent(k)
    PROVE  Grown(k, SetDeferred(k, node, s, slack))
<1>1. PICK reply, bytes :
          SetDeferred(k, node, s, slack) \in
              {CheckLimit([k EXCEPT !.reply = reply]),
               CheckLimit([k EXCEPT !.reply = reply, !.bytes = bytes])}
  BY DEF SetDeferred
<1> DEFINE one == [k EXCEPT !.reply = reply]
           two == [k EXCEPT !.reply = reply, !.bytes = bytes]
<1>2. /\ DOMAIN one = Fields /\ one.flags = k.flags
      /\ DOMAIN two = Fields /\ two.flags = k.flags
  BY DEF Fields
<1>3. Grown(k, one) /\ Grown(k, two)
  BY <1>2 DEF Grown
<1>4. Grown(k, CheckLimit(one)) /\ Grown(k, CheckLimit(two))
  BY <1>2, <1>3, ListGrown
<1> QED BY <1>1, <1>4

-----------------------------------------------------------------------------

\* addReply to a client whose list has blocks goes to the list.
LEMMA ListReply ==
    ASSUME NEW k, NEW s, NEW slack, ~ Silent(k), "close_after" \notin k.flags, k.reply # <<>>
    PROVE  AddReply(k, s, slack) = ToList(k, s, slack)
BY DEF AddReply, Prepare, HasPending

\* The flags that make a client silent or closed are not among those that grow.
LEMMA GrownSpeaks ==
    ASSUME NEW k, NEW r, Grown(k, r)
    PROVE  /\ Silent(r) <=> Silent(k)
           /\ "close_after" \in r.flags <=> "close_after" \in k.flags
BY DEF Grown, Silent

\* A reply in the static buffer.
LEMMA BufferOut ==
    ASSUME NEW k, NEW r, NEW w, NEW m, OutOK(k, w, m), NEW n \in Nat \ {0},
           k.reply = <<>>, n <= BufSize - Len(k.buf),
           r.buf = k.buf \o Bytes(m, n), r.reply = <<>>, r.bytes = k.bytes,
           r.sentlen = k.sentlen
    PROVE  OutOK(r, w, m + n)
<1> DEFINE s == Bytes(m, n)
<1>1. k.buf \in Seq(Int) /\ m \in Int /\ Len(k.buf) \in Nat /\ BufSize \in Nat /\ k.sentlen \in Nat
  BY NetworkingAssumption DEF OutOK
<1>2. s \in Seq(Int) /\ Len(s) = n
  BY <1>1, BytesSeq
<1>a. r.buf = k.buf \o s
  OBVIOUS
<1> HIDE DEF s
<1>3. r.buf \in Seq(Int) /\ Len(r.buf) = Len(k.buf) + n
  <2>1. k.buf \o s \in Seq(Int) /\ Len(k.buf \o s) = Len(k.buf) + Len(s)
    BY ONLY <1>1, <1>2, Concat
  <2> QED BY <1>2, <1>a, <2>1
<1>4. Len(r.buf) <= BufSize
  BY <1>1, <1>3
<1>5. r.reply \in Seq(Block) /\ r.bytes = ReplySize(r.reply)
  BY DEF OutOK
<1>6. r.buf \o Joined(r.reply) = (k.buf \o Joined(k.reply)) \o s
  <2>1. Joined(r.reply) = <<>> /\ Joined(k.reply) = <<>>
    BY JoinedOne
  <2>2. r.buf \o <<>> = r.buf /\ k.buf \o <<>> = k.buf
    BY <1>1, <1>3, Concat
  <2> QED BY <1>a, <2>1, <2>2
<1>7. k.sentlen < Len(Source(r))
  <2>1. Source(r) = r.buf
    BY <1>1, <1>3 DEF Source
  <2>2. HasPending(k) => k.sentlen < Len(k.buf)
    BY DEF OutOK, HasPending, Source
  <2>3. ~ HasPending(k) => k.sentlen = 0
    BY DEF OutOK
  <2> QED BY <1>1, <1>3, <2>1, <2>2, <2>3
<1> QED BY <1>3, <1>4, <1>5, <1>6, <1>7, OutGrows DEF s

\* A reply in the list R of blocks that the list of k has become.
LEMMA ListOut ==
    ASSUME NEW k, NEW r, NEW w, NEW m, OutOK(k, w, m), NEW n \in Nat \ {0},
           SameButList(k, r), NEW R \in Seq(Block), R # <<>>, r.reply = R,
           Joined(R) = Joined(k.reply) \o Bytes(m, n),
           r.bytes = k.bytes + ReplySize(R) - ReplySize(k.reply),
           k.reply # <<>> => Len(R[1].data) >= Len(k.reply[1].data)
    PROVE  OutOK(r, w, m + n)
<1> DEFINE s == Bytes(m, n)
<1>1. /\ k.buf \in Seq(Int) /\ m \in Int /\ Len(k.buf) \in Nat /\ k.sentlen \in Nat
      /\ Len(k.buf) <= BufSize /\ k.bytes = ReplySize(k.reply) /\ k.reply \in Seq(Block)
  BY DEF OutOK
<1>2. s \in Seq(Int) /\ Len(s) = n
  BY <1>1, BytesSeq
<1>3. r.buf = k.buf /\ r.sentlen = k.sentlen
  BY DEF SameButList
<1>4. Joined(k.reply) \in Seq(Int) /\ k.bytes \in Nat
  BY OutTypes
<1>5. r.bytes = ReplySize(r.reply)
  <2>1. R \in Seq(Node)
    BY BlockNode
  <2>2. ReplySize(R) \in Nat
    BY <2>1, ReplySizeConcat
  <2> QED BY <1>1, <1>4, <2>2
<1>6. r.buf \o Joined(r.reply) = (k.buf \o Joined(k.reply)) \o s
  <2>1. (k.buf \o Joined(k.reply)) \o s = k.buf \o (Joined(k.reply) \o s)
    BY <1>1, <1>2, <1>4, Concat
  <2> QED BY <1>3, <2>1
<1>7. k.sentlen < Len(Source(r))
  <2>1. CASE k.buf # <<>>
    BY <1>3, <2>1 DEF OutOK, Source, HasPending
  <2>2. CASE k.buf = <<>> /\ k.reply # <<>>
    <3>1. k.sentlen < Len(k.reply[1].data)
      BY <2>2 DEF OutOK, Source, HasPending
    <3>2. Source(r) = R[1].data
      BY <1>3, <2>2 DEF Source
    <3>3. k.reply[1] \in Block /\ R[1] \in Block
      BY <1>1, <2>2
    <3>4. \A x \in Block : Len(x.data) \in Nat
      BY BlockNode
    <3>5. PICK a, b : a = Len(k.reply[1].data) /\ b = Len(R[1].data) /\ a \in Nat /\ b \in Nat
                      /\ b >= a
      BY <2>2, <3>3, <3>4
    <3> QED BY <1>1, <3>1, <3>2, <3>5
  <2>3. CASE k.buf = <<>> /\ k.reply = <<>>
    <3>1. k.sentlen = 0
      BY <2>3 DEF OutOK, HasPending
    <3>2. Source(r) = R[1].data
      BY <1>3, <2>3 DEF Source
    <3>3. R[1] \in Block
      OBVIOUS
    <3>4. Len(R[1].data) \in Nat /\ Len(R[1].data) > 0
      BY <3>3, BlockNode
    <3> QED BY <3>1, <3>2, <3>4
  <2> QED BY <2>1, <2>2, <2>3
<1>8. r.buf \in Seq(Int) /\ Len(r.buf) <= BufSize
  BY <1>1, <1>3
<1> QED BY <1>3, <1>5, <1>6, <1>7, <1>8, OutGrows

\* addReply: the reply follows the replies before it.
LEMMA AddReplyOut ==
    ASSUME NEW k, DOMAIN k = Fields, NEW w, NEW m, OutOK(k, w, m), ~ Silent(k),
           "close_after" \notin k.flags, NEW n \in Nat \ {0}, NEW slack \in Nat
    PROVE  LET r == AddReply(k, Bytes(m, n), slack)
           IN OutOK(r, w, m + n) /\ Grown(k, r)
<1> DEFINE s == Bytes(m, n)
           p == Prepare(k)
           one == [p EXCEPT !.buf = @ \o s]
           two == ToList(p, s, slack)
<1>1. SameOutput(k, p) /\ Grown(k, p) /\ DOMAIN p = Fields
  BY PrepareOut
<1>2. OutOK(p, w, m)
  BY <1>1, OutFrame
<1>3. AddReply(k, s, slack) = IF k.reply = <<>> /\ Len(s) <= BufSize - Len(k.buf) THEN one ELSE two
  BY DEF AddReply
<1>4. p.reply = k.reply /\ p.buf = k.buf
  BY <1>1 DEF SameOutput
<1>5. m \in Int
  BY DEF OutOK
<1>6. s \in Seq(Int) /\ Len(s) = n /\ s # <<>>
  <2>1. s \in Seq(Int) /\ Len(s) = n
    BY <1>5, BytesSeq
  <2> HIDE DEF s
  <2> QED BY <2>1
<1> HIDE DEF p
<1>7. CASE k.reply = <<>> /\ Len(s) <= BufSize - Len(k.buf)
  <2>1. AddReply(k, s, slack) = one
    BY <1>3, <1>7
  <2> HIDE DEF s
  <2>2. one.buf = p.buf \o s /\ one.reply = <<>> /\ one.bytes = p.bytes
        /\ one.sentlen = p.sentlen /\ one.flags = p.flags
    BY <1>1, <1>4, <1>7 DEF Fields
  <2>3. p.reply = <<>> /\ n <= BufSize - Len(p.buf)
    BY <1>4, <1>6, <1>7
  <2> HIDE DEF one
  <2>4. OutOK(one, w, m + n)
    BY <1>2, <2>2, <2>3, BufferOut DEF s
  <2>5. Grown(k, one)
    BY <1>1, <2>2 DEF Grown
  <2> QED BY <2>1, <2>4, <2>5 DEF s
<1>8. CASE ~ (k.reply = <<>> /\ Len(s) <= BufSize - Len(k.buf))
  <2>1. AddReply(k, s, slack) = two
    BY <1>3, <1>8
  <2>2. Grown(p, two)
    BY <1>1, ToListGrown
  <2>3. Grown(k, two)
    <3>1. HasPending(p) \/ ~ HasPending(k)
      BY <1>4 DEF HasPending
    <3> QED BY <1>1, <2>2, <3>1, GrownTrans
  <2>4. p.bytes \in Int /\ <<>> \in Seq(Node) /\ p.reply \in Seq(Block)
    <3>1. p.bytes \in Nat
      BY <1>2, OutTypes
    <3> QED BY <1>2, <3>1 DEF OutOK
  <2>5. p.reply = <<>> \o p.reply
    BY <2>4, ConcatEmptySeq
  <2> DEFINE e == <<>>
  <2>6. e \in Seq(Node) /\ e = <<>> /\ p.reply = e \o p.reply
    BY <2>4, <2>5
  <2> HIDE DEF s, e
  <2>a. ListIs(p, e, p.reply)
    BY <1>1, <2>4, <2>6 DEF ListIs
  <2>7. SameButList(p, two) /\ \E R : ListGrows(p, two, e, p.reply, R, s)
    BY ONLY <1>6, <2>a, slack \in Nat, ToListBlocks DEF two
  <2> HIDE DEF two
  <2>8. PICK R \in Seq(Block) :
             /\ R # <<>>
             /\ two.reply = e \o R
             /\ Joined(R) = Joined(p.reply) \o s
             /\ two.bytes = p.bytes + ReplySize(R) - ReplySize(p.reply)
             /\ p.reply # <<>> => Len(R[1].data) >= Len(p.reply[1].data)
    BY <2>7 DEF ListGrows
  <2>9. two.reply = R
    BY <2>6, <2>8, ConcatEmptySeq
  <2>10. OutOK(two, w, m + n)
    BY <1>2, <2>7, <2>8, <2>9, ListOut DEF s
  <2> QED BY <2>1, <2>3, <2>10 DEF s
<1> QED BY <1>7, <1>8

-----------------------------------------------------------------------------

\* A reply of n bytes in blocks T behind the list of k.
LEMMA AppendOut ==
    ASSUME NEW k, NEW r, NEW w, NEW m, OutOK(k, w, m), NEW n \in Nat \ {0},
           r.buf = k.buf, r.sentlen = k.sentlen, NEW T \in Seq(Block), T # <<>>,
           r.reply = k.reply \o T, Joined(T) = Bytes(m, n),
           r.bytes = k.bytes + ReplySize(T)
    PROVE  OutOK(r, w, m + n)
<1> DEFINE s == Bytes(m, n)
<1>1. /\ k.buf \in Seq(Int) /\ m \in Int /\ k.sentlen \in Nat
      /\ Len(k.buf) <= BufSize /\ k.bytes = ReplySize(k.reply) /\ k.reply \in Seq(Block)
  BY DEF OutOK
<1>2. s \in Seq(Int)
  BY <1>1, BytesSeq
<1>3. k.reply \in Seq(Node) /\ T \in Seq(Node)
  BY <1>1, BlockNode
<1>4. r.reply \in Seq(Block)
  <2>1. k.reply \o T \in Seq(Block)
    BY <1>1, ConcatProperties
  <2> QED BY <2>1
<1>5. r.bytes = ReplySize(r.reply)
  BY <1>1, <1>3, ReplySizeConcat
<1> HIDE DEF s
<1>6. r.buf \o Joined(r.reply) = (k.buf \o Joined(k.reply)) \o s
  <2>1. Joined(k.reply) \in Seq(Int) /\ Joined(k.reply \o T) = Joined(k.reply) \o s
    BY <1>3, JoinedConcat DEF s
  <2>2. (k.buf \o Joined(k.reply)) \o s = k.buf \o (Joined(k.reply) \o s)
    BY ONLY <1>1, <1>2, <2>1, Concat
  <2> QED BY <2>1, <2>2
<1>7. k.sentlen < Len(Source(r))
  <2>1. CASE k.buf # <<>>
    BY <2>1 DEF OutOK, Source, HasPending
  <2>2. CASE k.buf = <<>> /\ k.reply # <<>>
    <3>1. k.sentlen < Len(k.reply[1].data)
      BY <2>2 DEF OutOK, Source, HasPending
    <3>2. (k.reply \o T)[1] = k.reply[1]
      BY <1>3, <2>2, FirstOf
    <3> QED BY <2>2, <3>1, <3>2 DEF Source
  <2>3. CASE k.buf = <<>> /\ k.reply = <<>>
    <3>1. k.sentlen = 0
      BY <2>3 DEF OutOK, HasPending
    <3>2. k.reply \o T = T
      BY <1>3, <2>3, ConcatEmptySeq
    <3>3. Source(r) = T[1].data
      BY <2>3, <3>2 DEF Source
    <3>4. T[1] \in Block
      OBVIOUS
    <3>5. Len(T[1].data) \in Nat /\ Len(T[1].data) > 0
      BY <3>4, BlockNode
    <3> QED BY <3>1, <3>3, <3>5
  <2> QED BY <2>1, <2>2, <2>3
<1>8. r.buf \in Seq(Int) /\ Len(r.buf) <= BufSize
  BY <1>1
<1> QED BY <1>4, <1>5, <1>6, <1>7, <1>8, OutGrows DEF s

\* The three pieces of a reply with a length.
LEMMA Pieces ==
    ASSUME NEW i \in Nat, NEW n \in Nat, NEW m \in Nat
    PROVE  Bytes(i, 1) \o (Bytes(i + 1, n) \o Bytes(i + 1 + n, m)) = Bytes(i, 1 + n + m)
<1>1. PICK j : j = i + 1 /\ j \in Int /\ i \in Int
  OBVIOUS
<1>2. Bytes(j, n) \o Bytes(j + n, m) = Bytes(j, n + m)
  BY <1>1, BytesConcat
<1>3. PICK b : b = n + m /\ b \in Nat /\ 1 + b = 1 + n + m
  OBVIOUS
<1>4. Bytes(i, 1) \o Bytes(i + 1, b) = Bytes(i, 1 + b)
  BY <1>1, <1>3, BytesConcat
<1> QED BY <1>1, <1>2, <1>3, <1>4

\* SMEMBERS: the members follow the replies before, and the length comes before
\* the members.
LEMMA SmembersOut ==
    ASSUME NEW k, DOMAIN k = Fields, NEW w, NEW i, OutOK(k, w, i), ~ Silent(k),
           "close_after" \notin k.flags, NEW n \in Nat \ {0}, NEW m \in Nat \ {0},
           NEW slack \in Nat
    PROVE  LET q == AddDeferred(k)
               one == AddReply(q, Bytes(i + 1, n), slack)
               two == AddReply(one, Bytes(i + 1 + n, m), slack)
               r == SetDeferred(two, Len(q.reply), Bytes(i, 1), slack)
           IN OutOK(r, w, i + (1 + n + m)) /\ Grown(k, r)
<1> DEFINE p == Prepare(k)
           P == p.reply
           e == <<>>
           D == P \o <<NullNode>>
           q == AddDeferred(k)
           s0 == Bytes(i, 1)
           s1 == Bytes(i + 1, n)
           s2 == Bytes(i + 1 + n, m)
           one == AddReply(q, s1, slack)
           two == AddReply(one, s2, slack)
           r == SetDeferred(two, Len(q.reply), s0, slack)
<1>0. i \in Nat /\ i \in Int /\ i + 1 \in Int /\ i + 1 + n \in Int
  BY DEF OutOK
<1>1. /\ s0 \in Seq(Int) /\ s0 # <<>>
      /\ s1 \in Seq(Int) /\ s1 # <<>>
      /\ s2 \in Seq(Int) /\ s2 # <<>>
  <2>1. ASSUME NEW a \in Int, NEW b \in Nat \ {0}
        PROVE  Bytes(a, b) \in Seq(Int) /\ Bytes(a, b) # <<>>
    <3>1. Bytes(a, b) \in Seq(Int) /\ Len(Bytes(a, b)) = b
      BY BytesSeq
    <3> QED BY <3>1
  <2>2. s0 \in Seq(Int) /\ s0 # <<>>
    BY <1>0, <2>1
  <2>3. s1 \in Seq(Int) /\ s1 # <<>>
    BY <1>0, <2>1
  <2>4. s2 \in Seq(Int) /\ s2 # <<>>
    BY <1>0, <2>1
  <2> QED BY <2>2, <2>3, <2>4
<1>2. s0 \o (s1 \o s2) = Bytes(i, 1 + n + m)
  BY <1>0, Pieces
<1> HIDE DEF s0, s1, s2
<1>3. SameOutput(k, p) /\ Grown(k, p) /\ DOMAIN p = Fields
  BY PrepareOut
<1>4. OutOK(p, w, i)
  BY <1>3, OutFrame
<1>5. P \in Seq(Block) /\ P \in Seq(Node) /\ p.bytes \in Nat
  BY <1>4, OutTypes DEF OutOK
<1>6. NullNode \in Node /\ <<NullNode>> \in Seq(Node)
  BY DEF NullNode, Node
<1>7. q = [p EXCEPT !.reply = Append(@, NullNode)]
  BY DEF AddDeferred
<1>8. /\ DOMAIN q = Fields /\ q.reply = D /\ q.bytes = p.bytes /\ q.buf = p.buf
      /\ q.sentlen = p.sentlen /\ q.flags = p.flags
  <2>1. Append(P, NullNode) = D
    BY <1>5, <1>6, AppendIsConcat
  <2> HIDE DEF p, D, q
  <2>2. q = [p EXCEPT !.reply = D]
    BY <1>7, <2>1
  <2> QED BY <1>3, <2>2 DEF Fields
<1> HIDE DEF p, q
<1>9. D \in Seq(Node) /\ Len(D) = Len(P) + 1 /\ D[Len(D)] = NullNode /\ D # <<>>
  <2>1. Len(<<NullNode>>) = 1 /\ <<NullNode>>[1] = NullNode /\ Len(P) \in Nat
    BY <1>5
  <2>2. D \in Seq(Node) /\ Len(D) = Len(P) + Len(<<NullNode>>)
        /\ \A j \in 1 .. Len(P) + Len(<<NullNode>>) :
             D[j] = IF j <= Len(P) THEN P[j] ELSE <<NullNode>>[j - Len(P)]
    BY ONLY <1>5, <1>6, ConcatProperties
  <2> HIDE DEF D, P
  <2>3. PICK a : a = Len(P) /\ a \in Nat /\ a + 1 \in 1 .. a + 1 /\ ~ (a + 1 <= a)
                 /\ (a + 1) - a = 1
    BY <2>1
  <2>4. D[a + 1] = NullNode
    BY <2>1, <2>2, <2>3
  <2>5. Len(D) = a + 1
    BY <2>1, <2>2, <2>3
  <2>6. D # <<>>
    BY <2>2, <2>5, <2>3
  <2> QED BY <2>2, <2>3, <2>4, <2>5, <2>6
<1> HIDE DEF P, D
<1>10. ~ Silent(q) /\ "close_after" \notin q.flags
  BY <1>3, <1>8, GrownSpeaks DEF Silent
<1>11. ListIs(q, D, e)
  <2>1. e \in Seq(Block) /\ D = D \o e
    BY <1>9, ConcatEmptySeq
  <2> QED BY <1>5, <1>8, <1>9, <2>1 DEF ListIs
<1>12. one = ToList(q, s1, slack)
  BY <1>8, <1>9, <1>10, ListReply
<1>13. SameButList(q, one) /\ Grown(q, one)
  <2>1. SameButList(q, ToList(q, s1, slack))
    BY ONLY <1>1, <1>11, slack \in Nat, ToListBlocks
  <2> QED BY <1>8, <1>12, <2>1, ToListGrown
<1>14. PICK R1 : ListGrows(q, one, D, e, R1, s1)
  <2>1. \E R1 : ListGrows(q, ToList(q, s1, slack), D, e, R1, s1)
    BY ONLY <1>1, <1>11, slack \in Nat, ToListBlocks
  <2> QED BY <1>12, <2>1
<1> HIDE DEF one
<1>15. /\ R1 \in Seq(Block) /\ R1 # <<>> /\ one.reply = D \o R1
       /\ Joined(R1) = s1 /\ one.bytes = q.bytes + ReplySize(R1) /\ one.bytes \in Int
       /\ ReplySize(R1) \in Nat
  <2>1. /\ R1 \in Seq(Block) /\ R1 # <<>> /\ one.reply = D \o R1
        /\ Joined(R1) = Joined(e) \o s1
        /\ one.bytes = q.bytes + ReplySize(R1) - ReplySize(e)
    BY <1>14 DEF ListGrows
  <2>2. Joined(e) = <<>> /\ ReplySize(e) = 0
    BY JoinedOne, ReplySizeOne
  <2>3. <<>> \o s1 = s1
    BY <1>1, Concat
  <2>4. R1 \in Seq(Node)
    BY <2>1, BlockNode
  <2>5. ReplySize(R1) \in Nat
    BY <2>4, ReplySizeConcat
  <2>6. PICK a, b : a = ReplySize(R1) /\ b = q.bytes /\ a \in Nat /\ b \in Nat
                   /\ one.bytes = b + a - 0
    BY <1>5, <1>8, <2>1, <2>2, <2>5
  <2>7. one.bytes = b + a /\ one.bytes \in Int
    BY ONLY <2>6
  <2> QED BY <2>1, <2>2, <2>3, <2>5, <2>6, <2>7
<1>16. ListIs(one, D, R1)
  BY <1>9, <1>13, <1>15 DEF ListIs, SameButList
<1>17. ~ Silent(one) /\ "close_after" \notin one.flags /\ one.reply # <<>>
  <2>1. R1 \in Seq(Node)
    BY <1>15, BlockNode
  <2>2. D \o R1 # <<>>
    BY <1>9, <2>1, FirstOf
  <2> QED BY <1>10, <1>13, <1>15, <2>2, GrownSpeaks
<1>18. two = ToList(one, s2, slack)
  BY <1>17, ListReply
<1>19. SameButList(one, two) /\ Grown(one, two)
  <2>1. SameButList(one, ToList(one, s2, slack))
    BY ONLY <1>1, <1>16, slack \in Nat, ToListBlocks
  <2>2. DOMAIN one = Fields
    BY <1>13 DEF SameButList
  <2> QED BY <1>18, <2>1, <2>2, ToListGrown
<1>20. PICK R2 : ListGrows(one, two, D, R1, R2, s2)
  <2>1. \E R2 : ListGrows(one, ToList(one, s2, slack), D, R1, R2, s2)
    BY ONLY <1>1, <1>16, slack \in Nat, ToListBlocks
  <2> QED BY <1>18, <2>1
<1> HIDE DEF two
<1>21. /\ R2 \in Seq(Block) /\ R2 # <<>> /\ two.reply = D \o R2
       /\ Joined(R2) = s1 \o s2 /\ two.bytes = q.bytes + ReplySize(R2)
       /\ ReplySize(R2) \in Nat /\ two.bytes \in Int
  <2>1. /\ R2 \in Seq(Block) /\ R2 # <<>> /\ two.reply = D \o R2
        /\ Joined(R2) = Joined(R1) \o s2
        /\ two.bytes = one.bytes + ReplySize(R2) - ReplySize(R1)
    BY <1>20 DEF ListGrows
  <2>2. R2 \in Seq(Node)
    BY <2>1, BlockNode
  <2>3. ReplySize(R2) \in Nat
    BY <2>2, ReplySizeConcat
  <2> QED BY <1>5, <1>8, <1>15, <2>1, <2>3
<1>22. ~ Silent(two)
  BY <1>17, <1>19, GrownSpeaks
<1>23. Awaits(two, P, R2)
  BY <1>5, <1>19, <1>21, <1>22 DEF Awaits, SameButList, D
<1>24. Len(q.reply) = Len(P) + 1
  BY <1>8, <1>9
<1>25. SameButList(two, r) /\ Grown(two, r)
  <2>1. SameButList(two, SetDeferred(two, Len(P) + 1, s0, slack))
    BY ONLY <1>1, <1>23, slack \in Nat, SetDeferredBlocks
  <2>2. DOMAIN two = Fields
    BY <1>19 DEF SameButList
  <2> QED BY <1>22, <1>24, <2>1, <2>2, SetDeferredGrown
<1>26. PICK T : LengthSet(two, r, P, R2, T, s0)
  <2>1. \E T : LengthSet(two, SetDeferred(two, Len(P) + 1, s0, slack), P, R2, T, s0)
    BY ONLY <1>1, <1>23, slack \in Nat, SetDeferredBlocks
  <2> QED BY <1>24, <2>1
<1> HIDE DEF r
<1>27. /\ T \in Seq(Block) /\ T # <<>> /\ r.reply = P \o T
       /\ Joined(T) = Bytes(i, 1 + n + m)
       /\ r.bytes = p.bytes + ReplySize(T)
  <2>1. /\ T \in Seq(Block) /\ T # <<>> /\ r.reply = P \o T
        /\ Joined(T) = s0 \o Joined(R2)
        /\ r.bytes = two.bytes + ReplySize(T) - ReplySize(R2)
    BY <1>26 DEF LengthSet
  <2>2. T \in Seq(Node)
    BY <2>1, BlockNode
  <2>3. ReplySize(T) \in Nat
    BY <2>2, ReplySizeConcat
  <2> QED BY <1>2, <1>5, <1>8, <1>21, <2>1, <2>3
<1>28. r.buf = p.buf /\ r.sentlen = p.sentlen
  BY <1>8, <1>13, <1>19, <1>25 DEF SameButList
<1>29. OutOK(r, w, i + (1 + n + m))
  <2>1. 1 + n + m \in Nat \ {0}
    OBVIOUS
  <2>2. r.reply = p.reply \o T
    BY <1>27 DEF P
  <2> QED BY <1>4, <1>27, <1>28, <2>1, <2>2, AppendOut
<1>30. Grown(k, r)
  <2>1. HasPending(q) /\ HasPending(one) /\ HasPending(two)
    <3>1. R2 \in Seq(Node)
      BY <1>21, BlockNode
    <3>2. D \o R2 # <<>>
      BY <1>9, <3>1, FirstOf
    <3> QED BY <1>8, <1>9, <1>17, <1>21, <3>2 DEF HasPending
  <2>2. Grown(q, two)
    BY <1>13, <1>19, <2>1, GrownTrans
  <2>3. Grown(q, r)
    BY <1>25, <2>1, <2>2, GrownTrans
  <2>4. Grown(k, q)
    BY <1>3, <1>8 DEF Grown
  <2> QED BY <2>1, <2>3, <2>4, GrownTrans
<1> QED BY <1>29, <1>30 DEF r, two, one, q, s0, s1, s2

-----------------------------------------------------------------------------

\* A client with nothing to write has written all.
LEMMA OutEmpty ==
    ASSUME NEW k, NEW w, NEW m, OutOK(k, w, m), ~ HasPending(k)
    PROVE  w = m
<1>1. k.buf = <<>> /\ k.reply = <<>> /\ k.sentlen = 0 /\ w \in Nat /\ m \in Nat
  BY DEF OutOK, HasPending
<1>2. (m - w) + k.sentlen = Len(k.buf) + Len(Joined(k.reply))
  BY OutTypes
<1>3. Len(k.buf) = 0 /\ Len(Joined(k.reply)) = 0
  BY <1>1, JoinedOne
<1> QED BY <1>1, <1>2, <1>3

\* The first block of a list, and the others.
LEMMA FirstBlock ==
    ASSUME NEW R \in Seq(Block), R # <<>>
    PROVE  /\ R[1] \in Block
           /\ Tail(R) \in Seq(Block)
           /\ R[1].data \in Seq(Int) /\ Len(R[1].data) \in 1 .. R[1].size
           /\ R[1].size \in Nat
           /\ ReplySize(Tail(R)) \in Nat
           /\ Joined(Tail(R)) \in Seq(Int)
           /\ ReplySize(R) = R[1].size + ReplySize(Tail(R))
           /\ Joined(R) = R[1].data \o Joined(Tail(R))
<1>1. R[1] \in Block /\ Tail(R) \in Seq(Block)
  BY HeadTailProperties
<1>2. R \in Seq(Node) /\ <<>> \in Seq(Node) /\ NullNode \in Node
  BY BlockNode DEF NullNode, Node
<1>3. R = <<R[1]>> \o Tail(R)
  BY <1>2, DeferredEnds
<1> DEFINE x == R[1]
           t == Tail(R)
<1>4. x \in Block /\ t \in Seq(Block) /\ R = <<x>> \o t
  BY <1>1, <1>3
<1> HIDE DEF x, t
<1>5. /\ ReplySize(t) \in Nat
      /\ Joined(t) \in Seq(Int)
      /\ ReplySize(<<x>> \o t) = x.size + ReplySize(t)
      /\ Joined(<<x>> \o t) = x.data \o Joined(t)
  BY ONLY <1>4, PutBefore
<1>6. x.data \in Seq(Int) /\ x.size \in Nat /\ Len(x.data) \in 1 .. x.size
  BY <1>4, BlockNode
<1> QED BY <1>4, <1>5, <1>6 DEF x, t

\* What the next write is made from are the bytes that come next.
LEMMA SourceOut ==
    ASSUME NEW k, NEW w, NEW m, OutOK(k, w, m), HasPending(k)
    PROVE  /\ Source(k) \in Seq(Int)
           /\ Len(Source(k)) \in Nat /\ k.sentlen \in Nat /\ w \in Nat /\ m \in Nat
           /\ k.sentlen < Len(Source(k))
           /\ Len(Source(k)) - k.sentlen <= m - w
           /\ Source(k) = Bytes(w - k.sentlen, Len(Source(k)))
<1>1. k.sentlen \in Nat /\ w \in Nat /\ m \in Nat /\ k.sentlen < Len(Source(k))
      /\ k.buf \in Seq(Int) /\ k.reply \in Seq(Block)
  BY DEF OutOK
<1>2. /\ Joined(k.reply) \in Seq(Int)
      /\ Len(k.buf) \in Nat /\ Len(Joined(k.reply)) \in Nat
      /\ k.buf = Bytes(w - k.sentlen, Len(k.buf))
      /\ Joined(k.reply) = Bytes(w - k.sentlen + Len(k.buf), Len(Joined(k.reply)))
      /\ (m - w) + k.sentlen = Len(k.buf) + Len(Joined(k.reply))
  BY OutTypes
<1>3. CASE k.buf # <<>>
  <2>1. Source(k) = k.buf
    BY <1>3 DEF Source
  <2>2. Len(k.buf) - k.sentlen <= m - w
    <3>1. PICK a, b, c : /\ a = k.sentlen /\ b = Len(k.buf) /\ c = Len(Joined(k.reply))
                         /\ a \in Nat /\ b \in Nat /\ c \in Nat /\ w \in Nat /\ m \in Nat
                         /\ (m - w) + a = b + c
      BY <1>1, <1>2
    <3>2. b - a <= m - w
      <4>1. a \in Nat /\ b \in Nat /\ c \in Nat /\ w \in Nat /\ m \in Nat /\ (m - w) + a = b + c
        BY <3>1
      <4> QED BY ONLY <4>1
    <3> QED BY <3>1, <3>2
  <2> QED BY <1>1, <1>2, <2>1, <2>2
<1>4. CASE k.buf = <<>>
  <2>1. k.reply # <<>> /\ Source(k) = k.reply[1].data /\ Len(k.buf) = 0
    BY <1>4 DEF Source, HasPending
  <2>2. PICK d, e : /\ d = Source(k) /\ d \in Seq(Int) /\ e \in Seq(Int)
                    /\ Joined(k.reply) = d \o e
    <3>1. /\ k.reply[1].data \in Seq(Int) /\ Joined(Tail(k.reply)) \in Seq(Int)
          /\ Joined(k.reply) = k.reply[1].data \o Joined(Tail(k.reply))
      BY <1>1, <2>1, FirstBlock
    <3> QED BY <2>1, <3>1
  <2>3. PICK j, l : /\ j = w - k.sentlen /\ j \in Int /\ j + 0 = j
                    /\ l = Len(Joined(k.reply)) /\ l \in Nat
    BY <1>1, <1>2
  <2>4. Joined(k.reply) = Bytes(j, l)
    BY <1>2, <2>1, <2>3
  <2>5. Run(d, e, j, l)
    BY <2>2, <2>4 DEF Run
  <2>6. d = Bytes(j, Len(d)) /\ l = Len(d) + Len(e)
    <3>1. d \in Seq(Int) /\ e \in Seq(Int) /\ j \in Int /\ l \in Nat
      BY <2>2, <2>3
    <3> QED BY ONLY <2>5, <3>1, BytesParts, Zenon
  <2>7. Len(d) \in Nat /\ Len(e) \in Nat
    BY <2>2
  <2>8. Len(d) - k.sentlen <= m - w
    <3>1. k.sentlen \in Nat /\ w \in Nat /\ m \in Nat
          /\ (m - w) + k.sentlen = 0 + (Len(d) + Len(e))
      BY <1>1, <1>2, <2>1, <2>3, <2>6
    <3> QED BY ONLY <2>7, <3>1
  <2> QED BY <1>1, <2>2, <2>3, <2>6, <2>7, <2>8
<1> QED BY <1>3, <1>4

\* What the next write offers, and what it writes.
LEMMA OfferOut ==
    ASSUME NEW k, NEW w, NEW m, OutOK(k, w, m), HasPending(k)
    PROVE  /\ Len(Offer(k)) = Len(Source(k)) - k.sentlen
           /\ Offer(k) \in Seq(Int)
           /\ Offer(k) # <<>>
           /\ \A n \in 1 .. Len(Offer(k)) : SubSeq(Offer(k), 1, n) = Bytes(w, n)
<1> DEFINE d == Source(k)
           a == k.sentlen
           b == Len(d)
<1>1. /\ d \in Seq(Int) /\ b \in Nat /\ a \in Nat /\ w \in Nat /\ a < b
      /\ d = Bytes(w - a, b)
  BY SourceOut
<1>2. Offer(k) = SubSeq(d, a + 1, b)
  BY DEF Offer, Source
<1> HIDE DEF d, a, b
<1>3. PICK c, j, l : /\ c = a + 1 /\ c \in 1 .. b + 1 /\ b \in c - 1 .. b
                     /\ j = w - a /\ j \in Int /\ j + c - 1 = w
                     /\ l = b - a /\ b - c + 1 = l /\ l \in Nat /\ l # 0
  <2>1. /\ a + 1 \in 1 .. b + 1 /\ b \in (a + 1) - 1 .. b
        /\ w - a \in Int /\ (w - a) + (a + 1) - 1 = w
        /\ b - (a + 1) + 1 = b - a /\ b - a \in Nat /\ b - a # 0
    BY <1>1
  <2> QED BY <2>1
<1>4. SubSeq(Bytes(j, b), c, b) = Bytes(j + c - 1, b - c + 1)
  BY ONLY <1>1, <1>3, BytesSub
<1>5. Offer(k) = Bytes(w, l)
  BY <1>1, <1>2, <1>3, <1>4
<1>6. Bytes(w, l) \in Seq(Int) /\ Len(Bytes(w, l)) = l
  <2>1. w \in Int /\ l \in Nat
    BY <1>1, <1>3
  <2> QED BY <2>1, BytesSeq
<1>7. ASSUME NEW n \in 1 .. l PROVE SubSeq(Bytes(w, l), 1, n) = Bytes(w, n)
  <2>1. w \in Int /\ l \in Nat /\ 1 \in 1 .. l + 1 /\ n \in 1 - 1 .. l /\ w + 1 - 1 = w /\ n - 1 + 1 = n
    BY <1>1, <1>3
  <2>2. SubSeq(Bytes(w, l), 1, n) = Bytes(w + 1 - 1, n - 1 + 1)
    BY ONLY <2>1, BytesSub
  <2> QED BY <2>1, <2>2
<1>8. Bytes(w, l) # <<>>
  <2>1. Len(<<>>) = 0
    OBVIOUS
  <2> QED BY <1>3, <1>6, <2>1
<1>9. Len(Offer(k)) = b - a
  BY <1>3, <1>5, <1>6
<1>10. \A n \in 1 .. Len(Offer(k)) : SubSeq(Offer(k), 1, n) = Bytes(w, n)
  BY <1>5, <1>6, <1>7
<1> QED BY <1>5, <1>6, <1>8, <1>9, <1>10 DEF d, a, b

\* The bytes that wait are those made and not written.
LEMMA QueueOut ==
    ASSUME NEW k, NEW w, NEW m, OutOK(k, w, m)
    PROVE  Queue(k) = Bytes(w, m - w)
<1> DEFINE all == k.buf \o Joined(k.reply)
<1>1. k.sentlen \in Nat /\ w \in Nat /\ m \in Nat /\ w <= m
      /\ all = Bytes(w - k.sentlen, (m - w) + k.sentlen)
  BY DEF OutOK
<1>2. Queue(k) = SubSeq(all, k.sentlen + 1, Len(all))
  BY DEF Queue
<1> HIDE DEF all
<1>3. PICK a, j, l : /\ a = k.sentlen + 1 /\ j = w - k.sentlen /\ l = (m - w) + k.sentlen
                     /\ j \in Int /\ l \in Nat /\ a \in 1 .. l + 1 /\ l \in a - 1 .. l
                     /\ j + a - 1 = w /\ l - a + 1 = m - w
  <2>1. /\ w - k.sentlen \in Int /\ (m - w) + k.sentlen \in Nat
        /\ k.sentlen + 1 \in 1 .. ((m - w) + k.sentlen) + 1
        /\ (m - w) + k.sentlen \in (k.sentlen + 1) - 1 .. (m - w) + k.sentlen
        /\ (w - k.sentlen) + (k.sentlen + 1) - 1 = w
        /\ ((m - w) + k.sentlen) - (k.sentlen + 1) + 1 = m - w
    BY <1>1
  <2> QED BY <2>1
<1>4. SubSeq(Bytes(j, l), a, l) = Bytes(j + a - 1, l - a + 1)
  BY ONLY <1>3, BytesSub
<1>5. Len(Bytes(j, l)) = l
  BY <1>3, BytesSeq
<1> QED BY <1>1, <1>2, <1>3, <1>4, <1>5

\* writeToClient after a write of n bytes.
LEMMA AdvanceOut ==
    ASSUME NEW k, DOMAIN k = Fields, NEW w, NEW m, OutOK(k, w, m), HasPending(k),
           NEW n \in 1 .. Len(Offer(k))
    PROVE  /\ OutOK(Advance(k, n), w + n, m)
           /\ Advance(k, n).flags = k.flags
<1> DEFINE d == Source(k)
           a == k.sentlen
           b == Len(d)
           r == Advance(k, n)
           r1 == [k EXCEPT !.sentlen = @ + n]
           r2 == [k EXCEPT !.buf = <<>>, !.sentlen = 0]
           r3 == [k EXCEPT !.reply = Tail(@), !.sentlen = 0, !.bytes = @ - k.reply[1].size]
<1>1. /\ d \in Seq(Int) /\ b \in Nat /\ a \in Nat /\ w \in Nat /\ m \in Nat /\ a < b
      /\ d = Bytes(w - a, b) /\ b - a <= m - w
  BY SourceOut
<1>2. Len(Offer(k)) = b - a
  BY OfferOut
<1>3. n \in Nat /\ n >= 1 /\ n <= b - a /\ w + n \in Nat /\ w + n <= m
  BY <1>1, <1>2
<1>4. r = IF a + n # b THEN r1 ELSE IF k.buf # <<>> THEN r2 ELSE r3
  BY DEF Advance, Source
<1>5. /\ k.buf \in Seq(Int) /\ Len(k.buf) <= BufSize
      /\ k.reply \in Seq(Block) /\ k.bytes = ReplySize(k.reply)
      /\ k.buf \o Joined(k.reply) = Bytes(w - a, (m - w) + a)
  BY DEF OutOK
<1>6. /\ Joined(k.reply) \in Seq(Int)
      /\ Len(k.buf) \in Nat /\ Len(Joined(k.reply)) \in Nat
      /\ Joined(k.reply) = Bytes(w - a + Len(k.buf), Len(Joined(k.reply)))
      /\ (m - w) + a = Len(k.buf) + Len(Joined(k.reply))
  BY OutTypes
<1>7. CASE a + n # b
  <2>1. r = r1
    BY <1>4, <1>7
  <2> HIDE DEF d, b
  <2>2. /\ r1.buf = k.buf /\ r1.reply = k.reply /\ r1.bytes = k.bytes /\ r1.sentlen = a + n
        /\ r1.flags = k.flags
    BY DEF Fields
  <2> HIDE DEF r1, a
  <2>3. a + n \in Nat /\ a + n < b /\ (w + n) - (a + n) = w - a
        /\ (m - (w + n)) + (a + n) = (m - w) + a
    BY <1>1, <1>3, <1>7
  <2>4. Source(r1) = d /\ HasPending(r1)
    BY <2>2 DEF Source, HasPending, d
  <2>5. r1.buf \o Joined(r1.reply) = Bytes((w + n) - r1.sentlen, (m - (w + n)) + r1.sentlen)
    BY <1>5, <2>2, <2>3
  <2>6. OutOK(r1, w + n, m)
    BY <1>1, <1>3, <1>5, <2>2, <2>3, <2>4, <2>5 DEF OutOK, b
  <2> QED BY <2>1, <2>2, <2>6
<1>8. CASE a + n = b /\ k.buf # <<>>
  <2>1. r = r2
    BY <1>4, <1>8
  <2>2. d = k.buf
    BY <1>8 DEF Source
  <2>3. b = Len(k.buf)
    BY <2>2
  <2> HIDE DEF d, b
  <2>4. /\ r2.buf = <<>> /\ r2.reply = k.reply /\ r2.bytes = k.bytes /\ r2.sentlen = 0
        /\ r2.flags = k.flags
    BY DEF Fields
  <2> HIDE DEF r2, a
  <2>5. PICK l : /\ l = Len(Joined(k.reply)) /\ l \in Nat /\ w - a + Len(k.buf) = w + n
                 /\ l = m - (w + n) /\ (w + n) - 0 = w + n
                 /\ (m - (w + n)) + 0 = l
    <3>1. PICK l : l = Len(Joined(k.reply)) /\ l \in Nat /\ a \in Nat /\ w \in Nat /\ m \in Nat
                   /\ n \in Nat /\ a + n = b /\ b = Len(k.buf) /\ b \in Nat
                   /\ (m - w) + a = b + l
      BY <1>1, <1>3, <1>6, <1>8, <2>3
    <3>2. w - a + b = w + n /\ l = m - (w + n) /\ (w + n) - 0 = w + n
          /\ (m - (w + n)) + 0 = l
      <4>1. l \in Nat /\ a \in Nat /\ w \in Nat /\ m \in Nat /\ n \in Nat /\ b \in Nat
            /\ a + n = b /\ (m - w) + a = b + l
        BY <3>1
      <4> QED BY ONLY <4>1
    <3> QED BY <3>1, <3>2
  <2>6. Joined(k.reply) = Bytes(w + n, l)
    BY <1>6, <2>5
  <2>7. r2.buf \o Joined(r2.reply) = Joined(k.reply)
    BY <1>6, <2>4, Concat
  <2>8. r2.buf \o Joined(r2.reply) = Bytes((w + n) - r2.sentlen, (m - (w + n)) + r2.sentlen)
    BY <2>4, <2>5, <2>6, <2>7
  <2>9. HasPending(r2) => r2.sentlen < Len(Source(r2))
    <3>1. CASE k.reply # <<>>
      <4>1. Len(k.reply[1].data) \in 1 .. k.reply[1].size /\ k.reply[1].size \in Nat
        BY <1>5, <3>1, FirstBlock
      <4>2. Source(r2) = k.reply[1].data
        BY <2>4 DEF Source
      <4> QED BY <2>4, <4>1, <4>2
    <3>2. CASE k.reply = <<>>
      BY <2>4, <3>2 DEF HasPending
    <3> QED BY <3>1, <3>2
  <2>10. r2.buf \in Seq(Int) /\ Len(r2.buf) <= BufSize
    <3>1. BufSize \in Nat
      BY NetworkingAssumption
    <3> QED BY <2>4, <3>1
  <2>11. OutOK(r2, w + n, m)
    BY <1>1, <1>3, <1>5, <2>4, <2>8, <2>9, <2>10 DEF OutOK
  <2> QED BY <2>1, <2>4, <2>11
<1>9. CASE a + n = b /\ k.buf = <<>>
  <2>1. r = r3 /\ k.reply # <<>>
    BY <1>4, <1>9 DEF HasPending
  <2>2. d = k.reply[1].data /\ Len(k.buf) = 0
    BY <1>9 DEF Source
  <2> DEFINE R == k.reply
             t == Tail(R)
  <2>3. /\ t \in Seq(Block) /\ R[1].size \in Nat
        /\ ReplySize(t) \in Nat
        /\ Joined(t) \in Seq(Int)
        /\ ReplySize(R) = R[1].size + ReplySize(t)
        /\ Joined(R) = d \o Joined(t)
    BY <1>5, <2>1, <2>2, FirstBlock
  <2> HIDE DEF d, b
  <2>4. /\ r3.buf = <<>> /\ r3.reply = t /\ r3.bytes = k.bytes - R[1].size /\ r3.sentlen = 0
        /\ r3.flags = k.flags
    BY <1>9 DEF Fields
  <2> HIDE DEF r3, t, R, a
  <2>5. r3.bytes = ReplySize(t)
    <3>1. k.bytes = R[1].size + ReplySize(t)
      BY <1>5, <2>3 DEF R
    <3> QED BY <2>3, <2>4, <3>1
  <2>6. PICK j, l : /\ j = w - a /\ l = Len(Joined(R)) /\ j \in Int /\ l \in Nat /\ l = (m - w) + a
                    /\ w - a + Len(k.buf) = j
    BY <1>1, <1>6, <2>2 DEF R
  <2>7. Run(d, Joined(t), j, l)
    BY <1>6, <2>3, <2>6 DEF Run, R
  <2>8. Joined(t) = Bytes(j + Len(d), Len(Joined(t))) /\ l = Len(d) + Len(Joined(t))
    <3>1. d \in Seq(Int) /\ Joined(t) \in Seq(Int) /\ j \in Int /\ l \in Nat
      BY <1>1, <2>3, <2>6
    <3> QED BY ONLY <2>7, <3>1, BytesParts, Zenon
  <2>9. PICK i : i = Len(Joined(t)) /\ i \in Nat /\ j + Len(d) = w + n
                 /\ i = m - (w + n) /\ (w + n) - 0 = w + n
                 /\ (m - (w + n)) + 0 = i
    <3>1. Len(Joined(t)) \in Nat /\ Len(d) = b
      BY <2>3 DEF b
    <3>2. PICK i : i = Len(Joined(t)) /\ i \in Nat /\ a \in Nat /\ w \in Nat /\ m \in Nat
                   /\ n \in Nat /\ a + n = b /\ Len(d) = b /\ b \in Nat /\ j = w - a
                   /\ (m - w) + a = b + i
      BY <1>1, <1>3, <1>9, <2>6, <2>8, <3>1
    <3>3. j + Len(d) = w + n /\ i = m - (w + n) /\ (w + n) - 0 = w + n
          /\ (m - (w + n)) + 0 = i
      BY ONLY <3>2
    <3> QED BY <3>2, <3>3
  <2>10. r3.buf \o Joined(r3.reply) = Bytes((w + n) - r3.sentlen, (m - (w + n)) + r3.sentlen)
    <3>1. r3.buf \o Joined(r3.reply) = Joined(t)
      BY <2>3, <2>4, Concat
    <3> QED BY <2>4, <2>8, <2>9, <3>1
  <2>11. HasPending(r3) => r3.sentlen < Len(Source(r3))
    <3>1. CASE t # <<>>
      <4>1. Len(t[1].data) \in 1 .. t[1].size /\ t[1].size \in Nat
        BY <2>3, <3>1, FirstBlock
      <4>2. Source(r3) = t[1].data
        BY <2>4 DEF Source
      <4> QED BY <2>4, <4>1, <4>2
    <3>2. CASE t = <<>>
      BY <2>4, <3>2 DEF HasPending
    <3> QED BY <3>1, <3>2
  <2>12. r3.buf \in Seq(Int) /\ Len(r3.buf) <= BufSize
    <3>1. BufSize \in Nat
      BY NetworkingAssumption
    <3> QED BY <2>4, <3>1
  <2>13. OutOK(r3, w + n, m)
    BY <1>1, <1>3, <2>3, <2>4, <2>5, <2>10, <2>11, <2>12 DEF OutOK
  <2> QED BY <2>1, <2>4, <2>13
<1> QED BY <1>7, <1>8, <1>9

-----------------------------------------------------------------------------

\* The tokens of the commands.
Token == Kinds \cup {"*", "*0"}

\* The structure k of a client, with w written to its socket, t of it taken by
\* the peer, and m bytes of reply made.
ClientOK(k, w, t, m) ==
    /\ k.fd \in {"none", "open", "closed"}
    /\ k.flags \subseteq Flag
    /\ k.query \in Seq(Token)
    /\ k.writable \in BOOLEAN
    /\ k.fd = "open" \/ k = [NoClient EXCEPT !.fd = k.fd]
    /\ k.fd # "closed" => OutOK(k, Len(w), m)
    /\ w \in Seq(Int) /\ t \in Nat /\ m \in Nat
    /\ t <= Len(w) /\ Len(w) <= m

\* The write handler of k is there for data, or is at work if busy; then it is
\* sendReplyToClient if handler; and it is not there for a client that waits in
\* clients_pending_write.
HandlerOK(k, busy, handler) ==
    /\ k.writable => HasPending(k) \/ busy
    /\ "pending_write" \in k.flags => ~ k.writable /\ ~ busy
    /\ busy /\ k.writable => handler

\* The event loop.
LoopOK ==
    /\ at \in {"before", "events", "cron"}
    /\ paused \in {"no", "on", "over"}
    /\ fired \subseteq Client \X {"accept", "read", "write"}

\* What the peers do.
PeersOK ==
    /\ in \in [Client -> Seq(Token)]
    /\ todo \in [Client -> Seq(Kinds)]

\* The books of the sockets have one entry for each client.
History ==
    /\ wire = [c \in Client |-> wire[c]]
    /\ taken = [c \in Client |-> taken[c]]
    /\ made = [c \in Client |-> made[c]]

\* The inductive invariant: NetInv, and the output of every client is the bytes
\* that were made and not written.
BooksIInv ==
    /\ NetInv
    /\ LoopOK
    /\ PeersOK
    /\ History
    /\ \A c \in Client : ClientOK(cl[c], wire[c], taken[c], made[c])
    /\ \A c \in Client : HandlerOK(cl[c], Busy("write", c), Busy("write", c) /\ job.handler)

-----------------------------------------------------------------------------

\* The longest reply of one command.
MaxReply == 1 + 2 * (CHOOSE n \in Sizes : \A m \in Sizes : m <= n)

\* What a step shows of the replies: nothing, a reply made, some of it written,
\* a connection opened, or some closed.
Same == Open' = Open /\ UNCHANGED <<made, wire>>

\* A command made a reply for client c, which is not about to be closed.
Replied(c) ==
    /\ c \in Open /\ "close_after" \notin cl[c].flags
    /\ Open' = Open /\ UNCHANGED wire
    /\ \E n \in 1 .. MaxReply : made' = [made EXCEPT ![c] = @ + n]

\* The next bytes of the replies were written to the socket of c.
Written(c) ==
    /\ c \in Open
    /\ Open' = Open /\ UNCHANGED made
    /\ \E n \in 1 .. made[c] - Len(wire[c]) :
          wire' = [wire EXCEPT ![c] = @ \o Bytes(Len(wire[c]), n)]

\* Client c was accepted.
Opened(c) ==
    /\ Len(wire[c]) = made[c]
    /\ Open' = Open \cup {c} /\ UNCHANGED <<made, wire>>

\* Why client c may be closed with a last reply to send.
Excused(c) ==
    \/ Len(wire[c]) = made[c]
    \/ peer[c] = "gone"
    \/ "close_asap" \in cl[c].flags
    \/ Len(cl[c].query) + Len(in[c]) > QueryLimit

\* The clients in gone were freed.
Closed(gone) ==
    /\ \A c \in gone : "close_after" \in cl[c].flags => Excused(c)
    /\ Open' = Open \ gone /\ UNCHANGED <<made, wire>>

\* One of them.
Shown ==
    \/ Same
    \/ \E c \in Client : Replied(c) \/ Written(c) \/ Opened(c)
    \/ \E gone \in SUBSET Open : Closed(gone)

-----------------------------------------------------------------------------

\* The structure of a client that is not connected.
LEMMA NoClientOK ==
    ASSUME NEW fd \in {"none", "open", "closed"}
    PROVE  LET k == [NoClient EXCEPT !.fd = fd] IN
           /\ DOMAIN k = Fields /\ k.fd = fd /\ k.flags = {} /\ k.query = <<>>
           /\ k.writable = FALSE
           /\ ~ HasPending(k)
           /\ OutOK(k, 0, 0)
           /\ \A w \in Nat : OutOK(k, w, w)
<1> DEFINE k == [NoClient EXCEPT !.fd = fd]
<1>1. /\ DOMAIN k = Fields /\ k.fd = fd /\ k.flags = {} /\ k.query = <<>>
      /\ k.writable = FALSE /\ k.buf = <<>> /\ k.reply = <<>> /\ k.sentlen = 0 /\ k.bytes = 0
  BY DEF NoClient, Fields
<1> HIDE DEF k
<1>2. ~ HasPending(k)
  BY <1>1 DEF HasPending
<1>3. ASSUME NEW w \in Nat PROVE OutOK(k, w, w)
  <2>1. Joined(k.reply) = <<>> /\ ReplySize(k.reply) = 0
    BY <1>1, JoinedOne, ReplySizeOne
  <2>2. k.buf \o Joined(k.reply) = <<>>
    BY <1>1, <2>1, Concat
  <2>3. PICK a, b : a = w - k.sentlen /\ b = (w - w) + k.sentlen /\ b = 0 /\ a \in Int
    BY <1>1
  <2>4. Bytes(a, b) = <<>>
    BY <2>3, BytesSeq
  <2>5. BufSize \in Nat
    BY NetworkingAssumption
  <2> QED BY <1>1, <1>2, <2>1, <2>2, <2>3, <2>4, <2>5 DEF OutOK
<1> QED BY <1>1, <1>2, <1>3 DEF k

\* A client that has something to write has not written all.
LEMMA PendingOut ==
    ASSUME NEW k, NEW w, NEW m, OutOK(k, w, m), HasPending(k)
    PROVE  w < m
<1>1. /\ Len(Source(k)) \in Nat /\ k.sentlen \in Nat /\ w \in Nat /\ m \in Nat
      /\ k.sentlen < Len(Source(k))
      /\ Len(Source(k)) - k.sentlen <= m - w
  BY SourceOut
<1> QED BY <1>1

\* The invariant holds at first.
LEMMA InitBooks == Init => BooksIInv
<1> SUFFICES ASSUME Init PROVE BooksIInv
  OBVIOUS
<1>1. NetInv
  BY InitInv
<1>2. LoopOK /\ History
  BY DEF Init, LoopOK, History
<1>3. PeersOK
  BY NetworkingAssumption DEF Init, PeersOK
<1>4. ASSUME NEW c \in Client
      PROVE  ClientOK(cl[c], wire[c], taken[c], made[c])
             /\ HandlerOK(cl[c], Busy("write", c), Busy("write", c) /\ job.handler)
  <2>1. cl[c] = NoClient /\ wire[c] = <<>> /\ taken[c] = 0 /\ made[c] = 0
    BY DEF Init
  <2>2. NoClient = [NoClient EXCEPT !.fd = "none"]
    BY DEF NoClient
  <2> DEFINE k == NoClient
  <2>3. /\ k.fd = "none" /\ k.flags = {} /\ k.query = <<>> /\ k.writable = FALSE
        /\ ~ HasPending(k) /\ OutOK(k, 0, 0)
    BY <2>2, NoClientOK
  <2>4. k = [NoClient EXCEPT !.fd = k.fd]
    BY <2>2, <2>3
  <2> HIDE DEF k
  <2>5. Len(<<>>) = 0 /\ <<>> \in Seq(Int) /\ <<>> \in Seq(Token)
    OBVIOUS
  <2>6. ClientOK(k, <<>>, 0, 0)
    <3>1. k.fd \in {"none", "open", "closed"} /\ k.flags \subseteq Flag
          /\ k.query \in Seq(Token) /\ k.writable \in BOOLEAN
      BY <2>3, <2>5
    <3>2. OutOK(k, Len(<<>>), 0) /\ 0 <= Len(<<>>) /\ Len(<<>>) <= 0
      BY <2>3, <2>5
    <3> QED BY <2>4, <2>5, <3>1, <3>2 DEF ClientOK
  <2>7. HandlerOK(k, Busy("write", c), Busy("write", c) /\ job.handler)
    BY <2>3 DEF HandlerOK
  <2> QED BY <2>1, <2>6, <2>7 DEF k
<1> QED BY <1>1, <1>2, <1>3, <1>4 DEF BooksIInv

\* A step of the server for client c.
LEMMA OneBook ==
    ASSUME BooksIInv, NetInv', LoopOK', PeersOK', History', NEW c \in Client,
           \A d \in Client \ {c} :
               /\ cl'[d] = cl[d] /\ wire'[d] = wire[d] /\ taken'[d] = taken[d]
               /\ made'[d] = made[d] /\ ~ Busy("write", d) /\ ~ Busy("write", d)',
           ClientOK(cl'[c], wire'[c], taken'[c], made'[c]),
           HandlerOK(cl'[c], Busy("write", c)', Busy("write", c)' /\ job'.handler)
    PROVE  BooksIInv'
<1>1. ASSUME NEW d \in Client
      PROVE  /\ ClientOK(cl'[d], wire'[d], taken'[d], made'[d])
             /\ HandlerOK(cl'[d], Busy("write", d)', Busy("write", d)' /\ job'.handler)
  <2>1. CASE d = c
    BY <2>1
  <2>2. CASE d # c
    BY <2>2 DEF BooksIInv, HandlerOK
  <2> QED BY <2>1, <2>2
<1> QED BY <1>1 DEF BooksIInv

-----------------------------------------------------------------------------

\* r is what a turn of processInputBuffer makes of the client k that wrote w of
\* m bytes, of which there are then l.
Turn(k, r, w, m, l) ==
    /\ DOMAIN r = Fields /\ r.fd = "open" /\ r.writable = k.writable
    /\ r.query \in Seq(Token) /\ r.flags \subseteq Flag
    /\ "pending_write" \in r.flags => "pending_write" \in k.flags \/ ~ HasPending(k)
    /\ OutOK(r, w, l)
    /\ l \in Nat /\ m <= l

\* A turn of processInputBuffer.
LEMMA TurnBooks ==
    ASSUME BooksIInv, NetInv', NEW c \in Client, Busy("input", c), NEW r, NEW l,
           cl' = [cl EXCEPT ![c] = r], made' = [made EXCEPT ![c] = l],
           UNCHANGED <<at, job, fired, in, wire, taken, todo>>,
           paused' \in {"no", "on", "over"},
           Turn(cl[c], r, Len(wire[c]), made[c], l)
    PROVE  BooksIInv' /\ Open' = Open /\ c \in Open
<1>1. /\ cl = [d \in Client |-> cl[d]] /\ made = [d \in Client |-> made[d]]
      /\ cl[c].fd = "open"
      /\ \A d \in Client : ~ Busy("write", d)
  BY InputClient DEF BooksIInv, NetInv, Shape, History
<1>2. cl'[c] = r /\ made'[c] = l /\ \A d \in Client \ {c} : cl'[d] = cl[d] /\ made'[d] = made[d]
  BY <1>1
<1>3. \A d \in Client : ~ Busy("write", d)'
  BY <1>1 DEF Busy
<1>4. r.fd = "open"
  BY DEF Turn
<1>5. Open' = Open /\ c \in Open
  BY <1>1, <1>2, <1>4 DEF Open
<1>6. LoopOK' /\ PeersOK'
  BY DEF BooksIInv, LoopOK, PeersOK
<1>7. History'
  BY DEF BooksIInv, History
<1>8. ClientOK(cl[c], wire[c], taken[c], made[c])
      /\ HandlerOK(cl[c], Busy("write", c), Busy("write", c) /\ job.handler)
  BY DEF BooksIInv
<1>9. ClientOK(r, wire[c], taken[c], l)
  <2>1. Len(wire[c]) \in Nat /\ wire[c] \in Seq(Int) /\ taken[c] \in Nat /\ taken[c] <= Len(wire[c])
        /\ cl[c].writable \in BOOLEAN
    BY <1>8 DEF ClientOK
  <2>2. Len(wire[c]) <= l
    BY DEF Turn, OutOK
  <2> QED BY <2>1, <2>2 DEF Turn, ClientOK
<1>10. HandlerOK(r, FALSE, FALSE)
  <2>1. cl[c].writable => HasPending(cl[c])
    BY <1>1, <1>8 DEF HandlerOK
  <2>2. HasPending(cl[c]) => HasPending(r)
    <3>1. OutOK(cl[c], Len(wire[c]), made[c]) /\ OutOK(r, Len(wire[c]), l)
      BY <1>1, <1>8 DEF ClientOK, Turn
    <3>2. Len(wire[c]) \in Nat /\ made[c] \in Nat /\ l \in Nat /\ made[c] <= l
      BY <1>8 DEF ClientOK, Turn
    <3> DEFINE w == Len(wire[c])
               m == made[c]
    <3> HIDE DEF w, m
    <3>3. HasPending(cl[c]) => w < m
      BY <3>1, PendingOut DEF w, m
    <3>4. ~ HasPending(r) => w = l
      BY <3>1, OutEmpty DEF w
    <3>5. w \in Nat /\ m \in Nat /\ l \in Nat /\ m <= l
      BY <3>2 DEF w, m
    <3> QED BY <3>3, <3>4, <3>5
  <2>3. "pending_write" \in r.flags => ~ cl[c].writable
    BY <1>8, <2>1 DEF HandlerOK, Turn
  <2> QED BY <2>1, <2>2, <2>3 DEF HandlerOK, Turn
<1>11. HandlerOK(cl'[c], Busy("write", c)', Busy("write", c)' /\ job'.handler)
  BY <1>2, <1>3, <1>10 DEF HandlerOK
<1>12. BooksIInv'
  BY <1>1, <1>2, <1>3, <1>6, <1>7, <1>9, <1>11, OneBook
<1> QED BY <1>5, <1>12

\* k is the client h with tokens consumed, and maybe replies turned on or off.
Like(h, k) ==
    /\ DOMAIN k = Fields /\ k.fd = "open" /\ k.writable = h.writable
    /\ SameOutput(h, k)
    /\ k.query \in Seq(Token) /\ k.flags \subseteq Flag
    /\ "pending_write" \in k.flags <=> "pending_write" \in h.flags

\* r is client k with a reply of n bytes, unless it gets none.
Answered(k, r, w, m, n) ==
    /\ Kept(k, r)
    /\ Grown(k, r)
    /\ OutOK(r, w, IF Silent(k) THEN m ELSE m + n)

\* A turn that adds nothing to the output.
LEMMA LikeTurn ==
    ASSUME NEW h, NEW k, NEW w, NEW m, Like(h, k), OutOK(h, w, m)
    PROVE  OutOK(k, w, m) /\ Turn(h, k, w, m, m) /\ Turn(h, Reset(k), w, m, m)
<1>1. OutOK(k, w, m)
  BY OutFrame DEF Like
<1>2. Turn(h, k, w, m, m)
  BY <1>1 DEF Like, Turn, OutOK
<1>3. /\ DOMAIN Reset(k) = Fields /\ Reset(k).fd = k.fd /\ Reset(k).writable = k.writable
      /\ Reset(k).query = k.query /\ SameOutput(k, Reset(k))
  BY DEF Like, Reset, Fields, SameOutput
<1>4. /\ Reset(k).flags \subseteq k.flags \cup {"skip"}
      /\ "pending_write" \in Reset(k).flags => "pending_write" \in k.flags
  BY DEF Like, Reset, Fields
<1>5. Reset(k).flags \subseteq Flag
  BY <1>4 DEF Like, Flag
<1>6. OutOK(Reset(k), w, m)
  BY <1>1, <1>3, OutFrame
<1> QED BY <1>1, <1>2, <1>3, <1>4, <1>5, <1>6 DEF Like, Turn, OutOK

\* The reply, and then resetClient or the end of the connection.
LEMMA AnsweredTurn ==
    ASSUME NEW h, NEW k, NEW r, NEW w, NEW m, NEW n \in Nat, Like(h, k), OutOK(h, w, m),
           Answered(k, r, w, m, n)
    PROVE  LET l == IF Silent(k) THEN m ELSE m + n IN
           /\ Turn(h, Reset(r), w, m, l)
           /\ Turn(h, [r EXCEPT !.flags = @ \cup {"close_after"}], w, m, l)
<1> DEFINE l == IF Silent(k) THEN m ELSE m + n
           e == [r EXCEPT !.flags = @ \cup {"close_after"}]
<1>1. m \in Nat /\ l \in Nat /\ m <= l
  BY DEF OutOK
<1>2. OutOK(r, w, l)
  BY DEF Answered
<1> HIDE DEF l
<1>3. /\ DOMAIN r = Fields /\ r.fd = "open" /\ r.writable = h.writable
      /\ r.query \in Seq(Token)
  BY DEF Answered, Kept, Like
<1>4. HasPending(k) <=> HasPending(h)
  BY DEF Like, SameOutput, HasPending
<1>5. r.flags \subseteq Flag
  BY DEF Answered, Grown, Like, Flag
<1>6. "pending_write" \in r.flags => "pending_write" \in h.flags \/ ~ HasPending(h)
  BY <1>4 DEF Answered, Grown, Like
<1>7. Turn(h, e, w, m, l)
  <2>1. /\ DOMAIN e = Fields /\ e.fd = r.fd /\ e.writable = r.writable /\ e.query = r.query
        /\ SameOutput(r, e) /\ e.flags = r.flags \cup {"close_after"}
    BY <1>3 DEF Fields, SameOutput
  <2> HIDE DEF e
  <2>2. OutOK(e, w, l)
    BY <1>2, <2>1, OutFrame
  <2>3. e.flags \subseteq Flag
    BY <1>5, <2>1 DEF Flag
  <2> QED BY <1>1, <1>3, <1>6, <2>1, <2>2, <2>3 DEF Turn
<1>8. Turn(h, Reset(r), w, m, l)
  <2>1. /\ DOMAIN Reset(r) = Fields /\ Reset(r).fd = r.fd /\ Reset(r).writable = r.writable
        /\ Reset(r).query = r.query /\ SameOutput(r, Reset(r))
    BY <1>3 DEF Reset, Fields, SameOutput
  <2>2. /\ Reset(r).flags \subseteq r.flags \cup {"skip"}
        /\ "pending_write" \in Reset(r).flags => "pending_write" \in r.flags
    BY <1>3 DEF Reset, Fields
  <2>3. Reset(r).flags \subseteq Flag
    BY <1>5, <2>2 DEF Flag
  <2>4. OutOK(Reset(r), w, l)
    BY <1>2, <2>1, OutFrame
  <2> QED BY <1>1, <1>3, <1>6, <2>1, <2>2, <2>3, <2>4 DEF Turn
<1> QED BY <1>7, <1>8 DEF l

\* addReply and SMEMBERS answer.
LEMMA ReplyAnswers ==
    ASSUME NEW k, DOMAIN k = Fields, Safe(k), NEW w, NEW m, OutOK(k, w, m),
           "close_after" \notin k.flags, NEW n \in Nat \ {0}, NEW slack \in Nat
    PROVE  Answered(k, AddReply(k, Bytes(m, n), slack), w, m, n)
<1> DEFINE r == AddReply(k, Bytes(m, n), slack)
<1>1. Kept(k, r) /\ (Silent(k) => r = k)
  BY AddReplySafe
<1>2. CASE Silent(k)
  BY <1>1, <1>2 DEF Answered, Grown
<1>3. CASE ~ Silent(k)
  <2>1. OutOK(r, w, m + n) /\ Grown(k, r)
    BY <1>3, AddReplyOut
  <2> HIDE DEF r
  <2> QED BY <1>1, <1>3, <2>1 DEF Answered, r
<1> QED BY <1>2, <1>3

\* What SMEMBERS makes of client k, whose replies so far are i bytes.
MembersOf(k, i, n, m, slack) ==
    SetDeferred(AddReply(AddReply(AddDeferred(k), Bytes(i + 1, n), slack),
                         Bytes(i + 1 + n, m), slack),
                Len(AddDeferred(k).reply), Bytes(i, 1), slack)

\* SMEMBERS keeps what is not output.
LEMMA MembersKept ==
    ASSUME NEW k, DOMAIN k = Fields, Safe(k), NEW i, NEW n, NEW m, NEW slack
    PROVE  /\ Kept(k, MembersOf(k, i, n, m, slack))
           /\ Silent(k) => MembersOf(k, i, n, m, slack) = k
<1> DEFINE q == AddDeferred(k)
           one == AddReply(q, Bytes(i + 1, n), slack)
           two == AddReply(one, Bytes(i + 1 + n, m), slack)
           r == SetDeferred(two, Len(q.reply), Bytes(i, 1), slack)
<1>0. r = MembersOf(k, i, n, m, slack)
  BY DEF MembersOf
<1>1. CASE Silent(k)
  <2>1. q = k
    BY <1>1, AddDeferredSafe
  <2>2. one = k
    BY <1>1, <2>1, AddReplySafe
  <2>3. two = k
    BY <1>1, <2>2, AddReplySafe
  <2>4. r = k
    BY <1>1, <2>3, SetDeferredKeeps
  <2>5. Kept(k, k)
    BY DEF Kept
  <2> QED BY <1>0, <2>4, <2>5
<1>2. CASE ~ Silent(k)
  <2>1. Kept(k, q) /\ Watched(q)
    BY <1>2, AddDeferredSafe
  <2>2. Kept(q, one) /\ Watched(one)
    BY <2>1, AddReplySafe, KeptWatched DEF Safe, Kept
  <2>3. Kept(one, two)
    BY <2>2, AddReplySafe, KeptWatched DEF Safe, Kept
  <2>4. Kept(two, r)
    BY <2>3, SetDeferredKeeps DEF Kept
  <2> HIDE DEF q, one, two, r
  <2>5. Kept(k, r)
    BY <2>1, <2>2, <2>3, <2>4, KeptTrans
  <2> QED BY <1>0, <1>2, <2>5
<1> QED BY <1>1, <1>2

\* SMEMBERS answers with its length and its members.
LEMMA MembersAnswer ==
    ASSUME NEW k, DOMAIN k = Fields, Safe(k), NEW w, NEW i, OutOK(k, w, i),
           "close_after" \notin k.flags, NEW n \in Nat \ {0}, NEW m \in Nat \ {0},
           NEW slack \in Nat
    PROVE  Answered(k, MembersOf(k, i, n, m, slack), w, i, 1 + n + m)
<1> DEFINE r == MembersOf(k, i, n, m, slack)
<1>1. Kept(k, r) /\ (Silent(k) => r = k)
  BY MembersKept
<1>2. CASE Silent(k)
  BY <1>1, <1>2 DEF Answered, Grown
<1>3. CASE ~ Silent(k)
  <2>1. OutOK(r, w, i + (1 + n + m)) /\ Grown(k, r)
    BY <1>3, SmembersOut DEF MembersOf
  <2> HIDE DEF r
  <2> QED BY <1>1, <1>3, <2>1 DEF Answered, r
<1> QED BY <1>2, <1>3

-----------------------------------------------------------------------------

\* No command makes a reply longer than MaxReply.
LEMMA LongestReply ==
    /\ \A n \in Sizes : n \in Nat \ {0} /\ n \in 1 .. MaxReply
    /\ \A n, m \in Sizes : 1 + n + m \in 1 .. MaxReply /\ 1 + n + m \in Nat
    /\ 1 \in 1 .. MaxReply
<1> DEFINE x == CHOOSE n \in Sizes : \A m \in Sizes : m <= n
<1>1. x \in Sizes /\ \A m \in Sizes : m <= x
  BY NetworkingAssumption
<1>2. \A n \in Sizes : n \in Nat \ {0}
  BY NetworkingAssumption
<1>3. MaxReply = 1 + 2 * x
  BY DEF MaxReply
<1> HIDE DEF x
<1>4. x \in Nat /\ x # 0
  BY <1>1, <1>2
<1>5. ASSUME NEW n \in Sizes PROVE n \in Nat \ {0} /\ n \in 1 .. MaxReply
  BY <1>1, <1>2, <1>3, <1>4
<1>6. ASSUME NEW n \in Sizes, NEW m \in Sizes
      PROVE  1 + n + m \in 1 .. MaxReply /\ 1 + n + m \in Nat
  <2>1. n \in Nat /\ m \in Nat /\ n <= x /\ m <= x
    BY <1>1, <1>2
  <2> QED BY <1>3, <1>4, <2>1
<1>7. 1 \in 1 .. MaxReply
  BY <1>3, <1>4
<1> QED BY <1>5, <1>6, <1>7

\* A turn of processInputBuffer that makes no reply.
LEMMA QuietStep ==
    ASSUME BooksIInv, NetInv', NEW c \in Client, Busy("input", c), NEW r,
           cl' = [cl EXCEPT ![c] = r],
           UNCHANGED <<at, job, fired, made, in, wire, taken, todo>>,
           paused' \in {"no", "on", "over"},
           Turn(cl[c], r, Len(wire[c]), made[c], made[c])
    PROVE  BooksIInv' /\ Shown
<1>1. made' = [made EXCEPT ![c] = made[c]]
  BY DEF BooksIInv, History
<1> DEFINE l == made[c]
<1>2. made' = [made EXCEPT ![c] = l] /\ Turn(cl[c], r, Len(wire[c]), made[c], l)
  BY <1>1
<1> HIDE DEF l
<1>3. BooksIInv' /\ Open' = Open
  BY <1>2, TurnBooks
<1> QED BY <1>3 DEF Shown, Same

\* A turn that makes a reply of n bytes.
LEMMA ReplyStep ==
    ASSUME BooksIInv, NetInv', NEW c \in Client, Busy("input", c), NEW r,
           NEW n \in 1 .. MaxReply, "close_after" \notin cl[c].flags,
           cl' = [cl EXCEPT ![c] = r], made' = [made EXCEPT ![c] = @ + n],
           UNCHANGED <<at, job, fired, in, wire, taken, todo>>,
           paused' \in {"no", "on", "over"},
           Turn(cl[c], r, Len(wire[c]), made[c], made[c] + n)
    PROVE  BooksIInv' /\ Shown
<1> DEFINE l == made[c] + n
<1>1. made' = [made EXCEPT ![c] = l] /\ Turn(cl[c], r, Len(wire[c]), made[c], l)
  OBVIOUS
<1> HIDE DEF l
<1>2. BooksIInv' /\ Open' = Open /\ c \in Open
  BY <1>1, TurnBooks
<1> QED BY <1>2 DEF Shown, Replied

\* A turn that runs a command.
LEMMA AnswerStep ==
    ASSUME BooksIInv, NetInv', NEW c \in Client, Busy("input", c), NEW r,
           NEW n \in 1 .. MaxReply, "close_after" \notin cl[c].flags,
           Answers(c, r, n), paused' \in {"no", "on", "over"},
           Turn(cl[c], r, Len(wire[c]), made[c],
                IF Silent(cl[c]) THEN made[c] ELSE made[c] + n)
    PROVE  BooksIInv' /\ Shown
<1>1. cl' = [cl EXCEPT ![c] = r] /\ UNCHANGED <<at, job, fired, in, wire, taken, todo>>
  BY DEF Answers
<1>2. CASE Silent(cl[c])
  <2>1. made' = [made EXCEPT ![c] = made[c]]
    BY <1>2 DEF Answers
  <2>2. UNCHANGED made
    BY <2>1 DEF BooksIInv, History
  <2>3. Turn(cl[c], r, Len(wire[c]), made[c], made[c])
    BY <1>2
  <2> QED BY <1>1, <2>2, <2>3, QuietStep
<1>3. CASE ~ Silent(cl[c])
  <2>1. made' = [made EXCEPT ![c] = @ + n]
    BY <1>3 DEF Answers
  <2>2. Turn(cl[c], r, Len(wire[c]), made[c], made[c] + n)
    BY <1>3
  <2> QED BY <1>1, <2>1, <2>2, ReplyStep
<1> QED BY <1>2, <1>3

\* Clients freed, and those that are left maybe put into unblocked_clients.
LEMMA ResumeBooks ==
    ASSUME BooksIInv, NetInv', LoopOK', NEW gone \in SUBSET Client,
           cl' = Resume(FreeClients(gone)) \/ cl' = FreeClients(gone),
           UNCHANGED <<job, made, in, wire, taken, todo>>,
           \A d \in gone : ~ Busy("write", d)
    PROVE  BooksIInv' /\ Open' = Open \ gone
<1> DEFINE f == [NoClient EXCEPT !.fd = "closed"]
           u(d) == [cl[d] EXCEPT !.flags = @ \cup {"unblocked"}]
<1>1. /\ DOMAIN f = Fields /\ f.fd = "closed" /\ f.flags = {} /\ f.query = <<>>
      /\ f.writable = FALSE /\ ~ HasPending(f)
  BY NoClientOK
<1>2. ASSUME NEW d \in Client
      PROVE  IF d \in gone THEN cl'[d] = f
             ELSE cl'[d] = cl[d] \/ (cl[d].fd = "open" /\ cl'[d] = u(d))
  BY <1>1 DEF Resume, FreeClients
<1>3. \A d \in Client : DOMAIN cl[d] = Fields
  BY DEF BooksIInv, NetInv, Shape
<1>4. ASSUME NEW d \in Client, cl[d].fd = "open"
      PROVE  /\ u(d).fd = "open" /\ u(d).query = cl[d].query /\ u(d).writable = cl[d].writable
             /\ u(d).flags = cl[d].flags \cup {"unblocked"} /\ SameOutput(cl[d], u(d))
  BY <1>3, <1>4 DEF Fields, SameOutput
<1>5. f = [NoClient EXCEPT !.fd = f.fd]
  BY <1>1
<1> HIDE DEF f, u
<1>6. ASSUME NEW d \in Client
      PROVE  /\ ClientOK(cl[d], wire[d], taken[d], made[d])
             /\ HandlerOK(cl[d], Busy("write", d), Busy("write", d) /\ job.handler)
  BY DEF BooksIInv
<1>7. ASSUME NEW d \in Client
      PROVE  /\ ClientOK(cl'[d], wire'[d], taken'[d], made'[d])
             /\ HandlerOK(cl'[d], Busy("write", d)', Busy("write", d)' /\ job'.handler)
  <2>1. CASE d \in gone
    <3>1. cl'[d] = f /\ ~ Busy("write", d)'
      BY <1>2, <2>1 DEF Busy
    <3>2. ClientOK(f, wire[d], taken[d], made[d])
      <4>1. <<>> \in Seq(Token)
        OBVIOUS
      <4> QED BY <1>1, <1>5, <1>6, <4>1 DEF ClientOK
    <3>3. HandlerOK(f, Busy("write", d)', Busy("write", d)' /\ job'.handler)
      BY <1>1 DEF HandlerOK
    <3> QED BY <3>1, <3>2, <3>3
  <2>2. CASE d \notin gone /\ cl'[d] = cl[d]
    BY <1>6, <2>2 DEF Busy
  <2>3. CASE d \notin gone /\ cl[d].fd = "open" /\ cl'[d] = u(d)
    <3>1. OutOK(u(d), Len(wire[d]), made[d])
      BY <1>4, <1>6, <2>3, OutFrame DEF ClientOK
    <3>2. ClientOK(u(d), wire[d], taken[d], made[d])
      BY <1>4, <1>6, <2>3, <3>1 DEF ClientOK, Flag
    <3>3. HasPending(u(d)) <=> HasPending(cl[d])
      BY <1>4, <2>3 DEF SameOutput, HasPending
    <3>4. HandlerOK(u(d), Busy("write", d), Busy("write", d) /\ job.handler)
      BY <1>4, <1>6, <2>3, <3>3 DEF HandlerOK
    <3> QED BY <2>3, <3>2, <3>4 DEF Busy
  <2> QED BY <1>2, <2>1, <2>2, <2>3
<1>8. Open' = Open \ gone
  BY <1>1, <1>2, <1>4 DEF Open
<1>9. PeersOK' /\ History'
  BY DEF BooksIInv, PeersOK, History
<1> QED BY <1>7, <1>8, <1>9 DEF BooksIInv

\* processInputBuffer.
LEMMA InputBooks ==
    ASSUME BooksIInv, NetInv', NEW c \in Client, Input(c)
    PROVE  BooksIInv' /\ Shown
<1> DEFINE h == cl[c]
           k == Consume(c)
           w == Len(wire[c])
           m == made[c]
<1>b. Busy("input", c)
  BY DEF Input, InputEnd, InputResume, Header, EmptyCommand, ProtocolError, Quit, Call,
         Smembers, Pause, ReplyOn, ReplyOff, ReplySkip, Parses
<1>n. NetInv
  BY DEF BooksIInv
<1>c. DOMAIN h = Fields /\ h.fd = "open" /\ Safe(h)
  BY <1>b, <1>n, InputClient
<1>o. OutOK(h, w, m) /\ h.flags \subseteq Flag /\ h.query \in Seq(Token) /\ m \in Nat
  BY <1>c DEF BooksIInv, ClientOK
<1>k. DOMAIN k = Fields /\ k.fd = "open" /\ k.flags = h.flags /\ Safe(k)
  BY <1>b, <1>n, ConsumeSafe
<1>l. ASSUME paused = "no", ~ Stops(c)
      PROVE  Like(h, k) /\ OutOK(k, w, m) /\ "close_after" \notin h.flags
  <2>1. h.query # <<>> /\ "close_after" \notin h.flags
    BY <1>l DEF Stops
  <2>2. Tail(h.query) \in Seq(Token)
    BY <1>o, <2>1
  <2>3. k.writable = h.writable /\ SameOutput(h, k) /\ k.query = Tail(h.query)
    BY <1>c DEF Consume, Fields, SameOutput
  <2> HIDE DEF h, k
  <2>4. Like(h, k)
    BY <1>k, <1>o, <2>2, <2>3 DEF Like
  <2> QED BY <1>o, <2>1, <2>4, LikeTurn
<1>h. Like(h, h)
  BY <1>c, <1>o DEF Like, SameOutput
<1>z. \A n \in Sizes : n \in Nat \ {0} /\ n \in 1 .. MaxReply
  BY LongestReply
<1>s. \A slack \in Slack : slack \in Nat
  BY NetworkingAssumption
<1>1. CASE InputEnd(c)
  <2>1. cl' = cl /\ job' = NoJob /\ UNCHANGED <<at, fired, paused, made, in, wire, taken, todo>>
    BY <1>1 DEF InputEnd
  <2>2. \A d \in Client : ~ Busy("write", d)
    BY <1>b, <1>n, InputClient
  <2>3. \A d \in Client : ~ Busy("write", d)'
    BY <2>1 DEF Busy, NoJob
  <2>4. Open' = Open
    BY <2>1 DEF Open
  <2>5. LoopOK' /\ PeersOK' /\ History'
    BY <2>1 DEF BooksIInv, LoopOK, PeersOK, History
  <2>6. BooksIInv'
    BY <2>1, <2>2, <2>3, <2>5 DEF BooksIInv, HandlerOK
  <2> QED BY <2>1, <2>4, <2>6 DEF Shown, Same
<1>2. CASE InputResume(c)
  <2>1. cl' = Resume(cl) /\ paused' = "no"
        /\ UNCHANGED <<at, job, fired, made, in, wire, taken, todo>>
    BY <1>2 DEF InputResume
  <2>2. FreeClients({}) = cl
    BY <1>n DEF FreeClients, NetInv, Shape
  <2>3. LoopOK'
    BY <2>1 DEF BooksIInv, LoopOK
  <2> DEFINE gone == {}
  <2>4. gone \in SUBSET Client /\ cl' = Resume(FreeClients(gone))
        /\ \A d \in gone : ~ Busy("write", d)
    BY <2>1, <2>2
  <2> HIDE DEF gone
  <2>5. BooksIInv' /\ Open' = Open \ gone
    BY <2>1, <2>3, <2>4, ResumeBooks
  <2> QED BY <2>1, <2>5 DEF Shown, Same, gone
<1>3. CASE Header(c)
  <2> DEFINE r == [k EXCEPT !.multibulk = TRUE]
  <2>1. cl' = [cl EXCEPT ![c] = r]
        /\ UNCHANGED <<at, job, fired, paused, made, in, wire, taken, todo>>
        /\ paused = "no" /\ ~ Stops(c)
    BY <1>3 DEF Header, Parses
  <2>2. Like(h, k)
    BY <1>l, <2>1
  <2> HIDE DEF k
  <2>3. Like(h, r)
    BY <2>2 DEF Like, Fields, SameOutput
  <2> HIDE DEF h, r
  <2>4. Turn(h, r, w, m, m)
    BY <1>o, <2>3, LikeTurn
  <2> QED BY <1>b, <2>1, <2>4, QuietStep DEF h
<1>4. CASE EmptyCommand(c)
  <2>1. cl' = [cl EXCEPT ![c] = Reset(k)]
        /\ UNCHANGED <<at, job, fired, paused, made, in, wire, taken, todo>>
        /\ paused = "no" /\ ~ Stops(c)
    BY <1>4 DEF EmptyCommand, Parses
  <2> HIDE DEF h, k
  <2>2. Turn(h, Reset(k), w, m, m)
    BY <1>l, <1>o, <2>1, LikeTurn
  <2> QED BY <1>b, <2>1, <2>2, QuietStep DEF h
<1>5. CASE ProtocolError(c)
  <2>1. PICK n \in Sizes, slack \in Slack :
          Answers(c, [AddReply(h, Bytes(m, n), slack)
                        EXCEPT !.flags = @ \cup {"close_after"}], n)
    BY <1>5 DEF ProtocolError
  <2>2. paused = "no" /\ ~ Stops(c) /\ UNCHANGED paused
    BY <1>5 DEF ProtocolError, Parses
  <2> DEFINE a == AddReply(h, Bytes(m, n), slack)
             r == [a EXCEPT !.flags = @ \cup {"close_after"}]
  <2>3. n \in Nat \ {0} /\ n \in Nat /\ n \in 1 .. MaxReply /\ slack \in Nat /\ "close_after" \notin h.flags
    BY <1>l, <1>s, <1>z, <2>2
  <2>4. Answered(h, a, w, m, n)
    <3> HIDE DEF h
    <3> QED BY <1>c, <1>o, <2>3, ReplyAnswers
  <2> HIDE DEF h, a
  <2>5. Turn(h, r, w, m, IF Silent(h) THEN m ELSE m + n)
    BY <1>h, <1>o, <2>3, <2>4, AnsweredTurn
  <2> HIDE DEF r
  <2>6. Answers(c, r, n)
    BY <2>1 DEF a, r
  <2> QED BY <1>b, <2>2, <2>3, <2>5, <2>6, AnswerStep DEF h
<1>6. CASE Quit(c)
  <2>1. PICK slack \in Slack :
          Answers(c, [AddReply(k, Bytes(m, 1), slack)
                        EXCEPT !.flags = @ \cup {"close_after"}], 1)
    BY <1>6 DEF Quit
  <2>2. paused = "no" /\ ~ Stops(c) /\ UNCHANGED paused
    BY <1>6 DEF Quit, Parses
  <2> DEFINE n == 1
             a == AddReply(k, Bytes(m, n), slack)
             r == [a EXCEPT !.flags = @ \cup {"close_after"}]
  <2>3. n \in Nat \ {0} /\ n \in Nat /\ n \in 1 .. MaxReply /\ slack \in Nat /\ "close_after" \notin h.flags
        /\ Like(h, k) /\ OutOK(k, w, m)
    BY <1>l, <1>s, <2>2, LongestReply
  <2> HIDE DEF h, k, n
  <2>4. Answered(k, a, w, m, n)
    BY <1>k, <2>3, ReplyAnswers
  <2>5. Silent(k) <=> Silent(h)
    BY <1>k DEF Silent
  <2> HIDE DEF a
  <2>6. Turn(h, r, w, m, IF Silent(k) THEN m ELSE m + n)
    BY <1>o, <2>3, <2>4, AnsweredTurn
  <2>7. Turn(h, r, w, m, IF Silent(h) THEN m ELSE m + n)
    BY <2>5, <2>6
  <2> HIDE DEF r
  <2>8. Answers(c, r, n)
    BY <2>1 DEF a, r, n
  <2> QED BY <1>b, <2>2, <2>3, <2>7, <2>8, AnswerStep DEF h
<1>7. CASE Call(c)
  <2>1. PICK n \in Sizes, slack \in Slack : Answers(c, Reset(AddReply(k, Bytes(m, n), slack)), n)
    BY <1>7 DEF Call
  <2>2. paused = "no" /\ ~ Stops(c) /\ UNCHANGED paused
    BY <1>7 DEF Call, Parses
  <2> DEFINE a == AddReply(k, Bytes(m, n), slack)
             r == Reset(a)
  <2>3. n \in Nat \ {0} /\ n \in Nat /\ n \in 1 .. MaxReply /\ slack \in Nat /\ "close_after" \notin h.flags
        /\ Like(h, k) /\ OutOK(k, w, m)
    BY <1>l, <1>s, <1>z, <2>2
  <2> HIDE DEF h, k
  <2>4. Answered(k, a, w, m, n)
    BY <1>k, <2>3, ReplyAnswers
  <2>5. Silent(k) <=> Silent(h)
    BY <1>k DEF Silent
  <2> HIDE DEF a
  <2>6. Turn(h, r, w, m, IF Silent(k) THEN m ELSE m + n)
    BY <1>o, <2>3, <2>4, AnsweredTurn
  <2>7. Turn(h, r, w, m, IF Silent(h) THEN m ELSE m + n)
    BY <2>5, <2>6
  <2> HIDE DEF r
  <2>8. Answers(c, r, n)
    BY <2>1 DEF a, r
  <2> QED BY <1>b, <2>2, <2>3, <2>7, <2>8, AnswerStep DEF h
<1>8. CASE Smembers(c)
  <2>1. PICK i \in Sizes, j \in Sizes, slack \in Slack :
          Answers(c, Reset(MembersOf(k, m, i, j, slack)), 1 + i + j)
    BY <1>8 DEF Smembers, MembersOf
  <2>2. paused = "no" /\ ~ Stops(c) /\ UNCHANGED paused
    BY <1>8 DEF Smembers, Parses
  <2> DEFINE n == 1 + i + j
             a == MembersOf(k, m, i, j, slack)
             r == Reset(a)
  <2>3. i \in Nat \ {0} /\ j \in Nat \ {0} /\ n \in Nat /\ n \in 1 .. MaxReply /\ slack \in Nat
        /\ "close_after" \notin h.flags /\ Like(h, k) /\ OutOK(k, w, m)
    BY <1>l, <1>s, <1>z, <2>2, LongestReply
  <2> HIDE DEF h, k
  <2>4. Answered(k, a, w, m, n)
    BY <1>k, <2>3, MembersAnswer
  <2>5. Silent(k) <=> Silent(h)
    BY <1>k DEF Silent
  <2> HIDE DEF a, n
  <2>6. Turn(h, r, w, m, IF Silent(k) THEN m ELSE m + n)
    BY <1>o, <2>3, <2>4, AnsweredTurn
  <2>7. Turn(h, r, w, m, IF Silent(h) THEN m ELSE m + n)
    BY <2>5, <2>6
  <2> HIDE DEF r
  <2>8. Answers(c, r, n)
    BY <2>1 DEF a, r, n
  <2> QED BY <1>b, <2>2, <2>3, <2>7, <2>8, AnswerStep DEF h
<1>9. CASE Pause(c)
  <2>1. PICK slack \in Slack : Answers(c, Reset(AddReply(k, Bytes(m, 1), slack)), 1)
    BY <1>9 DEF Pause
  <2>2. paused = "no" /\ ~ Stops(c) /\ paused' \in {"no", "on", "over"}
    BY <1>9 DEF Pause, Parses
  <2> DEFINE n == 1
             a == AddReply(k, Bytes(m, n), slack)
             r == Reset(a)
  <2>3. n \in Nat \ {0} /\ n \in Nat /\ n \in 1 .. MaxReply /\ slack \in Nat /\ "close_after" \notin h.flags
        /\ Like(h, k) /\ OutOK(k, w, m)
    BY <1>l, <1>s, <2>2, LongestReply
  <2> HIDE DEF h, k, n
  <2>4. Answered(k, a, w, m, n)
    BY <1>k, <2>3, ReplyAnswers
  <2>5. Silent(k) <=> Silent(h)
    BY <1>k DEF Silent
  <2> HIDE DEF a
  <2>6. Turn(h, r, w, m, IF Silent(k) THEN m ELSE m + n)
    BY <1>o, <2>3, <2>4, AnsweredTurn
  <2>7. Turn(h, r, w, m, IF Silent(h) THEN m ELSE m + n)
    BY <2>5, <2>6
  <2> HIDE DEF r
  <2>8. Answers(c, r, n)
    BY <2>1 DEF a, r, n
  <2> QED BY <1>b, <2>2, <2>3, <2>7, <2>8, AnswerStep DEF h
<1>10. CASE ReplyOn(c)
  <2> DEFINE o == [k EXCEPT !.flags = @ \ {"off", "skip"}]
             n == 1
  <2>1. PICK slack \in Slack :
            /\ cl' = [cl EXCEPT ![c] = Reset(AddReply(o, Bytes(m, n), slack))]
            /\ made' = [made EXCEPT ![c] = @ + n]
    BY <1>10 DEF ReplyOn
  <2>2. paused = "no" /\ ~ Stops(c) /\ UNCHANGED <<at, job, fired, paused, in, wire, taken, todo>>
    BY <1>10 DEF ReplyOn, Parses
  <2>3. n \in Nat \ {0} /\ n \in Nat /\ n \in 1 .. MaxReply /\ slack \in Nat /\ "close_after" \notin h.flags
        /\ Like(h, k)
    BY <1>l, <1>s, <2>2, LongestReply
  <2> HIDE DEF k
  <2>4. DOMAIN o = Fields /\ o.flags = k.flags \ {"off", "skip"} /\ Safe(o)
    BY <1>k DEF Fields, Safe, HasPending, Watched
  <2>5. Like(h, o)
    BY <1>k, <2>3 DEF Like, Fields, SameOutput
  <2>6. ~ Silent(o) /\ "close_after" \notin o.flags
    BY <1>k, <2>3, <2>4 DEF Silent
  <2> HIDE DEF h, o, n
  <2>7. OutOK(o, w, m)
    BY <1>o, <2>5, LikeTurn
  <2> DEFINE a == AddReply(o, Bytes(m, n), slack)
             r == Reset(a)
  <2>8. Answered(o, a, w, m, n)
    BY <2>3, <2>4, <2>6, <2>7, ReplyAnswers
  <2>a. cl' = [cl EXCEPT ![c] = r]
    BY <2>1
  <2> HIDE DEF a
  <2>9. Turn(h, r, w, m, IF Silent(o) THEN m ELSE m + n)
    BY <1>o, <2>3, <2>5, <2>8, AnsweredTurn
  <2>10. Turn(h, r, w, m, m + n)
    BY <2>6, <2>9
  <2> HIDE DEF r
  <2> QED BY <1>b, <2>1, <2>2, <2>3, <2>10, <2>a, ReplyStep DEF h
<1>11. CASE ReplyOff(c)
  <2> DEFINE o == [k EXCEPT !.flags = @ \cup {"off"}]
  <2>1. cl' = [cl EXCEPT ![c] = Reset(o)]
        /\ UNCHANGED <<at, job, fired, paused, made, in, wire, taken, todo>>
        /\ paused = "no" /\ ~ Stops(c)
    BY <1>11 DEF ReplyOff, Parses
  <2>2. Like(h, k)
    BY <1>l, <2>1
  <2> HIDE DEF k
  <2>3. Like(h, o)
    BY <2>2 DEF Like, Fields, SameOutput, Flag
  <2> HIDE DEF h, o
  <2>4. Turn(h, Reset(o), w, m, m)
    BY <1>o, <2>3, LikeTurn
  <2> QED BY <1>b, <2>1, <2>4, QuietStep DEF h
<1>12. CASE ReplySkip(c)
  <2> DEFINE o == [k EXCEPT !.flags = @ \cup {"skip_next"}]
             p == IF "off" \in cl[c].flags THEN k ELSE o
  <2>1. cl' = [cl EXCEPT ![c] = Reset(p)]
        /\ UNCHANGED <<at, job, fired, paused, made, in, wire, taken, todo>>
        /\ paused = "no" /\ ~ Stops(c)
    BY <1>12 DEF ReplySkip, Parses
  <2>2. Like(h, k)
    BY <1>l, <2>1
  <2> HIDE DEF k
  <2>3. Like(h, o)
    BY <2>2 DEF Like, Fields, SameOutput, Flag
  <2>4. Like(h, p)
    BY <2>2, <2>3
  <2> HIDE DEF h, p
  <2>5. Turn(h, Reset(p), w, m, m)
    BY <1>o, <2>4, LikeTurn
  <2> QED BY <1>b, <2>1, <2>5, QuietStep DEF h
<1> QED
  BY <1>1, <1>2, <1>3, <1>4, <1>5, <1>6, <1>7, <1>8, <1>9, <1>10, <1>11, <1>12 DEF Input

-----------------------------------------------------------------------------

\* freeClient of client c.
LEMMA FreeBook ==
    ASSUME BooksIInv, NetInv', LoopOK', PeersOK', NEW c \in Client, cl' = FreeClients({c}),
           UNCHANGED <<made, wire, taken>>, job' = NoJob,
           \A d \in Client \ {c} : ~ Busy("write", d)
    PROVE  BooksIInv' /\ Open' = Open \ {c}
<1> DEFINE f == [NoClient EXCEPT !.fd = "closed"]
<1>1. /\ DOMAIN f = Fields /\ f.fd = "closed" /\ f.flags = {} /\ f.query = <<>>
      /\ f.writable = FALSE /\ ~ HasPending(f)
  BY NoClientOK
<1>2. f = [NoClient EXCEPT !.fd = f.fd]
  BY <1>1
<1>3. cl'[c] = f /\ \A d \in Client \ {c} : cl'[d] = cl[d]
  BY DEF FreeClients
<1> HIDE DEF f
<1>4. \A d \in Client : ~ Busy("write", d)'
  BY DEF Busy, NoJob
<1>5. ClientOK(f, wire[c], taken[c], made[c])
  <2>1. ClientOK(cl[c], wire[c], taken[c], made[c])
    BY DEF BooksIInv
  <2>2. <<>> \in Seq(Token)
    OBVIOUS
  <2> QED BY <1>1, <1>2, <2>1, <2>2 DEF ClientOK
<1>6. HandlerOK(f, FALSE, FALSE)
  BY <1>1 DEF HandlerOK
<1>7. HandlerOK(cl'[c], Busy("write", c)', Busy("write", c)' /\ job'.handler)
  BY <1>3, <1>4, <1>6 DEF HandlerOK
<1>8. History'
  BY DEF BooksIInv, History
<1>9. BooksIInv'
  BY <1>3, <1>4, <1>5, <1>7, <1>8, OneBook
<1>10. Open' = Open \ {c}
  BY <1>1, <1>3 DEF Open
<1> QED BY <1>9, <1>10

\* One client freed shows as a connection closed.
LEMMA FreeShown ==
    ASSUME NEW c \in Open, Excused(c), Open' = Open \ {c}, UNCHANGED <<made, wire>>
    PROVE  Shown
<1>1. {c} \in SUBSET Open /\ Closed({c})
  BY DEF Closed
<1> QED BY <1>1 DEF Shown

\* writeToClient.
LEMMA OutputBooks ==
    ASSUME BooksIInv, NetInv', NEW c \in Client, Output(c)
    PROVE  BooksIInv' /\ Shown
<1> DEFINE h == cl[c]
           w == Len(wire[c])
           m == made[c]
<1>b. Busy("write", c)
  BY DEF Output, Write, WriteAll, WriteRest, WriteError
<1>n. NetInv
  BY DEF BooksIInv
<1>c. /\ DOMAIN h = Fields
      /\ h.fd = "open"
      /\ c \in Open
      /\ job = [op |-> "write", c |-> c, handler |-> job.handler, tot |-> job.tot]
      /\ job.handler \in BOOLEAN
      /\ \A d \in Client \ {c} : ~ Busy("write", d)
  BY <1>b, <1>n, WriteClient DEF Open
<1>u. UNCHANGED <<at, fired, paused, made, in, taken, todo>>
  BY DEF Output, Write, WriteAll, WriteRest, WriteError
<1>l. LoopOK' /\ PeersOK'
  BY <1>u DEF BooksIInv, LoopOK, PeersOK
<1>f. cl = [d \in Client |-> cl[d]] /\ wire = [d \in Client |-> wire[d]]
  BY <1>n DEF NetInv, Shape, BooksIInv, History
<1>k. ClientOK(h, wire[c], taken[c], m)
  BY DEF BooksIInv
<1>o. OutOK(h, w, m) /\ h.flags \subseteq Flag /\ h.query \in Seq(Token) /\ m \in Nat
      /\ h.writable \in BOOLEAN /\ wire[c] \in Seq(Int) /\ taken[c] \in Nat /\ taken[c] <= w
      /\ w \in Nat
  BY <1>c, <1>k DEF ClientOK
<1>h. (h.writable => job.handler) /\ "pending_write" \notin h.flags
  BY <1>b DEF BooksIInv, HandlerOK
<1>e. job' = NoJob => \A d \in Client : ~ Busy("write", d)'
  BY DEF Busy, NoJob
<1>1. CASE Write(c)
  <2> DEFINE n == IF Len(Offer(h)) < Space(c) THEN Len(Offer(h)) ELSE Space(c)
             r == Advance(h, n)
  <2>1. /\ HasPending(h) /\ Space(c) > 0
        /\ wire' = [wire EXCEPT ![c] = @ \o SubSeq(Offer(h), 1, n)]
        /\ cl' = [cl EXCEPT ![c] = r]
        /\ job' = [job EXCEPT !.tot = @ + n]
    BY <1>1 DEF Write
  <2>2. Space(c) \in Int
    BY <1>o, NetworkingAssumption DEF Space
  <2>3. Offer(h) \in Seq(Int) /\ Offer(h) # <<>>
        /\ \A i \in 1 .. Len(Offer(h)) : SubSeq(Offer(h), 1, i) = Bytes(w, i)
    BY <1>o, <2>1, OfferOut
  <2>4. n \in 1 .. Len(Offer(h))
    <3>1. Len(Offer(h)) \in Nat /\ Len(Offer(h)) # 0
      BY <2>3
    <3> QED BY <2>1, <2>2, <3>1
  <2> HIDE DEF n
  <2>5. SubSeq(Offer(h), 1, n) = Bytes(w, n)
    BY <2>3, <2>4
  <2>6. OutOK(r, w + n, m) /\ r.flags = h.flags
    BY <1>c, <1>o, <2>1, <2>4, AdvanceOut
  <2>7. Kept(h, r)
    BY <1>c, AdvanceKeeps
  <2> HIDE DEF r
  <2>8. n \in Nat /\ w + n <= m /\ n \in 1 .. m - w
    <3>1. Len(Offer(h)) \in Nat
      BY <2>3
    <3>2. n \in Nat /\ n >= 1
      BY <2>4, <3>1
    <3>3. w + n <= m
      BY <2>6 DEF OutOK
    <3> QED BY <1>o, <3>2, <3>3
  <2>9. wire' = [wire EXCEPT ![c] = @ \o Bytes(w, n)]
    BY <2>1, <2>5
  <2>10. wire'[c] = wire[c] \o Bytes(w, n) /\ \A d \in Client \ {c} : wire'[d] = wire[d]
    BY <1>f, <2>9
  <2>11. wire'[c] \in Seq(Int) /\ Len(wire'[c]) = w + n
    <3>1. w \in Int
      BY <1>o
    <3>2. Bytes(w, n) \in Seq(Int) /\ Len(Bytes(w, n)) = n
      BY <2>8, <3>1, BytesSeq
    <3> DEFINE s == Bytes(w, n)
    <3> HIDE DEF s
    <3>3. s \in Seq(Int) /\ Len(s) = n /\ wire'[c] = wire[c] \o s
      BY <2>10, <3>2 DEF s
    <3>4. wire[c] \in Seq(Int)
      BY <1>o
    <3>5. wire[c] \o s \in Seq(Int) /\ Len(wire[c] \o s) = Len(wire[c]) + Len(s)
      BY <3>3, <3>4, Concat
    <3> QED BY <3>3, <3>5
  <2>12. cl'[c] = r /\ \A d \in Client \ {c} : cl'[d] = cl[d]
    BY <1>f, <2>1
  <2>13. r.fd = "open" /\ r.query = h.query /\ r.writable = h.writable
    BY <1>c, <2>7 DEF Kept
  <2>14. job' = [op |-> "write", c |-> c, handler |-> job.handler, tot |-> job'.tot]
    BY <1>c, <2>1
  <2>15. Busy("write", c)' /\ job'.handler = job.handler
         /\ \A d \in Client \ {c} : ~ Busy("write", d)'
    BY <2>14 DEF Busy
  <2>16. ClientOK(r, wire'[c], taken'[c], made'[c])
    <3>1. taken[c] <= w + n /\ w + n \in Nat
      BY <1>o, <2>8
    <3> QED BY <1>o, <1>u, <2>6, <2>8, <2>11, <2>13, <3>1 DEF ClientOK
  <2>17. HandlerOK(r, TRUE, job.handler)
    BY <1>h, <2>6, <2>13 DEF HandlerOK
  <2>18. HandlerOK(cl'[c], Busy("write", c)', Busy("write", c)' /\ job'.handler)
    BY <2>12, <2>15, <2>17 DEF HandlerOK
  <2>19. History'
    BY <1>f, <1>u, <2>1 DEF BooksIInv, History
  <2>20. BooksIInv'
    BY <1>c, <1>l, <1>u, <2>10, <2>12, <2>15, <2>16, <2>18, <2>19, OneBook
  <2>21. Open' = Open
    BY <1>c, <2>12, <2>13 DEF Open
  <2>22. Written(c)
    BY <1>c, <1>u, <2>8, <2>9, <2>21 DEF Written
  <2> QED BY <2>20, <2>22 DEF Shown
<1>2. CASE WriteAll(c)
  <2>1. job' = NoJob /\ ~ HasPending(h) /\ cl' = Drained(c) /\ UNCHANGED wire
    BY <1>2 DEF WriteAll
  <2>2. CASE "close_after" \in h.flags
    <3>1. cl' = FreeClients({c})
      BY <2>1, <2>2 DEF Drained
    <3>2. BooksIInv' /\ Open' = Open \ {c}
      BY <1>c, <1>l, <1>u, <2>1, <3>1, FreeBook
    <3>3. Excused(c)
      <4>1. w = m
        BY <1>o, <2>1, OutEmpty
      <4> QED BY <4>1 DEF Excused
    <3> QED BY <1>c, <1>u, <2>1, <3>2, <3>3, FreeShown
  <2>3. CASE "close_after" \notin h.flags
    <3> DEFINE r == [h EXCEPT !.sentlen = 0, !.writable = @ /\ ~ job.handler]
    <3>1. cl' = [cl EXCEPT ![c] = r]
      BY <2>1, <2>3 DEF Drained
    <3>2. h.sentlen = 0
      BY <1>o, <2>1 DEF OutOK
    <3>3. /\ r.fd = "open" /\ r.query = h.query /\ r.flags = h.flags /\ SameOutput(h, r)
          /\ r.writable = (h.writable /\ ~ job.handler)
      BY <1>c, <3>2 DEF Fields, SameOutput
    <3> HIDE DEF r
    <3>4. ~ r.writable /\ r.writable \in BOOLEAN
      BY <1>c, <1>h, <1>o, <3>3
    <3>5. OutOK(r, w, m)
      BY <1>o, <3>3, OutFrame
    <3>6. ClientOK(r, wire[c], taken[c], m)
      BY <1>k, <3>3, <3>4, <3>5 DEF ClientOK
    <3>7. HandlerOK(r, FALSE, FALSE)
      BY <1>h, <3>3, <3>4 DEF HandlerOK
    <3>8. cl'[c] = r /\ \A d \in Client \ {c} : cl'[d] = cl[d]
      BY <1>f, <3>1
    <3>9. HandlerOK(cl'[c], Busy("write", c)', Busy("write", c)' /\ job'.handler)
      BY <1>e, <2>1, <3>7, <3>8 DEF HandlerOK
    <3>10. History'
      BY <1>u, <2>1 DEF BooksIInv, History
    <3>11. BooksIInv'
      BY <1>c, <1>e, <1>l, <1>u, <2>1, <3>6, <3>8, <3>9, <3>10, OneBook
    <3>12. Open' = Open
      BY <1>c, <3>3, <3>8 DEF Open
    <3> QED BY <1>u, <2>1, <3>11, <3>12 DEF Shown, Same
  <2> QED BY <2>2, <2>3
<1>3. CASE WriteRest(c)
  <2>1. job' = NoJob /\ HasPending(h) /\ UNCHANGED wire
    BY <1>3 DEF WriteRest
  <2> DEFINE r1 == [h EXCEPT !.writable = TRUE]
             r2 == [h EXCEPT !.flags = @ \cup {"close_asap"}]
  <2>2. PICK r \in {h, r1, r2} : cl' = [cl EXCEPT ![c] = r]
    BY <1>3, <1>f DEF WriteRest, LeaveRest
  <2>3. /\ r.fd = "open" /\ r.query = h.query /\ r.flags \subseteq h.flags \cup {"close_asap"}
        /\ SameOutput(h, r) /\ r.writable \in BOOLEAN
    BY <1>c, <1>o, <2>2 DEF Fields, SameOutput
  <2>4. r.flags \subseteq Flag /\ "pending_write" \notin r.flags /\ HasPending(r)
    BY <1>h, <1>o, <2>1, <2>3 DEF Flag, HasPending, SameOutput
  <2>5. OutOK(r, w, m)
    BY <1>o, <2>3, OutFrame
  <2>6. ClientOK(r, wire[c], taken[c], m)
    BY <1>k, <2>3, <2>4, <2>5 DEF ClientOK
  <2>7. HandlerOK(r, FALSE, FALSE)
    BY <2>4 DEF HandlerOK
  <2>8. cl'[c] = r /\ \A d \in Client \ {c} : cl'[d] = cl[d]
    BY <1>f, <2>2
  <2>9. HandlerOK(cl'[c], Busy("write", c)', Busy("write", c)' /\ job'.handler)
    BY <1>e, <2>1, <2>7, <2>8 DEF HandlerOK
  <2>10. History'
    BY <1>u, <2>1 DEF BooksIInv, History
  <2>11. BooksIInv'
    BY <1>c, <1>e, <1>l, <1>u, <2>1, <2>6, <2>8, <2>9, <2>10, OneBook
  <2>12. Open' = Open
    BY <1>c, <2>3, <2>8 DEF Open
  <2> QED BY <1>u, <2>1, <2>11, <2>12 DEF Shown, Same
<1>4. CASE WriteError(c)
  <2>1. job' = NoJob /\ cl' = FreeClients({c}) /\ peer[c] = "gone" /\ UNCHANGED wire
    BY <1>4 DEF WriteError
  <2>2. BooksIInv' /\ Open' = Open \ {c}
    BY <1>c, <1>l, <1>u, <2>1, FreeBook
  <2>3. Excused(c)
    BY <2>1 DEF Excused
  <2> QED BY <1>c, <1>u, <2>1, <2>2, <2>3, FreeShown
<1> QED BY <1>1, <1>2, <1>3, <1>4 DEF Output

-----------------------------------------------------------------------------

\* A step with no handler under way before it, for one client c that becomes r,
\* connected as before.
LEMMA LoopBook ==
    ASSUME BooksIInv, NetInv', LoopOK', PeersOK', NEW c \in Client, c \in Open, NEW r,
           cl' = [cl EXCEPT ![c] = r], UNCHANGED <<made, wire, taken>>, job = NoJob,
           r.fd = "open", r.query \in Seq(Token), r.flags \subseteq cl[c].flags,
           r.writable = cl[c].writable, SameOutput(cl[c], r),
           \A d \in Client \ {c} : ~ Busy("write", d)',
           Busy("write", c)' => /\ "pending_write" \notin r.flags
                                /\ r.writable => job'.handler
    PROVE  BooksIInv' /\ Shown
<1>1. \A d \in Client : ~ Busy("write", d)
  BY DEF Busy, NoJob
<1>2. cl'[c] = r /\ \A d \in Client \ {c} : cl'[d] = cl[d]
  BY DEF BooksIInv, NetInv, Shape
<1>3. cl[c].fd = "open"
  BY DEF Open
<1>4. ClientOK(cl[c], wire[c], taken[c], made[c])
      /\ HandlerOK(cl[c], FALSE, FALSE)
  BY <1>1 DEF BooksIInv, HandlerOK
<1>5. OutOK(r, Len(wire[c]), made[c])
  BY <1>3, <1>4, OutFrame DEF ClientOK
<1>6. ClientOK(r, wire[c], taken[c], made[c])
  BY <1>4, <1>5 DEF ClientOK
<1>7. HasPending(r) <=> HasPending(cl[c])
  BY DEF SameOutput, HasPending
<1>8. HandlerOK(r, Busy("write", c)', Busy("write", c)' /\ job'.handler)
  BY <1>4, <1>7 DEF HandlerOK
<1>9. History'
  BY DEF BooksIInv, History
<1>10. BooksIInv'
  BY <1>1, <1>2, <1>6, <1>8, <1>9, OneBook
<1>11. Open' = Open
  BY <1>2, <1>3 DEF Open
<1> QED BY <1>10, <1>11 DEF Shown, Same

\* The handlers of events.
LEMMA EventBooks ==
    ASSUME BooksIInv, NetInv', NEW c \in Client, Event(c)
    PROVE  BooksIInv' /\ Shown
<1> DEFINE h == cl[c]
<1>j. job = NoJob /\ \A d \in Client : ~ Busy("write", d)
  BY DEF Event, Accept, Read, ReadEnd, SendReply, Stale, Fires, Busy, NoJob
<1>u. UNCHANGED <<at, paused, made, wire, taken, todo>> /\ fired' \subseteq fired
  BY DEF Event, Accept, Read, ReadEnd, SendReply, Stale, Fires
<1>l. LoopOK'
  BY <1>u DEF BooksIInv, LoopOK
<1>f. cl = [d \in Client |-> cl[d]] /\ DOMAIN h = Fields /\ in \in [Client -> Seq(Token)]
  BY DEF NetInv, Shape, BooksIInv, PeersOK
<1>p. UNCHANGED in => PeersOK'
  BY <1>u DEF BooksIInv, PeersOK
<1>k. ClientOK(h, wire[c], taken[c], made[c]) /\ HandlerOK(h, FALSE, FALSE)
  BY <1>j DEF BooksIInv, HandlerOK
<1>1. CASE Accept(c)
  <2>1. PICK fd \in {"open", "closed"} : cl' = [cl EXCEPT ![c].fd = fd]
    BY <1>1 DEF Accept
  <2>2. h.fd = "none" /\ UNCHANGED <<job, in>>
    BY <1>1 DEF Accept
  <2>3. h = [NoClient EXCEPT !.fd = "none"] /\ OutOK(h, Len(wire[c]), made[c])
        /\ Len(wire[c]) \in Nat /\ wire[c] \in Seq(Int)
        /\ taken[c] \in Nat /\ made[c] \in Nat /\ taken[c] <= Len(wire[c])
    BY <1>k, <2>2 DEF ClientOK
  <2>4. ~ HasPending(h)
    BY <2>3, NoClientOK
  <2>5. Len(wire[c]) = made[c]
    BY <2>3, <2>4, OutEmpty
  <2> DEFINE r == [NoClient EXCEPT !.fd = fd]
  <2>6. [h EXCEPT !.fd = fd] = r
    BY <2>3 DEF NoClient
  <2>7. cl' = [cl EXCEPT ![c] = r]
    BY <2>1, <2>6
  <2>8. cl'[c] = r /\ \A d \in Client \ {c} : cl'[d] = cl[d]
    BY <1>f, <2>7
  <2>9. /\ r.fd = fd /\ r.flags = {} /\ r.query = <<>> /\ r.writable = FALSE
        /\ ~ HasPending(r) /\ \A w \in Nat : OutOK(r, w, w)
    BY NoClientOK
  <2>10. r = [NoClient EXCEPT !.fd = r.fd]
    BY <2>9
  <2> HIDE DEF r
  <2>11. ClientOK(r, wire[c], taken[c], made[c])
    <3>1. <<>> \in Seq(Token)
      OBVIOUS
    <3>2. OutOK(r, Len(wire[c]), made[c]) /\ Len(wire[c]) <= made[c]
      BY <2>3, <2>5, <2>9
    <3> QED BY <2>3, <2>9, <2>10, <3>1, <3>2 DEF ClientOK
  <2>12. \A d \in Client : ~ Busy("write", d)'
    BY <1>j, <2>2 DEF Busy
  <2>13. HandlerOK(cl'[c], Busy("write", c)', Busy("write", c)' /\ job'.handler)
    BY <2>8, <2>9 DEF HandlerOK
  <2>14. History'
    BY <1>u DEF BooksIInv, History
  <2>15. BooksIInv'
    BY <1>j, <1>l, <1>p, <1>u, <2>2, <2>8, <2>11, <2>12, <2>13, <2>14, OneBook
  <2>16. CASE fd = "open"
    <3>1. Open' = Open \cup {c}
      BY <2>8, <2>9, <2>16 DEF Open
    <3> QED BY <1>u, <2>5, <2>15, <3>1 DEF Shown, Opened
  <2>17. CASE fd = "closed"
    <3>1. Open' = Open
      BY <2>2, <2>8, <2>9, <2>17 DEF Open
    <3> QED BY <1>u, <2>15, <3>1 DEF Shown, Same
  <2> QED BY <2>16, <2>17
<1>2. CASE Read(c)
  <2>1. PICK n \in 1 .. Len(in[c]) :
        LET query == h.query \o SubSeq(in[c], 1, n) IN
        /\ in' = [in EXCEPT ![c] = SubSeq(@, n + 1, Len(@))]
        /\ \/ /\ Len(query) > QueryLimit
              /\ cl' = FreeClients({c})
              /\ UNCHANGED job
           \/ /\ Len(query) <= QueryLimit
              /\ cl' = [cl EXCEPT ![c].query = query]
              /\ job' = [op |-> "input", c |-> c]
    BY <1>2 DEF Read
  <2>2. c \in Open
    BY <1>2 DEF Read
  <2> DEFINE q == h.query \o SubSeq(in[c], 1, n)
  <2>3. in[c] \in Seq(Token) /\ h.query \in Seq(Token) /\ Len(in[c]) \in Nat /\ n \in Nat
        /\ n <= Len(in[c])
    <3>1. in[c] \in Seq(Token) /\ h.query \in Seq(Token)
      BY <1>f, <1>k DEF ClientOK
    <3>2. Len(in[c]) \in Nat
      BY <3>1
    <3> QED BY <3>1, <3>2
  <2>4. SubSeq(in[c], 1, n) \in Seq(Token) /\ Len(SubSeq(in[c], 1, n)) = n
    <3>1. 1 \in Int /\ n \in Int /\ 1 <= n /\ \A i \in 1 .. n : in[c][i] \in Token
      BY <2>3
    <3> QED BY ONLY <3>1, SubSeqProperties
  <2>5. SubSeq(in[c], n + 1, Len(in[c])) \in Seq(Token)
    <3>1. n + 1 \in Int /\ Len(in[c]) \in Int /\ \A i \in n + 1 .. Len(in[c]) : in[c][i] \in Token
      BY <2>3
    <3> QED BY ONLY <3>1, SubSeqProperties
  <2>6. q \in Seq(Token) /\ Len(q) = Len(h.query) + n
    BY <2>3, <2>4, ConcatProperties
  <2> HIDE DEF q
  <2>7. PeersOK'
    <3>1. in' = [in EXCEPT ![c] = SubSeq(in[c], n + 1, Len(in[c]))]
      BY <2>1
    <3>2. in' \in [Client -> Seq(Token)]
      BY <1>f, <2>5, <3>1
    <3> QED BY <1>u, <3>2 DEF BooksIInv, PeersOK
  <2>8. CASE Len(q) > QueryLimit /\ cl' = FreeClients({c}) /\ UNCHANGED job
    <3>1. BooksIInv' /\ Open' = Open \ {c}
      BY <1>j, <1>l, <1>u, <2>7, <2>8, FreeBook
    <3>2. Len(h.query) + Len(in[c]) > QueryLimit
      <4>1. Len(h.query) \in Nat /\ QueryLimit \in Nat
        BY <2>3, NetworkingAssumption
      <4>2. PICK a, b, l : a = Len(h.query) /\ b = Len(in[c]) /\ l = Len(q)
        OBVIOUS
      <4>3. a \in Nat /\ b \in Nat /\ n \in Nat /\ QueryLimit \in Nat
            /\ l = a + n /\ n <= b /\ l > QueryLimit
        BY <2>3, <2>6, <2>8, <4>1, <4>2
      <4>4. a + b > QueryLimit
        BY ONLY <4>3
      <4> QED BY <4>2, <4>4
    <3>3. Excused(c)
      BY <3>2 DEF Excused
    <3> QED BY <1>u, <2>2, <3>1, <3>3, FreeShown
  <2>9. CASE cl' = [cl EXCEPT ![c].query = q] /\ job' = [op |-> "input", c |-> c]
    <3> DEFINE r == [h EXCEPT !.query = q]
    <3>1. cl' = [cl EXCEPT ![c] = r]
      BY <2>9
    <3>2. /\ r.fd = h.fd /\ r.query = q /\ r.flags = h.flags /\ r.writable = h.writable
          /\ SameOutput(h, r)
      BY <1>f DEF Fields, SameOutput
    <3> HIDE DEF r
    <3>3. h.fd = "open"
      BY <2>2 DEF Open
    <3>4. \A d \in Client : ~ Busy("write", d)'
      BY <2>9 DEF Busy
    <3> QED BY <1>j, <1>l, <1>u, <2>2, <2>6, <2>7, <3>1, <3>2, <3>3, <3>4, LoopBook
  <2> QED BY <2>1, <2>8, <2>9 DEF q
<1>3. CASE ReadEnd(c)
  <2>1. cl' = FreeClients({c}) /\ UNCHANGED <<job, in>> /\ peer[c] = "gone" /\ c \in Open
    BY <1>3 DEF ReadEnd
  <2>2. BooksIInv' /\ Open' = Open \ {c}
    BY <1>j, <1>l, <1>p, <1>u, <2>1, FreeBook
  <2>3. Excused(c)
    BY <2>1 DEF Excused
  <2> QED BY <1>u, <2>1, <2>2, <2>3, FreeShown
<1>4. CASE SendReply(c)
  <2>1. /\ job' = [op |-> "write", c |-> c, handler |-> TRUE, tot |-> 0]
        /\ h.writable /\ cl' = cl /\ UNCHANGED in
    BY <1>4 DEF SendReply
  <2>2. c \in Open
    <3>1. h.fd # "open" => h.writable = FALSE
      BY <1>k, NoClientOK DEF ClientOK
    <3> QED BY <2>1, <3>1 DEF Open
  <2>3. "pending_write" \notin h.flags
    BY <1>k, <2>1 DEF HandlerOK
  <2>4. cl' = [cl EXCEPT ![c] = h] /\ h.fd = "open" /\ h.query \in Seq(Token) /\ SameOutput(h, h)
    BY <1>f, <1>k, <2>1, <2>2 DEF Open, SameOutput, ClientOK
  <2>5. job'.handler /\ \A d \in Client \ {c} : ~ Busy("write", d)'
    BY <2>1 DEF Busy
  <2> HIDE DEF h
  <2>6. h = cl[c]
    BY DEF h
  <2> QED BY <1>j, <1>l, <1>p, <1>u, <2>1, <2>2, <2>3, <2>4, <2>5, <2>6, LoopBook
<1>5. CASE Stale(c)
  <2>1. UNCHANGED <<cl, job, in>>
    BY <1>5 DEF Stale
  <2>2. Open' = Open
    BY <2>1 DEF Open
  <2>3. History' /\ PeersOK'
    BY <1>p, <1>u, <2>1 DEF BooksIInv, History
  <2>4. BooksIInv'
    BY <1>l, <1>u, <2>1, <2>3 DEF BooksIInv, Busy
  <2> QED BY <1>u, <2>2, <2>4 DEF Shown, Same
<1> QED BY <1>1, <1>2, <1>3, <1>4, <1>5 DEF Event

-----------------------------------------------------------------------------

\* Only a client that is connected has flags.
LEMMA FlaggedOpen ==
    ASSUME BooksIInv, NEW c \in Client, cl[c].flags # {}
    PROVE  c \in Open
<1>1. cl[c].fd = "open" \/ Idle(cl[c])
  BY DEF BooksIInv, NetInv, Shape
<1> QED BY <1>1 DEF Idle, Open

\* processUnblockedClients.
LEMMA UnblockedBooks ==
    ASSUME BooksIInv, NetInv', Unblocked
    PROVE  BooksIInv' /\ Shown
<1>1. PICK c \in Flagged("unblocked") :
        /\ cl' = [cl EXCEPT ![c].flags = @ \ {"unblocked"}]
        /\ job' = IF cl[c].query # <<>> THEN [op |-> "input", c |-> c] ELSE NoJob
  BY DEF Unblocked
<1>2. c \in Client /\ cl[c].flags # {}
  BY DEF Flagged
<1>3. c \in Open /\ cl[c].fd = "open"
  BY <1>2, FlaggedOpen DEF Open
<1>4. job = NoJob /\ UNCHANGED <<at, fired, paused, made, in, wire, taken, todo>>
  BY DEF Unblocked
<1>5. LoopOK' /\ PeersOK'
  BY <1>4 DEF BooksIInv, LoopOK, PeersOK
<1>6. \A d \in Client : ~ Busy("write", d)'
  BY <1>1 DEF Busy, NoJob
<1>7. DOMAIN cl[c] = Fields /\ cl[c].query \in Seq(Token)
  BY <1>2 DEF BooksIInv, NetInv, Shape, ClientOK
<1> DEFINE r == [cl[c] EXCEPT !.flags = @ \ {"unblocked"}]
<1>8. cl' = [cl EXCEPT ![c] = r]
  BY <1>1
<1>9. /\ r.fd = cl[c].fd /\ r.query = cl[c].query /\ r.flags \subseteq cl[c].flags
      /\ r.writable = cl[c].writable /\ SameOutput(cl[c], r)
  BY <1>7 DEF Fields, SameOutput
<1> HIDE DEF r
<1>10. r.fd = "open" /\ r.query \in Seq(Token)
  BY <1>3, <1>7, <1>9
<1> QED BY <1>2, <1>3, <1>4, <1>5, <1>6, <1>8, <1>9, <1>10, LoopBook

\* handleClientsWithPendingWrites.
LEMMA PendingBooks ==
    ASSUME BooksIInv, NetInv', Pending
    PROVE  BooksIInv' /\ Shown
<1>1. PICK c \in Flagged("pending_write") :
        /\ cl' = [cl EXCEPT ![c].flags = @ \ {"pending_write"}]
        /\ job' = [op |-> "write", c |-> c, handler |-> FALSE, tot |-> 0]
  BY DEF Pending
<1>2. c \in Client /\ cl[c].flags # {} /\ "pending_write" \in cl[c].flags
  BY DEF Flagged
<1>3. c \in Open /\ cl[c].fd = "open"
  BY <1>2, FlaggedOpen DEF Open
<1>4. job = NoJob /\ UNCHANGED <<at, fired, paused, made, in, wire, taken, todo>>
  BY DEF Pending
<1>5. LoopOK' /\ PeersOK'
  BY <1>4 DEF BooksIInv, LoopOK, PeersOK
<1>6. \A d \in Client \ {c} : ~ Busy("write", d)'
  BY <1>1 DEF Busy
<1>7. DOMAIN cl[c] = Fields /\ cl[c].query \in Seq(Token)
  BY <1>2 DEF BooksIInv, NetInv, Shape, ClientOK
<1>8. ~ cl[c].writable
  BY <1>2 DEF BooksIInv, HandlerOK
<1> DEFINE r == [cl[c] EXCEPT !.flags = @ \ {"pending_write"}]
<1>9. cl' = [cl EXCEPT ![c] = r]
  BY <1>1
<1>10. /\ r.fd = cl[c].fd /\ r.query = cl[c].query /\ r.flags = cl[c].flags \ {"pending_write"}
       /\ r.writable = cl[c].writable /\ SameOutput(cl[c], r)
  BY <1>7 DEF Fields, SameOutput
<1> HIDE DEF r
<1>11. /\ r.fd = "open" /\ r.query \in Seq(Token) /\ r.flags \subseteq cl[c].flags
       /\ "pending_write" \notin r.flags /\ ~ r.writable
  BY <1>3, <1>7, <1>8, <1>10
<1> QED BY <1>2, <1>3, <1>4, <1>5, <1>6, <1>9, <1>10, <1>11, LoopBook

\* A step that leaves the clients, their sockets and the handler alone.
LEMMA IdleBooks ==
    ASSUME BooksIInv, NetInv', LoopOK', PeersOK', UNCHANGED <<cl, job, made, wire>>,
           taken' = [c \in Client |-> taken'[c]],
           \A c \in Client : taken'[c] = taken[c] \/ taken'[c] = Len(wire[c])
    PROVE  BooksIInv' /\ Shown
<1>1. Open' = Open
  BY DEF Open
<1>2. History'
  BY DEF BooksIInv, History
<1>3. ASSUME NEW c \in Client
      PROVE  ClientOK(cl[c], wire[c], taken'[c], made[c])
  <2>1. ClientOK(cl[c], wire[c], taken[c], made[c])
    BY DEF BooksIInv
  <2>2. wire[c] \in Seq(Int)
    BY <2>1 DEF ClientOK
  <2>3. Len(wire[c]) \in Nat
    BY <2>2
  <2>4. taken'[c] \in Nat /\ taken'[c] <= Len(wire[c])
    BY <2>1, <2>3 DEF ClientOK
  <2> QED BY <2>1, <2>4 DEF ClientOK
<1>4. BooksIInv'
  BY <1>2, <1>3 DEF BooksIInv, Busy
<1> QED BY <1>1, <1>4 DEF Shown, Same

\* serverCron.
LEMMA CronBooks ==
    ASSUME BooksIInv, NetInv', Cron
    PROVE  BooksIInv' /\ Shown
<1> DEFINE gone == Flagged("close_asap")
<1>1. /\ cl' = Resume(FreeClients(gone)) \/ cl' = FreeClients(gone)
      /\ UNCHANGED <<job, made, in, wire, taken, todo, fired>>
      /\ job = NoJob /\ at' = "before" /\ paused' \in {"no", paused}
  BY DEF Cron
<1>2. LoopOK'
  BY <1>1 DEF BooksIInv, LoopOK
<1>3. gone \in SUBSET Client /\ \A d \in gone : "close_asap" \in cl[d].flags
  BY DEF Flagged
<1>4. gone \in SUBSET Open
  BY <1>3, FlaggedOpen
<1> HIDE DEF gone
<1>5. \A d \in gone : ~ Busy("write", d)
  BY <1>1 DEF Busy, NoJob
<1>6. BooksIInv' /\ Open' = Open \ gone
  BY <1>1, <1>2, <1>3, <1>5, ResumeBooks
<1>7. Closed(gone)
  BY <1>1, <1>3, <1>6 DEF Closed, Excused
<1> QED BY <1>4, <1>6, <1>7 DEF Shown

\* The peers.
LEMMA PeerBooks ==
    ASSUME BooksIInv, NetInv', NEW c \in Client, Peer(c)
    PROVE  BooksIInv' /\ Shown
<1>1. UNCHANGED server
  BY DEF Peer, Connect, Send, Take, Leave
<1>2. UNCHANGED <<cl, job, made>> /\ LoopOK'
  BY <1>1 DEF server, BooksIInv, LoopOK
<1>3. UNCHANGED wire
  BY DEF Peer, Connect, Send, Take, Leave
<1>4. taken' = [d \in Client |-> taken'[d]]
      /\ \A d \in Client : taken'[d] = taken[d] \/ taken'[d] = Len(wire[d])
  <2>1. taken = [d \in Client |-> taken[d]]
    BY DEF BooksIInv, History
  <2>2. taken' = taken \/ taken' = [taken EXCEPT ![c] = Len(wire[c])]
    BY DEF Peer, Connect, Send, Take, Leave
  <2> QED BY <2>1, <2>2
<1>5. PeersOK'
  <2>1. CASE Connect(c) \/ Take(c) \/ Leave(c)
    BY <2>1 DEF Connect, Take, Leave, BooksIInv, PeersOK
  <2>2. CASE Send(c)
    <3>1. in \in [Client -> Seq(Token)] /\ todo \in [Client -> Seq(Kinds)]
      BY DEF BooksIInv, PeersOK
    <3>2. /\ todo[c] # <<>>
          /\ in' = [in EXCEPT ![c] = @ \o Tokens(Head(todo[c]))]
          /\ todo' = [todo EXCEPT ![c] = Tail(@)]
      BY <2>2 DEF Send
    <3>3. todo[c] \in Seq(Kinds) /\ in[c] \in Seq(Token)
      BY <3>1
    <3>4. Head(todo[c]) \in Kinds /\ Tail(todo[c]) \in Seq(Kinds)
      BY <3>2, <3>3
    <3>5. ASSUME NEW kind \in Kinds PROVE Tokens(kind) \in Seq(Token)
      <4>1. kind \in Token /\ "*" \in Token /\ "*0" \in Token /\ "bad" \in Token
        BY DEF Token, Kinds
      <4>2. CASE kind = "empty"
        <5>1. Tokens(kind) = <<"*0">>
          BY <4>2 DEF Tokens
        <5> QED BY <4>1, <5>1
      <4>3. CASE kind = "bad"
        <5>1. Tokens(kind) = <<"bad">>
          BY <4>3 DEF Tokens
        <5> QED BY <4>1, <5>1
      <4>4. CASE kind = "badarg"
        <5>1. Tokens(kind) = <<"*", "bad">>
          BY <4>4 DEF Tokens
        <5> QED BY <4>1, <5>1
      <4>5. CASE kind \notin {"empty", "bad", "badarg"}
        <5>1. Tokens(kind) = <<"*", kind>>
          BY <4>5 DEF Tokens
        <5> QED BY <4>1, <5>1
      <4> QED BY <4>2, <4>3, <4>4, <4>5
    <3>6. PICK s : s = Tokens(Head(todo[c])) /\ s \in Seq(Token)
      BY <3>4, <3>5
    <3>7. in[c] \o s \in Seq(Token)
      BY ONLY <3>3, <3>6, ConcatProperties
    <3>8. in' \in [Client -> Seq(Token)]
      BY <3>1, <3>2, <3>6, <3>7
    <3>9. todo' \in [Client -> Seq(Kinds)]
      BY <3>1, <3>2, <3>4
    <3> QED BY <3>8, <3>9 DEF PeersOK
  <2> QED BY <2>1, <2>2 DEF Peer
<1> QED BY <1>2, <1>3, <1>4, <1>5, IdleBooks

\* Every step.
LEMMA BooksStep == BooksIInv /\ [Next]_vars => BooksIInv' /\ Shown
<1> SUFFICES ASSUME BooksIInv, [Next]_vars PROVE BooksIInv' /\ Shown
  OBVIOUS
<1>1. NetInv'
  BY StepInv DEF BooksIInv
<1>2. taken = [c \in Client |-> taken[c]]
  BY DEF BooksIInv, History
<1>3. CASE Poll \/ EventsEnd
  <2>1. UNCHANGED <<cl, job, paused, made, in, wire, taken, todo>>
    BY <1>3 DEF Poll, EventsEnd
  <2>2. LoopOK'
    <3>1. Ready \subseteq Client \X {"accept", "read", "write"}
      BY DEF Ready, Open
    <3>2. at' \in {"before", "events", "cron"}
      BY <1>3 DEF Poll, EventsEnd
    <3>3. fired' = Ready \/ fired' = fired
      BY <1>3 DEF Poll, EventsEnd
    <3> QED BY <2>1, <3>1, <3>2, <3>3 DEF BooksIInv, LoopOK
  <2>3. PeersOK'
    BY <2>1 DEF BooksIInv, PeersOK
  <2> QED BY <1>1, <1>2, <2>1, <2>2, <2>3, IdleBooks
<1>4. CASE UNCHANGED vars
  <2>1. UNCHANGED <<cl, job, made, wire, taken, at, paused, fired, in, todo>>
    BY <1>4 DEF vars
  <2>2. LoopOK' /\ PeersOK'
    BY <2>1 DEF BooksIInv, LoopOK, PeersOK
  <2> QED BY <1>1, <1>2, <2>1, <2>2, IdleBooks
<1>5. CASE Server
  <2>1. CASE \E c \in Client : Event(c) \/ Input(c) \/ Output(c)
    BY <1>1, <2>1, EventBooks, InputBooks, OutputBooks
  <2> QED BY <1>1, <1>3, <1>5, <2>1, UnblockedBooks, PendingBooks, CronBooks DEF Server
<1>6. CASE \E c \in Client : Peer(c)
  BY <1>1, <1>6, PeerBooks
<1> QED BY <1>4, <1>5, <1>6 DEF Next

-----------------------------------------------------------------------------

\* What the books say of one client.
LEMMA ClientBooks ==
    ASSUME NEW k, NEW w, NEW t, NEW m, ClientOK(k, w, t, m)
    PROVE  /\ k.bytes = ReplySize(k.reply)
           /\ \A i \in DOMAIN k.reply : Len(k.reply[i].data) \in 1 .. k.reply[i].size
           /\ Len(k.buf) <= BufSize
           /\ IF HasPending(k) THEN Offer(k) # <<>> ELSE k.sentlen = 0
<1>1. PICK a, b : OutOK(k, a, b)
  <2>1. CASE k.fd # "closed"
    BY <2>1 DEF ClientOK
  <2>2. CASE k.fd = "closed"
    <3>1. k = [NoClient EXCEPT !.fd = "closed"]
      BY <2>2 DEF ClientOK
    <3> QED BY <3>1, NoClientOK
  <2> QED BY <2>1, <2>2
<1>2. k.bytes = ReplySize(k.reply) /\ Len(k.buf) <= BufSize /\ k.reply \in Seq(Block)
      /\ (~ HasPending(k) => k.sentlen = 0)
  BY <1>1 DEF OutOK
<1>3. HasPending(k) => Offer(k) # <<>>
  BY <1>1, OfferOut
<1>4. ASSUME NEW i \in DOMAIN k.reply PROVE Len(k.reply[i].data) \in 1 .. k.reply[i].size
  <2>1. k.reply[i] \in Block
    BY <1>2
  <2> QED BY <2>1, BlockNode
<1> QED BY <1>2, <1>3, <1>4

\* What waits for a client is what was made and not written, and nothing for a
\* client that is not connected.
LEMMA ClientQueue ==
    ASSUME NEW k, NEW w, NEW t, NEW m, ClientOK(k, w, t, m)
    PROVE  /\ w \in Seq(Int) /\ Len(w) \in Nat /\ m \in Nat /\ Len(w) <= m
           /\ k.fd = "open" => Queue(k) = Bytes(Len(w), m - Len(w))
           /\ k.fd # "open" => Queue(k) = <<>>
<1>1. w \in Seq(Int) /\ Len(w) \in Nat /\ m \in Nat /\ Len(w) <= m
  BY DEF ClientOK
<1>2. CASE k.fd = "open"
  <2>1. OutOK(k, Len(w), m)
    BY <1>2 DEF ClientOK
  <2> QED BY <1>1, <1>2, <2>1, QueueOut
<1>3. CASE k.fd # "open"
  <2>1. PICK fd : fd \in {"none", "open", "closed"} /\ k = [NoClient EXCEPT !.fd = fd]
    BY <1>3 DEF ClientOK
  <2>2. OutOK(k, 0, 0)
    BY ONLY <2>1, NoClientOK
  <2>3. Queue(k) = Bytes(0, 0 - 0)
    BY <2>2, QueueOut
  <2>4. 0 - 0 = 0 /\ Bytes(0, 0) = <<>>
    BY DEF Bytes
  <2> QED BY <1>1, <1>3, <2>3, <2>4
<1> QED BY <1>2, <1>3

\* The same for the clients of a state, and of the state after a step.
LEMMA QueueBefore ==
    ASSUME BooksIInv, NEW c \in Client
    PROVE  /\ wire[c] \in Seq(Int) /\ Len(wire[c]) \in Nat /\ made[c] \in Nat
           /\ Len(wire[c]) <= made[c]
           /\ c \in Open => Queue(cl[c]) = Bytes(Len(wire[c]), made[c] - Len(wire[c]))
           /\ c \notin Open => Queue(cl[c]) = <<>>
<1>1. ClientOK(cl[c], wire[c], taken[c], made[c])
  BY DEF BooksIInv
<1> QED BY <1>1, ClientQueue DEF Open

LEMMA QueueAfter ==
    ASSUME BooksIInv', NEW c \in Client
    PROVE  /\ c \in Open' => Queue(cl'[c]) = Bytes(Len(wire'[c]), made'[c] - Len(wire'[c]))
           /\ c \notin Open' => Queue(cl'[c]) = <<>>
<1>1. ClientOK(cl'[c], wire'[c], taken'[c], made'[c])
  BY DEF BooksIInv
<1> QED BY <1>1, ClientQueue DEF Open

\* The books agree: the type invariant, the sizes that the output limits add up,
\* blocks without holes, sentlen within what is sent, and write handlers for data
\* only, whatever the sizes of the buffer, the blocks and the socket are.
THEOREM BooksAgree == Spec => []BooksInv
<1>1. BooksIInv => TypeOK
  <2> SUFFICES ASSUME BooksIInv PROVE TypeOK
    OBVIOUS
  <2>1. job = NoJob \/ (job.op \in {"input", "write"} /\ job.c \in Open)
    BY DEF BooksIInv, NetInv, JobOK, Open
  <2>2. ASSUME NEW c \in Client
        PROVE  /\ cl[c].fd \in {"none", "open", "closed"}
               /\ cl[c].flags \subseteq Flag
               /\ c \in Open \/ cl[c] = [NoClient EXCEPT !.fd = cl[c].fd]
               /\ taken[c] <= Len(wire[c])
               /\ Len(wire[c]) <= made[c]
    BY DEF BooksIInv, ClientOK, Open
  <2> QED BY <2>1, <2>2 DEF BooksIInv, LoopOK, TypeOK
<1>2. BooksIInv => Accounted
  <2> SUFFICES ASSUME BooksIInv PROVE Accounted
    OBVIOUS
  <2>1. \A c \in Client : ClientOK(cl[c], wire[c], taken[c], made[c])
    BY DEF BooksIInv
  <2> QED BY <2>1, ClientBooks DEF Accounted
<1>3. BooksIInv => HandlerNeeded
  <2> SUFFICES ASSUME BooksIInv, Sleeps, NEW c \in Open, cl[c].writable
               PROVE  HasPending(cl[c])
    BY DEF HandlerNeeded
  <2>1. ~ Busy("write", c)
    BY DEF Sleeps, Busy, NoJob
  <2> QED BY <2>1 DEF BooksIInv, HandlerOK, Open
<1>4. BooksIInv => BooksInv
  BY <1>1, <1>2, <1>3 DEF BooksInv
<1> QED BY <1>4, InitBooks, BooksStep, PTL DEF Spec

\* QUIT and a protocol error are answered last: no later command of the pipeline
\* adds a reply, and the server closes the socket before all is sent only for the
\* reasons that QuitIsLast names.
THEOREM LastReplyIsLast == Spec => QuitIsLast
<1>1. ASSUME BooksIInv, Shown, NEW c \in Flagged("close_after")
      PROVE  made'[c] = made[c] /\ (cl'[c].fd = "closed" => Excused(c))
  <2>1. c \in Client /\ "close_after" \in cl[c].flags
    BY DEF Flagged
  <2>2. c \in Open
    BY <1>1, <2>1, FlaggedOpen
  <2>3. made = [d \in Client |-> made[d]]
    BY <1>1 DEF BooksIInv, History
  <2>4. CASE Same
    BY <2>2, <2>4 DEF Same, Open
  <2>5. ASSUME NEW d \in Client, Replied(d) PROVE made'[c] = made[c] /\ c \in Open'
    BY <2>1, <2>2, <2>3, <2>5 DEF Replied
  <2>6. ASSUME NEW d \in Client, Written(d) \/ Opened(d)
        PROVE  made'[c] = made[c] /\ c \in Open'
    BY <2>2, <2>6 DEF Written, Opened
  <2>7. c \in Open' => cl'[c].fd # "closed"
    BY DEF Open
  <2>8. ASSUME NEW gone \in SUBSET Open, Closed(gone)
        PROVE  made'[c] = made[c] /\ (c \in Open' \/ Excused(c))
    BY <2>1, <2>2, <2>8 DEF Closed
  <2> QED BY <1>1, <2>4, <2>5, <2>6, <2>7, <2>8 DEF Shown
<1>2. BooksIInv /\ [Next]_vars =>
        [\A c \in Flagged("close_after") :
            /\ made'[c] = made[c]
            /\ cl'[c].fd = "closed" =>
                \/ Len(wire[c]) = made[c]
                \/ peer[c] = "gone"
                \/ "close_asap" \in cl[c].flags
                \/ Len(cl[c].query) + Len(in[c]) > QueryLimit]_vars
  BY <1>1, BooksStep DEF Excused
<1> QED BY <1>2, InitBooks, BooksStep, PTL DEF Spec, QuitIsLast

-----------------------------------------------------------------------------

\* The queues of the abstract stream.
Waits == [c \in Client |-> Queue(cl[c])]

\* The queue after a reply of n bytes.
LEMMA QueueReply ==
    ASSUME BooksIInv, BooksIInv', NEW c \in Client, c \in Open, Open' = Open, NEW n \in Nat,
           made' = [made EXCEPT ![c] = @ + n], UNCHANGED wire
    PROVE  Waits' = [Waits EXCEPT ![c] = @ \o Bytes(made[c], n)]
<1>0. made = [d \in Client |-> made[d]]
  BY DEF BooksIInv, History
<1>1. made'[c] = made[c] + n /\ \A d \in Client \ {c} : made'[d] = made[d]
  BY <1>0
<1>2. \A d \in Client \ {c} : Queue(cl'[d]) = Queue(cl[d])
  <2> SUFFICES ASSUME NEW d \in Client \ {c} PROVE Queue(cl'[d]) = Queue(cl[d])
    OBVIOUS
  <2>1. /\ d \in Open => Queue(cl[d]) = Bytes(Len(wire[d]), made[d] - Len(wire[d]))
        /\ d \notin Open => Queue(cl[d]) = <<>>
    BY QueueBefore
  <2>2. /\ d \in Open' => Queue(cl'[d]) = Bytes(Len(wire'[d]), made'[d] - Len(wire'[d]))
        /\ d \notin Open' => Queue(cl'[d]) = <<>>
    BY QueueAfter
  <2> QED BY <1>1, <2>1, <2>2
<1>3. PICK w, m : w = Len(wire[c]) /\ m = made[c] /\ w \in Nat /\ m \in Nat /\ w <= m
  BY QueueBefore
<1>4. Queue(cl[c]) = Bytes(w, m - w)
  BY <1>3, QueueBefore
<1>5. Queue(cl'[c]) = Bytes(w, (m + n) - w)
  <2>1. c \in Open' => Queue(cl'[c]) = Bytes(Len(wire'[c]), made'[c] - Len(wire'[c]))
    BY QueueAfter
  <2> QED BY <1>1, <1>3, <2>1
<1>6. Bytes(w, m - w) \o Bytes(m, n) = Bytes(w, (m + n) - w)
  <2>1. PICK a : a = m - w
    OBVIOUS
  <2>2. a \in Nat /\ w \in Int /\ w + a = m /\ a + n = (m + n) - w
    BY <1>3, <2>1
  <2>3. Bytes(w, a) \o Bytes(w + a, n) = Bytes(w, a + n)
    BY <2>2, BytesConcat
  <2> QED BY <2>1, <2>2, <2>3
<1>7. PICK s, t : s = Bytes(m, n) /\ t = Queue(cl[c]) \o s
  OBVIOUS
<1>8. t = Queue(cl'[c])
  BY <1>4, <1>5, <1>6, <1>7
<1>9. Waits' = [Waits EXCEPT ![c] = t]
  BY <1>2, <1>8 DEF Waits
<1>10. Waits[c] = Queue(cl[c])
  BY DEF Waits
<1> QED BY <1>3, <1>7, <1>9, <1>10

\* The queue after n bytes were written.
LEMMA QueueWrite ==
    ASSUME BooksIInv, BooksIInv', NEW c \in Client, c \in Open, Open' = Open,
           NEW n \in 1 .. made[c] - Len(wire[c]),
           wire' = [wire EXCEPT ![c] = @ \o Bytes(Len(wire[c]), n)], UNCHANGED made
    PROVE  /\ n \in 1 .. Len(Waits[c])
           /\ SubSeq(Waits[c], 1, n) = Bytes(Len(wire[c]), n)
           /\ Waits' = [Waits EXCEPT ![c] = SubSeq(@, n + 1, Len(@))]
<1>0. wire = [d \in Client |-> wire[d]]
  BY DEF BooksIInv, History
<1>1. wire'[c] = wire[c] \o Bytes(Len(wire[c]), n) /\ \A d \in Client \ {c} : wire'[d] = wire[d]
  BY <1>0
<1>2. \A d \in Client \ {c} : Queue(cl'[d]) = Queue(cl[d])
  <2> SUFFICES ASSUME NEW d \in Client \ {c} PROVE Queue(cl'[d]) = Queue(cl[d])
    OBVIOUS
  <2>1. /\ d \in Open => Queue(cl[d]) = Bytes(Len(wire[d]), made[d] - Len(wire[d]))
        /\ d \notin Open => Queue(cl[d]) = <<>>
    BY QueueBefore
  <2>2. /\ d \in Open' => Queue(cl'[d]) = Bytes(Len(wire'[d]), made'[d] - Len(wire'[d]))
        /\ d \notin Open' => Queue(cl'[d]) = <<>>
    BY QueueAfter
  <2> QED BY <1>1, <2>1, <2>2
<1>3. PICK w, m : w = Len(wire[c]) /\ m = made[c] /\ w \in Nat /\ m \in Nat /\ w <= m
                  /\ wire[c] \in Seq(Int)
  BY QueueBefore
<1>4. Queue(cl[c]) = Bytes(w, m - w)
  BY <1>3, QueueBefore
<1>5. PICK a : a = m - w
  OBVIOUS
<1>6. a \in Nat /\ n \in Nat /\ n >= 1 /\ n <= a /\ w \in Int
  BY <1>3, <1>5
<1>7. Bytes(w, n) \in Seq(Int) /\ Len(Bytes(w, n)) = n
  BY <1>6, BytesSeq
<1>8. Len(wire'[c]) = w + n
  <2>1. PICK s, u : s = Bytes(w, n) /\ u = wire[c]
    OBVIOUS
  <2>2. s \in Seq(Int) /\ u \in Seq(Int) /\ Len(s) = n /\ Len(u) = w /\ wire'[c] = u \o s
    BY <1>1, <1>3, <1>7, <2>1
  <2>3. Len(u \o s) = Len(u) + Len(s)
    BY <2>2, Concat
  <2> QED BY <2>2, <2>3
<1>9. Queue(cl'[c]) = Bytes(w + n, m - (w + n))
  <2>1. c \in Open' => Queue(cl'[c]) = Bytes(Len(wire'[c]), made'[c] - Len(wire'[c]))
    BY QueueAfter
  <2> QED BY <1>3, <1>8, <2>1
<1> DEFINE q == Bytes(w, a)
<1>10. Len(q) = a
  BY <1>6, BytesSeq
<1>11. SubSeq(q, 1, n) = Bytes(w, n)
  <2>1. 1 \in 1 .. a + 1 /\ n \in 1 - 1 .. a /\ w + 1 - 1 = w /\ n - 1 + 1 = n
    BY <1>6
  <2>2. SubSeq(q, 1, n) = Bytes(w + 1 - 1, n - 1 + 1)
    BY <1>6, <2>1, BytesSub
  <2> QED BY <2>1, <2>2
<1>12. SubSeq(q, n + 1, a) = Bytes(w + n, m - (w + n))
  <2>1. PICK b : b = n + 1
    OBVIOUS
  <2>2. /\ w \in Nat /\ m \in Nat /\ n \in Nat /\ n >= 1 /\ n <= a
        /\ a = m - w /\ a \in Nat /\ b = n + 1
    BY <1>3, <1>5, <1>6, <2>1
  <2>4. b \in 1 .. a + 1 /\ a \in b - 1 .. a /\ w + b - 1 = w + n /\ a - b + 1 = m - (w + n)
    BY ONLY <2>2
  <2>3. SubSeq(q, b, a) = Bytes(w + b - 1, a - b + 1)
    BY <1>6, <2>4, BytesSub
  <2> QED BY <2>1, <2>4, <2>3
<1> HIDE DEF q
<1>13. Waits[c] = q
  BY <1>4, <1>5 DEF Waits, q
<1>14. PICK t : t = SubSeq(q, n + 1, Len(q))
  OBVIOUS
<1>15. t = Queue(cl'[c])
  BY <1>9, <1>10, <1>12, <1>14
<1>16. Waits' = [Waits EXCEPT ![c] = t]
  BY <1>2, <1>15 DEF Waits
<1>17. n \in 1 .. a
  BY ONLY <1>6
<1>18. n \in 1 .. Len(Waits[c])
  BY <1>10, <1>13, <1>17
<1>19. SubSeq(Waits[c], 1, n) = Bytes(Len(wire[c]), n)
  BY <1>3, <1>11, <1>13
<1>20. Waits' = [Waits EXCEPT ![c] = SubSeq(Waits[c], n + 1, Len(Waits[c]))]
  BY <1>13, <1>14, <1>16
<1> QED BY <1>18, <1>19, <1>20

\* The queues after connections were closed, or opened with nothing to send.
LEMMA QueueKept ==
    ASSUME BooksIInv, BooksIInv', UNCHANGED <<made, wire>>, NEW gone \in SUBSET Open,
           \A c \in Open \ gone : c \in Open',
           \A c \in gone : c \notin Open',
           \A c \in Client : c \in Open' /\ c \notin Open => Len(wire[c]) = made[c]
    PROVE  Waits' = [c \in Client |-> IF c \in gone THEN <<>> ELSE Waits[c]]
<1>1. ASSUME NEW c \in Client
      PROVE  Queue(cl'[c]) = IF c \in gone THEN <<>> ELSE Queue(cl[c])
  <2>1. /\ wire[c] \in Seq(Int) /\ Len(wire[c]) \in Nat /\ made[c] \in Nat
        /\ c \in Open => Queue(cl[c]) = Bytes(Len(wire[c]), made[c] - Len(wire[c]))
        /\ c \notin Open => Queue(cl[c]) = <<>>
    BY QueueBefore
  <2>2. /\ c \in Open' => Queue(cl'[c]) = Bytes(Len(wire[c]), made[c] - Len(wire[c]))
        /\ c \notin Open' => Queue(cl'[c]) = <<>>
    <3>1. /\ c \in Open' => Queue(cl'[c]) = Bytes(Len(wire'[c]), made'[c] - Len(wire'[c]))
          /\ c \notin Open' => Queue(cl'[c]) = <<>>
      BY QueueAfter
    <3> QED BY <3>1
  <2>3. CASE c \in Open
    BY <2>1, <2>2, <2>3
  <2>4. CASE c \notin Open /\ c \notin Open'
    BY <2>1, <2>2, <2>4
  <2>5. CASE c \notin Open /\ c \in Open'
    <3>1. PICK w : w = Len(wire[c]) /\ w = made[c] /\ w \in Int
      BY <2>1, <2>5
    <3>2. w - w = 0 /\ Bytes(w, 0) = <<>>
      BY <3>1, BytesSeq
    <3>3. Queue(cl'[c]) = <<>>
      BY <2>2, <2>5, <3>1, <3>2
    <3> QED BY <2>1, <2>5, <3>3
  <2> QED BY <2>3, <2>4, <2>5
<1> QED BY <1>1 DEF Waits

\* Every step of the server is a step of the stream of replies, or none.
LEMMA StreamStep ==
    ASSUME BooksIInv, BooksIInv', Shown
    PROVE  [Stream!Next]_(Stream!vars)
<1>1. Waits = [c \in Client |-> Queue(cl[c])] /\ Waits' = [c \in Client |-> Queue(cl[c])]'
  BY DEF Waits
<1>2. Waits = [c \in Client |-> Waits[c]]
  BY DEF Waits
<1>3. CASE Same
  <2>1. Waits' = [c \in Client |-> IF c \in {} THEN <<>> ELSE Waits[c]]
    BY <1>3, QueueKept DEF Same
  <2>2. Waits' = Waits
    BY <1>2, <2>1
  <2> QED BY <1>1, <1>3, <2>2 DEF Same, Stream!vars
<1>4. ASSUME NEW c \in Client, Replied(c) PROVE Stream!Next
  <2>1. PICK n \in 1 .. MaxReply : made' = [made EXCEPT ![c] = @ + n]
    BY <1>4 DEF Replied
  <2>2. n \in Nat
    OBVIOUS
  <2>3. Waits' = [Waits EXCEPT ![c] = @ \o Bytes(made[c], n)]
    BY <1>4, <2>1, <2>2, QueueReply DEF Replied
  <2>4. Stream!Reply(c)
    BY <1>1, <1>4, <2>1, <2>3 DEF Replied, Stream!Reply, Bytes, MaxReply
  <2> QED BY <2>4 DEF Stream!Next
<1>5. ASSUME NEW c \in Client, Written(c) PROVE Stream!Next
  <2>1. PICK n \in 1 .. made[c] - Len(wire[c]) :
          wire' = [wire EXCEPT ![c] = @ \o Bytes(Len(wire[c]), n)]
    BY <1>5 DEF Written
  <2>2. /\ n \in 1 .. Len(Waits[c])
        /\ SubSeq(Waits[c], 1, n) = Bytes(Len(wire[c]), n)
        /\ Waits' = [Waits EXCEPT ![c] = SubSeq(@, n + 1, Len(@))]
    BY <1>5, <2>1, QueueWrite DEF Written
  <2>3. wire' = [wire EXCEPT ![c] = @ \o SubSeq(Waits[c], 1, n)]
    BY <2>1, <2>2
  <2>4. Stream!Write(c)
    BY <1>1, <1>5, <2>2, <2>3 DEF Written, Stream!Write
  <2> QED BY <2>4 DEF Stream!Next
<1>6. ASSUME NEW c \in Client, Opened(c) PROVE Stream!Next
  <2>1. Waits' = [d \in Client |-> IF d \in {} THEN <<>> ELSE Waits[d]]
    <3>1. /\ {} \in SUBSET Open /\ \A d \in Open \ {} : d \in Open'
          /\ \A d \in {} : d \notin Open'
          /\ \A d \in Client : d \in Open' /\ d \notin Open => Len(wire[d]) = made[d]
          /\ UNCHANGED <<made, wire>>
      BY <1>6 DEF Opened
    <3> QED BY <3>1, QueueKept
  <2>2. Waits' = Waits
    BY <1>2, <2>1
  <2>3. Stream!Open(c)
    BY <1>1, <1>6, <2>2 DEF Opened, Stream!Open
  <2> QED BY <2>3 DEF Stream!Next
<1>7. ASSUME NEW gone \in SUBSET Open, Closed(gone) PROVE Stream!Next
  <2>1. Waits' = [c \in Client |-> IF c \in gone THEN <<>> ELSE Waits[c]]
    BY <1>7, QueueKept DEF Closed
  <2>2. Stream!Close
    BY <1>1, <1>7, <2>1 DEF Closed, Stream!Close
  <2> QED BY <2>2 DEF Stream!Next
<1> QED BY <1>3, <1>4, <1>5, <1>6, <1>7 DEF Shown

\* The connections of the server implement the stream of replies: through the
\* static buffer, the list of blocks, the glued lengths and partial writes, each
\* socket gets the bytes of its replies in order, without gap or repetition.
THEOREM ServerImplementsStream == Spec => ImplementsStream
<1>1. Init => Stream!Init
  <2> SUFFICES ASSUME Init PROVE Stream!Init
    OBVIOUS
  <2>1. BooksIInv
    BY InitBooks
  <2>2. Open = {}
    BY DEF Init, Open, NoClient
  <2>3. [c \in Client |-> Queue(cl[c])] = [c \in Client |-> <<>>]
    BY <2>1, <2>2, QueueBefore
  <2> QED BY <2>2, <2>3 DEF Init, Stream!Init
<1>2. BooksIInv /\ [Next]_vars => [Stream!Next]_(Stream!vars)
  BY BooksStep, StreamStep
<1> QED BY <1>1, <1>2, InitBooks, BooksStep, PTL DEF Spec, ImplementsStream, Stream!Spec
=============================================================================
