----------------------------- MODULE Networking -----------------------------
(***************************************************************************)
(* The connections of the Redis server (networking.c) and its event loop   *)
(* (ae.c): commands arrive in pieces and are parsed as far as they go,     *)
(* their replies are collected in a static buffer and then in a list of    *)
(* blocks, and written before the loop sleeps or when the socket takes     *)
(* more.  The pipelines of the servers above rest on it: replies come back *)
(* whole and in the order of the commands.                                 *)
(*                                                                         *)
(* A byte of a reply is its position in the stream of replies of its       *)
(* connection.  A command is two tokens, its multibulk header and its      *)
(* arguments; a token that arrived in part is one that did not arrive, as  *)
(* the parser leaves it in the query buffer.  The server has one thread:   *)
(* job is the handler under way, and only the peers run beside it.         *)
(***************************************************************************)
EXTENDS Integers, Sequences

CONSTANTS
    Client,         \* the connections
    Scripts,        \* what the peers may send: a sequence of commands each
    Sizes,          \* lengths of the pieces that commands add to a reply
    Slack,          \* bytes that the allocator adds to a block
    BufSize,        \* size of the static buffer
    Chunk,          \* PROTO_REPLY_CHUNK_BYTES of a block of the list
    NetMax,         \* NET_MAX_WRITES_PER_EVENT
    SockCap,        \* bytes a socket holds until its peer takes them
    QueryLimit,     \* client_max_querybuf_len, in tokens
    HardLimit,      \* hard output buffer limit of normal clients, 0 for none
    NodeSize        \* list_item_size of getClientOutputBufferMemoryUsage

Kinds == {"call", "smembers", "quit", "pause", "on", "off", "skip", "empty", "bad",
          "badarg"}

ASSUME NetworkingAssumption ==
    /\ Scripts \subseteq [Client -> Seq(Kinds)]
    /\ Sizes \subseteq Nat \ {0}
    /\ \E n \in Sizes : \A m \in Sizes : m <= n
    /\ Slack \subseteq Nat
    /\ {BufSize, Chunk, NetMax, SockCap, QueryLimit} \subseteq Nat \ {0}
    /\ {HardLimit, NodeSize} \subseteq Nat

VARIABLES
    cl,         \* the client structures
    at,         \* where the event loop is
    job,        \* the handler under way
    fired,      \* events of the last poll not handled yet
    paused,     \* clients_paused, and whether clients_pause_end_time passed
    made,       \* history: bytes of reply that the commands made
    in,         \* tokens on the way to the server
    wire,       \* every byte written to the socket
    taken,      \* how many of them the peer took
    todo,       \* commands the peer has still to send
    peer        \* the state of the peer

server == <<cl, at, job, fired, paused, made>>

vars == <<cl, at, job, fired, paused, made, in, wire, taken, todo, peer>>

NoJob == [op |-> "none"]

\* The place of a length not known yet (addDeferredMultiBulkLength).
NullNode == [data |-> <<>>, size |-> 0]

\* createClient, before the socket is there; also what freeClient leaves.
NoClient ==
    [fd |-> "none", query |-> <<>>, multibulk |-> FALSE, buf |-> <<>>,
     reply |-> <<>>, sentlen |-> 0, bytes |-> 0, flags |-> {}, writable |-> FALSE]

Init ==
    /\ cl = [c \in Client |-> NoClient]
    /\ at = "before"
    /\ job = NoJob
    /\ fired = {}
    /\ paused = "no"
    /\ made = [c \in Client |-> 0]
    /\ in = [c \in Client |-> <<>>]
    /\ wire = [c \in Client |-> <<>>]
    /\ taken = [c \in Client |-> 0]
    /\ todo \in Scripts
    /\ peer = [c \in Client |-> "away"]

Open == {c \in Client : cl[c].fd = "open"}

Flagged(flag) == {c \in Client : flag \in cl[c].flags}

(***************************************************************************)
(* The output of one client k: operators from its structure to its         *)
(* structure after the call.                                               *)
(***************************************************************************)

\* clientHasPendingReplies.
HasPending(k) == k.buf # <<>> \/ k.reply # <<>>

\* prepareClientToWrite refuses.
Silent(k) == k.flags \cap {"off", "skip"} # {}

\* prepareClientToWrite accepts.
Prepare(k) ==
    IF HasPending(k) THEN k ELSE [k EXCEPT !.flags = @ \cup {"pending_write"}]

\* asyncCloseClientOnOutputBufferLimitReached.
CheckLimit(k) ==
    IF /\ HardLimit > 0
       /\ k.bytes > 0
       /\ k.bytes + NodeSize * Len(k.reply) >= HardLimit
    THEN [k EXCEPT !.flags = @ \cup {"close_asap"}]
    ELSE k

\* Mutant: a new block counts for what it holds.
ToListUsed(k, s, slack) ==
    LET n == Len(k.reply)
        avail == IF n = 0 THEN 0 ELSE k.reply[n].size - Len(k.reply[n].data)
        copy == IF avail >= Len(s) THEN Len(s) ELSE avail
        rest == SubSeq(s, copy + 1, Len(s))
        size == (IF Len(rest) < Chunk THEN Chunk ELSE Len(rest)) + slack
        tail == IF copy = 0 THEN k.reply
                ELSE [k.reply EXCEPT ![n].data = @ \o SubSeq(s, 1, copy)]
    IN IF rest = <<>> THEN [k EXCEPT !.reply = tail]
       ELSE [k EXCEPT !.reply = Append(tail, [data |-> rest, size |-> size]),
                      !.bytes = @ + Len(rest)]

\* _addReplyStringToList: what fits in the last block, the rest in a new one.
ToList(k, s, slack) ==
    LET n == Len(k.reply)
        avail == IF n = 0 THEN 0 ELSE k.reply[n].size - Len(k.reply[n].data)
        copy == IF avail >= Len(s) THEN Len(s) ELSE avail
        rest == SubSeq(s, copy + 1, Len(s))
        size == (IF Len(rest) < Chunk THEN Chunk ELSE Len(rest)) + slack
        tail == IF copy = 0 THEN k.reply
                ELSE [k.reply EXCEPT ![n].data = @ \o SubSeq(s, 1, copy)]
    IN CheckLimit(
        IF rest = <<>> THEN [k EXCEPT !.reply = tail]
        ELSE [k EXCEPT !.reply = Append(tail, [data |-> rest, size |-> size]),
                       !.bytes = @ + size])

\* Mutant: the static buffer is used while the list has entries.
AddReplyToBuffer(k, s, slack) ==
    IF Silent(k) THEN k
    ELSE IF Len(s) <= BufSize - Len(k.buf) THEN [Prepare(k) EXCEPT !.buf = @ \o s]
    ELSE ToList(Prepare(k), s, slack)

\* addReply, with _addReplyToBuffer.
AddReply(k, s, slack) ==
    IF Silent(k) THEN k
    ELSE IF "close_after" \in k.flags THEN Prepare(k)
    ELSE IF k.reply = <<>> /\ Len(s) <= BufSize - Len(k.buf)
         THEN [Prepare(k) EXCEPT !.buf = @ \o s]
         ELSE ToList(Prepare(k), s, slack)

\* addDeferredMultiBulkLength.
AddDeferred(k) ==
    IF Silent(k) THEN k ELSE [Prepare(k) EXCEPT !.reply = Append(@, NullNode)]

\* setDeferredMultiBulkLength: s, the length, goes in front of the block after
\* its place if it fits there, and otherwise into a block of its own.
SetDeferred(k, node, s, slack) ==
    IF Silent(k) THEN k
    ELSE LET next == k.reply[node + 1]
             glue == /\ node < Len(k.reply)
                     /\ next.size - Len(next.data) >= Len(s)
                     /\ Len(next.data) < Chunk * 4
             size == Len(s) + slack
         IN CheckLimit(
             IF glue
             THEN [k EXCEPT !.reply =
                      SubSeq(k.reply, 1, node - 1)
                      \o <<[data |-> s \o next.data, size |-> next.size]>>
                      \o SubSeq(k.reply, node + 2, Len(k.reply))]
             ELSE [k EXCEPT !.reply =
                                [k.reply EXCEPT ![node] = [data |-> s, size |-> size]],
                            !.bytes = @ + size])

\* resetClient.
Reset(k) ==
    [k EXCEPT !.multibulk = FALSE,
              !.flags = (@ \ {"skip", "skip_next"})
                        \cup IF "skip_next" \in @ THEN {"skip"} ELSE {}]

\* The n bytes of reply that follow the first m.
Bytes(m, n) == [i \in 1 .. n |-> m + i]

\* The sizes of the blocks of a list, added up.
ReplySize(reply) ==
    LET size[i \in 0 .. Len(reply)] == IF i = 0 THEN 0 ELSE size[i - 1] + reply[i].size
    IN size[Len(reply)]

\* What the blocks of a list hold, one after the other.
Joined(reply) ==
    LET data[i \in 0 .. Len(reply)] == IF i = 0 THEN <<>> ELSE data[i - 1] \o reply[i].data
    IN data[Len(reply)]

(***************************************************************************)
(* The peers.                                                              *)
(***************************************************************************)

Connect(c) ==
    /\ peer[c] = "away"
    /\ peer' = [peer EXCEPT ![c] = "here"]
    /\ UNCHANGED <<server, in, wire, taken, todo>>

\* The tokens of a command; a malformed one is wrong from its header on, or after
\* a header that is read.
Tokens(kind) ==
    CASE kind = "empty" -> <<"*0">>
      [] kind = "bad" -> <<"bad">>
      [] kind = "badarg" -> <<"*", "bad">>
      [] OTHER -> <<"*", kind>>

\* What is sent to a socket that the server closed is lost, and left out.
Send(c) ==
    /\ peer[c] = "here"
    /\ cl[c].fd # "closed"
    /\ todo[c] # <<>>
    /\ in' = [in EXCEPT ![c] = @ \o Tokens(Head(todo[c]))]
    /\ todo' = [todo EXCEPT ![c] = Tail(@)]
    /\ UNCHANGED <<server, wire, taken, peer>>

Take(c) ==
    /\ peer[c] = "here"
    /\ taken[c] < Len(wire[c])
    /\ taken' = [taken EXCEPT ![c] = Len(wire[c])]
    /\ UNCHANGED <<server, in, wire, todo, peer>>

\* The peer closes its end, or dies.
Leave(c) ==
    /\ peer[c] = "here"
    /\ peer' = [peer EXCEPT ![c] = "gone"]
    /\ UNCHANGED <<server, in, wire, taken, todo>>

(***************************************************************************)
(* The event loop.                                                         *)
(***************************************************************************)

\* freeClient of every client in gone.
FreeClients(gone) ==
    [c \in Client |-> IF c \in gone THEN [NoClient EXCEPT !.fd = "closed"] ELSE cl[c]]

\* Mutant: the end of a pause is noted and nothing else.
ResumeAlone(clients) == clients

\* clientsArePaused when the pause is over: all clients are looked at again.
Resume(clients) ==
    [c \in Client |->
        IF clients[c].fd = "open" THEN [clients[c] EXCEPT !.flags = @ \cup {"unblocked"}]
        ELSE clients[c]]

\* Mutant: a client is taken from the list and left at that.
UnblockedLeft ==
    /\ at = "before"
    /\ job = NoJob
    /\ \E c \in Flagged("unblocked") : cl' = [cl EXCEPT ![c].flags = @ \ {"unblocked"}]
    /\ UNCHANGED <<at, job, fired, paused, made, in, wire, taken, todo, peer>>

\* beforeSleep, processUnblockedClients: the next of unblocked_clients.
Unblocked ==
    /\ at = "before"
    /\ job = NoJob
    /\ \E c \in Flagged("unblocked") :
        /\ cl' = [cl EXCEPT ![c].flags = @ \ {"unblocked"}]
        /\ job' = IF cl[c].query # <<>> THEN [op |-> "input", c |-> c] ELSE NoJob
    /\ UNCHANGED <<at, fired, paused, made, in, wire, taken, todo, peer>>

\* beforeSleep, handleClientsWithPendingWrites: the next of
\* clients_pending_write.
Pending ==
    /\ at = "before"
    /\ job = NoJob
    /\ Flagged("unblocked") = {}
    /\ \E c \in Flagged("pending_write") :
        /\ cl' = [cl EXCEPT ![c].flags = @ \ {"pending_write"}]
        /\ job' = [op |-> "write", c |-> c, handler |-> FALSE, tot |-> 0]
    /\ UNCHANGED <<at, fired, paused, made, in, wire, taken, todo, peer>>

\* beforeSleep is done.
Sleeps ==
    /\ at = "before"
    /\ job = NoJob
    /\ Flagged("unblocked") \cup Flagged("pending_write") = {}

Space(c) == SockCap - (Len(wire[c]) - taken[c])

\* Mutant: the write handler waits for something to read.
ReadyToRead ==
    {<<c, "accept">> : c \in {c \in Client : peer[c] # "away" /\ cl[c].fd = "none"}}
    \cup {<<c, "read">> : c \in {c \in Open : in[c] # <<>> \/ peer[c] = "gone"}}
    \cup {<<c, "write">> : c \in {c \in Open : cl[c].writable /\ in[c] # <<>>}}

\* The events that aeApiPoll reports: a connection to accept, something to
\* read, and room to write where the handler is installed.
Ready ==
    {<<c, "accept">> : c \in {c \in Client : peer[c] # "away" /\ cl[c].fd = "none"}}
    \cup {<<c, "read">> : c \in {c \in Open : in[c] # <<>> \/ peer[c] = "gone"}}
    \cup {<<c, "write">> : c \in {c \in Open :
            cl[c].writable /\ (Space(c) > 0 \/ peer[c] = "gone")}}

\* aeProcessEvents sleeps until there is an event or the timer is due.
Poll ==
    /\ Sleeps
    /\ fired' = Ready
    /\ at' = IF Ready = {} THEN "cron" ELSE "events"
    /\ UNCHANGED <<cl, job, paused, made, in, wire, taken, todo, peer>>

\* The events are handled; the timer may be due as well.
EventsEnd ==
    /\ at = "events"
    /\ job = NoJob
    /\ fired = {}
    /\ at' \in {"cron", "before"}
    /\ UNCHANGED <<cl, job, fired, paused, made, in, wire, taken, todo, peer>>

\* The handler of event e of client c is called.
Fires(c, e) ==
    /\ at = "events"
    /\ job = NoJob
    /\ <<c, e>> \in fired
    /\ fired' = fired \ {<<c, e>>}

\* acceptCommonHandler.  A client too many is refused with an error line and
\* freed; other connections than these may have reached maxclients.
Accept(c) ==
    /\ Fires(c, "accept")
    /\ cl[c].fd = "none"
    /\ \E fd \in {"open", "closed"} : cl' = [cl EXCEPT ![c].fd = fd]
    /\ UNCHANGED <<at, job, paused, made, in, wire, taken, todo, peer>>

\* readQueryFromClient: read takes what has arrived.
Read(c) ==
    /\ Fires(c, "read")
    /\ c \in Open
    /\ \E n \in 1 .. Len(in[c]) :
        LET query == cl[c].query \o SubSeq(in[c], 1, n) IN
        /\ in' = [in EXCEPT ![c] = SubSeq(@, n + 1, Len(@))]
        /\ \/ /\ Len(query) > QueryLimit
              /\ cl' = FreeClients({c})
              /\ UNCHANGED job
           \/ /\ Len(query) <= QueryLimit
              /\ cl' = [cl EXCEPT ![c].query = query]
              /\ job' = [op |-> "input", c |-> c]
    /\ UNCHANGED <<at, paused, made, wire, taken, todo, peer>>

\* readQueryFromClient: end of file, or an error.
ReadEnd(c) ==
    /\ Fires(c, "read")
    /\ c \in Open
    /\ peer[c] = "gone"
    /\ cl' = FreeClients({c})
    /\ UNCHANGED <<at, job, paused, made, in, wire, taken, todo, peer>>

\* sendReplyToClient, after the read handler of the same connection.
SendReply(c) ==
    /\ Fires(c, "write")
    /\ <<c, "read">> \notin fired
    /\ cl[c].writable
    /\ job' = [op |-> "write", c |-> c, handler |-> TRUE, tot |-> 0]
    /\ UNCHANGED <<cl, at, paused, made, in, wire, taken, todo, peer>>

\* An event whose handler was removed since the poll.
Stale(c) ==
    /\ Fires(c, "write")
    /\ ~ cl[c].writable
    /\ UNCHANGED <<cl, at, job, paused, made, in, wire, taken, todo, peer>>

\* serverCron: freeClientsInAsyncFreeQueue, then clientsArePaused by the time
\* that it has just read.
Cron ==
    /\ at = "cron"
    /\ job = NoJob
    /\ at' = "before"
    /\ \/ /\ paused # "over"
          /\ cl' = FreeClients(Flagged("close_asap"))
          /\ UNCHANGED paused
       \/ /\ paused # "no"
          /\ cl' = Resume(FreeClients(Flagged("close_asap")))
          /\ paused' = "no"
    /\ UNCHANGED <<job, fired, made, in, wire, taken, todo, peer>>

(***************************************************************************)
(* processInputBuffer of the client of job, one turn of its loop a step.   *)
(***************************************************************************)

Busy(op, c) == job.op = op /\ job.c = c

\* Mutant: a client that is to be closed is served on.
StopsOnlyEmpty(c) == cl[c].query = <<>> \/ paused = "on"

\* The tests at the top of the loop, and a token that has not arrived.
Stops(c) ==
    \/ cl[c].query = <<>>
    \/ paused = "on"
    \/ paused = "no" /\ cl[c].flags \cap {"close_after", "close_asap"} # {}

InputEnd(c) ==
    /\ Busy("input", c)
    /\ Stops(c)
    /\ job' = NoJob
    /\ UNCHANGED <<cl, at, fired, paused, made, in, wire, taken, todo, peer>>

\* clientsArePaused, at the top of the loop.
InputResume(c) ==
    /\ Busy("input", c)
    /\ cl[c].query # <<>>
    /\ paused = "over"
    /\ cl' = Resume(cl)
    /\ paused' = "no"
    /\ UNCHANGED <<at, job, fired, made, in, wire, taken, todo, peer>>

\* The loop goes on, to the next token; the arguments follow their header, and
\* what is malformed may be either.
Parses(c, token) ==
    /\ Busy("input", c)
    /\ ~ Stops(c)
    /\ paused = "no"
    /\ Head(cl[c].query) = token
    /\ token = "bad" \/ (cl[c].multibulk <=> token \notin {"*", "*0"})

\* Client c with the first token consumed.
Consume(c) == [cl[c] EXCEPT !.query = Tail(@), !.multibulk = FALSE]

\* processMultibulkBuffer: a header; its arguments may come later.
Header(c) ==
    /\ Parses(c, "*")
    /\ cl' = [cl EXCEPT ![c] = [Consume(c) EXCEPT !.multibulk = TRUE]]
    /\ UNCHANGED <<at, job, fired, paused, made, in, wire, taken, todo, peer>>

\* A multibulk of no arguments.
EmptyCommand(c) ==
    /\ Parses(c, "*0")
    /\ cl' = [cl EXCEPT ![c] = Reset(Consume(c))]
    /\ UNCHANGED <<at, job, fired, paused, made, in, wire, taken, todo, peer>>

\* The client structure of c becomes k, and its commands made n more bytes.
Answers(c, k, n) ==
    /\ cl' = [cl EXCEPT ![c] = k]
    /\ made' = [made EXCEPT ![c] = IF Silent(cl[c]) THEN @ ELSE @ + n]
    /\ UNCHANGED <<at, job, fired, in, wire, taken, todo, peer>>

\* setProtocolError, on a header or on the arguments after one.
ProtocolError(c) ==
    /\ Parses(c, "bad")
    /\ \E n \in Sizes, slack \in Slack :
        Answers(c, [AddReply(cl[c], Bytes(made[c], n), slack)
                        EXCEPT !.flags = @ \cup {"close_after"}], n)
    /\ UNCHANGED paused

\* processCommand, QUIT.
Quit(c) ==
    /\ Parses(c, "quit")
    /\ \E slack \in Slack :
        Answers(c, [AddReply(Consume(c), Bytes(made[c], 1), slack)
                        EXCEPT !.flags = @ \cup {"close_after"}], 1)
    /\ UNCHANGED paused

\* A command that adds its reply in one piece.
Call(c) ==
    /\ Parses(c, "call")
    /\ \E n \in Sizes, slack \in Slack :
        Answers(c, Reset(AddReply(Consume(c), Bytes(made[c], n), slack)), n)
    /\ UNCHANGED paused

\* SMEMBERS (sinterGenericCommand): the length is known after the members.
Smembers(c) ==
    /\ Parses(c, "smembers")
    /\ \E n \in Sizes, m \in Sizes, slack \in Slack :
        LET k == AddDeferred(Consume(c))
            one == AddReply(k, Bytes(made[c] + 1, n), slack)
            two == AddReply(one, Bytes(made[c] + 1 + n, m), slack)
        IN Answers(c, Reset(SetDeferred(two, Len(k.reply), Bytes(made[c], 1), slack)),
                   1 + n + m)
    /\ UNCHANGED paused

\* CLIENT PAUSE; a pause of 0 ms is over at once.
Pause(c) ==
    /\ Parses(c, "pause")
    /\ paused' \in {"on", "over"}
    /\ \E slack \in Slack :
        Answers(c, Reset(AddReply(Consume(c), Bytes(made[c], 1), slack)), 1)

\* CLIENT REPLY ON.
ReplyOn(c) ==
    /\ Parses(c, "on")
    /\ \E slack \in Slack :
        LET k == [Consume(c) EXCEPT !.flags = @ \ {"off", "skip"}] IN
        /\ cl' = [cl EXCEPT ![c] = Reset(AddReply(k, Bytes(made[c], 1), slack))]
        /\ made' = [made EXCEPT ![c] = @ + 1]
    /\ UNCHANGED <<at, job, fired, paused, in, wire, taken, todo, peer>>

\* CLIENT REPLY OFF.
ReplyOff(c) ==
    /\ Parses(c, "off")
    /\ cl' = [cl EXCEPT ![c] = Reset([Consume(c) EXCEPT !.flags = @ \cup {"off"}])]
    /\ UNCHANGED <<at, job, fired, paused, made, in, wire, taken, todo, peer>>

\* CLIENT REPLY SKIP.
ReplySkip(c) ==
    /\ Parses(c, "skip")
    /\ cl' = [cl EXCEPT ![c] = Reset(
                IF "off" \in cl[c].flags THEN Consume(c)
                ELSE [Consume(c) EXCEPT !.flags = @ \cup {"skip_next"}])]
    /\ UNCHANGED <<at, job, fired, paused, made, in, wire, taken, todo, peer>>

(***************************************************************************)
(* writeToClient of the client of job, one write a step.                   *)
(***************************************************************************)

\* Client k after n bytes were written: a buffer that is all sent is emptied,
\* a block that is all sent is deleted.
Advance(k, n) ==
    LET source == IF k.buf # <<>> THEN k.buf ELSE k.reply[1].data
        done == k.sentlen + n = Len(source)
    IN IF ~ done THEN [k EXCEPT !.sentlen = @ + n]
       ELSE IF k.buf # <<>> THEN [k EXCEPT !.buf = <<>>, !.sentlen = 0]
       ELSE [k EXCEPT !.reply = Tail(@), !.sentlen = 0, !.bytes = @ - k.reply[1].size]

\* The bytes the next write offers.
Offer(k) ==
    LET source == IF k.buf # <<>> THEN k.buf ELSE k.reply[1].data
    IN SubSeq(source, k.sentlen + 1, Len(source))

\* One write, as long as less than NetMax was written.
Write(c) ==
    /\ Busy("write", c)
    /\ job.tot <= NetMax
    /\ HasPending(cl[c])
    /\ Space(c) > 0
    /\ LET offer == Offer(cl[c])
           n == IF Len(offer) < Space(c) THEN Len(offer) ELSE Space(c)
       IN /\ wire' = [wire EXCEPT ![c] = @ \o SubSeq(offer, 1, n)]
          /\ cl' = [cl EXCEPT ![c] = Advance(@, n)]
          /\ job' = [job EXCEPT !.tot = @ + n]
    /\ UNCHANGED <<at, fired, paused, made, in, taken, todo, peer>>

\* Mutant: a client that was to be closed stays.
DrainedOpen(c) == [cl EXCEPT ![c].writable = @ /\ ~ job.handler]

\* All is sent: the write handler goes, or with CLIENT_CLOSE_AFTER_REPLY the
\* client.
Drained(c) ==
    IF "close_after" \in cl[c].flags THEN FreeClients({c})
    ELSE [cl EXCEPT ![c].sentlen = 0, ![c].writable = @ /\ ~ job.handler]

WriteAll(c) ==
    /\ Busy("write", c)
    /\ ~ HasPending(cl[c])
    /\ cl' = Drained(c)
    /\ job' = NoJob
    /\ UNCHANGED <<at, fired, paused, made, in, wire, taken, todo, peer>>

\* Mutant: handleClientsWithPendingWrites leaves the rest to nobody.
LeaveRestAlone(c) == UNCHANGED cl

\* The write handler does the rest: handleClientsWithPendingWrites installs it,
\* and if that fails has the client freed.
LeaveRest(c) ==
    \/ job.handler /\ UNCHANGED cl
    \/ ~ job.handler /\ cl' = [cl EXCEPT ![c].writable = TRUE]
    \/ ~ job.handler /\ cl' = [cl EXCEPT ![c].flags = @ \cup {"close_asap"}]

\* The socket is full, or enough was written for one turn.
WriteRest(c) ==
    /\ Busy("write", c)
    /\ HasPending(cl[c])
    /\ job.tot > NetMax \/ Space(c) = 0
    /\ LeaveRest(c)
    /\ job' = NoJob
    /\ UNCHANGED <<at, fired, paused, made, in, wire, taken, todo, peer>>

\* The write fails.
WriteError(c) ==
    /\ Busy("write", c)
    /\ HasPending(cl[c])
    /\ job.tot <= NetMax
    /\ peer[c] = "gone"
    /\ cl' = FreeClients({c})
    /\ job' = NoJob
    /\ UNCHANGED <<at, fired, paused, made, in, wire, taken, todo, peer>>

(***************************************************************************)
(* The specification.                                                      *)
(***************************************************************************)

Input(c) ==
    \/ InputEnd(c) \/ InputResume(c)
    \/ Header(c) \/ EmptyCommand(c) \/ ProtocolError(c)
    \/ Quit(c) \/ Call(c) \/ Smembers(c) \/ Pause(c)
    \/ ReplyOn(c) \/ ReplyOff(c) \/ ReplySkip(c)

Output(c) == Write(c) \/ WriteAll(c) \/ WriteRest(c) \/ WriteError(c)

Event(c) == Accept(c) \/ Read(c) \/ ReadEnd(c) \/ SendReply(c) \/ Stale(c)

Server ==
    \/ Unblocked \/ Pending \/ Poll \/ EventsEnd \/ Cron
    \/ \E c \in Client : Event(c) \/ Input(c) \/ Output(c)

Peer(c) == Connect(c) \/ Send(c) \/ Take(c) \/ Leave(c)

Next == Server \/ \E c \in Client : Peer(c)

Spec == Init /\ [][Next]_vars

\* The event loop, which always has a next step, runs; a pause ends; and a peer
\* that is there takes what arrives.
FairSpec ==
    /\ Spec
    /\ []<><<Server>>_vars
    /\ SF_vars(Cron /\ paused' = "no")
    /\ \A c \in Client : WF_vars(Take(c))

(***************************************************************************)
(* Properties.                                                             *)
(***************************************************************************)

Flag == {"pending_write", "close_after", "close_asap", "unblocked", "off", "skip",
         "skip_next"}

\* The state stays within its types: a structure that is not open holds
\* nothing, only open clients have work to do, and no byte of a reply is kept
\* that was not made.
TypeOK ==
    /\ at \in {"before", "events", "cron"}
    /\ paused \in {"no", "on", "over"}
    /\ job = NoJob \/ (job.op \in {"input", "write"} /\ job.c \in Open)
    /\ fired \subseteq Client \X {"accept", "read", "write"}
    /\ \A c \in Client :
        /\ cl[c].fd \in {"none", "open", "closed"}
        /\ cl[c].flags \subseteq Flag
        /\ c \in Open \/ cl[c] = [NoClient EXCEPT !.fd = cl[c].fd]
        /\ taken[c] <= Len(wire[c])
        /\ Len(wire[c]) <= made[c]

\* clientHasPendingReplies may keep prepareClientToWrite from scheduling the
\* client only if it is scheduled already: a reply that waits has the client in
\* clients_pending_write, its write handler installed, a write under way, or
\* the client is about to be freed.
NoReplyStranded ==
    \A c \in Open : HasPending(cl[c]) =>
        \/ cl[c].writable
        \/ cl[c].flags \cap {"pending_write", "close_asap"} # {}
        \/ Busy("write", c)

\* Nothing signals the socket again for input that was read already: what the
\* query buffer holds is being parsed, waits for the end of a pause or in
\* unblocked_clients for the next turn, or belongs to a client that is closed.
NoCommandStranded ==
    \A c \in Open : cl[c].query # <<>> =>
        \/ Busy("input", c)
        \/ paused # "no"
        \/ cl[c].flags \cap {"unblocked", "close_after", "close_asap"} # {}

\* reply_bytes is the size of the blocks in the list, which writeToClient
\* asserts when the list is empty and the output limits rely on; every place
\* for a length was filled; and sentlen is short of the end of what is sent.
Accounted ==
    \A c \in Client : LET k == cl[c] IN
        /\ k.bytes = ReplySize(k.reply)
        /\ \A i \in DOMAIN k.reply : Len(k.reply[i].data) \in 1 .. k.reply[i].size
        /\ Len(k.buf) <= BufSize
        /\ IF HasPending(k) THEN Offer(k) # <<>> ELSE k.sentlen = 0

\* The write handler is there for data only: the loop does not wake for a
\* socket that it has nothing to write to.
HandlerNeeded ==
    Sleeps => \A c \in Open : cl[c].writable => HasPending(cl[c])

\* The books of the output agree with each other: types, sizes, what was sent,
\* and the handlers that are installed for it.
BooksInv == TypeOK /\ Accounted /\ HandlerNeeded

\* QUIT and a protocol error are answered, after all that came before them and
\* as the last: nothing that runs later adds to the replies, and the socket is
\* closed when they are sent, unless the peer left, a limit or a failed handler
\* closes it, or the peer goes on sending more than a query buffer may hold.
QuitIsLast ==
    [][\A c \in Flagged("close_after") :
        /\ made'[c] = made[c]
        /\ cl'[c].fd = "closed" =>
            \/ Len(wire[c]) = made[c]
            \/ peer[c] = "gone"
            \/ "close_asap" \in cl[c].flags
            \/ Len(cl[c].query) + Len(in[c]) > QueryLimit]_vars

\* The bytes that wait, in the order in which they will be written.
Queue(k) ==
    LET all == k.buf \o Joined(k.reply)
    IN SubSeq(all, k.sentlen + 1, Len(all))

Stream == INSTANCE ReplyStream WITH
    MaxReply <- 1 + 2 * (CHOOSE n \in Sizes : \A m \in Sizes : m <= n),
    open <- Open,
    queue <- [c \in Client |-> Queue(cl[c])]

\* The static buffer, the blocks and the glued lengths are together one queue:
\* the socket gets the replies whole and in the order of the commands.
ImplementsStream == Stream!Spec

Over(c) == cl[c].fd = "closed" \/ peer[c] = "gone"

\* Every reply reaches a peer that stays and reads, unless the connection is
\* closed.
RepliesArrive ==
    \A c \in Client : taken[c] < made[c] ~> taken[c] = made[c] \/ Over(c)

\* Every command that was sent is read and run, unless the connection is closed
\* or about to be.
CommandsRun ==
    \A c \in Client :
        (c \in Open /\ (in[c] # <<>> \/ cl[c].query # <<>>))
        ~> \/ in[c] = <<>> /\ cl[c].query = <<>>
           \/ Over(c)
           \/ "close_after" \in cl[c].flags

\* A client with a last reply to send is closed, once it took it.
LastReplyCloses ==
    \A c \in Client :
        (c \in Flagged("close_after") /\ HasPending(cl[c])) ~> cl[c].fd = "closed"
=============================================================================
