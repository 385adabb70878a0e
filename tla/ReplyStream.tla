---------------------------- MODULE ReplyStream ----------------------------
(***************************************************************************)
(* What a connection to Redis promises to its client: the replies of the   *)
(* commands that ran are one stream of bytes, that reaches the socket in   *)
(* order, without gap or repetition, until the connection is closed.       *)
(*                                                                         *)
(* A byte is its position in the stream of replies, so that a byte lost,   *)
(* sent twice or out of order shows.                                       *)
(***************************************************************************)
EXTENDS Integers, Sequences

CONSTANTS
    Client,     \* the connections
    MaxReply    \* the longest reply of one command

VARIABLES
    open,       \* the connections that are open
    made,       \* bytes of reply that the commands run so far made
    queue,      \* the bytes made and not written yet
    wire        \* the bytes written to the socket

vars == <<open, made, queue, wire>>

Init ==
    /\ open = {}
    /\ made = [c \in Client |-> 0]
    /\ queue = [c \in Client |-> <<>>]
    /\ wire = [c \in Client |-> <<>>]

Open(c) ==
    /\ open' = open \cup {c}
    /\ UNCHANGED <<made, queue, wire>>

\* A command ran: its reply follows the replies before it.
Reply(c) ==
    /\ c \in open
    /\ \E n \in 1 .. MaxReply :
        /\ made' = [made EXCEPT ![c] = @ + n]
        /\ queue' = [queue EXCEPT ![c] = @ \o [i \in 1 .. n |-> made[c] + i]]
    /\ UNCHANGED <<open, wire>>

\* Some of what waits is written.
Write(c) ==
    /\ c \in open
    /\ \E n \in 1 .. Len(queue[c]) :
        /\ wire' = [wire EXCEPT ![c] = @ \o SubSeq(queue[c], 1, n)]
        /\ queue' = [queue EXCEPT ![c] = SubSeq(@, n + 1, Len(@))]
    /\ UNCHANGED <<open, made>>

\* Connections are closed, and what waits for them is dropped.
Close ==
    /\ \E gone \in SUBSET open :
        /\ open' = open \ gone
        /\ queue' = [c \in Client |-> IF c \in gone THEN <<>> ELSE queue[c]]
    /\ UNCHANGED <<made, wire>>

Next == Close \/ \E c \in Client : Open(c) \/ Reply(c) \/ Write(c)

Spec == Init /\ [][Next]_vars
=============================================================================
