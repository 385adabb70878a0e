---------------------------- MODULE DurableStore ----------------------------
(***************************************************************************)
(* What a Redis configured as redis.conf does (RDB snapshots, no append    *)
(* only file) promises its clients.  The store moves from one state to the *)
(* next in atomic commits; `log' is the sequence of those states, the last *)
(* one is in memory, and the one at `durable' is on the disk.  A restart   *)
(* falls back to the durable state and forgets what came after it, never   *)
(* less, never half of a commit, and the durable state only moves forward. *)
(*                                                                         *)
(* There is one exception, which the code does not exclude: a saving child *)
(* that outlives its server may still put its image on the disk.  Such     *)
(* images are in `abandoned'.                                              *)
(***************************************************************************)
EXTENDS Naturals, Sequences

CONSTANTS State, Initial

VARIABLES mem, disk, log, durable, abandoned

vars == <<mem, disk, log, durable, abandoned>>

Init ==
    /\ mem = Initial
    /\ disk = Initial
    /\ log = <<Initial>>
    /\ durable = 1
    /\ abandoned = {}

\* One command, or all the commands of one transaction.
Commit ==
    /\ mem' \in State \ {mem}
    /\ log' = Append(log, mem')
    /\ UNCHANGED <<disk, durable, abandoned>>

\* A snapshot of some state since the durable one is complete.
Persist ==
    \E i \in durable .. Len(log) :
        /\ durable' = i
        /\ disk' = log[i]
        /\ UNCHANGED <<mem, log, abandoned>>

\* A commit that is on the disk before it is acknowledged.
CommitSaved ==
    /\ mem' \in State \ {mem}
    /\ log' = Append(log, mem')
    /\ disk' = mem'
    /\ durable' = Len(log')
    /\ UNCHANGED abandoned

\* The server stops or starts: what is not on the disk is gone.  A child may
\* go on writing a state that was current since the durable one.
Restart ==
    /\ mem' = disk
    /\ log' = SubSeq(log, 1, durable)
    /\ abandoned' \subseteq
            abandoned \cup {log[i] : i \in durable .. Len(log)}
    /\ UNCHANGED <<disk, durable>>

\* A child of an earlier server ends, and puts its image on the disk or not.
Overwrite ==
    \E s \in abandoned :
        /\ disk' = s
        /\ log' = <<s>> \o log
        /\ durable' = 1
        /\ abandoned' \subseteq abandoned
        /\ UNCHANGED mem

Abandon ==
    /\ abandoned' \subseteq abandoned
    /\ UNCHANGED <<mem, disk, log, durable>>

Next == Commit \/ CommitSaved \/ Persist \/ Restart \/ Overwrite \/ Abandon

Spec == Init /\ [][Next]_vars
=============================================================================
