---------------------------- MODULE RoomRegistry ----------------------------
(***************************************************************************)
(* What the room keys in Redis promise, whoever uses them: an id is opened *)
(* at most once in its life, a room closes together with its members in    *)
(* one step, a number has members only if it was opened, and another name  *)
(* only if it matches, as a pattern, an id that was opened.                *)
(*                                                                         *)
(* The registry does not promise that a closed room has no members: Join   *)
(* is allowed for every id that was ever opened.                           *)
(***************************************************************************)
CONSTANTS Pattern, Matches   \* names that are not numbers, and what they match

VARIABLES rooms, closed, members

registry == <<rooms, closed, members>>

Init == rooms = {} /\ closed = {} /\ members = {}

Opened == rooms \cup closed

\* Name n passes for a room that exists or did exist.
Passes(n) ==
    \/ n \in Opened \ Pattern
    \/ n \in Pattern /\ Matches[n] \cap Opened # {}

Open ==
    \E n \in rooms' \ rooms :
        /\ n \notin Opened
        /\ rooms' = rooms \cup {n}
        /\ UNCHANGED <<closed, members>>

Close ==
    \E n \in closed' :
        /\ Passes(n)
        /\ rooms' = rooms \ {n}
        /\ closed' = closed \cup {n}
        /\ members' = {m \in members : m[1] # n}

Join ==
    \E m \in members' \ members :
        /\ Passes(m[1])
        /\ members' = members \cup {m}
        /\ UNCHANGED <<rooms, closed>>

Leave ==
    \E m \in members \ members' :
        /\ members' = members \ {m}
        /\ UNCHANGED <<rooms, closed>>

Next == Open \/ Close \/ Join \/ Leave

Spec == Init /\ [][Next]_registry
=============================================================================
