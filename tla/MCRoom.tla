------------------------------- MODULE MCRoom -------------------------------
(* Small instances of Room for TLC.                                        *)
EXTENDS Room, TLC

CONSTANTS h1, h2, s1, s2, alice, bob, q1, q2, star

HomeApart == s1 :> h1 @@ s2 :> h2
HomeOne == s1 :> h1

\* Two users with a connection each.
TwoUsers == s1 :> {alice} @@ s2 :> {bob}

\* The permutations that keep who is connected where, and as whom: under HomeApart
\* and TwoUsers the users swap together with their connections and servers.
Mirror ==
    {p \in Permutations(Socket \cup Server \cup User) :
        \A s \in Socket : /\ p[s] \in Socket
                          /\ Home[p[s]] = p[Home[s]]
                          /\ LoginAs[p[s]] = {p[u] : u \in LoginAs[s]}}

\* One user.
OneUser == [s \in Socket |-> {alice}]

\* "*" matches every room that the runs can create.
Globs == [p \in Pattern |-> 1 .. MaxRequest]
=============================================================================
