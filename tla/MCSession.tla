----------------------------- MODULE MCSession -----------------------------
(* Small instances of Session for TLC.                                     *)
EXTENDS Session, TLC

CONSTANTS h1, h2, s1, s2, s3, alice, bob

\* Two sockets on one server, the third on the other.
HomeTwoOne == s1 :> h1 @@ s2 :> h1 @@ s3 :> h2

\* Two sockets, one on each server.
HomeApart == s1 :> h1 @@ s2 :> h2

\* Two sockets on the same server.
HomeTogether == s1 :> h1 @@ s2 :> h1

\* Each user's pattern selects its own keys.
MatchesOwn == [u \in User |-> {u}]

\* bob's id extends alice's with a hyphen ("a" and "a-b"), so that the pattern
\* OnlineUserKey-a-* selects bob's keys too.
MatchesHyphen == alice :> {alice, bob} @@ bob :> {bob}
\* s1 and s2 are interchangeable under HomeTwoOne.
Twins == Permutations({s1, s2})
=============================================================================
