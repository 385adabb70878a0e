------------------------------ MODULE MCNotice ------------------------------
(* Instances of Notice: user b has a session on each of two servers, a one. *)
EXTENDS Notice

CONSTANTS h1, h2, a1, b1, b2, a, b

MCHome == (a1 :> h1 @@ b1 :> h1 @@ b2 :> h2)

MCUserOf == (a1 :> a @@ b1 :> b @@ b2 :> b)

MCAsk == {<<a1, "msg", {b}>>, <<b1, "in", {}>>, <<a1, "cast", {}>>}
=============================================================================
