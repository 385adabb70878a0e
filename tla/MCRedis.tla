------------------------------ MODULE MCRedis ------------------------------
(* A small instance of RedisServer for TLC.                                *)
EXTENDS RedisServer

CONSTANTS c1, c2, k1

\* One key is enough for a transaction to be seen half done (two INCRs).
OneKeyOps == {[kind |-> kd, key |-> k1] : kd \in {"incr", "del"}}
=============================================================================
