------------------------------- MODULE MCDict -------------------------------
(* Instances of Dict: a few hash functions, with and without collisions.    *)
EXTENDS Dict, TLC

CONSTANTS k1, k2, k3

\* Two keys that share a bucket in every table but the largest, and none.
MCHashes ==
    {(k1 :> 0 @@ k2 :> 4 @@ k3 :> 3),
     (k1 :> 0 @@ k2 :> 1 @@ k3 :> 2)}
=============================================================================
