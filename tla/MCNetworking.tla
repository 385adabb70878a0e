---------------------------- MODULE MCNetworking ----------------------------
(* Small instances of Networking for TLC.                                  *)
EXTENDS Networking, TLC

CONSTANTS a, b

\* Long replies behind and before others, the ends of a connection, with a peer
\* that goes on sending, and replies that are turned off; then two connections
\* with commands each.
MCScripts ==
    {a :> s @@ b :> <<>> : s \in
        {<<"call", "smembers">>, <<"smembers", "call", "quit">>, <<"smembers", "bad">>,
         <<"call", "badarg", "call">>,
         <<"call", "quit", "call", "call">>,
         <<"skip", "empty", "call">>, <<"smembers", "off", "on">>,
         <<"off", "skip", "smembers">>}}
    \cup
    {a :> <<"call">> @@ b :> <<"smembers">>, a :> <<"smembers">> @@ b :> <<"pause">>}
=============================================================================
