----------------------------- MODULE MCGateway ------------------------------
(***************************************************************************)
(* The gateway with one transmission task at a time, one forwarder, and    *)
(* regions that give a power with a fraction cut off, and none.            *)
(***************************************************************************)
EXTENDS Gateway, TLC

CONSTANTS r1, r2

MCParams == (r1 :> [gain |-> 12, eirps |-> {360, 300}]) @@ (r2 :> [gain |-> 30, eirps |-> {26}])
=============================================================================
