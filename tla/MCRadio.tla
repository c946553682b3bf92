------------------------------ MODULE MCRadio -------------------------------
(***************************************************************************)
(* The gateway and the beaconer with two regions, the gateway's channel of *)
(* two messages and the beaconer's of one; transmission tasks are left out *)
(* (TaskIds = {}).                                                         *)
(***************************************************************************)
EXTENDS Radio, TLC

CONSTANTS r1, r2

MCParams == (r1 :> [gain |-> 12, eirps |-> {360, 300}]) @@ (r2 :> [gain |-> 30, eirps |-> {26}])
=============================================================================
