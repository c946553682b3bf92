------------------------------ MODULE MCServer ------------------------------
(***************************************************************************)
(* The whole server on the smallest instance in which everything happens:  *)
(* one router, one routing update, one region change, one-slot channels,   *)
(* one packet and one API request.  MCConcerns bounds what is under way    *)
(* together with the control messages: an uplink, a beacon (being sent or  *)
(* heard) or an API request, but no two of the three.                      *)
(***************************************************************************)
EXTENDS Server, TLC

CONSTANTS o1, u1, p1, r1, r2

MCRoutingAt == << <<[oui |-> o1, uris |-> {u1}, accepts |-> Packets]>> >>

MCRegionAt == <<r2>>

MCParams == (r1 :> [gain |-> 12, eirps |-> {360, 300}]) @@ (r2 :> [gain |-> 12, eirps |-> {140}])

MCCarries(messages, type) == \E i \in DOMAIN messages : messages[i].type = type
MCHolds(type) == held # None /\ held.type = type

MCUplink ==
  \/ MCHolds("Uplink") \/ MCCarries(dispatcher_messages, "Uplink")
  \/ dispatcher_pc = "uplink"
  \/ \E k \in RouterKeys : \/ MCCarries(client_messages[k], "Uplink")
                            \/ client_pc[k] \in {"route", "downlink"}

MCHeardBeacon == MCHolds("ReceivedBeacon") \/ MCCarries(beaconer_messages, "ReceivedBeacon")

MCBeaconing == beaconer_pc \notin {"select", "returned"}

MCConcerns ==
  /\ MCUplink => ~MCHeardBeacon /\ ~MCBeaconing
  /\ (\E q \in Requests : requests[q] # "idle") => ~MCUplink /\ ~MCHeardBeacon /\ ~MCBeaconing

MCSpec == Init /\ [][Next /\ MCConcerns']_vars
=============================================================================
