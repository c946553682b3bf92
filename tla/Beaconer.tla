------------------------------ MODULE Beaconer ------------------------------
(***************************************************************************)
(* The beaconer (src/beaconer.rs): on every tick of its timer it builds a  *)
(* beacon from remote entropy and the region parameters, has the gateway   *)
(* transmit it and reports it; a beacon of another gateway is reported as  *)
(* witnessed.  Its task is in one of these awaits:                         *)
(*   select     the select! of run                                         *)
(*   entropy    EntropyService::get_entropy in mk_beacon                   *)
(*   transmit   gateway::MessageSender::transmit_beacon in send_beacon     *)
(*   report     PocLoraService::submit_beacon, or submit_witness           *)
(*   returned   run returned                                               *)
(***************************************************************************)
EXTENDS Messages

CONSTANTS
  GatewaySlots      \* capacity of the gateway's channel (10)

VARIABLES
  beaconer_pc,        \* the await the beaconer is in
  beaconer_region,    \* Beaconer.region_params
  beacon,             \* the region of the beacon being sent, None if there is none
  beaconer_messages,  \* the beaconer's channel
  gateway_messages,   \* the gateway's channel
  shutdown            \* the shutdown trigger has fired

\* The top of run's loop.
TopOfLoop == IF shutdown THEN "returned" ELSE "select"

Shutdown ==
  /\ beaconer_pc = "select"
  /\ shutdown
  /\ beaconer_pc' = "returned"
  /\ UNCHANGED <<beaconer_region, beacon, beaconer_messages, gateway_messages, shutdown>>

Tick ==
  /\ beaconer_pc = "select"
  /\ beaconer_pc' = "entropy"
  /\ UNCHANGED <<beaconer_region, beacon, beaconer_messages, gateway_messages, shutdown>>

\* No beacon comes of it: no entropy, no channel plan, or no report to match.
mk_beacon_error ==
  /\ beaconer_pc = "entropy"
  /\ beaconer_pc' = TopOfLoop
  /\ UNCHANGED <<beaconer_region, beacon, beaconer_messages, gateway_messages, shutdown>>

\* Defect: a beacon is built before there is a region.
mk_beacon_any_region ==
  /\ beaconer_pc = "entropy"
  /\ beacon' = IF beaconer_region = None THEN CHOOSE r \in Regions : TRUE
                                         ELSE beaconer_region
  /\ beaconer_pc' = "transmit"
  /\ UNCHANGED <<beaconer_region, beaconer_messages, gateway_messages, shutdown>>

mk_beacon ==
  /\ beaconer_pc = "entropy"
  /\ beaconer_region # None
  /\ beacon' = beaconer_region
  /\ beaconer_pc' = "transmit"
  /\ UNCHANGED <<beaconer_region, beaconer_messages, gateway_messages, shutdown>>

transmit_beacon ==
  /\ beaconer_pc = "transmit"
  /\ Len(gateway_messages) < GatewaySlots
  /\ gateway_messages' = Append(gateway_messages, TransmitBeacon(beacon))
  /\ beacon' = None
  /\ beaconer_pc' = "report"
  /\ UNCHANGED <<beaconer_region, beaconer_messages, shutdown>>

\* Defect: a report that fails ends the beaconer.
Submitted_or_failed ==
  /\ beaconer_pc = "report"
  /\ beaconer_pc' \in {TopOfLoop, "returned"}
  /\ UNCHANGED <<beaconer_region, beacon, beaconer_messages, gateway_messages, shutdown>>

\* The report was accepted, refused or timed out.
Submitted ==
  /\ beaconer_pc = "report"
  /\ beaconer_pc' = TopOfLoop
  /\ UNCHANGED <<beaconer_region, beacon, beaconer_messages, gateway_messages, shutdown>>

\* Defect: messages are not taken before there is a region.
Recv_after_region(type) ==
  /\ beaconer_pc = "select"
  /\ beaconer_region # None
  /\ beaconer_messages # <<>>
  /\ Head(beaconer_messages).type = type
  /\ beaconer_messages' = Tail(beaconer_messages)

Recv(type) ==
  /\ beaconer_pc = "select"
  /\ beaconer_messages # <<>>
  /\ Head(beaconer_messages).type = type
  /\ beaconer_messages' = Tail(beaconer_messages)

\* The frame makes a witness report, or to_witness_report refuses it.
handle_received_beacon ==
  /\ Recv("ReceivedBeacon")
  /\ beaconer_pc' \in {"report", TopOfLoop}
  /\ UNCHANGED <<beaconer_region, beacon, gateway_messages, shutdown>>

\* Defect: the first region is kept.
handle_region_params_once ==
  /\ Recv("RegionParamsChanged")
  /\ beaconer_region' = IF beaconer_region = None THEN Head(beaconer_messages).region
                                                  ELSE beaconer_region
  /\ beaconer_pc' = TopOfLoop
  /\ UNCHANGED <<beacon, gateway_messages, shutdown>>

handle_region_params ==
  /\ Recv("RegionParamsChanged")
  /\ beaconer_region' = Head(beaconer_messages).region
  /\ beaconer_pc' = TopOfLoop
  /\ UNCHANGED <<beacon, gateway_messages, shutdown>>

Step ==
  \/ Shutdown
  \/ Tick
  \/ mk_beacon_error
  \/ mk_beacon
  \/ transmit_beacon
  \/ Submitted
  \/ handle_received_beacon
  \/ handle_region_params

BeaconerInit ==
  /\ beaconer_pc = "select"
  /\ beaconer_region = None
  /\ beacon = None
=============================================================================
