------------------------------- MODULE Radio --------------------------------
(***************************************************************************)
(* The gateway and the beaconer together: two tasks that send to each      *)
(* other over bounded channels and both wait, outside any select!, for a   *)
(* slot in the other's.  The dispatcher and the router clients are the     *)
(* environment: they send region changes and downlinks and take uplinks.   *)
(***************************************************************************)
EXTENDS Gateway

VARIABLES beaconer_pc, beaconer_region, beacon   \* the beaconer's

B == INSTANCE Beaconer

gateway_vars == <<own_vars, task_vars>>
beaconer_vars == <<beaconer_pc, beaconer_region, beacon>>
radio_vars == <<gateway_vars, beaconer_vars, channel_vars, shutdown>>

RadioStep ==
  \/ Step /\ UNCHANGED beaconer_vars
  \/ B!Step /\ UNCHANGED <<gateway_vars, dispatcher_messages>>

(***************************************************************************)
(* The dispatcher and the clients; the trigger.                            *)
(***************************************************************************)
RadioDeliver ==
  /\ \E m \in {Downlink} \cup {RegionParamsChanged(r) : r \in Regions} : Deliver(m)
  /\ UNCHANGED beaconer_vars

RadioDispatcherRecv ==
  /\ DispatcherRecv
  /\ UNCHANGED beaconer_vars

RadioTrigger ==
  /\ Trigger
  /\ UNCHANGED beaconer_vars

RadioInit ==
  /\ Init
  /\ B!BeaconerInit

RadioNext == RadioStep \/ RadioDeliver \/ RadioDispatcherRecv \/ RadioTrigger

RadioSpec == RadioInit /\ [][RadioNext]_radio_vars

(***************************************************************************)
(* Fairness.  select! takes its message and shutdown arms when they are    *)
(* ready again and again, a bounded channel serves waiting senders in      *)
(* turn, and the reports end by timeout.  Nothing is assumed of the        *)
(* entropy fetch, which sets no timeout, nor of the dispatcher, which may  *)
(* be waiting for the gateway (CircularWait in Server).                    *)
(***************************************************************************)
BeaconerFairness ==
  LET others == <<gateway_vars, dispatcher_messages>>
  IN /\ SF_radio_vars(B!Shutdown /\ UNCHANGED others)
     /\ SF_radio_vars((B!handle_received_beacon \/ B!handle_region_params) /\ UNCHANGED others)
     /\ SF_radio_vars(B!transmit_beacon /\ UNCHANGED others)
     /\ WF_radio_vars(B!Submitted /\ UNCHANGED others)

GatewayFairness ==
  /\ SF_radio_vars(Shutdown /\ UNCHANGED beaconer_vars)
  /\ SF_radio_vars(/\ \/ HandleRegionParamsChanged
                      \/ handle_downlink
                      \/ handle_transmit_beacon
                   /\ UNCHANGED beaconer_vars)
  /\ SF_radio_vars(SendHeld /\ UNCHANGED beaconer_vars)

RadioFairSpec == RadioSpec /\ BeaconerFairness /\ GatewayFairness
-----------------------------------------------------------------------------
(***************************************************************************)
(* Properties                                                              *)
(***************************************************************************)
\* The beaconer is at the gateway's region, or will be when it has drained its
\* channel: the gateway keeps a region only once it has passed it on.
BeaconerInSync ==
  WillKnow(beaconer_messages, "RegionParamsChanged", beaconer_region, gateway_region)

\* When a beacon is on its way to the gateway, the gateway has a region to
\* transmit it in: handle_transmit_beacon's "no region params" is never met.
BeaconHasRegion ==
  /\ beacon # None => gateway_region # None
  /\ \A i \in 1..Len(gateway_messages) :
       gateway_messages[i].type = "TransmitBeacon" => gateway_region # None

\* The two tasks are what try_join! and the local API expect of them: each
\* returns only after the trigger, and waits only along the channels that
\* server::run made and for the entropy of a beacon.
AsTasks == INSTANCE Tasks WITH status <-
  [beaconer |-> CASE beaconer_pc = "entropy" -> "entropy"
                  [] beaconer_pc = "transmit" -> "gateway"
                  [] beaconer_pc = "returned" -> "returned"
                  [] OTHER -> "running",
   gateway |-> CASE gateway_pc = "send" -> IF held.type = "Uplink" THEN "dispatcher"
                                                                   ELSE "beaconer"
                 [] gateway_pc = "returned" -> "returned"
                 [] OTHER -> "running",
   dispatcher |-> "running"]

RefinesTasks == AsTasks!Spec

\* The gateway waits for the beaconer and the beaconer for the gateway.
CircularWait ==
  /\ gateway_pc = "send"
  /\ held.type # "Uplink"
  /\ Len(beaconer_messages) = BeaconerSlots
  /\ beaconer_pc = "transmit"
  /\ Len(gateway_messages) = GatewaySlots

\* The gateway waits for the dispatcher.
WaitsForDispatcher ==
  /\ gateway_pc = "send"
  /\ held.type = "Uplink"
  /\ Len(dispatcher_messages) = DispatcherSlots

\* Until shutdown a wait of the gateway ends, but for three cases: the beaconer
\* is waiting for the gateway at the same time, the dispatcher never again takes
\* a message, or the beaconer's entropy fetch never ends.
GatewayWaitEnds ==
  gateway_pc = "send" ~>
    \/ gateway_pc # "send" \/ CircularWait \/ shutdown
    \/ []WaitsForDispatcher
    \/ [](beaconer_pc = "entropy")

\* Until shutdown a beacon that was built reaches the gateway's channel, but for
\* two cases: the gateway is waiting for the beaconer at the same time, or waits
\* for ever for the dispatcher.
BeaconWaitEnds ==
  beaconer_pc = "transmit" ~>
    \/ beaconer_pc # "transmit" \/ CircularWait \/ shutdown
    \/ []WaitsForDispatcher
=============================================================================
