------------------------------- MODULE Server -------------------------------
(***************************************************************************)
(* The server (src/server.rs): the dispatcher, its router clients, the     *)
(* gateway and the beaconer run together, joined by the bounded channels   *)
(* server::run makes.  Each step is a step of one task as its own module   *)
(* defines it; the dispatcher's steps also spawn router clients.           *)
(***************************************************************************)
EXTENDS Messages

CONSTANTS
  Ouis, Uris, DefaultRouters, SeedGateways, MaxHeight, RoutingAt, RegionAt,
  InitialRegion, MaxRetry, MaxPackets, Macs, Params, TaskIds,
  DispatcherSlots, ClientSlots, GatewaySlots, BeaconerSlots

ASSUME ServerAssumption ==
  /\ RegionAt \in [1..MaxHeight -> Regions]
  /\ InitialRegion \in Regions
  /\ {DispatcherSlots, ClientSlots, GatewaySlots, BeaconerSlots} \subseteq Nat \ {0}
  /\ None \notin BeaconerMessage \cup {Uplink(p) : p \in Packets}

VARIABLES
  \* the dispatcher
  dispatcher_pc, region, routing_height, region_height, gateway_retry, routers,
  streams, todo, job, requests,
  \* the router clients
  client_pc, client_region, waiting_packets, sending,
  \* the gateway
  gateway_pc, held, gateway_region, downlink_mac, tasks, aborted,
  \* the beaconer
  beaconer_pc, beaconer_region, beacon,
  \* the channels and the trigger
  dispatcher_messages, client_messages, gateway_messages, beaconer_messages, shutdown

dispatcher_vars == <<dispatcher_pc, region, routing_height, region_height, gateway_retry,
                     routers, streams, todo, job, requests>>
client_vars == <<client_pc, client_region, waiting_packets, sending>>
gateway_vars == <<gateway_pc, held, gateway_region, downlink_mac, tasks, aborted>>
beaconer_vars == <<beaconer_pc, beaconer_region, beacon>>
channel_vars == <<dispatcher_messages, client_messages, gateway_messages,
                  beaconer_messages>>
vars == <<dispatcher_vars, client_vars, gateway_vars, beaconer_vars, channel_vars,
          shutdown>>

RouterKeys == [oui : Ouis, uri : Uris]
Running == {k \in RouterKeys : client_pc[k] \in {"select", "route", "downlink"}}

D == INSTANCE Dispatcher WITH running <- Running
C == INSTANCE RouterClient WITH Clients <- RouterKeys
G == INSTANCE Gateway
B == INSTANCE Beaconer

\* A dispatcher step; started are the clients start_router spawns in it.
DispatcherStep ==
  /\ \E started \in SUBSET {k \in RouterKeys : client_pc[k] = "absent"} :
       client_pc' = [k \in RouterKeys |->
                       IF k \in started THEN "select" ELSE client_pc[k]]
  /\ D!Step
  /\ UNCHANGED <<waiting_packets, sending, gateway_vars, beaconer_vars, beaconer_messages>>

ClientStep(k) ==
  /\ C!Step(k)
  /\ UNCHANGED <<dispatcher_vars, gateway_vars, beaconer_vars, dispatcher_messages,
                 beaconer_messages>>

GatewayStep ==
  /\ G!Step
  /\ UNCHANGED <<dispatcher_vars, client_vars, client_messages, beaconer_vars>>

BeaconerStep ==
  /\ B!Step
  /\ UNCHANGED <<dispatcher_vars, client_vars, client_messages, gateway_vars,
                 dispatcher_messages>>

\* A caller of the local API.
ApiStep ==
  /\ UNCHANGED <<client_vars, gateway_vars, beaconer_vars, beaconer_messages>>
  /\ \E q \in Requests : D!Ask(q)

Trigger ==
  /\ ~shutdown
  /\ shutdown' = TRUE
  /\ UNCHANGED <<dispatcher_vars, client_vars, gateway_vars, beaconer_vars, channel_vars>>

Init ==
  /\ C!Init
  /\ D!Init
  /\ G!Init
  /\ B!BeaconerInit

Next ==
  \/ DispatcherStep
  \/ \E k \in RouterKeys : ClientStep(k)
  \/ GatewayStep
  \/ BeaconerStep
  \/ ApiStep
  \/ Trigger

Spec == Init /\ [][Next]_vars
-----------------------------------------------------------------------------
(***************************************************************************)
(* Properties                                                              *)
(***************************************************************************)
\* The real router clients, gateway and beaconer behave as the environment the
\* dispatcher was checked (and proved) in: a region change the gateway holds
\* while it waits for the beaconer counts as taken, and every message of
\* another sender as a downlink.  This is AsDispatcher!Spec; the stuttering step
\* that most steps of the other tasks are is tried first.
AsDispatcher == INSTANCE Dispatcher WITH
  running <- Running,
  gateway_region <- IF held # None /\ held.type = "RegionParamsChanged"
                      THEN held.region ELSE gateway_region,
  gateway_messages <- [i \in DOMAIN gateway_messages |->
                         IF gateway_messages[i].type = "RegionParamsChanged"
                           THEN gateway_messages[i] ELSE Downlink]

RefinesDispatcher ==
  /\ AsDispatcher!Init
  /\ [][UNCHANGED AsDispatcher!vars \/ AsDispatcher!Next]_(AsDispatcher!vars)

\* What is under way from the dispatcher to the beaconer, oldest last sent last.
RegionPipeline ==
  beaconer_messages \o (IF held # None THEN <<held>> ELSE <<>>) \o gateway_messages

\* A region change reaches the far end of the chain: once the dispatcher has
\* told the gateway anything, the beaconer is at the dispatcher's region or will
\* be when the two channels, and the gateway's hands, are empty.
BeaconerWillKnow ==
  \/ dispatcher_pc = "region"
  \/ /\ beaconer_region = None
     /\ \A i \in 1..Len(RegionPipeline) : RegionPipeline[i].type # "RegionParamsChanged"
  \/ WillKnow(RegionPipeline, "RegionParamsChanged", beaconer_region, region)

(***************************************************************************)
(* Who waits for whom, in an await that is not in a select!: a task waits  *)
(* for the receiver of the full channel it is sending to.                  *)
(***************************************************************************)
GatewayFull == Len(gateway_messages) = GatewaySlots

DispatcherWaitsForGateway == dispatcher_pc \in {"announce", "region"} /\ GatewayFull

DispatcherWaitsFor(k) ==
  /\ dispatcher_pc \in {"uplink", "broadcast", "stop"}
  /\ k \in todo \cap Running
  /\ Len(client_messages[k]) = ClientSlots

ClientWaits(k) == client_pc[k] = "downlink" /\ GatewayFull

GatewayWaitsForDispatcher ==
  /\ gateway_pc = "send"
  /\ held.type = "Uplink"
  /\ Len(dispatcher_messages) = DispatcherSlots

GatewayWaitsForBeaconer ==
  /\ gateway_pc = "send"
  /\ held.type # "Uplink"
  /\ Len(beaconer_messages) = BeaconerSlots

BeaconerWaits == beaconer_pc = "transmit" /\ GatewayFull

\* The circular waits the channels of server::run allow.
CircularWait ==
  \/ GatewayWaitsForDispatcher /\ DispatcherWaitsForGateway
  \/ /\ GatewayWaitsForDispatcher
     /\ \E k \in RouterKeys : DispatcherWaitsFor(k) /\ ClientWaits(k)
  \/ GatewayWaitsForBeaconer /\ BeaconerWaits

\* Nothing gets the tasks out of a circular wait: no timeout, no reconnection
\* and not the shutdown trigger, since none of these sends is in a select!.
CircularWaitIsFinal ==
  [][CircularWait => CircularWait']_vars
=============================================================================
