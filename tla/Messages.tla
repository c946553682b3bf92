------------------------------ MODULE Messages ------------------------------
(***************************************************************************)
(* The messages the tasks of gateway-rs exchange over bounded tokio mpsc   *)
(* channels.  A channel is a sequence; its receiver takes the head, and a  *)
(* sender waits (its future stays pending) while the channel is full.      *)
(***************************************************************************)
EXTENDS Lists

CONSTANTS
  Packets,   \* uplink packets, told apart by the routing data they carry
  Regions,   \* LoRaWAN regions; a region stands for its RegionParams
  Requests,  \* callers of the local API waiting for the dispatcher
  None       \* Rust's Option::None

ASSUME NoneAssumption == None \notin Packets \cup Regions \cup Requests

(***************************************************************************)
(* router::client::Message                                                 *)
(***************************************************************************)
Uplink(p) == [type |-> "Uplink", packet |-> p]
RegionChanged(r) == [type |-> "RegionChanged", region |-> r]
Stop == [type |-> "Stop"]

ClientMessage ==
  {Uplink(p) : p \in Packets} \cup {RegionChanged(r) : r \in Regions} \cup {Stop}

(***************************************************************************)
(* gateway::Message.  A beacon is the region whose channel plan it was     *)
(* built from (Beacon::new picks its frequency there).                     *)
(***************************************************************************)
Downlink == [type |-> "Downlink"]
TransmitBeacon(r) == [type |-> "TransmitBeacon", region |-> r]
RegionParamsChanged(r) == [type |-> "RegionParamsChanged", region |-> r]

GatewayMessage ==
  {Downlink} \cup {TransmitBeacon(r) : r \in Regions}
    \cup {RegionParamsChanged(r) : r \in Regions}

(***************************************************************************)
(* router::dispatcher::Message.  Config and Height are answered by asking  *)
(* the validator, Region from the dispatcher's own state.                  *)
(***************************************************************************)
GatewayRequest(q) == [type |-> "GatewayRequest", request |-> q]
RegionRequest(q) == [type |-> "Region", request |-> q]

DispatcherMessage ==
  {Uplink(p) : p \in Packets} \cup {GatewayRequest(q) : q \in Requests}
    \cup {RegionRequest(q) : q \in Requests}

(***************************************************************************)
(* beaconer::Message                                                       *)
(***************************************************************************)
ReceivedBeacon == [type |-> "ReceivedBeacon"]

BeaconerMessage ==
  {ReceivedBeacon} \cup {RegionParamsChanged(r) : r \in Regions}
=============================================================================
