------------------------------ MODULE Gateway -------------------------------
(***************************************************************************)
(* The gateway (src/gateway.rs): it owns the UDP link to the packet        *)
(* forwarders.  What they receive goes to the dispatcher or, if it may be  *)
(* a beacon, to the beaconer; downlinks and beacons are handed to spawned  *)
(* tasks that transmit them; a region change is passed on to the beaconer  *)
(* and then kept.  The gateway's task is in one of these awaits:           *)
(*   select     the select! of run                                         *)
(*   send       waiting for a slot in the channel held is going to         *)
(*   returned   run returned                                               *)
(* A transmission task dispatches its packet in a window and waits for the *)
(* forwarder's ack for at most DOWNLINK_TIMEOUT_SECS; TaskIds = {} leaves  *)
(* the tasks out, which share nothing with the gateway once spawned.       *)
(***************************************************************************)
EXTENDS Messages, Integers

CONSTANTS
  Macs,             \* packet forwarders
  Params,           \* the parameters of each region: gain and eirps
  TaskIds,          \* bound: transmission tasks that may be alive together
  DispatcherSlots,  \* capacity of the dispatcher's channel (20)
  GatewaySlots,     \* capacity of the gateway's channel (10)
  BeaconerSlots     \* capacity of the beaconer's channel (10)

ASSUME GatewayAssumption ==
  /\ Params \in [Regions -> [gain : Int, eirps : SUBSET Int]]
  /\ \A r \in Regions : Params[r].eirps # {} =>
       \E max \in Params[r].eirps : \A eirp \in Params[r].eirps : eirp <= max
  /\ DispatcherSlots \in Nat \ {0}
  /\ GatewaySlots \in Nat \ {0}
  /\ BeaconerSlots \in Nat \ {0}

VARIABLES
  gateway_pc,           \* the await the gateway is in
  held,                 \* the message it is sending, None in select
  gateway_region,       \* Gateway.region_params
  downlink_mac,         \* Gateway.downlink_mac, None before any client
  tasks,                \* the spawned transmission tasks, None if never spawned
  aborted,              \* a task panicked, which aborts the process
  gateway_messages,     \* the gateway's channel
  dispatcher_messages,  \* the dispatcher's channel
  beaconer_messages,    \* the beaconer's channel
  shutdown              \* the shutdown trigger has fired

channel_vars == <<gateway_messages, dispatcher_messages, beaconer_messages>>
own_vars == <<gateway_pc, held, gateway_region, downlink_mac>>
task_vars == <<tasks, aborted>>
vars == <<own_vars, task_vars, channel_vars, shutdown>>

Windows == {"rx1", "rx2"}

INSTANCE RegionParams

\* The gateway has region parameters, and they give a power.
Powered == gateway_region # None /\ tx_power(Params[gateway_region]) # None

(***************************************************************************)
(* A task: what it transmits, to which forwarder, in which region and with *)
(* which power, the windows the router's answer has and those whose        *)
(* datarate parses, the window it is in, what became of the packet sent in *)
(* it, and how often the packet went on air in all.                        *)
(***************************************************************************)
Task ==
  [kind : {"downlink", "beacon"}, mac : Macs \cup {None}, region : Regions, power : Nat,
   windows : SUBSET Windows, parses : SUBSET Windows, window : Windows,
   packet : {"unsent", "sent", "on_air", "mistimed", "refused", "done"}, aired : 0..2]

ASSUME NoneIsNoValue ==
  None \notin Nat \cup Task \cup BeaconerMessage \cup {Uplink(p) : p \in Packets}

Live(i) == tasks[i] # None /\ tasks[i].packet # "done"

\* tokio::spawn of the transmission of a message whose region gives a power.
SpawnTask(kind, windows) ==
  IF TaskIds = {} THEN UNCHANGED tasks
  ELSE \E i \in TaskIds : \E parses \in SUBSET windows :
         /\ ~Live(i)
         /\ kind = "beacon" => parses = windows
         /\ tasks' = [tasks EXCEPT ![i] =
              [kind |-> kind, mac |-> downlink_mac, region |-> gateway_region,
               power |-> tx_power(Params[gateway_region]),
               windows |-> windows, parses |-> parses, window |-> "rx1",
               packet |-> "unsent", aired |-> 0]]

(***************************************************************************)
(* The arms of the select! in run                                          *)
(***************************************************************************)
\* Defect: a send is given up on shutdown.
Shutdown_while_sending ==
  /\ gateway_pc \in {"select", "send"}
  /\ shutdown
  /\ gateway_pc' = "returned"
  /\ held' = None
  /\ UNCHANGED <<gateway_region, downlink_mac, task_vars, channel_vars, shutdown>>

Shutdown ==
  /\ gateway_pc = "select"
  /\ shutdown
  /\ gateway_pc' = "returned"
  /\ UNCHANGED <<held, gateway_region, downlink_mac, task_vars, channel_vars, shutdown>>

\* handle_udp_event for NewClient; the other events but PacketReceived are
\* only logged.
NewClient(mac) ==
  /\ gateway_pc = "select"
  /\ downlink_mac' = mac
  /\ UNCHANGED <<gateway_pc, held, gateway_region, task_vars, channel_vars, shutdown>>

\* PacketReceived, for a frame that decodes: an uplink or a possible beacon.
PacketReceived(m) ==
  /\ gateway_pc = "select"
  /\ gateway_pc' = "send"
  /\ held' = m
  /\ UNCHANGED <<gateway_region, downlink_mac, task_vars, channel_vars, shutdown>>

Recv(type) ==
  /\ gateway_pc = "select"
  /\ gateway_messages # <<>>
  /\ Head(gateway_messages).type = type
  /\ gateway_messages' = Tail(gateway_messages)

HandleRegionParamsChanged ==
  /\ Recv("RegionParamsChanged")
  /\ gateway_pc' = "send"
  /\ held' = Head(gateway_messages)
  /\ UNCHANGED <<gateway_region, downlink_mac, task_vars, dispatcher_messages,
                 beaconer_messages, shutdown>>

handle_downlink ==
  /\ Recv("Downlink")
  /\ IF Powered
       THEN \E windows \in {{"rx1"}, Windows} : SpawnTask("downlink", windows)
       ELSE UNCHANGED tasks
  /\ UNCHANGED <<own_vars, aborted, dispatcher_messages, beaconer_messages, shutdown>>

\* Defect: a beacon waits for a forwarder to transmit it.
handle_transmit_beacon_waits ==
  /\ downlink_mac # None
  /\ Recv("TransmitBeacon")
  /\ \/ Powered /\ SpawnTask("beacon", {"rx1"})
     \/ UNCHANGED tasks
  /\ UNCHANGED <<own_vars, aborted, dispatcher_messages, beaconer_messages, shutdown>>

\* beacon_to_pull_resp may fail, and then nothing is transmitted either.
handle_transmit_beacon ==
  /\ Recv("TransmitBeacon")
  /\ \/ Powered /\ SpawnTask("beacon", {"rx1"})
     \/ UNCHANGED tasks
  /\ UNCHANGED <<own_vars, aborted, dispatcher_messages, beaconer_messages, shutdown>>

(***************************************************************************)
(* The send the handler waits for.  Gateway.region_params is set when the  *)
(* beaconer has been sent the change, with no await in between.            *)
(***************************************************************************)
SendUplink ==
  /\ held.type = "Uplink"
  /\ Len(dispatcher_messages) < DispatcherSlots
  /\ dispatcher_messages' = Append(dispatcher_messages, held)
  /\ UNCHANGED <<beaconer_messages, gateway_region>>

SendBeaconer ==
  /\ held.type # "Uplink"
  /\ Len(beaconer_messages) < BeaconerSlots
  /\ beaconer_messages' = Append(beaconer_messages, held)
  /\ gateway_region' = IF held.type = "RegionParamsChanged" THEN held.region
                                                            ELSE gateway_region
  /\ UNCHANGED dispatcher_messages

SendHeld ==
  /\ gateway_pc = "send"
  /\ SendUplink \/ SendBeaconer
  /\ gateway_pc' = "select"
  /\ held' = None
  /\ UNCHANGED <<downlink_mac, task_vars, gateway_messages, shutdown>>

Step ==
  \/ Shutdown
  \/ \E mac \in Macs : NewClient(mac)
  \/ \E p \in Packets : PacketReceived(Uplink(p))
  \/ PacketReceived(ReceivedBeacon)
  \/ HandleRegionParamsChanged
  \/ handle_downlink
  \/ handle_transmit_beacon
  \/ SendHeld

(***************************************************************************)
(* A transmission task: convert the packet for the window (the unwrap of a *)
(* datarate that does not parse panics), dispatch it, and wait.  The ack   *)
(* says the forwarder took it, that it came too early or too late for the  *)
(* window, or another error; only the second leads to the other window.    *)
(***************************************************************************)
Update(i, field, value) ==
  /\ tasks' = [tasks EXCEPT ![i][field] = value]
  /\ UNCHANGED <<own_vars, aborted, channel_vars, shutdown>>

Dispatch(i) ==
  /\ Live(i)
  /\ tasks[i].packet = "unsent"
  /\ IF tasks[i].window \in tasks[i].parses
       THEN Update(i, "packet", "sent")
       ELSE /\ aborted' = TRUE
            /\ UNCHANGED <<own_vars, tasks, channel_vars, shutdown>>

\* Defect: a mistimed packet is tried in its window again.
Retry_same_window(i) == [tasks[i] EXCEPT !.packet = "unsent"]

Retry(i) ==
  IF tasks[i].kind = "downlink" /\ tasks[i].window = "rx1" /\ "rx2" \in tasks[i].windows
    THEN [tasks[i] EXCEPT !.window = "rx2", !.packet = "unsent"]
    ELSE [tasks[i] EXCEPT !.packet = "done"]

Ack(i) ==
  /\ Live(i)
  /\ tasks[i].packet \in {"on_air", "mistimed", "refused"}
  /\ tasks' = [tasks EXCEPT ![i] = IF tasks[i].packet = "mistimed" THEN Retry(i)
                                   ELSE [@ EXCEPT !.packet = "done"]]
  /\ UNCHANGED <<own_vars, aborted, channel_vars, shutdown>>

\* Defect: the second window is used after any error.
Timeout_retry(i) ==
  /\ Live(i)
  /\ tasks[i].packet # "unsent"
  /\ tasks' = [tasks EXCEPT ![i] = Retry(i)]
  /\ UNCHANGED <<own_vars, aborted, channel_vars, shutdown>>

\* No ack in time: the datagram or its ack was lost, or the forwarder is slow.
Timeout(i) ==
  /\ Live(i)
  /\ tasks[i].packet # "unsent"
  /\ Update(i, "packet", "done")

TaskStep(i) == Dispatch(i) \/ Ack(i) \/ Timeout(i)

(***************************************************************************)
(* External: the packet forwarder takes a dispatched packet.               *)
(***************************************************************************)
Forwarder(i) ==
  /\ Live(i)
  /\ tasks[i].packet = "sent"
  /\ \E outcome \in {"on_air", "mistimed", "refused"} :
       tasks' = [tasks EXCEPT ![i].packet = outcome,
                              ![i].aired = IF outcome = "on_air" THEN @ + 1 ELSE @]
  /\ UNCHANGED <<own_vars, aborted, channel_vars, shutdown>>

(***************************************************************************)
(* The tasks around it: the router clients, the beaconer and the           *)
(* dispatcher send to the gateway, the last two take what it sends.        *)
(***************************************************************************)
Deliver(m) ==
  /\ Len(gateway_messages) < GatewaySlots
  /\ gateway_messages' = Append(gateway_messages, m)
  /\ UNCHANGED <<own_vars, task_vars, dispatcher_messages, beaconer_messages, shutdown>>

DispatcherRecv ==
  /\ dispatcher_messages # <<>>
  /\ dispatcher_messages' = Tail(dispatcher_messages)
  /\ UNCHANGED <<own_vars, task_vars, gateway_messages, beaconer_messages, shutdown>>

BeaconerRecv ==
  /\ beaconer_messages # <<>>
  /\ beaconer_messages' = Tail(beaconer_messages)
  /\ UNCHANGED <<own_vars, task_vars, gateway_messages, dispatcher_messages, shutdown>>

Trigger ==
  /\ ~shutdown
  /\ shutdown' = TRUE
  /\ UNCHANGED <<own_vars, task_vars, channel_vars>>

Environment ==
  \/ \E m \in GatewayMessage : Deliver(m)
  \/ DispatcherRecv
  \/ BeaconerRecv
  \/ Trigger

GatewayInit ==
  /\ gateway_pc = "select"
  /\ held = None
  /\ gateway_region = None
  /\ downlink_mac = None
  /\ tasks = [i \in TaskIds |-> None]
  /\ aborted = FALSE

Init ==
  /\ GatewayInit
  /\ gateway_messages = <<>>
  /\ dispatcher_messages = <<>>
  /\ beaconer_messages = <<>>
  /\ shutdown = FALSE

Next ==
  /\ ~aborted
  /\ \/ Step
     \/ \E i \in TaskIds : TaskStep(i) \/ Forwarder(i)
     \/ Environment

Spec == Init /\ [][Next]_vars

\* A spawned task is scheduled, and its waits end by timeout at the latest.
TaskFairness == \A i \in TaskIds : WF_vars(~aborted /\ TaskStep(i))

FairSpec == Spec /\ TaskFairness
-----------------------------------------------------------------------------
(***************************************************************************)
(* Properties                                                              *)
(***************************************************************************)
Held == {Uplink(p) : p \in Packets} \cup BeaconerMessage

\* Every variable has its type, no channel is over its capacity, and a message
\* is held exactly while the gateway waits to send it.
TypeOK ==
  /\ gateway_pc \in {"select", "send", "returned"}
  /\ held \in Held \cup {None}
  /\ gateway_pc = "send" <=> held # None
  /\ gateway_region \in Regions \cup {None}
  /\ downlink_mac \in Macs \cup {None}
  /\ tasks \in [TaskIds -> Task \cup {None}]
  /\ aborted \in BOOLEAN
  /\ gateway_messages \in Seq(GatewayMessage)
  /\ Len(gateway_messages) <= GatewaySlots
  /\ dispatcher_messages \in Seq(DispatcherMessage)
  /\ Len(dispatcher_messages) <= DispatcherSlots
  /\ beaconer_messages \in Seq(BeaconerMessage)
  /\ Len(beaconer_messages) <= BeaconerSlots
  /\ shutdown \in BOOLEAN

\* A downlink or a beacon goes on air at most once: the second window is used
\* only after an ack that says the first transmission did not happen, so a lost
\* or late ack never leads to a second one.
AiredAtMostOnce ==
  \A i \in TaskIds : tasks[i] # None => tasks[i].aired <= 1

\* What goes on air stays within the region: the power and the antenna gain add
\* up to no more than the EIRP that the parameters the gateway had when it took
\* the downlink or the beacon allow on some channel, also when the region has
\* changed since.
PowerWithinRegion ==
  \A i \in TaskIds : tasks[i] # None =>
    \E eirp \in Params[tasks[i].region].eirps :
      10 * tasks[i].power + Params[tasks[i].region].gain <= eirp

\* Every transmission task ends, whatever the forwarder and the network do.
TaskEnds ==
  \A i \in TaskIds : Live(i) ~> (~Live(i) \/ aborted)
=============================================================================
