---------------------------- MODULE RadioProofs -----------------------------
(***************************************************************************)
(* The gateway's types and what its transmission tasks put on air; the     *)
(* gateway and the beaconer agree on the region, and the two are what      *)
(* Tasks says; for any forwarders, regions and region parameters, packets, *)
(* number of transmission tasks and capacities.                            *)
(***************************************************************************)
EXTENDS Radio, ListProofs

(***************************************************************************)
(* Lemmas on the operators                                                 *)
(***************************************************************************)
\* Each message belongs to the channels it is sent over.
LEMMA MessageTypes ==
  /\ \A p \in Packets : Uplink(p) \in DispatcherMessage
  /\ \A r \in Regions : /\ RegionParamsChanged(r) \in GatewayMessage
                        /\ RegionParamsChanged(r) \in BeaconerMessage
                        /\ TransmitBeacon(r) \in GatewayMessage
  /\ Downlink \in GatewayMessage
  /\ ReceivedBeacon \in BeaconerMessage
BY DEF DispatcherMessage, GatewayMessage, BeaconerMessage

\* What a region change carries.
LEMMA MessageFields ==
  \A m \in BeaconerMessage : m.type = "RegionParamsChanged" => m.region \in Regions
BY DEF BeaconerMessage, ReceivedBeacon, RegionParamsChanged

\* The gateway passes region changes on to the beaconer as it gets them; no
\* other message of its channel is one.
LEMMA GatewayMessages ==
  /\ \A m \in GatewayMessage : m.type = "RegionParamsChanged" =>
       m \in BeaconerMessage /\ m.region \in Regions
  /\ Downlink.type # "RegionParamsChanged"
  /\ \A r \in Regions : /\ TransmitBeacon(r).type # "RegionParamsChanged"
                        /\ RegionParamsChanged(r).type = "RegionParamsChanged"
                        /\ RegionParamsChanged(r).region = r
<1>1. \A m \in GatewayMessage : m.type = "RegionParamsChanged" =>
        m \in BeaconerMessage /\ m.region \in Regions
  BY DEF BeaconerMessage, GatewayMessage, Downlink, TransmitBeacon, RegionParamsChanged
<1>2. /\ Downlink.type # "RegionParamsChanged"
      /\ \A r \in Regions : /\ TransmitBeacon(r).type # "RegionParamsChanged"
                            /\ RegionParamsChanged(r).type = "RegionParamsChanged"
                            /\ RegionParamsChanged(r).region = r
  BY DEF Downlink, TransmitBeacon, RegionParamsChanged
<1> QED
  BY <1>1, <1>2

\* What the gateway may hold, and where it sends it.
LEMMA HeldFacts ==
  /\ \A m \in Held : m.type = "Uplink" => m \in DispatcherMessage
  /\ \A m \in Held : m.type # "Uplink" => m \in BeaconerMessage
  /\ \A m \in Held : m.type = "RegionParamsChanged" => m.region \in Regions
  /\ \A m \in GatewayMessage : m.type = "RegionParamsChanged" => m \in Held
  /\ ReceivedBeacon \in Held /\ \A p \in Packets : Uplink(p) \in Held
  /\ None \notin Held
<1>1. \A m \in BeaconerMessage : m.type # "Uplink"
  BY DEF BeaconerMessage, ReceivedBeacon, RegionParamsChanged
<1>2. \A p \in Packets : Uplink(p).type = "Uplink"
  BY DEF Uplink
<1> QED
  BY <1>1, <1>2, MessageTypes, MessageFields, GatewayMessages, NoneIsNoValue DEF Held

\* A region that gives a power gives one within what it allows on some channel:
\* the subtraction and the trunc of tx_power never round up.
LEMMA PowerFits ==
  ASSUME NEW r \in Regions, tx_power(Params[r]) # None
  PROVE  /\ tx_power(Params[r]) \in Nat
         /\ \E eirp \in Params[r].eirps : 10 * tx_power(Params[r]) + Params[r].gain <= eirp
<1> DEFINE gain == Params[r].gain
           max == max_eirp(Params[r])
<1>1. Params[r].eirps # {} /\ ~(max < gain) /\ tx_power(Params[r]) = (max - gain) \div 10
  BY DEF tx_power
<1>2. gain \in Int /\ Params[r].eirps \subseteq Int
  BY GatewayAssumption
<1>3. max \in Params[r].eirps
  BY <1>1, GatewayAssumption DEF max_eirp
<1>4. max \in Int /\ gain <= max
  BY <1>1, <1>2, <1>3
<1> HIDE DEF max, gain
<1>5. (max - gain) \div 10 \in Nat /\ 10 * ((max - gain) \div 10) + gain <= max
  BY <1>2, <1>4
<1> QED
  BY <1>1, <1>3, <1>5 DEF gain

(***************************************************************************)
(* The gateway's own task and the channels                                 *)
(***************************************************************************)
OwnOK ==
  /\ gateway_pc \in {"select", "send", "returned"}
  /\ held \in Held \cup {None}
  /\ gateway_pc = "send" <=> held # None
  /\ gateway_region \in Regions \cup {None}
  /\ downlink_mac \in Macs \cup {None}
  /\ gateway_messages \in Seq(GatewayMessage)
  /\ Len(gateway_messages) <= GatewaySlots
  /\ dispatcher_messages \in Seq(DispatcherMessage)
  /\ Len(dispatcher_messages) <= DispatcherSlots
  /\ beaconer_messages \in Seq(BeaconerMessage)
  /\ Len(beaconer_messages) <= BeaconerSlots
  /\ shutdown \in BOOLEAN

LEMMA OwnStep ==
  ASSUME OwnOK, [Next]_vars
  PROVE  OwnOK'
<1> USE GatewayAssumption, HeldFacts DEF OwnOK
<1>1. CASE Shutdown
  BY <1>1 DEF Shutdown, channel_vars
<1>2. ASSUME NEW mac \in Macs, NewClient(mac)
      PROVE  OwnOK'
  BY <1>2 DEF NewClient, channel_vars
<1>3. ASSUME NEW m \in Held, PacketReceived(m)
      PROVE  OwnOK'
  BY <1>3 DEF PacketReceived, channel_vars
<1>4. ASSUME NEW type, Recv(type)
      PROVE  /\ Head(gateway_messages) \in GatewayMessage
             /\ Head(gateway_messages).type = type
             /\ gateway_messages' \in Seq(GatewayMessage)
             /\ Len(gateway_messages') <= GatewaySlots
  BY <1>4, ChannelFacts DEF Recv
<1>5. CASE HandleRegionParamsChanged
  <2>1. Head(gateway_messages) \in Held
    BY Zenon, <1>4, <1>5 DEF HandleRegionParamsChanged, Held
  <2> QED
    BY <1>4, <1>5, <2>1 DEF HandleRegionParamsChanged
<1>6. CASE handle_downlink \/ handle_transmit_beacon
  BY <1>4, <1>6 DEF handle_downlink, handle_transmit_beacon, own_vars
<1>7. CASE SendHeld
  <2>1. held \in Held
    BY <1>7 DEF SendHeld
  <2>2. CASE SendUplink
    BY <1>7, <2>1, <2>2, ChannelFacts DEF SendHeld, SendUplink
  <2>3. CASE SendBeaconer
    BY <1>7, <2>1, <2>3, ChannelFacts DEF SendHeld, SendBeaconer
  <2> QED
    BY <1>7, <2>2, <2>3 DEF SendHeld
<1>8. ASSUME NEW i \in TaskIds, TaskStep(i) \/ Forwarder(i)
      PROVE  OwnOK'
  BY <1>8 DEF TaskStep, Dispatch, Ack, Timeout, Update, Forwarder, own_vars, channel_vars
<1>9. ASSUME NEW m \in GatewayMessage, Deliver(m)
      PROVE  OwnOK'
  BY <1>9, ChannelFacts DEF Deliver, own_vars
<1>10. CASE DispatcherRecv
  BY <1>10, ChannelFacts DEF DispatcherRecv, own_vars
<1>11. CASE BeaconerRecv
  BY <1>11, ChannelFacts DEF BeaconerRecv, own_vars
<1>12. CASE Trigger \/ UNCHANGED vars
  BY Zenon, <1>12 DEF Trigger, vars, own_vars, channel_vars
<1> QED
  BY <1>1, <1>2, <1>3, <1>5, <1>6, <1>7, <1>8, <1>9, <1>10, <1>11, <1>12
  DEF Next, Step, Environment

(***************************************************************************)
(* The transmission tasks.  A packet that may still be transmitted has not *)
(* been on air: this is what makes AiredAtMostOnce inductive.              *)
(***************************************************************************)
NotYetAired ==
  \A i \in TaskIds : tasks[i] # None =>
    /\ tasks[i].packet \in {"unsent", "sent", "mistimed", "refused"} => tasks[i].aired = 0
    /\ tasks[i].aired <= 1

TasksOK ==
  /\ tasks \in [TaskIds -> Task \cup {None}]
  /\ aborted \in BOOLEAN
  /\ NotYetAired
  /\ PowerWithinRegion

\* What may become of one task, the others left alone.
LEMMA OneTask ==
  ASSUME TasksOK, aborted' \in BOOLEAN, NEW i \in TaskIds, NEW t \in Task,
         tasks' = [tasks EXCEPT ![i] = t],
         t.packet \in {"unsent", "sent", "mistimed", "refused"} => t.aired = 0,
         t.aired <= 1,
         \E eirp \in Params[t.region].eirps : 10 * t.power + Params[t.region].gain <= eirp
  PROVE  TasksOK'
<1>1. /\ tasks' \in [TaskIds -> Task \cup {None}]
      /\ tasks'[i] = t
      /\ \A j \in TaskIds \ {i} : tasks'[j] = tasks[j]
  BY DEF TasksOK
<1> QED
  BY <1>1 DEF TasksOK, NotYetAired, PowerWithinRegion

LEMMA SpawnStep ==
  ASSUME TasksOK, OwnOK, Powered, UNCHANGED aborted,
         NEW kind \in {"downlink", "beacon"}, NEW windows \in SUBSET Windows,
         SpawnTask(kind, windows)
  PROVE  TasksOK'
<1>1. CASE TaskIds = {}
  BY <1>1 DEF SpawnTask, TasksOK, NotYetAired, PowerWithinRegion
<1>2. CASE TaskIds # {}
  <2>1. PICK i \in TaskIds, parses \in SUBSET windows :
          tasks' = [tasks EXCEPT ![i] =
              [kind |-> kind, mac |-> downlink_mac, region |-> gateway_region,
               power |-> tx_power(Params[gateway_region]),
               windows |-> windows, parses |-> parses, window |-> "rx1",
               packet |-> "unsent", aired |-> 0]]
    BY <1>2 DEF SpawnTask
  <2> DEFINE t == [kind |-> kind, mac |-> downlink_mac, region |-> gateway_region,
                   power |-> tx_power(Params[gateway_region]),
                   windows |-> windows, parses |-> parses, window |-> "rx1",
                   packet |-> "unsent", aired |-> 0]
  <2>2. gateway_region \in Regions /\ tx_power(Params[gateway_region]) # None
    BY DEF Powered, OwnOK
  <2>3. t \in Task
    BY <2>2, PowerFits DEF Task, OwnOK, Windows
  <2>4. \E eirp \in Params[t.region].eirps : 10 * t.power + Params[t.region].gain <= eirp
    BY <2>2, PowerFits
  <2>5. t.aired = 0 /\ t.aired <= 1
    OBVIOUS
  <2>6. tasks' = [tasks EXCEPT ![i] = t] /\ aborted' \in BOOLEAN
    BY <2>1 DEF TasksOK
  <2> HIDE DEF t
  <2> QED
    BY Zenon, <2>3, <2>4, <2>5, <2>6, OneTask
<1> QED
  BY <1>1, <1>2

LEMMA TasksStep ==
  ASSUME TasksOK, OwnOK, [Next]_vars
  PROVE  TasksOK'
<1>1. ASSUME UNCHANGED task_vars
      PROVE  TasksOK'
  BY <1>1 DEF task_vars, TasksOK, NotYetAired, PowerWithinRegion
<1>2. CASE \/ Shutdown \/ HandleRegionParamsChanged \/ SendHeld
           \/ DispatcherRecv \/ BeaconerRecv \/ Trigger \/ UNCHANGED vars
  BY <1>1, <1>2 DEF Shutdown, HandleRegionParamsChanged, SendHeld, DispatcherRecv,
                    BeaconerRecv, Trigger, vars
<1>3. ASSUME NEW m, NewClient(m) \/ PacketReceived(m) \/ Deliver(m)
      PROVE  TasksOK'
  BY <1>1, <1>3 DEF NewClient, PacketReceived, Deliver
<1>4. CASE handle_downlink
  <2>1. CASE Powered
    <3>1. PICK windows \in {{"rx1"}, Windows} : SpawnTask("downlink", windows)
      BY <1>4, <2>1 DEF handle_downlink
    <3> QED
      BY <1>4, <2>1, <3>1, SpawnStep DEF handle_downlink, Windows
  <2>2. CASE ~Powered
    BY <1>1, <1>4, <2>2 DEF handle_downlink, task_vars
  <2> QED
    BY <2>1, <2>2
<1>5. CASE handle_transmit_beacon
  <2>1. CASE Powered /\ SpawnTask("beacon", {"rx1"})
    BY <1>5, <2>1, SpawnStep DEF handle_transmit_beacon, Windows
  <2>2. CASE UNCHANGED tasks
    BY <1>1, <1>5, <2>2 DEF handle_transmit_beacon, task_vars
  <2> QED
    BY <1>5, <2>1, <2>2 DEF handle_transmit_beacon
<1>6. ASSUME NEW i \in TaskIds, TaskStep(i) \/ Forwarder(i)
      PROVE  TasksOK'
  <2> DEFINE t == tasks[i]
  <2>1. t \in Task /\ aborted \in BOOLEAN
    BY <1>6 DEF TaskStep, Dispatch, Ack, Timeout, Forwarder, Live, TasksOK
  <2>2. /\ t.packet \in {"unsent", "sent", "mistimed", "refused"} => t.aired = 0
        /\ t.aired <= 1
        /\ \E eirp \in Params[t.region].eirps : 10 * t.power + Params[t.region].gain <= eirp
    BY <2>1, NoneIsNoValue DEF TasksOK, NotYetAired, PowerWithinRegion
  <2>3. ASSUME NEW packet \in {"unsent", "sent", "mistimed", "refused", "done"},
               packet = "done" \/ t.aired = 0,
               tasks' = [tasks EXCEPT ![i] = [t EXCEPT !.packet = packet]], aborted' = aborted
        PROVE  TasksOK'
    <3> DEFINE u == [t EXCEPT !.packet = packet]
    <3>1. u \in Task /\ u.packet = packet /\ u.aired = t.aired
                     /\ u.region = t.region /\ u.power = t.power
      BY <2>1 DEF Task
    <3>2. tasks' = [tasks EXCEPT ![i] = u]
      BY <2>3
    <3> HIDE DEF u
    <3> QED
      BY Zenon, <2>1, <2>2, <2>3, <3>1, <3>2, OneTask
  <2>4. CASE Dispatch(i)
    <3>1. CASE t.window \in t.parses
      BY <2>2, <2>3, <2>4, <3>1 DEF Dispatch, Update, TasksOK
    <3>2. CASE t.window \notin t.parses
      BY <2>4, <3>2 DEF Dispatch, TasksOK, NotYetAired, PowerWithinRegion
    <3> QED
      BY <3>1, <3>2
  <2>5. CASE Timeout(i)
    BY Zenon, <2>3, <2>5 DEF Timeout, Update, TasksOK
  <2>6. CASE Ack(i)
    <3>1. ASSUME tasks' = [tasks EXCEPT ![i] = [t EXCEPT !.packet = "done"]]
          PROVE  TasksOK'
      BY Zenon, <2>3, <2>6, <3>1 DEF Ack
    <3>2. CASE t.packet # "mistimed"
      BY <2>6, <3>1, <3>2 DEF Ack, TasksOK
    <3>3. CASE t.packet = "mistimed"
      <4> DEFINE u == [t EXCEPT !.window = "rx2", !.packet = "unsent"]
      <4>1. u \in Task /\ u.packet = "unsent" /\ u.aired = t.aired
                       /\ u.region = t.region /\ u.power = t.power
        BY Zenon, <2>1 DEF Task, Windows
      <4>2. \/ tasks' = [tasks EXCEPT ![i] = u]
            \/ tasks' = [tasks EXCEPT ![i] = [t EXCEPT !.packet = "done"]]
        BY Zenon, <2>6, <3>3 DEF Ack, Retry, TasksOK
      <4>3. aborted' = aborted
        BY <2>6 DEF Ack
      <4> HIDE DEF u
      <4> QED
        BY <2>1, <2>2, <3>1, <3>3, <4>1, <4>2, <4>3, OneTask
    <3> QED
      BY <3>2, <3>3
  <2>7. CASE Forwarder(i)
    <3>1. t.packet = "sent" /\ t.aired = 0 /\ aborted' = aborted
      BY <2>2, <2>7 DEF Forwarder
    <3>2. PICK outcome \in {"on_air", "mistimed", "refused"} :
            tasks' = [tasks EXCEPT ![i].packet = outcome,
                                   ![i].aired = IF outcome = "on_air" THEN @ + 1 ELSE @]
      BY Zenon, <2>7 DEF Forwarder
    <3>3. CASE outcome # "on_air"
      <4>1. tasks' = [tasks EXCEPT ![i] = [t EXCEPT !.packet = outcome]]
        BY Zenon, <2>1, <3>2, <3>3 DEF TasksOK, Task
      <4> QED
        BY Zenon, <2>3, <3>1, <3>3, <4>1
    <3>4. CASE outcome = "on_air"
      <4> DEFINE u == [t EXCEPT !.packet = "on_air", !.aired = 1]
      <4>1. tasks' = [tasks EXCEPT ![i] = u]
        <5>1. tasks' = [tasks EXCEPT ![i] = [t EXCEPT !.packet = "on_air", !.aired = t.aired + 1]]
          BY <2>1, <3>2, <3>4 DEF TasksOK, Task
        <5>2. t.aired + 1 = 1
          BY <3>1
        <5> QED
          BY Zenon, <5>1, <5>2
      <4>2. /\ u \in Task /\ u.packet = "on_air" /\ u.aired = 1
            /\ u.region = t.region /\ u.power = t.power
        <5>1. PICK n \in 0..2 : n = 1
          OBVIOUS
        <5>2. LET v == [t EXCEPT !.packet = "on_air", !.aired = n]
              IN /\ v \in Task /\ v.packet = "on_air" /\ v.aired = n
                 /\ v.region = t.region /\ v.power = t.power
          BY Zenon, <2>1 DEF Task
        <5> QED
          BY <5>1, <5>2
      <4> HIDE DEF u
      <4>3. u.aired <= 1
        BY <4>2
      <4> QED
        BY Zenon, <2>1, <2>2, <3>1, <4>1, <4>2, <4>3, OneTask
    <3> QED
      BY <3>3, <3>4
  <2> QED
    BY <1>6, <2>4, <2>5, <2>6, <2>7 DEF TaskStep
<1> QED
  BY <1>2, <1>3, <1>4, <1>5, <1>6 DEF Next, Step, Environment

(***************************************************************************)
(* The theorems about the gateway                                          *)
(***************************************************************************)
LEMMA GatewayInvariant == Spec => [](OwnOK /\ TasksOK)
<1>1. Init => OwnOK /\ TasksOK
  <2> SUFFICES ASSUME Init PROVE OwnOK /\ TasksOK
    OBVIOUS
  <2>1. OwnOK
    <3>1. /\ gateway_messages \in Seq(GatewayMessage) /\ Len(gateway_messages) <= GatewaySlots
          /\ dispatcher_messages \in Seq(DispatcherMessage)
          /\ Len(dispatcher_messages) <= DispatcherSlots
          /\ beaconer_messages \in Seq(BeaconerMessage) /\ Len(beaconer_messages) <= BeaconerSlots
      BY GatewayAssumption DEF Init
    <3> QED
      BY Zenon, <3>1 DEF Init, GatewayInit, OwnOK
  <2>2. TasksOK
    BY Zenon DEF Init, GatewayInit, TasksOK, NotYetAired, PowerWithinRegion
  <2> QED
    BY <2>1, <2>2
<1>2. OwnOK /\ TasksOK /\ [Next]_vars => (OwnOK /\ TasksOK)'
  BY OwnStep, TasksStep
<1> QED
  BY <1>1, <1>2, PTL DEF Spec

\* Every variable has its type and no channel exceeds its capacity, whatever
\* the capacities are.
THEOREM TypeCorrect == Spec => []TypeOK
<1>1. OwnOK /\ TasksOK => TypeOK
  BY DEF OwnOK, TasksOK, TypeOK
<1> QED
  BY <1>1, GatewayInvariant, PTL

\* No downlink and no beacon goes on air twice, for any number of tasks and
\* whatever becomes of the datagrams and the acks.
THEOREM NeverAiredTwice == Spec => []AiredAtMostOnce
<1>1. TasksOK => AiredAtMostOnce
  BY DEF TasksOK, NotYetAired, AiredAtMostOnce
<1> QED
  BY <1>1, GatewayInvariant, PTL

\* Nothing goes on air above the EIRP of the region the task was spawned in, for
\* all region parameters.
THEOREM NeverAboveEirp == Spec => []PowerWithinRegion
<1>1. TasksOK => PowerWithinRegion
  BY DEF TasksOK
<1> QED
  BY <1>1, GatewayInvariant, PTL

(***************************************************************************)
(* The region                                                              *)
(***************************************************************************)
Types ==
  /\ gateway_messages \in Seq(GatewayMessage)
  /\ beaconer_messages \in Seq(BeaconerMessage)
  /\ gateway_region \in Regions \cup {None}
  /\ beaconer_region \in Regions \cup {None}
  /\ beacon \in Regions \cup {None}
  /\ gateway_pc = "send" => held \in Held
  /\ beaconer_pc = "transmit" => beacon # None

IInv == Types /\ BeaconerInSync /\ BeaconHasRegion

LEMMA BeaconFacts ==
  /\ \A r : B!TransmitBeacon(r) = TransmitBeacon(r)
  /\ \A m \in {Downlink} \cup {RegionParamsChanged(r) : r \in Regions} :
       m \in GatewayMessage /\ m.type # "TransmitBeacon"
  /\ None \notin Regions
<1>1. \A r : B!TransmitBeacon(r) = TransmitBeacon(r)
  BY DEF B!TransmitBeacon, TransmitBeacon
<1>2. /\ Downlink.type # "TransmitBeacon"
      /\ \A r \in Regions : RegionParamsChanged(r).type # "TransmitBeacon"
  BY DEF Downlink, RegionParamsChanged
<1>3. \A m \in {Downlink} \cup {RegionParamsChanged(r) : r \in Regions} :
        m \in GatewayMessage /\ m.type # "TransmitBeacon"
  BY <1>2, MessageTypes
<1> QED
  BY <1>1, <1>3, NoneAssumption

\* The beaconer has a region, or is about to, only when the gateway has one.
LEMMA RegionAtGateway ==
  ASSUME IInv
  PROVE  beaconer_region # None => gateway_region # None
BY BeaconFacts, MessageFields DEF IInv, Types, BeaconerInSync, WillKnow

\* A step that leaves the two regions, the beaconer's channel and the beacon
\* alone, and adds no beacon to the gateway's channel.
LEMMA Quiet ==
  ASSUME IInv, UNCHANGED <<gateway_region, beaconer_region, beaconer_messages, beacon>>,
         gateway_messages' \in Seq(GatewayMessage),
         \A i \in 1..Len(gateway_messages') :
           \/ gateway_messages'[i].type # "TransmitBeacon"
           \/ \E j \in 1..Len(gateway_messages) : gateway_messages'[i] = gateway_messages[j],
         gateway_pc' = "send" => held' \in Held,
         beaconer_pc' = "transmit" => beaconer_pc = "transmit"
  PROVE  IInv'
BY DEF IInv, Types, BeaconerInSync, BeaconHasRegion

LEMMA GatewayKeeps ==
  ASSUME IInv, Step, UNCHANGED beaconer_vars
  PROVE  IInv'
<1> USE BeaconFacts, HeldFacts, MessageTypes DEF beaconer_vars
<1>1. CASE Shutdown
  BY <1>1, Quiet DEF Shutdown, channel_vars, IInv, Types
<1>2. ASSUME NEW mac \in Macs, NewClient(mac)
      PROVE  IInv'
  BY <1>2, Quiet DEF NewClient, channel_vars, IInv, Types
<1>3. ASSUME NEW m \in Held, PacketReceived(m)
      PROVE  IInv'
  BY <1>3, Quiet DEF PacketReceived, channel_vars, IInv, Types
<1>4. ASSUME NEW type, Recv(type)
      PROVE  /\ Head(gateway_messages) \in GatewayMessage
             /\ Head(gateway_messages).type = type
             /\ gateway_messages' \in Seq(GatewayMessage)
             /\ \A i \in 1..Len(gateway_messages') :
                  \E j \in 1..Len(gateway_messages) : gateway_messages'[i] = gateway_messages[j]
  BY <1>4, QueueFacts DEF Recv, IInv, Types
<1>5. CASE HandleRegionParamsChanged
  BY <1>4, <1>5, Quiet DEF HandleRegionParamsChanged
<1>6. CASE handle_downlink \/ handle_transmit_beacon
  BY <1>4, <1>6, Quiet DEF handle_downlink, handle_transmit_beacon, own_vars, IInv, Types
<1>7. CASE SendHeld
  <2>1. held \in Held /\ gateway_pc' = "select" /\ UNCHANGED gateway_messages
    BY <1>7 DEF SendHeld, IInv, Types
  <2>2. CASE SendUplink
    BY <2>1, <2>2, Quiet DEF SendUplink, IInv, Types
  <2>3. CASE SendBeaconer
    <3>1. held \in BeaconerMessage
      BY <2>1, <2>3 DEF SendBeaconer
    <3>2. /\ beaconer_messages' = Append(beaconer_messages, held)
          /\ gateway_region' = IF held.type = "RegionParamsChanged" THEN held.region
                                                                    ELSE gateway_region
      BY <2>3 DEF SendBeaconer
    <3>3. BeaconerInSync'
      BY <3>1, <3>2, AppendKnows DEF IInv, Types, BeaconerInSync
    <3>4. beaconer_messages' \in Seq(BeaconerMessage)
      BY <3>1, <3>2, QueueFacts DEF IInv, Types
    <3>5. /\ gateway_region' \in Regions \cup {None}
          /\ gateway_region # None => gateway_region' # None
      BY <3>1, <3>2, MessageFields DEF IInv, Types
    <3> QED
      BY <2>1, <3>3, <3>4, <3>5 DEF IInv, Types, BeaconHasRegion
  <2> QED
    BY <1>7, <2>2, <2>3 DEF SendHeld
<1> QED
  BY <1>1, <1>2, <1>3, <1>5, <1>6, <1>7 DEF Step

LEMMA BeaconerKeeps ==
  ASSUME IInv, B!Step, UNCHANGED gateway_vars
  PROVE  IInv'
<1> USE BeaconFacts, MessageTypes, MessageFields DEF gateway_vars, own_vars
<1>1. CASE B!Shutdown \/ B!Tick \/ B!mk_beacon_error \/ B!Submitted
  BY <1>1, Quiet DEF B!Shutdown, B!Tick, B!mk_beacon_error, B!Submitted, B!TopOfLoop, IInv, Types
<1>2. CASE B!mk_beacon
  BY <1>2, RegionAtGateway DEF B!mk_beacon, IInv, Types, BeaconerInSync, BeaconHasRegion
<1>3. CASE B!transmit_beacon
  <2>1. beacon \in Regions /\ gateway_region # None
    BY <1>3 DEF B!transmit_beacon, IInv, Types, BeaconHasRegion
  <2>2. gateway_messages' \in Seq(GatewayMessage)
    BY <1>3, <2>1, QueueFacts DEF B!transmit_beacon, IInv, Types
  <2> QED
    BY <1>3, <2>1, <2>2 DEF B!transmit_beacon, IInv, Types, BeaconerInSync, BeaconHasRegion
<1>4. ASSUME NEW type, B!Recv(type)
      PROVE  /\ Head(beaconer_messages) \in BeaconerMessage
             /\ Head(beaconer_messages).type = type
             /\ beaconer_messages' \in Seq(BeaconerMessage)
             /\ WillKnow(beaconer_messages', "RegionParamsChanged",
                         IF type = "RegionParamsChanged" THEN Head(beaconer_messages).region
                                                         ELSE beaconer_region,
                         gateway_region)
  BY <1>4, QueueFacts, TailKnows DEF B!Recv, IInv, Types, BeaconerInSync
<1>5. CASE B!handle_received_beacon
  BY <1>4, <1>5 DEF B!handle_received_beacon, B!TopOfLoop, IInv, Types, BeaconerInSync,
                    BeaconHasRegion
<1>6. CASE B!handle_region_params
  BY <1>4, <1>6 DEF B!handle_region_params, B!TopOfLoop, IInv, Types, BeaconerInSync,
                    BeaconHasRegion
<1> QED
  BY <1>1, <1>2, <1>3, <1>5, <1>6 DEF B!Step

LEMMA IInvStep ==
  ASSUME IInv, [RadioNext]_radio_vars
  PROVE  IInv'
<1>1. CASE RadioStep
  BY <1>1, GatewayKeeps, BeaconerKeeps DEF RadioStep
<1>2. CASE RadioDeliver
  <2>1. PICK m \in {Downlink} \cup {RegionParamsChanged(r) : r \in Regions} : Deliver(m)
    BY <1>2 DEF RadioDeliver
  <2>2. m \in GatewayMessage /\ m.type # "TransmitBeacon"
    BY BeaconFacts
  <2>3. gateway_messages' = Append(gateway_messages, m)
    BY <2>1 DEF Deliver
  <2>4. /\ gateway_messages' \in Seq(GatewayMessage)
        /\ \A i \in 1..Len(gateway_messages') :
             \/ gateway_messages'[i].type # "TransmitBeacon"
             \/ \E j \in 1..Len(gateway_messages) : gateway_messages'[i] = gateway_messages[j]
    BY <2>2, <2>3, QueueFacts DEF IInv, Types
  <2> QED
    BY <1>2, <2>1, <2>4, Quiet DEF RadioDeliver, Deliver, own_vars, beaconer_vars, IInv, Types
<1>3. CASE RadioDispatcherRecv \/ RadioTrigger \/ UNCHANGED radio_vars
  BY <1>3, Quiet DEF RadioDispatcherRecv, RadioTrigger, radio_vars, DispatcherRecv, Trigger,
     own_vars,
                     channel_vars, gateway_vars, beaconer_vars, IInv, Types
<1> QED
  BY <1>1, <1>2, <1>3 DEF RadioNext

LEMMA RadioInvariant == RadioSpec => []IInv
<1>1. RadioInit => IInv
  BY DEF RadioInit, Init, GatewayInit, B!BeaconerInit, IInv, Types, BeaconerInSync,
         BeaconHasRegion, WillKnow
<1>2. IInv /\ [RadioNext]_radio_vars => IInv'
  BY IInvStep
<1> QED
  BY <1>1, <1>2, PTL DEF RadioSpec

\* The beaconer never stays behind the gateway's region, for any capacities and
\* any interleaving of region changes with beacons and uplinks.
THEOREM BeaconerKeepsUp == RadioSpec => []BeaconerInSync
<1>1. IInv => BeaconerInSync
  BY DEF IInv
<1> QED
  BY <1>1, RadioInvariant, PTL

\* A beacon never reaches a gateway without region parameters.
THEOREM BeaconNeverWithoutRegion == RadioSpec => []BeaconHasRegion
<1>1. IInv => BeaconHasRegion
  BY DEF IInv
<1> QED
  BY <1>1, RadioInvariant, PTL

(***************************************************************************)
(* The two tasks implement Tasks                                           *)
(***************************************************************************)
GatewayStatus ==
  CASE gateway_pc = "send" -> IF held.type = "Uplink" THEN "dispatcher" ELSE "beaconer"
    [] gateway_pc = "returned" -> "returned"
    [] OTHER -> "running"

BeaconerStatus ==
  CASE beaconer_pc = "entropy" -> "entropy"
    [] beaconer_pc = "transmit" -> "gateway"
    [] beaconer_pc = "returned" -> "returned"
    [] OTHER -> "running"

Status == [beaconer |-> BeaconerStatus, gateway |-> GatewayStatus, dispatcher |-> "running"]

AbstractStep == [AsTasks!Next]_<<Status, shutdown>>

LEMMA StatusIsMapped ==
  AsTasks!Spec <=> AsTasks!Init /\ [][AsTasks!Next]_<<Status, shutdown>>
BY DEF AsTasks!Spec, Status, GatewayStatus, BeaconerStatus

\* What a task may do to its status.
MayBecome(from, to, peers) ==
  \/ to = from
  \/ from = "running" /\ to \in peers
  \/ from \in peers /\ to \in peers \cup {"running"}
  \/ from \in peers \cup {"running"} /\ to = "returned" /\ shutdown

LEMMA GatewayMoves ==
  ASSUME MayBecome(GatewayStatus, GatewayStatus', {"dispatcher", "beaconer"}),
         UNCHANGED <<beaconer_pc, shutdown>>
  PROVE  AbstractStep
<1>1. Status' = [Status EXCEPT !["gateway"] = GatewayStatus']
  BY DEF Status, BeaconerStatus
<1>2. CASE GatewayStatus' = GatewayStatus
  BY <1>1, <1>2 DEF Status, AbstractStep
<1>3. CASE GatewayStatus' # GatewayStatus
  <2>1. CASE GatewayStatus = "running" /\ GatewayStatus' \in {"dispatcher", "beaconer"}
    <3>1. AsTasks!Wait("gateway")
      BY <1>1, <2>1 DEF Status, GatewayStatus, BeaconerStatus, AsTasks!Wait, AsTasks!Peers
    <3> QED
      BY <3>1 DEF AbstractStep, AsTasks!Next, AsTasks!TaskStep, AsTasks!TaskNames, AsTasks!Peers
  <2>2. CASE GatewayStatus = "running" /\ GatewayStatus' = "returned" /\ shutdown
    <3>1. AsTasks!Return("gateway")
      BY Zenon, <1>1, <2>2 DEF Status, GatewayStatus, BeaconerStatus, AsTasks!Return
    <3> QED
      BY <3>1 DEF AbstractStep, AsTasks!Next, AsTasks!TaskStep, AsTasks!TaskNames, AsTasks!Peers
  <2>3. CASE /\ GatewayStatus \in {"dispatcher", "beaconer"}
             /\ \/ GatewayStatus' \in {"dispatcher", "beaconer"} \cup {"running"}
                \/ GatewayStatus' = "returned" /\ shutdown
    <3>1. AsTasks!Resume("gateway")
      BY <1>1, <2>3 DEF Status, GatewayStatus, BeaconerStatus, AsTasks!Resume, AsTasks!Waiting,
                        AsTasks!Peers
    <3> QED
      BY <3>1 DEF AbstractStep, AsTasks!Next, AsTasks!TaskStep, AsTasks!TaskNames, AsTasks!Peers
  <2> QED
    BY <1>3, <2>1, <2>2, <2>3 DEF MayBecome
<1> QED
  BY <1>2, <1>3

LEMMA BeaconerMoves ==
  ASSUME MayBecome(BeaconerStatus, BeaconerStatus', {"gateway", "entropy"}),
         UNCHANGED <<gateway_pc, held, shutdown>>
  PROVE  AbstractStep
<1>1. Status' = [Status EXCEPT !["beaconer"] = BeaconerStatus']
  BY DEF Status, GatewayStatus
<1>2. CASE BeaconerStatus' = BeaconerStatus
  BY <1>1, <1>2 DEF Status, AbstractStep
<1>3. CASE BeaconerStatus' # BeaconerStatus
  <2>1. CASE BeaconerStatus = "running" /\ BeaconerStatus' \in {"gateway", "entropy"}
    <3>1. AsTasks!Wait("beaconer")
      BY <1>1, <2>1 DEF Status, GatewayStatus, BeaconerStatus, AsTasks!Wait, AsTasks!Peers
    <3> QED
      BY <3>1 DEF AbstractStep, AsTasks!Next, AsTasks!TaskStep, AsTasks!TaskNames, AsTasks!Peers
  <2>2. CASE BeaconerStatus = "running" /\ BeaconerStatus' = "returned" /\ shutdown
    <3>1. AsTasks!Return("beaconer")
      BY Zenon, <1>1, <2>2 DEF Status, GatewayStatus, BeaconerStatus, AsTasks!Return
    <3> QED
      BY <3>1 DEF AbstractStep, AsTasks!Next, AsTasks!TaskStep, AsTasks!TaskNames, AsTasks!Peers
  <2>3. CASE /\ BeaconerStatus \in {"gateway", "entropy"}
             /\ \/ BeaconerStatus' \in {"gateway", "entropy"} \cup {"running"}
                \/ BeaconerStatus' = "returned" /\ shutdown
    <3>1. AsTasks!Resume("beaconer")
      BY <1>1, <2>3 DEF Status, GatewayStatus, BeaconerStatus, AsTasks!Resume, AsTasks!Waiting,
                        AsTasks!Peers
    <3> QED
      BY <3>1 DEF AbstractStep, AsTasks!Next, AsTasks!TaskStep, AsTasks!TaskNames, AsTasks!Peers
  <2> QED
    BY <1>3, <2>1, <2>2, <2>3 DEF MayBecome
<1> QED
  BY <1>2, <1>3

LEMMA RadioMoves ==
  ASSUME [RadioNext]_radio_vars
  PROVE  AbstractStep
<1>1. ASSUME UNCHANGED <<gateway_pc, held, beaconer_pc, shutdown>>
      PROVE  AbstractStep
  BY <1>1 DEF AbstractStep, Status, GatewayStatus, BeaconerStatus
<1>2. CASE Step /\ UNCHANGED beaconer_vars
  <2>1. ASSUME \/ Shutdown \/ HandleRegionParamsChanged \/ SendHeld
               \/ \E m : PacketReceived(m)
        PROVE  AbstractStep
    <3>1. UNCHANGED shutdown
      BY <2>1 DEF Shutdown, HandleRegionParamsChanged, SendHeld, PacketReceived
    <3>2. MayBecome(GatewayStatus, GatewayStatus', {"dispatcher", "beaconer"})
      BY <2>1 DEF Shutdown, HandleRegionParamsChanged, SendHeld, PacketReceived, Recv,
                  MayBecome, GatewayStatus
    <3> QED
      BY <1>2, <3>1, <3>2, GatewayMoves DEF beaconer_vars
  <2>2. ASSUME \/ handle_downlink \/ handle_transmit_beacon
               \/ \E mac \in Macs : NewClient(mac)
        PROVE  AbstractStep
    BY <1>1, <1>2, <2>2 DEF handle_downlink, handle_transmit_beacon, NewClient, own_vars,
                            beaconer_vars
  <2> QED
    BY <1>2, <2>1, <2>2 DEF Step
<1>3. CASE B!Step /\ UNCHANGED gateway_vars
  <2>1. UNCHANGED shutdown
    BY <1>3 DEF B!Step, B!Shutdown, B!Tick, B!mk_beacon_error, B!mk_beacon, B!transmit_beacon,
                B!Submitted, B!handle_received_beacon, B!handle_region_params
  <2>2. MayBecome(BeaconerStatus, BeaconerStatus', {"gateway", "entropy"})
    BY <1>3 DEF B!Step, B!Shutdown, B!Tick, B!mk_beacon_error, B!mk_beacon, B!transmit_beacon,
                B!Submitted, B!handle_received_beacon, B!handle_region_params, B!Recv,
                B!TopOfLoop, MayBecome, BeaconerStatus
  <2> QED
    BY <1>3, <2>1, <2>2, BeaconerMoves DEF gateway_vars, own_vars
<1>4. CASE RadioDeliver \/ RadioDispatcherRecv \/ UNCHANGED radio_vars
  BY <1>1, <1>4 DEF RadioDeliver, RadioDispatcherRecv, radio_vars, Deliver, DispatcherRecv,
     own_vars,
                    gateway_vars, beaconer_vars
<1>5. CASE RadioTrigger
  BY Zenon, <1>5 DEF RadioTrigger, Trigger, own_vars, beaconer_vars, AbstractStep, AsTasks!Next,
              AsTasks!Trigger, Status, GatewayStatus, BeaconerStatus
<1> QED
  BY <1>2, <1>3, <1>4, <1>5 DEF RadioNext, RadioStep

\* The gateway and the beaconer are what Tasks says of them, for any capacities:
\* neither returns before the trigger, and neither waits for anything but the
\* receiver of a channel it was given and the entropy of a beacon.  What Process
\* shows of try_join! and of the local API holds with these two in their place.
THEOREM RadioImplementsTasks == RadioSpec => RefinesTasks
<1>1. RadioInit => AsTasks!Init
  BY DEF RadioInit, Init, GatewayInit, B!BeaconerInit, AsTasks!Init, AsTasks!TaskNames,
         AsTasks!Peers
<1>2. [RadioNext]_radio_vars => [AsTasks!Next]_<<Status, shutdown>>
  BY RadioMoves DEF AbstractStep
<1> QED
  BY <1>1, <1>2, StatusIsMapped, PTL DEF RadioSpec, RefinesTasks
=============================================================================
