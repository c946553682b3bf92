---------------------------- MODULE ServerProofs ----------------------------
(***************************************************************************)
(* The tasks of the server together, for any routers, regions, packets and *)
(* channel capacities: the region reaches the beaconer, a circular wait is *)
(* final, and the real router clients, gateway and beaconer are the        *)
(* environment the dispatcher's theorems are about.                        *)
(***************************************************************************)
EXTENDS Server, ListProofs

(***************************************************************************)
(* The messages of the tasks' modules are the same.                        *)
(***************************************************************************)
LEMMA SameMessages ==
  /\ G!ReceivedBeacon = ReceivedBeacon
  /\ \A p : G!Uplink(p) = Uplink(p) /\ D!Uplink(p) = Uplink(p)
  /\ C!Downlink = Downlink
  /\ \A r : B!TransmitBeacon(r) = TransmitBeacon(r)
  /\ \A r : D!RegionParamsChanged(r) = RegionParamsChanged(r)
BY DEF G!ReceivedBeacon, ReceivedBeacon, G!Uplink, D!Uplink, Uplink, C!Downlink, Downlink,
       B!TransmitBeacon, TransmitBeacon, D!RegionParamsChanged, RegionParamsChanged

\* Each message belongs to the channels it is sent over.
LEMMA MessageTypes ==
  /\ \A p \in Packets : Uplink(p) \in DispatcherMessage
  /\ \A r \in Regions : /\ RegionParamsChanged(r) \in GatewayMessage
                        /\ RegionParamsChanged(r) \in BeaconerMessage
                        /\ TransmitBeacon(r) \in GatewayMessage
  /\ Downlink \in GatewayMessage
  /\ ReceivedBeacon \in BeaconerMessage
BY DEF DispatcherMessage, GatewayMessage, BeaconerMessage

\* What a region change carries.
LEMMA MessageFields ==
  \A m \in BeaconerMessage : m.type = "RegionParamsChanged" => m.region \in Regions
BY DEF BeaconerMessage, ReceivedBeacon, RegionParamsChanged

\* The gateway passes region changes on to the beaconer as it gets them; no
\* other message of its channel is one.
LEMMA GatewayMessages ==
  /\ \A m \in GatewayMessage : m.type = "RegionParamsChanged" =>
       m \in BeaconerMessage /\ m.region \in Regions
  /\ Downlink.type # "RegionParamsChanged"
  /\ \A r \in Regions : /\ TransmitBeacon(r).type # "RegionParamsChanged"
                        /\ RegionParamsChanged(r).type = "RegionParamsChanged"
                        /\ RegionParamsChanged(r).region = r
<1>1. \A m \in GatewayMessage : m.type = "RegionParamsChanged" =>
        m \in BeaconerMessage /\ m.region \in Regions
  BY DEF BeaconerMessage, GatewayMessage, Downlink, TransmitBeacon, RegionParamsChanged
<1>2. /\ Downlink.type # "RegionParamsChanged"
      /\ \A r \in Regions : /\ TransmitBeacon(r).type # "RegionParamsChanged"
                            /\ RegionParamsChanged(r).type = "RegionParamsChanged"
                            /\ RegionParamsChanged(r).region = r
  BY DEF Downlink, TransmitBeacon, RegionParamsChanged
<1> QED
  BY <1>1, <1>2

(***************************************************************************)
(* The gateway's channel as the dispatcher's module knows it: a message of *)
(* another sender counts as a downlink.                                    *)
(***************************************************************************)
Seen(messages) ==
  [i \in DOMAIN messages |->
     IF messages[i].type = "RegionParamsChanged" THEN messages[i] ELSE Downlink]

LEMMA SeenFacts ==
  ASSUME NEW s \in Seq(GatewayMessage)
  PROVE  /\ Seen(s) \in Seq(GatewayMessage)
         /\ Len(Seen(s)) = Len(s)
         /\ \A i \in 1..Len(s) :
              Seen(s)[i] = IF s[i].type = "RegionParamsChanged" THEN s[i] ELSE Downlink
BY MessageTypes DEF Seen

LEMMA SeenAppend ==
  ASSUME NEW s \in Seq(GatewayMessage), NEW m \in GatewayMessage
  PROVE  Seen(Append(s, m)) =
           Append(Seen(s), IF m.type = "RegionParamsChanged" THEN m ELSE Downlink)
<1> DEFINE t == Append(s, m)
           l == Seen(t)
           r == Append(Seen(s), IF m.type = "RegionParamsChanged" THEN m ELSE Downlink)
<1>1. t \in Seq(GatewayMessage) /\ Len(t) = Len(s) + 1
      /\ \A i \in 1..Len(t) : t[i] = IF i = Len(s) + 1 THEN m ELSE s[i]
  OBVIOUS
<1>2. Len(r) = Len(Seen(s)) + 1 /\ r \in Seq(GatewayMessage)
      /\ \A i \in 1..Len(r) : r[i] = IF i = Len(Seen(s)) + 1
                                      THEN IF m.type = "RegionParamsChanged" THEN m ELSE Downlink
                                      ELSE Seen(s)[i]
  BY SeenFacts, MessageTypes
<1>3. /\ l \in Seq(GatewayMessage) /\ Len(l) = Len(t)
      /\ \A i \in 1..Len(t) : l[i] = IF t[i].type = "RegionParamsChanged" THEN t[i] ELSE Downlink
  BY Zenon, <1>1, SeenFacts
<1> HIDE DEF t, l, r
<1>4. Len(l) = Len(r) /\ Len(l) \in Nat
  BY <1>1, <1>2, <1>3, SeenFacts
<1>5. ASSUME NEW i \in 1..Len(l)
      PROVE  l[i] = r[i]
  <2>1. i \in 1..Len(t) /\ i \in 1..Len(r) /\ (i # Len(s) + 1 => i \in 1..Len(s))
    BY <1>1, <1>3, <1>4
  <2> QED
    BY <1>1, <1>2, <1>3, <2>1, SeenFacts
<1> QED
  BY <1>2, <1>3, <1>4, <1>5 DEF l, r, t

LEMMA SeenTail ==
  ASSUME NEW s \in Seq(GatewayMessage), s # <<>>
  PROVE  /\ Seen(s) # <<>>
         /\ Head(Seen(s)) = IF Head(s).type = "RegionParamsChanged" THEN Head(s) ELSE Downlink
         /\ Seen(Tail(s)) = Tail(Seen(s))
<1> DEFINE t == Tail(s)
           l == Seen(t)
           u == Seen(s)
           r == Tail(u)
<1>1. /\ t \in Seq(GatewayMessage) /\ Len(s) \in Nat \ {0} /\ Len(t) = Len(s) - 1
      /\ \A i \in 1..Len(t) : t[i] = s[i + 1]
      /\ Head(s) = s[1]
  OBVIOUS
<1>2. /\ u \in Seq(GatewayMessage) /\ Len(u) = Len(s)
      /\ \A i \in 1..Len(s) : u[i] = IF s[i].type = "RegionParamsChanged" THEN s[i] ELSE Downlink
  BY SeenFacts
<1>3. /\ l \in Seq(GatewayMessage) /\ Len(l) = Len(t)
      /\ \A i \in 1..Len(t) : l[i] = IF t[i].type = "RegionParamsChanged" THEN t[i] ELSE Downlink
  BY Zenon, <1>1, SeenFacts
<1> HIDE DEF t, l, u
<1>4. u # <<>> /\ Head(u) = u[1]
  BY <1>1, <1>2
<1>5. r \in Seq(GatewayMessage) /\ Len(r) = Len(u) - 1 /\ \A i \in 1..Len(r) : r[i] = u[i + 1]
  BY <1>2, <1>4
<1> HIDE DEF r
<1>6. ASSUME NEW i \in 1..Len(l)
      PROVE  l[i] = r[i]
  <2>1. i \in 1..Len(t) /\ i \in 1..Len(r) /\ i + 1 \in 1..Len(s)
    BY <1>1, <1>2, <1>3, <1>5
  <2> QED
    BY Zenon, <1>1, <1>2, <1>3, <1>5, <2>1
<1>7. Len(l) = Len(r) /\ 1 \in 1..Len(s)
  BY <1>1, <1>2, <1>3, <1>5
<1>8. l = r
  BY <1>3, <1>5, <1>6, <1>7
<1> QED
  BY <1>1, <1>2, <1>4, <1>7, <1>8 DEF l, r, t, u
Held == {Uplink(p) : p \in Packets} \cup BeaconerMessage

\* A value for each router.
IsTable(f) == f = [k \in RouterKeys |-> f[k]]

Types ==
  /\ IsTable(client_pc)
  /\ IsTable(client_messages)
  /\ IsTable(client_region)
  /\ gateway_messages \in Seq(GatewayMessage)
  /\ beaconer_messages \in Seq(BeaconerMessage)
  /\ region \in Regions
  /\ gateway_region \in Regions \cup {None}
  /\ beaconer_region \in Regions \cup {None}
  /\ beaconer_pc = "transmit" => beacon \in Regions
  /\ IF gateway_pc = "send" THEN held \in Held ELSE held = None

\* The region the gateway has been told: a change it holds counts as taken.
Told == IF held # None /\ held.type = "RegionParamsChanged" THEN held.region ELSE gateway_region

\* The first half of the way from the dispatcher to the beaconer.
GatewayWillKnow ==
  \/ dispatcher_pc = "region"
  \/ /\ Told = None
     /\ \A i \in 1..Len(gateway_messages) : gateway_messages[i].type # "RegionParamsChanged"
  \/ WillKnow(gateway_messages, "RegionParamsChanged", Told, region)

\* The second half.
BeaconerFollows ==
  WillKnow(beaconer_messages, "RegionParamsChanged", beaconer_region, gateway_region)

IInv == Types /\ GatewayWillKnow /\ BeaconerFollows

LEMMA MessageFacts ==
  /\ \A m \in Held : m.type # "Uplink" => m \in BeaconerMessage
  /\ \A m \in BeaconerMessage : m.type = "RegionParamsChanged" => m.region \in Regions
  /\ \A m \in GatewayMessage : m.type = "RegionParamsChanged" =>
       m \in BeaconerMessage /\ m \in Held /\ m.region \in Regions
  /\ ReceivedBeacon \in Held /\ \A p \in Packets : Uplink(p) \in Held
  /\ Downlink \in GatewayMessage /\ Downlink.type # "RegionParamsChanged"
  /\ \A r \in Regions :
       /\ TransmitBeacon(r) \in GatewayMessage /\ TransmitBeacon(r).type # "RegionParamsChanged"
       /\ RegionParamsChanged(r) \in GatewayMessage
       /\ RegionParamsChanged(r).type = "RegionParamsChanged" /\ RegionParamsChanged(r).region = r
  /\ None \notin Regions /\ None \notin Held
<1>1. \A m \in Held : m.type # "Uplink" => m \in BeaconerMessage
  BY DEF Held, Uplink
<1>2. ReceivedBeacon \in Held /\ \A p \in Packets : Uplink(p) \in Held
  BY MessageTypes DEF Held
<1>3. \A m \in BeaconerMessage : m \in Held
  BY DEF Held
<1>4. None \notin Regions /\ None \notin Held
  BY NoneAssumption, ServerAssumption DEF Held
<1> QED
  BY <1>1, <1>2, <1>3, <1>4, MessageTypes, MessageFields, GatewayMessages

\* g is f but for what it gives router k.
OnlyAt(f, g, k) == g = f \/ \E v : g = [f EXCEPT ![k] = v]

LEMMA TableUpdate ==
  ASSUME NEW f, NEW g, NEW k \in RouterKeys, IsTable(f), OnlyAt(f, g, k)
  PROVE  IsTable(g) /\ \A j \in RouterKeys \ {k} : g[j] = f[j]
BY DEF IsTable, OnlyAt

(***************************************************************************)
(* What a step of each task does to the region and to the channels.        *)
(***************************************************************************)
LEMMA DispatcherEffect ==
  ASSUME Types, DispatcherStep
  PROVE  /\ \/ /\ dispatcher_pc \in {"announce", "region"}
               /\ Len(gateway_messages) < GatewaySlots
               /\ gateway_messages' = Append(gateway_messages, RegionParamsChanged(region))
               /\ region' = region
            \/ /\ dispatcher_pc \notin {"announce", "region"}
               /\ gateway_messages' = gateway_messages
               /\ region' = region \/ (region' \in Regions /\ dispatcher_pc' = "region")
         /\ IsTable(client_messages')
         /\ IsTable(client_region')
         /\ IsTable(client_pc')
         /\ \A k \in RouterKeys : client_pc[k] # "absent" => client_pc'[k] = client_pc[k]
<1>1. /\ IsTable(client_pc')
      /\ \A k \in RouterKeys : client_pc[k] # "absent" => client_pc'[k] = client_pc[k]
  BY Zenon DEF DispatcherStep, Types, IsTable
<1>2. CASE D!Announce \/ D!TellRegion
  BY <1>1, <1>2, SameMessages DEF D!Announce, D!TellRegion, D!TellGateway, D!client_vars, Types
<1>3. ASSUME NEW h \in 1..MaxHeight, D!handle_region_params_update(h)
      PROVE  /\ dispatcher_pc = "serve" /\ dispatcher_pc' = "region" /\ region' \in Regions
             /\ UNCHANGED <<gateway_messages, client_messages, client_region>>
  BY <1>3, ServerAssumption DEF D!handle_region_params_update, D!client_vars, D!gateway_vars
<1>4. ASSUME NEW k \in RouterKeys, D!SendNext(k)
      PROVE  /\ dispatcher_pc \notin {"announce", "region"}
             /\ UNCHANGED <<gateway_messages, client_region, region>>
             /\ IsTable(client_messages')
  <2>1. OnlyAt(client_messages, client_messages', k)
    BY <1>4 DEF D!SendNext, OnlyAt
  <2>2. IsTable(client_messages')
    BY <2>1, TableUpdate DEF Types
  <2> QED
    BY <1>4, <2>2 DEF D!SendNext, D!gateway_vars
<1>5. CASE D!handle_oui_routing_update
  BY <1>1, <1>5 DEF D!handle_oui_routing_update, D!start_routers, D!RouterKeys, RouterKeys,
                    D!gateway_vars, IsTable
<1>6. CASE \/ D!Shutdown \/ D!setup_gateway_streams \/ D!ConnectError \/ D!BackoffElapsed
           \/ D!StreamError \/ (\E s \in D!Streams : D!StreamEnd(s)) \/ D!CheckTick
           \/ D!CheckOk \/ D!CheckError
  <2>1. /\ dispatcher_pc \notin {"announce", "region"}
        /\ UNCHANGED <<gateway_messages, client_messages, client_region, region>>
    BY <1>6 DEF D!Shutdown, D!setup_gateway_streams, D!ConnectError, D!BackoffElapsed,
                D!StreamError, D!StreamEnd, D!CheckTick, D!CheckOk, D!CheckError, D!client_vars,
                D!gateway_vars
  <2> QED
    BY <1>1, <2>1 DEF Types
<1>7. CASE \/ D!handle_uplink \/ D!HandleGatewayRequest \/ D!Reply \/ D!HandleRegionRequest
           \/ (\E h \in 1..MaxHeight : D!handle_routing_update(h)) \/ D!FinishRoutingUpdate
  <2>1. /\ dispatcher_pc \notin {"announce", "region"}
        /\ UNCHANGED <<gateway_messages, client_messages, client_region, region>>
    BY <1>7 DEF D!handle_uplink, D!HandleGatewayRequest, D!Reply, D!HandleRegionRequest, D!Recv,
                D!handle_routing_update, D!FinishRoutingUpdate, D!client_vars, D!gateway_vars
  <2> QED
    BY <1>1, <2>1 DEF Types
<1> QED
  BY Zenon, <1>1, <1>2, <1>3, <1>4, <1>5, <1>6, <1>7 DEF DispatcherStep, D!Step, D!RouterKeys,
     RouterKeys,
     Types

LEMMA ClientEffect ==
  ASSUME Types, NEW k \in RouterKeys, ClientStep(k)
  PROVE  /\ \/ gateway_messages' = gateway_messages
            \/ /\ client_pc[k] = "downlink"
               /\ Len(gateway_messages) < GatewaySlots
               /\ gateway_messages' = Append(gateway_messages, Downlink)
         /\ client_pc[k] = "downlink" => gateway_messages' # gateway_messages
         /\ IsTable(client_messages')
         /\ IsTable(client_region')
         /\ IsTable(client_pc')
         /\ \A j \in RouterKeys \ {k} : /\ client_pc'[j] = client_pc[j]
                                        /\ client_messages'[j] = client_messages[j]
<1>1. /\ OnlyAt(client_pc, client_pc', k)
      /\ OnlyAt(client_messages, client_messages', k)
      /\ OnlyAt(client_region, client_region', k)
  BY Zenon DEF ClientStep, C!Step, C!handle_uplink, C!HandleRegionChanged, C!HandleStop,
     C!HandleShutdown, C!StoreGc, C!RouteError, C!RouteNoDownlink, C!RouteDownlink,
     C!handle_downlink, C!Recv, C!send_waiting_packets, C!Return, OnlyAt
<1>2. Append(gateway_messages, Downlink) # gateway_messages
  BY DEF Types
<1>3. /\ \/ gateway_messages' = gateway_messages
         \/ /\ client_pc[k] = "downlink"
            /\ Len(gateway_messages) < GatewaySlots
            /\ gateway_messages' = Append(gateway_messages, Downlink)
      /\ client_pc[k] = "downlink" => gateway_messages' # gateway_messages
  BY <1>2, SameMessages DEF ClientStep, C!Step, C!handle_uplink, C!HandleRegionChanged,
     C!HandleStop, C!HandleShutdown, C!StoreGc, C!RouteError, C!RouteNoDownlink,
     C!RouteDownlink, C!handle_downlink, C!Recv, C!Return
<1> QED
  BY <1>1, <1>3, TableUpdate DEF Types

\* The gateway notes something, hears a packet, takes a message or sends the
\* one it holds.
Notes ==
  /\ gateway_pc' \in {gateway_pc, "returned"} /\ gateway_pc = "select"
  /\ UNCHANGED <<held, gateway_region, gateway_messages, dispatcher_messages, beaconer_messages,
                 shutdown>>

Hears ==
  /\ gateway_pc = "select" /\ gateway_pc' = "send"
  /\ held' \in Held /\ held'.type # "RegionParamsChanged"
  /\ UNCHANGED <<gateway_region, gateway_messages, dispatcher_messages, beaconer_messages,
                 shutdown>>

Takes ==
  /\ gateway_pc = "select"
  /\ gateway_messages # <<>> /\ gateway_messages' = Tail(gateway_messages)
  /\ IF Head(gateway_messages).type = "RegionParamsChanged"
       THEN gateway_pc' = "send" /\ held' = Head(gateway_messages)
       ELSE UNCHANGED <<gateway_pc, held>>
  /\ UNCHANGED <<gateway_region, dispatcher_messages, beaconer_messages, shutdown>>

Sends ==
  /\ gateway_pc = "send" /\ gateway_pc' = "select" /\ held' = None
  /\ IF held.type = "Uplink"
       THEN /\ Len(dispatcher_messages) < DispatcherSlots
            /\ dispatcher_messages' = Append(dispatcher_messages, held)
            /\ UNCHANGED <<beaconer_messages, gateway_region>>
       ELSE /\ Len(beaconer_messages) < BeaconerSlots
            /\ beaconer_messages' = Append(beaconer_messages, held)
            /\ gateway_region' = IF held.type = "RegionParamsChanged" THEN held.region
                                                                      ELSE gateway_region
            /\ UNCHANGED dispatcher_messages
  /\ UNCHANGED <<gateway_messages, shutdown>>

LEMMA GatewayEffect ==
  ASSUME GatewayStep
  PROVE  Notes \/ Hears \/ Takes \/ Sends
<1> USE DEF GatewayStep, G!channel_vars, G!own_vars
<1>1. CASE G!Shutdown \/ \E mac \in Macs : G!NewClient(mac)
  BY <1>1 DEF G!Shutdown, G!NewClient, Notes
<1>2. ASSUME \/ G!PacketReceived(G!ReceivedBeacon)
             \/ \E p \in Packets : G!PacketReceived(G!Uplink(p))
      PROVE  Hears
  <2>1. ReceivedBeacon.type # "RegionParamsChanged" /\ \A p : Uplink(p).type # "RegionParamsChanged"
    BY DEF ReceivedBeacon, Uplink
  <2> QED
    BY <1>2, <2>1, SameMessages, MessageFacts DEF G!PacketReceived, Hears
<1>3. CASE G!HandleRegionParamsChanged
  BY <1>3 DEF G!HandleRegionParamsChanged, G!Recv, Takes
<1>4. CASE G!handle_downlink \/ G!handle_transmit_beacon
  BY <1>4 DEF G!handle_downlink, G!handle_transmit_beacon, G!Recv, Takes
<1>5. CASE G!SendHeld
  BY <1>5 DEF G!SendHeld, G!SendUplink, G!SendBeaconer, Sends
<1> QED
  BY <1>1, <1>2, <1>3, <1>4, <1>5 DEF G!Step

\* The beaconer goes about its business, sends a beacon or takes a message.
Beacons ==
  /\ beaconer_pc # "transmit"
  /\ \/ UNCHANGED beacon /\ beaconer_pc' # "transmit"
     \/ beaconer_region # None /\ beacon' = beaconer_region /\ beaconer_pc' = "transmit"
  /\ UNCHANGED <<beaconer_region, gateway_messages, beaconer_messages, shutdown>>

Transmits ==
  /\ beaconer_pc = "transmit" /\ beaconer_pc' = "report" /\ beacon' = None
  /\ Len(gateway_messages) < GatewaySlots
  /\ gateway_messages' = Append(gateway_messages, TransmitBeacon(beacon))
  /\ UNCHANGED <<beaconer_region, beaconer_messages, shutdown>>

Follows ==
  /\ beaconer_pc = "select" /\ beaconer_pc' # "transmit"
  /\ beaconer_messages # <<>> /\ beaconer_messages' = Tail(beaconer_messages)
  /\ beaconer_region' = IF Head(beaconer_messages).type = "RegionParamsChanged"
                          THEN Head(beaconer_messages).region ELSE beaconer_region
  /\ UNCHANGED <<beacon, gateway_messages, shutdown>>

LEMMA BeaconerEffect ==
  ASSUME BeaconerStep
  PROVE  Beacons \/ Transmits \/ Follows
<1> USE DEF BeaconerStep, B!TopOfLoop
<1>1. CASE B!Shutdown \/ B!Tick \/ B!mk_beacon_error \/ B!mk_beacon \/ B!Submitted
  BY <1>1 DEF B!Shutdown, B!Tick, B!mk_beacon_error, B!mk_beacon, B!Submitted, Beacons
<1>2. CASE B!transmit_beacon
  BY <1>2, SameMessages DEF B!transmit_beacon, Transmits
<1>3. CASE B!handle_received_beacon \/ B!handle_region_params
  BY <1>3 DEF B!handle_received_beacon, B!handle_region_params, B!Recv, Follows
<1> QED
  BY <1>1, <1>2, <1>3 DEF B!Step

(***************************************************************************)
(* The invariant                                                           *)
(***************************************************************************)
\* Another message than a region change neither informs nor misleads.
LEMMA OtherMessage ==
  ASSUME Types, GatewayWillKnow, NEW m \in GatewayMessage, m.type # "RegionParamsChanged",
         gateway_messages' = Append(gateway_messages, m),
         UNCHANGED <<held, gateway_region, dispatcher_pc, region>>
  PROVE  gateway_messages' \in Seq(GatewayMessage) /\ GatewayWillKnow'
<1>1. Told' = Told
  BY DEF Told
<1>2. gateway_messages' \in Seq(GatewayMessage)
  BY QueueFacts DEF Types
<1>3. CASE WillKnow(gateway_messages, "RegionParamsChanged", Told, region)
  BY <1>1, <1>2, <1>3, AppendKnows DEF Types, GatewayWillKnow
<1>4. CASE \A i \in 1..Len(gateway_messages) : gateway_messages[i].type # "RegionParamsChanged"
  <2>1. \A i \in 1..Len(gateway_messages') :
          gateway_messages'[i] = m \/ \E j \in 1..Len(gateway_messages) :
                                         gateway_messages'[i] = gateway_messages[j]
    BY DEF Types
  <2> QED
    BY <1>1, <1>2, <1>3, <1>4, <2>1 DEF GatewayWillKnow
<1> QED
  BY <1>2, <1>3, <1>4 DEF GatewayWillKnow

LEMMA DispatcherKeeps ==
  ASSUME IInv, DispatcherStep
  PROVE  IInv'
<1>1. /\ UNCHANGED <<held, gateway_pc, gateway_region, beaconer_pc, beaconer_region, beacon,
                     beaconer_messages>>
      /\ Told' = Told
  BY DEF DispatcherStep, gateway_vars, beaconer_vars, Told
<1>2. CASE /\ gateway_messages' = Append(gateway_messages, RegionParamsChanged(region))
           /\ region' = region
  <2>1. WillKnow(gateway_messages', "RegionParamsChanged", Told, region)
    BY <1>2, LastKnows, MessageFacts DEF IInv, Types
  <2>2. gateway_messages' \in Seq(GatewayMessage)
    BY Zenon, <1>2, QueueFacts, MessageFacts DEF IInv, Types
  <2> QED
    BY <1>1, <1>2, <2>1, <2>2, DispatcherEffect DEF IInv, Types, GatewayWillKnow, BeaconerFollows
<1>3. CASE /\ dispatcher_pc # "region" /\ gateway_messages' = gateway_messages
           /\ region' = region \/ (region' \in Regions /\ dispatcher_pc' = "region")
  BY Zenon, <1>1, <1>3, DispatcherEffect DEF IInv, Types, GatewayWillKnow, BeaconerFollows
<1> QED
  BY <1>2, <1>3, DispatcherEffect DEF IInv

LEMMA ClientKeeps ==
  ASSUME IInv, NEW k \in RouterKeys, ClientStep(k)
  PROVE  IInv'
<1>1. /\ UNCHANGED <<held, gateway_pc, gateway_region, beaconer_pc, beaconer_region, beacon,
                     beaconer_messages, dispatcher_pc, region>>
      /\ Told' = Told
  BY DEF ClientStep, gateway_vars, beaconer_vars, dispatcher_vars, Told
<1>2. gateway_messages' \in Seq(GatewayMessage) /\ GatewayWillKnow'
  <2>1. CASE gateway_messages' = gateway_messages
    BY Zenon, <1>1, <2>1 DEF IInv, Types, GatewayWillKnow
  <2>2. CASE gateway_messages' = Append(gateway_messages, Downlink)
    BY <1>1, <2>2, OtherMessage, MessageFacts DEF IInv
  <2> QED
    BY Zenon, <2>1, <2>2, ClientEffect DEF IInv
<1> QED
  BY <1>1, <1>2, ClientEffect DEF IInv, Types, BeaconerFollows

LEMMA GatewayKeeps ==
  ASSUME IInv, GatewayStep
  PROVE  IInv'
<1>1. UNCHANGED <<client_pc, client_messages, client_region, beaconer_pc, beaconer_region, beacon,
                  dispatcher_pc, region>>
  BY DEF GatewayStep, client_vars, beaconer_vars, dispatcher_vars
<1>2. CASE Notes
  BY <1>1, <1>2 DEF Notes, IInv, Types, GatewayWillKnow, BeaconerFollows, Told
<1>3. CASE Hears
  <2>1. Told' = Told
    BY <1>3 DEF Hears, IInv, Types, Told
  <2> QED
    BY Zenon, <1>1, <1>3, <2>1 DEF Hears, IInv, Types, GatewayWillKnow, BeaconerFollows
<1>4. CASE Takes
  <2> DEFINE m == Head(gateway_messages)
  <2>1. m \in GatewayMessage /\ gateway_messages' \in Seq(GatewayMessage)
    BY <1>4, QueueFacts DEF Takes, IInv, Types
  <2>2. Told' = IF m.type = "RegionParamsChanged" THEN m.region ELSE Told
    BY <1>4, <2>1, MessageFacts DEF Takes, IInv, Types, Told
  <2>3. Types'
    BY <1>1, <1>4, <2>1, MessageFacts DEF Takes, IInv, Types
  <2>4. CASE WillKnow(gateway_messages, "RegionParamsChanged", Told, region)
    <3>1. WillKnow(gateway_messages', "RegionParamsChanged", Told', region')
      BY <1>1, <1>4, <2>2, <2>4, TailKnows DEF Takes, IInv, Types
    <3> QED
      BY <1>1, <1>4, <2>3, <3>1 DEF Takes, IInv, GatewayWillKnow, BeaconerFollows
  <2>5. CASE /\ Told = None
             /\ \A i \in 1..Len(gateway_messages) : gateway_messages[i].type # "RegionParamsChanged"
    <3>1. /\ 1 \in 1..Len(gateway_messages) /\ m = gateway_messages[1]
          /\ \A i \in 1..Len(gateway_messages') :
               i + 1 \in 1..Len(gateway_messages) /\ gateway_messages'[i] = gateway_messages[i + 1]
      BY <1>4 DEF Takes, IInv, Types
    <3> QED
      BY <1>1, <1>4, <2>2, <2>3, <2>5, <3>1 DEF Takes, IInv, GatewayWillKnow, BeaconerFollows
  <2>6. CASE dispatcher_pc = "region"
    BY <1>1, <1>4, <2>3, <2>6 DEF Takes, IInv, GatewayWillKnow, BeaconerFollows
  <2> QED
    BY <2>4, <2>5, <2>6 DEF IInv, GatewayWillKnow
<1>5. CASE Sends
  <2>1. held \in Held /\ held # None
    BY Zenon, <1>5, MessageFacts DEF Sends, IInv, Types
  <2>2. Told' = Told
    BY <1>5, <2>1 DEF Sends, Told
  <2>3. gateway_region' \in Regions \cup {None} /\ beaconer_messages' \in Seq(BeaconerMessage)
    BY <1>5, <2>1, QueueFacts, MessageFacts DEF Sends, IInv, Types
  <2>4. BeaconerFollows'
    <3>1. CASE held.type = "Uplink"
      BY <1>1, <1>5, <3>1 DEF Sends, IInv, BeaconerFollows
    <3>2. CASE held.type # "Uplink"
      <4>1. held \in BeaconerMessage
        BY <2>1, <3>2, MessageFacts
      <4>2. WillKnow(Append(beaconer_messages, held), "RegionParamsChanged", beaconer_region,
                     IF held.type = "RegionParamsChanged" THEN held.region ELSE gateway_region)
        BY <4>1, AppendKnows DEF IInv, Types, BeaconerFollows
      <4> QED
        BY Zenon, <1>1, <1>5, <3>2, <4>2 DEF Sends, BeaconerFollows
    <3> QED
      BY <3>1, <3>2
  <2> QED
    BY <1>1, <1>5, <2>2, <2>3, <2>4 DEF Sends, IInv, Types, GatewayWillKnow
<1> QED
  BY <1>2, <1>3, <1>4, <1>5, GatewayEffect

LEMMA BeaconerKeeps ==
  ASSUME IInv, BeaconerStep
  PROVE  IInv'
<1>1. UNCHANGED <<client_pc, client_messages, client_region, gateway_pc, held, gateway_region,
                  dispatcher_pc, region>>
  BY DEF BeaconerStep, client_vars, gateway_vars, dispatcher_vars
<1>2. CASE Beacons
  BY <1>1, <1>2 DEF Beacons, IInv, Types, GatewayWillKnow, BeaconerFollows, Told
<1>3. CASE Transmits
  <2>1. gateway_messages' \in Seq(GatewayMessage) /\ GatewayWillKnow'
    BY Zenon, <1>1, <1>3, OtherMessage, MessageFacts DEF Transmits, IInv, Types
  <2> QED
    BY <1>1, <1>3, <2>1 DEF Transmits, IInv, Types, BeaconerFollows
<1>4. CASE Follows
  <2>1. BeaconerFollows'
    BY Zenon, <1>1, <1>4, TailKnows DEF Follows, IInv, Types, BeaconerFollows
  <2>2. Head(beaconer_messages) \in BeaconerMessage /\ beaconer_messages' \in Seq(BeaconerMessage)
    BY <1>4, QueueFacts DEF Follows, IInv, Types
  <2>3. beaconer_region' \in Regions \cup {None}
    BY <1>4, <2>2, MessageFacts DEF Follows, IInv, Types
  <2> QED
    BY Zenon, <1>1, <1>4, <2>1, <2>2, <2>3 DEF Follows, IInv, Types, GatewayWillKnow, Told
<1> QED
  BY <1>2, <1>3, <1>4, BeaconerEffect

LEMMA Invariant == Spec => []IInv
<1>1. Init => IInv
  <2> SUFFICES ASSUME Init PROVE IInv
    OBVIOUS
  <2>1. Types
    BY ServerAssumption DEF Init, C!Init, D!Init, G!Init, G!GatewayInit, B!BeaconerInit, Types,
       IsTable
  <2> QED
    BY <2>1 DEF Init, D!Init, G!Init, G!GatewayInit, B!BeaconerInit, IInv, GatewayWillKnow,
       BeaconerFollows, WillKnow, Told
<1>2. IInv /\ [Next]_vars => IInv'
  <2> SUFFICES ASSUME IInv, [Next]_vars PROVE IInv'
    OBVIOUS
  <2>1. CASE ApiStep \/ Trigger \/ UNCHANGED vars
    <3>1. UNCHANGED <<client_pc, client_messages, client_region, gateway_pc, held, gateway_region,
                      dispatcher_pc, region, gateway_messages, beaconer_messages, beaconer_pc,
                      beaconer_region, beacon>>
      BY Zenon, <2>1 DEF ApiStep, D!Ask, D!client_vars, D!gateway_vars, Trigger, vars,
         dispatcher_vars, client_vars,
                  gateway_vars, beaconer_vars, channel_vars
    <3> QED
      BY <3>1 DEF IInv, Types, GatewayWillKnow, BeaconerFollows, Told
  <2> QED
    BY <2>1, DispatcherKeeps, ClientKeeps, GatewayKeeps, BeaconerKeeps DEF Next
<1> QED
  BY <1>1, <1>2, PTL DEF Spec

\* A region change reaches the far end of the chain, for any capacities and
\* any interleaving: what the dispatcher last told the gateway is what the
\* beaconer has, or will have once it and the gateway have taken what they were
\* sent.  The two halves of the way are proved apart and joined.
THEOREM RegionReachesBeaconer == Spec => []BeaconerWillKnow
<1>1. IInv => BeaconerWillKnow
  <2> SUFFICES ASSUME IInv, dispatcher_pc # "region" PROVE BeaconerWillKnow
    BY DEF BeaconerWillKnow
  <2> DEFINE hand == IF held # None THEN <<held>> ELSE <<>>
             S == GatewayMessage \cup Held
             rpc == "RegionParamsChanged"
  <2>1. beaconer_messages \in Seq(S) /\ hand \in Seq(S) /\ gateway_messages \in Seq(S)
    <3>1. GatewayMessage \subseteq S /\ BeaconerMessage \subseteq S
      BY DEF Held
    <3>2. held # None => held \in S
      BY DEF IInv, Types
    <3> HIDE DEF S
    <3>3. \A T : \A s \in Seq(T) : T \subseteq S => s \in Seq(S)
      OBVIOUS
    <3>4. hand \in Seq(S)
      BY <3>2
    <3> QED
      BY <3>1, <3>3, <3>4 DEF IInv, Types
  <2>2. WillKnow(hand, rpc, gateway_region, Told)
    BY DEF WillKnow, Told
  <2>3. WillKnow(beaconer_messages \o hand, rpc, beaconer_region, Told)
    BY Zenon, <2>1, <2>2, JoinKnows DEF IInv, BeaconerFollows
  <2>4. beaconer_messages \o hand \in Seq(S)
    BY <2>1
  <2>5. RegionPipeline = (beaconer_messages \o hand) \o gateway_messages
    BY DEF RegionPipeline
  <2> HIDE DEF hand, S
  <2>6. CASE WillKnow(gateway_messages, rpc, Told, region)
    BY Zenon, <2>1, <2>3, <2>4, <2>5, <2>6, JoinKnows DEF BeaconerWillKnow
  <2>7. CASE /\ Told = None
             /\ \A i \in 1..Len(gateway_messages) : gateway_messages[i].type # rpc
    <3>1. WillKnow(gateway_messages, rpc, Told, None)
      BY <2>7 DEF WillKnow
    <3>2. WillKnow(RegionPipeline, rpc, beaconer_region, None) /\ RegionPipeline \in Seq(S)
      <4>1. WillKnow((beaconer_messages \o hand) \o gateway_messages, rpc, beaconer_region, None)
        BY Zenon, <2>1, <2>3, <2>4, <3>1, JoinKnows
      <4>2. (beaconer_messages \o hand) \o gateway_messages \in Seq(S)
        BY <2>1, <2>4
      <4> QED
        BY <2>5, <4>1, <4>2
    <3>3. \A m \in S : m.type = rpc => m.region # None
      <4>1. \A m \in Held : m.type = rpc => m.type # "Uplink"
        OBVIOUS
      <4> QED
        BY <4>1, MessageFacts DEF S
    <3>4. \A i \in 1..Len(RegionPipeline) : RegionPipeline[i] \in S
      BY <3>2
    <3> QED
      BY <3>2, <3>3, <3>4 DEF BeaconerWillKnow, WillKnow
  <2> QED
    BY <2>6, <2>7 DEF IInv, GatewayWillKnow
<1> QED
  BY <1>1, Invariant, PTL

(***************************************************************************)
(* Circular waits                                                          *)
(***************************************************************************)
\* Nobody but the gateway makes room in its channel.
LEMMA GatewayStaysFull ==
  ASSUME Types, [Next]_vars, ~GatewayStep, GatewayFull
  PROVE  UNCHANGED <<gateway_messages, gateway_pc, held>>
<1>1. ~(Len(gateway_messages) < GatewaySlots)
  BY ServerAssumption DEF GatewayFull
<1>2. CASE DispatcherStep
  BY <1>1, <1>2, DispatcherEffect DEF DispatcherStep, gateway_vars
<1>3. ASSUME NEW k \in RouterKeys, ClientStep(k)
      PROVE  UNCHANGED <<gateway_messages, gateway_pc, held>>
  BY Zenon, <1>1, <1>3, ClientEffect DEF ClientStep, gateway_vars
<1>4. CASE BeaconerStep
  BY <1>1, <1>4, BeaconerEffect DEF BeaconerStep, gateway_vars, Beacons, Transmits, Follows
<1>5. CASE ApiStep \/ Trigger \/ UNCHANGED vars
  BY <1>5 DEF ApiStep, D!Ask, D!gateway_vars, Trigger, vars, gateway_vars, channel_vars
<1> QED
  BY <1>2, <1>3, <1>4, <1>5 DEF Next

\* The dispatcher, sending to the clients in todo, does nothing else.
LEMMA DispatcherSends ==
  ASSUME DispatcherStep, dispatcher_pc \in {"uplink", "broadcast", "stop"}
  PROVE  \E k \in RouterKeys : D!SendNext(k)
BY Zenon DEF DispatcherStep, D!Step, D!Shutdown, D!setup_gateway_streams, D!ConnectError,
   D!Announce,
   D!BackoffElapsed, D!StreamError, D!StreamEnd, D!CheckTick, D!CheckOk, D!CheckError,
   D!handle_uplink, D!HandleGatewayRequest, D!Reply, D!HandleRegionRequest, D!Recv,
   D!handle_region_params_update, D!TellRegion, D!handle_routing_update,
   D!handle_oui_routing_update, D!FinishRoutingUpdate, D!RouterKeys, RouterKeys

\* The dispatcher stays in its wait for a client that waits for the gateway.
LEMMA DispatcherStaysWaiting ==
  ASSUME Types, [Next]_vars, ~GatewayStep, GatewayFull,
         NEW k \in RouterKeys, DispatcherWaitsFor(k), ClientWaits(k)
  PROVE  /\ dispatcher_pc' = dispatcher_pc /\ k \in todo' /\ client_pc'[k] = client_pc[k]
         /\ client_messages'[k] = client_messages[k]
<1>1. /\ ~(Len(client_messages[k]) < ClientSlots) /\ k \in Running /\ k \in todo
      /\ client_pc[k] = "downlink"
  BY ServerAssumption DEF DispatcherWaitsFor, ClientWaits
<1>2. CASE DispatcherStep
  <2>1. PICK j \in RouterKeys : D!SendNext(j)
    BY <1>2, DispatcherSends DEF DispatcherWaitsFor
  <2>2. j # k
    BY <1>1, <2>1 DEF D!SendNext
  <2>3. OnlyAt(client_messages, client_messages', j)
    BY <2>1 DEF D!SendNext, OnlyAt
  <2>4. client_messages'[k] = client_messages[k]
    BY <2>2, <2>3, TableUpdate DEF Types
  <2>5. dispatcher_pc' = dispatcher_pc /\ k \in todo'
    BY <1>1, <2>1, <2>2 DEF D!SendNext
  <2> QED
    BY <1>1, <1>2, <2>4, <2>5, DispatcherEffect
<1>3. ASSUME NEW j \in RouterKeys, ClientStep(j)
      PROVE  /\ UNCHANGED <<dispatcher_pc, todo>> /\ client_pc'[k] = client_pc[k]
             /\ client_messages'[k] = client_messages[k]
  BY Zenon, <1>1, <1>3, ClientEffect, GatewayStaysFull DEF ClientStep, dispatcher_vars
<1>4. CASE BeaconerStep \/ ApiStep \/ Trigger \/ UNCHANGED vars
  BY Zenon, <1>1, <1>4 DEF BeaconerStep, ApiStep, D!Ask, D!client_vars, D!work_vars, Trigger, vars,
     dispatcher_vars, client_vars, channel_vars
<1> QED
  BY Zenon, <1>1, <1>2, <1>3, <1>4 DEF Next

LEMMA WaitStep ==
  ASSUME Types, [Next]_vars, CircularWait
  PROVE  CircularWait'
<1>1. ~GatewayStep
  <2>1. gateway_pc = "send" /\ ~Sends
    BY ServerAssumption DEF CircularWait, GatewayWaitsForDispatcher, GatewayWaitsForBeaconer, Sends
  <2> QED
    BY <2>1, GatewayEffect DEF Notes, Hears, Takes
<1>2. GatewayFull
  BY DEF CircularWait, DispatcherWaitsForGateway, ClientWaits, BeaconerWaits
<1>3. UNCHANGED <<gateway_messages, gateway_pc, held>> /\ GatewayFull'
  BY <1>1, <1>2, GatewayStaysFull DEF GatewayFull
<1>4. ASSUME GatewayWaitsForDispatcher,
             dispatcher_pc \in {"announce", "region", "uplink", "broadcast", "stop"}
      PROVE  UNCHANGED dispatcher_messages
  <2>1. ~(Len(dispatcher_messages) < DispatcherSlots)
    BY <1>4, ServerAssumption DEF GatewayWaitsForDispatcher
  <2>2. CASE DispatcherStep
    <3>1. CASE dispatcher_pc \in {"announce", "region"}
      BY <1>2, <2>2, <3>1, ServerAssumption, DispatcherEffect DEF GatewayFull
    <3>2. CASE dispatcher_pc \in {"uplink", "broadcast", "stop"}
      BY <2>2, <3>2, DispatcherSends DEF D!SendNext
    <3> QED
      BY <1>4, <3>1, <3>2
  <2>3. CASE ApiStep
    BY <2>1, <2>3 DEF ApiStep, D!Ask, D!Enqueue
  <2>4. CASE BeaconerStep \/ Trigger \/ UNCHANGED vars \/ \E k \in RouterKeys : ClientStep(k)
    BY <2>4 DEF BeaconerStep, Trigger, vars, channel_vars, ClientStep
  <2> QED
    BY <1>1, <2>2, <2>3, <2>4 DEF Next
<1>5. CASE GatewayWaitsForDispatcher /\ DispatcherWaitsForGateway
  <2>1. ~DispatcherStep
    BY <1>2, <1>5, ServerAssumption, DispatcherEffect DEF GatewayFull, DispatcherWaitsForGateway
  <2>2. UNCHANGED dispatcher_pc
    BY Zenon, <1>1, <2>1 DEF Next, ClientStep, BeaconerStep, ApiStep, D!Ask, Trigger, vars,
       dispatcher_vars
  <2> QED
    BY <1>3, <1>4, <1>5, <2>2 DEF CircularWait, GatewayWaitsForDispatcher, DispatcherWaitsForGateway
<1>6. ASSUME GatewayWaitsForDispatcher,
             NEW k \in RouterKeys, DispatcherWaitsFor(k), ClientWaits(k)
      PROVE  CircularWait'
  <2>1. /\ dispatcher_pc' = dispatcher_pc /\ k \in todo' /\ client_pc'[k] = client_pc[k]
        /\ client_messages'[k] = client_messages[k]
    BY <1>1, <1>2, <1>6, DispatcherStaysWaiting
  <2>2. DispatcherWaitsFor(k)' /\ ClientWaits(k)'
    BY <1>3, <1>6, <2>1 DEF DispatcherWaitsFor, ClientWaits, Running
  <2> QED
    BY <1>3, <1>4, <1>6, <2>2 DEF CircularWait, GatewayWaitsForDispatcher, DispatcherWaitsFor
<1>7. CASE GatewayWaitsForBeaconer /\ BeaconerWaits
  <2>1. ~BeaconerStep
    BY <1>2, <1>7, ServerAssumption, BeaconerEffect DEF GatewayFull, BeaconerWaits, Beacons,
       Transmits, Follows
  <2>2. UNCHANGED <<beaconer_pc, beaconer_messages>>
    BY <1>1, <2>1 DEF Next, DispatcherStep, ClientStep, ApiStep, Trigger, vars, beaconer_vars,
       channel_vars
  <2> QED
    BY <1>3, <1>7, <2>2 DEF CircularWait, GatewayWaitsForBeaconer, BeaconerWaits
<1> QED
  BY <1>5, <1>6, <1>7 DEF CircularWait

\* Nothing gets the tasks out of a circular wait, for any capacities: none of
\* the sends in it is in a select!, so neither the trigger nor any other task
\* ends it.
THEOREM CircularWaitsAreFinal == Spec => CircularWaitIsFinal
<1>1. IInv /\ [Next]_vars => [CircularWait => CircularWait']_vars
  BY WaitStep DEF IInv
<1> QED
  BY <1>1, Invariant, PTL DEF Spec, CircularWaitIsFinal

(***************************************************************************)
(* The server implements the dispatcher's specification.  Seen is the      *)
(* gateway's channel as the dispatcher's module knows it.                  *)
(***************************************************************************)
AbstractStep == UNCHANGED AsDispatcher!vars \/ AsDispatcher!Next

\* The dispatcher's own operators are the same under both mappings.
LEMMA SameOperators ==
  /\ AsDispatcher!TopOfLoop = D!TopOfLoop
  /\ AsDispatcher!Continue = D!Continue
  /\ AsDispatcher!prepare_gateway_change <=> D!prepare_gateway_change
  /\ AsDispatcher!RouterKeys = RouterKeys
  /\ D!RouterKeys = RouterKeys
  /\ AsDispatcher!Streams = D!Streams
  /\ AsDispatcher!Entries = D!Entries
  /\ AsDispatcher!Outgoing = D!Outgoing
  /\ AsDispatcher!AfterSends = D!AfterSends
BY DEF AsDispatcher!TopOfLoop, D!TopOfLoop, AsDispatcher!Continue, D!Continue,
       AsDispatcher!prepare_gateway_change, D!prepare_gateway_change, AsDispatcher!RouterKeys,
       D!RouterKeys, RouterKeys, AsDispatcher!Streams, D!Streams, AsDispatcher!Entries, D!Entries,
       AsDispatcher!Outgoing, D!Outgoing, AsDispatcher!AfterSends, D!AfterSends,
       AsDispatcher!Uplink, D!Uplink, AsDispatcher!RegionChanged, D!RegionChanged,
       AsDispatcher!Stop, D!Stop

\* A step of the dispatcher that sends the gateway nothing is the same step of
\* its specification; one that does sends what the mapping keeps.
LEMMA DispatcherRefines ==
  ASSUME Types, DispatcherStep
  PROVE  AsDispatcher!Step
<1>1. UNCHANGED <<held, gateway_region>>
  BY DEF DispatcherStep, gateway_vars
<1> USE <1>1, SameOperators DEF D!session_vars, AsDispatcher!session_vars, D!work_vars,
    AsDispatcher!work_vars, D!client_vars, AsDispatcher!client_vars, D!gateway_vars,
    AsDispatcher!gateway_vars
<1>2. CASE D!Shutdown
  <2>1. AsDispatcher!Shutdown
    BY Zenon, <1>2 DEF D!Shutdown, AsDispatcher!Shutdown
  <2> QED
    BY <2>1 DEF AsDispatcher!Step
<1>3. CASE D!setup_gateway_streams
  <2>1. AsDispatcher!setup_gateway_streams
    BY Zenon, <1>3 DEF D!setup_gateway_streams, AsDispatcher!setup_gateway_streams
  <2> QED
    BY <2>1 DEF AsDispatcher!Step
<1>4. CASE D!ConnectError
  <2>1. AsDispatcher!ConnectError
    BY Zenon, <1>4 DEF D!ConnectError, AsDispatcher!ConnectError
  <2> QED
    BY <2>1 DEF AsDispatcher!Step
<1>5. CASE D!BackoffElapsed
  <2>1. AsDispatcher!BackoffElapsed
    BY Zenon, <1>5 DEF D!BackoffElapsed, AsDispatcher!BackoffElapsed
  <2> QED
    BY <2>1 DEF AsDispatcher!Step
<1>6. CASE D!StreamError
  <2>1. AsDispatcher!StreamError
    BY Zenon, <1>6 DEF D!StreamError, AsDispatcher!StreamError
  <2> QED
    BY <2>1 DEF AsDispatcher!Step
<1>7. CASE D!CheckTick
  <2>1. AsDispatcher!CheckTick
    BY Zenon, <1>7 DEF D!CheckTick, AsDispatcher!CheckTick
  <2> QED
    BY <2>1 DEF AsDispatcher!Step
<1>8. CASE D!CheckOk
  <2>1. AsDispatcher!CheckOk
    BY Zenon, <1>8 DEF D!CheckOk, AsDispatcher!CheckOk
  <2> QED
    BY <2>1 DEF AsDispatcher!Step
<1>9. CASE D!CheckError
  <2>1. AsDispatcher!CheckError
    BY Zenon, <1>9 DEF D!CheckError, AsDispatcher!CheckError
  <2> QED
    BY <2>1 DEF AsDispatcher!Step
<1>10. CASE D!HandleGatewayRequest
  <2>1. AsDispatcher!HandleGatewayRequest
    BY Zenon, <1>10 DEF D!HandleGatewayRequest, AsDispatcher!HandleGatewayRequest, D!Recv,
      AsDispatcher!Recv
  <2> QED
    BY <2>1 DEF AsDispatcher!Step
<1>11. CASE D!Reply
  <2>1. AsDispatcher!Reply
    BY Zenon, <1>11 DEF D!Reply, AsDispatcher!Reply
  <2> QED
    BY <2>1 DEF AsDispatcher!Step
<1>12. CASE D!HandleRegionRequest
  <2>1. AsDispatcher!HandleRegionRequest
    BY Zenon, <1>12 DEF D!HandleRegionRequest, AsDispatcher!HandleRegionRequest, D!Recv,
      AsDispatcher!Recv
  <2> QED
    BY <2>1 DEF AsDispatcher!Step
<1>13. CASE D!FinishRoutingUpdate
  <2>1. AsDispatcher!FinishRoutingUpdate
    BY Zenon, <1>13 DEF D!FinishRoutingUpdate, AsDispatcher!FinishRoutingUpdate
  <2> QED
    BY <2>1 DEF AsDispatcher!Step
<1>14. ASSUME NEW s \in D!Streams, D!StreamEnd(s)
      PROVE  AsDispatcher!Step
  <2>1. AsDispatcher!StreamEnd(s)
    BY Zenon, <1>14 DEF D!StreamEnd, AsDispatcher!StreamEnd
  <2> QED
    BY <2>1 DEF AsDispatcher!Step
<1>15. ASSUME NEW k \in D!RouterKeys, D!SendNext(k)
      PROVE  AsDispatcher!Step
  <2>1. AsDispatcher!SendNext(k)
    BY Zenon, <1>15 DEF D!SendNext, AsDispatcher!SendNext
  <2> QED
    BY <2>1 DEF AsDispatcher!Step
<1>16. ASSUME NEW h \in 1..MaxHeight, D!handle_region_params_update(h)
      PROVE  AsDispatcher!Step
  <2>1. AsDispatcher!handle_region_params_update(h)
    BY Zenon, <1>16 DEF D!handle_region_params_update, AsDispatcher!handle_region_params_update
  <2> QED
    BY <2>1 DEF AsDispatcher!Step
<1>17. ASSUME NEW h \in 1..MaxHeight, D!handle_routing_update(h)
      PROVE  AsDispatcher!Step
  <2>1. AsDispatcher!handle_routing_update(h)
    BY Zenon, <1>17 DEF D!handle_routing_update, AsDispatcher!handle_routing_update
  <2> QED
    BY <2>1 DEF AsDispatcher!Step
<1>18. CASE D!handle_uplink
  <2>1. AsDispatcher!handle_uplink
    BY Zenon, <1>18 DEF D!handle_uplink, AsDispatcher!handle_uplink, D!Targets,
       AsDispatcher!Targets,
      D!Recv, AsDispatcher!Recv
  <2> QED
    BY <2>1 DEF AsDispatcher!Step
<1>19. CASE D!handle_oui_routing_update
  <2>1. AsDispatcher!handle_oui_routing_update
    BY Zenon, <1>19 DEF D!handle_oui_routing_update, AsDispatcher!handle_oui_routing_update,
      D!WithRouting, AsDispatcher!WithRouting, D!Removable, AsDispatcher!Removable,
      D!start_routers, AsDispatcher!start_routers
  <2> QED
    BY <2>1 DEF AsDispatcher!Step
<1>20. ASSUME D!TellGateway
      PROVE  AsDispatcher!TellGateway
  <2>1. RegionParamsChanged(region) \in GatewayMessage
        /\ RegionParamsChanged(region).type = "RegionParamsChanged"
    BY Zenon, MessageFacts DEF Types
  <2>2. gateway_messages' = Append(gateway_messages, RegionParamsChanged(region))
    BY <1>20, SameMessages DEF D!TellGateway
  <2>3. Seen(gateway_messages') = Append(Seen(gateway_messages), RegionParamsChanged(region))
    BY <2>1, <2>2, SeenAppend DEF Types
  <2>4. Len(Seen(gateway_messages)) < GatewaySlots
    BY Zenon, <1>20, SeenFacts DEF D!TellGateway, Types
  <2> QED
    BY Zenon, <2>3, <2>4 DEF AsDispatcher!TellGateway, AsDispatcher!RegionParamsChanged,
       RegionParamsChanged, Seen
<1>21. CASE D!Announce
  <2>1. AsDispatcher!Announce
    BY <1>20, <1>21 DEF D!Announce, AsDispatcher!Announce
  <2> QED
    BY <2>1 DEF AsDispatcher!Step
<1>22. CASE D!TellRegion
  <2>1. AsDispatcher!TellRegion
    BY <1>20, <1>22 DEF D!TellRegion, AsDispatcher!TellRegion
  <2> QED
    BY <2>1 DEF AsDispatcher!Step
<1> QED
  BY <1>2, <1>3, <1>4, <1>5, <1>6, <1>7, <1>8, <1>9, <1>10, <1>11, <1>12, <1>13, <1>14, <1>15,
     <1>16, <1>17, <1>18, <1>19, <1>21, <1>22 DEF DispatcherStep, D!Step

\* What client k's step does to the set of running clients.
LEMMA RunningAfter ==
  ASSUME Types, NEW k \in RouterKeys, NEW v, client_pc' = [client_pc EXCEPT ![k] = v], k \in Running
  PROVE  /\ v \in {"select", "route", "downlink"} => Running' = Running
         /\ v = "stopped" => Running' = Running \ {k}
<1>1. client_pc'[k] = v /\ \A j \in RouterKeys \ {k} : client_pc'[j] = client_pc[j]
  BY DEF Types, IsTable
<1> QED
  BY <1>1 DEF Running

LEMMA ClientRefines ==
  ASSUME Types, NEW k \in RouterKeys, ClientStep(k)
  PROVE  AbstractStep
<1> USE SameOperators DEF AbstractStep, AsDispatcher!Next, AsDispatcher!Environment
<1>1. UNCHANGED <<dispatcher_pc, region, routing_height, region_height, gateway_retry, routers,
                  streams, todo, job, requests, held, gateway_region, dispatcher_messages,
                  shutdown>>
  BY Zenon DEF ClientStep, dispatcher_vars, gateway_vars, C!Step, C!handle_uplink,
     C!HandleRegionChanged,
     C!HandleStop, C!HandleShutdown, C!Return, C!StoreGc, C!RouteError, C!RouteNoDownlink,
     C!RouteDownlink, C!handle_downlink
<1>2. ASSUME UNCHANGED <<client_messages, client_region, gateway_messages>>, Running' = Running
      PROVE  AbstractStep
  BY Zenon, <1>1, <1>2 DEF AsDispatcher!vars, AsDispatcher!session_vars, AsDispatcher!work_vars,
     AsDispatcher!client_vars, AsDispatcher!gateway_vars
<1>3. CASE C!StoreGc(k)
  BY <1>2, <1>3 DEF C!StoreGc, Running
<1>4. CASE C!RouteError(k)
  BY Zenon, <1>2, <1>4, RunningAfter DEF C!RouteError, Running
<1>5. CASE C!RouteDownlink(k)
  BY <1>2, <1>5, RunningAfter DEF C!RouteDownlink, Running
<1>6. ASSUME NEW waiting, C!send_waiting_packets(k, waiting), k \in Running
      PROVE  Running' = Running
  <2>1. PICK v \in {"select", "route"} : client_pc' = [client_pc EXCEPT ![k] = v]
    BY Zenon, <1>6 DEF C!send_waiting_packets
  <2> QED
    BY Zenon, <1>6, <2>1, RunningAfter
<1>7. CASE C!RouteNoDownlink(k)
  BY Zenon, <1>2, <1>6, <1>7 DEF C!RouteNoDownlink, Running
<1>8. CASE C!handle_downlink(k)
  <2>1. Running' = Running
    BY Zenon, <1>6, <1>8 DEF C!handle_downlink, Running
  <2>2. /\ gateway_messages' = Append(gateway_messages, Downlink)
        /\ Len(gateway_messages) < GatewaySlots
    BY Zenon, <1>8, SameMessages DEF C!handle_downlink
  <2>3. Seen(gateway_messages') = Append(Seen(gateway_messages), Downlink)
    BY Zenon, <2>2, SeenAppend, MessageFacts DEF Types
  <2>4. Len(Seen(gateway_messages)) < GatewaySlots
    BY Zenon, <2>2, SeenFacts DEF Types
  <2>5. UNCHANGED <<client_messages, client_region>>
    BY <1>8 DEF C!handle_downlink
  <2>6. AsDispatcher!OthersToGateway
    BY Zenon, <1>1, <2>1, <2>3, <2>4, <2>5 DEF AsDispatcher!OthersToGateway,
       AsDispatcher!session_vars,
       AsDispatcher!work_vars, AsDispatcher!client_vars, AsDispatcher!Downlink, Downlink, Seen
  <2> QED
    BY <2>6
<1>9. CASE C!HandleShutdown(k)
  <2>1. k \in Running /\ Running' = Running \ {k}
    BY Zenon, <1>9, RunningAfter DEF C!HandleShutdown, C!Return, Running
  <2>2. AsDispatcher!ClientShutdown(k)
    BY Zenon, <1>1, <1>9, <2>1 DEF C!HandleShutdown, C!Return, AsDispatcher!ClientShutdown,
       AsDispatcher!ClientReturn, AsDispatcher!session_vars, AsDispatcher!work_vars,
       AsDispatcher!gateway_vars
  <2> QED
    BY <2>2
<1>10. CASE C!HandleStop(k)
  <2>1. k \in Running /\ Running' = Running \ {k}
    BY Zenon, <1>10, RunningAfter DEF C!HandleStop, C!Return, Running
  <2>2. Head(client_messages[k]) = AsDispatcher!Stop
    BY Zenon, <1>10 DEF C!HandleStop, C!Stop, AsDispatcher!Stop
  <2>3. AsDispatcher!ClientRecv(k)
    BY Zenon, <1>1, <1>10, <2>1, <2>2 DEF C!HandleStop, C!Return, AsDispatcher!ClientRecv,
       AsDispatcher!ClientReturn, AsDispatcher!session_vars, AsDispatcher!work_vars,
       AsDispatcher!gateway_vars
  <2> QED
    BY <2>3
<1>11. CASE C!handle_uplink(k) \/ C!HandleRegionChanged(k)
  <2> DEFINE m == Head(client_messages[k])
  <2>1. /\ k \in Running /\ client_messages[k] # <<>> /\ UNCHANGED gateway_messages
        /\ client_messages' = [client_messages EXCEPT ![k] = Tail(@)]
        /\ m.type \in {"Uplink", "RegionChanged"}
    BY Zenon, <1>11 DEF C!handle_uplink, C!HandleRegionChanged, C!Recv, Running
  <2>2. Running' = Running
    BY Zenon, <1>6, <1>11, <2>1 DEF C!handle_uplink, C!HandleRegionChanged, Running
  <2>3. m # AsDispatcher!Stop
    BY <2>1 DEF AsDispatcher!Stop
  <2>4. client_region' =
          [client_region EXCEPT ![k] = IF m.type = "RegionChanged" THEN m.region ELSE @]
    <3>1. CASE C!HandleRegionChanged(k)
      BY Zenon, <3>1 DEF C!HandleRegionChanged, C!Recv
    <3>2. CASE C!handle_uplink(k)
      <4>1. client_region' = client_region /\ m.type # "RegionChanged"
        BY Zenon, <3>2 DEF C!handle_uplink, C!Recv
      <4>2. client_region = [client_region EXCEPT ![k] = client_region[k]]
        BY DEF Types, IsTable
      <4> QED
        BY <4>1, <4>2
    <3> QED
      BY Zenon, <1>11, <3>1, <3>2
  <2>5. AsDispatcher!ClientRecv(k)
    BY Zenon, <1>1, <2>1, <2>2, <2>3, <2>4 DEF AsDispatcher!ClientRecv, AsDispatcher!session_vars,
       AsDispatcher!work_vars, AsDispatcher!gateway_vars
  <2> QED
    BY <2>5
<1> QED
  BY Zenon, <1>3, <1>4, <1>5, <1>7, <1>8, <1>9, <1>10, <1>11 DEF ClientStep, C!Step

LEMMA GatewayRefines ==
  ASSUME Types, GatewayStep
  PROVE  AbstractStep
<1> USE DEF AbstractStep, AsDispatcher!Next, AsDispatcher!Environment
<1>1. /\ UNCHANGED <<dispatcher_pc, region, routing_height, region_height, gateway_retry, routers,
                     streams, todo, job, requests, client_messages, client_region>>
      /\ Running' = Running
  BY DEF GatewayStep, dispatcher_vars, client_vars, Running
<1>2. ASSUME Told' = Told, UNCHANGED <<gateway_messages, dispatcher_messages, shutdown>>
      PROVE  AbstractStep
  BY Zenon, <1>1, <1>2 DEF AsDispatcher!vars, AsDispatcher!session_vars, AsDispatcher!work_vars,
     AsDispatcher!client_vars, AsDispatcher!gateway_vars, Told
<1>3. CASE Notes
  BY <1>2, <1>3 DEF Notes, Told
<1>4. CASE Hears
  BY <1>2, <1>4 DEF Hears, Told, Types
<1>5. CASE Takes
  <2> DEFINE m == Head(gateway_messages)
  <2>1. /\ m \in GatewayMessage /\ gateway_messages # <<>>
        /\ gateway_messages' = Tail(gateway_messages)
    BY <1>5, QueueFacts DEF Takes, Types
  <2>2. Told' = IF m.type = "RegionParamsChanged" THEN m.region ELSE Told
    BY <1>5, <2>1, MessageFacts DEF Takes, Types, Told
  <2>3. /\ Seen(gateway_messages) # <<>> /\ Seen(gateway_messages') = Tail(Seen(gateway_messages))
        /\ Head(Seen(gateway_messages)) = IF m.type = "RegionParamsChanged" THEN m ELSE Downlink
    BY <2>1, SeenTail DEF Types
  <2>4. Told' = IF Head(Seen(gateway_messages)).type = "RegionParamsChanged"
                  THEN Head(Seen(gateway_messages)).region ELSE Told
    BY <2>2, <2>3, MessageFacts
  <2>5. AsDispatcher!GatewayRecv
    BY Zenon, <1>1, <1>5, <2>3, <2>4 DEF Takes, AsDispatcher!GatewayRecv, AsDispatcher!session_vars,
       AsDispatcher!work_vars, AsDispatcher!client_vars, Seen, Told
  <2> QED
    BY <2>5
<1>6. CASE Sends
  <2>1. held \in Held /\ held # None
    BY Zenon, <1>6, MessageFacts DEF Sends, Types
  <2>2. Told' = Told
    BY Zenon, <1>6, <2>1 DEF Sends, Told
  <2>3. CASE held.type # "Uplink"
    BY <1>2, <1>6, <2>2, <2>3 DEF Sends
  <2>4. CASE held.type = "Uplink"
    <3>1. PICK p \in Packets : held = Uplink(p)
      BY <2>1, <2>4 DEF Held, BeaconerMessage, ReceivedBeacon, RegionParamsChanged
    <3>2. AsDispatcher!GatewayUplink(p)
      BY Zenon, <1>1, <1>6, <2>2, <2>4, <3>1 DEF Sends, AsDispatcher!GatewayUplink,
         AsDispatcher!Enqueue,
         AsDispatcher!Uplink, Uplink, AsDispatcher!session_vars, AsDispatcher!work_vars,
         AsDispatcher!client_vars, AsDispatcher!gateway_vars, Told
    <3> QED
      BY <3>2
  <2> QED
    BY <2>3, <2>4
<1> QED
  BY <1>3, <1>4, <1>5, <1>6, GatewayEffect

LEMMA BeaconerRefines ==
  ASSUME Types, BeaconerStep
  PROVE  AbstractStep
<1> USE DEF AbstractStep, AsDispatcher!Next, AsDispatcher!Environment
<1>1. /\ UNCHANGED <<dispatcher_pc, region, routing_height, region_height, gateway_retry, routers,
                     streams, todo, job, requests, client_messages, client_region, held,
                     gateway_region, dispatcher_messages>>
      /\ Running' = Running
  BY DEF BeaconerStep, dispatcher_vars, client_vars, gateway_vars, Running
<1>2. CASE Beacons \/ Follows
  BY Zenon, <1>1, <1>2 DEF Beacons, Follows, AsDispatcher!vars, AsDispatcher!session_vars,
     AsDispatcher!work_vars, AsDispatcher!client_vars, AsDispatcher!gateway_vars
<1>3. CASE Transmits
  <2>1. Seen(gateway_messages') = Append(Seen(gateway_messages), Downlink)
    BY Zenon, <1>3, SeenAppend, MessageFacts DEF Transmits, Types
  <2>2. Len(Seen(gateway_messages)) < GatewaySlots
    BY Zenon, <1>3, SeenFacts DEF Transmits, Types
  <2>3. AsDispatcher!OthersToGateway
    BY Zenon, <1>1, <1>3, <2>1, <2>2 DEF Transmits, AsDispatcher!OthersToGateway,
       AsDispatcher!session_vars, AsDispatcher!work_vars, AsDispatcher!client_vars,
       AsDispatcher!Downlink, Downlink, Seen
  <2> QED
    BY <2>3
<1> QED
  BY <1>2, <1>3, BeaconerEffect

LEMMA OthersRefine ==
  ASSUME ApiStep \/ Trigger \/ UNCHANGED vars
  PROVE  AbstractStep
<1> USE DEF AbstractStep, AsDispatcher!Next, AsDispatcher!Environment, AsDispatcher!session_vars,
        AsDispatcher!work_vars, AsDispatcher!client_vars, AsDispatcher!gateway_vars
<1>1. CASE ApiStep
  <2>1. PICK q \in Requests : D!Ask(q)
    BY <1>1 DEF ApiStep
  <2>2. AsDispatcher!Ask(q)
    BY Zenon, <1>1, <2>1 DEF ApiStep, gateway_vars, D!Ask, AsDispatcher!Ask, D!Enqueue,
       AsDispatcher!Enqueue, D!GatewayRequest, AsDispatcher!GatewayRequest, D!RegionRequest,
       AsDispatcher!RegionRequest, D!session_vars, D!work_vars, D!client_vars, D!gateway_vars
  <2> QED
    BY <2>2
<1>2. CASE Trigger
  <2>1. AsDispatcher!Trigger
    BY Zenon, <1>2 DEF Trigger, AsDispatcher!Trigger, dispatcher_vars, client_vars, gateway_vars,
       channel_vars, Running
  <2> QED
    BY <2>1
<1>3. CASE UNCHANGED vars
  BY Zenon, <1>3 DEF vars, dispatcher_vars, client_vars, gateway_vars, channel_vars,
     AsDispatcher!vars,
     Running
<1> QED
  BY <1>1, <1>2, <1>3

\* What was proved of the dispatcher in an environment that may do anything it
\* is allowed to do holds with the real router clients, gateway and beaconer in
\* place of that environment, for any number of routers and any capacities.
THEOREM ServerImplementsDispatcher == Spec => RefinesDispatcher
<1>1. Init => AsDispatcher!Init
  <2> SUFFICES ASSUME Init PROVE AsDispatcher!Init
    OBVIOUS
  <2>1. gateway_messages = <<>> => Seen(gateway_messages) = <<>>
    BY DEF Seen
  <2>2. Running = {}
    BY DEF Init, C!Init, Running
  <2> QED
    BY Zenon, <2>1, <2>2, SameOperators DEF Init, C!Init, D!Init, G!Init, G!GatewayInit,
       AsDispatcher!Init, Seen
<1>2. IInv /\ [Next]_vars =>
        [UNCHANGED AsDispatcher!vars \/ AsDispatcher!Next]_(AsDispatcher!vars)
  <2>1. ASSUME IInv, [Next]_vars
        PROVE  AbstractStep
    <3>1. CASE DispatcherStep
      BY <2>1, <3>1, DispatcherRefines DEF IInv, AbstractStep, AsDispatcher!Next
    <3> QED
      BY <2>1, <3>1, ClientRefines, GatewayRefines, BeaconerRefines, OthersRefine DEF IInv, Next
  <2> QED
    BY <2>1 DEF AbstractStep
<1> QED
  BY <1>1, <1>2, Invariant, PTL DEF Spec, RefinesDispatcher
=============================================================================
