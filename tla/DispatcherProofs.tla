-------------------------- MODULE DispatcherProofs --------------------------
(***************************************************************************)
(* The dispatcher's types, and what it keeps of its routing table, its     *)
(* clients, its heights, its requests and its region, for any routing and  *)
(* region history, any number of routers, packets and requests, and any    *)
(* channel capacities.                                                     *)
(***************************************************************************)
EXTENDS Dispatcher, ListProofs

\* Each message belongs to the channels it is sent over.
LEMMA MessageTypes ==
  /\ \A p \in Packets : Uplink(p) \in ClientMessage /\ Uplink(p) \in DispatcherMessage
  /\ \A r \in Regions : /\ RegionChanged(r) \in ClientMessage
                        /\ RegionParamsChanged(r) \in GatewayMessage
  /\ \A q \in Requests : /\ GatewayRequest(q) \in DispatcherMessage
                         /\ RegionRequest(q) \in DispatcherMessage
  /\ Stop \in ClientMessage
  /\ Downlink \in GatewayMessage
BY DEF ClientMessage, DispatcherMessage, GatewayMessage

\* What a message of a given type carries.
LEMMA MessageFields ==
  /\ \A m \in DispatcherMessage : m.type = "Uplink" => m.packet \in Packets
  /\ \A m \in DispatcherMessage : m.type \in {"GatewayRequest", "Region"} =>
       m.request \in Requests
  /\ \A m \in ClientMessage : m.type = "RegionChanged" => m.region \in Regions
  /\ \A m \in GatewayMessage : m.type = "RegionParamsChanged" => m.region \in Regions
<1>1. \A m \in DispatcherMessage :
        /\ m.type = "Uplink" => m.packet \in Packets
        /\ m.type \in {"GatewayRequest", "Region"} => m.request \in Requests
  BY DEF DispatcherMessage, Uplink, GatewayRequest, RegionRequest
<1>2. \A m \in ClientMessage : m.type = "RegionChanged" => m.region \in Regions
  BY DEF ClientMessage, Uplink, RegionChanged, Stop
<1>3. \A m \in GatewayMessage : m.type = "RegionParamsChanged" => m.region \in Regions
  BY DEF GatewayMessage, Downlink, TransmitBeacon, RegionParamsChanged
<1> QED
  BY <1>1, <1>2, <1>3

\* The initial state has its types.
LEMMA TypeInit ==
  ASSUME Init PROVE TypeOK
<1>1. /\ dispatcher_messages \in Seq(DispatcherMessage)
      /\ gateway_messages \in Seq(GatewayMessage)
      /\ client_messages \in [RouterKeys -> Seq(ClientMessage)]
  BY DEF Init
<1>2. /\ Len(dispatcher_messages) <= DispatcherSlots
      /\ Len(gateway_messages) <= GatewaySlots
      /\ \A k \in RouterKeys : Len(client_messages[k]) <= ClientSlots
  BY DispatcherAssumption DEF Init
<1>3. dispatcher_pc \in {"returned", "failed", "connect"} /\ streams = {}
  BY DEF Init, TopOfLoop
<1>4. /\ routers \in [RouterKeys -> Routing \cup {None}]
      /\ client_region \in [RouterKeys -> Regions \cup {None}]
      /\ requests \in [Requests -> {"idle", "queued", "answered", "no_service"}]
  BY DEF Init
<1>5. /\ routing_height \in 0..MaxHeight
      /\ region_height \in 0..MaxHeight
      /\ gateway_retry \in 0..MaxRetry
  BY DispatcherAssumption DEF Init
<1>6. /\ region \in Regions
      /\ streams \in SUBSET Streams
      /\ todo \in SUBSET RouterKeys
      /\ running \in SUBSET RouterKeys
      /\ gateway_region \in Regions \cup {None}
      /\ shutdown \in BOOLEAN
  BY Zenon, DispatcherAssumption DEF Init
<1> QED
  BY <1>1, <1>2, <1>3, <1>4, <1>5, <1>6 DEF TypeOK

\* prepare_gateway_change ends the session and keeps heights and retries in range.
LEMMA SessionEnds ==
  ASSUME TypeOK, prepare_gateway_change
  PROVE  /\ dispatcher_pc' \in {"backoff", "returned"}
         /\ routing_height' \in 0..MaxHeight
         /\ region_height' \in 0..MaxHeight
         /\ gateway_retry' \in 0..MaxRetry
         /\ streams' = {}
BY DispatcherAssumption DEF TypeOK, prepare_gateway_change

\* Every step of the dispatcher and of the tasks around it keeps the types.
LEMMA TypeStep ==
  ASSUME TypeOK, [Next]_vars
  PROVE  TypeOK'
<1> USE DispatcherAssumption
<1>1. CASE Shutdown
  BY <1>1 DEF TypeOK, Shutdown, work_vars, client_vars, gateway_vars
<1>2. CASE setup_gateway_streams
  BY <1>2 DEF TypeOK, setup_gateway_streams, work_vars, client_vars, gateway_vars, Streams
<1>3. CASE ConnectError \/ StreamError \/ CheckError
  <2>1. /\ prepare_gateway_change
        /\ UNCHANGED <<region, routers, work_vars, dispatcher_messages, requests,
                       client_vars, gateway_vars, shutdown>>
    BY <1>3 DEF ConnectError, StreamError, CheckError
  <2> QED
    BY <2>1, SessionEnds DEF TypeOK, work_vars, client_vars, gateway_vars
<1>4. CASE Announce
  BY <1>4, MessageTypes, ChannelFacts DEF TypeOK, Announce, TellGateway, session_vars,
              work_vars, client_vars
<1>5. CASE BackoffElapsed
  BY <1>5 DEF TypeOK, BackoffElapsed, TopOfLoop, session_vars, work_vars, client_vars,
              gateway_vars
<1>6. ASSUME NEW s \in Streams, StreamEnd(s)
      PROVE  TypeOK'
  <2>1. CASE streams = {s}
    BY <1>6, <2>1, SessionEnds DEF TypeOK, StreamEnd, work_vars, client_vars, gateway_vars
  <2>2. CASE streams # {s}
    <3>1. streams' # {} /\ streams' \in SUBSET Streams
      BY <1>6, <2>2 DEF TypeOK, StreamEnd
    <3> QED
      BY <1>6, <2>2, <3>1 DEF TypeOK, StreamEnd, work_vars, client_vars, gateway_vars
  <2> QED
    BY <2>1, <2>2
<1>7. CASE CheckTick \/ CheckOk
  <2>1. CASE CheckTick
    BY <2>1 DEF TypeOK, CheckTick, session_vars, work_vars, client_vars, gateway_vars
  <2>2. CASE CheckOk
    BY <2>2 DEF TypeOK, CheckOk, work_vars, client_vars, gateway_vars
  <2> QED
    BY <1>7, <2>1, <2>2
<1>8. ASSUME NEW k \in RouterKeys, SendNext(k)
      PROVE  TypeOK'
  <2>1. Outgoing \in ClientMessage
    BY <1>8, MessageTypes DEF TypeOK, SendNext, Outgoing
  <2>2. /\ client_messages' \in [RouterKeys -> Seq(ClientMessage)]
        /\ \A j \in RouterKeys : Len(client_messages'[j]) <= ClientSlots
    <3>1. CASE UNCHANGED client_messages
      BY <3>1 DEF TypeOK
    <3>2. CASE /\ Len(client_messages[k]) < ClientSlots
               /\ client_messages' = [client_messages EXCEPT ![k] = Append(@, Outgoing)]
      <4>1. /\ client_messages[k] \in Seq(ClientMessage)
            /\ Len(client_messages[k]) <= ClientSlots
        BY DEF TypeOK
      <4>2. /\ Append(client_messages[k], Outgoing) \in Seq(ClientMessage)
            /\ Len(Append(client_messages[k], Outgoing)) <= ClientSlots
        BY <2>1, <3>2, <4>1, ChannelFacts
      <4> QED
        BY <3>2, <4>2 DEF TypeOK
    <3> QED
      BY <1>8, <3>1, <3>2 DEF SendNext
  <2>3. dispatcher_pc' \in {dispatcher_pc, AfterSends}
    BY <1>8 DEF SendNext
  <2>4. CASE todo # {k}
    BY <1>8, <2>2, <2>4 DEF TypeOK, SendNext, session_vars, gateway_vars
  <2>5. CASE todo = {k} /\ dispatcher_pc = "stop"
    BY <1>8, <2>2, <2>5 DEF TypeOK, SendNext, AfterSends, session_vars, gateway_vars
  <2>6. CASE todo = {k} /\ dispatcher_pc # "stop"
    <3>1. dispatcher_pc' = Continue
      BY <1>8, <2>6 DEF SendNext, AfterSends
    <3>2. \/ dispatcher_pc' = "serve" /\ streams # {}
          \/ dispatcher_pc' \in {"returned", "failed", "connect"} /\ streams = {}
      BY <3>1 DEF Continue, TopOfLoop
    <3> QED
      BY <1>8, <2>2, <3>2 DEF TypeOK, SendNext, session_vars, gateway_vars
  <2> QED
    BY <2>4, <2>5, <2>6
<1> DEFINE Taken == /\ dispatcher_messages' \in Seq(DispatcherMessage)
                    /\ Len(dispatcher_messages') <= DispatcherSlots
<1> DEFINE Continued ==
             \/ dispatcher_pc' = "serve" /\ streams # {}
             \/ dispatcher_pc' \in {"returned", "failed", "connect"} /\ streams = {}
<1>9. CASE handle_uplink
  <2>1. Taken /\ Head(dispatcher_messages).packet \in Packets
    BY <1>9, ChannelFacts, MessageFields DEF TypeOK, handle_uplink, Recv
  <2>2. Targets(Head(dispatcher_messages).packet) \subseteq RouterKeys
    BY DEF Targets, Entries
  <2>3. dispatcher_pc' = "uplink" \/ Continued
    BY <1>9 DEF handle_uplink, Continue, TopOfLoop
  <2>4. dispatcher_pc' = "uplink" => job' \in Packets
    BY <1>9, <2>1 DEF handle_uplink, Continue, TopOfLoop
  <2> QED
    BY <1>9, <2>1, <2>2, <2>3, <2>4 DEF TypeOK, handle_uplink, session_vars, client_vars,
              gateway_vars
<1>10. CASE HandleGatewayRequest
  <2>1. Taken /\ Head(dispatcher_messages).request \in Requests
    BY <1>10, ChannelFacts, MessageFields DEF TypeOK, HandleGatewayRequest, Recv
  <2>2. (dispatcher_pc = "serve" /\ dispatcher_pc' = "ask") \/ Continued
    BY <1>10 DEF HandleGatewayRequest, Continue, TopOfLoop
  <2>3. dispatcher_pc' = "ask" => job' \in Requests
    BY <1>10, <2>1 DEF HandleGatewayRequest, Continue, TopOfLoop
  <2> QED
    BY <1>10, <2>1, <2>2, <2>3 DEF TypeOK, HandleGatewayRequest, session_vars, client_vars,
              gateway_vars
<1>11. CASE Reply
  BY <1>11 DEF TypeOK, Reply, session_vars, client_vars, gateway_vars
<1>12. CASE HandleRegionRequest
  <2>1. Taken /\ Head(dispatcher_messages).request \in Requests
    BY <1>12, ChannelFacts, MessageFields DEF TypeOK, HandleRegionRequest, Recv
  <2>2. Continued
    BY <1>12 DEF HandleRegionRequest, Continue, TopOfLoop
  <2> QED
    BY <1>12, <2>1, <2>2 DEF TypeOK, HandleRegionRequest, session_vars, work_vars,
              client_vars, gateway_vars
<1>13. ASSUME NEW h \in 1..MaxHeight, handle_region_params_update(h)
       PROVE  TypeOK'
  BY <1>13 DEF TypeOK, handle_region_params_update, Entries, client_vars, gateway_vars
<1>14. CASE TellRegion
  BY <1>14, MessageTypes, ChannelFacts DEF TypeOK, TellRegion, TellGateway, session_vars,
              work_vars, client_vars
<1>15. ASSUME NEW h \in 1..MaxHeight, handle_routing_update(h)
       PROVE  TypeOK'
  BY <1>15 DEF TypeOK, handle_routing_update, RoutingUpdate, session_vars, client_vars,
              gateway_vars
<1>16. CASE handle_oui_routing_update
  <2> DEFINE r == Head(job.routings)
             table == WithRouting(r)
             removables == Removable(table, r)
             started == {k \in RouterKeys : routers[k] = None /\ table[k] # None}
  <2>1. r \in Routing /\ Tail(job.routings) \in Seq(Routing)
    BY <1>16 DEF TypeOK, handle_oui_routing_update, RoutingUpdate
  <2>2. table \in [RouterKeys -> Routing \cup {None}]
    BY <2>1 DEF TypeOK, WithRouting
  <2>3. removables \subseteq RouterKeys
    BY DEF Removable
  <2>4. /\ routers' = [k \in RouterKeys |-> IF k \in removables THEN None ELSE table[k]]
        /\ start_routers(started)
        /\ todo' = removables
        /\ dispatcher_pc' \in {"routing", "stop"}
        /\ job' = [job EXCEPT !.routings = Tail(job.routings)]
    BY <1>16 DEF handle_oui_routing_update
  <2> HIDE DEF r, table, removables, started
  <2>5. routers' \in [RouterKeys -> Routing \cup {None}]
    BY <2>2, <2>4
  <2>6. /\ running' \in SUBSET RouterKeys
        /\ client_region' \in [RouterKeys -> Regions \cup {None}]
        /\ client_messages' \in [RouterKeys -> Seq(ClientMessage)]
        /\ \A k \in RouterKeys : Len(client_messages'[k]) <= ClientSlots
    <3>1. started \subseteq RouterKeys
      BY DEF started
    <3> QED
      BY <2>4, <3>1 DEF TypeOK, start_routers
  <2>7. job' \in RoutingUpdate
    BY Zenon, <1>16, <2>1, <2>4 DEF TypeOK, handle_oui_routing_update, RoutingUpdate
  <2> QED
    BY <1>16, <2>3, <2>4, <2>5, <2>6, <2>7 DEF TypeOK, handle_oui_routing_update,
              session_vars, gateway_vars
<1>17. CASE FinishRoutingUpdate
  <2>1. routing_height' \in 0..MaxHeight
    BY <1>17 DEF TypeOK, FinishRoutingUpdate, RoutingUpdate
  <2> QED
    BY <1>17, <2>1 DEF TypeOK, FinishRoutingUpdate, client_vars, gateway_vars
<1>18. ASSUME NEW p \in Packets, GatewayUplink(p)
       PROVE  TypeOK'
  BY <1>18, MessageTypes, ChannelFacts DEF TypeOK, GatewayUplink, Enqueue, session_vars,
              work_vars, client_vars, gateway_vars
<1>19. ASSUME NEW q \in Requests, Ask(q)
       PROVE  TypeOK'
  <2>1. PICK m \in DispatcherMessage : Enqueue(m)
    BY <1>19, MessageTypes DEF Ask
  <2>2. Taken
    BY <2>1, ChannelFacts DEF TypeOK, Enqueue
  <2> QED
    BY <1>19, <2>2 DEF TypeOK, Ask, session_vars, work_vars, client_vars, gateway_vars
<1>20. ASSUME NEW k \in RouterKeys, ClientRecv(k) \/ ClientShutdown(k)
       PROVE  TypeOK'
  <2>1. client_messages[k] \in Seq(ClientMessage) /\ Len(client_messages[k]) <= ClientSlots
    BY DEF TypeOK
  <2>2. CASE ClientReturn(k)
    <3>1. /\ client_messages' \in [RouterKeys -> Seq(ClientMessage)]
          /\ \A j \in RouterKeys : Len(client_messages'[j]) <= ClientSlots
      BY <2>2 DEF TypeOK, ClientReturn
    <3>2. running' \in SUBSET RouterKeys /\ client_region' = client_region
      BY <2>2 DEF TypeOK, ClientReturn
    <3>3. UNCHANGED <<dispatcher_pc, region, session_vars, routers, work_vars,
                      dispatcher_messages, requests, gateway_vars, shutdown>>
      BY <1>20 DEF ClientRecv, ClientShutdown
    <3> QED
      BY <3>1, <3>2, <3>3 DEF TypeOK, session_vars, work_vars, gateway_vars
  <2>3. CASE ClientRecv(k) /\ ~ClientReturn(k)
    <3> DEFINE m == Head(client_messages[k])
               q == Tail(client_messages[k])
    <3>1. m \in ClientMessage /\ q \in Seq(ClientMessage) /\ Len(q) <= ClientSlots
      BY <2>1, <2>3, ChannelFacts DEF ClientRecv
    <3>2. /\ client_messages' = [client_messages EXCEPT ![k] = q]
          /\ client_region' = [client_region EXCEPT
               ![k] = IF m.type = "RegionChanged" THEN m.region ELSE @]
          /\ running' = running
      BY <2>3 DEF ClientRecv
    <3>3. m.type = "RegionChanged" => m.region \in Regions
      BY <3>1, MessageFields
    <3> HIDE DEF m, q
    <3>4. /\ client_messages' \in [RouterKeys -> Seq(ClientMessage)]
          /\ \A j \in RouterKeys : Len(client_messages'[j]) <= ClientSlots
      BY <3>1, <3>2 DEF TypeOK
    <3>5. client_region' \in [RouterKeys -> Regions \cup {None}]
      BY <3>2, <3>3 DEF TypeOK
    <3> QED
      BY <2>3, <3>2, <3>4, <3>5 DEF TypeOK, ClientRecv, session_vars, work_vars, gateway_vars
  <2> QED
    BY <1>20, <2>2, <2>3 DEF ClientShutdown
<1>21. CASE OthersToGateway
  BY <1>21, MessageTypes, ChannelFacts DEF TypeOK, OthersToGateway, session_vars, work_vars,
              client_vars
<1>22. CASE GatewayRecv
  BY <1>22, MessageFields, ChannelFacts DEF TypeOK, GatewayRecv, session_vars, work_vars,
              client_vars
<1>23. CASE Trigger
  BY <1>23 DEF TypeOK, Trigger, session_vars, work_vars, client_vars, gateway_vars
<1>24. CASE UNCHANGED vars
  BY <1>24 DEF TypeOK, vars, session_vars, work_vars, client_vars, gateway_vars
<1> QED
  BY <1>1, <1>2, <1>3, <1>4, <1>5, <1>6, <1>7, <1>8, <1>9, <1>10, <1>11, <1>12, <1>13,
     <1>14, <1>15, <1>16, <1>17, <1>18, <1>19, <1>20, <1>21, <1>22, <1>23, <1>24
     DEF Next, Step, Environment

\* The dispatcher is type correct: channels stay within their capacity, and the
\* awaits that need a gateway are only reached with an open stream.
THEOREM DispatcherTypeCorrect == Spec => []TypeOK
BY TypeInit, TypeStep, PTL DEF Spec

(***************************************************************************)
(* The dispatcher implements Tasks                                         *)
(***************************************************************************)
DispatcherStatus ==
  CASE dispatcher_pc \in {"announce", "region"} -> "gateway"
    [] dispatcher_pc \in {"uplink", "broadcast", "stop"} -> "client"
    [] dispatcher_pc \in {"returned", "failed"} -> "returned"
    [] OTHER -> "running"

Status == [beaconer |-> "running", gateway |-> "running", dispatcher |-> DispatcherStatus]

LEMMA StatusIsMapped ==
  AsTasks!Spec <=> AsTasks!Init /\ [][AsTasks!Next]_<<Status, shutdown>>
BY DEF AsTasks!Spec, Status, DispatcherStatus

\* What the dispatcher does to its status in one step.
MayBecome(from, to) ==
  \/ to = from
  \/ to \in {"gateway", "client"} /\ from \in {"running", "gateway", "client"}
  \/ to = "running" /\ from \in {"gateway", "client"}
  \/ to = "returned" /\ from \in {"running", "gateway", "client"} /\ shutdown

LEMMA DispatcherMoves ==
  ASSUME MayBecome(DispatcherStatus, DispatcherStatus'), UNCHANGED shutdown
  PROVE  [AsTasks!Next]_<<Status, shutdown>>
<1>1. Status' = [Status EXCEPT !["dispatcher"] = DispatcherStatus']
  BY DEF Status
<1>2. CASE DispatcherStatus' = DispatcherStatus
  BY <1>1, <1>2 DEF Status
<1>3. CASE DispatcherStatus' # DispatcherStatus
  <2>1. AsTasks!TaskStep("dispatcher")
    BY Zenon, <1>1, <1>3
    DEF MayBecome, Status, DispatcherStatus, AsTasks!TaskStep, AsTasks!Wait, AsTasks!Resume,
        AsTasks!Return, AsTasks!Waiting, AsTasks!Peers
  <2> QED
    BY <2>1 DEF AsTasks!Next, AsTasks!TaskNames, AsTasks!Peers
<1> QED
  BY <1>2, <1>3

\* Where the dispatcher's own steps lead, with a seed gateway to connect to.
LEMMA StepMoves ==
  ASSUME SeedGateways # {}, TypeOK, Step
  PROVE  MayBecome(DispatcherStatus, DispatcherStatus') /\ UNCHANGED shutdown
<1> USE DEF MayBecome, DispatcherStatus
<1>1. \/ TopOfLoop = "returned" /\ shutdown
      \/ TopOfLoop = "connect"
  BY DEF TopOfLoop
<1>2. \/ Continue = "returned" /\ shutdown
      \/ Continue \in {"connect", "serve"}
  BY <1>1 DEF Continue
<1>3. prepare_gateway_change =>
        \/ dispatcher_pc' = "returned" /\ shutdown
        \/ dispatcher_pc' = "backoff"
  BY DEF prepare_gateway_change
<1>4. CASE Shutdown \/ setup_gateway_streams \/ Announce \/ CheckTick \/ CheckOk \/ Reply
           \/ TellRegion \/ FinishRoutingUpdate
  BY <1>4 DEF Shutdown, setup_gateway_streams, Announce, CheckTick, CheckOk, Reply, TellRegion,
              FinishRoutingUpdate
<1>5. CASE ConnectError \/ StreamError \/ CheckError \/ \E s \in Streams : StreamEnd(s)
  BY <1>3, <1>5 DEF ConnectError, StreamError, CheckError, StreamEnd
<1>6. CASE BackoffElapsed
  BY <1>1, <1>6 DEF BackoffElapsed
<1>7. ASSUME NEW k \in RouterKeys, SendNext(k)
      PROVE  MayBecome(DispatcherStatus, DispatcherStatus') /\ UNCHANGED shutdown
  BY <1>2, <1>7 DEF SendNext, AfterSends
<1>8. CASE handle_uplink \/ HandleGatewayRequest \/ HandleRegionRequest
  BY <1>2, <1>8 DEF handle_uplink, HandleGatewayRequest, HandleRegionRequest, Recv
<1>9. ASSUME NEW h, handle_region_params_update(h) \/ handle_routing_update(h)
      PROVE  MayBecome(DispatcherStatus, DispatcherStatus') /\ UNCHANGED shutdown
  BY <1>9 DEF handle_region_params_update, handle_routing_update
<1>10. CASE handle_oui_routing_update
  BY <1>10 DEF handle_oui_routing_update
<1> QED
  BY <1>4, <1>5, <1>6, <1>7, <1>8, <1>9, <1>10 DEF Step

LEMMA TasksStep ==
  ASSUME SeedGateways # {}, TypeOK, [Next]_vars
  PROVE  [AsTasks!Next]_<<Status, shutdown>>
<1>1. CASE Step
  BY <1>1, StepMoves, DispatcherMoves
<1>2. CASE Trigger
  BY Zenon, <1>2 DEF Trigger, AsTasks!Next, AsTasks!Trigger, Status, DispatcherStatus
<1>3. ASSUME \/ Environment /\ ~Trigger
             \/ UNCHANGED vars
      PROVE  UNCHANGED <<dispatcher_pc, shutdown>>
  BY <1>3 DEF Environment, GatewayUplink, Ask, ClientRecv, ClientShutdown, OthersToGateway,
              GatewayRecv, vars
<1>4. UNCHANGED <<dispatcher_pc, shutdown>> => UNCHANGED <<Status, shutdown>>
  BY DEF Status, DispatcherStatus
<1> QED
  BY <1>1, <1>2, <1>3, <1>4 DEF Next

\* With a gateway to connect to, the dispatcher is what Tasks says of it, for
\* any routing and region history and any capacities: it never returns before
\* the trigger, and waits for nobody but the gateway and the clients.
THEOREM DispatcherImplementsTasks ==
  ASSUME SeedGateways # {}
  PROVE  Spec => RefinesTasks
<1>1. Init => AsTasks!Init
  BY DEF Init, TopOfLoop, AsTasks!Init, AsTasks!TaskNames, AsTasks!Peers
<1>2. TypeOK /\ [Next]_vars => [AsTasks!Next]_<<Status, shutdown>>
  BY TasksStep
<1> QED
  BY <1>1, <1>2, StatusIsMapped, DispatcherTypeCorrect, PTL DEF Spec, RefinesTasks

(***************************************************************************)
(* The routing table.  Only handle_oui_routing_update changes it.          *)
(***************************************************************************)
LEMMA RoutersFrame ==
  ASSUME [Next]_vars, ~handle_oui_routing_update
  PROVE  UNCHANGED routers
<1>1. CASE Step
  BY Zenon, <1>1 DEF Step, Shutdown, setup_gateway_streams, ConnectError, Announce, BackoffElapsed,
     StreamError, StreamEnd, CheckTick, CheckOk, CheckError, SendNext, handle_uplink,
     HandleGatewayRequest, Reply, HandleRegionRequest, handle_region_params_update,
     TellRegion, handle_routing_update, FinishRoutingUpdate
<1>2. CASE Environment
  BY <1>2 DEF Environment, GatewayUplink, Ask, ClientRecv, ClientShutdown, OthersToGateway,
     GatewayRecv, Trigger
<1>3. CASE UNCHANGED vars
  BY <1>3 DEF vars
<1> QED
  BY <1>1, <1>2, <1>3 DEF Next

\* The update in hand when handle_oui_routing_update runs is a routing.
LEMMA HeadIsRouting ==
  ASSUME TypeOK, handle_oui_routing_update
  PROVE  Head(job.routings) \in Routing
BY DEF TypeOK, handle_oui_routing_update, RoutingUpdate

\* With every entry naming its own key, applying an update keeps that so, and
\* the retain that follows finds nothing to remove.
LEMMA UpdateRemovesNothing ==
  ASSUME TypeOK, KeyInOwnRouting, NEW r \in Routing
  PROVE  /\ \A k \in RouterKeys : WithRouting(r)[k] # None =>
              k.oui = WithRouting(r)[k].oui /\ k.uri \in WithRouting(r)[k].uris
         /\ Removable(WithRouting(r), r) = {}
<1>1. ASSUME NEW k \in RouterKeys, WithRouting(r)[k] # None
      PROVE  k.oui = WithRouting(r)[k].oui /\ k.uri \in WithRouting(r)[k].uris
  <2>1. CASE k.oui = r.oui /\ k.uri \in r.uris
    BY <2>1 DEF WithRouting
  <2>2. CASE ~(k.oui = r.oui /\ k.uri \in r.uris)
    <3>1. WithRouting(r)[k] = routers[k]
      BY <2>2 DEF WithRouting
    <3> QED
      BY <1>1, <3>1 DEF KeyInOwnRouting, Entries
  <2> QED
    BY <2>1, <2>2
<1> QED
  BY <1>1 DEF Removable

\* What handle_oui_routing_update does when nothing is to be removed.
LEMMA UpdateEffect ==
  ASSUME TypeOK, KeyInOwnRouting, handle_oui_routing_update
  PROVE  LET r == Head(job.routings)
         IN /\ r \in Routing
            /\ routers' = WithRouting(r)
            /\ start_routers({k \in RouterKeys : routers[k] = None /\ WithRouting(r)[k] # None})
            /\ todo' = {}
            /\ dispatcher_pc' = "routing"
<1> DEFINE r == Head(job.routings)
           table == WithRouting(r)
<1>1. r \in Routing
  BY HeadIsRouting
<1>2. Removable(table, r) = {}
  BY <1>1, UpdateRemovesNothing
<1>3. routers' = [k \in RouterKeys |-> IF k \in Removable(table, r) THEN None ELSE table[k]]
  BY DEF handle_oui_routing_update
<1>4. routers' = table
  BY <1>2, <1>3 DEF WithRouting
<1>5. /\ start_routers({k \in RouterKeys : routers[k] = None /\ table[k] # None})
      /\ todo' = Removable(table, r)
      /\ dispatcher_pc' = IF Removable(table, r) = {} THEN "routing" ELSE "stop"
  BY DEF handle_oui_routing_update
<1> QED
  BY <1>1, <1>2, <1>4, <1>5

\* Every step keeps each entry in its own routing.
LEMMA KeyStep ==
  ASSUME TypeOK, KeyInOwnRouting, [Next]_vars
  PROVE  KeyInOwnRouting'
<1>1. CASE handle_oui_routing_update
  <2>1. routers' = WithRouting(Head(job.routings)) /\ Head(job.routings) \in Routing
    BY <1>1, UpdateEffect
  <2> QED
    BY <2>1, UpdateRemovesNothing DEF KeyInOwnRouting, Entries
<1>2. CASE ~handle_oui_routing_update
  BY <1>2, RoutersFrame DEF KeyInOwnRouting, Entries
<1> QED
  BY <1>1, <1>2

\* Every entry of the routing table names its own key, for any sequence of
\* routing updates: the key under which handle_oui_routing_update finds or
\* starts a router is made from the routing it stores there.
THEOREM KeysInOwnRouting == Spec => []KeyInOwnRouting
<1>1. Init => KeyInOwnRouting
  BY DEF Init, KeyInOwnRouting, Entries
<1> QED
  BY <1>1, TypeInit, TypeStep, KeyStep, PTL DEF Spec

-----------------------------------------------------------------------------
(***************************************************************************)
(* No router is ever stopped, and until shutdown the clients that run are  *)
(* those of the table.                                                     *)
(***************************************************************************)
NoStop ==
  /\ dispatcher_pc # "stop"
  /\ \A k \in RouterKeys : \A i \in 1..Len(client_messages[k]) : client_messages[k][i] # Stop

\* Only these steps touch the clients or their channels.
LEMMA ClientsFrame ==
  ASSUME [Next]_vars, ~handle_oui_routing_update,
         \A k \in RouterKeys : ~SendNext(k) /\ ~ClientRecv(k) /\ ~ClientShutdown(k)
  PROVE  UNCHANGED <<running, client_messages, client_region>>
<1>1. CASE Step
  BY Zenon, <1>1 DEF Step, Shutdown, setup_gateway_streams, ConnectError, Announce, BackoffElapsed,
     StreamError, StreamEnd, CheckTick, CheckOk, CheckError, handle_uplink,
     HandleGatewayRequest, Reply, HandleRegionRequest, handle_region_params_update,
     TellRegion, handle_routing_update, FinishRoutingUpdate, client_vars
<1>2. CASE Environment
  BY <1>2 DEF Environment, GatewayUplink, Ask, OthersToGateway, GatewayRecv, Trigger,
     client_vars
<1>3. CASE UNCHANGED vars
  BY <1>3 DEF vars, client_vars
<1> QED
  BY <1>1, <1>2, <1>3 DEF Next

\* Only handle_oui_routing_update may start stopping routers.
LEMMA StopFrame ==
  ASSUME [Next]_vars, ~handle_oui_routing_update, dispatcher_pc # "stop"
  PROVE  dispatcher_pc' # "stop"
<1>1. CASE Step
  BY Zenon, <1>1 DEF Step, Shutdown, setup_gateway_streams, ConnectError, Announce, BackoffElapsed,
     StreamError, StreamEnd, CheckTick, CheckOk, CheckError, SendNext, AfterSends,
     handle_uplink, HandleGatewayRequest, Reply, HandleRegionRequest,
     handle_region_params_update, TellRegion, handle_routing_update, FinishRoutingUpdate,
     prepare_gateway_change, Continue, TopOfLoop
<1>2. CASE Environment
  BY <1>2 DEF Environment, GatewayUplink, Ask, ClientRecv, ClientShutdown, OthersToGateway,
     GatewayRecv, Trigger
<1>3. CASE UNCHANGED vars
  BY <1>3 DEF vars
<1> QED
  BY <1>1, <1>2, <1>3 DEF Next

\* Since an update removes nothing, no client is ever told to stop.
LEMMA NoStopStep ==
  ASSUME TypeOK, KeyInOwnRouting, NoStop, [Next]_vars
  PROVE  NoStop'
<1>1. dispatcher_pc' # "stop"
  BY UpdateEffect, StopFrame DEF NoStop
<1>2. ASSUME NEW k \in RouterKeys
      PROVE  \A i \in 1..Len(client_messages'[k]) : client_messages'[k][i] # Stop
  <2>1. /\ client_messages[k] \in Seq(ClientMessage)
        /\ \A i \in 1..Len(client_messages[k]) : client_messages[k][i] # Stop
    BY DEF TypeOK, NoStop
  <2>2. CASE handle_oui_routing_update
    <3>1. client_messages'[k] \in {<<>>, client_messages[k]}
      BY <2>2, UpdateEffect DEF start_routers
    <3> QED
      BY <2>1, <3>1
  <2>3. ASSUME NEW j \in RouterKeys, SendNext(j)
        PROVE  \A i \in 1..Len(client_messages'[k]) : client_messages'[k][i] # Stop
    <3>1. Outgoing # Stop
      BY <2>3 DEF NoStop, SendNext, Outgoing, Uplink, RegionChanged, Stop
    <3>2. client_messages'[k] \in {client_messages[k], Append(client_messages[k], Outgoing)}
      <4>1. client_messages \in [RouterKeys -> Seq(ClientMessage)]
        BY DEF TypeOK
      <4>2. \/ client_messages' = [client_messages EXCEPT
                                     ![j] = Append(client_messages[j], Outgoing)]
            \/ client_messages' = client_messages
        BY <2>3 DEF SendNext
      <4> QED
        BY <4>1, <4>2
    <3>3. CASE client_messages'[k] = client_messages[k]
      BY <2>1, <3>3
    <3>4. CASE client_messages'[k] = Append(client_messages[k], Outgoing)
      <4>1. \A i \in 1..Len(Append(client_messages[k], Outgoing)) :
              Append(client_messages[k], Outgoing)[i] =
                IF i \in 1..Len(client_messages[k]) THEN client_messages[k][i] ELSE Outgoing
        BY <2>1
      <4> QED
        BY <2>1, <3>1, <3>4, <4>1
    <3> QED
      BY <3>2, <3>3, <3>4
  <2>4. ASSUME NEW j \in RouterKeys, ClientRecv(j) \/ ClientShutdown(j)
        PROVE  \A i \in 1..Len(client_messages'[k]) : client_messages'[k][i] # Stop
    <3>1. \/ client_messages'[k] \in {<<>>, client_messages[k]}
          \/ client_messages[k] # <<>> /\ client_messages'[k] = Tail(client_messages[k])
      BY <2>4 DEF ClientRecv, ClientShutdown, ClientReturn, TypeOK
    <3>2. CASE client_messages'[k] \in {<<>>, client_messages[k]}
      BY <3>2 DEF NoStop
    <3>3. CASE client_messages[k] # <<>> /\ client_messages'[k] = Tail(client_messages[k])
      <4>1. /\ Len(client_messages'[k]) = Len(client_messages[k]) - 1
            /\ \A i \in 1..Len(client_messages'[k]) :
                 client_messages'[k][i] = client_messages[k][i + 1]
        BY <2>1, <3>3
      <4>2. Len(client_messages[k]) \in Nat
        BY <2>1
      <4> QED
        BY <4>1, <4>2 DEF NoStop
    <3> QED
      BY <3>1, <3>2, <3>3
  <2>5. CASE UNCHANGED client_messages
    BY <2>5 DEF NoStop
  <2> QED
    BY <2>2, <2>3, <2>4, <2>5, ClientsFrame
<1> QED
  BY <1>1, <1>2 DEF NoStop

\* Clients start with their entry and, told nothing, run until shutdown.
LEMMA RunningStep ==
  ASSUME TypeOK, KeyInOwnRouting, NoStop, NoStop', ~shutdown => running = Entries, [Next]_vars
  PROVE  (~shutdown => running = Entries)'
<1> SUFFICES ASSUME ~shutdown'
             PROVE  running' = Entries'
  OBVIOUS
<1>1. ~shutdown
  BY Zenon DEF Next, vars, Step, Shutdown, setup_gateway_streams, ConnectError, Announce,
     BackoffElapsed, StreamError, StreamEnd, CheckTick, CheckOk, CheckError, SendNext,
     handle_uplink, HandleGatewayRequest, Reply, HandleRegionRequest,
     handle_region_params_update, TellRegion, handle_routing_update,
     handle_oui_routing_update, FinishRoutingUpdate, Environment, GatewayUplink, Ask,
     ClientRecv, ClientShutdown, OthersToGateway, GatewayRecv, Trigger
<1>2. CASE handle_oui_routing_update
  <2> DEFINE table == WithRouting(Head(job.routings))
  <2>1. routers' = table /\ Head(job.routings) \in Routing
    BY <1>2, UpdateEffect
  <2>2. running' = running \cup {k \in RouterKeys : routers[k] = None /\ table[k] # None}
    BY <1>2, UpdateEffect DEF start_routers
  <2>3. \A k \in RouterKeys : routers[k] # None => table[k] # None
    BY <2>1, DispatcherAssumption DEF WithRouting
  <2> HIDE DEF table
  <2> QED
    BY <1>1, <2>1, <2>2, <2>3 DEF Entries
<1>3. ASSUME ~handle_oui_routing_update
      PROVE  running' = Entries'
  <2>1. UNCHANGED routers
    BY <1>3, RoutersFrame
  <2>2. ASSUME NEW k \in RouterKeys, ClientRecv(k)
        PROVE  running' = running
    <3>1. /\ client_messages[k] \in Seq(ClientMessage)
          /\ client_messages[k] # <<>>
      BY <2>2 DEF ClientRecv, TypeOK
    <3>2. Head(client_messages[k]) # Stop
      BY <3>1 DEF NoStop
    <3> QED
      BY <2>2, <3>2 DEF ClientRecv
  <2>3. ASSUME NEW k \in RouterKeys, SendNext(k)
        PROVE  running' = running
    BY <2>3 DEF SendNext
  <2>4. \A k \in RouterKeys : ~ClientShutdown(k)
    BY <1>1 DEF ClientShutdown
  <2>5. running' = running
    BY <1>3, <2>2, <2>3, <2>4, ClientsFrame
  <2> QED
    BY <1>1, <2>1, <2>5 DEF Entries
<1> QED
  BY <1>2, <1>3

\* Until shutdown the clients that run are those of the routing table, whatever
\* updates arrive.  As the proof shows, this holds because no client is ever
\* stopped: the retain of handle_oui_routing_update never removes an entry.
THEOREM EntriesAlwaysRunning == Spec => []EntriesRunning
<1> DEFINE Runs == ~shutdown => running = Entries
           Inv == TypeOK /\ KeyInOwnRouting /\ NoStop /\ Runs
<1>1. Init => Inv
  <2> SUFFICES ASSUME Init PROVE Inv
    OBVIOUS
  <2>1. KeyInOwnRouting /\ Runs
    BY DEF Init, KeyInOwnRouting, Entries
  <2>2. NoStop
    BY DEF Init, NoStop, TopOfLoop
  <2> QED
    BY <2>1, <2>2, TypeInit
<1>2. Inv /\ [Next]_vars => Inv'
  <2> SUFFICES ASSUME Inv, [Next]_vars PROVE Inv'
    OBVIOUS
  <2>1. TypeOK' /\ KeyInOwnRouting' /\ NoStop'
    BY TypeStep, KeyStep, NoStopStep
  <2>2. Runs'
    BY <2>1, RunningStep
  <2> QED
    BY <2>1, <2>2
<1>3. Inv => EntriesRunning
  <2> SUFFICES ASSUME Inv, ~shutdown PROVE Entries = {k \in running : ~Stopping(k)}
    BY DEF EntriesRunning
  <2>1. \A k \in running : ~Stopping(k)
    BY DEF NoStop, Stopping, TypeOK
  <2> QED
    BY <2>1
<1> HIDE DEF Inv
<1> QED
  BY <1>1, <1>2, <1>3, PTL DEF Spec

-----------------------------------------------------------------------------
(***************************************************************************)
(* Heights and requests                                                    *)
(***************************************************************************)
\* handle_routing_update compares the heights before its first
\* handle_oui_routing_update and sets the new one after the last.
NewerUpdate == dispatcher_pc \in {"routing", "stop"} => job.height > routing_height

\* An update being applied is newer than the one in place until it is done.
LEMMA NewerStep ==
  ASSUME TypeOK, NewerUpdate, [Next]_vars
  PROVE  NewerUpdate'
<1> SUFFICES ASSUME dispatcher_pc' \in {"routing", "stop"}
             PROVE  job'.height > routing_height'
  BY DEF NewerUpdate
<1>1. ASSUME NEW h \in 1..MaxHeight, handle_routing_update(h)
      PROVE  job'.height > routing_height'
  BY <1>1 DEF handle_routing_update, session_vars
<1>2. CASE handle_oui_routing_update
  <2>1. dispatcher_pc = "routing" /\ job \in RoutingUpdate
    BY <1>2 DEF handle_oui_routing_update, TypeOK
  <2>2. job'.height = job.height
    BY <1>2, <2>1 DEF handle_oui_routing_update, RoutingUpdate
  <2> QED
    BY <1>2, <2>1, <2>2 DEF handle_oui_routing_update, NewerUpdate, session_vars
<1>3. ASSUME NEW k \in RouterKeys, SendNext(k)
      PROVE  job'.height > routing_height'
  BY <1>3 DEF SendNext, AfterSends, Continue, TopOfLoop, NewerUpdate, session_vars
<1>4. ASSUME \A h \in 1..MaxHeight : ~handle_routing_update(h),
             ~handle_oui_routing_update, \A k \in RouterKeys : ~SendNext(k)
      PROVE  job' = job /\ routing_height' = routing_height /\ dispatcher_pc' = dispatcher_pc
  <2>1. CASE Step
    BY Zenon, <1>4, <2>1 DEF Step, Shutdown, setup_gateway_streams, ConnectError, Announce,
       BackoffElapsed, StreamError, StreamEnd, CheckTick, CheckOk, CheckError,
       handle_uplink, HandleGatewayRequest, Reply, HandleRegionRequest,
       handle_region_params_update, TellRegion, FinishRoutingUpdate, TopOfLoop, Continue,
       prepare_gateway_change
  <2>2. CASE Environment
    BY <2>2 DEF Environment, GatewayUplink, Ask, ClientRecv, ClientShutdown,
       OthersToGateway, GatewayRecv, Trigger, work_vars, session_vars
  <2>3. CASE UNCHANGED vars
    BY <2>3 DEF vars, work_vars, session_vars
  <2> QED
    BY <2>1, <2>2, <2>3 DEF Next
<1> QED
  BY <1>1, <1>2, <1>3, <1>4 DEF NewerUpdate

\* Outside prepare_gateway_change no step lowers a height.
LEMMA HeightsStep ==
  ASSUME TypeOK, NewerUpdate, [Next]_vars, dispatcher_pc' # "backoff"
  PROVE  routing_height' >= routing_height /\ region_height' >= region_height
<1>1. routing_height \in Nat /\ region_height \in Nat
  BY DispatcherAssumption DEF TypeOK
<1>2. ASSUME NEW h \in 1..MaxHeight, handle_region_params_update(h)
      PROVE  routing_height' >= routing_height /\ region_height' >= region_height
  BY <1>1, <1>2 DEF handle_region_params_update
<1>3. CASE FinishRoutingUpdate
  <2>1. job \in RoutingUpdate /\ job.height > routing_height
    BY <1>3 DEF FinishRoutingUpdate, TypeOK, NewerUpdate
  <2> QED
    BY <1>1, <1>3, <2>1 DEF FinishRoutingUpdate, RoutingUpdate
<1>4. ASSUME \A h \in 1..MaxHeight : ~handle_region_params_update(h), ~FinishRoutingUpdate
      PROVE  UNCHANGED <<routing_height, region_height>>
  <2>1. CASE Step
    BY Zenon, <1>4, <2>1 DEF Step, Shutdown, setup_gateway_streams, ConnectError, Announce,
       BackoffElapsed, StreamError, StreamEnd, CheckTick, CheckOk, CheckError, SendNext,
       handle_uplink, HandleGatewayRequest, Reply, HandleRegionRequest, TellRegion,
       handle_routing_update, handle_oui_routing_update, prepare_gateway_change, session_vars
  <2>2. CASE Environment
    BY <2>2 DEF Environment, GatewayUplink, Ask, ClientRecv, ClientShutdown,
       OthersToGateway, GatewayRecv, Trigger, session_vars
  <2>3. CASE UNCHANGED vars
    BY <2>3 DEF vars, session_vars
  <2> QED
    BY <2>1, <2>2, <2>3 DEF Next
<1> QED
  BY <1>1, <1>2, <1>3, <1>4

\* Within a session no update lowers a height, although handle_routing_update
\* applies an update in many steps and sets routing_height only after the last.
THEOREM HeightsOnlyAdvance == Spec => HeightsAdvance
<1> DEFINE Inv == TypeOK /\ NewerUpdate
<1>1. Init => Inv
  <2>1. Init => NewerUpdate
    BY DEF Init, NewerUpdate, TopOfLoop
  <2> QED
    BY <2>1, TypeInit
<1>2. Inv /\ [Next]_vars => Inv'
  BY TypeStep, NewerStep
<1>3. Inv /\ [Next]_vars =>
        [dispatcher_pc' # "backoff" =>
           routing_height' >= routing_height /\ region_height' >= region_height]_vars
  BY HeightsStep
<1> HIDE DEF Inv
<1> QED
  BY <1>1, <1>2, <1>3, PTL DEF Spec, HeightsAdvance

\* The request messages of q.
Asks(q) == {GatewayRequest(q), RegionRequest(q)}
Queued(s, q) == \E i \in 1..Len(s) : s[i] \in Asks(q)

\* A queued request stays queued when a message is added, and when one that is
\* not its own is taken.
LEMMA QueuedKept ==
  ASSUME NEW s \in Seq(DispatcherMessage), NEW q \in Requests, Queued(s, q)
  PROVE  /\ \A m \in DispatcherMessage : Queued(Append(s, m), q)
         /\ s # <<>> /\ Head(s) \notin Asks(q) => Queued(Tail(s), q)
<1> PICK i \in 1..Len(s) : s[i] \in Asks(q)
  BY DEF Queued
<1>1. ASSUME NEW m \in DispatcherMessage
      PROVE  Queued(Append(s, m), q)
  <2>1. i \in 1..Len(Append(s, m)) /\ Append(s, m)[i] = s[i]
    OBVIOUS
  <2> QED
    BY <2>1 DEF Queued
<1>2. ASSUME s # <<>>, Head(s) \notin Asks(q)
      PROVE  Queued(Tail(s), q)
  <2>1. i # 1
    BY <1>2
  <2>2. i - 1 \in 1..Len(Tail(s)) /\ Tail(s)[i - 1] = s[i]
    BY <1>2, <2>1
  <2> QED
    BY <2>2 DEF Queued
<1> QED
  BY <1>1, <1>2

\* A message just added is queued.
LEMMA AddedIsQueued ==
  ASSUME NEW s \in Seq(DispatcherMessage), NEW q \in Requests, NEW m \in Asks(q)
  PROVE  Queued(Append(s, m), q)
<1>1. /\ Len(s) + 1 \in 1..Len(Append(s, m))
      /\ Append(s, m)[Len(s) + 1] = m
  OBVIOUS
<1> QED
  BY <1>1 DEF Queued

\* The request and type of a request message.
LEMMA AsksFields ==
  ASSUME NEW q \in Requests, NEW m \in Asks(q)
  PROVE  m.request = q /\ m.type \in {"GatewayRequest", "Region"}
BY DEF Asks, GatewayRequest, RegionRequest

\* No step of the dispatcher or of its callers loses a request.
LEMMA RequestStep ==
  ASSUME TypeOK, NoRequestLost, [Next]_vars
  PROVE  NoRequestLost'
<1> SUFFICES ASSUME NEW q \in Requests, requests'[q] = "queued"
             PROVE  Queued(dispatcher_messages', q) \/ (dispatcher_pc' = "ask" /\ job' = q)
  BY DEF NoRequestLost, Queued, Asks
<1> DEFINE Lost == ~(Queued(dispatcher_messages', q) \/ (dispatcher_pc' = "ask" /\ job' = q))
<1>1. requests[q] = "queued" => Queued(dispatcher_messages, q) \/ (dispatcher_pc = "ask" /\ job = q)
  BY DEF NoRequestLost, Queued, Asks
<1>2. /\ dispatcher_messages \in Seq(DispatcherMessage)
      /\ requests \in [Requests -> {"idle", "queued", "answered", "no_service"}]
  BY DEF TypeOK
<1>3. ASSUME NEW p \in Packets, GatewayUplink(p)
      PROVE  ~Lost
  <2>1. dispatcher_messages' = Append(dispatcher_messages, Uplink(p))
    BY <1>3 DEF GatewayUplink, Enqueue
  <2>2. UNCHANGED <<dispatcher_pc, job, requests>>
    BY <1>3 DEF GatewayUplink, work_vars
  <2> QED
    BY <1>1, <1>2, <2>1, <2>2, MessageTypes, QueuedKept
<1>4. ASSUME NEW c \in Requests, Ask(c)
      PROVE  ~Lost
  <2>1. PICK m \in Asks(c) : dispatcher_messages' = Append(dispatcher_messages, m)
    BY <1>4 DEF Ask, Enqueue, Asks
  <2>2. UNCHANGED <<dispatcher_pc, job>> /\ requests' = [requests EXCEPT ![c] = "queued"]
    BY <1>4 DEF Ask, work_vars
  <2>3. m \in DispatcherMessage
    BY MessageTypes DEF Asks
  <2>4. CASE c = q
    BY <1>2, <2>1, <2>4, AddedIsQueued
  <2>5. CASE c # q
    BY <1>1, <1>2, <2>1, <2>2, <2>3, <2>5, QueuedKept
  <2> QED
    BY <2>4, <2>5
<1>5. CASE HandleGatewayRequest
  <2> DEFINE c == Head(dispatcher_messages).request
  <2>1. /\ dispatcher_pc \in {"serve", "backoff"}
        /\ dispatcher_messages # <<>>
        /\ dispatcher_messages' = Tail(dispatcher_messages)
    BY <1>5 DEF HandleGatewayRequest, Recv
  <2>2. /\ dispatcher_pc = "serve" => dispatcher_pc' = "ask" /\ job' = c
        /\ dispatcher_pc # "serve" => requests' = [requests EXCEPT ![c] = "no_service"]
        /\ c # q => requests'[q] = requests[q]
    BY <1>2, <1>5 DEF HandleGatewayRequest
  <2>3. CASE c = q
    BY <1>2, <2>2, <2>3
  <2>4. CASE c # q
    <3>1. Head(dispatcher_messages) \notin Asks(q)
      BY <2>4, AsksFields
    <3> QED
      BY <1>1, <1>2, <2>1, <2>2, <2>4, <3>1, QueuedKept
  <2> QED
    BY <2>3, <2>4
<1>6. CASE HandleRegionRequest
  <2> DEFINE c == Head(dispatcher_messages).request
  <2>1. /\ dispatcher_pc \in {"serve", "backoff"}
        /\ dispatcher_messages # <<>>
        /\ dispatcher_messages' = Tail(dispatcher_messages)
        /\ requests' = [requests EXCEPT ![c] = "answered"]
    BY <1>6 DEF HandleRegionRequest, Recv
  <2>2. c # q
    BY <1>2, <2>1
  <2>3. requests'[q] = requests[q] /\ Head(dispatcher_messages) \notin Asks(q)
    BY <1>2, <2>1, <2>2, AsksFields
  <2> QED
    BY <1>1, <1>2, <2>1, <2>3, QueuedKept
<1>7. CASE handle_uplink
  <2>1. /\ dispatcher_pc \in {"serve", "backoff"}
        /\ dispatcher_messages # <<>>
        /\ dispatcher_messages' = Tail(dispatcher_messages)
        /\ Head(dispatcher_messages).type = "Uplink"
        /\ requests' = requests
    BY <1>7 DEF handle_uplink, Recv
  <2>2. Head(dispatcher_messages) \notin Asks(q)
    BY <2>1, AsksFields
  <2> QED
    BY <1>1, <1>2, <2>1, <2>2, QueuedKept
<1>8. CASE Reply
  <2>1. /\ requests' = [requests EXCEPT ![job] = "answered"]
        /\ dispatcher_messages' = dispatcher_messages
    BY <1>8 DEF Reply
  <2>2. job # q /\ requests'[q] = requests[q]
    BY <1>2, <2>1
  <2> QED
    BY <1>1, <2>1, <2>2
<1>9. ASSUME \A p \in Packets : ~GatewayUplink(p), \A c \in Requests : ~Ask(c),
             ~HandleGatewayRequest, ~HandleRegionRequest, ~handle_uplink, ~Reply
      PROVE  /\ UNCHANGED <<dispatcher_messages, requests>>
             /\ dispatcher_pc = "ask" => UNCHANGED <<dispatcher_pc, job>>
  <2>1. CASE Step
    BY Zenon, <1>9, <2>1 DEF Step, Shutdown, setup_gateway_streams, ConnectError, Announce,
       BackoffElapsed, StreamError, StreamEnd, CheckTick, CheckOk, CheckError, SendNext,
       handle_region_params_update, TellRegion, handle_routing_update,
       handle_oui_routing_update, FinishRoutingUpdate
  <2>2. CASE Environment
    BY <1>9, <2>2 DEF Environment, ClientRecv, ClientShutdown, OthersToGateway,
       GatewayRecv, Trigger, work_vars
  <2>3. CASE UNCHANGED vars
    BY <2>3 DEF vars, work_vars
  <2> QED
    BY <2>1, <2>2, <2>3 DEF Next
<1> QED
  BY <1>1, <1>3, <1>4, <1>5, <1>6, <1>7, <1>8, <1>9

\* A caller of the local API that is still waiting is in the dispatcher's
\* channel or is the one being answered: no path of handle_message, in a
\* session or between two, drops its response sender.
THEOREM RequestsNotLost == Spec => []NoRequestLost
<1> DEFINE Inv == TypeOK /\ NoRequestLost
<1>1. Init => Inv
  <2>1. Init => NoRequestLost
    BY DEF Init, NoRequestLost
  <2> QED
    BY <2>1, TypeInit
<1>2. Inv /\ [Next]_vars => Inv'
  BY TypeStep, RequestStep
<1>3. Inv => NoRequestLost
  OBVIOUS
<1> HIDE DEF Inv
<1> QED
  BY <1>1, <1>2, <1>3, PTL DEF Spec

-----------------------------------------------------------------------------
(***************************************************************************)
(* The routing table and the update in place                               *)
(***************************************************************************)
\* Every entry an update's routing asks for carries that routing.
InTable(r) == \A u \in r.uris : routers[[oui |-> r.oui, uri |-> u]] = r

\* The routings of the update in hand that handle_routing_update has done with.
Done == Len(RoutingAt[job.height]) - Len(job.routings)

\* What is left of the update in hand is the end of the list the chain holds,
\* and the beginning is in the table.
PartlyInTable ==
  dispatcher_pc = "routing" =>
    /\ Done \in Nat
    /\ \A i \in 1..Len(job.routings) : job.routings[i] = RoutingAt[job.height][Done + i]
    /\ \A i \in 1..Done : InTable(RoutingAt[job.height][i])

\* The chain holds one routing for an OUI.
OneRoutingPerOui ==
  \A h \in 1..MaxHeight : \A i, j \in 1..Len(RoutingAt[h]) :
    RoutingAt[h][i].oui = RoutingAt[h][j].oui => i = j

\* One more routing is in the table, and those of other OUIs stay there.
LEMMA UpdateInTable ==
  ASSUME OneRoutingPerOui, TypeOK, KeyInOwnRouting, PartlyInTable, handle_oui_routing_update
  PROVE  PartlyInTable'
<1> DEFINE full == RoutingAt[job.height]
           r == Head(job.routings)
<1>1. /\ dispatcher_pc = "routing"
      /\ job \in RoutingUpdate
      /\ job.height \in 1..MaxHeight
      /\ job.routings \in Seq(Routing) \ {<<>>}
  BY DEF handle_oui_routing_update, TypeOK, RoutingUpdate
<1>2. full \in Seq(Routing) /\ Len(full) \in Nat
  BY <1>1, DispatcherAssumption
<1>3. /\ job'.height = job.height
      /\ job'.routings = Tail(job.routings)
  BY <1>1 DEF handle_oui_routing_update, RoutingUpdate
<1>4. /\ Len(job.routings) \in Nat \ {0}
      /\ Len(job'.routings) = Len(job.routings) - 1
      /\ \A i \in 1..Len(job'.routings) : job'.routings[i] = job.routings[i + 1]
      /\ r = job.routings[1]
  BY <1>1, <1>3
<1>5. /\ Done \in Nat
      /\ Done + Len(job.routings) = Len(full)
      /\ Done' = Done + 1
  <2>1. Done \in Nat
    BY <1>1 DEF PartlyInTable
  <2>2. /\ Done = Len(full) - Len(job.routings)
        /\ Done' = Len(full) - Len(job'.routings)
    BY <1>3 DEF Done
  <2> QED
    BY <1>2, <1>4, <2>1, <2>2
<1>6. r = full[Done + 1] /\ r \in Routing
  BY <1>1, <1>4, HeadIsRouting DEF PartlyInTable
<1>7. routers' = WithRouting(r)
  BY UpdateEffect
<1>8. ASSUME NEW i \in 1..Done + 1
      PROVE  \A u \in full[i].uris : routers'[[oui |-> full[i].oui, uri |-> u]] = full[i]
  <2>0. i \in 1..Len(full) /\ full[i] \in Routing /\ Done + 1 \in 1..Len(full)
    BY <1>2, <1>4, <1>5
  <2> SUFFICES ASSUME NEW u \in full[i].uris
               PROVE  routers'[[oui |-> full[i].oui, uri |-> u]] = full[i]
    OBVIOUS
  <2> DEFINE k == [oui |-> full[i].oui, uri |-> u]
  <2>1. k \in RouterKeys
    BY <2>0 DEF RouterKeys, Routing
  <2>2. routers'[k] = IF k.oui = r.oui /\ k.uri \in r.uris THEN r ELSE routers[k]
    BY <1>7, <2>1 DEF WithRouting
  <2>3. CASE i = Done + 1
    BY <1>6, <2>2, <2>3
  <2>4. CASE i \in 1..Done
    <3>1. full[i].oui # r.oui
      <4>1. i # Done + 1
        BY <1>5, <2>4
      <4>2. full[i].oui # full[Done + 1].oui
        BY <1>1, <2>0, <4>1 DEF OneRoutingPerOui
      <4> QED
        BY <1>6, <4>2
    <3>2. routers[k] = full[i]
      BY <1>1, <2>4 DEF PartlyInTable, InTable
    <3> QED
      BY <2>2, <3>1, <3>2
  <2> QED
    BY <1>5, <2>3, <2>4
<1>9. ASSUME NEW i \in 1..Len(job'.routings)
      PROVE  job'.routings[i] = full[Done' + i]
  <2>1. i + 1 \in 1..Len(job.routings) /\ Done + (i + 1) = Done' + i
    BY <1>4, <1>5
  <2>2. job.routings[i + 1] = full[Done + (i + 1)]
    BY <1>1, <2>1 DEF PartlyInTable
  <2> QED
    BY <1>4, <2>1, <2>2
<1>10. RoutingAt[job'.height] = full
  BY <1>3
<1> HIDE DEF full, r
<1>11. /\ Done' \in Nat
       /\ \A i \in 1..Len(job'.routings) : job'.routings[i] = RoutingAt[job'.height][Done' + i]
       /\ \A i \in 1..Done' : InTable(RoutingAt[job.height][i])'
  BY <1>5, <1>8, <1>9, <1>10 DEF InTable
<1> QED
  BY <1>11 DEF PartlyInTable

\* The steps that are not part of a routing update.
LEMMA TableFrame ==
  ASSUME [Next]_vars, dispatcher_pc # "stop", ~handle_oui_routing_update,
         ~FinishRoutingUpdate, \A h \in 1..MaxHeight : ~handle_routing_update(h)
  PROVE  /\ routing_height' \in {0, routing_height}
         /\ dispatcher_pc' = "routing" => dispatcher_pc = "routing"
         /\ dispatcher_pc = "routing" => UNCHANGED <<dispatcher_pc, job, routing_height>>
<1>1. CASE Step
  BY Zenon, <1>1 DEF Step, Shutdown, setup_gateway_streams, ConnectError, Announce, BackoffElapsed,
     StreamError, StreamEnd, CheckTick, CheckOk, CheckError, SendNext, AfterSends, Recv,
     handle_uplink, HandleGatewayRequest, Reply, HandleRegionRequest,
     handle_region_params_update, TellRegion, TopOfLoop, Continue, prepare_gateway_change,
     session_vars, work_vars
<1>2. CASE Environment
  BY <1>2 DEF Environment, GatewayUplink, Ask, ClientRecv, ClientShutdown, OthersToGateway,
     GatewayRecv, Trigger, work_vars, session_vars
<1>3. CASE UNCHANGED vars
  BY <1>3 DEF vars, work_vars, session_vars
<1> QED
  BY <1>1, <1>2, <1>3 DEF Next

\* Every step keeps the table at the update in place, and the update in hand
\* partly in the table.
LEMMA TableStep ==
  ASSUME OneRoutingPerOui, TypeOK, KeyInOwnRouting, dispatcher_pc # "stop",
         RoutingAtHeight, PartlyInTable, [Next]_vars, TypeOK'
  PROVE  RoutingAtHeight' /\ PartlyInTable'
<1>1. CASE handle_oui_routing_update
  <2>1. dispatcher_pc' = "routing"
    BY <1>1, UpdateEffect
  <2> QED
    BY Zenon, <1>1, <2>1, UpdateInTable DEF RoutingAtHeight
<1>2. ASSUME NEW h \in 1..MaxHeight, handle_routing_update(h)
      PROVE  RoutingAtHeight' /\ PartlyInTable'
  <2>1. dispatcher_pc' = "routing" /\ job'.height = h /\ job'.routings = RoutingAt[h]
    BY <1>2 DEF handle_routing_update
  <2>2. Len(RoutingAt[h]) \in Nat
    BY DispatcherAssumption
  <2>3. Done' = 0
    BY <2>1, <2>2 DEF Done
  <2> QED
    <3>1. RoutingAtHeight'
      BY Zenon, <2>1 DEF RoutingAtHeight
    <3>2. \A i \in 1..Len(RoutingAt[h]) : Done' + i = i
      BY <2>2, <2>3
    <3>3. \A i \in 1..Done' : FALSE
      BY <2>3
    <3>4. /\ Done' \in Nat
          /\ \A i \in 1..Len(job'.routings) : job'.routings[i] = RoutingAt[job'.height][Done' + i]
          /\ \A i \in 1..Done' : InTable(RoutingAt[job.height][i])'
      BY <2>1, <2>3, <3>2, <3>3
    <3> QED
      BY <3>1, <3>4 DEF PartlyInTable
<1>3. CASE FinishRoutingUpdate
  <2>1. /\ dispatcher_pc = "routing" /\ dispatcher_pc' = "serve"
        /\ job \in RoutingUpdate /\ job.routings = <<>>
        /\ routing_height' = job.height /\ UNCHANGED routers
    BY Zenon, <1>3 DEF FinishRoutingUpdate, TypeOK
  <2>2. Len(RoutingAt[job.height]) \in Nat
    BY <2>1, DispatcherAssumption DEF RoutingUpdate
  <2>3. Done = Len(RoutingAt[job.height])
    BY <2>1, <2>2 DEF Done
  <2>4. \A r \in RoutingsAt(job.height) : InTable(r)
    BY <2>1, <2>3 DEF PartlyInTable, RoutingsAt
  <2>5. \A r \in RoutingsAt(routing_height') : \A u \in r.uris :
          routers'[[oui |-> r.oui, uri |-> u]] = r
    BY Zenon, <2>1, <2>4 DEF InTable
  <2>6. RoutingAtHeight'
    BY Zenon, <2>5 DEF RoutingAtHeight, RoutingsAt
  <2> QED
    BY <2>1, <2>6 DEF PartlyInTable
<1>4. ASSUME ~handle_oui_routing_update, ~FinishRoutingUpdate,
             \A h \in 1..MaxHeight : ~handle_routing_update(h)
      PROVE  RoutingAtHeight' /\ PartlyInTable'
  <2>1. UNCHANGED routers
    BY <1>4, RoutersFrame
  <2>2. PartlyInTable'
    BY Zenon, <1>4, <2>1, TableFrame DEF PartlyInTable, Done, InTable
  <2>3. RoutingAtHeight'
    <3> SUFFICES ASSUME routing_height' > 0, dispatcher_pc' \notin {"routing", "stop"}
                 PROVE  \A r \in RoutingsAt(routing_height') : \A u \in r.uris :
                          routers[[oui |-> r.oui, uri |-> u]] = r
      BY Zenon, <2>1 DEF RoutingAtHeight, RoutingsAt
    <3>1. routing_height' = routing_height /\ dispatcher_pc # "routing"
      BY <1>4, TableFrame
    <3> QED
      BY Zenon, <3>1 DEF RoutingAtHeight
  <2> QED
    BY <2>2, <2>3
<1> QED
  BY <1>1, <1>2, <1>3, <1>4

\* Once an update is in place the table carries exactly its routings, for any
\* sequence of updates of any OUIs and routers, in however many steps
\* handle_routing_update applies them, as long as the chain holds one routing
\* for an OUI.
THEOREM TableAtHeight ==
  ASSUME OneRoutingPerOui
  PROVE  Spec => []RoutingAtHeight
<1> DEFINE Inv == TypeOK /\ KeyInOwnRouting /\ NoStop /\ RoutingAtHeight /\ PartlyInTable
<1>1. Init => Inv
  <2> SUFFICES ASSUME Init PROVE Inv
    OBVIOUS
  <2>1. KeyInOwnRouting /\ NoStop
    BY DEF Init, KeyInOwnRouting, Entries, NoStop, TopOfLoop
  <2>2. RoutingAtHeight /\ PartlyInTable
    BY DEF Init, RoutingAtHeight, PartlyInTable, TopOfLoop
  <2> QED
    BY <2>1, <2>2, TypeInit
<1>2. Inv /\ [Next]_vars => Inv'
  <2> SUFFICES ASSUME Inv, [Next]_vars PROVE Inv'
    OBVIOUS
  <2>1. TypeOK' /\ KeyInOwnRouting' /\ NoStop'
    BY TypeStep, KeyStep, NoStopStep
  <2>2. dispatcher_pc # "stop"
    BY DEF NoStop
  <2> QED
    BY <2>1, <2>2, TableStep
<1>3. Inv => RoutingAtHeight
  OBVIOUS
<1> HIDE DEF Inv
<1> QED
  BY <1>1, <1>2, <1>3, PTL DEF Spec

(***************************************************************************)
(* Region changes reach every client and the gateway                       *)
(***************************************************************************)
\* The two halves of RegionInSync, and what handle_region_params_update holds
\* while it tells the gateway: every client of the table is still to be told.
ClientsInSync ==
  \A k \in Entries \cap running :
    Telling(k) \/ WillKnow(client_messages[k], "RegionChanged", client_region[k], region)
GatewayUntold ==
  /\ gateway_region = None
  /\ \A i \in 1..Len(gateway_messages) : gateway_messages[i] = Downlink
GatewayInSync ==
  \/ dispatcher_pc = "region"
  \/ GatewayUntold
  \/ WillKnow(gateway_messages, "RegionParamsChanged", gateway_region, region)
AllToTell == dispatcher_pc = "region" => todo = Entries

\* Only handle_region_params_update changes the region, and the states in which
\* the dispatcher tells others of it are left only by telling them.
LEMMA RegionFrame ==
  ASSUME [Next]_vars, \A h \in 1..MaxHeight : ~handle_region_params_update(h),
         ~TellRegion, \A k \in RouterKeys : ~SendNext(k)
  PROVE  /\ UNCHANGED region
         /\ dispatcher_pc' = "region" => dispatcher_pc = "region"
         /\ dispatcher_pc \in {"region", "broadcast"} =>
              UNCHANGED <<dispatcher_pc, todo, routers>>
<1>1. CASE Step
  BY Zenon, <1>1 DEF Step, Shutdown, setup_gateway_streams, ConnectError, Announce, BackoffElapsed,
     StreamError, StreamEnd, CheckTick, CheckOk, CheckError, handle_uplink, Recv,
     HandleGatewayRequest, Reply, HandleRegionRequest, handle_routing_update,
     handle_oui_routing_update, FinishRoutingUpdate, prepare_gateway_change, Continue,
     TopOfLoop, work_vars
<1>2. CASE Environment
  BY <1>2 DEF Environment, GatewayUplink, Ask, ClientRecv, ClientShutdown, OthersToGateway,
     GatewayRecv, Trigger, work_vars
<1>3. CASE UNCHANGED vars
  BY <1>3 DEF vars, work_vars
<1> QED
  BY <1>1, <1>2, <1>3 DEF Next

\* While the gateway is being told of a region no entry comes, goes or is told.
LEMMA AllToTellStep ==
  ASSUME TypeOK, AllToTell, [Next]_vars
  PROVE  AllToTell'
<1>1. ASSUME NEW h \in 1..MaxHeight, handle_region_params_update(h)
      PROVE  AllToTell'
  BY <1>1 DEF handle_region_params_update, AllToTell, Entries
<1>2. CASE TellRegion
  BY <1>2 DEF TellRegion, AllToTell
<1>3. ASSUME NEW k \in RouterKeys, SendNext(k)
      PROVE  AllToTell'
  BY <1>3 DEF SendNext, AfterSends, Continue, TopOfLoop, AllToTell
<1>4. ASSUME \A h \in 1..MaxHeight : ~handle_region_params_update(h),
             ~TellRegion, \A k \in RouterKeys : ~SendNext(k)
      PROVE  AllToTell'
  BY <1>4, RegionFrame DEF AllToTell, Entries
<1> QED
  BY <1>1, <1>2, <1>3, <1>4

\* Only these steps touch the gateway's channel or its region.
LEMMA GatewayFrame ==
  ASSUME [Next]_vars, ~Announce, ~TellRegion, ~OthersToGateway, ~GatewayRecv
  PROVE  UNCHANGED gateway_vars
<1>1. CASE Step
  BY Zenon, <1>1 DEF Step, Shutdown, setup_gateway_streams, ConnectError, BackoffElapsed,
     StreamError, StreamEnd, CheckTick, CheckOk, CheckError, SendNext, handle_uplink,
     HandleGatewayRequest, Reply, HandleRegionRequest, handle_region_params_update,
     handle_routing_update, handle_oui_routing_update, FinishRoutingUpdate
<1>2. CASE Environment
  BY <1>2 DEF Environment, GatewayUplink, Ask, ClientRecv, ClientShutdown, Trigger
<1>3. CASE UNCHANGED vars
  BY <1>3 DEF vars
<1> QED
  BY <1>1, <1>2, <1>3 DEF Next

\* The gateway stays informed.
LEMMA GatewayStep ==
  ASSUME TypeOK, GatewayInSync, [Next]_vars
  PROVE  GatewayInSync'
<1>1. gateway_messages \in Seq(GatewayMessage) /\ region \in Regions
  BY DEF TypeOK
<1>2. ASSUME NEW h \in 1..MaxHeight, handle_region_params_update(h)
      PROVE  GatewayInSync'
  BY <1>2 DEF handle_region_params_update, GatewayInSync
<1>3. CASE Announce \/ TellRegion
  <2> DEFINE m == RegionParamsChanged(region)
  <2>1. /\ gateway_messages' = Append(gateway_messages, m)
        /\ UNCHANGED region
    BY <1>3 DEF Announce, TellRegion, TellGateway
  <2>2. m.type = "RegionParamsChanged" /\ m.region = region /\ m \in GatewayMessage
    BY <1>1, MessageTypes DEF RegionParamsChanged
  <2> HIDE DEF m
  <2>3. WillKnow(Append(gateway_messages, m), "RegionParamsChanged", gateway_region', region)
    BY <1>1, <2>2, LastKnows
  <2> QED
    BY <2>1, <2>3 DEF GatewayInSync
<1>4. CASE OthersToGateway
  <2>1. /\ gateway_messages' = Append(gateway_messages, Downlink)
        /\ UNCHANGED <<gateway_region, region, dispatcher_pc>>
    BY <1>4 DEF OthersToGateway
  <2>2. Downlink \in GatewayMessage /\ Downlink.type # "RegionParamsChanged"
    BY MessageTypes DEF Downlink
  <2>3. CASE GatewayUntold
    <3>1. \A i \in 1..Len(gateway_messages') : gateway_messages'[i] = Downlink
      BY <1>1, <2>1, <2>2, <2>3 DEF GatewayUntold
    <3> QED
      BY <2>1, <2>3, <3>1 DEF GatewayInSync, GatewayUntold
  <2>4. CASE WillKnow(gateway_messages, "RegionParamsChanged", gateway_region, region)
    <3>1. WillKnow(Append(gateway_messages, Downlink), "RegionParamsChanged",
                   gateway_region, region)
      BY <1>1, <2>2, <2>4, AppendKnows
    <3> QED
      BY <2>1, <3>1 DEF GatewayInSync
  <2> QED
    BY <2>1, <2>3, <2>4 DEF GatewayInSync
<1>5. CASE GatewayRecv
  <2> DEFINE d == IF Head(gateway_messages).type = "RegionParamsChanged"
                    THEN Head(gateway_messages).region ELSE gateway_region
  <2>1. /\ gateway_messages # <<>>
        /\ gateway_messages' = Tail(gateway_messages)
        /\ gateway_region' = d
        /\ UNCHANGED <<region, dispatcher_pc>>
    BY <1>5 DEF GatewayRecv
  <2>2. CASE GatewayUntold
    <3>1. Head(gateway_messages) = Downlink
      BY <1>1, <2>1, <2>2 DEF GatewayUntold
    <3>2. gateway_region' = None
      BY <2>1, <2>2, <3>1 DEF GatewayUntold, Downlink
    <3>3. /\ Len(gateway_messages) \in Nat
          /\ Len(gateway_messages') = Len(gateway_messages) - 1
          /\ \A i \in 1..Len(gateway_messages') :
               gateway_messages'[i] = gateway_messages[i + 1]
      BY <1>1, <2>1
    <3>4. \A i \in 1..Len(gateway_messages') : gateway_messages'[i] = Downlink
      BY <2>2, <3>3 DEF GatewayUntold
    <3> QED
      BY <3>2, <3>4 DEF GatewayInSync, GatewayUntold
  <2>3. CASE WillKnow(gateway_messages, "RegionParamsChanged", gateway_region, region)
    <3>1. WillKnow(Tail(gateway_messages), "RegionParamsChanged", d, region)
      BY <1>1, <2>1, <2>3, TailKnows
    <3> HIDE DEF d
    <3> QED
      BY <2>1, <3>1 DEF GatewayInSync
  <2> QED
    BY <2>1, <2>2, <2>3 DEF GatewayInSync
<1>6. ASSUME ~Announce, ~TellRegion, ~OthersToGateway, ~GatewayRecv,
             \A h \in 1..MaxHeight : ~handle_region_params_update(h)
      PROVE  GatewayInSync'
  <2>1. UNCHANGED <<gateway_messages, gateway_region>>
    BY <1>6, GatewayFrame DEF gateway_vars
  <2>2. UNCHANGED region /\ (dispatcher_pc = "region" => dispatcher_pc' = "region")
    <3>1. ASSUME NEW k \in RouterKeys, SendNext(k)
          PROVE  UNCHANGED region /\ (dispatcher_pc = "region" => dispatcher_pc' = "region")
      BY <3>1 DEF SendNext
    <3> QED
      BY <1>6, <3>1, RegionFrame
  <2> QED
    BY <2>1, <2>2 DEF GatewayInSync, GatewayUntold
<1> QED
  BY <1>2, <1>3, <1>4, <1>5, <1>6

\* A client of the table that has been told stays informed.
LEMMA ClientsStep ==
  ASSUME TypeOK, KeyInOwnRouting, NoStop, AllToTell, ClientsInSync, [Next]_vars
  PROVE  ClientsInSync'
<1> SUFFICES ASSUME NEW k \in RouterKeys, routers'[k] # None, k \in running'
             PROVE  \/ Telling(k)'
                    \/ WillKnow(client_messages'[k], "RegionChanged", client_region'[k], region')
  BY DEF ClientsInSync, Entries
<1> DEFINE Knows == WillKnow(client_messages[k], "RegionChanged", client_region[k], region)
           Goal == \/ Telling(k)'
                   \/ WillKnow(client_messages'[k], "RegionChanged", client_region'[k], region')
<1>1. k \in Entries /\ k \in running => Telling(k) \/ Knows
  BY DEF ClientsInSync
<1>2. /\ client_messages \in [RouterKeys -> Seq(ClientMessage)]
      /\ client_region \in [RouterKeys -> Regions \cup {None}]
      /\ region \in Regions
  BY DEF TypeOK
<1>3. CASE handle_oui_routing_update
  <2> DEFINE table == WithRouting(Head(job.routings))
  <2>1. /\ routers' = table
        /\ start_routers({j \in RouterKeys : routers[j] = None /\ table[j] # None})
        /\ dispatcher_pc = "routing"
        /\ region' = region
    BY <1>3, UpdateEffect DEF handle_oui_routing_update
  <2> HIDE DEF table
  <2>2. CASE routers[k] = None
    <3>1. client_messages'[k] = <<>> /\ client_region'[k] = region
      BY <2>1, <2>2 DEF start_routers
    <3>2. WillKnow(<<>>, "RegionChanged", region, region)
      BY DEF WillKnow
    <3> QED
      BY <2>1, <3>1, <3>2
  <2>3. CASE routers[k] # None
    <3>1. /\ client_messages'[k] = client_messages[k]
          /\ client_region'[k] = client_region[k]
          /\ k \in running
      BY <2>1, <2>3 DEF start_routers
    <3>2. Knows
      BY <1>1, <2>1, <2>3, <3>1 DEF Entries, Telling
    <3> QED
      BY <2>1, <3>1, <3>2
  <2> QED
    BY <2>2, <2>3
<1>4. ASSUME ~handle_oui_routing_update
      PROVE  Goal
  <2>1. routers' = routers /\ k \in Entries
    BY <1>4, RoutersFrame DEF Entries
  <2>2. ASSUME NEW j \in RouterKeys, SendNext(j)
        PROVE  Goal
    <3>1. /\ UNCHANGED <<region, running, client_region>>
          /\ dispatcher_pc \in {"uplink", "broadcast", "stop"}
          /\ todo' = todo \ {j}
      BY <2>2 DEF SendNext
    <3>2. CASE j = k
      <4>1. client_messages'[k] = Append(client_messages[k], Outgoing)
        BY <1>2, <2>2, <3>1, <3>2 DEF SendNext
      <4>2. CASE dispatcher_pc = "broadcast"
        <5>1. Outgoing.type = "RegionChanged" /\ Outgoing.region = region
          BY <4>2 DEF Outgoing, RegionChanged
        <5>2. Outgoing \in ClientMessage
          BY <1>2, <4>2, MessageTypes DEF Outgoing
        <5>3. WillKnow(Append(client_messages[k], Outgoing), "RegionChanged",
                       client_region[k], region)
          BY Zenon, <1>2, <5>1, <5>2, LastKnows
        <5> QED
          BY <3>1, <4>1, <5>3
      <4>3. CASE dispatcher_pc \in {"uplink", "stop"}
        <5>1. Outgoing.type # "RegionChanged"
          BY <4>3 DEF Outgoing, Uplink, Stop
        <5>2. Outgoing \in ClientMessage
          BY <4>3, MessageTypes DEF Outgoing, TypeOK
        <5>3. Knows
          BY <1>1, <2>1, <3>1, <4>3 DEF Telling
        <5>4. WillKnow(Append(client_messages[k], Outgoing), "RegionChanged",
                       client_region[k], region)
          BY <1>2, <5>1, <5>2, <5>3, AppendKnows
        <5> QED
          BY <3>1, <4>1, <5>4
      <4> QED
        BY <3>1, <4>2, <4>3
    <3>3. CASE j # k
      <4>1. client_messages'[k] = client_messages[k]
        BY <1>2, <2>2, <3>3 DEF SendNext
      <4>2. Telling(k) => Telling(k)'
        BY <2>2, <3>1, <3>3 DEF Telling, SendNext
      <4> QED
        BY <1>1, <2>1, <3>1, <4>1, <4>2
    <3> QED
      BY <3>2, <3>3
  <2>3. ASSUME NEW h \in 1..MaxHeight, handle_region_params_update(h)
        PROVE  Goal
    BY <2>1, <2>3 DEF handle_region_params_update, Telling
  <2>4. CASE TellRegion
    <3>1. k \in todo
      BY <2>1, <2>4 DEF TellRegion, AllToTell
    <3> QED
      BY <2>4, <3>1 DEF TellRegion, Telling, work_vars
  <2>5. ASSUME \A h \in 1..MaxHeight : ~handle_region_params_update(h),
               ~TellRegion, \A j \in RouterKeys : ~SendNext(j)
        PROVE  region' = region /\ (Telling(k) => Telling(k)')
    BY <2>5, RegionFrame DEF Telling
  <2>6. ASSUME NEW j \in RouterKeys, ClientRecv(j)
        PROVE  Goal
    <3>1. /\ region' = region
          /\ Telling(k) => Telling(k)'
          /\ k \in running
      BY <2>6 DEF ClientRecv, ClientReturn, Telling, work_vars
    <3>2. CASE j = k
      <4> DEFINE m == Head(client_messages[k])
                 d == IF m.type = "RegionChanged" THEN m.region ELSE client_region[k]
      <4>1. m # Stop
        <5>1. client_messages[k] # <<>>
          BY <2>6, <3>2 DEF ClientRecv
        <5>2. 1 \in 1..Len(client_messages[k]) /\ m = client_messages[k][1]
          BY <1>2, <5>1
        <5> QED
          BY <5>2 DEF NoStop
      <4>2. /\ client_messages[k] # <<>>
            /\ client_messages'[k] = Tail(client_messages[k])
            /\ client_region'[k] = d
        BY <1>2, <2>6, <3>2, <4>1 DEF ClientRecv
      <4>3. Knows => WillKnow(Tail(client_messages[k]), "RegionChanged", d, region)
        BY <1>2, <4>2, TailKnows
      <4> HIDE DEF d
      <4> QED
        BY <1>1, <2>1, <3>1, <4>2, <4>3
    <3>3. CASE j # k
      <4>1. client_messages'[k] = client_messages[k] /\ client_region'[k] = client_region[k]
        BY <1>2, <2>6, <3>3 DEF ClientRecv, ClientReturn
      <4> QED
        BY <1>1, <2>1, <3>1, <4>1
    <3> QED
      BY <3>2, <3>3
  <2>7. ASSUME NEW j \in RouterKeys, ClientShutdown(j)
        PROVE  Goal
    <3>1. /\ region' = region
          /\ Telling(k) => Telling(k)'
          /\ running' = running \ {j}
      BY <2>7 DEF ClientShutdown, ClientReturn, Telling, work_vars
    <3>2. client_messages'[k] = client_messages[k] /\ client_region'[k] = client_region[k]
      BY <1>2, <2>7, <3>1 DEF ClientShutdown, ClientReturn
    <3> QED
      BY <1>1, <2>1, <3>1, <3>2
  <2>8. ASSUME \A j \in RouterKeys : ~SendNext(j) /\ ~ClientRecv(j) /\ ~ClientShutdown(j),
               \A h \in 1..MaxHeight : ~handle_region_params_update(h), ~TellRegion
        PROVE  Goal
    <3>1. UNCHANGED <<running, client_messages, client_region>>
      BY <1>4, <2>8, ClientsFrame
    <3> QED
      BY <1>1, <2>1, <2>5, <2>8, <3>1
  <2> QED
    BY <2>2, <2>3, <2>4, <2>6, <2>7, <2>8
<1> QED
  BY <1>3, <1>4

\* The gateway and every running client of the table are at the dispatcher's
\* region, or will be once they have drained their channels, or are still to be
\* told by the handle_region_params_update in progress; clients spawned, stopped
\* or slow while a region change is on its way make no difference.
THEOREM RegionAlwaysInSync == Spec => []RegionInSync
<1> DEFINE Inv == /\ TypeOK /\ KeyInOwnRouting /\ NoStop
                  /\ AllToTell /\ ClientsInSync /\ GatewayInSync
<1>1. Init => Inv
  <2> SUFFICES ASSUME Init PROVE Inv
    OBVIOUS
  <2>1. KeyInOwnRouting /\ ClientsInSync
    BY DEF Init, KeyInOwnRouting, ClientsInSync, Entries
  <2>2. NoStop /\ AllToTell
    BY DEF Init, NoStop, AllToTell, TopOfLoop
  <2>3. GatewayInSync
    BY DEF Init, GatewayInSync, GatewayUntold
  <2> QED
    BY <2>1, <2>2, <2>3, TypeInit
<1>2. Inv /\ [Next]_vars => Inv'
  BY TypeStep, KeyStep, NoStopStep, AllToTellStep, ClientsStep, GatewayStep
<1>3. Inv => RegionInSync
  BY DEF RegionInSync, ClientsInSync, GatewayInSync, GatewayUntold
<1> HIDE DEF Inv
<1> QED
  BY <1>1, <1>2, <1>3, PTL DEF Spec
=============================================================================
