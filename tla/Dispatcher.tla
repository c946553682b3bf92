----------------------------- MODULE Dispatcher -----------------------------
(***************************************************************************)
(* The dispatcher (src/router/dispatcher.rs): it keeps a session with one  *)
(* validator ("gateway" in the code's service layer), follows its routing  *)
(* and region streams, keeps one router client per routing entry, forwards *)
(* uplinks to the clients whose filters match, and answers the local API.  *)
(* One task; it is always in one of its awaits:                            *)
(*   connect    run: select_gateway and setup_gateway_streams              *)
(*   announce   run: sending the default region parameters to the gateway  *)
(*   serve      the select! of run_with_gateway                            *)
(*   check      check_gateway's RPC                                        *)
(*   ask        handle_message: the RPC for a Config or Height request     *)
(*   uplink     handle_uplink: sending a packet to the clients in todo     *)
(*   region     handle_region_params_update: telling the gateway           *)
(*   broadcast  handle_region_params_update: telling the clients in todo   *)
(*   routing    handle_routing_update: the OUIs left in job                *)
(*   stop       handle_oui_routing_update: stopping the clients in todo    *)
(*   backoff    the select! of prepare_gateway_change                      *)
(*   returned, failed   run returned Ok, Err                               *)
(***************************************************************************)
EXTENDS Messages

CONSTANTS
  Ouis, Uris,         \* what router keys are made of
  DefaultRouters,     \* settings.routers: a set of uris
  SeedGateways,       \* settings.gateways
  MaxHeight,          \* bound: heights of streamed updates
  RoutingAt,          \* the routings the chain holds at each height
  RegionAt,           \* this gateway's region on the chain at each height
  InitialRegion,      \* settings.region
  MaxRetry,           \* bound: gateway_retry is counted up to it
  DispatcherSlots,    \* capacity of the dispatcher's channel (20)
  ClientSlots,        \* capacity of a client's channel (10)
  GatewaySlots        \* capacity of the gateway's channel (10)

RouterKeys == [oui : Ouis, uri : Uris]
Routing == [oui : Ouis, uris : SUBSET Uris, accepts : SUBSET Packets]
Streams == {"Routing", "RegionParams"}

ASSUME DispatcherAssumption ==
  /\ DefaultRouters \subseteq Uris
  /\ MaxHeight \in Nat
  /\ RoutingAt \in [1..MaxHeight -> Seq(Routing)]
  /\ RegionAt \in [1..MaxHeight -> Regions]
  /\ InitialRegion \in Regions
  /\ MaxRetry \in Nat
  /\ DispatcherSlots \in Nat \ {0}
  /\ ClientSlots \in Nat \ {0}
  /\ GatewaySlots \in Nat \ {0}
  /\ None \notin Routing

VARIABLES
  dispatcher_pc,        \* the await the dispatcher is in
  region,               \* Dispatcher.region
  routing_height,
  region_height,
  gateway_retry,        \* sets the length of the wait in backoff, up to a maximum
  routers,              \* RouterEntry.routing of each key, None where no entry
  streams,              \* the StreamMap's open streams, {} outside a session
  todo,                 \* the clients still to be sent to
  job,                  \* the packet, request or routing update being handled
  dispatcher_messages,  \* the dispatcher's channel
  requests,             \* what the local API's callers have been answered
  running,              \* the clients whose task has not returned
  client_messages,      \* their channels
  client_region,        \* RouterClient.region
  gateway_messages,     \* the gateway's channel
  gateway_region,       \* Gateway.region_params
  shutdown              \* the shutdown trigger has fired

session_vars == <<routing_height, region_height, gateway_retry, streams>>
work_vars == <<todo, job>>
client_vars == <<running, client_messages, client_region>>
gateway_vars == <<gateway_messages, gateway_region>>
vars == <<dispatcher_pc, region, session_vars, routers, work_vars,
          dispatcher_messages, requests, client_vars, gateway_vars, shutdown>>

Entries == {k \in RouterKeys : routers[k] # None}

(***************************************************************************)
(* run                                                                     *)
(***************************************************************************)
\* The top of run's loop: the shutdown check and GatewayService::select_seed.
TopOfLoop ==
  IF shutdown THEN "returned" ELSE IF SeedGateways = {} THEN "failed" ELSE "connect"

\* Leaving a handler: back to run_with_gateway, or to the top of run's loop
\* when the message was taken while waiting for the next gateway.
Continue == IF streams # {} THEN "serve" ELSE TopOfLoop

\* prepare_gateway_change, up to its select!.
prepare_gateway_change ==
  /\ streams' = {}
  /\ IF shutdown
       THEN /\ dispatcher_pc' = "returned"
            /\ UNCHANGED <<routing_height, region_height, gateway_retry>>
       ELSE /\ dispatcher_pc' = "backoff"
            /\ routing_height' = 0
            /\ region_height' = 0
            /\ gateway_retry' = IF gateway_retry < MaxRetry
                                  THEN gateway_retry + 1 ELSE gateway_retry

\* Defect: run_with_gateway does not listen for shutdown.
Shutdown_not_while_serving ==
  /\ shutdown
  /\ dispatcher_pc \in {"connect", "backoff"}
  /\ dispatcher_pc' = "returned"
  /\ UNCHANGED <<region, session_vars, routers, work_vars, dispatcher_messages,
                 requests, client_vars, gateway_vars, shutdown>>

\* The shutdown arms of the three select!s.
Shutdown ==
  /\ shutdown
  /\ dispatcher_pc \in {"connect", "serve", "backoff"}
  /\ dispatcher_pc' = "returned"
  /\ streams' = {}
  /\ UNCHANGED <<region, routing_height, region_height, gateway_retry, routers,
                 work_vars, dispatcher_messages, requests, client_vars,
                 gateway_vars, shutdown>>

setup_gateway_streams ==
  /\ dispatcher_pc = "connect"
  /\ dispatcher_pc' = "announce"
  /\ streams' = Streams
  /\ UNCHANGED <<region, routing_height, region_height, gateway_retry, routers,
                 work_vars, dispatcher_messages, requests, client_vars,
                 gateway_vars, shutdown>>

\* Defect: an error while connecting ends the dispatcher.
ConnectError_returns ==
  /\ dispatcher_pc = "connect"
  /\ dispatcher_pc' = "returned"
  /\ UNCHANGED <<region, session_vars, routers, work_vars, dispatcher_messages,
                 requests, client_vars, gateway_vars, shutdown>>

ConnectError ==
  /\ dispatcher_pc = "connect"
  /\ prepare_gateway_change
  /\ UNCHANGED <<region, routers, work_vars, dispatcher_messages, requests,
                 client_vars, gateway_vars, shutdown>>

\* Defect: the channel is unbounded.
TellGateway_unbounded ==
  gateway_messages' = Append(gateway_messages, RegionParamsChanged(region))

\* Sending region parameters to the gateway waits for a slot in its channel.
TellGateway ==
  /\ Len(gateway_messages) < GatewaySlots
  /\ gateway_messages' = Append(gateway_messages, RegionParamsChanged(region))

Announce ==
  /\ dispatcher_pc = "announce"
  /\ TellGateway
  /\ dispatcher_pc' = "serve"
  /\ UNCHANGED <<region, session_vars, routers, work_vars, dispatcher_messages,
                 requests, client_vars, gateway_region, shutdown>>

BackoffElapsed ==
  /\ dispatcher_pc = "backoff"
  /\ dispatcher_pc' = TopOfLoop
  /\ UNCHANGED <<region, session_vars, routers, work_vars, dispatcher_messages,
                 requests, client_vars, gateway_vars, shutdown>>

(***************************************************************************)
(* run_with_gateway.  A stream error or the end of the last open stream    *)
(* ends the session; StreamMap drops a stream that ends before the other.  *)
(***************************************************************************)
StreamError ==
  /\ dispatcher_pc = "serve"
  /\ prepare_gateway_change
  /\ UNCHANGED <<region, routers, work_vars, dispatcher_messages, requests,
                 client_vars, gateway_vars, shutdown>>

StreamEnd(s) ==
  /\ dispatcher_pc = "serve"
  /\ s \in streams
  /\ IF streams = {s}
       THEN prepare_gateway_change
       ELSE /\ streams' = streams \ {s}
            /\ UNCHANGED <<dispatcher_pc, routing_height, region_height, gateway_retry>>
  /\ UNCHANGED <<region, routers, work_vars, dispatcher_messages, requests,
                 client_vars, gateway_vars, shutdown>>

CheckTick ==
  /\ dispatcher_pc = "serve"
  /\ dispatcher_pc' = "check"
  /\ UNCHANGED <<region, session_vars, routers, work_vars, dispatcher_messages,
                 requests, client_vars, gateway_vars, shutdown>>

\* The gateway's last block is at most GATEWAY_MAX_BLOCK_AGE old.
CheckOk ==
  /\ dispatcher_pc = "check"
  /\ dispatcher_pc' = "serve"
  /\ gateway_retry' = 0
  /\ UNCHANGED <<region, routing_height, region_height, streams, routers, work_vars,
                 dispatcher_messages, requests, client_vars, gateway_vars, shutdown>>

CheckError ==
  /\ dispatcher_pc = "check"
  /\ prepare_gateway_change
  /\ UNCHANGED <<region, routers, work_vars, dispatcher_messages, requests,
                 client_vars, gateway_vars, shutdown>>

(***************************************************************************)
(* Sends to clients: handle_uplink, the broadcast of a region change and   *)
(* the stops of removed routers all await one client after another, in the *)
(* order of the HashMap.  A send waits for a slot, and fails at once when  *)
(* the client's task has returned; the failure is ignored.                 *)
(***************************************************************************)
Outgoing ==
  CASE dispatcher_pc = "uplink" -> Uplink(job)
    [] dispatcher_pc = "broadcast" -> RegionChanged(region)
    [] dispatcher_pc = "stop" -> Stop

AfterSends == IF dispatcher_pc = "stop" THEN "routing" ELSE Continue

SendNext(k) ==
  /\ dispatcher_pc \in {"uplink", "broadcast", "stop"}
  /\ k \in todo
  /\ \/ /\ k \in running
        /\ Len(client_messages[k]) < ClientSlots
        /\ client_messages' = [client_messages EXCEPT ![k] = Append(@, Outgoing)]
     \/ /\ k \notin running
        /\ UNCHANGED client_messages
  /\ todo' = todo \ {k}
  /\ IF todo = {k}
       THEN /\ dispatcher_pc' = AfterSends
            /\ job' = IF dispatcher_pc = "uplink" THEN None ELSE job
       ELSE UNCHANGED <<dispatcher_pc, job>>
  /\ UNCHANGED <<region, session_vars, routers, dispatcher_messages, requests,
                 running, client_region, gateway_vars, shutdown>>

(***************************************************************************)
(* handle_message, from run_with_gateway or, with no gateway, from         *)
(* prepare_gateway_change                                                  *)
(***************************************************************************)
\* The clients handle_uplink sends packet p to.
Targets(p) ==
  LET matching == {k \in Entries : p \in routers[k].accepts}
  IN IF matching # {} THEN matching ELSE {k \in Entries : k.uri \in DefaultRouters}

\* Defect: no messages are taken while waiting for the next gateway.
Recv_only_serving(type) ==
  /\ dispatcher_pc = "serve"
  /\ dispatcher_messages # <<>>
  /\ Head(dispatcher_messages).type = type
  /\ dispatcher_messages' = Tail(dispatcher_messages)

Recv(type) ==
  /\ dispatcher_pc \in {"serve", "backoff"}
  /\ dispatcher_messages # <<>>
  /\ Head(dispatcher_messages).type = type
  /\ dispatcher_messages' = Tail(dispatcher_messages)

handle_uplink ==
  /\ Recv("Uplink")
  /\ LET p == Head(dispatcher_messages).packet
     IN /\ todo' = Targets(p)
        /\ job' = IF Targets(p) = {} THEN None ELSE p
        /\ dispatcher_pc' = IF Targets(p) = {} THEN Continue ELSE "uplink"
  /\ UNCHANGED <<region, session_vars, routers, requests, client_vars,
                 gateway_vars, shutdown>>

\* Defect: with no gateway the request is dropped instead of refused.
HandleGatewayRequest_dropped ==
  /\ Recv("GatewayRequest")
  /\ dispatcher_pc' = IF dispatcher_pc = "serve" THEN "ask" ELSE Continue
  /\ job' = IF dispatcher_pc = "serve" THEN Head(dispatcher_messages).request ELSE job
  /\ UNCHANGED <<region, session_vars, routers, todo, requests, client_vars,
                 gateway_vars, shutdown>>

HandleGatewayRequest ==
  /\ Recv("GatewayRequest")
  /\ LET q == Head(dispatcher_messages).request
     IN IF dispatcher_pc = "serve"
          THEN /\ dispatcher_pc' = "ask"
               /\ job' = q
               /\ UNCHANGED requests
          ELSE /\ dispatcher_pc' = Continue
               /\ requests' = [requests EXCEPT ![q] = "no_service"]
               /\ UNCHANGED job
  /\ UNCHANGED <<region, session_vars, routers, todo, client_vars,
                 gateway_vars, shutdown>>

\* The RPC ended, with a value or an error; either is the caller's answer.
Reply ==
  /\ dispatcher_pc = "ask"
  /\ dispatcher_pc' = "serve"
  /\ requests' = [requests EXCEPT ![job] = "answered"]
  /\ job' = None
  /\ UNCHANGED <<region, session_vars, routers, todo, dispatcher_messages,
                 client_vars, gateway_vars, shutdown>>

HandleRegionRequest ==
  /\ Recv("Region")
  /\ dispatcher_pc' = Continue
  /\ requests' = [requests EXCEPT ![Head(dispatcher_messages).request] = "answered"]
  /\ UNCHANGED <<region, session_vars, routers, work_vars, client_vars,
                 gateway_vars, shutdown>>

(***************************************************************************)
(* handle_region_params_update, for a response that decodes.  A response   *)
(* that does not, or at a height not above region_height, changes nothing. *)
(***************************************************************************)
handle_region_params_update(height) ==
  /\ dispatcher_pc = "serve"
  /\ "RegionParams" \in streams
  /\ height > region_height
  /\ region_height' = height
  /\ region' = RegionAt[height]
  /\ todo' = Entries
  /\ dispatcher_pc' = "region"
  /\ UNCHANGED <<routing_height, gateway_retry, streams, routers, job,
                 dispatcher_messages, requests, client_vars, gateway_vars, shutdown>>

TellRegion ==
  /\ dispatcher_pc = "region"
  /\ TellGateway
  /\ dispatcher_pc' = IF todo = {} THEN "serve" ELSE "broadcast"
  /\ UNCHANGED <<region, session_vars, routers, work_vars, dispatcher_messages,
                 requests, client_vars, gateway_region, shutdown>>

(***************************************************************************)
(* handle_routing_update: one handle_oui_routing_update after another, then*)
(* the new height.                                                         *)
(***************************************************************************)
\* Defect: the update's height is not compared with routing_height.
handle_routing_update_any_height(height) ==
  /\ dispatcher_pc = "serve"
  /\ "Routing" \in streams
  /\ job' = [height |-> height, routings |-> RoutingAt[height]]
  /\ dispatcher_pc' = "routing"
  /\ UNCHANGED <<region, session_vars, routers, todo, dispatcher_messages, requests,
                 client_vars, gateway_vars, shutdown>>

handle_routing_update(height) ==
  /\ dispatcher_pc = "serve"
  /\ "Routing" \in streams
  /\ height > routing_height
  /\ job' = [height |-> height, routings |-> RoutingAt[height]]
  /\ dispatcher_pc' = "routing"
  /\ UNCHANGED <<region, session_vars, routers, todo, dispatcher_messages, requests,
                 client_vars, gateway_vars, shutdown>>

\* Defect: entries are looked up by uri alone.
WithRouting_any_oui(r) ==
  [k \in RouterKeys |-> IF k.uri \in r.uris /\ (k.oui = r.oui \/ routers[k] # None)
                          THEN r ELSE routers[k]]

\* Defect: the routing of an entry that exists already is not replaced.
WithRouting_keep_existing(r) ==
  [k \in RouterKeys |-> IF k.oui = r.oui /\ k.uri \in r.uris /\ routers[k] = None
                          THEN r ELSE routers[k]]

\* The routing table with every uri of the update inserted or updated.
WithRouting(r) ==
  [k \in RouterKeys |-> IF k.oui = r.oui /\ k.uri \in r.uris THEN r ELSE routers[k]]

\* The entries of table that the retain of handle_oui_routing_update drops.
Removable(table, r) ==
  {k \in RouterKeys : table[k] # None /\ k.oui = r.oui /\ k.uri \notin table[k].uris}

\* Defect: clients start with settings.region instead of the current region.
start_routers_initial_region(started) ==
  /\ running' = running \cup started
  /\ client_region' = [k \in RouterKeys |->
                         IF k \in started THEN InitialRegion ELSE client_region[k]]
  /\ UNCHANGED client_messages

\* Defect: the client's run is not spawned.
start_routers_not_spawned(started) ==
  /\ client_region' = [k \in RouterKeys |->
                         IF k \in started THEN region ELSE client_region[k]]
  /\ UNCHANGED <<running, client_messages>>

\* start_router for each uri without an entry: a client with the dispatcher's
\* region and an empty channel.
start_routers(started) ==
  /\ running' = running \cup started
  /\ client_region' = [k \in RouterKeys |->
                         IF k \in started THEN region ELSE client_region[k]]
  /\ client_messages' = [k \in RouterKeys |->
                           IF k \in started THEN <<>> ELSE client_messages[k]]

handle_oui_routing_update ==
  /\ dispatcher_pc = "routing"
  /\ job.routings # <<>>
  /\ LET r == Head(job.routings)
         table == WithRouting(r)
         removables == Removable(table, r)
     IN /\ routers' = [k \in RouterKeys |-> IF k \in removables THEN None ELSE table[k]]
        /\ start_routers({k \in RouterKeys : routers[k] = None /\ table[k] # None})
        /\ todo' = removables
        /\ dispatcher_pc' = IF removables = {} THEN "routing" ELSE "stop"
  /\ job' = [job EXCEPT !.routings = Tail(@)]
  /\ UNCHANGED <<region, session_vars, dispatcher_messages, requests,
                 gateway_vars, shutdown>>

FinishRoutingUpdate ==
  /\ dispatcher_pc = "routing"
  /\ job.routings = <<>>
  /\ routing_height' = job.height
  /\ job' = None
  /\ dispatcher_pc' = "serve"
  /\ UNCHANGED <<region, region_height, gateway_retry, streams, routers, todo,
                 dispatcher_messages, requests, client_vars, gateway_vars, shutdown>>

Step ==
  \/ Shutdown
  \/ setup_gateway_streams
  \/ ConnectError
  \/ Announce
  \/ BackoffElapsed
  \/ StreamError
  \/ \E s \in Streams : StreamEnd(s)
  \/ CheckTick
  \/ CheckOk
  \/ CheckError
  \/ \E k \in RouterKeys : SendNext(k)
  \/ handle_uplink
  \/ HandleGatewayRequest
  \/ Reply
  \/ HandleRegionRequest
  \/ \E h \in 1..MaxHeight : handle_region_params_update(h)
  \/ TellRegion
  \/ \E h \in 1..MaxHeight : handle_routing_update(h)
  \/ handle_oui_routing_update
  \/ FinishRoutingUpdate

(***************************************************************************)
(* The tasks around it: the gateway pushes uplinks and takes its messages, *)
(* which others send to as well (Downlink stands for all they send),       *)
(* callers of the local API ask, clients take their messages and return on *)
(* Stop or after the shutdown trigger, which fires once.                   *)
(***************************************************************************)
Enqueue(m) ==
  /\ Len(dispatcher_messages) < DispatcherSlots
  /\ dispatcher_messages' = Append(dispatcher_messages, m)

GatewayUplink(p) ==
  /\ Enqueue(Uplink(p))
  /\ UNCHANGED <<dispatcher_pc, region, session_vars, routers, work_vars, requests,
                 client_vars, gateway_vars, shutdown>>

Ask(q) ==
  /\ requests[q] # "queued"
  /\ Enqueue(GatewayRequest(q)) \/ Enqueue(RegionRequest(q))
  /\ requests' = [requests EXCEPT ![q] = "queued"]
  /\ UNCHANGED <<dispatcher_pc, region, session_vars, routers, work_vars,
                 client_vars, gateway_vars, shutdown>>

ClientReturn(k) ==
  /\ running' = running \ {k}
  /\ client_messages' = [client_messages EXCEPT ![k] = <<>>]
  /\ UNCHANGED client_region

ClientRecv(k) ==
  /\ k \in running
  /\ client_messages[k] # <<>>
  /\ LET m == Head(client_messages[k])
     IN IF m = Stop
          THEN ClientReturn(k)
          ELSE /\ client_messages' = [client_messages EXCEPT ![k] = Tail(@)]
               /\ client_region' = [client_region EXCEPT
                    ![k] = IF m.type = "RegionChanged" THEN m.region ELSE @]
               /\ UNCHANGED running
  /\ UNCHANGED <<dispatcher_pc, region, session_vars, routers, work_vars,
                 dispatcher_messages, requests, gateway_vars, shutdown>>

ClientShutdown(k) ==
  /\ shutdown
  /\ k \in running
  /\ ClientReturn(k)
  /\ UNCHANGED <<dispatcher_pc, region, session_vars, routers, work_vars,
                 dispatcher_messages, requests, gateway_vars, shutdown>>

OthersToGateway ==
  /\ Len(gateway_messages) < GatewaySlots
  /\ gateway_messages' = Append(gateway_messages, Downlink)
  /\ UNCHANGED <<dispatcher_pc, region, session_vars, routers, work_vars,
                 dispatcher_messages, requests, client_vars, gateway_region, shutdown>>

GatewayRecv ==
  /\ gateway_messages # <<>>
  /\ gateway_messages' = Tail(gateway_messages)
  /\ LET m == Head(gateway_messages)
     IN gateway_region' = IF m.type = "RegionParamsChanged" THEN m.region ELSE gateway_region
  /\ UNCHANGED <<dispatcher_pc, region, session_vars, routers, work_vars,
                 dispatcher_messages, requests, client_vars, shutdown>>

Trigger ==
  /\ ~shutdown
  /\ shutdown' = TRUE
  /\ UNCHANGED <<dispatcher_pc, region, session_vars, routers, work_vars,
                 dispatcher_messages, requests, client_vars, gateway_vars>>

Environment ==
  \/ \E p \in Packets : GatewayUplink(p)
  \/ \E q \in Requests : Ask(q)
  \/ \E k \in RouterKeys : ClientRecv(k) \/ ClientShutdown(k)
  \/ OthersToGateway
  \/ GatewayRecv
  \/ Trigger

Init ==
  /\ shutdown = FALSE
  /\ dispatcher_pc = TopOfLoop
  /\ region = InitialRegion
  /\ routing_height = 0
  /\ region_height = 0
  /\ gateway_retry = 0
  /\ routers = [k \in RouterKeys |-> None]
  /\ streams = {}
  /\ todo = {}
  /\ job = None
  /\ dispatcher_messages = <<>>
  /\ requests = [q \in Requests |-> "idle"]
  /\ running = {}
  /\ client_messages = [k \in RouterKeys |-> <<>>]
  /\ client_region = [k \in RouterKeys |-> None]
  /\ gateway_messages = <<>>
  /\ gateway_region = None

Next == Step \/ Environment

Spec == Init /\ [][Next]_vars

(***************************************************************************)
(* Fairness.  RPCs carry a timeout, so connecting, checking and asking end.*)
(* select! polls its arms from a random start, so the message and shutdown *)
(* arms are taken when they are ready again and again; a stream is under   *)
(* no obligation to say anything.  A bounded channel serves its waiting    *)
(* senders in turn.  Of the receivers nothing is assumed: the gateway and  *)
(* the clients may be waiting themselves, for the dispatcher even          *)
(* (CircularWait in Server), and after shutdown they return.               *)
(***************************************************************************)
DispatcherFairness ==
  /\ SF_vars(Shutdown)
  /\ WF_vars(setup_gateway_streams \/ ConnectError)
  /\ WF_vars(BackoffElapsed)
  /\ WF_vars(CheckOk \/ CheckError)
  /\ WF_vars(Reply)
  /\ WF_vars(handle_oui_routing_update \/ FinishRoutingUpdate)
  /\ SF_vars(Announce \/ TellRegion)
  /\ SF_vars(\E k \in RouterKeys : SendNext(k))
  /\ SF_vars(handle_uplink \/ HandleGatewayRequest \/ HandleRegionRequest)

FairSpec == Spec /\ DispatcherFairness
-----------------------------------------------------------------------------
(***************************************************************************)
(* Properties                                                              *)
(***************************************************************************)
RoutingUpdate == [height : 1..MaxHeight, routings : Seq(Routing)]

\* Every variable has its type, no channel is over its capacity, job holds what
\* the await the dispatcher is in works on, and a session is open in every
\* await that needs a gateway.
TypeOK ==
  /\ dispatcher_pc \in {"connect", "announce", "serve", "check", "ask", "uplink",
                        "region", "broadcast", "routing", "stop", "backoff",
                        "returned", "failed"}
  /\ region \in Regions
  /\ routing_height \in 0..MaxHeight
  /\ region_height \in 0..MaxHeight
  /\ gateway_retry \in 0..MaxRetry
  /\ routers \in [RouterKeys -> Routing \cup {None}]
  /\ streams \in SUBSET Streams
  /\ todo \in SUBSET RouterKeys
  /\ dispatcher_pc = "uplink" => job \in Packets
  /\ dispatcher_pc = "ask" => job \in Requests
  /\ dispatcher_pc \in {"routing", "stop"} => job \in RoutingUpdate
  /\ dispatcher_messages \in Seq(DispatcherMessage)
  /\ Len(dispatcher_messages) <= DispatcherSlots
  /\ requests \in [Requests -> {"idle", "queued", "answered", "no_service"}]
  /\ running \in SUBSET RouterKeys
  /\ client_messages \in [RouterKeys -> Seq(ClientMessage)]
  /\ \A k \in RouterKeys : Len(client_messages[k]) <= ClientSlots
  /\ client_region \in [RouterKeys -> Regions \cup {None}]
  /\ gateway_messages \in Seq(GatewayMessage)
  /\ Len(gateway_messages) <= GatewaySlots
  /\ gateway_region \in Regions \cup {None}
  /\ shutdown \in BOOLEAN
  /\ dispatcher_pc \in {"announce", "serve", "check", "ask", "region", "broadcast",
                        "routing", "stop"} => streams # {}
  /\ dispatcher_pc \in {"connect", "backoff", "returned", "failed"} => streams = {}

\* An entry of the routing table names its own key: the oui is the routing's
\* and the uri is one the routing lists.  (So contains_uri on the entry's own
\* routing, which the retain of handle_oui_routing_update asks, is always true.)
KeyInOwnRouting ==
  \A k \in Entries : k.oui = routers[k].oui /\ k.uri \in routers[k].uris

\* k has been sent Stop or is about to be.
Stopping(k) ==
  \/ dispatcher_pc = "stop" /\ k \in todo
  \/ \E i \in 1..Len(client_messages[k]) : client_messages[k][i] = Stop

\* Until shutdown the clients that run, and have not been told to stop, are
\* those of the routing table: no uplink goes to a channel whose receiver is
\* gone, and no client is left running that the table has forgotten.
EntriesRunning ==
  ~shutdown => Entries = {k \in running : ~Stopping(k)}

Telling(k) == dispatcher_pc \in {"region", "broadcast"} /\ k \in todo

\* Every running client, and the gateway once it has been told anything, is at
\* the dispatcher's region or will be when it has drained its channel, however
\* spawns, region updates and reconnections interleave; the only exceptions are
\* the receivers handle_region_params_update is still about to tell.
RegionInSync ==
  /\ \A k \in Entries \cap running :
       Telling(k) \/ WillKnow(client_messages[k], "RegionChanged", client_region[k], region)
  /\ \/ dispatcher_pc = "region"
     \/ /\ gateway_region = None
        /\ \A i \in 1..Len(gateway_messages) : gateway_messages[i] = Downlink
     \/ WillKnow(gateway_messages, "RegionParamsChanged", gateway_region, region)

\* A caller of the local API waits only while its message is queued or being
\* handled: no path of handle_message drops the response sender unanswered.
NoRequestLost ==
  \A q \in Requests : requests[q] = "queued" =>
    \/ \E i \in 1..Len(dispatcher_messages) :
         dispatcher_messages[i] \in {GatewayRequest(q), RegionRequest(q)}
    \/ dispatcher_pc = "ask" /\ job = q

RoutingsAt(height) == {RoutingAt[height][i] : i \in 1..Len(RoutingAt[height])}

\* Once an update is in place (routing_height says which), every uri it lists
\* has an entry carrying exactly that update's routing: nothing an older or a
\* repeated update brought is left in its place.
RoutingAtHeight ==
  routing_height > 0 /\ dispatcher_pc \notin {"routing", "stop"} =>
    \A r \in RoutingsAt(routing_height) : \A u \in r.uris :
      routers[[oui |-> r.oui, uri |-> u]] = r

\* What handle_oui_routing_update says it does: "Remove any routers that are
\* not in the new oui uri list".
StaleRoutersRemoved ==
  routing_height > 0 /\ dispatcher_pc \notin {"routing", "stop"} =>
    \A r \in RoutingsAt(routing_height) : \A k \in Entries :
      k.oui = r.oui => k.uri \in r.uris

\* Within a session heights only grow, so a repeated or late update is not
\* applied over a newer one; only prepare_gateway_change resets them.
HeightsAdvance ==
  [][dispatcher_pc' # "backoff" =>
       routing_height' >= routing_height /\ region_height' >= region_height]_vars

\* The dispatcher is waiting for a slot in the gateway's channel or in
\* a client's; none of those waits is in a select! with shutdown.
BlockedOnSend ==
  \/ dispatcher_pc \in {"announce", "region"} /\ Len(gateway_messages) = GatewaySlots
  \/ /\ dispatcher_pc \in {"uplink", "broadcast", "stop"}
     /\ \E k \in todo \cap running : Len(client_messages[k]) = ClientSlots

\* A request is answered (with no_service if need be) before shutdown, whatever
\* the streams, the checks and the reconnections do, unless a receiver never
\* again takes a message and the dispatcher is left waiting to send it one.
RequestAnswered ==
  \A q \in Requests :
    requests[q] = "queued" ~> (requests[q] # "queued" \/ shutdown \/ []BlockedOnSend)

\* The dispatcher is what try_join! and the local API expect of it: it returns
\* only after the trigger, and waits only for the gateway and the clients.
AsTasks == INSTANCE Tasks WITH status <-
  [beaconer |-> "running",
   gateway |-> "running",
   dispatcher |-> CASE dispatcher_pc \in {"announce", "region"} -> "gateway"
                    [] dispatcher_pc \in {"uplink", "broadcast", "stop"} -> "client"
                    [] dispatcher_pc \in {"returned", "failed"} -> "returned"
                    [] OTHER -> "running"]

RefinesTasks == AsTasks!Spec

\* After the trigger the dispatcher returns, or ends up blocked for good on a
\* full channel: there is no third possibility.
ShutdownSettles ==
  <>[](shutdown => dispatcher_pc = "returned" \/ BlockedOnSend)
=============================================================================
