---------------------------- MODULE RouterClient ----------------------------
(***************************************************************************)
(* The router clients (src/router/client.rs) and their packet stores       *)
(* (src/router/store.rs): one spawned task per router the dispatcher knows.*)
(* A client takes one message at a time in its select loop.  An uplink is  *)
(* put in the store and the store is then emptied: each packet is sent to  *)
(* the router (an RPC that ends in an answer, an error or a timeout) and a *)
(* downlink in the answer is pushed to the gateway's bounded channel.      *)
(*                                                                         *)
(* The spawned tasks share nothing but the channels, so a client is in one *)
(* of the awaits of its code:                                              *)
(*   absent    not spawned yet                                             *)
(*   select    the select! of run                                          *)
(*   route     RouterService::route in send_packet                         *)
(*   downlink  gateway::MessageSender::downlink in handle_downlink         *)
(*   stopped   run returned                                                *)
(***************************************************************************)
EXTENDS Messages

CONSTANTS
  Clients,          \* the router clients that may be spawned
  MaxPackets,       \* settings.cache.max_packets
  ClientSlots,      \* capacity of a client's channel (10 in start_router)
  GatewaySlots      \* capacity of the gateway's channel (10 in server::run)

ASSUME ClientAssumption ==
  /\ MaxPackets \in Nat
  /\ ClientSlots \in Nat \ {0}
  /\ GatewaySlots \in Nat \ {0}

VARIABLES
  client_pc,          \* the await each client is in
  client_messages,    \* each client's channel
  client_region,      \* RouterClient.region
  waiting_packets,    \* RouterStore.waiting_packets
  sending,            \* the packet popped from the store, until it is routed
  gateway_messages,   \* the gateway's channel
  shutdown            \* the shutdown trigger has fired

client_vars ==
  <<client_pc, client_messages, client_region, waiting_packets, sending>>
vars == <<client_vars, gateway_messages, shutdown>>

Alive(c) == client_pc[c] \in {"select", "route", "downlink"}

(***************************************************************************)
(* RouterStore                                                             *)
(***************************************************************************)
\* Defect: off by one, the store never holds MaxPackets packets.
store_waiting_packet_off_by_one(waiting, p) ==
  LET pushed == Append(waiting, p)
  IN IF Len(pushed) >= MaxPackets THEN Tail(pushed) ELSE pushed

store_waiting_packet(waiting, p) ==
  LET pushed == Append(waiting, p)
  IN IF Len(pushed) > MaxPackets THEN Tail(pushed) ELSE pushed

\* Packets arrive in the order they were received, so the ones older than
\* STORE_GC_INTERVAL are the first n, for some n.
gc_waiting_packets(waiting, n) == SubSeq(waiting, n + 1, Len(waiting))

(***************************************************************************)
(* One turn of the loop of send_waiting_packets on the store's contents:   *)
(* pop the oldest packet and send it, or leave handle_uplink.              *)
(***************************************************************************)
send_waiting_packets(c, waiting) ==
  /\ waiting_packets' = [waiting_packets EXCEPT
       ![c] = IF waiting = <<>> THEN waiting ELSE Tail(waiting)]
  /\ sending' = [sending EXCEPT
       ![c] = IF waiting = <<>> THEN None ELSE Head(waiting)]
  /\ client_pc' = [client_pc EXCEPT
       ![c] = IF waiting = <<>> THEN "select" ELSE "route"]

(***************************************************************************)
(* The arms of the select! in run                                          *)
(***************************************************************************)
Recv(c, type) ==
  /\ client_pc[c] = "select"
  /\ client_messages[c] # <<>>
  /\ Head(client_messages[c]).type = type
  /\ client_messages' = [client_messages EXCEPT ![c] = Tail(@)]

handle_uplink(c) ==
  /\ Recv(c, "Uplink")
  /\ send_waiting_packets(c,
       store_waiting_packet(waiting_packets[c], Head(client_messages[c]).packet))
  /\ UNCHANGED <<client_region, gateway_messages, shutdown>>

\* Defect: the region is not kept.
HandleRegionChanged_ignored(c) ==
  /\ Recv(c, "RegionChanged")
  /\ UNCHANGED <<client_pc, client_region, waiting_packets, sending, gateway_messages,
                 shutdown>>

HandleRegionChanged(c) ==
  /\ Recv(c, "RegionChanged")
  /\ client_region' = [client_region EXCEPT ![c] = Head(client_messages[c]).region]
  /\ UNCHANGED <<client_pc, waiting_packets, sending, gateway_messages, shutdown>>

\* run returns: the client and the receiving end of its channel are dropped.
Return(c) ==
  /\ client_pc' = [client_pc EXCEPT ![c] = "stopped"]
  /\ client_messages' = [client_messages EXCEPT ![c] = <<>>]
  /\ waiting_packets' = [waiting_packets EXCEPT ![c] = <<>>]
  /\ UNCHANGED <<client_region, sending, gateway_messages, shutdown>>

HandleStop(c) ==
  /\ client_pc[c] = "select"
  /\ client_messages[c] # <<>>
  /\ Head(client_messages[c]) = Stop
  /\ Return(c)

\* Defect: the messages are drained first.
HandleShutdown_drain(c) ==
  /\ client_pc[c] = "select"
  /\ shutdown
  /\ client_messages[c] = <<>>
  /\ Return(c)

HandleShutdown(c) ==
  /\ client_pc[c] = "select"
  /\ shutdown
  /\ Return(c)

StoreGc(c) ==
  /\ client_pc[c] = "select"
  /\ \E n \in 0..Len(waiting_packets[c]) :
       waiting_packets' = [waiting_packets EXCEPT ![c] = gc_waiting_packets(@, n)]
  /\ UNCHANGED <<client_pc, client_messages, client_region, sending,
                 gateway_messages, shutdown>>

(***************************************************************************)
(* The outcomes of RouterService::route.  An error or timeout leaves       *)
(* handle_uplink at once, with whatever is in the store still there; an    *)
(* answer without a downlink (empty, or not a response) continues the      *)
(* loop; a downlink is pushed to the gateway first.                        *)
(***************************************************************************)
\* Defect: a packet that could not be sent goes back to the store.
RouteError_keep(c) ==
  /\ client_pc[c] = "route"
  /\ client_pc' = [client_pc EXCEPT ![c] = "select"]
  /\ sending' = [sending EXCEPT ![c] = None]
  /\ waiting_packets' = [waiting_packets EXCEPT ![c] = <<sending[c]>> \o @]
  /\ UNCHANGED <<client_messages, client_region, gateway_messages, shutdown>>

RouteError(c) ==
  /\ client_pc[c] = "route"
  /\ client_pc' = [client_pc EXCEPT ![c] = "select"]
  /\ sending' = [sending EXCEPT ![c] = None]
  /\ UNCHANGED <<client_messages, client_region, waiting_packets,
                 gateway_messages, shutdown>>

RouteNoDownlink(c) ==
  /\ client_pc[c] = "route"
  /\ send_waiting_packets(c, waiting_packets[c])
  /\ UNCHANGED <<client_messages, client_region, gateway_messages, shutdown>>

RouteDownlink(c) ==
  /\ client_pc[c] = "route"
  /\ client_pc' = [client_pc EXCEPT ![c] = "downlink"]
  /\ sending' = [sending EXCEPT ![c] = None]
  /\ UNCHANGED <<client_messages, client_region, waiting_packets,
                 gateway_messages, shutdown>>

handle_downlink(c) ==
  /\ client_pc[c] = "downlink"
  /\ Len(gateway_messages) < GatewaySlots
  /\ gateway_messages' = Append(gateway_messages, Downlink)
  /\ send_waiting_packets(c, waiting_packets[c])
  /\ UNCHANGED <<client_messages, client_region, shutdown>>

Step(c) ==
  \/ handle_uplink(c)
  \/ HandleRegionChanged(c)
  \/ HandleStop(c)
  \/ HandleShutdown(c)
  \/ StoreGc(c)
  \/ RouteError(c)
  \/ RouteNoDownlink(c)
  \/ RouteDownlink(c)
  \/ handle_downlink(c)

(***************************************************************************)
(* What the dispatcher does to a client: RouterClient::new and spawn, and  *)
(* the sends of client::MessageSender, which wait for a slot.              *)
(***************************************************************************)
Spawned(c, r) ==
  /\ client_pc' = [client_pc EXCEPT ![c] = "select"]
  /\ client_messages' = [client_messages EXCEPT ![c] = <<>>]
  /\ client_region' = [client_region EXCEPT ![c] = r]
  /\ waiting_packets' = [waiting_packets EXCEPT ![c] = <<>>]
  /\ sending' = [sending EXCEPT ![c] = None]

HasSlot(c) == Len(client_messages[c]) < ClientSlots

SendTo(c, m) ==
  client_messages' = [client_messages EXCEPT ![c] = Append(@, m)]

Spawn(c) ==
  /\ client_pc[c] = "absent"
  /\ \E r \in Regions : Spawned(c, r)
  /\ UNCHANGED <<gateway_messages, shutdown>>

Dispatch(c) ==
  /\ Alive(c)
  /\ HasSlot(c)
  /\ \E m \in ClientMessage : SendTo(c, m)
  /\ UNCHANGED <<client_pc, client_region, waiting_packets, sending,
                 gateway_messages, shutdown>>

(***************************************************************************)
(* The gateway takes its messages; the shutdown trigger fires once.        *)
(***************************************************************************)
GatewayRecv ==
  /\ gateway_messages # <<>>
  /\ gateway_messages' = Tail(gateway_messages)
  /\ UNCHANGED <<client_vars, shutdown>>

Trigger ==
  /\ ~shutdown
  /\ shutdown' = TRUE
  /\ UNCHANGED <<client_vars, gateway_messages>>

Init ==
  /\ client_pc = [c \in Clients |-> "absent"]
  /\ client_messages = [c \in Clients |-> <<>>]
  /\ client_region = [c \in Clients |-> None]
  /\ waiting_packets = [c \in Clients |-> <<>>]
  /\ sending = [c \in Clients |-> None]
  /\ gateway_messages = <<>>
  /\ shutdown = FALSE

Next ==
  \/ \E c \in Clients : Step(c) \/ Spawn(c) \/ Dispatch(c)
  \/ GatewayRecv
  \/ Trigger

Spec == Init /\ [][Next]_vars

(***************************************************************************)
(* Fairness.  An RPC ends: the channel is built with RPC_TIMEOUT.  select! *)
(* starts at a random arm each time round, so an arm that is ready over    *)
(* and over is taken eventually: strong fairness for the message and the   *)
(* shutdown arms.  A channel hands its slots to waiting senders in order   *)
(* of arrival: strong fairness for a send.  Of the gateway nothing is      *)
(* assumed: it may wait for the dispatcher, and the dispatcher for a slot  *)
(* in a client's channel (CircularWait in Server), and once its run has    *)
(* returned its channel is left open.                                      *)
(***************************************************************************)
ClientFairness(c) ==
  /\ SF_vars(handle_uplink(c) \/ HandleRegionChanged(c) \/ HandleStop(c))
  /\ WF_vars(RouteError(c) \/ RouteNoDownlink(c) \/ RouteDownlink(c))
  /\ SF_vars(handle_downlink(c))
  /\ SF_vars(HandleShutdown(c))

FairSpec == Spec /\ \A c \in Clients : ClientFairness(c)
-----------------------------------------------------------------------------
(***************************************************************************)
(* Properties                                                              *)
(***************************************************************************)
\* Every variable has its type, every channel is within its capacity, and a
\* packet is held exactly while the client awaits the router's answer to it.
TypeOK ==
  /\ client_pc \in [Clients -> {"absent", "select", "route", "downlink", "stopped"}]
  /\ client_messages \in [Clients -> Seq(ClientMessage)]
  /\ client_region \in [Clients -> Regions \cup {None}]
  /\ waiting_packets \in [Clients -> Seq(Packets)]
  /\ sending \in [Clients -> Packets \cup {None}]
  /\ gateway_messages \in Seq(GatewayMessage)
  /\ shutdown \in BOOLEAN
  /\ \A c \in Clients : Len(client_messages[c]) <= ClientSlots
  /\ Len(gateway_messages) <= GatewaySlots
  /\ \A c \in Clients : (sending[c] # None) <=> (client_pc[c] = "route")

\* The store is empty in every await of a client: a packet is popped in the
\* same turn that stores it, a failed send is not put back (send_packet's error
\* leaves handle_uplink after the pop), so nothing waits in the store for a
\* router to come back and gc_waiting_packets never finds anything to discard.
StoreEmpty ==
  \A c \in Clients : waiting_packets[c] = <<>>

UplinksOf(messages) == Filter(messages, {Uplink(p) : p \in Packets})

PacketsOf(uplinks) == [i \in 1..Len(uplinks) |-> uplinks[i].packet]

QueuedPackets(c) == waiting_packets[c] \o PacketsOf(UplinksOf(client_messages[c]))

\* A client is a bounded FIFO of uplinks (module PacketQueue): packets are
\* offered to the router in the order the dispatcher queued them, each at most
\* once, one at a time, and one is skipped only when the store holds nothing.
Queue == INSTANCE PacketQueue WITH
  Capacity <- ClientSlots,
  Skipping <- MaxPackets = 0,
  open <- [c \in Clients |-> Alive(c)],
  queue <- [c \in Clients |-> QueuedPackets(c)],
  offered <- sending

RefinesPacketQueue == Queue!Spec

\* The client waits for a slot in the gateway's channel.
BlockedOnSend(c) == client_pc[c] = "downlink" /\ Len(gateway_messages) = GatewaySlots

\* A queued uplink is eventually offered to the router, unless the client stops
\* or the program shuts down first, or the gateway never again takes a message
\* and the client is left waiting to hand it a downlink.  A router that fails
\* or times out holds up the queue for one packet, never for good.
UplinkOffered ==
  \A c \in Clients : \A p \in Packets :
    (\E i \in 1..Len(client_messages[c]) : client_messages[c][i] = Uplink(p))
      ~> (sending[c] = p \/ client_pc[c] = "stopped" \/ shutdown \/ []BlockedOnSend(c))

\* After the trigger every client stops, or is left waiting for a slot in the
\* channel of the gateway, whose run has returned without draining it: that
\* wait, in handle_downlink, is not in a select! with shutdown.
ShutdownSettles ==
  <>[](shutdown => \A c \in Clients : Alive(c) => BlockedOnSend(c))
=============================================================================
