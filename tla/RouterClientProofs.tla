------------------------- MODULE RouterClientProofs -------------------------
(***************************************************************************)
(* Type correctness of the router clients, that no packet is ever left in  *)
(* a client's store, and that a client is the queue of packets it promises *)
(* to be, for any number of clients, any channel capacities and any        *)
(* max_packets.                                                            *)
(***************************************************************************)
EXTENDS RouterClient, ListProofs

\* Storing a packet in an empty store and popping the oldest one leaves it empty.
LEMMA StoreThenPop ==
  ASSUME NEW p \in Packets
  PROVE  LET waiting == store_waiting_packet(<<>>, p)
         IN /\ waiting \in Seq(Packets)
            /\ waiting # <<>> => Head(waiting) \in Packets /\ Tail(waiting) = <<>>
<1>1. Append(<<>>, p) = <<p>>
  OBVIOUS
<1>2. Tail(<<p>>) = <<>> /\ Head(<<p>>) = p /\ <<p>> \in Seq(Packets)
  OBVIOUS
<1> QED
  BY <1>1, <1>2 DEF store_waiting_packet

\* The messages of each channel are records of the stated types.
LEMMA MessageTypes ==
  /\ \A m \in ClientMessage : m.type = "Uplink" => m.packet \in Packets
  /\ \A m \in ClientMessage : m.type = "RegionChanged" => m.region \in Regions
  /\ Downlink \in GatewayMessage
BY DEF ClientMessage, GatewayMessage, Uplink, RegionChanged, Stop, Downlink

\* With the store empty, emptying it after an arrival or after an answer leaves
\* it empty and keeps the packet held exactly while it is being routed.
LEMMA SendKeepsStoreEmpty ==
  ASSUME TypeOK, StoreEmpty, NEW c \in Clients, NEW waiting \in Seq(Packets),
         waiting # <<>> => Head(waiting) \in Packets /\ Tail(waiting) = <<>>,
         send_waiting_packets(c, waiting)
  PROVE  /\ client_pc' \in [Clients -> {"absent", "select", "route", "downlink", "stopped"}]
         /\ waiting_packets' \in [Clients -> Seq(Packets)]
         /\ sending' \in [Clients -> Packets \cup {None}]
         /\ \A k \in Clients : (sending'[k] # None) <=> (client_pc'[k] = "route")
         /\ \A k \in Clients : waiting_packets'[k] = <<>>
<1>1. None \notin Packets
  BY NoneAssumption
<1> QED
  BY <1>1 DEF TypeOK, StoreEmpty, send_waiting_packets

IInv == TypeOK /\ StoreEmpty

\* One step of any task keeps the types and the stores empty.
LEMMA IInvStep ==
  ASSUME IInv, [Next]_vars
  PROVE  IInv'
<1> USE DEF IInv
<1>1. TypeOK /\ StoreEmpty
  OBVIOUS
<1>2. ASSUME NEW c \in Clients, handle_uplink(c)
      PROVE  IInv'
  <2>1. Head(client_messages[c]) \in ClientMessage
    BY <1>1, <1>2 DEF handle_uplink, Recv, TypeOK
  <2>2. Head(client_messages[c]).packet \in Packets
    BY <2>1, <1>2, MessageTypes DEF handle_uplink, Recv
  <2> DEFINE stored == store_waiting_packet(waiting_packets[c], Head(client_messages[c]).packet)
  <2>3. /\ stored \in Seq(Packets)
        /\ stored # <<>> => Head(stored) \in Packets /\ Tail(stored) = <<>>
    BY <1>1, <2>2, StoreThenPop DEF StoreEmpty
  <2>4. send_waiting_packets(c, stored)
    BY <1>2 DEF handle_uplink
  <2> HIDE DEF stored
  <2>5. /\ client_pc' \in [Clients -> {"absent", "select", "route", "downlink", "stopped"}]
        /\ waiting_packets' \in [Clients -> Seq(Packets)]
        /\ sending' \in [Clients -> Packets \cup {None}]
        /\ \A k \in Clients : (sending'[k] # None) <=> (client_pc'[k] = "route")
        /\ \A k \in Clients : waiting_packets'[k] = <<>>
    BY <1>1, <2>3, <2>4, SendKeepsStoreEmpty
  <2>6. /\ client_messages' \in [Clients -> Seq(ClientMessage)]
        /\ \A k \in Clients : Len(client_messages'[k]) <= ClientSlots
    BY <1>1, <1>2, ClientAssumption DEF handle_uplink, Recv, TypeOK
  <2> QED
    BY <1>1, <1>2, <2>5, <2>6 DEF handle_uplink, TypeOK, StoreEmpty
<1>3. ASSUME NEW c \in Clients, HandleRegionChanged(c)
      PROVE  IInv'
  <2>1. Head(client_messages[c]).region \in Regions
    BY <1>1, <1>3, MessageTypes DEF HandleRegionChanged, Recv, TypeOK
  <2>2. /\ client_messages' \in [Clients -> Seq(ClientMessage)]
        /\ \A k \in Clients : Len(client_messages'[k]) <= ClientSlots
    BY <1>1, <1>3, ClientAssumption DEF HandleRegionChanged, Recv, TypeOK
  <2> QED
    BY Zenon, <1>1, <1>3, <2>1, <2>2 DEF HandleRegionChanged, TypeOK, StoreEmpty
<1>4. ASSUME NEW c \in Clients, HandleStop(c) \/ HandleShutdown(c)
      PROVE  IInv'
  <2>1. client_pc[c] = "select" /\ Return(c)
    BY <1>4 DEF HandleStop, HandleShutdown
  <2> QED
    BY <1>1, <2>1, ClientAssumption DEF Return, TypeOK, StoreEmpty
<1>5. ASSUME NEW c \in Clients, StoreGc(c)
      PROVE  IInv'
  <2>1. PICK n \in 0..Len(waiting_packets[c]) :
          waiting_packets' = [waiting_packets EXCEPT
                                ![c] = gc_waiting_packets(waiting_packets[c], n)]
    BY Zenon, <1>5 DEF StoreGc
  <2>2. n = 0 /\ waiting_packets[c] = <<>>
    BY <1>1 DEF StoreEmpty
  <2>3. gc_waiting_packets(<<>>, 0) = <<>>
    BY DEF gc_waiting_packets
  <2>4. waiting_packets' = waiting_packets
    BY <1>1, <2>1, <2>2, <2>3 DEF TypeOK
  <2> QED
    BY <1>1, <1>5, <2>4 DEF StoreGc, TypeOK, StoreEmpty
<1>6. ASSUME NEW c \in Clients, RouteError(c) \/ RouteDownlink(c)
      PROVE  IInv'
  <2>1. /\ client_pc' \in [Clients -> {"absent", "select", "route", "downlink", "stopped"}]
        /\ sending' \in [Clients -> Packets \cup {None}]
    BY Zenon, <1>1, <1>6 DEF RouteError, RouteDownlink, TypeOK
  <2>2. \A k \in Clients : (sending'[k] # None) <=> (client_pc'[k] = "route")
    BY Zenon, <1>1, <1>6 DEF RouteError, RouteDownlink, TypeOK
  <2> QED
    BY <1>1, <1>6, <2>1, <2>2 DEF RouteError, RouteDownlink, TypeOK, StoreEmpty
<1>7. ASSUME NEW c \in Clients, RouteNoDownlink(c)
      PROVE  IInv'
  <2>1. waiting_packets[c] = <<>> /\ waiting_packets[c] \in Seq(Packets)
    BY <1>1 DEF StoreEmpty, TypeOK
  <2>2. /\ client_pc' \in [Clients -> {"absent", "select", "route", "downlink", "stopped"}]
        /\ waiting_packets' \in [Clients -> Seq(Packets)]
        /\ sending' \in [Clients -> Packets \cup {None}]
        /\ \A k \in Clients : (sending'[k] # None) <=> (client_pc'[k] = "route")
        /\ \A k \in Clients : waiting_packets'[k] = <<>>
    BY Zenon, <1>1, <1>7, <2>1, SendKeepsStoreEmpty DEF RouteNoDownlink
  <2> QED
    BY <1>1, <1>7, <2>2 DEF RouteNoDownlink, TypeOK, StoreEmpty
<1>8. ASSUME NEW c \in Clients, handle_downlink(c)
      PROVE  IInv'
  <2>1. waiting_packets[c] = <<>> /\ waiting_packets[c] \in Seq(Packets)
    BY <1>1 DEF StoreEmpty, TypeOK
  <2>2. /\ client_pc' \in [Clients -> {"absent", "select", "route", "downlink", "stopped"}]
        /\ waiting_packets' \in [Clients -> Seq(Packets)]
        /\ sending' \in [Clients -> Packets \cup {None}]
        /\ \A k \in Clients : (sending'[k] # None) <=> (client_pc'[k] = "route")
        /\ \A k \in Clients : waiting_packets'[k] = <<>>
    BY Zenon, <1>1, <1>8, <2>1, SendKeepsStoreEmpty DEF handle_downlink
  <2>3. gateway_messages' \in Seq(GatewayMessage) /\ Len(gateway_messages') <= GatewaySlots
    BY <1>1, <1>8, MessageTypes, ClientAssumption DEF handle_downlink, TypeOK
  <2> QED
    BY <1>1, <1>8, <2>2, <2>3 DEF handle_downlink, TypeOK, StoreEmpty
<1>9. ASSUME NEW c \in Clients, Spawn(c)
      PROVE  IInv'
  <2>1. PICK r \in Regions : Spawned(c, r)
    BY <1>9 DEF Spawn
  <2>2. /\ client_pc' \in [Clients -> {"absent", "select", "route", "downlink", "stopped"}]
        /\ client_region' \in [Clients -> Regions \cup {None}]
        /\ sending' \in [Clients -> Packets \cup {None}]
    BY <1>1, <2>1 DEF Spawned, TypeOK
  <2>3. /\ client_messages' \in [Clients -> Seq(ClientMessage)]
        /\ waiting_packets' \in [Clients -> Seq(Packets)]
    BY <1>1, <2>1 DEF Spawned, TypeOK
  <2>4. \A k \in Clients : Len(client_messages'[k]) <= ClientSlots
    BY <1>1, <2>1, ClientAssumption DEF Spawned, TypeOK
  <2>5. \A k \in Clients : (sending'[k] # None) <=> (client_pc'[k] = "route")
    BY <1>1, <2>1 DEF Spawned, TypeOK
  <2>6. StoreEmpty'
    BY <1>1, <2>1 DEF Spawned, TypeOK, StoreEmpty
  <2> QED
    BY <1>1, <1>9, <2>2, <2>3, <2>4, <2>5, <2>6 DEF Spawn, TypeOK
<1>10. ASSUME NEW c \in Clients, Dispatch(c)
       PROVE  IInv'
  <2>1. /\ client_messages' \in [Clients -> Seq(ClientMessage)]
        /\ \A k \in Clients : Len(client_messages'[k]) <= ClientSlots
    BY <1>1, <1>10, ClientAssumption DEF Dispatch, SendTo, HasSlot, TypeOK
  <2> QED
    BY <1>1, <1>10, <2>1 DEF Dispatch, TypeOK, StoreEmpty
<1>11. CASE GatewayRecv
  BY <1>1, <1>11, ClientAssumption DEF GatewayRecv, client_vars, TypeOK, StoreEmpty
<1>12. CASE Trigger
  BY <1>1, <1>12 DEF Trigger, client_vars, TypeOK, StoreEmpty
<1>13. CASE UNCHANGED vars
  BY <1>1, <1>13 DEF vars, client_vars, TypeOK, StoreEmpty
<1> QED
  BY <1>2, <1>3, <1>4, <1>5, <1>6, <1>7, <1>8, <1>9, <1>10, <1>11, <1>12, <1>13
     DEF Next, Step

\* The initial state has the types and empty stores.
LEMMA IInvInit ==
  ASSUME Init PROVE IInv
<1>1. /\ client_messages \in [Clients -> Seq(ClientMessage)]
      /\ waiting_packets \in [Clients -> Seq(Packets)]
      /\ gateway_messages \in Seq(GatewayMessage)
  BY DEF Init
<1>2. /\ \A c \in Clients : Len(client_messages[c]) <= ClientSlots
      /\ Len(gateway_messages) <= GatewaySlots
  BY ClientAssumption DEF Init
<1> QED
  BY Zenon, <1>1, <1>2 DEF Init, IInv, TypeOK, StoreEmpty

\* The router clients are type correct: channels stay within their capacity
\* and a packet is held exactly while send_packet awaits the router.
THEOREM ClientTypeCorrect == Spec => []TypeOK
<1>1. IInv => TypeOK
  BY DEF IInv
<1> QED
  BY <1>1, IInvInit, IInvStep, PTL DEF Spec

\* RouterStore is empty in every await of every client, for any max_packets:
\* handle_uplink pops what it stores in the same turn and never puts it back.
THEOREM StoreAlwaysEmpty == Spec => []StoreEmpty
<1>1. IInv => StoreEmpty
  BY DEF IInv
<1> QED
  BY <1>1, IInvInit, IInvStep, PTL DEF Spec
(***************************************************************************)
(* A client is a queue of packets.                                         *)
(***************************************************************************)
\* Nothing is sent to a client before it is spawned.
NothingSent == \A c \in Clients : client_pc[c] = "absent" => client_messages[c] = <<>>

LEMMA NothingSentStep ==
  ASSUME TypeOK, NothingSent, [Next]_vars
  PROVE  NothingSent'
<1> SUFFICES ASSUME NEW k \in Clients, client_pc'[k] = "absent"
             PROVE  client_messages'[k] = <<>>
  BY DEF NothingSent
<1>1. ASSUME NEW c \in Clients, Step(c)
      PROVE  /\ client_pc[c] # "absent" /\ client_pc'[c] # "absent"
             /\ k # c => client_pc'[k] = client_pc[k] /\ client_messages'[k] = client_messages[k]
  BY <1>1 DEF TypeOK, Step, handle_uplink, HandleRegionChanged, HandleStop, HandleShutdown,
     StoreGc, RouteError, RouteNoDownlink, RouteDownlink, handle_downlink, Recv, Return,
     send_waiting_packets
<1>2. ASSUME NEW c \in Clients, Spawn(c)
      PROVE  /\ client_pc'[c] # "absent"
             /\ k # c => client_pc'[k] = client_pc[k] /\ client_messages'[k] = client_messages[k]
  BY <1>2 DEF TypeOK, Spawn, Spawned
<1>3. ASSUME NEW c \in Clients, Dispatch(c)
      PROVE  /\ client_pc' = client_pc /\ client_pc[c] # "absent"
             /\ k # c => client_messages'[k] = client_messages[k]
  BY <1>3 DEF TypeOK, Dispatch, SendTo, Alive
<1>4. CASE GatewayRecv \/ Trigger \/ UNCHANGED vars
  BY <1>4 DEF GatewayRecv, Trigger, vars, client_vars, NothingSent
<1> QED
  BY <1>1, <1>2, <1>3, <1>4 DEF Next, NothingSent

\* The packets of uplinks are packets, and one more or one less of the ones is
\* one more or one less of the others.
LEMMA PacketsFacts ==
  ASSUME NEW u \in Seq({Uplink(p) : p \in Packets})
  PROVE  /\ PacketsOf(u) \in Seq(Packets) /\ Len(PacketsOf(u)) = Len(u)
         /\ \A i \in 1..Len(u) : PacketsOf(u)[i] = u[i].packet
<1>1. \A i \in 1..Len(u) : u[i].packet \in Packets
  BY DEF Uplink
<1> QED
  BY <1>1 DEF PacketsOf

LEMMA PacketsAppend ==
  ASSUME NEW u \in Seq({Uplink(p) : p \in Packets}), NEW p \in Packets
  PROVE  PacketsOf(Append(u, Uplink(p))) = Append(PacketsOf(u), p)
<1> DEFINE t == Append(u, Uplink(p))
           l == PacketsOf(t)
           r == Append(PacketsOf(u), p)
<1>1. /\ t \in Seq({Uplink(x) : x \in Packets}) /\ Len(t) = Len(u) + 1 /\ Len(u) \in Nat
      /\ \A i \in 1..Len(u) : t[i] = u[i]
      /\ t[Len(u) + 1] = Uplink(p)
  OBVIOUS
<1>2. /\ PacketsOf(u) \in Seq(Packets) /\ Len(PacketsOf(u)) = Len(u)
      /\ \A i \in 1..Len(u) : PacketsOf(u)[i] = u[i].packet
  BY PacketsFacts
<1>3. /\ r \in Seq(Packets) /\ Len(r) = Len(u) + 1
      /\ \A i \in 1..Len(u) : r[i] = u[i].packet
      /\ r[Len(u) + 1] = p
  BY <1>2
<1> HIDE DEF t
<1>4. /\ l \in Seq(Packets) /\ Len(l) = Len(t)
      /\ \A i \in 1..Len(t) : l[i] = t[i].packet
  BY <1>1, PacketsFacts
<1>5. Uplink(p).packet = p
  BY DEF Uplink
<1> HIDE DEF l, r
<1>6. ASSUME NEW i \in 1..Len(l)
      PROVE  l[i] = r[i]
  <2>1. i \in 1..Len(t) /\ (i \in 1..Len(u) \/ i = Len(u) + 1)
    BY <1>1, <1>4
  <2> QED
    BY <1>1, <1>3, <1>4, <1>5, <2>1
<1>7. l = r
  BY <1>1, <1>3, <1>4, <1>6
<1> QED
  BY <1>7 DEF l, r, t

LEMMA PacketsTail ==
  ASSUME NEW u \in Seq({Uplink(p) : p \in Packets}), u # <<>>
  PROVE  /\ PacketsOf(u) # <<>> /\ Head(PacketsOf(u)) = Head(u).packet
         /\ PacketsOf(Tail(u)) = Tail(PacketsOf(u))
<1> DEFINE t == Tail(u)
           l == PacketsOf(t)
           w == PacketsOf(u)
           r == Tail(w)
<1>1. /\ t \in Seq({Uplink(x) : x \in Packets}) /\ Len(u) \in Nat \ {0} /\ Len(t) = Len(u) - 1
      /\ \A i \in 1..Len(t) : t[i] = u[i + 1]
      /\ Head(u) = u[1]
  OBVIOUS
<1>2. w \in Seq(Packets) /\ Len(w) = Len(u) /\ \A i \in 1..Len(u) : w[i] = u[i].packet
  BY PacketsFacts
<1> HIDE DEF t, w
<1>3. l \in Seq(Packets) /\ Len(l) = Len(t) /\ \A i \in 1..Len(t) : l[i] = t[i].packet
  BY <1>1, PacketsFacts
<1>4. w # <<>> /\ Head(w) = w[1]
  BY <1>1, <1>2
<1>5. r \in Seq(Packets) /\ Len(r) = Len(w) - 1 /\ \A i \in 1..Len(r) : r[i] = w[i + 1]
  BY <1>2, <1>4
<1> HIDE DEF l, r
<1>6. ASSUME NEW i \in 1..Len(l)
      PROVE  l[i] = r[i]
  <2>1. i \in 1..Len(t) /\ i \in 1..Len(r) /\ i + 1 \in 1..Len(u)
    BY <1>1, <1>2, <1>3, <1>5
  <2> QED
    BY Zenon, <1>1, <1>2, <1>3, <1>5, <2>1
<1>7. Len(l) = Len(r) /\ 1 \in 1..Len(u)
  BY <1>1, <1>2, <1>3, <1>5
<1>8. l = r
  BY <1>3, <1>5, <1>6, <1>7
<1> QED
  BY <1>1, <1>2, <1>4, <1>7, <1>8 DEF l, r, t, w

Uplinks == {Uplink(p) : p \in Packets}

\* The packets queued in a channel.
Queued(messages) == PacketsOf(UplinksOf(messages))

\* A channel holds no more packets than messages.
LEMMA QueuedFacts ==
  ASSUME NEW s \in Seq(ClientMessage)
  PROVE  /\ UplinksOf(s) \in Seq(Uplinks)
         /\ Queued(s) \in Seq(Packets) /\ Len(Queued(s)) <= Len(s)
<1> DEFINE u == UplinksOf(s)
<1>1. u \in Seq(ClientMessage) /\ Keeps(u, s, Uplinks, Len(s))
  BY FilterKeeps DEF UplinksOf, Uplinks
<1> HIDE DEF u
<1>2. Len(u) <= Len(s) /\ \A j \in 1..Len(u) : u[j] \in Uplinks
  BY Zenon, <1>1 DEF Keeps
<1>3. u \in Seq(Uplinks)
  BY <1>1, <1>2
<1>4. PacketsOf(u) \in Seq(Packets) /\ Len(PacketsOf(u)) = Len(u)
  BY Zenon, <1>3, PacketsFacts DEF Uplinks
<1> QED
  BY <1>2, <1>3, <1>4 DEF Queued, u

LEMMA NothingQueued == Queued(<<>>) = <<>>
<1>1. <<>> \in Seq(ClientMessage) /\ Len(<<>>) = 0
  OBVIOUS
<1>2. Queued(<<>>) \in Seq(Packets) /\ Len(Queued(<<>>)) <= 0
  BY Zenon, <1>1, QueuedFacts
<1> QED
  BY <1>2

\* Which messages are uplinks.
LEMMA UplinkType ==
  ASSUME NEW m \in ClientMessage
  PROVE  /\ m \in Uplinks <=> m.type = "Uplink"
         /\ m.type = "Uplink" => m.packet \in Packets /\ m = Uplink(m.packet)
BY DEF ClientMessage, Uplinks, Uplink, RegionChanged, Stop

\* An uplink sent is a packet queued; another message is none.
LEMMA QueuedAppend ==
  ASSUME NEW s \in Seq(ClientMessage), NEW m \in ClientMessage
  PROVE  /\ m.type = "Uplink" => Queued(Append(s, m)) = Append(Queued(s), m.packet)
         /\ m.type # "Uplink" => Queued(Append(s, m)) = Queued(s)
<1>1. UplinksOf(Append(s, m)) = IF m \in Uplinks THEN Append(UplinksOf(s), m) ELSE UplinksOf(s)
  BY FilterAppend DEF UplinksOf, Uplinks
<1>2. UplinksOf(s) \in Seq(Uplinks)
  BY QueuedFacts
<1>3. CASE m.type = "Uplink"
  <2>1. PICK p \in Packets : m = Uplink(p) /\ m.packet = p /\ m \in Uplinks
    BY <1>3, UplinkType
  <2>2. PacketsOf(Append(UplinksOf(s), Uplink(p))) = Append(PacketsOf(UplinksOf(s)), p)
    BY <1>2, PacketsAppend DEF Uplinks
  <2> QED
    BY Zenon, <1>1, <1>3, <2>1, <2>2 DEF Queued
<1>4. CASE m.type # "Uplink"
  BY Zenon, <1>1, <1>4, UplinkType DEF Queued
<1> QED
  BY <1>3, <1>4

\* An uplink taken was the packet at the head of the queue.
LEMMA QueuedTail ==
  ASSUME NEW s \in Seq(ClientMessage), s # <<>>
  PROVE  /\ Head(s).type = "Uplink" => /\ Queued(s) # <<>> /\ Head(Queued(s)) = Head(s).packet
                                       /\ Queued(Tail(s)) = Tail(Queued(s))
         /\ Head(s).type # "Uplink" => Queued(Tail(s)) = Queued(s)
<1>1. /\ Head(s) \in Uplinks => /\ UplinksOf(s) # <<>> /\ Head(UplinksOf(s)) = Head(s)
                               /\ UplinksOf(Tail(s)) = Tail(UplinksOf(s))
      /\ Head(s) \notin Uplinks => UplinksOf(Tail(s)) = UplinksOf(s)
  BY FilterTail DEF UplinksOf, Uplinks
<1>2. UplinksOf(s) \in Seq(Uplinks)
  BY QueuedFacts
<1>3. Head(s) \in ClientMessage
  OBVIOUS
<1>4. CASE Head(s).type = "Uplink"
  <2>1. UplinksOf(s) # <<>> /\ Head(UplinksOf(s)) = Head(s)
        /\ UplinksOf(Tail(s)) = Tail(UplinksOf(s))
    BY Zenon, <1>1, <1>3, <1>4, UplinkType
  <2>2. /\ PacketsOf(UplinksOf(s)) # <<>>
        /\ Head(PacketsOf(UplinksOf(s))) = Head(UplinksOf(s)).packet
        /\ PacketsOf(Tail(UplinksOf(s))) = Tail(PacketsOf(UplinksOf(s)))
    BY Zenon, <1>2, <2>1, PacketsTail DEF Uplinks
  <2> QED
    BY Zenon, <1>4, <2>1, <2>2 DEF Queued
<1>5. CASE Head(s).type # "Uplink"
  BY Zenon, <1>1, <1>3, <1>5, UplinkType DEF Queued
<1> QED
  BY <1>4, <1>5

\* The queue that a client stands for, and what a step at c makes of the queues.
LEMMA QueueIs ==
  ASSUME IInv
  PROVE  /\ \A c \in Clients : QueuedPackets(c) = Queued(client_messages[c])
         /\ \A c \in Clients : Queued(client_messages[c]) \in Seq(Packets)
<1> SUFFICES ASSUME NEW c \in Clients
             PROVE  /\ QueuedPackets(c) = Queued(client_messages[c])
                    /\ Queued(client_messages[c]) \in Seq(Packets)
  BY Zenon
<1>1. waiting_packets[c] = <<>> /\ client_messages[c] \in Seq(ClientMessage)
  BY DEF IInv, TypeOK, StoreEmpty
<1>2. Queued(client_messages[c]) \in Seq(Packets)
  BY <1>1, QueuedFacts
<1>3. QueuedPackets(c) = <<>> \o Queued(client_messages[c])
  BY <1>1 DEF QueuedPackets, Queued
<1> QED
  BY <1>2, <1>3

LEMMA ElsewhereKept ==
  ASSUME IInv, IInv', NEW c \in Clients,
         \A k \in Clients : k # c => /\ client_pc'[k] = client_pc[k]
                                    /\ client_messages'[k] = client_messages[k]
  PROVE  /\ [k \in Clients |-> Alive(k)]' =
              [[k \in Clients |-> Alive(k)] EXCEPT ![c] = Alive(c)']
         /\ [k \in Clients |-> QueuedPackets(k)]' =
              [[k \in Clients |-> QueuedPackets(k)] EXCEPT ![c] = Queued(client_messages'[c])]
<1>1. \A k \in Clients : /\ QueuedPackets(k) = Queued(client_messages[k])
                         /\ QueuedPackets(k)' = Queued(client_messages'[k])
  <2> SUFFICES ASSUME NEW k \in Clients
               PROVE  QueuedPackets(k)' = Queued(client_messages'[k])
    BY Zenon, QueueIs
  <2>1. waiting_packets'[k] = <<>> /\ client_messages'[k] \in Seq(ClientMessage)
    BY DEF IInv, TypeOK, StoreEmpty
  <2>2. Queued(client_messages'[k]) \in Seq(Packets)
    BY <2>1, QueuedFacts
  <2>3. QueuedPackets(k)' = <<>> \o Queued(client_messages'[k])
    BY <2>1 DEF QueuedPackets, Queued
  <2> QED
    BY <2>2, <2>3
<1>2. [k \in Clients |-> Alive(k)]' = [[k \in Clients |-> Alive(k)] EXCEPT ![c] = Alive(c)']
  BY Zenon DEF Alive
<1>3. [k \in Clients |-> QueuedPackets(k)]' =
        [[k \in Clients |-> QueuedPackets(k)] EXCEPT ![c] = Queued(client_messages'[c])]
  BY Zenon, <1>1
<1> QED
  BY <1>2, <1>3

AbstractStep == [Queue!Next]_(Queue!vars)

\* A step that changes neither who is alive, what is queued nor what is sent.
LEMMA Stutters ==
  ASSUME IInv, IInv', NEW c \in Clients, sending' = sending,
         \A k \in Clients : k # c => /\ client_pc'[k] = client_pc[k]
                                    /\ client_messages'[k] = client_messages[k],
         Alive(c)' = Alive(c), Queued(client_messages'[c]) = Queued(client_messages[c])
  PROVE  AbstractStep
<1> DEFINE f == [k \in Clients |-> Alive(k)]
           g == [k \in Clients |-> QueuedPackets(k)]
<1>1. f' = [f EXCEPT ![c] = Alive(c)'] /\ g' = [g EXCEPT ![c] = Queued(client_messages'[c])]
  BY Zenon, ElsewhereKept
<1>2. f[c] = Alive(c) /\ g[c] = Queued(client_messages[c])
  BY Zenon, QueueIs
<1>3. f = [k \in Clients |-> f[k]] /\ g = [k \in Clients |-> g[k]]
  BY Zenon
<1> HIDE DEF f, g
<1>4. f' = f /\ g' = g
  BY Zenon, <1>1, <1>2, <1>3
<1> QED
  BY Zenon, <1>4 DEF AbstractStep, Queue!vars, f, g

\* Taking an uplink offers the packet at the head of the queue, unless the store
\* holds nothing.
LEMMA UplinkOffers ==
  ASSUME IInv, IInv', NEW c \in Clients, handle_uplink(c)
  PROVE  Queue!Offer(c)
<1> DEFINE s == client_messages[c]
           p == Head(s).packet
           stored == store_waiting_packet(<<>>, p)
<1>1. /\ client_pc[c] = "select" /\ s # <<>> /\ Head(s).type = "Uplink"
      /\ s \in Seq(ClientMessage) /\ Head(s) \in ClientMessage
      /\ client_messages' = [client_messages EXCEPT ![c] = Tail(s)]
      /\ sending[c] = None
  BY DEF handle_uplink, Recv, IInv, TypeOK
<1>2. p \in Packets
  BY <1>1, MessageTypes
<1>3. send_waiting_packets(c, stored)
  BY DEF handle_uplink, IInv, StoreEmpty
<1>4. stored = IF MaxPackets = 0 THEN <<>> ELSE <<p>>
  <2> HIDE DEF p
  <2>1. Append(<<>>, p) = <<p>> /\ Len(<<p>>) = 1 /\ Tail(<<p>>) = <<>>
    OBVIOUS
  <2> QED
    BY <2>1, ClientAssumption DEF store_waiting_packet
<1>5. /\ Queued(s) # <<>> /\ Head(Queued(s)) = p /\ Queued(Tail(s)) = Tail(Queued(s))
  BY <1>1, QueuedTail
<1> HIDE DEF s, p, stored
<1>6. \A k \in Clients : k # c => /\ client_pc'[k] = client_pc[k]
                                 /\ client_messages'[k] = client_messages[k]
  BY <1>1, <1>3 DEF send_waiting_packets, IInv, TypeOK
<1>7. /\ sending' = [sending EXCEPT ![c] = IF MaxPackets = 0 THEN None ELSE p]
      /\ client_pc'[c] \in {"select", "route"}
      /\ client_messages'[c] = Tail(s)
  <2>1. <<p>> # <<>> /\ Head(<<p>>) = p
    OBVIOUS
  <2> QED
    BY Zenon, <1>1, <1>3, <1>4, <2>1 DEF send_waiting_packets, IInv, TypeOK
<1>8. QueuedPackets(c) = Queued(s)
  BY QueueIs DEF s
<1>9. Alive(c) /\ Alive(c)'
  BY <1>1, <1>7 DEF Alive
<1>10. /\ [k \in Clients |-> Alive(k)]' = [k \in Clients |-> Alive(k)]
       /\ [k \in Clients |-> QueuedPackets(k)]' =
             [[k \in Clients |-> QueuedPackets(k)] EXCEPT ![c] = Tail(Queued(s))]
  <2> DEFINE f == [k \in Clients |-> Alive(k)]
             g == [k \in Clients |-> QueuedPackets(k)]
  <2>1. f' = [f EXCEPT ![c] = Alive(c)'] /\ g' = [g EXCEPT ![c] = Queued(client_messages'[c])]
    BY Zenon, <1>6, ElsewhereKept
  <2>2. f[c] = Alive(c) /\ f = [k \in Clients |-> f[k]]
    BY Zenon
  <2>3. Alive(c)' = Alive(c)
    BY <1>1, <1>7 DEF Alive
  <2> HIDE DEF f, g
  <2>4. f' = f
    BY <2>1, <2>2, <2>3
  <2>5. g' = [g EXCEPT ![c] = Tail(Queued(s))]
    BY Zenon, <1>5, <1>7, <2>1
  <2> QED
    BY Zenon, <2>4, <2>5 DEF f, g
<1> QED
  BY Zenon, <1>1, <1>5, <1>7, <1>8, <1>9, <1>10 DEF Queue!Offer

\* A step at one client is a step of its queue.
LEMMA StepRefines ==
  ASSUME IInv, IInv', NEW c \in Clients, Step(c)
  PROVE  AbstractStep
<1>1. /\ client_messages[c] \in Seq(ClientMessage)
      /\ \A k \in Clients : k # c => /\ client_pc'[k] = client_pc[k]
                                     /\ client_messages'[k] = client_messages[k]
  BY Zenon DEF IInv, TypeOK, Step, handle_uplink, HandleRegionChanged, HandleStop, HandleShutdown,
     StoreGc, RouteError, RouteNoDownlink, RouteDownlink, handle_downlink, Recv, Return,
     send_waiting_packets
<1> DEFINE f == [k \in Clients |-> Alive(k)]
           g == [k \in Clients |-> QueuedPackets(k)]
<1>2. f' = [f EXCEPT ![c] = Alive(c)'] /\ g' = [g EXCEPT ![c] = Queued(client_messages'[c])]
  BY Zenon, <1>1, ElsewhereKept
<1>3. f[c] = Alive(c) /\ g[c] = QueuedPackets(c) /\ g[c] = Queued(client_messages[c])
      /\ f = [k \in Clients |-> f[k]] /\ g = [k \in Clients |-> g[k]]
  BY Zenon, QueueIs
<1> HIDE DEF f, g
<1>4. CASE handle_uplink(c)
  BY <1>4, UplinkOffers DEF AbstractStep, Queue!Next
<1>5. CASE HandleRegionChanged(c)
  <2>1. /\ client_messages[c] # <<>> /\ Head(client_messages[c]).type = "RegionChanged"
        /\ client_messages'[c] = Tail(client_messages[c])
        /\ client_pc' = client_pc /\ sending' = sending
    BY <1>5 DEF HandleRegionChanged, Recv, IInv, TypeOK
  <2>2. Queued(client_messages'[c]) = Queued(client_messages[c]) /\ Alive(c)' = Alive(c)
    BY <1>1, <2>1, QueuedTail DEF Alive
  <2> QED
    BY Zenon, <1>1, <2>1, <2>2, Stutters
<1>6. CASE HandleStop(c) \/ HandleShutdown(c)
  <2>1. /\ client_pc[c] = "select" /\ client_pc'[c] = "stopped" /\ sending' = sending
        /\ client_messages'[c] = <<>> /\ sending[c] = None
    BY <1>6 DEF HandleStop, HandleShutdown, Return, IInv, TypeOK
  <2>2. Alive(c) /\ Alive(c)' = FALSE
    BY <2>1 DEF Alive
  <2>3. Queue!Close(c)
    <3>1. f[c] /\ f' = [f EXCEPT ![c] = FALSE] /\ g' = [g EXCEPT ![c] = <<>>]
      BY Zenon, <1>2, <1>3, <2>1, <2>2, NothingQueued
    <3> QED
      BY Zenon, <2>1, <3>1 DEF Queue!Close, f, g
  <2> QED
    BY <2>3 DEF AbstractStep, Queue!Next
<1>7. CASE StoreGc(c)
  <2>1. client_pc' = client_pc /\ sending' = sending /\ client_messages' = client_messages
    BY <1>7 DEF StoreGc
  <2>2. Alive(c)' = Alive(c)
    BY <2>1 DEF Alive
  <2> QED
    BY Zenon, <1>1, <2>1, <2>2, Stutters
<1>8. CASE RouteError(c) \/ RouteNoDownlink(c) \/ RouteDownlink(c)
  <2>1. /\ client_pc[c] = "route" /\ client_pc'[c] \in {"select", "downlink"}
        /\ sending' = [sending EXCEPT ![c] = None] /\ sending[c] # None
        /\ client_messages' = client_messages
    BY <1>8 DEF RouteError, RouteNoDownlink, RouteDownlink, send_waiting_packets, IInv, TypeOK,
       StoreEmpty
  <2>2. Alive(c)' = Alive(c)
    BY <2>1 DEF Alive
  <2>3. f' = f /\ g' = g
    BY Zenon, <1>2, <1>3, <2>1, <2>2
  <2>4. Queue!Settle(c)
    BY Zenon, <2>1, <2>3 DEF Queue!Settle, f, g
  <2> QED
    BY <2>4 DEF AbstractStep, Queue!Next
<1>9. CASE handle_downlink(c)
  <2>1. /\ client_pc[c] = "downlink" /\ client_pc'[c] = "select" /\ sending' = sending
        /\ client_messages' = client_messages
    BY <1>9 DEF handle_downlink, send_waiting_packets, IInv, TypeOK, StoreEmpty
  <2>2. Alive(c)' = Alive(c)
    BY <2>1 DEF Alive
  <2> QED
    BY Zenon, <1>1, <2>1, <2>2, Stutters
<1> QED
  BY <1>4, <1>5, <1>6, <1>7, <1>8, <1>9 DEF Step

\* What the dispatcher does to a client opens its queue, puts a packet in it or
\* leaves it as it is.
LEMMA DispatcherRefines ==
  ASSUME IInv, NothingSent, IInv', NEW c \in Clients, Spawn(c) \/ Dispatch(c)
  PROVE  AbstractStep
<1>1. /\ client_messages[c] \in Seq(ClientMessage)
      /\ \A k \in Clients : k # c => /\ client_pc'[k] = client_pc[k]
                                     /\ client_messages'[k] = client_messages[k]
  BY DEF IInv, TypeOK, Spawn, Spawned, Dispatch, SendTo
<1> DEFINE f == [k \in Clients |-> Alive(k)]
           g == [k \in Clients |-> QueuedPackets(k)]
<1>2. f' = [f EXCEPT ![c] = Alive(c)'] /\ g' = [g EXCEPT ![c] = Queued(client_messages'[c])]
  BY Zenon, <1>1, ElsewhereKept
<1>3. f[c] = Alive(c) /\ g[c] = QueuedPackets(c) /\ g[c] = Queued(client_messages[c])
      /\ f = [k \in Clients |-> f[k]] /\ g = [k \in Clients |-> g[k]]
  BY Zenon, QueueIs
<1> HIDE DEF f, g
<1>4. CASE Spawn(c)
  <2>1. /\ client_pc[c] = "absent" /\ client_pc'[c] = "select" /\ client_messages[c] = <<>>
        /\ client_messages'[c] = <<>> /\ sending' = sending
    BY <1>4 DEF Spawn, Spawned, IInv, TypeOK, NothingSent
  <2>2. ~Alive(c) /\ Alive(c)' = TRUE
    BY <2>1 DEF Alive
  <2>3. Queue!Open(c)
    <3>1. ~f[c] /\ g[c] = <<>> /\ f' = [f EXCEPT ![c] = TRUE]
      BY Zenon, <1>2, <1>3, <2>1, <2>2, NothingQueued
    <3>2. g' = g
      BY <1>2, <1>3, <2>1
    <3> QED
      BY Zenon, <2>1, <3>1, <3>2 DEF Queue!Open, f, g
  <2> QED
    BY <2>3 DEF AbstractStep, Queue!Next
<1>5. CASE Dispatch(c)
  <2>1. PICK m \in ClientMessage : client_messages'[c] = Append(client_messages[c], m)
    BY <1>5 DEF Dispatch, SendTo, IInv, TypeOK
  <2>2. /\ Alive(c) /\ Len(client_messages[c]) < ClientSlots
        /\ client_pc' = client_pc /\ sending' = sending
    BY <1>5 DEF Dispatch, HasSlot
  <2>3. Alive(c)' = Alive(c)
    BY <2>2 DEF Alive
  <2>4. CASE m.type = "Uplink"
    <3>1. m.packet \in Packets
      BY <2>1, <2>4, UplinkType
    <3>2. g' = [g EXCEPT ![c] = Append(g[c], m.packet)] /\ f' = f
      BY Zenon, <1>1, <1>2, <1>3, <2>1, <2>3, <2>4, QueuedAppend
    <3>3. Len(g[c]) < ClientSlots
      BY <1>1, <1>3, <2>2, ClientAssumption, QueuedFacts
    <3>4. Queue!Put(c, m.packet)
      BY Zenon, <1>3, <2>2, <3>2, <3>3 DEF Queue!Put, f, g
    <3> QED
      BY <3>1, <3>4 DEF AbstractStep, Queue!Next
  <2>5. CASE m.type # "Uplink"
    BY Zenon, <1>1, <2>1, <2>2, <2>3, <2>5, QueuedAppend, Stutters
  <2> QED
    BY <2>4, <2>5
<1> QED
  BY <1>4, <1>5

\* The router clients implement PacketQueue: store_waiting_packet, the pop of
\* send_waiting_packets and the channel together are one bounded FIFO.
THEOREM ClientsAreQueues == Spec => RefinesPacketQueue
<1>1. Init => Queue!Init
  <2>1. ASSUME NEW c \in Clients, Init
        PROVE  ~Alive(c) /\ QueuedPackets(c) = <<>>
    <3>1. client_pc[c] = "absent" /\ client_messages[c] = <<>>
      BY <2>1 DEF Init
    <3>2. QueuedPackets(c) = Queued(client_messages[c])
      BY <2>1, IInvInit, QueueIs
    <3> QED
      BY Zenon, <3>1, <3>2, NothingQueued DEF Alive
  <2>2. ASSUME NEW c \in Clients, Init
        PROVE  Alive(c) = FALSE
    BY <2>2 DEF Init, Alive
  <2> QED
    BY Zenon, <2>1, <2>2 DEF Init, Queue!Init
<1>2. Init => NothingSent
  BY DEF Init, NothingSent
<1>3. IInv /\ NothingSent /\ [Next]_vars => IInv' /\ NothingSent'
  BY IInvStep, NothingSentStep DEF IInv
<1>4. IInv /\ NothingSent /\ IInv' /\ [Next]_vars => [Queue!Next]_(Queue!vars)
  <2> SUFFICES ASSUME IInv, NothingSent, IInv', [Next]_vars
               PROVE  AbstractStep
    BY DEF AbstractStep
  <2>1. CASE GatewayRecv \/ Trigger \/ UNCHANGED vars
    <3>1. UNCHANGED client_vars
      BY <2>1 DEF GatewayRecv, Trigger, vars
    <3> QED
      BY <3>1 DEF client_vars, AbstractStep, Queue!vars, Alive, QueuedPackets
  <2> QED
    BY <2>1, StepRefines, DispatcherRefines DEF Next
<1> QED
  BY <1>1, <1>2, <1>3, <1>4, IInvInit, PTL DEF Spec, RefinesPacketQueue, Queue!Spec

=============================================================================
