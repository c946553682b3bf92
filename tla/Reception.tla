----------------------------- MODULE Reception ------------------------------
(***************************************************************************)
(* What becomes of a frame a packet forwarder hands to the gateway:        *)
(* Packet::try_from decodes it (src/packet.rs), handle_udp_event           *)
(* (src/gateway.rs) sends it to the dispatcher or the beaconer, the        *)
(* dispatcher to the routers whose filters match, and the beaconer makes a *)
(* witness report of it.  The frame is any that Frames has, an uplink of a *)
(* device whose DevAddr was made from a subnet address (lorawan/src), or a *)
(* beacon that a gateway running this code transmitted (beacon/src,        *)
(* beacon_to_pull_resp).                                                   *)
(***************************************************************************)
EXTENDS LoRaWan, Routing, Subnets

CONSTANTS
  Frames,       \* the frames devices and other networks send
  DataRates,    \* the data rates a forwarder may report
  Routers,      \* the filters and subnets of the routing each client has
  DefaultRouters,   \* the clients of the default routers
  NetIDs,       \* the NetIDs of the network, in the order of its list
  SubnetAddrs,  \* the subnet addresses devices were given
  None          \* Rust's Option::None

MIN_BEACON_V0_PAYLOAD_SIZE == 5
MAX_BEACON_V0_PAYLOAD_SIZE == 10

\* The data rates to_witness_report accepts.
WitnessDataRates == {"Sf7bw125", "Sf8bw125", "Sf9bw125", "Sf10bw125", "Sf12bw125"}

ASSUME ReceptionAssumption ==
  /\ \A f \in Frames : f \in Seq(0..255)
  /\ "Sf7bw125" \in DataRates
  /\ DefaultRouters \subseteq DOMAIN Routers
  /\ \A r \in DOMAIN Routers : \A s \in Routers[r].subnets : s \in [1..6 -> 0..255]
  /\ NetIDs \in Seq(0..2^24 - 1)
  /\ \A i \in DOMAIN NetIDs : NetIDs[i] % 2^21 < 2^id_len(netid_class(NetIDs[i]))
  /\ size_of_first(NetIDs)[Len(NetIDs)] \div 4 < 2^30   \* the sums of u32 do not overflow
  /\ \A n \in SubnetAddrs :
       /\ n \in Nat
       /\ \E i \in DOMAIN NetIDs : subnet_addr_within_range(n, NetIDs[i], NetIDs)

VARIABLES
  stage,      \* air, ignored, dispatcher, beaconer, routed, reported, refused
  frame,      \* the bytes received
  beacon,     \* the data of the beacon they carry, None for a frame of Frames
  subnet,     \* the subnet address its DevAddr was made from, else None
  crc,        \* the forwarder found the checksum right
  datarate,   \* the data rate it was received at
  routing,    \* the packet's routing information
  sent,       \* the routers the packet is sent to
  report      \* the data of the witness report

received == <<frame, beacon, subnet, crc, datarate>>
vars == <<stage, received, routing, sent, report>>

\* Beacon::new: the first payload_size bytes of a hash, told apart by position.
BeaconData(payload_size) == [i \in 1..payload_size |-> i]

\* What beacon_to_pull_resp has the forwarder transmit.
BeaconFrame(data) == PHYPayloadWrite(proprietary(data))

\* Packet::routing_information
routing_information(f) ==
  CASE f.frame = "JoinRequest" -> [deveui |-> f.dev_eui, appeui |-> f.app_eui]
    [] f.frame = "MACPayload" -> [devaddr |-> f.fhdr.dev_addr]
    [] OTHER -> None

is_potential_beacon(bytes) == bytes # <<>> /\ mtype(bytes[1]) = "Proprietary"

\* Event::PacketReceived in handle_udp_event.
PacketReceived ==
  /\ stage = "air"
  /\ LET phy == PHYPayloadRead(frame)
     IN IF ~crc \/ ~phy.ok
          THEN /\ stage' = "ignored"
               /\ UNCHANGED routing
          ELSE /\ routing' = routing_information(phy.value.payload)
               /\ stage' = IF is_potential_beacon(frame) THEN "beaconer" ELSE "dispatcher"
  /\ UNCHANGED <<received, sent, report>>

\* The dispatcher's handle_uplink.
handle_uplink ==
  /\ stage = "dispatcher"
  /\ stage' = "routed"
  /\ LET matching == {r \in DOMAIN Routers :
                        routing # None /\ matches_routing_info(Routers[r], routing)}
     IN sent' = IF matching # {} THEN matching ELSE DefaultRouters
  /\ UNCHANGED <<received, routing, report>>

\* The beaconer's handle_received_beacon, up to the submission of the report.
to_witness_report ==
  /\ stage = "beaconer"
  /\ LET phy == PHYPayloadRead(frame)
     IN IF phy.ok /\ phy.value.payload.frame = "Proprietary" /\ datarate \in WitnessDataRates
          THEN /\ stage' = "reported"
               /\ report' = phy.value.payload.payload
          ELSE /\ stage' = "refused"
               /\ UNCHANGED report
  /\ UNCHANGED <<received, routing, sent>>

\* The shortest data frame with a DevAddr.
UplinkFrame(addr) ==
  <<64>> \o little_endian(Bytes(addr)) \o <<0, 1, 0>> \o <<1, 2, 3, 4>>

Init ==
  /\ stage = "air"
  /\ crc \in BOOLEAN
  /\ datarate \in DataRates
  /\ \/ beacon = None /\ subnet = None /\ frame \in Frames
     \/ /\ beacon = None
        /\ subnet \in SubnetAddrs
        /\ frame = UplinkFrame(devaddr_from_subnet(subnet, NetIDs))
     \/ /\ \E n \in MIN_BEACON_V0_PAYLOAD_SIZE..MAX_BEACON_V0_PAYLOAD_SIZE :
             beacon = BeaconData(n) /\ frame = BeaconFrame(BeaconData(n))
        /\ subnet = None
  /\ routing = None
  /\ sent = {}
  /\ report = None

Next == PacketReceived \/ handle_uplink \/ to_witness_report

Spec == Init /\ [][Next]_vars
-----------------------------------------------------------------------------
(***************************************************************************)
(* Properties                                                              *)
(***************************************************************************)
\* The bytes i..j of the frame, read as a little-endian integer.
Field(i, j) == Backwards(SubSeq(frame, i, j))

\* What the rest of the program works with is what LoRaWAN puts at those
\* offsets of the frame, whatever the frame's length and options: a join
\* request is routed by its two EUIs, a data frame by its DevAddr, a witness
\* report carries the frame after its MHDR; only a join accept, which no device
\* sends, reaches the dispatcher with nothing to route it by.
FieldsInPlace ==
  LET type == mtype(frame[1])
  IN /\ stage \in {"dispatcher", "routed"} =>
          routing = CASE type = "JoinRequest" -> [deveui |-> Field(10, 17), appeui |-> Field(2, 9)]
                      [] type = "JoinAccept" -> None
                      [] OTHER -> [devaddr |-> Field(2, 5)]
     /\ stage = "reported" => report = Tail(frame)

\* A frame with options that the gateway accepts is one whose options end
\* before its MIC, and whose port, the byte after them, is not 0: the lengths
\* that read trusts are within the frame.
OptionsWithinFrame ==
  stage = "dispatcher" /\ mtype(frame[1]) \notin {"JoinRequest", "JoinAccept"} =>
    LET n == frame[6] % 16
    IN /\ 8 + n + 4 <= Len(frame)
       /\ n > 0 /\ 8 + n + 4 < Len(frame) => frame[9 + n] # 0

\* The mask and the base in the 48 bits of a subnet.
SubnetMask(bytes) == (bytes[4] % 128) * 65536 + bytes[5] * 256 + bytes[6]
SubnetBase(bytes) == bytes[1] * 131072 + bytes[2] * 512 + bytes[3] * 2 + bytes[4] \div 128

\* What the ledger means by a subnet: the addresses that agree with its base in
\* the bits of its mask, the last two bits being in no mask.
InSubnet(n, bytes) ==
  \A i \in 0..22 :
    (SubnetMask(bytes) \div 2^i) % 2 = 1 =>
      (n \div 2^(i + 2)) % 2 = (SubnetBase(bytes) \div 2^(i + 2)) % 2

\* The blocks that the ledger hands out: the ones of a mask are its first bits,
\* and the base has none of the others.
AlignedSubnets ==
  \A r \in DOMAIN Routers : \A s \in Routers[r].subnets :
    \E m \in 0..23 : SubnetMask(s) = 2^23 - 2^m /\ SubnetBase(s) % 2^(m + 2) = 0

\* The number of a DevAddr, given as four bytes, among the first 2^23.
AddrNumber(addr) == addr[2] * 65536 + addr[3] * 256 + addr[4]

\* The range that DevAddrFilter makes of a subnet holds the addresses of the
\* subnet and no others, and the default routers are a last resort: a device
\* whose address is among the first 2^23 of the network is heard by exactly the
\* routers that own its address, or by the default routers when none does.
\* (contains looks at 23 bits of the address only, so the addresses above are
\* taken for the ones below.)
OwnersHear ==
  stage = "routed" /\ routing # None /\ "devaddr" \in DOMAIN routing =>
    LET addr == routing.devaddr
        owners == {r \in DOMAIN Routers :
                     \E s \in Routers[r].subnets : InSubnet(AddrNumber(addr), s)}
    IN addr[1] % 2 = 0 /\ addr[2] < 128 =>
         sent = IF owners # {} THEN owners ELSE DefaultRouters

\* devaddr_from_subnet and subnet_from_devaddr are inverse through the air: the
\* DevAddr made of a subnet address of any class of NetID, sent by a device and
\* read by the gateway, is the network's own and gives the same subnet address.
SubnetComesBack ==
  subnet # None /\ stage = "dispatcher" =>
    LET addr == Bits(routing.devaddr)
    IN is_local_devaddr(addr, NetIDs) /\ subnet_from_devaddr(addr, NetIDs) = subnet

\* A DevAddr stays what it was when the network adds a NetID to the end of its
\* list: the list as it was when the subnet address came into use gives the
\* same DevAddr, and reads it as the same subnet address.
SubnetStable ==
  subnet # None /\ stage = "air" =>
    \A k \in DOMAIN NetIDs :
      LET earlier == SubSeq(NetIDs, 1, k)
          addr == devaddr_from_subnet(subnet, NetIDs)
      IN subnet_addr_to_netid(subnet, NetIDs) \in Range(earlier) =>
           /\ devaddr_from_subnet(subnet, earlier) = addr
           /\ subnet_from_devaddr(addr, earlier) = subnet

\* A join request, a join accept without channel list and a proprietary frame of
\* any length are written back byte for byte as they were read.
ControlFramesRoundTrip ==
  LET phy == PHYPayloadRead(frame)
      kind == phy.value.payload.frame
  IN /\ phy.ok
     /\ kind # "MACPayload"
     /\ kind = "JoinAccept" => Len(frame) # JOIN_ACCEPT_WITH_CFLIST_LEN
     => PHYPayloadWrite(phy.value) = frame

\* What test_read_write_roundtrip asserts of a frame it reads and writes back:
\* assert_eq!(data_a, data_b).
RoundTrip ==
  LET phy == PHYPayloadRead(frame)
  IN phy.ok => PHYPayloadWrite(phy.value) = frame

\* What test_beacon_roundtrip asserts of a beacon, that read takes apart what
\* proprietary and write put together, seen from the receiving gateway: a
\* beacon that arrives with a good checksum is not thrown away.
BeaconHeard ==
  stage = "ignored" /\ crc => beacon = None
=============================================================================
