---------------------------- MODULE MCReception -----------------------------
(***************************************************************************)
(* Every type and length of frame up to the longest the codec tells apart, *)
(* with few and with the most options, with port 0 and another.  The other *)
(* bytes are told apart by position.  Devices with addresses at the edges  *)
(* of the subnets of three routers; a NetID of every class, and addresses  *)
(* at the edges of each.                                                   *)
(***************************************************************************)
EXTENDS Reception

CONSTANTS Lengths, FCtrls, Ports

MCFrame(type, length, fctrl, port) ==
  [i \in 1..length |->
     CASE i = 1 -> 32 * type
       [] i = 6 -> fctrl
       [] i = 9 + (fctrl % 16) -> port
       [] OTHER -> 100 + i]

MCLengths == 1..35

\* DevAddrs with the network's old prefix, at and around the edges of subnets.
MCDevAddrs ==
  {devaddr(RETIRED_NETID, n) :
     n \in {0, 3, 1023, 1024, 2047, 2048, 2055, 2056, 2063, 2064, 4194303, 4194304,
            8388604, 8388607, 8388608, 8389632}}

MCFrames ==
  {MCFrame(t, n, c, p) : t \in 0..7, n \in Lengths, c \in FCtrls, p \in Ports}
    \cup {UplinkFrame(addr) : addr \in MCDevAddrs}

MCEuis == {routing_information(PHYPayloadRead(MCFrame(0, 23, 0, 1)).value.payload)}

\* Subnets from the tests of filter.rs, one of 2^22 addresses, one at the end of
\* the 2^23, and one beyond.
MCRouters ==
  [r1 |-> [filters |-> {}, subnets |-> {<<0, 2, 0, 127, 255, 0>>}],
   r2 |-> [filters |-> {MCEuis}, subnets |-> {<<0, 4, 4, 127, 255, 254>>, <<64, 0, 0, 127, 255, 255>>}],
   r3 |-> [filters |-> {}, subnets |-> {<<32, 0, 0, 112, 0, 0>>, <<63, 255, 254, 127, 255, 255>>}],
   r4 |-> [filters |-> {{}}, subnets |-> {}]]

\* They are blocks as the ledger hands them out.
ASSUME MCRoutersAssumption == AlignedSubnets

\* 0xE00001, 0xC00035, 0x60002D, 0x00002D, 0x20002D, 0x40016D, 0xA016DB, 0x800B6D
MCNetIDs == <<14680065, 12582965, 6291501, 45, 2097197, 4194669, 10491611, 8391533>>

MCSubnetAddrs ==
  UNION {LET range == netid_addr_range(MCNetIDs[i], MCNetIDs)
         IN {range[1], range[1] + 100, range[2] - 1} : i \in DOMAIN MCNetIDs}

\* What the tests of subnet.rs find.
ASSUME TestVectors ==
  /\ devaddr(12582965, 16) = Bits(<<252, 0, 212, 16>>)
  /\ devaddr(6291501, 8) = Bits(<<224, 90, 0, 8>>)
  /\ devaddr(RETIRED_NETID, 0) = Bits(<<144, 0, 0, 0>>)
  /\ parse_netid(Bits(<<245, 182, 255, 255>>)) = 8391533
  /\ parse_netid(Bits(<<255, 255, 255, 255>>)) = 127
=============================================================================
