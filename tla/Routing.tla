------------------------------ MODULE Routing -------------------------------
(***************************************************************************)
(* Which packets a router is sent (src/router/routing.rs and filter.rs): a *)
(* join request by an xor filter over its two EUIs, a data frame by blocks *)
(* of DevAddrs.  A block comes as 48 bits: a base of 25 bits, of which the *)
(* last two are in no mask, and a mask of 23 bits.                         *)
(***************************************************************************)
EXTENDS Naturals, Sequences

BITS_23 == 8388607

\* Defect: the size is that of the mask, without the last two bits.
DevAddrFilter_short(bytes) ==
  LET mask == (bytes[4] % 128) * 65536 + bytes[5] * 256 + bytes[6]
      base == bytes[1] * 131072 + bytes[2] * 512 + bytes[3] * 2 + bytes[4] \div 128
  IN [base |-> base, size |-> (BITS_23 - mask) + 1]

\* DevAddrFilter::from_bin, of the six bytes of a subnet.  copy_from_slice panics
\* on any other number of bytes, and the release build aborts then.
DevAddrFilter(bytes) ==
  LET mask == (bytes[4] % 128) * 65536 + bytes[5] * 256 + bytes[6]
      base == bytes[1] * 131072 + bytes[2] * 512 + bytes[3] * 2 + bytes[4] \div 128
  IN [base |-> base, size |-> (BITS_23 - mask) * 4 + 3 + 1]

\* DevAddrFilter::contains, of a DevAddr as its four bytes, most significant first.
DevAddrFilterContains(filter, devaddr) ==
  LET addr_base == (devaddr[2] % 128) * 65536 + devaddr[3] * 256 + devaddr[4]
  IN addr_base >= filter.base /\ addr_base < filter.base + filter.size

\* EuiFilter::contains.  External: the hash of the EUIs and the xor filter; a
\* filter is the set of the EUIs it answers yes for.
EuiFilterContains(filter, eui) == eui \in filter

\* Routing::matches_routing_info
matches_routing_info(router, routing_info) ==
  \/ /\ "deveui" \in DOMAIN routing_info
     /\ \E filter \in router.filters : EuiFilterContains(filter, routing_info)
  \/ /\ "devaddr" \in DOMAIN routing_info
     /\ \E subnet \in router.subnets :
          DevAddrFilterContains(DevAddrFilter(subnet), routing_info.devaddr)
=============================================================================
