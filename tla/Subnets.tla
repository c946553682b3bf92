------------------------------ MODULE Subnets -------------------------------
(***************************************************************************)
(* Helium subnet addresses and LoRaWAN DevAddrs (lorawan/src/subnet.rs).   *)
(* The network numbers the addresses of all its NetIDs through, in the     *)
(* order of its list; a DevAddr is a prefix that gives the class of its    *)
(* NetID, the NetID, and an address within it.                             *)
(*                                                                         *)
(* A u32 that can use its top bit is the sequence of its 32 bits, most     *)
(* significant first; NetIDs and subnet addresses are numbers.             *)
(***************************************************************************)
EXTENDS Naturals, Sequences, FiniteSetsExt

Word(n) == [i \in 1..32 |-> IF i = 1 THEN 0 ELSE (n \div 2^(32 - i)) % 2]

\* The numbers that the first n bits are, and the number that all of them are.
Values(bits) ==
  LET value[n \in 0..Len(bits)] == IF n = 0 THEN 0 ELSE 2 * value[n - 1] + bits[n]
  IN value
Value(bits) == Values(bits)[Len(bits)]

ShiftLeft(w, n) == [i \in 1..32 |-> IF i + n <= 32 THEN w[i + n] ELSE 0]
ShiftRight(w, n) == [i \in 1..32 |-> IF i > n THEN w[i - n] ELSE 0]
Or(v, w) == [i \in 1..32 |-> IF v[i] = 1 \/ w[i] = 1 THEN 1 ELSE 0]

\* The bytes of a word, and the word of four bytes.
Bytes(w) == [b \in 1..4 |-> Value(SubSeq(w, 8 * b - 7, 8 * b))]
Bits(bytes) == [i \in 1..32 |-> (bytes[(i + 7) \div 8] \div 2^((32 - i) % 8)) % 2]

RETIRED_NETID == 2097168   \* 0x200010

\* The top bits of a 24-bit NetID.
netid_class(netid) == netid \div 2^21

addr_len(netclass) == <<25, 24, 20, 17, 15, 13, 10, 7>>[netclass + 1]
id_len(netclass) == <<6, 6, 9, 11, 12, 13, 15, 17>>[netclass + 1]

netid_size(netid) == 2^addr_len(netid_class(netid))

\* How many addresses the first n NetIDs of the list have together.
size_of_first(netid_list) ==
  LET sum[n \in 0..Len(netid_list)] ==
        IF n = 0 THEN 0 ELSE sum[n - 1] + netid_size(netid_list[n])
  IN sum

\* Defect: the NetIDs are numbered from the end of the list.
netid_addr_range_from_end(netid, netid_list) ==
  LET at == {i \in DOMAIN netid_list : netid_list[i] = netid}
      sum == size_of_first(netid_list)
      total == sum[Len(netid_list)]
  IN IF at = {} THEN <<0, 0>> ELSE <<total - sum[Min(at)], total - sum[Min(at) - 1]>>

\* The subnet addresses of a NetID: from the first, to before the second.
netid_addr_range(netid, netid_list) ==
  LET at == {i \in DOMAIN netid_list : netid_list[i] = netid}
      sum == size_of_first(netid_list)
  IN IF at = {} THEN <<0, 0>> ELSE <<sum[Min(at) - 1], sum[Min(at)]>>

subnet_addr_within_range(subnetaddr, netid, netid_list) ==
  LET range == netid_addr_range(netid, netid_list)
  IN range[1] <= subnetaddr /\ subnetaddr < range[2]

subnet_addr_to_netid(subnetaddr, netid_list) ==
  LET found == {i \in DOMAIN netid_list :
                  subnet_addr_within_range(subnetaddr, netid_list[i], netid_list)}
  IN IF found = {} THEN 0 ELSE netid_list[Min(found)]

\* As many ones as the class, and a zero, above the NetID.
var_net_class(netclass) == (2^(netclass + 1) - 2) * 2^id_len(netclass)

devaddr(netid, nwkaddr) ==
  LET netclass == netid_class(netid)
      addr == Or(Word(var_net_class(netclass)), Word(netid % 2^21))
  IN Or(ShiftLeft(addr, addr_len(netclass)), Word(nwkaddr))

\* Defect: a class 7 prefix, whose zero is the last bit, is not recognised.
netid_type_short(addr) ==
  LET zeros == {i \in 1..7 : addr[i] = 0}
  IN IF zeros = {} THEN 0 ELSE Min(zeros) - 1

\* The number of ones before the first zero of the first byte, 0 if it has none.
netid_type(addr) ==
  LET zeros == {i \in 1..8 : addr[i] = 0}
  IN IF zeros = {} THEN 0 ELSE Min(zeros) - 1

parse_netid(addr) ==
  LET type == netid_type(addr)
  IN Value(ShiftRight(ShiftLeft(addr, type), 31 - id_len(type))) + type * 2^21

nwk_addr(addr) ==
  LET len == addr_len(netid_class(parse_netid(addr)))
  IN Value(SubSeq(addr, 33 - len, 32))

is_local_netid(netid, netid_list) == netid = RETIRED_NETID \/ netid \in Range(netid_list)

is_local_devaddr(addr, netid_list) == is_local_netid(parse_netid(addr), netid_list)

devaddr_from_subnet(subnetaddr, netid_list) ==
  LET netid == subnet_addr_to_netid(subnetaddr, netid_list)
  IN devaddr(netid, subnetaddr - netid_addr_range(netid, netid_list)[1])

subnet_from_devaddr(addr, netid_list) ==
  netid_addr_range(parse_netid(addr), netid_list)[1] + nwk_addr(addr)
=============================================================================
