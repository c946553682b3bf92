------------------------------ MODULE LoRaWan -------------------------------
(***************************************************************************)
(* The LoRaWAN frame codec (lorawan/src/lib.rs).  A frame is a sequence of *)
(* bytes 0..255.  A little-endian integer is the sequence of its base-256  *)
(* digits, most significant first.  An Option<u8> is a sequence of at most *)
(* one byte.  The uplink and the downlink FCtrl are the same byte with the *)
(* same fopts_len, so the direction a frame is read in makes no difference *)
(* to what is read and is left out.                                        *)
(***************************************************************************)
EXTENDS Naturals, Sequences

Ok(v) == [ok |-> TRUE, value |-> v]
Err(e) == [ok |-> FALSE, error |-> e]

\* The elements of s, from the last to the first.
Backwards(s) == [i \in 1..Len(s) |-> s[Len(s) + 1 - i]]

\* Defect: digits are taken in the order of the bytes.
little_endian_big(bytes) == bytes

\* The digits of the little-endian bytes, and the bytes of the digits.
little_endian(bytes) == Backwards(bytes)

MTypes == <<"JoinRequest", "JoinAccept", "UnconfirmedUp", "UnconfirmedDown",
            "ConfirmedUp", "ConfirmedDown", "Invalid", "Proprietary">>

\* The top three bits of the MHDR byte.
mtype(mhdr) == MTypes[mhdr \div 32 + 1]

JOIN_REQUEST_LEN == 23
JOIN_ACCEPT_LEN == 17
JOIN_ACCEPT_WITH_CFLIST_LEN == 33
DATA_MIN_LEN == 12

InvalidSize(type, phy_len) ==
  CASE type = "JoinRequest" -> phy_len # JOIN_REQUEST_LEN
    [] type = "JoinAccept" -> phy_len \notin {JOIN_ACCEPT_LEN, JOIN_ACCEPT_WITH_CFLIST_LEN}
    [] type = "Invalid" -> FALSE
    [] OTHER -> phy_len < DATA_MIN_LEN

(***************************************************************************)
(* Reading                                                                 *)
(***************************************************************************)
\* Defect: FOptsLen is read as three bits.
fopts_len_three_bits(fctrl) == fctrl % 8

\* The low four bits of FCtrl.
fopts_len(fctrl) == fctrl % 16

\* The bytes of a MACPayload that the Fhdr takes.
FhdrLen(data) == 7 + fopts_len(data[5])

FhdrRead(data) ==
  [dev_addr |-> little_endian(SubSeq(data, 1, 4)),
   fctrl |-> data[5],
   fcnt |-> little_endian(SubSeq(data, 6, 7)),
   fopts |-> SubSeq(data, 8, FhdrLen(data))]

\* The frame check MIC is already split off, so data is what lies between the
\* MHDR and the MIC.  read_exact fails when there are fewer bytes than asked.
MACPayloadRead(type, data) ==
  IF Len(data) < 7 \/ Len(data) < FhdrLen(data) THEN Err("Io")
  ELSE LET fhdr == FhdrRead(data)
           rest == SubSeq(data, FhdrLen(data) + 1, Len(data))
           fport == SubSeq(rest, 1, IF rest = <<>> THEN 0 ELSE 1)
       IN IF fport = <<0>> /\ fopts_len(fhdr.fctrl) > 0 THEN Err("InvalidFPortForFopts")
          ELSE Ok([frame |-> "MACPayload", fhdr |-> fhdr, fport |-> fport,
                   payload_type |-> type, payload |-> SubSeq(rest, 2, Len(rest))])

JoinRequestRead(data) ==
  [frame |-> "JoinRequest",
   app_eui |-> little_endian(SubSeq(data, 1, 8)),
   dev_eui |-> little_endian(SubSeq(data, 9, 16)),
   dev_nonce |-> SubSeq(data, 17, 18)]

\* What follows rx_delay, the channel list of the longer frame, is not read.
JoinAcceptRead(data) ==
  [frame |-> "JoinAccept",
   app_nonce |-> SubSeq(data, 1, 3),
   net_id |-> SubSeq(data, 4, 6),
   dev_addr |-> little_endian(SubSeq(data, 7, 10)),
   dl_settings |-> data[11],
   rx_delay |-> data[12]]

PHYPayloadFrameRead(type, data) ==
  CASE type = "JoinRequest" -> Ok(JoinRequestRead(data))
    [] type = "JoinAccept" -> Ok(JoinAcceptRead(data))
    [] type = "Proprietary" -> Ok([frame |-> "Proprietary", payload |-> data])
    [] OTHER -> MACPayloadRead(type, data)

PHYPayloadRead(bytes) ==
  IF bytes = <<>> THEN Err("Io")
  ELSE LET type == mtype(bytes[1])
           data == Tail(bytes)
           mic_len == IF type = "Proprietary" THEN 0 ELSE 4
           body == SubSeq(data, 1, Len(data) - mic_len)
       IN IF InvalidSize(type, Len(bytes)) THEN Err("InvalidPacketSize")
          ELSE IF type = "Invalid" THEN Err("InvalidPacketType")
          ELSE LET frame == PHYPayloadFrameRead(type, body)
               IN IF ~frame.ok THEN frame
                  ELSE Ok([mhdr |-> bytes[1], payload |-> frame.value,
                           mic |-> SubSeq(data, Len(body) + 1, Len(data))])

(***************************************************************************)
(* Writing                                                                 *)
(***************************************************************************)
\* dev_addr goes out twice.
FhdrWrite(fhdr) ==
  little_endian(fhdr.dev_addr) \o little_endian(fhdr.dev_addr)
    \o <<fhdr.fctrl>> \o little_endian(fhdr.fcnt) \o fhdr.fopts

MACPayloadWrite(f) == FhdrWrite(f.fhdr) \o f.fport \o f.payload

JoinRequestWrite(f) ==
  little_endian(f.app_eui) \o little_endian(f.dev_eui) \o f.dev_nonce

\* Defect: the two nonces change places.
JoinAcceptWrite_swapped(f) ==
  f.net_id \o f.app_nonce \o little_endian(f.dev_addr) \o <<f.dl_settings, f.rx_delay>>

JoinAcceptWrite(f) ==
  f.app_nonce \o f.net_id \o little_endian(f.dev_addr) \o <<f.dl_settings, f.rx_delay>>

PHYPayloadWrite(phy) ==
  LET f == phy.payload
      body == CASE f.frame = "MACPayload" -> MACPayloadWrite(f)
                [] f.frame = "JoinRequest" -> JoinRequestWrite(f)
                [] f.frame = "JoinAccept" -> JoinAcceptWrite(f)
                [] f.frame = "Proprietary" -> f.payload
  IN <<phy.mhdr>> \o body \o phy.mic

\* PHYPayload::proprietary: the MHDR is 0b111 in its top bits, 0 elsewhere.
proprietary(payload) ==
  [mhdr |-> 224, payload |-> [frame |-> "Proprietary", payload |-> payload], mic |-> <<>>]
=============================================================================
