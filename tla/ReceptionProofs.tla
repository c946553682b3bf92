-------------------------- MODULE ReceptionProofs ---------------------------
(***************************************************************************)
(* What the gateway reads from a frame is what LoRaWAN puts there, and the *)
(* control frames are written back as they were read, for any frames a     *)
(* packet forwarder may hand over; a subnet address and its DevAddr are    *)
(* inverse, for any NetIDs of the network; and a frame goes to the routers *)
(* that own its DevAddr, for any routers with aligned blocks.              *)
(***************************************************************************)
EXTENDS Reception, ListProofs

(***************************************************************************)
(* Parts of a sequence                                                     *)
(***************************************************************************)
LEMMA PartFacts ==
  ASSUME NEW S, NEW s \in Seq(S), NEW i \in Nat \ {0}, NEW j \in Nat, j <= Len(s)
  PROVE  /\ SubSeq(s, i, j) \in Seq(S)
         /\ Len(SubSeq(s, i, j)) = IF i <= j THEN j - i + 1 ELSE 0
         /\ \A k \in 1..j - i + 1 : SubSeq(s, i, j)[k] = s[i + k - 1]
<1>1. PICK a \in Nat : i = a + 1
  <2>1. i - 1 \in Nat /\ i = (i - 1) + 1
    OBVIOUS
  <2> QED
    BY Zenon, <2>1
<1>2. /\ SubSeq(s, a + 1, j) \in Seq(S)
      /\ Len(SubSeq(s, a + 1, j)) = IF a + 1 <= j THEN j - a ELSE 0
      /\ \A k \in 1..j - a : SubSeq(s, a + 1, j)[k] = s[a + k]
  BY <1>1, SubSeqFacts
<1> QED
  BY <1>1, <1>2

\* A part of a part.
LEMMA PartOfPart ==
  ASSUME NEW S, NEW s \in Seq(S), NEW a \in Nat \ {0}, NEW e \in Nat, e <= Len(s),
         NEW i \in Nat \ {0}, NEW j \in Nat, a + j - 1 <= e
  PROVE  SubSeq(SubSeq(s, a, e), i, j) = SubSeq(s, a + i - 1, a + j - 1)
<1> DEFINE b == SubSeq(s, a, e)
           l == SubSeq(b, i, j)
           r == SubSeq(s, a + i - 1, a + j - 1)
<1>1. /\ b \in Seq(S) /\ Len(b) = IF a <= e THEN e - a + 1 ELSE 0
      /\ \A k \in 1..e - a + 1 : b[k] = s[a + k - 1]
  BY PartFacts
<1> HIDE DEF b
<1>2. /\ l \in Seq(S) /\ Len(l) = IF i <= j THEN j - i + 1 ELSE 0
      /\ \A k \in 1..j - i + 1 : l[k] = b[i + k - 1]
  <2>1. j <= Len(b)
    BY <1>1
  <2> QED
    BY <1>1, <2>1, PartFacts
<1>3. /\ r \in Seq(S)
      /\ Len(r) = IF a + i - 1 <= a + j - 1 THEN (a + j - 1) - (a + i - 1) + 1 ELSE 0
      /\ \A k \in 1..(a + j - 1) - (a + i - 1) + 1 : r[k] = s[(a + i - 1) + k - 1]
  <2>1. a + i - 1 \in Nat \ {0} /\ a + j - 1 \in Nat /\ a + j - 1 <= Len(s)
    OBVIOUS
  <2> QED
    BY <2>1, PartFacts
<1> HIDE DEF l, r
<1>4. Len(l) = Len(r)
  BY <1>2, <1>3
<1>5. ASSUME NEW k \in 1..Len(l)
      PROVE  l[k] = r[k]
  <2>1. /\ k \in 1..j - i + 1 /\ k \in 1..(a + j - 1) - (a + i - 1) + 1
        /\ i + k - 1 \in 1..e - a + 1
        /\ (a + i - 1) + k - 1 = a + (i + k - 1) - 1
    BY <1>2
  <2> QED
    BY Zenon, <1>1, <1>2, <1>3, <2>1
<1>6. l = r
  BY <1>2, <1>3, <1>4, <1>5
<1> QED
  BY Zenon, <1>6 DEF l, r, b

LEMMA WholeIsPart ==
  ASSUME NEW S, NEW s \in Seq(S)
  PROVE  /\ SubSeq(s, 1, Len(s)) = s
         /\ s # <<>> => Tail(s) = SubSeq(s, 2, Len(s)) /\ <<s[1]>> = SubSeq(s, 1, 1)
OBVIOUS

\* Two parts that meet are one.
LEMMA PartsMeet ==
  ASSUME NEW S, NEW s \in Seq(S), NEW i \in Nat \ {0}, NEW j \in Nat, NEW k \in Nat,
         i <= j + 1, j <= k, k <= Len(s)
  PROVE  SubSeq(s, i, j) \o SubSeq(s, j + 1, k) = SubSeq(s, i, k)
<1> DEFINE l == SubSeq(s, i, j)
           m == SubSeq(s, j + 1, k)
           r == SubSeq(s, i, k)
           c == l \o m
<1>1. /\ l \in Seq(S) /\ Len(l) = IF i <= j THEN j - i + 1 ELSE 0
      /\ \A x \in 1..j - i + 1 : l[x] = s[i + x - 1]
  <2>1. j <= Len(s)
    OBVIOUS
  <2> QED
    BY <2>1, PartFacts
<1>2. /\ r \in Seq(S) /\ Len(r) = IF i <= k THEN k - i + 1 ELSE 0
      /\ \A x \in 1..k - i + 1 : r[x] = s[i + x - 1]
  BY PartFacts
<1>3. /\ m \in Seq(S) /\ Len(m) = IF j + 1 <= k THEN k - (j + 1) + 1 ELSE 0
      /\ \A x \in 1..k - (j + 1) + 1 : m[x] = s[(j + 1) + x - 1]
  <2>1. j + 1 \in Nat \ {0}
    OBVIOUS
  <2> QED
    BY <2>1, PartFacts
<1> HIDE DEF l, m, r
<1>4. c \in Seq(S) /\ Len(c) = Len(l) + Len(m)
  BY Zenon, <1>1, <1>3, ConcatProperties
<1>5. ASSUME NEW x \in 1..Len(l) + Len(m)
      PROVE  c[x] = IF x <= Len(l) THEN l[x] ELSE m[x - Len(l)]
  BY Zenon, <1>1, <1>3, ConcatProperties
<1> HIDE DEF c
<1>6. Len(l) = j - i + 1 /\ Len(m) = k - j /\ Len(r) = k - i + 1
  BY <1>1, <1>2, <1>3
<1>10. Len(c) = Len(r)
  BY <1>4, <1>6
<1>7. ASSUME NEW x \in 1..Len(l) + Len(m)
      PROVE  c[x] = r[x]
  <2>1. CASE x <= Len(l)
    <3>1. x \in 1..j - i + 1 /\ x \in 1..k - i + 1
      BY <1>6, <2>1
    <3> QED
      BY Zenon, <1>1, <1>2, <1>5, <2>1, <3>1
  <2>2. CASE ~(x <= Len(l))
    <3>1. x - Len(l) \in 1..k - (j + 1) + 1 /\ (j + 1) + (x - Len(l)) - 1 = i + x - 1
          /\ x \in 1..k - i + 1
      BY <1>6, <2>2
    <3> QED
      BY Zenon, <1>2, <1>3, <1>5, <2>2, <3>1
  <2> QED
    BY <2>1, <2>2
<1>8. c = r
  <2>1. \A x \in 1..Len(c) : c[x] = r[x]
    BY Zenon, <1>4, <1>7
  <2>2. c \in Seq(S) /\ r \in Seq(S)
    BY Zenon, <1>2, <1>4
  <2> QED
    BY <1>10, <2>1, <2>2
<1> QED
  BY Zenon, <1>8 DEF c, l, m, r

LEMMA PartOfTwo ==
  ASSUME NEW S, NEW s \in Seq(S), NEW i \in Nat \ {0}, i + 1 <= Len(s)
  PROVE  SubSeq(s, i, i + 1) = <<s[i], s[i + 1]>>
<1>1. PICK j \in Nat : j = i + 1
  OBVIOUS
<1> DEFINE p == SubSeq(s, i, j)
<1>2. /\ p \in Seq(S) /\ Len(p) = IF i <= j THEN j - i + 1 ELSE 0
      /\ \A k \in 1..j - i + 1 : p[k] = s[i + k - 1]
  BY <1>1, PartFacts
<1> HIDE DEF p
<1>3. Len(p) = 2 /\ j - i + 1 = 2 /\ i + 1 - 1 = i /\ i + 2 - 1 = j
  BY <1>1, <1>2
<1>4. p[1] = s[i] /\ p[2] = s[j]
  <2>1. 1 \in 1..2 /\ 2 \in 1..2
    OBVIOUS
  <2> QED
    BY Zenon, <1>2, <1>3, <2>1
<1>5. p = <<s[i], s[j]>>
  BY <1>2, <1>3, <1>4
<1> QED
  BY Zenon, <1>1, <1>5 DEF p

LEMMA BackwardsFacts ==
  ASSUME NEW S, NEW s \in Seq(S)
  PROVE  Backwards(s) \in Seq(S) /\ Len(Backwards(s)) = Len(s) /\ Backwards(Backwards(s)) = s
BY DEF Backwards

(***************************************************************************)
(* What a frame that is accepted gives                                     *)
(***************************************************************************)
\* The bytes that say how a frame is to be read are bytes.
WellFormed(f) ==
  /\ f # <<>> => f[1] \in 0..255
  /\ Len(f) >= 6 => f[6] \in 0..255

LEMMA TypeOf ==
  ASSUME NEW b \in 0..255
  PROVE  mtype(b) \in {"JoinRequest", "JoinAccept", "UnconfirmedUp", "UnconfirmedDown",
                       "ConfirmedUp", "ConfirmedDown", "Invalid", "Proprietary"}
<1>1. b \div 32 + 1 \in 1..8
  OBVIOUS
<1> QED
  BY <1>1 DEF mtype, MTypes

MicLen(type) == IF type = "Proprietary" THEN 0 ELSE 4

\* The body of a frame and its MIC.
LEMMA BodyAndMic ==
  ASSUME NEW S, NEW f \in Seq(S), NEW m \in {0, 4}, Len(f) > m
  PROVE  LET body == SubSeq(Tail(f), 1, Len(Tail(f)) - m)
         IN /\ body = SubSeq(f, 2, Len(f) - m)
            /\ Len(body) = Len(f) - 1 - m
            /\ SubSeq(Tail(f), Len(body) + 1, Len(Tail(f))) = SubSeq(f, Len(f) - m + 1, Len(f))
<1> DEFINE L == Len(f)
           b == SubSeq(f, 2, L - m)
<1>1. L \in Nat /\ L > m /\ f # <<>> /\ Len(Tail(f)) = L - 1
  OBVIOUS
<1>2. Tail(f) = SubSeq(f, 2, L)
  BY <1>1, WholeIsPart
<1> HIDE DEF L
<1>3. L = Len(f)
  BY DEF L
<1>4. SubSeq(SubSeq(f, 2, L), 1, L - 1 - m) = SubSeq(f, 2 + 1 - 1, 2 + (L - 1 - m) - 1)
  <2>1. /\ 2 \in Nat \ {0} /\ L \in Nat /\ L <= Len(f) /\ 1 \in Nat \ {0}
        /\ L - 1 - m \in Nat /\ 2 + (L - 1 - m) - 1 <= L
    BY <1>1, <1>3
  <2> QED
    BY <2>1, PartOfPart
<1>5. 2 + 1 - 1 = 2 /\ 2 + (L - 1 - m) - 1 = L - m
  BY <1>1
<1>6. Len(b) = L - 1 - m
  <2>1. /\ 2 \in Nat \ {0} /\ L - m \in Nat /\ L - m <= Len(f)
    BY <1>1, <1>3
  <2>2. Len(b) = IF 2 <= L - m THEN L - m - 2 + 1 ELSE 0
    BY <2>1, PartFacts
  <2> QED
    BY <1>1, <2>2
<1>7. SubSeq(SubSeq(f, 2, L), L - m, L - 1) = SubSeq(f, 2 + (L - m) - 1, 2 + (L - 1) - 1)
  <2>1. L - m \in Nat \ {0} /\ L - 1 \in Nat
    BY <1>1
  <2>2. 2 \in Nat \ {0} /\ L \in Nat /\ L <= Len(f) /\ 2 + (L - 1) - 1 <= L
    BY <1>1, <1>3
  <2> QED
    BY <2>1, <2>2, PartOfPart
<1>8. /\ 2 + (L - m) - 1 = L - m + 1 /\ 2 + (L - 1) - 1 = L
      /\ L - 1 - m + 1 = L - m
  BY <1>1
<1>9. b = SubSeq(SubSeq(f, 2, L), 1, L - 1 - m)
  BY Zenon, <1>4, <1>5
<1> QED
  BY Zenon, <1>1, <1>2, <1>3, <1>6, <1>7, <1>8, <1>9

\* No accepted size is without a body.
LEMMA AcceptedLength ==
  ASSUME NEW n \in Nat,
         NEW type \in {"JoinRequest", "JoinAccept", "UnconfirmedUp", "UnconfirmedDown",
                       "ConfirmedUp", "ConfirmedDown", "Invalid", "Proprietary"},
         ~InvalidSize(type, n), type # "Invalid"
  PROVE  MicLen(type) \in {0, 4} /\ n > MicLen(type)
<1>1. n \in {23, 17, 33} \/ n >= 12
  BY DEF InvalidSize, JOIN_REQUEST_LEN, JOIN_ACCEPT_LEN, JOIN_ACCEPT_WITH_CFLIST_LEN,
         DATA_MIN_LEN
<1> QED
  BY <1>1 DEF MicLen

\* read hands the body to the frame's own read, and keeps its errors.
LEMMA ReadFacts ==
  ASSUME NEW S, NEW f \in Seq(S), WellFormed(f), PHYPayloadRead(f).ok
  PROVE  LET type == mtype(f[1])
             m == MicLen(type)
             r == PHYPayloadFrameRead(type, SubSeq(f, 2, Len(f) - m))
         IN /\ f # <<>> /\ Len(f) > m
            /\ ~InvalidSize(type, Len(f)) /\ type # "Invalid"
            /\ r.ok
            /\ PHYPayloadRead(f).value = [mhdr |-> f[1], payload |-> r.value,
                                         mic |-> SubSeq(f, Len(f) - m + 1, Len(f))]
<1> DEFINE type == mtype(f[1])
           m == MicLen(type)
           body == SubSeq(Tail(f), 1, Len(Tail(f)) - m)
           r == PHYPayloadFrameRead(type, body)
           mic == SubSeq(Tail(f), Len(body) + 1, Len(Tail(f)))
           value == [mhdr |-> f[1], payload |-> r.value, mic |-> mic]
           ok == Ok(value)
<1>1. f # <<>>
  BY DEF PHYPayloadRead, Err
<1>2. PHYPayloadRead(f) = IF InvalidSize(type, Len(f)) THEN Err("InvalidPacketSize")
                          ELSE IF type = "Invalid" THEN Err("InvalidPacketType")
                          ELSE IF ~r.ok THEN r ELSE ok
  BY Zenon, <1>1 DEF PHYPayloadRead, MicLen
<1> HIDE DEF r, ok, type
<1>3. ~InvalidSize(type, Len(f)) /\ type # "Invalid" /\ r.ok /\ PHYPayloadRead(f) = ok
  BY <1>2 DEF Err
<1>4. m \in {0, 4} /\ Len(f) > m
  <2>1. Len(f) \in Nat /\ Len(f) > 0
    BY <1>1
  <2>2. type \in {"JoinRequest", "JoinAccept", "UnconfirmedUp", "UnconfirmedDown",
                  "ConfirmedUp", "ConfirmedDown", "Invalid", "Proprietary"}
    BY Zenon, <1>1, TypeOf DEF type, WellFormed
  <2> QED
    BY Zenon, <1>3, <2>1, <2>2, AcceptedLength
<1> HIDE DEF m
<1>5. body = SubSeq(f, 2, Len(f) - m) /\ mic = SubSeq(f, Len(f) - m + 1, Len(f))
  BY Zenon, <1>4, BodyAndMic
<1> HIDE DEF value
<1>6. PHYPayloadRead(f).value = value
  BY <1>3 DEF ok, Ok
<1> QED
  BY Zenon, <1>1, <1>3, <1>4, <1>5, <1>6 DEF value, r, m, type

\* The fields of a join request.
LEMMA JoinRequestFacts ==
  ASSUME NEW S, NEW f \in Seq(S), WellFormed(f), PHYPayloadRead(f).ok,
         mtype(f[1]) = "JoinRequest"
  PROVE  /\ Len(f) = 23
         /\ PHYPayloadRead(f).value =
              [mhdr |-> f[1],
               payload |-> [frame |-> "JoinRequest",
                            app_eui |-> Backwards(SubSeq(f, 2, 9)),
                            dev_eui |-> Backwards(SubSeq(f, 10, 17)),
                            dev_nonce |-> SubSeq(f, 18, 19)],
               mic |-> SubSeq(f, 20, 23)]
<1> DEFINE b == SubSeq(f, 2, 19)
<1>1. Len(f) = 23
  BY Zenon, ReadFacts DEF InvalidSize, JOIN_REQUEST_LEN
<1>2. /\ PHYPayloadRead(f).value = [mhdr |-> f[1],
                                   payload |-> PHYPayloadFrameRead("JoinRequest", b).value,
                                   mic |-> SubSeq(f, 20, 23)]
  <2>1. 23 - 4 = 19 /\ 23 - 4 + 1 = 20
    OBVIOUS
  <2>2. MicLen("JoinRequest") = 4
    BY DEF MicLen
  <2>3. PHYPayloadRead(f).value =
          [mhdr |-> f[1],
           payload |-> PHYPayloadFrameRead("JoinRequest", SubSeq(f, 2, 23 - 4)).value,
           mic |-> SubSeq(f, 23 - 4 + 1, 23)]
    BY Zenon, <1>1, <2>2, ReadFacts
  <2> QED
    BY Zenon, <2>1, <2>3
<1>3. /\ SubSeq(b, 1, 8) = SubSeq(f, 2, 9)
      /\ SubSeq(b, 9, 16) = SubSeq(f, 10, 17)
      /\ SubSeq(b, 17, 18) = SubSeq(f, 18, 19)
  <2>1. /\ SubSeq(b, 1, 8) = SubSeq(f, 2 + 1 - 1, 2 + 8 - 1)
        /\ SubSeq(b, 9, 16) = SubSeq(f, 2 + 9 - 1, 2 + 16 - 1)
        /\ SubSeq(b, 17, 18) = SubSeq(f, 2 + 17 - 1, 2 + 18 - 1)
    BY <1>1, PartOfPart
  <2> QED
    BY <2>1
<1> HIDE DEF b
<1> QED
  BY Zenon, <1>1, <1>2, <1>3 DEF PHYPayloadFrameRead, JoinRequestRead, Ok, little_endian

\* The fields of a join accept, whose channel list is left aside.
LEMMA JoinAcceptFacts ==
  ASSUME NEW S, NEW f \in Seq(S), WellFormed(f), PHYPayloadRead(f).ok,
         mtype(f[1]) = "JoinAccept"
  PROVE  /\ Len(f) \in {17, 33}
         /\ PHYPayloadRead(f).value.payload.frame = "JoinAccept"
         /\ Len(f) = 17 => PHYPayloadRead(f).value =
              [mhdr |-> f[1],
               payload |-> [frame |-> "JoinAccept",
                            app_nonce |-> SubSeq(f, 2, 4),
                            net_id |-> SubSeq(f, 5, 7),
                            dev_addr |-> Backwards(SubSeq(f, 8, 11)),
                            dl_settings |-> f[12],
                            rx_delay |-> f[13]],
               mic |-> SubSeq(f, 14, 17)]
<1> DEFINE b == SubSeq(f, 2, 13)
<1>1. Len(f) \in {17, 33}
  BY Zenon, ReadFacts DEF InvalidSize, JOIN_ACCEPT_LEN, JOIN_ACCEPT_WITH_CFLIST_LEN
<1>2. MicLen("JoinAccept") = 4
  BY DEF MicLen
<1>3. PHYPayloadRead(f).value =
        [mhdr |-> f[1],
         payload |-> JoinAcceptRead(SubSeq(f, 2, Len(f) - 4)),
         mic |-> SubSeq(f, Len(f) - 4 + 1, Len(f))]
  <2>1. \A data : PHYPayloadFrameRead("JoinAccept", data).value = JoinAcceptRead(data)
    BY DEF PHYPayloadFrameRead, Ok
  <2> QED
    BY Zenon, <1>2, <2>1, ReadFacts
<1>4. PHYPayloadRead(f).value.payload.frame = "JoinAccept"
  <2>1. \A data : JoinAcceptRead(data).frame = "JoinAccept"
    BY DEF JoinAcceptRead
  <2> QED
    BY <1>3, <2>1
<1>5. ASSUME Len(f) = 17
      PROVE  /\ SubSeq(b, 1, 3) = SubSeq(f, 2, 4) /\ SubSeq(b, 4, 6) = SubSeq(f, 5, 7)
             /\ SubSeq(b, 7, 10) = SubSeq(f, 8, 11)
             /\ b[11] = f[12] /\ b[12] = f[13]
  <2>1. /\ SubSeq(b, 1, 3) = SubSeq(f, 2 + 1 - 1, 2 + 3 - 1)
        /\ SubSeq(b, 4, 6) = SubSeq(f, 2 + 4 - 1, 2 + 6 - 1)
        /\ SubSeq(b, 7, 10) = SubSeq(f, 2 + 7 - 1, 2 + 10 - 1)
    BY <1>5, PartOfPart
  <2>2. \A k \in 1..13 - 2 + 1 : b[k] = f[2 + k - 1]
    BY <1>5, PartFacts
  <2> HIDE DEF b
  <2> QED
    BY <2>1, <2>2
<1>6. ASSUME Len(f) = 17
      PROVE  PHYPayloadRead(f).value =
               [mhdr |-> f[1], payload |-> JoinAcceptRead(b), mic |-> SubSeq(f, 14, 17)]
  <2>1. 17 - 4 = 13 /\ 17 - 4 + 1 = 14
    OBVIOUS
  <2>2. PHYPayloadRead(f).value =
          [mhdr |-> f[1], payload |-> JoinAcceptRead(SubSeq(f, 2, 17 - 4)),
           mic |-> SubSeq(f, 17 - 4 + 1, 17)]
    BY Zenon, <1>3, <1>6
  <2> QED
    BY Zenon, <2>1, <2>2
<1> HIDE DEF b
<1> QED
  BY Zenon, <1>1, <1>4, <1>5, <1>6 DEF JoinAcceptRead, little_endian

\* The payload of a proprietary frame is all that follows its MHDR.
LEMMA ProprietaryFacts ==
  ASSUME NEW S, NEW f \in Seq(S), WellFormed(f), PHYPayloadRead(f).ok,
         mtype(f[1]) = "Proprietary"
  PROVE  PHYPayloadRead(f).value =
           [mhdr |-> f[1],
            payload |-> [frame |-> "Proprietary", payload |-> SubSeq(f, 2, Len(f))],
            mic |-> SubSeq(f, Len(f) + 1, Len(f))]
<1>1. MicLen("Proprietary") = 0
  BY DEF MicLen
<1>2. Len(f) - 0 = Len(f)
  OBVIOUS
<1>3. \A data : PHYPayloadFrameRead("Proprietary", data).value =
                  [frame |-> "Proprietary", payload |-> data]
  BY DEF PHYPayloadFrameRead, Ok
<1>4. PHYPayloadRead(f).value =
        [mhdr |-> f[1],
         payload |-> PHYPayloadFrameRead("Proprietary", SubSeq(f, 2, Len(f) - 0)).value,
         mic |-> SubSeq(f, Len(f) - 0 + 1, Len(f))]
  BY Zenon, <1>1, ReadFacts
<1> QED
  BY Zenon, <1>2, <1>3, <1>4

DataTypes == {"UnconfirmedUp", "UnconfirmedDown", "ConfirmedUp", "ConfirmedDown"}

LEMMA FoptsLen ==
  ASSUME NEW b \in 0..255
  PROVE  fopts_len(b) \in Nat
BY DEF fopts_len

\* The lengths that MACPayload's read trusts are those of the data.
LEMMA MACPayloadFacts ==
  ASSUME NEW S, NEW d \in Seq(S), NEW type, Len(d) >= 5 => d[5] \in 0..255,
         MACPayloadRead(type, d).ok
  PROVE  /\ fopts_len(d[5]) \in Nat /\ 7 + fopts_len(d[5]) <= Len(d)
         /\ MACPayloadRead(type, d).value.frame = "MACPayload"
         /\ MACPayloadRead(type, d).value.fhdr.dev_addr = Backwards(SubSeq(d, 1, 4))
         /\ fopts_len(d[5]) > 0 /\ 7 + fopts_len(d[5]) < Len(d) => d[8 + fopts_len(d[5])] # 0
<1> DEFINE n == fopts_len(d[5])
           fhdr == FhdrRead(d)
           rest == SubSeq(d, FhdrLen(d) + 1, Len(d))
           fport == SubSeq(rest, 1, IF rest = <<>> THEN 0 ELSE 1)
           value == [frame |-> "MACPayload", fhdr |-> fhdr, fport |-> fport,
                     payload_type |-> type, payload |-> SubSeq(rest, 2, Len(rest))]
<1>1. MACPayloadRead(type, d) =
        IF Len(d) < 7 \/ Len(d) < FhdrLen(d) THEN Err("Io")
        ELSE IF fport = <<0>> /\ fopts_len(fhdr.fctrl) > 0 THEN Err("InvalidFPortForFopts")
        ELSE Ok(value)
  BY Zenon DEF MACPayloadRead
<1>2. fhdr.fctrl = d[5] /\ fhdr.dev_addr = Backwards(SubSeq(d, 1, 4))
  BY DEF FhdrRead, little_endian
<1>3. value.frame = "MACPayload" /\ value.fhdr = fhdr
  <2> HIDE DEF fhdr, fport, rest
  <2> QED
    BY DEF value
<1>4. FhdrLen(d) = 7 + n /\ fopts_len(fhdr.fctrl) = n
  BY Zenon, <1>2 DEF FhdrLen
<1> HIDE DEF fhdr, fport, value
<1>5. /\ ~(Len(d) < 7) /\ ~(Len(d) < 7 + n)
      /\ ~(fport = <<0>> /\ n > 0)
      /\ MACPayloadRead(type, d) = Ok(value)
  <2>1. ~Err("Io").ok /\ ~Err("InvalidFPortForFopts").ok
    BY DEF Err
  <2> QED
    BY Zenon, <1>1, <1>4, <2>1
<1>6. MACPayloadRead(type, d).value = value
  BY <1>5 DEF Ok
<1>7. Len(d) \in Nat /\ n \in Nat
  <2>1. Len(d) \in Nat
    OBVIOUS
  <2>2. ~(Len(d) < 7) => Len(d) >= 5
    BY <2>1
  <2>3. d[5] \in 0..255
    BY Zenon, <1>5, <2>2
  <2> QED
    BY Zenon, <2>1, <2>3, FoptsLen
<1>8. 7 + n <= Len(d)
  <2> HIDE DEF n
  <2> QED
    BY <1>5, <1>7
<1>9. ASSUME n > 0, 7 + n < Len(d)
      PROVE  d[8 + n] # 0
  <2> HIDE DEF n
  <2>1. rest = SubSeq(d, 7 + n + 1, Len(d))
    BY Zenon, <1>4
  <2>2. /\ rest \in Seq(S) /\ Len(rest) = Len(d) - (7 + n + 1) + 1
        /\ \A k \in 1..Len(d) - (7 + n + 1) + 1 : rest[k] = d[7 + n + 1 + k - 1]
    <3> HIDE DEF rest
    <3>1. 7 + n + 1 \in Nat \ {0} /\ Len(d) \in Nat /\ Len(d) <= Len(d) /\ 7 + n + 1 <= Len(d)
      BY <1>7, <1>9
    <3> QED
      BY <2>1, <3>1, PartFacts
  <2> HIDE DEF rest
  <2>3. Len(rest) >= 1 /\ rest[1] = d[8 + n]
    <3>1. 1 \in 1..Len(d) - (7 + n + 1) + 1 /\ 7 + n + 1 + 1 - 1 = 8 + n
      BY <1>7, <1>9
    <3>2. rest[1] = d[8 + n]
      BY Zenon, <2>2, <3>1
    <3>3. Len(rest) >= 1
      BY <1>7, <1>9, <2>2
    <3> QED
      BY Zenon, <3>2, <3>3
  <2>4. rest # <<>>
    BY <2>2, <2>3
  <2>5. fport = <<rest[1]>>
    <3>1. fport = SubSeq(rest, 1, 1)
      BY Zenon, <2>4 DEF fport
    <3> QED
      BY Zenon, <2>2, <2>4, <3>1, WholeIsPart
  <2> QED
    BY Zenon, <1>5, <1>9, <2>3, <2>5
<1> QED
  BY Zenon, <1>2, <1>3, <1>6, <1>7, <1>8, <1>9

\* A data frame is routed by the DevAddr after its MHDR, and its options end
\* before its MIC.
LEMMA DataFacts ==
  ASSUME NEW S, NEW f \in Seq(S), WellFormed(f), PHYPayloadRead(f).ok,
         mtype(f[1]) \in DataTypes
  PROVE  /\ PHYPayloadRead(f).value.payload.frame = "MACPayload"
         /\ PHYPayloadRead(f).value.payload.fhdr.dev_addr = Backwards(SubSeq(f, 2, 5))
         /\ 12 <= Len(f) /\ 8 + fopts_len(f[6]) + 4 <= Len(f)
         /\ fopts_len(f[6]) > 0 /\ 8 + fopts_len(f[6]) + 4 < Len(f) => f[9 + fopts_len(f[6])] # 0
<1> DEFINE type == mtype(f[1])
           d == SubSeq(f, 2, Len(f) - 4)
           n == fopts_len(f[6])
<1>1. MicLen(type) = 4 /\ PHYPayloadFrameRead(type, d) = MACPayloadRead(type, d)
  BY DEF MicLen, PHYPayloadFrameRead, DataTypes
<1>2. /\ Len(f) > 4 /\ MACPayloadRead(type, d).ok
      /\ PHYPayloadRead(f).value = [mhdr |-> f[1], payload |-> MACPayloadRead(type, d).value,
                                   mic |-> SubSeq(f, Len(f) - 4 + 1, Len(f))]
  <2>1. LET m == MicLen(type)
            r == PHYPayloadFrameRead(type, SubSeq(f, 2, Len(f) - m))
        IN /\ Len(f) > m /\ r.ok
           /\ PHYPayloadRead(f).value = [mhdr |-> f[1], payload |-> r.value,
                                        mic |-> SubSeq(f, Len(f) - m + 1, Len(f))]
    BY Zenon, ReadFacts
  <2> HIDE DEF type
  <2> QED
    BY Zenon, <1>1, <2>1
<1> HIDE DEF type
<1>3. PHYPayloadRead(f).value.payload = MACPayloadRead(type, d).value
  <2> HIDE DEF d
  <2> QED
    BY <1>2
<1>4. /\ d \in Seq(S) /\ Len(d) = Len(f) - 5
      /\ \A k \in 1..Len(f) - 4 - 2 + 1 : d[k] = f[2 + k - 1]
  <2>1. 2 \in Nat \ {0} /\ Len(f) - 4 \in Nat /\ Len(f) - 4 <= Len(f)
    BY <1>2
  <2>0. Len(f) \in Nat /\ Len(f) > 4
    BY <1>2
  <2>2. /\ d \in Seq(S) /\ Len(d) = IF 2 <= Len(f) - 4 THEN Len(f) - 4 - 2 + 1 ELSE 0
        /\ \A k \in 1..Len(f) - 4 - 2 + 1 : d[k] = f[2 + k - 1]
    BY <2>1, PartFacts
  <2> HIDE DEF d
  <2>3. Len(d) = Len(f) - 5
    <3>1. Len(d) = IF 2 <= Len(f) - 4 THEN Len(f) - 4 - 2 + 1 ELSE 0
      BY Zenon, <2>2
    <3>2. \A k \in Nat : k > 4 => (IF 2 <= k - 4 THEN k - 4 - 2 + 1 ELSE 0) = k - 5
      OBVIOUS
    <3> QED
      BY Zenon, <2>0, <3>1, <3>2
  <2> QED
    BY Zenon, <2>2, <2>3
<1>5. Len(d) >= 5 => d[5] = f[6] /\ d[5] \in 0..255
  <2> HIDE DEF d
  <2> SUFFICES ASSUME Len(d) >= 5 PROVE d[5] = f[6] /\ d[5] \in 0..255
    OBVIOUS
  <2>1. 5 \in 1..Len(f) - 4 - 2 + 1 /\ 2 + 5 - 1 = 6 /\ Len(f) >= 6
    <3>1. Len(f) \in Nat /\ Len(f) - 5 >= 5
      BY <1>4
    <3> QED
      BY <3>1
  <2>2. d[5] = f[6]
    BY Zenon, <1>4, <2>1
  <2>3. f[6] \in 0..255
    BY Zenon, <2>1 DEF WellFormed
  <2> QED
    BY Zenon, <2>2, <2>3
<1>6. /\ fopts_len(d[5]) \in Nat /\ 7 + fopts_len(d[5]) <= Len(d)
      /\ MACPayloadRead(type, d).value.frame = "MACPayload"
      /\ MACPayloadRead(type, d).value.fhdr.dev_addr = Backwards(SubSeq(d, 1, 4))
      /\ fopts_len(d[5]) > 0 /\ 7 + fopts_len(d[5]) < Len(d) => d[8 + fopts_len(d[5])] # 0
  <2> HIDE DEF d
  <2> QED
    BY Zenon, <1>2, <1>4, <1>5, MACPayloadFacts
<1>7. d[5] = f[6] /\ n \in Nat /\ 7 + n <= Len(f) - 5
  <2> HIDE DEF d
  <2>1. Len(d) >= 5
    BY <1>4, <1>6
  <2> QED
    BY Zenon, <1>4, <1>5, <1>6, <2>1
<1>8. SubSeq(d, 1, 4) = SubSeq(f, 2, 5)
  <2>1. 2 + 1 - 1 = 2 /\ 2 + 4 - 1 = 5
    OBVIOUS
  <2>2. /\ 4 \in Nat /\ 2 \in Nat \ {0} /\ 1 \in Nat \ {0}
        /\ Len(f) - 4 \in Nat /\ Len(f) - 4 <= Len(f) /\ 2 + 4 - 1 <= Len(f) - 4
    <3> HIDE DEF n
    <3> QED
      BY <1>2, <1>7
  <2>3. SubSeq(d, 1, 4) = SubSeq(f, 2 + 1 - 1, 2 + 4 - 1)
    BY <2>2, PartOfPart
  <2> QED
    BY Zenon, <2>1, <2>3
<1> HIDE DEF d, n
<1>9. 12 <= Len(f) /\ 8 + n + 4 <= Len(f)
  BY <1>7
<1>10. ASSUME n > 0, 8 + n + 4 < Len(f)
       PROVE  f[9 + n] # 0
  <2>1. 7 + n < Len(d) /\ 8 + n \in 1..Len(f) - 4 - 2 + 1 /\ 2 + (8 + n) - 1 = 9 + n
    BY <1>4, <1>7, <1>10
  <2> QED
    BY Zenon, <1>4, <1>6, <1>7, <1>10, <2>1 DEF n
<1> QED
  BY Zenon, <1>3, <1>6, <1>8, <1>9, <1>10 DEF n

(***************************************************************************)
(* What a control frame is written back as                                 *)
(***************************************************************************)
\* Parts that meet, from the first byte to the last.
LEMMA Join3 ==
  ASSUME NEW S, NEW f \in Seq(S), f # <<>>, NEW a \in 1..Len(f)
  PROVE  <<f[1]>> \o SubSeq(f, 2, a) \o SubSeq(f, a + 1, Len(f)) = f
<1>1. <<f[1]>> = SubSeq(f, 1, 1) /\ SubSeq(f, 1, Len(f)) = f
  BY WholeIsPart
<1>2. SubSeq(f, 1, 1) \o SubSeq(f, 1 + 1, a) = SubSeq(f, 1, a)
  BY PartsMeet
<1>3. SubSeq(f, 1, a) \o SubSeq(f, a + 1, Len(f)) = SubSeq(f, 1, Len(f))
  BY PartsMeet
<1>4. 1 + 1 = 2
  OBVIOUS
<1> QED
  BY Zenon, <1>1, <1>2, <1>3, <1>4

\* The values of a join request make up its bytes again.
LEMMA JoinRequestBack ==
  ASSUME NEW S, NEW f \in Seq(S), Len(f) = 23
  PROVE  Backwards(Backwards(SubSeq(f, 2, 9))) \o Backwards(Backwards(SubSeq(f, 10, 17)))
           \o SubSeq(f, 18, 19) = SubSeq(f, 2, 19)
<1>1. /\ SubSeq(f, 2, 9) \o SubSeq(f, 9 + 1, 17) = SubSeq(f, 2, 17)
      /\ SubSeq(f, 2, 17) \o SubSeq(f, 17 + 1, 19) = SubSeq(f, 2, 19)
  BY PartsMeet
<1>2. 9 + 1 = 10 /\ 17 + 1 = 18
  OBVIOUS
<1>3. SubSeq(f, 2, 9) \in Seq(S) /\ SubSeq(f, 10, 17) \in Seq(S)
  <2>1. /\ 2 \in Nat \ {0} /\ 9 \in Nat /\ 9 <= Len(f)
        /\ 10 \in Nat \ {0} /\ 17 \in Nat /\ 17 <= Len(f)
    OBVIOUS
  <2> QED
    BY Zenon, <2>1, PartFacts
<1>4. /\ Backwards(Backwards(SubSeq(f, 2, 9))) = SubSeq(f, 2, 9)
      /\ Backwards(Backwards(SubSeq(f, 10, 17))) = SubSeq(f, 10, 17)
  BY Zenon, <1>3, BackwardsFacts
<1> QED
  BY Zenon, <1>1, <1>2, <1>4

LEMMA JoinAcceptBack ==
  ASSUME NEW S, NEW f \in Seq(S), Len(f) = 17
  PROVE  SubSeq(f, 2, 4) \o SubSeq(f, 5, 7) \o Backwards(Backwards(SubSeq(f, 8, 11)))
           \o <<f[12], f[13]>> = SubSeq(f, 2, 13)
<1>1. /\ SubSeq(f, 2, 4) \o SubSeq(f, 4 + 1, 7) = SubSeq(f, 2, 7)
      /\ SubSeq(f, 2, 7) \o SubSeq(f, 7 + 1, 11) = SubSeq(f, 2, 11)
      /\ SubSeq(f, 2, 11) \o SubSeq(f, 11 + 1, 13) = SubSeq(f, 2, 13)
  BY PartsMeet
<1>2. 4 + 1 = 5 /\ 7 + 1 = 8 /\ 11 + 1 = 12
  OBVIOUS
<1>3. Backwards(Backwards(SubSeq(f, 8, 11))) = SubSeq(f, 8, 11)
  <2>1. 8 \in Nat \ {0} /\ 11 \in Nat /\ 11 <= Len(f)
    OBVIOUS
  <2>2. SubSeq(f, 8, 11) \in Seq(S)
    BY Zenon, <2>1, PartFacts
  <2> QED
    BY Zenon, <2>2, BackwardsFacts
<1>4. SubSeq(f, 12, 13) = <<f[12], f[13]>>
  <2>1. 12 \in Nat \ {0} /\ 12 + 1 = 13 /\ 13 <= Len(f)
    OBVIOUS
  <2> QED
    BY Zenon, <2>1, PartOfTwo
<1> QED
  BY Zenon, <1>1, <1>2, <1>3, <1>4

LEMMA ControlBack ==
  ASSUME NEW S, NEW f \in Seq(S), WellFormed(f), PHYPayloadRead(f).ok,
         PHYPayloadRead(f).value.payload.frame # "MACPayload",
         PHYPayloadRead(f).value.payload.frame = "JoinAccept" => Len(f) # 33
  PROVE  PHYPayloadWrite(PHYPayloadRead(f).value) = f
<1> DEFINE value == PHYPayloadRead(f).value
           type == mtype(f[1])
<1>1. f # <<>> /\ type # "Invalid"
  BY Zenon, ReadFacts
<1>2. type \in {"JoinRequest", "JoinAccept", "Proprietary"}
  <2>1. type \in {"JoinRequest", "JoinAccept", "UnconfirmedUp", "UnconfirmedDown",
                  "ConfirmedUp", "ConfirmedDown", "Invalid", "Proprietary"}
    BY Zenon, <1>1, TypeOf DEF WellFormed
  <2>2. type \notin DataTypes
    BY Zenon, DataFacts
  <2> QED
    BY Zenon, <1>1, <2>1, <2>2 DEF DataTypes
<1>3. CASE type = "JoinRequest"
  <2> DEFINE p == [frame |-> "JoinRequest",
                   app_eui |-> Backwards(SubSeq(f, 2, 9)),
                   dev_eui |-> Backwards(SubSeq(f, 10, 17)),
                   dev_nonce |-> SubSeq(f, 18, 19)]
  <2>1. Len(f) = 23 /\ value = [mhdr |-> f[1], payload |-> p, mic |-> SubSeq(f, 20, 23)]
    BY Zenon, <1>3, JoinRequestFacts
  <2>2. JoinRequestWrite(p) = SubSeq(f, 2, 19) /\ p.frame = "JoinRequest"
    BY Zenon, <2>1, JoinRequestBack DEF JoinRequestWrite, little_endian
  <2> HIDE DEF p, value
  <2>3. PHYPayloadWrite(value) = <<f[1]>> \o SubSeq(f, 2, 19) \o SubSeq(f, 20, 23)
    BY Zenon, <2>1, <2>2 DEF PHYPayloadWrite
  <2>4. 19 \in 1..Len(f) /\ 19 + 1 = 20
    BY <2>1
  <2> QED
    BY Zenon, <1>1, <2>1, <2>3, <2>4, Join3 DEF value
<1>4. CASE type = "JoinAccept"
  <2> DEFINE p == [frame |-> "JoinAccept",
                   app_nonce |-> SubSeq(f, 2, 4),
                   net_id |-> SubSeq(f, 5, 7),
                   dev_addr |-> Backwards(SubSeq(f, 8, 11)),
                   dl_settings |-> f[12],
                   rx_delay |-> f[13]]
  <2>1. Len(f) = 17 /\ value = [mhdr |-> f[1], payload |-> p, mic |-> SubSeq(f, 14, 17)]
    BY Zenon, <1>4, JoinAcceptFacts
  <2>2. JoinAcceptWrite(p) = SubSeq(f, 2, 13) /\ p.frame = "JoinAccept"
    BY Zenon, <2>1, JoinAcceptBack DEF JoinAcceptWrite, little_endian
  <2> HIDE DEF p, value
  <2>3. PHYPayloadWrite(value) = <<f[1]>> \o SubSeq(f, 2, 13) \o SubSeq(f, 14, 17)
    BY Zenon, <2>1, <2>2 DEF PHYPayloadWrite
  <2>4. 13 \in 1..Len(f) /\ 13 + 1 = 14
    BY <2>1
  <2> QED
    BY Zenon, <1>1, <2>1, <2>3, <2>4, Join3 DEF value
<1>5. CASE type = "Proprietary"
  <2> DEFINE p == [frame |-> "Proprietary", payload |-> SubSeq(f, 2, Len(f))]
  <2>1. value = [mhdr |-> f[1], payload |-> p, mic |-> SubSeq(f, Len(f) + 1, Len(f))]
    BY Zenon, <1>5, ProprietaryFacts
  <2>2. p.payload = SubSeq(f, 2, Len(f)) /\ p.frame = "Proprietary"
    BY Zenon
  <2> HIDE DEF p, value
  <2>3. PHYPayloadWrite(value) =
          <<f[1]>> \o SubSeq(f, 2, Len(f)) \o SubSeq(f, Len(f) + 1, Len(f))
    BY <2>1, <2>2 DEF PHYPayloadWrite
  <2>4. Len(f) \in 1..Len(f)
    BY <1>1
  <2> QED
    BY Zenon, <1>1, <2>3, <2>4, Join3 DEF value
<1> QED
  BY Zenon, <1>2, <1>3, <1>4, <1>5

(***************************************************************************)
(* Running sums                                                            *)
(***************************************************************************)
\* A sequence of running sums, each c times the one before and the next number.
LEMMA RunningSum ==
  ASSUME NEW len \in Nat, NEW a \in [1..len -> Nat], NEW c \in Nat
  PROVE  \E f \in [0..len -> Nat] : f[0] = 0 /\ \A n \in 1..len : f[n] = c * f[n - 1] + a[n]
<1> DEFINE step == [x \in Nat \X Nat |-> IF x[1] + 1 \in 1..len THEN c * x[2] + a[x[1] + 1] ELSE 0]
<1>1. ASSUME NEW n \in Nat, NEW v \in Nat
      PROVE  /\ n + 1 \in 1..len => step[<<n, v>>] = c * v + a[n + 1]
             /\ step[<<n, v>>] \in Nat
  <2>1. step[<<n, v>>] = IF n + 1 \in 1..len THEN c * v + a[n + 1] ELSE 0
    OBVIOUS
  <2>2. c * v \in Nat
    OBVIOUS
  <2>3. n + 1 \in 1..len => a[n + 1] \in Nat
    OBVIOUS
  <2> HIDE DEF step
  <2>4. 0 \in Nat /\ \A x, y \in Nat : x + y \in Nat
    OBVIOUS
  <2> QED
    BY Zenon, <2>1, <2>2, <2>3, <2>4
<1>2. step \in [Nat \X Nat -> Nat]
  <2>1. \A x \in Nat \X Nat : x[1] \in Nat /\ x[2] \in Nat /\ x = <<x[1], x[2]>>
    OBVIOUS
  <2>2. \A x \in Nat \X Nat : step[x] \in Nat
    <3> HIDE DEF step
    <3> QED
      BY <1>1, <2>1
  <2> QED
    BY <2>2
<1> HIDE DEF step
<1>3. PICK g \in [Nat -> Nat] : g[0] = 0 /\ \A n \in Nat : g[n + 1] = step[<<n, g[n]>>]
  <2>1. Iterates(Nat, 0, step) # {}
    <3>1. 0 \in Nat
      OBVIOUS
    <3> QED
      BY <1>2, <3>1, Recursion, Zenon
  <2> QED
    BY Zenon, <2>1 DEF Iterates
<1> DEFINE f == [n \in 0..len |-> g[n]]
<1>4. f \in [0..len -> Nat] /\ f[0] = 0
  BY <1>3
<1>5. ASSUME NEW n \in 1..len
      PROVE  f[n] = c * f[n - 1] + a[n]
  <2>1. PICK m \in Nat : m + 1 = n
    <3>1. n - 1 \in Nat /\ (n - 1) + 1 = n
      OBVIOUS
    <3> QED
      BY Zenon, <3>1
  <2>2. g[m] \in Nat /\ g[m + 1] = step[<<m, g[m]>>]
    BY <1>3, <2>1
  <2>3. g[n] = c * g[m] + a[n]
    BY Zenon, <1>1, <2>1, <2>2
  <2>4. n \in 0..len /\ m \in 0..len /\ n - 1 = m
    BY <2>1
  <2> QED
    BY Zenon, <2>3, <2>4
<1> HIDE DEF f
<1> QED
  BY Zenon, <1>4, <1>5

\* The number that the first n bits of a word are.
LEMMA ValuesNext ==
  ASSUME NEW bits \in Seq(Nat)
  PROVE  /\ Values(bits)[0] = 0
         /\ \A n \in 1..Len(bits) : Values(bits)[n] = 2 * Values(bits)[n - 1] + bits[n]
<1> DEFINE D(f, n) == IF n = 0 THEN 0 ELSE 2 * f[n - 1] + bits[n]
           v == Values(bits)
<1>1. Len(bits) \in Nat /\ bits \in [1..Len(bits) -> Nat] /\ 2 \in Nat
  OBVIOUS
<1>2. PICK f \in [0..Len(bits) -> Nat] :
        f[0] = 0 /\ \A n \in 1..Len(bits) : f[n] = 2 * f[n - 1] + bits[n]
  BY Zenon, <1>1, RunningSum
<1>3. f = [n \in 0..Len(bits) |-> D(f, n)]
  <2>1. \A n \in 0..Len(bits) : n # 0 => n \in 1..Len(bits)
    BY <1>1
  <2>2. \A n \in 0..Len(bits) : f[n] = D(f, n)
    BY Zenon, <1>2, <2>1
  <2>3. f = [n \in 0..Len(bits) |-> f[n]]
    BY Zenon, <1>2
  <2> HIDE DEF D
  <2> QED
    BY Zenon, <2>2, <2>3
<1>4. v = [n \in 0..Len(bits) |-> D(v, n)]
  BY Zenon, <1>3 DEF Values
<1> HIDE DEF v
<1>5. \A n \in 0..Len(bits) : v[n] = D(v, n)
  BY Zenon, <1>4
<1>6. 0 \in 0..Len(bits) /\ \A n \in 1..Len(bits) : n \in 0..Len(bits) /\ n # 0
  BY <1>1
<1> QED
  BY Zenon, <1>5, <1>6 DEF v

\* The addresses of the first n NetIDs of a list.
LEMMA SizesNext ==
  ASSUME NEW T, NEW list \in Seq(T), \A i \in 1..Len(list) : netid_size(list[i]) \in Nat
  PROVE  /\ size_of_first(list)[0] = 0
         /\ \A n \in 1..Len(list) :
              size_of_first(list)[n] = size_of_first(list)[n - 1] + netid_size(list[n])
<1> DEFINE D(f, n) == IF n = 0 THEN 0 ELSE f[n - 1] + netid_size(list[n])
           a == [n \in 1..Len(list) |-> netid_size(list[n])]
           v == size_of_first(list)
<1>1. Len(list) \in Nat /\ a \in [1..Len(list) -> Nat] /\ 1 \in Nat
  OBVIOUS
<1>2. PICK f \in [0..Len(list) -> Nat] :
        f[0] = 0 /\ \A n \in 1..Len(list) : f[n] = 1 * f[n - 1] + a[n]
  <2> HIDE DEF a
  <2> QED
    BY Zenon, <1>1, RunningSum
<1>3. f = [n \in 0..Len(list) |-> D(f, n)]
  <2>1. \A n \in 0..Len(list) : n # 0 => n \in 1..Len(list)
    BY <1>1
  <2>2. \A n \in 1..Len(list) : f[n] = f[n - 1] + netid_size(list[n])
    <3>1. \A n \in 1..Len(list) : n - 1 \in 0..Len(list)
      BY <1>1
    <3>2. \A x \in Nat : 1 * x = x
      OBVIOUS
    <3>3. \A n \in 1..Len(list) : f[n - 1] \in Nat
      BY Zenon, <1>2, <3>1
    <3> QED
      BY Zenon, <1>2, <3>2, <3>3
  <2>3. \A n \in 0..Len(list) : f[n] = D(f, n)
    BY Zenon, <1>2, <2>1, <2>2
  <2>4. f = [n \in 0..Len(list) |-> f[n]]
    BY Zenon, <1>2
  <2> HIDE DEF D
  <2> QED
    BY Zenon, <2>3, <2>4
<1>4. v = [n \in 0..Len(list) |-> D(v, n)]
  BY Zenon, <1>3 DEF size_of_first
<1> HIDE DEF v
<1>5. \A n \in 0..Len(list) : v[n] = D(v, n)
  BY Zenon, <1>4
<1>6. 0 \in 0..Len(list) /\ \A n \in 1..Len(list) : n \in 0..Len(list) /\ n # 0
  BY <1>1
<1> QED
  BY Zenon, <1>5, <1>6 DEF v

(***************************************************************************)
(* Powers of two                                                           *)
(***************************************************************************)
Power == [k \in 0..32 |-> 2^k]

LEMMA PowerIs ==
  \A k \in 0..32 : Power[k] = 2^k
BY DEF Power

\* The values, as the provers do not interpret 2^k for a variable k.
LEMMA PowerTable ==
  /\ Power[0] = 1 /\ Power[1] = 2 /\ Power[2] = 4 /\ Power[3] = 8 /\ Power[4] = 16
  /\ Power[5] = 32 /\ Power[6] = 64 /\ Power[7] = 128 /\ Power[8] = 256
  /\ Power[9] = 512 /\ Power[10] = 1024 /\ Power[11] = 2048 /\ Power[12] = 4096
  /\ Power[13] = 8192 /\ Power[14] = 16384 /\ Power[15] = 32768 /\ Power[16] = 65536
  /\ Power[17] = 131072 /\ Power[18] = 262144 /\ Power[19] = 524288
  /\ Power[20] = 1048576 /\ Power[21] = 2097152 /\ Power[22] = 4194304
  /\ Power[23] = 8388608 /\ Power[24] = 16777216 /\ Power[25] = 33554432
  /\ Power[26] = 67108864 /\ Power[27] = 134217728 /\ Power[28] = 268435456
  /\ Power[29] = 536870912 /\ Power[30] = 1073741824 /\ Power[31] = 2147483648
  /\ Power[32] = 4294967296
BY DEF Power

LEMMA PowersOfTwo ==
  /\ \A k \in 0..31 : 2^(k + 1) = 2 * 2^k
  /\ \A k \in 0..32 : 2^k \in Nat \ {0}
<1>1. \A k \in 0..31 : Power[k + 1] = 2 * Power[k]
  BY PowerTable
<1>2. \A k \in 0..32 : Power[k] \in Nat \ {0}
  BY PowerTable
<1>3. \A k \in 0..31 : k \in 0..32 /\ k + 1 \in 0..32
  OBVIOUS
<1> QED
  BY Zenon, <1>1, <1>2, <1>3, PowerIs

\* Powers grow with the exponent.
LEMMA PowersGrow ==
  \A j, k \in 0..32 : j <= k => 2^j <= 2^k
<1> DEFINE T == {n \in Nat : n \in 0..32 => \A j \in 0..n : 2^j <= 2^n}
<1>1. 0 \in T
  <2>1. \A j \in 0..0 : j = 0
    OBVIOUS
  <2>2. 2^0 <= 2^0
    OBVIOUS
  <2> QED
    BY Zenon, <2>1, <2>2
<1>2. ASSUME NEW n \in Nat, n \in T
      PROVE  n + 1 \in T
  <2> SUFFICES ASSUME n + 1 \in 0..32, NEW j \in 0..n + 1
               PROVE  2^j <= 2^(n + 1)
    OBVIOUS
  <2>1. n \in 0..31 /\ n \in 0..32 /\ j \in 0..32 /\ n + 1 \in 0..32
    OBVIOUS
  <2>2. 2^(n + 1) = 2 * 2^n /\ 2^n \in Nat /\ 2^j \in Nat /\ 2^(n + 1) \in Nat
    BY Zenon, <2>1, PowersOfTwo
  <2>3. CASE j = n + 1
    BY <2>2, <2>3
  <2>4. CASE j # n + 1
    <3>1. j \in 0..n
      BY <2>4
    <3>2. 2^j <= 2^n
      BY Zenon, <1>2, <2>1, <3>1
    <3> QED
      BY <2>2, <3>2
  <2> QED
    BY Zenon, <2>3, <2>4
<1> HIDE DEF T
<1>3. \A n \in Nat : n \in T
  BY Zenon, <1>1, <1>2, Induction
<1>4. \A j, k \in 0..32 : k \in Nat /\ (j <= k => j \in 0..k)
  OBVIOUS
<1> QED
  BY Zenon, <1>3, <1>4 DEF T

(***************************************************************************)
(* Numbers and their bits                                                  *)
(***************************************************************************)
\* Bit k of n, counted from the last.
Bit(n, k) == (n \div 2^k) % 2

LEMMA Division ==
  \A n \in Nat : \A q \in Nat \ {0} :
    /\ n \div q \in Nat
    /\ n \div q = 2 * (n \div (2 * q)) + ((n \div q) % 2)
    /\ n < q => n \div q = 0
<1> SUFFICES ASSUME NEW n \in Nat, NEW q \in Nat \ {0}
             PROVE  /\ n \div q \in Nat
                    /\ n \div q = 2 * (n \div (2 * q)) + ((n \div q) % 2)
                    /\ n < q => n \div q = 0
  BY Zenon
<1>1. n \div q \in Nat
  OBVIOUS
<1>2. n \div q = 2 * (n \div (2 * q)) + ((n \div q) % 2)
  OBVIOUS
<1>3. n < q => n \div q = 0
  OBVIOUS
<1> QED
  BY Zenon, <1>1, <1>2, <1>3

\* Bit k is what halving leaves of the number without its last k bits.
LEMMA BitFacts ==
  ASSUME NEW n \in Nat, NEW k \in 0..31
  PROVE  /\ Bit(n, k) \in {0, 1}
         /\ n \div 2^k = 2 * (n \div 2^(k + 1)) + Bit(n, k)
<1>1. 2^k \in Nat \ {0} /\ 2^(k + 1) = 2 * 2^k
  <2>1. k \in 0..32
    OBVIOUS
  <2> QED
    BY Zenon, <2>1, PowersOfTwo
<1>2. n \div 2^k \in Nat /\ n \div 2^k = 2 * (n \div (2 * 2^k)) + ((n \div 2^k) % 2)
  BY Zenon, <1>1, Division
<1>3. \A x \in Nat : x % 2 \in {0, 1}
  OBVIOUS
<1> QED
  BY Zenon, <1>1, <1>2, <1>3 DEF Bit

\* A number has no bits beyond its size.
LEMMA HighBits ==
  ASSUME NEW n \in Nat, NEW k \in 0..31, NEW j \in 0..32, n < 2^j, j <= k
  PROVE  n \div 2^k = 0 /\ Bit(n, k) = 0
<1>1. k \in 0..32
  OBVIOUS
<1>2. 2^k \in Nat \ {0} /\ 2^j \in Nat \ {0} /\ 2^j <= 2^k
  BY Zenon, <1>1, PowersOfTwo, PowersGrow
<1>3. n < 2^k
  BY <1>2
<1>4. n \div 2^k = 0
  BY Zenon, <1>2, <1>3, Division
<1>5. 0 % 2 = 0
  OBVIOUS
<1> QED
  BY Zenon, <1>4, <1>5 DEF Bit

\* The value of a number's bits is the number.
LEMMA ValueOfBits ==
  ASSUME NEW len \in 0..32, NEW n \in Nat, n < 2^len, NEW bits \in Seq(Nat), Len(bits) = len,
         \A i \in 1..len : bits[i] = Bit(n, len - i)
  PROVE  Value(bits) = n
<1> DEFINE v == Values(bits)
           T == {k \in Nat : k \in 0..len => v[k] = n \div 2^(len - k)}
<1>1. v[0] = 0 /\ \A k \in 1..len : v[k] = 2 * v[k - 1] + bits[k]
  BY Zenon, ValuesNext
<1> HIDE DEF v
<1>2. 0 \in T
  <2>1. 2^len \in Nat \ {0}
    BY Zenon, PowersOfTwo
  <2>2. n \div 2^len = 0
    BY Zenon, <2>1, Division
  <2>3. len - 0 = len /\ 0 \in Nat
    OBVIOUS
  <2> QED
    BY Zenon, <1>1, <2>2, <2>3
<1>3. ASSUME NEW k \in Nat, k \in T
      PROVE  k + 1 \in T
  <2> SUFFICES ASSUME k + 1 \in 0..len
               PROVE  v[k + 1] = n \div 2^(len - (k + 1))
    OBVIOUS
  <2>1. PICK j \in 0..31 : j = len - (k + 1)
    <3>1. len - (k + 1) \in 0..31
      OBVIOUS
    <3> QED
      BY Zenon, <3>1
  <2>2. k + 1 \in 1..len /\ (k + 1) - 1 = k /\ k \in 0..len /\ len - k = j + 1
    BY <2>1
  <2>3. v[k + 1] = 2 * v[k] + bits[k + 1]
    BY Zenon, <1>1, <2>2
  <2>4. v[k] = n \div 2^(j + 1) /\ bits[k + 1] = Bit(n, j)
    BY Zenon, <1>3, <2>1, <2>2
  <2>5. n \div 2^j = 2 * (n \div 2^(j + 1)) + Bit(n, j)
    BY Zenon, BitFacts
  <2> QED
    BY Zenon, <2>1, <2>3, <2>4, <2>5
<1> HIDE DEF T
<1>4. \A k \in Nat : k \in T
  BY Zenon, <1>2, <1>3, Induction
<1>5. len \in Nat /\ len \in 0..len /\ len - len = 0
  OBVIOUS
<1>6. v[len] = n \div 2^0
  BY Zenon, <1>4, <1>5 DEF T
<1>7. n \div 2^0 = n
  OBVIOUS
<1> QED
  BY Zenon, <1>6, <1>7 DEF Value, v

(***************************************************************************)
(* DevAddrs                                                                *)
(***************************************************************************)
LEMMA ClassLens ==
  \A c \in 0..7 : /\ addr_len(c) \in 7..25 /\ id_len(c) \in 6..17
                  /\ c + 1 + id_len(c) + addr_len(c) = 32
BY DEF addr_len, id_len

\* The prefix of class c, above the bits of the NetID: c ones and a zero.
LEMMA PrefixBits ==
  ASSUME NEW c \in 0..7
  PROVE  /\ var_net_class(c) \in Nat
         /\ \A k \in 0..31 :
              Bit(var_net_class(c), k) =
                IF id_len(c) < k /\ k <= id_len(c) + c THEN 1 ELSE 0
<1>0. \A n : \A k \in 0..31 : Bit(n, k) = (n \div Power[k]) % 2
  <2>1. \A k \in 0..31 : k \in 0..32
    OBVIOUS
  <2> QED
    BY Zenon, <2>1, PowerIs DEF Bit
<1>1. CASE c = 0
  <2>1. var_net_class(c) = 0 /\ id_len(c) = 6
    BY <1>1 DEF var_net_class, id_len
  <2>2. \A k \in 0..31 : (0 \div Power[k]) % 2 = IF 6 < k /\ k <= 6 THEN 1 ELSE 0
    BY PowerTable
  <2> QED
    BY <1>0, <1>1, <2>1, <2>2
<1>2. CASE c = 1
  <2>1. var_net_class(c) = 128 /\ id_len(c) = 6
    BY <1>2 DEF var_net_class, id_len
  <2>2. \A k \in 0..31 : (128 \div Power[k]) % 2 = IF 6 < k /\ k <= 7 THEN 1 ELSE 0
    BY PowerTable
  <2> QED
    BY <1>0, <1>2, <2>1, <2>2
<1>3. CASE c = 2
  <2>1. var_net_class(c) = 3072 /\ id_len(c) = 9
    BY <1>3 DEF var_net_class, id_len
  <2>2. \A k \in 0..31 : (3072 \div Power[k]) % 2 = IF 9 < k /\ k <= 11 THEN 1 ELSE 0
    BY PowerTable
  <2> QED
    BY <1>0, <1>3, <2>1, <2>2
<1>4. CASE c = 3
  <2>1. var_net_class(c) = 28672 /\ id_len(c) = 11
    BY <1>4 DEF var_net_class, id_len
  <2>2. \A k \in 0..31 : (28672 \div Power[k]) % 2 = IF 11 < k /\ k <= 14 THEN 1 ELSE 0
    BY PowerTable
  <2> QED
    BY <1>0, <1>4, <2>1, <2>2
<1>5. CASE c = 4
  <2>1. var_net_class(c) = 122880 /\ id_len(c) = 12
    BY <1>5 DEF var_net_class, id_len
  <2>2. \A k \in 0..31 : (122880 \div Power[k]) % 2 = IF 12 < k /\ k <= 16 THEN 1 ELSE 0
    BY PowerTable
  <2> QED
    BY <1>0, <1>5, <2>1, <2>2
<1>6. CASE c = 5
  <2>1. var_net_class(c) = 507904 /\ id_len(c) = 13
    BY <1>6 DEF var_net_class, id_len
  <2>2. \A k \in 0..31 : (507904 \div Power[k]) % 2 = IF 13 < k /\ k <= 18 THEN 1 ELSE 0
    BY PowerTable
  <2> QED
    BY <1>0, <1>6, <2>1, <2>2
<1>7. CASE c = 6
  <2>1. var_net_class(c) = 4128768 /\ id_len(c) = 15
    BY <1>7 DEF var_net_class, id_len
  <2>2. \A k \in 0..31 : (4128768 \div Power[k]) % 2 = IF 15 < k /\ k <= 21 THEN 1 ELSE 0
    BY PowerTable
  <2> QED
    BY <1>0, <1>7, <2>1, <2>2
<1>8. CASE c = 7
  <2>1. var_net_class(c) = 33292288 /\ id_len(c) = 17
    BY <1>8 DEF var_net_class, id_len
  <2>2. \A k \in 0..31 : (33292288 \div Power[k]) % 2 = IF 17 < k /\ k <= 24 THEN 1 ELSE 0
    BY PowerTable
  <2> QED
    BY <1>0, <1>8, <2>1, <2>2
<1> QED
  BY <1>1, <1>2, <1>3, <1>4, <1>5, <1>6, <1>7, <1>8

\* The bits of a word, from the most significant.
LEMMA WordBits ==
  ASSUME NEW n \in Nat, Bit(n, 31) = 0
  PROVE  \A i \in 1..32 : Word(n)[i] = Bit(n, 32 - i) /\ 32 - i \in 0..31
<1>1. \A i \in 1..32 : Word(n)[i] = IF i = 1 THEN 0 ELSE Bit(n, 32 - i)
  BY Zenon DEF Word, Bit
<1>2. 32 - 1 = 31 /\ \A i \in 1..32 : 32 - i \in 0..31
  OBVIOUS
<1> QED
  BY Zenon, <1>1, <1>2

\* The bits of a DevAddr: the prefix of its class, its NetID and its address.
MadeOf(w, c, id, nwk) ==
  /\ w \in [1..32 -> {0, 1}]
  /\ \A i \in 1..c : w[i] = 1
  /\ w[c + 1] = 0
  /\ \A i \in c + 2..32 - addr_len(c) : w[i] = Bit(id, 32 - addr_len(c) - i)
  /\ \A i \in 33 - addr_len(c)..32 : w[i] = Bit(nwk, 32 - i)

LEMMA DevAddrBits ==
  ASSUME NEW netid \in Nat, NEW c \in 0..7, netid_class(netid) = c,
         netid % 2^21 < 2^id_len(c), NEW nwk \in Nat, nwk < 2^addr_len(c)
  PROVE  MadeOf(devaddr(netid, nwk), c, netid % 2^21, nwk)
<1> DEFINE w == devaddr(netid, nwk)
           len == addr_len(c)
           idlen == id_len(c)
           id == netid % 2^21
           prefix == var_net_class(c)
           a == Or(Word(prefix), Word(id))
           s == ShiftLeft(a, len)
<1>1. len \in 7..25 /\ idlen \in 6..17 /\ c + 1 + idlen + len = 32
  BY Zenon, ClassLens
<1>2. /\ prefix \in Nat
      /\ \A k \in 0..31 :
           Bit(prefix, k) = IF idlen < k /\ k <= idlen + c THEN 1 ELSE 0
  BY Zenon, PrefixBits
<1>3. w = Or(s, Word(nwk))
  BY Zenon DEF devaddr
<1>0. id \in Nat /\ id < 2^idlen /\ nwk < 2^len
  OBVIOUS
<1> HIDE DEF w, len, idlen, id, prefix
<1>4. \A k \in 0..31 : /\ Bit(id, k) \in {0, 1} /\ (idlen <= k => Bit(id, k) = 0)
                       /\ Bit(nwk, k) \in {0, 1} /\ (len <= k => Bit(nwk, k) = 0)
  <2>1. idlen \in 0..32 /\ len \in 0..32
    BY <1>1
  <2> QED
    BY Zenon, <1>0, <2>1, HighBits, BitFacts
<1>5. Bit(prefix, 31) = 0 /\ Bit(id, 31) = 0 /\ Bit(nwk, 31) = 0
  <2>1. 31 \in 0..31 /\ idlen <= 31 /\ len <= 31 /\ ~(31 <= idlen + c)
    BY <1>1
  <2> QED
    BY Zenon, <1>2, <1>4, <2>1
<1>6. \A i \in 1..32 : /\ Word(prefix)[i] = Bit(prefix, 32 - i) /\ Word(id)[i] = Bit(id, 32 - i)
                       /\ Word(nwk)[i] = Bit(nwk, 32 - i) /\ 32 - i \in 0..31
  BY Zenon, <1>0, <1>2, <1>5, WordBits
<1>7. \A i \in 1..32 :
        a[i] = IF Bit(prefix, 32 - i) = 1 \/ Bit(id, 32 - i) = 1 THEN 1 ELSE 0
  <2>1. \A i \in 1..32 : a[i] = IF Word(prefix)[i] = 1 \/ Word(id)[i] = 1 THEN 1 ELSE 0
    BY Zenon DEF Or
  <2> QED
    BY Zenon, <1>6, <2>1
<1>8. \A i \in 1..32 : s[i] = IF i + len <= 32 THEN a[i + len] ELSE 0
  BY Zenon DEF ShiftLeft
<1>9. /\ w \in [1..32 -> {0, 1}]
      /\ \A i \in 1..32 : w[i] = IF s[i] = 1 \/ Bit(nwk, 32 - i) = 1 THEN 1 ELSE 0
  <2>1. w = [i \in 1..32 |-> IF s[i] = 1 \/ Word(nwk)[i] = 1 THEN 1 ELSE 0]
    BY Zenon, <1>3 DEF Or
  <2> HIDE DEF s
  <2>2. \A i \in 1..32 : w[i] \in {0, 1}
    BY Zenon, <2>1
  <2>3. w = [i \in 1..32 |-> w[i]]
    BY Zenon, <2>1
  <2> QED
    BY Zenon, <1>6, <2>1, <2>2, <2>3
<1> HIDE DEF a, s
<1>10. ASSUME NEW i \in 1..32 - len
       PROVE  /\ 32 - len - i \in 0..31
              /\ w[i] = IF \/ Bit(prefix, 32 - len - i) = 1
                           \/ Bit(id, 32 - len - i) = 1 THEN 1 ELSE 0
  <2>1. /\ i \in 1..32 /\ i + len <= 32 /\ i + len \in 1..32 /\ 32 - i \in 0..31 /\ len <= 32 - i
        /\ 32 - (i + len) = 32 - len - i /\ 32 - len - i \in 0..31
    BY <1>1
  <2>2. s[i] = a[i + len] /\ Bit(nwk, 32 - i) = 0
    BY Zenon, <1>4, <1>8, <2>1
  <2>3. a[i + len] = IF \/ Bit(prefix, 32 - len - i) = 1
                        \/ Bit(id, 32 - len - i) = 1 THEN 1 ELSE 0
    BY Zenon, <1>7, <2>1
  <2>4. 0 # 1
    OBVIOUS
  <2> QED
    BY Zenon, <1>9, <2>1, <2>2, <2>3, <2>4
<1>11. ASSUME NEW i \in 1..c
       PROVE  w[i] = 1
  <2>1. i \in 1..32 - len /\ idlen < 32 - len - i /\ 32 - len - i <= idlen + c
    BY <1>1
  <2> QED
    BY Zenon, <1>2, <1>10, <2>1
<1>12. w[c + 1] = 0
  <2>1. c + 1 \in 1..32 - len /\ 32 - len - (c + 1) = idlen
    BY <1>1
  <2>2. ~(idlen < idlen) /\ idlen <= idlen /\ 0 # 1
    BY <1>1
  <2>3. idlen \in 0..31
    BY <1>1
  <2>4. Bit(prefix, idlen) = 0 /\ Bit(id, idlen) = 0
    BY Zenon, <1>2, <1>4, <2>2, <2>3
  <2> QED
    BY Zenon, <1>10, <2>1, <2>2, <2>4
<1>13. ASSUME NEW i \in c + 2..32 - len
       PROVE  w[i] = Bit(id, 32 - len - i)
  <2>1. i \in 1..32 - len /\ ~(idlen < 32 - len - i) /\ 0 # 1
    BY <1>1
  <2>2. 32 - len - i \in 0..31
    BY Zenon, <1>10, <2>1
  <2>3. Bit(prefix, 32 - len - i) = 0 /\ Bit(id, 32 - len - i) \in {0, 1}
    BY Zenon, <1>2, <1>4, <2>1, <2>2
  <2> QED
    BY Zenon, <1>10, <2>1, <2>3
<1>14. ASSUME NEW i \in 33 - len..32
       PROVE  w[i] = Bit(nwk, 32 - i)
  <2>1. i \in 1..32 /\ ~(i + len <= 32) /\ 32 - i \in 0..31 /\ 0 # 1
    BY <1>1
  <2>2. s[i] = 0 /\ Bit(nwk, 32 - i) \in {0, 1}
    BY Zenon, <1>4, <1>8, <2>1
  <2> QED
    BY Zenon, <1>9, <2>1, <2>2
<1> QED
  BY Zenon, <1>9, <1>11, <1>12, <1>13, <1>14 DEF w, len, id, MadeOf

LEMMA LeastIs ==
  ASSUME NEW S \in SUBSET Int, NEW m \in S, \A x \in S : m <= x
  PROVE  Min(S) = m
<1>1. Min(S) \in S /\ \A x \in S : Min(S) <= x
  BY Zenon DEF Min
<1>2. Min(S) \in Int /\ m \in Int /\ Min(S) <= m /\ m <= Min(S)
  BY Zenon, <1>1
<1> QED
  BY <1>2

\* The bits of a word from a to b.
IsPart(q, w, a, b) ==
  /\ q \in Seq(Nat) /\ Len(q) = IF a <= b THEN b - a + 1 ELSE 0
  /\ \A i \in 1..b - a + 1 : q[i] = w[a + i - 1]

LEMMA WordPart ==
  ASSUME NEW w \in Seq(Nat)
  PROVE  \A a \in Nat \ {0}, b \in Nat : b <= Len(w) => IsPart(SubSeq(w, a, b), w, a, b)
BY PartFacts DEF IsPart

\* netid_type, parse_netid and nwk_addr take apart what devaddr puts together.
LEMMA DevAddrBack ==
  ASSUME NEW netid \in Nat, NEW c \in 0..7, netid_class(netid) = c,
         netid % 2^21 < 2^id_len(c), NEW nwk \in Nat, nwk < 2^addr_len(c)
  PROVE  LET w == devaddr(netid, nwk)
         IN w \in [1..32 -> {0, 1}] /\ parse_netid(w) = netid /\ nwk_addr(w) = nwk
<1> DEFINE w == devaddr(netid, nwk)
           len == addr_len(c)
           idlen == id_len(c)
           id == netid % 2^21
<1>1. len \in 7..25 /\ idlen \in 6..17 /\ c + 1 + idlen + len = 32
  BY Zenon, ClassLens
<1>2. id \in Nat /\ netid = id + c * 2^21
  BY DEF netid_class
<1>3. /\ w \in [1..32 -> {0, 1}]
      /\ \A i \in 1..c : w[i] = 1
      /\ w[c + 1] = 0
      /\ \A i \in c + 2..32 - len : w[i] = Bit(id, 32 - len - i)
      /\ \A i \in 33 - len..32 : w[i] = Bit(nwk, 32 - i)
  <2>1. MadeOf(w, c, id, nwk)
    BY Zenon, DevAddrBits
  <2> QED
    BY Zenon, <2>1 DEF MadeOf
<1>4. id < 2^idlen /\ nwk < 2^len
  OBVIOUS
<1> HIDE DEF w, len, idlen, id
<1>5. netid_type(w) = c
  <2> DEFINE zeros == {i \in 1..8 : w[i] = 0}
  <2>1. c + 1 \in zeros
    BY <1>3
  <2>2. ASSUME NEW x \in zeros
        PROVE  c + 1 <= x
    <3>1. x \in 1..8 /\ w[x] = 0 /\ 0 # 1
      OBVIOUS
    <3>2. x \notin 1..c
      BY Zenon, <1>3, <3>1
    <3> QED
      BY <3>1, <3>2
  <2>3. zeros \in SUBSET Int
    OBVIOUS
  <2> HIDE DEF zeros
  <2>4. Min(zeros) = c + 1 /\ zeros # {}
    BY Zenon, <2>1, <2>2, <2>3, LeastIs
  <2>5. (c + 1) - 1 = c
    OBVIOUS
  <2> QED
    BY Zenon, <2>4, <2>5 DEF netid_type, zeros
<1>6. Value(ShiftRight(ShiftLeft(w, c), 31 - idlen)) = id
  <2> DEFINE l == ShiftLeft(w, c)
             r == ShiftRight(l, 31 - idlen)
  <2>1. \A i \in 1..32 : l[i] = IF i + c <= 32 THEN w[i + c] ELSE 0
    BY Zenon DEF ShiftLeft
  <2>2. r = [i \in 1..32 |-> IF i > 31 - idlen THEN l[i - (31 - idlen)] ELSE 0]
    BY Zenon DEF ShiftRight
  <2> HIDE DEF l, r
  <2>3. \A i \in 1..32 : r[i] = IF i > 31 - idlen THEN l[i - (31 - idlen)] ELSE 0
    BY Zenon, <2>2
  <2>4. ASSUME NEW i \in 1..32
        PROVE  r[i] = Bit(id, 32 - i) /\ Bit(id, 32 - i) \in Nat
    <3>0. 32 - i \in 0..31 /\ idlen \in 0..32
      BY <1>1
    <3>1. CASE i <= 31 - idlen
      <4>1. ~(i > 31 - idlen) /\ idlen <= 32 - i /\ 0 \in Nat
        BY <1>1, <3>1
      <4>2. Bit(id, 32 - i) = 0
        BY Zenon, <1>2, <1>4, <3>0, <4>1, HighBits
      <4> QED
        BY Zenon, <2>3, <4>1, <4>2
    <3>2. CASE i > 31 - idlen
      <4>1. PICK j \in Nat : j = i - (31 - idlen) + c
        <5>1. i - (31 - idlen) + c \in Nat
          BY <1>1, <3>2
        <5> QED
          BY Zenon, <5>1
      <4>2. i - (31 - idlen) \in 1..32 /\ j <= 32 - len
        BY <1>1, <3>2, <4>1
      <4>3. r[i] = w[j]
        <5>1. j <= 32
          BY <1>1, <4>2
        <5> QED
          BY Zenon, <2>1, <2>3, <3>2, <4>1, <4>2, <5>1
      <4>4. CASE i = 32 - idlen
        <5>1. j = c + 1 /\ 32 - i = idlen /\ idlen <= idlen /\ 0 \in Nat
          BY <1>1, <4>1, <4>4
        <5>2. Bit(id, 32 - i) = 0
          BY Zenon, <1>2, <1>4, <3>0, <5>1, HighBits
        <5> QED
          BY Zenon, <1>3, <4>3, <5>1, <5>2
      <4>5. CASE i # 32 - idlen
        <5>1. j \in c + 2..32 - len /\ 32 - len - j = 32 - i
          BY <1>1, <3>2, <4>1, <4>2, <4>5
        <5>2. Bit(id, 32 - i) \in {0, 1} /\ 0 \in Nat /\ 1 \in Nat
          BY Zenon, <1>2, <3>0, BitFacts
        <5> QED
          BY Zenon, <1>3, <4>3, <5>1, <5>2
      <4> QED
        BY Zenon, <4>4, <4>5
    <3> QED
      BY <1>1, <3>1, <3>2
  <2>5. r \in Seq(Nat) /\ Len(r) = 32
    <3>1. \A i \in 1..32 : r[i] \in Nat
      BY Zenon, <2>4
    <3>2. r = [i \in 1..32 |-> r[i]]
      BY Zenon, <2>2
    <3> QED
      BY <3>1, <3>2
  <2>6. 32 \in 0..32 /\ id < 2^32
    <3>1. idlen \in 0..32 /\ 32 \in 0..32 /\ idlen <= 32
      BY <1>1
    <3>2. 2^idlen \in Nat /\ 2^32 \in Nat /\ 2^idlen <= 2^32
      BY Zenon, <3>1, PowersOfTwo, PowersGrow
    <3> QED
      BY <1>2, <1>4, <3>2
  <2> QED
    BY Zenon, <1>2, <2>4, <2>5, <2>6, ValueOfBits DEF l, r
<1>7. parse_netid(w) = netid
  BY Zenon, <1>2, <1>5, <1>6 DEF parse_netid, idlen
<1>8. nwk_addr(w) = nwk
  <2> DEFINE b == SubSeq(w, 33 - len, 32)
  <2>1. w \in Seq(Nat) /\ Len(w) = 32
    <3>1. w = [i \in 1..32 |-> w[i]]
      BY Zenon, <1>3
    <3>2. \A i \in 1..32 : w[i] \in {0, 1}
      BY Zenon, <1>3
    <3> QED
      BY <3>1, <3>2
  <2>2. b \in Seq(Nat) /\ Len(b) = len /\ \A i \in 1..len : b[i] = w[32 - len + i]
    <3>1. 33 - len \in Nat \ {0} /\ 32 \in Nat /\ 32 <= Len(w)
      BY <1>1, <2>1
    <3>2. /\ b \in Seq(Nat) /\ Len(b) = IF 33 - len <= 32 THEN 32 - (33 - len) + 1 ELSE 0
          /\ \A i \in 1..32 - (33 - len) + 1 : b[i] = w[(33 - len) + i - 1]
      <4>1. IsPart(b, w, 33 - len, 32)
        BY Zenon, <2>1, <3>1, WordPart
      <4> HIDE DEF b
      <4> QED
        BY Zenon, <4>1 DEF IsPart
    <3> HIDE DEF b
    <3>3. /\ 33 - len <= 32 /\ 32 - (33 - len) + 1 = len
          /\ \A i \in 1..len : (33 - len) + i - 1 = 32 - len + i
      BY <1>1
    <3> QED
      BY Zenon, <3>2, <3>3
  <2>3. len \in 0..32
    BY <1>1
  <2>4. ASSUME NEW i \in 1..len
        PROVE  b[i] = Bit(nwk, len - i)
    <3>1. 32 - len + i \in 33 - len..32 /\ 32 - (32 - len + i) = len - i
      BY <1>1
    <3> QED
      BY Zenon, <1>3, <2>2, <3>1
  <2> HIDE DEF b
  <2>6. Value(b) = nwk
    BY Zenon, <1>4, <2>2, <2>3, <2>4, ValueOfBits
  <2> QED
    BY Zenon, <1>7, <2>6 DEF nwk_addr, b, len
<1> QED
  BY Zenon, <1>3, <1>7, <1>8 DEF w

\* A byte and its bits.
Binary == {0, 1}

\* The bits of s, most significant first, are those of the byte n.
IsByte(n, s) ==
  /\ n \in 0..255
  /\ Bit(n, 7) = s[1] /\ Bit(n, 6) = s[2] /\ Bit(n, 5) = s[3] /\ Bit(n, 4) = s[4]
  /\ Bit(n, 3) = s[5] /\ Bit(n, 2) = s[6] /\ Bit(n, 1) = s[7] /\ Bit(n, 0) = s[8]

\* A byte is determined by its eight bits, and they by it.
LEMMA EightBits ==
  ASSUME NEW b1 \in Binary, NEW b2 \in Binary, NEW b3 \in Binary, NEW b4 \in Binary,
         NEW b5 \in Binary, NEW b6 \in Binary, NEW b7 \in Binary, NEW b8 \in Binary
  PROVE  LET n == 2 * (2 * (2 * (2 * (2 * (2 * (2 * b1 + b2) + b3) + b4) + b5) + b6) + b7) + b8
         IN IsByte(n, <<b1, b2, b3, b4, b5, b6, b7, b8>>)
BY DEF Bit, Binary, IsByte

LEMMA ByteOf ==
  \A s \in [1..8 -> Binary] :
    IsByte(2 * (2 * (2 * (2 * (2 * (2 * (2 * s[1] + s[2]) + s[3]) + s[4]) + s[5]) + s[6])
             + s[7]) + s[8], s)
<1> SUFFICES ASSUME NEW s \in [1..8 -> Binary]
             PROVE  IsByte(2 * (2 * (2 * (2 * (2 * (2 * (2 * s[1] + s[2]) + s[3]) + s[4]) + s[5])
                             + s[6]) + s[7]) + s[8], s)
  BY Zenon
<1>1. /\ 1 \in 1..8 /\ 2 \in 1..8 /\ 3 \in 1..8 /\ 4 \in 1..8
      /\ 5 \in 1..8 /\ 6 \in 1..8 /\ 7 \in 1..8 /\ 8 \in 1..8
  OBVIOUS
<1>2. PICK b1 \in Binary : b1 = s[1]
  BY Zenon, <1>1
<1>3. PICK b2 \in Binary : b2 = s[2]
  BY Zenon, <1>1
<1>4. PICK b3 \in Binary : b3 = s[3]
  BY Zenon, <1>1
<1>5. PICK b4 \in Binary : b4 = s[4]
  BY Zenon, <1>1
<1>6. PICK b5 \in Binary : b5 = s[5]
  BY Zenon, <1>1
<1>7. PICK b6 \in Binary : b6 = s[6]
  BY Zenon, <1>1
<1>8. PICK b7 \in Binary : b7 = s[7]
  BY Zenon, <1>1
<1>9. PICK b8 \in Binary : b8 = s[8]
  BY Zenon, <1>1
<1> DEFINE n == 2 * (2 * (2 * (2 * (2 * (2 * (2 * b1 + b2) + b3) + b4) + b5) + b6) + b7) + b8
<1>10. IsByte(n, <<b1, b2, b3, b4, b5, b6, b7, b8>>)
  BY Zenon, <1>2, <1>3, <1>4, <1>5, <1>6, <1>7, <1>8, <1>9, EightBits
<1>11. n = 2 * (2 * (2 * (2 * (2 * (2 * (2 * s[1] + s[2]) + s[3]) + s[4]) + s[5]) + s[6])
             + s[7]) + s[8]
  BY Zenon, <1>2, <1>3, <1>4, <1>5, <1>6, <1>7, <1>8, <1>9
<1> HIDE DEF n
<1>12. IsByte(n, s)
  BY Zenon, <1>2, <1>3, <1>4, <1>5, <1>6, <1>7, <1>8, <1>9, <1>10 DEF IsByte
<1> QED
  BY Zenon, <1>11, <1>12

LEMMA EightIndices ==
  \A j \in 1..8 : \/ j = 1 /\ 8 - j = 7
                  \/ j = 2 /\ 8 - j = 6
                  \/ j = 3 /\ 8 - j = 5
                  \/ j = 4 /\ 8 - j = 4
                  \/ j = 5 /\ 8 - j = 3
                  \/ j = 6 /\ 8 - j = 2
                  \/ j = 7 /\ 8 - j = 1
                  \/ j = 8 /\ 8 - j = 0
OBVIOUS

LEMMA ByteBits ==
  ASSUME NEW s \in Seq(Nat), Len(s) = 8, \A i \in 1..8 : s[i] \in Binary
  PROVE  Value(s) \in 0..255 /\ \A j \in 1..8 : Bit(Value(s), 8 - j) = s[j]
<1> DEFINE v == Values(s)
<1>1. v[0] = 0 /\ \A n \in 1..8 : v[n] = 2 * v[n - 1] + s[n]
  BY Zenon, ValuesNext
<1>2. Value(s) = v[8]
  BY Zenon DEF Value
<1> HIDE DEF v
<1>3. /\ 1 \in 1..8 /\ 2 \in 1..8 /\ 3 \in 1..8 /\ 4 \in 1..8
      /\ 5 \in 1..8 /\ 6 \in 1..8 /\ 7 \in 1..8 /\ 8 \in 1..8
      /\ 1 - 1 = 0 /\ 2 - 1 = 1 /\ 3 - 1 = 2 /\ 4 - 1 = 3
      /\ 5 - 1 = 4 /\ 6 - 1 = 5 /\ 7 - 1 = 6 /\ 8 - 1 = 7
  OBVIOUS
<1>4. /\ s[1] \in Binary /\ s[2] \in Binary /\ s[3] \in Binary /\ s[4] \in Binary
      /\ s[5] \in Binary /\ s[6] \in Binary /\ s[7] \in Binary /\ s[8] \in Binary
  BY Zenon, <1>3
<1>5. \A x \in Binary : 2 * 0 + x = x
  BY DEF Binary
<1>6. v[1] = s[1] /\ v[2] = 2 * v[1] + s[2] /\ v[3] = 2 * v[2] + s[3] /\ v[4] = 2 * v[3] + s[4]
  <2>1. v[1] = 2 * 0 + s[1]
    BY Zenon, <1>1, <1>3
  <2>2. v[1] = s[1]
    BY Zenon, <1>4, <1>5, <2>1
  <2> QED
    BY Zenon, <1>1, <1>3, <2>2
<1>7. /\ v[5] = 2 * v[4] + s[5] /\ v[6] = 2 * v[5] + s[6] /\ v[7] = 2 * v[6] + s[7]
      /\ v[8] = 2 * v[7] + s[8]
  BY Zenon, <1>1, <1>3
<1>8. IsByte(v[8], s)
  <2>1. v[8] = 2 * (2 * (2 * (2 * (2 * (2 * (2 * s[1] + s[2]) + s[3]) + s[4]) + s[5]) + s[6])
                    + s[7]) + s[8]
    <3> DEFINE x2 == 2 * s[1] + s[2]
               x3 == 2 * x2 + s[3]
               x4 == 2 * x3 + s[4]
               x5 == 2 * x4 + s[5]
               x6 == 2 * x5 + s[6]
               x7 == 2 * x6 + s[7]
    <3> HIDE DEF x2, x3, x4, x5, x6, x7
    <3>1. v[2] = x2
      BY Zenon, <1>6 DEF x2
    <3>2. v[3] = x3
      BY Zenon, <1>6, <3>1 DEF x3
    <3>3. v[4] = x4
      BY Zenon, <1>6, <3>2 DEF x4
    <3>4. v[5] = x5
      BY Zenon, <1>7, <3>3 DEF x5
    <3>5. v[6] = x6
      BY Zenon, <1>7, <3>4 DEF x6
    <3>6. v[7] = x7
      BY Zenon, <1>7, <3>5 DEF x7
    <3>7. v[8] = 2 * x7 + s[8]
      BY Zenon, <1>7, <3>6
    <3> QED
      BY Zenon, <3>7 DEF x2, x3, x4, x5, x6, x7
  <2>2. s \in [1..8 -> Binary]
    <3>1. s = [i \in 1..8 |-> s[i]]
      OBVIOUS
    <3> QED
      BY Zenon, <3>1
  <2> QED
    BY Zenon, <2>1, <2>2, ByteOf
<1> QED
  BY Zenon, <1>2, <1>8, EightIndices DEF IsByte

\* A word is sent as its four bytes.
LEMMA BytesBack ==
  ASSUME NEW w \in [1..32 -> {0, 1}]
  PROVE  Bytes(w) \in [1..4 -> 0..255] /\ Bits(Bytes(w)) = w
<1> DEFINE B == Bytes(w)
<1>1. w \in Seq(Nat) /\ Len(w) = 32
  <2>1. w = [i \in 1..32 |-> w[i]] /\ \A i \in 1..32 : w[i] \in {0, 1}
    BY Zenon
  <2> QED
    BY <2>1
<1>2. ASSUME NEW b \in 1..4
      PROVE  /\ B[b] \in 0..255
             /\ \A j \in 1..8 : Bit(B[b], 8 - j) = w[8 * b - 8 + j]
  <2> DEFINE s == SubSeq(w, 8 * b - 7, 8 * b)
  <2>1. 8 * b - 7 \in Nat \ {0} /\ 8 * b \in Nat /\ 8 * b <= Len(w)
    BY <1>1
  <2>2. IsPart(s, w, 8 * b - 7, 8 * b)
    BY Zenon, <1>1, <2>1, WordPart
  <2> HIDE DEF s
  <2>3. /\ s \in Seq(Nat) /\ Len(s) = 8
        /\ \A j \in 1..8 : s[j] = w[8 * b - 8 + j] /\ 8 * b - 8 + j \in 1..32
    <3>1. /\ s \in Seq(Nat) /\ Len(s) = IF 8 * b - 7 <= 8 * b THEN 8 * b - (8 * b - 7) + 1 ELSE 0
          /\ \A j \in 1..8 * b - (8 * b - 7) + 1 : s[j] = w[(8 * b - 7) + j - 1]
      BY Zenon, <2>2 DEF IsPart
    <3>2. /\ 8 * b - 7 <= 8 * b /\ 8 * b - (8 * b - 7) + 1 = 8
          /\ \A j \in 1..8 : (8 * b - 7) + j - 1 = 8 * b - 8 + j /\ 8 * b - 8 + j \in 1..32
      OBVIOUS
    <3> QED
      BY Zenon, <3>1, <3>2
  <2>4. \A j \in 1..8 : s[j] \in Binary
    BY Zenon, <2>3 DEF Binary
  <2>5. Value(s) \in 0..255 /\ \A j \in 1..8 : Bit(Value(s), 8 - j) = s[j]
    BY Zenon, <2>3, <2>4, ByteBits
  <2>6. B[b] = Value(s)
    BY Zenon DEF Bytes, s
  <2> QED
    BY Zenon, <2>3, <2>5, <2>6
<1>3. B \in [1..4 -> 0..255]
  <2>1. B = [b \in 1..4 |-> B[b]]
    BY Zenon DEF Bytes
  <2> HIDE DEF B
  <2> QED
    BY Zenon, <1>2, <2>1
<1> HIDE DEF B
<1>4. ASSUME NEW i \in 1..32
      PROVE  Bit(B[(i + 7) \div 8], (32 - i) % 8) = w[i]
  <2>1. PICK b \in 1..4 : b = (i + 7) \div 8
    <3>1. (i + 7) \div 8 \in 1..4
      OBVIOUS
    <3> QED
      BY Zenon, <3>1
  <2>2. PICK j \in 1..8 : i = 8 * b - 8 + j
    <3>1. i - (8 * b - 8) \in 1..8 /\ i = 8 * b - 8 + (i - (8 * b - 8))
      BY <2>1
    <3> QED
      BY Zenon, <3>1
  <2>3. (32 - i) % 8 = 8 - j
    BY <2>1, <2>2
  <2> QED
    BY Zenon, <1>2, <2>1, <2>2, <2>3
<1>5. Bits(B) = [i \in 1..32 |-> Bit(B[(i + 7) \div 8], (32 - i) % 8)]
  BY Zenon DEF Bits, Bit
<1>6. Bits(B) = w
  <2>1. w = [i \in 1..32 |-> w[i]]
    BY Zenon
  <2> QED
    BY Zenon, <1>4, <1>5, <2>1
<1> QED
  BY Zenon, <1>3, <1>6 DEF B

(***************************************************************************)
(* The addresses of a list of NetIDs                                       *)
(***************************************************************************)
LEMMA HasLeast ==
  ASSUME NEW S \in SUBSET Nat, S # {}
  PROVE  Min(S) \in S /\ \A x \in S : Min(S) <= x
<1> DEFINE T == {n \in Nat : \A m \in S : m <= n => \E x \in S : \A y \in S : x <= y}
<1>1. 0 \in T
  <2> SUFFICES ASSUME NEW m \in S, m <= 0 PROVE \A y \in S : m <= y
    BY Zenon
  <2>1. \A y \in S : y \in Nat
    BY Zenon
  <2> QED
    BY <2>1
<1>2. ASSUME NEW n \in Nat, n \in T
      PROVE  n + 1 \in T
  <2> SUFFICES ASSUME NEW m \in S, m <= n + 1
               PROVE  \E x \in S : \A y \in S : x <= y
    OBVIOUS
  <2>1. CASE \E z \in S : z <= n
    BY Zenon, <1>2, <2>1
  <2>2. CASE ~\E z \in S : z <= n
    <3>1. \A y \in S : y \in Nat /\ ~(y <= n)
      BY Zenon, <2>2
    <3>2. \A y \in S : m <= y
      BY <3>1
    <3> QED
      BY Zenon, <3>2
  <2> QED
    BY Zenon, <2>1, <2>2
<1>3. \A n \in Nat : n \in T
  <2> HIDE DEF T
  <2> QED
    BY Zenon, <1>1, <1>2, Induction
<1>4. PICK m \in S : m \in Nat
  BY Zenon
<1>5. m <= m
  BY <1>4
<1>6. \E x \in S : \A y \in S : x <= y
  BY Zenon, <1>3, <1>4, <1>5
<1> QED
  BY Zenon, <1>6 DEF Min

\* NetIDs have 24 bits, of which the first three are the class.
IDs == 0..2^24 - 1

LEMMA IDFacts ==
  ASSUME NEW netid \in IDs
  PROVE  /\ netid \in Nat /\ netid_class(netid) \in 0..7
         /\ netid_size(netid) = 2^addr_len(netid_class(netid))
         /\ netid_size(netid) \in Nat
<1>1. netid \in Nat /\ netid_class(netid) \in 0..7
  BY DEF IDs, netid_class
<1>2. addr_len(netid_class(netid)) \in 0..32
  <2>1. addr_len(netid_class(netid)) \in 7..25
    BY Zenon, <1>1, ClassLens
  <2> QED
    BY <2>1
<1> QED
  BY Zenon, <1>1, <1>2, PowersOfTwo DEF netid_size

\* What comes before the NetIDs of a list has a size.
LEMMA SizesOf ==
  ASSUME NEW list \in Seq(IDs)
  PROVE  /\ \A n \in 0..Len(list) : size_of_first(list)[n] \in Nat
         /\ size_of_first(list)[0] = 0
         /\ \A n \in 1..Len(list) :
              size_of_first(list)[n] = size_of_first(list)[n - 1] + netid_size(list[n])
<1> DEFINE sum == size_of_first(list)
           T == {n \in Nat : n \in 0..Len(list) => sum[n] \in Nat}
<1>1. \A i \in 1..Len(list) : netid_size(list[i]) \in Nat
  BY Zenon, ElementOfSeq, IDFacts
<1>2. /\ sum[0] = 0
      /\ \A n \in 1..Len(list) : sum[n] = sum[n - 1] + netid_size(list[n])
  BY Zenon, <1>1, SizesNext
<1> HIDE DEF sum
<1>3. 0 \in T
  BY <1>2
<1>4. ASSUME NEW n \in Nat, n \in T
      PROVE  n + 1 \in T
  <2> SUFFICES ASSUME n + 1 \in 0..Len(list) PROVE sum[n + 1] \in Nat
    OBVIOUS
  <2>1. n + 1 \in 1..Len(list) /\ n \in 0..Len(list) /\ (n + 1) - 1 = n
    OBVIOUS
  <2>2. sum[n] \in Nat /\ netid_size(list[n + 1]) \in Nat
    BY Zenon, <1>1, <1>4, <2>1
  <2>3. \A x, y \in Nat : x + y \in Nat
    OBVIOUS
  <2>4. sum[n + 1] = sum[n] + netid_size(list[n + 1])
    BY Zenon, <1>2, <2>1
  <2> QED
    BY Zenon, <2>2, <2>3, <2>4
<1>5. \A n \in Nat : n \in T
  <2> HIDE DEF T
  <2> QED
    BY Zenon, <1>3, <1>4, Induction
<1>6. \A n \in 0..Len(list) : n \in Nat
  OBVIOUS
<1> QED
  BY Zenon, <1>2, <1>5, <1>6 DEF sum

\* The sums grow with the list.
LEMMA SizesGrow ==
  ASSUME NEW list \in Seq(IDs)
  PROVE  \A n \in 0..Len(list) : size_of_first(list)[n] <= size_of_first(list)[Len(list)]
<1> DEFINE sum == size_of_first(list)
           len == Len(list)
           T == {d \in Nat : d <= len => sum[len - d] <= sum[len]}
<1>1. len \in Nat
  OBVIOUS
<1>2. /\ \A n \in 0..len : sum[n] \in Nat
      /\ \A n \in 1..len : sum[n] = sum[n - 1] + netid_size(list[n])
  BY Zenon, SizesOf
<1>3. \A n \in 1..len : netid_size(list[n]) \in Nat
  BY Zenon, ElementOfSeq, IDFacts
<1> HIDE DEF sum, len
<1>4. 0 \in T
  <2>1. len - 0 = len /\ len \in 0..len
    BY <1>1
  <2>2. sum[len] <= sum[len]
    BY <1>2, <2>1
  <2>3. 0 \in Nat
    OBVIOUS
  <2> QED
    BY Zenon, <2>1, <2>2, <2>3
<1>5. ASSUME NEW d \in Nat, d \in T
      PROVE  d + 1 \in T
  <2> SUFFICES ASSUME d + 1 <= len PROVE sum[len - (d + 1)] <= sum[len]
    OBVIOUS
  <2>1. PICK n \in 1..len : n = len - d /\ n - 1 = len - (d + 1)
    <3>1. len - d \in 1..len /\ (len - d) - 1 = len - (d + 1)
      BY <1>1
    <3> QED
      BY Zenon, <3>1
  <2>2. sum[n] <= sum[len]
    <3>1. d <= len
      BY <1>1
    <3> QED
      BY Zenon, <1>5, <2>1, <3>1
  <2>3. n \in 0..len /\ n - 1 \in 0..len /\ len \in 0..len
    BY <1>1
  <2>4. /\ sum[n] \in Nat /\ sum[n - 1] \in Nat /\ sum[len] \in Nat
        /\ netid_size(list[n]) \in Nat /\ sum[n] = sum[n - 1] + netid_size(list[n])
    BY Zenon, <1>2, <1>3, <2>1, <2>3
  <2>5. \A x, y, z, w \in Nat : x = y + z /\ x <= w => y <= w
    OBVIOUS
  <2>6. sum[n - 1] <= sum[len]
    BY Zenon, <2>2, <2>4, <2>5
  <2> QED
    BY Zenon, <2>1, <2>6
<1>6. \A d \in Nat : d \in T
  <2> HIDE DEF T
  <2> QED
    BY Zenon, <1>4, <1>5, Induction
<1>7. ASSUME NEW n \in 0..len
      PROVE  sum[n] <= sum[len]
  <2>1. len - n \in Nat /\ len - n <= len /\ len - (len - n) = n
    BY <1>1
  <2> QED
    BY Zenon, <1>6, <2>1
<1> QED
  BY Zenon, <1>7 DEF sum, len

\* The range of a NetID in the list is where its first place in it begins and
\* ends.
RangeAt(list, m) ==
  <<size_of_first(list)[m - 1], size_of_first(list)[m]>>

LEMMA RangeIs ==
  ASSUME NEW list \in Seq(IDs), NEW i \in 1..Len(list)
  PROVE  \E m \in 1..i : /\ list[m] = list[i] /\ \A k \in 1..Len(list) : list[k] = list[i] => m <= k
                         /\ netid_addr_range(list[i], list) = RangeAt(list, m)
<1> DEFINE at == {k \in DOMAIN list : list[k] = list[i]}
<1>1. Len(list) \in Nat /\ DOMAIN list = 1..Len(list)
  OBVIOUS
<1>2. i \in at
  BY Zenon, <1>1
<1>3. at \in SUBSET Nat
  <2>1. \A k \in 1..Len(list) : k \in Nat
    BY <1>1
  <2> QED
    BY Zenon, <1>1, <2>1
<1>4. netid_addr_range(list[i], list) = RangeAt(list, Min(at))
  <2>1. at # {}
    BY Zenon, <1>2
  <2> QED
    BY Zenon, <2>1 DEF netid_addr_range, RangeAt
<1>5. Min(at) \in at /\ \A k \in at : Min(at) <= k
  <2> HIDE DEF at
  <2> QED
    BY Zenon, <1>2, <1>3, HasLeast
<1>6. Min(at) \in 1..Len(list) /\ list[Min(at)] = list[i] /\ Min(at) <= i
  BY Zenon, <1>1, <1>2, <1>5
<1>7. \A k \in 1..Len(list) : list[k] = list[i] => Min(at) <= k
  BY Zenon, <1>1, <1>5
<1>8. PICK m \in 1..Len(list) : m = Min(at)
  BY Zenon, <1>6
<1>9. m \in 1..i
  <2>1. m <= i
    BY Zenon, <1>6, <1>8
  <2> QED
    BY <2>1
<1> HIDE DEF at
<1> QED
  BY Zenon, <1>4, <1>6, <1>7, <1>8, <1>9

\* A NetID of the list has as many addresses as its class gives it.
LEMMA RangeFacts ==
  ASSUME NEW list \in Seq(IDs), NEW i \in 1..Len(list)
  PROVE  LET r == netid_addr_range(list[i], list)
         IN r[1] \in Nat /\ r[2] = r[1] + netid_size(list[i]) /\ netid_size(list[i]) \in Nat
<1> DEFINE sum == size_of_first(list)
<1>1. PICK m \in 1..i : list[m] = list[i] /\ netid_addr_range(list[i], list) = RangeAt(list, m)
  BY Zenon, RangeIs
<1>2. m \in 1..Len(list) /\ m - 1 \in 0..Len(list)
  BY <1>1
<1>3. sum[m - 1] \in Nat /\ sum[m] = sum[m - 1] + netid_size(list[m])
  BY Zenon, <1>2, SizesOf
<1>4. RangeAt(list, m)[1] = sum[m - 1] /\ RangeAt(list, m)[2] = sum[m]
  BY Zenon DEF RangeAt
<1>5. netid_size(list[i]) \in Nat
  BY Zenon, ElementOfSeq, IDFacts
<1> QED
  BY Zenon, <1>1, <1>3, <1>4, <1>5

\* Every NetID of the list has an id of the length its class gives it.
Valid(list) ==
  \A i \in 1..Len(list) : list[i] % 2^21 < 2^id_len(netid_class(list[i]))

\* n is the address of a device of one of the NetIDs.
Assigned(n, list) ==
  \E i \in 1..Len(list) : subnet_addr_within_range(n, list[i], list)

\* i is the first of the list in whose range n is.
LEMMA FoundIs ==
  ASSUME NEW list \in Seq(IDs), NEW n, Assigned(n, list)
  PROVE  \E i \in 1..Len(list) :
           /\ subnet_addr_to_netid(n, list) = list[i]
           /\ subnet_addr_within_range(n, list[i], list)
           /\ \A k \in 1..Len(list) : subnet_addr_within_range(n, list[k], list) => i <= k
<1> DEFINE found == {i \in DOMAIN list : subnet_addr_within_range(n, list[i], list)}
<1>1. Len(list) \in Nat /\ DOMAIN list = 1..Len(list)
  OBVIOUS
<1>2. found # {}
  BY Zenon, <1>1 DEF Assigned
<1>3. found \in SUBSET Nat
  <2>1. \A k \in 1..Len(list) : k \in Nat
    BY <1>1
  <2> QED
    BY Zenon, <1>1, <2>1
<1>4. subnet_addr_to_netid(n, list) = list[Min(found)]
  BY Zenon, <1>2 DEF subnet_addr_to_netid
<1>5. Min(found) \in found /\ \A k \in found : Min(found) <= k
  <2> HIDE DEF found
  <2> QED
    BY Zenon, <1>2, <1>3, HasLeast
<1> QED
  BY Zenon, <1>1, <1>4, <1>5

\* The DevAddr of an assigned address is read as what it was made of.
LEMMA SubnetBack ==
  ASSUME NEW list \in Seq(IDs), Valid(list), NEW n \in Nat, Assigned(n, list)
  PROVE  LET netid == subnet_addr_to_netid(n, list)
             w == devaddr_from_subnet(n, list)
         IN /\ w \in [1..32 -> {0, 1}]
            /\ netid \in Range(list) /\ parse_netid(w) = netid
            /\ subnet_from_devaddr(w, list) = n
<1> DEFINE netid == subnet_addr_to_netid(n, list)
           w == devaddr_from_subnet(n, list)
           r == netid_addr_range(netid, list)
<1>1. PICK i \in 1..Len(list) : netid = list[i] /\ subnet_addr_within_range(n, list[i], list)
  BY Zenon, FoundIs
<1>2. netid \in IDs
  BY Zenon, <1>1, ElementOfSeq
<1>3. r[1] \in Nat /\ r[2] = r[1] + netid_size(netid) /\ netid_size(netid) \in Nat
  BY Zenon, <1>1, RangeFacts
<1>4. r[1] <= n /\ n < r[2]
  BY Zenon, <1>1 DEF subnet_addr_within_range
<1>5. PICK c \in 0..7 : netid_class(netid) = c
  BY Zenon, <1>2, IDFacts
<1>6. netid % 2^21 < 2^id_len(c) /\ netid_size(netid) = 2^addr_len(c) /\ netid \in Nat
  BY Zenon, <1>1, <1>2, <1>5, IDFacts DEF Valid
<1>7. PICK lower \in Nat : lower = r[1]
  BY Zenon, <1>3
<1>8. w = devaddr(netid, n - lower)
  BY Zenon, <1>7 DEF devaddr_from_subnet
<1>9. subnet_from_devaddr(w, list) = netid_addr_range(parse_netid(w), list)[1] + nwk_addr(w)
  BY Zenon DEF subnet_from_devaddr
<1> HIDE DEF netid, w, r
<1>10. PICK size \in Nat : size = netid_size(netid)
  BY Zenon, <1>3
<1>11. lower <= n /\ n < lower + size
  BY Zenon, <1>3, <1>4, <1>7, <1>10
<1>12. n - lower \in Nat /\ n - lower < size /\ lower + (n - lower) = n
  BY <1>7, <1>10, <1>11
<1>13. PICK nwk \in Nat : nwk = n - lower
  BY Zenon, <1>12
<1>14. nwk < 2^addr_len(c)
  BY Zenon, <1>6, <1>10, <1>12, <1>13
<1>15. w \in [1..32 -> {0, 1}] /\ parse_netid(w) = netid /\ nwk_addr(w) = nwk
  BY Zenon, <1>5, <1>6, <1>8, <1>13, <1>14, DevAddrBack
<1>16. subnet_from_devaddr(w, list) = n
  BY Zenon, <1>7, <1>9, <1>12, <1>13, <1>15 DEF r
<1>17. netid \in Range(list)
  <2>1. DOMAIN list = 1..Len(list)
    OBVIOUS
  <2> QED
    BY Zenon, <1>1, <2>1 DEF Range
<1> QED
  BY Zenon, <1>15, <1>16, <1>17 DEF netid, w

\* The list as it was when it had k NetIDs.
LEMMA EarlierList ==
  ASSUME NEW list \in Seq(IDs), NEW k \in 1..Len(list)
  PROVE  LET e == SubSeq(list, 1, k)
         IN e \in Seq(IDs) /\ Len(e) = k /\ \A i \in 1..k : e[i] = list[i] /\ i \in 1..Len(list)
<1> DEFINE e == SubSeq(list, 1, k)
<1>1. k \in Nat /\ 1 \in Nat \ {0} /\ k <= Len(list)
  OBVIOUS
<1>2. /\ e \in Seq(IDs) /\ Len(e) = IF 1 <= k THEN k - 1 + 1 ELSE 0
      /\ \A i \in 1..k - 1 + 1 : e[i] = list[1 + i - 1]
  BY <1>1, PartFacts
<1> HIDE DEF e
<1>3. 1 <= k /\ k - 1 + 1 = k /\ \A i \in 1..k : 1 + i - 1 = i /\ i \in 1..Len(list)
  OBVIOUS
<1> QED
  BY Zenon, <1>2, <1>3 DEF e

\* A list that begins another has its sums.
LEMMA EarlierSizes ==
  ASSUME NEW list \in Seq(IDs), NEW e \in Seq(IDs), Len(e) <= Len(list),
         \A i \in 1..Len(e) : e[i] = list[i]
  PROVE  \A n \in 0..Len(e) : size_of_first(e)[n] = size_of_first(list)[n]
<1> DEFINE f == size_of_first(e)
           g == size_of_first(list)
           T == {n \in Nat : n \in 0..Len(e) => f[n] = g[n]}
<1>1. f[0] = 0 /\ \A n \in 1..Len(e) : f[n] = f[n - 1] + netid_size(e[n])
  BY Zenon, SizesOf
<1>2. g[0] = 0 /\ \A n \in 1..Len(list) : g[n] = g[n - 1] + netid_size(list[n])
  BY Zenon, SizesOf
<1> HIDE DEF f, g
<1>3. 0 \in T
  BY <1>1, <1>2
<1>4. ASSUME NEW n \in Nat, n \in T
      PROVE  n + 1 \in T
  <2> SUFFICES ASSUME n + 1 \in 0..Len(e) PROVE f[n + 1] = g[n + 1]
    OBVIOUS
  <2>1. /\ n + 1 \in 1..Len(e) /\ n + 1 \in 1..Len(list) /\ n \in 0..Len(e)
        /\ (n + 1) - 1 = n
    OBVIOUS
  <2>2. f[n] = g[n] /\ e[n + 1] = list[n + 1]
    BY Zenon, <1>4, <2>1
  <2> QED
    BY Zenon, <1>1, <1>2, <2>1, <2>2
<1>5. \A n \in Nat : n \in T
  <2> HIDE DEF T
  <2> QED
    BY Zenon, <1>3, <1>4, Induction
<1>6. \A n \in 0..Len(e) : n \in Nat
  OBVIOUS
<1> QED
  BY Zenon, <1>5, <1>6 DEF f, g

\* A NetID keeps its range when NetIDs are added after it.
LEMMA EarlierRange ==
  ASSUME NEW list \in Seq(IDs), NEW e \in Seq(IDs), Len(e) <= Len(list),
         \A i \in 1..Len(e) : e[i] = list[i], NEW i \in 1..Len(e)
  PROVE  netid_addr_range(e[i], e) = netid_addr_range(list[i], list)
<1>1. /\ i \in 1..Len(list) /\ Len(e) \in Nat /\ Len(list) \in Nat
      /\ \A k \in 1..Len(e) : k \in 1..Len(list)
  OBVIOUS
<1>2. PICK m \in 1..i :
        /\ e[m] = e[i] /\ \A k \in 1..Len(e) : e[k] = e[i] => m <= k
        /\ netid_addr_range(e[i], e) = RangeAt(e, m)
  BY Zenon, RangeIs
<1>3. PICK l \in 1..i :
        /\ list[l] = list[i] /\ \A k \in 1..Len(list) : list[k] = list[i] => l <= k
        /\ netid_addr_range(list[i], list) = RangeAt(list, l)
  BY Zenon, <1>1, RangeIs
<1>4. m \in 1..Len(e) /\ l \in 1..Len(e) /\ m \in 0..Len(e) /\ m - 1 \in 0..Len(e)
  BY <1>1, <1>2, <1>3
<1>5. m <= l /\ l <= m
  BY Zenon, <1>1, <1>2, <1>3, <1>4
<1>6. m = l
  BY <1>2, <1>3, <1>5
<1>7. RangeAt(e, m) = RangeAt(list, m)
  BY Zenon, <1>4, EarlierSizes DEF RangeAt
<1> QED
  BY Zenon, <1>2, <1>3, <1>6, <1>7

\* An address keeps its NetID and DevAddr when NetIDs are added to the list.
LEMMA StaysAssigned ==
  ASSUME NEW list \in Seq(IDs), NEW e \in Seq(IDs), Len(e) <= Len(list),
         \A i \in 1..Len(e) : e[i] = list[i], NEW n, Assigned(n, list),
         subnet_addr_to_netid(n, list) \in Range(e)
  PROVE  Assigned(n, e) /\ devaddr_from_subnet(n, e) = devaddr_from_subnet(n, list)
<1> DEFINE netid == subnet_addr_to_netid(n, list)
<1>1. PICK l \in 1..Len(list) :
        /\ netid = list[l] /\ subnet_addr_within_range(n, list[l], list)
        /\ \A k \in 1..Len(list) : subnet_addr_within_range(n, list[k], list) => l <= k
  BY Zenon, FoundIs
<1>2. PICK i \in 1..Len(e) : netid = e[i]
  <2>1. DOMAIN e = 1..Len(e)
    OBVIOUS
  <2> QED
    BY Zenon, <2>1 DEF Range
<1>3. /\ Len(e) \in Nat /\ Len(list) \in Nat /\ i \in 1..Len(list)
      /\ \A k \in 1..Len(e) : k \in 1..Len(list)
  OBVIOUS
<1>4. \A k \in 1..Len(e) : subnet_addr_within_range(n, e[k], e)
                             <=> subnet_addr_within_range(n, list[k], list)
  BY Zenon, EarlierRange DEF subnet_addr_within_range
<1>5. subnet_addr_within_range(n, list[i], list)
  BY Zenon, <1>1, <1>2
<1>6. Assigned(n, e)
  BY Zenon, <1>4, <1>5 DEF Assigned
<1>7. PICK m \in 1..Len(e) :
        /\ subnet_addr_to_netid(n, e) = e[m] /\ subnet_addr_within_range(n, e[m], e)
        /\ \A k \in 1..Len(e) : subnet_addr_within_range(n, e[k], e) => m <= k
  BY Zenon, <1>6, FoundIs
<1>8. l \in 1..Len(e)
  <2>1. l <= i
    BY Zenon, <1>1, <1>3, <1>5
  <2> QED
    BY <1>1, <1>2, <1>3, <2>1
<1>9. l <= m /\ m <= l
  BY Zenon, <1>1, <1>3, <1>4, <1>7, <1>8
<1>10. l = m
  BY <1>1, <1>7, <1>9
<1>11. subnet_addr_to_netid(n, e) = netid /\ netid = e[l]
  BY Zenon, <1>1, <1>7, <1>8, <1>10
<1>12. netid_addr_range(netid, e) = netid_addr_range(netid, list)
  <2>1. netid_addr_range(e[l], e) = netid_addr_range(list[l], list)
    BY Zenon, <1>8, EarlierRange
  <2> QED
    BY Zenon, <1>1, <1>11, <2>1
<1> QED
  BY Zenon, <1>6, <1>11, <1>12 DEF devaddr_from_subnet

(***************************************************************************)
(* Blocks of DevAddrs                                                      *)
(***************************************************************************)
\* The bits of a mask of ones followed by m zeros.
LEMMA MaskTable ==
  \A m \in 0..23, i \in 0..22 : ((Power[23] - Power[m]) \div Power[i]) % 2 = IF m <= i THEN 1 ELSE 0
BY SMTT(60), PowerTable

\* The numbers from a multiple of q up to the next are those with its quotient.
LEMMA Block ==
  ASSUME NEW n \in Nat, NEW q \in Nat \ {0}, NEW b \in Nat, b % q = 0
  PROVE  (b <= n /\ n < b + q) <=> (n \div q) = (b \div q)
OBVIOUS

\* Numbers agree in the bits from t on when they agree without the last t bits.
LEMMA BitsAgree ==
  ASSUME NEW n \in Nat, NEW b \in Nat, n < 2^25, b < 2^25
  PROVE  \A t \in 0..25 : (\A j \in t..24 : Bit(n, j) = Bit(b, j)) <=> n \div 2^t = b \div 2^t
<1> DEFINE A(t) == (\A j \in t..24 : Bit(n, j) = Bit(b, j)) <=> n \div 2^t = b \div 2^t
           T == {d \in Nat : d \in 0..25 => A(25 - d)}
<1>1. 0 \in T
  <2>1. n \div 2^25 = 0 /\ b \div 2^25 = 0
    <3>1. 25 \in 0..31 /\ 25 \in 0..32 /\ 25 <= 25
      OBVIOUS
    <3> QED
      BY Zenon, <3>1, HighBits
  <2>2. 25 - 0 = 25 /\ 0 \in Nat /\ \A j \in 25..24 : FALSE
    OBVIOUS
  <2> QED
    BY Zenon, <2>1, <2>2
<1>2. ASSUME NEW d \in Nat, d \in T
      PROVE  d + 1 \in T
  <2> SUFFICES ASSUME d + 1 \in 0..25 PROVE A(25 - (d + 1))
    OBVIOUS
  <2>1. PICK t \in 0..24 : t = 25 - (d + 1)
    OBVIOUS
  <2>2. 25 - d = t + 1 /\ d \in 0..25 /\ t \in 0..31 /\ t + 1 \in 0..31
    BY <2>1
  <2>3. A(t + 1)
    BY Zenon, <1>2, <2>2
  <2>4. /\ n \div 2^t = 2 * (n \div 2^(t + 1)) + Bit(n, t) /\ Bit(n, t) \in {0, 1}
        /\ b \div 2^t = 2 * (b \div 2^(t + 1)) + Bit(b, t) /\ Bit(b, t) \in {0, 1}
    BY Zenon, <2>2, BitFacts
  <2>5. n \div 2^(t + 1) \in Nat /\ b \div 2^(t + 1) \in Nat
    <3>1. t + 1 \in 0..32
      BY <2>2
    <3>2. 2^(t + 1) \in Nat \ {0}
      BY Zenon, <3>1, PowersOfTwo
    <3> QED
      BY Zenon, <3>2, Division
  <2>6. n \div 2^t = b \div 2^t <=>
          Bit(n, t) = Bit(b, t) /\ n \div 2^(t + 1) = b \div 2^(t + 1)
    <3>2. PICK x \in Nat, y \in Nat : x = n \div 2^(t + 1) /\ y = b \div 2^(t + 1)
      BY Zenon, <2>5
    <3>3. PICK u \in {0, 1}, v \in {0, 1} : u = Bit(n, t) /\ v = Bit(b, t)
      BY Zenon, <2>4
    <3>4. n \div 2^t = 2 * x + u /\ b \div 2^t = 2 * y + v
      BY Zenon, <2>4, <3>2, <3>3
    <3>5. 2 * x + u = 2 * y + v <=> u = v /\ x = y
      BY <3>2, <3>3
    <3> QED
      BY Zenon, <3>2, <3>3, <3>4, <3>5
  <2>7. (\A j \in t..24 : Bit(n, j) = Bit(b, j)) <=>
          Bit(n, t) = Bit(b, t) /\ \A j \in t + 1..24 : Bit(n, j) = Bit(b, j)
    <3>1. t \in t..24 /\ (\A j \in t + 1..24 : j \in t..24)
          /\ \A j \in t..24 : j = t \/ j \in t + 1..24
      BY <2>1
    <3> QED
      BY Zenon, <3>1
  <2>8. A(t)
    BY Zenon, <2>3, <2>6, <2>7
  <2> HIDE DEF A
  <2> QED
    BY Zenon, <2>1, <2>8
<1>3. \A d \in Nat : d \in T
  <2> HIDE DEF T
  <2> QED
    BY Zenon, <1>1, <1>2, Induction
<1> SUFFICES ASSUME NEW t \in 0..25 PROVE A(t)
  BY Zenon
<1>4. 25 - t \in Nat /\ 25 - t \in 0..25 /\ 25 - (25 - t) = t
  OBVIOUS
<1>5. A(25 - (25 - t))
  <2> HIDE DEF A
  <2> QED
    BY Zenon, <1>3, <1>4
<1> HIDE DEF A
<1> QED
  BY Zenon, <1>4, <1>5

LEMMA MaskBits ==
  ASSUME NEW m \in 0..23, NEW i \in 0..22
  PROVE  Bit(2^23 - 2^m, i) = 1 <=> m <= i
<1>1. m \in 0..32 /\ i \in 0..32 /\ 23 \in 0..32 /\ 0 # 1
  OBVIOUS
<1>2. Bit(2^23 - 2^m, i) = IF m <= i THEN 1 ELSE 0
  BY Zenon, <1>1, PowerIs, MaskTable DEF Bit
<1> QED
  BY Zenon, <1>1, <1>2

\* The addresses of an aligned block are those that agree with its base in the
\* bits of its mask.
LEMMA BlockIsMask ==
  ASSUME NEW m \in 0..23, NEW base \in Nat, base < 2^25, base % 2^(m + 2) = 0,
         NEW n \in Nat, n < 2^25
  PROVE  (base <= n /\ n < base + 2^(m + 2)) <=>
           \A i \in 0..22 : Bit(2^23 - 2^m, i) = 1 => Bit(n, i + 2) = Bit(base, i + 2)
<1>1. PICK t \in 0..25 : t = m + 2
  OBVIOUS
<1>2. 2^t \in Nat \ {0}
  <2>1. t \in 0..32
    OBVIOUS
  <2> QED
    BY Zenon, <2>1, PowersOfTwo
<1>3. (base <= n /\ n < base + 2^t) <=> n \div 2^t = base \div 2^t
  <2>1. base % 2^t = 0
    BY Zenon, <1>1
  <2>2. PICK q \in Nat \ {0} : q = 2^t
    BY Zenon, <1>2
  <2>3. base % q = 0
    BY Zenon, <2>1, <2>2
  <2>4. (base <= n /\ n < base + q) <=> n \div q = base \div q
    BY Zenon, <2>2, <2>3, Block
  <2> QED
    BY Zenon, <2>2, <2>4
<1>4. n \div 2^t = base \div 2^t <=> \A j \in t..24 : Bit(n, j) = Bit(base, j)
  BY Zenon, <1>1, BitsAgree
<1>5. (\A j \in t..24 : Bit(n, j) = Bit(base, j)) <=>
        \A i \in 0..22 : m <= i => Bit(n, i + 2) = Bit(base, i + 2)
  <2>1. \A i \in 0..22 : m <= i => i + 2 \in t..24
    BY <1>1
  <2>2. \A j \in t..24 : j - 2 \in 0..22 /\ m <= j - 2 /\ (j - 2) + 2 = j
    BY <1>1
  <2> QED
    BY Zenon, <2>1, <2>2
<1>6. \A i \in 0..22 : Bit(2^23 - 2^m, i) = 1 <=> m <= i
  BY Zenon, MaskBits
<1> QED
  BY Zenon, <1>1, <1>3, <1>4, <1>5, <1>6

\* The values of a byte.
Octet == 0..255

LEMMA BaseSums ==
  /\ \A a, b, c, d \in Octet : a * 131072 + b * 512 + c * 2 + d \div 128 \in Nat
  /\ \A a, b, c, d \in Octet : a * 131072 + b * 512 + c * 2 + d \div 128 < 2^25
<1>1. \A a, b, c, d \in Octet : a * 131072 + b * 512 + c * 2 + d \div 128 \in Nat
  BY SMT DEF Octet
<1>2. \A a, b, c, d \in Octet : a * 131072 + b * 512 + c * 2 + d \div 128 < 2^25
  BY SMT DEF Octet
<1> QED
  BY SMT, <1>1, <1>2

LEMMA AddrSums ==
  /\ \A a, b, c \in Octet : a < 128 => a * 65536 + b * 256 + c \in Nat
  /\ \A a, b, c \in Octet : a < 128 => a * 65536 + b * 256 + c < 2^25
  /\ \A a \in Octet : a < 128 => a % 128 = a
<1>1. \A a, b, c \in Octet : a < 128 => a * 65536 + b * 256 + c \in Nat
  BY SMT DEF Octet
<1>2. \A a, b, c \in Octet : a < 128 => a * 65536 + b * 256 + c < 2^25
  BY SMT DEF Octet
<1>3. \A a \in Octet : a < 128 => a % 128 = a
  BY SMT DEF Octet
<1> QED
  BY SMT, <1>1, <1>2, <1>3

\* The base in the 48 bits of a subnet, and the filter made of them.
LEMMA BaseOfBytes ==
  ASSUME NEW a \in Octet, NEW b \in Octet, NEW c \in Octet, NEW d \in Octet,
         NEW s, a = s[1] /\ b = s[2] /\ c = s[3] /\ d = s[4]
  PROVE  SubnetBase(s) \in Nat /\ SubnetBase(s) < 2^25
<1>1. SubnetBase(s) = a * 131072 + b * 512 + c * 2 + d \div 128
  BY SMT DEF SubnetBase
<1>2. /\ a * 131072 + b * 512 + c * 2 + d \div 128 \in Nat
      /\ a * 131072 + b * 512 + c * 2 + d \div 128 < 2^25
  BY SMT, BaseSums
<1> QED
  BY SMT, <1>1, <1>2

LEMMA FilterIs ==
  \A s : /\ DevAddrFilter(s).base = SubnetBase(s)
         /\ DevAddrFilter(s).size = (BITS_23 - SubnetMask(s)) * 4 + 3 + 1
BY SMT DEF DevAddrFilter, SubnetMask, SubnetBase

LEMMA SubnetParts ==
  ASSUME NEW s \in [1..6 -> Octet]
  PROVE  /\ SubnetBase(s) \in Nat /\ SubnetBase(s) < 2^25
         /\ DevAddrFilter(s).base = SubnetBase(s)
         /\ DevAddrFilter(s).size = (BITS_23 - SubnetMask(s)) * 4 + 3 + 1
<1>1. 1 \in 1..6 /\ 2 \in 1..6 /\ 3 \in 1..6 /\ 4 \in 1..6
  BY SMT
<1>2. s[1] \in Octet /\ s[2] \in Octet /\ s[3] \in Octet /\ s[4] \in Octet
  BY Zenon, <1>1
<1> QED
  BY Zenon, <1>2, BaseOfBytes, FilterIs

\* The size of a block whose mask is all but the last m bits.
LEMMA BlockSize ==
  ASSUME NEW m \in 0..23
  PROVE  (BITS_23 - (2^23 - 2^m)) * 4 + 3 + 1 = 2^(m + 2) /\ 2^(m + 2) \in Nat
<1>1. m \in 0..31 /\ m \in 0..32 /\ m + 1 \in 0..31 /\ (m + 1) + 1 = m + 2
  BY SMT
<1>2. 2^m \in Nat /\ 2^(m + 1) = 2 * 2^m /\ 2^(m + 2) = 2 * 2^(m + 1)
  BY Zenon, <1>1, PowersOfTwo
<1>3. \A x \in Nat : (BITS_23 - (2^23 - x)) * 4 + 3 + 1 = 2 * (2 * x)
  BY SMT DEF BITS_23
<1>4. 2 * (2 * 2^m) \in Nat
  BY SMT, <1>2
<1> QED
  BY Zenon, <1>2, <1>3, <1>4

\* The number of a DevAddr, and DevAddrFilter::contains as the range of its
\* base and size.
LEMMA NumberOfBytes ==
  ASSUME NEW a \in Octet, NEW b \in Octet, NEW c \in Octet, a < 128,
         NEW addr, a = addr[2] /\ b = addr[3] /\ c = addr[4]
  PROVE  /\ AddrNumber(addr) \in Nat /\ AddrNumber(addr) < 2^25
         /\ \A filter : DevAddrFilterContains(filter, addr) <=>
              /\ AddrNumber(addr) >= filter.base
              /\ AddrNumber(addr) < filter.base + filter.size
<1>1. AddrNumber(addr) = a * 65536 + b * 256 + c
  BY SMT DEF AddrNumber
<1>2. /\ a * 65536 + b * 256 + c \in Nat /\ a * 65536 + b * 256 + c < 2^25
      /\ a % 128 = a
  BY SMT, AddrSums
<1>3. (addr[2] % 128) * 65536 + addr[3] * 256 + addr[4] = AddrNumber(addr)
  BY SMT, <1>1, <1>2
<1>4. AddrNumber(addr) \in Nat /\ AddrNumber(addr) < 2^25
  BY SMT, <1>1, <1>2
<1> DEFINE m == (addr[2] % 128) * 65536 + addr[3] * 256 + addr[4]
<1>5. \A filter : DevAddrFilterContains(filter, addr) <=>
                    m >= filter.base /\ m < filter.base + filter.size
  BY SMT DEF DevAddrFilterContains
<1> HIDE DEF m
<1>6. m = AddrNumber(addr)
  BY SMT, <1>3 DEF m
<1> QED
  BY SMT, <1>4, <1>5, <1>6

LEMMA ContainsIs ==
  ASSUME NEW addr, addr[2] \in Octet, addr[3] \in Octet, addr[4] \in Octet, addr[2] < 128,
         NEW b \in Nat, NEW z \in Nat, NEW filter, filter.base = b, filter.size = z
  PROVE  /\ AddrNumber(addr) \in Nat /\ AddrNumber(addr) < 2^25
         /\ DevAddrFilterContains(filter, addr) <=>
              b <= AddrNumber(addr) /\ AddrNumber(addr) < b + z
<1>1. AddrNumber(addr) \in Nat /\ AddrNumber(addr) < 2^25
  BY Zenon, NumberOfBytes
<1>2. DevAddrFilterContains(filter, addr) <=> AddrNumber(addr) >= b /\ AddrNumber(addr) < b + z
  BY Zenon, NumberOfBytes
<1>3. \A x, y \in Nat : x >= y <=> y <= x
  BY SMT
<1> QED
  BY Zenon, <1>1, <1>2, <1>3

\* For an aligned block, the range is the block.
LEMMA FilterIsSubnet ==
  ASSUME NEW s \in [1..6 -> Octet], NEW addr, addr[2] \in Octet, addr[3] \in Octet,
         addr[4] \in Octet, addr[2] < 128,
         \E m \in 0..23 : SubnetMask(s) = 2^23 - 2^m /\ SubnetBase(s) % 2^(m + 2) = 0
  PROVE  DevAddrFilterContains(DevAddrFilter(s), addr) <=> InSubnet(AddrNumber(addr), s)
<1>1. PICK m \in 0..23 : SubnetMask(s) = 2^23 - 2^m /\ SubnetBase(s) % 2^(m + 2) = 0
  BY Zenon
<1>2. DevAddrFilter(s).size = 2^(m + 2)
  BY Zenon, <1>1, SubnetParts, BlockSize
<1>3. 2^(m + 2) \in Nat
  BY Zenon, BlockSize
<1>4. /\ AddrNumber(addr) \in Nat /\ AddrNumber(addr) < 2^25
      /\ DevAddrFilterContains(DevAddrFilter(s), addr) <=>
           SubnetBase(s) <= AddrNumber(addr) /\ AddrNumber(addr) < SubnetBase(s) + 2^(m + 2)
  BY Zenon, <1>2, <1>3, SubnetParts, ContainsIs
<1>5. InSubnet(AddrNumber(addr), s) <=>
        \A i \in 0..22 : Bit(2^23 - 2^m, i) = 1 =>
          Bit(AddrNumber(addr), i + 2) = Bit(SubnetBase(s), i + 2)
  BY Zenon, <1>1 DEF InSubnet, Bit
<1> QED
  BY Zenon, <1>1, <1>4, <1>5, SubnetParts, BlockIsMask

(***************************************************************************)
(* The invariant                                                           *)
(***************************************************************************)
\* A frame is bytes; the frame of a device with a subnet address is the uplink
\* of its DevAddr; and a data frame that is to be routed has its DevAddr.
FrameInv == frame \in Seq(Octet)

SubnetInv ==
  subnet # None =>
    /\ subnet \in SubnetAddrs
    /\ frame = UplinkFrame(devaddr_from_subnet(subnet, NetIDs))

LongEnough ==
  stage = "dispatcher" /\ mtype(frame[1]) \notin {"JoinRequest", "JoinAccept"} =>
    12 <= Len(frame)

IInv ==
  FrameInv /\ SubnetInv /\ FieldsInPlace /\ OptionsWithinFrame /\ LongEnough

LEMMA OwnBytes ==
  ASSUME NEW S, NEW s \in Seq(S)
  PROVE  s \in Seq(Range(s))
<1>1. s = [i \in 1..Len(s) |-> s[i]] /\ Len(s) \in Nat /\ DOMAIN s = 1..Len(s)
  OBVIOUS
<1>2. \A i \in 1..Len(s) : s[i] \in Range(s)
  BY Zenon, <1>1 DEF Range
<1> QED
  BY <1>1, <1>2

LEMMA WiderSeq ==
  ASSUME NEW S, NEW T, S \subseteq T, NEW s \in Seq(S)
  PROVE  s \in Seq(T)
<1>1. s = [i \in 1..Len(s) |-> s[i]] /\ Len(s) \in Nat
  OBVIOUS
<1>2. \A i \in 1..Len(s) : s[i] \in T
  BY Zenon, ElementOfSeq
<1> QED
  BY <1>1, <1>2

LEMMA ByteFrames ==
  ASSUME NEW f \in Seq(0..255)
  PROVE  WellFormed(f)
<1>1. \A i \in 1..Len(f) : f[i] \in 0..255
  BY Zenon, ElementOfSeq
<1>2. f # <<>> => 1 \in 1..Len(f)
  OBVIOUS
<1>3. \A n \in Nat : n >= 6 => 6 \in 1..n
  OBVIOUS
<1>4. Len(f) \in Nat
  OBVIOUS
<1> QED
  BY Zenon, <1>1, <1>2, <1>3, <1>4 DEF WellFormed

LEMMA FrameFacts ==
  ASSUME NEW f \in Seq(Octet)
  PROVE  f \in Seq(Range(f)) /\ WellFormed(f)
BY Zenon, OwnBytes, ByteFrames DEF Octet

\* The addresses that devices were given are those of the network's NetIDs.
LEMMA NetworkFacts ==
  /\ NetIDs \in Seq(IDs) /\ Valid(NetIDs)
  /\ \A n \in SubnetAddrs : n \in Nat /\ Assigned(n, NetIDs)
<1>1. NetIDs \in Seq(IDs)
  BY Zenon, ReceptionAssumption DEF IDs
<1>2. DOMAIN NetIDs = 1..Len(NetIDs)
  BY <1>1
<1> QED
  BY Zenon, <1>1, <1>2, ReceptionAssumption DEF Valid, Assigned

LEMMA JoinFacts ==
  ASSUME NEW S
  PROVE  \A s, t \in Seq(S) :
           /\ s \o t \in Seq(S) /\ Len(s \o t) = Len(s) + Len(t)
           /\ \A i \in 1..Len(s) : (s \o t)[i] = s[i]
           /\ \A i \in 1..Len(t) : (s \o t)[Len(s) + i] = t[i]
OBVIOUS

\* The frames of devices that have a DevAddr.
LEMMA UplinkFrames ==
  ASSUME NEW addr \in [1..32 -> {0, 1}]
  PROVE  LET f == UplinkFrame(addr)
         IN f \in Seq(Octet) /\ f[1] = 64 /\ Backwards(SubSeq(f, 2, 5)) = Bytes(addr)
<1> DEFINE v == Bytes(addr)
           a == Backwards(v)
           x == <<64>>
           y == <<0, 1, 0>>
           z == <<1, 2, 3, 4>>
           l == x \o a
           h == l \o y
           f == h \o z
<1>1. v \in Seq(Octet) /\ Len(v) = 4
  <2>1. v \in [1..4 -> Octet]
    BY Zenon, BytesBack DEF Octet
  <2> HIDE DEF v
  <2>2. v = [i \in 1..4 |-> v[i]] /\ \A i \in 1..4 : v[i] \in Octet
    BY Zenon, <2>1
  <2> QED
    BY <2>2
<1> HIDE DEF v
<1>2. a \in Seq(Octet) /\ Len(a) = 4 /\ Backwards(a) = v
  BY Zenon, <1>1, BackwardsFacts
<1> HIDE DEF a
<1>3. /\ x \in Seq(Octet) /\ Len(x) = 1 /\ x[1] = 64
      /\ y \in Seq(Octet) /\ Len(y) = 3 /\ z \in Seq(Octet) /\ Len(z) = 4
  BY DEF Octet
<1> HIDE DEF x, y, z
<1>0. \A s, t \in Seq(Octet) :
        /\ s \o t \in Seq(Octet) /\ Len(s \o t) = Len(s) + Len(t)
        /\ \A i \in 1..Len(s) : (s \o t)[i] = s[i]
        /\ \A i \in 1..Len(t) : (s \o t)[Len(s) + i] = t[i]
  BY JoinFacts
<1>4. l \in Seq(Octet) /\ Len(l) = 5 /\ l[1] = 64 /\ \A i \in 1..4 : l[1 + i] = a[i]
  <2>0. /\ l \in Seq(Octet) /\ Len(l) = Len(x) + Len(a)
        /\ \A i \in 1..Len(x) : l[i] = x[i]
        /\ \A i \in 1..Len(a) : l[Len(x) + i] = a[i]
    <3>1. x \in Seq(Octet) /\ a \in Seq(Octet)
      BY Zenon, <1>2, <1>3
    <3> QED
      BY Zenon, <1>0, <3>1
  <2>1. 1 + 4 = 5 /\ 1 \in 1..1
    OBVIOUS
  <2>2. Len(l) = 5 /\ l[1] = 64
    BY Zenon, <1>2, <1>3, <2>0, <2>1
  <2>3. \A i \in 1..4 : l[1 + i] = a[i]
    BY Zenon, <1>2, <1>3, <2>0
  <2> QED
    BY Zenon, <2>0, <2>2, <2>3
<1> HIDE DEF l
<1>5. h \in Seq(Octet) /\ Len(h) = 8 /\ \A i \in 1..5 : h[i] = l[i]
  <2>0. /\ h \in Seq(Octet) /\ Len(h) = Len(l) + Len(y)
        /\ \A i \in 1..Len(l) : h[i] = l[i]
        /\ \A i \in 1..Len(y) : h[Len(l) + i] = y[i]
    <3>1. l \in Seq(Octet) /\ y \in Seq(Octet)
      BY Zenon, <1>3, <1>4
    <3> QED
      BY Zenon, <1>0, <3>1
  <2>1. 5 + 3 = 8
    OBVIOUS
  <2> QED
    BY Zenon, <1>3, <1>4, <2>0, <2>1
<1> HIDE DEF h
<1>6. f \in Seq(Octet) /\ Len(f) = 12 /\ \A i \in 1..8 : f[i] = h[i]
  <2>0. /\ f \in Seq(Octet) /\ Len(f) = Len(h) + Len(z)
        /\ \A i \in 1..Len(h) : f[i] = h[i]
        /\ \A i \in 1..Len(z) : f[Len(h) + i] = z[i]
    <3>1. h \in Seq(Octet) /\ z \in Seq(Octet)
      BY Zenon, <1>3, <1>5
    <3> QED
      BY Zenon, <1>0, <3>1
  <2>1. 8 + 4 = 12
    OBVIOUS
  <2> QED
    BY Zenon, <1>3, <1>5, <2>0, <2>1
<1>7. f = UplinkFrame(addr)
  BY Zenon DEF f, h, l, a, v, x, y, z, UplinkFrame, little_endian
<1> HIDE DEF f
<1>8. f[1] = 64 /\ \A i \in 1..4 : f[1 + i] = a[i]
  <2>1. 1 \in 1..5 /\ 1 \in 1..8
    OBVIOUS
  <2>2. \A i \in 1..4 : 1 + i \in 1..5 /\ 1 + i \in 1..8
    OBVIOUS
  <2>3. \A j \in 1..5 : j \in 1..8 => f[j] = l[j]
    BY Zenon, <1>5, <1>6
  <2>4. \A i \in 1..4 : f[1 + i] = l[1 + i]
    BY Zenon, <2>2, <2>3
  <2> QED
    BY Zenon, <1>4, <2>1, <2>3, <2>4
<1>9. SubSeq(f, 2, 5) = a
  <2> DEFINE q == SubSeq(f, 2, 5)
  <2>1. /\ q \in Seq(Nat) /\ Len(q) = IF 2 <= 5 THEN 5 - 2 + 1 ELSE 0
        /\ \A k \in 1..5 - 2 + 1 : q[k] = f[2 + k - 1]
    <3>1. 2 \in Nat \ {0} /\ 5 \in Nat /\ 5 <= Len(f)
      BY <1>6
    <3>2. f \in Seq(Nat)
      <4>1. Octet \subseteq Nat
        BY DEF Octet
      <4> QED
        BY Zenon, <1>6, <4>1, WiderSeq
    <3>3. IsPart(q, f, 2, 5)
      BY Zenon, <3>1, <3>2, WordPart
    <3> HIDE DEF q
    <3> QED
      BY Zenon, <3>3 DEF IsPart
  <2>2. 2 <= 5 /\ 5 - 2 + 1 = 4
    OBVIOUS
  <2> HIDE DEF q
  <2>3. Len(q) = 4 /\ \A k \in 1..4 : q[k] = a[k]
    <3>1. Len(q) = 4 /\ \A k \in 1..4 : q[k] = f[2 + k - 1]
      BY Zenon, <2>1, <2>2
    <3>2. \A k \in 1..4 : 2 + k - 1 = 1 + k
      OBVIOUS
    <3>3. \A k \in 1..4 : f[2 + k - 1] = f[1 + k]
      BY Zenon, <3>2
    <3> QED
      BY Zenon, <1>8, <3>1, <3>3
  <2>4. q = [k \in 1..4 |-> q[k]] /\ a = [k \in 1..4 |-> a[k]]
    BY <1>2, <2>1, <2>3
  <2> QED
    BY Zenon, <2>3, <2>4 DEF q
<1> QED
  BY Zenon, <1>2, <1>6, <1>7, <1>8, <1>9 DEF v

\* The frames of beacons.
LEMMA BeaconFrames ==
  ASSUME NEW n \in MIN_BEACON_V0_PAYLOAD_SIZE..MAX_BEACON_V0_PAYLOAD_SIZE
  PROVE  BeaconFrame(BeaconData(n)) \in Seq(Octet)
<1> DEFINE d == BeaconData(n)
           x == <<224>>
           y == <<>>
<1>1. n \in 5..10
  BY DEF MIN_BEACON_V0_PAYLOAD_SIZE, MAX_BEACON_V0_PAYLOAD_SIZE
<1>2. d \in Seq(Octet)
  BY <1>1 DEF BeaconData, Octet
<1>3. BeaconFrame(d) = x \o d \o y
  <2> HIDE DEF d
  <2> QED
    BY DEF BeaconFrame, PHYPayloadWrite, proprietary
<1>4. x \in Seq(Octet) /\ y \in Seq(Octet)
  BY DEF Octet
<1> HIDE DEF x, y
<1>5. \A s, t \in Seq(Octet) : s \o t \in Seq(Octet)
  BY JoinFacts
<1>6. x \o d \in Seq(Octet)
  BY Zenon, <1>2, <1>4, <1>5
<1> QED
  BY Zenon, <1>3, <1>4, <1>5, <1>6

\* The DevAddr of a device with a subnet address, in the frame it sends.
LEMMA SubnetUplink ==
  ASSUME NEW n \in SubnetAddrs, frame = UplinkFrame(devaddr_from_subnet(n, NetIDs))
  PROVE  /\ devaddr_from_subnet(n, NetIDs) \in [1..32 -> {0, 1}]
         /\ frame \in Seq(Octet) /\ frame[1] = 64
         /\ Field(2, 5) = Bytes(devaddr_from_subnet(n, NetIDs))
<1>1. devaddr_from_subnet(n, NetIDs) \in [1..32 -> {0, 1}]
  BY Zenon, NetworkFacts, SubnetBack
<1> QED
  BY Zenon, <1>1, UplinkFrames DEF Field

LEMMA InitFrames ==
  Init => FrameInv /\ SubnetInv
<1> SUFFICES ASSUME Init PROVE FrameInv /\ SubnetInv
  OBVIOUS
<1>1. CASE subnet = None /\ frame \in Frames
  BY Zenon, <1>1, ReceptionAssumption DEF FrameInv, SubnetInv, Octet
<1>2. CASE subnet \in SubnetAddrs /\ frame = UplinkFrame(devaddr_from_subnet(subnet, NetIDs))
  BY Zenon, <1>2, SubnetUplink DEF FrameInv, SubnetInv
<1>3. ASSUME NEW n \in MIN_BEACON_V0_PAYLOAD_SIZE..MAX_BEACON_V0_PAYLOAD_SIZE,
             frame = BeaconFrame(BeaconData(n)), subnet = None
      PROVE  FrameInv /\ SubnetInv
  BY Zenon, <1>3, BeaconFrames DEF FrameInv, SubnetInv
<1> QED
  BY Zenon, <1>1, <1>2, <1>3 DEF Init

\* What a frame that is not a beacon is routed by.
LEMMA RoutedBy ==
  ASSUME FrameInv, PHYPayloadRead(frame).ok, ~is_potential_beacon(frame)
  PROVE  LET type == mtype(frame[1])
             info == routing_information(PHYPayloadRead(frame).value.payload)
         IN /\ info = CASE type = "JoinRequest" ->
                             [deveui |-> Field(10, 17), appeui |-> Field(2, 9)]
                        [] type = "JoinAccept" -> None
                        [] OTHER -> [devaddr |-> Field(2, 5)]
            /\ type \notin {"JoinRequest", "JoinAccept"} => type \in DataTypes
<1> DEFINE type == mtype(frame[1])
           p == PHYPayloadRead(frame).value.payload
<1>1. frame \in Seq(Range(frame)) /\ WellFormed(frame)
  BY Zenon, FrameFacts DEF FrameInv
<1>2. frame # <<>> /\ type # "Invalid" /\ type # "Proprietary"
  <2>1. frame # <<>> /\ type # "Invalid"
    BY Zenon, <1>1, ReadFacts
  <2> QED
    BY Zenon, <2>1 DEF is_potential_beacon
<1>3. type \in {"JoinRequest", "JoinAccept"} \/ type \in DataTypes
  <2>1. type \in {"JoinRequest", "JoinAccept", "UnconfirmedUp", "UnconfirmedDown",
                  "ConfirmedUp", "ConfirmedDown", "Invalid", "Proprietary"}
    BY Zenon, <1>1, <1>2, TypeOf DEF WellFormed
  <2> QED
    BY Zenon, <1>2, <2>1 DEF DataTypes
<1>4. CASE type = "JoinRequest"
  <2> DEFINE q == [frame |-> "JoinRequest", app_eui |-> Field(2, 9),
                   dev_eui |-> Field(10, 17), dev_nonce |-> SubSeq(frame, 18, 19)]
             m == SubSeq(frame, 20, 23)
             b == frame[1]
  <2>0. PHYPayloadRead(frame).value = [mhdr |-> b, payload |-> q, mic |-> m]
    BY Zenon, <1>1, <1>4, JoinRequestFacts DEF Field
  <2> HIDE DEF q, m, b
  <2>1. p = q
    BY <2>0
  <2> HIDE DEF p
  <2>2. routing_information(p) = [deveui |-> Field(10, 17), appeui |-> Field(2, 9)]
    BY <2>1 DEF routing_information, q
  <2> QED
    BY Zenon, <1>4, <2>2 DEF p
<1>5. CASE type = "JoinAccept"
  <2>1. p.frame = "JoinAccept"
    BY Zenon, <1>1, <1>5, JoinAcceptFacts
  <2> HIDE DEF p
  <2>2. routing_information(p) = None
    BY <2>1 DEF routing_information
  <2>3. "JoinAccept" # "JoinRequest"
    OBVIOUS
  <2> QED
    BY Zenon, <1>5, <2>2, <2>3 DEF p
<1>6. CASE type \in DataTypes
  <2>1. p.frame = "MACPayload" /\ p.fhdr.dev_addr = Field(2, 5)
    BY Zenon, <1>1, <1>6, DataFacts DEF Field
  <2> HIDE DEF p
  <2>2. routing_information(p) = [devaddr |-> Field(2, 5)]
    BY <2>1 DEF routing_information
  <2>3. type # "JoinRequest" /\ type # "JoinAccept"
    <3> HIDE DEF type
    <3> QED
      BY <1>6 DEF DataTypes
  <2> QED
    BY Zenon, <1>6, <2>2, <2>3 DEF p
<1> QED
  BY Zenon, <1>3, <1>4, <1>5, <1>6

\* What a witness report carries.
LEMMA Reported ==
  ASSUME FrameInv, PHYPayloadRead(frame).ok,
         PHYPayloadRead(frame).value.payload.frame = "Proprietary"
  PROVE  PHYPayloadRead(frame).value.payload.payload = Tail(frame)
<1> DEFINE type == mtype(frame[1])
           p == PHYPayloadRead(frame).value.payload
<1>1. frame \in Seq(Range(frame)) /\ WellFormed(frame)
  BY Zenon, FrameFacts DEF FrameInv
<1>2. frame # <<>> /\ type # "Invalid"
  BY Zenon, <1>1, ReadFacts
<1>3. type = "Proprietary"
  <2>1. type \in {"JoinRequest", "JoinAccept", "UnconfirmedUp", "UnconfirmedDown",
                  "ConfirmedUp", "ConfirmedDown", "Invalid", "Proprietary"}
    BY Zenon, <1>1, <1>2, TypeOf DEF WellFormed
  <2>2. type # "JoinRequest"
    <3> SUFFICES ASSUME type = "JoinRequest" PROVE FALSE
      OBVIOUS
    <3> DEFINE q == [frame |-> "JoinRequest", app_eui |-> Backwards(SubSeq(frame, 2, 9)),
                     dev_eui |-> Backwards(SubSeq(frame, 10, 17)),
                     dev_nonce |-> SubSeq(frame, 18, 19)]
               m == SubSeq(frame, 20, 23)
               b == frame[1]
    <3>1. PHYPayloadRead(frame).value = [mhdr |-> b, payload |-> q, mic |-> m]
      BY Zenon, <1>1, JoinRequestFacts
    <3>2. q.frame = "JoinRequest"
      BY Zenon
    <3> HIDE DEF q, m, b
    <3> QED
      BY <3>1, <3>2
  <2>3. type # "JoinAccept"
    <3>1. type = "JoinAccept" => p.frame = "JoinAccept"
      BY Zenon, <1>1, JoinAcceptFacts
    <3>2. "JoinAccept" # "Proprietary"
      OBVIOUS
    <3> QED
      BY Zenon, <3>1, <3>2
  <2>4. type \notin DataTypes
    <3>1. type \in DataTypes => p.frame = "MACPayload"
      BY Zenon, <1>1, DataFacts
    <3>2. "MACPayload" # "Proprietary"
      OBVIOUS
    <3> QED
      BY Zenon, <3>1, <3>2
  <2> QED
    BY Zenon, <1>2, <2>1, <2>2, <2>3, <2>4 DEF DataTypes
<1> DEFINE part == SubSeq(frame, 2, Len(frame))
           q == [frame |-> "Proprietary", payload |-> part]
           m == SubSeq(frame, Len(frame) + 1, Len(frame))
           b == frame[1]
<1>4. PHYPayloadRead(frame).value = [mhdr |-> b, payload |-> q, mic |-> m]
  BY Zenon, <1>1, <1>3, ProprietaryFacts
<1>5. part = Tail(frame)
  BY Zenon, <1>1, <1>2, WholeIsPart
<1> HIDE DEF part, m, b
<1>6. p.payload = part
  BY <1>4
<1> QED
  BY Zenon, <1>5, <1>6

LEMMA ReceptionStep ==
  IInv /\ [Next]_vars => IInv'
<1> SUFFICES ASSUME IInv, [Next]_vars PROVE IInv'
  OBVIOUS
<1>1. FrameInv /\ SubnetInv /\ FieldsInPlace /\ OptionsWithinFrame /\ LongEnough
  BY Zenon DEF IInv
<1>2. frame' = frame /\ subnet' = subnet
  BY Zenon DEF Next, PacketReceived, handle_uplink, to_witness_report, vars, received
<1>3. FrameInv' /\ SubnetInv'
  BY Zenon, <1>1, <1>2 DEF FrameInv, SubnetInv
<1>4. CASE PacketReceived
  <2> DEFINE phy == PHYPayloadRead(frame)
  <2>1. CASE ~crc \/ ~phy.ok
    <3>1. stage' = "ignored"
      BY Zenon, <1>4, <2>1 DEF PacketReceived
    <3> QED
      BY <1>3, <3>1 DEF IInv, FieldsInPlace, OptionsWithinFrame, LongEnough
  <2>2. CASE ~(~crc \/ ~phy.ok) /\ is_potential_beacon(frame)
    <3>1. stage' = "beaconer"
      BY Zenon, <1>4, <2>2 DEF PacketReceived
    <3> QED
      BY <1>3, <3>1 DEF IInv, FieldsInPlace, OptionsWithinFrame, LongEnough
  <2>3. CASE ~(~crc \/ ~phy.ok) /\ ~is_potential_beacon(frame)
    <3>1. stage' = "dispatcher" /\ routing' = routing_information(phy.value.payload)
      BY Zenon, <1>4, <2>3 DEF PacketReceived
    <3>2. phy.ok
      BY Zenon, <2>3
    <3>3. FieldsInPlace'
      <4>1. "dispatcher" # "reported"
        OBVIOUS
      <4>2. ~(stage' = "reported")
        BY Zenon, <3>1, <4>1
      <4>3. routing' = CASE mtype(frame[1]) = "JoinRequest" ->
                              [deveui |-> Field(10, 17), appeui |-> Field(2, 9)]
                         [] mtype(frame[1]) = "JoinAccept" -> None
                         [] OTHER -> [devaddr |-> Field(2, 5)]
        BY Zenon, <1>1, <2>3, <3>1, <3>2, RoutedBy
      <4> QED
        BY Zenon, <1>2, <4>2, <4>3 DEF FieldsInPlace, Field
    <3>4. OptionsWithinFrame' /\ LongEnough'
      <4> SUFFICES ASSUME mtype(frame[1]) \notin {"JoinRequest", "JoinAccept"}
                   PROVE  LET n == frame[6] % 16
                          IN /\ 12 <= Len(frame) /\ 8 + n + 4 <= Len(frame)
                             /\ n > 0 /\ 8 + n + 4 < Len(frame) => frame[9 + n] # 0
        BY Zenon, <1>2 DEF OptionsWithinFrame, LongEnough
      <4>1. mtype(frame[1]) \in DataTypes
        BY Zenon, <1>1, <2>3, <3>2, RoutedBy
      <4> QED
        BY Zenon, <1>1, <3>2, <4>1, FrameFacts, DataFacts DEF FrameInv, fopts_len
    <3> QED
      BY Zenon, <1>3, <3>3, <3>4 DEF IInv
  <2> QED
    BY Zenon, <2>1, <2>2, <2>3
<1>5. CASE handle_uplink
  <2>1. stage = "dispatcher" /\ stage' = "routed" /\ routing' = routing
    BY Zenon, <1>5 DEF handle_uplink
  <2>2. "routed" # "reported" /\ "routed" # "dispatcher"
    OBVIOUS
  <2> QED
    BY Zenon, <1>1, <1>2, <1>3, <2>1, <2>2
       DEF IInv, FieldsInPlace, OptionsWithinFrame, LongEnough, Field
<1>6. CASE to_witness_report
  <2> DEFINE phy == PHYPayloadRead(frame)
  <2>1. CASE stage' = "refused"
    BY <1>3, <2>1 DEF IInv, FieldsInPlace, OptionsWithinFrame, LongEnough
  <2>2. CASE ~(stage' = "refused")
    <3>1. /\ phy.ok /\ phy.value.payload.frame = "Proprietary"
          /\ stage' = "reported" /\ report' = phy.value.payload.payload
      BY Zenon, <1>6, <2>2 DEF to_witness_report
    <3>2. report' = Tail(frame')
      BY Zenon, <1>1, <1>2, <3>1, Reported
    <3>3. "reported" \notin {"dispatcher", "routed"}
      OBVIOUS
    <3> QED
      BY Zenon, <1>3, <3>1, <3>2, <3>3 DEF IInv, FieldsInPlace, OptionsWithinFrame, LongEnough
  <2> QED
    BY Zenon, <2>1, <2>2
<1>7. CASE UNCHANGED vars
  <2>1. UNCHANGED <<stage, routing, report>>
    BY Zenon, <1>7 DEF vars
  <2> QED
    BY Zenon, <1>1, <1>2, <1>3, <2>1 DEF IInv, FieldsInPlace, OptionsWithinFrame, LongEnough, Field
<1> QED
  BY Zenon, <1>4, <1>5, <1>6, <1>7 DEF Next

LEMMA ReceptionInvariant ==
  Spec => []IInv
<1>1. Init => IInv
  <2> SUFFICES ASSUME Init PROVE IInv
    OBVIOUS
  <2>1. stage = "air" /\ FrameInv /\ SubnetInv
    BY Zenon, InitFrames DEF Init
  <2> QED
    BY <2>1 DEF IInv, FieldsInPlace, OptionsWithinFrame, LongEnough
<1> QED
  BY <1>1, ReceptionStep, PTL DEF Spec

(***************************************************************************)
(* The theorems                                                            *)
(***************************************************************************)
\* The EUIs and DevAddr that Packet::routing_information hands to the
\* dispatcher, and the data of a witness report, are the bytes LoRaWAN puts at
\* those offsets, for frames of every length and with every byte.
THEOREM FieldsAreInPlace ==
  Spec => []FieldsInPlace
<1>1. IInv => FieldsInPlace
  BY Zenon DEF IInv
<1> QED
  BY <1>1, ReceptionInvariant, PTL

\* No data frame reaches the dispatcher whose FOptsLen goes beyond its MIC, or
\* that has options and port 0, whatever the lengths in the frame.
THEOREM OptionsAreWithinFrame ==
  Spec => []OptionsWithinFrame
<1>1. IInv => OptionsWithinFrame
  BY Zenon DEF IInv
<1> QED
  BY <1>1, ReceptionInvariant, PTL

\* PHYPayload's write undoes its read for join requests, join accepts without
\* channel list and proprietary frames.
THEOREM ControlFramesComeBack ==
  Spec => []ControlFramesRoundTrip
<1>1. IInv => ControlFramesRoundTrip
  <2> SUFFICES ASSUME IInv PROVE ControlFramesRoundTrip
    OBVIOUS
  <2>1. frame \in Seq(Range(frame)) /\ WellFormed(frame)
    BY Zenon, FrameFacts DEF IInv, FrameInv
  <2> QED
    BY Zenon, <2>1, ControlBack DEF ControlFramesRoundTrip, JOIN_ACCEPT_WITH_CFLIST_LEN
<1> QED
  BY <1>1, ReceptionInvariant, PTL

\* A device's uplink is routed by its DevAddr.
LEMMA SubnetRouting ==
  ASSUME IInv, subnet # None, stage = "dispatcher"
  PROVE  routing.devaddr = Bytes(devaddr_from_subnet(subnet, NetIDs))
<1>1. subnet \in SubnetAddrs /\ frame = UplinkFrame(devaddr_from_subnet(subnet, NetIDs))
  BY Zenon DEF IInv, SubnetInv
<1>2. frame[1] = 64 /\ Field(2, 5) = Bytes(devaddr_from_subnet(subnet, NetIDs))
  BY Zenon, <1>1, SubnetUplink
<1>3. mtype(64) = "UnconfirmedUp"
  BY DEF mtype, MTypes
<1>4. mtype(frame[1]) # "JoinRequest" /\ mtype(frame[1]) # "JoinAccept"
  <2>1. "UnconfirmedUp" # "JoinRequest" /\ "UnconfirmedUp" # "JoinAccept"
    OBVIOUS
  <2> QED
    BY Zenon, <1>2, <1>3, <2>1
<1>5. routing = [devaddr |-> Field(2, 5)]
  BY Zenon, <1>4 DEF IInv, FieldsInPlace
<1> QED
  BY <1>2, <1>5

\* A subnet address of any class of NetID, in a network of any list of NetIDs,
\* comes back from devaddr_from_subnet, the air, Packet::routing_information
\* and subnet_from_devaddr as it was, and is_local_devaddr knows its DevAddr.
THEOREM SubnetAddrsComeBack ==
  Spec => []SubnetComesBack
<1>1. IInv => SubnetComesBack
  <2> SUFFICES ASSUME IInv, subnet # None, stage = "dispatcher" PROVE SubnetComesBack
    BY Zenon DEF SubnetComesBack
  <2> DEFINE w == devaddr_from_subnet(subnet, NetIDs)
  <2>1. subnet \in Nat /\ Assigned(subnet, NetIDs)
    BY Zenon, NetworkFacts DEF IInv, SubnetInv
  <2>2. /\ w \in [1..32 -> {0, 1}] /\ parse_netid(w) \in Range(NetIDs)
        /\ subnet_from_devaddr(w, NetIDs) = subnet
    BY Zenon, <2>1, NetworkFacts, SubnetBack
  <2>3. Bits(routing.devaddr) = w
    BY Zenon, <2>2, BytesBack, SubnetRouting
  <2> HIDE DEF w
  <2> QED
    BY Zenon, <2>2, <2>3 DEF SubnetComesBack, is_local_devaddr, is_local_netid
<1> QED
  BY <1>1, ReceptionInvariant, PTL

\* Adding NetIDs to the end of the list changes nothing for the addresses in
\* use: netid_addr_range numbers the NetIDs before them as it did, so
\* devaddr_from_subnet and subnet_from_devaddr answer as they did.
THEOREM SubnetAddrsAreStable ==
  Spec => []SubnetStable
<1>1. IInv => SubnetStable
  <2> SUFFICES ASSUME IInv, subnet # None, NEW k \in DOMAIN NetIDs,
                      subnet_addr_to_netid(subnet, NetIDs) \in Range(SubSeq(NetIDs, 1, k))
               PROVE  LET earlier == SubSeq(NetIDs, 1, k)
                          addr == devaddr_from_subnet(subnet, NetIDs)
                      IN /\ devaddr_from_subnet(subnet, earlier) = addr
                         /\ subnet_from_devaddr(addr, earlier) = subnet
    BY Zenon DEF SubnetStable
  <2> DEFINE e == SubSeq(NetIDs, 1, k)
  <2>1. subnet \in Nat /\ Assigned(subnet, NetIDs) /\ NetIDs \in Seq(IDs) /\ Valid(NetIDs)
    BY Zenon, NetworkFacts DEF IInv, SubnetInv
  <2>2. k \in 1..Len(NetIDs)
    BY <2>1
  <2>3. e \in Seq(IDs) /\ Len(e) = k /\ \A i \in 1..k : e[i] = NetIDs[i] /\ i \in 1..Len(NetIDs)
    BY Zenon, <2>1, <2>2, EarlierList
  <2>4. subnet_addr_to_netid(subnet, NetIDs) \in Range(e)
    BY Zenon
  <2> HIDE DEF e
  <2>5. Len(e) <= Len(NetIDs)
    BY <2>1, <2>2, <2>3
  <2>6. Valid(e)
    BY Zenon, <2>1, <2>3 DEF Valid
  <2>7. /\ Assigned(subnet, e)
        /\ devaddr_from_subnet(subnet, e) = devaddr_from_subnet(subnet, NetIDs)
    BY Zenon, <2>1, <2>3, <2>4, <2>5, StaysAssigned
  <2>8. subnet_from_devaddr(devaddr_from_subnet(subnet, e), e) = subnet
    BY Zenon, <2>1, <2>3, <2>6, <2>7, SubnetBack
  <2> QED
    BY Zenon, <2>7, <2>8 DEF e
<1> QED
  BY <1>1, ReceptionInvariant, PTL

\* The model adds in Nat what netid_addr_range adds in u32. It is the same: as
\* the sizes of all NetIDs together are below 2^32, no range that is computed
\* for a NetID, in the list or not, begins or ends beyond.
THEOREM RangesDoNotOverflow ==
  \A netid : LET range == netid_addr_range(netid, NetIDs)
             IN range[1] \in 0..2^32 - 1 /\ range[2] \in 0..2^32 - 1
<1> SUFFICES ASSUME NEW netid
             PROVE  LET range == netid_addr_range(netid, NetIDs)
                    IN range[1] \in 0..2^32 - 1 /\ range[2] \in 0..2^32 - 1
  BY Zenon
<1>1. \A x, y \in Nat : x <= y /\ y \div 4 < 2^30 => x \in 0..2^32 - 1
  BY SMT
<1>2. NetIDs \in Seq(IDs) /\ size_of_first(NetIDs)[Len(NetIDs)] \div 4 < 2^30
  BY Zenon, ReceptionAssumption DEF IDs
<1>3. Len(NetIDs) \in 0..Len(NetIDs) /\ DOMAIN NetIDs = 1..Len(NetIDs)
  BY <1>2
<1>4. \A n \in 0..Len(NetIDs) : size_of_first(NetIDs)[n] \in 0..2^32 - 1
  BY Zenon, <1>1, <1>2, <1>3, SizesOf, SizesGrow
<1>5. CASE netid \in Range(NetIDs)
  <2>1. PICK i \in 1..Len(NetIDs) : NetIDs[i] = netid
    BY Zenon, <1>3, <1>5 DEF Range
  <2>2. PICK m \in 1..i : netid_addr_range(netid, NetIDs) = RangeAt(NetIDs, m)
    BY Zenon, <1>2, <2>1, RangeIs
  <2>3. m \in 0..Len(NetIDs) /\ m - 1 \in 0..Len(NetIDs)
    BY <1>2, <2>1
  <2> DEFINE x == size_of_first(NetIDs)[m - 1]
             y == size_of_first(NetIDs)[m]
  <2>4. x \in 0..2^32 - 1 /\ y \in 0..2^32 - 1
    BY Zenon, <1>4, <2>3
  <2>5. netid_addr_range(netid, NetIDs) = <<x, y>>
    BY Zenon, <2>2 DEF RangeAt
  <2> HIDE DEF x, y
  <2>6. netid_addr_range(netid, NetIDs)[1] = x /\ netid_addr_range(netid, NetIDs)[2] = y
    BY <2>5
  <2> QED
    BY Zenon, <2>4, <2>6
<1>6. CASE netid \notin Range(NetIDs)
  <2>1. {i \in DOMAIN NetIDs : NetIDs[i] = netid} = {}
    BY Zenon, <1>6 DEF Range
  <2>2. netid_addr_range(netid, NetIDs) = <<0, 0>>
    BY Zenon, <2>1 DEF netid_addr_range
  <2>3. <<0, 0>>[1] \in 0..2^32 - 1 /\ <<0, 0>>[2] \in 0..2^32 - 1
    BY SMT
  <2> QED
    BY Zenon, <2>2, <2>3
<1> QED
  BY Zenon, <1>5, <1>6

\* The bytes of a DevAddr that is to be routed by.
LEMMA DevAddrBytes ==
  ASSUME FrameInv, LongEnough, stage = "dispatcher",
         mtype(frame[1]) # "JoinRequest", mtype(frame[1]) # "JoinAccept"
  PROVE  LET addr == Field(2, 5)
         IN addr[2] \in Octet /\ addr[3] \in Octet /\ addr[4] \in Octet
<1> DEFINE q == SubSeq(frame, 2, 5)
           b == Backwards(q)
<1>1. frame \in Seq(Octet) /\ 12 <= Len(frame)
  BY Zenon DEF FrameInv, LongEnough
<1>2. q \in Seq(Octet) /\ Len(q) = 4
  <2>1. 2 \in Nat \ {0} /\ 5 \in Nat /\ 5 <= Len(frame) /\ 2 <= 5 /\ 5 - 2 + 1 = 4
    BY <1>1
  <2>2. q \in Seq(Octet) /\ Len(q) = IF 2 <= 5 THEN 5 - 2 + 1 ELSE 0
    BY <1>1, <2>1, PartFacts
  <2> QED
    BY Zenon, <2>1, <2>2
<1> HIDE DEF q
<1>3. b \in Seq(Octet) /\ Len(b) = 4
  BY Zenon, <1>2, BackwardsFacts
<1>4. b = Field(2, 5)
  BY Zenon DEF q, Field
<1> HIDE DEF b
<1>5. 2 \in 1..4 /\ 3 \in 1..4 /\ 4 \in 1..4
  OBVIOUS
<1> QED
  BY Zenon, <1>3, <1>4, <1>5, ElementOfSeq

\* A data frame is sent to the routers that own its DevAddr.
LEMMA RoutedToOwners ==
  ASSUME AlignedSubnets, IInv, handle_uplink
  PROVE  OwnersHear'
<1> DEFINE addr == routing.devaddr
           owns(r) == \E s \in Routers[r].subnets : InSubnet(AddrNumber(addr), s)
           owners == {r \in DOMAIN Routers : owns(r)}
           matching == {r \in DOMAIN Routers :
                          routing # None /\ matches_routing_info(Routers[r], routing)}
<1>1. /\ stage = "dispatcher" /\ routing' = routing
      /\ sent' = IF matching # {} THEN matching ELSE DefaultRouters
  BY Zenon DEF handle_uplink
<1> SUFFICES ASSUME routing # None, "devaddr" \in DOMAIN routing,
                    addr[1] % 2 = 0, addr[2] < 128
             PROVE  sent' = IF owners # {} THEN owners ELSE DefaultRouters
  BY Zenon, <1>1 DEF OwnersHear
<1>2. mtype(frame[1]) # "JoinRequest" /\ mtype(frame[1]) # "JoinAccept"
  <2> DEFINE join == [deveui |-> Field(10, 17), appeui |-> Field(2, 9)]
  <2>1. "devaddr" \notin DOMAIN join
    OBVIOUS
  <2>2. mtype(frame[1]) = "JoinRequest" => routing = join
    BY Zenon, <1>1 DEF IInv, FieldsInPlace
  <2>3. mtype(frame[1]) # "JoinRequest"
    BY Zenon, <2>1, <2>2
  <2>4. mtype(frame[1]) = "JoinAccept" => routing = None
    BY Zenon, <1>1, <2>3 DEF IInv, FieldsInPlace
  <2> QED
    BY Zenon, <2>3, <2>4
<1>3. routing = [devaddr |-> Field(2, 5)]
  BY Zenon, <1>1, <1>2 DEF IInv, FieldsInPlace
<1>4. addr = Field(2, 5) /\ "deveui" \notin DOMAIN routing
  <2> DEFINE field == Field(2, 5)
  <2>1. routing = [devaddr |-> field]
    BY Zenon, <1>3
  <2> HIDE DEF field
  <2>2. routing.devaddr = field /\ "deveui" \notin DOMAIN routing
    BY <2>1
  <2> QED
    BY Zenon, <2>2 DEF field
<1>5. addr[2] \in Octet /\ addr[3] \in Octet /\ addr[4] \in Octet
  BY Zenon, <1>1, <1>2, <1>4, DevAddrBytes DEF IInv
<1>6. ASSUME NEW r \in DOMAIN Routers
      PROVE  matches_routing_info(Routers[r], routing) <=> owns(r)
  <2>1. ASSUME NEW s \in Routers[r].subnets
        PROVE  DevAddrFilterContains(DevAddrFilter(s), addr) <=> InSubnet(AddrNumber(addr), s)
    <3>1. s \in [1..6 -> Octet]
      BY Zenon, ReceptionAssumption DEF Octet
    <3>2. \E m \in 0..23 : SubnetMask(s) = 2^23 - 2^m /\ SubnetBase(s) % 2^(m + 2) = 0
      BY Zenon DEF AlignedSubnets
    <3> HIDE DEF addr
    <3> QED
      BY Zenon, <1>5, <3>1, <3>2, FilterIsSubnet
  <2>2. matches_routing_info(Routers[r], routing) <=>
          \E s \in Routers[r].subnets : DevAddrFilterContains(DevAddrFilter(s), addr)
    BY Zenon, <1>4 DEF matches_routing_info
  <2> QED
    BY Zenon, <2>1, <2>2
<1>7. matching = owners
  <2> HIDE DEF owns
  <2> QED
    BY Zenon, <1>6
<1> QED
  BY Zenon, <1>1, <1>7

\* When the blocks of the routers are as the ledger hands them out, the range
\* that DevAddrFilter makes of a block is the block, and handle_uplink sends a
\* data frame to the owners of its DevAddr and to no others, to the default
\* routers only when it has none.
THEOREM OwnersAreHeard ==
  ASSUME AlignedSubnets
  PROVE  Spec => []OwnersHear
<1>1. Init => OwnersHear
  BY DEF Init, OwnersHear
<1>2. IInv /\ OwnersHear /\ [Next]_vars => OwnersHear'
  <2> SUFFICES ASSUME IInv, OwnersHear, [Next]_vars PROVE OwnersHear'
    OBVIOUS
  <2>1. CASE handle_uplink
    BY Zenon, <2>1, RoutedToOwners
  <2>2. CASE PacketReceived
    <3>1. stage' \in {"ignored", "beaconer", "dispatcher"}
      BY Zenon, <2>2 DEF PacketReceived
    <3> QED
      BY <3>1 DEF OwnersHear
  <2>3. CASE to_witness_report
    <3>1. stage' \in {"reported", "refused"}
      BY Zenon, <2>3 DEF to_witness_report
    <3> QED
      BY <3>1 DEF OwnersHear
  <2>4. CASE UNCHANGED vars
    <3>1. UNCHANGED <<stage, routing, sent>>
      BY Zenon, <2>4 DEF vars
    <3> QED
      BY Zenon, <3>1 DEF OwnersHear
  <2> QED
    BY Zenon, <2>1, <2>2, <2>3, <2>4 DEF Next
<1> QED
  BY <1>1, <1>2, ReceptionInvariant, PTL DEF Spec
=============================================================================
