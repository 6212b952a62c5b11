------------------------------ MODULE LoRaWan -------------------------------
(***************************************************************************)
(* The packets, channels and beacons of LoRaWAN as the library for         *)
(* applications makes and reads them (spiffs_image/lorawanlib.js).  The    *)
(* two ciphers are symbolic: a byte of a payload is what it stands for and *)
(* the set of key stream bytes that lie on it, which a second XOR with the *)
(* same byte takes off again, and a MIC is what it was computed from.      *)
(* Frequencies are in tenths of a MHz.                                     *)
(***************************************************************************)
EXTENDS Integers, Sequences, SequencesExt

LoraWanPacket(devAddr, nwkKey, appKey) ==
  [devAddr |-> Reverse(devAddr), nwkKey |-> nwkKey, appKey |-> appKey]

(* The remainder as JavaScript's % gives it.                               *)
JsRem(a, n) == IF a >= 0 THEN a % n ELSE -((-a) % n)

BigEndian(n) == <<(n \div 256) % 256, n % 256>>
LittleEndian(n) == <<n % 256, (n \div 256) % 256>>
(* htons of a number of 16 bits. *)
Htons(n) == (n \div 256) + 256 * (n % 256)

-----------------------------------------------------------------------------
(* Making packets.                                                         *)

EncBase(dir, fcnt, addr, block) ==
  [dir |-> IF dir = 1 THEN 1 ELSE 0, addr |-> addr,
   fcnt |-> BigEndian(Htons(fcnt)), block |-> (block + 1) % 256]

Plain(bytes) == [i \in 1..Len(bytes) |-> [byte |-> bytes[i], under |-> {}]]
Bytes(cells) == [i \in 1..Len(cells) |-> cells[i].byte]

Xor(cell, key) == [cell EXCEPT !.under = (@ \ {key}) \cup ({key} \ @)]

EncryptPayload(cells, addr, key, fcnt, dir) ==
  [i \in 1..Len(cells) |->
     Xor(cells[i], <<key, EncBase(dir, fcnt, addr, (i - 1) \div 16), (i - 1) % 16>>)]

MakeMic(pkt, addr, key, fcnt, dir) ==
  [key |-> key, base |-> EncBase(dir, fcnt, addr, 0), len |-> (8 + Len(pkt.body)) % 256,
   pkt |-> pkt]

(* The body of a packet is what follows the eight bytes up to the counter: *)
(* FOpts, the port and the payload; length is that of the whole, MIC       *)
(* included.                                                               *)
MakePacketFromPayLoad(lwp, payload, pkttype, fport, fctrl, fcnt, fopts, dir) ==
  LET pkt == [mhdr |-> pkttype, addr |-> lwp.devAddr, fctrl |-> fctrl + (Len(fopts) % 16),
              fcnt |-> LittleEndian(fcnt),
              body |-> Plain(fopts) \o Plain(<<fport % 256>>)
                       \o EncryptPayload(Plain(payload), lwp.devAddr, lwp.appKey, fcnt, dir)] IN
  [length |-> 8 + Len(pkt.body) + 4, pkt |-> pkt,
   mic |-> MakeMic(pkt, lwp.devAddr, lwp.nwkKey, fcnt, dir)]

UnConfirmedDown(lwp, payload, fport, fcnt, fopts) ==
  MakePacketFromPayLoad(lwp, payload, 96, fport, 0, fcnt, fopts, 1)
ConfirmedDown(lwp, payload, fport, fcnt, fopts) ==
  MakePacketFromPayLoad(lwp, payload, 160, fport, 0, fcnt, fopts, 1)
UnConfirmedUp(lwp, payload, fport, fcnt, fopts) ==
  MakePacketFromPayLoad(lwp, payload, 64, fport, 0, fcnt, fopts, 0)
ConfirmedUp(lwp, payload, fport, fcnt, fopts) ==
  MakePacketFromPayLoad(lwp, payload, 128, fport, 0, fcnt, fopts, 0)
MakeAck(lwp, fport, fcnt) ==
  MakePacketFromPayLoad(lwp, <<>>, 64, fport, 32, fcnt, <<>>, 0)

-----------------------------------------------------------------------------
(* Reading packets.                                                        *)

CheckMic(p, key, fcnt, addr, dir) == p.mic = MakeMic(p.pkt, addr, key, fcnt, dir)

ParseDownPacket(lwp, p) ==
  IF p.length < 12 \/ p.pkt.mhdr \div 32 \notin {3, 5} THEN [error |-> TRUE]
  ELSE LET addr == p.pkt.addr
           fctrl == p.pkt.fctrl
           fcnt == p.pkt.fcnt[1] + 256 * p.pkt.fcnt[2]
           body == p.pkt.body
           foptsLen == fctrl % 16
           there == foptsLen > 0 /\ foptsLen + 12 <= p.length
           skipped == IF there THEN foptsLen ELSE 0
           micOk == CheckMic(p, lwp.nwkKey, fcnt, addr, 1)
           hasPayload == micOk /\ 8 + skipped + 4 + 1 < p.length
       IN [error |-> FALSE,
           devAddr |-> addr,
           confirmed |-> p.pkt.mhdr \div 32 = 5,
           payload |-> IF hasPayload
                       THEN EncryptPayload(SubSeq(body, skipped + 2, Len(body)),
                                           addr, lwp.appKey, fcnt, 1)
                       ELSE <<>>,
           fport |-> IF hasPayload THEN <<body[skipped + 1].byte>> ELSE <<>>,
           fcnt |-> fcnt,
           fopts |-> IF there THEN Bytes(SubSeq(body, 1, foptsLen))
                     ELSE [i \in 1..foptsLen |-> 0],
           ack |-> (fctrl \div 32) % 2 = 1,
           micVerified |-> micOk]

(* The MAC commands in FOpts.  The loop counts down what it has left and   *)
(* moves an index; after an RXTimingSetupReq (8) it has counted two bytes  *)
(* and moved by one.                                                       *)
Counted == [cid \in 2..8 |-> CASE cid = 2 -> 1 [] cid = 3 -> 5 [] cid = 4 -> 2 [] cid = 5 -> 5
                               [] cid = 6 -> 1 [] cid = 7 -> 6 [] cid = 8 -> 2]
Moved == [Counted EXCEPT ![8] = 1]

MacCommand(data, idx) ==
  LET Byte(k) == IF k <= Len(data) THEN data[k] ELSE 0 IN
  CASE data[idx] = 3 -> [cid |-> 3, dr |-> Byte(idx + 1) \div 16, tx |-> Byte(idx + 1) % 16,
                         chmask |-> 256 * Byte(idx + 2) + Byte(idx + 3),
                         maskctl |-> Byte(idx + 4) \div 16, nbrep |-> Byte(idx + 4) % 16]
    [] data[idx] = 8 -> [cid |-> 8, delay |-> IF Byte(idx + 1) % 16 = 0 THEN 1
                                              ELSE Byte(idx + 1) % 16]
    [] OTHER -> [cid |-> data[idx]]

(* At an index and with so many bytes left. *)
FoptsDecode(data) ==
  LET From[at \in Nat \X (-5..Len(data))] ==
        IF at[2] <= 0 THEN [error |-> FALSE, mac |-> <<>>]
        ELSE IF data[at[1]] \notin 2..8 THEN [error |-> TRUE, mac |-> <<>>]
        ELSE LET cid == data[at[1]]
                 rest == From[<<at[1] + Moved[cid], at[2] - Counted[cid]>>] IN
             [rest EXCEPT !.mac = <<MacCommand(data, at[1])>> \o @]
  IN From[<<1, Len(data)>>]

-----------------------------------------------------------------------------
(* The channels of the 915 MHz band; 0 is no channel.                      *)

LoraWanChannel915(channel, dir) ==
  CASE dir = 0 /\ channel \in 0..63 -> 9023 + 2 * channel
    [] dir = 0 /\ channel \in 64..71 -> 9030 + 16 * (channel - 64)
    [] ~(dir = 0 /\ channel \in 0..71) /\ channel \in 0..7 -> 9233 + 6 * channel
    [] OTHER -> 0

LoraWanUpDownChannel915(channel) ==
  [channel |-> channel,
   sf |-> IF channel > 63 THEN 8 ELSE 7,
   bw |-> IF channel > 63 THEN 500000 ELSE 125000,
   upFreq |-> LoraWanChannel915(channel, 0),
   downFreq |-> LoraWanChannel915(JsRem(channel, 8), 1),
   down2Freq |-> 9233]

-----------------------------------------------------------------------------
(* Beacons of class B: a length and bytes.  The two bytes of a CRC are     *)
(* symbolic, they are what the CRC was computed from.                      *)

Crc16(bytes) == [k \in 1..2 |-> [crc16 |-> bytes, byte |-> k]]

LittleEndian24(bytes) == bytes[1] + 256 * bytes[2] + 2 ^ 16 * bytes[3]

GpsEpoch == 315964800
GpsEpochOffset == 18

FromTwosComplement(n, numberBytes) ==
  LET size == 2 ^ (8 * numberBytes) IN
  IF n < 0 \/ n > size - 1 THEN 0
  ELSE IF n <= size \div 2 - 1 THEN n
  ELSE -((size - 1 - n) + 1)

(* A coordinate is left as the number it is before the division that makes *)
(* degrees of it.  The info byte is taken from subarray(11, 1), which is   *)
(* empty.                                                                  *)
BeaconDecode(pkt) ==
  IF pkt.length # 23 THEN [error |-> TRUE, time_crc |-> FALSE]
  ELSE LET Part(first, last) == SubSeq(pkt.bytes, first, last)
           tm == LittleEndian24(Part(6, 8)) + 2 ^ 24 * pkt.bytes[9]
       IN [error |-> FALSE,
           time |-> GpsEpoch + tm - GpsEpochOffset,
           time_stamp |-> GpsEpoch + tm,
           time_crc |-> Part(10, 11) = Crc16(Part(1, 9)),
           info |-> 0,
           info_crc |-> Part(22, 23) = Crc16(Part(12, 21)),
           lat |-> FromTwosComplement(LittleEndian24(Part(13, 15)), 3),
           lon |-> FromTwosComplement(LittleEndian24(Part(16, 18)), 3)]

BeaconGetNextChannel(now) ==
  LET rel == now - GpsEpoch + GpsEpochOffset IN
  [channel |-> 1 + JsRem(rel, 1024) \div 128, nextBeaconSeconds |-> 128 - JsRem(rel, 128)]
=============================================================================
