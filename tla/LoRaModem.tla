----------------------------- MODULE LoRaModem ------------------------------
(***************************************************************************)
(* The settings of the LoRa modem: the functions that the application      *)
(* calls (main/lora_main.c) and the registers of the SX1276 that they      *)
(* write (components/lora/lora.c).  Several settings share a register, so  *)
(* that each of them is read, changed and written back.                    *)
(*                                                                         *)
(* A modem is the record of its registers.  Frequencies are in units of    *)
(* 100 kHz, bandwidths in Hz.                                              *)
(***************************************************************************)
EXTENDS Integers, FiniteSets

(* The registers after a reset of the chip; lora_init puts it to sleep.    *)
InitialModem ==
  [op |-> "sleep", frf |-> 7110656, config1 |-> 114, config2 |-> 112, invertIq |-> 39,
   preamble |-> 8, syncWord |-> 18, payloadLength |-> 1, pa |-> 128]

-----------------------------------------------------------------------------
(* A bit of a register, named by its value: 1, 2, 4, ...                   *)

BitOf(reg, bit) == (reg \div bit) % 2
SetBit(reg, bit) == IF BitOf(reg, bit) = 1 THEN reg ELSE reg + bit
ClearBit(reg, bit) == IF BitOf(reg, bit) = 1 THEN reg - bit ELSE reg

-----------------------------------------------------------------------------
(* The functions of the application, each with what of lora.c it calls;    *)
(* an argument that is out of range leaves the modem as it is.             *)

LoraIdle(m) == [m EXCEPT !.op = "standby"]
LoraReceive(m) == [m EXCEPT !.op = "rx"]

(* The frequency in steps of 61.035 Hz, rounded.                           *)
FreqRegs(freq) == freq * 1638 + (2 * freq * 4934 + 12207) \div 24414

SetFrequency(m, freq) ==
  IF freq \in 9020..9280 THEN [m EXCEPT !.frf = FreqRegs(freq)] ELSE m

BandwidthLimits == {7800, 10400, 15600, 20800, 31250, 41700, 62500, 125000, 250000}
BandwidthCode(bw) == Cardinality({limit \in BandwidthLimits : limit < bw})

(* Fault: the register is written without what else it holds. *)
SetBWOnly(m, bw) ==
  IF bw >= 7800 /\ bw <= 500000 THEN [m EXCEPT !.config1 = BandwidthCode(bw) * 16] ELSE m

SetBW(m, bw) ==
  IF bw >= 7800 /\ bw <= 500000 THEN [m EXCEPT !.config1 = (@ % 16) + BandwidthCode(bw) * 16] ELSE m

(* Without the two registers for the detection of packets that go with it. *)
SetSF(m, sf) ==
  IF sf \in 6..12 THEN [m EXCEPT !.config2 = (@ % 16) + sf * 16] ELSE m

SetCR(m, denominator) ==
  IF denominator \in 5..8
  THEN [m EXCEPT !.config1 = (@ \div 16) * 16 + (@ % 2) + (denominator - 4) * 2] ELSE m

WriteLength(m, size) == [m EXCEPT !.payloadLength = size]

ExplicitHeader(m) == [m EXCEPT !.config1 = ClearBit(@, 1)]
ImplicitHeader(m, size) == WriteLength([m EXCEPT !.config1 = SetBit(@, 1)], size)

(* A length other than 0 is that of every packet, which has no header then. *)
SetPayloadLen(m, len) ==
  IF len \notin 0..255 THEN m
  ELSE IF len = 0 THEN ExplicitHeader(m) ELSE ImplicitHeader(m, len)

(* setCRC and setIQMode, for either argument.                              *)
EnableCrc(m) == [m EXCEPT !.config2 = SetBit(@, 4)]
DisableCrc(m) == [m EXCEPT !.config2 = ClearBit(@, 4)]
EnableInvertIq(m) == [m EXCEPT !.invertIq = SetBit(@, 64)]
DisableInvertIq(m) == [m EXCEPT !.invertIq = ClearBit(@, 64)]

SetPreambleLen(m, len) == IF len >= 0 /\ len <= 65535 THEN [m EXCEPT !.preamble = len] ELSE m

SetSyncWord(m, word) == [m EXCEPT !.syncWord = word % 256]

SetTxPower(m, level) == IF level \in 2..17 THEN [m EXCEPT !.pa = 128 + level - 2] ELSE m

(* sendPacket of so many bytes, by an application that receives before and *)
(* after it: also a modem that expects packets of one length sends others, *)
(* and expects the length of the last one then.                            *)
SendPacket(m, size) == LoraReceive(WriteLength(m, size))

-----------------------------------------------------------------------------
(* What the registers mean (external: the SX1276).                         *)

SpreadingFactor(m) == m.config2 \div 16
Bandwidth(m) == m.config1 \div 16
CodingRate(m) == (m.config1 % 16) \div 2
Implicit(m) == BitOf(m.config1, 1) = 1
Inverted(m) == BitOf(m.invertIq, 64) = 1

(* The steps between the frequency of a modem and another frequency, which *)
(* may differ by a quarter of the bandwidth.                               *)
OffBy(frf, freq) == LET d == frf - (freq * 8192) \div 5 IN IF d < 0 THEN -d ELSE d

Near(m, freq, bw) == OffBy(m.frf, freq) * 61 < bw \div 4

(* Two modems of which one sends and one receives have to agree on how a   *)
(* packet is sent and on what it looks like.  One without header is        *)
(* received if its length and its coding rate are those expected.          *)
Tuned(m, air) ==
  /\ Near(m, air.freq, air.bw)
  /\ Bandwidth(m) = BandwidthCode(air.bw) /\ SpreadingFactor(m) = air.sf
  /\ m.syncWord = 52 /\ (Inverted(m) <=> air.inverted)

Fits(m, air) ==
  /\ CodingRate(m) \in 1..4
  /\ Implicit(m) <=> air.length # 0
  /\ air.length # 0 => m.payloadLength = air.length /\ CodingRate(m) = 1

Agrees(m, air) == Tuned(m, air) /\ Fits(m, air)

Hears(m, air) == m.op = "rx" /\ Agrees(m, air)
=============================================================================
