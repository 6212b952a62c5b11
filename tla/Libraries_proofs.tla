-------------------------- MODULE Libraries_proofs --------------------------
(***************************************************************************)
(* The safety properties of the libraries that applications use, in        *)
(* JavaScript.                                                             *)
(*                                                                         *)
(* LoRaWanScan: the radio is set for what it is to hear, the answers of    *)
(* the scan are channels on which an ACK came back, and packets are        *)
(* decoded as what was sent; for any network, any channels of gateways and *)
(* any packets.                                                            *)
(*                                                                         *)
(* TimerLib: the platform's timer is set for the first timer of the list,  *)
(* and a timeout is called once; for any number of timers, any delays,     *)
(* changes of the clock and time that functions take.                      *)
(***************************************************************************)
EXTENDS LoRaWanScan, TimerLib, FiniteSetTheorems, WellFoundedInduction, SequenceTheorems, TLAPS

(* A set of numbers has a least one, ... *)
LEMMA Least ==
  ASSUME NEW S \in SUBSET Nat, S # {}
  PROVE  \E n \in S : \A m \in S : n <= m
  <1> DEFINE R == {ss \in Nat \X Nat : ss[1] < ss[2]}
  <1>1. IsWellFoundedOn(R, Nat)
    BY NatLessThanWellFounded DEF OpToRel
  <1>2. \A x, y \in Nat : <<y, x>> \in R <=> y < x
    OBVIOUS
  <1> HIDE DEF R
  <1>3. PICK n \in S : \A m \in S : ~(<<m, n>> \in R)
    BY <1>1, WFMin
  <1>4. ASSUME NEW m \in S PROVE n <= m
    <2>1. m \in Nat /\ n \in Nat
      OBVIOUS
    <2>2. ~(m < n)
      BY <1>2, <1>3, <2>1
    <2>3. QED
      BY <2>1, <2>2
  <1>5. QED
    BY <1>4

(* ... so that there is induction, over sets. *)
LEMMA Reaches ==
  ASSUME NEW S, NEW b \in Nat, 0 \in S, \A n \in 0..(b - 1) : n \in S => n + 1 \in S
  PROVE  b \in S
  <1> DEFINE Left == {n \in 0..b : n \notin S}
  <1> SUFFICES ASSUME b \notin S PROVE FALSE
    OBVIOUS
  <1>1. Left \in SUBSET Nat /\ Left # {}
    OBVIOUS
  <1> HIDE DEF Left
  <1>2. PICK n \in Left : \A m \in Left : n <= m
    BY <1>1, Least
  <1>3. n \in 0..b /\ n \notin S /\ n # 0
    BY <1>2 DEF Left
  <1>4. n - 1 \in 0..(b - 1) /\ n - 1 \in 0..b /\ (n - 1) + 1 = n /\ ~(n <= n - 1)
    BY <1>3
  <1>5. n - 1 \in S
    BY <1>2, <1>4 DEF Left
  <1>6. QED
    BY <1>3, <1>4, <1>5

(* r is s, and t behind it. *)
Joined(B, s, t, r) == s \in Seq(B) /\ t \in Seq(B) /\ r = s \o t

(* Each element of a concatenation is one of its first or its second part. *)
LEMMA JoinedAt ==
  ASSUME NEW B, NEW s, NEW t, NEW r, Joined(B, s, t, r)
  PROVE  /\ r \in Seq(B) /\ Len(r) = Len(s) + Len(t)
         /\ \A k \in 1..Len(s) : r[k] = s[k]
         /\ \A k \in 1..Len(t) : r[Len(s) + k] = t[k]
  <1>1. s \in Seq(B) /\ t \in Seq(B) /\ Len(s) \in Nat /\ Len(t) \in Nat /\ r = s \o t
    BY DEF Joined
  <1>2. ASSUME NEW k \in 1..Len(t) PROVE r[Len(s) + k] = t[k]
    <2>1. /\ Len(s) + k \in 1..(Len(s) + Len(t)) /\ ~(Len(s) + k <= Len(s))
          /\ (Len(s) + k) - Len(s) = k
      BY <1>1
    <2>2. QED
      BY <1>1, <2>1
  <1>3. QED
    BY <1>1, <1>2

(***************************************************************************)
(* LoRaWanScan.                                                            *)
(***************************************************************************)
Modems ==
  [op : {"sleep", "standby", "rx"}, frf : Int, config1 : Nat, config2 : Nat,
   invertIq : Nat, preamble : Nat, syncWord : Nat, payloadLength : Nat, pa : Nat]

-----------------------------------------------------------------------------
(* Numbers.                                                                *)

(* The code of a bandwidth is a number. *)
LEMMA BandwidthCodeType == ASSUME NEW bw PROVE BandwidthCode(bw) \in Nat
  <1> DEFINE S == {limit \in BandwidthLimits : limit < bw}
  <1>1. S \in SUBSET Nat /\ \A s \in S : s <= 250000
    BY SMT DEF BandwidthLimits
  <1> HIDE DEF S
  <1>2. 250000 \in Nat
    BY SMT
  <1>3. Cardinality(S) \in Nat
    BY <1>1, <1>2, FS_BoundedSetOfNaturals, FS_CardinalityType, SMT
  <1>4. QED
    BY <1>3, SMT DEF BandwidthCode, S

LEMMA SpreadingRegister ==
  ASSUME NEW r \in Nat, NEW sf \in 6..12
  PROVE  (r % 16) + sf * 16 \in Nat /\ ((r % 16) + sf * 16) \div 16 = sf
  OBVIOUS

(* The steps of 61.035 Hz lie as near as the radio needs it. *)
LEMMA FrequencyIsNear ==
  ASSUME NEW freq \in 9020..9280
  PROVE  /\ FreqRegs(freq) \in Nat
         /\ OffBy(FreqRegs(freq), freq) * 61 < 125000 \div 4
         /\ OffBy(FreqRegs(freq), freq) * 61 < 500000 \div 4
  BY DEF FreqRegs, OffBy

(* The channels of the library lie in the band of setFrequency. *)
LEMMA ChannelsInBand ==
  ASSUME NEW c, c \in 0..71
  PROVE  LET chans == LoraWanUpDownChannel915(c) IN
         /\ chans.upFreq \in 9020..9280 /\ chans.downFreq \in 9020..9280
         /\ chans.bw \in {125000, 500000} /\ chans.sf \in {7, 8}
  <1>1. JsRem(c, 8) \in 0..7
    BY DEF JsRem
  <1>2. LoraWanChannel915(c, 0) \in 9020..9280
    BY DEF LoraWanChannel915
  <1>3. ASSUME NEW k \in 0..7 PROVE LoraWanChannel915(k, 1) \in 9020..9280
    BY DEF LoraWanChannel915
  <1>4. QED
    BY <1>1, <1>2, <1>3 DEF LoraWanUpDownChannel915

-----------------------------------------------------------------------------
(* What each setting does to the registers, one register at a time.        *)

(* n is a modem, and m but for register r. *)
Changed(r, m, n) ==
  /\ n \in Modems
  /\ r # "op" => n.op = m.op
  /\ r # "frf" => n.frf = m.frf
  /\ r # "config1" => n.config1 = m.config1
  /\ r # "config2" => n.config2 = m.config2
  /\ r # "invertIq" => n.invertIq = m.invertIq
  /\ r # "syncWord" => n.syncWord = m.syncWord
  /\ r # "payloadLength" => n.payloadLength = m.payloadLength

LEMMA Operation ==
  ASSUME NEW m \in Modems
  PROVE  /\ Changed("op", m, LoraIdle(m))
         /\ Changed("op", m, LoraReceive(m)) /\ LoraReceive(m).op = "rx"
  BY SMT DEF Modems, Changed, LoraIdle, LoraReceive

LEMMA Frequency ==
  ASSUME NEW m \in Modems, NEW freq, freq \in 9020..9280
  PROVE  /\ Changed("frf", m, SetFrequency(m, freq))
         /\ SetFrequency(m, freq).frf = FreqRegs(freq)
  <1>1. FreqRegs(freq) \in Int
    BY FrequencyIsNear, SMT
  <1>2. QED
    BY <1>1, SMT DEF Modems, Changed, SetFrequency

LEMMA BandwidthIsSet ==
  ASSUME NEW m \in Modems, NEW bw \in Int, bw >= 7800, bw <= 500000
  PROVE  LET n == SetBW(m, bw) IN
         /\ Changed("config1", m, n)
         /\ Bandwidth(n) = BandwidthCode(bw)
         /\ CodingRate(n) = CodingRate(m) /\ Implicit(n) = Implicit(m)
  <1> DEFINE reg == m.config1
             bc == BandwidthCode(bw)
             code == (reg % 16) + bc * 16
  <1>1. reg \in Nat
    BY SMT DEF Modems
  <1>2. bc \in Nat
    BY BandwidthCodeType, SMT
  <1>3. SetBW(m, bw) = [m EXCEPT !.config1 = code]
    BY SMT DEF SetBW
  <1> HIDE DEF bc, reg
  <1>4. /\ code \in Nat /\ code \div 16 = bc /\ code % 16 = reg % 16
        /\ BitOf(code, 1) = BitOf(reg, 1)
    BY <1>1, <1>2, SMT DEF BitOf
  <1> HIDE DEF code
  <1>5. Changed("config1", m, SetBW(m, bw)) /\ SetBW(m, bw).config1 = code
    BY <1>3, <1>4, SMT DEF Modems, Changed
  <1>6. QED
    BY <1>4, <1>5, SMT DEF Bandwidth, CodingRate, Implicit, reg, bc

LEMMA Spreading ==
  ASSUME NEW m \in Modems, NEW sf \in 6..12
  PROVE  Changed("config2", m, SetSF(m, sf)) /\ SpreadingFactor(SetSF(m, sf)) = sf
  <1> DEFINE code == (m.config2 % 16) + sf * 16
  <1>1. code \in Nat /\ code \div 16 = sf
    BY SpreadingRegister, SMT DEF Modems
  <1>2. SetSF(m, sf) = [m EXCEPT !.config2 = code]
    BY SMT DEF SetSF
  <1> HIDE DEF code
  <1>3. QED
    BY <1>1, <1>2, SMT DEF Modems, Changed, SpreadingFactor

LEMMA Length ==
  ASSUME NEW m \in Modems, NEW size \in Nat
  PROVE  /\ Changed("payloadLength", m, WriteLength(m, size))
         /\ WriteLength(m, size).payloadLength = size
  BY SMT DEF Modems, Changed, WriteLength

LEMMA FixedLength ==
  ASSUME NEW m \in Modems, NEW size \in 1..255
  PROVE  LET n == SetPayloadLen(m, size) IN
         /\ n \in Modems /\ n.payloadLength = size
         /\ n.frf = m.frf /\ Implicit(n) /\ CodingRate(n) = CodingRate(m)
  <1> DEFINE code == SetBit(m.config1, 1)
             m1 == [m EXCEPT !.config1 = code]
  <1>1. m.config1 \in Nat
    BY SMT DEF Modems
  <1>2. /\ code \in Nat /\ BitOf(code, 1) = 1
        /\ (code % 16) \div 2 = (m.config1 % 16) \div 2
    BY <1>1, SMTT(60) DEF SetBit, ClearBit, BitOf
  <1>3. SetPayloadLen(m, size) = WriteLength(m1, size)
    BY SMT DEF SetPayloadLen, ImplicitHeader
  <1> HIDE DEF code
  <1>4. Changed("config1", m, m1) /\ m1.config1 = code
    BY <1>2, SMT DEF Modems, Changed
  <1> HIDE DEF m1
  <1>5. /\ Changed("payloadLength", m1, WriteLength(m1, size))
        /\ WriteLength(m1, size).payloadLength = size
    BY <1>4, Length, SMT DEF Changed
  <1>6. QED
    BY <1>2, <1>3, <1>4, <1>5, SMT DEF Changed, Implicit, CodingRate

LEMMA Crc ==
  ASSUME NEW m \in Modems
  PROVE  /\ Changed("config2", m, EnableCrc(m))
         /\ SpreadingFactor(EnableCrc(m)) = SpreadingFactor(m)
         /\ Changed("config2", m, DisableCrc(m))
         /\ SpreadingFactor(DisableCrc(m)) = SpreadingFactor(m)
  <1> DEFINE set == SetBit(m.config2, 4)
             clear == ClearBit(m.config2, 4)
  <1>1. m.config2 \in Nat
    BY SMT DEF Modems
  <1>2. /\ set \in Nat /\ set \div 16 = m.config2 \div 16
        /\ clear \in Nat /\ clear \div 16 = m.config2 \div 16
    BY <1>1, SMT DEF SetBit, ClearBit, BitOf
  <1>3. /\ EnableCrc(m) = [m EXCEPT !.config2 = set]
        /\ DisableCrc(m) = [m EXCEPT !.config2 = clear]
    BY SMT DEF EnableCrc, DisableCrc
  <1> HIDE DEF set, clear
  <1>4. Changed("config2", m, EnableCrc(m)) /\ EnableCrc(m).config2 = set
    BY <1>2, <1>3, SMT DEF Modems, Changed
  <1>5. Changed("config2", m, DisableCrc(m)) /\ DisableCrc(m).config2 = clear
    BY <1>2, <1>3, SMT DEF Modems, Changed
  <1>6. QED
    BY <1>2, <1>4, <1>5, SMT DEF SpreadingFactor

LEMMA IqMode ==
  ASSUME NEW m \in Modems
  PROVE  /\ Changed("invertIq", m, EnableInvertIq(m)) /\ Inverted(EnableInvertIq(m))
         /\ Changed("invertIq", m, DisableInvertIq(m)) /\ ~Inverted(DisableInvertIq(m))
  <1> DEFINE set == SetBit(m.invertIq, 64)
             clear == ClearBit(m.invertIq, 64)
  <1>1. m.invertIq \in Nat
    BY SMT DEF Modems
  <1>2. set \in Nat /\ BitOf(set, 64) = 1 /\ clear \in Nat /\ BitOf(clear, 64) = 0
    BY <1>1, SMT DEF SetBit, ClearBit, BitOf
  <1>3. /\ EnableInvertIq(m) = [m EXCEPT !.invertIq = set]
        /\ DisableInvertIq(m) = [m EXCEPT !.invertIq = clear]
    BY SMT DEF EnableInvertIq, DisableInvertIq
  <1> HIDE DEF set, clear
  <1>4. Changed("invertIq", m, EnableInvertIq(m)) /\ EnableInvertIq(m).invertIq = set
    BY <1>2, <1>3, SMT DEF Modems, Changed
  <1>5. Changed("invertIq", m, DisableInvertIq(m)) /\ DisableInvertIq(m).invertIq = clear
    BY <1>2, <1>3, SMT DEF Modems, Changed
  <1>6. QED
    BY <1>2, <1>4, <1>5, SMT DEF Inverted

LEMMA Preamble ==
  ASSUME NEW m \in Modems, NEW len \in 0..10
  PROVE  Changed("preamble", m, SetPreambleLen(m, len))
  BY SMT DEF Modems, Changed, SetPreambleLen

LEMMA Sync ==
  ASSUME NEW m \in Modems
  PROVE  Changed("syncWord", m, SetSyncWord(m, 52)) /\ SetSyncWord(m, 52).syncWord = 52
  BY SMT DEF Modems, Changed, SetSyncWord

LEMMA Power ==
  ASSUME NEW m \in Modems, NEW level \in Int
  PROVE  Changed("pa", m, SetTxPower(m, level))
  BY SMT DEF Modems, Changed, SetTxPower

LEMMA Packet ==
  ASSUME NEW m \in Modems
  PROVE  LET n == SendPacket(m, 17) IN
         /\ n \in Modems
         /\ n.frf = m.frf /\ n.config1 = m.config1 /\ n.config2 = m.config2
         /\ n.invertIq = m.invertIq /\ n.syncWord = m.syncWord
  <1> DEFINE m1 == WriteLength(m, 17)
  <1>1. Changed("payloadLength", m, m1)
    BY Length, SMT
  <1>2. SendPacket(m, 17) = LoraReceive(m1)
    BY SMT DEF SendPacket
  <1> HIDE DEF m1
  <1>3. Changed("op", m1, LoraReceive(m1))
    BY <1>1, Operation, SMT DEF Changed
  <1>4. QED
    BY <1>1, <1>2, <1>3, SMT DEF Changed

-----------------------------------------------------------------------------
(* What the functions of the script leave in the registers, whatever was   *)
(* there before.                                                           *)

LEMMA SendUpSets ==
  ASSUME NEW m \in Modems, NEW chans, chans.upFreq \in 9020..9280,
         chans.bw \in {125000, 500000}, chans.sf \in {7, 8}
  PROVE  LET s == SendUp(m, chans) IN
         /\ s \in Modems
         /\ s.frf = FreqRegs(chans.upFreq)
         /\ Bandwidth(s) = BandwidthCode(chans.bw) /\ SpreadingFactor(s) = chans.sf
         /\ CodingRate(s) = CodingRate(m) /\ s.syncWord = 52 /\ ~Inverted(s)
  <1> DEFINE idle == LoraIdle(m)
             freq == SetFrequency(idle, chans.upFreq)
             bw == SetBW(freq, chans.bw)
             sf == SetSF(bw, chans.sf)
             tx == SetTxPower(sf, 17)
             pre == SetPreambleLen(tx, 8)
             iq == DisableInvertIq(pre)
             sync == SetSyncWord(iq, 52)
             crc == EnableCrc(sync)
             rx == LoraReceive(crc)
             sent == SendPacket(rx, 17)
  <1>1. SendUp(m, chans) = sent
    BY SMT DEF SendUp
  <1>2. Changed("op", m, idle)
    BY Operation, SMT
  <1> HIDE DEF idle
  <1>3. Changed("frf", idle, freq) /\ freq.frf = FreqRegs(chans.upFreq)
    BY <1>2, Frequency, SMT DEF Changed
  <1> HIDE DEF freq
  <1>4. /\ Changed("config1", freq, bw) /\ Bandwidth(bw) = BandwidthCode(chans.bw)
        /\ CodingRate(bw) = CodingRate(freq)
    BY <1>3, BandwidthIsSet, SMT DEF Changed
  <1> HIDE DEF bw
  <1>5. Changed("config2", bw, sf) /\ SpreadingFactor(sf) = chans.sf
    BY <1>4, Spreading, SMT DEF Changed
  <1> HIDE DEF sf
  <1>6. Changed("pa", sf, tx)
    BY <1>5, Power, SMTT(60) DEF Changed
  <1> HIDE DEF tx
  <1>7. Changed("preamble", tx, pre)
    BY <1>6, Preamble, SMT DEF Changed
  <1> HIDE DEF pre
  <1>8. Changed("invertIq", pre, iq) /\ ~Inverted(iq)
    BY <1>7, IqMode, SMT DEF Changed
  <1> HIDE DEF iq
  <1>9. Changed("syncWord", iq, sync) /\ sync.syncWord = 52
    BY <1>8, Sync, SMT DEF Changed
  <1> HIDE DEF sync
  <1>10. Changed("config2", sync, crc) /\ SpreadingFactor(crc) = SpreadingFactor(sync)
    BY <1>9, Crc, SMT DEF Changed
  <1> HIDE DEF crc
  <1>11. Changed("op", crc, rx)
    BY <1>10, Operation, SMT DEF Changed
  <1> HIDE DEF rx
  <1>12. /\ sent \in Modems
         /\ sent.frf = rx.frf /\ sent.config1 = rx.config1 /\ sent.config2 = rx.config2
         /\ sent.invertIq = rx.invertIq /\ sent.syncWord = rx.syncWord
    BY <1>11, Packet, SMT DEF Changed
  <1> HIDE DEF sent
  <1>13. /\ rx.frf = FreqRegs(chans.upFreq) /\ rx.config1 = bw.config1
         /\ freq.config1 = m.config1
         /\ rx.config2 = crc.config2 /\ sync.config2 = sf.config2
         /\ rx.syncWord = 52 /\ rx.invertIq = iq.invertIq
    BY <1>2, <1>3, <1>4, <1>5, <1>6, <1>7, <1>8, <1>9, <1>10, <1>11, SMT DEF Changed
  <1>14. QED
    BY <1>1, <1>4, <1>5, <1>8, <1>10, <1>12, <1>13, SMT
       DEF Bandwidth, CodingRate, SpreadingFactor, Inverted

LEMMA AfterSendUpSets ==
  ASSUME NEW m \in Modems, NEW chans, chans.downFreq \in 9020..9280
  PROVE  LET s == AfterSendUp(m, chans) IN
         /\ s \in Modems /\ s.op = "rx"
         /\ s.frf = FreqRegs(chans.downFreq)
         /\ Bandwidth(s) = BandwidthCode(500000) /\ SpreadingFactor(s) = SpreadingFactor(m)
         /\ CodingRate(s) = CodingRate(m) /\ s.syncWord = m.syncWord /\ Inverted(s)
  <1> DEFINE idle == LoraIdle(m)
             bw == SetBW(idle, 500000)
             iq == EnableInvertIq(bw)
             freq == SetFrequency(iq, chans.downFreq)
             rx == LoraReceive(freq)
  <1>1. AfterSendUp(m, chans) = rx
    BY SMT DEF AfterSendUp
  <1>2. Changed("op", m, idle)
    BY Operation, SMT
  <1> HIDE DEF idle
  <1>3. /\ Changed("config1", idle, bw) /\ Bandwidth(bw) = BandwidthCode(500000)
        /\ CodingRate(bw) = CodingRate(idle)
    BY <1>2, BandwidthIsSet, SMT DEF Changed
  <1> HIDE DEF bw
  <1>4. Changed("invertIq", bw, iq) /\ Inverted(iq)
    BY <1>3, IqMode, SMT DEF Changed
  <1> HIDE DEF iq
  <1>5. Changed("frf", iq, freq) /\ freq.frf = FreqRegs(chans.downFreq)
    BY <1>4, Frequency, SMT DEF Changed
  <1> HIDE DEF freq
  <1>6. Changed("op", freq, rx) /\ rx.op = "rx"
    BY <1>5, Operation, SMT DEF Changed
  <1> HIDE DEF rx
  <1>7. /\ rx.frf = freq.frf /\ rx.config1 = bw.config1 /\ idle.config1 = m.config1
        /\ rx.config2 = m.config2 /\ rx.syncWord = m.syncWord /\ rx.invertIq = iq.invertIq
        /\ rx \in Modems
    BY <1>2, <1>3, <1>4, <1>5, <1>6, SMT DEF Changed
  <1>8. QED
    BY <1>1, <1>3, <1>4, <1>5, <1>6, <1>7, SMT
       DEF Bandwidth, CodingRate, SpreadingFactor, Inverted

LEMMA ListenRx2Sets ==
  ASSUME NEW m \in Modems
  PROVE  LET s == ListenRx2(m) IN
         /\ s \in Modems /\ s.op = "rx"
         /\ s.frf = FreqRegs(9233)
         /\ Bandwidth(s) = BandwidthCode(500000) /\ SpreadingFactor(s) = 8
         /\ CodingRate(s) = CodingRate(m) /\ s.syncWord = 52 /\ Inverted(s)
  <1> DEFINE idle == LoraIdle(m)
             sf == SetSF(idle, 8)
             tx == SetTxPower(sf, 1)
             pre == SetPreambleLen(tx, 8)
             sync == SetSyncWord(pre, 52)
             crc == EnableCrc(sync)
             bw == SetBW(crc, 500000)
             iq == EnableInvertIq(bw)
             freq == SetFrequency(iq, 9233)
             rx == LoraReceive(freq)
  <1>1. ListenRx2(m) = rx
    BY SMT DEF ListenRx2, LoraWanUpDownChannel915
  <1>2. Changed("op", m, idle)
    BY Operation, SMT
  <1> HIDE DEF idle
  <1>3. Changed("config2", idle, sf) /\ SpreadingFactor(sf) = 8
    BY <1>2, Spreading, SMT DEF Changed
  <1> HIDE DEF sf
  <1>4. Changed("pa", sf, tx)
    BY <1>3, Power, SMT DEF Changed
  <1> HIDE DEF tx
  <1>5. Changed("preamble", tx, pre)
    BY <1>4, Preamble, SMT DEF Changed
  <1> HIDE DEF pre
  <1>6. Changed("syncWord", pre, sync) /\ sync.syncWord = 52
    BY <1>5, Sync, SMT DEF Changed
  <1> HIDE DEF sync
  <1>7. Changed("config2", sync, crc) /\ SpreadingFactor(crc) = SpreadingFactor(sync)
    BY <1>6, Crc, SMT DEF Changed
  <1> HIDE DEF crc
  <1>8. /\ Changed("config1", crc, bw) /\ Bandwidth(bw) = BandwidthCode(500000)
        /\ CodingRate(bw) = CodingRate(crc)
    BY <1>7, BandwidthIsSet, SMT DEF Changed
  <1> HIDE DEF bw
  <1>9. Changed("invertIq", bw, iq) /\ Inverted(iq)
    BY <1>8, IqMode, SMT DEF Changed
  <1> HIDE DEF iq
  <1>10. Changed("frf", iq, freq) /\ freq.frf = FreqRegs(9233)
    BY <1>9, Frequency, SMT DEF Changed
  <1> HIDE DEF freq
  <1>11. Changed("op", freq, rx) /\ rx.op = "rx"
    BY <1>10, Operation, SMT DEF Changed
  <1> HIDE DEF rx
  <1>12. /\ rx.frf = freq.frf /\ rx.config1 = bw.config1 /\ crc.config1 = m.config1
         /\ rx.config2 = crc.config2 /\ sync.config2 = sf.config2
         /\ rx.syncWord = 52 /\ rx.invertIq = iq.invertIq /\ rx \in Modems
    BY <1>2, <1>3, <1>4, <1>5, <1>6, <1>7, <1>8, <1>9, <1>10, <1>11, SMT DEF Changed
  <1>13. QED
    BY <1>1, <1>3, <1>7, <1>8, <1>9, <1>10, <1>11, <1>12, SMT
       DEF Bandwidth, CodingRate, SpreadingFactor, Inverted

LEMMA BeaconListenSets ==
  ASSUME NEW m \in Modems, NEW c
  PROVE  LET s == LoraWanBeaconListen(m, c) IN
         /\ s \in Modems /\ CodingRate(s) = CodingRate(m)
         /\ c \in 0..7 =>
              /\ s.op = "rx"
              /\ s.frf = FreqRegs(9233 + 6 * c)
              /\ Bandwidth(s) = BandwidthCode(500000) /\ SpreadingFactor(s) = 12
              /\ Implicit(s) /\ s.payloadLength = 23
              /\ s.syncWord = 52 /\ ~Inverted(s)
  <1>1. CASE c \notin 0..7
    <2>1. LoraWanChannel915(c, 1) = 0
      BY <1>1, SMT DEF LoraWanChannel915
    <2>2. QED
      BY <1>1, <2>1, SMT DEF LoraWanBeaconListen
  <1>2. CASE c \in 0..7
    <2> DEFINE f == LoraWanChannel915(c, 1)
               idle == LoraIdle(m)
               freq == SetFrequency(idle, f)
               len == SetPayloadLen(freq, 23)
               sf == SetSF(len, 12)
               tx == SetTxPower(sf, 1)
               pre == SetPreambleLen(tx, 10)
               sync == SetSyncWord(pre, 52)
               crc == DisableCrc(sync)
               bw == SetBW(crc, 500000)
               iq == DisableInvertIq(bw)
               rx == LoraReceive(iq)
    <2>1. f = 9233 + 6 * c /\ f \in 9020..9280 /\ f # 0
      BY <1>2, SMT DEF LoraWanChannel915
    <2>2. LoraWanBeaconListen(m, c) = rx
      BY <2>1, SMT DEF LoraWanBeaconListen
    <2> HIDE DEF f
    <2>3. Changed("op", m, idle)
      BY Operation, SMT
    <2> HIDE DEF idle
    <2>4. Changed("frf", idle, freq) /\ freq.frf = FreqRegs(f)
      BY <2>1, <2>3, Frequency, SMT DEF Changed
    <2> HIDE DEF freq
    <2>5. /\ len \in Modems /\ len.payloadLength = 23
          /\ len.frf = freq.frf /\ Implicit(len) /\ CodingRate(len) = CodingRate(freq)
      BY <2>4, FixedLength, SMTT(60) DEF Changed
    <2> HIDE DEF len
    <2>6. Changed("config2", len, sf) /\ SpreadingFactor(sf) = 12
      BY <2>5, Spreading, SMT
    <2> HIDE DEF sf
    <2>7. Changed("pa", sf, tx)
      BY <2>6, Power, SMT DEF Changed
    <2> HIDE DEF tx
    <2>8. Changed("preamble", tx, pre)
      BY <2>7, Preamble, SMT DEF Changed
    <2> HIDE DEF pre
    <2>9. Changed("syncWord", pre, sync) /\ sync.syncWord = 52
      BY <2>8, Sync, SMT DEF Changed
    <2> HIDE DEF sync
    <2>10. Changed("config2", sync, crc) /\ SpreadingFactor(crc) = SpreadingFactor(sync)
      BY <2>9, Crc, SMT DEF Changed
    <2> HIDE DEF crc
    <2>11. /\ Changed("config1", crc, bw) /\ Bandwidth(bw) = BandwidthCode(500000)
           /\ CodingRate(bw) = CodingRate(crc) /\ Implicit(bw) = Implicit(crc)
      BY <2>10, BandwidthIsSet, SMT DEF Changed
    <2> HIDE DEF bw
    <2>12. Changed("invertIq", bw, iq) /\ ~Inverted(iq)
      BY <2>11, IqMode, SMT DEF Changed
    <2> HIDE DEF iq
    <2>13. Changed("op", iq, rx) /\ rx.op = "rx"
      BY <2>12, Operation, SMT DEF Changed
    <2> HIDE DEF rx
    <2>14. /\ rx \in Modems /\ rx.frf = FreqRegs(f)
           /\ rx.config1 = bw.config1 /\ crc.config1 = len.config1 /\ freq.config1 = m.config1
           /\ rx.config2 = crc.config2 /\ sync.config2 = sf.config2
           /\ rx.payloadLength = 23 /\ rx.syncWord = 52 /\ rx.invertIq = iq.invertIq
      BY <2>3, <2>4, <2>5, <2>6, <2>7, <2>8, <2>9, <2>10, <2>11, <2>12, <2>13, SMT DEF Changed
    <2>15. QED
      BY <2>1, <2>2, <2>5, <2>6, <2>10, <2>11, <2>12, <2>13, <2>14, SMT
         DEF Bandwidth, CodingRate, SpreadingFactor, Inverted, Implicit
  <1>3. QED
    BY <1>1, <1>2

-----------------------------------------------------------------------------
(* Whatever ran before, the modem fits what is on the air.                 *)

Usable(m) == m \in Modems /\ CodingRate(m) \in 1..4

LEMMA SendUpIsHeard ==
  ASSUME NEW m, Usable(m), NEW c, c \in 0..71
  PROVE  LET chans == LoraWanUpDownChannel915(c)
             s == SendUp(m, chans)
             r == AfterSendUp(s, chans)
         IN /\ Usable(s) /\ SetFor(s, UpAir(c))
            /\ Usable(r) /\ r.op = "rx" /\ SetFor(r, DownAir(c))
  <1> DEFINE chans == LoraWanUpDownChannel915(c)
             s == SendUp(m, chans)
             r == AfterSendUp(s, chans)
  <1>1. /\ chans.upFreq \in 9020..9280 /\ chans.downFreq \in 9020..9280
        /\ chans.bw \in {125000, 500000} /\ chans.sf \in {7, 8}
    BY ChannelsInBand, SMT
  <1>2. /\ UpAir(c).freq = chans.upFreq /\ UpAir(c).bw = chans.bw /\ UpAir(c).sf = chans.sf
        /\ UpAir(c).inverted = FALSE /\ UpAir(c).length = 0
        /\ DownAir(c).freq = chans.downFreq /\ DownAir(c).bw = 500000
        /\ DownAir(c).sf = chans.sf /\ DownAir(c).inverted = TRUE /\ DownAir(c).length = 0
    BY SMT DEF UpAir, DownAir
  <1> HIDE DEF chans
  <1>3. /\ s \in Modems
        /\ s.frf = FreqRegs(chans.upFreq)
        /\ Bandwidth(s) = BandwidthCode(chans.bw) /\ SpreadingFactor(s) = chans.sf
        /\ CodingRate(s) = CodingRate(m) /\ s.syncWord = 52 /\ ~Inverted(s)
    BY <1>1, SendUpSets, SMT DEF Usable
  <1> HIDE DEF s
  <1>4. /\ r \in Modems /\ r.op = "rx"
        /\ r.frf = FreqRegs(chans.downFreq)
        /\ Bandwidth(r) = BandwidthCode(500000) /\ SpreadingFactor(r) = SpreadingFactor(s)
        /\ CodingRate(r) = CodingRate(s) /\ r.syncWord = s.syncWord /\ Inverted(r)
    BY <1>1, <1>3, AfterSendUpSets, SMT
  <1> HIDE DEF r
  <1>5. Near(s, chans.upFreq, chans.bw) /\ Near(r, chans.downFreq, 500000)
    BY <1>1, <1>3, <1>4, FrequencyIsNear, SMTT(60) DEF Near
  <1>6. Usable(s) /\ SetFor(s, UpAir(c))
    BY <1>2, <1>3, <1>5, SMT DEF Usable, SetFor, Tuned, Fits, Implicit, Inverted
  <1>7. Usable(r) /\ r.op = "rx" /\ SetFor(r, DownAir(c))
    BY <1>2, <1>3, <1>4, <1>5, SMT DEF Usable, SetFor, Tuned, Fits, Implicit, Inverted
  <1>8. QED
    BY <1>6, <1>7 DEF s, r, chans

LEMMA Rx2IsHeard ==
  ASSUME NEW m, Usable(m)
  PROVE  LET s == ListenRx2(m) IN Usable(s) /\ s.op = "rx" /\ SetFor(s, Rx2Air)
  <1> DEFINE s == ListenRx2(m)
  <1>1. /\ s \in Modems /\ s.op = "rx"
        /\ s.frf = FreqRegs(9233)
        /\ Bandwidth(s) = BandwidthCode(500000) /\ SpreadingFactor(s) = 8
        /\ CodingRate(s) = CodingRate(m) /\ s.syncWord = 52 /\ Inverted(s)
    BY ListenRx2Sets, SMT DEF Usable
  <1> HIDE DEF s
  <1>2. Near(s, 9233, 500000)
    BY <1>1, FrequencyIsNear, SMT DEF Near
  <1>3. Usable(s) /\ s.op = "rx" /\ SetFor(s, Rx2Air)
    BY <1>1, <1>2, SMT DEF Usable, SetFor, Tuned, Fits, Implicit, Inverted, Rx2Air
  <1>4. QED
    BY <1>3 DEF s

LEMMA BeaconIsHeard ==
  ASSUME NEW m, Usable(m), NEW c
  PROVE  LET s == LoraWanBeaconListen(m, c) IN
         Usable(s) /\ (c \in 0..7 => s.op = "rx" /\ SetFor(s, BeaconAir(c)))
  <1> DEFINE s == LoraWanBeaconListen(m, c)
  <1>1. /\ s \in Modems /\ CodingRate(s) = CodingRate(m)
        /\ c \in 0..7 =>
             /\ s.op = "rx"
             /\ s.frf = FreqRegs(9233 + 6 * c)
             /\ Bandwidth(s) = BandwidthCode(500000) /\ SpreadingFactor(s) = 12
             /\ Implicit(s) /\ s.payloadLength = 23
             /\ s.syncWord = 52 /\ ~Inverted(s)
    BY BeaconListenSets, SMT DEF Usable
  <1> HIDE DEF s
  <1>2. Usable(s)
    BY <1>1, SMT DEF Usable
  <1>3. ASSUME c \in 0..7 PROVE s.op = "rx" /\ SetFor(s, BeaconAir(c))
    <2>1. Near(s, 9233 + 6 * c, 500000)
      BY <1>1, <1>3, FrequencyIsNear, SMT DEF Near
    <2>2. QED
      BY <1>1, <1>2, <1>3, <2>1, SMT
         DEF Usable, SetFor, Tuned, Fits, Implicit, Inverted, BeaconAir
  <1>4. QED
    BY <1>2, <1>3 DEF s

(* What an application sets, right or wrong, leaves a modem one can use. *)
LEMMA SettingIsUsable ==
  ASSUME NEW m, Usable(m), NEW n \in Int
  PROVE  /\ Usable(SetFrequency(m, n)) /\ Usable(SetBW(m, n)) /\ Usable(SetSF(m, n))
         /\ Usable(SetCR(m, n)) /\ Usable(SetPayloadLen(m, n)) /\ Usable(SetPreambleLen(m, n))
         /\ Usable(SetSyncWord(m, n)) /\ Usable(SetTxPower(m, n))
  <1>0. /\ m \in Modems /\ CodingRate(m) \in 1..4 /\ m.config1 \in Nat
        /\ m = [m EXCEPT !.config1 = m.config1]
    BY SMT DEF Usable, Modems
  <1>1. Usable(SetFrequency(m, n))
    <2>1. CASE n \in 9020..9280
      BY <1>0, <2>1, Frequency, SMT DEF Usable, Changed, CodingRate
    <2>2. CASE n \notin 9020..9280
      <3>1. SetFrequency(m, n) = m
        BY <2>2, SMT DEF SetFrequency
      <3>2. QED
        BY <3>1
    <2>3. QED
      BY <2>1, <2>2
  <1>2. Usable(SetBW(m, n))
    <2>1. CASE n >= 7800 /\ n <= 500000
      BY <1>0, <2>1, BandwidthIsSet, SMT DEF Usable, Changed
    <2>2. CASE ~(n >= 7800 /\ n <= 500000)
      <3>1. SetBW(m, n) = m
        BY <2>2, SMT DEF SetBW
      <3>2. QED
        BY <3>1
    <2>3. QED
      BY <2>1, <2>2
  <1>3. Usable(SetSF(m, n))
    <2>1. CASE n \in 6..12
      BY <1>0, <2>1, Spreading, SMT DEF Usable, Changed, CodingRate
    <2>2. CASE n \notin 6..12
      BY <1>0, <2>2, SMT DEF Usable, SetSF
    <2>3. QED
      BY <2>1, <2>2
  <1>4. Usable(SetCR(m, n))
    <2>1. CASE n \in 5..8
      <3> DEFINE reg == m.config1
                 code == (reg \div 16) * 16 + (reg % 2) + (n - 4) * 2
      <3>1. code \in Nat /\ (code % 16) \div 2 = n - 4
        BY <1>0, <2>1, SMT
      <3>2. SetCR(m, n) = [m EXCEPT !.config1 = code]
        BY <2>1, SMT DEF SetCR
      <3> HIDE DEF code
      <3>3. QED
        BY <1>0, <2>1, <3>1, <3>2, SMT DEF Usable, Modems, CodingRate
    <2>2. CASE n \notin 5..8
      BY <1>0, <2>2, SMT DEF Usable, SetCR
    <2>3. QED
      BY <2>1, <2>2
  <1>5. Usable(SetPayloadLen(m, n))
    <2>1. CASE n \in 1..255
      <3> DEFINE s == SetPayloadLen(m, n)
      <3>1. s \in Modems /\ CodingRate(s) = CodingRate(m)
        BY <1>0, <2>1, FixedLength, SMT
      <3> HIDE DEF s
      <3>2. Usable(s)
        BY <1>0, <3>1, SMT DEF Usable
      <3>3. QED
        BY <3>2 DEF s
    <2>2. CASE n = 0
      <3> DEFINE code == ClearBit(m.config1, 1)
      <3>1. code \in Nat /\ (code % 16) \div 2 = (m.config1 % 16) \div 2
        BY <1>0, SMTT(60) DEF ClearBit, BitOf
      <3>2. SetPayloadLen(m, n) = [m EXCEPT !.config1 = code]
        BY <2>2, SMT DEF SetPayloadLen, ExplicitHeader
      <3> HIDE DEF code
      <3>3. QED
        BY <1>0, <3>1, <3>2, SMT DEF Usable, Modems, CodingRate
    <2>3. CASE n \notin 0..255
      BY <1>0, <2>3, SMT DEF Usable, SetPayloadLen
    <2>4. QED
      BY <2>1, <2>2, <2>3, SMT
  <1>6. Usable(SetPreambleLen(m, n))
    BY <1>0, SMT DEF Usable, Modems, SetPreambleLen, CodingRate
  <1>7. Usable(SetSyncWord(m, n))
    <2>1. n % 256 \in Nat
      BY SMT
    <2>2. QED
      BY <1>0, <2>1, SMT DEF Usable, Modems, SetSyncWord, CodingRate
  <1>8. Usable(SetTxPower(m, n))
    BY <1>0, Power, SMT DEF Usable, Changed, CodingRate
  <1>9. QED
    BY <1>1, <1>2, <1>3, <1>4, <1>5, <1>6, <1>7, <1>8

(* So is the modem after a reset of the chip, and as another application   *)
(* left it.                                                                *)
LEMMA InitialIsUsable == Usable(InitialModem)
  BY SMT DEF Usable, Modems, InitialModem, CodingRate

LEMMA OtherIsUsable ==
  ASSUME NEW s \in OtherSettings
  PROVE  Usable(OtherApplication(s))
  <1> DEFINE freq == SetFrequency(InitialModem, s.freq)
             bw == SetBW(freq, s.bw)
             sf == SetSF(bw, s.sf)
             cr == SetCR(sf, s.cr)
             len == SetPayloadLen(cr, s.len)
             pre == SetPreambleLen(len, s.preamble)
             sync == SetSyncWord(pre, s.word)
             iq == IF s.inverted THEN EnableInvertIq(sync) ELSE DisableInvertIq(sync)
             crc == IF s.crc THEN EnableCrc(iq) ELSE DisableCrc(iq)
             tx == SetTxPower(crc, s.power)
             rx == LoraReceive(tx)
  <1>1. /\ s.freq \in Int /\ s.bw \in Int /\ s.sf \in Int /\ s.cr \in Int /\ s.len \in Int
        /\ s.preamble \in Int /\ s.word \in Int /\ s.power \in Int
    BY OtherSettingsAssumption
  <1>2. OtherApplication(s) = rx
    BY DEF OtherApplication
  <1>3. Usable(freq)
    BY <1>1, InitialIsUsable, SettingIsUsable
  <1> HIDE DEF freq
  <1>4. Usable(bw)
    BY <1>1, <1>3, SettingIsUsable
  <1> HIDE DEF bw
  <1>5. Usable(sf)
    BY <1>1, <1>4, SettingIsUsable
  <1> HIDE DEF sf
  <1>6. Usable(cr)
    BY <1>1, <1>5, SettingIsUsable
  <1> HIDE DEF cr
  <1>7. Usable(len)
    BY <1>1, <1>6, SettingIsUsable
  <1> HIDE DEF len
  <1>8. Usable(pre)
    BY <1>1, <1>7, SettingIsUsable
  <1> HIDE DEF pre
  <1>9. Usable(sync)
    BY <1>1, <1>8, SettingIsUsable
  <1> HIDE DEF sync
  <1>10. Changed("invertIq", sync, iq)
    BY <1>9, IqMode DEF Usable
  <1> HIDE DEF iq
  <1>11. Changed("config2", iq, crc)
    BY <1>10, Crc DEF Changed
  <1> HIDE DEF crc
  <1>12. Usable(crc)
    BY <1>9, <1>10, <1>11, SMT DEF Usable, Changed, CodingRate
  <1>13. Usable(tx)
    BY <1>1, <1>12, SettingIsUsable
  <1> HIDE DEF tx
  <1>14. Changed("op", tx, rx)
    BY <1>13, Operation DEF Usable
  <1>15. Usable(rx)
    BY <1>13, <1>14, SMT DEF Usable, Changed, CodingRate
  <1>16. QED
    BY <1>2, <1>15

-----------------------------------------------------------------------------
(* RadioIsSet needs to know that the registers are numbers, that some      *)
(* coding rate is set, and that a packet on its way was sent by this       *)
(* application in mode 0, on the channel it is at.                         *)

IInv ==
  /\ mode \in 0..2 /\ on \in BOOLEAN
  /\ Usable(radio)
  /\ on /\ mode = 0 => channel \in -1..71
  /\ up # None => on /\ mode = 0
  /\ RadioIsSet

LEMMA InitIInv == Init => IInv
  BY InitialIsUsable, OtherIsUsable, ModesAssumption DEF Init, IInv, RadioIsSet

(* The steps that leave the radio, the channel and the packet alone. *)
LEMMA OthersKeep ==
  ASSUME IInv, UNCHANGED <<mode, on, channel, radio>>, up' = up \/ up' = None
  PROVE  IInv'
  BY DEF IInv, RadioIsSet

LEMMA StepKeeps == IInv /\ [Next]_vars => IInv'
  <1> SUFFICES ASSUME IInv, [Next]_vars PROVE IInv'
    OBVIOUS
  <1>1. CASE StartScan
    BY <1>1, SMT DEF StartScan, world, IInv, RadioIsSet
  <1>2. CASE StartBeacons \/ ProcessListen
    <2>1. PICK c : ListenNext(c)
      BY <1>2 DEF StartBeacons, ProcessListen
    <2>2. on' /\ mode' = 1 /\ mode = 1 /\ up' = up
      BY <1>2 DEF StartBeacons, ProcessListen, world
    <2>3. radio' = LoraWanBeaconListen(radio, channel')
      BY <2>1 DEF ListenNext
    <2>4. Usable(radio')
          /\ (channel' \in 0..7 => radio'.op = "rx" /\ SetFor(radio', BeaconAir(channel')))
      BY <2>3, BeaconIsHeard DEF IInv
    <2>5. QED
      BY <2>2, <2>4, SMT DEF IInv, RadioIsSet
  <1>3. CASE StartRx2
    <2>1. Usable(radio') /\ radio'.op = "rx" /\ SetFor(radio', Rx2Air)
      BY <1>3, Rx2IsHeard DEF StartRx2, IInv
    <2>2. on' /\ mode' = 2 /\ mode = 2 /\ up' = up
      BY <1>3 DEF StartRx2, world
    <2>3. QED
      BY <2>1, <2>2, SMT DEF IInv, RadioIsSet
  <1>4. CASE Reset
    <2>1. mode' \in 0..2 /\ on' = FALSE /\ up' = None /\ radio' = radio
      BY <1>4, ModesAssumption DEF Reset
    <2>2. QED
      BY <2>1 DEF IInv, RadioIsSet, Usable, CodingRate
  <1>5. CASE ScanNext
    <2>1. on /\ mode = 0 /\ on' /\ mode' = 0 /\ channel \in -1..71
      BY <1>5 DEF ScanNext, IInv
    <2>2. CASE channel < ChannelMax
      <3> DEFINE chans == LoraWanUpDownChannel915(channel + 1)
      <3>1. channel' = channel + 1 /\ channel' \in 0..71
        BY <1>5, <2>1, <2>2, SMT DEF ScanNext, ChannelMax
      <3>2. up'.modem = SendUp(radio, chans) /\ radio' = AfterSendUp(SendUp(radio, chans), chans)
        BY <1>5, <2>2 DEF ScanNext
      <3>3. /\ SetFor(up'.modem, UpAir(channel'))
            /\ Usable(radio') /\ radio'.op = "rx" /\ SetFor(radio', DownAir(channel'))
        BY <3>1, <3>2, SendUpIsHeard DEF IInv
      <3>4. QED
        BY <2>1, <3>1, <3>3, SMT DEF IInv, RadioIsSet
    <2>3. CASE ~(channel < ChannelMax)
      BY <1>5, <2>3, OthersKeep DEF ScanNext
    <2>4. QED
      BY <2>2, <2>3
  <1>6. CASE \/ NetworkAnswers \/ AnswerArrives \/ AnswerLost \/ ProcessLora
             \/ FrameArrives \/ StrayArrives \/ ProcessDownlink
    BY <1>6, OthersKeep
       DEF NetworkAnswers, AnswerArrives, AnswerLost, ProcessLora, FrameArrives, StrayArrives,
           ProcessDownlink, world
  <1>7. CASE BeaconHeard \/ BeaconMissed \/ BeaconLost
    BY <1>7, OthersKeep DEF BeaconHeard, BeaconMissed, BeaconLost, SendBeacon
  <1>8. CASE UNCHANGED vars
    BY <1>8, OthersKeep DEF vars
  <1>9. QED
    BY <1>1, <1>2, <1>3, <1>4, <1>5, <1>6, <1>7, <1>8 DEF Next

LEMMA Invariance == Spec => []IInv
  BY InitIInv, StepKeeps, PTL DEF Spec

(* However the functions of the application share the registers of the     *)
(* modem and whatever settings another application has made, packets go    *)
(* out and are listened for with the frequency, bandwidth, spreading       *)
(* factor, sync word and IQ mode of the air; with the header they have     *)
(* unless a modem was left that expects none; and for beacons as ones of   *)
(* 23 bytes without header, whose coding rate is that which was left.      *)
THEOREM RadioIsAlwaysSet == Spec => []RadioIsSet
  <1>1. IInv => RadioIsSet
    BY DEF IInv
  <1>2. QED
    BY Invariance, <1>1, PTL

-----------------------------------------------------------------------------
(* The list of the channels on which an ACK came back.                     *)

(* The packets that processLora may find in mode 0: one that is not for    *)
(* it, or an ACK of the network for a packet of the scan.                  *)
Strays ==
  {[kind |-> "short"], NetworkAck(Other, 7), Sent("unConfirmedDown", Own, <<104>>, 7, <<>>)}
Acks == {NetworkAck(Own, fcnt) : fcnt \in 0..71}

(* Each ACK that waits belongs to an entry of acked that no entry of       *)
(* answers belongs to, in order.                                           *)
Matches(h) ==
  /\ \A k \in 1..Len(inbox) : inbox[k] \in Acks => h[k] \in (Len(answers) + 1)..Len(acked)
  /\ \A k, j \in 1..Len(inbox) : k < j /\ inbox[k] \in Acks /\ inbox[j] \in Acks => h[k] < h[j]

AnswersFollow ==
  /\ inbox \in Seq(Strays \cup Acks)
  /\ answers \in Seq(-1..71) /\ acked \in Seq(0..71)
  /\ \E h \in [1..Len(inbox) -> Nat] : Matches(h)
  /\ \A j \in 1..Len(acked) : acked[j] <= channel
  /\ Len(answers) <= Len(acked) /\ \A k \in 1..Len(answers) : answers[k] >= acked[k]

OnTheAir ==
  /\ up # None => up.modem \in Modems /\ up.sent.fcnt \in 0..71 /\ channel \in 0..71
  /\ down # None => /\ on
                    /\ down.for \in 0..71 /\ down.for <= channel /\ down.sent \in Acks
                    /\ Len(acked) + 1 \in late \/ down.for = channel

(* An ACK that scanNext waits for is for the channel it is at.             *)
EntriesInTime ==
  /\ \A j \in (Len(answers) + 1)..Len(acked) : j \in late \/ acked[j] = channel
  /\ \A k \in 1..Len(answers) : k \in late \/ answers[k] = acked[k]

Quiet == ~on => inbox = <<>> /\ answers = <<>> /\ acked = <<>> /\ channel = -1

AInv == mode = 0 => AnswersFollow /\ EntriesInTime /\ OnTheAir /\ Quiet

-----------------------------------------------------------------------------

(* No packet is heard on two channels: their frequencies are too far apart *)
(* for the receiver, or their spreading factors differ.                    *)
LEMMA ChannelIsUnique ==
  ASSUME NEW m \in Modems, NEW c \in 0..71, NEW d \in 0..71,
         Agrees(m, UpAir(c)), Agrees(m, UpAir(d))
  PROVE  c = d
  <1> DEFINE chan(k) == IF k > 63 THEN 9030 + 16 * (k - 64) ELSE 9023 + 2 * k
             sf(k) == IF k > 63 THEN 8 ELSE 7
             bw(k) == IF k > 63 THEN 500000 ELSE 125000
  <1>1. ASSUME NEW k \in 0..71, Agrees(m, UpAir(k))
        PROVE  OffBy(m.frf, chan(k)) * 61 < bw(k) \div 4 /\ SpreadingFactor(m) = sf(k)
    <2>1. /\ LoraWanUpDownChannel915(k).upFreq = chan(k)
          /\ LoraWanUpDownChannel915(k).bw = bw(k) /\ LoraWanUpDownChannel915(k).sf = sf(k)
      BY SMT DEF LoraWanUpDownChannel915, LoraWanChannel915
    <2>2. UpAir(k).freq = chan(k) /\ UpAir(k).bw = bw(k) /\ UpAir(k).sf = sf(k)
      BY <2>1, SMT DEF UpAir
    <2>3. QED
      BY <1>1, <2>2 DEF Agrees, Tuned, Near
  <1>2. /\ OffBy(m.frf, chan(c)) * 61 < bw(c) \div 4 /\ SpreadingFactor(m) = sf(c)
        /\ OffBy(m.frf, chan(d)) * 61 < bw(d) \div 4 /\ SpreadingFactor(m) = sf(d)
    BY <1>1
  <1>3. m.frf \in Int
    BY SMT DEF Modems
  <1>4. CASE c <= 63 /\ d <= 63
    BY <1>2, <1>3, <1>4, SMT DEF OffBy
  <1>5. CASE c > 63 /\ d > 63
    BY <1>2, <1>3, <1>5, SMT DEF OffBy
  <1>6. QED
    BY <1>2, <1>4, <1>5, SMT

(* Of what processLora finds, only an ACK for this device counts: the      *)
(* others are too short, no ACK, or not signed with its key.               *)
LEMMA StraysDoNotCount ==
  ASSUME NEW s \in Strays
  PROVE  LET res == ParseDownPacket(Own, PacketOf(s)) IN
         ~(~res.error /\ res.ack /\ res.micVerified)
  <1>1. CASE s = [kind |-> "short"]
    <2>1. PacketOf(s) = [length |-> 5]
      BY <1>1 DEF PacketOf
    <2>2. ParseDownPacket(Own, PacketOf(s)) = [error |-> TRUE]
      BY <2>1 DEF ParseDownPacket
    <2>3. QED
      BY <2>2
  <1>2. CASE s = NetworkAck(Other, 7)
    <2> DEFINE p == PacketOf(s)
    <2>1. p = MakePacketFromPayLoad(Other, <<>>, 96, 1, 32, 7, <<>>, 1)
      BY <1>2 DEF PacketOf, NetworkAck, Sent
    <2>2. p.mic.key = "network key of another"
      <3>1. MakePacketFromPayLoad(Other, <<>>, 96, 1, 32, 7, <<>>, 1).mic.key = Other.nwkKey
        BY DEF MakePacketFromPayLoad, MakeMic
      <3>2. Other.nwkKey = "network key of another"
        BY DEF Other, LoraWanPacket
      <3>3. QED
        BY <2>1, <3>1, <3>2
    <2>3. Own.nwkKey = "network key"
      BY DEF Own, LoraWanPacket
    <2> HIDE DEF p
    <2>4. ASSUME NEW fcnt, NEW addr, CheckMic(p, Own.nwkKey, fcnt, addr, 1) PROVE FALSE
      <3>1. \A pkt, key : MakeMic(pkt, addr, key, fcnt, 1).key = key
        BY DEF MakeMic
      <3>2. p.mic.key = Own.nwkKey
        BY <2>4, <3>1 DEF CheckMic
      <3>3. QED
        BY <2>2, <2>3, <3>2
    <2>5. ParseDownPacket(Own, p).error \/ ~ParseDownPacket(Own, p).micVerified
      BY <2>4 DEF ParseDownPacket
    <2>6. QED
      BY <2>5 DEF p
  <1>3. CASE s = Sent("unConfirmedDown", Own, <<104>>, 7, <<>>)
    <2> DEFINE p == PacketOf(s)
    <2>1. FlattenSeq(<<>>) = <<>>
      BY DEF FlattenSeq
    <2>2. p = MakePacketFromPayLoad(Own, <<104>>, 96, 1, 0, 7, <<>>, 1)
      BY <1>3, <2>1 DEF PacketOf, UnConfirmedDown, Sent
    <2>3. p.pkt.fctrl = 0
      BY <2>2 DEF MakePacketFromPayLoad
    <2> HIDE DEF p
    <2>4. (p.pkt.fctrl \div 32) % 2 # 1
      BY <2>3
    <2>5. ParseDownPacket(Own, p).error \/ ~ParseDownPacket(Own, p).ack
      BY <2>4 DEF ParseDownPacket
    <2>6. QED
      BY <2>5 DEF p
  <1>4. QED
    BY <1>1, <1>2, <1>3 DEF Strays

LEMMA ElementsOf ==
  ASSUME NEW S, NEW p \in Seq(S)
  PROVE  Len(p) \in Nat /\ \A k \in 1..Len(p) : p[k] \in S
  OBVIOUS

LEMMA PacketsStay == Acks' = Acks /\ Strays' = Strays
  BY DEF Acks, Strays, NetworkAck, Sent, Own, Other, LoraWanPacket

LEMMA StraysAreNoAcks == Strays \cap Acks = {}
  <1>1. \A s \in Acks : s.kind = "ack of the network" /\ s.lwp = Own
    <2>1. ASSUME NEW fcnt \in 0..71
          PROVE  NetworkAck(Own, fcnt).kind = "ack of the network"
                 /\ NetworkAck(Own, fcnt).lwp = Own
      BY DEF NetworkAck, Sent
    <2>2. QED
      BY <2>1 DEF Acks
  <1>2. Own.nwkKey = "network key" /\ Other.nwkKey = "network key of another"
    BY DEF Own, Other, LoraWanPacket
  <1>3. Own # Other
    BY <1>2
  <1>4. [kind |-> "short"].kind = "short" /\ NetworkAck(Other, 7).lwp = Other
    BY DEF NetworkAck, Sent
  <1>5. Sent("unConfirmedDown", Own, <<104>>, 7, <<>>).kind = "unConfirmedDown"
    BY DEF Sent
  <1>6. QED
    BY <1>1, <1>3, <1>4, <1>5 DEF Strays

(* What reaches the radio takes its place behind what waits. *)
LEMMA AnotherAck ==
  ASSUME AnswersFollow, NEW a \in Acks, NEW c \in 0..71, c <= channel, channel \in Int,
         inbox' = Append(inbox, a), acked' = Append(acked, c), UNCHANGED <<answers, channel>>
  PROVE  AnswersFollow'
  <1> USE DEF AnswersFollow
  <1>1. /\ inbox' \in Seq(Strays \cup Acks) /\ Len(inbox') = Len(inbox) + 1 /\ Len(inbox) \in Nat
        /\ \A k \in 1..Len(inbox) : inbox'[k] = inbox[k]
    OBVIOUS
  <1>2. /\ acked' \in Seq(0..71) /\ Len(acked') = Len(acked) + 1 /\ Len(acked) \in Nat
        /\ acked'[Len(acked) + 1] = c
        /\ \A k \in 1..Len(acked) : acked'[k] = acked[k]
    OBVIOUS
  <1>3. Len(answers) \in Nat
    OBVIOUS
  <1>4. PICK h \in [1..Len(inbox) -> Nat] : Matches(h)
    OBVIOUS
  <1> DEFINE g == [k \in 1..(Len(inbox) + 1) |-> IF k <= Len(inbox) THEN h[k] ELSE Len(acked) + 1]
  <1>5. g \in [1..Len(inbox') -> Nat]
    BY <1>1, <1>2
  <1>6. ASSUME NEW k \in 1..Len(inbox'), inbox'[k] \in Acks
        PROVE  /\ g[k] \in (Len(answers) + 1)..(Len(acked) + 1)
               /\ k <= Len(inbox) => g[k] <= Len(acked)
    <2>1. CASE k <= Len(inbox)
      <3>1. k \in 1..Len(inbox) /\ inbox[k] \in Acks
        BY <1>1, <1>6, <2>1
      <3>2. h[k] \in (Len(answers) + 1)..Len(acked) /\ g[k] = h[k]
        BY <1>4, <3>1 DEF Matches
      <3>3. QED
        BY <1>2, <1>3, <3>2
    <2>2. CASE k = Len(inbox) + 1
      BY <1>1, <1>2, <1>3, <2>2
    <2>3. QED
      BY <1>1, <2>1, <2>2
  <1>7. ASSUME NEW k \in 1..Len(inbox'), NEW j \in 1..Len(inbox'), k < j,
               inbox'[k] \in Acks, inbox'[j] \in Acks
        PROVE  g[k] < g[j]
    <2>1. k \in 1..Len(inbox) /\ inbox[k] \in Acks
      BY <1>1, <1>7
    <2>2. CASE j <= Len(inbox)
      <3>1. j \in 1..Len(inbox) /\ inbox[j] \in Acks
        BY <1>1, <1>7, <2>2
      <3>2. QED
        BY <1>4, <1>7, <2>1, <3>1, SMTT(60) DEF Matches
    <2>3. CASE j = Len(inbox) + 1
      <3>1. g[k] <= Len(acked) /\ g[j] = Len(acked) + 1 /\ g[k] \in Nat
        BY <1>1, <1>6, <1>7, <2>1, <2>3
      <3>2. QED
        BY <1>2, <3>1
    <2>4. QED
      BY <1>1, <2>2, <2>3
  <1> HIDE DEF g
  <1>8. \E f \in [1..Len(inbox') -> Nat] :
          /\ \A k \in 1..Len(inbox') :
               inbox'[k] \in Acks => f[k] \in (Len(answers') + 1)..Len(acked')
          /\ \A k, j \in 1..Len(inbox') :
               k < j /\ inbox'[k] \in Acks /\ inbox'[j] \in Acks => f[k] < f[j]
    BY <1>2, <1>5, <1>6, <1>7
  <1>9. \A j \in 1..Len(acked') : acked'[j] <= channel'
    BY <1>2
  <1>10. Len(answers') <= Len(acked') /\ \A k \in 1..Len(answers') : answers'[k] >= acked'[k]
    BY <1>2, <1>3
  <1>11. QED
    BY <1>1, <1>2, <1>8, <1>9, <1>10, PacketsStay DEF Matches

LEMMA AnotherStray ==
  ASSUME AnswersFollow, NEW s \in Strays,
         inbox' = Append(inbox, s), UNCHANGED <<answers, acked, channel>>
  PROVE  AnswersFollow'
  <1> USE DEF AnswersFollow
  <1>1. /\ inbox' \in Seq(Strays \cup Acks) /\ Len(inbox') = Len(inbox) + 1 /\ Len(inbox) \in Nat
        /\ \A k \in 1..Len(inbox) : inbox'[k] = inbox[k]
        /\ inbox'[Len(inbox) + 1] \notin Acks
    BY StraysAreNoAcks
  <1>2. PICK h \in [1..Len(inbox) -> Nat] : Matches(h)
    OBVIOUS
  <1> DEFINE g == [k \in 1..(Len(inbox) + 1) |-> IF k <= Len(inbox) THEN h[k] ELSE 0]
  <1>3. g \in [1..Len(inbox') -> Nat] /\ \A k \in 1..Len(inbox) : g[k] = h[k]
    BY <1>1
  <1>4. \A k \in 1..Len(inbox') : inbox'[k] \in Acks => k \in 1..Len(inbox) /\ inbox[k] \in Acks
    BY <1>1
  <1> HIDE DEF g
  <1>5. /\ \A k \in 1..Len(inbox') : inbox'[k] \in Acks => g[k] \in (Len(answers) + 1)..Len(acked)
        /\ \A k, j \in 1..Len(inbox') :
             k < j /\ inbox'[k] \in Acks /\ inbox'[j] \in Acks => g[k] < g[j]
    BY <1>2, <1>3, <1>4 DEF Matches
  <1>6. QED
    BY <1>1, <1>3, <1>5, PacketsStay DEF Matches

(* processLora takes the first packet, and counts it only if it is an ACK. *)
LEMMA OneIsProcessed ==
  ASSUME AnswersFollow, channel \in -1..71, ProcessLora
  PROVE  AnswersFollow'
  <1> USE DEF AnswersFollow
  <1> DEFINE s == Head(inbox)
             n == Len(answers)
  <1>1. /\ inbox' = Tail(inbox) /\ UNCHANGED <<channel, acked>> /\ inbox # <<>>
        /\ answers' = answers \/ (answers' = Append(answers, channel) /\ s \notin Strays)
    BY StraysDoNotCount DEF ProcessLora, world
  <1>2. /\ Len(inbox) \in Nat /\ 1 \in 1..Len(inbox) /\ inbox[1] = s /\ s \in Strays \cup Acks
        /\ inbox' \in Seq(Strays \cup Acks) /\ Len(inbox') = Len(inbox) - 1
        /\ \A k \in 1..(Len(inbox) - 1) : inbox'[k] = inbox[k + 1]
    BY <1>1
  <1>3. n \in Nat /\ Len(acked) \in Nat
    OBVIOUS
  <1>4. PICK h \in [1..Len(inbox) -> Nat] : Matches(h)
    OBVIOUS
  <1> DEFINE g == [k \in 1..(Len(inbox) - 1) |-> h[k + 1]]
  <1>5. g \in [1..Len(inbox') -> Nat]
    BY <1>2
  <1>6. \A k \in 1..Len(inbox') : /\ k + 1 \in 1..Len(inbox) /\ 1 < k + 1
                                  /\ inbox'[k] = inbox[k + 1] /\ g[k] = h[k + 1]
    BY <1>2
  <1>7. \A j \in 1..Len(acked') : acked'[j] <= channel'
    BY <1>1
  <1> HIDE DEF g
  <1>8. \A k, j \in 1..Len(inbox') :
          k < j /\ inbox'[k] \in Acks /\ inbox'[j] \in Acks => g[k] < g[j]
    <2> SUFFICES ASSUME NEW k \in 1..Len(inbox'), NEW j \in 1..Len(inbox'), k < j,
                        inbox'[k] \in Acks, inbox'[j] \in Acks
                 PROVE  g[k] < g[j]
      OBVIOUS
    <2>1. k + 1 < j + 1
      BY <1>2
    <2>2. QED
      BY <1>4, <1>6, <2>1 DEF Matches
  <1>9. \A k \in 1..Len(inbox') : inbox'[k] \in Acks => g[k] \in (n + 1)..Len(acked)
    BY <1>4, <1>6 DEF Matches
  <1>10. CASE answers' = answers
    BY <1>1, <1>2, <1>5, <1>7, <1>8, <1>9, <1>10, PacketsStay DEF Matches
  <1>11. CASE answers' = Append(answers, channel) /\ s \notin Strays
    <2>1. inbox[1] \in Acks
      BY <1>2, <1>11
    <2>2. h[1] \in (n + 1)..Len(acked)
      BY <1>2, <1>4, <2>1 DEF Matches
    <2>3. /\ answers' \in Seq(-1..71) /\ Len(answers') = n + 1 /\ answers'[n + 1] = channel
          /\ \A k \in 1..n : answers'[k] = answers[k]
      BY <1>11
    <2>4. n + 1 <= Len(acked) /\ acked[n + 1] <= channel
      BY <1>3, <2>2
    <2>5. ASSUME NEW k \in 1..Len(inbox'), inbox'[k] \in Acks
          PROVE  g[k] \in (n + 2)..Len(acked)
      <3>1. k + 1 \in 1..Len(inbox) /\ inbox[k + 1] \in Acks /\ 1 < k + 1 /\ g[k] = h[k + 1]
        BY <1>6, <2>5
      <3>2. h[1] < h[k + 1]
        BY <1>2, <1>4, <2>1, <3>1 DEF Matches
      <3>3. g[k] \in (n + 1)..Len(acked)
        BY <1>9, <2>5
      <3>4. QED
        BY <1>3, <2>2, <3>1, <3>2, <3>3
    <2>6. \A k \in 1..Len(answers') : answers'[k] >= acked'[k]
      <3>1. ASSUME NEW k \in 1..Len(answers') PROVE answers'[k] >= acked'[k]
        <4>1. CASE k \in 1..n
          BY <1>1, <2>3, <4>1
        <4>2. CASE k = n + 1
          <5>1. n + 1 \in 1..Len(acked)
            BY <1>3, <2>4
          <5>2. acked[n + 1] \in 0..71
            BY <5>1, ElementsOf
          <5>3. QED
            BY <1>1, <2>3, <2>4, <4>2, <5>2
        <4>3. QED
          BY <1>3, <2>3, <4>1, <4>2
      <3>2. QED
        BY <3>1
    <2>7. Len(answers') + 1 = n + 2
      BY <1>3, <2>3
    <2>8. \A k \in 1..Len(inbox') : inbox'[k] \in Acks => g[k] \in (Len(answers') + 1)..Len(acked')
      BY <1>1, <2>5, <2>7
    <2>9. Len(answers') <= Len(acked') /\ acked' \in Seq(0..71)
      BY <1>1, <2>3, <2>4
    <2>10. QED
      BY <1>2, <1>5, <1>7, <1>8, <2>3, <2>6, <2>8, <2>9, PacketsStay DEF Matches
  <1>12. QED
    BY <1>1, <1>10, <1>11

(* The packet of a channel is answered with an ACK for that channel. *)
LEMMA AnswerIsForChannel ==
  ASSUME IInv, AInv, mode = 0, NetworkAnswers
  PROVE  /\ on /\ channel \in 0..71
         /\ down'.for = channel /\ down'.sent \in Acks
  <1>1. /\ up # None /\ on /\ channel \in 0..71
        /\ up.modem \in Modems /\ up.sent.fcnt \in 0..71
        /\ Implicit(up.modem) \/ Agrees(up.modem, UpAir(channel))
    <2>1. UpAir(channel).length = 0
      BY SMT DEF UpAir
    <2>2. QED
      BY <2>1, Zenon DEF NetworkAnswers, IInv, AInv, OnTheAir, RadioIsSet, SetFor, Agrees
  <1>2. PICK c \in GwChannels :
          /\ Agrees(up.modem, UpAir(c))
          /\ down' = [air |-> DownAir(c), for |-> c, sent |-> NetworkAck(Own, up.sent.fcnt)]
    BY DEF NetworkAnswers
  <1>3. c \in 0..71
    BY GwChannelsAssumption
  <1>4. ~Implicit(up.modem)
    BY <1>2, SMTT(60) DEF Agrees, Fits, UpAir
  <1>5. c = channel
    BY <1>1, <1>2, <1>3, <1>4, ChannelIsUnique
  <1>6. QED
    BY <1>1, <1>2, <1>5 DEF Acks

(* What scanNext waits for stays in time when an ACK is received, ...      *)
LEMMA AckInTime ==
  ASSUME AnswersFollow, EntriesInTime, NEW c \in 0..71, acked' = Append(acked, c),
         Len(acked) + 1 \in late \/ c = channel, UNCHANGED <<answers, channel, late>>
  PROVE  EntriesInTime'
  <1>1. /\ Len(acked') = Len(acked) + 1 /\ Len(acked) \in Nat
        /\ acked'[Len(acked) + 1] = c
        /\ \A k \in 1..Len(acked) : acked'[k] = acked[k]
    BY DEF AnswersFollow
  <1>2. Len(answers) \in Nat /\ Len(answers) <= Len(acked)
    BY DEF AnswersFollow
  <1>3. ASSUME NEW j \in (Len(answers) + 1)..(Len(acked) + 1)
        PROVE  j \in late \/ acked'[j] = channel
    <2>1. CASE j = Len(acked) + 1
      BY <1>1, <2>1
    <2>2. CASE j # Len(acked) + 1
      <3>1. j \in (Len(answers) + 1)..Len(acked) /\ j \in 1..Len(acked)
        BY <1>1, <1>2, <2>2
      <3>2. QED
        BY <1>1, <3>1 DEF EntriesInTime
    <2>3. QED
      BY <2>1, <2>2
  <1>4. ASSUME NEW k \in 1..Len(answers) PROVE k \in late \/ answers[k] = acked'[k]
    <2>1. k \in 1..Len(acked)
      BY <1>1, <1>2
    <2>2. QED
      BY <1>1, <2>1 DEF EntriesInTime
  <1>5. QED
    BY <1>1, <1>3, <1>4 DEF EntriesInTime

(* ... when one gets lost, ...                                             *)
LEMMA LossInTime ==
  ASSUME AnswersFollow, EntriesInTime, UNCHANGED <<answers, acked, channel>>,
         late' = late \ {Len(acked) + 1}
  PROVE  EntriesInTime'
  <1>1. Len(acked) \in Nat /\ Len(answers) \in Nat /\ Len(answers) <= Len(acked)
    BY DEF AnswersFollow
  <1>2. ASSUME NEW j \in 1..Len(acked), j \in late PROVE j \in late'
    BY <1>1, <1>2
  <1>3. ASSUME NEW j \in (Len(answers) + 1)..Len(acked) PROVE j \in late' \/ acked[j] = channel
    <2>1. j \in 1..Len(acked)
      BY <1>1
    <2>2. QED
      BY <1>2, <2>1 DEF EntriesInTime
  <1>4. ASSUME NEW k \in 1..Len(answers) PROVE k \in late' \/ answers[k] = acked[k]
    <2>1. k \in 1..Len(acked)
      BY <1>1
    <2>2. QED
      BY <1>2, <2>1 DEF EntriesInTime
  <1>5. QED
    BY <1>3, <1>4 DEF EntriesInTime

(* ... when processLora counts one, ...                                    *)
LEMMA ProcessedInTime ==
  ASSUME AnswersFollow, AnswersFollow', EntriesInTime, UNCHANGED <<acked, channel, late>>,
         answers' = answers \/ answers' = Append(answers, channel)
  PROVE  EntriesInTime'
  <1>1. CASE answers' = answers
    BY <1>1 DEF EntriesInTime
  <1>2. CASE answers' = Append(answers, channel)
    <2> DEFINE n == Len(answers)
    <2>1. /\ n \in Nat /\ Len(answers') = n + 1 /\ answers'[n + 1] = channel
          /\ \A k \in 1..n : answers'[k] = answers[k]
      BY <1>2 DEF AnswersFollow
    <2>2. Len(acked) \in Nat /\ n + 1 <= Len(acked)
      BY <2>1 DEF AnswersFollow
    <2>3. n + 1 \in late \/ acked[n + 1] = channel
      BY <2>1, <2>2 DEF EntriesInTime
    <2>4. ASSUME NEW j \in (n + 2)..Len(acked) PROVE j \in late \/ acked[j] = channel
      <3>1. j \in (n + 1)..Len(acked)
        BY <2>1, <2>2
      <3>2. QED
        BY <3>1 DEF EntriesInTime
    <2>5. ASSUME NEW k \in 1..(n + 1) PROVE k \in late \/ answers'[k] = acked[k]
      <3>1. CASE k = n + 1
        BY <2>1, <2>3, <3>1
      <3>2. CASE k # n + 1
        <4>1. k \in 1..n
          BY <2>1, <3>2
        <4>2. QED
          BY <2>1, <4>1 DEF EntriesInTime
      <3>3. QED
        BY <3>1, <3>2
    <2>6. (n + 1) + 1 = n + 2
      BY <2>1
    <2>7. QED
      BY <2>1, <2>4, <2>5, <2>6 DEF EntriesInTime
  <1>3. QED
    BY <1>1, <1>2

(* ... and when scanNext goes on it does not wait for any any more.        *)
LEMMA NoneWaitedFor ==
  ASSUME AnswersFollow, EntriesInTime, UNCHANGED <<answers, acked>>, NEW last \in Nat,
         last >= Len(acked), late' = late \cup ((Len(answers) + 1)..last)
  PROVE  EntriesInTime'
  <1>1. Len(acked) \in Nat /\ Len(answers) \in Nat
    BY DEF AnswersFollow
  <1>2. \A j \in (Len(answers) + 1)..Len(acked) : j \in late'
    BY <1>1
  <1>3. \A k \in 1..Len(answers) : k \in late' \/ answers[k] = acked[k]
    BY DEF EntriesInTime
  <1>4. QED
    BY <1>2, <1>3 DEF EntriesInTime

(* Nothing waits when nothing has been received. *)
LEMMA NothingFollows ==
  /\ inbox = <<>> /\ answers = <<>> /\ acked = <<>> => AnswersFollow /\ EntriesInTime
  /\ inbox' = <<>> /\ answers' = <<>> /\ acked' = <<>> => AnswersFollow' /\ EntriesInTime'
  <1>1. Len(<<>>) = 0 /\ 1..0 = {}
    OBVIOUS
  <1>2. [k \in 1..0 |-> 0] \in [1..0 -> Nat]
    OBVIOUS
  <1>3. \A S : <<>> \in Seq(S)
    OBVIOUS
  <1>4. inbox = <<>> => \E h \in [1..Len(inbox) -> Nat] : Matches(h)
    BY <1>1, <1>2 DEF Matches
  <1>5. inbox' = <<>> => \E h \in [1..Len(inbox') -> Nat] : Matches(h)'
    BY <1>1, <1>2 DEF Matches
  <1>6. inbox = <<>> /\ answers = <<>> /\ acked = <<>> => AnswersFollow
    BY <1>1, <1>3, <1>4 DEF AnswersFollow
  <1>7. inbox' = <<>> /\ answers' = <<>> /\ acked' = <<>> => AnswersFollow'
    BY <1>1, <1>3, <1>5 DEF AnswersFollow
  <1>8. /\ answers = <<>> /\ acked = <<>> => EntriesInTime
        /\ answers' = <<>> /\ acked' = <<>> => EntriesInTime'
    <2>1. (0 + 1)..0 = {}
      OBVIOUS
    <2>2. QED
      BY <1>1, <2>1 DEF EntriesInTime
  <1>9. QED
    BY <1>6, <1>7, <1>8

LEMMA InitAInv == Init => AInv
  BY NothingFollows DEF Init, AInv, OnTheAir, Quiet

LEMMA AnswersKept ==
  ASSUME IInv, AInv, [Next]_vars
  PROVE  AInv'
  <1>0. mode' # 0 => AInv'
    BY DEF AInv
  <1>1. CASE StartScan
    <2>1. /\ mode = 0 /\ ~on /\ UNCHANGED <<mode, inbox, answers, acked, up, down>>
          /\ on' /\ channel' = -1
      BY <1>1 DEF StartScan, world
    <2>2. inbox' = <<>> /\ answers' = <<>> /\ acked' = <<>> /\ up = None /\ down = None
      BY <2>1 DEF AInv, Quiet, OnTheAir, IInv
    <2>3. AnswersFollow' /\ EntriesInTime'
      BY <2>2, NothingFollows
    <2>4. QED
      BY <2>1, <2>2, <2>3 DEF AInv, Quiet, OnTheAir
  <1>2. CASE Reset
    <2>1. /\ on' = FALSE /\ channel' = -1 /\ answers' = <<>> /\ inbox' = <<>> /\ acked' = <<>>
          /\ up' = None /\ down' = None
      BY <1>2 DEF Reset
    <2>2. AnswersFollow' /\ EntriesInTime'
      BY <2>1, NothingFollows
    <2>3. QED
      BY <2>1, <2>2 DEF AInv, Quiet, OnTheAir
  <1>3. CASE mode = 0 /\ ScanNext
    <2>1. on /\ on' /\ channel \in -1..71 /\ AnswersFollow /\ EntriesInTime /\ OnTheAir
          /\ UNCHANGED <<mode, answers, inbox, acked, down>>
      BY <1>3 DEF ScanNext, IInv, AInv
    <2>2. CASE channel < ChannelMax
      <3> DEFINE chans == LoraWanUpDownChannel915(channel + 1)
      <3>1. channel' = channel + 1 /\ channel' \in 0..71
        BY <1>3, <2>1, <2>2 DEF ScanNext, ChannelMax
      <3>2. up' = [modem |-> SendUp(radio, chans),
                   sent |-> Sent("confirmedUp", Own, <<112>>, channel + 1, <<>>)]
        BY <1>3, <2>2 DEF ScanNext
      <3>3. SendUp(radio, LoraWanUpDownChannel915(channel')) \in Modems
        BY <3>1, SendUpIsHeard DEF IInv, Usable
      <3>4. up'.modem \in Modems /\ up'.sent.fcnt \in 0..71
        BY <3>1, <3>2, <3>3 DEF Sent
      <3>5. AnswersFollow'
        <4>1. \A j \in 1..Len(acked) : acked[j] <= channel'
          <5>1. \A j \in 1..Len(acked) : acked[j] \in 0..71 /\ acked[j] <= channel
            BY <2>1, ElementsOf DEF AnswersFollow
          <5>2. channel' = channel + 1 /\ channel \in Int
            BY <2>1, <3>1
          <5>3. ASSUME NEW j \in 1..Len(acked) PROVE acked[j] <= channel'
            <6>1. acked[j] \in 0..71 /\ acked[j] <= channel
              BY <5>1, Zenon
            <6>2. \A a \in 0..71, c \in Int : a <= c => a <= c + 1
              OBVIOUS
            <6>3. acked[j] <= channel + 1
              BY <5>2, <6>1, <6>2, Zenon
            <6>4. QED
              BY <5>2, <6>3, Zenon
          <5>4. QED
            BY <5>3
        <4>2. QED
          BY <2>1, <4>1, PacketsStay DEF AnswersFollow, Matches
      <3> DEFINE last == Len(acked) + (IF down = None THEN 0 ELSE 1)
      <3>6. late' = late \cup ((Len(answers) + 1)..last)
        BY <1>3, <2>2 DEF ScanNext
      <3>7. /\ Len(acked) \in Nat /\ Len(answers) \in Nat /\ Len(answers) <= Len(acked)
            /\ last \in Nat /\ last >= Len(acked) /\ (down # None => last = Len(acked) + 1)
        BY <2>1 DEF AnswersFollow
      <3> HIDE DEF last
      <3>8. EntriesInTime'
        BY <2>1, <3>6, <3>7, NoneWaitedFor
      <3>9. down' # None => Len(acked') + 1 \in late'
        <4>1. ASSUME down # None PROVE Len(acked) + 1 \in (Len(answers) + 1)..last
          BY <3>7, <4>1
        <4>2. QED
          BY <2>1, <3>6, <4>1
      <3>10. down # None => down.for <= channel'
        <4>1. ASSUME down # None PROVE down.for <= channel'
          <5>1. down.for \in 0..71 /\ down.for <= channel
            BY <2>1, <4>1 DEF OnTheAir
          <5>2. QED
            BY <2>1, <3>1, <5>1
        <4>2. QED
          BY <4>1
      <3>11. OnTheAir'
        BY <2>1, <3>1, <3>4, <3>9, <3>10, PacketsStay DEF OnTheAir
      <3>12. QED
        BY <2>1, <3>5, <3>8, <3>11 DEF AInv, Quiet
    <2>3. CASE ~(channel < ChannelMax)
      <3>1. UNCHANGED <<channel, up, on, late>>
        BY <1>3, <2>3 DEF ScanNext
      <3>2. QED
        BY <2>1, <3>1, PacketsStay DEF AInv, AnswersFollow, EntriesInTime, Matches, OnTheAir, Quiet
    <2>4. QED
      BY <2>2, <2>3
  <1>4. CASE mode = 0 /\ NetworkAnswers
    <2>1. /\ on /\ channel \in 0..71 /\ down'.for = channel /\ down'.sent \in Acks
          /\ up' = None /\ UNCHANGED <<mode, on, channel, answers, inbox, acked, late>>
      BY <1>4, AnswerIsForChannel DEF NetworkAnswers
    <2>2. OnTheAir'
      BY <2>1, PacketsStay DEF OnTheAir
    <2>3. AnswersFollow' /\ EntriesInTime'
      BY <1>4, <2>1, PacketsStay DEF AInv, AnswersFollow, EntriesInTime, Matches
    <2>4. QED
      BY <2>1, <2>2, <2>3 DEF AInv, Quiet
  <1>5. CASE mode = 0 /\ AnswerArrives
    <2>1. /\ on /\ channel \in -1..71 /\ down' = None /\ AnswersFollow /\ EntriesInTime /\ OnTheAir
          /\ down.for \in 0..71 /\ down.for <= channel /\ down.sent \in Acks
          /\ Len(acked) + 1 \in late \/ down.for = channel
          /\ UNCHANGED <<mode, on, channel, answers, up>>
      BY <1>5 DEF AnswerArrives, AInv, OnTheAir, IInv
    <2>2. AnswersFollow' /\ EntriesInTime'
      <3>1. CASE /\ inbox' = Append(inbox, down.sent) /\ acked' = Append(acked, down.for)
                 /\ UNCHANGED late
        <4>1. channel \in Int
          BY <2>1
        <4>2. AnswersFollow'
          BY <2>1, <3>1, <4>1, AnotherAck
        <4>3. EntriesInTime'
          BY <2>1, <3>1, AckInTime
        <4>4. QED
          BY <4>2, <4>3
      <3>2. CASE late' = late \ {Len(acked) + 1} /\ UNCHANGED <<inbox, acked>>
        <4>1. AnswersFollow'
          BY <2>1, <3>2, PacketsStay DEF AnswersFollow, Matches
        <4>2. EntriesInTime'
          BY <2>1, <3>2, LossInTime
        <4>3. QED
          BY <4>1, <4>2
      <3>3. QED
        BY <1>5, <3>1, <3>2, SMTT(60) DEF AnswerArrives
    <2>3. QED
      BY <2>1, <2>2 DEF AInv, Quiet, OnTheAir
  <1>6. CASE mode = 0 /\ ProcessLora
    <2>1. /\ on /\ channel \in -1..71 /\ AnswersFollow /\ EntriesInTime /\ OnTheAir
          /\ UNCHANGED <<mode, on, channel, acked, late, up, down>>
          /\ answers' = answers \/ answers' = Append(answers, channel)
      BY <1>6 DEF ProcessLora, world, AInv, IInv
    <2>2. AnswersFollow'
      BY <1>6, <2>1, OneIsProcessed
    <2>3. EntriesInTime'
      BY <2>1, <2>2, ProcessedInTime
    <2>4. QED
      BY <2>1, <2>2, <2>3, PacketsStay DEF AInv, Quiet, OnTheAir
  <1>7. CASE mode = 0 /\ StrayArrives
    <2>1. /\ on /\ AnswersFollow /\ EntriesInTime /\ OnTheAir
          /\ UNCHANGED <<mode, on, channel, answers, acked, late, up, down>>
      BY <1>7 DEF StrayArrives, world, AInv
    <2>2. PICK s \in Strays : inbox' = Append(inbox, s)
      BY <1>7 DEF StrayArrives, Strays
    <2>3. AnswersFollow'
      BY <2>1, <2>2, AnotherStray
    <2>4. EntriesInTime'
      BY <2>1 DEF EntriesInTime
    <2>5. QED
      BY <2>1, <2>3, <2>4, PacketsStay DEF AInv, Quiet, OnTheAir
  <1>8. CASE mode = 0 /\ (AnswerLost \/ UNCHANGED vars)
    <2>1. /\ UNCHANGED <<mode, on, channel, answers, inbox, acked>> /\ up' = up
          /\ \/ down' = None /\ late' = late \ {Len(acked) + 1}
             \/ down' = down /\ late' = late
      BY <1>8 DEF AnswerLost, vars
    <2>2. AnswersFollow /\ EntriesInTime /\ OnTheAir /\ Quiet
      BY <1>8 DEF AInv
    <2>3. AnswersFollow'
      BY <2>1, <2>2, PacketsStay DEF AnswersFollow, Matches
    <2>4. EntriesInTime'
      <3>1. CASE late' = late
        BY <2>1, <2>2, <3>1 DEF EntriesInTime
      <3>2. CASE late' = late \ {Len(acked) + 1}
        BY <2>1, <2>2, <3>2, LossInTime
      <3>3. QED
        BY <2>1, <3>1, <3>2
    <2>5. OnTheAir' /\ Quiet'
      BY <2>1, <2>2, PacketsStay DEF OnTheAir, Quiet
    <2>6. QED
      BY <2>3, <2>4, <2>5 DEF AInv
  <1>9. mode # 0 => Reset \/ mode' # 0
    BY DEF Next, vars, StartScan, StartBeacons, StartRx2, ScanNext, NetworkAnswers, AnswerArrives,
           AnswerLost, ProcessLora, BeaconHeard, BeaconMissed, BeaconLost, SendBeacon,
           ProcessListen, FrameArrives, StrayArrives, ProcessDownlink
  <1>10. mode = 0 => \/ StartScan \/ Reset \/ ScanNext \/ NetworkAnswers \/ AnswerArrives
                     \/ ProcessLora \/ StrayArrives \/ AnswerLost \/ UNCHANGED vars
    BY DEF Next, StartBeacons, StartRx2, BeaconHeard, BeaconMissed, BeaconLost, SendBeacon,
           ProcessListen, FrameArrives, ProcessDownlink
  <1>11. QED
    BY <1>0, <1>1, <1>2, <1>3, <1>4, <1>5, <1>6, <1>7, <1>8, <1>9, <1>10

(* Each channel on the list stands for an ACK of the network that the      *)
(* radio received before, for that channel, or for an earlier one if       *)
(* scanNext did not wait for it; whatever else is received and wherever    *)
(* the gateways listen.                                                    *)
THEOREM AnswersAreOnlyAcks == Spec => []AnswersAreAcks
  <1>1. AInv => AnswersAreAcks
    BY DEF AInv, AnswersFollow, EntriesInTime, AnswersAreAcks
  <1>2. IInv /\ AInv /\ [Next]_vars => AInv'
    BY AnswersKept
  <1>3. Spec => []AInv
    BY InitAInv, <1>2, Invariance, PTL DEF Spec
  <1>4. QED
    BY <1>1, <1>3, PTL
-----------------------------------------------------------------------------
(* Lists of MAC commands, one after the other. *)

(* What FlattenSeq of the community modules computes, and its function. *)
FlatValue(seqs, f, j) == IF j = 1 THEN seqs[j] ELSE f[j - 1] \o seqs[j]

Flat(seqs) == CHOOSE f : f = [j \in 1..Len(seqs) |-> FlatValue(seqs, f, j)]

(* FlattenSeq gives what the last place of the flattening function holds. *)
LEMMA FlatIsLast ==
  ASSUME NEW seqs
  PROVE  FlattenSeq(seqs) = IF Len(seqs) = 0 THEN seqs ELSE Flat(seqs)[Len(seqs)]
  BY DEF FlattenSeq, Flat, FlatValue

(* f is right up to n. *)
FlatUpTo(seqs, f, n) ==
  /\ f = [j \in 1..Len(seqs) |-> f[j]]
  /\ \A j \in 1..Len(seqs) : j <= n => f[j] = FlatValue(seqs, f, j)

(* The function that flattens exists. *)
LEMMA FlatIsDefined ==
  ASSUME NEW seqs, Len(seqs) \in Nat
  PROVE  \A j \in 1..Len(seqs) : Flat(seqs)[j] = FlatValue(seqs, Flat(seqs), j)
  <1> DEFINE L == Len(seqs)
             S == {n \in 0..L : \E f : FlatUpTo(seqs, f, n)}
  <1>1. 0 \in S
    <2> DEFINE g == [j \in 1..L |-> <<>>]
    <2>1. g = [j \in 1..L |-> g[j]]
      OBVIOUS
    <2>2. FlatUpTo(seqs, g, 0)
      BY <2>1 DEF FlatUpTo
    <2>3. QED
      BY <2>2
  <1>2. ASSUME NEW n \in 0..(L - 1), n \in S PROVE n + 1 \in S
    <2>1. PICK f : FlatUpTo(seqs, f, n)
      BY <1>2
    <2> DEFINE g == [j \in 1..L |-> IF j = n + 1 THEN FlatValue(seqs, f, j) ELSE f[j]]
    <2>2. \A j \in 1..L : g[j] = IF j = n + 1 THEN FlatValue(seqs, f, j) ELSE f[j]
      OBVIOUS
    <2>3. g = [j \in 1..L |-> g[j]]
      OBVIOUS
    <2> HIDE DEF g
    <2>4. ASSUME NEW j \in 1..L, j <= n + 1 PROVE g[j] = FlatValue(seqs, g, j)
      <3>1. g[j] = FlatValue(seqs, f, j)
        BY <2>1, <2>2, <2>4 DEF FlatUpTo
      <3>2. j # 1 => j - 1 \in 1..L /\ j - 1 # n + 1
        BY <2>4
      <3>3. j # 1 => g[j - 1] = f[j - 1]
        BY <2>2, <3>2
      <3>4. QED
        BY <3>1, <3>3 DEF FlatValue
    <2>5. FlatUpTo(seqs, g, n + 1)
      BY <2>3, <2>4 DEF FlatUpTo
    <2>6. n + 1 \in 0..L
      OBVIOUS
    <2>7. QED
      BY <2>5, <2>6
  <1>3. L \in S
    <2> HIDE DEF S
    <2>1. \A n \in 0..(L - 1) : n \in S => n + 1 \in S
      BY <1>2
    <2>2. QED
      BY <1>1, <2>1, Reaches
  <1>4. PICK f : FlatUpTo(seqs, f, L)
    BY <1>3
  <1>5. \A j \in 1..L : f[j] = FlatValue(seqs, f, j)
    BY <1>4 DEF FlatUpTo
  <1>6. f = [j \in 1..L |-> FlatValue(seqs, f, j)]
    <2>1. f = [j \in 1..L |-> f[j]]
      BY <1>4 DEF FlatUpTo
    <2>2. QED
      BY <1>5, <2>1
  <1>7. Flat(seqs) = [j \in 1..L |-> FlatValue(seqs, Flat(seqs), j)]
    BY <1>6 DEF Flat
  <1>8. QED
    BY <1>7

(* Where the j-th sequence begins, and the end. *)
StartOf(seqs, j) == IF j = 1 THEN 0 ELSE Len(Flat(seqs)[j - 1])

(* Flattening lists of elements of B gives a list of elements of B. *)
LEMMA FlatIsSeq ==
  ASSUME NEW B, NEW seqs \in Seq(Seq(B))
  PROVE  \A n \in 1..Len(seqs) : Flat(seqs)[n] \in Seq(B)
  <1> DEFINE f == Flat(seqs)
             S == {n \in 0..Len(seqs) : n = 0 \/ f[n] \in Seq(B)}
  <1>1. Len(seqs) \in Nat /\ \A j \in 1..Len(seqs) : seqs[j] \in Seq(B)
    OBVIOUS
  <1>2. \A j \in 1..Len(seqs) : f[j] = FlatValue(seqs, f, j)
    BY <1>1, FlatIsDefined
  <1> HIDE DEF f
  <1> SUFFICES ASSUME NEW n \in 1..Len(seqs) PROVE f[n] \in Seq(B)
    BY DEF f
  <1>3. 0 \in S
    BY <1>1
  <1>4. ASSUME NEW m \in 0..(n - 1), m \in S PROVE m + 1 \in S
    <2>1. m + 1 \in 1..Len(seqs) /\ (m + 1) - 1 = m /\ m + 1 \in 0..Len(seqs)
      BY <1>1
    <2>2. f[m + 1] = FlatValue(seqs, f, m + 1) /\ seqs[m + 1] \in Seq(B)
      BY <1>1, <1>2, <2>1
    <2>3. CASE m = 0
      BY <2>1, <2>2, <2>3 DEF FlatValue
    <2>4. CASE m # 0
      <3>1. f[m] \in Seq(B) /\ m + 1 # 1
        BY <1>4, <2>1, <2>4
      <3>2. f[m + 1] = f[m] \o seqs[m + 1]
        BY <2>1, <2>2, <3>1 DEF FlatValue
      <3>3. f[m + 1] \in Seq(B)
        <4>1. Joined(B, f[m], seqs[m + 1], f[m + 1])
          BY <2>2, <3>1, <3>2 DEF Joined
        <4>2. QED
          BY <4>1, JoinedAt
      <3>4. QED
        BY <2>1, <3>3
    <2>5. QED
      BY <2>3, <2>4
  <1> HIDE DEF S
  <1>5. n \in S
    <2>1. n \in Nat /\ \A m \in 0..(n - 1) : m \in S => m + 1 \in S
      BY <1>1, <1>4
    <2>2. QED
      BY <1>3, <2>1, Reaches
  <1>6. QED
    BY <1>5 DEF S

(* The j-th sequence lies behind those before it. *)
LEMMA StartsFollow ==
  ASSUME NEW B, NEW seqs \in Seq(Seq(B)), NEW j \in 1..Len(seqs)
  PROVE  /\ StartOf(seqs, j) \in Nat
         /\ StartOf(seqs, j + 1) = StartOf(seqs, j) + Len(seqs[j])
         /\ \A k \in 1..Len(seqs[j]) : Flat(seqs)[j][StartOf(seqs, j) + k] = seqs[j][k]
         /\ \A k \in 1..StartOf(seqs, j) : Flat(seqs)[j][k] = Flat(seqs)[j - 1][k]
  <1> DEFINE f == Flat(seqs)
  <1>1. Len(seqs) \in Nat /\ seqs[j] \in Seq(B) /\ j + 1 # 1 /\ (j + 1) - 1 = j
    OBVIOUS
  <1>2. f[j] = FlatValue(seqs, f, j) /\ f[j] \in Seq(B)
    BY <1>1, FlatIsDefined, FlatIsSeq
  <1>3. j # 1 => f[j - 1] \in Seq(B)
    <2>1. j # 1 => j - 1 \in 1..Len(seqs)
      OBVIOUS
    <2>2. QED
      BY <2>1, FlatIsSeq
  <1>4. StartOf(seqs, j + 1) = Len(f[j]) /\ StartOf(seqs, j) = IF j = 1 THEN 0 ELSE Len(f[j - 1])
    BY <1>1 DEF StartOf
  <1> HIDE DEF f
  <1>5. CASE j = 1
    <2>1. f[j] = seqs[j] /\ StartOf(seqs, j) = 0 /\ StartOf(seqs, j + 1) = Len(seqs[j])
      BY <1>2, <1>4, <1>5 DEF FlatValue
    <2>2. Len(seqs[j]) \in Nat
      BY <1>1
    <2>3. QED
      BY <2>1, <2>2 DEF f
  <1>6. CASE j # 1
    <2>1. f[j] = f[j - 1] \o seqs[j] /\ f[j - 1] \in Seq(B)
      BY <1>2, <1>3, <1>6 DEF FlatValue
    <2>2. StartOf(seqs, j) = Len(f[j - 1]) /\ Len(f[j - 1]) \in Nat /\ Len(seqs[j]) \in Nat
      BY <1>1, <1>4, <1>6, <2>1, SMTT(60)
    <2>3. /\ Len(f[j]) = Len(f[j - 1]) + Len(seqs[j])
          /\ \A k \in 1..Len(seqs[j]) : f[j][Len(f[j - 1]) + k] = seqs[j][k]
          /\ \A k \in 1..Len(f[j - 1]) : f[j][k] = f[j - 1][k]
      <3> DEFINE p == f[j - 1]
                 q == seqs[j]
                 r == f[j]
      <3>1. Joined(B, p, q, r)
        BY <1>1, <2>1 DEF Joined
      <3> HIDE DEF p, q, r
      <3>2. /\ Len(r) = Len(p) + Len(q)
            /\ \A k \in 1..Len(q) : r[Len(p) + k] = q[k]
            /\ \A k \in 1..Len(p) : r[k] = p[k]
        BY <3>1, JoinedAt
      <3>3. QED
        BY <3>2 DEF p, q, r
    <2>4. QED
      BY <1>4, <2>2, <2>3 DEF f
  <1>7. QED
    BY <1>5, <1>6

(* What all of them give holds the j-th where it begins. *)
LEMMA Flattened ==
  ASSUME NEW B, NEW seqs \in Seq(Seq(B)), NEW j \in 1..Len(seqs)
  PROVE  /\ FlattenSeq(seqs) \in Seq(B)
         /\ StartOf(seqs, Len(seqs) + 1) = Len(FlattenSeq(seqs))
         /\ \A k \in 1..Len(seqs[j]) : FlattenSeq(seqs)[StartOf(seqs, j) + k] = seqs[j][k]
  <1> DEFINE f == Flat(seqs)
             n == Len(seqs)
             Has(m) == \A k \in 1..Len(seqs[j]) : f[m][StartOf(seqs, j) + k] = seqs[j][k]
             Inside(m) == StartOf(seqs, j) + Len(seqs[j]) <= Len(f[m])
             S == {d \in 0..(n - j) : Has(j + d) /\ Inside(j + d)}
  <1>1. n \in Nat /\ n # 0 /\ j \in Nat /\ n - j \in Nat /\ Len(seqs[j]) \in Nat
    OBVIOUS
  <1>2. FlattenSeq(seqs) = f[n] /\ f[n] \in Seq(B) /\ StartOf(seqs, n + 1) = Len(f[n])
    <2>1. n + 1 # 1 /\ (n + 1) - 1 = n /\ n \in 1..n
      BY <1>1
    <2>2. QED
      BY <1>1, <2>1, FlatIsLast, FlatIsSeq DEF StartOf
  <1>3. 0 \in S
    <2>1. j + 0 = j /\ j + 1 # 1 /\ (j + 1) - 1 = j
      BY <1>1
    <2>2. StartOf(seqs, j + 1) = Len(f[j])
      BY <2>1 DEF StartOf
    <2>3. Has(j) /\ Inside(j)
      BY <1>1, <2>2, StartsFollow
    <2>4. QED
      BY <1>1, <2>1, <2>3
  <1>4. ASSUME NEW d \in 0..((n - j) - 1), d \in S PROVE d + 1 \in S
    <2> DEFINE m == j + d + 1
    <2>1. /\ m \in 1..n /\ m - 1 = j + d /\ m # 1 /\ m + 1 # 1 /\ (m + 1) - 1 = m
          /\ m = j + (d + 1) /\ d + 1 \in 0..(n - j)
      BY <1>1
    <2>2. Has(m - 1) /\ Inside(m - 1)
      BY <1>4, <2>1
    <2> HIDE DEF m
    <2>3. /\ StartOf(seqs, m) = Len(f[m - 1]) /\ StartOf(seqs, m + 1) = Len(f[m])
      BY <2>1 DEF StartOf
    <2>4. /\ StartOf(seqs, m) \in Nat /\ StartOf(seqs, j) \in Nat
          /\ StartOf(seqs, m + 1) = StartOf(seqs, m) + Len(seqs[m])
          /\ \A k \in 1..StartOf(seqs, m) : f[m][k] = f[m - 1][k]
      BY <2>1, StartsFollow, SMTT(60)
    <2>5. Len(seqs[m]) \in Nat
      BY <2>1
    <2>6. Inside(m)
      <3> DEFINE a == StartOf(seqs, j)
                 b == Len(seqs[j])
                 c == StartOf(seqs, m)
                 e == Len(seqs[m])
      <3>1. a + b <= c /\ Len(f[m]) = c + e
        BY <2>2, <2>3, <2>4
      <3>2. a \in Nat /\ b \in Nat /\ c \in Nat /\ e \in Nat
        BY <1>1, <2>4, <2>5
      <3> HIDE DEF a, b, c, e
      <3>3. a + b <= c + e
        BY <3>1, <3>2
      <3>4. QED
        BY <3>1, <3>3 DEF a, b
    <2>7. ASSUME NEW k \in 1..Len(seqs[j]) PROVE f[m][StartOf(seqs, j) + k] = seqs[j][k]
      <3>1. StartOf(seqs, j) + k \in 1..StartOf(seqs, m)
        BY <1>1, <2>2, <2>3, <2>4, SMTT(60)
      <3>2. f[m][StartOf(seqs, j) + k] = f[m - 1][StartOf(seqs, j) + k]
        BY <2>4, <3>1
      <3>3. QED
        BY <2>2, <3>2
    <2>8. QED
      BY <2>1, <2>6, <2>7
  <1>5. n - j \in S
    <2> HIDE DEF S
    <2>1. \A d \in 0..((n - j) - 1) : d \in S => d + 1 \in S
      BY <1>4
    <2>2. QED
      BY <1>1, <1>3, <2>1, Reaches
  <1>6. j + (n - j) = n
    BY <1>1
  <1>7. Has(n)
    BY <1>5, <1>6
  <1>8. QED
    BY <1>2, <1>7

-----------------------------------------------------------------------------
(* The MAC commands are read one after the other. *)

(* An index and the number of bytes left; where it goes on. *)
DecodePlaces(data) == Nat \X (-5..Len(data))
GoesOn(data, at) == <<at[1] + Moved[data[at[1]]], at[2] - Counted[data[at[1]]]>>

NothingRead == [error |-> FALSE, mac |-> <<>>]
ReadError == [error |-> TRUE, mac |-> <<>>]
PutFirst(command, rest) == [rest EXCEPT !.mac = <<command>> \o @]

(* One step of foptsDecode, and the function it is. *)
DecodeValue(data, f, at) ==
  IF at[2] <= 0 THEN NothingRead
  ELSE IF data[at[1]] \notin 2..8 THEN ReadError
  ELSE PutFirst(MacCommand(data, at[1]), f[GoesOn(data, at)])

Decoder(data) ==
  CHOOSE f : f = [at \in DecodePlaces(data) |-> DecodeValue(data, f, at)]

(* foptsDecode begins at the first byte, with all of them left. *)
LEMMA FoptsDecodeBegins ==
  ASSUME NEW data
  PROVE  FoptsDecode(data) = Decoder(data)[<<1, Len(data)>>]
  BY DEF FoptsDecode, Decoder, DecodeValue, DecodePlaces, GoesOn, NothingRead, ReadError, PutFirst

(* How far the library moves on behind a command, and how many bytes it counts. *)
LEMMA CommandSizes ==
  ASSUME NEW cid \in 2..8
  PROVE  /\ Counted[cid] \in 1..6 /\ Moved[cid] \in 1..6
         /\ Counted[cid] = CommandBytes[cid]
         /\ cid # 8 => Moved[cid] = Counted[cid]
  BY DEF Counted, Moved, CommandBytes

(* f is right where no more than n bytes are left. *)
DecodesUpTo(data, f, n) ==
  /\ f = [at \in DecodePlaces(data) |-> f[at]]
  /\ \A at \in DecodePlaces(data) : at[2] <= n => f[at] = DecodeValue(data, f, at)

(* Behind each command there are fewer bytes left. *)
LEMMA GoesOnFurther ==
  ASSUME NEW data, Len(data) \in Nat, NEW at \in DecodePlaces(data),
         at[2] > 0, data[at[1]] \in 2..8
  PROVE  GoesOn(data, at) \in DecodePlaces(data) /\ GoesOn(data, at)[2] < at[2]
  <1> DEFINE m == Moved[data[at[1]]]
             c == Counted[data[at[1]]]
  <1>1. m \in 1..6 /\ c \in 1..6
    BY CommandSizes
  <1>2. at[1] \in Nat /\ at[2] \in 1..Len(data)
    BY DEF DecodePlaces
  <1> HIDE DEF m, c
  <1>3. at[1] + m \in Nat /\ at[2] - c \in -5..Len(data) /\ at[2] - c < at[2]
    BY <1>1, <1>2, SMTT(60)
  <1>4. GoesOn(data, at) = <<at[1] + m, at[2] - c>>
    BY DEF GoesOn, m, c
  <1>5. QED
    BY <1>3, <1>4 DEF DecodePlaces

(* The function that decodes exists. *)
LEMMA DecoderIsDefined ==
  ASSUME NEW data, Len(data) \in Nat
  PROVE  \A at \in DecodePlaces(data) : Decoder(data)[at] = DecodeValue(data, Decoder(data), at)
  <1> DEFINE L == Len(data)
             S == {n \in 0..L : \E f : DecodesUpTo(data, f, n)}
  <1>1. 0 \in S
    <2> DEFINE g == [at \in DecodePlaces(data) |-> NothingRead]
    <2>1. /\ g = [at \in DecodePlaces(data) |-> g[at]]
          /\ \A at \in DecodePlaces(data) : g[at] = NothingRead
      OBVIOUS
    <2> HIDE DEF g
    <2>2. DecodesUpTo(data, g, 0)
      BY <2>1 DEF DecodesUpTo, DecodeValue
    <2>3. QED
      BY <2>2
  <1>2. ASSUME NEW n \in 0..(L - 1), n \in S PROVE n + 1 \in S
    <2>1. PICK f : DecodesUpTo(data, f, n)
      BY <1>2
    <2> DEFINE g == [at \in DecodePlaces(data) |->
                       IF at[2] = n + 1 THEN DecodeValue(data, f, at) ELSE f[at]]
    <2>2. \A at \in DecodePlaces(data) :
            g[at] = IF at[2] = n + 1 THEN DecodeValue(data, f, at) ELSE f[at]
      OBVIOUS
    <2>3. g = [at \in DecodePlaces(data) |-> g[at]]
      OBVIOUS
    <2> HIDE DEF g
    <2>4. ASSUME NEW at \in DecodePlaces(data), at[2] <= n + 1
          PROVE  g[at] = DecodeValue(data, g, at)
      <3>1. at[2] \in Int /\ n \in Int
        BY DEF DecodePlaces
      <3>2. g[at] = DecodeValue(data, f, at)
        <4>1. CASE at[2] = n + 1
          BY <2>2, <4>1
        <4>2. CASE at[2] # n + 1
          <5>1. at[2] <= n
            BY <2>4, <3>1, <4>2
          <5>2. QED
            BY <2>1, <2>2, <4>2, <5>1 DEF DecodesUpTo
        <4>3. QED
          BY <4>1, <4>2
      <3>3. ASSUME ~(at[2] <= 0), data[at[1]] \in 2..8
            PROVE  g[GoesOn(data, at)] = f[GoesOn(data, at)]
        <4> DEFINE next == GoesOn(data, at)
        <4>1. next \in DecodePlaces(data) /\ next[2] < at[2]
          BY <3>1, <3>3, GoesOnFurther
        <4> HIDE DEF next
        <4>2. next[2] \in Int
          BY <4>1 DEF DecodePlaces
        <4>3. next[2] # n + 1
          BY <2>4, <3>1, <4>1, <4>2
        <4>4. g[next] = f[next]
          BY <2>2, <4>1, <4>3
        <4>5. QED
          BY <4>4 DEF next
      <3>4. DecodeValue(data, g, at) = DecodeValue(data, f, at)
        BY <3>3, Zenon DEF DecodeValue
      <3>5. QED
        BY <3>2, <3>4
    <2>5. DecodesUpTo(data, g, n + 1)
      BY <2>3, <2>4 DEF DecodesUpTo
    <2>6. n + 1 \in 0..L
      OBVIOUS
    <2>7. QED
      BY <2>5, <2>6
  <1>3. L \in S
    <2> HIDE DEF S
    <2>1. \A n \in 0..(L - 1) : n \in S => n + 1 \in S
      BY <1>2
    <2>2. QED
      BY <1>1, <2>1, Reaches
  <1>4. PICK f : DecodesUpTo(data, f, L)
    BY <1>3
  <1>5. \A at \in DecodePlaces(data) : f[at] = DecodeValue(data, f, at)
    <2>1. \A at \in DecodePlaces(data) : at[2] <= L
      BY DEF DecodePlaces
    <2>2. QED
      BY <1>4, <2>1 DEF DecodesUpTo
  <1>6. f = [at \in DecodePlaces(data) |-> DecodeValue(data, f, at)]
    <2>1. f = [at \in DecodePlaces(data) |-> f[at]]
      BY <1>4 DEF DecodesUpTo
    <2>2. QED
      BY <1>5, <2>1
  <1>7. Decoder(data) = [at \in DecodePlaces(data) |-> DecodeValue(data, Decoder(data), at)]
    BY <1>6 DEF Decoder
  <1>8. QED
    BY <1>7

(* What is found is the commands from the j-th on, up to the first          *)
(* RXTimingSetupReq.                                                       *)
Macs(data) == {MacCommand(data, idx) : idx \in Nat}
Found(data) == [error : BOOLEAN, mac : Seq(Macs(data))]

NoneBefore(commands, j, e) == \A l \in j..(e - 1) : commands[l][1] # 8

FoundFrom(data, commands, j, r) ==
  /\ r \in Found(data)
  /\ \A k \in 1..(Len(commands) + 1 - j) :
       NoneBefore(commands, j, (j - 1) + k)
         => k <= Len(r.mac) /\ r.mac[k].cid = commands[(j - 1) + k][1]
  /\ NoneBefore(commands, j, Len(commands))
       => ~r.error /\ Len(r.mac) = Len(commands) + 1 - j

(* A command keeps its CID when it is read. *)
LEMMA MacCommandHasCid ==
  ASSUME NEW data, NEW idx PROVE MacCommand(data, idx).cid = data[idx]
  BY DEF MacCommand

(* At the end no command is left. *)
LEMMA NothingFound ==
  ASSUME NEW data, NEW commands, Len(commands) \in Nat
  PROVE  FoundFrom(data, commands, Len(commands) + 1, NothingRead)
  <1>1. NothingRead \in Found(data) /\ NothingRead.mac = <<>> /\ ~NothingRead.error
    BY DEF NothingRead, Found
  <1>2. Len(<<>>) = 0 /\ Len(commands) + 1 - (Len(commands) + 1) = 0 /\ 1..0 = {}
    OBVIOUS
  <1>3. QED
    BY <1>1, <1>2 DEF FoundFrom

(* An element put before a list is the first, and the others follow. *)
LEMMA PutBefore ==
  ASSUME NEW B, NEW m \in B, NEW u \in Seq(B)
  PROVE  /\ <<m>> \o u \in Seq(B) /\ Len(<<m>> \o u) = 1 + Len(u)
         /\ (<<m>> \o u)[1] = m
         /\ \A k \in 1..Len(u) : (<<m>> \o u)[1 + k] = u[k]
  <1> DEFINE s == <<m>>
             w == s \o u
  <1>1. Joined(B, s, u, w)
    BY DEF Joined
  <1>2. Len(s) = 1 /\ s[1] = m
    OBVIOUS
  <1> HIDE DEF s, w
  <1>3. /\ w \in Seq(B) /\ Len(w) = Len(s) + Len(u)
        /\ \A k \in 1..Len(s) : w[k] = s[k]
        /\ \A k \in 1..Len(u) : w[Len(s) + k] = u[k]
    BY <1>1, JoinedAt
  <1>4. /\ w \in Seq(B) /\ Len(w) = 1 + Len(u) /\ w[1] = m
        /\ \A k \in 1..Len(u) : w[1 + k] = u[k]
    BY <1>2, <1>3
  <1>5. QED
    BY <1>4 DEF s, w

(* A command is put before what is found. *)
LEMMA FirstIsPut ==
  ASSUME NEW data, NEW idx \in Nat, NEW r \in Found(data)
  PROVE  LET q == PutFirst(MacCommand(data, idx), r) IN
         /\ q \in Found(data) /\ q.error = r.error
         /\ Len(r.mac) \in Nat /\ Len(q.mac) = 1 + Len(r.mac)
         /\ q.mac[1].cid = data[idx]
         /\ \A k \in 1..Len(r.mac) : q.mac[1 + k] = r.mac[k]
  <1> DEFINE m == MacCommand(data, idx)
             M == Macs(data)
             u == r.mac
             w == <<m>> \o u
             q == PutFirst(m, r)
  <1>b. q = [r EXCEPT !.mac = w]
    BY DEF PutFirst
  <1>1. m \in M /\ m.cid = data[idx]
    BY MacCommandHasCid DEF Macs
  <1>2. u \in Seq(M) /\ r.error \in BOOLEAN /\ r = [error |-> r.error, mac |-> u]
    BY DEF Found
  <1> HIDE DEF w, q
  <1>3. q = [error |-> r.error, mac |-> w]
    BY <1>2, <1>b
  <1>a. Found(data) = [error : BOOLEAN, mac : Seq(M)]
    BY DEF Found
  <1> HIDE DEF m, M, u
  <1>c. w = <<m>> \o u
    BY DEF w
  <1>4. /\ w \in Seq(M) /\ Len(w) = 1 + Len(u) /\ Len(u) \in Nat /\ w[1] = m
        /\ \A k \in 1..Len(u) : w[1 + k] = u[k]
    BY <1>1, <1>2, <1>c, PutBefore
  <1>5. q.mac = w /\ q.error = r.error /\ q \in [error : BOOLEAN, mac : Seq(M)]
    BY <1>2, <1>3, <1>4
  <1>6. QED
    BY <1>1, <1>4, <1>5, <1>a DEF m, u, q

(* Behind the commands from the next on, the j-th is found; behind an      *)
(* RXTimingSetupReq anything may be.                                       *)
LEMMA OneMoreFound ==
  ASSUME NEW data, NEW commands, Len(commands) \in Nat, NEW j \in 1..Len(commands),
         NEW r \in Found(data), NEW idx \in Nat, data[idx] = commands[j][1],
         commands[j][1] # 8 \/ j = Len(commands) => FoundFrom(data, commands, j + 1, r)
  PROVE  FoundFrom(data, commands, j, PutFirst(MacCommand(data, idx), r))
  <1> DEFINE q == PutFirst(MacCommand(data, idx), r)
             n == Len(commands)
  <1>1. /\ q \in Found(data) /\ q.error = r.error
        /\ Len(r.mac) \in Nat /\ Len(q.mac) = 1 + Len(r.mac)
        /\ q.mac[1].cid = commands[j][1]
        /\ \A k \in 1..Len(r.mac) : q.mac[1 + k] = r.mac[k]
    BY FirstIsPut
  <1> HIDE DEF q
  <1>2. ASSUME NEW k \in 1..(n + 1 - j), NoneBefore(commands, j, (j - 1) + k)
        PROVE  k <= Len(q.mac) /\ q.mac[k].cid = commands[(j - 1) + k][1]
    <2>1. CASE k = 1
      <3>1. (j - 1) + k = j /\ 1 <= 1 + Len(r.mac)
        BY <1>1, <2>1
      <3>2. QED
        BY <1>1, <2>1, <3>1
    <2>2. CASE k # 1
      <3>1. /\ k - 1 \in 1..(n + 1 - (j + 1)) /\ ((j + 1) - 1) + (k - 1) = (j - 1) + k
            /\ j \in j..((j - 1) + k - 1) /\ 1 + (k - 1) = k
        BY <2>2
      <3>2. commands[j][1] # 8
        BY <1>2, <3>1 DEF NoneBefore
      <3>3. NoneBefore(commands, j + 1, (j - 1) + k)
        BY <1>2 DEF NoneBefore
      <3>4. k - 1 <= Len(r.mac) /\ r.mac[k - 1].cid = commands[(j - 1) + k][1]
        BY <3>1, <3>2, <3>3 DEF FoundFrom
      <3>5. k - 1 \in 1..Len(r.mac) /\ k <= 1 + Len(r.mac)
        <4>1. Len(r.mac) \in Nat
          BY <1>1
        <4>2. k - 1 \in Nat /\ k - 1 >= 1
          BY <3>1
        <4>3. k - 1 <= Len(r.mac)
          BY <3>4
        <4> QED
          BY <4>1, <4>2, <4>3
      <3>6. QED
        BY <1>1, <3>1, <3>4, <3>5
    <2>3. QED
      BY <2>1, <2>2
  <1>3. ASSUME NoneBefore(commands, j, n) PROVE ~q.error /\ Len(q.mac) = n + 1 - j
    <2>1. commands[j][1] # 8 \/ j = n
      <3>1. j # n => j \in j..(n - 1)
        OBVIOUS
      <3>2. QED
        BY <1>3, <3>1 DEF NoneBefore
    <2>2. NoneBefore(commands, j + 1, n)
      BY <1>3 DEF NoneBefore
    <2>3. ~r.error /\ Len(r.mac) = n + 1 - (j + 1)
      BY <2>1, <2>2 DEF FoundFrom
    <2>4. QED
      BY <1>1, <2>3
  <1>4. QED
    BY <1>1, <1>2, <1>3 DEF FoundFrom, q

(* Wherever foptsDecode is, it finds commands. *)
LEMMA DecodedIsFound ==
  ASSUME NEW data, Len(data) \in Nat
  PROVE  \A at \in DecodePlaces(data) : Decoder(data)[at] \in Found(data)
  <1> DEFINE L == Len(data)
             f == Decoder(data)
             Left(n) == \A at \in DecodePlaces(data) : at[2] <= n => f[at] \in Found(data)
             S == {n \in 0..L : Left(n)}
  <1>1. \A at \in DecodePlaces(data) : f[at] = DecodeValue(data, f, at)
    BY DecoderIsDefined
  <1>2. NothingRead \in Found(data) /\ ReadError \in Found(data)
    BY DEF NothingRead, ReadError, Found
  <1> HIDE DEF f
  <1>3. 0 \in S
    <2>1. Left(0)
      BY <1>1, <1>2 DEF DecodeValue
    <2>2. QED
      BY <2>1
  <1>4. ASSUME NEW n \in 0..(L - 1), n \in S PROVE n + 1 \in S
    <2>1. Left(n)
      BY <1>4
    <2> HIDE DEF Left
    <2>2. ASSUME NEW at \in DecodePlaces(data), at[2] <= n + 1 PROVE f[at] \in Found(data)
      <3>1. at[2] \in Int /\ at[1] \in Nat
        BY DEF DecodePlaces
      <3>2. CASE at[2] <= 0
        BY <1>1, <1>2, <3>2 DEF DecodeValue
      <3>3. CASE ~(at[2] <= 0) /\ data[at[1]] \notin 2..8
        BY <1>1, <1>2, <3>3 DEF DecodeValue
      <3>4. CASE ~(at[2] <= 0) /\ data[at[1]] \in 2..8
        <4> DEFINE next == GoesOn(data, at)
        <4>1. next \in DecodePlaces(data) /\ next[2] < at[2]
          BY <3>1, <3>4, GoesOnFurther
        <4>2. f[at] = PutFirst(MacCommand(data, at[1]), f[next])
          BY <1>1, <3>4 DEF DecodeValue
        <4> HIDE DEF next
        <4>3. next[2] \in Int
          BY <4>1 DEF DecodePlaces
        <4>4. next[2] <= n
          BY <2>2, <3>1, <4>1, <4>3
        <4>5. f[next] \in Found(data)
          BY <2>1, <4>1, <4>4 DEF Left
        <4>6. QED
          BY <3>1, <4>2, <4>5, FirstIsPut
      <3>5. QED
        BY <3>2, <3>3, <3>4
    <2>3. Left(n + 1)
      BY <2>2 DEF Left
    <2>4. QED
      BY <2>3
  <1>5. L \in S
    <2> HIDE DEF S
    <2>1. \A n \in 0..(L - 1) : n \in S => n + 1 \in S
      BY <1>4
    <2>2. QED
      BY <1>3, <2>1, Reaches
  <1>6. \A at \in DecodePlaces(data) : at[2] <= L
    BY DEF DecodePlaces
  <1>7. QED
    BY <1>5, <1>6 DEF f

(* What the assumption on FOpts says of each command. *)
LEMMA CommandsAreCommands ==
  ASSUME NEW commands \in FOpts
  PROVE  /\ commands \in Seq(Seq(Byte)) /\ Len(commands) \in Nat
         /\ Len(FlattenSeq(commands)) <= 15
         /\ \A j \in 1..Len(commands) :
              /\ commands[j] \in Seq(Byte) /\ commands[j][1] \in 2..8
              /\ Len(commands[j]) = Counted[commands[j][1]] /\ Len(commands[j]) \in 1..6
  <1> DEFINE flat == Len(FlattenSeq(commands)) <= 15
  <1>1. /\ commands \in Seq(Seq(Byte)) /\ flat
        /\ \A k \in 1..Len(commands) : IsCommand(commands[k])
    BY FOptsAssumption, Zenon
  <1> HIDE DEF flat
  <1>2. Len(commands) \in Nat
    BY <1>1
  <1>3. ASSUME NEW j \in 1..Len(commands)
        PROVE  /\ commands[j] \in Seq(Byte) /\ commands[j][1] \in 2..8
               /\ Len(commands[j]) = Counted[commands[j][1]] /\ Len(commands[j]) \in 1..6
    <2> DEFINE cid == commands[j][1]
    <2>1. IsCommand(commands[j])
      BY <1>1
    <2>2. cid \in 2..8 /\ Len(commands[j]) = CommandBytes[cid]
      BY <2>1 DEF IsCommand
    <2>3. commands[j] \in Seq(Byte)
      BY <1>1
    <2> HIDE DEF cid
    <2>4. CommandBytes[cid] = Counted[cid] /\ Counted[cid] \in 1..6
      BY <2>2, CommandSizes
    <2>5. QED
      BY <2>1, <2>2, <2>3, <2>4 DEF cid
  <1>4. QED
    BY <1>1, <1>2, <1>3 DEF flat

(* foptsDecode finds the commands that were sent, up to the first          *)
(* RXTimingSetupReq (__foptsDecode).                                       *)
LEMMA CommandsAreFound ==
  ASSUME NEW commands \in FOpts \cup {<<>>}
  PROVE  /\ Len(commands) \in Nat
         /\ FoundFrom(FlattenSeq(commands), commands, 1, FoptsDecode(FlattenSeq(commands)))
  <1> DEFINE data == FlattenSeq(commands)
             n == Len(commands)
             L == Len(data)
             f == Decoder(data)
             At(j) == <<StartOf(commands, j) + 1, L - StartOf(commands, j)>>
  <1>1. CASE commands = <<>>
    <2>1. n = 0 /\ n \in Nat /\ n + 1 = 1
      BY <1>1
    <2>2. data = commands /\ L = 0
      BY <1>1, <2>1, FlatIsLast
    <2>3. <<1, 0>> \in DecodePlaces(data) /\ <<1, 0>>[2] <= 0
      BY <2>2 DEF DecodePlaces
    <2>4. FoptsDecode(data) = NothingRead
      BY <2>2, <2>3, FoptsDecodeBegins, DecoderIsDefined DEF DecodeValue
    <2>5. FoundFrom(data, commands, n + 1, NothingRead)
      BY <2>1, NothingFound
    <2>6. QED
      BY <2>1, <2>4, <2>5
  <1>2. CASE commands # <<>>
    <2>0. commands \in FOpts /\ n # 0
      BY <1>2, CommandsAreCommands
    <2> DEFINE S == {d \in 0..n : /\ StartOf(commands, n + 1 - d) \in Nat
                                  /\ StartOf(commands, n + 1 - d) <= L
                                  /\ FoundFrom(data, commands, n + 1 - d, f[At(n + 1 - d)])}
    <2>1. /\ commands \in Seq(Seq(Byte)) /\ n \in Nat /\ 1 \in 1..n /\ n \in 1..n
          /\ data \in Seq(Byte) /\ L \in Nat /\ StartOf(commands, n + 1) = L
      BY <2>0, CommandsAreCommands, Flattened
    <2>2. \A at \in DecodePlaces(data) : f[at] = DecodeValue(data, f, at)
      BY <2>1, DecoderIsDefined
    <2>3. \A at \in DecodePlaces(data) : at[2] <= 0 => f[at] = NothingRead
      BY <2>2 DEF DecodeValue
    <2>4. FoundFrom(data, commands, n + 1, NothingRead)
      BY <2>1, NothingFound
    <2>5. \A j \in 1..n :
            /\ StartOf(commands, j) \in Nat
            /\ StartOf(commands, j + 1) = StartOf(commands, j) + Len(commands[j])
            /\ \A k \in 1..Len(commands[j]) : data[StartOf(commands, j) + k] = commands[j][k]
      BY <2>1, StartsFollow, Flattened, ZenonT(60)
    <2>6. DecodePlaces(data) = Nat \X (-5..L)
      BY DEF DecodePlaces
    <2> HIDE DEF f, data, L
    <2>7. 0 \in S
      <3>1. At(n + 1) = <<L + 1, 0>>
        BY <2>1
      <3>2. <<L + 1, 0>> \in DecodePlaces(data) /\ <<L + 1, 0>>[2] <= 0
        BY <2>1, <2>6
      <3>3. f[At(n + 1)] = NothingRead
        BY <2>3, <3>1, <3>2
      <3>4. n + 1 - 0 = n + 1 /\ 0 \in 0..n
        BY <2>1
      <3>5. QED
        BY <2>1, <2>4, <3>3, <3>4
    <2>8. ASSUME NEW d \in 0..(n - 1), d \in S PROVE d + 1 \in S
      <3> DEFINE j == n + 1 - (d + 1)
      <3>1. j \in 1..n /\ n + 1 - d = j + 1 /\ d + 1 \in 0..n
        BY <2>1
      <3>2. /\ StartOf(commands, j + 1) \in Nat /\ StartOf(commands, j + 1) <= L
            /\ FoundFrom(data, commands, j + 1, f[At(j + 1)])
        BY <2>8, <3>1
      <3> HIDE DEF j
      <3> DEFINE a == StartOf(commands, j)
                 b == StartOf(commands, j + 1)
                 cid == commands[j][1]
                 c == Counted[cid]
                 m == Moved[cid]
                 at == <<a + 1, L - a>>
                 next == GoesOn(data, at)
      <3>3. /\ a \in Nat /\ b = a + Len(commands[j]) /\ cid \in 2..8 /\ Len(commands[j]) = c
            /\ c \in 1..6 /\ m \in 1..6
            /\ cid # 8 => m = c
        BY <2>0, <2>5, <3>1, CommandsAreCommands, CommandSizes
      <3>4. data[a + 1] = cid
        <4>1. 1 \in 1..Len(commands[j])
          BY <3>3, SMTT(60)
        <4>2. QED
          BY <2>5, <3>1, <4>1
      <3>5. at[1] = a + 1 /\ at[2] = L - a
        OBVIOUS
      <3>6. next = <<(a + 1) + m, (L - a) - c>>
        BY <3>4, <3>5 DEF GoesOn
      <3> HIDE DEF a, b, cid, c, m
      <3>7. b = a + c /\ b \in Nat /\ b <= L
        BY <3>2, <3>3 DEF b
      <3>8. a <= L /\ L - a \in 1..L /\ a + 1 \in Nat
        BY <2>1, <3>3, <3>7, SMTT(60)
      <3>9. at \in DecodePlaces(data) /\ ~(at[2] <= 0)
        BY <2>1, <2>6, <3>5, <3>8, SMTT(60)
      <3>10. f[at] = PutFirst(MacCommand(data, a + 1), f[next])
        <4> HIDE DEF at, next
        <4>1. data[at[1]] \in 2..8 /\ at[1] = a + 1
          BY <3>3, <3>4, <3>5
        <4>2. f[at] = DecodeValue(data, f, at)
          BY <2>2, <3>9
        <4>3. QED
          BY <3>9, <4>1, <4>2 DEF DecodeValue, next
      <3>11. cid # 8 \/ j = n => FoundFrom(data, commands, j + 1, f[next])
        <4>1. CASE cid # 8
          <5>1. m = c
            BY <3>3, <4>1
          <5>2. (a + 1) + m = b + 1 /\ (L - a) - c = L - b
            BY <2>1, <3>3, <3>7, <5>1
          <5>3. next = At(j + 1)
            BY <3>6, <5>2 DEF b
          <5>4. QED
            BY <3>2, <5>3
        <4>2. CASE j = n
          <5>1. b = L
            BY <2>1, <4>2 DEF b
          <5>2. (L - a) - c = 0 /\ (a + 1) + m \in Nat
            BY <2>1, <3>3, <3>7, <5>1
          <5>3. next \in DecodePlaces(data) /\ next[2] <= 0
            BY <2>1, <2>6, <3>6, <5>2
          <5>4. f[next] = NothingRead
            BY <2>3, <5>3
          <5>5. QED
            BY <2>4, <4>2, <5>4
        <4>3. QED
          BY <4>1, <4>2
      <3>15. f[next] \in Found(data)
        <4> HIDE DEF at, next
        <4>1. data[at[1]] \in 2..8 /\ at[2] > 0
          BY <3>3, <3>4, <3>5, <3>8
        <4>2. next \in DecodePlaces(data)
          BY <2>1, <3>9, <4>1, GoesOnFurther DEF next, L
        <4>3. QED
          BY <2>1, <4>2, DecodedIsFound DEF f, L
      <3>12. FoundFrom(data, commands, j, f[at])
        <4> DEFINE r == f[next]
                   idx == a + 1
        <4>1. r \in Found(data) /\ f[at] = PutFirst(MacCommand(data, idx), r)
          BY <3>10, <3>15
        <4>2. idx \in Nat /\ data[idx] = commands[j][1] /\ Len(commands) \in Nat
          BY <2>1, <3>4, <3>8 DEF cid
        <4>5. commands[j][1] # 8 \/ j = Len(commands) => FoundFrom(data, commands, j + 1, r)
          BY <3>11 DEF cid
        <4> HIDE DEF r, idx, at
        <4>3. FoundFrom(data, commands, j, PutFirst(MacCommand(data, idx), r))
          BY <3>1, <4>1, <4>2, <4>5, OneMoreFound
        <4>4. QED
          BY <4>1, <4>3
      <3>13. n + 1 - (d + 1) = j /\ at = At(j)
        BY DEF j, a
      <3>14. QED
        BY <3>1, <3>3, <3>8, <3>12, <3>13 DEF a
    <2>9. n \in S
      <3> HIDE DEF S
      <3>1. \A d \in 0..(n - 1) : d \in S => d + 1 \in S
        BY <2>8
      <3>2. QED
        BY <2>1, <2>7, <3>1, Reaches
    <2>10. FoundFrom(data, commands, 1, f[At(1)])
      <3>1. n + 1 - n = 1
        BY <2>1
      <3>2. QED
        BY <2>9, <3>1
    <2>11. At(1) = <<1, L>>
      BY <2>1 DEF StartOf
    <2>12. QED
      BY <2>1, <2>10, <2>11, FoptsDecodeBegins DEF f, data, L
  <1>3. QED
    BY <1>1, <1>2

-----------------------------------------------------------------------------
(* A packet made by MakePacketFromPayLoad, cell by cell.                   *)

IsSeqOver(n, g) == n \in Nat /\ g = [k \in 1..n |-> g[k]]

(* A function over 1..n is a sequence of n elements. *)
LEMMA SeqOver ==
  ASSUME NEW n, NEW g, IsSeqOver(n, g)
  PROVE  g \in Seq({g[k] : k \in 1..n}) /\ Len(g) = n
  <1> DEFINE C == {g[k] : k \in 1..n}
  <1>1. n \in Nat /\ g = [k \in 1..n |-> g[k]]
    BY DEF IsSeqOver
  <1>2. \A k \in 1..n : g[k] \in C
    OBVIOUS
  <1> HIDE DEF C
  <1>3. g \in [1..n -> C]
    BY <1>1, <1>2
  <1>4. g \in Seq(C) /\ Len(g) = n
    BY <1>1, <1>3
  <1>5. QED
    BY <1>4 DEF C

(* A list of elements of A is one of elements of a larger set. *)
LEMMA SeqWider ==
  ASSUME NEW A, NEW B, NEW g \in Seq(A), A \subseteq B PROVE g \in Seq(B)
  OBVIOUS

(* Two sequences are one behind the other, whatever they are of. *)
Behind(n, s, m, t, r) == IsSeqOver(n, s) /\ IsSeqOver(m, t) /\ r = s \o t

(* The elements of a concatenation, where each is. *)
LEMMA JoinedOver ==
  ASSUME NEW n, NEW s, NEW m, NEW t, NEW r, Behind(n, s, m, t, r)
  PROVE  /\ IsSeqOver(n + m, r) /\ Len(r) = n + m
         /\ \A k \in 1..n : r[k] = s[k]
         /\ \A k \in 1..m : r[n + k] = t[k]
  <1> DEFINE A == {s[k] : k \in 1..n}
             B == {t[k] : k \in 1..m}
             C == A \cup B
  <1>1. s \in Seq(A) /\ Len(s) = n /\ t \in Seq(B) /\ Len(t) = m /\ n \in Nat /\ m \in Nat
    BY SeqOver DEF IsSeqOver, Behind
  <1> HIDE DEF A, B
  <1>2. s \in Seq(C) /\ t \in Seq(C)
    BY <1>1, SeqWider
  <1> HIDE DEF C
  <1>3. Joined(C, s, t, r)
    BY <1>2 DEF Joined, Behind
  <1>4. /\ r \in Seq(C) /\ Len(r) = Len(s) + Len(t)
        /\ \A k \in 1..Len(s) : r[k] = s[k]
        /\ \A k \in 1..Len(t) : r[Len(s) + k] = t[k]
    BY <1>3, JoinedAt
  <1>5. IsSeqOver(n + m, r)
    <2>1. Len(r) \in Nat /\ Len(r) = n + m
      BY <1>1, <1>4
    <2>2. r = [k \in 1..Len(r) |-> r[k]]
      BY <1>4
    <2>3. QED
      BY <2>1, <2>2 DEF IsSeqOver
  <1>6. QED
    BY <1>1, <1>4, <1>5

(* What is from a place of a sequence on. *)
LEMMA SubSeqOver ==
  ASSUME NEW r, NEW n, IsSeqOver(n, r), NEW a \in 1..(n + 1), NEW b \in 0..n, a <= b + 1
  PROVE  SubSeq(r, a, b) = [k \in 1..(b + 1 - a) |-> r[a + k - 1]]
         /\ Len(SubSeq(r, a, b)) = b + 1 - a
  <1> DEFINE C == {r[k] : k \in 1..n}
  <1>1. r \in Seq(C) /\ Len(r) = n /\ n \in Nat
    BY SeqOver DEF IsSeqOver
  <1> HIDE DEF C
  <1>2. QED
    BY <1>1

(* The second XOR takes the first off again. *)
LEMMA XorTwice ==
  ASSUME NEW b, NEW key
  PROVE  Xor(Xor([byte |-> b, under |-> {}], key), key) = [byte |-> b, under |-> {}]
  BY DEF Xor

(* Who encrypts again what was encrypted with the same key reads it. *)
LEMMA DecryptEncrypted ==
  ASSUME NEW bytes, Len(bytes) \in Nat, NEW addr, NEW key, NEW fcnt, NEW dir,
         NEW sub, Len(sub) = Len(bytes),
         \A k \in 1..Len(bytes) : sub[k] = EncryptPayload(Plain(bytes), addr, key, fcnt, dir)[k]
  PROVE  EncryptPayload(sub, addr, key, fcnt, dir) = Plain(bytes)
  <1> DEFINE n == Len(bytes)
             keyAt(k) == <<key, EncBase(dir, fcnt, addr, (k - 1) \div 16), (k - 1) % 16>>
             plain == Plain(bytes)
             e == EncryptPayload(plain, addr, key, fcnt, dir)
  <1>1. plain = [k \in 1..n |-> [byte |-> bytes[k], under |-> {}]] /\ Len(plain) = n
    BY DEF Plain
  <1>2. e = [k \in 1..n |-> Xor(plain[k], keyAt(k))]
    BY <1>1 DEF EncryptPayload
  <1>3. EncryptPayload(sub, addr, key, fcnt, dir) = [k \in 1..n |-> Xor(sub[k], keyAt(k))]
    BY DEF EncryptPayload
  <1> HIDE DEF keyAt, plain, n
  <1>4. ASSUME NEW k \in 1..n PROVE Xor(sub[k], keyAt(k)) = [byte |-> bytes[k], under |-> {}]
    <2>1. sub[k] = Xor([byte |-> bytes[k], under |-> {}], keyAt(k))
      BY <1>1, <1>2 DEF n, plain
    <2>2. QED
      BY <2>1, XorTwice
  <1>5. QED
    BY <1>1, <1>3, <1>4 DEF plain

(* The two bytes of a number. *)
LEMMA HighByte == ASSUME NEW q \in 0..255 PROVE q % 256 = q
  OBVIOUS

(* The low and the high byte make up the number. *)
LEMMA TwoBytes ==
  ASSUME NEW x \in Word PROVE (x % 256) + 256 * ((x \div 256) % 256) = x
  <1> DEFINE top == 256 * 256 - 1
             q == x \div 256
             d == x % 256
  <1>a. Word = 0..top
    BY Zenon DEF Word
  <1>b. top \in Int /\ top < 256 * 256
    OBVIOUS
  <1> HIDE DEF top
  <1>1. x \in Int /\ 0 <= x /\ x < 256 * 256
    BY <1>a, <1>b
  <1>2. q \in Int /\ d \in Int /\ 0 <= d /\ d <= 255
    BY <1>1
  <1>3. d + 256 * q = x
    BY <1>1
  <1> HIDE DEF q, d
  <1>4. q \in 0..255
    BY <1>1, <1>2, <1>3
  <1>5. q % 256 = q
    BY <1>4, HighByte
  <1>6. d + 256 * (q % 256) = x
    BY <1>3, <1>5
  <1>7. QED
    BY <1>6, SMTT(60) DEF q, d

(* The head of a packet. *)
LEMMA HeadIsRead ==
  ASSUME NEW type \in {96, 160}, NEW fctrl \in {0, 32}, NEW n \in 0..15, NEW fcnt \in Word
  PROVE  /\ type \div 32 \in {3, 5} /\ (type \div 32 = 5 <=> type = 160)
         /\ (fctrl + (n % 16)) % 16 = n
         /\ ((fctrl + (n % 16)) \div 32) % 2 = 1 <=> fctrl = 32
         /\ LittleEndian(fcnt)[1] + 256 * LittleEndian(fcnt)[2] = fcnt
  <1>1. type \div 32 \in {3, 5} /\ (type \div 32 = 5 <=> type = 160)
    BY SMT
  <1>2. n % 16 = n
    BY SMT
  <1>3. (fctrl + n) % 16 = n
    BY SMT
  <1>4. ((fctrl + n) \div 32) % 2 = 1 <=> fctrl = 32
    BY SMT
  <1>5. (fcnt % 256) + 256 * ((fcnt \div 256) % 256) = fcnt
    BY TwoBytes
  <1>6. QED
    BY <1>1, <1>2, <1>3, <1>4, <1>5 DEF LittleEndian

(* The body of a packet: FOpts, the port and what is encrypted. *)
PacketBody(lwp, payload, fcnt, fopts) ==
  Plain(fopts) \o Plain(<<1>>) \o EncryptPayload(Plain(payload), lwp.devAddr, lwp.appKey, fcnt, 1)

(* What the parser reads in a body. *)
Readable(lwp, payload, fcnt, fopts, body) ==
  /\ Len(body) = Len(fopts) + 1 + Len(payload)
  /\ Bytes(SubSeq(body, 1, Len(fopts))) = fopts
  /\ body[Len(fopts) + 1].byte = 1
  /\ EncryptPayload(SubSeq(body, Len(fopts) + 2, Len(body)), lwp.devAddr, lwp.appKey, fcnt, 1)
       = Plain(payload)

(* Each part of the body is found where the parser looks for it. *)
LEMMA BodyIsRead ==
  ASSUME NEW lwp, NEW payload, NEW fcnt, NEW fopts, Len(payload) \in Nat, Len(fopts) \in Nat,
         fopts = [k \in 1..Len(fopts) |-> fopts[k]]
  PROVE  Readable(lwp, payload, fcnt, fopts, PacketBody(lwp, payload, fcnt, fopts))
  <1> DEFINE n == Len(fopts)
             m == Len(payload)
             o == Plain(fopts)
             port == Plain(<<1>>)
             e == EncryptPayload(Plain(payload), lwp.devAddr, lwp.appKey, fcnt, 1)
             head == o \o port
             body == head \o e
  <1>1. n \in Nat /\ m \in Nat /\ IsSeqOver(n, o) /\ \A k \in 1..n : o[k].byte = fopts[k]
    BY DEF IsSeqOver, Plain
  <1>2. IsSeqOver(1, port) /\ port[1].byte = 1
    BY DEF IsSeqOver, Plain
  <1>3. IsSeqOver(m, e)
    <2>1. Len(Plain(payload)) = m
      BY DEF Plain
    <2>2. QED
      BY <1>1, <2>1 DEF IsSeqOver, EncryptPayload
  <1>4. body = PacketBody(lwp, payload, fcnt, fopts)
    BY DEF PacketBody
  <1> HIDE DEF o, port, e, n, m
  <1>5. /\ IsSeqOver(n + 1, head) /\ \A k \in 1..n : head[k] = o[k]
        /\ head[n + 1] = port[1]
    <2> DEFINE one == 1
    <2>1. Behind(n, o, one, port, head)
      BY <1>1, <1>2 DEF Behind
    <2> HIDE DEF one, head
    <2>2. /\ IsSeqOver(n + one, head) /\ \A k \in 1..n : head[k] = o[k]
          /\ \A k \in 1..one : head[n + k] = port[k]
      BY <2>1, JoinedOver
    <2>3. QED
      BY <2>2 DEF one
  <1> HIDE DEF head
  <1>6. /\ IsSeqOver((n + 1) + m, body) /\ Len(body) = (n + 1) + m
        /\ \A k \in 1..(n + 1) : body[k] = head[k]
        /\ \A k \in 1..m : body[(n + 1) + k] = e[k]
    <2> DEFINE h == n + 1
    <2>1. Behind(h, head, m, e, body)
      BY <1>3, <1>5 DEF Behind
    <2> HIDE DEF h, body
    <2>2. /\ IsSeqOver(h + m, body) /\ Len(body) = h + m
          /\ \A k \in 1..h : body[k] = head[k]
          /\ \A k \in 1..m : body[h + k] = e[k]
      BY <2>1, JoinedOver
    <2>3. QED
      BY <2>2 DEF h
  <1> HIDE DEF body
  <1>7. Bytes(SubSeq(body, 1, n)) = fopts
    <2>1. SubSeq(body, 1, n) = [k \in 1..(n + 1 - 1) |-> body[1 + k - 1]]
          /\ Len(SubSeq(body, 1, n)) = n + 1 - 1
      <3>1. n \in 0..((n + 1) + m) /\ 1 \in 1..(((n + 1) + m) + 1) /\ 1 <= n + 1
        BY <1>1
      <3> DEFINE l == (n + 1) + m
      <3> HIDE DEF l
      <3>2. IsSeqOver(l, body) /\ n \in 0..l /\ 1 \in 1..(l + 1) /\ 1 <= n + 1
        BY <1>6, <3>1 DEF l
      <3>3. QED
        BY <3>2, SubSeqOver
    <2>2. n + 1 - 1 = n /\ \A k \in 1..n : 1 + k - 1 = k /\ k \in 1..(n + 1)
      BY <1>1
    <2>3. ASSUME NEW k \in 1..n PROVE SubSeq(body, 1, n)[k].byte = fopts[k]
      <3>1. SubSeq(body, 1, n)[k] = body[k]
        BY <2>1, <2>2
      <3>2. body[k] = o[k]
        BY <1>5, <1>6, <2>2
      <3>3. QED
        BY <1>1, <3>1, <3>2
    <2>4. Bytes(SubSeq(body, 1, n)) = [k \in 1..n |-> SubSeq(body, 1, n)[k].byte]
      BY <2>1, <2>2 DEF Bytes
    <2>5. QED
      BY <2>3, <2>4 DEF n
  <1>8. body[n + 1].byte = 1
    <2>1. n + 1 \in 1..(n + 1)
      BY <1>1
    <2>2. QED
      BY <1>2, <1>5, <1>6, <2>1
  <1>9. EncryptPayload(SubSeq(body, n + 2, Len(body)), lwp.devAddr, lwp.appKey, fcnt, 1)
          = Plain(payload)
    <2> DEFINE l == (n + 1) + m
               a == n + 2
               sub == SubSeq(body, a, l)
    <2>1. /\ a \in 1..(l + 1) /\ l \in 0..l /\ a <= l + 1 /\ l + 1 - a = m
          /\ \A k \in 1..m : a + k - 1 = (n + 1) + k
      BY <1>1, SMTT(60)
    <2>2. IsSeqOver(l, body) /\ Len(body) = l
      BY <1>6
    <2> HIDE DEF l, a
    <2>3. sub = [k \in 1..(l + 1 - a) |-> body[a + k - 1]] /\ Len(sub) = l + 1 - a
      BY <2>1, <2>2, SubSeqOver, SMTT(60)
    <2>4. Len(sub) = m /\ \A k \in 1..m : sub[k] = e[k]
      BY <1>6, <2>1, <2>3
    <2> HIDE DEF sub
    <2>5. EncryptPayload(sub, lwp.devAddr, lwp.appKey, fcnt, 1) = Plain(payload)
      BY <1>1, <2>4, DecryptEncrypted DEF m, e
    <2>6. QED
      BY <2>2, <2>5 DEF sub, a
  <1>10. (n + 1) + m = n + 1 + m
    BY <1>1
  <1>11. QED
    BY <1>4, <1>6, <1>7, <1>8, <1>9 DEF n, m, Readable

(* A packet for a device, and what its fields hold. *)
Made(lwp, payload, type, fctrl, fcnt, fopts) ==
  MakePacketFromPayLoad(lwp, payload, type, 1, fctrl, fcnt, fopts, 1)

IsMade(lwp, body, type, fctrl, fcnt, n, p) ==
  /\ p.pkt.mhdr = type /\ p.pkt.addr = lwp.devAddr
  /\ p.pkt.fctrl = fctrl + (n % 16) /\ p.pkt.fcnt = LittleEndian(fcnt)
  /\ p.pkt.body = body
  /\ p.length = 8 + Len(body) + 4
  /\ \A key : CheckMic(p, key, fcnt, lwp.devAddr, 1) <=> key = lwp.nwkKey

(* What MakePacketFromPayLoad puts in which field, and who can verify it. *)
LEMMA MadeIs ==
  ASSUME NEW lwp, NEW payload, NEW type, NEW fctrl, NEW fcnt, NEW fopts
  PROVE  IsMade(lwp, PacketBody(lwp, payload, fcnt, fopts), type, fctrl, fcnt, Len(fopts),
                Made(lwp, payload, type, fctrl, fcnt, fopts))
  <1> DEFINE body == PacketBody(lwp, payload, fcnt, fopts)
             pkt == [mhdr |-> type, addr |-> lwp.devAddr, fctrl |-> fctrl + (Len(fopts) % 16),
                     fcnt |-> LittleEndian(fcnt), body |-> body]
             p == Made(lwp, payload, type, fctrl, fcnt, fopts)
  <1>1. 1 % 256 = 1
    OBVIOUS
  <1>2. p = [length |-> 8 + Len(body) + 4, pkt |-> pkt,
             mic |-> MakeMic(pkt, lwp.devAddr, lwp.nwkKey, fcnt, 1)]
    BY <1>1, ZenonT(60) DEF Made, MakePacketFromPayLoad, PacketBody
  <1> HIDE DEF p, body
  <1>3. p.length = 8 + Len(body) + 4 /\ p.mic = MakeMic(p.pkt, lwp.devAddr, lwp.nwkKey, fcnt, 1)
    BY <1>2
  <1>4. /\ p.pkt.mhdr = type /\ p.pkt.addr = lwp.devAddr /\ p.pkt.body = body
        /\ p.pkt.fctrl = fctrl + (Len(fopts) % 16) /\ p.pkt.fcnt = LittleEndian(fcnt)
    BY <1>2
  <1>5. ASSUME NEW key
        PROVE  CheckMic(p, key, fcnt, lwp.devAddr, 1) <=> key = lwp.nwkKey
    <2>1. CheckMic(p, key, fcnt, lwp.devAddr, 1)
            <=> MakeMic(p.pkt, lwp.devAddr, lwp.nwkKey, fcnt, 1)
                  = MakeMic(p.pkt, lwp.devAddr, key, fcnt, 1)
      BY <1>3 DEF CheckMic
    <2>2. \A k : MakeMic(p.pkt, lwp.devAddr, k, fcnt, 1).key = k
      BY DEF MakeMic
    <2>3. QED
      BY <2>1, <2>2
  <1>6. QED
    BY <1>3, <1>4, <1>5 DEF p, body, IsMade

(* Lists of bytes. *)
IsBytes(s) == s \in Seq(Byte)

(* Bytes are a function over their places. *)
LEMMA BytesAreMany ==
  ASSUME NEW s, IsBytes(s) PROVE Len(s) \in Nat /\ s = [k \in 1..Len(s) |-> s[k]]
  BY DEF IsBytes

(* What a packet for a device is made of, and what the parser makes of it. *)
MakesSense(payload, type, fctrl, fcnt, fopts) ==
  /\ IsBytes(payload) /\ type \in {96, 160} /\ fctrl \in {0, 32} /\ fcnt \in Word
  /\ IsBytes(fopts) /\ Len(fopts) <= 15

Parsed(lwp, payload, type, fctrl, fcnt, fopts, r) ==
  /\ ~r.error
  /\ r.micVerified <=> Own.nwkKey = lwp.nwkKey
  /\ r.devAddr = lwp.devAddr
  /\ r.fcnt = fcnt /\ r.fopts = fopts
  /\ r.confirmed <=> type = 160
  /\ r.ack <=> fctrl = 32
  /\ lwp = Own => r.payload = Plain(payload)
  /\ lwp = Own => r.fport = IF payload = <<>> THEN <<>> ELSE <<1>>
  /\ lwp.nwkKey # Own.nwkKey => r.payload = <<>>

(* A packet of the network is read as it was made; one that was made with  *)
(* another key is not verified and gives no payload.                       *)
LEMMA MadeIsParsed ==
  ASSUME NEW lwp, NEW payload, NEW type, NEW fctrl, NEW fcnt, NEW fopts,
         MakesSense(payload, type, fctrl, fcnt, fopts)
  PROVE  Parsed(lwp, payload, type, fctrl, fcnt, fopts,
                ParseDownPacket(Own, Made(lwp, payload, type, fctrl, fcnt, fopts)))
  <1> SUFFICES /\ IsBytes(payload) /\ type \in {96, 160} /\ fctrl \in {0, 32} /\ fcnt \in Word
               /\ IsBytes(fopts) /\ Len(fopts) <= 15
               => Parsed(lwp, payload, type, fctrl, fcnt, fopts,
                         ParseDownPacket(Own, Made(lwp, payload, type, fctrl, fcnt, fopts)))
    BY DEF MakesSense
  <1> HAVE /\ IsBytes(payload) /\ type \in {96, 160} /\ fctrl \in {0, 32} /\ fcnt \in Word
           /\ IsBytes(fopts) /\ Len(fopts) <= 15
  <1> DEFINE p == Made(lwp, payload, type, fctrl, fcnt, fopts)
             n == Len(fopts)
             m == Len(payload)
             body == PacketBody(lwp, payload, fcnt, fopts)
             r == ParseDownPacket(Own, p)
             count == p.pkt.fcnt[1] + 256 * p.pkt.fcnt[2]
             flen == p.pkt.fctrl % 16
             micOk == CheckMic(p, Own.nwkKey, count, p.pkt.addr, 1)
             there == flen > 0 /\ flen + 12 <= p.length
             skipped == IF there THEN flen ELSE 0
             hasPayload == micOk /\ 8 + skipped + 4 + 1 < p.length
             first == p.pkt.body[skipped + 1].byte
             rest == EncryptPayload(SubSeq(p.pkt.body, skipped + 2, Len(p.pkt.body)),
                                    p.pkt.addr, Own.appKey, count, 1)
             opts == IF there THEN Bytes(SubSeq(p.pkt.body, 1, flen)) ELSE [k \in 1..flen |-> 0]
  <1>1. n \in 0..15 /\ m \in Nat /\ fopts = [k \in 1..n |-> fopts[k]]
    <2>1. n \in Nat /\ m \in Nat /\ fopts = [k \in 1..n |-> fopts[k]]
      BY BytesAreMany
    <2>2. n <= 15
      OBVIOUS
    <2> HIDE DEF n, m
    <2>3. n \in 0..15
      BY <2>1, <2>2, SMTT(60)
    <2>4. QED
      BY <2>1, <2>3, Zenon
  <1>2. n = 0 => fopts = [k \in 1..n |-> 0]
    BY DEF IsBytes
  <1>3. m = 0 <=> payload = <<>>
    BY DEF IsBytes
  <1>4. m = 0 => Plain(payload) = <<>>
    <2>1. m = 0 => 1..m = {}
      BY <1>1
    <2>2. m = 0 => Plain(payload) = [k \in {} |-> [byte |-> payload[k], under |-> {}]]
      BY <2>1 DEF Plain
    <2>3. [k \in {} |-> [byte |-> payload[k], under |-> {}]] = <<>>
      OBVIOUS
    <2>4. QED
      BY <2>2, <2>3
  <1>5. IsMade(lwp, body, type, fctrl, fcnt, n, p)
    BY MadeIs
  <1>6. Readable(lwp, payload, fcnt, fopts, body)
    BY <1>1, BodyIsRead
  <1> HIDE DEF p, body
  <1>7. /\ p.pkt.mhdr = type /\ p.pkt.addr = lwp.devAddr /\ p.pkt.body = body
        /\ p.pkt.fctrl = fctrl + (n % 16) /\ p.pkt.fcnt = LittleEndian(fcnt)
        /\ p.length = 8 + Len(body) + 4
        /\ CheckMic(p, Own.nwkKey, fcnt, lwp.devAddr, 1) <=> Own.nwkKey = lwp.nwkKey
    BY <1>5 DEF IsMade
  <1>8. /\ Len(body) = n + 1 + m /\ Bytes(SubSeq(body, 1, n)) = fopts
        /\ body[n + 1].byte = 1
        /\ EncryptPayload(SubSeq(body, n + 2, Len(body)), lwp.devAddr, lwp.appKey, fcnt, 1)
             = Plain(payload)
    BY <1>6 DEF Readable
  <1>9. /\ type \div 32 \in {3, 5} /\ (type \div 32 = 5 <=> type = 160)
        /\ (fctrl + (n % 16)) % 16 = n
        /\ ((fctrl + (n % 16)) \div 32) % 2 = 1 <=> fctrl = 32
        /\ LittleEndian(fcnt)[1] + 256 * LittleEndian(fcnt)[2] = fcnt
    <2> HIDE DEF n
    <2>1. n \in 0..15
      BY <1>1
    <2>2. QED
      BY <2>1, HeadIsRead
  <1>10. /\ p.pkt.mhdr \div 32 \in {3, 5} /\ (p.pkt.mhdr \div 32 = 5 <=> type = 160)
         /\ flen = n /\ count = fcnt
         /\ (p.pkt.fctrl \div 32) % 2 = 1 <=> fctrl = 32
    BY <1>7, <1>9
  <1> HIDE DEF n, m
  <1>11. p.length = 13 + n + m /\ p.length \in Nat /\ ~(p.length < 12)
    <2> DEFINE l == Len(body)
    <2>1. l = n + 1 + m /\ p.length = 8 + l + 4
      BY <1>7, <1>8
    <2> HIDE DEF l
    <2>2. n \in Nat /\ m \in Nat
      BY <1>1
    <2>3. QED
      BY <2>1, <2>2
  <1>12. r = [error |-> FALSE, devAddr |-> p.pkt.addr, confirmed |-> p.pkt.mhdr \div 32 = 5,
              payload |-> IF hasPayload THEN rest ELSE <<>>,
              fport |-> IF hasPayload THEN <<first>> ELSE <<>>,
              fcnt |-> count, fopts |-> opts, ack |-> (p.pkt.fctrl \div 32) % 2 = 1,
              micVerified |-> micOk]
    <2>1. ~(p.length < 12 \/ p.pkt.mhdr \div 32 \notin {3, 5})
      BY <1>10, <1>11
    <2>2. QED
      BY <2>1, Zenon DEF ParseDownPacket
  <1>13. micOk <=> Own.nwkKey = lwp.nwkKey
    BY <1>7, <1>10
  <1> HIDE DEF micOk, flen, count
  <1>14. /\ there <=> n # 0
         /\ skipped = n
         /\ hasPayload <=> (Own.nwkKey = lwp.nwkKey /\ m # 0)
    <2>1. n \in Nat /\ m \in Nat
      BY <1>1
    <2>2. there <=> n # 0
      BY <1>10, <1>11, <2>1
    <2>3. skipped = n
      BY <1>10, <2>1, <2>2
    <2> HIDE DEF skipped
    <2>4. 8 + skipped + 4 + 1 < p.length <=> m # 0
      BY <1>11, <2>1, <2>3
    <2>5. QED
      BY <1>13, <2>2, <2>3, <2>4
  <1>15. opts = fopts
    BY <1>2, <1>7, <1>8, <1>10, <1>14
  <1>16. first = 1
    BY <1>7, <1>8, <1>14
  <1>17. lwp = Own => rest = Plain(payload)
    BY <1>7, <1>8, <1>10, <1>14
  <1> HIDE DEF there, skipped, hasPayload, rest, first, opts, r
  <1>18. /\ ~r.error /\ r.micVerified = micOk /\ r.devAddr = p.pkt.addr
         /\ r.fcnt = count
         /\ r.confirmed = (p.pkt.mhdr \div 32 = 5)
         /\ r.ack = ((p.pkt.fctrl \div 32) % 2 = 1)
         /\ r.fopts = opts
         /\ r.fport = IF hasPayload THEN <<first>> ELSE <<>>
    BY <1>12, Zenon
  <1>19. r.payload = IF hasPayload THEN rest ELSE <<>>
    BY <1>12, Zenon
  <1>20. /\ ~r.error /\ (r.micVerified <=> Own.nwkKey = lwp.nwkKey) /\ r.devAddr = lwp.devAddr
         /\ r.fcnt = fcnt
    BY <1>7, <1>10, <1>13, <1>18
  <1>21. (r.confirmed <=> type = 160) /\ (r.ack <=> fctrl = 32)
    BY <1>10, <1>18
  <1>22. r.fopts = fopts
    BY <1>15, <1>18
  <1>23. lwp = Own => r.payload = Plain(payload)
    BY <1>3, <1>4, <1>14, <1>17, <1>19
  <1>24. lwp = Own => r.fport = IF payload = <<>> THEN <<>> ELSE <<1>>
    BY <1>3, <1>14, <1>16, <1>18
  <1>25. lwp.nwkKey # Own.nwkKey => r.payload = <<>>
    BY <1>14, <1>19
  <1>26. QED
    BY <1>20, <1>21, <1>22, <1>23, <1>24, <1>25, Zenon DEF r, p, Parsed

-----------------------------------------------------------------------------
(* What the application makes of what it receives. *)

(* The keys of the other device are not those of this one. *)
LEMMA OwnAndOther ==
  /\ Own.nwkKey # Other.nwkKey /\ Own # Other
  /\ Own.devAddr = Reverse(<<38, 12, 167, 159>>)
  <1>1. Own.nwkKey = "network key" /\ Other.nwkKey = "network key of another"
    BY DEF Own, Other, LoraWanPacket
  <1>2. Own.nwkKey # Other.nwkKey
    BY <1>1
  <1>3. Own.devAddr = Reverse(<<38, 12, 167, 159>>)
    BY Zenon DEF Own, LoraWanPacket
  <1>4. QED
    BY <1>2, <1>3

(* What is sent on the air. *)
FrameKind(s) ==
  /\ s = Sent(s.kind, s.lwp, s.payload, s.fcnt, s.fopts)
  /\ s.kind \in DownKinds \cup UpKinds /\ s.lwp \in {Own, Other} /\ s.fcnt \in Word
  /\ s.fport = 1
  /\ s.payload \in Payloads \cup {<<>>} /\ s.fopts \in FOpts \cup {<<>>}
  /\ s.kind \in {"ack of the network", "ackPacket"} => s.payload = <<>> /\ s.fopts = <<>>

(* Each packet on the air is too short, or made from what it carries. *)
LEMMA FramesAreOfAKind ==
  ASSUME NEW s \in Frames PROVE s = [kind |-> "short"] \/ FrameKind(s)
  <1>1. ASSUME NEW kind \in HasPayload, NEW lwp \in {Own, Other}, NEW payload \in Payloads,
               NEW fcnt \in FCnts, NEW fopts \in FOpts
        PROVE  FrameKind(Sent(kind, lwp, payload, fcnt, fopts))
    <2> DEFINE x == Sent(kind, lwp, payload, fcnt, fopts)
    <2>1. /\ x.kind = kind /\ x.lwp = lwp /\ x.payload = payload /\ x.fport = 1
          /\ x.fcnt = fcnt /\ x.fopts = fopts
      BY DEF Sent
    <2>2. kind \in DownKinds \cup UpKinds /\ kind \notin {"ack of the network", "ackPacket"}
      BY DEF HasPayload, DownKinds, UpKinds
    <2>3. fcnt \in Word
      BY FCntsAssumption
    <2> HIDE DEF x
    <2>4. x = Sent(x.kind, x.lwp, x.payload, x.fcnt, x.fopts)
      BY <2>1, Zenon DEF x
    <2>5. QED
      BY <2>1, <2>2, <2>3, <2>4 DEF FrameKind, x
  <1>2. ASSUME NEW kind \in {"ack of the network", "ackPacket"}, NEW lwp \in {Own, Other},
               NEW fcnt \in FCnts
        PROVE  FrameKind(Sent(kind, lwp, <<>>, fcnt, <<>>))
    <2> DEFINE x == Sent(kind, lwp, <<>>, fcnt, <<>>)
    <2>1. /\ x.kind = kind /\ x.lwp = lwp /\ x.payload = <<>> /\ x.fport = 1
          /\ x.fcnt = fcnt /\ x.fopts = <<>>
      BY DEF Sent
    <2>2. kind \in DownKinds \cup UpKinds
      BY DEF DownKinds, UpKinds
    <2>3. fcnt \in Word
      BY FCntsAssumption
    <2> HIDE DEF x
    <2>4. x = Sent(x.kind, x.lwp, x.payload, x.fcnt, x.fopts)
      BY <2>1, Zenon DEF x
    <2>5. QED
      BY <2>1, <2>2, <2>3, <2>4 DEF FrameKind, x
  <1> HIDE DEF FrameKind
  <1>3. \A f \in HasPayload \X {Own, Other} \X Payloads \X FCnts \X FOpts :
          FrameKind(Sent(f[1], f[2], f[3], f[4], f[5]))
    BY <1>1
  <1>4. \A f \in {"ack of the network", "ackPacket"} \X {Own, Other} \X FCnts :
          FrameKind(Sent(f[1], f[2], <<>>, f[3], <<>>))
    BY <1>2
  <1>5. QED
    BY <1>3, <1>4, Zenon DEF Frames

(* What a packet carries is bytes. *)
LEMMA FrameBytes ==
  ASSUME NEW s, FrameKind(s)
  PROVE  /\ IsBytes(s.payload)
         /\ IsBytes(FlattenSeq(s.fopts)) /\ Len(FlattenSeq(s.fopts)) <= 15
         /\ s.fopts = <<>> => FlattenSeq(s.fopts) = <<>>
  <1>1. IsBytes(<<>>) /\ Len(<<>>) <= 15
    BY DEF IsBytes
  <1>2. FlattenSeq(<<>>) = <<>>
    <2>1. Len(<<>>) = 0
      OBVIOUS
    <2>2. QED
      BY <2>1, FlatIsLast
  <1>3. IsBytes(s.payload)
    <2>1. CASE s.payload = <<>>
      BY <1>1, <2>1
    <2>2. CASE s.payload \in Payloads
      BY <2>2, PayloadsAssumption DEF IsBytes
    <2>3. QED
      BY <2>1, <2>2 DEF FrameKind
  <1>4. ASSUME s.fopts \in FOpts
        PROVE  IsBytes(FlattenSeq(s.fopts)) /\ Len(FlattenSeq(s.fopts)) <= 15
    <2> DEFINE commands == s.fopts
               n == Len(commands)
    <2>1. commands \in Seq(Seq(Byte)) /\ n \in Nat /\ Len(FlattenSeq(commands)) <= 15
      BY <1>4, CommandsAreCommands
    <2> HIDE DEF commands
    <2>2. CASE n = 0
      <3>1. commands = <<>>
        BY <2>1, <2>2
      <3>2. QED
        BY <1>1, <1>2, <3>1 DEF commands
    <2>3. CASE n # 0
      <3>1. n \in 1..n
        BY <2>1, <2>3
      <3>2. FlattenSeq(commands) \in Seq(Byte)
        BY <2>1, <3>1, Flattened
      <3>3. QED
        BY <2>1, <3>2 DEF IsBytes, commands
    <2>4. QED
      BY <2>2, <2>3
  <1>5. s.fopts \in FOpts \/ s.fopts = <<>>
    BY DEF FrameKind
  <1>6. QED
    BY <1>1, <1>2, <1>3, <1>4, <1>5, Zenon

(* How a packet for a device is marked. *)
FrameType(kind) == IF kind = "confirmedDown" THEN 160 ELSE 96
FrameControl(kind) == IF kind = "ack of the network" THEN 32 ELSE 0

(* What the network sends is made by MakePacketFromPayLoad. *)
LEMMA PacketIsMade ==
  ASSUME NEW s, FrameKind(s), s.kind \in DownKinds
  PROVE  PacketOf(s) = Made(s.lwp, s.payload, FrameType(s.kind), FrameControl(s.kind), s.fcnt,
                            FlattenSeq(s.fopts))
  <1>1. CASE s.kind = "unConfirmedDown"
    BY <1>1 DEF PacketOf, Made, UnConfirmedDown, FrameKind, FrameType, FrameControl
  <1>2. CASE s.kind = "confirmedDown"
    BY <1>2 DEF PacketOf, Made, ConfirmedDown, FrameKind, FrameType, FrameControl
  <1>3. CASE s.kind = "ack of the network"
    <2>1. s.payload = <<>> /\ FlattenSeq(s.fopts) = <<>>
      BY <1>3, FrameBytes DEF FrameKind
    <2>2. QED
      BY <1>3, <2>1 DEF PacketOf, Made, FrameKind, FrameType, FrameControl
  <1>4. QED
    BY <1>1, <1>2, <1>3 DEF DownKinds

(* What a device sends is no packet for a device. *)
LEMMA UpIsAnError ==
  ASSUME NEW s, FrameKind(s), s.kind \in UpKinds
  PROVE  ParseDownPacket(Own, PacketOf(s)).error
  <1>1. PacketOf(s).pkt.mhdr \in {64, 128}
    <2>1. CASE s.kind = "unConfirmedUp"
      BY <2>1 DEF PacketOf, UnConfirmedUp, MakePacketFromPayLoad
    <2>2. CASE s.kind = "confirmedUp"
      BY <2>2 DEF PacketOf, ConfirmedUp, MakePacketFromPayLoad
    <2>3. CASE s.kind = "ackPacket"
      BY <2>3 DEF PacketOf, MakeAck, MakePacketFromPayLoad
    <2>4. QED
      BY <2>1, <2>2, <2>3, SMTT(60) DEF UpKinds
  <1> DEFINE p == PacketOf(s)
             type == p.pkt.mhdr
  <1>2. type \div 32 \notin {3, 5}
    <2>1. 64 \div 32 \notin {3, 5} /\ 128 \div 32 \notin {3, 5}
      OBVIOUS
    <2>2. QED
      BY <1>1, <2>1
  <1> HIDE DEF p
  <1>3. ParseDownPacket(Own, p) = [error |-> TRUE]
    BY <1>2, Zenon DEF ParseDownPacket
  <1>4. QED
    BY <1>3 DEF p

(* A packet of 5 bytes is too short. *)
LEMMA ShortIsAnError == ParseDownPacket(Own, PacketOf([kind |-> "short"])).error
  <1>1. PacketOf([kind |-> "short"]).length = 5
    BY DEF PacketOf
  <1> DEFINE p == PacketOf([kind |-> "short"])
  <1>2. p.length < 12
    BY <1>1
  <1> HIDE DEF p
  <1>3. ParseDownPacket(Own, p) = [error |-> TRUE]
    BY <1>2, Zenon DEF ParseDownPacket
  <1>4. QED
    BY <1>3 DEF p

(* A packet of the network. *)
ReadBack(s, r) ==
  /\ ~r.error /\ (r.micVerified <=> s.lwp = Own)
  /\ r.fopts = FlattenSeq(s.fopts)
  /\ s.lwp = Own =>
       /\ r.devAddr = Reverse(<<38, 12, 167, 159>>)
       /\ r.payload = Plain(s.payload)
       /\ r.fport = (IF s.payload = <<>> THEN <<>> ELSE <<s.fport>>)
       /\ r.fcnt = s.fcnt
       /\ (r.confirmed <=> s.kind = "confirmedDown")
       /\ (r.ack <=> s.kind = "ack of the network")
  /\ s.lwp = Other => r.payload = <<>>

(* A packet of the network for a device is read as it was sent. *)
LEMMA DownIsReadBack ==
  ASSUME NEW s, FrameKind(s), s.kind \in DownKinds
  PROVE  ReadBack(s, ParseDownPacket(Own, PacketOf(s)))
  <1> DEFINE type == FrameType(s.kind)
             fctrl == FrameControl(s.kind)
             fopts == FlattenSeq(s.fopts)
             payload == s.payload
             lwp == s.lwp
             fcnt == s.fcnt
             r == ParseDownPacket(Own, PacketOf(s))
  <1>1. /\ type \in {96, 160} /\ (type = 160 <=> s.kind = "confirmedDown")
        /\ fctrl \in {0, 32} /\ (fctrl = 32 <=> s.kind = "ack of the network")
    <2>1. \A k : FrameType(k) \in {96, 160} /\ (FrameType(k) = 160 <=> k = "confirmedDown")
      BY SMT DEF FrameType
    <2>2. ASSUME NEW k
          PROVE  FrameControl(k) \in {0, 32} /\ (FrameControl(k) = 32 <=> k = "ack of the network")
      <3>1. k = "ack of the network" => FrameControl(k) = 32
        BY Zenon DEF FrameControl
      <3>2. k # "ack of the network" => FrameControl(k) = 0
        BY Zenon DEF FrameControl
      <3>3. 32 # 0
        OBVIOUS
      <3>4. QED
        BY <3>1, <3>2, <3>3, Zenon
    <2>3. QED
      BY <2>1, <2>2, ZenonT(60)
  <1>2. IsBytes(payload) /\ IsBytes(fopts) /\ Len(fopts) <= 15 /\ fcnt \in Word
    BY FrameBytes DEF FrameKind
  <1>3. r = ParseDownPacket(Own, Made(lwp, payload, type, fctrl, fcnt, fopts))
    BY PacketIsMade
  <1>4. (lwp = Own \/ lwp = Other) /\ s.fport = 1
    BY DEF FrameKind
  <1> HIDE DEF type, fctrl, fopts, payload, lwp, fcnt, r
  <1>5. Parsed(lwp, payload, type, fctrl, fcnt, fopts, r)
    <2>1. MakesSense(payload, type, fctrl, fcnt, fopts)
      BY <1>1, <1>2 DEF MakesSense
    <2>2. QED
      BY <1>3, <2>1, MadeIsParsed
  <1>6. /\ ~r.error
        /\ (r.micVerified <=> Own.nwkKey = lwp.nwkKey)
        /\ r.devAddr = lwp.devAddr
        /\ r.fcnt = fcnt /\ r.fopts = fopts
        /\ (r.confirmed <=> type = 160)
        /\ (r.ack <=> fctrl = 32)
        /\ (lwp = Own => r.payload = Plain(payload))
        /\ (lwp = Own => r.fport = IF payload = <<>> THEN <<>> ELSE <<1>>)
        /\ (lwp.nwkKey # Own.nwkKey => r.payload = <<>>)
    BY <1>5 DEF Parsed
  <1>7. /\ ~r.error /\ (r.micVerified <=> lwp = Own) /\ r.fopts = fopts
        /\ lwp = Other => r.payload = <<>>
    BY <1>4, <1>6, OwnAndOther
  <1>8. ASSUME lwp = Own
        PROVE  /\ r.devAddr = Reverse(<<38, 12, 167, 159>>)
               /\ r.payload = Plain(payload)
               /\ r.fport = (IF payload = <<>> THEN <<>> ELSE <<s.fport>>)
               /\ r.fcnt = fcnt
               /\ (r.confirmed <=> s.kind = "confirmedDown")
               /\ (r.ack <=> s.kind = "ack of the network")
    BY <1>1, <1>4, <1>6, <1>8, OwnAndOther, ZenonT(60)
  <1>9. QED
    BY <1>7, <1>8, Zenon DEF ReadBack, fopts, payload, lwp, fcnt, r

(* DecodedAsSent, of one packet. *)
ToldRight(s, r) ==
  CASE s.kind \in DownKinds /\ s.lwp = Own ->
         /\ ~r.error /\ r.micVerified
         /\ r.devAddr = Reverse(<<38, 12, 167, 159>>)
         /\ r.payload = Plain(s.payload)
         /\ s.payload # <<>> => r.fport = <<s.fport>>
         /\ r.fcnt = s.fcnt /\ r.fopts = FlattenSeq(s.fopts)
         /\ r.confirmed <=> s.kind = "confirmedDown"
         /\ r.ack <=> s.kind = "ack of the network"
    [] s.kind \in DownKinds /\ s.lwp = Other ->
         ~r.error /\ ~r.micVerified /\ r.payload = <<>>
    [] s.kind \in UpKinds \cup {"short"} -> r.error
    [] s.kind = "beacon" ->
         /\ ~r.error /\ r.time_crc = s.timeCrc /\ r.info_crc = s.infoCrc
         /\ r.time = GpsEpoch - LeapSeconds + s.time
         /\ r.lat = s.lat /\ r.lon = s.lon

(* MacCommandsRead, of one packet. *)
CommandsRight(s, r) ==
  s.kind \in DownKinds /\ s.lwp = Own =>
    LET commands == s.fopts
        found == FoptsDecode(r.fopts) IN
    /\ \A j \in 1..Len(commands) :
         (\A k \in 1..(j - 1) : commands[k][1] # 8)
           => j <= Len(found.mac) /\ found.mac[j].cid = commands[j][1]
    /\ (\A k \in 1..(Len(commands) - 1) : commands[k][1] # 8)
         => ~found.error /\ Len(found.mac) = Len(commands)

(* No packet is of two kinds. *)
LEMMA KindsDiffer ==
  /\ \A kind \in DownKinds : kind \notin UpKinds \cup {"short"} /\ kind # "beacon"
  /\ \A kind \in UpKinds \cup {"short"} : kind # "beacon"
  BY DEF DownKinds, UpKinds

(* Whatever packet is on the air, it is decoded as what was sent. *)
LEMMA FrameIsRight ==
  ASSUME NEW s \in Frames PROVE ToldRight(s, ParseDownPacket(Own, PacketOf(s)))
  <1> DEFINE r == ParseDownPacket(Own, PacketOf(s))
  <1>1. CASE s = [kind |-> "short"]
    <2>1. s.kind = "short" /\ r.error
      BY <1>1, ShortIsAnError
    <2>2. s.kind \in UpKinds \cup {"short"} /\ s.kind \notin DownKinds /\ s.kind # "beacon"
      BY <2>1, KindsDiffer
    <2> HIDE DEF r
    <2>3. ToldRight(s, r)
      BY <2>1, <2>2, Zenon DEF ToldRight
    <2>4. QED
      BY <2>3 DEF r
  <1>2. CASE FrameKind(s) /\ s.kind \in UpKinds
    <2>1. r.error
      BY <1>2, UpIsAnError
    <2>2. s.kind \in UpKinds \cup {"short"} /\ s.kind \notin DownKinds /\ s.kind # "beacon"
      BY <1>2, KindsDiffer
    <2> HIDE DEF r
    <2>3. ToldRight(s, r)
      BY <2>1, <2>2, Zenon DEF ToldRight
    <2>4. QED
      BY <2>3 DEF r
  <1>3. CASE FrameKind(s) /\ s.kind \in DownKinds
    <2>1. ReadBack(s, r)
      BY <1>3, DownIsReadBack
    <2>2. s.kind \notin UpKinds \cup {"short"} /\ s.kind # "beacon"
      BY <1>3, KindsDiffer
    <2> HIDE DEF r
    <2>3. CASE s.lwp = Own
      <3>1. ToldRight(s, r)
        BY <1>3, <2>1, <2>2, <2>3, OwnAndOther, Zenon DEF ToldRight, ReadBack
      <3>2. QED
        BY <3>1 DEF r
    <2>4. CASE s.lwp = Other
      <3>1. ToldRight(s, r)
        BY <1>3, <2>1, <2>2, <2>4, OwnAndOther, Zenon DEF ToldRight, ReadBack
      <3>2. QED
        BY <3>1 DEF r
    <2>5. QED
      BY <1>3, <2>3, <2>4 DEF FrameKind
  <1>4. QED
    BY <1>1, <1>2, <1>3, FramesAreOfAKind DEF FrameKind

(* ... and its MAC commands are found. *)
LEMMA FrameCommandsAreRight ==
  ASSUME NEW s \in Frames PROVE CommandsRight(s, ParseDownPacket(Own, PacketOf(s)))
  <1> SUFFICES ASSUME s.kind \in DownKinds, s.lwp = Own
               PROVE  CommandsRight(s, ParseDownPacket(Own, PacketOf(s)))
    BY Zenon DEF CommandsRight
  <1> DEFINE r == ParseDownPacket(Own, PacketOf(s))
             commands == s.fopts
             flat == FlattenSeq(commands)
             found == FoptsDecode(flat)
             n == Len(commands)
  <1>1. FrameKind(s)
    <2>1. s # [kind |-> "short"]
      <3>1. [kind |-> "short"].kind = "short" /\ "short" \notin DownKinds
        BY DEF DownKinds
      <3>2. QED
        BY <3>1
    <2>2. QED
      BY <2>1, FramesAreOfAKind
  <1>2. r.fopts = flat
    BY <1>1, DownIsReadBack DEF ReadBack
  <1>3. commands \in FOpts \cup {<<>>}
    BY <1>1 DEF FrameKind
  <1> HIDE DEF commands
  <1>4. n \in Nat /\ FoundFrom(flat, commands, 1, found)
    BY <1>3, CommandsAreFound
  <1> HIDE DEF found, n, r
  <1>5. /\ \A k \in 1..(n + 1 - 1) :
             NoneBefore(commands, 1, (1 - 1) + k)
               => k <= Len(found.mac) /\ found.mac[k].cid = commands[(1 - 1) + k][1]
        /\ NoneBefore(commands, 1, n) => ~found.error /\ Len(found.mac) = n + 1 - 1
    BY <1>4 DEF FoundFrom, n
  <1>6. (\A k \in 1..(n - 1) : commands[k][1] # 8) => ~found.error /\ Len(found.mac) = n
    BY <1>4, <1>5 DEF NoneBefore
  <1>7. ASSUME NEW j \in 1..n, \A k \in 1..(j - 1) : commands[k][1] # 8
        PROVE  j <= Len(found.mac) /\ found.mac[j].cid = commands[j][1]
    <2>1. (1 - 1) + j = j /\ j \in 1..(n + 1 - 1)
      BY <1>4
    <2>2. NoneBefore(commands, 1, j)
      BY <1>7 DEF NoneBefore
    <2>3. QED
      BY <1>5, <2>1, <2>2
  <1>8. CommandsRight(s, r)
    BY <1>2, <1>6, <1>7, Zenon DEF CommandsRight, found, n, commands
  <1>9. QED
    BY <1>8 DEF r

(* A number of 24 bits and a sign comes back. *)
LEMMA SignComesBack ==
  ASSUME NEW n \in Signed24
  PROVE  FromTwosComplement(n % (2 ^ 24), 3) = n
  <1> DEFINE half == 2 ^ 23
             size == 2 ^ 24
             u == n % size
             v == FromTwosComplement(u, 3)
  <1>1. half \in Nat /\ half > 0
    BY SMT
  <1>2. size = 2 * half /\ 2 ^ (8 * 3) = size /\ size \div 2 = half
    BY SMT
  <1>3. n \in Int /\ -half <= n /\ n < half
    <2>1. n \in -half..(half - 1)
      BY Zenon DEF Signed24
    <2> HIDE DEF half
    <2>2. QED
      BY <1>1, <2>1, SMT
  <1>4. v = IF u < 0 \/ u > 2 ^ (8 * 3) - 1 THEN 0
            ELSE IF u <= 2 ^ (8 * 3) \div 2 - 1 THEN u
            ELSE -((2 ^ (8 * 3) - 1 - u) + 1)
    BY Zenon DEF FromTwosComplement
  <1> HIDE DEF half, size, v
  <1>5. u = IF n < 0 THEN n + size ELSE n
    BY <1>1, <1>2, <1>3, SMT
  <1> HIDE DEF u
  <1>6. v = IF u < 0 \/ u > size - 1 THEN 0
            ELSE IF u <= half - 1 THEN u
            ELSE -((size - 1 - u) + 1)
    BY <1>2, <1>4, SMT
  <1>7. v = n
    BY <1>1, <1>2, <1>3, <1>5, <1>6, SMT
  <1>8. QED
    BY <1>7, Zenon DEF v, u, size

(* The three bytes of a number, lowest first. *)
LEMMA ThreeBytes ==
  ASSUME NEW n \in Int
  PROVE  (n % 256) + 256 * ((n \div 256) % 256) + 2 ^ 16 * ((n \div 2 ^ 16) % 256) = n % (2 ^ 24)
  <1> DEFINE a == n % 256
             q == n \div 256
             b == q % 256
             p == q \div 256
             c == p % 256
             o == p \div 256
             m == a + 256 * b + 65536 * c
  <1>1. n = 256 * q + a /\ q \in Int /\ a \in Int /\ 0 <= a /\ a < 256
    BY SMT
  <1>2. (n \div 2 ^ 16) % 256 = c /\ 2 ^ 16 = 65536
    BY SMT
  <1>3. (n % 256) + 256 * ((n \div 256) % 256) + 2 ^ 16 * ((n \div 2 ^ 16) % 256) = m
    BY <1>2, SMT
  <1> HIDE DEF a, q
  <1>4. q = 256 * p + b /\ p \in Int /\ b \in Int /\ 0 <= b /\ b < 256
    BY <1>1, SMT
  <1> HIDE DEF b, p
  <1>5. p = 256 * o + c /\ o \in Int /\ c \in Int /\ 0 <= c /\ c < 256
    BY <1>4, SMT
  <1> HIDE DEF c, o
  <1>6. n = 16777216 * o + m /\ m \in Int /\ 0 <= m /\ m < 16777216
    BY <1>1, <1>4, <1>5, SMT
  <1> HIDE DEF m
  <1>7. n % 16777216 = m
    BY <1>5, <1>6, SMT
  <1>8. QED
    BY <1>3, <1>7, SMT

(* A time of four bytes. *)
LEMMA FourBytes ==
  ASSUME NEW n \in Int
  PROVE  (n % (2 ^ 24)) + 2 ^ 24 * (n \div 2 ^ 24) = n
  BY SMT

(* The elements of a concatenation again, in one formula. *)
Follows(n, s, m, t, r) ==
  /\ IsSeqOver(n + m, r)
  /\ \A k \in 1..n : r[k] = s[k]
  /\ \A k \in 1..m : r[n + k] = t[k]

LEMMA JoinedFollows ==
  ASSUME NEW n, NEW s, NEW m, NEW t, NEW r, Behind(n, s, m, t, r)
  PROVE  Follows(n, s, m, t, r)
  BY JoinedOver DEF Follows

(* The parts of a beacon: nine bytes, a CRC, ten bytes, another CRC. *)
Parts(head, c, gw, d, b) ==
  /\ IsSeqOver(9, head) /\ IsSeqOver(2, c) /\ IsSeqOver(10, gw) /\ IsSeqOver(2, d)
  /\ b = ((head \o c) \o gw) \o d

LEMMA PartsOfBeacon ==
  ASSUME NEW head, NEW c, NEW gw, NEW d, NEW b, Parts(head, c, gw, d, b)
  PROVE  /\ IsSeqOver(23, b)
         /\ SubSeq(b, 1, 9) = head /\ SubSeq(b, 10, 11) = c
         /\ SubSeq(b, 12, 21) = gw /\ SubSeq(b, 22, 23) = d
         /\ \A k \in 1..9 : b[k] = head[k]
         /\ \A k \in 1..10 : b[11 + k] = gw[k]
  <1> DEFINE hc == head \o c
             hcg == hc \o gw
  <1>1. /\ IsSeqOver(9, head) /\ IsSeqOver(2, c) /\ IsSeqOver(10, gw) /\ IsSeqOver(2, d)
        /\ b = hcg \o d
    BY DEF Parts
  <1>2. /\ IsSeqOver(9 + 2, hc)
        /\ \A k \in 1..9 : hc[k] = head[k]
        /\ \A k \in 1..2 : hc[9 + k] = c[k]
    <2>1. Behind(9, head, 2, c, hc)
      BY <1>1 DEF Behind
    <2> HIDE DEF hc
    <2>2. Follows(9, head, 2, c, hc)
      BY <2>1, JoinedFollows
    <2>3. QED
      BY <2>2, Zenon DEF Follows
  <1> HIDE DEF hc
  <1>3. /\ IsSeqOver(11 + 10, hcg)
        /\ \A k \in 1..11 : hcg[k] = hc[k]
        /\ \A k \in 1..10 : hcg[11 + k] = gw[k]
    <2>1. 9 + 2 = 11
      OBVIOUS
    <2>2. Behind(11, hc, 10, gw, hcg)
      BY <1>1, <1>2, <2>1 DEF Behind
    <2> HIDE DEF hcg
    <2>3. Follows(11, hc, 10, gw, hcg)
      BY <2>2, JoinedFollows
    <2>4. QED
      BY <2>3, Zenon DEF Follows
  <1> HIDE DEF hcg
  <1>4. /\ IsSeqOver(21 + 2, b)
        /\ \A k \in 1..21 : b[k] = hcg[k]
        /\ \A k \in 1..2 : b[21 + k] = d[k]
    <2>1. 11 + 10 = 21
      OBVIOUS
    <2>2. Behind(21, hcg, 2, d, b)
      BY <1>1, <1>3, <2>1 DEF Behind
    <2>3. Follows(21, hcg, 2, d, b)
      BY <2>2, JoinedFollows
    <2>4. QED
      BY <2>3, Zenon DEF Follows
  <1>5. IsSeqOver(23, b)
    <2>1. 21 + 2 = 23
      OBVIOUS
    <2>2. QED
      BY <1>4, <2>1
  <1>6. \A k \in 1..9 : b[k] = head[k]
    BY <1>2, <1>3, <1>4
  <1>7. \A k \in 1..2 : b[9 + k] = c[k]
    BY <1>2, <1>3, <1>4
  <1>8. \A k \in 1..10 : b[11 + k] = gw[k]
    BY <1>3, <1>4
  <1>9. SubSeq(b, 1, 9) = head
    <2>1. SubSeq(b, 1, 9) = [k \in 1..9 |-> b[1 + k - 1]]
      BY <1>5, SubSeqOver
    <2>2. \A k \in 1..9 : b[1 + k - 1] = head[k]
      BY <1>6
    <2>3. head = [k \in 1..9 |-> head[k]]
      BY <1>1 DEF IsSeqOver
    <2>4. QED
      BY <2>1, <2>2, <2>3
  <1>10. SubSeq(b, 10, 11) = c
    <2>1. SubSeq(b, 10, 11) = [k \in 1..2 |-> b[10 + k - 1]]
      BY <1>5, SubSeqOver
    <2>2. \A k \in 1..2 : b[10 + k - 1] = c[k]
      BY <1>7
    <2>3. c = [k \in 1..2 |-> c[k]]
      BY <1>1 DEF IsSeqOver
    <2>4. QED
      BY <2>1, <2>2, <2>3
  <1>11. SubSeq(b, 12, 21) = gw
    <2>1. SubSeq(b, 12, 21) = [k \in 1..10 |-> b[12 + k - 1]]
      BY <1>5, SubSeqOver
    <2>2. \A k \in 1..10 : b[12 + k - 1] = gw[k]
      BY <1>8
    <2>3. gw = [k \in 1..10 |-> gw[k]]
      BY <1>1 DEF IsSeqOver
    <2>4. QED
      BY <2>1, <2>2, <2>3
  <1>12. SubSeq(b, 22, 23) = d
    <2>1. SubSeq(b, 22, 23) = [k \in 1..2 |-> b[22 + k - 1]]
      BY <1>5, SubSeqOver
    <2>2. \A k \in 1..2 : b[22 + k - 1] = d[k]
      BY <1>4
    <2>3. d = [k \in 1..2 |-> d[k]]
      BY <1>1 DEF IsSeqOver
    <2>4. QED
      BY <2>1, <2>2, <2>3
  <1>13. QED
    BY <1>5, <1>6, <1>8, <1>9, <1>10, <1>11, <1>12

(* What is read at a place of a sequence. *)
Holds24(b, a, n) ==
  /\ IsSeqOver(23, b) /\ a \in 1..21 /\ n \in Int
  /\ b[a] = n % 256 /\ b[a + 1] = (n \div 256) % 256 /\ b[a + 2] = (n \div 2 ^ 16) % 256

LEMMA ReadAt ==
  ASSUME NEW b, NEW a, NEW n, Holds24(b, a, n)
  PROVE  LittleEndian24(SubSeq(b, a, a + 2)) = n % (2 ^ 24)
  <1>0. /\ IsSeqOver(23, b) /\ a \in 1..21 /\ n \in Int
        /\ b[a] = n % 256 /\ b[a + 1] = (n \div 256) % 256
        /\ b[a + 2] = (n \div 2 ^ 16) % 256
    BY Zenon DEF Holds24
  <1>1. SubSeq(b, a, a + 2) = [k \in 1..((a + 2) + 1 - a) |-> b[a + k - 1]]
    BY <1>0, SubSeqOver
  <1>2. (a + 2) + 1 - a = 3 /\ a + 1 - 1 = a /\ a + 2 - 1 = a + 1 /\ a + 3 - 1 = a + 2
    BY <1>0
  <1> DEFINE s == SubSeq(b, a, a + 2)
  <1>3. s[1] = n % 256 /\ s[2] = (n \div 256) % 256 /\ s[3] = (n \div 2 ^ 16) % 256
    BY <1>0, <1>1, <1>2
  <1> HIDE DEF s
  <1>4. s[1] + 256 * s[2] + 2 ^ 16 * s[3] = n % (2 ^ 24)
    BY <1>0, <1>3, ThreeBytes
  <1>5. QED
    BY <1>4, Zenon DEF LittleEndian24, s

(* A CRC is that of its bytes or not. *)
IsCrc(c, bytes, right) == IsSeqOver(2, c) /\ (c = Crc16(bytes)) = right

LEMMA CrcIsChecked ==
  ASSUME NEW bytes, bytes # <<>>, NEW right \in BOOLEAN
  PROVE  IsCrc(CrcOf(bytes, right), bytes, right)
  <1>1. \A x : IsSeqOver(2, Crc16(x)) /\ Crc16(x)[1].crc16 = x
    BY DEF IsSeqOver, Crc16
  <1>2. Crc16(<<>>) # Crc16(bytes)
    BY <1>1
  <1>3. CASE right
    BY <1>1, <1>3 DEF CrcOf, IsCrc
  <1>4. CASE ~right
    BY <1>1, <1>2, <1>4 DEF CrcOf, IsCrc
  <1>5. QED
    BY <1>3, <1>4

(* A beacon of some period and place. *)
IsBeacon(s) ==
  \E per \in 0..7, place \in Byte \X Signed24 \X Signed24, timeCrc \in BOOLEAN,
     infoCrc \in BOOLEAN : s = Beacon(per, place, timeCrc, infoCrc)

(* A beacon is decoded as what was sent (beaconDecode). *)
LEMMA BeaconIsRight ==
  ASSUME NEW s, IsBeacon(s)
  PROVE  LET r == BeaconDecode(PacketOf(s)) IN ToldRight(s, r) /\ CommandsRight(s, r)
  <1>1. /\ s.kind = "beacon" /\ s.time \in Int /\ s.lat \in Signed24 /\ s.lon \in Signed24
        /\ s.timeCrc \in BOOLEAN /\ s.infoCrc \in BOOLEAN
    <2>1. PICK per \in 0..7, place \in Byte \X Signed24 \X Signed24,
                timeCrc \in BOOLEAN, infoCrc \in BOOLEAN : s = Beacon(per, place, timeCrc, infoCrc)
      BY Zenon DEF IsBeacon
    <2>2. place[2] \in Signed24 /\ place[3] \in Signed24
      OBVIOUS
    <2>3. /\ s.kind = "beacon" /\ s.time = Era + 128 * per /\ s.lat = place[2]
          /\ s.lon = place[3] /\ s.timeCrc = timeCrc /\ s.infoCrc = infoCrc
      BY <2>1, Zenon DEF Beacon
    <2>4. Era + 128 * per \in Int
      BY EraAssumption
    <2>5. QED
      BY <2>2, <2>3, <2>4, Zenon
  <1>2. s.lat \in Int /\ s.lon \in Int
    BY <1>1, SMT DEF Signed24
  <1> DEFINE zeros == [k \in 1..5 |-> 0]
             head == zeros \o Bytes24(s.time) \o <<s.time \div 2 ^ 24>>
             gw == <<s.info>> \o Bytes24(s.lat) \o Bytes24(s.lon) \o <<0, 0, 0>>
             c == CrcOf(head, s.timeCrc)
             d == CrcOf(gw, s.infoCrc)
             b == head \o c \o gw \o d
             p == PacketOf(s)
             r == BeaconDecode(p)
  <1>3. p = [length |-> 23, bytes |-> b]
    BY <1>1, Zenon DEF PacketOf, BeaconPacket
  <1>4. /\ IsSeqOver(9, head) /\ head # <<>>
        /\ head[6] = s.time % 256 /\ head[6 + 1] = (s.time \div 256) % 256
        /\ head[6 + 2] = (s.time \div 2 ^ 16) % 256 /\ head[9] = s.time \div 2 ^ 24
    BY DEF IsSeqOver, Bytes24
  <1>5. /\ IsSeqOver(10, gw) /\ gw # <<>>
        /\ gw[2] = s.lat % 256 /\ gw[3] = (s.lat \div 256) % 256
        /\ gw[4] = (s.lat \div 2 ^ 16) % 256
        /\ gw[5] = s.lon % 256 /\ gw[6] = (s.lon \div 256) % 256
        /\ gw[7] = (s.lon \div 2 ^ 16) % 256
    BY DEF IsSeqOver, Bytes24
  <1> HIDE DEF zeros, head, gw, p
  <1>6. /\ IsSeqOver(2, c) /\ (c = Crc16(head)) = s.timeCrc
        /\ IsSeqOver(2, d) /\ (d = Crc16(gw)) = s.infoCrc
    <2>1. IsCrc(CrcOf(head, s.timeCrc), head, s.timeCrc)
      BY <1>1, <1>4, CrcIsChecked, Zenon
    <2>2. IsCrc(CrcOf(gw, s.infoCrc), gw, s.infoCrc)
      BY <1>1, <1>5, CrcIsChecked, Zenon
    <2>3. QED
      BY <2>1, <2>2, Zenon DEF IsCrc
  <1> HIDE DEF c, d
  <1>7. Parts(head, c, gw, d, b)
    BY <1>4, <1>5, <1>6 DEF Parts
  <1> HIDE DEF b
  <1>8. /\ IsSeqOver(23, b)
        /\ SubSeq(b, 1, 9) = head /\ SubSeq(b, 10, 11) = c
        /\ SubSeq(b, 12, 21) = gw /\ SubSeq(b, 22, 23) = d
        /\ \A k \in 1..9 : b[k] = head[k]
        /\ \A k \in 1..10 : b[11 + k] = gw[k]
    BY <1>7, PartsOfBeacon
  <1>9. LittleEndian24(SubSeq(b, 6, 8)) = s.time % (2 ^ 24) /\ b[9] = s.time \div 2 ^ 24
    <2>1. b[6] = head[6] /\ b[6 + 1] = head[6 + 1] /\ b[6 + 2] = head[6 + 2] /\ b[9] = head[9]
      BY <1>8
    <2>a. /\ 6 \in 1..21 /\ b[6] = s.time % 256 /\ b[6 + 1] = (s.time \div 256) % 256
          /\ b[6 + 2] = (s.time \div 2 ^ 16) % 256
      BY <1>4, <2>1
    <2>b. Holds24(b, 6, s.time)
      BY <1>1, <1>8, <2>a, Zenon DEF Holds24
    <2>2. LittleEndian24(SubSeq(b, 6, 6 + 2)) = s.time % (2 ^ 24)
      BY <2>b, ReadAt, Zenon
    <2>3. 6 + 2 = 8
      OBVIOUS
    <2>4. QED
      BY <1>4, <2>1, <2>2, <2>3, Zenon
  <1>10. LittleEndian24(SubSeq(b, 13, 15)) = s.lat % (2 ^ 24)
    <2>1. b[13] = gw[2] /\ b[13 + 1] = gw[3] /\ b[13 + 2] = gw[4]
      BY <1>8
    <2>a. /\ 13 \in 1..21 /\ b[13] = s.lat % 256 /\ b[13 + 1] = (s.lat \div 256) % 256
          /\ b[13 + 2] = (s.lat \div 2 ^ 16) % 256
      BY <1>5, <2>1
    <2>b. Holds24(b, 13, s.lat)
      BY <1>2, <1>8, <2>a, Zenon DEF Holds24
    <2>2. LittleEndian24(SubSeq(b, 13, 13 + 2)) = s.lat % (2 ^ 24)
      BY <2>b, ReadAt, Zenon
    <2>3. 13 + 2 = 15
      OBVIOUS
    <2>4. QED
      BY <2>2, <2>3, Zenon
  <1>11. LittleEndian24(SubSeq(b, 16, 18)) = s.lon % (2 ^ 24)
    <2>1. b[16] = gw[5] /\ b[16 + 1] = gw[6] /\ b[16 + 2] = gw[7]
      BY <1>8
    <2>a. /\ 16 \in 1..21 /\ b[16] = s.lon % 256 /\ b[16 + 1] = (s.lon \div 256) % 256
          /\ b[16 + 2] = (s.lon \div 2 ^ 16) % 256
      BY <1>5, <2>1
    <2>b. Holds24(b, 16, s.lon)
      BY <1>2, <1>8, <2>a, Zenon DEF Holds24
    <2>2. LittleEndian24(SubSeq(b, 16, 16 + 2)) = s.lon % (2 ^ 24)
      BY <2>b, ReadAt, Zenon
    <2>3. 16 + 2 = 18
      OBVIOUS
    <2>4. QED
      BY <2>2, <2>3, Zenon
  <1> DEFINE tm == LittleEndian24(SubSeq(b, 6, 8)) + 2 ^ 24 * b[9]
  <1>12. tm = s.time
    <2>1. tm = (s.time % (2 ^ 24)) + 2 ^ 24 * (s.time \div 2 ^ 24)
      BY <1>9, Zenon
    <2>2. (s.time % (2 ^ 24)) + 2 ^ 24 * (s.time \div 2 ^ 24) = s.time
      BY <1>1, FourBytes, Zenon
    <2>3. QED
      BY <2>1, <2>2, Zenon
  <1>13. /\ ~r.error /\ r.time = GpsEpoch + tm - GpsEpochOffset
         /\ r.time_crc = (SubSeq(b, 10, 11) = Crc16(SubSeq(b, 1, 9)))
         /\ r.info_crc = (SubSeq(b, 22, 23) = Crc16(SubSeq(b, 12, 21)))
         /\ r.lat = FromTwosComplement(LittleEndian24(SubSeq(b, 13, 15)), 3)
         /\ r.lon = FromTwosComplement(LittleEndian24(SubSeq(b, 16, 18)), 3)
    <2>1. p.length = 23 /\ p.bytes = b
      BY <1>3, Zenon
    <2>2. QED
      BY <2>1, Zenon DEF BeaconDecode
  <1> HIDE DEF r, tm
  <1>14. r.time = GpsEpoch - LeapSeconds + s.time
    <2> DEFINE time == s.time
               epoch == GpsEpoch
    <2>1. time \in Int /\ epoch \in Int
      BY <1>1, SMT DEF GpsEpoch
    <2> HIDE DEF time, epoch
    <2>2. epoch + time - 18 = epoch - 18 + time
      BY <2>1, SMT
    <2>3. QED
      BY <1>12, <1>13, <2>2, Zenon DEF time, epoch, GpsEpochOffset, LeapSeconds
  <1>15. r.time_crc = s.timeCrc /\ r.info_crc = s.infoCrc
    BY <1>6, <1>8, <1>13
  <1>16. r.lat = s.lat /\ r.lon = s.lon
    BY <1>1, <1>10, <1>11, <1>13, SignComesBack, Zenon
  <1>17. s.kind \notin DownKinds /\ s.kind \notin UpKinds \cup {"short"}
    BY <1>1, KindsDiffer, Zenon
  <1>18. ToldRight(s, r) /\ CommandsRight(s, r)
    BY <1>1, <1>13, <1>14, <1>15, <1>16, <1>17, Zenon DEF ToldRight, CommandsRight
  <1>19. QED
    BY <1>18, Zenon DEF r, p

(* A packet that is no beacon is an error there too. *)
LEMMA NoBeaconIsRight ==
  LET s == [kind |-> "short"]
      r == BeaconDecode(PacketOf(s)) IN ToldRight(s, r) /\ CommandsRight(s, r)
  <1> DEFINE s == [kind |-> "short"]
             p == PacketOf(s)
             r == BeaconDecode(p)
  <1>1. p.length = 5
    BY DEF PacketOf
  <1> HIDE DEF p
  <1>2. r.error
    BY <1>1 DEF BeaconDecode
  <1>3. s.kind \in UpKinds \cup {"short"} /\ s.kind \notin DownKinds /\ s.kind # "beacon"
    BY KindsDiffer
  <1> HIDE DEF s, r
  <1>4. ToldRight(s, r) /\ CommandsRight(s, r)
    BY <1>2, <1>3, Zenon DEF ToldRight, CommandsRight
  <1>5. QED
    BY <1>4 DEF r, p, s

-----------------------------------------------------------------------------
(* What the application has made of what it received. *)

(* What comes when the application follows beacons. *)
Listened(s) == IsBeacon(s) \/ s = [kind |-> "short"]

(* What waits, and what the application has made of a packet. *)
Waits(w, m) ==
  \/ m = 0 \/ w = <<>>
  \/ m = 2 /\ \E s \in Frames : w = <<s>>
  \/ m = 1 /\ \E s : Listened(s) /\ w = <<s>>

Reports(t) ==
  \/ t = None
  \/ \E s \in Frames : t = [sent |-> s, as |-> ParseDownPacket(Own, PacketOf(s))]
  \/ \E s : Listened(s) /\ t = [sent |-> s, as |-> BeaconDecode(PacketOf(s))]

(* What waits depends on the mode, and what is told is what was decoded. *)
DInv ==
  /\ Waits(inbox, mode) /\ Reports(told)
  /\ mode # 0 => up = None /\ down = None
  /\ mode \in 0..2 /\ period \in 0..7

(* Nothing waits and nothing has been told at first. *)
LEMMA DInvInit == Init => DInv
  <1> SUFFICES ASSUME Init PROVE DInv
    OBVIOUS
  <1>1. Waits(inbox, mode) /\ Reports(told) /\ up = None /\ down = None
    BY Zenon DEF Init, Waits, Reports
  <1>2. mode \in 0..2
    BY ModesAssumption, Zenon DEF Init
  <1>3. period \in 0..7
    <2>1. period \in (IF mode = 1 THEN 0..7 ELSE {0})
      BY Zenon DEF Init
    <2>2. 0 \in 0..7
      OBVIOUS
    <2>3. QED
      BY <2>1, <2>2, Zenon
  <1>4. QED
    BY <1>1, <1>2, <1>3, Zenon DEF DInv

(* Each step leaves what DInv says of the packets. *)
LEMMA StepIsReported ==
  ASSUME DInv, [Next]_vars
  PROVE  /\ Waits(inbox', mode') /\ Reports(told')
         /\ mode' # 0 => up' = None /\ down' = None
         /\ mode' \in 0..2 /\ period' \in 0..7
  <1>0. Waits(inbox, mode) /\ Reports(told) /\ mode \in 0..2 /\ period \in 0..7
        /\ (mode # 0 => up = None /\ down = None)
    BY DEF DInv
  <1>1. CASE StartScan \/ StartBeacons \/ StartRx2
    BY <1>0, <1>1, Zenon DEF StartScan, StartBeacons, StartRx2, world
  <1>2. CASE Reset
    <2>1. inbox' = <<>> /\ told' = None /\ up' = None /\ down' = None
      BY <1>2 DEF Reset
    <2>2. mode' \in 0..2
      BY <1>2, ModesAssumption DEF Reset
    <2>3. period' \in 0..7
      BY <1>0, <1>2 DEF Reset
    <2>4. QED
      BY <2>1, <2>2, <2>3 DEF Waits, Reports
  <1>3. CASE ScanNext \/ NetworkAnswers \/ AnswerArrives \/ AnswerLost \/ ProcessLora
    <2>1. mode = 0
      BY <1>0, <1>3 DEF ScanNext, NetworkAnswers, AnswerArrives, AnswerLost, ProcessLora
    <2>2. mode' = mode /\ told' = told /\ period' = period
      BY <1>3 DEF ScanNext, NetworkAnswers, AnswerArrives, AnswerLost, ProcessLora, world
    <2>3. QED
      BY <1>0, <2>1, <2>2 DEF Waits
  <1>4. CASE SendBeacon /\ (BeaconHeard \/ BeaconMissed \/ BeaconLost)
    <2>1. /\ mode = 1 /\ inbox = <<>> /\ mode' = mode /\ told' = None /\ up' = up /\ down' = down
          /\ period' = (period + 1) % 8
      BY <1>4 DEF SendBeacon
    <2>2. period' \in 0..7
      BY <1>0, <2>1
    <2>3. Waits(inbox', mode')
      <3>1. CASE BeaconHeard
        <4>1. PICK place \in Places, timeCrc \in BOOLEAN, infoCrc \in BOOLEAN :
                     inbox' = <<Beacon(period', place, timeCrc, infoCrc)>>
          BY <3>1, Zenon DEF BeaconHeard
        <4>2. place \in Byte \X Signed24 \X Signed24
          BY PlacesAssumption, Zenon
        <4>3. Listened(Beacon(period', place, timeCrc, infoCrc))
          BY <2>2, <4>2, Zenon DEF IsBeacon, Listened
        <4>4. QED
          BY <2>1, <4>1, <4>3, Zenon DEF Waits
      <3>2. CASE inbox' = inbox
        BY <2>1, <3>2 DEF Waits
      <3>3. QED
        BY <1>4, <3>1, <3>2 DEF BeaconMissed, BeaconLost
    <2>4. QED
      BY <1>0, <2>1, <2>2, <2>3 DEF Reports
  <1>5. CASE ProcessListen
    <2>1. /\ mode = 1 /\ inbox # <<>> /\ inbox' = <<>> /\ mode' = mode /\ up' = up /\ down' = down
          /\ period' = period
          /\ told' = [sent |-> Head(inbox), as |-> BeaconDecode(PacketOf(Head(inbox)))]
      BY <1>5, Zenon DEF ProcessListen
    <2>2. PICK s : Listened(s) /\ inbox = <<s>>
      BY <1>0, <2>1 DEF Waits
    <2>3. Head(inbox) = s
      BY <2>2
    <2>4. Reports(told') /\ Waits(inbox', mode')
      BY <2>1, <2>2, <2>3, Zenon DEF Reports, Waits
    <2>5. QED
      BY <1>0, <2>1, <2>4
  <1>6. CASE FrameArrives
    <2>1. /\ mode = 2 /\ mode' = mode /\ told' = None /\ up' = up /\ down' = down
          /\ period' = period
      BY <1>6 DEF FrameArrives, world
    <2>2. PICK s \in Frames : inbox' = <<s>>
      BY <1>6, Zenon DEF FrameArrives
    <2>3. Reports(told') /\ Waits(inbox', mode')
      BY <2>1, <2>2, Zenon DEF Reports, Waits
    <2>4. QED
      BY <1>0, <2>1, <2>3
  <1>7. CASE StrayArrives
    <2>1. /\ mode # 2 /\ mode' = mode /\ told' = told /\ up' = up /\ down' = down
          /\ period' = period
      BY <1>7, Zenon DEF StrayArrives, world
    <2>2. Waits(inbox', mode')
      <3>1. CASE mode = 0
        BY <2>1, <3>1, Zenon DEF Waits
      <3>2. CASE mode = 1
        <4>1. Len(inbox) < 1 /\ \E s : Listened(s) /\ inbox' = Append(inbox, s)
          <5>1. PICK s \in {[kind |-> "short"]}
                          \cup {Beacon(0, place, FALSE, FALSE) : place \in Places} :
                       Len(inbox) < 1 /\ inbox' = Append(inbox, s)
            BY <3>2, <1>7, Zenon DEF StrayArrives
          <5>2. ASSUME NEW place \in Places PROVE IsBeacon(Beacon(0, place, FALSE, FALSE))
            <6>1. 0 \in 0..7
              OBVIOUS
            <6>2. QED
              BY <6>1, PlacesAssumption, Zenon DEF IsBeacon
          <5>3. Listened(s)
            BY <5>2, Zenon DEF Listened
          <5>4. QED
            BY <5>1, <5>3, Zenon
        <4>2. inbox = <<>>
          <5>1. ASSUME NEW s PROVE ~(Len(<<s>>) < 1)
            OBVIOUS
          <5>2. mode # 2 /\ mode # 0
            BY <3>2
          <5>3. QED
            BY <1>0, <4>1, <5>1, <5>2, Zenon DEF Waits
        <4>3. PICK s : Listened(s) /\ inbox' = <<s>>
          BY <4>1, <4>2
        <4>4. QED
          BY <2>1, <3>2, <4>3, Zenon DEF Waits
      <3>3. QED
        BY <1>0, <2>1, <3>1, <3>2
    <2>3. QED
      BY <1>0, <2>1, <2>2
  <1>8. CASE ProcessDownlink
    <2>1. /\ mode = 2 /\ inbox # <<>> /\ inbox' = Tail(inbox) /\ mode' = mode /\ up' = up
          /\ down' = down /\ period' = period
          /\ told' = [sent |-> Head(inbox), as |-> ParseDownPacket(Own, PacketOf(Head(inbox)))]
      BY <1>8, Zenon DEF ProcessDownlink, world
    <2>2. PICK s \in Frames : inbox = <<s>>
      BY <1>0, <2>1 DEF Waits
    <2>3. Head(inbox) = s /\ inbox' = <<>>
      BY <2>1, <2>2
    <2>4. Reports(told') /\ Waits(inbox', mode')
      BY <2>1, <2>2, <2>3, Zenon DEF Reports, Waits
    <2>5. QED
      BY <1>0, <2>1, <2>4
  <1>9. CASE UNCHANGED vars
    BY <1>0, <1>9, Zenon DEF vars
  <1>10. QED
    BY <1>1, <1>2, <1>3, <1>4, <1>5, <1>6, <1>7, <1>8, <1>9
       DEF Next, BeaconHeard, BeaconMissed, BeaconLost

(* DInv is inductive. *)
LEMMA DInvStep == DInv /\ [Next]_vars => DInv'
  <1> SUFFICES ASSUME DInv, [Next]_vars PROVE DInv'
    OBVIOUS
  <1>1. /\ Waits(inbox', mode') /\ Reports(told')
        /\ mode' # 0 => up' = None /\ down' = None
        /\ mode' \in 0..2 /\ period' \in 0..7
    BY StepIsReported
  <1>2. QED
    BY <1>1 DEF DInv

(* DInv always holds. *)
LEMMA DInvAlways == Spec => []DInv
  BY DInvInit, DInvStep, PTL DEF Spec

(* What processDownlink and processListen report is what was sent, for any *)
(* payloads, counters, lists of MAC commands that fit into 15 bytes and    *)
(* places of gateways; the MAC commands up to an RXTimingSetupReq.         *)
THEOREM PacketsAreDecoded == Spec => []DecodedAsSent
  <1>1. DInv => DecodedAsSent
    <2> SUFFICES ASSUME DInv, told # None PROVE DecodedAsSent
      BY Zenon DEF DecodedAsSent, MacCommandsRead
    <2>1. ToldRight(told.sent, told.as) /\ CommandsRight(told.sent, told.as)
      <3>1. CASE \E s \in Frames : told = [sent |-> s, as |-> ParseDownPacket(Own, PacketOf(s))]
        <4>1. PICK s \in Frames : told = [sent |-> s, as |-> ParseDownPacket(Own, PacketOf(s))]
          BY <3>1
        <4>2. told.sent = s /\ told.as = ParseDownPacket(Own, PacketOf(s))
          BY <4>1, Zenon
        <4>3. QED
          BY <4>2, FrameIsRight, FrameCommandsAreRight, Zenon
      <3>2. CASE \E s : Listened(s) /\ told = [sent |-> s, as |-> BeaconDecode(PacketOf(s))]
        <4>1. PICK s : Listened(s) /\ told = [sent |-> s, as |-> BeaconDecode(PacketOf(s))]
          BY <3>2
        <4>2. told.sent = s /\ told.as = BeaconDecode(PacketOf(s))
          BY <4>1, Zenon
        <4>3. QED
          BY <4>1, <4>2, BeaconIsRight, NoBeaconIsRight, Zenon DEF Listened
      <3>3. QED
        BY <3>1, <3>2, Zenon DEF DInv, Reports
    <2>2. QED
      BY <2>1, Zenon DEF DecodedAsSent, MacCommandsRead, ToldRight, CommandsRight
  <1>2. QED
    BY <1>1, DInvAlways, PTL

-----------------------------------------------------------------------------
(***************************************************************************)
(* TimerLib.                                                               *)
(***************************************************************************)
(* Lists of timers. *)
Timers == [id : Ids, left : Int, delay : Delays, interval : BOOLEAN, called : BOOLEAN]

InOrder(s) ==
  \A j, k \in 1..Len(s) : j < k => s[j].left <= s[k].left /\ s[j].id # s[k].id

TimerPlaces == {"loop", "app", "scan", "call", "remove", "install"}

(* A function of the application runs that OnTimer has called. *)
Calling == pc = "call" \/ (pc = "install" /\ caller = "call")

TimerTypes ==
  /\ timers \in Seq(Timers)
  /\ platform \in Nat \cup {Off}
  /\ pc \in TimerPlaces /\ (pc = "install" => caller \in {"loop", "app", "call"})
  /\ i \in Nat /\ i > 0
  /\ slow \in 0..MaxSlow
  /\ jumps \in 0..MaxJumps /\ shift \in Int /\ -jumps <= shift /\ shift <= jumps
  /\ jumps = 0 => ~moved
  /\ expired \in Seq(Ids)

(* What OnTimer has called and not yet removed was due when it began. *)
CalledAreDue ==
  /\ pc = "scan" \/ Calling =>
       \A k \in 1..Len(timers) : timers[k].id \in ToSet(expired) => timers[k].left <= ts
  /\ pc \in {"loop", "app"} \/ (pc = "install" /\ ~Calling) => expired = <<>>

(* The platform's timer is only set for timers that were not. *)
SetForLater ==
  ~moved /\ platform # Off =>
    /\ pc \in {"scan", "call"} => \A k \in 1..Len(timers) : timers[k].left > ts
    /\ pc = "remove" => \A k \in 1..Len(timers) : timers[k].id \notin ToSet(expired)

SetForFirst ==
  ~moved /\ pc # "install" /\ platform # Off =>
    /\ timers # <<>>
    /\ \/ platform = timers[1].left
       \/ platform = 0 /\ timers[1].left < 0

(* A timeout that has been called. *)
Over(t) == t.called /\ ~t.interval

OverAreBehind ==
  jumps = 0 =>
    /\ \A k \in 1..Len(timers) : Over(timers[k]) => timers[k].left <= 0
    /\ pc # "install" /\ platform # Off => \A k \in 1..Len(timers) : ~Over(timers[k])
    /\ pc = "scan" => \A k \in 1..Len(timers) : k >= i => ~Over(timers[k])
    /\ Calling => \A k \in 1..Len(timers) : k > i => ~Over(timers[k])

ListInv ==
  /\ TimerTypes /\ InOrder(timers)
  /\ CalledAreDue /\ SetForLater /\ SetForFirst /\ OverAreBehind

TimerInv == ~confused => ListInv

-----------------------------------------------------------------------------
(* Sequences.                                                              *)

(* An element put behind a list is the last. *)
LEMMA PutBehind ==
  ASSUME NEW B, NEW u \in Seq(B), NEW m \in B
  PROVE  /\ u \o <<m>> \in Seq(B) /\ Len(u \o <<m>>) = Len(u) + 1
         /\ (u \o <<m>>)[Len(u) + 1] = m
         /\ \A k \in 1..Len(u) : (u \o <<m>>)[k] = u[k]
  <1> DEFINE s == u
             q == <<m>>
             w == s \o q
  <1>1. Joined(B, s, q, w)
    BY DEF Joined
  <1>2. Len(q) = 1 /\ q[1] = m
    OBVIOUS
  <1> HIDE DEF s, q, w
  <1>3. /\ w \in Seq(B) /\ Len(w) = Len(s) + Len(q)
        /\ \A k \in 1..Len(s) : w[k] = s[k]
        /\ \A k \in 1..Len(q) : w[Len(s) + k] = q[k]
    BY <1>1, JoinedAt
  <1>4. /\ w \in Seq(B) /\ Len(w) = Len(s) + 1 /\ w[Len(s) + 1] = m
        /\ \A k \in 1..Len(s) : w[k] = s[k]
    BY <1>2, <1>3
  <1>5. QED
    BY <1>4 DEF s, q, w

LEMMA Inserted ==
  ASSUME NEW S, NEW s \in Seq(S), NEW e \in S, NEW p \in 1..(Len(s) + 1)
  PROVE  LET r == InsertAt(s, p, e) IN
         /\ r \in Seq(S) /\ Len(r) = Len(s) + 1
         /\ \A k \in 1..(p - 1) : r[k] = s[k]
         /\ r[p] = e
         /\ \A k \in (p + 1)..(Len(s) + 1) : r[k] = s[k - 1]
  <1> DEFINE a == SubSeq(s, 1, p - 1)
             b == SubSeq(s, p, Len(s))
             c == a \o <<e>>
             r == InsertAt(s, p, e)
  <1>0. Len(s) \in Nat /\ p \in Nat /\ p > 0 /\ p <= Len(s) + 1
    OBVIOUS
  <1>1. /\ a \in Seq(S) /\ Len(a) = p - 1 /\ \A k \in 1..(p - 1) : a[k] = s[k]
        /\ b \in Seq(S) /\ Len(b) = Len(s) - p + 1
        /\ \A k \in 1..(Len(s) - p + 1) : b[k] = s[p + k - 1]
    OBVIOUS
  <1>2. r = c \o b
    BY DEF InsertAt
  <1> HIDE DEF a, b, r
  <1>3. /\ c \in Seq(S) /\ Len(c) = p /\ c[p] = e /\ \A k \in 1..(p - 1) : c[k] = s[k]
    <2>1. /\ c \in Seq(S) /\ Len(c) = Len(a) + 1 /\ c[Len(a) + 1] = e
          /\ \A k \in 1..Len(a) : c[k] = a[k]
      <3> HIDE DEF a
      <3>1. a \in Seq(S) /\ e \in S
        BY <1>1
      <3>2. QED
        BY <3>1, PutBehind
    <2>2. Len(a) + 1 = p
      BY <1>0, <1>1
    <2>3. QED
      BY <1>1, <2>1, <2>2
  <1> HIDE DEF c
  <1>4. /\ r \in Seq(S) /\ Len(r) = Len(s) + 1
        /\ \A k \in 1..p : r[k] = c[k]
        /\ \A k \in (p + 1)..(Len(s) + 1) : r[k] = b[k - p]
    <2>1. /\ r \in Seq(S) /\ Len(r) = p + (Len(s) - p + 1)
          /\ \A k \in 1..(p + (Len(s) - p + 1)) : r[k] = IF k <= p THEN c[k] ELSE b[k - p]
      <3>1. /\ c \o b \in Seq(S) /\ Len(c \o b) = Len(c) + Len(b)
            /\ \A k \in 1..(Len(c) + Len(b)) :
                 (c \o b)[k] = IF k <= Len(c) THEN c[k] ELSE b[k - Len(c)]
        BY <1>1, <1>3, ConcatProperties, ZenonT(60)
      <3>2. Len(c) = p /\ Len(b) = Len(s) - p + 1
        BY <1>1, <1>3
      <3>3. QED
        BY <1>2, <3>1, <3>2
    <2>2. p + (Len(s) - p + 1) = Len(s) + 1
      BY <1>0
    <2>3. QED
      BY <1>0, <2>1, <2>2
  <1>5. \A k \in (p + 1)..(Len(s) + 1) : r[k] = s[k - 1]
    <2>1. ASSUME NEW k \in (p + 1)..(Len(s) + 1) PROVE r[k] = s[k - 1]
      <3>1. k - p \in 1..(Len(s) - p + 1) /\ p + (k - p) - 1 = k - 1
        OBVIOUS
      <3>2. QED
        BY <1>1, <1>4, <3>1
    <2>2. QED
      BY <2>1
  <1>6. r[p] = e /\ \A k \in 1..(p - 1) : r[k] = s[k]
    BY <1>0, <1>3, <1>4
  <1>7. QED
    BY <1>4, <1>5, <1>6 DEF r

LEMMA Removed ==
  ASSUME NEW S, NEW s \in Seq(S), NEW p \in 1..Len(s)
  PROVE  LET r == RemoveAt(s, p) IN
         /\ r \in Seq(S) /\ Len(r) = Len(s) - 1
         /\ \A k \in 1..(p - 1) : r[k] = s[k]
         /\ \A k \in p..(Len(s) - 1) : r[k] = s[k + 1]
  <1> DEFINE a == SubSeq(s, 1, p - 1)
             b == SubSeq(s, p + 1, Len(s))
             r == RemoveAt(s, p)
  <1>1. /\ a \in Seq(S) /\ Len(a) = p - 1 /\ \A k \in 1..(p - 1) : a[k] = s[k]
        /\ b \in Seq(S) /\ Len(b) = Len(s) - p
        /\ \A k \in 1..(Len(s) - p) : b[k] = s[p + k]
    OBVIOUS
  <1>2. r = a \o b
    BY DEF RemoveAt
  <1> HIDE DEF a, b, r
  <1>3. /\ r \in Seq(S) /\ Len(r) = Len(s) - 1
        /\ \A k \in 1..(p - 1) : r[k] = a[k]
        /\ \A k \in p..(Len(s) - 1) : r[k] = b[k - (p - 1)]
    <2>0. Len(s) \in Nat /\ p \in Nat /\ p > 0 /\ p <= Len(s)
      OBVIOUS
    <2>1. /\ r \in Seq(S) /\ Len(r) = (p - 1) + (Len(s) - p)
          /\ \A k \in 1..((p - 1) + (Len(s) - p)) :
               r[k] = IF k <= p - 1 THEN a[k] ELSE b[k - (p - 1)]
      <3>1. /\ a \o b \in Seq(S) /\ Len(a \o b) = Len(a) + Len(b)
            /\ \A k \in 1..(Len(a) + Len(b)) :
                 (a \o b)[k] = IF k <= Len(a) THEN a[k] ELSE b[k - Len(a)]
        BY <1>1, ConcatProperties
      <3>2. Len(a) = p - 1 /\ Len(b) = Len(s) - p
        BY <1>1
      <3>3. QED
        BY <1>2, <3>1, <3>2
    <2>2. (p - 1) + (Len(s) - p) = Len(s) - 1
      BY <2>0
    <2>3. /\ r \in Seq(S) /\ Len(r) = Len(s) - 1
          /\ \A k \in 1..(Len(s) - 1) : r[k] = IF k <= p - 1 THEN a[k] ELSE b[k - (p - 1)]
      BY <2>1, <2>2
    <2>4. \A k \in 1..(p - 1) : k \in 1..(Len(s) - 1) /\ k <= p - 1
      BY <2>0
    <2>5. \A k \in p..(Len(s) - 1) : k \in 1..(Len(s) - 1) /\ ~(k <= p - 1)
      BY <2>0
    <2>6. QED
      BY <2>3, <2>4, <2>5
  <1>4. \A k \in p..(Len(s) - 1) : r[k] = s[k + 1]
    <2>1. ASSUME NEW k \in p..(Len(s) - 1) PROVE r[k] = s[k + 1]
      <3>1. k - (p - 1) \in 1..(Len(s) - p) /\ p + (k - (p - 1)) = k + 1
        OBVIOUS
      <3>2. QED
        BY <1>1, <1>3, <3>1
    <2>2. QED
      BY <2>1
  <1>5. QED
    BY <1>1, <1>3, <1>4 DEF r
-----------------------------------------------------------------------------
(* The list.                                                               *)

LEMMA TimerIsTyped ==
  \A t \in Timers : /\ t.id \in Ids /\ t.left \in Int /\ t.delay \in Delays
                    /\ t.interval \in BOOLEAN /\ t.called \in BOOLEAN
  BY DEF Timers

(* __timersFindIdx *)
LEMMA FoundIdx ==
  ASSUME NEW s \in Seq(Timers), NEW expire \in Int
  PROVE  LET p == FindIdx(s, expire) IN
         /\ p \in 1..(Len(s) + 1)
         /\ \A j \in 1..(p - 1) : s[j].left < expire
         /\ p \in 1..Len(s) => s[p].left >= expire
  <1> DEFINE S == {k \in 1..Len(s) : s[k].left >= expire}
             p == FindIdx(s, expire)
  <1>1. Len(s) \in Nat /\ DOMAIN s = 1..Len(s) /\ \A k \in 1..Len(s) : s[k].left \in Int
    BY TimerIsTyped
  <1>2. CASE S = {}
    <2>1. p = Len(s) + 1
      BY <1>1, <1>2 DEF FindIdx
    <2>2. \A j \in 1..Len(s) : s[j].left < expire
      BY <1>1, <1>2
    <2>3. QED
      BY <1>1, <2>1, <2>2
  <1>3. CASE S # {}
    <2>0. S \in SUBSET Nat
      BY <1>1
    <2>1. PICK n \in S : \A m \in S : n <= m
      <3> HIDE DEF S
      <3>1. QED
        BY <1>3, <2>0, Least
    <2>2. n \in 1..Len(s) /\ s[n].left >= expire /\ \A j \in 1..(n - 1) : s[j].left < expire
      BY <1>1, <2>1
    <2>3. p = CHOOSE k \in 1..Len(s) :
                /\ s[k].left >= expire
                /\ \A j \in 1..(k - 1) : s[j].left < expire
      BY <1>1, <2>2 DEF FindIdx
    <2>4. p \in 1..Len(s) /\ s[p].left >= expire /\ \A j \in 1..(p - 1) : s[j].left < expire
      BY <2>2, <2>3
    <2>5. QED
      BY <1>1, <2>4
  <1>4. QED
    BY <1>2, <1>3

(* __timersFindIdxId *)
LEMMA FoundIdxId ==
  ASSUME NEW s \in Seq(Timers), NEW id, FindIdxId(s, id) # 0
  PROVE  FindIdxId(s, id) \in 1..Len(s) /\ s[FindIdxId(s, id)].id = id
  <1>1. DOMAIN s = 1..Len(s)
    OBVIOUS
  <1>2. id \in IdsOf(s)
    BY DEF FindIdxId
  <1>3. \E k \in 1..Len(s) : s[k].id = id
    BY <1>1, <1>2 DEF IdsOf
  <1>4. QED
    BY <1>1, <1>2, <1>3 DEF FindIdxId

(* A timer is inserted behind those that expire earlier, ... *)
InsertedAt(r, s, t, p) ==
  /\ Len(r) = Len(s) + 1 /\ p \in 1..(Len(s) + 1) /\ r[p] = t
  /\ \A k \in 1..(p - 1) : r[k] = s[k] /\ s[k].left < t.left
  /\ \A k \in (p + 1)..(Len(s) + 1) : r[k] = s[k - 1] /\ s[k - 1].left >= t.left

LEMMA TimerInserted ==
  ASSUME NEW s \in Seq(Timers), InOrder(s), NEW t \in Timers,
         \A k \in 1..Len(s) : s[k].id # t.id
  PROVE  LET r == Insert(s, t) IN
         /\ r \in Seq(Timers) /\ InOrder(r)
         /\ \E p \in 1..(Len(s) + 1) : InsertedAt(r, s, t, p)
  <1> DEFINE p == FindIdx(s, t.left)
             r == Insert(s, t)
  <1>1. t.left \in Int /\ Len(s) \in Nat /\ \A k \in 1..Len(s) : s[k].left \in Int
    BY TimerIsTyped
  <1>2. /\ p \in 1..(Len(s) + 1)
        /\ \A j \in 1..(p - 1) : s[j].left < t.left
        /\ p \in 1..Len(s) => s[p].left >= t.left
    BY <1>1, FoundIdx
  <1>3. r = InsertAt(s, p, t)
    BY DEF Insert
  <1> HIDE DEF p, r
  <1>4. /\ r \in Seq(Timers) /\ Len(r) = Len(s) + 1 /\ r[p] = t
        /\ \A k \in 1..(p - 1) : r[k] = s[k]
        /\ \A k \in (p + 1)..(Len(s) + 1) : r[k] = s[k - 1]
    BY <1>2, <1>3, Inserted, SMTT(60)
  <1>5. \A k \in p..Len(s) : s[k].left >= t.left
    <2>1. ASSUME NEW k \in p..Len(s) PROVE s[k].left >= t.left
      <3>1. p \in 1..Len(s) /\ k \in 1..Len(s) /\ (k = p \/ p < k)
        BY <1>1, <1>2
      <3>2. s[p].left <= s[k].left
        BY <1>1, <3>1 DEF InOrder
      <3>3. QED
        BY <1>1, <1>2, <3>1, <3>2
    <2>2. QED
      BY <2>1
  <1>6. \A k \in (p + 1)..(Len(s) + 1) : k - 1 \in p..Len(s) /\ k - 1 \in 1..Len(s)
    BY <1>1, <1>2
  <1>7. InsertedAt(r, s, t, p)
    BY <1>2, <1>4, <1>5, <1>6 DEF InsertedAt
  <1>8. ASSUME NEW j \in 1..(Len(s) + 1), NEW k \in 1..(Len(s) + 1), j < k
        PROVE  r[j].left <= r[k].left /\ r[j].id # r[k].id
    <2>1. CASE k \in 1..(p - 1)
      <3>1. j \in 1..(p - 1) /\ j \in 1..Len(s) /\ k \in 1..Len(s)
        BY <1>1, <1>2, <1>8, <2>1
      <3>2. QED
        BY <1>4, <1>8, <2>1, <3>1 DEF InOrder
    <2>2. CASE k = p
      <3>1. j \in 1..(p - 1) /\ j \in 1..Len(s)
        BY <1>1, <1>2, <1>8, <2>2
      <3>2. r[j] = s[j] /\ r[k] = t /\ s[j].left < t.left /\ s[j].left \in Int
        BY <1>1, <1>2, <1>4, <2>2, <3>1
      <3>3. QED
        BY <1>1, <3>1, <3>2
    <2>3. CASE k \in (p + 1)..(Len(s) + 1)
      <3>1. /\ r[k] = s[k - 1] /\ k - 1 \in 1..Len(s)
            /\ s[k - 1].left >= t.left /\ s[k - 1].left \in Int
        BY <1>1, <1>4, <1>5, <1>6, <2>3
      <3>2. CASE j \in 1..(p - 1)
        <4>1. j \in 1..Len(s) /\ j < k - 1
          BY <1>1, <1>2, <2>3, <3>2
        <4>2. QED
          BY <1>4, <3>1, <3>2, <4>1 DEF InOrder
      <3>3. CASE j = p
        BY <1>1, <1>4, <3>1, <3>3
      <3>4. CASE j \in (p + 1)..(Len(s) + 1)
        <4>1. r[j] = s[j - 1] /\ j - 1 \in 1..Len(s) /\ j - 1 < k - 1
          BY <1>1, <1>4, <1>6, <1>8, <3>4
        <4>2. QED
          BY <3>1, <4>1 DEF InOrder
      <3>5. QED
        BY <1>1, <1>2, <3>2, <3>3, <3>4
    <2>4. QED
      BY <1>1, <1>2, <2>1, <2>2, <2>3
  <1>9. InOrder(r)
    BY <1>4, <1>8 DEF InOrder
  <1>10. QED
    BY <1>2, <1>4, <1>7, <1>9 DEF r

(* ... and when one is removed the others stay in order. *)
LEMMA TimerRemoved ==
  ASSUME NEW s \in Seq(Timers), InOrder(s), NEW p \in 1..Len(s)
  PROVE  LET r == RemoveAt(s, p) IN
         /\ r \in Seq(Timers) /\ InOrder(r) /\ Len(r) = Len(s) - 1
         /\ \A k \in 1..Len(r) :
              \E j \in 1..Len(s) : (j = k \/ j = k + 1) /\ r[k] = s[j] /\ s[j].id # s[p].id
  <1> DEFINE r == RemoveAt(s, p)
             At(k) == IF k < p THEN k ELSE k + 1
  <1>1. /\ r \in Seq(Timers) /\ Len(r) = Len(s) - 1 /\ Len(s) \in Nat
        /\ \A k \in 1..(p - 1) : r[k] = s[k]
        /\ \A k \in p..(Len(s) - 1) : r[k] = s[k + 1]
    <2>1. Len(s) \in Nat
      OBVIOUS
    <2>2. r \in Seq(Timers) /\ Len(r) = Len(s) - 1
      BY ONLY s \in Seq(Timers), p \in 1..Len(s), Removed
    <2>3. \A k \in 1..(p - 1) : r[k] = s[k]
      BY Removed
    <2>4. \A k \in p..(Len(s) - 1) : r[k] = s[k + 1]
      BY Removed
    <2>5. QED
      BY <2>1, <2>2, <2>3, <2>4
  <1> HIDE DEF r
  <1>2. ASSUME NEW k \in 1..(Len(s) - 1)
        PROVE  At(k) \in 1..Len(s) /\ r[k] = s[At(k)] /\ At(k) # p
    <2>1. CASE k < p
      BY <1>1, <2>1
    <2>2. CASE ~(k < p)
      BY <1>1, <2>2
    <2>3. QED
      BY <2>1, <2>2
  <1>3. \A j, k \in 1..(Len(s) - 1) : j < k => At(j) < At(k)
    BY <1>1
  <1>4. \A k \in 1..(Len(s) - 1) : At(k) = k \/ At(k) = k + 1
    OBVIOUS
  <1> HIDE DEF At
  <1>5. InOrder(r)
    BY <1>1, <1>2, <1>3, SMTT(60) DEF InOrder
  <1>6. ASSUME NEW k \in 1..(Len(s) - 1) PROVE s[At(k)].id # s[p].id
    <2>1. At(k) < p \/ p < At(k)
      BY <1>1, <1>2
    <2>2. QED
      BY <1>2, <2>1 DEF InOrder
  <1>7. QED
    BY <1>1, <1>2, <1>4, <1>5, <1>6 DEF r

(* In r the timers of s have the times f, in the same order. *)
Shifted(s, f, r) ==
  /\ f \in [1..Len(s) -> Int]
  /\ \A j, k \in 1..Len(s) : s[j].left <= s[k].left => f[j] <= f[k]
  /\ r = [k \in 1..Len(s) |-> [s[k] EXCEPT !.left = f[k]]]

(* Times pass for all timers alike. *)
LEMMA TimersShifted ==
  ASSUME NEW s, NEW f, NEW r, s \in Seq(Timers), InOrder(s), Shifted(s, f, r)
  PROVE  /\ r \in Seq(Timers) /\ Len(r) = Len(s) /\ InOrder(r)
         /\ \A k \in 1..Len(s) : /\ r[k].id = s[k].id /\ r[k].left = f[k]
                                 /\ r[k].called = s[k].called /\ r[k].interval = s[k].interval
  <1>1. Len(s) \in Nat /\ \A k \in 1..Len(s) : s[k] \in Timers
    OBVIOUS
  <1>2. ASSUME NEW k \in 1..Len(s)
        PROVE  /\ r[k] \in Timers /\ r[k].id = s[k].id /\ r[k].left = f[k]
               /\ r[k].called = s[k].called /\ r[k].interval = s[k].interval
    <2>1. s[k] \in Timers /\ f[k] \in Int /\ r[k] = [s[k] EXCEPT !.left = f[k]]
      BY <1>1 DEF Shifted
    <2>2. QED
      BY <2>1 DEF Timers
  <1>3. r \in Seq(Timers) /\ Len(r) = Len(s)
    BY <1>1, <1>2 DEF Shifted
  <1>4. InOrder(r)
    BY <1>2, <1>3 DEF InOrder, Shifted
  <1>5. QED
    BY <1>2, <1>3, <1>4
-----------------------------------------------------------------------------
(* The steps.                                                              *)

LEMMA DelaysArePositive == Delays \subseteq Nat /\ 0 \notin Delays
  BY TimerLibAssumption DEF Delays

(* A timer that is set has not been called. *)
LEMMA NewTimerIsTyped ==
  ASSUME NEW id \in Ids, NEW delay \in Delays, NEW interval \in BOOLEAN
  PROVE  LET t == Timer(id, delay, interval) IN
         t \in Timers /\ t.id = id /\ t.left = delay /\ t.interval = interval /\ ~Over(t)
  <1>1. delay \in Int
    BY DelaysArePositive
  <1>2. QED
    BY <1>1 DEF Timer, Timers, Over

LEMMA InTime ==
  ASSUME TimerTypes
  PROVE  /\ ts \in Int /\ (shift = 0 => ts <= 0) /\ ts > Past /\ Past \in Int /\ Past < 0
         /\ timers \in Seq(Timers) /\ Len(timers) \in Nat
         /\ \A k \in 1..Len(timers) : timers[k] \in Timers /\ timers[k].left \in Int
  <1>1. /\ MaxSlow \in Nat /\ slow \in Nat /\ slow <= MaxSlow
        /\ MaxJumps \in Nat /\ shift \in Int /\ shift <= MaxJumps
    BY TimerLibAssumption DEF TimerTypes
  <1>2. timers \in Seq(Timers)
    BY DEF TimerTypes
  <1>3. \A k \in 1..Len(timers) : timers[k] \in Timers
    BY <1>2
  <1>4. QED
    BY <1>1, <1>2, <1>3, TimerIsTyped DEF ts, Past

LEMMA NewIsFree ==
  ASSUME TimerTypes, FreeIds # {}
  PROVE  /\ NextID \in Ids /\ NextID \notin ToSet(expired)
         /\ \A k \in 1..Len(timers) : timers[k].id # NextID
  <1>1. FreeIds \in SUBSET Nat
    BY TimerLibAssumption DEF FreeIds, Ids
  <1>2. \E id \in FreeIds : \A other \in FreeIds : id <= other
    BY <1>1, Least
  <1>3. NextID \in FreeIds
    BY <1>2 DEF NextID
  <1>4. DOMAIN timers = 1..Len(timers)
    BY DEF TimerTypes
  <1>5. QED
    BY <1>3, <1>4 DEF FreeIds, IdsOf

LEMMA TimerInvInit == TimerInit => TimerInv
  <1> SUFFICES ASSUME TimerInit PROVE ListInv
    BY DEF TimerInv
  <1>1. timers = <<>> /\ <<>> \in Seq(Timers) /\ <<>> \in Seq(Ids) /\ Len(<<>>) = 0 /\ 1..0 = {}
    BY DEF TimerInit
  <1>2. TimerTypes
    BY <1>1, TimerLibAssumption DEF TimerInit, TimerTypes, TimerPlaces
  <1>3. InOrder(timers)
    BY <1>1 DEF InOrder
  <1>4. CalledAreDue /\ SetForLater /\ SetForFirst /\ OverAreBehind
    BY <1>1 DEF TimerInit, CalledAreDue, SetForLater, SetForFirst, OverAreBehind
  <1>5. QED
    BY <1>2, <1>3, <1>4 DEF ListInv

LEMMA SetKeeps ==
  ASSUME ListInv, NEW delay \in Delays, NEW interval \in BOOLEAN, SetTimeout(delay, interval)
  PROVE  ListInv'
  <1> DEFINE t == Timer(NextID, delay, interval)
             m == Len(timers)
  <1>1. /\ TimerTypes /\ InOrder(timers) /\ pc \in {"app", "call"} /\ FreeIds # {}
        /\ timers' = Insert(timers, t) /\ pc' = "install" /\ caller' = pc
        /\ UNCHANGED <<platform, i, expired, jumps, shift, slow, moved>>
    BY DEF ListInv, SetTimeout, onTimer, history
  <1>2. /\ NextID \in Ids /\ NextID \notin ToSet(expired)
        /\ \A k \in 1..Len(timers) : timers[k].id # NextID
    BY <1>1, NewIsFree
  <1>3. delay \in Nat /\ delay > 0
    BY DelaysArePositive
  <1>4. t \in Timers /\ t.id = NextID /\ t.left = delay /\ t.called = FALSE
    BY <1>2, <1>3 DEF Timer, Timers
  <1> HIDE DEF t
  <1>5. timers \in Seq(Timers)
    BY <1>1 DEF TimerTypes
  <1>6. /\ timers' \in Seq(Timers) /\ InOrder(timers')
        /\ \E p \in 1..(m + 1) : InsertedAt(timers', timers, t, p)
    BY <1>1, <1>2, <1>4, <1>5, TimerInserted
  <1>7. PICK p \in 1..(m + 1) : InsertedAt(timers', timers, t, p)
    BY <1>6
  <1>8. /\ Len(timers') = m + 1 /\ m \in Nat /\ timers'[p] = t
        /\ \A k \in 1..(p - 1) : timers'[k] = timers[k]
        /\ \A k \in (p + 1)..(m + 1) : timers'[k] = timers[k - 1] /\ timers[k - 1].left >= delay
    BY <1>1, <1>4, <1>7, InTime DEF InsertedAt
  <1>9. ASSUME NEW k \in 1..(m + 1), k # p
        PROVE  \/ k \in 1..m /\ timers'[k] = timers[k]
               \/ k - 1 \in 1..m /\ timers'[k] = timers[k - 1] /\ timers[k - 1].left >= delay
    <2> HIDE DEF m
    <2>0. m \in Nat
      BY <1>8
    <2>1. \/ k \in 1..(p - 1) /\ k \in 1..m
          \/ k \in (p + 1)..(m + 1) /\ k - 1 \in 1..m
      BY <1>9, <2>0
    <2>2. QED
      BY <1>8, <2>1
  <1> HIDE DEF m
  <1>10. TimerTypes'
    BY <1>1, <1>6 DEF TimerTypes, TimerPlaces
  <1>11. CalledAreDue'
    <2>1. ASSUME pc = "call", NEW k \in 1..(m + 1), timers'[k].id \in ToSet(expired)
          PROVE  timers'[k].left <= ts
      <3>1. k # p
        BY <1>2, <1>4, <1>8, <2>1
      <3>2. PICK j \in 1..m : timers'[k] = timers[j]
        BY <1>9, <3>1
      <3>3. QED
        BY <2>1, <3>2 DEF ListInv, CalledAreDue, Calling, m
    <2>2. ts' = ts
      BY <1>1 DEF ts
    <2>3. pc = "app" => expired = <<>>
      BY DEF ListInv, CalledAreDue
    <2>4. QED
      BY <1>1, <1>8, <2>1, <2>2, <2>3 DEF CalledAreDue, Calling
  <1>12. OverAreBehind'
    <2> SUFFICES ASSUME jumps = 0 PROVE OverAreBehind'
      BY <1>1 DEF OverAreBehind
    <2>1. /\ \A k \in 1..m : Over(timers[k]) => timers[k].left <= 0
          /\ pc = "call" => \A k \in 1..m : k > i => ~Over(timers[k])
      BY DEF ListInv, OverAreBehind, Calling, m
    <2>2. ~Over(t)
      BY <1>4 DEF Over
    <2>3. ASSUME NEW k \in 1..(m + 1), Over(timers'[k])
          PROVE  /\ timers'[k].left <= 0
                 /\ pc = "call" => ~(k > i)
      <3>1. k # p
        BY <1>8, <2>2, <2>3
      <3>2. CASE k \in 1..m /\ timers'[k] = timers[k]
        BY <2>1, <2>3, <3>2
      <3>3. CASE k - 1 \in 1..m /\ timers'[k] = timers[k - 1] /\ timers[k - 1].left >= delay
        <4>1. timers[k - 1].left \in Int
          BY <1>1, <3>3, InTime DEF m
        <4>2. timers[k - 1].left <= 0
          BY <2>1, <2>3, <3>3
        <4>3. QED
          BY <1>3, <3>3, <4>1, <4>2
      <3>4. QED
        BY <1>9, <3>1, <3>2, <3>3
    <2>4. QED
      BY <1>1, <1>8, <2>3 DEF OverAreBehind, Calling
  <1>13. SetForLater' /\ SetForFirst'
    BY <1>1 DEF SetForLater, SetForFirst
  <1>14. QED
    BY <1>6, <1>10, <1>11, <1>12, <1>13 DEF ListInv

LEMMA CancelKeeps ==
  ASSUME ListInv, NEW id, CancelTimer(id)
  PROVE  ListInv'
  <1> DEFINE idx == FindIdxId(timers, id)
  <1>1. /\ TimerTypes /\ InOrder(timers) /\ pc \in {"app", "call"}
        /\ timers' = IF idx = 0 THEN timers ELSE RemoveAt(timers, idx)
        /\ pc' = "install" /\ caller' = pc
        /\ UNCHANGED <<platform, i, expired, jumps, shift, slow, moved>>
    BY DEF ListInv, CancelTimer, onTimer, history
  <1>2. timers \in Seq(Timers) /\ Len(timers) \in Nat
    BY <1>1, InTime
  <1>3. /\ timers' \in Seq(Timers) /\ InOrder(timers')
        /\ \A k \in 1..Len(timers') :
             \E j \in 1..Len(timers) : (j = k \/ j = k + 1) /\ timers'[k] = timers[j]
    <2>1. CASE idx = 0
      BY <1>1, <1>2, <2>1
    <2>2. CASE idx # 0
      <3>1. idx \in 1..Len(timers)
        BY <1>2, <2>2, FoundIdxId
      <3> HIDE DEF idx
      <3> DEFINE rest == RemoveAt(timers, idx)
      <3>2. /\ rest \in Seq(Timers) /\ InOrder(rest)
            /\ \A k \in 1..Len(rest) :
                 \E j \in 1..Len(timers) : /\ j = k \/ j = k + 1
                                           /\ rest[k] = timers[j] /\ timers[j].id # timers[idx].id
        BY <1>1, <1>2, <3>1, TimerRemoved
      <3>3. timers' = rest
        BY <1>1, <2>2
      <3>4. QED
        BY <3>2, <3>3
    <2>3. QED
      BY <2>1, <2>2
  <1> HIDE DEF idx
  <1>4. TimerTypes'
    BY <1>1, <1>3 DEF TimerTypes, TimerPlaces
  <1>5. CalledAreDue'
    <2>1. ts' = ts
      BY <1>1 DEF ts
    <2>2. ASSUME pc = "call", NEW k \in 1..Len(timers'), timers'[k].id \in ToSet(expired)
          PROVE  timers'[k].left <= ts
      BY <1>3, <2>2 DEF ListInv, CalledAreDue, Calling
    <2>3. pc = "app" => expired = <<>>
      BY DEF ListInv, CalledAreDue
    <2>4. QED
      BY <1>1, <2>1, <2>2, <2>3 DEF CalledAreDue, Calling
  <1>6. OverAreBehind'
    <2> SUFFICES ASSUME jumps = 0 PROVE OverAreBehind'
      BY <1>1 DEF OverAreBehind
    <2>1. /\ \A k \in 1..Len(timers) : Over(timers[k]) => timers[k].left <= 0
          /\ pc = "call" => \A k \in 1..Len(timers) : k > i => ~Over(timers[k])
      BY DEF ListInv, OverAreBehind, Calling
    <2>2. ASSUME NEW k \in 1..Len(timers'), Over(timers'[k])
          PROVE  /\ timers'[k].left <= 0
                 /\ pc = "call" => ~(k > i)
      <3>1. PICK j \in 1..Len(timers) : (j = k \/ j = k + 1) /\ timers'[k] = timers[j]
        BY <1>3
      <3>2. i \in Nat /\ k \in Int /\ j \in Int
        BY <1>1 DEF TimerTypes
      <3>3. k > i => j > i
        BY <3>1, <3>2
      <3>4. QED
        BY <2>1, <2>2, <3>1, <3>3
    <2>3. QED
      BY <1>1, <2>2 DEF OverAreBehind, Calling
  <1>7. SetForLater' /\ SetForFirst'
    BY <1>1 DEF SetForLater, SetForFirst
  <1>8. QED
    BY <1>3, <1>4, <1>5, <1>6, <1>7 DEF ListInv

(* Where the list stays as it is. *)
LEMMA InstallKeeps ==
  ASSUME ListInv, InstallTimer
  PROVE  ListInv'
  <1>1. /\ TimerTypes /\ InOrder(timers) /\ pc = "install" /\ pc' = caller
        /\ caller \in {"loop", "app", "call"}
        /\ platform' = IF timers = <<>> \/ timers[1].left <= 0 THEN Off ELSE timers[1].left
        /\ moved' = (shift # 0)
        /\ UNCHANGED <<timers, i, expired, jumps, shift, slow>>
    BY DEF ListInv, InstallTimer, onTimer, TimerTypes
  <1>2. /\ ts \in Int /\ (shift = 0 => ts <= 0) /\ ts' = ts
        /\ Len(timers) \in Nat /\ timers \in Seq(Timers)
        /\ \A k \in 1..Len(timers) : timers[k].left \in Int
    BY <1>1, InTime DEF ts
  <1>3. platform' # Off => /\ timers # <<>> /\ platform' = timers[1].left /\ platform' \in Nat
                           /\ \A k \in 1..Len(timers) : timers[k].left > 0
    <2>1. SUFFICES ASSUME platform' # Off
                   PROVE  /\ timers # <<>> /\ platform' = timers[1].left /\ platform' \in Nat
                          /\ \A k \in 1..Len(timers) : timers[k].left > 0
      OBVIOUS
    <2>2. timers # <<>> /\ platform' = timers[1].left /\ ~(timers[1].left <= 0)
      BY <1>1, <2>1
    <2>3. 1 \in 1..Len(timers) /\ timers[1].left \in Int /\ timers[1].left > 0
      BY <1>2, <2>2
    <2>4. ASSUME NEW k \in 1..Len(timers) PROVE timers[k].left > 0
      <3>1. CASE k = 1
        BY <2>3, <3>1
      <3>2. CASE k # 1
        <4>1. 1 < k
          BY <1>2, <3>2
        <4>2. timers[1].left <= timers[k].left /\ timers[k].left \in Int
          BY <1>1, <1>2, <2>3, <4>1 DEF InOrder
        <4>3. QED
          BY <2>3, <4>2
      <3>3. QED
        BY <3>1, <3>2
    <2>5. QED
      BY <2>2, <2>3, <2>4
  <1>4. TimerTypes'
    <2>1. platform' \in Nat \cup {Off}
      BY <1>3
    <2>2. jumps = 0 => ~moved'
      <3>1. jumps = 0 => shift = 0
        BY <1>1 DEF TimerTypes
      <3>2. QED
        BY <1>1, <3>1, Zenon
    <2>3. QED
      BY <1>1, <2>1, <2>2 DEF TimerTypes, TimerPlaces
  <1>5. CalledAreDue'
    BY <1>1, <1>2 DEF ListInv, CalledAreDue, Calling
  <1>6. SetForLater'
    <2>1. ~moved' => shift = 0
      BY <1>1, Zenon
    <2>2. QED
      BY <1>1, <1>2, <1>3, <2>1 DEF SetForLater
  <1>7. SetForFirst'
    BY <1>1, <1>3 DEF SetForFirst
  <1>8. OverAreBehind'
    <2> SUFFICES ASSUME jumps = 0 PROVE OverAreBehind'
      BY <1>1 DEF OverAreBehind
    <2>1. /\ \A k \in 1..Len(timers) : Over(timers[k]) => timers[k].left <= 0
          /\ Calling => \A k \in 1..Len(timers) : k > i => ~Over(timers[k])
      BY DEF ListInv, OverAreBehind
    <2>2. platform' # Off => \A k \in 1..Len(timers) : ~Over(timers[k])
      BY <1>2, <1>3, <2>1
    <2>3. pc' # "scan" /\ (Calling' => Calling)
      BY <1>1 DEF Calling
    <2>4. QED
      BY <1>1, <2>1, <2>2, <2>3 DEF OverAreBehind
  <1>9. QED
    BY <1>1, <1>4, <1>5, <1>6, <1>7, <1>8 DEF ListInv

LEMMA ScanKeeps ==
  ASSUME ListInv, OnTimerCalled \/ CallNoMore \/ CallDone
  PROVE  ListInv'
  <1>1. TimerTypes /\ InOrder(timers) /\ UNCHANGED <<timers, expired, jumps, shift, moved>>
    BY DEF ListInv, OnTimerCalled, CallNoMore, CallDone, onTimer, history
  <1>2. CASE OnTimerCalled
    <2>1. /\ pc = "loop" /\ platform # Off /\ platform' = Off /\ pc' = "scan" /\ i' = 1
          /\ slow' = MaxSlow
      BY <1>2 DEF OnTimerCalled
    <2>2. TimerTypes'
      BY <1>1, <2>1, TimerLibAssumption DEF TimerTypes, TimerPlaces
    <2>3. expired = <<>> /\ ToSet(<<>>) = {}
      BY <2>1 DEF ListInv, CalledAreDue, ToSet
    <2>4. CalledAreDue' /\ SetForLater' /\ SetForFirst'
      BY <1>1, <2>1, <2>3 DEF CalledAreDue, SetForLater, SetForFirst, Calling
    <2>5. OverAreBehind'
      BY <1>1, <2>1 DEF ListInv, OverAreBehind, Calling
    <2>6. QED
      BY <1>1, <2>2, <2>4, <2>5 DEF ListInv
  <1>3. CASE CallNoMore \/ CallDone
    <2>1. /\ pc \in {"scan", "call"} /\ UNCHANGED <<platform, caller, slow>>
          /\ \/ pc' = "remove" /\ i' = 1
             \/ pc = "call" /\ pc' = "scan" /\ i' = i + 1
      BY <1>3 DEF CallNoMore, CallDone, history
    <2>2. i \in Nat /\ i' \in Nat /\ i' > 0
      BY <1>1, <2>1 DEF TimerTypes
    <2>3. TimerTypes'
      BY <1>1, <2>1, <2>2 DEF TimerTypes, TimerPlaces
    <2>4. ts' = ts /\ ts \in Int /\ \A k \in 1..Len(timers) : timers[k].left \in Int
      BY <1>1, <2>1, InTime DEF ts
    <2>5. \A k \in 1..Len(timers) : timers[k].id \in ToSet(expired) => timers[k].left <= ts
      BY <2>1 DEF ListInv, CalledAreDue, Calling
    <2>6. CalledAreDue'
      BY <1>1, <2>1, <2>4, <2>5 DEF CalledAreDue, Calling
    <2>7. SetForLater'
      <3>1. ~moved /\ platform # Off => \A k \in 1..Len(timers) : timers[k].left > ts
        BY <2>1 DEF ListInv, SetForLater
      <3>2. ~moved /\ platform # Off => \A k \in 1..Len(timers) : timers[k].id \notin ToSet(expired)
        BY <2>4, <2>5, <3>1
      <3>3. QED
        BY <1>1, <2>1, <2>4, <3>1, <3>2 DEF SetForLater
    <2>8. SetForFirst'
      BY <1>1, <2>1 DEF ListInv, SetForFirst
    <2>9. OverAreBehind'
      <3> SUFFICES ASSUME jumps = 0 PROVE OverAreBehind'
        BY <1>1 DEF OverAreBehind
      <3>1. /\ \A k \in 1..Len(timers) : Over(timers[k]) => timers[k].left <= 0
            /\ platform # Off => \A k \in 1..Len(timers) : ~Over(timers[k])
            /\ pc = "call" => \A k \in 1..Len(timers) : k > i => ~Over(timers[k])
        BY <2>1 DEF ListInv, OverAreBehind, Calling
      <3>2. \A k \in 1..Len(timers) : k >= i + 1 => k > i
        BY <2>2
      <3>3. pc' = "scan" => \A k \in 1..Len(timers) : k >= i' => ~Over(timers[k])
        BY <2>1, <3>1, <3>2
      <3>4. pc' # "install" /\ ~Calling'
        BY <2>1 DEF Calling
      <3>5. QED
        BY <1>1, <2>1, <3>1, <3>3, <3>4 DEF OverAreBehind
    <2>10. QED
      BY <1>1, <2>3, <2>6, <2>7, <2>8, <2>9 DEF ListInv
  <1>4. QED
    BY <1>2, <1>3

LEMMA CallNextKeeps ==
  ASSUME ListInv, CallNext
  PROVE  ListInv'
  <1> DEFINE m == Len(timers)
  <1>1. /\ TimerTypes /\ InOrder(timers) /\ pc = "scan" /\ pc' = "call"
        /\ i \in 1..m /\ ts >= timers[i].left
        /\ expired' = Append(expired, timers[i].id)
        /\ timers' = [timers EXCEPT ![i].called = TRUE]
        /\ UNCHANGED <<platform, i, jumps, shift, slow, moved>>
    <2>1. TimerTypes /\ i <= m
      BY DEF ListInv, CallNext
    <2>2. i \in Nat /\ i > 0 /\ m \in Nat
      BY <2>1, InTime DEF TimerTypes
    <2>3. i \in 1..m
      BY <2>1, <2>2
    <2>4. QED
      BY <2>3 DEF ListInv, CallNext, history
  <1>2. /\ ts \in Int /\ (shift = 0 => ts <= 0) /\ ts' = ts /\ m \in Nat /\ timers \in Seq(Timers)
        /\ \A k \in 1..m : timers[k] \in Timers /\ timers[k].left \in Int
    BY <1>1, InTime DEF ts
  <1> HIDE DEF m
  <1>3. DOMAIN timers = 1..m /\ Len(timers) = m
    BY <1>2 DEF m
  <1>4. ASSUME NEW k \in 1..m
        PROVE  /\ timers'[k] \in Timers /\ timers'[k].id = timers[k].id
               /\ timers'[k].left = timers[k].left
               /\ k # i => timers'[k] = timers[k]
    <2>1. timers'[k] = IF k = i THEN [timers[i] EXCEPT !.called = TRUE] ELSE timers[k]
      BY <1>1, <1>3
    <2>2. timers[k] \in Timers
      BY <1>2
    <2>3. QED
      BY <2>1, <2>2 DEF Timers
  <1>5. timers' \in Seq(Timers) /\ Len(timers') = m
    <2>1. DOMAIN timers' = 1..m /\ timers' = [k \in DOMAIN timers' |-> timers'[k]]
      BY <1>1, <1>3
    <2>2. timers' \in [1..m -> Timers]
      BY <1>4, <2>1
    <2>3. QED
      BY <1>2, <2>2
  <1>6. /\ expired' \in Seq(Ids) /\ ToSet(expired') = ToSet(expired) \cup {timers[i].id}
    <2>1. expired \in Seq(Ids) /\ timers[i].id \in Ids
      BY <1>1, <1>2, TimerIsTyped DEF TimerTypes
    <2>2. /\ expired' \in Seq(Ids) /\ Len(expired') = Len(expired) + 1 /\ Len(expired) \in Nat
          /\ expired'[Len(expired) + 1] = timers[i].id
          /\ \A k \in 1..Len(expired) : expired'[k] = expired[k]
      BY <1>1, <2>1
    <2>3. DOMAIN expired = 1..Len(expired) /\ DOMAIN expired' = 1..(Len(expired) + 1)
      BY <2>1, <2>2
    <2>4. ASSUME NEW x PROVE x \in ToSet(expired') <=> x \in ToSet(expired) \cup {timers[i].id}
      <3>1. 1..(Len(expired) + 1) = 1..Len(expired) \cup {Len(expired) + 1}
        BY <2>2
      <3>2. QED
        BY <2>2, <2>3, <3>1 DEF ToSet
    <2>5. QED
      BY <2>2, <2>4
  <1>7. moved \/ platform = Off
    <2>1. ~moved /\ platform # Off => timers[i].left > ts
      BY <1>1 DEF ListInv, SetForLater, m
    <2>2. QED
      BY <1>1, <1>2, <2>1
  <1>8. TimerTypes'
    BY <1>1, <1>5, <1>6 DEF TimerTypes, TimerPlaces
  <1>9. InOrder(timers')
    BY <1>1, <1>4, <1>5 DEF InOrder, m
  <1>10. CalledAreDue'
    <2>1. ASSUME NEW k \in 1..m, timers'[k].id \in ToSet(expired') PROVE timers'[k].left <= ts
      <3>1. CASE timers[k].id \in ToSet(expired)
        BY <1>1, <1>4, <3>1 DEF ListInv, CalledAreDue, m
      <3>2. CASE timers[k].id = timers[i].id
        <4>1. k = i
          <5>1. k < i \/ i < k \/ k = i
            BY <1>1, <1>2
          <5>2. QED
            BY <1>1, <3>2, <5>1 DEF InOrder, m
        <4>2. QED
          BY <1>1, <1>2, <1>4, <4>1
      <3>3. QED
        BY <1>4, <1>6, <2>1, <3>1, <3>2
    <2>2. QED
      BY <1>1, <1>2, <1>5, <2>1 DEF CalledAreDue, Calling
  <1>11. SetForLater' /\ SetForFirst'
    BY <1>1, <1>7 DEF SetForLater, SetForFirst
  <1>12. OverAreBehind'
    <2> SUFFICES ASSUME jumps = 0 PROVE OverAreBehind'
      BY <1>1 DEF OverAreBehind
    <2>1. /\ \A k \in 1..m : Over(timers[k]) => timers[k].left <= 0
          /\ \A k \in 1..m : k >= i => ~Over(timers[k])
      BY <1>1 DEF ListInv, OverAreBehind, m
    <2>2. ASSUME NEW k \in 1..m, Over(timers'[k]) PROVE timers'[k].left <= 0 /\ ~(k > i)
      <3>1. CASE k = i
        BY <1>1, <1>2, <1>4, <3>1 DEF TimerTypes
      <3>2. CASE k # i
        <4>1. Over(timers[k]) /\ timers'[k].left = timers[k].left
          BY <1>4, <2>2, <3>2
        <4>2. k > i => k >= i
          BY <1>1, <1>2
        <4>3. QED
          BY <2>1, <4>1, <4>2
      <3>3. QED
        BY <3>1, <3>2
    <2>3. platform = Off
      BY <1>1, <1>7 DEF TimerTypes
    <2>4. QED
      BY <1>1, <1>5, <2>2, <2>3 DEF OverAreBehind
  <1>13. QED
    BY <1>8, <1>9, <1>10, <1>11, <1>12 DEF ListInv

(* OnTimer ends: nobody is called any more. *)
LEMMA ThrowKeeps ==
  ASSUME ListInv, CallThrows \/ RemoveCancelled, ~confused'
  PROVE  ListInv'
  <1>1. /\ TimerTypes /\ InOrder(timers) /\ pc \in {"call", "remove"} /\ Throw
    BY DEF ListInv, CallThrows, RemoveCancelled
  <1>2. timers' = timers
    BY DEF CallThrows, RemoveCancelled
  <1>3. /\ pc' = "loop" /\ expired' = <<>> /\ i' = 1 /\ slow' = 0 /\ shift' = 0
        /\ UNCHANGED <<platform, caller, jumps, moved>>
    BY <1>1 DEF Throw
  <1>4. TimerTypes'
    <2>1. 0 \in 0..MaxSlow /\ <<>> \in Seq(Ids)
      BY TimerLibAssumption
    <2>2. QED
      BY <1>1, <1>2, <1>3, <2>1 DEF TimerTypes, TimerPlaces
  <1>5. CalledAreDue' /\ SetForLater'
    BY <1>3 DEF CalledAreDue, SetForLater, Calling
  <1>6. SetForFirst'
    BY <1>1, <1>2, <1>3 DEF ListInv, SetForFirst
  <1>7. OverAreBehind'
    BY <1>1, <1>2, <1>3 DEF ListInv, OverAreBehind, Calling
  <1>8. QED
    BY <1>1, <1>2, <1>4, <1>5, <1>6, <1>7 DEF ListInv

LEMMA RemoveKeeps ==
  ASSUME ListInv, RemoveExpired
  PROVE  ListInv'
  <1> DEFINE idx == FindIdxId(timers, Head(expired))
             t == timers[idx]
             rest == RemoveAt(timers, idx)
             again == Timer(t.id, t.delay, TRUE)
  <1>1. /\ TimerTypes /\ InOrder(timers) /\ pc = "remove" /\ pc' = "remove"
        /\ expired # <<>> /\ Head(expired) \in IdsOf(timers) /\ expired' = Tail(expired)
        /\ timers' = IF t.interval THEN Insert(rest, again) ELSE rest
        /\ UNCHANGED <<platform, caller, i, jumps, shift, slow, moved>>
    BY DEF ListInv, RemoveExpired, history
  <1>2. timers \in Seq(Timers) /\ Len(timers) \in Nat /\ expired \in Seq(Ids)
    BY <1>1, InTime DEF TimerTypes
  <1>3. idx \in 1..Len(timers) /\ t.id = Head(expired) /\ t \in Timers
    <2>1. DOMAIN timers = 1..Len(timers)
      BY <1>2
    <2>2. \E k \in DOMAIN timers : timers[k].id = Head(expired)
      BY <1>1 DEF IdsOf
    <2>3. idx = CHOOSE k \in DOMAIN timers : timers[k].id = Head(expired)
      BY <1>1 DEF FindIdxId
    <2>4. idx \in DOMAIN timers /\ timers[idx].id = Head(expired)
      BY <2>2, <2>3
    <2>5. QED
      BY <1>2, <2>1, <2>4
  <1>4. moved \/ platform = Off
    <2>1. Head(expired) \in ToSet(expired)
      <3>1. 1 \in DOMAIN expired /\ Head(expired) = expired[1]
        BY <1>1, <1>2
      <3>2. QED
        BY <3>1 DEF ToSet
    <2>2. ~moved /\ platform # Off => t.id \notin ToSet(expired)
      BY <1>1, <1>3 DEF ListInv, SetForLater
    <2>3. QED
      BY <1>3, <2>1, <2>2
  <1> HIDE DEF idx
  <1>5. /\ rest \in Seq(Timers) /\ InOrder(rest) /\ Len(rest) \in Nat
        /\ \A k \in 1..Len(rest) :
             \E j \in 1..Len(timers) : rest[k] = timers[j] /\ timers[j].id # t.id
    <2>1. /\ rest \in Seq(Timers) /\ InOrder(rest)
          /\ \A k \in 1..Len(rest) :
               \E j \in 1..Len(timers) : /\ j = k \/ j = k + 1
                                         /\ rest[k] = timers[j] /\ timers[j].id # timers[idx].id
      BY <1>1, <1>2, <1>3, TimerRemoved, SMTT(60)
    <2>2. QED
      BY <2>1
  <1>6. /\ again \in Timers /\ again.id = t.id /\ ~Over(again)
    <2>1. t \in Timers
      BY <1>3
    <2> HIDE DEF t
    <2>2. t.id \in Ids /\ t.delay \in Delays
      BY <2>1, TimerIsTyped
    <2>3. QED
      BY <2>2, NewTimerIsTyped
  <1> HIDE DEF t, rest, again
  <1>7. /\ timers' \in Seq(Timers) /\ InOrder(timers')
        /\ \A k \in 1..Len(timers') :
             timers'[k] = again \/ \E j \in 1..Len(timers) : timers'[k] = timers[j]
    <2>1. CASE t.interval
      <3>1. \A k \in 1..Len(rest) : rest[k].id # again.id
        BY <1>5, <1>6
      <3>2. timers' = Insert(rest, again)
        BY <1>1, <2>1
      <3>3. /\ timers' \in Seq(Timers) /\ InOrder(timers')
            /\ \E p \in 1..(Len(rest) + 1) : InsertedAt(timers', rest, again, p)
        BY <1>5, <1>6, <3>1, <3>2, TimerInserted
      <3>4. PICK p \in 1..(Len(rest) + 1) : InsertedAt(timers', rest, again, p)
        BY <3>3
      <3>5. /\ Len(timers') = Len(rest) + 1 /\ timers'[p] = again
            /\ \A k \in 1..(p - 1) : timers'[k] = rest[k]
            /\ \A k \in (p + 1)..(Len(rest) + 1) : timers'[k] = rest[k - 1]
        BY <3>4 DEF InsertedAt
      <3>6. ASSUME NEW k \in 1..(Len(rest) + 1), k # p
            PROVE  \E l \in 1..Len(rest) : timers'[k] = rest[l]
        <4>1. CASE k < p
          <5>1. k \in 1..(p - 1) /\ k \in 1..Len(rest)
            BY <1>5, <4>1
          <5>2. QED
            BY <3>5, <5>1
        <4>2. CASE k > p
          <5>1. k \in (p + 1)..(Len(rest) + 1) /\ k - 1 \in 1..Len(rest)
            BY <1>5, <4>2
          <5>2. QED
            BY <3>5, <5>1
        <4>3. QED
          BY <1>5, <3>6, <4>1, <4>2
      <3>7. QED
        BY <1>5, <3>3, <3>5, <3>6, ZenonT(60)
    <2>2. CASE ~t.interval
      BY <1>1, <1>5, <2>2
    <2>3. QED
      BY <2>1, <2>2
  <1>8. TimerTypes'
    <2>1. Tail(expired) \in Seq(Ids)
      BY <1>1, <1>2
    <2>2. QED
      BY <1>1, <1>7, <2>1 DEF TimerTypes, TimerPlaces
  <1>9. CalledAreDue' /\ SetForLater' /\ SetForFirst'
    BY <1>1, <1>4 DEF CalledAreDue, SetForLater, SetForFirst, Calling
  <1>10. OverAreBehind'
    <2>1. jumps = 0 => \A k \in 1..Len(timers) : Over(timers[k]) => timers[k].left <= 0
      BY DEF ListInv, OverAreBehind
    <2>2. jumps = 0 => \A k \in 1..Len(timers') : Over(timers'[k]) => timers'[k].left <= 0
      BY <1>6, <1>7, <2>1
    <2>3. jumps = 0 => platform = Off
      BY <1>1, <1>4 DEF TimerTypes
    <2>4. QED
      BY <1>1, <2>2, <2>3 DEF OverAreBehind, Calling
  <1>11. QED
    BY <1>7, <1>8, <1>9, <1>10 DEF ListInv

LEMMA TurnKeeps ==
  ASSUME ListInv, OnEvent \/ OnEventDone \/ RemoveDone
  PROVE  ListInv'
  <1>1. /\ TimerTypes /\ InOrder(timers)
        /\ UNCHANGED <<timers, platform, i, expired, jumps, moved>>
    BY DEF ListInv, OnEvent, OnEventDone, RemoveDone, onTimer, history
  <1>2. CASE OnEvent \/ OnEventDone
    <2>1. /\ pc \in {"loop", "app"} /\ pc' \in {"loop", "app"} /\ slow' \in {0, MaxSlow}
          /\ UNCHANGED shift
      BY <1>2 DEF OnEvent, OnEventDone, onTimer
    <2>2. slow' \in 0..MaxSlow
      BY <2>1, TimerLibAssumption
    <2>3. TimerTypes'
      BY <1>1, <2>1, <2>2 DEF TimerTypes, TimerPlaces
    <2>4. CalledAreDue' /\ SetForLater' /\ SetForFirst' /\ OverAreBehind'
      BY <1>1, <2>1
      DEF ListInv, CalledAreDue, SetForLater, SetForFirst, OverAreBehind, Calling
    <2>5. QED
      BY <1>1, <2>3, <2>4 DEF ListInv
  <1>3. CASE RemoveDone
    <2>1. /\ pc = "remove" /\ expired = <<>> /\ pc' = "install" /\ caller' = "loop"
          /\ UNCHANGED slow /\ shift' = 0
      BY <1>3 DEF RemoveDone
    <2>2. TimerTypes'
      BY <1>1, <2>1 DEF TimerTypes, TimerPlaces
    <2>3. CalledAreDue' /\ SetForLater' /\ SetForFirst'
      BY <1>1, <2>1 DEF CalledAreDue, SetForLater, SetForFirst, Calling
    <2>4. OverAreBehind'
      BY <1>1, <2>1 DEF ListInv, OverAreBehind, Calling
    <2>5. QED
      BY <1>1, <2>2, <2>3, <2>4 DEF ListInv
  <1>4. QED
    BY <1>2, <1>3

LEMMA JumpKeeps ==
  ASSUME ListInv, NEW delta \in Int, delta # 0, SetSystemTime(delta)
  PROVE  ListInv'
  <1> DEFINE m == Len(timers)
             f == [k \in 1..m |->
                     IF timers[k].left - delta < Past THEN Past ELSE timers[k].left - delta]
  <1>1. /\ TimerTypes /\ InOrder(timers) /\ pc \in {"app", "call"}
        /\ timers' = [k \in DOMAIN timers |->
                        [timers[k] EXCEPT !.left = IF @ - delta < Past THEN Past ELSE @ - delta]]
        /\ jumps + Far(delta) <= MaxJumps /\ jumps' = jumps + Far(delta)
        /\ shift' = IF pc = "call" THEN shift + delta ELSE shift
        /\ moved' = TRUE
        /\ UNCHANGED <<platform, pc, caller, i, expired, slow>>
    BY DEF ListInv, SetSystemTime
  <1>2. /\ m \in Nat /\ timers \in Seq(Timers) /\ Past \in Int
        /\ \A k \in 1..m : timers[k].left \in Int
    BY <1>1, InTime DEF TimerTypes
  <1>3. f \in [1..m -> Int]
    BY <1>2
  <1>4. \A j, k \in 1..m : timers[j].left <= timers[k].left => f[j] <= f[k]
    BY <1>2
  <1>5. timers' = [k \in 1..m |-> [timers[k] EXCEPT !.left = f[k]]]
    BY <1>1, <1>2, SMTT(60)
  <1>6. \A k \in 1..m :
          f[k] = IF timers[k].left - delta < Past THEN Past ELSE timers[k].left - delta
    OBVIOUS
  <1> HIDE DEF f
  <1>7. /\ timers' \in Seq(Timers) /\ Len(timers') = m /\ InOrder(timers')
        /\ \A k \in 1..m : timers'[k].id = timers[k].id /\ timers'[k].left = f[k]
    <2>1. Shifted(timers, f, timers')
      BY <1>3, <1>4, <1>5 DEF Shifted
    <2>2. timers \in Seq(Timers) /\ InOrder(timers)
      BY <1>1, <1>2
    <2>3. QED
      BY <2>1, <2>2, TimersShifted
  <1> HIDE DEF m
  <1>8. /\ jumps \in Nat /\ MaxJumps \in Nat /\ shift \in Int /\ -jumps <= shift /\ shift <= jumps
        /\ slow \in Nat /\ slow <= MaxSlow /\ MaxSlow \in Nat
    BY <1>1, TimerLibAssumption DEF TimerTypes
  <1>9. /\ jumps' \in 0..MaxJumps /\ jumps' > 0
        /\ shift' \in Int /\ -jumps' <= shift' /\ shift' <= jumps'
    BY <1>1, <1>8 DEF Far
  <1>10. SetForLater' /\ SetForFirst'
    BY <1>1 DEF SetForLater, SetForFirst
  <1>11. CalledAreDue'
    <2>1. ASSUME pc = "call", NEW k \in 1..m, timers[k].id \in ToSet(expired)
          PROVE  f[k] <= ts'
      <3>1. timers[k].left <= ts /\ timers[k].left \in Int
        BY <1>2, <2>1 DEF ListInv, CalledAreDue, Calling, m
      <3>2. ts = slow - MaxSlow - shift /\ ts' = slow - MaxSlow - (shift + delta)
        BY <1>1, <2>1 DEF ts
      <3>3. shift + delta <= MaxJumps /\ Past = -(MaxSlow + MaxJumps + 1)
        BY <1>1, <1>8, <1>9, <2>1 DEF Past
      <3>4. QED
        BY <1>6, <1>8, <3>1, <3>2, <3>3
    <2>2. pc = "app" => expired = <<>>
      BY DEF ListInv, CalledAreDue
    <2>3. QED
      BY <1>1, <1>7, <2>1, <2>2 DEF CalledAreDue, Calling
  <1>12. TimerTypes'
    BY <1>1, <1>7, <1>9 DEF TimerTypes
  <1>13. OverAreBehind'
    BY <1>9 DEF OverAreBehind
  <1>14. QED
    BY <1>7, <1>10, <1>11, <1>12, <1>13 DEF ListInv

LEMMA TickKeeps ==
  ASSUME ListInv, Tick
  PROVE  ListInv'
  <1> DEFINE m == Len(timers)
             f == [k \in 1..m |->
                     IF timers[k].left > Past THEN timers[k].left - 1 ELSE timers[k].left]
  <1>1. /\ TimerTypes /\ InOrder(timers)
        /\ timers' = [k \in DOMAIN timers |->
                        [timers[k] EXCEPT !.left = IF @ > Past THEN @ - 1 ELSE @]]
        /\ platform' = IF platform > 0 THEN platform - 1 ELSE platform
        /\ \/ pc = "loop" /\ platform # 0 /\ slow' = slow
           \/ pc # "loop" /\ slow > 0 /\ slow' = slow - 1
        /\ UNCHANGED <<pc, caller, i, expired, jumps, shift, moved>>
    BY DEF ListInv, Tick, onTimer, history
  <1>2. /\ m \in Nat /\ timers \in Seq(Timers)
        /\ Past \in Int /\ Past < 0 /\ ts \in Int /\ ts > Past
        /\ \A k \in 1..m : timers[k].left \in Int
    BY <1>1, InTime DEF TimerTypes
  <1>3. f \in [1..m -> Int]
    BY <1>2
  <1>4. \A j, k \in 1..m : timers[j].left <= timers[k].left => f[j] <= f[k]
    BY <1>2, SMTT(60)
  <1>5. timers' = [k \in 1..m |-> [timers[k] EXCEPT !.left = f[k]]]
    BY <1>1, <1>2, SMTT(60)
  <1>6. \A k \in 1..m : f[k] = IF timers[k].left > Past THEN timers[k].left - 1 ELSE timers[k].left
    OBVIOUS
  <1> HIDE DEF f
  <1>7. /\ timers' \in Seq(Timers) /\ Len(timers') = m /\ InOrder(timers')
        /\ \A k \in 1..m : /\ timers'[k].id = timers[k].id /\ timers'[k].left = f[k]
                          /\ timers'[k].called = timers[k].called
                          /\ timers'[k].interval = timers[k].interval
    <2>1. timers \in Seq(Timers) /\ InOrder(timers)
      BY <1>1, <1>2
    <2>2. Shifted(timers, f, timers')
      BY <1>3, <1>4, <1>5 DEF Shifted
    <2>3. QED
      BY <2>1, <2>2, TimersShifted
  <1> HIDE DEF m
  <1>8. /\ slow' \in 0..MaxSlow
        /\ platform' \in Nat \cup {Off} /\ (platform' = Off <=> platform = Off)
        /\ platform # Off => platform \in Nat
    BY <1>1, TimerLibAssumption, SMTT(60) DEF TimerTypes, Off
  <1>9. TimerTypes'
    BY <1>1, <1>7, <1>8 DEF TimerTypes
  <1>10. pc # "loop" => ts' = ts - 1 /\ ts' > Past
    <2>1. pc # "loop" => slow' = slow - 1
      BY <1>1
    <2>2. /\ slow \in Nat /\ MaxSlow \in Nat /\ slow' \in Nat
          /\ MaxJumps \in Nat /\ shift \in Int /\ shift <= MaxJumps /\ shift' = shift
      BY <1>1, <1>8, TimerLibAssumption DEF TimerTypes
    <2>3. QED
      BY <2>1, <2>2 DEF ts, Past
  <1>11. CalledAreDue'
    <2>1. ASSUME pc = "scan" \/ Calling, NEW k \in 1..m, timers[k].id \in ToSet(expired)
          PROVE  f[k] <= ts'
      <3>1. timers[k].left <= ts
        BY <2>1 DEF ListInv, CalledAreDue, m
      <3>2. ts' = ts - 1 /\ ts' > Past
        BY <1>10, <2>1 DEF Calling
      <3>3. QED
        BY <1>2, <1>6, <3>1, <3>2
    <2>2. Calling' <=> Calling
      BY <1>1 DEF Calling
    <2>3. QED
      BY <1>1, <1>7, <2>1, <2>2 DEF ListInv, CalledAreDue
  <1>12. SetForLater'
    <2>1. ASSUME ~moved, platform # Off, pc \in {"scan", "call"}, NEW k \in 1..m
          PROVE  f[k] > ts'
      <3>1. timers[k].left > ts
        BY <2>1 DEF ListInv, SetForLater, m
      <3>2. ts' = ts - 1 /\ ts' > Past
        BY <1>10, <2>1
      <3>3. QED
        BY <1>2, <1>6, <3>1, <3>2
    <2>2. QED
      BY <1>1, <1>7, <1>8, <2>1, ZenonT(60) DEF ListInv, SetForLater, m
  <1>13. SetForFirst'
    <2> SUFFICES ASSUME ~moved, pc # "install", platform # Off
                 PROVE  /\ timers' # <<>>
                        /\ \/ platform' = timers'[1].left
                           \/ platform' = 0 /\ timers'[1].left < 0
      BY <1>1, <1>8 DEF SetForFirst
    <2>1. /\ timers # <<>>
          /\ \/ platform = timers[1].left
             \/ platform = 0 /\ timers[1].left < 0
      BY DEF ListInv, SetForFirst
    <2>2. 1 \in 1..m /\ timers' # <<>>
      BY <1>2, <1>7, <2>1 DEF m
    <2>3. timers'[1].left = f[1] /\ timers[1].left \in Int /\ platform \in Nat
      BY <1>2, <1>7, <1>8, <2>2
    <2>4. f[1] = IF timers[1].left > Past THEN timers[1].left - 1 ELSE timers[1].left
      BY <1>6, <2>2
    <2>5. CASE platform > 0
      BY <1>1, <1>2, <2>1, <2>2, <2>3, <2>4, <2>5
    <2>6. CASE platform = 0
      BY <1>1, <1>2, <2>1, <2>2, <2>3, <2>4, <2>6
    <2>7. QED
      BY <2>3, <2>5, <2>6
  <1>14. OverAreBehind'
    <2> SUFFICES ASSUME jumps = 0 PROVE OverAreBehind'
      BY <1>1 DEF OverAreBehind
    <2>1. /\ \A k \in 1..m : Over(timers[k]) => timers[k].left <= 0
          /\ pc # "install" /\ platform # Off => \A k \in 1..m : ~Over(timers[k])
          /\ pc = "scan" => \A k \in 1..m : k >= i => ~Over(timers[k])
          /\ Calling => \A k \in 1..m : k > i => ~Over(timers[k])
      BY DEF ListInv, OverAreBehind, m
    <2>2. \A k \in 1..m : Over(timers'[k]) <=> Over(timers[k])
      BY <1>7 DEF Over
    <2>3. \A k \in 1..m : timers[k].left <= 0 => timers'[k].left <= 0
      BY <1>2, <1>6, <1>7, SMTT(60)
    <2>4. Calling' <=> Calling
      BY <1>1 DEF Calling
    <2>5. QED
      BY <1>1, <1>7, <1>8, <2>1, <2>2, <2>3, <2>4 DEF OverAreBehind
  <1>15. QED
    BY <1>7, <1>9, <1>11, <1>12, <1>13, <1>14 DEF ListInv
-----------------------------------------------------------------------------

LEMMA TimerStep == TimerInv /\ [TimerNext]_timerVars => TimerInv'
  <1> SUFFICES ASSUME TimerInv, [TimerNext]_timerVars, ~confused' PROVE ListInv'
    BY DEF TimerInv
  <1>1. ASSUME UNCHANGED timerVars PROVE ListInv'
    <2>1. ~confused /\ ListInv
      BY <1>1 DEF timerVars, history, TimerInv
    <2>2. QED
      BY <1>1, <2>1
      DEF timerVars, history, onTimer, ListInv, TimerTypes, InOrder, CalledAreDue, SetForLater,
          SetForFirst, OverAreBehind, Calling, Over, ts
  <1>2. CASE ~confused /\ DukStep
    <2>1. ListInv
      BY <1>2 DEF TimerInv
    <2>2. CASE OnEventDone
      BY <2>1, <2>2, TurnKeeps
    <2>3. CASE InstallTimer
      BY <2>1, <2>3, InstallKeeps
    <2>4. CASE OnTimerCalled
      BY <2>1, <2>4, ScanKeeps
    <2>5. CASE CallNext
      BY <2>1, <2>5, CallNextKeeps
    <2>6. CASE CallNoMore
      BY <2>1, <2>6, ScanKeeps
    <2>7. CASE CallDone
      BY <2>1, <2>7, ScanKeeps
    <2>8. CASE CallThrows
      BY <2>1, <2>8, ThrowKeeps
    <2>9. CASE RemoveExpired
      BY <2>1, <2>9, RemoveKeeps
    <2>10. CASE RemoveCancelled
      BY <2>1, <2>10, ThrowKeeps
    <2>11. CASE RemoveDone
      BY <2>1, <2>11, TurnKeeps
    <2>12. QED
      BY <1>2, <2>2, <2>3, <2>4, <2>5, <2>6, <2>7, <2>8, <2>9, <2>10, <2>11 DEF DukStep
  <1>3. CASE ~confused /\ OnEvent
    BY <1>3, TurnKeeps DEF TimerInv
  <1>4. CASE ~confused /\ Tick
    BY <1>4, TickKeeps DEF TimerInv
  <1>5. CASE ~confused /\ AppCall
    <2>1. ListInv
      BY <1>5 DEF TimerInv
    <2>2. ASSUME NEW d \in Timeouts, SetTimeout(d, FALSE) PROVE ListInv'
      BY <2>1, <2>2, SetKeeps DEF Delays
    <2>3. ASSUME NEW d \in Intervals, SetTimeout(d, TRUE) PROVE ListInv'
      BY <2>1, <2>3, SetKeeps DEF Delays
    <2>4. ASSUME NEW id \in Ids, CancelTimer(id) PROVE ListInv'
      BY <2>1, <2>4, CancelKeeps
    <2>5. ASSUME NEW j \in Jumps, SetSystemTime(j) \/ SetSystemTime(-j) PROVE ListInv'
      <3>1. j \in Int /\ -j \in Int /\ j # 0 /\ -j # 0
        BY TimerLibAssumption
      <3>2. QED
        BY <2>1, <2>5, <3>1, JumpKeeps
    <2>6. QED
      BY <1>5, <2>2, <2>3, <2>4, <2>5 DEF AppCall
  <1>6. QED
    BY <1>1, <1>2, <1>3, <1>4, <1>5 DEF TimerNext

LEMMA TimerInvariance == TimerSpec => []TimerInv
  BY TimerInvInit, TimerStep, PTL DEF TimerSpec

(* The list of the timer library holds every timer once and in order, and  *)
(* in the event loop the platform's timer goes off when the first of them  *)
(* expires, whatever the application sets, cancels and throws, and also if *)
(* the functions OnTimer calls set the clock; until the next __installTimer *)
(* it need not after the clock was set outside OnTimer, or in an OnTimer   *)
(* that threw (timer.js).                                                  *)
THEOREM PlatformIsArmedForFirst == TimerSpec => []ArmedForFirst
  <1>1. TimerInv => ArmedForFirst
    <2> SUFFICES ASSUME ListInv PROVE Sorted /\ Armed
      BY DEF TimerInv, ArmedForFirst
    <2>1. DOMAIN timers = 1..Len(timers)
      BY DEF ListInv, TimerTypes
    <2>2. Sorted
      BY <2>1 DEF ListInv, InOrder, Sorted
    <2>3. Armed
      BY DEF ListInv, SetForFirst, Armed
    <2>4. QED
      BY <2>2, <2>3
  <1>2. QED
    BY <1>1, TimerInvariance, PTL

(* No timeout is called twice unless the clock is set, also when functions *)
(* throw or cancel timers while OnTimer goes through the list.             *)
THEOREM TimeoutsAreCalledOnce == TimerSpec => TimeoutCalledOnce
  <1>1. TimerInv /\ [TimerNext]_timerVars =>
          [\A k \in DOMAIN timers :
             pc = "scan" /\ pc' = "call" /\ k = i /\ timers[k].called =>
               timers[k].interval \/ jumps > 0]_timerVars
    <2> SUFFICES ASSUME TimerInv, TimerNext,
                        NEW k \in DOMAIN timers, pc = "scan", pc' = "call", k = i, timers[k].called
                 PROVE  timers[k].interval \/ jumps > 0
      BY DEF timerVars
    <2>1. ~confused
      BY DEF TimerNext, timerVars
    <2>2. ListInv /\ DOMAIN timers = 1..Len(timers) /\ jumps \in Nat /\ i \in Nat
      BY <2>1 DEF TimerInv, ListInv, TimerTypes
    <2>3. jumps = 0 => ~Over(timers[k])
      BY <2>2 DEF ListInv, OverAreBehind
    <2>4. QED
      BY <2>2, <2>3 DEF Over
  <1>2. QED
    BY <1>1, TimerInvariance, PTL DEF TimerSpec, TimeoutCalledOnce
=============================================================================
