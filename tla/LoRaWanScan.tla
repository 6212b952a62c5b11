---------------------------- MODULE LoRaWanScan -----------------------------
(***************************************************************************)
(* The application for LoRaWAN (spiffs_image/lorawanscan.js) with the      *)
(* library it uses, a network and the air between them.  Its three modes:  *)
(* 0 sends a packet on one channel after the other and notes the channels  *)
(* on which an ACK came back, 1 follows the beacons of class B over the    *)
(* eight channels, 2 listens for packets.  What the radio receives waits   *)
(* in the event queue (inbox) for the application's OnEvent.               *)
(*                                                                         *)
(* The script may be replaced by one with another mode and the runtime     *)
(* reset: the modem keeps its settings.                                    *)
(*                                                                         *)
(* Bounds: the modes follow each other in the order 2, 1, 0, which may     *)
(* leave modes out; the inbox holds InboxMax packets; time is that of the  *)
(* beacons, one every 128 seconds, and begins again after eight of them,   *)
(* at Era; the application handles a packet before the next beacon;        *)
(* counters are of 16 bits.                                                *)
(***************************************************************************)
EXTENDS LoRaWan, LoRaModem

CONSTANTS
  Modes,        \* the modes to look at
  GwChannels,   \* the channels the gateway listens on
  InboxMax,
  Payloads,     \* what the network sends: payloads,
  FCnts,        \* frame counters
  FOpts,        \* and lists of MAC commands, each the bytes of one
  Places,       \* of gateways: info, latitude and longitude, as in the beacon
  Era,          \* GPS time of the first of the eight beacons
  OtherSettings, \* how other applications set the radio
  Uptimes,      \* what a clock that nobody set may show, in seconds
  None

ASSUME ModesAssumption == Modes \subseteq 0..2
ASSUME GwChannelsAssumption == GwChannels \subseteq 0..71
ASSUME InboxMaxAssumption == InboxMax \in Nat \ {0}

(* The MAC commands that the library knows, by their CID: how many bytes   *)
(* they have.                                                              *)
CommandBytes == <<0, 1, 5, 2, 5, 1, 6, 2>>

Byte == 0..255
Word == 0..(256 * 256 - 1)
Signed24 == -(2 ^ 23)..(2 ^ 23 - 1)

IsCommand(bytes) ==
  bytes # <<>> /\ bytes[1] \in 2..8 /\ Len(bytes) = CommandBytes[bytes[1]]

ASSUME PayloadsAssumption == Payloads \subseteq Seq(Byte)
ASSUME FCntsAssumption == FCnts \subseteq Word
ASSUME FOptsAssumption ==
  /\ FOpts \subseteq Seq(Seq(Byte))
  /\ \A commands \in FOpts :
       /\ \A k \in 1..Len(commands) : IsCommand(commands[k])
       /\ Len(FlattenSeq(commands)) <= 15
ASSUME PlacesAssumption == Places \subseteq Byte \X Signed24 \X Signed24
ASSUME EraAssumption == Era \in Nat /\ Era % 1024 = 0 /\ Era <= 1800000000
ASSUME OtherSettingsAssumption ==
  OtherSettings \subseteq
    [freq : Int, bw : Int, sf : Int, cr : Int, len : Int, preamble : Int, word : Int,
     power : Int, crc : BOOLEAN, inverted : BOOLEAN]

ChannelMax == 71

Own == LoraWanPacket(<<38, 12, 167, 159>>, "network key", "application key")
Other == LoraWanPacket(<<38, 12, 167, 160>>, "network key of another", "application key of another")

VARIABLES
  mode,      \* the mode of the application
  on,        \* OnStart has run
  channel,   \* scanState.channel
  answers,   \* scanState.answers
  timer,     \* of scanNext: "off", "set", or "events" if those in the queue come first
  radio,     \* the registers of the modem
  inbox,     \* packets received and not handled
  up,        \* the packet sent last, while the network may answer it
  down,      \* the answer of the network, on its way
  acked,     \* the channels whose answers the radio received, in order
  late,      \* the answers, by their places in acked, that scanNext did not wait for
  told,      \* a packet and what the library made of it
  period,    \* the period of the beacon sent last
  clock      \* how far the device's clock is from UTC, None if nobody set it

vars == <<mode, on, channel, answers, timer, radio, inbox, up, down, acked, late, told, period,
          clock>>
world == <<up, down, acked, late, period, clock>>

-----------------------------------------------------------------------------
(* What is on the air: a packet of a device or of the network is known by  *)
(* the call that made it.                                                  *)

Sent(kind, lwp, payload, fcnt, fopts) ==
  [kind |-> kind, lwp |-> lwp, payload |-> payload, fport |-> 1, fcnt |-> fcnt, fopts |-> fopts]

DownKinds == {"unConfirmedDown", "confirmedDown", "ack of the network"}
UpKinds == {"unConfirmedUp", "confirmedUp", "ackPacket"}
HasPayload == {"unConfirmedDown", "confirmedDown", "unConfirmedUp", "confirmedUp"}

Frames ==
  {Sent(f[1], f[2], f[3], f[4], f[5]) :
     f \in HasPayload \X {Own, Other} \X Payloads \X FCnts \X FOpts}
  \cup {Sent(f[1], f[2], <<>>, f[3], <<>>) :
          f \in {"ack of the network", "ackPacket"} \X {Own, Other} \X FCnts}
  \cup {[kind |-> "short"]}

NetworkAck(lwp, fcnt) == Sent("ack of the network", lwp, <<>>, fcnt, <<>>)

(* A beacon is what a gateway puts into it, and which of its two CRCs are  *)
(* right when it is received.                                              *)
Beacon(per, place, timeCrc, infoCrc) ==
  [kind |-> "beacon", time |-> Era + 128 * per, info |-> place[1], lat |-> place[2],
   lon |-> place[3], timeCrc |-> timeCrc, infoCrc |-> infoCrc]

(* Its bytes: five and four of no meaning, numbers of 24 and 32 bits with  *)
(* the lowest byte first, negative ones as two's complement.               *)
Bytes24(n) == <<n % 256, (n \div 256) % 256, (n \div 2 ^ 16) % 256>>

CrcOf(bytes, right) == Crc16(IF right THEN bytes ELSE <<>>)

BeaconPacket(s) ==
  LET head == [k \in 1..5 |-> 0] \o Bytes24(s.time) \o <<s.time \div 2 ^ 24>>
      gw == <<s.info>> \o Bytes24(s.lat) \o Bytes24(s.lon) \o <<0, 0, 0>>
  IN [length |-> 23,
      bytes |-> head \o CrcOf(head, s.timeCrc) \o gw \o CrcOf(gw, s.infoCrc)]

PacketOf(s) ==
  LET fopts == FlattenSeq(s.fopts) IN
  CASE s.kind = "unConfirmedDown" -> UnConfirmedDown(s.lwp, s.payload, s.fport, s.fcnt, fopts)
    [] s.kind = "confirmedDown" -> ConfirmedDown(s.lwp, s.payload, s.fport, s.fcnt, fopts)
    [] s.kind = "unConfirmedUp" -> UnConfirmedUp(s.lwp, s.payload, s.fport, s.fcnt, fopts)
    [] s.kind = "confirmedUp" -> ConfirmedUp(s.lwp, s.payload, s.fport, s.fcnt, fopts)
    [] s.kind = "ackPacket" -> MakeAck(s.lwp, s.fport, s.fcnt)
    [] s.kind = "ack of the network" ->
         MakePacketFromPayLoad(s.lwp, <<>>, 96, s.fport, 32, s.fcnt, <<>>, 1)
    [] s.kind = "short" -> [length |-> 5]
    [] s.kind = "beacon" -> BeaconPacket(s)

(* How packets are sent and beacons are; the network answers with the      *)
(* spreading factor of the packet, as the application expects.             *)
UpAir(c) ==
  LET chans == LoraWanUpDownChannel915(c) IN
  [freq |-> chans.upFreq, bw |-> chans.bw, sf |-> chans.sf, inverted |-> FALSE, length |-> 0]
DownAir(c) ==
  LET chans == LoraWanUpDownChannel915(c) IN
  [freq |-> chans.downFreq, bw |-> 500000, sf |-> chans.sf, inverted |-> TRUE, length |-> 0]
Rx2Air == [freq |-> 9233, bw |-> 500000, sf |-> 8, inverted |-> TRUE, length |-> 0]
BeaconAir(c) ==
  [freq |-> 9233 + 6 * c, bw |-> 500000, sf |-> 12, inverted |-> FALSE, length |-> 23]

-----------------------------------------------------------------------------
(* What the functions of the script do with its state and the radio.       *)

(* sendUp, up to sendPacket and after it. *)
SendUp(m, chans) ==
  LET m1 == SetFrequency(LoraIdle(m), chans.upFreq)
      m2 == SetTxPower(SetSF(SetBW(m1, chans.bw), chans.sf), 17)
      m3 == SetSyncWord(DisableInvertIq(SetPreambleLen(m2, 8)), 52)
  IN SendPacket(LoraReceive(EnableCrc(m3)), 17)

AfterSendUp(m, chans) ==
  LET m1 == EnableInvertIq(SetBW(LoraIdle(m), 500000))
  IN LoraReceive(SetFrequency(m1, chans.downFreq))

ListenRx2(m) ==
  LET m1 == SetPreambleLen(SetTxPower(SetSF(LoraIdle(m), 8), 1), 8)
      m2 == EnableInvertIq(SetBW(EnableCrc(SetSyncWord(m1, 52)), 500000))
  IN LoraReceive(SetFrequency(m2, LoraWanUpDownChannel915(0).down2Freq))

(* The radio is left alone when there is no frequency.                     *)
LoraWanBeaconListen(m, c) ==
  LET freq == LoraWanChannel915(c, 1)
      m1 == SetSF(SetPayloadLen(SetFrequency(LoraIdle(m), freq), 23), 12)
      m2 == SetSyncWord(SetPreambleLen(SetTxPower(m1, 1), 10), 52)
      m3 == DisableInvertIq(SetBW(DisableCrc(m2), 500000))
  IN IF freq = 0 THEN m ELSE LoraReceive(m3)

(* Another application, which has used the modem in ways of its own.       *)
OtherApplication(s) ==
  LET m1 == SetCR(SetSF(SetBW(SetFrequency(InitialModem, s.freq), s.bw), s.sf), s.cr)
      m2 == SetSyncWord(SetPreambleLen(SetPayloadLen(m1, s.len), s.preamble), s.word)
      m3 == IF s.inverted THEN EnableInvertIq(m2) ELSE DisableInvertIq(m2)
      m4 == IF s.crc THEN EnableCrc(m3) ELSE DisableCrc(m3)
  IN LoraReceive(SetTxPower(m4, s.power))

(* Fault: the last channel is followed by one too many.                    *)
ListenNextTooFar(c) ==
  LET next == IF c < 8 THEN c + 1 ELSE 0 IN
  channel' = next /\ radio' = LoraWanBeaconListen(radio, next)

ListenNext(c) ==
  LET next == IF c < 7 THEN c + 1 ELSE 0 IN
  channel' = next /\ radio' = LoraWanBeaconListen(radio, next)

(* How far GPS time is ahead of UTC, since 2017.                           *)
LeapSeconds == 18

(* Seconds of the device's clock.  One that nobody set counts from 1970.   *)
DeviceTimes ==
  IF clock = None THEN Uptimes
  ELSE {GpsEpoch - LeapSeconds + Era + 128 * period + since + clock : since \in {0, 1, 127}}

-----------------------------------------------------------------------------
(* OnStart, after the board or the runtime was started.                    *)

Init ==
  /\ mode \in Modes
  /\ on = FALSE /\ channel = -1 /\ answers = <<>> /\ timer = "off"
  /\ radio \in {InitialModem} \cup {OtherApplication(s) : s \in OtherSettings}
  /\ inbox = <<>> /\ up = None /\ down = None /\ acked = <<>> /\ late = {}
  /\ told = None /\ period \in (IF mode = 1 THEN 0..7 ELSE {0}) /\ clock = None

StartScan ==
  /\ ~on /\ mode = 0
  /\ on' = TRUE /\ timer' = "set" /\ channel' = -1
  /\ UNCHANGED <<mode, answers, radio, inbox, told, world>>

(* The script takes its clock for right when it is past the beginning of   *)
(* GPS time; it compares milliseconds with seconds.  A clock that nobody   *)
(* has set in 3.65 days gives a negative channel, on which nothing is set. *)
StartBeacons ==
  /\ ~on /\ mode = 1
  /\ on' = TRUE
  /\ \E now \in DeviceTimes :
       IF now > GpsEpoch \div 1000 THEN ListenNext(BeaconGetNextChannel(now).channel - 1)
       ELSE ListenNext(-1)
  /\ UNCHANGED <<mode, answers, timer, inbox, told, world>>

StartRx2 ==
  /\ ~on /\ mode = 2
  /\ on' = TRUE /\ channel' = -1
  /\ radio' = ListenRx2(radio)
  /\ UNCHANGED <<mode, answers, timer, inbox, told, world>>

(* A reset of the runtime drops the script's state, its timer and the      *)
(* events, and leaves the radio and the clock as they are.  The clock does *)
(* not matter any more where no beacons are followed.                      *)
Reset ==
  /\ on
  /\ mode' \in {m \in Modes : m <= mode}
  /\ on' = FALSE /\ channel' = -1 /\ answers' = <<>> /\ timer' = "off" /\ inbox' = <<>>
  /\ acked' = <<>> /\ late' = {} /\ up' = None /\ down' = None /\ told' = None
  /\ IF mode' = mode THEN UNCHANGED <<period, clock>>
     ELSE clock' = None /\ period' \in (IF mode' = 1 THEN 0..7 ELSE {0})
  /\ UNCHANGED radio

-----------------------------------------------------------------------------
(* Mode 0: scanNext sends on the next channel and listens on the channel   *)
(* the answer is to come on.  The event loop handles an event, if there is *)
(* one, before it looks at the timer again.                                *)

ScanNext ==
  /\ on /\ mode = 0 /\ timer = "set"
  /\ IF channel < ChannelMax
     THEN LET chans == LoraWanUpDownChannel915(channel + 1) IN
          /\ channel' = channel + 1
          /\ up' = [modem |-> SendUp(radio, chans),
                    sent |-> Sent("confirmedUp", Own, <<112>>, channel + 1, <<>>)]
          /\ radio' = AfterSendUp(up'.modem, chans)
          /\ timer' = IF inbox = <<>> THEN "set" ELSE "events"
          /\ late' = late \cup (Len(answers) + 1)..(Len(acked) + (IF down = None THEN 0 ELSE 1))
     ELSE timer' = "off" /\ UNCHANGED <<channel, up, radio, late>>
  /\ UNCHANGED <<mode, on, answers, inbox, down, acked, told, period, clock>>

(* The network answers a packet that one of its gateways heard and that is *)
(* right, on the channel that belongs to it.                               *)
NetworkAnswers ==
  /\ up # None /\ down = None
  /\ \E c \in GwChannels :
       /\ Agrees(up.modem, UpAir(c))
       /\ LET p == PacketOf(up.sent) IN CheckMic(p, Own.nwkKey, up.sent.fcnt, p.pkt.addr, 0)
       /\ down' = [air |-> DownAir(c), for |-> c,
                   sent |-> NetworkAck(Own, up.sent.fcnt)]
  /\ up' = None
  /\ UNCHANGED <<mode, on, channel, answers, timer, radio, inbox, acked, late, told, period,
                 clock>>

AnswerArrives ==
  /\ down # None /\ Len(inbox) < InboxMax
  /\ down' = None
  /\ IF Hears(radio, down.air)
     THEN inbox' = Append(inbox, down.sent) /\ acked' = Append(acked, down.for) /\ UNCHANGED late
     ELSE late' = late \ {Len(acked) + 1} /\ UNCHANGED <<inbox, acked>>
  /\ UNCHANGED <<mode, on, channel, answers, timer, radio, up, told, period, clock>>

AnswerLost ==
  /\ down # None
  /\ down' = None
  /\ late' = late \ {Len(acked) + 1}
  /\ UNCHANGED <<mode, on, channel, answers, timer, radio, inbox, up, acked, told, period, clock>>

(* Fault: an ACK counts whoever sent it.                                   *)
ProcessLoraAnyAck ==
  /\ on /\ mode = 0 /\ inbox # <<>>
  /\ inbox' = Tail(inbox)
  /\ timer' = IF timer = "events" THEN "set" ELSE timer
  /\ LET res == ParseDownPacket(Own, PacketOf(Head(inbox))) IN
     answers' = IF ~res.error /\ res.ack THEN Append(answers, channel) ELSE answers
  /\ UNCHANGED <<mode, on, channel, radio, told, world>>

ProcessLora ==
  /\ on /\ mode = 0 /\ inbox # <<>>
  /\ inbox' = Tail(inbox)
  /\ timer' = IF timer = "events" THEN "set" ELSE timer
  /\ LET res == ParseDownPacket(Own, PacketOf(Head(inbox))) IN
     answers' = IF ~res.error /\ res.ack /\ res.micVerified THEN Append(answers, channel)
                ELSE answers
  /\ UNCHANGED <<mode, on, channel, radio, told, world>>

-----------------------------------------------------------------------------
(* Mode 1.  A gateway sends a beacon in every period, on the channel of    *)
(* that period.                                                            *)

SendBeacon ==
  /\ mode = 1 /\ on /\ inbox = <<>>
  /\ period' = (period + 1) % 8
  /\ told' = None
  /\ UNCHANGED <<mode, on, channel, answers, timer, radio, up, down, acked, late, clock>>

OnBeacon == Hears(radio, BeaconAir(period'))

BeaconHeard ==
  /\ SendBeacon /\ OnBeacon
  /\ \E place \in Places, timeCrc \in BOOLEAN, infoCrc \in BOOLEAN :
       inbox' = <<Beacon(period', place, timeCrc, infoCrc)>>

BeaconMissed == SendBeacon /\ ~OnBeacon /\ UNCHANGED inbox

BeaconLost == SendBeacon /\ OnBeacon /\ UNCHANGED inbox

(* processListen goes to the next channel whatever it was that came.       *)
ProcessListen ==
  /\ on /\ mode = 1 /\ inbox # <<>>
  /\ inbox' = <<>>
  /\ LET pkt == Head(inbox)
         beacon == BeaconDecode(PacketOf(pkt)) IN
     /\ told' = [sent |-> pkt, as |-> beacon]
     /\ clock' = IF beacon.time_crc
                 THEN (beacon.time + 1) - (GpsEpoch - LeapSeconds + Era + 128 * period + 1)
                 ELSE clock
  /\ ListenNext(channel)
  /\ UNCHANGED <<mode, on, answers, timer, up, down, acked, late, period>>

-----------------------------------------------------------------------------
(* Mode 2, and packets that are not what the application waits for.        *)

FrameArrives ==
  /\ mode = 2 /\ on /\ Hears(radio, Rx2Air) /\ inbox = <<>>
  /\ \E s \in Frames : inbox' = <<s>>
  /\ told' = None
  /\ UNCHANGED <<mode, on, channel, answers, timer, radio, world>>

StrayArrives ==
  /\ on /\ mode # 2 /\ radio.op = "rx" /\ Len(inbox) < (IF mode = 1 THEN 1 ELSE InboxMax)
  /\ \E s \in IF mode = 1 THEN {[kind |-> "short"]}
                               \cup {Beacon(0, place, FALSE, FALSE) : place \in Places}
             ELSE {[kind |-> "short"], NetworkAck(Other, 7),
                   Sent("unConfirmedDown", Own, <<104>>, 7, <<>>)} :
       inbox' = Append(inbox, s)
  /\ UNCHANGED <<mode, on, channel, answers, timer, radio, told, world>>

ProcessDownlink ==
  /\ on /\ mode = 2 /\ inbox # <<>>
  /\ inbox' = Tail(inbox)
  /\ told' = [sent |-> Head(inbox), as |-> ParseDownPacket(Own, PacketOf(Head(inbox)))]
  /\ UNCHANGED <<mode, on, channel, answers, timer, radio, world>>

-----------------------------------------------------------------------------

Next ==
  \/ StartScan \/ StartBeacons \/ StartRx2 \/ Reset
  \/ ScanNext \/ NetworkAnswers \/ AnswerArrives \/ AnswerLost \/ ProcessLora
  \/ BeaconHeard \/ BeaconMissed \/ BeaconLost \/ ProcessListen
  \/ FrameArrives \/ StrayArrives \/ ProcessDownlink

Spec == Init /\ [][Next]_vars

(* Beacons never end; the event loop runs OnStart and OnEvent.             *)
FairSpec ==
  /\ Spec
  /\ WF_vars(BeaconHeard \/ BeaconMissed)
  /\ WF_vars(StartBeacons) /\ WF_vars(ProcessListen)

-----------------------------------------------------------------------------

(* The MAC commands that foptsDecode finds in a packet for this device are *)
(* those the network put there, in that order, up to the first             *)
(* RXTimingSetupReq (8); if none is before the last command, these are all *)
(* it finds.  Behind an RXTimingSetupReq the library loses its place and   *)
(* takes the delay for a command (lorawanlib.js:160-167).                  *)
MacCommandsRead ==
  told # None /\ told.sent.kind \in DownKinds /\ told.sent.lwp = Own =>
    LET commands == told.sent.fopts
        found == FoptsDecode(told.as.fopts) IN
    /\ \A i \in 1..Len(commands) :
         (\A k \in 1..(i - 1) : commands[k][1] # 8)
           => i <= Len(found.mac) /\ found.mac[i].cid = commands[i][1]
    /\ (\A k \in 1..(Len(commands) - 1) : commands[k][1] # 8)
         => ~found.error /\ Len(found.mac) = Len(commands)

(* What processDownlink and processListen report is what was sent: a       *)
(* packet made for this device is read back whole and verified, one for    *)
(* another device is not verified and gives no payload, one of a device or *)
(* too short for a packet is an error; a beacon gives its time, as UTC,    *)
(* its place, and which of its CRCs are right.  Nothing is said of what    *)
(* the library is known to get wrong: the port of a packet without payload *)
(* and the info byte of a beacon are not given, MAC commands only as far   *)
(* as MacCommandsRead goes.                                                *)
DecodedAsSent ==
  /\ MacCommandsRead
  /\ told # None =>
    LET s == told.sent
        r == told.as IN
    CASE s.kind \in DownKinds /\ s.lwp = Own ->
           /\ ~r.error /\ r.micVerified
           /\ r.devAddr = Reverse(<<38, 12, 167, 159>>)
           /\ r.payload = Plain(s.payload)
           /\ s.payload # <<>> => r.fport = <<s.fport>>
           /\ r.fcnt = s.fcnt /\ r.fopts = FlattenSeq(s.fopts)
           /\ r.confirmed <=> s.kind = "confirmedDown"
           /\ r.ack <=> s.kind = "ack of the network"
      [] s.kind \in DownKinds /\ s.lwp = Other ->
           ~r.error /\ ~r.micVerified /\ r.payload = <<>>
      [] s.kind \in UpKinds \cup {"short"} -> r.error
      [] s.kind = "beacon" ->
           /\ ~r.error /\ r.time_crc = s.timeCrc /\ r.info_crc = s.infoCrc
           /\ r.time = GpsEpoch - LeapSeconds + s.time
           /\ r.lat = s.lat /\ r.lon = s.lon

(* A channel gets on the list for an ACK of the network for a packet sent  *)
(* on it and for nothing else: there are no more entries than ACKs         *)
(* received, and each names the channel its ACK was for.  Only of an ACK   *)
(* that was still on its way or in the event queue when scanNext went on   *)
(* no more can be said than that it does not name a channel tried before.  *)
AnswersAreAcks ==
  mode = 0 =>
    /\ Len(answers) <= Len(acked)
    /\ \A i \in 1..Len(answers) :
         answers[i] >= acked[i] /\ (i \notin late => answers[i] = acked[i])

(* A modem fits packets on the air but for what another application may    *)
(* have left: for a packet with header, that it expects none; for a beacon *)
(* the coding rate.                                                        *)
SetFor(m, air) ==
  /\ Tuned(m, air)
  /\ Fits(m, air) \/ (IF air.length = 0 THEN Implicit(m)
                     ELSE Implicit(m) /\ m.payloadLength = air.length /\ CodingRate(m) # 1)

(* Whatever application ran before and however the settings share the      *)
(* registers, the modem sends and listens as the air demands: the packets  *)
(* of a scan go out on their channels and the answers to them are listened *)
(* for, as are packets on the second window and beacons, with the          *)
(* frequency, bandwidth, spreading factor, sync word and IQ mode these     *)
(* have.  Only for beacons does the application say whether packets have a *)
(* header, and it never says what the coding rate is, so that it goes on   *)
(* with what another one, or itself in mode 1, has left (SetFor); it sets  *)
(* nothing when it begins with a negative channel (StartBeacons).          *)
RadioIsSet ==
  /\ up # None => SetFor(up.modem, UpAir(channel))
  /\ on /\ mode = 0 /\ channel >= 0 => radio.op = "rx" /\ SetFor(radio, DownAir(channel))
  /\ on /\ mode = 1 /\ channel \in 0..7 => radio.op = "rx" /\ SetFor(radio, BeaconAir(channel))
  /\ on /\ mode = 2 => radio.op = "rx" /\ SetFor(radio, Rx2Air)

(* The application keeps up with the beacons: once none is lost, no other  *)
(* packet is received and nobody resets the runtime, it misses none after  *)
(* a while, wherever it was before, if that is a channel and the modem has *)
(* the coding rate of beacons.                                             *)
BeaconsFollowed ==
  (/\ <>[](mode = 1 /\ channel >= 0 /\ CodingRate(radio) = 1)
   /\ <>[][~BeaconLost /\ ~StrayArrives /\ ~Reset]_vars)
     => <>[][~BeaconMissed]_vars
=============================================================================
