--------------------------- MODULE MCLoRaWanScan ----------------------------
(***************************************************************************)
(* A small instance of LoRaWanScan for TLC.  The gateway's channels 0 and  *)
(* 8 are answered on one frequency, as are 63 and 71, the last; a payload  *)
(* of 17 bytes needs a second block of the key stream; the counters lie on *)
(* both sides of a byte; the MAC commands are none, some, and the fifteen  *)
(* bytes FOpts may hold at most, with an RXTimingSetupReq (8) last and     *)
(* before others; beacons come from gateways at the ends and around zero   *)
(* of both coordinates, in June 2025.  The first of the other applications *)
(* has changed all that sending and receiving depend on but the form of    *)
(* packets, the second that too, the third is one for beacons.             *)
(***************************************************************************)
EXTENDS LoRaWanScan

MCGwChannels == {0, 8, 63, 71}
MCPayloads == {<<>>, <<112>>, [i \in 1..17 |-> i]}
MCFCnts == {0, 255, 256, 65535}
MCFOpts == {<<>>, <<<<6>>, <<8, 0>>>>,
            <<<<3, 81, 0, 255, 1>>, <<2>>, <<7, 1, 2, 3, 4, 5>>, <<4, 3>>, <<6>>>>,
            <<<<5, 1, 2, 3, 4>>>>, <<<<8, 0>>, <<6>>>>, <<<<2>>, <<8, 6>>, <<4, 3>>>>}
MCPlaces == {<<0, 0, 0>>, <<1, 1, -1>>, <<2, 8388607, -8388608>>, <<255, -8388608, 8388607>>}
MCEra == 1400000 * 1024
MCOtherSettings ==
  {[freq |-> 9020, bw |-> 7800, sf |-> 6, cr |-> 5, len |-> 0, preamble |-> 100, word |-> 18,
    power |-> 2, crc |-> FALSE, inverted |-> TRUE],
   [freq |-> 9280, bw |-> 250000, sf |-> 12, cr |-> 6, len |-> 50, preamble |-> 6, word |-> 255,
    power |-> 17, crc |-> TRUE, inverted |-> FALSE],
   [freq |-> 9233, bw |-> 125000, sf |-> 9, cr |-> 5, len |-> 23, preamble |-> 10, word |-> 52,
    power |-> 17, crc |-> FALSE, inverted |-> TRUE]}
=============================================================================
