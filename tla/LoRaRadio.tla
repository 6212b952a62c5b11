----------------------------- MODULE LoRaRadio -----------------------------
(***************************************************************************)
(* The LoRa modem and the two tasks that use it (main/lora_main.c,         *)
(* components/lora/lora.c): duktape_task, for the LoRa functions of the    *)
(* application, and isr_recv_task, which the interrupts of the modem wake  *)
(* through a queue.  They share the modem's registers and _modem_state     *)
(* without a lock and may run on two cores, so that a step is one access   *)
(* to a register, to _modem_state or to the GPIO driver; lora_sleep and    *)
(* lora_receive, which write _modem_state and the register, are one step.  *)
(*                                                                         *)
(* The modem (an SX1276) is external: its modes, three of its interrupt    *)
(* flags and its FIFO.  An interrupt of the ESP32 is the rising edge of    *)
(* its flag; one that comes while it is disabled is lost, as the driver    *)
(* clears the interrupt's status when it enables it.                       *)
(***************************************************************************)
EXTENDS Naturals, Sequences, SequencesExt

CONSTANTS
  MaxPackets,   \* bound: packets on the air
  MaxSends,     \* bound: packets sent
  MaxHops,      \* bound: channel changes that the modem asks for
  MaxTables,    \* bound: frequency tables that the application sets
  QueueLength   \* of isr_recv_queue (10)

ASSUME LoRaAssumption ==
  /\ MaxPackets \in Nat /\ MaxSends \in Nat /\ MaxHops \in Nat /\ MaxTables \in Nat
  /\ QueueLength \in Nat \ {0, 1}   \* a channel change and a packet at once

VARIABLES
  mode,      \* modem: its REG_OP_MODE
  flags,     \* modem: its REG_IRQ_FLAGS
  period,    \* modem: its REG_HOP_PERIOD is not 0, so that it hops
  fifo,      \* modem: the number of a received packet, or 0 for other bytes
  recvIrq,   \* the interrupt of RX_DONE (DIO0) is enabled
  hopIrq,    \* the interrupt of FHSS_CHANGE_CHANNEL (DIO2) is enabled
  queue,     \* isr_recv_queue
  modem,     \* _modem_state
  loraMode,  \* lora_mode
  duk,       \* duktape_task: where it is in a function of the application
  isr,       \* isr_recv_task: where it is
  table,     \* fqtable, by the number of the call that set it, 0 if it is NULL
  inHand,    \* isr_recv_task: the table it has passed to lora_fhss_handle
  irq,       \* isr_recv_task: the flags as read
  posted,    \* the LORA_MSG events, by what was read from the FIFO
  aired,     \* bound's count: packets received by the modem
  sends,     \* bound's count: packets sent
  hops,      \* bound's count: channel changes
  tables,    \* bound's count: tables set
  clash      \* history: both tasks had business with received packets, see Clash

chip == <<mode, flags, fifo>>
gpio == <<recvIrq, hopIrq>>
counts == <<aired, sends, hops>>
hopping == <<period, table, tables>>
vars == <<mode, flags, period, fifo, recvIrq, hopIrq, queue, modem, loraMode, duk, isr,
          table, inHand, irq, posted, aired, sends, hops, tables, clash>>

(* lora_main_start *)
Init ==
  /\ mode = "sleep" /\ flags = {} /\ fifo = 0
  /\ period = FALSE /\ table = 0 /\ tables = 0 /\ inHand = 0
  /\ recvIrq = FALSE /\ hopIrq = FALSE
  /\ queue = <<>>
  /\ modem = "sleep"
  /\ loraMode = "sleep"
  /\ duk = "script" /\ isr = "wait"
  /\ irq = {}
  /\ posted = <<>>
  /\ aired = 0 /\ sends = 0 /\ hops = 0
  /\ clash = FALSE

-----------------------------------------------------------------------------
(* The modem.                                                              *)

(* The interrupt handlers add a command, if the queue has room. *)
Interrupt(enabled, cmd) ==
  queue' = IF enabled /\ Len(queue) < QueueLength THEN Append(queue, cmd) ELSE queue

PacketArrives ==
  /\ mode = "rx"
  /\ aired < MaxPackets
  /\ aired' = aired + 1
  /\ flags' = flags \cup {"RX"}
  /\ fifo' = aired'
  /\ Interrupt(recvIrq /\ "RX" \notin flags, "READ_PACKET")
  /\ UNCHANGED <<mode, gpio, modem, loraMode, duk, isr, inHand, irq, posted, sends, hops, hopping>>

ChangeChannel ==
  /\ period /\ mode \in {"rx", "tx"} /\ "HOP" \notin flags
  /\ hops < MaxHops
  /\ hops' = hops + 1
  /\ flags' = flags \cup {"HOP"}
  /\ Interrupt(hopIrq, "FHSS")
  /\ UNCHANGED <<mode, fifo, gpio, modem, loraMode, duk, isr, inHand, irq, posted, aired, sends, hopping>>

Sent ==
  /\ mode = "tx"
  /\ mode' = "standby"
  /\ flags' = flags \cup {"TX"}
  /\ UNCHANGED <<fifo, gpio, queue, modem, loraMode, duk, isr, inHand, irq, posted, counts, hopping>>

ModemStep == PacketArrives \/ ChangeChannel \/ Sent

(* Sleeping, the modem loses its FIFO. *)
SetMode(m) ==
  /\ mode' = m
  /\ fifo' = IF m = "sleep" THEN 0 ELSE fifo

-----------------------------------------------------------------------------
(* isr_recv_task                                                           *)

Isr(from, to) ==
  /\ isr = from
  /\ isr' = to
  /\ inHand' = IF from = "wait" THEN table ELSE IF to = "wait" THEN 0 ELSE inHand
  /\ UNCHANGED <<gpio, loraMode, duk, counts, hopping>>

(* The table is passed to lora_fhss_handle by its address.                 *)
IsrReceiveCmd ==
  /\ Isr("wait", "fhss")
  /\ queue # <<>>
  /\ queue' = Tail(queue)
  /\ UNCHANGED <<chip, modem, irq, posted>>

(* lora_fhss_handle: the flag decides, not the command. *)
IsrFhssHandle ==
  /\ Isr("fhss", IF "HOP" \in flags THEN "hop" ELSE "read")
  /\ UNCHANGED <<chip, queue, modem, irq, posted>>

(* Fault: all the flags are cleared. *)
IsrHopClearsAll ==
  /\ Isr("hop", "wait")
  /\ flags' = {}
  /\ UNCHANGED <<mode, fifo, queue, modem, irq, posted>>

IsrHop ==
  /\ Isr("hop", "wait")
  /\ flags' = flags \ {"HOP"}
  /\ UNCHANGED <<mode, fifo, queue, modem, irq, posted>>

(* lora_receive_packet: all the flags are read and cleared.  "again" is    *)
(* the way back without a packet, which a wrong checksum takes too.        *)
IsrReadFlags ==
  /\ Isr("read", "clear")
  /\ irq' = flags
  /\ UNCHANGED <<chip, queue, modem, posted>>

(* Fault: the flags are not cleared. *)
IsrClearFlagsNot ==
  /\ \/ Isr("clear", "again")
     \/ "RX" \in irq /\ Isr("clear", "state")
  /\ UNCHANGED <<chip, queue, modem, irq, posted>>

(* Fault: the FIFO is read whatever the flags say. *)
IsrClearFlagsAny ==
  /\ Isr("clear", "state")
  /\ flags' = flags \ irq
  /\ UNCHANGED <<mode, fifo, queue, modem, irq, posted>>

IsrClearFlags ==
  /\ \/ Isr("clear", "again")
     \/ "RX" \in irq /\ Isr("clear", "state")
  /\ flags' = flags \ irq
  /\ UNCHANGED <<mode, fifo, queue, modem, irq, posted>>

(* _modem_state is MODE_RX_READ_BUF, but for a moment in lora_idle. *)
IsrModemState ==
  /\ \/ Isr("state", "idle") /\ modem' = "readbuf"
     \/ Isr("idle", "idle2") /\ modem' = "standby"
  /\ UNCHANGED <<chip, queue, irq, posted>>

IsrIdle ==
  /\ Isr("idle2", "fifo")
  /\ modem' = "readbuf"
  /\ SetMode("standby")
  /\ UNCHANGED <<flags, queue, irq, posted>>

IsrReadFifo ==
  /\ Isr("fifo", "again")
  /\ posted' = Append(posted, fifo)
  /\ modem' = "standby"
  /\ UNCHANGED <<chip, queue, irq>>

(* Fault: isr_recv_task leaves the modem idle. *)
IsrNoReceiveAgain ==
  /\ Isr("again", "wait")
  /\ irq' = {}
  /\ UNCHANGED <<chip, modem, queue, posted>>

(* lora_receive, whatever lora_mode is. *)
IsrReceiveAgain ==
  /\ Isr("again", "wait")
  /\ modem' = "rx"
  /\ SetMode("rx")
  /\ irq' = {}
  /\ UNCHANGED <<flags, queue, posted>>

IsrStep ==
  \/ IsrReceiveCmd
  \/ IsrFhssHandle
  \/ IsrHop
  \/ IsrReadFlags
  \/ IsrClearFlags
  \/ IsrModemState
  \/ IsrIdle
  \/ IsrReadFifo
  \/ IsrReceiveAgain

-----------------------------------------------------------------------------
(* duktape_task                                                            *)

DukAt(from, to) ==
  /\ duk = from
  /\ duk' = to
  /\ UNCHANGED <<queue, isr, inHand, irq, posted, aired, hops>>

Duk(from, to) == DukAt(from, to) /\ UNCHANGED hopping

(* loraReceive *)
Receive ==
  \/ /\ Duk("script", "recvOn")
     /\ recvIrq' = FALSE
     /\ UNCHANGED <<chip, hopIrq, modem, loraMode, sends>>
  \/ /\ Duk("recvOn", "recvHop")
     /\ recvIrq' = TRUE
     /\ hopIrq' = FALSE
     /\ UNCHANGED <<chip, modem, loraMode, sends>>
  \/ /\ Duk("recvHop", "recvMode")
     /\ hopIrq' = TRUE
     /\ UNCHANGED <<chip, recvIrq, modem, loraMode, sends>>
  \/ /\ Duk("recvMode", "script")
     /\ modem' = "rx"
     /\ SetMode("rx")
     /\ loraMode' = "recv"
     /\ UNCHANGED <<flags, gpio, sends>>

(* loraSleep and loraIdle *)
SleepOrIdle ==
  \/ \E m \in {"sleep", "idle"} :
       /\ Duk("script", m)
       /\ recvIrq' = (recvIrq /\ loraMode # "recv")
       /\ UNCHANGED <<chip, hopIrq, modem, loraMode, sends>>
  \/ \E m \in {"sleep", "idle"} :
       /\ Duk(m, "script")
       /\ modem' = IF m = "sleep" THEN "sleep" ELSE "standby"
       /\ SetMode(modem')
       /\ loraMode' = m
       /\ UNCHANGED <<flags, gpio, sends>>

(* setHopping frees the table, and then turns hopping off, or refuses a    *)
(* table without entries, or allocates and fills a table and turns hopping *)
(* on.                                                                     *)
SetHopping(from, to) ==
  /\ DukAt(from, to)
  /\ UNCHANGED <<chip, gpio, modem, loraMode, sends>>

HoppingFree ==
  /\ \/ SetHopping("script", "hopOff")
     \/ SetHopping("script", "script")
     \/ tables < MaxTables /\ SetHopping("script", "hopTable")
  /\ table' = 0
  /\ UNCHANGED <<period, tables>>

HoppingTable ==
  /\ SetHopping("hopTable", "hopOn")
  /\ tables' = tables + 1
  /\ table' = tables'
  /\ UNCHANGED period

HoppingPeriod ==
  /\ \/ SetHopping("hopOn", "script") /\ period' = TRUE
     \/ SetHopping("hopOff", "script") /\ period' = FALSE
  /\ UNCHANGED <<table, tables>>

(* sendPacket *)
Send ==
  /\ Duk("script", "sendWait")
  /\ sends < MaxSends
  /\ sends' = sends + 1
  /\ UNCHANGED <<chip, gpio, modem, loraMode>>

SendStart ==
  /\ Duk("sendWait", "sendIrqOff")
  /\ modem # "readbuf"
  /\ modem' = "tx"
  /\ UNCHANGED <<chip, gpio, loraMode, sends>>

SendIrqOff ==
  /\ Duk("sendIrqOff", "sendIdle")
  /\ recvIrq' = FALSE
  /\ UNCHANGED <<chip, hopIrq, modem, loraMode, sends>>

SendIdle ==
  /\ Duk("sendIdle", "sendFifo")
  /\ modem' = "tx"
  /\ SetMode("standby")
  /\ UNCHANGED <<flags, gpio, loraMode, sends>>

SendFifo ==
  /\ Duk("sendFifo", "sendMode")
  /\ fifo' = 0
  /\ UNCHANGED <<mode, flags, gpio, modem, loraMode, sends>>

SendMode ==
  /\ Duk("sendMode", "sendPoll")
  /\ SetMode("tx")
  /\ UNCHANGED <<flags, gpio, modem, loraMode, sends>>

SendDone ==
  /\ Duk("sendPoll", "sendIrqOn")
  /\ "TX" \in flags
  /\ flags' = flags \ {"TX"}
  /\ modem' = "standby"
  /\ UNCHANGED <<mode, fifo, gpio, loraMode, sends>>

(* Fault: the interrupt stays disabled. *)
SendIrqStaysOff ==
  /\ Duk("sendIrqOn", "sendReceive")
  /\ UNCHANGED <<chip, gpio, modem, loraMode, sends>>

SendIrqOn ==
  /\ Duk("sendIrqOn", "sendReceive")
  /\ recvIrq' = TRUE
  /\ UNCHANGED <<chip, hopIrq, modem, loraMode, sends>>

(* Fault: the modem goes back to receiving although it was not. *)
SendReceiveAlways ==
  /\ Duk("sendReceive", "script")
  /\ modem' = "rx" /\ SetMode("rx")
  /\ UNCHANGED <<flags, gpio, loraMode, sends>>

SendReceive ==
  /\ Duk("sendReceive", "script")
  /\ IF loraMode = "recv" THEN modem' = "rx" /\ SetMode("rx")
                          ELSE UNCHANGED <<mode, fifo, modem>>
  /\ UNCHANGED <<flags, gpio, loraMode, sends>>

SendStep ==
  \/ SendStart
  \/ SendIrqOff
  \/ SendIdle
  \/ SendFifo
  \/ SendMode
  \/ SendDone
  \/ SendIrqOn
  \/ SendReceive

-----------------------------------------------------------------------------

(* isr_recv_task has a received packet to read, or a command that it will  *)
(* take for one: one that finds no channel change left to handle.          *)
Commands == Len(queue) + (IF isr = "fhss" THEN 1 ELSE 0)

Changes == IF "HOP" \in flags /\ isr # "hop" THEN 1 ELSE 0

Reading ==
  \/ "RX" \in flags
  \/ isr \notin {"wait", "fhss", "hop"}
  \/ Commands > Changes

(* What the properties except: duktape_task operates the modem meanwhile;  *)
(* a channel change was asked for while its interrupt was disabled (by a   *)
(* sendPacket before loraReceive), which takes the command of the next     *)
(* packet; a packet is received while another one is about to be read,     *)
(* which is then read twice in its place; a channel change is handled with *)
(* no table, or one that was freed, as setHopping frees the table that is  *)
(* in use.                                                                 *)
Clash ==
  \/ duk # "script" /\ Reading
  \/ Changes > Commands
  \/ "RX" \in flags /\ isr \in {"state", "idle", "idle2"}
  \/ isr = "hop" /\ (table = 0 \/ inHand # table)

Step(A) == A /\ clash' = (clash \/ Clash')

(* Nothing is claimed of what comes after a clash: TLC need not look at it. *)
NoClash == ~clash

Next ==
  \/ Step(ModemStep)
  \/ Step(IsrStep)
  \/ Step(Receive \/ SleepOrIdle \/ Send)
  \/ Step(HoppingFree \/ HoppingTable \/ HoppingPeriod)
  \/ Step(SendStep)

Spec == Init /\ [][Next]_vars

(* The modem sends, and both tasks run. *)
Fairness ==
  /\ WF_vars(Step(Sent))
  /\ WF_vars(Step(IsrStep))
  /\ WF_vars(Step(SendStep))
  /\ WF_vars(Step(duk # "script" /\ (Receive \/ SleepOrIdle \/ HoppingTable \/ HoppingPeriod)))

FairSpec == Spec /\ Fairness

-----------------------------------------------------------------------------
(* Properties.                                                             *)

(* The application gets packets that were received, each once and in       *)
(* order, while channel changes, sends and receptions follow each other;   *)
(* unless it operates the modem while a packet is being received, or the   *)
(* next packet comes before isr_recv_task has idled the modem.             *)
PostedInOrder ==
  ~clash =>
    /\ \A k \in DOMAIN posted : posted[k] # 0
    /\ \A j, k \in DOMAIN posted : j < k => posted[j] < posted[k]

(* The modem is not left deaf: while the application has it receive, a     *)
(* received packet has a command or isr_recv_task on the way to it, the    *)
(* interrupt is enabled and the modem does receive.                        *)
NotDeaf ==
  ~clash /\ loraMode = "recv" /\ duk = "script" =>
    /\ recvIrq
    /\ "RX" \in flags => queue # <<>> \/ isr \notin {"wait", "hop", "again"}
    /\ queue = <<>> /\ isr = "wait" => mode = "rx"

(* A modem that the application has put to sleep or idle stays there, also *)
(* after a packet was sent from there.                                     *)
StaysAsSet ==
  ~clash /\ duk = "script" /\ queue = <<>> /\ isr = "wait" /\ loraMode # "recv" =>
    mode \in {"sleep", "standby"} /\ (mode = "sleep" => loraMode = "sleep")

(* sendPacket returns, whatever channel changes are handled meanwhile,     *)
(* unless a packet is being received.                                      *)
Sending ==
  duk \in {"sendWait", "sendIrqOff", "sendIdle", "sendFifo", "sendMode", "sendPoll", "sendIrqOn",
           "sendReceive"}

SendReturns == Sending ~> (~Sending \/ clash)

(* components/lora/lora.c:554: sending begins with "disableding recv irq   *)
(* first and ensure the modem is not receiving".                           *)
NotReceivingWhileSending == duk \in {"sendFifo", "sendPoll"} => mode # "rx"
=============================================================================
