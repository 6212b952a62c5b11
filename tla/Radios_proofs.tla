--------------------------- MODULE Radios_proofs ---------------------------
(***************************************************************************)
(* The safety properties of the two radios.                                *)
(*                                                                         *)
(* LoRaRadio: packets are posted once and in order, the modem is not left  *)
(* deaf, and it stays as the application set it; for any number of         *)
(* packets, sends, channel changes and tables, and a queue of two commands *)
(* at least.                                                               *)
(*                                                                         *)
(* BleLink: frames arrive in order in both directions, as long as client   *)
(* and board read their lengths, frames announced the other way round are  *)
(* lost, on the first connection nothing is torn without a reason, and it  *)
(* implements FrameChannel; for any MTUs, lengths and pieces of frames,    *)
(* and any number of frames, connections and waiting events.               *)
(***************************************************************************)
EXTENDS LoRaRadio, BleLink, TLAPS


IsrPlaces == {"wait", "fhss", "hop", "read", "clear", "state", "idle", "idle2", "fifo", "again"}

DukPlaces ==
  {"script", "recvOn", "recvHop", "recvMode", "sleep", "idle", "hopOff", "hopTable", "hopOn",
   "sendWait", "sendIrqOff", "sendIdle", "sendFifo", "sendMode", "sendPoll", "sendIrqOn",
   "sendReceive"}

Flags == {"RX", "TX", "HOP"}

Types ==
  /\ mode \in {"sleep", "standby", "rx", "tx"}
  /\ flags \in SUBSET Flags /\ irq \in SUBSET Flags
  /\ period \in BOOLEAN /\ recvIrq \in BOOLEAN /\ hopIrq \in BOOLEAN
  /\ queue \in Seq({"READ_PACKET", "FHSS"})
  /\ loraMode \in {"sleep", "idle", "recv"}
  /\ duk \in DukPlaces /\ isr \in IsrPlaces
  /\ table \in Nat /\ tables \in Nat
  /\ fifo \in Nat /\ aired \in Nat
  /\ posted \in Seq(Nat)

(* A channel change is handled only when the modem has asked for one.      *)
Hopping == isr = "hop" => "HOP" \in flags

(* What the mode of the modem owes to lora_mode and to a sendPacket, and   *)
(* what isr_recv_task has to read there is only if the application wanted  *)
(* to receive.                                                             *)
Modes ==
  /\ mode = "rx" => loraMode = "recv"
  /\ mode = "sleep" => loraMode = "sleep"
  /\ mode = "tx" => duk = "sendPoll"
  /\ "TX" \in flags => duk = "sendPoll" /\ mode # "tx"
  /\ Reading => loraMode = "recv"
  /\ loraMode = "recv" =>
       \/ mode = "rx"
       \/ isr \in {"fifo", "again"}
       \/ duk \in {"sendFifo", "sendMode", "sendPoll", "sendIrqOn", "sendReceive"}
  /\ isr = "fifo" => mode = "standby"

(* The interrupts are enabled while the application receives, but for the  *)
(* places in its functions where they are not.                             *)
Interrupts ==
  /\ loraMode = "recv" =>
       \/ recvIrq
       \/ duk \in {"recvOn", "sleep", "idle", "sendIdle", "sendFifo", "sendMode", "sendPoll",
                   "sendIrqOn"}
  /\ duk \in {"recvHop", "recvMode", "sendReceive"} => recvIrq
  /\ loraMode = "recv" => hopIrq \/ duk = "recvHop"
  /\ duk = "recvMode" => hopIrq

(* A received packet that isr_recv_task is not about to read has a command *)
(* of its own, besides the one for a channel change.                       *)
Unread == isr \in {"wait", "fhss", "hop", "again"} \/ (isr = "clear" /\ "RX" \notin irq)

Heard ==
  /\ "RX" \in flags /\ Unread => Commands > Changes
  /\ isr = "fifo" => "RX" \notin flags

(* What is in the FIFO, while it is to be read, has not been posted yet.   *)
Pending ==
  \/ "RX" \in flags
  \/ isr = "clear" /\ "RX" \in irq
  \/ isr \in {"state", "idle", "idle2", "fifo"}

Fresh ==
  /\ fifo <= aired
  /\ \A k \in DOMAIN posted : posted[k] # 0 /\ posted[k] <= aired
  /\ \A j, k \in DOMAIN posted : j < k => posted[j] < posted[k]
  /\ Pending => fifo # 0 /\ \A k \in DOMAIN posted : posted[k] < fifo

Inv == Types /\ ~Clash /\ Hopping /\ Modes /\ Interrupts /\ Heard /\ Fresh

(* Nothing is claimed of what comes after a clash. *)
IInv == ~clash => Inv

-----------------------------------------------------------------------------

LEMMA InitIInv == Init => IInv
  <1> SUFFICES ASSUME Init
               PROVE  Inv
    BY DEF IInv
  <1>1. Types
    <2>1. flags \in SUBSET Flags /\ irq \in SUBSET Flags
      BY DEF Init
    <2>2. queue \in Seq({"READ_PACKET", "FHSS"}) /\ posted \in Seq(Nat)
      BY DEF Init
    <2>3. QED
      BY <2>1, <2>2 DEF Init, Types, DukPlaces, IsrPlaces
  <1>2. ~Clash
    BY DEF Init, Clash, Reading, Commands, Changes
  <1>3. Hopping /\ Modes /\ Interrupts
    BY DEF Init, Hopping, Modes, Interrupts, Reading, Commands, Changes
  <1>4. Heard /\ Fresh
    BY DEF Init, Heard, Fresh, Pending
  <1>5. QED
    BY <1>1, <1>2, <1>3, <1>4 DEF Inv

(* Without a clash the application is in no function, and the modem not    *)
(* sending, while isr_recv_task has something to read.                     *)
LEMMA ReadingAlone ==
  ASSUME Inv
  PROVE  /\ Reading => duk = "script" /\ loraMode = "recv" /\ mode # "tx" /\ "TX" \notin flags
         /\ Changes <= Commands /\ Changes \in 0..1 /\ Commands \in Nat
         /\ "RX" \in flags => isr \notin {"state", "idle", "idle2", "fifo"}
  <1>1. Changes \in 0..1 /\ Commands \in Nat
    BY DEF Inv, Types, Changes, Commands
  <1>2. QED
    BY <1>1 DEF Inv, Clash, Modes, Heard


(* A command that is added is one more, unless the queue is full.          *)
LEMMA CommandAdded ==
  ASSUME Types, isr' = isr, NEW cmd \in {"READ_PACKET", "FHSS"}, NEW enabled \in BOOLEAN,
         Interrupt(enabled, cmd)
  PROVE  /\ Commands \in Nat /\ Commands' \in Nat
         /\ Commands' = Commands \/ Commands' = Commands + 1
         /\ enabled => Commands' = Commands + 1 \/ Commands' >= 2
  <1> DEFINE Add == enabled /\ Len(queue) < QueueLength
  <1> USE LoRaAssumption DEF Interrupt, Types
  <1>1. Len(queue) \in Nat /\ QueueLength \in Nat /\ QueueLength >= 2
    OBVIOUS
  <1>2. Len(queue') = IF Add THEN Len(queue) + 1 ELSE Len(queue)
    OBVIOUS
  <1>3. CASE isr = "fhss"
    <2>1. Commands = Len(queue) + 1 /\ Commands' = Len(queue') + 1
      BY <1>3 DEF Commands
    <2>2. QED
      BY <1>1, <1>2, <2>1
  <1>4. CASE isr # "fhss"
    <2>1. Commands = Len(queue) /\ Commands' = Len(queue')
      BY <1>1, <1>2, <1>4 DEF Commands
    <2>2. QED
      BY <1>1, <1>2, <2>1
  <1>5. QED
    BY <1>3, <1>4

(* The modem: what it asks for gets a command.                             *)
LEMMA ModemKeeps ==
  ASSUME Inv, ModemStep, ~Clash'
  PROVE  Inv'
  <1> USE LoRaAssumption, ReadingAlone DEF Inv
  <1>1. CASE PacketArrives
    <2> USE <1>1 DEF PacketArrives, Interrupt, gpio, hopping
    <2>1. Types'
      BY DEF Types, Flags, DukPlaces, IsrPlaces
    <2>2. Hopping'
      BY DEF Hopping, Types, Clash, Reading, Commands, Changes
    <2>3. Modes'
      BY DEF Modes, Types, Reading, Commands, Changes, Clash
    <2>4. Interrupts'
      BY DEF Interrupts, Modes, Types
    <2>5. Heard'
      <3>1. loraMode = "recv" /\ duk = "script"
        BY DEF Modes, Clash, Reading
      <3>2. recvIrq /\ isr # "fifo"
        BY <3>1 DEF Interrupts, Modes
      <3>3. Changes' = Changes /\ Changes <= Commands /\ Changes \in 0..1 /\ Commands \in Nat
        BY DEF Types, Changes
      <3>4. CASE "RX" \in flags
        <4>1. queue' = queue
          BY <3>4
        <4>2. QED
          BY <3>2, <3>4, <4>1 DEF Heard, Unread, Commands, Changes
      <3>5. CASE "RX" \notin flags
        <4> HIDE DEF Interrupt
        <4>1. recvIrq /\ "RX" \notin flags <=> TRUE
          BY <3>2, <3>5
        <4>2. Interrupt(TRUE, "READ_PACKET")
          BY <4>1 DEF Interrupt
        <4>3. Commands' \in Nat /\ (Commands' = Commands + 1 \/ Commands' >= 2)
          BY <4>2, CommandAdded
        <4>4. Commands' > Changes'
          BY <3>3, <4>3
        <4>5. QED
          BY <3>2, <4>4 DEF Heard
      <3>6. QED
        BY <3>4, <3>5
    <2>6. Fresh'
      BY SMTT(60) DEF Fresh, Pending, Types, Reading, Clash, Heard, Modes
    <2>7. QED
      BY <2>1, <2>2, <2>3, <2>4, <2>5, <2>6
  <1>2. CASE ChangeChannel
    <2> USE <1>2 DEF ChangeChannel, Interrupt, gpio, hopping
    <2>1. Types'
      BY DEF Types, Flags, DukPlaces, IsrPlaces
    <2>2. Hopping'
      BY DEF Hopping, Types, Clash, Reading, Commands, Changes
    <2>3. Modes'
      BY DEF Modes, Types, Reading, Commands, Changes, Clash
    <2>4. Interrupts'
      BY DEF Interrupts, Modes, Types
    <2>5. Heard'
      <3> HIDE DEF Interrupt
      <3>1. Changes = 0 /\ Changes' = 1
        BY DEF Hopping, Changes
      <3>2. ("RX" \in flags' <=> "RX" \in flags) /\ isr' = isr /\ (Unread' <=> Unread)
        BY DEF Unread
      <3>3. CASE "RX" \in flags /\ Unread
        <4>1. Commands > 0 /\ Commands \in Nat
          BY <3>1, <3>3 DEF Heard
        <4>2. hopIrq = TRUE
          BY <3>3 DEF Reading, Interrupts, Types
        <4>3. Commands' \in Nat /\ (Commands' = Commands + 1 \/ Commands' >= 2)
          BY <4>2, CommandAdded
        <4>4. Commands' > Changes'
          BY <3>1, <4>1, <4>3
        <4>5. QED
          BY <3>2, <4>4 DEF Heard
      <3>4. QED
        BY <3>2, <3>3 DEF Heard
    <2>6. Fresh'
      BY DEF Fresh, Pending, Types, Reading, Clash, Heard, Modes
    <2>7. QED
      BY <2>1, <2>2, <2>3, <2>4, <2>5, <2>6
  <1>3. CASE Sent
    <2> USE <1>3 DEF Sent, gpio, counts, hopping
    <2>1. Types'
      BY DEF Types, Flags, DukPlaces, IsrPlaces
    <2>2. Hopping'
      BY DEF Hopping, Types, Clash, Reading, Commands, Changes
    <2>3. Modes'
      BY DEF Modes, Types, Reading, Commands, Changes, Clash
    <2>4. Interrupts'
      BY DEF Interrupts, Modes, Types
    <2>5. Heard'
      BY DEF Heard, Unread, Types, Reading, Commands, Changes, Clash, Modes, Interrupts, Hopping
    <2>6. Fresh'
      BY DEF Fresh, Pending, Types, Reading, Clash, Heard, Modes
    <2>7. QED
      BY <2>1, <2>2, <2>3, <2>4, <2>5, <2>6
  <1>4. QED
    BY <1>1, <1>2, <1>3 DEF ModemStep

(* isr_recv_task: a command taken off the queue is at the place "fhss", so *)
(* that Commands does not change until it has been decided what it is for. *)
LEMMA IsrKeeps ==
  ASSUME Inv, IsrStep, ~Clash'
  PROVE  Inv'
  <1> USE LoRaAssumption, ReadingAlone DEF Inv
  <1>1. CASE IsrReceiveCmd
    <2> USE <1>1 DEF IsrReceiveCmd, Isr, SetMode, chip, gpio, counts, hopping
    <2>1. Types'
      BY DEF Types, Flags, DukPlaces, IsrPlaces
    <2>2. Hopping'
      BY DEF Hopping, Types, Clash, Reading, Commands, Changes
    <2>3. Modes'
      BY DEF Modes, Types, Reading, Commands, Changes, Clash
    <2>4. Interrupts'
      BY DEF Interrupts, Modes, Types
    <2>5. Heard'
      BY DEF Heard, Unread, Types, Reading, Commands, Changes, Clash, Modes, Interrupts, Hopping
    <2>6. Fresh'
      BY DEF Fresh, Pending, Types, Reading, Clash, Heard, Modes
    <2>7. QED
      BY <2>1, <2>2, <2>3, <2>4, <2>5, <2>6
  <1>2. CASE IsrFhssHandle
    <2> USE <1>2 DEF IsrFhssHandle, Isr, SetMode, chip, gpio, counts, hopping
    <2>1. Types'
      BY DEF Types, Flags, DukPlaces, IsrPlaces
    <2>2. Hopping'
      BY DEF Hopping, Types, Clash, Reading, Commands, Changes
    <2>3. Modes'
      BY DEF Modes, Types, Reading, Commands, Changes, Clash
    <2>4. Interrupts'
      BY DEF Interrupts, Modes, Types
    <2>5. Heard'
      BY DEF Heard, Unread, Types, Reading, Commands, Changes, Clash, Modes, Interrupts, Hopping
    <2>6. Fresh'
      BY DEF Fresh, Pending, Types, Reading, Clash, Heard, Modes
    <2>7. QED
      BY <2>1, <2>2, <2>3, <2>4, <2>5, <2>6
  <1>3. CASE IsrHop
    <2> USE <1>3 DEF IsrHop, Isr, SetMode, chip, gpio, counts, hopping
    <2>1. Types'
      BY DEF Types, Flags, DukPlaces, IsrPlaces
    <2>2. Hopping'
      BY DEF Hopping, Types, Clash, Reading, Commands, Changes
    <2>3. Modes'
      BY DEF Modes, Types, Reading, Commands, Changes, Clash
    <2>4. Interrupts'
      BY DEF Interrupts, Modes, Types
    <2>5. Heard'
      BY DEF Heard, Unread, Types, Reading, Commands, Changes, Clash, Modes, Interrupts, Hopping
    <2>6. Fresh'
      BY DEF Fresh, Pending, Types, Reading, Clash, Heard, Modes
    <2>7. QED
      BY <2>1, <2>2, <2>3, <2>4, <2>5, <2>6
  <1>4. CASE IsrReadFlags
    <2> USE <1>4 DEF IsrReadFlags, Isr, SetMode, chip, gpio, counts, hopping
    <2>1. Types'
      BY DEF Types, Flags, DukPlaces, IsrPlaces
    <2>2. Hopping'
      BY DEF Hopping, Types, Clash, Reading, Commands, Changes
    <2>3. Modes'
      BY DEF Modes, Types, Reading, Commands, Changes, Clash
    <2>4. Interrupts'
      BY DEF Interrupts, Modes, Types
    <2>5. Heard'
      BY DEF Heard, Unread, Types, Reading, Commands, Changes, Clash, Modes, Interrupts, Hopping
    <2>6. Fresh'
      BY DEF Fresh, Pending, Types, Reading, Clash, Heard, Modes
    <2>7. QED
      BY <2>1, <2>2, <2>3, <2>4, <2>5, <2>6
  <1>5. CASE IsrClearFlags
    <2> USE <1>5 DEF IsrClearFlags, Isr, SetMode, chip, gpio, counts, hopping
    <2>1. Types'
      BY DEF Types, Flags, DukPlaces, IsrPlaces
    <2>2. Hopping'
      BY DEF Hopping, Types, Clash, Reading, Commands, Changes
    <2>3. Modes'
      BY DEF Modes, Types, Reading, Commands, Changes, Clash
    <2>4. Interrupts'
      BY DEF Interrupts, Modes, Types
    <2>5. Heard'
      BY DEF Heard, Unread, Types, Reading, Commands, Changes, Clash, Modes, Interrupts, Hopping
    <2>6. Fresh'
      BY DEF Fresh, Pending, Types, Reading, Clash, Heard, Modes
    <2>7. QED
      BY <2>1, <2>2, <2>3, <2>4, <2>5, <2>6
  <1>6. CASE IsrModemState
    <2> USE <1>6 DEF IsrModemState, Isr, SetMode, chip, gpio, counts, hopping
    <2>1. Types'
      BY DEF Types, Flags, DukPlaces, IsrPlaces
    <2>2. Hopping'
      BY DEF Hopping, Types, Clash, Reading, Commands, Changes
    <2>3. Modes'
      BY DEF Modes, Types, Reading, Commands, Changes, Clash
    <2>4. Interrupts'
      BY DEF Interrupts, Modes, Types
    <2>5. Heard'
      BY DEF Heard, Unread, Types, Reading, Commands, Changes, Clash, Modes, Interrupts, Hopping
    <2>6. Fresh'
      BY DEF Fresh, Pending, Types, Reading, Clash, Heard, Modes
    <2>7. QED
      BY <2>1, <2>2, <2>3, <2>4, <2>5, <2>6
  <1>7. CASE IsrIdle
    <2> USE <1>7 DEF IsrIdle, Isr, SetMode, chip, gpio, counts, hopping
    <2>1. Types'
      BY DEF Types, Flags, DukPlaces, IsrPlaces
    <2>2. Hopping'
      BY DEF Hopping, Types, Clash, Reading, Commands, Changes
    <2>3. Modes'
      BY DEF Modes, Types, Reading, Commands, Changes, Clash
    <2>4. Interrupts'
      BY DEF Interrupts, Modes, Types
    <2>5. Heard'
      BY DEF Heard, Unread, Types, Reading, Commands, Changes, Clash, Modes, Interrupts, Hopping
    <2>6. Fresh'
      BY DEF Fresh, Pending, Types, Reading, Clash, Heard, Modes
    <2>7. QED
      BY <2>1, <2>2, <2>3, <2>4, <2>5, <2>6
  <1>8. CASE IsrReadFifo
    <2> USE <1>8 DEF IsrReadFifo, Isr, SetMode, chip, gpio, counts, hopping
    <2>1. Types'
      BY DEF Types, Flags, DukPlaces, IsrPlaces
    <2>2. Hopping'
      BY DEF Hopping, Types, Clash, Reading, Commands, Changes
    <2>3. Modes'
      BY DEF Modes, Types, Reading, Commands, Changes, Clash
    <2>4. Interrupts'
      BY DEF Interrupts, Modes, Types
    <2>5. Heard'
      BY DEF Heard, Unread, Types, Reading, Commands, Changes, Clash, Modes, Interrupts, Hopping
    <2>6. Fresh'
      BY SMTT(120) DEF Fresh, Pending, Types, Reading, Clash, Heard, Modes
    <2>7. QED
      BY <2>1, <2>2, <2>3, <2>4, <2>5, <2>6
  <1>9. CASE IsrReceiveAgain
    <2> USE <1>9 DEF IsrReceiveAgain, Isr, SetMode, chip, gpio, counts, hopping
    <2>1. Types'
      BY DEF Types, Flags, DukPlaces, IsrPlaces
    <2>2. Hopping'
      BY DEF Hopping, Types, Clash, Reading, Commands, Changes
    <2>3. Modes'
      BY DEF Modes, Types, Reading, Commands, Changes, Clash
    <2>4. Interrupts'
      BY DEF Interrupts, Modes, Types
    <2>5. Heard'
      BY DEF Heard, Unread, Types, Reading, Commands, Changes, Clash, Modes, Interrupts, Hopping
    <2>6. Fresh'
      BY DEF Fresh, Pending, Types, Reading, Clash, Heard, Modes
    <2>7. QED
      BY <2>1, <2>2, <2>3, <2>4, <2>5, <2>6
  <1>10. QED
    BY <1>1, <1>2, <1>3, <1>4, <1>5, <1>6, <1>7, <1>8, <1>9 DEF IsrStep

(* loraReceive, loraSleep, loraIdle and the call of sendPacket.            *)
LEMMA FunctionKeeps ==
  ASSUME Inv, Receive \/ SleepOrIdle \/ Send, ~Clash'
  PROVE  Inv'
  <1> USE LoRaAssumption, ReadingAlone DEF Inv
  <1>1. CASE Receive
    <2> USE <1>1 DEF Receive, Duk, DukAt, SetMode, chip, gpio, hopping
    <2>1. Types'
      <3>1. duk' \in DukPlaces
        BY DEF Types, DukPlaces
      <3>2. QED
        BY <3>1 DEF Types
    <2>2. Hopping'
      BY SMTT(60) DEF Hopping, Types, Clash, Reading, Commands, Changes
    <2>3. Modes'
      BY SMTT(60) DEF Modes, Types, Reading, Commands, Changes, Clash
    <2>4. Interrupts'
      BY DEF Interrupts, Modes, Types
    <2>5. Heard'
      BY DEF Heard, Unread, Types, Reading, Commands, Changes, Clash, Modes, Interrupts, Hopping
    <2>6. Fresh'
      BY DEF Fresh, Pending, Types, Reading, Clash, Heard, Modes
    <2>7. QED
      BY <2>1, <2>2, <2>3, <2>4, <2>5, <2>6
  <1>2. CASE SleepOrIdle
    <2> USE <1>2 DEF SleepOrIdle, Duk, DukAt, SetMode, chip, gpio, hopping
    <2>1. Types'
      <3>1. duk' \in DukPlaces
        BY DEF Types, DukPlaces
      <3>2. mode' \in {"sleep", "standby", "rx", "tx"} /\ fifo' \in Nat
        BY DEF Types
      <3>3. QED
        BY <3>1, <3>2 DEF Types
    <2>2. Hopping'
      BY DEF Hopping, Types, Clash, Reading, Commands, Changes
    <2>3. Modes'
      BY DEF Modes, Types, Reading, Commands, Changes, Clash
    <2>4. Interrupts'
      BY DEF Interrupts, Modes, Types
    <2>5. Heard'
      BY DEF Heard, Unread, Types, Reading, Commands, Changes, Clash, Modes, Interrupts, Hopping
    <2>6. Fresh'
      BY DEF Fresh, Pending, Types, Reading, Clash, Heard, Modes
    <2>7. QED
      BY <2>1, <2>2, <2>3, <2>4, <2>5, <2>6
  <1>3. CASE Send
    <2> USE <1>3 DEF Send, Duk, DukAt, SetMode, chip, gpio, hopping
    <2>1. Types'
      BY DEF Types, Flags, DukPlaces, IsrPlaces
    <2>2. Hopping'
      BY DEF Hopping, Types, Clash, Reading, Commands, Changes
    <2>3. Modes'
      BY DEF Modes, Types, Reading, Commands, Changes, Clash
    <2>4. Interrupts'
      BY DEF Interrupts, Modes, Types
    <2>5. Heard'
      BY DEF Heard, Unread, Types, Reading, Commands, Changes, Clash, Modes, Interrupts, Hopping
    <2>6. Fresh'
      BY DEF Fresh, Pending, Types, Reading, Clash, Heard, Modes
    <2>7. QED
      BY <2>1, <2>2, <2>3, <2>4, <2>5, <2>6
  <1>4. QED
    BY <1>1, <1>2, <1>3

(* setHopping: the modem and its interrupts stay as they are.              *)
LEMMA HoppingKeeps ==
  ASSUME Inv, HoppingFree \/ HoppingTable \/ HoppingPeriod, ~Clash'
  PROVE  Inv'
  <1> USE LoRaAssumption, ReadingAlone DEF Inv
  <1>1. CASE HoppingFree
    <2> USE <1>1 DEF HoppingFree, SetHopping, DukAt, chip, gpio
    <2>1. Types'
      <3>1. duk' \in DukPlaces
        BY DEF Types, DukPlaces
      <3>2. QED
        BY <3>1 DEF Types
    <2>2. Hopping'
      BY DEF Hopping, Types, Clash, Reading, Commands, Changes
    <2>3. Modes'
      BY DEF Modes, Types, Reading, Commands, Changes, Clash
    <2>4. Interrupts'
      BY DEF Interrupts, Modes, Types
    <2>5. Heard'
      BY DEF Heard, Unread, Types, Reading, Commands, Changes, Clash, Modes, Interrupts, Hopping
    <2>6. Fresh'
      BY DEF Fresh, Pending, Types, Reading, Clash, Heard, Modes
    <2>7. QED
      BY <2>1, <2>2, <2>3, <2>4, <2>5, <2>6
  <1>2. CASE HoppingTable
    <2> USE <1>2 DEF HoppingTable, SetHopping, DukAt, chip, gpio
    <2>1. Types'
      BY DEF Types, Flags, DukPlaces, IsrPlaces
    <2>2. Hopping'
      BY DEF Hopping, Types, Clash, Reading, Commands, Changes
    <2>3. Modes'
      BY DEF Modes, Types, Reading, Commands, Changes, Clash
    <2>4. Interrupts'
      BY DEF Interrupts, Modes, Types
    <2>5. Heard'
      BY DEF Heard, Unread, Types, Reading, Commands, Changes, Clash, Modes, Interrupts, Hopping
    <2>6. Fresh'
      BY DEF Fresh, Pending, Types, Reading, Clash, Heard, Modes
    <2>7. QED
      BY <2>1, <2>2, <2>3, <2>4, <2>5, <2>6
  <1>3. CASE HoppingPeriod
    <2> USE <1>3 DEF HoppingPeriod, SetHopping, DukAt, chip, gpio
    <2>1. Types'
      BY ZenonT(120) DEF Types, Flags, DukPlaces, IsrPlaces
    <2>2. Hopping'
      BY DEF Hopping, Types, Clash, Reading, Commands, Changes
    <2>3. Modes'
      BY DEF Modes, Types, Reading, Commands, Changes, Clash
    <2>4. Interrupts'
      BY DEF Interrupts, Modes, Types
    <2>5. Heard'
      BY DEF Heard, Unread, Types, Reading, Commands, Changes, Clash, Modes, Interrupts, Hopping
    <2>6. Fresh'
      BY DEF Fresh, Pending, Types, Reading, Clash, Heard, Modes
    <2>7. QED
      BY <2>1, <2>2, <2>3, <2>4, <2>5, <2>6
  <1>4. QED
    BY <1>1, <1>2, <1>3

(* sendPacket: nothing is to be read meanwhile (ReadingAlone).             *)
LEMMA SendKeeps ==
  ASSUME Inv, SendStep, ~Clash'
  PROVE  Inv'
  <1> USE LoRaAssumption, ReadingAlone DEF Inv
  <1>1. CASE SendStart
    <2> USE <1>1 DEF SendStart, Duk, DukAt, SetMode, chip, gpio, hopping
    <2>1. Types'
      BY DEF Types, Flags, DukPlaces, IsrPlaces
    <2>2. Hopping'
      BY DEF Hopping, Types, Clash, Reading, Commands, Changes
    <2>3. Modes'
      BY DEF Modes, Types, Reading, Commands, Changes, Clash
    <2>4. Interrupts'
      BY DEF Interrupts, Modes, Types
    <2>5. Heard'
      BY DEF Heard, Unread, Types, Reading, Commands, Changes, Clash, Modes, Interrupts, Hopping
    <2>6. Fresh'
      BY DEF Fresh, Pending, Types, Reading, Clash, Heard, Modes
    <2>7. QED
      BY <2>1, <2>2, <2>3, <2>4, <2>5, <2>6
  <1>2. CASE SendIrqOff
    <2> USE <1>2 DEF SendIrqOff, Duk, DukAt, SetMode, chip, gpio, hopping
    <2>1. Types'
      BY ZenonT(60) DEF Types, Flags, DukPlaces, IsrPlaces
    <2>2. Hopping'
      BY DEF Hopping, Types, Clash, Reading, Commands, Changes
    <2>3. Modes'
      BY DEF Modes, Types, Reading, Commands, Changes, Clash
    <2>4. Interrupts'
      BY DEF Interrupts, Modes, Types
    <2>5. Heard'
      BY DEF Heard, Unread, Types, Reading, Commands, Changes, Clash, Modes, Interrupts, Hopping
    <2>6. Fresh'
      BY DEF Fresh, Pending, Types, Reading, Clash, Heard, Modes
    <2>7. QED
      BY <2>1, <2>2, <2>3, <2>4, <2>5, <2>6
  <1>3. CASE SendIdle
    <2> USE <1>3 DEF SendIdle, Duk, DukAt, SetMode, chip, gpio, hopping
    <2>1. Types'
      BY DEF Types, Flags, DukPlaces, IsrPlaces
    <2>2. Hopping'
      BY DEF Hopping, Types, Clash, Reading, Commands, Changes
    <2>3. Modes'
      BY DEF Modes, Types, Reading, Commands, Changes, Clash
    <2>4. Interrupts'
      BY DEF Interrupts, Modes, Types
    <2>5. Heard'
      BY DEF Heard, Unread, Types, Reading, Commands, Changes, Clash, Modes, Interrupts, Hopping
    <2>6. Fresh'
      BY DEF Fresh, Pending, Types, Reading, Clash, Heard, Modes
    <2>7. QED
      BY <2>1, <2>2, <2>3, <2>4, <2>5, <2>6
  <1>4. CASE SendFifo
    <2> USE <1>4 DEF SendFifo, Duk, DukAt, SetMode, chip, gpio, hopping
    <2>1. Types'
      BY DEF Types, Flags, DukPlaces, IsrPlaces
    <2>2. Hopping'
      BY DEF Hopping, Types, Clash, Reading, Commands, Changes
    <2>3. Modes'
      BY DEF Modes, Types, Reading, Commands, Changes, Clash
    <2>4. Interrupts'
      BY DEF Interrupts, Modes, Types
    <2>5. Heard'
      BY DEF Heard, Unread, Types, Reading, Commands, Changes, Clash, Modes, Interrupts, Hopping
    <2>6. Fresh'
      BY DEF Fresh, Pending, Types, Reading, Clash, Heard, Modes
    <2>7. QED
      BY <2>1, <2>2, <2>3, <2>4, <2>5, <2>6
  <1>5. CASE SendMode
    <2> USE <1>5 DEF SendMode, Duk, DukAt, SetMode, chip, gpio, hopping
    <2>1. Types'
      BY DEF Types, Flags, DukPlaces, IsrPlaces
    <2>2. Hopping'
      BY DEF Hopping, Types, Clash, Reading, Commands, Changes
    <2>3. Modes'
      BY DEF Modes, Types, Reading, Commands, Changes, Clash
    <2>4. Interrupts'
      BY DEF Interrupts, Modes, Types
    <2>5. Heard'
      BY DEF Heard, Unread, Types, Reading, Commands, Changes, Clash, Modes, Interrupts, Hopping
    <2>6. Fresh'
      BY DEF Fresh, Pending, Types, Reading, Clash, Heard, Modes
    <2>7. QED
      BY <2>1, <2>2, <2>3, <2>4, <2>5, <2>6
  <1>6. CASE SendDone
    <2> USE <1>6 DEF SendDone, Duk, DukAt, SetMode, chip, gpio, hopping
    <2>1. Types'
      BY DEF Types, Flags, DukPlaces, IsrPlaces
    <2>2. Hopping'
      BY DEF Hopping, Types, Clash, Reading, Commands, Changes
    <2>3. Modes'
      BY DEF Modes, Types, Reading, Commands, Changes, Clash
    <2>4. Interrupts'
      BY DEF Interrupts, Modes, Types
    <2>5. Heard'
      BY DEF Heard, Unread, Types, Reading, Commands, Changes, Clash, Modes, Interrupts, Hopping
    <2>6. Fresh'
      BY DEF Fresh, Pending, Types, Reading, Clash, Heard, Modes
    <2>7. QED
      BY <2>1, <2>2, <2>3, <2>4, <2>5, <2>6
  <1>7. CASE SendIrqOn
    <2> USE <1>7 DEF SendIrqOn, Duk, DukAt, SetMode, chip, gpio, hopping
    <2>1. Types'
      BY DEF Types, Flags, DukPlaces, IsrPlaces
    <2>2. Hopping'
      BY DEF Hopping, Types, Clash, Reading, Commands, Changes
    <2>3. Modes'
      BY DEF Modes, Types, Reading, Commands, Changes, Clash
    <2>4. Interrupts'
      BY DEF Interrupts, Modes, Types
    <2>5. Heard'
      BY DEF Heard, Unread, Types, Reading, Commands, Changes, Clash, Modes, Interrupts, Hopping
    <2>6. Fresh'
      BY DEF Fresh, Pending, Types, Reading, Clash, Heard, Modes
    <2>7. QED
      BY <2>1, <2>2, <2>3, <2>4, <2>5, <2>6
  <1>8. CASE SendReceive
    <2> USE <1>8 DEF SendReceive, Duk, DukAt, SetMode, chip, gpio, hopping
    <2>1. Types'
      BY DEF Types, Flags, DukPlaces, IsrPlaces
    <2>2. Hopping'
      BY DEF Hopping, Types, Clash, Reading, Commands, Changes
    <2>3. Modes'
      BY DEF Modes, Types, Reading, Commands, Changes, Clash
    <2>4. Interrupts'
      BY DEF Interrupts, Modes, Types
    <2>5. Heard'
      BY DEF Heard, Unread, Types, Reading, Commands, Changes, Clash, Modes, Interrupts, Hopping
    <2>6. Fresh'
      BY DEF Fresh, Pending, Types, Reading, Clash, Heard, Modes
    <2>7. QED
      BY <2>1, <2>2, <2>3, <2>4, <2>5, <2>6
  <1>9. QED
    BY <1>1, <1>2, <1>3, <1>4, <1>5, <1>6, <1>7, <1>8 DEF SendStep

LEMMA StepKeeps == IInv /\ [Next]_vars => IInv'
  <1> SUFFICES ASSUME IInv, [Next]_vars, ~clash'
               PROVE  Inv'
    BY DEF IInv
  <1>1. CASE UNCHANGED vars
    <2>1. ~clash /\ Inv
      BY <1>1 DEF IInv, vars
    <2>2. Types' /\ ~Clash' /\ Hopping' /\ Interrupts'
      BY <1>1, <2>1 DEF Inv, vars, Types, Clash, Reading, Commands, Changes, Hopping, Interrupts
    <2>3. Modes' /\ Heard' /\ Fresh'
      BY <1>1, <2>1 DEF Inv, vars, Modes, Reading, Commands, Changes, Heard, Unread, Fresh, Pending
    <2>4. QED
      BY <2>2, <2>3 DEF Inv
  <1>2. CASE Next
    <2>1. ~clash /\ Inv /\ ~Clash'
      BY <1>2 DEF Next, Step, IInv
    <2>2. QED
      BY <1>2, <2>1, ModemKeeps, IsrKeeps, FunctionKeeps, HoppingKeeps, SendKeeps DEF Next, Step
  <1>3. QED
    BY <1>1, <1>2

LEMMA Invariance == Spec => []IInv
  BY InitIInv, StepKeeps, PTL DEF Spec

-----------------------------------------------------------------------------

(* Packets reach the application once and in the order of their reception *)
(* (lora_receive_packet, lora_main.c:111).                                 *)
THEOREM PacketsInOrder == Spec => []PostedInOrder
  <1>1. IInv => PostedInOrder
    BY DEF IInv, Inv, Fresh, PostedInOrder
  <1>2. QED
    BY <1>1, Invariance, PTL

(* While the application receives, the modem and its interrupt do, and a   *)
(* packet that was received has a command (lora_receive, isr_recv_task).   *)
THEOREM ModemIsNotDeaf == Spec => []NotDeaf
  <1>1. IInv => NotDeaf
    <2> SUFFICES ASSUME Inv, loraMode = "recv", duk = "script"
                 PROVE  /\ recvIrq
                        /\ "RX" \in flags => queue # <<>> \/ isr \notin {"wait", "hop", "again"}
                        /\ queue = <<>> /\ isr = "wait" => mode = "rx"
      BY DEF IInv, NotDeaf
    <2>1. recvIrq
      BY DEF Inv, Interrupts
    <2>2. ASSUME "RX" \in flags, isr \in {"wait", "hop", "again"}
          PROVE  queue # <<>>
      <3>1. Commands > Changes /\ Changes \in Nat
        BY <2>2 DEF Inv, Heard, Unread, Changes
      <3>2. Commands = Len(queue) + 0
        BY <2>2 DEF Commands
      <3>3. queue = <<>> => Len(queue) = 0
        OBVIOUS
      <3>4. QED
        BY <3>1, <3>2, <3>3
    <2>3. isr = "wait" => mode = "rx"
      BY DEF Inv, Modes
    <2>4. QED
      BY <2>1, <2>2, <2>3
  <1>2. QED
    BY <1>1, Invariance, PTL

(* A modem that sleeps or idles does so until the application wants it     *)
(* otherwise, also after sendPacket (lora_main.c, lora_send_packet).       *)
THEOREM ModemStaysAsSet == Spec => []StaysAsSet
  <1>1. IInv => StaysAsSet
    BY DEF IInv, Inv, Types, Modes, StaysAsSet
  <1>2. QED
    BY <1>1, Invariance, PTL

-----------------------------------------------------------------------------
(***************************************************************************)
(* BleLink.  What the board puts together from a client's pieces and what  *)
(* a client puts together from the board's is a frame whose first bytes    *)
(* are there (Holds); the events that wait lead from one place in the      *)
(* stream of frames, where the board is, to another, where the client is   *)
(* (FromClient).                                                           *)
(***************************************************************************)

Pieces == [frame : Frames, from : Nat, n : Nat]

(* A record holds the first bytes of a frame, and there are more to come. *)
Holds(r, f) ==
  /\ r \in [len : Nat, cur : Nat, pieces : Seq(Pieces)]
  /\ f \in Frames /\ r.len = f.len /\ r.cur \in 0..(f.len - 1)
  /\ r.pieces \in Seq(Pieces) /\ r.pieces # <<>> /\ r.pieces[1].from = 0
  /\ \A k \in 1..Len(r.pieces) : r.pieces[k].frame = f
  /\ \A k \in 1..(Len(r.pieces) - 1) :
       r.pieces[k + 1].from = r.pieces[k].from + r.pieces[k].n
  /\ r.pieces[Len(r.pieces)].from + r.pieces[Len(r.pieces)].n = r.cur + LenBytes

AllMtus == Mtus \cup {DefaultMtu}

StackEvents ==
  [type : {"connect", "disconnect"}] \cup [type : {"mtu"}, mtu : Mtus]
    \cup [type : {"write"}, piece : Pieces]

BleTypes ==
  /\ link \in [up : BOOLEAN, mtu : AllMtus, number : Nat, network : BOOLEAN]
  /\ mtuSize \in AllMtus
  /\ connected \in BOOLEAN
  /\ events \in Seq(StackEvents)
  /\ written \in Seq(Frames) /\ \A k \in DOMAIN written : written[k].id = k
  /\ sent \in Seq(Frames) /\ \A k \in DOMAIN sent : sent[k].id = k
  /\ client # None =>
       /\ client \in [frame : Frames, from : Nat]
       /\ client.frame.id = Len(written) + 1
       /\ client.from \in 1..(client.frame.len + 1)

Known(f, w, c) ==
  \/ f.id \in 1..Len(w) /\ w[f.id] = f
  \/ c # None /\ c.frame = f

ClientAt == <<Len(written) + 1, IF client = None THEN 0 ELSE client.from>>
BoardAt == <<Len(received) + 1, IF record.len = 0 THEN 0 ELSE record.cur + LenBytes>>

After(p) ==
  IF p.from + p.n = p.frame.len + LenBytes THEN <<p.frame.id + 1, 0>>
  ELSE <<p.frame.id, p.from + p.n>>

Fits(p) ==
  /\ p.n > 0 /\ p.from + p.n <= p.frame.len + LenBytes
  /\ p.from = 0 => p.n >= LenBytes

Moves(e, a, b) ==
  IF e.type = "write"
  THEN Fits(e.piece) /\ a = <<e.piece.frame.id, e.piece.from>> /\ b = After(e.piece)
  ELSE b = a

Places == (1..(Len(written) + 1)) \X Nat

Readable(f) == LengthOf(f.head) = f.len

(* The board reads the lengths of clients' frames as they are meant. *)
FramesAreReadable ==
  ~cut => /\ \A k \in DOMAIN written : Readable(written[k])
          /\ client # None => Readable(client.frame)

Follows(h, ev, w, c) ==
  \A k \in 1..Len(ev) :
    Moves(ev[k], h[k - 1], h[k]) /\ (ev[k].type = "write" => Known(ev[k].piece.frame, w, c))

FromClient ==
  ~cut =>
    /\ received \in Seq(Frames) /\ Len(received) <= Len(written)
    /\ \A k \in DOMAIN received : received[k] = written[k]
    /\ IF record.len = 0 THEN record = EmptyRecord
       ELSE \E f \in Frames : /\ Known(f, written, client) /\ f.id = Len(received) + 1
                             /\ Holds(record, f)
    /\ \E h \in [0..Len(events) -> Places] :
         h[0] = BoardAt /\ h[Len(events)] = ClientAt /\ Follows(h, events, written, client)

RestToSend ==
  sending # None =>
    /\ sending \in [frame : Frames, cur : Nat, recordSize : Nat, toGo : Nat]
    /\ sent # <<>> /\ sending.frame = sent[Len(sent)]
    /\ sending.recordSize > LenBytes /\ sending.toGo > 0
    /\ (sending.toGo - 1) * sending.recordSize < sending.frame.len - sending.cur
    /\ sending.frame.len - sending.cur <= sending.toGo * sending.recordSize

(* The frames that clients got are frames of the application, in order.    *)
GotInOrder(g, s) ==
  /\ g \in Seq(Frames)
  /\ \A j \in 1..Len(g) : g[j].id \in 1..Len(s) /\ s[g[j].id] = g[j]
  /\ \A j, k \in 1..Len(g) : j < k => g[j].id < g[k].id

Before(g, n) == \A j \in 1..Len(g) : g[j].id < n

ToClient ==
  ~torn =>
    /\ GotInOrder(got, sent)
    /\ abandoned => link.up /\ sending = None
    /\ link.up /\ sending = None => (abandoned <=> clientRecord.len # 0)
    /\ link.up /\ sending # None /\ clientRecord.len # 0 =>
         /\ Holds(clientRecord, sending.frame) /\ clientRecord.cur = sending.cur
         /\ Before(got, Len(sent))

FirstConnection ==
  link.number <= 1 =>
    /\ link.number = 0 =>
         ~link.up /\ link.mtu = DefaultMtu /\ events = <<>> /\ ~connected /\ sending = None
    /\ mtuSize <= link.mtu
    /\ \A k \in 1..Len(events) : events[k].type = "mtu" => events[k].mtu = link.mtu
    /\ sending # None => /\ sending.recordSize <= link.mtu - 5
                         /\ link.up /\ ~torn => clientRecord.len # 0

LEMMA LengthIsNat == \A f \in Frames : f.len \in Nat /\ f.id \in 1..MaxFrames
  BY BleLinkAssumption DEF Frames, Lengths

(* The two bytes of a length are bytes, and make a number.                 *)
LEMMA BytesOfLength ==
  ASSUME NEW len \in Nat
  PROVE  /\ LengthBytes(len) \in Bytes \X Bytes
         /\ NetworkOrder(LengthBytes(len)) \in Bytes \X Bytes
  <1>1. Base \in Nat /\ Base > 1
    BY RecordAssumption
  <1>2. len % Base \in Bytes /\ len \div Base \in Nat
    BY <1>1 DEF Bytes
  <1>3. (len \div Base) % Base \in Bytes
    BY <1>1, <1>2 DEF Bytes
  <1>4. QED
    BY <1>2, <1>3 DEF LengthBytes, NetworkOrder

LEMMA ProductIsNat ==
  ASSUME NEW a \in Nat, NEW b \in Nat
  PROVE  a * b \in Nat
  OBVIOUS

LEMMA LengthOfHead == \A f \in Frames : LengthOf(f.head) \in Nat
  <1> SUFFICES ASSUME NEW f \in Frames PROVE LengthOf(f.head) \in Nat
    OBVIOUS
  <1>1. f.head \in Bytes \X Bytes
    BY DEF Frames
  <1>2. f.head[1] \in Nat /\ f.head[2] \in Nat /\ Base \in Nat
    BY <1>1, RecordAssumption DEF Bytes
  <1>3. f.head[2] * Base \in Nat
    BY <1>2, ProductIsNat
  <1>4. QED
    BY <1>2, <1>3 DEF LengthOf

(* record_add with the first piece of a frame begins it, and completes it  *)
(* if there is no more.                                                    *)
LEMMA FirstPiece ==
  ASSUME NEW r, r.len = 0, NEW p \in Pieces, p.from = 0, Readable(p.frame),
         p.n \in LenBytes..(p.frame.len + LenBytes)
  PROVE  LET q == RecordAdd(r, p) IN
         IF p.n = p.frame.len + LenBytes THEN RecordComplete(q) /\ FrameOf(q, None) = p.frame
         ELSE ~RecordComplete(q) /\ q.len # 0 /\ Holds(q, p.frame) /\ q.cur + LenBytes = p.n
  <1> DEFINE q == RecordAdd(r, p)
  <1>1. q = [len |-> p.frame.len, cur |-> p.n - LenBytes, pieces |-> <<p>>]
    BY DEF RecordAdd, First, Readable
  <1>2. /\ p.frame \in Frames /\ p.frame.len \in Nat /\ p.n \in Nat
        /\ q.pieces \in Seq(Pieces) /\ Len(q.pieces) = 1 /\ q.pieces[1] = p
    BY <1>1, LengthIsNat DEF Pieces
  <1>3. q.pieces # <<>> /\ DOMAIN q.pieces = 1..1 /\ 1..(Len(q.pieces) - 1) = {}
    BY <1>2
  <1>4. /\ q.len = p.frame.len /\ q.cur = p.n - LenBytes
        /\ q \in [len : Nat, cur : Nat, pieces : Seq(Pieces)]
    BY <1>1, <1>2 DEF LenBytes
  <1> HIDE DEF q
  <1>5. CASE p.n = p.frame.len + LenBytes
    <2>1. RecordComplete(q)
      BY <1>2, <1>4, <1>5 DEF RecordComplete, LenBytes
    <2>2. FrameOf(q, None) = p.frame
      BY <1>2, <1>3, <1>5 DEF FrameOf
    <2>3. QED
      BY <1>5, <2>1, <2>2 DEF q
  <1>6. CASE p.n # p.frame.len + LenBytes
    <2>1. q.cur \in 0..(p.frame.len - 1) /\ q.cur # q.len /\ q.len # 0 /\ q.cur + LenBytes = p.n
      BY <1>2, <1>4, <1>6 DEF LenBytes
    <2>2. Holds(q, p.frame)
      BY <1>2, <1>3, <1>4, <2>1 DEF Holds
    <2>3. QED
      BY <1>6, <2>1, <2>2 DEF q, RecordComplete
  <1>7. QED
    BY <1>5, <1>6

(* A piece that follows goes behind the others. *)
LEMMA NextPiece ==
  ASSUME NEW r, NEW p \in Pieces, Holds(r, p.frame), p.from = r.cur + LenBytes,
         p.n \in 1..(p.frame.len - r.cur)
  PROVE  LET q == RecordAdd(r, p) IN
         IF p.n = p.frame.len - r.cur THEN RecordComplete(q) /\ FrameOf(q, None) = p.frame
         ELSE ~RecordComplete(q) /\ q.len # 0 /\ Holds(q, p.frame) /\ q.cur = r.cur + p.n
  <1> DEFINE q == RecordAdd(r, p)
             m == Len(r.pieces)
  <1>1. /\ p.frame \in Frames /\ p.frame.len \in Nat /\ p.n \in Int /\ p.from \in Nat
        /\ r.cur \in Int /\ r.len = p.frame.len /\ r.cur \in 0..(p.frame.len - 1)
    BY LengthIsNat DEF Holds, Pieces
  <1>0. \A len \in Nat, cur \in Int, n \in Int : cur \in 0..(len - 1) /\ n \in 1..(len - cur) =>
          /\ cur \in Nat /\ n \in Nat /\ cur + n \in Nat /\ len >= cur + n
          /\ n = len - cur => len = cur + n
          /\ n # len - cur => cur + n \in 0..(len - 1) /\ cur + n # len /\ len # 0
          /\ cur + 2 + n = (cur + n) + 2
    OBVIOUS
  <1> DEFINE size == p.frame.len
  <1>a. /\ r.cur \in Nat /\ p.n \in Nat /\ size >= r.cur + p.n
        /\ p.n = size - r.cur => size = r.cur + p.n
        /\ p.n # size - r.cur => /\ r.cur + p.n \in 0..(size - 1) /\ r.cur + p.n # size
                                /\ size # 0
        /\ r.cur + 2 + p.n = (r.cur + p.n) + 2
    BY <1>0, <1>1
  <1>2. q = [r EXCEPT !.cur = @ + p.n, !.pieces = Append(@, p)]
    BY <1>1, <1>a, SMTT(60) DEF RecordAdd, Added, Holds
  <1>3. /\ q.len = r.len /\ q.cur = r.cur + p.n /\ q.pieces = Append(r.pieces, p)
        /\ q \in [len : Nat, cur : Nat, pieces : Seq(Pieces)]
    <2>1. r \in [len : Nat, cur : Nat, pieces : Seq(Pieces)]
      BY DEF Holds
    <2>2. r.cur + p.n \in Nat /\ Append(r.pieces, p) \in Seq(Pieces)
      BY <1>a, <2>1
    <2> HIDE DEF q
    <2>3. QED
      BY <1>2, <2>1, <2>2
  <1>4. r.pieces \in Seq(Pieces) /\ m \in Nat /\ m > 0
    BY DEF Holds
  <1>5. /\ q.pieces \in Seq(Pieces) /\ Len(q.pieces) = m + 1 /\ q.pieces[m + 1] = p
        /\ \A k \in 1..m : q.pieces[k] = r.pieces[k]
    BY <1>3, <1>4
  <1> HIDE DEF q, m, size
  <1>6. q.pieces # <<>> /\ q.pieces[1].from = 0 /\ q.pieces[1].frame = p.frame
    <2>1. 1 \in 1..m
      BY <1>4 DEF m
    <2>2. q.pieces[1] = r.pieces[1] /\ r.pieces[1].from = 0 /\ r.pieces[1].frame = p.frame
      BY <1>5, <2>1 DEF Holds, m
    <2>3. q.pieces # <<>>
      BY <1>4, <1>5
    <2>4. QED
      BY <2>2, <2>3
  <1>7. \A k \in 1..(m + 1) : q.pieces[k].frame = p.frame
    <2>1. ASSUME NEW k \in 1..m PROVE q.pieces[k].frame = p.frame
      BY <1>4, <1>5 DEF Holds, m
    <2>2. QED
      BY <1>4, <1>5, <2>1
  <1>8. \A k \in 1..m : q.pieces[k + 1].from = q.pieces[k].from + q.pieces[k].n
    <2>1. ASSUME NEW k \in 1..m PROVE q.pieces[k + 1].from = q.pieces[k].from + q.pieces[k].n
      <3>1. CASE k \in 1..(m - 1)
        <4>1. k + 1 \in 1..m
          BY <1>4, <3>1
        <4>2. QED
          BY <1>5, <3>1, <4>1 DEF Holds, m
      <3>2. CASE k = m
        BY <1>5, <3>2 DEF Holds, m
      <3>3. QED
        BY <1>4, <3>1, <3>2
    <2>2. QED
      BY <2>1
  <1>9. q.pieces[Len(q.pieces)].from + q.pieces[Len(q.pieces)].n = r.cur + LenBytes + p.n
    BY <1>5
  <1>10. Len(q.pieces) = m + 1 /\ DOMAIN q.pieces = 1..(m + 1) /\ (m + 1) - 1 = m
    BY <1>4, <1>5
  <1>11. CASE p.n = p.frame.len - r.cur
    <2>1. RecordComplete(q)
      BY <1>1, <1>3, <1>a, <1>11 DEF RecordComplete, size
    <2>2. q.pieces[m + 1].from + q.pieces[m + 1].n = q.pieces[1].frame.len + LenBytes
      BY <1>6, <1>9, <1>10, <1>a, <1>11 DEF LenBytes, size
    <2>3. \A k \in 1..m : k \in 1..(m + 1) /\ k + 1 \in 1..(m + 1)
      BY <1>4
    <2>4. \A k \in 1..m : /\ q.pieces[k + 1].frame = q.pieces[1].frame
                          /\ q.pieces[k + 1].from = q.pieces[k].from + q.pieces[k].n
      BY <1>6, <1>7, <1>8, <2>3
    <2>5. FrameOf(q, None) = p.frame
      BY <1>6, <1>10, <2>2, <2>4 DEF FrameOf
    <2>6. QED
      BY <1>11, <2>1, <2>5 DEF q
  <1>12. CASE p.n # p.frame.len - r.cur
    <2>1. q.cur \in 0..(p.frame.len - 1) /\ q.cur # q.len /\ q.len # 0
      BY <1>1, <1>3, <1>a, <1>12 DEF size
    <2>2. q.pieces[Len(q.pieces)].from + q.pieces[Len(q.pieces)].n = q.cur + LenBytes
      BY <1>3, <1>9, <1>a DEF LenBytes
    <2>3. Holds(q, p.frame)
      BY <1>1, <1>3, <1>5, <1>6, <1>7, <1>8, <1>10, <2>1, <2>2 DEF Holds
    <2>4. QED
      BY <1>3, <1>12, <2>1, <2>3 DEF q, RecordComplete
  <1>13. QED
    BY <1>11, <1>12
-----------------------------------------------------------------------------
(* The number of pieces is right: they have room for the frame, and there  *)
(* would be too little without the last.                                   *)
LEMMA PieceRoom ==
  ASSUME NEW a \in Nat, NEW b \in Nat
  PROVE  a * b \in Nat /\ (a + 1) * b = a * b + b
  OBVIOUS

LEMMA EnoughRecords ==
  ASSUME NEW len \in Nat, NEW size \in Nat, size > 0
  PROVE  LET n == NumRecords(len, size) IN
         /\ n \in Nat /\ n > 0
         /\ (n - 1) * size < len + LenBytes /\ len + LenBytes <= n * size
  <1> DEFINE total == len + LenBytes
             q == total \div size
             rest == total % size
             n == NumRecords(len, size)
  <1>1. total \in Nat /\ total > 0
    BY DEF LenBytes
  <1> HIDE DEF total
  <1>2. q \in Nat /\ rest \in 0..(size - 1) /\ total = size * q + rest
    BY <1>1
  <1>3. n = q + (IF rest > 0 THEN 1 ELSE 0)
    BY DEF NumRecords, total
  <1> HIDE DEF q, rest, n
  <1>4. q * size = size * q /\ size * q \in Nat /\ (q + 1) * size = q * size + size
    BY <1>2
  <1>5. CASE rest > 0
    <2>1. n = q + 1 /\ n - 1 = q
      BY <1>2, <1>3, <1>5
    <2>2. q * size < total /\ total <= q * size + size
      BY <1>1, <1>2, <1>4, <1>5
    <2>3. (n - 1) * size = q * size /\ n * size = q * size + size
      BY <1>4, <2>1
    <2>4. QED
      BY <1>2, <2>1, <2>2, <2>3 DEF n, total
  <1>6. CASE ~(rest > 0)
    <2>1. n = q /\ rest = 0 /\ total = q * size
      BY <1>2, <1>3, <1>4, <1>6
    <2>2. q # 0
      BY <1>1, <2>1
    <2>3. q - 1 \in Nat /\ (q - 1) * size \in Nat /\ ((q - 1) + 1) * size = (q - 1) * size + size
      BY <1>2, <2>2, PieceRoom
    <2>4. (q - 1) + 1 = q
      BY <1>2
    <2>5. q * size = (q - 1) * size + size
      BY <2>3, <2>4
    <2>6. (q - 1) * size < total
      BY <2>1, <2>3, <2>5
    <2>7. QED
      BY <1>1, <1>2, <2>1, <2>2, <2>6 DEF n, total
  <1>7. QED
    BY <1>5, <1>6
-----------------------------------------------------------------------------
(* The steps of the queue of the stack's events.                           *)

LEMMA MtusAreNumbers ==
  /\ AllMtus \subseteq Nat
  /\ \A mtu \in AllMtus : mtu - 5 > LenBytes /\ mtu >= DefaultMtu
  BY BleLinkAssumption DEF AllMtus, LenBytes

LEMMA Reported ==
  ASSUME BleTypes, NEW e \in StackEvents, Report(e)
  PROVE  /\ events' = Append(events, e) /\ events' \in Seq(StackEvents)
         /\ Len(events) \in Nat /\ Len(events') = Len(events) + 1
         /\ events'[Len(events) + 1] = e
         /\ \A k \in 1..Len(events) : events'[k] = events[k]
  <1>1. events \in Seq(StackEvents) /\ events' = Append(events, e)
    BY DEF BleTypes, Report
  <1> HIDE DEF StackEvents
  <1>2. QED
    BY <1>1

LEMMA Taken ==
  ASSUME BleTypes, NEW type, Event(type)
  PROVE  /\ events' = Tail(events) /\ events' \in Seq(StackEvents)
         /\ Len(events) \in Nat /\ Len(events) > 0 /\ Len(events') = Len(events) - 1
         /\ Head(events) = events[1] /\ events[1] \in StackEvents /\ events[1].type = type
         /\ \A k \in 1..Len(events') : events'[k] = events[k + 1]
  <1>1. /\ events \in Seq(StackEvents) /\ events' = Tail(events) /\ events # <<>>
        /\ Head(events).type = type
    BY DEF BleTypes, Event
  <1> HIDE DEF StackEvents
  <1>2. QED
    BY <1>1

(* What a client writes. *)
Writes(f, from, n) ==
  /\ f \in Frames /\ f.id = Len(written) + 1 /\ n > 0
  /\ from + n <= f.len + LenBytes /\ (from = 0 => n >= LenBytes)
  /\ \/ client = None /\ from = 0
     \/ client # None /\ client.frame = f /\ client.from = from
  /\ events' = Append(events, [type |-> "write", piece |-> Piece(f, from, n)])
  /\ Report([type |-> "write", piece |-> Piece(f, from, n)])
  /\ IF from + n = f.len + LenBytes THEN client' = None /\ written' = Append(written, f)
     ELSE client' = [frame |-> f, from |-> from + n] /\ written' = written
  /\ cut' = (cut \/ ~Readable(f))
  /\ UNCHANGED <<link, board, advertising, sending, clientRecord, sent, got, abandoned, torn>>

LEMMA OngoingIsSome ==
  ASSUME NEW f \in Frames, NEW from \in Nat
  PROVE  /\ [frame |-> f, from |-> from] \in [frame : Frames, from : Nat]
         /\ [frame |-> f, from |-> from] # None
  BY NoneAssumption

LEMMA WriteIsPiece ==
  ASSUME BleTypes, WriteFirst \/ WriteNext
  PROVE  \E f \in Frames, from \in Nat, n \in Nat : Writes(f, from, n)
  <1>1. CASE WriteFirst
    <2>1. PICK len \in ClientLengths, n \in Int :
            /\ n \in LenBytes..(len + LenBytes)
            /\ WritePiece(ClientFrame(len), 0, n)
      BY <1>1, BleLinkAssumption DEF WriteFirst, LenBytes
    <2> DEFINE f == ClientFrame(len)
    <2>2. Len(written) \in Nat /\ Len(written) < MaxFrames /\ client = None
      BY <1>1 DEF WriteFirst, BleTypes
    <2>3. f \in Frames /\ f.id = Len(written) + 1 /\ f.len = len /\ len \in Nat
      <3>1. len \in Nat /\ len \in Lengths
        BY BleLinkAssumption DEF Lengths
      <3>2. /\ LengthBytes(len) \in Bytes \X Bytes
            /\ NetworkOrder(LengthBytes(len)) \in Bytes \X Bytes
        BY <3>1, BytesOfLength
      <3>3. Len(written) + 1 \in 1..MaxFrames
        BY <2>2, BleLinkAssumption
      <3>4. QED
        BY <3>1, <3>2, <3>3 DEF ClientFrame, Frames
    <2> HIDE DEF f
    <2>4. n \in Nat /\ n > 0 /\ 0 + n <= f.len + LenBytes /\ n >= LenBytes /\ 0 + n \in Nat
      BY <2>1, <2>3 DEF LenBytes
    <2>5. WritePiece(f, 0, n)
      BY <2>1 DEF f
    <2>6. IF 0 + n = f.len + LenBytes THEN client' = None /\ written' = Append(written, f)
          ELSE client' = [frame |-> f, from |-> 0 + n] /\ written' = written
      BY <2>3, <2>4, <2>5, OngoingIsSome DEF WritePiece
    <2>7. Writes(f, 0, n)
      BY <2>2, <2>3, <2>4, <2>5, <2>6 DEF Writes, WritePiece, Report, Readable
    <2>8. QED
      BY <2>3, <2>4, <2>7
  <1>2. CASE WriteNext
    <2> DEFINE f == client.frame
               from == client.from
    <2>1. /\ client # None /\ f \in Frames /\ f.id = Len(written) + 1
          /\ from \in Nat /\ from > 0 /\ f.len \in Nat
      BY <1>2, LengthIsNat DEF WriteNext, BleTypes
    <2>2. PICK n \in Int : n \in 1..(f.len + LenBytes - from) /\ WritePiece(f, from, n)
      BY <1>2, <2>1 DEF WriteNext, LenBytes
    <2> HIDE DEF f, from
    <2>3. n \in Nat /\ n > 0 /\ from + n <= f.len + LenBytes /\ from + n \in Nat /\ from # 0
      BY <2>1, <2>2 DEF LenBytes
    <2>4. IF from + n = f.len + LenBytes THEN client' = None /\ written' = Append(written, f)
          ELSE client' = [frame |-> f, from |-> from + n] /\ written' = written
      BY <2>1, <2>2, <2>3, OngoingIsSome DEF WritePiece
    <2>5. Writes(f, from, n)
      BY <2>1, <2>2, <2>3, <2>4 DEF Writes, WritePiece, Report, Readable, f, from
    <2>6. QED
      BY <2>1, <2>3, <2>5
  <1>3. QED
    BY <1>1, <1>2
-----------------------------------------------------------------------------
(* The types, and the numbers of frames.                                   *)

LEMMA EventTypes ==
  /\ [type |-> "connect"] \in StackEvents /\ [type |-> "disconnect"] \in StackEvents
  /\ \A mtu \in Mtus : [type |-> "mtu", mtu |-> mtu] \in StackEvents
  /\ \A p \in Pieces : [type |-> "write", piece |-> p] \in StackEvents
  /\ \A e \in StackEvents : /\ e.type = "mtu" => e.mtu \in Mtus
                            /\ e.type = "write" => e.piece \in Pieces
  BY DEF StackEvents

LEMMA BleTypesInit == BleInit => BleTypes
  <1>1. (\A S : <<>> \in Seq(S)) /\ DOMAIN <<>> = {}
    OBVIOUS
  <1>2. [up |-> FALSE, mtu |-> DefaultMtu, number |-> 0, network |-> FALSE]
          \in [up : BOOLEAN, mtu : AllMtus, number : Nat, network : BOOLEAN]
    BY DEF AllMtus
  <1>3. QED
    BY <1>1, <1>2 DEF BleInit, BleTypes, AllMtus

LEMMA BleTypesStep == BleTypes /\ [BleNext]_bleVars => BleTypes'
  <1> SUFFICES ASSUME BleTypes, [BleNext]_bleVars PROVE BleTypes'
    OBVIOUS
  <1>1. ASSUME NEW network \in BOOLEAN, Connect(network) PROVE BleTypes'
    <2>1. events' \in Seq(StackEvents)
      BY <1>1, EventTypes, Reported DEF Connect
    <2>2. link' \in [up : BOOLEAN, mtu : AllMtus, number : Nat, network : BOOLEAN]
      BY <1>1 DEF Connect, BleTypes, AllMtus
    <2>3. QED
      BY <1>1, <2>1, <2>2 DEF Connect, BleTypes, board
  <1>2. CASE Disconnect
    <2>1. events' \in Seq(StackEvents)
      BY <1>2, EventTypes, Reported DEF Disconnect
    <2>2. link' \in [up : BOOLEAN, mtu : AllMtus, number : Nat, network : BOOLEAN]
      BY <1>2 DEF Disconnect, BleTypes
    <2>3. QED
      BY <1>2, <2>1, <2>2 DEF Disconnect, BleTypes, board
  <1>3. ASSUME NEW mtu \in Mtus, ExchangeMtu(mtu) PROVE BleTypes'
    <2>1. events' \in Seq(StackEvents)
      BY <1>3, EventTypes, Reported DEF ExchangeMtu
    <2>2. link' \in [up : BOOLEAN, mtu : AllMtus, number : Nat, network : BOOLEAN]
      BY <1>3 DEF ExchangeMtu, BleTypes, AllMtus
    <2>3. QED
      BY <1>3, <2>1, <2>2 DEF ExchangeMtu, BleTypes, board
  <1>4. CASE WriteFirst \/ WriteNext
    <2>1. PICK f \in Frames, from \in Nat, n \in Nat : Writes(f, from, n)
      BY <1>4, WriteIsPiece
    <2>2. Piece(f, from, n) \in Pieces
      BY DEF Piece, Pieces
    <2>3. events' \in Seq(StackEvents)
      BY <2>1, <2>2, EventTypes, Reported DEF Writes
    <2>4. /\ written \in Seq(Frames) /\ Len(written) \in Nat
          /\ \A k \in 1..Len(written) : written[k].id = k
      BY DEF BleTypes
    <2>5. CASE from + n = f.len + LenBytes
      <3>1. /\ client' = None /\ written' \in Seq(Frames) /\ Len(written') = Len(written) + 1
            /\ written'[Len(written) + 1] = f
            /\ \A k \in 1..Len(written) : written'[k] = written[k]
        BY <2>1, <2>4, <2>5, SMTT(60) DEF Writes
      <3>2. f.id = Len(written) + 1
        BY <2>1 DEF Writes
      <3>3. \A k \in DOMAIN written' : written'[k].id = k
        BY <2>4, <3>1, <3>2
      <3>4. QED
        BY <2>1, <2>3, <3>1, <3>3 DEF Writes, BleTypes, board
    <2>6. CASE from + n # f.len + LenBytes
      <3>1. client' = [frame |-> f, from |-> from + n] /\ written' = written
        BY <2>1, <2>6 DEF Writes
      <3>2. from + n \in Nat /\ f.len \in Nat /\ from + n \in 1..(f.len + 1)
        <4>1. from + n <= f.len + LenBytes /\ n > 0
          BY <2>1 DEF Writes
        <4>2. QED
          BY <2>6, <4>1, LengthIsNat DEF LenBytes
      <3>3. client' \in [frame : Frames, from : Nat] /\ client'.frame = f /\ client'.from = from + n
        BY <3>1, <3>2
      <3>4. QED
        BY <2>1, <2>3, <3>1, <3>2, <3>3 DEF Writes, BleTypes, board
    <2>7. QED
      BY <2>5, <2>6
  <1>5. CASE OnConnect
    BY <1>5, Taken DEF OnConnect, BleTypes, Event
  <1>6. CASE OnDisconnect
    BY <1>6, Taken DEF OnDisconnect, BleTypes, Event
  <1>7. CASE OnMtu
    <2>1. mtuSize' \in AllMtus
      BY <1>7, Taken, EventTypes DEF OnMtu, AllMtus
    <2>2. QED
      BY <1>7, <2>1, Taken DEF OnMtu, BleTypes, Event
  <1>8. CASE OnWrite
    BY <1>8, Taken DEF OnWrite, BleTypes, Event
  <1>9. ASSUME NEW len \in BoardLengths, SendFirst(len) PROVE BleTypes'
    <2> DEFINE f == [id |-> Len(sent) + 1, len |-> len, head |-> LengthBytes(len)]
    <2>1. sent \in Seq(Frames) /\ Len(sent) \in Nat /\ \A k \in 1..Len(sent) : sent[k].id = k
      BY DEF BleTypes
    <2>2. f \in Frames /\ f.id = Len(sent) + 1
      <3>1. len \in Nat /\ len \in Lengths /\ Len(sent) + 1 \in 1..MaxFrames
        BY <1>9, <2>1, BleLinkAssumption DEF SendFirst, Lengths
      <3>2. LengthBytes(len) \in Bytes \X Bytes
        BY <3>1, BytesOfLength
      <3>3. QED
        BY <3>1, <3>2 DEF Frames
    <2>3. sent' = Append(sent, f)
      BY <1>9 DEF SendFirst
    <2> HIDE DEF f
    <2>4. sent' \in Seq(Frames) /\ \A k \in DOMAIN sent' : sent'[k].id = k
      BY <2>1, <2>2, <2>3
    <2>5. UNCHANGED <<link, mtuSize, connected, events, written, client>>
      BY <1>9 DEF SendFirst, board
    <2>6. QED
      BY <2>4, <2>5 DEF BleTypes
  <1>10. CASE SendNext
    <2>1. UNCHANGED <<link, mtuSize, connected, events, written, client, sent>>
      BY <1>10 DEF SendNext, board
    <2>2. QED
      BY <2>1 DEF BleTypes
  <1>11. CASE UNCHANGED bleVars
    BY <1>11 DEF bleVars, BleTypes
  <1>12. QED
    BY <1>1, <1>2, <1>3, <1>4, <1>5, <1>6, <1>7, <1>8, <1>9, <1>10, <1>11 DEF BleNext, StackStep
-----------------------------------------------------------------------------
(* Frames from clients.                                                    *)

(* A frame that is known is the only one with its number. *)
LEMMA KnownOnce ==
  ASSUME BleTypes, NEW f, NEW g, Known(f, written, client), Known(g, written, client), f.id = g.id
  PROVE  f = g
  <1>1. Len(written) \in Nat
    BY DEF BleTypes
  <1>2. QED
    BY <1>1 DEF BleTypes, Known

(* An event moves the place at the end. *)
LEMMA OneMore ==
  ASSUME NEW h, NEW ev, NEW ew, NEW w, NEW c, NEW e, NEW b, NEW P,
         Len(ev) \in Nat, h \in [0..Len(ev) -> P], b \in P,
         Len(ew) = Len(ev) + 1, ew[Len(ev) + 1] = e, \A k \in 1..Len(ev) : ew[k] = ev[k],
         Follows(h, ev, w, c), Moves(e, h[Len(ev)], b),
         e.type = "write" => Known(e.piece.frame, w, c)
  PROVE  \E g \in [0..(Len(ev) + 1) -> P] :
           g[0] = h[0] /\ g[Len(ev) + 1] = b /\ Follows(g, ew, w, c)
  <1>0. PICK m \in Nat : m = Len(ev)
    OBVIOUS
  <1> DEFINE g == [k \in 0..(m + 1) |-> IF k <= m THEN h[k] ELSE b]
  <1>1. g \in [0..(m + 1) -> P] /\ g[m + 1] = b /\ \A k \in 0..m : g[k] = h[k]
    BY <1>0
  <1> HIDE DEF g
  <1>2. ASSUME NEW k \in 1..(m + 1)
        PROVE  /\ Moves(ew[k], g[k - 1], g[k])
               /\ ew[k].type = "write" => Known(ew[k].piece.frame, w, c)
    <2>1. CASE k \in 1..m
      <3>1. k - 1 \in 0..m /\ k \in 0..m
        BY <2>1
      <3>2. ew[k] = ev[k] /\ g[k] = h[k] /\ g[k - 1] = h[k - 1]
        BY <1>0, <1>1, <2>1, <3>1
      <3>3. QED
        BY <1>0, <2>1, <3>2 DEF Follows
    <2>2. CASE k = m + 1
      <3>1. k - 1 = m /\ m \in 0..m
        BY <2>2
      <3>2. g[k - 1] = h[m] /\ g[k] = b /\ ew[k] = e
        BY <1>0, <1>1, <2>2, <3>1
      <3>3. QED
        BY <1>0, <3>2
    <2>3. QED
      BY <2>1, <2>2
  <1>3. Follows(g, ew, w, c)
    BY <1>0, <1>2 DEF Follows
  <1>4. 0 \in 0..m
    OBVIOUS
  <1>5. QED
    BY <1>0, <1>1, <1>3, <1>4

(* An event that is handled takes its move with it. *)
LEMMA OneLess ==
  ASSUME NEW h, NEW ev, NEW ew, NEW w, NEW c, NEW P, Len(ev) \in Nat, Len(ev) > 0,
         h \in [0..Len(ev) -> P], Len(ew) = Len(ev) - 1,
         \A k \in 1..(Len(ev) - 1) : ew[k] = ev[k + 1],
         Follows(h, ev, w, c)
  PROVE  /\ Moves(ev[1], h[0], h[1]) /\ (ev[1].type = "write" => Known(ev[1].piece.frame, w, c))
         /\ h[1] \in P
         /\ \E g \in [0..(Len(ev) - 1) -> P] :
              g[0] = h[1] /\ g[Len(ev) - 1] = h[Len(ev)] /\ Follows(g, ew, w, c)
  <1>0. PICK m \in Nat : m = Len(ev) /\ m > 0
    OBVIOUS
  <1> DEFINE g == [k \in 0..(m - 1) |-> h[k + 1]]
  <1>1. g \in [0..(m - 1) -> P] /\ \A k \in 0..(m - 1) : g[k] = h[k + 1]
    BY <1>0
  <1>2. g[0] = h[1] /\ g[m - 1] = h[m] /\ h[1] \in P
    <2>1. 0 \in 0..(m - 1) /\ m - 1 \in 0..(m - 1) /\ 0 + 1 = 1 /\ (m - 1) + 1 = m /\ 1 \in 0..m
      BY <1>0
    <2>2. QED
      BY <1>0, <1>1, <2>1
  <1> HIDE DEF g
  <1>3. ASSUME NEW k \in 1..(m - 1)
        PROVE  /\ Moves(ew[k], g[k - 1], g[k])
               /\ ew[k].type = "write" => Known(ew[k].piece.frame, w, c)
    <2>1. /\ k + 1 \in 1..m /\ k - 1 \in 0..(m - 1) /\ k \in 0..(m - 1)
          /\ (k - 1) + 1 = k /\ (k + 1) - 1 = k
      BY <1>0
    <2>2. ew[k] = ev[k + 1] /\ g[k - 1] = h[(k + 1) - 1] /\ g[k] = h[k + 1]
      BY <1>0, <1>1, <2>1
    <2>3. QED
      BY <1>0, <2>1, <2>2 DEF Follows
  <1>4. Follows(g, ew, w, c)
    BY <1>0, <1>3 DEF Follows
  <1>5. 1 \in 1..m /\ 1 - 1 = 0
    BY <1>0
  <1>6. QED
    BY <1>0, <1>1, <1>2, <1>4, <1>5 DEF Follows

(* An event that is not a piece changes no place. *)
LEMMA OtherEvent ==
  ASSUME BleTypes, FromClient, ~cut, NEW e \in StackEvents, e.type # "write", Report(e),
         UNCHANGED <<client, written, received, record>>
  PROVE  FromClient'
  <1>1. PICK h \in [0..Len(events) -> Places] :
          h[0] = BoardAt /\ h[Len(events)] = ClientAt /\ Follows(h, events, written, client)
    BY DEF FromClient
  <1>2. BoardAt' = BoardAt /\ ClientAt' = ClientAt /\ Places' = Places
    BY DEF BoardAt, ClientAt, Places
  <1>3. h[Len(events)] \in Places /\ Len(events) \in Nat
    BY Reported
  <1>4. /\ Len(events') = Len(events) + 1 /\ events'[Len(events) + 1] = e
        /\ \A k \in 1..Len(events) : events'[k] = events[k]
    BY Reported
  <1>5. Moves(e, h[Len(events)], h[Len(events)])
    BY DEF Moves
  <1>6. \E g \in [0..(Len(events) + 1) -> Places] :
          /\ g[0] = h[0] /\ g[Len(events) + 1] = h[Len(events)]
          /\ Follows(g, events', written, client)
    BY <1>1, <1>3, <1>4, <1>5, OneMore, SMTT(60)
  <1>7. QED
    BY <1>1, <1>2, <1>4, <1>6 DEF FromClient

LEMMA OtherEventHandled ==
  ASSUME BleTypes, FromClient, ~cut, NEW type, type # "write", Event(type),
         UNCHANGED <<received, record>>
  PROVE  FromClient'
  <1>0. UNCHANGED <<client, written>>
    BY DEF Event
  <1>1. PICK h \in [0..Len(events) -> Places] :
          h[0] = BoardAt /\ h[Len(events)] = ClientAt /\ Follows(h, events, written, client)
    BY DEF FromClient
  <1>2. BoardAt' = BoardAt /\ ClientAt' = ClientAt /\ Places' = Places
    BY <1>0 DEF BoardAt, ClientAt, Places
  <1>3. /\ Len(events) \in Nat /\ Len(events) > 0 /\ Len(events') = Len(events) - 1
        /\ \A k \in 1..(Len(events) - 1) : events'[k] = events[k + 1]
        /\ events[1].type = type
    BY Taken
  <1>4. /\ Moves(events[1], h[0], h[1])
        /\ \E g \in [0..(Len(events) - 1) -> Places] :
             /\ g[0] = h[1] /\ g[Len(events) - 1] = h[Len(events)]
             /\ Follows(g, events', written, client)
    BY <1>1, <1>3, OneLess
  <1>5. h[1] = h[0]
    BY <1>3, <1>4 DEF Moves
  <1>6. QED
    BY <1>0, <1>1, <1>2, <1>3, <1>4, <1>5 DEF FromClient
(* What is known stays known when a client writes. *)
LEMMA KnownStays ==
  ASSUME BleTypes, NEW f \in Frames, NEW from \in Nat, NEW n \in Nat, Writes(f, from, n)
  PROVE  /\ Len(written) \in Nat /\ Len(written') \in Nat /\ Len(written) <= Len(written')
         /\ written' \in Seq(Frames)
         /\ \A k \in 1..Len(written) : written'[k] = written[k]
         /\ \A x : Known(x, written, client) => Known(x, written', client')
         /\ Known(f, written', client')
         /\ ClientAt = <<f.id, from>> /\ ClientAt' = After(Piece(f, from, n))
  <1>1. written \in Seq(Frames) /\ Len(written) \in Nat /\ f.id = Len(written) + 1
    BY DEF BleTypes, Writes
  <1>2. ClientAt = <<f.id, from>>
    BY <1>1 DEF Writes, ClientAt
  <1>3. Piece(f, from, n).frame = f /\ Piece(f, from, n).from = from /\ Piece(f, from, n).n = n
    BY DEF Piece
  <1>4. \A x : Known(x, written, client) => (x.id \in 1..Len(written) /\ written[x.id] = x) \/ x = f
    BY DEF Writes, Known
  <1>5. CASE from + n = f.len + LenBytes
    <2>1. /\ client' = None /\ written' \in Seq(Frames) /\ Len(written') = Len(written) + 1
          /\ written'[Len(written) + 1] = f
          /\ \A k \in 1..Len(written) : written'[k] = written[k]
      BY <1>1, <1>5, SMTT(120) DEF Writes
    <2>2. \A k \in 1..Len(written) : k \in 1..Len(written')
      BY <1>1, <2>1
    <2>3. f.id \in 1..Len(written') /\ written'[f.id] = f
      BY <1>1, <2>1
    <2>4. Known(f, written', client')
      BY <2>3 DEF Known
    <2>5. \A x : Known(x, written, client) => Known(x, written', client')
      BY <1>4, <2>1, <2>2, <2>4 DEF Known
    <2>6. ClientAt' = <<Len(written') + 1, 0>>
      BY <2>1 DEF ClientAt
    <2>7. ClientAt' = After(Piece(f, from, n))
      BY <1>1, <1>3, <1>5, <2>1, <2>6 DEF After
    <2>8. QED
      BY <1>1, <1>2, <2>1, <2>4, <2>5, <2>7
  <1>6. CASE from + n # f.len + LenBytes
    <2>0. from + n \in Nat
      OBVIOUS
    <2>1. client' = [frame |-> f, from |-> from + n] /\ written' = written /\ client' # None
      BY <1>6, <2>0, OngoingIsSome DEF Writes
    <2>2. client'.frame = f /\ client'.from = from + n
      BY <2>1
    <2>3. Known(f, written', client')
      BY <2>1, <2>2 DEF Known
    <2>4. \A x : Known(x, written, client) => Known(x, written', client')
      BY <1>4, <2>1, <2>3 DEF Known
    <2>5. ClientAt' = After(Piece(f, from, n))
      BY <1>1, <1>3, <1>6, <2>1, <2>2 DEF After, ClientAt
    <2>6. QED
      BY <1>1, <1>2, <2>1, <2>3, <2>4, <2>5
  <1>7. QED
    BY <1>5, <1>6

LEMMA PieceWritten ==
  ASSUME BleTypes, FromClient, ~cut,
         NEW f \in Frames, NEW from \in Nat, NEW n \in Nat, Writes(f, from, n)
  PROVE  FromClient'
  <1> DEFINE p == Piece(f, from, n)
             e == [type |-> "write", piece |-> p]
             m == Len(events)
  <1>1. PICK h \in [0..m -> Places] :
          h[0] = BoardAt /\ h[m] = ClientAt /\ Follows(h, events, written, client)
    BY DEF FromClient
  <1>2. p \in Pieces /\ p.frame = f /\ p.from = from /\ p.n = n
    BY DEF Piece, Pieces
  <1> HIDE DEF p
  <1>3. e \in StackEvents /\ e.type = "write" /\ e.piece = p
    BY <1>2, EventTypes
  <1>4. Report(e) /\ UNCHANGED <<received, record>>
    BY DEF Writes, board, p
  <1> HIDE DEF e
  <1>5. /\ Len(events') = m + 1 /\ events'[m + 1] = e /\ m \in Nat
        /\ \A k \in 1..m : events'[k] = events[k]
    BY <1>3, <1>4, Reported
  <1>6. Follows(h, events, written', client')
    BY <1>1, KnownStays DEF Follows
  <1>7. Moves(e, h[m], After(p))
    <2>1. Fits(p)
      BY <1>2 DEF Fits, Writes
    <2>2. h[m] = <<p.frame.id, p.from>>
      BY <1>1, <1>2, KnownStays
    <2>3. QED
      BY <1>3, <2>1, <2>2 DEF Moves
  <1>8. h \in [0..m -> Places'] /\ After(p) \in Places'
    <2>1. Places \subseteq Places'
      BY KnownStays DEF Places
    <2>2. After(p) = <<Len(written') + 1, IF client' = None THEN 0 ELSE client'.from>>
      BY KnownStays DEF ClientAt, p
    <2>3. (IF client' = None THEN 0 ELSE client'.from) \in Nat
      BY BleTypesStep, KnownStays, <1>2 DEF Writes
    <2>4. Len(written') + 1 \in 1..(Len(written') + 1)
      BY KnownStays
    <2>5. QED
      BY <2>1, <2>2, <2>3, <2>4 DEF Places
  <1>9. \E g \in [0..(m + 1) -> Places'] :
          g[0] = h[0] /\ g[m + 1] = After(p) /\ Follows(g, events', written', client')
    <2>1. Known(e.piece.frame, written', client')
      BY <1>2, <1>3, KnownStays
    <2>2. QED
      BY <1>5, <1>6, <1>7, <1>8, <2>1, OneMore
  <1>10. BoardAt' = BoardAt
    BY <1>4 DEF BoardAt
  <1>11. /\ received' \in Seq(Frames) /\ Len(received') <= Len(written')
         /\ \A k \in DOMAIN received' : received'[k] = written'[k]
    <2>1. received \in Seq(Frames) /\ Len(received) \in Nat /\ Len(received) <= Len(written)
      BY DEF FromClient
    <2>2. \A k \in 1..Len(received) : received[k] = written[k]
      BY <2>1 DEF FromClient
    <2>3. /\ Len(written) \in Nat /\ Len(written') \in Nat /\ Len(written) <= Len(written')
          /\ \A k \in 1..Len(written) : written'[k] = written[k]
      BY KnownStays
    <2>4. \A k \in 1..Len(received) : received[k] = written'[k]
      BY <2>1, <2>2, <2>3
    <2>5. QED
      BY <1>4, <2>1, <2>3, <2>4
  <1>12. IF record'.len = 0 THEN record' = EmptyRecord
         ELSE \E x \in Frames : /\ Known(x, written', client') /\ x.id = Len(received') + 1
                                /\ Holds(record', x)
    BY <1>4, KnownStays DEF FromClient
  <1>13. ClientAt' = After(p)
    BY KnownStays DEF p
  <1>14. QED
    BY <1>1, <1>5, <1>9, <1>10, <1>11, <1>12, <1>13 DEF FromClient

LEMMA PieceHandled ==
  ASSUME BleTypes, FramesAreReadable, FromClient, ~cut, OnWrite
  PROVE  FromClient'
  <1> DEFINE m == Len(events)
             p == events[1].piece
             q == RecordAdd(record, p)
  <1>1. PICK h \in [0..m -> Places] :
          h[0] = BoardAt /\ h[m] = ClientAt /\ Follows(h, events, written, client)
    BY DEF FromClient
  <1>2. /\ Event("write") /\ UNCHANGED <<client, written>>
        /\ IF RecordComplete(q)
           THEN record' = EmptyRecord /\ received' = Append(received, FrameOf(q, None))
           ELSE record' = q /\ received' = received
    BY Taken DEF OnWrite, Event, RecordGet
  <1>3. /\ m \in Nat /\ m > 0 /\ Len(events') = m - 1
        /\ \A k \in 1..(m - 1) : events'[k] = events[k + 1]
        /\ events[1].type = "write" /\ p \in Pieces
    BY <1>2, Taken, EventTypes
  <1> HIDE DEF p, q
  <1>4. /\ Moves(events[1], h[0], h[1]) /\ Known(p.frame, written, client) /\ h[1] \in Places
        /\ \E g \in [0..(m - 1) -> Places] :
             g[0] = h[1] /\ g[m - 1] = h[m] /\ Follows(g, events', written, client)
    BY <1>1, <1>3, OneLess, SMTT(60) DEF p
  <1>5. /\ Fits(p) /\ h[1] = After(p)
        /\ p.frame.id = Len(received) + 1
        /\ p.from = (IF record.len = 0 THEN 0 ELSE record.cur + LenBytes)
    BY <1>1, <1>3, <1>4 DEF Moves, BoardAt, p
  <1>6. p.frame \in Frames /\ p.frame.len \in Nat /\ p.n \in Nat /\ p.from \in Nat
    BY <1>3, LengthIsNat DEF Pieces
  <1>7. IF p.from + p.n = p.frame.len + LenBytes
        THEN RecordComplete(q) /\ FrameOf(q, None) = p.frame
        ELSE ~RecordComplete(q) /\ q.len # 0 /\ Holds(q, p.frame) /\ q.cur + LenBytes = p.from + p.n
    <2>1. CASE record.len = 0
      <3>1. p.from = 0 /\ p.n \in LenBytes..(p.frame.len + LenBytes) /\ p.from + p.n = p.n
        BY <1>5, <1>6, <2>1 DEF Fits, LenBytes
      <3>2. Readable(p.frame)
        BY <1>4 DEF FramesAreReadable, Known, BleTypes
      <3>3. QED
        BY <1>3, <2>1, <3>1, <3>2, FirstPiece DEF q
    <2>2. CASE record.len # 0
      <3>1. PICK x \in Frames :
              Known(x, written, client) /\ x.id = Len(received) + 1 /\ Holds(record, x)
        BY <2>2 DEF FromClient
      <3>2. x = p.frame
        BY <1>4, <1>5, <3>1, KnownOnce
      <3>3. record.cur \in Nat /\ record.cur \in 0..(p.frame.len - 1)
        BY <1>6, <3>1, <3>2 DEF Holds
      <3>4. p.from = record.cur + LenBytes
        BY <1>5, <2>2
      <3>5. p.n \in 1..(p.frame.len - record.cur)
        BY <1>5, <1>6, <3>3, <3>4, SMTT(120) DEF Fits, LenBytes
      <3>6. p.n = p.frame.len - record.cur <=> p.from + p.n = p.frame.len + LenBytes
        BY <1>6, <3>3, <3>4, SMTT(120) DEF LenBytes
      <3>7. (record.cur + p.n) + LenBytes = p.from + p.n
        BY <1>6, <3>3, <3>4, SMTT(60) DEF LenBytes
      <3>8. QED
        BY <1>3, <3>1, <3>2, <3>4, <3>5, <3>6, <3>7, NextPiece DEF q
    <2>3. QED
      BY <2>1, <2>2
  <1>8. ClientAt' = ClientAt /\ Places' = Places
    BY <1>2 DEF ClientAt, Places
  <1>9. /\ received \in Seq(Frames) /\ Len(received) \in Nat
        /\ written \in Seq(Frames) /\ Len(written) \in Nat /\ Len(received) <= Len(written)
        /\ \A k \in 1..Len(received) : received[k] = written[k]
    BY DEF FromClient, BleTypes
  <1>10. CASE p.from + p.n = p.frame.len + LenBytes
    <2>1. record' = EmptyRecord /\ received' = Append(received, p.frame)
      BY <1>2, <1>7, <1>10
    <2>2. /\ received' \in Seq(Frames) /\ Len(received') = Len(received) + 1
          /\ received'[Len(received) + 1] = p.frame
          /\ \A k \in 1..Len(received) : received'[k] = received[k]
      BY <1>6, <1>9, <2>1
    <2>3. h[1] = <<Len(received) + 2, 0>>
      BY <1>5, <1>9, <1>10 DEF After
    <2>4. Len(received) + 1 <= Len(written)
      BY <1>4, <1>9, <2>3 DEF Places
    <2>5. written[Len(received) + 1] = p.frame
      <3>1. p.frame.id # Len(written) + 1
        BY <1>5, <1>9, <2>4
      <3>2. QED
        BY <1>4, <1>5, <3>1 DEF Known, BleTypes
    <2>6. Len(received') <= Len(written') /\ \A k \in DOMAIN received' : received'[k] = written'[k]
      BY <1>2, <1>9, <2>2, <2>4, <2>5
    <2>7. EmptyRecord.len = 0
      BY DEF EmptyRecord
    <2>8. BoardAt' = h[1]
      BY <1>9, <2>1, <2>2, <2>3, <2>7 DEF BoardAt
    <2>9. QED
      BY <1>1, <1>2, <1>3, <1>4, <1>8, <2>1, <2>2, <2>6, <2>7, <2>8 DEF FromClient
  <1>11. CASE p.from + p.n # p.frame.len + LenBytes
    <2>1. record' = q /\ received' = received /\ q.len # 0 /\ Holds(q, p.frame)
          /\ q.cur + LenBytes = p.from + p.n
      BY <1>2, <1>7, <1>11
    <2>2. h[1] = <<Len(received) + 1, p.from + p.n>>
      BY <1>5, <1>11 DEF After
    <2>3. BoardAt' = h[1]
      BY <2>1, <2>2 DEF BoardAt
    <2>4. QED
      BY <1>1, <1>2, <1>3, <1>4, <1>5, <1>6, <1>8, <1>9, <2>1, <2>3 DEF FromClient
  <1>12. QED
    BY <1>10, <1>11

(* Clients go on with the frame that they began with.                      *)
LEMMA FramesAreReadableStep ==
  BleTypes /\ FramesAreReadable /\ [BleNext]_bleVars => FramesAreReadable'
  <1> SUFFICES ASSUME BleTypes, FramesAreReadable, [BleNext]_bleVars, ~cut'
               PROVE  FramesAreReadable'
    BY DEF FramesAreReadable
  <1>1. CASE UNCHANGED <<client, written, cut>>
    BY <1>1 DEF FramesAreReadable
  <1>2. CASE WriteFirst \/ WriteNext
    <2>1. PICK f \in Frames, from \in Nat, n \in Nat : Writes(f, from, n)
      BY <1>2, WriteIsPiece
    <2>2. ~cut /\ Readable(f)
      BY <2>1 DEF Writes
    <2>3. /\ written \in Seq(Frames) /\ Len(written) \in Nat
          /\ \A k \in 1..Len(written) : Readable(written[k])
      BY <2>2 DEF FramesAreReadable, BleTypes
    <2>4. CASE from + n = f.len + LenBytes
      <3>1. client' = None /\ written' = Append(written, f)
        BY <2>1, <2>4 DEF Writes
      <3>2. \A k \in DOMAIN written' : Readable(written'[k])
        <4>1. /\ DOMAIN written' = 1..(Len(written) + 1) /\ written'[Len(written) + 1] = f
              /\ \A k \in 1..Len(written) : written'[k] = written[k]
          BY <2>3, <3>1
        <4>2. QED
          BY <2>2, <2>3, <4>1
      <3>3. QED
        BY <3>1, <3>2 DEF FramesAreReadable
    <2>5. CASE from + n # f.len + LenBytes
      <3>1. client' = [frame |-> f, from |-> from + n] /\ written' = written
        BY <2>1, <2>5 DEF Writes
      <3>2. client'.frame = f
        BY <3>1
      <3>3. QED
        BY <2>2, <2>3, <3>1, <3>2 DEF FramesAreReadable
    <2>6. QED
      BY <2>4, <2>5
  <1>3. ASSUME NEW network \in BOOLEAN, Connect(network) PROVE FramesAreReadable'
    BY <1>1, <1>3 DEF Connect
  <1>4. CASE Disconnect
    BY <1>4 DEF Disconnect, FramesAreReadable
  <1>5. ASSUME NEW mtu \in Mtus, ExchangeMtu(mtu) PROVE FramesAreReadable'
    BY <1>1, <1>5 DEF ExchangeMtu
  <1>6. CASE StackStep
    BY <1>1, <1>6 DEF StackStep, OnConnect, OnDisconnect, OnMtu, OnWrite, Event
  <1>7. ASSUME NEW len \in BoardLengths, SendFirst(len) PROVE FramesAreReadable'
    BY <1>1, <1>7 DEF SendFirst
  <1>8. CASE SendNext
    BY <1>1, <1>8 DEF SendNext
  <1>9. CASE UNCHANGED bleVars
    BY <1>1, <1>9 DEF bleVars
  <1>10. QED
    BY <1>2, <1>3, <1>4, <1>5, <1>6, <1>7, <1>8, <1>9 DEF BleNext

LEMMA FromClientInit == BleInit => FromClient
  <1> SUFFICES ASSUME BleInit PROVE FromClient
    OBVIOUS
  <1>1. (\A S : <<>> \in Seq(S)) /\ DOMAIN <<>> = {} /\ Len(<<>>) = 0 /\ 1..0 = {}
    OBVIOUS
  <1>2. EmptyRecord.len = 0
    BY DEF EmptyRecord
  <1> DEFINE h == [k \in 0..0 |-> <<1, 0>>]
  <1>3. Places = (1..1) \X Nat /\ BoardAt = <<1, 0>> /\ ClientAt = <<1, 0>>
    BY <1>1, <1>2 DEF BleInit, Places, BoardAt, ClientAt
  <1>4. h \in [0..0 -> Places] /\ h[0] = <<1, 0>>
    BY <1>3
  <1> HIDE DEF h
  <1>5. Follows(h, <<>>, <<>>, None)
    BY <1>1 DEF Follows
  <1>6. QED
    BY <1>1, <1>2, <1>3, <1>4, <1>5 DEF BleInit, FromClient

LEMMA FromClientStep ==
  BleTypes /\ FramesAreReadable /\ FromClient /\ [BleNext]_bleVars => FromClient'
  <1> SUFFICES ASSUME BleTypes, FramesAreReadable, FromClient, [BleNext]_bleVars, ~cut'
               PROVE  FromClient'
    BY DEF FromClient
  <1>1. ASSUME NEW network \in BOOLEAN, Connect(network) PROVE FromClient'
    <2>1. ~cut /\ Report([type |-> "connect"]) /\ UNCHANGED <<client, written, received, record>>
      BY <1>1 DEF Connect, board
    <2>2. QED
      BY <2>1, EventTypes, OtherEvent
  <1>2. CASE Disconnect
    <2>1. ~cut /\ Report([type |-> "disconnect"]) /\ UNCHANGED <<client, written, received, record>>
      BY <1>2 DEF Disconnect, board
    <2>2. QED
      BY <2>1, EventTypes, OtherEvent
  <1>3. ASSUME NEW mtu \in Mtus, ExchangeMtu(mtu) PROVE FromClient'
    <2>1. /\ ~cut /\ Report([type |-> "mtu", mtu |-> mtu])
          /\ UNCHANGED <<client, written, received, record>>
      BY <1>3 DEF ExchangeMtu, board
    <2>2. [type |-> "mtu", mtu |-> mtu].type # "write"
      OBVIOUS
    <2>3. QED
      BY <2>1, <2>2, EventTypes, OtherEvent
  <1>4. CASE WriteFirst \/ WriteNext
    <2>1. PICK f \in Frames, from \in Nat, n \in Nat : Writes(f, from, n)
      BY <1>4, WriteIsPiece
    <2>2. ~cut
      BY <2>1 DEF Writes
    <2>3. QED
      BY <2>1, <2>2, PieceWritten
  <1>5. CASE OnConnect
    BY <1>5, OtherEventHandled DEF OnConnect, Event
  <1>6. CASE OnDisconnect
    BY <1>6, OtherEventHandled DEF OnDisconnect, Event
  <1>7. CASE OnMtu
    BY <1>7, OtherEventHandled DEF OnMtu, Event
  <1>8. CASE OnWrite
    BY <1>8, PieceHandled DEF OnWrite, Event
  <1>9. CASE UNCHANGED <<events, client, written, received, record, cut>>
    <2>1. BoardAt' = BoardAt /\ ClientAt' = ClientAt /\ Places' = Places
      BY <1>9 DEF BoardAt, ClientAt, Places
    <2>2. QED
      BY <1>9, <2>1 DEF FromClient
  <1>10. ASSUME NEW len \in BoardLengths, SendFirst(len) PROVE FromClient'
    BY <1>9, <1>10 DEF SendFirst, board
  <1>11. CASE SendNext
    BY <1>9, <1>11 DEF SendNext, board
  <1>12. CASE UNCHANGED bleVars
    BY <1>9, <1>12 DEF bleVars
  <1>13. QED
    BY <1>1, <1>2, <1>3, <1>4, <1>5, <1>6, <1>7, <1>8, <1>10, <1>11, <1>12 DEF BleNext, StackStep
-----------------------------------------------------------------------------
(* Frames to clients: the sizes of the pieces that record_send makes.      *)

LEMMA FirstFits ==
  ASSUME NEW len \in Nat, NEW size \in Nat, size > LenBytes
  PROVE  LET n == FirstSize(len, size)
             k == NumRecords(len, size)
         IN /\ n \in LenBytes..(len + LenBytes) /\ n <= size /\ k \in Nat /\ k > 0
            /\ k = 1 => n = len + LenBytes
            /\ k # 1 => /\ n # len + LenBytes /\ k - 1 \in Nat /\ k - 1 > 0
                        /\ ((k - 1) - 1) * size < len - (n - LenBytes)
                        /\ len - (n - LenBytes) <= (k - 1) * size
  <1> DEFINE n == FirstSize(len, size)
             k == NumRecords(len, size)
  <1>1. k \in Nat /\ k > 0 /\ (k - 1) * size < len + LenBytes /\ len + LenBytes <= k * size
    BY EnoughRecords DEF LenBytes
  <1>2. n = IF len + LenBytes < size THEN len + LenBytes ELSE size
    BY DEF FirstSize, Smaller
  <1> HIDE DEF n, k
  <1>3. n \in LenBytes..(len + LenBytes) /\ n <= size
    BY <1>2 DEF LenBytes
  <1>4. CASE k = 1
    <2>1. k * size = size
      BY <1>4
    <2>2. len + LenBytes <= size
      BY <1>1, <2>1
    <2>3. n = len + LenBytes
      BY <1>2, <2>2 DEF LenBytes
    <2>4. QED
      BY <1>1, <1>3, <1>4, <2>3 DEF n, k
  <1>5. CASE k # 1
    <2>1. k - 1 \in Nat /\ k - 1 > 0 /\ (k - 1) - 1 \in Nat
      BY <1>1, <1>5
    <2>2. /\ (k - 1) * size \in Nat /\ ((k - 1) - 1) * size \in Nat
          /\ k * size = (k - 1) * size + size
          /\ (k - 1) * size = ((k - 1) - 1) * size + size
      <3>1. ((k - 1) + 1) * size = (k - 1) * size + size /\ (k - 1) * size \in Nat
        BY <2>1, PieceRoom
      <3>2. (((k - 1) - 1) + 1) * size = ((k - 1) - 1) * size + size /\ ((k - 1) - 1) * size \in Nat
        BY <2>1, PieceRoom
      <3>3. (k - 1) + 1 = k /\ ((k - 1) - 1) + 1 = k - 1
        BY <1>1
      <3>4. QED
        BY <3>1, <3>2, <3>3
    <2>3. size < len + LenBytes
      BY <1>1, <2>2 DEF LenBytes
    <2>4. n = size /\ n # len + LenBytes
      BY <1>2, <2>3 DEF LenBytes
    <2>5. len - (n - LenBytes) = len + LenBytes - size
      BY <2>4 DEF LenBytes
    <2>6. ((k - 1) - 1) * size < len - (n - LenBytes) /\ len - (n - LenBytes) <= (k - 1) * size
      BY <1>1, <2>2, <2>5 DEF LenBytes
    <2>7. QED
      BY <1>1, <1>3, <1>5, <2>1, <2>4, <2>6 DEF n, k
  <1>6. QED
    BY <1>4, <1>5

LEMMA NextFits ==
  ASSUME NEW len \in Nat, NEW cur \in Nat, NEW size \in Nat, NEW toGo \in Nat, size > 0, toGo > 0,
         (toGo - 1) * size < len - cur, len - cur <= toGo * size
  PROVE  LET n == NextSize(len, cur, size) IN
         /\ cur < len /\ n \in 1..(len - cur) /\ n <= size /\ cur + n \in Nat
         /\ toGo = 1 => n = len - cur
         /\ toGo # 1 => /\ n # len - cur /\ toGo - 1 \in Nat /\ toGo - 1 > 0
                        /\ ((toGo - 1) - 1) * size < len - (cur + n)
                        /\ len - (cur + n) <= (toGo - 1) * size
  <1> DEFINE n == NextSize(len, cur, size)
  <1>1. n = IF size < len - cur THEN size ELSE len - cur
    BY DEF NextSize, Smaller
  <1> HIDE DEF n
  <1>2. /\ toGo - 1 \in Nat /\ (toGo - 1) * size \in Nat
        /\ ((toGo - 1) + 1) * size = (toGo - 1) * size + size /\ (toGo - 1) + 1 = toGo
    BY PieceRoom
  <1>3. cur < len /\ n \in 1..(len - cur) /\ n <= size /\ cur + n \in Nat
    BY <1>1, <1>2
  <1>4. CASE toGo = 1
    <2>1. (toGo - 1) * size = 0
      BY <1>4
    <2>2. len - cur <= size
      BY <1>2, <2>1
    <2>3. n = len - cur
      BY <1>1, <2>2
    <2>4. QED
      BY <1>3, <1>4, <2>3 DEF n
  <1>5. CASE toGo # 1
    <2>1. toGo - 1 > 0 /\ (toGo - 1) - 1 \in Nat /\ ((toGo - 1) - 1) + 1 = toGo - 1
      BY <1>5
    <2>2. /\ ((toGo - 1) - 1) * size \in Nat
          /\ (((toGo - 1) - 1) + 1) * size = ((toGo - 1) - 1) * size + size
      BY <2>1, PieceRoom
    <2>3. (toGo - 1) * size = ((toGo - 1) - 1) * size + size
      BY <2>1, <2>2
    <2>4. size < len - cur
      BY <2>2, <2>3
    <2>5. n = size /\ n # len - cur
      BY <1>1, <2>4
    <2>6. len - (cur + n) = (len - cur) - size
      BY <2>5
    <2>7. toGo * size = (toGo - 1) * size + size
      BY <1>2
    <2>8. ((toGo - 1) - 1) * size < len - (cur + n) /\ len - (cur + n) <= (toGo - 1) * size
      BY <1>2, <2>2, <2>3, <2>6, <2>7
    <2>9. QED
      BY <1>2, <1>3, <1>5, <2>1, <2>5, <2>8 DEF n
  <1>6. QED
    BY <1>4, <1>5

LEMMA NextIsNotLast ==
  ASSUME NEW len \in Nat, NEW cur \in Nat, NEW size \in Nat, NEW toGo \in Nat, toGo > 0, toGo # 1,
         (toGo - 1) * size < len - cur
  PROVE  NextSize(len, cur, size) # len - cur
  <1>1. toGo - 1 > 0 /\ (toGo - 1) - 1 \in Nat /\ ((toGo - 1) - 1) + 1 = toGo - 1
    OBVIOUS
  <1>2. (toGo - 1) * size = ((toGo - 1) - 1) * size + size /\ ((toGo - 1) - 1) * size \in Nat
    <2>1. /\ (((toGo - 1) - 1) + 1) * size = ((toGo - 1) - 1) * size + size
          /\ ((toGo - 1) - 1) * size \in Nat
      BY <1>1, PieceRoom
    <2>2. QED
      BY <1>1, <2>1
  <1>3. size < len - cur
    BY <1>2
  <1>4. QED
    BY <1>3 DEF NextSize, Smaller

LEMMA SendingIsSome ==
  ASSUME NEW f \in Frames, NEW cur \in Nat, NEW size \in Nat, NEW toGo \in Nat
  PROVE  LET s == [frame |-> f, cur |-> cur, recordSize |-> size, toGo |-> toGo] IN
         s \in [frame : Frames, cur : Nat, recordSize : Nat, toGo : Nat] /\ s # None
  BY NoneAssumption

(* What record_send begins with, and what it goes on with. *)
Begins(f, n, k, size, taken) ==
  /\ f \in Frames /\ f.id = Len(sent) + 1 /\ sent' = Append(sent, f)
  /\ size \in Nat /\ size > LenBytes /\ size = mtuSize - 5
  /\ n = FirstSize(f.len, size) /\ k = NumRecords(f.len, size)
  /\ Notify(f, 0, n, taken)
  /\ sending' = IF ~taken \/ k = 1 THEN None
                ELSE [frame |-> f, cur |-> n - LenBytes, recordSize |-> size, toGo |-> k - 1]

LEMMA SendBegins ==
  ASSUME BleTypes, NEW len \in BoardLengths, SendFirst(len)
  PROVE  \E f \in Frames, n, k, size \in Nat, taken \in BOOLEAN : Begins(f, n, k, size, taken)
  <1> DEFINE f == [id |-> Len(sent) + 1, len |-> len, head |-> LengthBytes(len)]
             size == RecordSize
             n == FirstSize(len, size)
             k == NumRecords(len, size)
  <1>1. Len(sent) \in Nat /\ Len(sent) < MaxFrames
    BY DEF SendFirst, BleTypes
  <1>2. f \in Frames /\ f.id = Len(sent) + 1 /\ f.len = len /\ len \in Nat
    <2>1. len \in Nat /\ len \in Lengths /\ Len(sent) + 1 \in 1..MaxFrames
      BY <1>1, BleLinkAssumption DEF Lengths
    <2>2. LengthBytes(len) \in Bytes \X Bytes
      BY <2>1, BytesOfLength
    <2>3. QED
      BY <2>1, <2>2 DEF Frames
  <1>3. size \in Nat /\ size > LenBytes /\ size = mtuSize - 5
    <2>1. mtuSize \in Nat /\ mtuSize - 5 > LenBytes
      BY MtusAreNumbers DEF BleTypes
    <2>2. QED
      BY <2>1 DEF RecordSize, LenBytes
  <1>4. PICK taken \in BOOLEAN :
          /\ sent' = Append(sent, f)
          /\ Notify(f, 0, n, taken)
          /\ sending' = IF ~taken \/ k = 1 THEN None
                        ELSE [frame |-> f, cur |-> n - LenBytes, recordSize |-> size,
                              toGo |-> k - 1]
    BY DEF SendFirst
  <1>5. n \in Nat /\ k \in Nat
    <2>1. n \in LenBytes..(len + LenBytes) /\ k \in Nat
      BY <1>2, <1>3, FirstFits
    <2>2. QED
      BY <1>2, <2>1 DEF LenBytes
  <1> HIDE DEF f, size
  <1>6. Begins(f, n, k, size, taken)
    BY <1>2, <1>3, <1>4 DEF Begins
  <1>7. QED
    BY <1>2, <1>3, <1>5, <1>6

LEMMA SentOneMore ==
  ASSUME BleTypes, NEW f \in Frames, f.id = Len(sent) + 1, sent' = Append(sent, f)
  PROVE  /\ sent \in Seq(Frames) /\ Len(sent) \in Nat
         /\ sent' \in Seq(Frames) /\ Len(sent') = Len(sent) + 1 /\ sent'[Len(sent')] = f
         /\ sent' # <<>> /\ \A k \in 1..Len(sent) : sent'[k] = sent[k]
         /\ \A k \in 1..Len(sent') : sent'[k].id = k
  <1>1. sent \in Seq(Frames) /\ Len(sent) \in Nat /\ \A k \in 1..Len(sent) : sent[k].id = k
    BY DEF BleTypes
  <1>2. QED
    BY <1>1

LEMMA RestToSendStep == BleTypes /\ RestToSend /\ [BleNext]_bleVars => RestToSend'
  <1> SUFFICES ASSUME BleTypes, RestToSend, [BleNext]_bleVars, sending' # None PROVE RestToSend'
    BY DEF RestToSend
  <1>1. CASE UNCHANGED <<sending, sent>>
    BY <1>1 DEF RestToSend
  <1>2. ASSUME NEW len \in BoardLengths, SendFirst(len) PROVE RestToSend'
    <2>1. PICK f \in Frames, n \in Nat, k \in Nat, size \in Nat, taken \in BOOLEAN :
            Begins(f, n, k, size, taken)
      BY <1>2, SendBegins
    <2>3. taken /\ k # 1
      BY <2>1 DEF Begins
    <2>4. sending' = [frame |-> f, cur |-> n - LenBytes, recordSize |-> size, toGo |-> k - 1]
      BY <2>1, <2>3 DEF Begins
    <2>5. /\ f.len \in Nat /\ size > LenBytes
          /\ n = FirstSize(f.len, size) /\ k = NumRecords(f.len, size)
      BY <2>1, LengthIsNat DEF Begins
    <2>6. /\ n - LenBytes \in Nat /\ k - 1 \in Nat /\ k - 1 > 0
          /\ ((k - 1) - 1) * size < f.len - (n - LenBytes)
          /\ f.len - (n - LenBytes) <= (k - 1) * size
      <3>1. n \in LenBytes..(f.len + LenBytes)
        BY <2>5, FirstFits
      <3>2. n - LenBytes \in Nat
        BY <2>5, <3>1 DEF LenBytes
      <3>3. QED
        BY <2>3, <2>5, <3>2, FirstFits
    <2>7. /\ sending' \in [frame : Frames, cur : Nat, recordSize : Nat, toGo : Nat]
          /\ sending'.frame = f /\ sending'.cur = n - LenBytes
          /\ sending'.recordSize = size /\ sending'.toGo = k - 1
      BY <2>4, <2>6
    <2>8. sent' # <<>> /\ sent'[Len(sent')] = f
      BY <2>1, SentOneMore DEF Begins
    <2>9. QED
      BY <2>5, <2>6, <2>7, <2>8 DEF RestToSend
  <1>3. CASE SendNext
    <2> DEFINE len == sending.frame.len
               cur == sending.cur
               size == sending.recordSize
               toGo == sending.toGo
               n == NextSize(len, cur, size)
    <2>1. /\ sending # None /\ toGo # 1 /\ sent' = sent
          /\ sending' = [sending EXCEPT !.cur = @ + n, !.toGo = @ - 1]
      BY <1>3 DEF SendNext
    <2>2. /\ sending \in [frame : Frames, cur : Nat, recordSize : Nat, toGo : Nat]
          /\ sent # <<>> /\ sending.frame = sent[Len(sent)]
          /\ size > LenBytes /\ toGo > 0
          /\ (toGo - 1) * size < len - cur /\ len - cur <= toGo * size
      BY <2>1 DEF RestToSend
    <2>3. len \in Nat /\ cur \in Nat /\ size \in Nat /\ toGo \in Nat /\ size > 0
      BY <2>2, LengthIsNat DEF LenBytes
    <2>4. /\ cur + n \in Nat /\ toGo - 1 \in Nat /\ toGo - 1 > 0
          /\ ((toGo - 1) - 1) * size < len - (cur + n)
          /\ len - (cur + n) <= (toGo - 1) * size
      <3> HIDE DEF len, cur, size, toGo
      <3>1. QED
        BY <2>1, <2>2, <2>3, NextFits
    <2> HIDE DEF n
    <2>5. /\ sending' \in [frame : Frames, cur : Nat, recordSize : Nat, toGo : Nat]
          /\ sending'.frame = sending.frame /\ sending'.cur = cur + n
          /\ sending'.recordSize = size /\ sending'.toGo = toGo - 1
      BY <2>1, <2>2, <2>4
    <2>6. QED
      BY <2>1, <2>2, <2>4, <2>5 DEF RestToSend
  <1>4. ASSUME NEW network \in BOOLEAN, Connect(network) PROVE RestToSend'
    BY <1>1, <1>4 DEF Connect
  <1>5. CASE Disconnect
    BY <1>1, <1>5 DEF Disconnect
  <1>6. ASSUME NEW mtu \in Mtus, ExchangeMtu(mtu) PROVE RestToSend'
    BY <1>1, <1>6 DEF ExchangeMtu
  <1>7. CASE WriteFirst \/ WriteNext
    BY <1>1, <1>7 DEF WriteFirst, WriteNext, WritePiece
  <1>8. CASE StackStep
    BY <1>1, <1>8 DEF StackStep, OnConnect, OnDisconnect, OnMtu, OnWrite, Event
  <1>9. CASE UNCHANGED bleVars
    BY <1>1, <1>9 DEF bleVars
  <1>10. QED
    BY <1>2, <1>3, <1>4, <1>5, <1>6, <1>7, <1>8, <1>9 DEF BleNext

LEMMA NoBytes == EmptyRecord.len = 0
  BY DEF EmptyRecord

LEMMA GotFrame ==
  ASSUME NEW s \in Seq(Frames), NEW g, GotInOrder(g, s), Before(g, Len(s)), s # <<>>,
         NEW f \in Frames, f = s[Len(s)], f.id = Len(s)
  PROVE  GotInOrder(Append(g, f), s)
  <1> DEFINE h == Append(g, f)
             m == Len(g)
  <1>1. g \in Seq(Frames) /\ m \in Nat /\ Len(s) \in Nat /\ Len(s) > 0
    BY DEF GotInOrder
  <1>2. /\ h \in Seq(Frames) /\ Len(h) = m + 1 /\ h[m + 1] = f
        /\ \A j \in 1..m : h[j] = g[j]
    BY <1>1
  <1>3. \A j \in 1..m : g[j].id \in 1..Len(s) /\ s[g[j].id] = g[j] /\ g[j].id < Len(s)
    BY DEF GotInOrder, Before
  <1>4. \A j, k \in 1..m : j < k => g[j].id < g[k].id
    BY DEF GotInOrder
  <1> HIDE DEF h, m
  <1>5. \A j \in 1..(m + 1) : j \in 1..m \/ j = m + 1
    BY <1>1
  <1>6. \A j \in 1..(m + 1) : h[j].id \in 1..Len(s) /\ s[h[j].id] = h[j]
    <2>1. ASSUME NEW j \in 1..(m + 1) PROVE h[j].id \in 1..Len(s) /\ s[h[j].id] = h[j]
      <3>1. CASE j \in 1..m
        BY <1>2, <1>3, <3>1
      <3>2. CASE j = m + 1
        BY <1>1, <1>2, <3>2
      <3>3. QED
        BY <1>5, <3>1, <3>2
    <2>2. QED
      BY <2>1
  <1>7. ASSUME NEW j \in 1..(m + 1), NEW k \in 1..(m + 1), j < k PROVE h[j].id < h[k].id
    <2>1. j \in 1..m
      BY <1>1, <1>7
    <2>2. CASE k \in 1..m
      BY <1>2, <1>4, <1>7, <2>1, <2>2
    <2>3. CASE k = m + 1
      BY <1>2, <1>3, <2>1, <2>3
    <2>4. QED
      BY <1>5, <2>2, <2>3
  <1>8. GotInOrder(h, s)
    BY <1>2, <1>6, <1>7 DEF GotInOrder
  <1>9. QED
    BY <1>8 DEF h

LEMMA GotStays ==
  ASSUME NEW s \in Seq(Frames), NEW t, NEW g, GotInOrder(g, s),
         Len(t) = Len(s) + 1, \A k \in 1..Len(s) : t[k] = s[k]
  PROVE  GotInOrder(g, t) /\ Before(g, Len(t))
  <1>1. Len(s) \in Nat
    OBVIOUS
  <1>2. \A j \in 1..Len(g) : /\ g[j].id \in 1..Len(s) /\ s[g[j].id] = g[j]
                            /\ g[j].id \in 1..Len(t) /\ g[j].id < Len(t)
    BY <1>1 DEF GotInOrder
  <1>3. \A j \in 1..Len(g) : t[g[j].id] = g[j]
    BY <1>2
  <1>4. QED
    BY <1>2, <1>3 DEF GotInOrder, Before

(* The first piece reaches the client, or is torn for a reason.            *)
LEMMA FirstNotified ==
  ASSUME BleTypes, ToClient, ~torn, sending = None, link.up,
         NEW f \in Frames, NEW n \in Nat, NEW k \in Nat, NEW size \in Nat,
         Begins(f, n, k, size, TRUE)
  PROVE  /\ n <= size /\ (torn' => n > link.mtu - 3 \/ abandoned \/ ~Legible(f))
         /\ abandoned' <=> abandoned
         /\ ~torn' =>
              /\ ~abandoned /\ Legible(f)
              /\ IF k = 1 THEN sending' = None /\ clientRecord' = EmptyRecord /\ got' = Append(got, f)
                 ELSE /\ sending' # None /\ sending'.frame = f /\ got' = got
                      /\ clientRecord'.len # 0 /\ Holds(clientRecord', f)
                      /\ clientRecord'.cur = sending'.cur
  <1> DEFINE p == Piece(f, 0, n)
             q == RecordAdd(clientRecord, p)
  <1>1. /\ f.len \in Nat /\ size > LenBytes
        /\ n = FirstSize(f.len, size) /\ k = NumRecords(f.len, size)
    BY LengthIsNat DEF Begins
  <1>2. /\ n \in LenBytes..(f.len + LenBytes) /\ n <= size /\ k > 0
        /\ k = 1 => n = f.len + LenBytes
        /\ k # 1 => n # f.len + LenBytes /\ k - 1 \in Nat
    BY <1>1, FirstFits
  <1>3. abandoned <=> clientRecord.len # 0
    BY DEF ToClient
  <1>4. p \in Pieces /\ p.frame = f /\ p.from = 0 /\ p.n = n
    BY DEF Piece, Pieces
  <1>5. clientRecord.len = 0 /\ Legible(f) =>
        IF n = f.len + LenBytes THEN RecordComplete(q) /\ FrameOf(q, None) = f
        ELSE ~RecordComplete(q) /\ q.len # 0 /\ Holds(q, f) /\ q.cur + LenBytes = n
    BY <1>2, <1>4, FirstPiece DEF Legible, Readable
  <1>6. Notify(f, 0, n, TRUE)
    BY DEF Begins
  <1> HIDE DEF p
  <1>7. /\ torn' = (torn \/ (\/ n > link.mtu - 3
                             \/ (clientRecord.len = 0) # (0 = 0)
                             \/ clientRecord.len = 0 /\ ~Legible(f)))
        /\ ~torn' => IF RecordComplete(q)
                     THEN clientRecord' = EmptyRecord /\ got' = Append(got, FrameOf(q, None))
                     ELSE clientRecord' = q /\ got' = got
    BY <1>6 DEF Notify, Arrives, p
  <1> HIDE DEF q
  <1>8. /\ torn' => n > link.mtu - 3 \/ abandoned \/ ~Legible(f)
        /\ ~torn' => clientRecord.len = 0 /\ ~abandoned /\ Legible(f)
        /\ abandoned' <=> abandoned
    <2>1. torn' <=> \/ n > link.mtu - 3 \/ clientRecord.len # 0
                    \/ clientRecord.len = 0 /\ ~Legible(f)
      BY <1>7
    <2>2. abandoned' <=> abandoned
      BY <1>6, Zenon DEF Notify
    <2>3. QED
      BY <1>3, <2>1, <2>2, Zenon
  <1>9. CASE k = 1
    <2>1. sending' = None
      BY <1>9 DEF Begins
    <2>2. QED
      BY <1>2, <1>5, <1>7, <1>8, <1>9, <2>1
  <1>10. CASE k # 1
    <2>1. sending' = [frame |-> f, cur |-> n - LenBytes, recordSize |-> size, toGo |-> k - 1]
      BY <1>10 DEF Begins
    <2>2. n - LenBytes \in Nat /\ n # f.len + LenBytes /\ k - 1 \in Nat
      BY <1>2, <1>10 DEF LenBytes
    <2>3. sending' # None /\ sending'.frame = f /\ sending'.cur = n - LenBytes
      BY <2>1, <2>2, SendingIsSome
    <2>4. ASSUME ~torn' PROVE q.cur = n - LenBytes
      <3>1. q.cur \in Nat /\ q.cur + LenBytes = n
        BY <1>5, <1>8, <2>2, <2>4 DEF Holds
      <3>2. QED
        BY <3>1 DEF LenBytes
    <2>5. QED
      BY <1>2, <1>5, <1>7, <1>8, <1>10, <2>2, <2>3, <2>4
  <1>11. QED
    BY <1>9, <1>10

(* What record_send goes on with.                                          *)
GoesOn(taken) ==
  /\ sending # None /\ UNCHANGED <<link, board, advertising, events, client, written, sent, cut>>
  /\ LET n == NextSize(sending.frame.len, sending.cur, sending.recordSize) IN
       /\ Notify(sending.frame, sending.cur + LenBytes, n, taken)
       /\ sending' = IF ~taken \/ sending.toGo = 1 THEN None
                     ELSE [sending EXCEPT !.cur = @ + n, !.toGo = @ - 1]

LEMMA SendGoesOn ==
  ASSUME SendNext
  PROVE  \E taken \in BOOLEAN : GoesOn(taken)
  BY DEF SendNext, GoesOn

(* So does the next, unless another client is there, which knows no length. *)
LEMMA NextNotified ==
  ASSUME BleTypes, RestToSend, ToClient, ~torn, GoesOn(TRUE), link.up
  PROVE  LET f == sending.frame IN
         /\ f \in Frames /\ f.id = Len(sent) /\ f = sent[Len(sent)] /\ sent # <<>>
         /\ clientRecord.len # 0 /\ sending.recordSize <= link.mtu - 5 => ~torn'
         /\ sending' # None => sending'.recordSize = sending.recordSize
         /\ ~abandoned /\ ~abandoned'
         /\ ~torn' =>
              /\ Before(got, Len(sent)) /\ clientRecord.len # 0
              /\ IF sending' = None THEN clientRecord' = EmptyRecord /\ got' = Append(got, f)
                 ELSE /\ sending'.frame = f /\ got' = got
                      /\ clientRecord'.len # 0 /\ Holds(clientRecord', f)
                      /\ clientRecord'.cur = sending'.cur
  <1> DEFINE f == sending.frame
             cur == sending.cur
             size == sending.recordSize
             toGo == sending.toGo
             n == NextSize(f.len, cur, size)
             p == Piece(f, cur + LenBytes, n)
             q == RecordAdd(clientRecord, p)
  <1>1. /\ sending # None /\ Notify(f, cur + LenBytes, n, TRUE)
        /\ sending' = IF toGo = 1 THEN None ELSE [sending EXCEPT !.cur = @ + n, !.toGo = @ - 1]
    BY DEF GoesOn
  <1>2. /\ sending \in [frame : Frames, cur : Nat, recordSize : Nat, toGo : Nat]
        /\ sent # <<>> /\ f = sent[Len(sent)]
        /\ size > LenBytes /\ toGo > 0
        /\ (toGo - 1) * size < f.len - cur /\ f.len - cur <= toGo * size
    BY <1>1 DEF RestToSend
  <1>3. /\ f \in Frames /\ f.len \in Nat /\ cur \in Nat /\ size \in Nat /\ toGo \in Nat /\ size > 0
        /\ f.id = Len(sent)
    <2>1. sent \in Seq(Frames) /\ \A k \in 1..Len(sent) : sent[k].id = k
      BY DEF BleTypes
    <2>2. Len(sent) \in 1..Len(sent)
      BY <1>2, <2>1
    <2>3. f.id = Len(sent)
      BY <1>2, <2>1, <2>2
    <2>4. QED
      BY <1>2, <2>3, LengthIsNat DEF LenBytes
  <1>4. /\ cur < f.len /\ n \in 1..(f.len - cur) /\ n <= size /\ cur + n \in Nat
        /\ toGo = 1 => n = f.len - cur
        /\ toGo # 1 => n # f.len - cur /\ toGo - 1 \in Nat
    <2> DEFINE len == f.len
    <2>1. /\ len \in Nat /\ cur \in Nat /\ size \in Nat /\ toGo \in Nat /\ size > 0 /\ toGo > 0
          /\ (toGo - 1) * size < len - cur /\ len - cur <= toGo * size
      BY <1>2, <1>3
    <2> HIDE DEF len, cur, size, toGo
    <2> DEFINE m == NextSize(len, cur, size)
    <2>2. cur < len /\ m \in 1..(len - cur) /\ m <= size /\ cur + m \in Nat
      BY <2>1, NextFits
    <2>3. toGo = 1 => m = len - cur
      BY <2>1, NextFits
    <2>4. ASSUME toGo # 1 PROVE m # len - cur /\ toGo - 1 \in Nat
      <3>1. m # len - cur
        BY <2>1, <2>4, NextIsNotLast
      <3>2. toGo - 1 \in Nat
        BY <2>1
      <3>3. QED
        BY <3>1, <3>2
    <2>5. QED
      BY <2>2, <2>3, <2>4 DEF len
  <1>5. n \in Nat /\ cur + LenBytes \in Nat /\ cur + LenBytes # 0
    BY <1>3, <1>4 DEF LenBytes
  <1> HIDE DEF n
  <1>6. p \in Pieces /\ p.frame = f /\ p.from = cur + LenBytes /\ p.n = n
    BY <1>3, <1>5 DEF Piece, Pieces
  <1> HIDE DEF p
  <1>0. torn' = (torn \/ (\/ n > link.mtu - 3
                          \/ (clientRecord.len = 0) # (cur + LenBytes = 0)
                          \/ clientRecord.len = 0 /\ ~Legible(f)))
    BY <1>1 DEF Notify, Arrives
  <1>7. /\ torn' <=> n > link.mtu - 3 \/ clientRecord.len = 0
        /\ ~torn' => IF RecordComplete(q)
                     THEN clientRecord' = EmptyRecord /\ got' = Append(got, FrameOf(q, None))
                     ELSE clientRecord' = q /\ got' = got
    <2>1. torn' <=> n > link.mtu - 3 \/ clientRecord.len = 0
      BY <1>0, <1>5, Zenon
    <2>2. QED
      BY <1>1, <2>1 DEF Notify, Arrives, p
  <1>a. ~abandoned /\ ~abandoned'
    BY <1>1, Zenon DEF Notify, ToClient
  <1>8. clientRecord.len # 0 => /\ Holds(clientRecord, f) /\ clientRecord.cur = cur
                                /\ Before(got, Len(sent))
    BY <1>1 DEF ToClient
  <1>9. clientRecord.len # 0 =>
          IF n = f.len - cur THEN RecordComplete(q) /\ FrameOf(q, None) = f
          ELSE ~RecordComplete(q) /\ q.len # 0 /\ Holds(q, f) /\ q.cur = cur + n
    BY <1>4, <1>6, <1>8, NextPiece DEF n
  <1> HIDE DEF q
  <1>10. link.mtu \in Nat
    BY MtusAreNumbers DEF BleTypes
  <1>11. clientRecord.len # 0 /\ size <= link.mtu - 5 => ~torn'
    <2>1. \A mtu, s, m \in Nat : s <= mtu - 5 /\ m <= s => ~(m > mtu - 3)
      OBVIOUS
    <2>2. size <= link.mtu - 5 => ~(n > link.mtu - 3)
      BY <1>3, <1>4, <1>5, <1>10, <2>1
    <2>3. QED
      BY <1>7, <2>2
  <1>12. CASE toGo = 1
    <2>1. sending' = None
      BY <1>1, <1>12
    <2>2. n = f.len - cur
      BY <1>4, <1>12 DEF n
    <2>3. QED
      BY <1>2, <1>3, <1>7, <1>8, <1>9, <1>11, <1>a, <2>1, <2>2
  <1>13. CASE toGo # 1
    <2>1. sending' = [sending EXCEPT !.cur = @ + n, !.toGo = @ - 1]
      BY <1>1, <1>13
    <2>2. n # f.len - cur /\ cur + n \in Nat /\ toGo - 1 \in Nat
      BY <1>4, <1>13 DEF n
    <2>3. sending' = [frame |-> f, cur |-> cur + n, recordSize |-> size, toGo |-> toGo - 1]
      BY <1>2, <2>1
    <2>4. /\ sending' # None /\ sending'.frame = f /\ sending'.cur = cur + n
          /\ sending'.recordSize = size
      BY <1>3, <2>2, <2>3, SendingIsSome
    <2>5. QED
      BY <1>2, <1>3, <1>7, <1>8, <1>9, <1>11, <1>a, <2>2, <2>4
  <1>14. QED
    BY <1>12, <1>13

LEMMA ToClientStep == BleTypes /\ RestToSend /\ ToClient /\ [BleNext]_bleVars => ToClient'
  <1> SUFFICES ASSUME BleTypes, RestToSend, ToClient, [BleNext]_bleVars, ~torn' PROVE ToClient'
    BY DEF ToClient
  <1>1. CASE UNCHANGED <<link, sending, clientRecord, sent, got, abandoned, torn>>
    BY <1>1 DEF ToClient, GotInOrder, Before
  <1>2. ASSUME NEW network \in BOOLEAN, Connect(network) PROVE ToClient'
    <2>1. UNCHANGED <<sending, sent, got, abandoned, torn>> /\ clientRecord' = EmptyRecord /\ ~link.up
      BY <1>2 DEF Connect
    <2>2. ~abandoned'
      BY <2>1 DEF ToClient
    <2>3. QED
      BY <2>1, <2>2, NoBytes DEF ToClient, GotInOrder, Before
  <1>3. CASE Disconnect
    <2>1. UNCHANGED <<sending, sent, got, torn>> /\ ~link'.up /\ ~abandoned'
      BY <1>3 DEF Disconnect, BleTypes
    <2>2. QED
      BY <2>1 DEF ToClient, GotInOrder
  <1>4. ASSUME NEW mtu \in Mtus, ExchangeMtu(mtu) PROVE ToClient'
    <2>1. UNCHANGED <<sending, clientRecord, sent, got, abandoned, torn>> /\ link'.up = link.up
      BY <1>4 DEF ExchangeMtu, BleTypes
    <2>2. QED
      BY <2>1 DEF ToClient, GotInOrder, Before
  <1>5. CASE WriteFirst \/ WriteNext
    BY <1>1, <1>5 DEF WriteFirst, WriteNext, WritePiece
  <1>6. CASE StackStep
    BY <1>1, <1>6 DEF StackStep, OnConnect, OnDisconnect, OnMtu, OnWrite, Event
  <1>7. ASSUME NEW len \in BoardLengths, SendFirst(len) PROVE ToClient'
    <2>1. PICK f \in Frames, n \in Nat, k \in Nat, size \in Nat, taken \in BOOLEAN :
            Begins(f, n, k, size, taken)
      BY <1>7, SendBegins
    <2>2. sending = None /\ link' = link
      BY <1>7 DEF SendFirst
    <2>3. f.id = Len(sent) + 1 /\ sent' = Append(sent, f)
      BY <2>1 DEF Begins
    <2>4. /\ sent \in Seq(Frames) /\ sent' \in Seq(Frames) /\ Len(sent') = Len(sent) + 1
          /\ sent' # <<>> /\ sent'[Len(sent')] = f /\ \A j \in 1..Len(sent) : sent'[j] = sent[j]
      BY <2>3, SentOneMore
    <2>5. CASE ~(taken /\ link.up)
      <3>1. UNCHANGED <<clientRecord, got, torn>> /\ (abandoned' <=> abandoned)
        BY <2>1, <2>5, Zenon DEF Begins, Notify
      <3>2. GotInOrder(got, sent')
        BY <2>4, <3>1, GotStays DEF ToClient
      <3>3. link.up => sending' = None
        BY <2>1, <2>5 DEF Begins
      <3>4. abandoned => link.up
        BY <3>1 DEF ToClient
      <3>5. QED
        BY <2>2, <3>1, <3>2, <3>3, <3>4 DEF ToClient
    <2>6. CASE taken /\ link.up
      <3>0. Begins(f, n, k, size, TRUE)
        BY <2>1, <2>6 DEF Begins
      <3>1. ~torn
        BY <3>0, <2>6, Zenon DEF Begins, Notify, Arrives
      <3>2. GotInOrder(got, sent') /\ Before(got, Len(sent'))
        BY <2>4, <3>1, GotStays DEF ToClient
      <3>3. /\ ~abandoned'
            /\ IF k = 1
               THEN sending' = None /\ clientRecord' = EmptyRecord /\ got' = Append(got, f)
               ELSE /\ sending' # None /\ sending'.frame = f /\ got' = got
                    /\ clientRecord'.len # 0 /\ Holds(clientRecord', f)
                    /\ clientRecord'.cur = sending'.cur
        BY <3>0, <2>2, <2>6, <3>1, FirstNotified
      <3>4. CASE k = 1
        <4>1. GotInOrder(Append(got, f), sent')
          BY <2>3, <2>4, <3>2, GotFrame
        <4>2. QED
          BY <3>3, <3>4, <4>1, NoBytes DEF ToClient
      <3>5. CASE k # 1
        BY <3>2, <3>3, <3>5 DEF ToClient
      <3>6. QED
        BY <3>4, <3>5
    <2>7. QED
      BY <2>5, <2>6
  <1>8. CASE SendNext
    <2>0. PICK taken \in BOOLEAN : GoesOn(taken)
      BY <1>8, SendGoesOn
    <2>1. UNCHANGED <<link, sent>> /\ sending # None
      BY <2>0 DEF GoesOn
    <2>2. CASE ~(taken /\ link.up)
      <3>1. UNCHANGED <<clientRecord, got, torn>> /\ ~torn
        BY <2>0, <2>2, Zenon DEF GoesOn, Notify
      <3>2. ~abandoned
        BY <2>1, <3>1 DEF ToClient
      <3>3. CASE ~link.up
        <4>1. ~abandoned'
          BY <2>0, <3>2, <3>3, Zenon DEF GoesOn, Notify
        <4>2. QED
          BY <2>1, <3>1, <3>3, <4>1 DEF ToClient, GotInOrder
      <3>4. CASE link.up
        <4>1. ~taken /\ sending' = None
          BY <2>0, <2>2, <3>4 DEF GoesOn
        <4>2. sending.cur + LenBytes # 0
          BY <2>1 DEF RestToSend, LenBytes
        <4>3. abandoned' <=> clientRecord.len # 0
          BY <2>0, <3>2, <3>4, <4>1, <4>2, Zenon DEF GoesOn, Notify
        <4>4. QED
          BY <2>1, <3>1, <3>4, <4>1, <4>3 DEF ToClient, GotInOrder
      <3>5. QED
        BY <3>3, <3>4
    <2>3. CASE taken /\ link.up
      <3> DEFINE f == sending.frame
      <3>0. GoesOn(TRUE)
        BY <2>0, <2>3 DEF GoesOn
      <3>1. ~torn
        BY <3>0, <2>3, Zenon DEF GoesOn, Notify, Arrives
      <3>2. /\ f \in Frames /\ f.id = Len(sent) /\ f = sent[Len(sent)] /\ sent # <<>>
            /\ Before(got, Len(sent)) /\ ~abandoned'
            /\ IF sending' = None THEN clientRecord' = EmptyRecord /\ got' = Append(got, f)
               ELSE /\ sending'.frame = f /\ got' = got
                    /\ clientRecord'.len # 0 /\ Holds(clientRecord', f)
                    /\ clientRecord'.cur = sending'.cur
        BY <3>0, <2>3, <3>1, NextNotified
      <3>3. GotInOrder(got, sent) /\ sent \in Seq(Frames)
        BY <3>1 DEF ToClient, BleTypes
      <3> HIDE DEF f
      <3>4. CASE sending' = None
        <4>1. GotInOrder(Append(got, f), sent)
          BY <3>2, <3>3, GotFrame
        <4>2. QED
          BY <2>1, <3>2, <3>4, <4>1, NoBytes DEF ToClient
      <3>5. CASE sending' # None
        <4>1. GotInOrder(got', sent') /\ Before(got', Len(sent'))
          BY <2>1, <3>2, <3>3, <3>5
        <4>2. QED
          BY <3>2, <3>5, <4>1 DEF ToClient
      <3>6. QED
        BY <3>4, <3>5
    <2>4. QED
      BY <2>2, <2>3
  <1>9. CASE UNCHANGED bleVars
    BY <1>1, <1>9 DEF bleVars
  <1>10. QED
    BY <1>2, <1>3, <1>4, <1>5, <1>6, <1>7, <1>8, <1>9 DEF BleNext

LEMMA FirstConnectionStep ==
  BleTypes /\ RestToSend /\ ToClient /\ FirstConnection /\ [BleNext]_bleVars => FirstConnection'
  <1> SUFFICES ASSUME BleTypes, RestToSend, ToClient, FirstConnection, [BleNext]_bleVars,
                      link'.number <= 1
               PROVE  FirstConnection'
    BY DEF FirstConnection
  <1>0. /\ link \in [up : BOOLEAN, mtu : AllMtus, number : Nat, network : BOOLEAN] /\ mtuSize \in AllMtus
        /\ link.mtu \in Nat /\ mtuSize \in Nat /\ link.mtu >= DefaultMtu /\ DefaultMtu \in Nat
        /\ link.number \in Nat /\ events \in Seq(StackEvents) /\ Len(events) \in Nat
    <2>1. /\ link \in [up : BOOLEAN, mtu : AllMtus, number : Nat, network : BOOLEAN] /\ mtuSize \in AllMtus
          /\ events \in Seq(StackEvents)
      BY DEF BleTypes
    <2>2. link.mtu \in AllMtus /\ link.number \in Nat
      BY <2>1
    <2>3. Len(events) \in Nat
      BY <2>1
    <2>4. QED
      BY <2>1, <2>2, <2>3, MtusAreNumbers, BleLinkAssumption
  <1>1. CASE UNCHANGED <<link, connected, mtuSize, events, sending, clientRecord, torn>>
    BY <1>1 DEF FirstConnection
  <1>2. ASSUME NEW network \in BOOLEAN, Connect(network) PROVE FirstConnection'
    <2>1. /\ link' = [up |-> TRUE, mtu |-> DefaultMtu, number |-> link.number + 1,
                      network |-> network]
          /\ Report([type |-> "connect"]) /\ UNCHANGED <<connected, mtuSize, sending, torn>>
      BY <1>2 DEF Connect, board
    <2>2. link.number = 0 /\ link'.number = 1 /\ link'.mtu = DefaultMtu
      BY <1>0, <2>1
    <2>3. events = <<>> /\ sending = None /\ mtuSize <= DefaultMtu
      BY <2>2 DEF FirstConnection
    <2>4. /\ Len(events') = Len(events) + 1 /\ Len(events) = 0
          /\ events'[Len(events) + 1] = [type |-> "connect"]
      BY <2>1, <2>3, EventTypes, Reported
    <2>5. \A k \in 1..Len(events') : events'[k].type # "mtu"
      BY <2>4
    <2>6. QED
      BY <2>1, <2>2, <2>3, <2>5 DEF FirstConnection
  <1>3. CASE Disconnect
    <2>1. /\ link' = [link EXCEPT !.up = FALSE] /\ link.up
          /\ Report([type |-> "disconnect"])
          /\ UNCHANGED <<connected, mtuSize, sending, torn>>
      BY <1>3 DEF Disconnect, board
    <2>2. link'.number = link.number /\ link'.mtu = link.mtu /\ ~link'.up
      BY <1>0, <2>1
    <2>3. \A k \in 1..Len(events') : events'[k].type = "mtu" => events'[k].mtu = link.mtu
      <3>1. /\ Len(events') = Len(events) + 1
            /\ events'[Len(events) + 1] = [type |-> "disconnect"]
            /\ \A k \in 1..Len(events) : events'[k] = events[k]
        BY <2>1, EventTypes, Reported
      <3>2. \A k \in 1..Len(events) : events[k].type = "mtu" => events[k].mtu = link.mtu
        BY <2>2 DEF FirstConnection
      <3>3. QED
        BY <1>0, <3>1, <3>2
    <2>4. QED
      BY <2>1, <2>2, <2>3 DEF FirstConnection
  <1>4. ASSUME NEW mtu \in Mtus, ExchangeMtu(mtu) PROVE FirstConnection'
    <2>1. /\ link' = [link EXCEPT !.mtu = mtu] /\ link.up /\ link.mtu = DefaultMtu
          /\ Report([type |-> "mtu", mtu |-> mtu])
          /\ UNCHANGED <<connected, mtuSize, sending, clientRecord, torn>>
      BY <1>4 DEF ExchangeMtu, board
    <2>2. /\ link'.number = link.number /\ link'.mtu = mtu /\ link'.up = link.up
          /\ mtu \in Nat /\ mtu > DefaultMtu
      BY <1>0, <2>1, BleLinkAssumption
    <2>3. \A k \in 1..Len(events) : events[k].type # "mtu"
      <3>1. SUFFICES ASSUME NEW k \in 1..Len(events), events[k].type = "mtu" PROVE FALSE
        OBVIOUS
      <3>2. events[k].mtu = DefaultMtu
        BY <2>1, <2>2, <3>1 DEF FirstConnection
      <3>3. events[k] \in StackEvents
        BY <1>0, <3>1
      <3>4. events[k].mtu \in Mtus
        BY <3>1, <3>3, EventTypes
      <3>5. QED
        BY <3>2, <3>4, BleLinkAssumption
    <2>4. /\ Len(events') = Len(events) + 1
          /\ events'[Len(events) + 1] = [type |-> "mtu", mtu |-> mtu]
          /\ \A k \in 1..Len(events) : events'[k] = events[k]
      BY <2>1, EventTypes, Reported
    <2>5. \A k \in 1..Len(events') : events'[k].type = "mtu" => events'[k].mtu = mtu
      BY <1>0, <2>3, <2>4
    <2>6. mtuSize <= mtu
      BY <1>0, <2>1, <2>2 DEF FirstConnection
    <2>7. sending # None => sending.recordSize <= mtu - 5
      <3>1. ASSUME sending # None PROVE sending.recordSize <= mtu - 5
        <4>1. sending.recordSize \in Nat
          BY <3>1 DEF RestToSend
        <4>2. sending.recordSize <= DefaultMtu - 5
          BY <2>1, <2>2, <3>1 DEF FirstConnection
        <4>3. QED
          BY <1>0, <2>2, <4>1, <4>2
      <3>2. QED
        BY <3>1
    <2>8. QED
      BY <2>1, <2>2, <2>5, <2>6, <2>7 DEF FirstConnection
  <1>5. CASE WriteFirst \/ WriteNext
    <2>1. PICK f \in Frames, from \in Nat, n \in Nat : Writes(f, from, n)
      BY <1>5, WriteIsPiece
    <2> DEFINE e == [type |-> "write", piece |-> Piece(f, from, n)]
    <2>2. /\ Report(e) /\ UNCHANGED <<link, connected, mtuSize, sending, clientRecord, torn>>
      BY <2>1 DEF Writes, board
    <2>3. e \in StackEvents /\ e.type = "write"
      <3>1. Piece(f, from, n) \in Pieces
        BY DEF Piece, Pieces
      <3>2. QED
        BY <3>1, EventTypes
    <2>4. link.up
      BY <1>5 DEF WriteFirst, WriteNext, WritePiece
    <2> HIDE DEF e
    <2>5. /\ Len(events') = Len(events) + 1 /\ events'[Len(events) + 1] = e
          /\ \A k \in 1..Len(events) : events'[k] = events[k]
      BY <2>2, <2>3, Reported
    <2>6. \A k \in 1..Len(events) : events[k].type = "mtu" => events[k].mtu = link.mtu
      BY <2>2 DEF FirstConnection
    <2>7. \A k \in 1..Len(events') : events'[k].type = "mtu" => events'[k].mtu = link.mtu
      BY <1>0, <2>3, <2>5, <2>6
    <2>8. QED
      BY <2>2, <2>4, <2>7 DEF FirstConnection
  <1>6. CASE StackStep
    <2>1. PICK type : /\ Event(type)
                      /\ mtuSize' = mtuSize \/ (type = "mtu" /\ mtuSize' = Head(events).mtu)
                      /\ UNCHANGED torn
      BY <1>6 DEF StackStep, OnConnect, OnDisconnect, OnMtu, OnWrite, Event
    <2>2. UNCHANGED <<link, sending, clientRecord>>
      BY <2>1 DEF Event
    <2>3. /\ Len(events') = Len(events) - 1 /\ Len(events) > 0
          /\ Head(events) = events[1] /\ events[1].type = type
          /\ \A k \in 1..Len(events') : events'[k] = events[k + 1]
      BY <2>1, Taken
    <2>4. \A k \in 1..Len(events) : events[k].type = "mtu" => events[k].mtu = link.mtu
      BY <2>2 DEF FirstConnection
    <2>5. \A k \in 1..Len(events') : events'[k].type = "mtu" => events'[k].mtu = link.mtu
      <3>1. \A k \in 1..Len(events') : k + 1 \in 1..Len(events)
        BY <1>0, <2>3
      <3>2. QED
        BY <2>3, <2>4, <3>1
    <2>6. mtuSize' <= link.mtu
      <3>1. 1 \in 1..Len(events)
        BY <1>0, <2>3
      <3>2. CASE mtuSize' = mtuSize
        BY <2>2, <3>2 DEF FirstConnection
      <3>3. CASE type = "mtu" /\ mtuSize' = Head(events).mtu
        BY <1>0, <2>3, <2>4, <3>1, <3>3
      <3>4. QED
        BY <2>1, <3>2, <3>3
    <2>7. link.number # 0
      <3>1. events # <<>>
        BY <2>1 DEF Event
      <3>2. QED
        BY <2>2, <3>1 DEF FirstConnection
    <2>8. QED
      BY <2>1, <2>2, <2>5, <2>6, <2>7 DEF FirstConnection
  <1>7. ASSUME NEW len \in BoardLengths, SendFirst(len) PROVE FirstConnection'
    <2>1. PICK f \in Frames, n \in Nat, k \in Nat, size \in Nat, taken \in BOOLEAN :
            Begins(f, n, k, size, taken)
      BY <1>7, SendBegins
    <2>2. sending = None /\ connected /\ UNCHANGED <<link, connected, mtuSize, events>>
      BY <1>7 DEF SendFirst, board
    <2>3. link.number # 0 /\ mtuSize <= link.mtu
      BY <2>2 DEF FirstConnection
    <2>4. size <= link.mtu - 5
      <3>1. size = mtuSize - 5
        BY <2>1 DEF Begins
      <3>2. QED
        BY <1>0, <2>3, <3>1
    <2>5. sending' # None => sending'.recordSize = size /\ taken /\ k # 1
      <3>1. sending' # None =>
              /\ taken /\ k # 1
              /\ sending' = [frame |-> f, cur |-> n - LenBytes, recordSize |-> size, toGo |-> k - 1]
        BY <2>1 DEF Begins
      <3>2. QED
        BY <3>1
    <2>6. ASSUME sending' # None, link.up, ~torn' PROVE clientRecord'.len # 0
      <3>0. Begins(f, n, k, size, TRUE)
        BY <2>1, <2>5, <2>6 DEF Begins
      <3>1. ~torn
        BY <3>0, <2>6, Zenon DEF Begins, Notify, Arrives
      <3>2. QED
        BY <2>2, <2>5, <2>6, <3>0, <3>1, FirstNotified
    <2>7. \A j \in 1..Len(events') : events'[j].type = "mtu" => events'[j].mtu = link'.mtu
      BY <2>2 DEF FirstConnection
    <2>8. QED
      BY <2>2, <2>3, <2>4, <2>5, <2>6, <2>7 DEF FirstConnection
  <1>8. CASE SendNext
    <2>0. PICK taken \in BOOLEAN : GoesOn(taken)
      BY <1>8, SendGoesOn
    <2>1. sending # None /\ UNCHANGED <<link, connected, mtuSize, events>>
      BY <2>0 DEF GoesOn, board
    <2>2. /\ link.number # 0 /\ sending.recordSize <= link.mtu - 5
      BY <2>1 DEF FirstConnection
    <2>3. sending' # None => taken /\ sending'.recordSize = sending.recordSize
      <3>1. sending' # None =>
              taken /\ \E c, g : sending' = [sending EXCEPT !.cur = c, !.toGo = g]
        BY <2>0 DEF GoesOn
      <3>2. sending \in [frame : Frames, cur : Nat, recordSize : Nat, toGo : Nat]
        BY <2>1 DEF RestToSend
      <3>3. QED
        BY <3>1, <3>2
    <2>4. ASSUME sending' # None, link.up, ~torn' PROVE clientRecord'.len # 0
      <3>0. GoesOn(TRUE)
        BY <2>0, <2>3, <2>4 DEF GoesOn
      <3>1. ~torn
        BY <3>0, <2>4, Zenon DEF GoesOn, Notify, Arrives
      <3>2. QED
        BY <2>4, <3>0, <3>1, NextNotified
    <2>5. QED
      BY <2>1, <2>2, <2>3, <2>4 DEF FirstConnection
  <1>9. CASE UNCHANGED bleVars
    BY <1>1, <1>9 DEF bleVars
  <1>10. QED
    BY <1>2, <1>3, <1>4, <1>5, <1>6, <1>7, <1>8, <1>9 DEF BleNext
-----------------------------------------------------------------------------
BleInv ==
  BleTypes /\ FramesAreReadable /\ FromClient /\ RestToSend /\ ToClient /\ FirstConnection

LEMMA BleInvInit == BleInit => BleInv
  <1> SUFFICES ASSUME BleInit PROVE BleInv
    OBVIOUS
  <1>1. BleTypes /\ FromClient
    BY BleTypesInit, FromClientInit
  <1>a. FramesAreReadable
    BY DEF BleInit, FramesAreReadable
  <1>2. RestToSend
    BY DEF BleInit, RestToSend
  <1>3. <<>> \in Seq(Frames) /\ Len(<<>>) = 0 /\ 1..0 = {}
    OBVIOUS
  <1>4. GotInOrder(<<>>, <<>>)
    BY <1>3 DEF GotInOrder
  <1>5. ToClient
    BY <1>4 DEF BleInit, ToClient
  <1>6. FirstConnection
    <2>1. /\ sending = None /\ events = <<>> /\ ~connected /\ ~link.up
          /\ link.mtu = DefaultMtu /\ mtuSize = DefaultMtu
      BY DEF BleInit
    <2>2. mtuSize <= link.mtu
      BY <2>1, BleLinkAssumption
    <2>3. \A k \in 1..Len(events) : events[k].type = "mtu" => events[k].mtu = link.mtu
      BY <1>3, <2>1
    <2>4. QED
      BY <2>1, <2>2, <2>3 DEF FirstConnection
  <1>7. QED
    BY <1>1, <1>a, <1>2, <1>5, <1>6 DEF BleInv

LEMMA BleInvariance == BleSpec => []BleInv
  <1>1. BleInv /\ [BleNext]_bleVars => BleInv'
    <2> SUFFICES ASSUME BleInv, [BleNext]_bleVars PROVE BleInv'
      OBVIOUS
    <2>1. BleTypes'
      BY BleTypesStep DEF BleInv
    <2>a. FramesAreReadable'
      BY FramesAreReadableStep DEF BleInv
    <2>2. FromClient'
      BY FromClientStep DEF BleInv
    <2>3. RestToSend'
      BY RestToSendStep DEF BleInv
    <2>4. ToClient'
      BY ToClientStep DEF BleInv
    <2>5. FirstConnection'
      BY FirstConnectionStep DEF BleInv
    <2>6. QED
      BY <2>1, <2>a, <2>2, <2>3, <2>4, <2>5 DEF BleInv
  <1>2. QED
    BY <1>1, BleInvInit, PTL DEF BleSpec

LEMMA PrefixOfWritten == BleInv /\ ~cut => IsPrefix(received, written)
  <1> SUFFICES ASSUME BleInv, ~cut PROVE IsPrefix(received, written)
    OBVIOUS
  <1>1. /\ received \in Seq(Frames) /\ Len(received) \in Nat
        /\ written \in Seq(Frames) /\ Len(written) \in Nat /\ Len(received) <= Len(written)
        /\ \A k \in 1..Len(received) : received[k] = written[k]
    BY DEF BleInv, FromClient, BleTypes
  <1>2. SubSeq(received, 1, Len(received)) = SubSeq(written, 1, Len(received))
    <2>1. /\ SubSeq(received, 1, Len(received)) = [k \in 1..Len(received) |-> received[k]]
          /\ SubSeq(written, 1, Len(received)) = [k \in 1..Len(received) |-> written[k]]
      BY <1>1
    <2>2. QED
      BY <1>1, <2>1
  <1>3. QED
    BY <1>1, <1>2 DEF IsPrefix

(* Frames arrive whole, once and in order, in both directions, however     *)
(* they are cut into pieces (record.c, ble_server.c).                      *)
THEOREM FramesAreInOrder == BleSpec => []FramesInOrder
  <1>1. BleInv => FramesInOrder
    <2> SUFFICES ASSUME BleInv PROVE FramesInOrder
      OBVIOUS
    <2>1. ~cut => IsPrefix(received, written)
      BY PrefixOfWritten
    <2>2. ASSUME ~torn
          PROVE  /\ ToSet(got) \subseteq ToSet(sent)
                 /\ \A j, k \in DOMAIN got : j < k => got[j].id < got[k].id
      <3>1. GotInOrder(got, sent) /\ got \in Seq(Frames) /\ sent \in Seq(Frames)
        BY <2>2 DEF BleInv, ToClient, BleTypes, GotInOrder
      <3>2. DOMAIN got = 1..Len(got) /\ DOMAIN sent = 1..Len(sent)
        BY <3>1
      <3>3. \A j \in DOMAIN got : got[j].id \in DOMAIN sent /\ sent[got[j].id] = got[j]
        BY <3>1, <3>2 DEF GotInOrder
      <3>4. ToSet(got) \subseteq ToSet(sent)
        BY <3>3 DEF ToSet
      <3>5. QED
        BY <3>1, <3>2, <3>4 DEF GotInOrder
    <2>3. QED
      BY <2>1, <2>2 DEF FramesInOrder
  <1>2. QED
    BY <1>1, BleInvariance, PTL

(* What tears a frame: a piece for the client before or of its MTU, a      *)
(* frame behind the half of another, or one whose length is misread.       *)
LEMMA TornForAReason ==
  ASSUME BleInv, [BleNext]_bleVars, torn', ~torn, link.number <= 1
  PROVE  abandoned \/ \E f \in Frames : ~Legible(f) /\ sent' = Append(sent, f)
  <1>1. PICK most \in Nat : link.mtu = most
    BY MtusAreNumbers DEF BleInv, BleTypes
  <1>2. ASSUME NEW len \in BoardLengths, SendFirst(len)
        PROVE  abandoned \/ \E f \in Frames : ~Legible(f) /\ sent' = Append(sent, f)
    <2>1. PICK f \in Frames, n \in Nat, k \in Nat, size \in Nat, taken \in BOOLEAN :
            Begins(f, n, k, size, taken)
      BY <1>2, SendBegins DEF BleInv
    <2>2. taken /\ link.up
      BY <2>1, Zenon DEF Begins, Notify
    <2>3. Begins(f, n, k, size, TRUE) /\ sending = None /\ connected
      BY <1>2, <2>1, <2>2 DEF Begins, SendFirst
    <2>4. n <= size /\ (n > link.mtu - 3 \/ abandoned \/ ~Legible(f))
      BY <2>2, <2>3, FirstNotified DEF BleInv
    <2>5. size = mtuSize - 5 /\ sent' = Append(sent, f) /\ mtuSize \in Nat
      BY <2>3, MtusAreNumbers DEF Begins, BleInv, BleTypes
    <2>6. mtuSize <= most
      BY <1>1 DEF BleInv, FirstConnection
    <2>7. ~(n > link.mtu - 3)
      BY <1>1, <2>4, <2>5, <2>6
    <2>8. QED
      BY <2>4, <2>5, <2>7
  <1>3. CASE SendNext
    <2>1. PICK taken \in BOOLEAN : GoesOn(taken)
      BY <1>3, SendGoesOn
    <2>2. taken /\ link.up /\ sending # None
      BY <2>1, Zenon DEF GoesOn, Notify
    <2>3. GoesOn(TRUE)
      BY <2>1, <2>2 DEF GoesOn
    <2>4. clientRecord.len # 0 /\ sending.recordSize <= link.mtu - 5
      BY <2>2 DEF BleInv, FirstConnection
    <2>5. QED
      BY <2>2, <2>3, <2>4, NextNotified DEF BleInv
  <1>4. ASSUME NEW network \in BOOLEAN, Connect(network) PROVE FALSE
    BY <1>4 DEF Connect
  <1>5. CASE Disconnect
    BY <1>5 DEF Disconnect
  <1>6. ASSUME NEW mtu \in Mtus, ExchangeMtu(mtu) PROVE FALSE
    BY <1>6 DEF ExchangeMtu
  <1>7. CASE WriteFirst \/ WriteNext
    BY <1>7 DEF WriteFirst, WriteNext, WritePiece
  <1>8. CASE StackStep
    BY <1>8 DEF StackStep, OnConnect, OnDisconnect, OnMtu, OnWrite, Event
  <1>9. CASE UNCHANGED bleVars
    BY <1>9 DEF bleVars
  <1>10. QED
    BY <1>2, <1>3, <1>4, <1>5, <1>6, <1>7, <1>8, <1>9 DEF BleNext

(* On the first connection a frame is torn only behind one whose rest the  *)
(* stack refused, or if the client misreads its length: all pieces fit the *)
(* link, and their number is right (record_send).                          *)
THEOREM FirstConnectionIsWhole ==
  BleSpec => [][~torn /\ torn' /\ link.number <= 1 =>
                  abandoned \/ \E f \in Frames : ~Legible(f) /\ sent' = Append(sent, f)]_bleVars
  <1>1. BleInv /\ [BleNext]_bleVars =>
          [~torn /\ torn' /\ link.number <= 1 =>
             abandoned \/ \E f \in Frames : ~Legible(f) /\ sent' = Append(sent, f)]_bleVars
    BY TornForAReason
  <1>2. QED
    BY <1>1, BleInvariance, PTL DEF BleSpec
-----------------------------------------------------------------------------
(***************************************************************************)
(* BleLink implements FrameChannel.  One more fact is needed, as a frame   *)
(* received behind a broken link need not be one of the client's: it is a  *)
(* frame that some piece belongs to, or None.                              *)
(***************************************************************************)

BoardTypes ==
  /\ record \in [len : Nat, cur : Int, pieces : Seq(Pieces)]
  /\ received \in Seq(Frames \cup {None})

HistoryTypes == cut \in BOOLEAN /\ abandoned \in BOOLEAN /\ torn \in BOOLEAN

(* Whatever pieces a record holds, it stays a record, and amounts to a     *)
(* frame or to None.                                                       *)
LEMMA RecordTypes ==
  ASSUME NEW r \in [len : Nat, cur : Int, pieces : Seq(Pieces)], NEW p \in Pieces
  PROVE  LET q == RecordAdd(r, p) IN
         /\ q \in [len : Nat, cur : Int, pieces : Seq(Pieces)]
         /\ FrameOf(q, None) \in Frames \cup {None}
  <1> DEFINE R == [len : Nat, cur : Int, pieces : Seq(Pieces)]
             q == RecordAdd(r, p)
  <1>1. p.frame \in Frames /\ LengthOf(p.frame.head) \in Nat /\ p.n \in Nat
    BY LengthOfHead DEF Pieces
  <1>2. r.len \in Nat /\ r.cur \in Int /\ r.pieces \in Seq(Pieces)
    OBVIOUS
  <1>3. <<p>> \in Seq(Pieces) /\ Append(r.pieces, p) \in Seq(Pieces)
    BY <1>2
  <1>4. p.n - LenBytes \in Int /\ r.cur + p.n \in Int
    BY <1>1, <1>2 DEF LenBytes
  <1>5. First(p, p.n - LenBytes) \in R
    BY <1>1, <1>3, <1>4 DEF First
  <1>6. Added(r, p) \in R
    <2> DEFINE sum == r.cur + p.n
               list == Append(r.pieces, p)
    <2>1. Added(r, p) = [r EXCEPT !.cur = sum, !.pieces = list]
      BY DEF Added
    <2>2. sum \in Int /\ list \in Seq(Pieces)
      BY <1>3, <1>4
    <2> HIDE DEF sum, list
    <2>3. [r EXCEPT !.cur = sum, !.pieces = list] \in R
      BY <2>2
    <2>4. QED
      BY <2>1, <2>3
  <1>7. q \in R
    <2> HIDE DEF R
    <2>1. r \in R
      BY DEF R
    <2>2. QED
      BY <1>5, <1>6, <2>1 DEF RecordAdd
  <1> HIDE DEF q
  <1>8. q.pieces \in Seq(Pieces)
    BY <1>7
  <1>9. q.pieces # <<>> => q.pieces[1].frame \in Frames
    <2> SUFFICES ASSUME q.pieces # <<>> PROVE q.pieces[1].frame \in Frames
      OBVIOUS
    <2>1. q.pieces[1] \in Pieces
      BY <1>8
    <2>2. QED
      BY <2>1 DEF Pieces
  <1>10. FrameOf(q, None) \in Frames \cup {None}
    BY <1>9, Zenon DEF FrameOf
  <1>11. QED
    BY <1>7, <1>10 DEF q

(* The piece that OnWrite takes is one. *)
LEMMA TakenPiece ==
  ASSUME BleTypes, BoardTypes, OnWrite
  PROVE  /\ BoardTypes'
         /\ \/ received' = received
            \/ \E x \in Frames \cup {None} : received' = Append(received, x)
  <1> DEFINE p == Head(events).piece
             q == RecordAdd(record, p)
             R == [len : Nat, cur : Int, pieces : Seq(Pieces)]
  <1>1. Event("write")
    BY DEF OnWrite
  <1>2. p \in Pieces
    BY <1>1, Taken, EventTypes
  <1>3. /\ IF RecordComplete(q)
           THEN record' = EmptyRecord /\ received' = Append(received, FrameOf(q, None))
           ELSE record' = q /\ received' = received
    BY DEF OnWrite, RecordGet
  <1> HIDE DEF p
  <1>4. q \in R /\ FrameOf(q, None) \in Frames \cup {None}
    BY <1>2, RecordTypes DEF BoardTypes
  <1>5. EmptyRecord \in R
    <2>1. <<>> \in Seq(Pieces) /\ 0 \in Nat /\ 0 \in Int
      OBVIOUS
    <2>2. QED
      BY <2>1 DEF EmptyRecord
  <1> HIDE DEF q, R
  <1>6. record' \in R
    BY <1>3, <1>4, <1>5
  <1>7. \/ received' = received
        \/ \E x \in Frames \cup {None} : received' = Append(received, x)
    BY <1>3, <1>4
  <1>8. received' \in Seq(Frames \cup {None})
    <2> DEFINE S == Frames \cup {None}
    <2>1. received \in Seq(S)
      BY DEF BoardTypes
    <2>2. received' = received \/ \E x \in S : received' = Append(received, x)
      BY <1>7
    <2> HIDE DEF S
    <2>3. received' \in Seq(S)
      BY <2>1, <2>2
    <2>4. QED
      BY <2>3 DEF S
  <1>9. QED
    BY <1>6, <1>7, <1>8 DEF BoardTypes, R

(* BoardTypes holds at the start, and every step keeps it. *)
LEMMA BoardTypesInit == BleInit => BoardTypes
  <1>1. <<>> \in Seq(Pieces) /\ <<>> \in Seq(Frames \cup {None}) /\ 0 \in Nat /\ 0 \in Int
    OBVIOUS
  <1>2. QED
    BY <1>1 DEF BleInit, BoardTypes, EmptyRecord

LEMMA BoardTypesStep == BleTypes /\ BoardTypes /\ [BleNext]_bleVars => BoardTypes'
  <1> SUFFICES ASSUME BleTypes, BoardTypes, [BleNext]_bleVars PROVE BoardTypes'
    OBVIOUS
  <1>1. CASE UNCHANGED <<record, received>>
    BY <1>1 DEF BoardTypes
  <1>2. CASE OnWrite
    BY <1>2, TakenPiece
  <1>3. CASE OnConnect \/ OnDisconnect \/ OnMtu
    BY <1>1, <1>3 DEF OnConnect, OnDisconnect, OnMtu
  <1>4. ASSUME Disconnect \/ \E network \in BOOLEAN : Connect(network) PROVE BoardTypes'
    BY <1>1, <1>4 DEF Connect, Disconnect, board
  <1>5. ASSUME NEW mtu \in Mtus, ExchangeMtu(mtu) PROVE BoardTypes'
    BY <1>1, <1>5 DEF ExchangeMtu, board
  <1>6. CASE WriteFirst \/ WriteNext
    BY <1>1, <1>6 DEF WriteFirst, WriteNext, WritePiece, board
  <1>7. ASSUME NEW len \in BoardLengths, SendFirst(len) PROVE BoardTypes'
    BY <1>1, <1>7 DEF SendFirst, board
  <1>8. CASE SendNext
    BY <1>1, <1>8 DEF SendNext, board
  <1>9. CASE UNCHANGED bleVars
    BY <1>1, <1>9 DEF bleVars
  <1>10. QED
    BY <1>2, <1>3, <1>4, <1>5, <1>6, <1>7, <1>8, <1>9 DEF BleNext, StackStep

(* The length of a record is what its first piece announces, and what it   *)
(* has of it is where its pieces end, if they are pieces of one frame and  *)
(* in order.                                                               *)
InOrder(r) ==
  /\ r.pieces # <<>> /\ r.pieces[1].from = 0
  /\ \A k \in 1..(Len(r.pieces) - 1) :
       r.pieces[k + 1].from = r.pieces[k].from + r.pieces[k].n

Chained(r) ==
  /\ r.pieces # <<>> => r.len = LengthOf(r.pieces[1].frame.head)
  /\ InOrder(r) => r.pieces[Len(r.pieces)].from + r.pieces[Len(r.pieces)].n = r.cur + LenBytes

Records == [len : Nat, cur : Int, pieces : Seq(Pieces)]

LEMMA ChainedFirst ==
  ASSUME NEW p \in Pieces
  PROVE  Chained(First(p, p.n - LenBytes))
  <1> DEFINE q == First(p, p.n - LenBytes)
  <1>1. /\ q.pieces = <<p>> /\ q.len = LengthOf(p.frame.head) /\ q.cur = p.n - LenBytes
        /\ p.n \in Nat /\ p.from \in Nat
    BY DEF First, Pieces
  <1> HIDE DEF q
  <1>2. Len(q.pieces) = 1 /\ q.pieces[1] = p
    BY <1>1
  <1>3. Chained(q)
    BY <1>1, <1>2 DEF Chained, InOrder, LenBytes
  <1>4. QED
    BY <1>3 DEF q

LEMMA ChainedAdded ==
  ASSUME NEW r \in Records, Chained(r), r.pieces # <<>>, NEW p \in Pieces
  PROVE  Chained(Added(r, p))
  <1> DEFINE q == Added(r, p)
  <1>1. PICK m \in Nat : m = Len(r.pieces) /\ m > 0
    BY DEF Records
  <1>2. r.pieces \in Seq(Pieces) /\ r.cur \in Int /\ p.n \in Nat /\ p.from \in Nat
    BY DEF Records, Pieces
  <1>3. q.pieces = Append(r.pieces, p) /\ q.len = r.len /\ q.cur = r.cur + p.n
    BY DEF Added, Records
  <1> HIDE DEF q
  <1>4. /\ Len(q.pieces) = m + 1 /\ q.pieces[m + 1] = p /\ q.pieces # <<>>
        /\ \A k \in 1..m : q.pieces[k] = r.pieces[k]
    BY <1>1, <1>2, <1>3
  <1>5. 1 \in 1..m /\ m \in 1..m /\ (m + 1) - 1 = m
    BY <1>1
  <1>6. q.len = LengthOf(q.pieces[1].frame.head)
    BY <1>3, <1>4, <1>5 DEF Chained
  <1>7. ASSUME InOrder(q)
        PROVE  q.pieces[m + 1].from + q.pieces[m + 1].n = q.cur + LenBytes
    <2>1. \A k \in 1..m : q.pieces[k + 1].from = q.pieces[k].from + q.pieces[k].n
      BY <1>4, <1>5, <1>7 DEF InOrder
    <2>2. \A k \in 1..(m - 1) : k \in 1..m /\ k + 1 \in 1..m
      BY <1>1
    <2>3. InOrder(r)
      BY <1>1, <1>4, <1>5, <1>7, <2>1, <2>2 DEF InOrder
    <2>4. r.pieces[m].from + r.pieces[m].n = r.cur + LenBytes
      BY <1>1, <2>3 DEF Chained
    <2>5. p.from = r.cur + LenBytes
      BY <1>4, <1>5, <2>1, <2>4
    <2>6. QED
      BY <1>2, <1>3, <1>4, <2>5 DEF LenBytes
  <1>8. Chained(q)
    BY <1>4, <1>6, <1>7 DEF Chained
  <1>9. QED
    BY <1>8 DEF q

LEMMA ChainedFrame ==
  ASSUME NEW q \in Records, Chained(q), RecordComplete(q), FrameOf(q, None) # None
  PROVE  Readable(FrameOf(q, None))
  <1> DEFINE f == q.pieces[1].frame
             last == q.pieces[Len(q.pieces)]
  <1>1. /\ f = FrameOf(q, None) /\ q.pieces # <<>> /\ q.pieces[1].from = 0
        /\ last.from + last.n = f.len + LenBytes
        /\ \A k \in 1..(Len(q.pieces) - 1) :
             q.pieces[k + 1].from = q.pieces[k].from + q.pieces[k].n
    BY DEF FrameOf
  <1>2. last.from + last.n = q.cur + LenBytes /\ q.len = LengthOf(f.head)
    BY <1>1 DEF Chained, InOrder
  <1>3. q.pieces[1] \in Pieces /\ q.cur \in Int
    BY <1>1 DEF Records
  <1>4. f.len \in Nat
    BY <1>3, LengthIsNat DEF Pieces
  <1> HIDE DEF f, last
  <1>5. q.cur = f.len
    BY <1>1, <1>2, <1>3, <1>4 DEF LenBytes
  <1>6. QED
    BY <1>1, <1>2, <1>5 DEF Readable, RecordComplete

(* What the application has received was announced as the board reads it.  *)
ReceivedReadable ==
  /\ Chained(record) /\ (record.len # 0 => record.pieces # <<>>)
  /\ \A k \in 1..Len(received) : received[k] # None => Readable(received[k])

LEMMA ReceivedReadableStep ==
  BleTypes /\ BoardTypes /\ ReceivedReadable /\ [BleNext]_bleVars => ReceivedReadable'
  <1> SUFFICES ASSUME BleTypes, BoardTypes, ReceivedReadable, [BleNext]_bleVars
               PROVE  ReceivedReadable'
    OBVIOUS
  <1>1. CASE UNCHANGED <<record, received>>
    BY <1>1 DEF ReceivedReadable, Chained, InOrder
  <1>2. CASE OnWrite
    <2> DEFINE p == Head(events).piece
               q == RecordAdd(record, p)
    <2>1. p \in Pieces
      <3>1. Event("write")
        BY <1>2 DEF OnWrite
      <3>2. QED
        BY <3>1, Taken, EventTypes
    <2>2. IF RecordComplete(q)
          THEN record' = EmptyRecord /\ received' = Append(received, FrameOf(q, None))
          ELSE record' = q /\ received' = received
      BY <1>2 DEF OnWrite, RecordGet
    <2> HIDE DEF p
    <2>3. record \in Records /\ received \in Seq(Frames \cup {None})
      BY DEF BoardTypes, Records
    <2>4. q \in Records /\ FrameOf(q, None) \in Frames \cup {None}
      BY <2>1, <2>3, RecordTypes DEF Records
    <2>5. Chained(q) /\ (q.len # 0 => q.pieces # <<>>)
      <3>1. q = First(p, p.n - LenBytes) \/ (record.len # 0 /\ (q = Added(record, p) \/ q = record))
        BY DEF RecordAdd
      <3>2. First(p, p.n - LenBytes).pieces # <<>>
        BY DEF First
      <3>3. record.len # 0 => Chained(Added(record, p)) /\ Added(record, p).pieces # <<>>
        <4>1. record.pieces \in Seq(Pieces)
          BY <2>3 DEF Records
        <4>2. Append(record.pieces, p) # <<>>
          BY <2>1, <4>1
        <4>3. Added(record, p).pieces = Append(record.pieces, p)
          BY <2>3 DEF Added, Records
        <4>4. QED
          BY <2>1, <2>3, <4>2, <4>3, ChainedAdded DEF ReceivedReadable
      <3> HIDE DEF q
      <3>4. QED
        BY <2>1, <3>1, <3>2, <3>3, ChainedFirst DEF ReceivedReadable
    <2> HIDE DEF q
    <2>6. CASE RecordComplete(q)
      <3>1. Chained(EmptyRecord) /\ EmptyRecord.len = 0
        BY DEF Chained, InOrder, EmptyRecord
      <3>2. /\ received' = Append(received, FrameOf(q, None))
            /\ FrameOf(q, None) # None => Readable(FrameOf(q, None))
        BY <2>2, <2>4, <2>5, <2>6, ChainedFrame
      <3> DEFINE S == Frames \cup {None}
      <3>3. received \in Seq(S) /\ FrameOf(q, None) \in S
        BY <2>3, <2>4
      <3> HIDE DEF S
      <3>4. /\ Len(received) \in Nat /\ Len(received') = Len(received) + 1
            /\ received'[Len(received) + 1] = FrameOf(q, None)
            /\ \A k \in 1..Len(received) : received'[k] = received[k]
        BY <3>2, <3>3
      <3>5. \A k \in 1..Len(received') : received'[k] # None => Readable(received'[k])
        BY <3>2, <3>4 DEF ReceivedReadable
      <3>6. QED
        BY <2>2, <2>6, <3>1, <3>5 DEF ReceivedReadable
    <2>7. CASE ~RecordComplete(q)
      BY <2>2, <2>5, <2>7 DEF ReceivedReadable
    <2>8. QED
      BY <2>6, <2>7
  <1>3. CASE OnConnect \/ OnDisconnect \/ OnMtu
    BY <1>1, <1>3 DEF OnConnect, OnDisconnect, OnMtu
  <1>4. ASSUME Disconnect \/ \E network \in BOOLEAN : Connect(network) PROVE ReceivedReadable'
    BY <1>1, <1>4 DEF Connect, Disconnect, board
  <1>5. ASSUME NEW mtu \in Mtus, ExchangeMtu(mtu) PROVE ReceivedReadable'
    BY <1>1, <1>5 DEF ExchangeMtu, board
  <1>6. CASE WriteFirst \/ WriteNext
    BY <1>1, <1>6 DEF WriteFirst, WriteNext, WritePiece, board
  <1>7. ASSUME NEW len \in BoardLengths, SendFirst(len) PROVE ReceivedReadable'
    BY <1>1, <1>7 DEF SendFirst, board
  <1>8. CASE SendNext
    BY <1>1, <1>8 DEF SendNext, board
  <1>9. CASE UNCHANGED bleVars
    BY <1>1, <1>9 DEF bleVars
  <1>10. QED
    BY <1>2, <1>3, <1>4, <1>5, <1>6, <1>7, <1>8, <1>9 DEF BleNext, StackStep

(* Every step keeps HistoryTypes. *)
LEMMA HistoryTypesStep == HistoryTypes /\ [BleNext]_bleVars => HistoryTypes'
  <1> SUFFICES ASSUME HistoryTypes, [BleNext]_bleVars PROVE HistoryTypes'
    OBVIOUS
  <1>1. ASSUME UNCHANGED <<cut, abandoned, torn>> PROVE HistoryTypes'
    BY <1>1 DEF HistoryTypes
  <1>2. CASE Disconnect
    <2>1. torn' = torn /\ cut' = (cut \/ client # None) /\ abandoned' = FALSE
      BY <1>2 DEF Disconnect
    <2>2. cut' \in BOOLEAN
      BY <2>1, Zenon DEF HistoryTypes
    <2>3. QED
      BY <2>1, <2>2 DEF HistoryTypes
  <1>3. ASSUME NEW frame, NEW from, NEW n, NEW taken, Notify(frame, from, n, taken)
        PROVE  abandoned' \in BOOLEAN /\ torn' \in BOOLEAN
    <2>1. torn' = torn \/ \E astray : torn' = (torn \/ astray)
      BY <1>3, Zenon DEF Notify, Arrives
    <2>2. \E refused : abandoned' = (abandoned \/ refused)
      BY <1>3, Zenon DEF Notify
    <2>3. QED
      BY <2>1, <2>2, Zenon DEF HistoryTypes
  <1>4. ASSUME NEW len \in BoardLengths, SendFirst(len) PROVE HistoryTypes'
    <2>1. cut' = cut /\ \E frame, n, taken : Notify(frame, 0, n, taken)
      BY <1>4, Zenon DEF SendFirst
    <2>2. QED
      BY <1>3, <2>1, Zenon DEF HistoryTypes
  <1>5. CASE SendNext
    <2>1. cut' = cut /\ \E frame, from, n, taken : Notify(frame, from, n, taken)
      BY <1>5, Zenon DEF SendNext
    <2>2. QED
      BY <1>3, <2>1, Zenon DEF HistoryTypes
  <1>6. ASSUME NEW network \in BOOLEAN, Connect(network) PROVE HistoryTypes'
    BY <1>1, <1>6 DEF Connect
  <1>7. ASSUME NEW mtu \in Mtus, ExchangeMtu(mtu) PROVE HistoryTypes'
    BY <1>1, <1>7 DEF ExchangeMtu
  <1>8. CASE WriteFirst \/ WriteNext
    <2>1. UNCHANGED <<abandoned, torn>> /\ \E unreadable : cut' = (cut \/ unreadable)
      BY <1>8, Zenon DEF WriteFirst, WriteNext, WritePiece
    <2>2. QED
      BY <2>1, Zenon DEF HistoryTypes
  <1>9. CASE StackStep
    BY <1>1, <1>9 DEF StackStep, OnConnect, OnDisconnect, OnMtu, OnWrite, Event
  <1>10. CASE UNCHANGED bleVars
    BY <1>1, <1>10 DEF bleVars
  <1>11. QED
    BY <1>2, <1>4, <1>5, <1>6, <1>7, <1>8, <1>9, <1>10 DEF BleNext

(* Both hold in every state. *)
LEMMA BoardInvariance == BleSpec => [](BoardTypes /\ HistoryTypes)
  <1>1. BleInit => HistoryTypes
    BY DEF BleInit, HistoryTypes
  <1>2. BleInv /\ BoardTypes /\ [BleNext]_bleVars => BoardTypes'
    BY BoardTypesStep DEF BleInv
  <1>3. QED
    BY <1>1, <1>2, BoardTypesInit, HistoryTypesStep, BleInvariance, PTL DEF BleSpec

(* No frame that a client announces in network byte order, as docs/BLE.md  *)
(* says, ever reaches the application (unless the two bytes of its length  *)
(* are the same): record_add reads the lower byte first.                   *)
THEOREM MisannouncedFramesAreLost ==
  BleSpec => [](\A f \in ToSet(received) \ {None} : LengthOf(f.head) = f.len)
  <1>1. BleInit => ReceivedReadable
    <2>1. Chained(EmptyRecord) /\ EmptyRecord.len = 0 /\ Len(<<>>) = 0
      BY DEF Chained, InOrder, EmptyRecord
    <2>2. QED
      BY <2>1 DEF BleInit, ReceivedReadable
  <1>2. BleInv /\ BoardTypes /\ ReceivedReadable /\ [BleNext]_bleVars => ReceivedReadable'
    BY ReceivedReadableStep DEF BleInv
  <1>3. BoardTypes /\ ReceivedReadable =>
          \A f \in ToSet(received) \ {None} : LengthOf(f.head) = f.len
    <2> SUFFICES ASSUME BoardTypes, ReceivedReadable, NEW f \in ToSet(received) \ {None}
                 PROVE  LengthOf(f.head) = f.len
      OBVIOUS
    <2>1. DOMAIN received = 1..Len(received)
      BY DEF BoardTypes
    <2>2. PICK k \in 1..Len(received) : received[k] = f
      BY <2>1 DEF ToSet
    <2>3. QED
      BY <2>2 DEF ReceivedReadable, Readable
  <1>4. QED
    BY <1>1, <1>2, <1>3, BleInvariance, BoardInvariance, PTL DEF BleSpec

(* A frame with the next number is new. *)
LEMMA NewFrame ==
  ASSUME NEW s \in Seq(Frames), \A k \in DOMAIN s : s[k].id = k,
         NEW f \in Frames, f.id = Len(s) + 1
  PROVE  f \notin Channel!Range(s)
  <1>1. Len(s) \in Nat /\ DOMAIN s = 1..Len(s)
    OBVIOUS
  <1>2. \A k \in 1..Len(s) : s[k] # f
    BY <1>1
  <1>3. QED
    BY <1>1, <1>2 DEF Channel!Range

(* What a client reads is up to it. *)
LEMMA SameClient ==
  ASSUME link'.network = link.network
  PROVE  {f \in Frames : Legible(f)}' = {f \in Frames : Legible(f)}
  BY DEF Legible

(* What is written goes into the channel with the frame's last piece; a    *)
(* length that is not readable, with the first.                            *)
LEMMA ChannelWritten ==
  ASSUME BleTypes, HistoryTypes, NEW f \in Frames, NEW from \in Nat, NEW n \in Nat,
         Writes(f, from, n), WriteFirst \/ WriteNext
  PROVE  Channel!Write(f) \/ Channel!Misannounce \/ UNCHANGED Channel!channelVars
  <1>1. /\ link.up /\ f.id = Len(written) + 1
        /\ written' = Append(written, f) \/ written' = written
        /\ UNCHANGED <<link, sending, clientRecord, sent, got, abandoned, torn, received>>
        /\ cut' = (cut \/ ~Readable(f))
    BY DEF Writes, WriteFirst, WriteNext, WritePiece, board
  <1>2. UnderWay' = UnderWay /\ {g \in Frames : Legible(g)}' = {g \in Frames : Legible(g)}
    BY <1>1, SameClient DEF UnderWay
  <1>3. f \notin Channel!Range(written)
    BY <1>1, NewFrame DEF BleTypes
  <1>4. f \in {g \in Frames : LengthOf(g.head) = g.len} <=> Readable(f)
    BY DEF Readable
  <1>5. CASE written' = Append(written, f)
    <2>1. cut' = (cut \/ f \notin {g \in Frames : LengthOf(g.head) = g.len})
      BY <1>1, <1>4, Zenon
    <2>2. QED
      BY <1>1, <1>2, <1>3, <1>5, <2>1 DEF Channel!Write, Channel!outVars
  <1>6. CASE written' = written /\ Readable(f)
    <2>1. cut' = cut
      BY <1>1, <1>6, Zenon DEF HistoryTypes
    <2>2. QED
      BY <1>1, <1>2, <1>6, <2>1 DEF Channel!channelVars, Channel!inVars, Channel!outVars
  <1>7. CASE written' = written /\ ~Readable(f)
    <2>1. cut' = TRUE
      BY <1>1, <1>7, Zenon
    <2>2. {g \in Frames : LengthOf(g.head) = g.len} # Frames
      BY <1>4, <1>7
    <2>3. QED
      BY <1>1, <1>2, <1>7, <2>1, <2>2 DEF Channel!Misannounce, Channel!inVars, Channel!outVars
  <1>8. QED
    BY <1>1, <1>5, <1>6, <1>7

(* The record that a piece completes goes to the application; it is the    *)
(* frame that is due, unless a link broke within a frame.                  *)
LEMMA ChannelReceived ==
  ASSUME BleInv, BleInv', BoardTypes, OnWrite
  PROVE  (\E f \in Frames \cup {None} : Channel!Receive(f)) \/ UNCHANGED Channel!channelVars
  <1>1. UNCHANGED <<link, sending, clientRecord, written, sent, got, cut, abandoned, torn>>
    BY DEF OnWrite, Event
  <1>2. UnderWay' = UnderWay /\ {g \in Frames : Legible(g)}' = {g \in Frames : Legible(g)}
    BY <1>1, SameClient DEF UnderWay
  <1>3. CASE received' = received
    BY <1>1, <1>2, <1>3 DEF Channel!channelVars, Channel!inVars, Channel!outVars
  <1>4. CASE received' # received
    <2>1. PICK x \in Frames \cup {None} : received' = Append(received, x)
      BY <1>4, TakenPiece DEF BleInv
    <2>2. ASSUME ~cut PROVE Len(received) < Len(written) /\ x = written[Len(received) + 1]
      <3>1. /\ received' \in Seq(Frames) /\ Len(received') <= Len(written)
            /\ \A k \in DOMAIN received' : received'[k] = written[k]
        BY <1>1, <2>2 DEF BleInv, FromClient
      <3>2. received \in Seq(Frames) /\ Len(received) \in Nat /\ Len(written) \in Nat
        BY <2>2 DEF BleInv, FromClient, BleTypes
      <3>3. Len(received') = Len(received) + 1 /\ received'[Len(received) + 1] = x
        <4>1. received \in Seq(Frames \cup {None})
          BY DEF BoardTypes
        <4> DEFINE S == Frames \cup {None}
        <4> HIDE DEF S
        <4>2. received \in Seq(S) /\ x \in S
          BY <4>1 DEF S
        <4>3. QED
          BY <2>1, <4>2
      <3>4. Len(received) + 1 \in DOMAIN received'
        BY <3>1, <3>2, <3>3
      <3>5. QED
        BY <3>1, <3>2, <3>3, <3>4
    <2>3. Channel!Receive(x)
      BY <1>1, <1>2, <2>1, <2>2 DEF Channel!Receive, Channel!outVars
    <2>4. QED
      BY <2>3
  <1>5. QED
    BY <1>3, <1>4

(* What is torn is torn for a reason. *)
LEMMA ChannelTorn ==
  ASSUME BleInv, BleInv', HistoryTypes, HistoryTypes', [BleNext]_bleVars, torn',
         UNCHANGED <<link, written, received, cut, got>>,
         sent' = sent
           \/ \E f \in Frames : f \notin Channel!Range(sent) /\ sent' = Append(sent, f)
  PROVE  Channel!Tear
  <1>1. \/ torn \/ link.number > 1 \/ abandoned
        \/ \E f \in Frames \ {g \in Frames : Legible(g)} : sent' = Append(sent, f)
    <2>1. CASE link.number <= 1 /\ ~torn
      <3>1. abandoned \/ \E f \in Frames : ~Legible(f) /\ sent' = Append(sent, f)
        BY <2>1, TornForAReason
      <3>2. QED
        BY <3>1
    <2>2. CASE ~(link.number <= 1)
      <3>1. link.number \in Nat
        BY DEF BleInv, BleTypes
      <3>2. QED
        BY <2>2, <3>1
    <2>3. QED
      BY <2>1, <2>2
  <1>2. UnderWay' \in Frames \cup {None}
    <2>1. sending' # None => sending'.frame \in Frames
      BY DEF BleInv, RestToSend
    <2>2. QED
      BY <2>1 DEF UnderWay
  <1>3. torn' = TRUE /\ abandoned' \in BOOLEAN
    BY Zenon DEF HistoryTypes
  <1>4. {g \in Frames : Legible(g)}' = {g \in Frames : Legible(g)}
    BY SameClient
  <1>5. QED
    BY <1>1, <1>2, <1>3, <1>4 DEF Channel!Tear, Channel!inVars

(* The first piece of a frame. *)
LEMMA ChannelSent ==
  ASSUME BleInv, BleInv', HistoryTypes, HistoryTypes', [BleNext]_bleVars,
         NEW len \in BoardLengths, SendFirst(len)
  PROVE  (\E f \in Frames : Channel!Send(f)) \/ Channel!Tear
  <1>1. PICK f \in Frames, n \in Nat, k \in Nat, size \in Nat, taken \in BOOLEAN :
          Begins(f, n, k, size, taken)
    BY SendBegins DEF BleInv
  <1>2. /\ sending = None /\ UNCHANGED <<link, written, received, cut>>
    BY DEF SendFirst, board
  <1>3. f.id = Len(sent) + 1 /\ sent' = Append(sent, f)
    BY <1>1 DEF Begins
  <1>4. f \notin Channel!Range(sent)
    BY <1>3, NewFrame DEF BleInv, BleTypes
  <1>5. UnderWay = None /\ {g \in Frames : Legible(g)}' = {g \in Frames : Legible(g)}
    BY <1>2, SameClient DEF UnderWay
  <1>6. CASE torn'
    <2>1. got' = got
      BY <1>1, <1>6 DEF Begins, Notify, Arrives
    <2>2. QED
      BY <1>2, <1>3, <1>4, <1>6, <2>1, ChannelTorn
  <1>7. CASE ~torn' /\ ~(taken /\ link.up)
    <2>1. UNCHANGED <<clientRecord, got, torn>> /\ (abandoned' <=> abandoned)
      BY <1>1, <1>7, Zenon DEF Begins, Notify
    <2>2. link.up => sending' = None
      BY <1>1, <1>7 DEF Begins
    <2>3. UnderWay' = None /\ abandoned' = abandoned
      <3>1. UnderWay' = None
        BY <1>2, <2>2 DEF UnderWay
      <3>2. abandoned' = abandoned
        BY <2>1, Zenon DEF HistoryTypes
      <3>3. QED
        BY <3>1, <3>2
    <2>4. Channel!Send(f)
      BY <1>2, <1>3, <1>4, <1>5, <2>1, <2>3 DEF Channel!Send, Channel!inVars
    <2>5. QED
      BY <2>4
  <1>8. CASE ~torn' /\ taken /\ link.up
    <2>0. Begins(f, n, k, size, TRUE)
      BY <1>1, <1>8 DEF Begins
    <2>1. ~torn /\ torn' = torn
      <3>1. ~torn
        BY <2>0, <1>8, Zenon DEF Begins, Notify, Arrives
      <3>2. QED
        BY <1>8, <3>1, Zenon DEF HistoryTypes
    <2>2. /\ ~abandoned /\ ~abandoned' /\ Legible(f)
          /\ IF k = 1 THEN sending' = None /\ got' = Append(got, f)
             ELSE sending' # None /\ sending'.frame = f /\ got' = got /\ clientRecord'.len # 0
      BY <2>0, <1>2, <1>8, <2>1, FirstNotified DEF BleInv
    <2>3. UnderWay' = IF k = 1 THEN None ELSE f
      BY <1>2, <1>8, <2>2 DEF UnderWay
    <2>4. abandoned' = abandoned
      BY <2>2, Zenon DEF HistoryTypes
    <2>5. Channel!Taken(f)
      BY <1>8, <2>2 DEF Channel!Taken
    <2>6. Channel!Send(f)
      BY <1>2, <1>3, <1>4, <1>5, <2>1, <2>2, <2>3, <2>4, <2>5 DEF Channel!Send, Channel!inVars
    <2>7. QED
      BY <2>6
  <1>9. QED
    BY <1>6, <1>7, <1>8

(* The pieces behind it: with the last the client has got the frame. *)
LEMMA ChannelGoesOn ==
  ASSUME BleInv, BleInv', HistoryTypes, HistoryTypes', [BleNext]_bleVars, SendNext
  PROVE  Channel!Get \/ Channel!Abandon \/ Channel!Tear \/ UNCHANGED Channel!channelVars
  <1> DEFINE f == sending.frame
  <1>0. PICK taken \in BOOLEAN : GoesOn(taken)
    BY SendGoesOn
  <1>1. UNCHANGED <<link, written, received, cut, sent>> /\ sending # None
    BY <1>0 DEF GoesOn, board
  <1>2. {g \in Frames : Legible(g)}' = {g \in Frames : Legible(g)}
    BY <1>1, SameClient
  <1>3. sending.cur + LenBytes # 0 /\ f \in Frames /\ f # None
    BY <1>1, NoneAssumption DEF BleInv, RestToSend, LenBytes
  <1>4. CASE torn'
    <2>1. got' = got
      BY <1>0, <1>4 DEF GoesOn, Notify, Arrives
    <2>2. QED
      BY <1>1, <1>4, <2>1, ChannelTorn
  <1>5. CASE ~torn' /\ ~link.up
    <2>1. UNCHANGED <<got, torn>> /\ (abandoned' <=> abandoned)
      BY <1>0, <1>5, Zenon DEF GoesOn, Notify
    <2>2. UnderWay = None /\ UnderWay' = None
      BY <1>1, <1>5 DEF UnderWay
    <2>3. abandoned' = abandoned
      BY <2>1, Zenon DEF HistoryTypes
    <2>4. QED
      BY <1>1, <1>2, <2>1, <2>2, <2>3 DEF Channel!channelVars, Channel!inVars, Channel!outVars
  <1>6. CASE ~torn' /\ link.up /\ ~taken
    <2>1. UNCHANGED <<clientRecord, got, torn>> /\ sending' = None
      BY <1>0, <1>6 DEF GoesOn, Notify
    <2>2. UnderWay' = None /\ UnderWay = IF clientRecord.len # 0 THEN f ELSE None
      BY <1>1, <1>6, <2>1 DEF UnderWay
    <2>3. CASE clientRecord.len # 0
      <3>1. abandoned' = TRUE
        BY <1>0, <1>3, <1>6, <2>3, Zenon DEF GoesOn, Notify
      <3>2. Channel!Abandon
        BY <1>1, <1>2, <1>3, <1>6, <2>1, <2>2, <2>3, <3>1 DEF Channel!Abandon, Channel!inVars
      <3>3. QED
        BY <3>2
    <2>4. CASE clientRecord.len = 0
      <3>1. abandoned' <=> abandoned
        BY <1>0, <2>4, Zenon DEF GoesOn, Notify
      <3>2. abandoned' = abandoned
        BY <3>1, Zenon DEF HistoryTypes
      <3>3. QED
        BY <1>1, <1>2, <2>1, <2>2, <2>4, <3>2
           DEF Channel!channelVars, Channel!inVars, Channel!outVars
    <2>5. QED
      BY <2>3, <2>4
  <1>7. CASE ~torn' /\ link.up /\ taken
    <2>0. GoesOn(TRUE)
      BY <1>0, <1>7 DEF GoesOn
    <2>1. ~torn /\ torn' = torn
      <3>1. ~torn
        BY <2>0, <1>7, Zenon DEF GoesOn, Notify, Arrives
      <3>2. QED
        BY <1>7, <3>1, Zenon DEF HistoryTypes
    <2>2. /\ clientRecord.len # 0 /\ ~abandoned /\ ~abandoned'
          /\ IF sending' = None THEN got' = Append(got, f)
             ELSE sending'.frame = f /\ got' = got /\ clientRecord'.len # 0
      BY <2>0, <1>7, <2>1, NextNotified DEF BleInv
    <2>3. UnderWay = f
      BY <1>1, <1>7, <2>2 DEF UnderWay
    <2>4. UnderWay' = IF sending' = None THEN None ELSE f
      BY <1>1, <1>7, <2>2 DEF UnderWay
    <2>5. abandoned' = abandoned
      BY <2>2, Zenon DEF HistoryTypes
    <2> HIDE DEF f
    <2>6. CASE sending' = None
      <3>1. Channel!Get
        BY <1>1, <1>2, <1>3, <1>7, <2>1, <2>2, <2>3, <2>4, <2>5, <2>6
           DEF Channel!Get, Channel!inVars
      <3>2. QED
        BY <3>1
    <2>7. CASE sending' # None
      BY <1>1, <1>2, <2>1, <2>2, <2>3, <2>4, <2>5, <2>7
         DEF Channel!channelVars, Channel!inVars, Channel!outVars
    <2>8. QED
      BY <2>6, <2>7
  <1>8. QED
    BY <1>4, <1>5, <1>6, <1>7

(* Every step is one of the channel's, or changes nothing that it knows. *)
LEMMA ChannelStep ==
  BleInv /\ BleInv' /\ BoardTypes /\ HistoryTypes /\ HistoryTypes' /\ [BleNext]_bleVars
    => [Channel!ChannelNext]_(Channel!channelVars)
  <1> SUFFICES ASSUME BleInv, BleInv', BoardTypes, HistoryTypes, HistoryTypes',
                      [BleNext]_bleVars
               PROVE  Channel!ChannelNext \/ UNCHANGED Channel!channelVars
    OBVIOUS
  <1>1. ASSUME NEW network \in BOOLEAN, Connect(network) PROVE Channel!ChannelNext
    <2>1. /\ ~link.up /\ link'.up = TRUE /\ link'.number = link.number + 1
          /\ clientRecord' = EmptyRecord
          /\ UNCHANGED <<written, received, cut, sending, sent, got, abandoned, torn>>
          /\ {f \in Frames : Legible(f)}' \subseteq Frames
      BY <1>1 DEF Connect, board
    <2>2. UnderWay = None /\ UnderWay' = None
      BY <2>1, NoBytes DEF UnderWay
    <2>3. Channel!Come
      BY <2>1, <2>2 DEF Channel!Come, Channel!inVars, Channel!outVars
    <2>4. QED
      BY <2>3 DEF Channel!ChannelNext
  <1>2. CASE Disconnect
    <2>1. /\ link.up /\ link'.up = FALSE /\ link'.number = link.number
          /\ UNCHANGED <<written, received, sent, got, torn>>
          /\ abandoned' = FALSE /\ link'.network = link.network
      BY <1>2 DEF Disconnect, board, BleInv, BleTypes
    <2>2. cut' \in {cut, TRUE}
      <3>1. cut' = (cut \/ client # None)
        BY <1>2 DEF Disconnect
      <3>2. QED
        BY <3>1, Zenon DEF HistoryTypes
    <2>3. UnderWay' = None
      BY <2>1 DEF UnderWay
    <2>4. Channel!Leave
      BY <2>1, <2>2, <2>3, SameClient DEF Channel!Leave, Channel!inVars
    <2>5. QED
      BY <2>4 DEF Channel!ChannelNext
  <1>3. ASSUME UNCHANGED <<sending, clientRecord, written, received, cut, sent, got, abandoned,
                           torn>>,
               link'.up = link.up, link'.number = link.number, link'.network = link.network
        PROVE  UNCHANGED Channel!channelVars
    <2>1. UnderWay' = UnderWay /\ {f \in Frames : Legible(f)}' = {f \in Frames : Legible(f)}
      BY <1>3, SameClient DEF UnderWay
    <2>2. QED
      BY <1>3, <2>1 DEF Channel!channelVars, Channel!inVars, Channel!outVars
  <1>4. ASSUME NEW mtu \in Mtus, ExchangeMtu(mtu) PROVE UNCHANGED Channel!channelVars
    <2>1. link'.up = link.up /\ link'.number = link.number /\ link'.network = link.network
      BY <1>4 DEF ExchangeMtu, BleInv, BleTypes
    <2>2. UNCHANGED <<sending, clientRecord, written, received, cut, sent, got, abandoned, torn>>
      BY <1>4 DEF ExchangeMtu, board
    <2>3. QED
      BY <1>3, <2>1, <2>2
  <1>5. CASE WriteFirst \/ WriteNext
    <2>1. PICK f \in Frames, from \in Nat, n \in Nat : Writes(f, from, n)
      BY <1>5, WriteIsPiece DEF BleInv
    <2>2. Channel!Write(f) \/ Channel!Misannounce \/ UNCHANGED Channel!channelVars
      BY <1>5, <2>1, ChannelWritten DEF BleInv
    <2>3. QED
      BY <2>2 DEF Channel!ChannelNext
  <1>6. CASE OnConnect \/ OnDisconnect \/ OnMtu
    BY <1>3, <1>6 DEF OnConnect, OnDisconnect, OnMtu, Event
  <1>7. CASE OnWrite
    BY <1>7, ChannelReceived DEF Channel!ChannelNext
  <1>8. ASSUME NEW len \in BoardLengths, SendFirst(len) PROVE Channel!ChannelNext
    BY <1>8, ChannelSent DEF Channel!ChannelNext
  <1>9. CASE SendNext
    BY <1>9, ChannelGoesOn DEF Channel!ChannelNext
  <1>10. CASE UNCHANGED bleVars
    BY <1>3, <1>10 DEF bleVars
  <1>11. QED
    BY <1>1, <1>2, <1>4, <1>5, <1>6, <1>7, <1>8, <1>9, <1>10 DEF BleNext, StackStep

(* Frames over Bluetooth, cut into pieces by record_send and by clients,   *)
(* put together by record_add, implement FrameChannel: in particular a     *)
(* frame whose pieces the stack takes for a client that stays arrives, and *)
(* nothing that one client was sent reaches another before a frame has     *)
(* been torn.                                                              *)
THEOREM FramesGoThroughChannel == BleSpec => ImplementsChannel
  <1>1. BleInit => Channel!ChannelInit
    BY DEF BleInit, Channel!ChannelInit, UnderWay
  <1>2. QED
    BY <1>1, ChannelStep, BoardInvariance, BleInvariance, PTL
       DEF BleSpec, ImplementsChannel, Channel!ChannelSpec
=============================================================================
