# fluxnode: a verification project

fluxnode is the firmware of an ESP32 board with a LoRa modem. It runs applications written in
JavaScript (the engine is Duktape) that receive events (LoRa packets, frames of a Wifi or
Bluetooth client, presses of a button, a timer) and call functions of the platform. This
directory holds TLA+ models of the firmware and of the JavaScript library that belongs to it,
TLC configurations that check them, and proofs for TLAPS.

`PROJECT.json` lists the components, the runs, the hazards (with the properties that cover
them), the theorems, and for every definition the lines of the source it models.
Paths below are relative to the repository.

## The system

Several tasks of FreeRTOS run on two cores:

| task | runs | shares |
|---|---|---|
| `duktape_task` | the application, its loading, its timer, everything the application calls | event queue, `g->reset`, `g->load_file`, the modem, `websocket_conn`, the Bluetooth state |
| `lora_isr_recv_task` | reads packets, changes channels; woken by two GPIO interrupts | `isr_recv_queue`, the modem, `_modem_state` |
| `websocket_server` | one client at a time | `websocket_conn`, `websocket_server_running`, its configuration |
| `httpd` | file upload, download, deletion, `/control?reset`, `setload`, `reboot` | files and descriptors, `g->reset`, `g->load_file` |
| Bluetooth stack | callbacks of `ble_server.c` | connection, MTU, `recv_record` |
| `udp_server_task` | UDP packets as events | the UDP socket |
| FreeRTOS timer task | the button's callback; on the core on which `app_main` has installed the GPIO interrupts, so they come between any two of its steps | presses, `timer_started` |

All of them hand events to `duktape_task` through `duk_main_add_full_event`: a queue under a
semaphore, and a task notification.

### Inventory

| component | state | operations | what is hard | what makes it correct |
|---|---|---|---|---|
| event loop (`main/duk_main.c`, `main/include/queue.h`) | queue, notification, `reset`, timer | add event, reset, reboot, `duktape_task`, `duk_init` | adds, wake-ups and resets at every point of the loop; failing loads | no lost wake-up, no lost reset, order, nothing of the last application survives |
| loader (`main/duk_main.c`, `duk_util.c`) | `load_file`, `load_index`, heap block | `setLoadFileName`, `/control?setload`, `duk_init` | two tasks replace the name while `duk_init` uses it; failures in `OnStart` | block freed once, last setting wins, recovery is reached |
| platform timer (`main/duk_main.c`) | `wake_up_timeMS`, `last_ticks`, `delay` | `setTimer`, `timer_check` | unsigned arithmetic, early wake-ups | neither early nor late, and at all |
| timer library (`spiffs_image/timer.js`) | sorted list of timers | `setTimeout`, `setInterval`, `cancelTimer`, `OnTimer`, `setSystemTime` | callbacks that change the list, exceptions, timers that are due, a clock that is set | sorted, called once, called at all |
| record framing (`main/record.c`) | `record_t` | `record_add`, `record_get`, `record_send` | sizes at the boundary, lengths that do not fit, byte order | frames whole and in order |
| Bluetooth data service (`main/ble_server.c`) | connection, MTU, `recv_record` | GATT events, `ble_server_send` | links that break, events that come late, sending meanwhile, pieces that the stack refuses | frames whole and in order, the application knows who is there |
| LoRa radio (`main/lora_main.c`, `components/lora/lora.c`) | registers, `_modem_state`, `lora_mode`, queue | receive, idle, sleep, send, `setHopping`, the settings; two interrupts, receive task | two tasks at one chip without a lock; edges lost; a table replaced while in use; settings that share registers | packets in order, modem not deaf, stays in its mode, `sendPacket` returns |
| connectivity (`main/platform.c`, `wifi_service.c`) | `connectivity`, send function, drivers | `setConnectivity`, `wifiConfigure` | orders of calls, failures half way | what sends is what is up |
| websocket server (`components/websocket_server`) | `websocket_conn`, `running`, task | start, stop, accept, handshake, serve | stop at any point, clients that are silent or vanish | stop returns, connections closed, events of one client at a time |
| button (`main/button_service.c`) | presses, timer flag | interrupt, timer callback, event | interrupts between the steps of the callback, bounces, a full array | never deaf, presses far enough apart are counted, every frame ends |
| web server and files (`main/web_service.c`, `main/duk_fs.c`, `main/duk_util.c`) | files, descriptors, the request | upload, download, delete, control, start, stop; `open`, `write`, `close`, `unlink` of a script; loading | upload beside loading, uploads that break off, few descriptors, stop while a client is silent | what runs is what was uploaded, no descriptor lost, stop returns |
| LoRaWAN library (`spiffs_image/lorawanlib.js`, `util.js`) | none | make and parse packets, MAC commands, channels, beacons | sizes, sign, byte order | what was made is what is read, nothing else is verified |
| LoRaWAN application (`spiffs_image/lorawanscan.js`) | `scanState`, a timer, the modem's registers | scan the channels, follow beacons, listen | late answers, lost beacons, other devices, the clock, settings of another application | only channels with an ACK are listed, the modem is set as the air demands, beacons are followed |
| UDP service (`main/udp_service.c`) | socket, running | start, stop, packets | stop under `recv` | stops |
| LED, crypto bindings, board, start-up, Duktape, examples | | | | not modelled, see below |

## The modules

| module | models | correspondence |
|---|---|---|
| `EventBus` | what the queue promises | abstract: post, take, finish, tear down, discard, start |
| `DukMain` | `duk_main.c`'s loop with its producers and `control_callback` | one action per step that another task can see: add and wake are two, `g->reset = 1` and the wake are two, `duk_init` is heap, clear (one event at a time), zero, load; scripts are external |
| `MCDukMain` | an instance of it | two producers, three blocks |
| `DukLoader` | which file is loaded, and the block that holds its name | one action per access to `g->load_file` or the allocator |
| `SoftTimer` | `timer_set_check`, `timer_check`, `set_wake_up_time` | ticks, a word size, the 99 % rule, the cap of 24 hours |
| `TimerLib` | `timer.js` | every function of the library; time is the time left of each timer, and a clock that is set moves them all |
| `FrameChannel` | what Bluetooth promises to the application and its clients | abstract: come, leave, write, misannounce, receive, send, get, abandon, tear |
| `Record`, `BleLink` | `record.c`; the data service of `ble_server.c` | operators, the two bytes of a length among them; the stack's events are handled one by one while `duktape_task` sends, and any piece may be refused; a client has lengths in the byte order of the code or of `docs/BLE.md` |
| `LoRaRadio` | `lora_main.c`, `lora.c` | one action per access to the modem, `_modem_state`, `fqtable` or the GPIO driver |
| `LoRaModem` | the settings of `lora.c` and `lora_main.c` | operators on the values of the registers that hold them, with the range checks of the bindings; what two modems have to agree on |
| `ButtonService` | `button_service.c`, `button_callback` of `duk_main.c` | the interrupt is one action, the callback one per access to what it shares; a press is its age |
| `WebFiles` | `web_service.c`, `duk_util_load_file`, `duk_fs.c`, the choice of `duk_init` | one action per call of the file system or of `httpd`; SPIFFS and clients are external |
| `LoRaWan` | `lorawanlib.js`, and what it takes from `util.js` | operators; AES, CMAC and CRC are symbolic: a byte knows the key stream bytes that lie on it, a MIC or CRC what it was computed from; the 23 bytes of a beacon are numbers |
| `LoRaWanScan`, `MCLoRaWanScan` | `lorawanscan.js`, a network, the air | one action per call of `OnStart`, `scanNext` or `OnEvent`; what the radio receives waits in an inbox, which is the event queue of `DukMain` |
| `Connectivity` | `set_connectivity`, `wifi_configure`, `wifi_connectivity_stop`, `websocket_server_task` | script calls are actions, the stop is two; the server's task has one action per call of the TCP/IP stack |
| `DukMain_proofs`, `DukLoader_proofs`, `SoftTimer_proofs`, `WebFiles_proofs`, `ButtonService_proofs`, `Connectivity_proofs` | | theorems about the module of that name |
| `Radios_proofs` | | theorems about `LoRaRadio` and `BleLink` |
| `Libraries_proofs` | | theorems about `LoRaWanScan` and `TimerLib` |

`BleLink` and `TimerLib` have names for their specifications that no other module has (`BleSpec`, `FairBleSpec`, `TimerSpec`,
`FairTimerSpec`), so that one module of proofs can extend two.

`DukMain` implements `EventBus` (`BusSpec`) and `BleLink` implements `FrameChannel` (`ImplementsChannel`); both are checked by TLC and
proved. In the second, `UnderWay` maps what `record_send` has yet to send: it is under way only while the client that has its
first piece is there. `BleLink` is built on the
operators of `Record`, `LoRaWanScan` on those of `LoRaWan` (what is sent) and `LoRaModem` (how). `TimerLib` takes
from `SoftTimer` that the platform's timer is up to a tick off. The other modules model components that meet `DukMain` only in its
queue: for them an event posted is an entry of a history.

## Runs

| run | question | result |
|---|---|---|
| `event_loop` | is anything lost or handled twice, whoever adds, resets, reboots, throws, and when | holds: `NeverSleepsOnWork`, `ResetNotLost`, `FreshStart`, `BusSpec`, `EventsHandled`, `ResetServed` |
| `loader` | is the name's block freed once, does the last setting count, is recovery reached | holds outside races between the two setters, which are undefined behaviour: `HeapSound`, `LastSetWins`, `RecoveryRuns` |
| `soft_timer` | is `OnTimer` early, late, or missing | holds: `NeverEarly`, `NeverLate`, `TimerExpires` |
| `timer_library` | is the list sorted and the platform's timer set for its first, is a timeout called once and at all, also when the clock is set | holds: `ArmedForFirst`, `TimeoutCalledOnce`, `TimeoutEnds`; the last except where the platform's timer has been disabled because a timer was due |
| `timer_library_due` | and without the exception | no: `__installTimer` passes a time left of zero or less on (`TimeoutAlwaysEnds`) |
| `ble_link` | do frames arrive whole and in order, does a frame get lost while the link holds, does the application know who is there | holds, until a link breaks within a frame, the stack refuses the rest of one, or a length is read in another byte order or does not fit two bytes: `FramesInOrder`, `ImplementsChannel`, `FrameArrives`, `ConnectionIsTold` |
| `lora_radio` | are packets lost, repeated, is the modem deaf, does it stay as it was set, does `sendPacket` return | holds while the application leaves the modem alone during a reception and the table while a channel is changed: `PostedInOrder`, `NotDeaf`, `StaysAsSet`, `SendReturns` |
| `lora_radio_send` | and if it sends then | no: `isr_recv_task` sets the modem to receiving while it sends (`NotReceivingWhileSending`) |
| `connectivity` | is what sends up, does stop return, are clients told apart | holds: `SendFuncUp`, `ConnectivityTells` (which also says where the board aborts), `OneClientAtATime`, `ConnectionsClosed`, `StopReturns`, `EndIsTold` |
| `button` | can a press at the wrong moment silence the button, is the count right while presses come | holds: `NotDeaf`, `CountIsRight`, `FrameEnds` |
| `web_files` | does what was uploaded run, is a descriptor lost when something fails, can the server be stopped | holds: `RunsTheUpload`, `NoDescriptorLost`, `StopReturns` |
| `lorawan_scan` | are packets and beacons read as they were made, whatever else is on the air; are the right channels listed; is the modem tuned to what it should hear; are beacons followed | holds, but for ACKs that scanNext did not wait for, header mode and coding rate, and negative channels: `DecodedAsSent`, `AnswersAreAcks`, `RadioIsSet`, `BeaconsFollowed` |

Every property of a passing run has a mutant in `PROJECT.json`: a definition with a plausible
bug (the `Fault:` definitions of the modules) under which the run finds the property violated.

### Bounds

* `event_loop`: two producers, so that one adds between another's add and wake; three blocks, so
  that one event is in hand, one is old, one is new. The proofs need no bound.
* `loader`: two addresses, the least for which `strdup` may return the one just freed or another;
  two files to set besides `main.js` and `recovery.js`; both setters. Which files are broken is
  chosen initially.
* `soft_timer`: the word is 16, the cap is 3 ticks, a tick is 2 ms: the tick count wraps within a
  few waits, the cap is smaller than the requests, requests are broken numbers of ticks.
* `timer_library`: three timers, so that two are left when one goes; a timeout of 2 units and an interval of 1, so
  that an interval is due before a timeout is; a call takes at most one unit longer than its tick; the clock is
  set once, by one unit back or forth, also by a function that `OnTimer` calls. With it the run reaches the exception of
  `ArmedForFirst` (see Disagreements).
* `ble_link`: an MTU of 8 or 10 leaves pieces of 3 or 5 bytes. A byte is 0 or 1, so that a length of 4 does not fit two bytes
  (as 65536 does not), 1 and 2 change places with the byte order, and 0 and 3 do not. Frames of clients of 0 and 2 bytes, of the board
  of 2, 3 and 4, take one to two pieces; two frames in each direction, two connections, the board two events behind.
* `lora_radio`: three packets, two sends, three channel changes, three tables, so that one is replaced while another is in
  use and the first has been freed; a queue of two commands (it has ten in the code; shorter, it drops commands).
  The constraint `NoClash` leaves out what follows a state in which the properties except everything anyway.
* `connectivity`: two clients, each with one frame, good or bad handshakes, polite or silent ends;
  any number of calls by the application, of every number with `setConnectivity`.
* `lorawan_scan`: all 72 channels, four of them heard by the gateway: 0 and 8 are answered on one
  frequency, so an answer for 0 can be heard when 8 was tried, and so are 63 and 71, the last. Payloads of 0, 1
  and 17 bytes (a second block of the key stream), counters on both sides of a byte and the
  largest, FOpts of up to 15 bytes, also with an RXTimingSetupReq before other commands. Two packets in the
  inbox, all eight periods of the beacons in June 2025, coordinates at the ends of 24 bits and within, beacons with
  a wrong CRC. A clock that nobody
  set shows a minute, or more than 3.65 days. The modes run one after the other on the same modem, 2 before 1 before 0, each as
  often as the runtime is reset, and
  what another application has left in the registers is chosen initially: the values after a start, or one of three
  choices for every setting (`OtherSettings`): packets with header and the coding rate of beacons, packets without one and with another coding rate, and the length and
  coding rate of beacons with other values for the rest.
* `button`: four presses fill the array; three ticks of time for a frame, presses one tick apart count as one; the
  timer task is at most a tick late, as the code only counts right if that is less than the least distance of two presses.
* `web_files`: a script comes in two pieces, so that an upload can break off between them; two descriptors, so that the
  web server and a loading application use them up, or a script alone does; one version that differs from the flashed one.

### Fairness

Liveness is checked under weak fairness of the tasks' own steps: FreeRTOS runs a ready task, as
no task of higher priority computes for ever. Scripts and callbacks of scripts are assumed to
return (`duktape_task` has no other way to go on). Strong fairness appears where a script could
otherwise always call one function more (`OnStartDone`, `CallDone`, `OnEventDone`) or, in
`TimerLib`, where the event loop competes with time. Chips, stacks, clients and whoever presses the button have no fairness,
except that a gateway sends a beacon in every period, a modem that sends ends sending and the Bluetooth stack reports its events. The timer task of the
button runs and its ticks pass. `httpd` runs, and a client of it that says nothing is timed out, as `httpd_req_recv` does.
Nothing else is assumed of clients, and nothing
makes producers stop: `ResetServed` says that a reset is served *or* events keep coming.

## Proofs

`DukMain_proofs` proves for every set of producers and every number of blocks: `TypeCorrect`,
`NoLostWakeUp`, `ResetIsNotLost`, `StartIsFresh` and `ImplementsBus`. The only assumption is
`NoneAssumption`: `None` is no event. The inductive invariant `IInv` is `TypeOK` with

* `WakePromised`: from the moment `duktape_task` has found the queue empty (through a reset,
  `duk_init` and `OnStart`, if there is one) until it waits, an event in the queue means a
  notification or a producer about to give one. `NeverSleepsOnWork` speaks of the wait only and is not inductive.
* `ResetHeard` and `TimerLimitsWait`: the same for resets and the timer.
* `ResetNotLost` itself.
* `OldEventsCounted`: old events are at most those in the queue, and none outside the clearing;
  with it `FreshStart` follows.

Each action is a step of the proof (`TypeStep`, `WakePromisedStep`, `ResetStep`, `StartStep`), and
`BusStep` maps each action to a step of `EventBus` or a stutter, using that the block of a new event is in
nobody's hands.

`SoftTimer_proofs` proves `TimerIsNeverEarly` and `TimerIsNeverLate` for every width of a word, length of a tick, longest
wait and set of requests, from `SoftTimerAssumption` (the longest wait is less than a word of milliseconds, as 24 hours are
less than 49 days). `TimerIsNeverEarly` needs `NotAhead`: the ticks that have been taken off the wake-up time have passed. For
`TimerIsNeverLate` there are three more parts: `DelayFits` (a wait ends before the wake-up time, or less than a tick
later: the 99 % are never rounded up by more), `NoOverflow` (the ticks since the last look fit into a word as milliseconds, so
`PassedMs` is exact), and `NotBehind` (the ticks in which the task waited have been taken off). `Divide`, `Around` and
`RemainderBelow` are the arithmetic of words.

`DukLoader_proofs` proves `HeapIsSound` and `LastSetIsLoaded` for any names, addresses, scripts that fail and setters, from
`DistinctNames` (`NULL`, addresses and file names differ); like the properties they say nothing of what follows a race. The
invariant adds `OneCall` (without a race one task at a time is in `duk_main_set_load_file`, and none while `duk_init` has to do
with the file), `Blocks` (`g->load_file` dangles between `free` and the assignment after it, and then only; a name on its way
to it has a block of its own) and `Compared` (a name set *once* during a load cannot have the address that `duk_init` compares
`g->load_file` with, since that block is still allocated; set twice it can, which is the exception in `LastSetWins`).

`Radios_proofs` proves the three invariants of `LoRaRadio`, `PacketsInOrder`, `ModemIsNotDeaf` and `ModemStaysAsSet`,
for any number of packets, sends, channel changes and tables; again nothing is said of what follows a `Clash`. It assumes a queue of two
commands at least (`LoRaAssumption`; the code has ten): a queue that holds one can lose the command of a packet to that of a
channel change. The invariant says what the two tasks owe each other: `Hopping` (a change is handled only if the modem has asked for it), `Modes` (what there is to read is there only if the application receives), `Interrupts` (the places where
they are disabled), `Heard` (a received packet that is not about to be read has a command besides the one for a channel
change) and `Fresh` (what is in the FIFO has not been posted).

It also proves `FramesAreInOrder`, `FirstConnectionIsWhole` and `MisannouncedFramesAreLost` of `BleLink`, for any size of a byte, MTUs
and lengths of frames, any sizes of the pieces, any piece that the stack refuses, and any number of frames, connections and events that wait. From the client to the board the stream of frames
has two places, where the client is (`ClientAt`) and where the board is (`BoardAt`: what it has handed on, and what
`recv_record` holds), and `FromClient` says that the writes among the events that wait lead from the one to the other
(`Follows`), until a link breaks within a frame or a length is not announced as the board reads it. A record that holds something holds the first bytes of a frame (`Holds`). In the
other direction `RestToSend` says that the bytes of a frame that are left fit into the records that are left; that is the
arithmetic of `record_send` (`FirstFits`, `NextFits`, `EnoughRecords`: `NumRecords` pieces of what an MTU leaves hold the
frame, and no piece but the last is short). `FirstConnection` says that on the first connection the MTU the board knows is
not larger than that of the link: the MTU is agreed once, and reported by an event that waits. So a frame is torn there only behind one
whose rest was refused, or by a length that the client reads otherwise. `FramesAreReadable` says that
until then clients announce their frames as the board reads them. For `MisannouncedFramesAreLost`, `Chained` and `ReceivedReadable` say
that pieces in `recv_record` which follow one another are a frame of the length that was read from its first. `NoneAssumption` says that `None` is none of the
records of the model.

`FramesGoThroughChannel` is the refinement: every step of `BleLink` is one of `FrameChannel` or changes nothing that it knows
(`ChannelStep`, with a lemma for each of the steps that do something: `ChannelWritten`, `ChannelReceived`, `ChannelSent`, `ChannelGoesOn`,
`ChannelTorn`). It says more than `FramesInOrder`: a frame that is sent is got at once, or begun and then got before the next one
is sent, unless the client leaves or the stack refuses a piece (the last of the `NumRecords` pieces completes the client's record, no earlier one does, and the
client finds the pieces of one frame only); and a frame is torn only for a second or later client, behind one that
was abandoned, or by its length. Besides the invariant it needs `BoardTypes`:
what the board puts together behind a link that broke within a frame is a frame of some piece, or none.

`Libraries_proofs` proves `RadioIsAlwaysSet` of `LoRaWanScan`: however often the runtime is reset, whatever another application has set
(`OtherSettings` may be any numbers, in or out of range), for any gateway, uptime and any packets. One lemma for each setting says which register it changes
and to what (`Changed`); chained they give what `sendUp`, `listenRX2` and `loraWanBeaconListen` leave behind
(`SendUpIsHeard`, `Rx2IsHeard`, `BeaconIsHeard`). The invariant adds to `RadioIsSet` that the registers hold numbers with
a coding rate (`Usable`), that the channel exists, and that a packet on its way belongs to a scan. It assumes `ModesAssumption` and `OtherSettingsAssumption`.
Frequency, bandwidth, spreading factor, sync word and IQ mode (`Tuned`) are claimed without exception, the header mode for
beacons only, and the coding rate not at all, as the application sets no other (`SetFor`).
`AnswersAreOnlyAcks` needs to know what the inbox owes to the list: each ACK that waits belongs to an entry of `acked` that
no channel on the list belongs to yet, in the same order (`Matches`), and no entry of `acked` is beyond the channel the scan is at, so
that an ACK which is handled late is listed for its own channel or a later one. `EntriesInTime` says that an ACK for which `scanNext` has
waited (`late` names the others) is for the channel the scan is at, so that it is listed for its own. What parses as an ACK is one (`StraysDoNotCount`): a packet for
another device, a short one or data are told apart by `parseDownPacket`. It assumes `GwChannelsAssumption` besides.

`PacketsAreDecoded` proves `DecodedAsSent` for any payloads and frame counters of 16 bits, any lists of MAC commands that fit in FOpts,
any places of gateways and any beginning of the beacons' time. The state adds little (`DInv`: what waits in the inbox is a packet of the mode, what was told is what the
library made of it); the work is in the operators. A packet that `MakePacketFromPayLoad` has made
is read field by field (`MadeIsParsed`): the length of FOpts out of FCtrl, the counter out of two bytes (`HeadIsRead`), FOpts, port and
payload at their places in the body (`BodyIsRead`), the payload under a second XOR with the same key stream
(`DecryptEncrypted`), and a MIC that only the same key gives. `CommandsAreFound` says that `FoptsDecode` gives back the commands whose
bytes `FlattenSeq` has put one after the other, up to an RXTimingSetupReq: behind one, where `lorawanlib.js:166` loses its place (below), it
finds some list or an error (`DecodedIsFound`). The bytes of a beacon are found at their places (`PartsOfBeacon`), numbers come back from their
bytes (`ThreeBytes`, `FourBytes`, `SignComesBack`), and a CRC is right only for the bytes it was made from (`CrcIsChecked`). Both are recursive functions, for which the library's theorems of induction
cannot be used; the lemma `Reaches` does instead (a set that holds 0, and with n also n + 1, holds every number; from the
well-foundedness of `<`), applied to the set of the lengths up to which a function exists (`FlatIsDefined`, `DecoderIsDefined`) and of
the commands that are read, from the last to the first. The proof assumes `ModesAssumption`, `PayloadsAssumption`, `FCntsAssumption`,
`PlacesAssumption`, `EraAssumption` and `FOptsAssumption`: commands that the library knows, of the size that it takes them to have, and 15 bytes
in all.

It also proves `PlatformIsArmedForFirst` and `TimeoutsAreCalledOnce` of `TimerLib`, for any number of timers, delays, changes of
the clock (in events and in the functions that `OnTimer` calls) and any time that functions of the application take; from
`TimerLibAssumption` (delays are not zero, bounds are numbers). Nothing is said of what follows
`timersRemoveAt(-1)` (`confused`). The list stays in order because of three lemmas: `TimerInserted` and `TimerRemoved` (a timer goes in
where `__timersFindIdx` says, or out) and `TimersShifted` (times pass for all alike). Four more parts say what `OnTimer`
does to it: `CalledAreDue` (what it has called and not yet removed was due when it began, by whatever clock, so no
function of the application can put a timer before it), `SetForLater` (if the platform's timer is set, and the clock is as it was
when `OnTimer` began, a function has set it for timers that are not due, so none of those called is left of the list), `SetForFirst` (it is set for the first timer at every
place but `__installTimer`), and `OverAreBehind` (a timeout that has been called lies behind the place in the list that is looked at).
The proof of `TimeoutsAreCalledOnce` has corrected `TimeoutCalledOnce`: a timeout can be called again after the clock was set not
only if a function throws, but also if the list gets shorter while `OnTimer` goes through it, as then `OnTimer` itself
throws (`timer.js` reads an entry that is not there).

`Connectivity_proofs` proves, for any number of clients and frames, `SendFuncIsUp`, `ConnectivityIsTold`, `ClientsOneAtATime` and
`ConnectionsAreClosed`. The invariant adds to each what the server's task knows at each of its places: `running` and the
configuration while it serves, the last event's client while it is connected, `conn` while one is open; and that Wifi is stopped only when
it has been chosen (`StopsWifi`).

`WebFiles_proofs` proves `NoDescriptorIsLost` for any number of pieces, descriptors and versions: the invariant says in which
places of a request or of a load a descriptor is held, and that it is the one in the table. `RunsWhatWasUploaded` is proved for the
same parameters (`WebFilesAssumption`: `None` is no content of a file). Its invariant `RInv` says who holds the descriptor of a file
that is read or written (`Held`), that pieces arrive in order and are counted (`Counted`), that until something else changes
the file it holds the pieces of the upload so far, and all of them once it was answered with OK (`Uploads`), and that the buffer of a load holds what
the file held when it was read (`Loaded`).

`ButtonService_proofs` proves `ButtonIsNotDeaf` for any length of the array and any timing; all that `NotDeaf` needs besides is that a
timer that runs is not counted down below zero. `ButtonCountIsRight` says for the same parameters that the callback's one pass finds the
largest set of presses far enough apart. Its invariant says that the count is that of the presses looked at so far (`Counting`, with
`Best`: no set of them that are far enough apart has more), and that the presses are in the order of their age, those of the frame, which
lie close to their predecessor or not, before those that an interrupt has added since the timer went off (`Ages`).

Only model-checked: all liveness (fairness and ENABLED are beyond TLAPS), and the violations. Every safety property that a passing
run checks is stated by a theorem.

## Disagreements found

* `timer.js:130`: a timer that is due disables all timers.
* `lora_main.c:114`: the receive task switches a sending modem to receiving.

Noticed without a run of their own:

* `ble_server.c:572`: a link that breaks within a frame leaves its pieces in `recv_record`; the next client's first frame is
  appended to them (`cut` in `BleLink`).
* `lorawanlib.js:160` to `:167`: the loop over MAC commands counts two bytes of an RXTimingSetupReq and moves by one, so that its
  delay is taken for the next command and those behind it are misread, or an error is told. `DecodedAsSent` (`MacCommandsRead`) speaks of the
  commands up to the first RXTimingSetupReq.
* `lorawanscan.js:106` lists the channel that `scanNext` is at, and says "got response for channel" of it. An ACK that is still on its way or
  in the event queue when `scanNext` goes on, 5 seconds after it sent, is listed under the channel tried next, if the radio still hears it: the
  answers for eight channels come on one frequency. `docs/examples/lorawanscan.md:23` says that the application records
  "if an ACK was received" on the channel it has sent on. `AnswersAreAcks` allows this for such ACKs (`late`) and for no other.
* `lorawanlib.js:611` and `docs/lorawanlib.md:391` say that beacon time "is 17 seconds ahead of UTC"; `lorawanlib.js:598` takes 18, which has been
  right since 2017. `DecodedAsSent` asks for UTC as it is since then (`LeapSeconds`).
* `lorawanlib.js:196` and `docs/lorawanlib.md:281` promise an `fport: int`; a packet without payload, as an ACK is, gives none.
  `DecodedAsSent` speaks of the port of packets with payload.
* `lorawanlib.js:680` passes 1 as the end of `subarray`, so that a beacon's `info`, which the document at line 403 calls a `uint8` of the beacon, is
  always 0. `DecodedAsSent` does not speak of it.
* `duk_main.c:313`: the fallback of `platform.c:222` to `recovery.js` is not reached if the failing application
  sets a file and throws in `OnStart`; it is loaded again and again. (`RecoveryRuns` excepts files that are set
  for ever.)
* `timer.js:107`: functions that `OnTimer` calls may set the clock. If of two timers that are due the second sets it back and
  cancels itself, `__installTimer` sets the platform's timer for the first, which is removed before `OnTimer` throws for the
  cancelled one; the platform's timer then goes off for a timer that is no longer in the list, and not when the one
  that is left expires (the exception `moved` of `ArmedForFirst`, which lasts until a timer is set, cancelled or called again).
* `lorawanscan.js:42` compares milliseconds with seconds: an application that follows beacons and is started
  more than 3.65 days after the board, with a clock that nobody set, gets a channel below 1 from
  `loraWanBeaconGetNextChannel` and sets nothing; what it hears, if anything, is what the settings of before allow (`RadioIsSet` and
  `BeaconsFollowed` say nothing of negative channels).
* `setTxPower(1)` in `listenRX2` and `loraWanBeaconListen` is refused, as `lora_main.c` takes 2 and more. Settings
  stay as they are for the next application. This one never sets the coding rate, and says only for beacons whether packets have a header: after an
  application that has used packets without header, or after its own mode 1, modes 0 and 2 listen for packets without one and hear
  nothing of a LoRaWAN network (the exceptions in `SetFor`, which `RadioIsSet` uses). `sendPacket`
  (`lora.c:542`) overwrites the length that `setPayloadLen` has set.
* `setHopping` (`lora.c:639`) frees the table first: while the modem hops, also when the application
  turns hopping off, a channel change is handled with a freed table or none (the last case of `Clash`; no property says that it is not).
  `setHopping(5, [])` frees it and leaves hopping on.
* A press between `button_service.c:76` and the `timer_started = 0` of `button_service_enable` is stored without a timer, and
  counted in the next frame; one between the end of the count and line 76 is dropped. `CountIsRight` speaks of the
  presses of a frame as they were counted.
* Descriptors that a script leaves open stay open when it is reset; with all of them taken neither
  `main.js` nor `recovery.js` can be opened until a reboot, although `docs/platform.md` calls `recovery.js` "a fallback
  application that will allow you to recover from a error without power cycle".
* `duk_util.c:91` reads the byte before the buffer of an empty file (`undef` in `WebFiles`), which an upload that breaks off at once leaves.
* `docs/BLE.md:9` says that the length of a frame is in network byte order; `record.c:21` and `record.c:80` have the lower byte
  first. What clients that follow the document send is lost, unless both bytes of its length are the same (`FrameArrives`,
  `MisannouncedFramesAreLost`), and tears the frames after it; they misread the board's frames likewise (`Legible`).
* `record.c:80`: the length of a frame for a client is cut to 16 bits, the frame itself is sent; clients take its rest for other frames.
* `record.c:103`: when the stack refuses a notification within a frame (it is congested, which `ble_server.c:596` ignores), its
  rest is not sent; a client that stays takes the next frame for it (`abandoned`, `torn`). The application is not told.
* `platform.c:755` (`queue_udp_cb`): `udp_server_stop` closes the socket under `recv`; if that returns -1, the callback takes it for a
  length, and the task's function returns, which FreeRTOS does not allow.
* `wifimgnt.js:24`: "falling back to AP mode..." calls `wifiConfigure` after a station that could not connect, whose network
  interface and event loop nobody has stopped; `esp_event_loop_create_default` fails in `ESP_ERROR_CHECK` (`wifi_service.c:213`), and
  the board restarts. A second start of Bluetooth aborts likewise (`ble_server.c:857`), also when Wifi was up in between.
  `ConnectivityTells` and `ConnectivityIsTold` say that the board aborts nowhere else.
* `platform.c:562` stores whatever number `setConnectivity` is given: with 3 what is up stays up, and is never stopped any more.
  Choosing Wifi again while it is up leaves the application without a function that sends, and a `wifiConfigure` with a password
  that is too short tells that nothing is up, also when Wifi is.
* A grant of the application for bonding between `ble_server.c:341` or `:357` and the line after it is lost.
* `lorawanlib.js:123` reads the channel mask of a LinkADRReq with its first byte as the higher one, LoRaWAN sends
  the lower one first;
  `loraWanBeaconGetNextChannel` counts channels from 1 to 8 while `loraWanBeaconListen` takes 0 to 7 (the application
  allows for it); frame counters above 65535 give a MIC that `parseDownPacket` does not accept.

Known and excepted by the properties, at the places named in `hazards`: `timersRemoveAt(-1)` duplicates entries
(`confused` in `TimerLib`); a packet that completes within a few register accesses of another is
read twice, a channel change asked for while its interrupt is off takes the command of a packet, and one is handled with a table
that is gone (`Clash` in `LoRaRadio`); `websocket_stop` without a server waits for ever (`StopReturns`); an application that gives
`setConnectivity` another number than 0 to 2 (`docs/platform.md`), chooses or configures Wifi while it is up (which `wifimgnt.js:6`
avoids) or configures it without having chosen it (the example of `docs/platform.md`) is not told what is up (`misused` in
`Connectivity`); connections whose handshake failed are not closed (`lost` there).

## Not modelled, and why

The models cover most of the firmware's own logic, but little of the repository by lines: of some 115000 lines of C and
JavaScript Duktape has 107000. It is third-party; a script is any sequence of calls that returns or throws. The LED service
programs hardware and keeps no state. The crypto bindings pass calls on to a library. The board
tables and the start-up run before there is any concurrency. Pairing and bonding (`gap_event_handler`), the battery service and the
attribute table of `ble_server.c` are calls into the stack without a protocol of their own. The UDP service's stop
depends on what the TCP/IP stack does to a socket closed under `recv`, and the program has no defined behaviour after
the usual answer. `websocket_send` is
not protected against the server's task at all: a model would need the undefined behaviour of a deleted
connection. `read`, `stat` and the listing of directories in `duk_fs.c` change nothing. The bounds of reads and writes in
script buffers, the formats of answers and logging are left out throughout.

## Plan

Done: `EventBus`, `FrameChannel`, `DukMain`, `DukLoader`, `SoftTimer`, `TimerLib`, `Record`, `BleLink`, `LoRaRadio`, `LoRaModem`,
`Connectivity`, `ButtonService`, `WebFiles`, `LoRaWan`, `LoRaWanScan`; theorems for every safety property that a passing run checks.

What would come next:

Pairing in `BleLink`, and the UDP service for a TCP/IP stack whose behaviour on `close` is chosen.
