------------------------------- MODULE DukMain -------------------------------
(***************************************************************************)
(* The event loop of the JavaScript runtime (main/duk_main.c).             *)
(*                                                                         *)
(* duktape_task is the only consumer of the event queue and the only task  *)
(* that touches the heap of the application.  Any number of other tasks    *)
(* (the LoRa receive task, the websocket server, the Bluetooth callbacks,  *)
(* the UDP server, the timer task on behalf of the button) add events; the *)
(* task of the web server asks for resets.  The steps below are the points *)
(* at which these tasks, running on two cores, can interleave: the queue   *)
(* is changed under its semaphore, the flag and the task notification are  *)
(* single words.                                                           *)
(*                                                                         *)
(* Scripts are external: while an OnStart, OnEvent or OnTimer of the       *)
(* application runs it may call the Platform functions that change this    *)
(* module's state, any number of times, and then returns or throws.        *)
(* Time is abstract here (an armed timer may or may not have expired when  *)
(* it is looked at); SoftTimer gives the arithmetic.  Which file is loaded *)
(* is the business of DukLoader; here a load works or fails.               *)
(***************************************************************************)
EXTENDS Naturals, Sequences, Functions

CONSTANTS
  Producers,   \* the tasks that add INCOMING events
  Cells,       \* the event_msg_t blocks that can be allocated (the bound on the heap)
  None         \* no event

Kinds == {"INCOMING", "OUTGOING"}

Message == [cell : Cells, kind : Kinds]

ASSUME NoneAssumption == None \notin Message

VARIABLES
  pc,         \* where duktape_task is
  queue,      \* g->event_queue, oldest event first
  msg,        \* the local msg of duktape_task
  notified,   \* its task notification value is not zero
  reset,      \* g->reset
  armed,      \* g->wake_up_timeMS # 0
  delay,      \* g->delay: "forever" is portMAX_DELAY
  poster,     \* each producer: "idle", or "added" between the add and the wake
  control,    \* control_callback: "idle", or "flagged" between the flag and the wake
  old,        \* history: how many queued events predate the current heap
  asked       \* history: a reset was requested and no load has begun since

taskVars == <<pc, msg>>
timerVars == <<armed, delay>>
otherTasks == <<poster, control>>
vars == <<pc, queue, msg, notified, reset, armed, delay,
          poster, control, old, asked>>

-----------------------------------------------------------------------------

(* Places of duktape_task.  "top" is while (g->reset), "heap", "clear",    *)
(* "zero" and "load" are duk_init, "take" is the wait for a notification,  *)
(* "timer" and "get" are the inner loop, "OnStart", "OnTimer" and          *)
(* "OnEvent" are inside the application.                                   *)
Scripts == {"OnStart", "OnTimer", "OnEvent"}
InDukInit == {"heap", "clear", "zero", "load"}
Places == {"top", "take", "timer", "get", "dispatch", "free"} \cup InDukInit \cup Scripts

(* Started by duk_main_start; the first thing the task does is to set its  *)
(* handle and g->reset.                                                    *)
Init ==
  /\ pc = "top"
  /\ queue = <<>>
  /\ msg = None
  /\ notified = FALSE
  /\ reset = TRUE
  /\ armed = FALSE
  /\ delay = "forever"
  /\ poster = [p \in Producers |-> "idle"]
  /\ control = "idle"
  /\ old = 0
  /\ asked = TRUE

CellsInUse == {m.cell : m \in Range(queue)} \cup (IF msg = None THEN {} ELSE {msg.cell})
FreeCells == Cells \ CellsInUse

-----------------------------------------------------------------------------
(* The other tasks.                                                        *)

(* Fault: an event is added and nobody is told. *)
AddEventNoWake(p) ==
  /\ poster[p] = "idle"
  /\ \E c \in FreeCells : queue' = Append(queue, [cell |-> c, kind |-> "INCOMING"])
  /\ UNCHANGED <<taskVars, timerVars, otherTasks, notified, reset, old, asked>>

(* duk_main_add_full_event, up to the release of the queue's semaphore.    *)
AddEvent(p) ==
  /\ poster[p] = "idle"
  /\ \E c \in FreeCells : queue' = Append(queue, [cell |-> c, kind |-> "INCOMING"])
  /\ poster' = [poster EXCEPT ![p] = "added"]
  /\ UNCHANGED <<taskVars, timerVars, notified, reset, control, old, asked>>

(* ... and its duk_main_wake. *)
Wake(p) ==
  /\ poster[p] = "added"
  /\ notified' = TRUE
  /\ poster' = [poster EXCEPT ![p] = "idle"]
  /\ UNCHANGED <<taskVars, timerVars, queue, reset, control, old, asked>>

(* Fault: the flag is set without a wake-up. *)
ControlResetNoWake ==
  /\ control = "idle"
  /\ reset' = TRUE
  /\ asked' = TRUE
  /\ UNCHANGED <<taskVars, timerVars, otherTasks, queue, notified, old>>

(* control_callback(CMD_RESET), called by the web server's task. *)
ControlReset ==
  /\ control = "idle"
  /\ control' = "flagged"
  /\ reset' = TRUE
  /\ asked' = TRUE
  /\ UNCHANGED <<taskVars, timerVars, queue, notified, poster, old>>

ControlWake ==
  /\ control = "flagged"
  /\ control' = "idle"
  /\ notified' = TRUE
  /\ UNCHANGED <<taskVars, timerVars, queue, reset, poster, old, asked>>

(* control_callback(CMD_REBOOT), or Platform.reboot of a script: the board *)
(* restarts at once, whatever its tasks were doing.                        *)
Reboot ==
  /\ \/ control = "idle"
     \/ pc \in Scripts
  /\ pc' = "top"
  /\ queue' = <<>>
  /\ msg' = None
  /\ notified' = FALSE
  /\ reset' = TRUE
  /\ armed' = FALSE
  /\ delay' = "forever"
  /\ poster' = [p \in Producers |-> "idle"]
  /\ control' = "idle"
  /\ old' = 0
  /\ asked' = TRUE

-----------------------------------------------------------------------------
(* duktape_task: resets.                                                   *)

(* Fault: old notifications are thrown away before the wait. *)
CheckResetForgets ==
  /\ pc = "top"
  /\ pc' = IF reset THEN "heap" ELSE "take"
  /\ notified' = FALSE
  /\ UNCHANGED <<timerVars, otherTasks, queue, msg, reset, old, asked>>

CheckReset ==
  /\ pc = "top"
  /\ pc' = IF reset THEN "heap" ELSE "take"
  /\ UNCHANGED <<timerVars, otherTasks, queue, msg, notified, reset, old, asked>>

(* duk_init destroys the heap of the application and creates a new one. *)
NewHeap ==
  /\ pc = "heap"
  /\ pc' = "clear"
  /\ old' = Len(queue)
  /\ UNCHANGED <<timerVars, otherTasks, queue, msg, notified, reset, asked>>

(* work_queue_delete takes one event at a time, ... *)
ClearOne ==
  /\ pc = "clear"
  /\ queue # <<>>
  /\ queue' = Tail(queue)
  /\ old' = IF old > 0 THEN old - 1 ELSE 0
  /\ UNCHANGED <<timerVars, otherTasks, pc, msg, notified, reset, asked>>

(* Fault: only the head of the queue is thrown away. *)
ClearDoneEarly ==
  /\ pc = "clear"
  /\ pc' = "zero"
  /\ UNCHANGED <<timerVars, otherTasks, queue, msg, notified, reset, old, asked>>

(* ... until there is none. *)
ClearDone ==
  /\ pc = "clear"
  /\ queue = <<>>
  /\ pc' = "zero"
  /\ UNCHANGED <<timerVars, otherTasks, queue, msg, notified, reset, old, asked>>

Zero ==
  /\ pc = "zero"
  /\ pc' = "load"
  /\ delay' = "forever"
  /\ armed' = FALSE
  /\ reset' = FALSE
  /\ UNCHANGED <<otherTasks, queue, msg, notified, old, asked>>

(* duk_util_load_and_run reads a file and evaluates it. *)
Load ==
  /\ pc = "load"
  /\ asked' = FALSE
  /\ pc' \in {"OnStart", "heap"}   \* "heap": no such file, goto load
  /\ UNCHANGED <<timerVars, otherTasks, queue, msg, notified, reset, old>>

-----------------------------------------------------------------------------
(* duktape_task: waiting, timers and events.                               *)

(* ulTaskNotifyTake(pdTRUE, g->delay): a notification, or the time-out. *)
NotifyTake ==
  /\ pc = "take"
  /\ notified \/ delay # "forever"
  /\ notified' = FALSE
  /\ pc' = "timer"
  /\ UNCHANGED <<timerVars, otherTasks, queue, msg, reset, old, asked>>

(* timer_check: no timer; a timer that has not expired (yet, or not by a   *)
(* whole tick), for which delay stays or becomes finite; an expired one.   *)
TimerCheck ==
  /\ pc = "timer"
  /\ \/ ~armed /\ delay' = "forever" /\ pc' = "get" /\ UNCHANGED armed
     \/ armed /\ pc' = "get" /\ UNCHANGED timerVars
     \/ armed /\ armed' = FALSE /\ pc' = "OnTimer" /\ UNCHANGED delay
  /\ UNCHANGED <<otherTasks, queue, msg, notified, reset, old, asked>>

(* Fault: events are taken from the tail of the queue. *)
GetEventNewest ==
  /\ pc = "get"
  /\ queue # <<>>
  /\ msg' = queue[Len(queue)]
  /\ queue' = SubSeq(queue, 1, Len(queue) - 1)
  /\ pc' = "dispatch"
  /\ UNCHANGED <<timerVars, otherTasks, notified, reset, old, asked>>

(* WORK_QUEUE_RECV_GET *)
GetEvent ==
  /\ pc = "get"
  /\ queue # <<>>
  /\ msg' = Head(queue)
  /\ queue' = Tail(queue)
  /\ pc' = "dispatch"
  /\ UNCHANGED <<timerVars, otherTasks, notified, reset, old, asked>>

GetNothing ==
  /\ pc = "get"
  /\ queue = <<>>
  /\ pc' = "top"
  /\ UNCHANGED <<timerVars, otherTasks, queue, msg, notified, reset, old, asked>>

(* An INCOMING event goes to OnEvent.  An OUTGOING one goes to the send     *)
(* function, if there is one and its type is UI_MSG; that changes nothing  *)
(* here.                                                                   *)
Dispatch ==
  /\ pc = "dispatch"
  /\ pc' = IF msg.kind = "INCOMING" THEN "OnEvent" ELSE "free"
  /\ UNCHANGED <<timerVars, otherTasks, queue, msg, notified, reset, old, asked>>

FreeEvent ==
  /\ pc = "free"
  /\ msg' = None
  /\ pc' = "timer"
  /\ UNCHANGED <<timerVars, otherTasks, queue, notified, reset, old, asked>>

-----------------------------------------------------------------------------
(* duktape_task: what a script may call.                                   *)

(* Platform.sendEvent: the task adds an event and notifies itself. *)
ScriptSendEvent ==
  /\ pc \in Scripts
  /\ \E c \in FreeCells : queue' = Append(queue, [cell |-> c, kind |-> "OUTGOING"])
  /\ notified' = TRUE
  /\ UNCHANGED <<taskVars, timerVars, otherTasks, reset, old, asked>>

(* Platform.reset *)
ScriptReset ==
  /\ pc \in Scripts
  /\ reset' = TRUE
  /\ asked' = TRUE
  /\ UNCHANGED <<taskVars, timerVars, otherTasks, queue, notified, old>>

(* Platform.setTimer: 0 disarms the timer, but the delay is set all the    *)
(* same (timer_set_check gives it at least one tick).                      *)
ScriptSetTimer ==
  /\ pc \in Scripts
  /\ armed' \in BOOLEAN
  /\ delay' = "ticks"
  /\ UNCHANGED <<taskVars, otherTasks, queue, notified, reset, old, asked>>

(* Fault: g->reset = 0 stands after the load instead of before it. *)
ScriptDoneClearsReset ==
  /\ \/ pc = "OnStart" /\ pc' \in {"top", "heap"} /\ reset' = FALSE
     \/ pc = "OnTimer" /\ pc' = "get" /\ UNCHANGED reset
     \/ pc = "OnEvent" /\ pc' = "free" /\ UNCHANGED reset
  /\ UNCHANGED <<timerVars, otherTasks, queue, msg, notified, old, asked>>

(* The script returns or throws.  An OnStart that throws counts as a load  *)
(* that failed; nobody looks at the outcome of OnTimer and OnEvent.        *)
ScriptDone ==
  /\ \/ pc = "OnStart" /\ pc' \in {"top", "heap"}
     \/ pc = "OnTimer" /\ pc' = "get"
     \/ pc = "OnEvent" /\ pc' = "free"
  /\ UNCHANGED <<timerVars, otherTasks, queue, msg, notified, reset, old, asked>>

-----------------------------------------------------------------------------

ScriptCall ==
  \/ ScriptSendEvent
  \/ ScriptReset
  \/ ScriptSetTimer

DukStep ==
  \/ CheckReset
  \/ NewHeap
  \/ ClearOne
  \/ ClearDone
  \/ Zero
  \/ Load
  \/ NotifyTake
  \/ TimerCheck
  \/ GetEvent
  \/ GetNothing
  \/ Dispatch
  \/ FreeEvent
  \/ ScriptDone

Next ==
  \/ \E p \in Producers : AddEvent(p) \/ Wake(p)
  \/ ControlReset
  \/ ControlWake
  \/ Reboot
  \/ DukStep
  \/ ScriptCall

Spec == Init /\ [][Next]_vars

(* The scheduler runs every task that can run; a script does not run for   *)
(* ever.                                                                   *)
Fairness ==
  /\ WF_vars(DukStep)
  /\ WF_vars(ControlWake)
  /\ \A p \in Producers : WF_vars(Wake(p))

FairSpec == Spec /\ Fairness

-----------------------------------------------------------------------------
(* Properties.                                                             *)

(* Every variable has its type, and duktape_task holds an event exactly    *)
(* from WORK_QUEUE_RECV_GET to free(msg).                                  *)
TypeOK ==
  /\ pc \in Places
  /\ queue \in Seq(Message)
  /\ msg \in Message \cup {None}
  /\ notified \in BOOLEAN
  /\ reset \in BOOLEAN
  /\ armed \in BOOLEAN
  /\ delay \in {"forever", "ticks"}
  /\ poster \in [Producers -> {"idle", "added"}]
  /\ control \in {"idle", "flagged"}
  /\ old \in Nat
  /\ asked \in BOOLEAN
  /\ msg # None <=> pc \in {"dispatch", "OnEvent", "free"}

(* No wake-up is lost: when duktape_task waits in ulTaskNotifyTake and has *)
(* no notification, then every queued event has a task that is about to    *)
(* notify it, so has a reset, and an armed timer limits the wait.          *)
WakeComing == \E p \in Producers : poster[p] = "added"

NeverSleepsOnWork ==
  pc = "take" /\ ~notified =>
    /\ queue # <<>> => WakeComing
    /\ reset => control = "flagged"
    /\ armed => delay # "forever"

(* A reset that anyone asks for, at whatever point of duk_init or of the   *)
(* event loop, is followed by the load of an application: the assignment   *)
(* g->reset = 0 never wipes out a request that no load will serve.         *)
ResetNotLost == asked => reset \/ pc \in InDukInit

(* The application starts from nothing: when duk_init evaluates a file no  *)
(* event and no timer of the previous application is left, also when the   *)
(* previous one is an OnStart that failed after using both.                *)
FreshStart == pc = "load" => old = 0 /\ ~armed

(* The queue delivers in order, at most once, and to no later application: *)
(* the code refines EventBus.                                              *)
Bus == INSTANCE EventBus WITH
         pending  <- queue,
         inHand   <- msg,
         clearing <- pc = "clear"

BusSpec == Bus!BusSpec

(* Every event is eventually taken out of the queue, to be handled or      *)
(* because a reset throws it away: no order of adds, wakes, resets and     *)
(* time-outs leaves it there.                                              *)
Queued(c) == \E m \in Range(queue) : m.cell = c

EventsHandled == \A c \in Cells : Queued(c) ~> ~Queued(c)

(* A requested reset is served, unless events keep coming for ever (the    *)
(* flag is looked at only when the queue has been found empty) or the      *)
(* board reboots again and again.                                          *)
Posting == ScriptSendEvent \/ \E p \in Producers : AddEvent(p)

ResetServed == []<><<Posting \/ Reboot>>_vars \/ (asked ~> ~asked)
=============================================================================
