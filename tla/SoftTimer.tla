----------------------------- MODULE SoftTimer -----------------------------
(***************************************************************************)
(* The timer of the event loop (main/duk_main.c): Platform.setTimer asks   *)
(* for one call of OnTimer after some milliseconds; duktape_task waits for *)
(* notifications with a time-out, in ticks, and looks at the tick count    *)
(* whenever it is awake.  DukMain abstracts from all of this; here events  *)
(* and resets are only what makes the task run at other times.             *)
(*                                                                         *)
(* Ticks pass while the task waits and also while it is kept from running  *)
(* or is busy; in the C code the tick count, the wake-up time and their    *)
(* products are unsigned words.                                            *)
(***************************************************************************)
EXTENDS Integers

CONSTANTS
  Word,       \* unsigned values are modulo Word (2^32)
  MsPerTick,  \* MS_PER_TICK (10)
  MaxDelay,   \* MAX_DELAY, in ticks (24 hours)
  Requests,   \* what a script passes to setTimer, in milliseconds
  MaxSlow     \* bound: as many ticks in which the task was not waiting are counted

ASSUME SoftTimerAssumption ==
  /\ Word \in Nat \ {0} /\ MsPerTick \in Nat \ {0}
  /\ MaxDelay \in Nat \ {0} /\ MaxDelay + 1 < Word \div MsPerTick
  /\ Requests \subseteq 0..(Word - 1)
  /\ MaxSlow \in Nat

VARIABLES
  tick,      \* xTaskGetTickCount()
  pc,        \* where duktape_task is
  wake,      \* g->wake_up_timeMS
  lastTicks, \* g->last_ticks
  delay,     \* g->delay
  left,      \* ticks until the wait in ulTaskNotifyTake times out
  caller,    \* where timer_set_check returns to
  req,       \* history: the argument of the last setTimer
  age,       \* history: ticks since then
  slow       \* history: those of them in which the task was not waiting

history == <<req, age, slow>>
vars == <<tick, pc, wake, lastTicks, delay, left, caller, req, age, slow>>

Forever == -1     \* portMAX_DELAY
Scripts == {"OnStart", "OnTimer", "OnEvent"}

Armed == wake # 0

(* g->reset is set, and duk_init loads an application. *)
Init ==
  /\ tick = 0
  /\ pc = "OnStart"
  /\ wake = 0
  /\ lastTicks = 0
  /\ delay = Forever
  /\ left = 0
  /\ caller = "get"
  /\ req = 0
  /\ age = 0
  /\ slow = 0

-----------------------------------------------------------------------------
(* Time.  Assumed: between two looks at the tick count fewer than          *)
(* Word / MsPerTick ticks pass, which is 49 days; at most one of them is   *)
(* spent waiting.                                                          *)

Passed == (tick - lastTicks) % Word

Waiting == pc = "wait" /\ left # 0

MaxAge == Word \div MsPerTick + MaxSlow + 1     \* bound of the history variable

Tick ==
  /\ Armed /\ pc # "arm" /\ ~Waiting => Passed + MaxDelay + 1 < Word \div MsPerTick
  /\ tick' = (tick + 1) % Word
  /\ left' = IF pc = "wait" /\ left > 0 THEN left - 1 ELSE left
  /\ age' = IF Armed /\ age < MaxAge THEN age + 1 ELSE age
  /\ slow' = IF Armed /\ ~Waiting /\ slow < MaxSlow THEN slow + 1 ELSE slow
  /\ UNCHANGED <<pc, wake, lastTicks, delay, caller, req>>

-----------------------------------------------------------------------------
(* timer_set_check                                                         *)

Limit(n) == IF n = 0 THEN 1 ELSE IF n > MaxDelay THEN MaxDelay ELSE n

TicksFor(ms) == Limit(((ms \div MsPerTick) * 99) \div 100)

(* Fault: the ticks that have been accounted for are counted again. *)
TimerSetCheckKeepsLast ==
  /\ pc \in {"arm", "rearm"}
  /\ lastTicks' = IF pc = "arm" THEN tick ELSE lastTicks
  /\ delay' = TicksFor(wake)
  /\ pc' = caller
  /\ caller' = "get"
  /\ UNCHANGED <<tick, wake, left, history>>

(* Fault: the delay is rounded up to whole ticks, and one added to be safe. *)
TimerSetCheckRoundsUp ==
  /\ pc \in {"arm", "rearm"}
  /\ lastTicks' = tick
  /\ delay' = Limit(wake \div MsPerTick + 2)
  /\ pc' = caller
  /\ caller' = "get"
  /\ UNCHANGED <<tick, wake, left, history>>

TimerSetCheck ==
  /\ pc \in {"arm", "rearm"}
  /\ lastTicks' = tick
  /\ delay' = TicksFor(wake)
  /\ pc' = caller
  /\ caller' = "get"
  /\ UNCHANGED <<tick, wake, left, history>>

(* Fault: the wake-up time is set, the delay of the wait is not. *)
SetTimerOnly(ms) ==
  /\ pc \in Scripts
  /\ wake' = ms
  /\ lastTicks' = tick
  /\ req' = ms
  /\ age' = 0
  /\ slow' = 0
  /\ UNCHANGED <<tick, pc, delay, left, caller>>

(* duk_main_set_wake_up_time, called by a script. *)
SetTimer(ms) ==
  /\ pc \in Scripts
  /\ pc' = "arm"
  /\ caller' = pc
  /\ wake' = ms
  /\ req' = ms
  /\ age' = 0
  /\ slow' = 0
  /\ UNCHANGED <<tick, lastTicks, delay, left>>

-----------------------------------------------------------------------------
(* timer_check                                                             *)

TimerCheckNoTimer ==
  /\ pc = "check"
  /\ ~Armed
  /\ delay' = Forever
  /\ lastTicks' = 0
  /\ pc' = "get"
  /\ UNCHANGED <<tick, wake, left, caller, history>>

TimerCheckTooSoon ==
  /\ pc = "check"
  /\ Armed /\ Passed = 0
  /\ pc' = "get"
  /\ UNCHANGED <<tick, wake, lastTicks, delay, left, caller, history>>

PassedMs == (Passed * MsPerTick) % Word

TimerCheckExpired ==
  /\ pc = "check"
  /\ Armed /\ Passed # 0
  /\ PassedMs >= wake
  /\ lastTicks' = 0
  /\ wake' = 0
  /\ pc' = "OnTimer"
  /\ UNCHANGED <<tick, delay, left, caller, history>>

TimerCheckNotYet ==
  /\ pc = "check"
  /\ Armed /\ Passed # 0
  /\ PassedMs < wake
  /\ wake' = wake - PassedMs
  /\ pc' = "rearm"
  /\ caller' = "get"
  /\ UNCHANGED <<tick, lastTicks, delay, left, history>>

-----------------------------------------------------------------------------
(* duktape_task                                                            *)

Goto(p) ==
  /\ pc' = p
  /\ UNCHANGED <<tick, wake, lastTicks, delay, caller, history>>

(* ulTaskNotifyTake(pdTRUE, g->delay) begins, ... *)
Wait ==
  /\ pc = "top"
  /\ left' = delay
  /\ Goto("wait")

(* ... and ends because of a notification ... *)
Notified ==
  /\ pc = "wait"
  /\ left' = 0
  /\ Goto("check")

(* ... or because the time is up. *)
TimedOut ==
  /\ pc = "wait"
  /\ left = 0
  /\ UNCHANGED left
  /\ Goto("check")

(* An event in the queue, or none. *)
GetEvent ==
  /\ pc = "get"
  /\ UNCHANGED left
  /\ Goto("OnEvent")

GetNothing ==
  /\ pc = "get"
  /\ UNCHANGED left
  /\ Goto("top")

ScriptDone ==
  /\ UNCHANGED left
  /\ \/ pc = "OnStart" /\ Goto("top")
     \/ pc = "OnTimer" /\ Goto("get")
     \/ pc = "OnEvent" /\ Goto("check")

(* duk_init, of which only the timer is of interest. *)
Reset ==
  /\ pc = "top"
  /\ pc' = "OnStart"
  /\ wake' = 0
  /\ delay' = Forever
  /\ UNCHANGED <<tick, lastTicks, left, caller, history>>

-----------------------------------------------------------------------------

DukStep ==
  \/ TimerSetCheck
  \/ TimerCheckNoTimer
  \/ TimerCheckTooSoon
  \/ TimerCheckExpired
  \/ TimerCheckNotYet
  \/ Wait
  \/ TimedOut
  \/ GetEvent
  \/ GetNothing
  \/ ScriptDone

Next ==
  \/ Tick
  \/ \E ms \in Requests : SetTimer(ms)
  \/ Notified
  \/ Reset
  \/ DukStep

Spec == Init /\ [][Next]_vars

(* Time goes on, and a task that can run does. *)
Fairness == WF_vars(Tick) /\ WF_vars(DukStep)

FairSpec == Spec /\ Fairness

-----------------------------------------------------------------------------
(* Properties.                                                             *)

(* OnTimer is never called early: since setTimer(ms) so many ticks have    *)
(* passed that they last ms milliseconds, however often the task was woken *)
(* in between, had to start its wait anew, and the tick count wrapped.     *)
NeverEarly == [][pc = "check" /\ pc' = "OnTimer" => age * MsPerTick >= req]_vars

(* ... nor late: rounding, the 99% of timer_set_check and the waits cut    *)
(* short add nothing to the ticks ms milliseconds need, only those in      *)
(* which the task did not wait do.                                         *)
TicksNeeded(ms) == (ms + MsPerTick - 1) \div MsPerTick

NeverLate == Armed /\ slow < MaxSlow => age <= TicksNeeded(req) + slow

(* A timer expires, unless it is set anew or its application ends.         *)
TimerExpires == Armed ~> ~Armed \/ pc = "arm"
=============================================================================
