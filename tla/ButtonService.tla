--------------------------- MODULE ButtonService ---------------------------
(***************************************************************************)
(* The button (main/button_service.c): an interrupt records when the       *)
(* button was pressed and starts a timer; when it expires, the timer task  *)
(* of FreeRTOS counts the presses and posts an event.  The task and the    *)
(* interrupt run on the same core (app_main installs the interrupt service *)
(* on the one that the timer task is pinned to), so the interrupt comes    *)
(* between any two steps of the callback, but not the other way round.     *)
(*                                                                         *)
(* The time of a press is stored as its age in ticks.                      *)
(***************************************************************************)
EXTENDS Integers, Sequences, FiniteSetsExt

CONSTANTS
  MaxPresses, \* BUTTON_PRESS_NUM_MAX - 1
  Timeout,    \* BUTTON_SERVICE_DEFAULT_TIMEOUT
  MinGap,     \* BUTTON_PRESS_MIN_MS
  MaxLate     \* bound: the timer task runs, and ends the callback, so late

ASSUME ButtonAssumption ==
  /\ MaxPresses \in Nat \ {0}
  /\ Timeout \in Nat /\ MinGap \in Nat /\ MaxLate \in 0..MinGap

VARIABLES
  presses,       \* ages of the recorded presses, press_idx of them
  timer_started, \* set by the interrupt, cleared by the event's callback
  armed,         \* time until the timer of FreeRTOS expires, or Off
  pc,            \* where the timer task is
  i, last,       \* button_callback: the press it looks at, the last it counted
  count,         \* button_press_count
  late,          \* time that has passed since the timer expired
  frame          \* history: the presses that have been counted together

callback == <<pc, i, last, count, frame>>
vars == <<presses, timer_started, armed, callback, late>>

Off == -1
Old == Timeout + MaxLate + MinGap + 1 \* any older press is as good as this

Init ==
  /\ presses = <<>>
  /\ timer_started = FALSE
  /\ armed = Off
  /\ pc = "wait"
  /\ i = 1 /\ last = 1 /\ count = 0
  /\ late = 0
  /\ frame = <<>>

(* The interrupt; contacts bounce, so it may come at any time. *)
button_isr ==
  /\ timer_started' = TRUE
  /\ armed' = IF timer_started THEN armed ELSE Timeout
  /\ presses' = IF Len(presses) < MaxPresses THEN Append(presses, 0) ELSE presses
  /\ UNCHANGED <<callback, late>>

TimerExpires ==
  /\ pc = "wait" /\ armed = 0
  /\ armed' = Off
  /\ pc' = "count"
  /\ count' = 1
  /\ last' = 1 /\ i' = 2
  /\ UNCHANGED <<presses, timer_started, late, frame>>

(* Fault: a press is too close if it is close to any press before it. *)
FollowsAnyPress == presses[i - 1] - presses[i] > MinGap

FollowsLastPress == presses[last] - presses[i] > MinGap

CountNext ==
  /\ pc = "count" /\ i <= Len(presses)
  /\ IF FollowsLastPress THEN count' = count + 1 /\ last' = i ELSE UNCHANGED <<count, last>>
  /\ i' = i + 1
  /\ UNCHANGED <<presses, timer_started, armed, pc, late, frame>>

CountDone ==
  /\ pc = "count" /\ i > Len(presses)
  /\ pc' = "reset"
  /\ frame' = presses
  /\ UNCHANGED <<presses, timer_started, armed, i, last, count, late>>

ResetPresses ==
  /\ pc = "reset"
  /\ presses' = <<>>
  /\ pc' = "enable"
  /\ UNCHANGED <<timer_started, armed, i, last, count, late, frame>>

(* Fault: the button is enabled only if no press is waiting. *)
EnableIfNone ==
  /\ pc = "enable"
  /\ timer_started' = (presses # <<>>)
  /\ pc' = "post"
  /\ UNCHANGED <<presses, armed, i, last, count, late, frame>>

(* button_service_enable(1), called by the callback of duk_main. *)
Enable ==
  /\ pc = "enable"
  /\ timer_started' = FALSE
  /\ pc' = "post"
  /\ UNCHANGED <<presses, armed, i, last, count, late, frame>>

(* The event is added to the queue of duktape_task. *)
Post ==
  /\ pc = "post"
  /\ pc' = "wait"
  /\ count' = 0 /\ last' = 1 /\ i' = 1
  /\ late' = 0
  /\ frame' = <<>>
  /\ UNCHANGED <<presses, timer_started, armed>>

TimerTask ==
  TimerExpires \/ CountNext \/ CountDone \/ ResetPresses \/ Enable \/ Post

Tick ==
  /\ \/ pc = "wait" /\ armed # 0 /\ UNCHANGED late
     \/ /\ pc # "wait" \/ armed = 0
        /\ late < MaxLate /\ late' = late + 1
  /\ presses' = [k \in DOMAIN presses |-> IF presses[k] < Old THEN presses[k] + 1 ELSE Old]
  /\ armed' = IF armed > 0 THEN armed - 1 ELSE armed
  /\ UNCHANGED <<timer_started, callback>>

Next == button_isr \/ TimerTask \/ Tick

Spec == Init /\ [][Next]_vars

(* The timer task runs and time passes; nothing is assumed of the button. *)
FairSpec == Spec /\ WF_vars(TimerTask) /\ WF_vars(Tick)

-----------------------------------------------------------------------------
(* Properties.                                                             *)

(* A button whose timer is marked as started has a timer that runs, or is  *)
(* in the callback that clears the mark, whenever the interrupt comes:     *)
(* otherwise no press would ever be told again.                            *)
NotDeaf == timer_started => armed # Off \/ pc \in {"count", "reset", "enable"}

(* What an event reports is the largest number of presses of its frame     *)
(* that all lie more than MinGap apart, though presses are added while     *)
(* button_callback counts.                                                 *)
Spaced(S) == \A j, k \in S : j < k => frame[j] - frame[k] > MinGap

CountIsRight ==
  pc \in {"reset", "enable", "post"} =>
    count = Max({Cardinality(S) : S \in {T \in SUBSET DOMAIN frame : Spaced(T)}})

(* Each frame ends with an event, and with a button that can start another. *)
FrameEnds == timer_started ~> pc = "post" /\ ~timer_started
=============================================================================
