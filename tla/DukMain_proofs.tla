--------------------------- MODULE DukMain_proofs ---------------------------
(***************************************************************************)
(* Theorems about DukMain, for any set of producers and any heap.          *)
(***************************************************************************)
EXTENDS DukMain, TLAPS

(* The inductive invariant.  NeverSleepsOnWork alone is not inductive: the *)
(* promise that somebody is about to notify the task must already hold on  *)
(* the whole way from WORK_QUEUE_RECV_GET finding the queue empty to the   *)
(* wait, through duk_init and OnStart if there is a reset.  FreshStart     *)
(* needs the number of old events to be bounded by the queue's length, so  *)
(* that an empty queue has none.                                           *)
OnTheWayToSleep == {"top", "take", "OnStart"} \cup InDukInit

WakePromised ==
  pc \in OnTheWayToSleep /\ ~notified /\ queue # <<>> => WakeComing

ResetHeard == pc = "take" /\ ~notified /\ reset => control = "flagged"

TimerLimitsWait == armed => delay # "forever"

OldEventsCounted ==
  /\ old <= Len(queue)
  /\ pc # "clear" => old = 0
  /\ pc = "load" => ~armed

IInv ==
  /\ TypeOK
  /\ WakePromised
  /\ ResetHeard
  /\ TimerLimitsWait
  /\ ResetNotLost
  /\ OldEventsCounted

-----------------------------------------------------------------------------

(* The variables are initialised as declared: duk_main_start. *)
LEMMA InitIInv == Init => IInv
  <1> SUFFICES ASSUME Init PROVE IInv
    OBVIOUS
  <1>1. queue \in Seq(Message) /\ Len(queue) = 0
    BY DEF Init
  <1>2. TypeOK
    BY <1>1 DEF Init, TypeOK, Places
  <1>3. WakePromised /\ ResetHeard /\ TimerLimitsWait /\ ResetNotLost
    BY DEF Init, WakePromised, ResetHeard, TimerLimitsWait, ResetNotLost
  <1>4. OldEventsCounted
    BY <1>1 DEF Init, OldEventsCounted
  <1>5. QED
    BY <1>2, <1>3, <1>4 DEF IInv

(* A free block is in no event that is queued or in hand. *)
LEMMA FreeCellIsUnused ==
  ASSUME TypeOK, NEW c \in FreeCells, NEW k \in Kinds
  PROVE  /\ [cell |-> c, kind |-> k] \in Message
         /\ [cell |-> c, kind |-> k] \notin Range(queue) \cup {msg}
  <1>1. c \in Cells /\ c \notin CellsInUse
    BY DEF FreeCells
  <1>2. [cell |-> c, kind |-> k] \in Message
    BY <1>1 DEF Message
  <1>3. [cell |-> c, kind |-> k] # None
    BY <1>2, NoneAssumption
  <1>4. QED
    BY <1>1, <1>2, <1>3 DEF CellsInUse

LEMMA TypeStep == TypeOK /\ [Next]_vars => TypeOK'
  <1> SUFFICES ASSUME TypeOK, [Next]_vars PROVE TypeOK'
    OBVIOUS
  <1> USE DEF TypeOK, Places, Scripts, InDukInit
  <1>1. ASSUME NEW p \in Producers, AddEvent(p) PROVE TypeOK'
    <2>1. PICK c \in FreeCells : queue' = Append(queue, [cell |-> c, kind |-> "INCOMING"])
      BY <1>1 DEF AddEvent
    <2>2. [cell |-> c, kind |-> "INCOMING"] \in Message
      BY <2>1, FreeCellIsUnused DEF Kinds
    <2>3. queue' \in Seq(Message)
      BY <2>1, <2>2
    <2>4. QED
      BY <1>1, <2>3 DEF AddEvent, taskVars, timerVars
  <1>2. ASSUME NEW p \in Producers, Wake(p) PROVE TypeOK'
    BY <1>2 DEF Wake, taskVars, timerVars
  <1>3. ASSUME ScriptSendEvent PROVE TypeOK'
    <2>1. PICK c \in FreeCells : queue' = Append(queue, [cell |-> c, kind |-> "OUTGOING"])
      BY <1>3 DEF ScriptSendEvent
    <2>2. [cell |-> c, kind |-> "OUTGOING"] \in Message
      BY <2>1, FreeCellIsUnused DEF Kinds
    <2>3. queue' \in Seq(Message)
      BY <2>1, <2>2
    <2>4. QED
      BY <1>3, <2>3 DEF ScriptSendEvent, taskVars, timerVars, otherTasks
  <1>4. CASE ControlReset \/ ControlWake \/ ScriptReset \/ ScriptSetTimer
    BY <1>4, ZenonT(60) DEF ControlReset, ControlWake, ScriptReset, ScriptSetTimer, taskVars,
                            timerVars, otherTasks
  <1>5. CASE Reboot
    <2>1. queue' \in Seq(Message)
      BY <1>5 DEF Reboot
    <2>2. QED
      BY <1>5, <2>1 DEF Reboot
  <1>6. CASE CheckReset \/ ClearDone \/ Zero \/ Load \/ NotifyTake \/ TimerCheck
    BY <1>6, ZenonT(60) DEF CheckReset, ClearDone, Zero, Load, NotifyTake, TimerCheck, timerVars,
                            otherTasks
  <1>7. CASE NewHeap \/ ClearOne
    BY <1>7, SMTT(60) DEF NewHeap, ClearOne, timerVars, otherTasks
  <1>8. CASE GetEvent
    <2>1. Head(queue) \in Message /\ Tail(queue) \in Seq(Message)
      BY <1>8 DEF GetEvent
    <2>2. QED
      BY <1>8, <2>1, NoneAssumption DEF GetEvent, timerVars, otherTasks
  <1>9. CASE GetNothing \/ Dispatch \/ FreeEvent \/ ScriptDone
    BY <1>9 DEF GetNothing, Dispatch, FreeEvent, ScriptDone, timerVars, otherTasks
  <1>10. CASE UNCHANGED vars
    BY <1>10 DEF vars
  <1>11. QED
    BY <1>1, <1>2, <1>3, <1>4, <1>5, <1>6, <1>7, <1>8, <1>9, <1>10
       DEF Next, DukStep, ScriptCall

(* Type correctness: every variable of the event loop keeps its type, and  *)
(* duktape_task holds an event exactly from WORK_QUEUE_RECV_GET to free.   *)
THEOREM TypeCorrect == Spec => []TypeOK
  <1>1. Init => TypeOK
    BY InitIInv DEF IInv
  <1>2. QED
    BY <1>1, TypeStep, PTL DEF Spec

-----------------------------------------------------------------------------

(* Of the steps of the other tasks, an add makes a promise and a wake      *)
(* keeps it; duktape_task takes a notification only when it goes on to     *)
(* look at the queue until it is empty.                                    *)
LEMMA WakePromisedStep == TypeOK /\ WakePromised /\ [Next]_vars => WakePromised'
  <1> SUFFICES ASSUME TypeOK, WakePromised, [Next]_vars PROVE WakePromised'
    OBVIOUS
  <1> USE DEF WakePromised, OnTheWayToSleep, InDukInit
  <1>1. ASSUME NEW p \in Producers, AddEvent(p) PROVE WakePromised'
    <2>1. poster'[p] = "added"
      BY <1>1 DEF AddEvent, TypeOK
    <2>2. QED
      BY <2>1 DEF WakeComing
  <1>2. ASSUME NEW p \in Producers, Wake(p) PROVE WakePromised'
    BY <1>2 DEF Wake
  <1>3. CASE ControlReset
    BY <1>3 DEF ControlReset, WakeComing, taskVars
  <1>4. CASE ControlWake \/ ScriptSendEvent
    BY <1>4 DEF ControlWake, ScriptSendEvent
  <1>5. CASE Reboot
    BY <1>5 DEF Reboot
  <1>6. CASE ClearOne \/ ClearDone
    <2>1. queue # <<>> \/ queue' = <<>>
      BY <1>6 DEF ClearOne, ClearDone
    <2>2. QED
      BY <1>6, <2>1 DEF ClearOne, ClearDone, WakeComing, otherTasks
  <1>7. CASE CheckReset \/ NewHeap \/ Zero \/ Load
    BY <1>7 DEF CheckReset, NewHeap, Zero, Load, WakeComing, otherTasks
  <1>8. CASE NotifyTake \/ TimerCheck \/ GetEvent \/ Dispatch \/ FreeEvent
    BY <1>8 DEF NotifyTake, TimerCheck, GetEvent, Dispatch, FreeEvent
  <1>9. CASE GetNothing
    BY <1>9 DEF GetNothing
  <1>10. CASE ScriptDone
    BY <1>10 DEF ScriptDone, WakeComing, otherTasks
  <1>11. CASE ScriptReset \/ ScriptSetTimer
    BY <1>11 DEF ScriptReset, ScriptSetTimer, WakeComing, taskVars, otherTasks
  <1>12. CASE UNCHANGED vars
    BY <1>12 DEF vars, WakeComing
  <1>13. QED
    BY <1>1, <1>2, <1>3, <1>4, <1>5, <1>6, <1>7, <1>8, <1>9, <1>10, <1>11, <1>12
       DEF Next, DukStep, ScriptCall

(* duktape_task begins to wait only after it has seen g->reset = 0, and    *)
(* from then on only the web server's task sets it.                        *)
LEMMA ResetStep ==
  TypeOK /\ ResetHeard /\ ResetNotLost /\ [Next]_vars => ResetHeard' /\ ResetNotLost'
  <1> SUFFICES ASSUME TypeOK, ResetHeard, ResetNotLost, [Next]_vars
               PROVE  ResetHeard' /\ ResetNotLost'
    OBVIOUS
  <1> USE DEF ResetHeard, ResetNotLost, Scripts, InDukInit
  <1>1. ASSUME NEW p \in Producers, AddEvent(p) \/ Wake(p)
        PROVE  ResetHeard' /\ ResetNotLost'
    BY <1>1 DEF AddEvent, Wake, taskVars
  <1>2. CASE ControlReset \/ ControlWake
    BY <1>2 DEF ControlReset, ControlWake, taskVars
  <1>3. CASE Reboot
    BY <1>3 DEF Reboot
  <1>4. CASE CheckReset
    BY <1>4 DEF CheckReset, otherTasks
  <1>5. CASE NewHeap \/ ClearOne \/ ClearDone \/ Zero \/ Load
    BY <1>5 DEF NewHeap, ClearOne, ClearDone, Zero, Load
  <1>6. CASE NotifyTake \/ TimerCheck \/ GetEvent \/ GetNothing \/ Dispatch \/ FreeEvent
    BY <1>6 DEF NotifyTake, TimerCheck, GetEvent, GetNothing, Dispatch, FreeEvent
  <1>7. CASE ScriptDone
    BY <1>7 DEF ScriptDone
  <1>8. CASE ScriptCall
    BY <1>8 DEF ScriptCall, ScriptSendEvent, ScriptReset, ScriptSetTimer, taskVars
  <1>9. CASE UNCHANGED vars
    BY <1>9 DEF vars
  <1>10. QED
    BY <1>1, <1>2, <1>3, <1>4, <1>5, <1>6, <1>7, <1>8, <1>9 DEF Next, DukStep

(* An empty queue has no old event, and g->wake_up_timeMS is zeroed        *)
(* between the emptying of the queue and the load.                         *)
LEMMA StartStep ==
  TypeOK /\ TimerLimitsWait /\ OldEventsCounted /\ [Next]_vars
    => TimerLimitsWait' /\ OldEventsCounted'
  <1> SUFFICES ASSUME TypeOK, TimerLimitsWait, OldEventsCounted, [Next]_vars
               PROVE  TimerLimitsWait' /\ OldEventsCounted'
    OBVIOUS
  <1> USE DEF TypeOK, TimerLimitsWait, OldEventsCounted, Scripts, InDukInit
  <1>1. ASSUME NEW p \in Producers, AddEvent(p)
        PROVE  TimerLimitsWait' /\ OldEventsCounted'
    <2>1. PICK m : queue' = Append(queue, m)
      BY <1>1 DEF AddEvent
    <2>2. Len(queue') = Len(queue) + 1
      BY <2>1
    <2>3. QED
      BY <1>1, <2>2 DEF AddEvent, taskVars, timerVars
  <1>2. ASSUME NEW p \in Producers, Wake(p)
        PROVE  TimerLimitsWait' /\ OldEventsCounted'
    BY <1>2 DEF Wake, taskVars, timerVars
  <1>3. CASE ScriptSendEvent
    <2>1. PICK m : queue' = Append(queue, m)
      BY <1>3 DEF ScriptSendEvent
    <2>2. Len(queue') = Len(queue) + 1
      BY <2>1
    <2>3. QED
      BY <1>3, <2>2 DEF ScriptSendEvent, taskVars, timerVars
  <1>4. CASE ControlReset \/ ControlWake \/ ScriptReset \/ ScriptSetTimer
    BY <1>4 DEF ControlReset, ControlWake, ScriptReset, ScriptSetTimer, taskVars, timerVars
  <1>5. CASE Reboot
    BY <1>5 DEF Reboot
  <1>6. CASE NewHeap
    BY <1>6 DEF NewHeap, timerVars
  <1>7. CASE ClearOne
    <2>1. Len(queue') = Len(queue) - 1 /\ Len(queue) > 0
      BY <1>7 DEF ClearOne
    <2>2. QED
      BY <1>7, <2>1 DEF ClearOne, timerVars
  <1>8. CASE ClearDone
    <2>1. Len(queue) = 0
      BY <1>8 DEF ClearDone
    <2>2. QED
      BY <1>8, <2>1 DEF ClearDone, timerVars
  <1>9. CASE CheckReset \/ Zero \/ Load
    BY <1>9 DEF CheckReset, Zero, Load, timerVars
  <1>10. CASE NotifyTake \/ TimerCheck \/ GetNothing \/ Dispatch \/ FreeEvent \/ ScriptDone
    BY <1>10 DEF NotifyTake, TimerCheck, GetNothing, Dispatch, FreeEvent, ScriptDone, timerVars
  <1>11. CASE GetEvent
    <2>1. old = 0 /\ old' = 0
      BY <1>11 DEF GetEvent
    <2>2. Len(queue') \in Nat
      BY <1>11 DEF GetEvent
    <2>3. QED
      BY <1>11, <2>1, <2>2 DEF GetEvent, timerVars
  <1>12. CASE UNCHANGED vars
    BY <1>12 DEF vars
  <1>13. QED
    BY <1>1, <1>2, <1>3, <1>4, <1>5, <1>6, <1>7, <1>8, <1>9, <1>10, <1>11, <1>12
       DEF Next, DukStep, ScriptCall

LEMMA IInvStep == IInv /\ [Next]_vars => IInv'
  BY TypeStep, WakePromisedStep, ResetStep, StartStep DEF IInv

LEMMA IInvHolds == Spec => []IInv
  BY InitIInv, IInvStep, PTL DEF Spec

(* No wake-up is lost, with any number of tasks adding events: a waiting   *)
(* duktape_task without notification has an empty queue or a task that is  *)
(* about to notify it, and the same for resets and timers.                 *)
THEOREM NoLostWakeUp == Spec => []NeverSleepsOnWork
  <1>1. IInv => NeverSleepsOnWork
    BY DEF IInv, WakePromised, OnTheWayToSleep, ResetHeard, TimerLimitsWait, NeverSleepsOnWork
  <1>2. QED
    BY <1>1, IInvHolds, PTL

(* No request for a reset is lost, whenever it is made.                    *)
THEOREM ResetIsNotLost == Spec => []ResetNotLost
  <1>1. IInv => ResetNotLost
    BY DEF IInv
  <1>2. QED
    BY <1>1, IInvHolds, PTL

(* Every application starts without the events and timers of an earlier    *)
(* one.                                                                    *)
THEOREM StartIsFresh == Spec => []FreshStart
  <1>1. IInv => FreshStart
    BY DEF IInv, OldEventsCounted, FreshStart
  <1>2. QED
    BY <1>1, IInvHolds, PTL

-----------------------------------------------------------------------------

(* Every step of the event loop is a step of the event bus or leaves it    *)
(* alone.                                                                  *)
LEMMA BusStep == IInv /\ [Next]_vars => [Bus!BusNext]_(Bus!busVars)
  <1> SUFFICES ASSUME IInv, [Next]_vars PROVE Bus!BusNext \/ UNCHANGED Bus!busVars
    OBVIOUS
  <1>0. TypeOK /\ OldEventsCounted
    BY DEF IInv
  <1> USE <1>0
  <1>1. ASSUME NEW p \in Producers, AddEvent(p) PROVE Bus!BusPost
    <2>1. PICK c \in FreeCells : queue' = Append(queue, [cell |-> c, kind |-> "INCOMING"])
      BY <1>1 DEF AddEvent
    <2>2. [cell |-> c, kind |-> "INCOMING"] \in Message \ Bus!InUse
      BY <2>1, FreeCellIsUnused DEF Kinds, Bus!InUse, Bus!Range, Range
    <2>3. QED
      BY <1>1, <2>1, <2>2 DEF AddEvent, Bus!BusPost, taskVars
  <1>2. ASSUME ScriptSendEvent PROVE Bus!BusPost
    <2>1. PICK c \in FreeCells : queue' = Append(queue, [cell |-> c, kind |-> "OUTGOING"])
      BY <1>2 DEF ScriptSendEvent
    <2>2. [cell |-> c, kind |-> "OUTGOING"] \in Message \ Bus!InUse
      BY <2>1, FreeCellIsUnused DEF Kinds, Bus!InUse, Bus!Range, Range
    <2>3. QED
      BY <1>2, <2>1, <2>2 DEF ScriptSendEvent, Bus!BusPost, taskVars
  <1>3. CASE GetEvent
    <2>1. Bus!BusTake
      BY <1>3 DEF GetEvent, TypeOK, Bus!BusTake
    <2>2. QED
      BY <2>1 DEF Bus!BusNext
  <1>4. CASE FreeEvent
    <2>1. Bus!BusFinish
      BY <1>4 DEF FreeEvent, TypeOK, Bus!BusFinish
    <2>2. QED
      BY <2>1 DEF Bus!BusNext
  <1>5. CASE NewHeap
    <2>1. Bus!BusTearDown
      BY <1>5 DEF NewHeap, TypeOK, Bus!BusTearDown
    <2>2. QED
      BY <2>1 DEF Bus!BusNext
  <1>6. CASE ClearOne
    <2>1. Bus!BusDiscard
      BY <1>6 DEF ClearOne, Bus!BusDiscard
    <2>2. QED
      BY <2>1 DEF Bus!BusNext
  <1>7. CASE ClearDone
    <2>1. old = 0
      BY <1>7 DEF ClearDone, TypeOK, OldEventsCounted
    <2>2. Bus!BusStart
      BY <1>7, <2>1 DEF ClearDone, Bus!BusStart
    <2>3. QED
      BY <2>2 DEF Bus!BusNext
  <1>8. CASE Reboot
    <2>1. Bus!BusReboot
      BY <1>8 DEF Reboot, Bus!BusReboot
    <2>2. QED
      BY <2>1 DEF Bus!BusNext
  <1>9. ASSUME NEW p \in Producers, Wake(p) PROVE UNCHANGED Bus!busVars
    BY <1>9 DEF Wake, taskVars, Bus!busVars
  <1>10. CASE ControlReset \/ ControlWake \/ ScriptReset \/ ScriptSetTimer
    BY <1>10 DEF ControlReset, ControlWake, ScriptReset, ScriptSetTimer, taskVars, Bus!busVars
  <1>11. CASE CheckReset \/ Zero \/ Load \/ NotifyTake \/ TimerCheck \/ GetNothing \/ Dispatch
    BY <1>11 DEF CheckReset, Zero, Load, NotifyTake, TimerCheck, GetNothing, Dispatch, Bus!busVars
  <1>12. CASE ScriptDone
    BY <1>12 DEF ScriptDone, Scripts, Bus!busVars
  <1>13. CASE UNCHANGED vars
    BY <1>13 DEF vars, Bus!busVars
  <1>14. QED
    BY <1>1, <1>2, <1>3, <1>4, <1>5, <1>6, <1>7, <1>8, <1>9, <1>10, <1>11, <1>12, <1>13
       DEF Next, DukStep, ScriptCall, Bus!BusNext

(* The event loop implements the event bus: events are handled in order,   *)
(* at most once, and by no application later than the one they were posted *)
(* to.                                                                     *)
THEOREM ImplementsBus == Spec => BusSpec
  <1>1. Init => Bus!BusInit
    BY DEF Init, Bus!BusInit
  <1>2. QED
    BY <1>1, BusStep, IInvHolds, PTL DEF Spec, BusSpec, Bus!BusSpec
=============================================================================
