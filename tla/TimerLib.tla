------------------------------ MODULE TimerLib ------------------------------
(***************************************************************************)
(* The timer library for applications (spiffs_image/timer.js): any number  *)
(* of timeouts and intervals on top of the one timer of Platform.setTimer, *)
(* whose OnTimer the library provides.  Everything runs in duktape_task,   *)
(* but time passes while it does, and the functions that OnTimer calls may *)
(* set and cancel timers themselves, or throw.                             *)
(*                                                                         *)
(* A time is stored relative to now; one unit is half a tick, because the  *)
(* timer of the platform counts ticks and may go off up to one tick before *)
(* Date, which the library compares with, says so (see SoftTimer).  The    *)
(* functions of the application may also set the clock that Date reads:    *)
(* OnTimer compares with the time it read when it began, __installTimer    *)
(* with the time there is.                                                 *)
(***************************************************************************)
EXTENDS Integers, Sequences, SequencesExt

CONSTANTS
  MaxTimers, \* bound: as many timers can be pending at a time
  Timeouts,  \* the delays an application asks for in setTimeout
  Intervals, \* ... and in intervalTimer
  Throws,    \* TRUE if a function of the application may throw
  MaxSlow,   \* bound: the time that passes inside one call of the application
  Jumps,     \* how far Platform.setSystemTime moves the clock, back or forth
  MaxJumps   \* bound: how far in all

ASSUME TimerLibAssumption ==
  /\ Timeouts \cup Intervals \subseteq Nat \ {0}
  /\ MaxTimers \in Nat
  /\ Throws \in BOOLEAN
  /\ MaxSlow \in Nat
  /\ Jumps \subseteq Nat \ {0} /\ MaxJumps \in Nat

VARIABLES
  timers,    \* __Timers.timers
  platform,  \* time until the platform's timer goes off, or Off
  pc,        \* where duktape_task is
  caller,    \* where __installTimer returns to
  i,         \* OnTimer: the timer that is looked at, from 1
  expired,   \* OnTimer: the IDs of the timers it has called
  shift,     \* how far the clock has been set forth since OnTimer began
  jumps,     \* how far the clock has been moved in all
  moved,     \* history: since __installTimer, or in this OnTimer, the clock was set
  slow,      \* the time that may yet pass in this call of the application
  lost,      \* history: the last __installTimer found a timer due, or OnTimer threw
  confused   \* history: a timer was removed that is not there

history == <<lost, confused, moved>>
onTimer == <<i, expired, jumps, shift>>
timerVars == <<timers, platform, pc, caller, onTimer, slow, history>>

Off == -1
Early == 1  \* the platform's timer is less than one tick early

(* A timer that is overdue for longer is as good as this. *)
Past == -(MaxSlow + MaxJumps + 1)

TimerInit ==
  /\ timers = <<>>
  /\ platform = Off
  /\ pc = "app"           \* OnStart
  /\ caller = "loop"
  /\ i = 1 /\ expired = <<>>
  /\ jumps = 0 /\ shift = 0 /\ moved = FALSE
  /\ slow = MaxSlow
  /\ lost = FALSE
  /\ confused = FALSE

-----------------------------------------------------------------------------
(* The list of timers.                                                     *)

IdsOf(s) == {s[k].id : k \in DOMAIN s}

FindIdx(s, expire) ==
  IF \E k \in DOMAIN s : s[k].left >= expire
  THEN CHOOSE k \in DOMAIN s : s[k].left >= expire /\ \A j \in 1..(k - 1) : s[j].left < expire
  ELSE Len(s) + 1

(* The position of a timer, 0 for the source's -1. *)
FindIdxId(s, id) ==
  IF id \in IdsOf(s) THEN CHOOSE k \in DOMAIN s : s[k].id = id ELSE 0

Insert(s, t) == InsertAt(s, FindIdx(s, t.left), t)

Timer(id, delay, interval) ==
  [id |-> id, left |-> delay, delay |-> delay, interval |-> interval, called |-> FALSE]

-----------------------------------------------------------------------------
(* The application, in OnStart or OnEvent ("app") or called by OnTimer     *)
(* ("call").                                                               *)

(* An event is handled; the next call of OnStart is like that of OnEvent. *)
OnEvent ==
  /\ pc = "loop"
  /\ pc' = "app"
  /\ slow' = MaxSlow
  /\ UNCHANGED <<timers, platform, caller, onTimer, history>>

OnEventDone ==
  /\ pc = "app"
  /\ pc' = "loop"
  /\ slow' = 0
  /\ UNCHANGED <<timers, platform, caller, onTimer, history>>

(* A new ID, where the source counts: one that no timer has, though a      *)
(* cancelled timer may have had it.                                        *)
Ids == 1..MaxTimers
FreeIds == Ids \ (IdsOf(timers) \cup ToSet(expired))
NextID == CHOOSE id \in FreeIds : \A other \in FreeIds : id <= other

(* setTimeout and intervalTimer *)
SetTimeout(delay, interval) ==
  /\ pc \in {"app", "call"}
  /\ FreeIds # {}
  /\ timers' = Insert(timers, Timer(NextID, delay, interval))
  /\ pc' = "install"
  /\ caller' = pc
  /\ UNCHANGED <<platform, onTimer, slow, history>>

(* Fault: the platform's timer stays as it is. *)
CancelTimerOnly(id) ==
  /\ pc \in {"app", "call"}
  /\ LET idx == FindIdxId(timers, id) IN
       timers' = IF idx = 0 THEN timers ELSE RemoveAt(timers, idx)
  /\ UNCHANGED <<platform, pc, caller, onTimer, slow, history>>

(* cancelTimer, of any timer there is or was. *)
CancelTimer(id) ==
  /\ pc \in {"app", "call"}
  /\ LET idx == FindIdxId(timers, id) IN
       timers' = IF idx = 0 THEN timers ELSE RemoveAt(timers, idx)
  /\ pc' = "install"
  /\ caller' = pc
  /\ UNCHANGED <<platform, onTimer, slow, history>>

(* Platform.setSystemTime: all timers expire earlier, or later, but that of *)
(* the platform, until it is installed again.                              *)
Far(delta) == IF delta < 0 THEN -delta ELSE delta

SetSystemTime(delta) ==
  /\ pc \in {"app", "call"} /\ jumps + Far(delta) <= MaxJumps
  /\ timers' = [k \in DOMAIN timers |->
                  [timers[k] EXCEPT !.left = IF @ - delta < Past THEN Past ELSE @ - delta]]
  /\ jumps' = jumps + Far(delta)
  /\ shift' = IF pc = "call" THEN shift + delta ELSE shift
  /\ moved' = TRUE
  /\ UNCHANGED <<platform, pc, caller, i, expired, slow, lost, confused>>

(* Fault: a timer that is due is installed for the shortest time. *)
InstallTimerAtLeastOne ==
  /\ pc = "install"
  /\ platform' = IF timers = <<>> THEN Off
                 ELSE IF timers[1].left > 0 THEN timers[1].left ELSE 1
  /\ lost' = FALSE /\ moved' = (shift # 0)
  /\ pc' = caller
  /\ caller' = "loop"
  /\ UNCHANGED <<timers, onTimer, slow, confused>>

(* __installTimer: a time that is not positive becomes the unsigned 0 in   *)
(* Platform.setTimer, which disables the timer.                            *)
InstallTimer ==
  /\ pc = "install"
  /\ LET due == timers # <<>> /\ timers[1].left <= 0 IN
       /\ platform' = IF timers = <<>> \/ due THEN Off ELSE timers[1].left
       /\ lost' = due
  /\ moved' = (shift # 0)
  /\ pc' = caller
  /\ caller' = "loop"
  /\ UNCHANGED <<timers, onTimer, slow, confused>>

-----------------------------------------------------------------------------
(* OnTimer                                                                 *)

OnTimerCalled ==
  /\ pc = "loop"
  /\ platform # Off /\ platform <= Early
  /\ platform' = Off
  /\ pc' = "scan"
  /\ i' = 1
  /\ slow' = MaxSlow
  /\ UNCHANGED <<timers, caller, expired, jumps, shift, history>>

(* The time that Date gave when it was called, relative to now. *)
ts == slow - MaxSlow - shift

(* The first loop calls the next timer, ... *)
CallNext ==
  /\ pc = "scan"
  /\ i <= Len(timers) /\ ts >= timers[i].left
  /\ expired' = Append(expired, timers[i].id)
  /\ timers' = [timers EXCEPT ![i].called = TRUE]
  /\ pc' = "call"
  /\ UNCHANGED <<platform, caller, i, jumps, shift, slow, history>>

(* ... or ends. *)
CallNoMore ==
  /\ pc = "scan"
  /\ i <= Len(timers) => ts < timers[i].left
  /\ pc' = "remove"
  /\ i' = 1
  /\ UNCHANGED <<timers, platform, caller, expired, jumps, shift, slow, history>>

(* The function returns: there still is an i-th timer to look at. *)
CallDone ==
  /\ pc = "call"
  /\ i <= Len(timers)
  /\ IF ts < timers[i].left THEN pc' = "remove" /\ i' = 1
                            ELSE pc' = "scan" /\ i' = i + 1
  /\ UNCHANGED <<timers, platform, caller, expired, jumps, shift, slow, history>>

(* OnTimer ends with an exception that nobody handles. *)
Throw ==
  /\ pc' = "loop"
  /\ expired' = <<>>
  /\ i' = 1
  /\ slow' = 0 /\ shift' = 0
  /\ lost' = (platform = Off /\ timers' # <<>>)
  /\ UNCHANGED <<platform, caller, jumps, moved>>

(* The function throws, or timers[i] is undefined when it has returned. *)
CallThrows ==
  /\ pc = "call"
  /\ Throws \/ i > Len(timers)
  /\ UNCHANGED <<timers, confused>>
  /\ Throw

(* The second loop removes what has been called and inserts intervals      *)
(* again, to expire one interval after this moment.                        *)
RemoveExpired ==
  /\ pc = "remove"
  /\ expired # <<>> /\ Head(expired) \in IdsOf(timers)
  /\ LET idx == FindIdxId(timers, Head(expired))
         t == timers[idx]
         rest == RemoveAt(timers, idx)
     IN timers' = IF t.interval THEN Insert(rest, Timer(t.id, t.delay, TRUE)) ELSE rest
  /\ expired' = Tail(expired)
  /\ UNCHANGED <<platform, pc, caller, i, jumps, shift, slow, history>>

(* A timer that has been called and cancelled since: __timersRemoveAt(-1)  *)
(* repeats all timers but the last and returns undefined, so that OnTimer  *)
(* throws.                                                                 *)
RemoveCancelled ==
  /\ pc = "remove"
  /\ expired # <<>> /\ Head(expired) \notin IdsOf(timers)
  /\ timers' = (IF timers = <<>> THEN <<>> ELSE Front(timers)) \o timers
  /\ confused' = (timers' # timers)
  /\ Throw

(* Fault: OnTimer ends without installing the next timer. *)
RemoveDoneOnly ==
  /\ pc = "remove"
  /\ expired = <<>>
  /\ pc' = "loop"
  /\ slow' = 0 /\ shift' = 0
  /\ UNCHANGED <<timers, platform, caller, i, expired, jumps, history>>

RemoveDone ==
  /\ pc = "remove"
  /\ expired = <<>>
  /\ pc' = "install"
  /\ caller' = "loop"
  /\ shift' = 0
  /\ UNCHANGED <<timers, platform, i, expired, jumps, slow, history>>

-----------------------------------------------------------------------------

(* Time passes in the event loop until the platform's timer goes off, and  *)
(* for a while in anything that duktape_task runs.                         *)
Tick ==
  /\ \/ pc = "loop" /\ platform # 0 /\ UNCHANGED slow
     \/ pc # "loop" /\ slow > 0 /\ slow' = slow - 1
  /\ timers' = [k \in DOMAIN timers |->
                  [timers[k] EXCEPT !.left = IF @ > Past THEN @ - 1 ELSE @]]
  /\ platform' = IF platform > 0 THEN platform - 1 ELSE platform
  /\ UNCHANGED <<pc, caller, onTimer, history>>

DukStep ==
  \/ OnEventDone
  \/ InstallTimer
  \/ OnTimerCalled
  \/ CallNext
  \/ CallNoMore
  \/ CallDone \/ CallThrows
  \/ RemoveExpired \/ RemoveCancelled
  \/ RemoveDone

AppCall ==
  \/ \E d \in Timeouts : SetTimeout(d, FALSE)
  \/ \E d \in Intervals : SetTimeout(d, TRUE)
  \/ \E id \in Ids : CancelTimer(id)
  \/ \E j \in Jumps : SetSystemTime(j) \/ SetSystemTime(-j)

(* What a list with repeated timers leads to is not explored. *)
TimerNext ==
  \/ ~confused /\ DukStep
  \/ ~confused /\ (OnEvent \/ Tick)
  \/ ~confused /\ AppCall
  \/ confused /\ UNCHANGED timerVars

TimerSpec == TimerInit /\ [][TimerNext]_timerVars

(* duktape_task runs, the application does not call the library for ever   *)
(* from one function, and time passes between any two calls of OnTimer.    *)
TimerFairness ==
  /\ WF_timerVars(~confused /\ DukStep)
  /\ SF_timerVars(~confused /\ (CallDone \/ CallThrows \/ OnEventDone))
  /\ SF_timerVars(~confused /\ OnTimerCalled)
  /\ SF_timerVars(~confused /\ pc = "loop" /\ Tick)

FairTimerSpec == TimerSpec /\ TimerFairness

-----------------------------------------------------------------------------
(* Properties.                                                             *)

Delays == Timeouts \cup Intervals

(* The list holds every timer once, in the order in which they expire,     *)
(* whatever is set, cancelled and inserted again while OnTimer goes        *)
(* through it, and in the event loop the platform's timer goes off when    *)
(* the first of them expires, also after any mixture of calls and          *)
(* exceptions, and also if functions that OnTimer called have set the      *)
(* clock.  Until a timer is set, cancelled or called again the clock may   *)
(* make it wrong in two ways: it was set since, or OnTimer has thrown      *)
(* after one of its functions set it (a timer that is called, and no       *)
(* longer due by the new clock, is installed by another that cancels       *)
(* itself, and removed before OnTimer throws for the cancelled one).       *)
Sorted ==
  \A j, k \in DOMAIN timers : j < k =>
    /\ timers[j].left <= timers[k].left
    /\ timers[j].id # timers[k].id

Armed ==
  ~moved /\ pc = "loop" /\ platform # Off =>
    /\ timers # <<>>
    /\ \/ platform = timers[1].left
       \/ platform = 0 /\ timers[1].left < 0

ArmedForFirst == ~confused => Sorted /\ Armed

(* A timeout is called once, even if an exception ends OnTimer before the  *)
(* timers it has called are removed: they stay due, and the platform's     *)
(* timer disabled, unless the clock is set, which may revive them.         *)
TimeoutCalledOnce ==
  [][\A k \in DOMAIN timers :
       pc = "scan" /\ pc' = "call" /\ k = i /\ timers[k].called =>
         timers[k].interval \/ jumps > 0]_timerVars

(* A timeout is called, or cancelled, unless __installTimer has disabled   *)
(* the platform's timer because a timer was due already, or OnTimer threw. *)
Timeout(id) == \E k \in DOMAIN timers : timers[k].id = id /\ ~timers[k].interval

TimeoutEnds ==
  \A id \in Ids : Timeout(id) ~> ~Timeout(id) \/ (pc = "loop" /\ lost) \/ confused

(* What timer.js:34 says of setTimeout: "Timer to call a function after a  *)
(* given delay (in milliseconds)".                                         *)
TimeoutAlwaysEnds ==
  <>confused \/ \A id \in Ids : Timeout(id) ~> ~Timeout(id)
=============================================================================
