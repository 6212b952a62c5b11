-------------------------- MODULE SoftTimer_proofs --------------------------
(***************************************************************************)
(* Theorems about SoftTimer, for any width of the words, any length of a   *)
(* tick and any longest wait: the timer is never early, and late only by   *)
(* the ticks in which duktape_task did not wait.                           *)
(***************************************************************************)
EXTENDS SoftTimer, TLAPS

Types ==
  /\ tick \in 0..(Word - 1) /\ lastTicks \in 0..(Word - 1)
  /\ wake \in 0..(Word - 1) /\ req \in 0..(Word - 1)
  /\ age \in Nat /\ slow \in 0..MaxSlow
  /\ delay = Forever \/ delay \in 1..MaxDelay
  /\ left = Forever \/ left \in 0..MaxDelay
  /\ pc \in Scripts \cup {"top", "wait", "check", "get", "arm", "rearm"}
  /\ caller \in Scripts \cup {"get"}
  /\ pc \in {"arm", "rearm"} \/ caller = "get"

Arming == pc \in {"arm", "rearm"}

(* The ticks that have been taken off the wake-up time have passed, ...    *)
NotAhead ==
  Armed => \/ age >= MaxAge
           \/ Arming /\ age * MsPerTick >= req - wake
           \/ ~Arming /\ (age - Passed) * MsPerTick >= req - wake

(* ... the wait ends before the wake-up time, if not by less than a tick,  *)
DelayFits ==
  Armed /\ ~Arming => delay >= 1 /\ delay * MsPerTick < wake + MsPerTick

(* ... the ticks since the last look fit into a word as milliseconds,      *)
NoOverflow ==
  Armed =>
    /\ pc = "wait" => left >= 0 /\ Passed + left < Word \div MsPerTick
    /\ pc = "check" => Passed < Word \div MsPerTick
    /\ pc \notin {"arm", "rearm", "wait", "check"} => Passed + MaxDelay < Word \div MsPerTick

(* ... and the ticks in which the task has waited have been taken off the  *)
(* wake-up time, up to those of the wait that goes on or has just ended.   *)
NotBehind ==
  Armed /\ slow < MaxSlow =>
    /\ pc = "wait" => (age - slow + left) * MsPerTick <= (req - wake) + delay * MsPerTick
    /\ pc = "check" => (age - slow) * MsPerTick <= (req - wake) + delay * MsPerTick
    /\ pc \in {"wait", "check"} =>
         (age - slow) * MsPerTick <= (req - wake) + Passed * MsPerTick
    /\ pc \notin {"wait", "check"} => (age - slow) * MsPerTick <= req - wake

IInv == Types /\ NotAhead /\ DelayFits /\ NoOverflow /\ NotBehind

-----------------------------------------------------------------------------
(* Arithmetic.                                                             *)

LEMMA Multiply ==
  ASSUME NEW a \in Int, NEW b \in Int, NEW m \in Nat, a <= b
  PROVE  a * m <= b * m
  OBVIOUS

LEMMA Divide ==
  ASSUME NEW n \in Int, NEW d \in Nat \ {0}
  PROVE  /\ n \div d \in Int /\ n % d \in 0..(d - 1)
         /\ n = d * (n \div d) + (n % d)
  OBVIOUS

(* One time around at most. *)
LEMMA Around ==
  ASSUME NEW d \in Nat \ {0}, NEW n \in Int, -d < n, n <= d
  PROVE  n % d = IF n < 0 THEN n + d ELSE IF n = d THEN 0 ELSE n
  <1> DEFINE q == n \div d
             r == n % d
  <1>1. q \in Int /\ r \in 0..(d - 1) /\ n = d * q + r
    BY Divide
  <1> HIDE DEF q, r
  <1>2. ~(q >= 2)
    <2>1. q >= 2 => 2 * d <= q * d
      BY <1>1, Multiply
    <2>2. QED
      BY <1>1, <2>1
  <1>3. ~(q <= -2)
    <2>1. q <= -2 => q * d <= (-2) * d
      BY <1>1, Multiply
    <2>2. QED
      BY <1>1, <2>1
  <1>4. q = -1 \/ q = 0 \/ q = 1
    BY <1>1, <1>2, <1>3
  <1>5. r = IF n < 0 THEN n + d ELSE IF n = d THEN 0 ELSE n
    BY <1>1, <1>4
  <1>6. QED
    BY <1>5 DEF r

(* A remainder is not more than the number. *)
LEMMA RemainderBelow ==
  ASSUME NEW n \in Nat, NEW d \in Nat \ {0}
  PROVE  n % d <= n
  <1> DEFINE q == n \div d
             r == n % d
  <1>1. q \in Int /\ r \in 0..(d - 1) /\ n = d * q + r
    BY Divide
  <1> HIDE DEF q, r
  <1>2. q >= 0
    <2>1. q <= -1 => q * d <= (-1) * d
      BY <1>1, Multiply
    <2>2. QED
      BY <1>1, <2>1
  <1>3. 0 * d <= q * d
    BY <1>1, <1>2, Multiply
  <1>4. r <= n
    BY <1>1, <1>3
  <1>5. QED
    BY <1>4 DEF r

-----------------------------------------------------------------------------
(* What the definitions of SoftTimer amount to.                            *)

(* So many ticks are milliseconds that fit into a word. *)
LEMMA WholeWord ==
  /\ Word \div MsPerTick \in Nat /\ Word \div MsPerTick <= Word
  /\ (Word \div MsPerTick) * MsPerTick <= Word
  /\ Word < (Word \div MsPerTick + 1) * MsPerTick
  <1> DEFINE L == Word \div MsPerTick
             r == Word % MsPerTick
  <1>1. Word \in Nat \ {0} /\ MsPerTick \in Nat \ {0}
    BY SoftTimerAssumption
  <1>2. L \in Int /\ r \in 0..(MsPerTick - 1) /\ Word = MsPerTick * L + r
    BY <1>1, Divide
  <1> HIDE DEF L, r
  <1>3. L >= 0
    <2>1. L <= -1 => L * MsPerTick <= (-1) * MsPerTick
      BY <1>1, <1>2, Multiply
    <2>2. QED
      BY <1>1, <1>2, <2>1
  <1>4. L * 1 <= L * MsPerTick
    BY <1>1, <1>2, <1>3
  <1>5. (L + 1) * MsPerTick = L * MsPerTick + MsPerTick
    BY <1>1, <1>2
  <1>6. L * MsPerTick = MsPerTick * L
    BY <1>1, <1>2
  <1>7. L \in Nat /\ L <= Word /\ L * MsPerTick <= Word /\ Word < (L + 1) * MsPerTick
    BY <1>1, <1>2, <1>3, <1>4, <1>5, <1>6
  <1>8. QED
    BY <1>7 DEF L

LEMMA PassedIs ==
  ASSUME NEW t \in 0..(Word - 1), NEW l \in 0..(Word - 1)
  PROVE  (t - l) % Word = IF t < l THEN t - l + Word ELSE t - l
  <1> DEFINE n == t - l
  <1>1. Word \in Nat \ {0}
    BY SoftTimerAssumption
  <1>2. n \in Int /\ -Word < n /\ n < Word /\ (t < l <=> n < 0)
    BY <1>1
  <1> HIDE DEF n
  <1>3. n <= Word
    BY <1>1, <1>2
  <1>4. n % Word = IF n < 0 THEN n + Word ELSE IF n = Word THEN 0 ELSE n
    BY <1>1, <1>2, <1>3, Around, Zenon
  <1>5. n % Word = IF t < l THEN n + Word ELSE n
    BY <1>1, <1>2, <1>4
  <1>6. QED
    BY <1>5 DEF n

LEMMA PassedRange == Types => Passed \in 0..(Word - 1)
  BY SoftTimerAssumption, PassedIs DEF Types, Passed

LEMMA PassedSet ==
  ASSUME Types, lastTicks' = tick, tick' = tick
  PROVE  Passed' = 0
  <1>1. tick \in 0..(Word - 1) /\ Passed' = (tick - tick) % Word
    BY DEF Types, Passed
  <1>2. QED
    BY <1>1, SoftTimerAssumption, PassedIs

LEMMA PassedTick ==
  ASSUME Types, tick' = (tick + 1) % Word, lastTicks' = lastTicks
  PROVE  /\ tick' \in 0..(Word - 1)
         /\ Passed' = IF Passed = Word - 1 THEN 0 ELSE Passed + 1
  <1>1. /\ tick \in 0..(Word - 1) /\ lastTicks \in 0..(Word - 1)
        /\ Word \in Nat \ {0}
    BY SoftTimerAssumption DEF Types
  <1>2. (tick + 1) % Word = IF tick + 1 = Word THEN 0 ELSE tick + 1
    <2> DEFINE n == tick + 1
    <2>1. n \in Int /\ -Word < n /\ n <= Word /\ ~(n < 0)
      BY <1>1
    <2> HIDE DEF n
    <2>2. n % Word = IF n < 0 THEN n + Word ELSE IF n = Word THEN 0 ELSE n
      BY <1>1, <2>1, Around, Zenon
    <2>3. n % Word = IF n = Word THEN 0 ELSE n
      BY <2>1, <2>2
    <2>4. QED
      BY <2>3 DEF n
  <1>3. tick' \in 0..(Word - 1)
    BY <1>1, <1>2
  <1>4. Passed = IF tick < lastTicks THEN tick - lastTicks + Word ELSE tick - lastTicks
    BY <1>1, PassedIs DEF Passed
  <1>5. Passed' = IF tick' < lastTicks THEN tick' - lastTicks + Word ELSE tick' - lastTicks
    BY <1>1, <1>3, PassedIs DEF Passed
  <1>6. QED
    BY <1>1, <1>2, <1>3, <1>4, <1>5

LEMMA PassedSame ==
  ASSUME lastTicks' = lastTicks, tick' = tick
  PROVE  Passed' = Passed
  BY DEF Passed

LEMMA PassedMsBelow ==
  ASSUME Types
  PROVE  /\ PassedMs \in 0..(Word - 1) /\ PassedMs <= Passed * MsPerTick
         /\ Passed < Word \div MsPerTick => PassedMs = Passed * MsPerTick
  <1> DEFINE n == Passed * MsPerTick
  <1>1. Passed \in Nat /\ Word \in Nat \ {0} /\ MsPerTick \in Nat \ {0}
    BY PassedRange, SoftTimerAssumption
  <1>2. n \in Nat /\ 0 * MsPerTick <= n
    BY <1>1
  <1>3. Passed < Word \div MsPerTick => n < Word
    <2>1. SUFFICES ASSUME Passed < Word \div MsPerTick
                   PROVE  n < Word
      OBVIOUS
    <2>2. (Passed + 1) * MsPerTick <= (Word \div MsPerTick) * MsPerTick
      BY <1>1, <2>1, WholeWord, Multiply
    <2>3. (Passed + 1) * MsPerTick = n + MsPerTick
      BY <1>1
    <2>4. QED
      BY <1>1, <1>2, <2>2, <2>3, WholeWord
  <1> HIDE DEF n
  <1>4. n % Word <= n /\ n % Word \in 0..(Word - 1)
    <2>1. n \in Int
      BY <1>2
    <2>2. QED
      BY <1>1, <1>2, <2>1, RemainderBelow, Divide, Zenon
  <1>5. n < Word => n % Word = n
    <2>1. n \in Int /\ -Word < n /\ ~(n < 0) /\ (n < Word => n <= Word /\ n # Word)
      BY <1>1, <1>2
    <2>2. n < Word =>
            n % Word = IF n < 0 THEN n + Word ELSE IF n = Word THEN 0 ELSE n
      BY <1>1, <2>1, Around, Zenon
    <2>3. QED
      BY <2>1, <2>2, Zenon
  <1>6. PassedMs = n % Word
    BY DEF PassedMs, n
  <1>7. QED
    BY <1>3, <1>4, <1>5, <1>6 DEF n

(* The wait is one of 1 to MaxDelay ticks, and less than a tick too long.  *)
LEMMA TicksForFits ==
  ASSUME NEW w \in 0..(Word - 1)
  PROVE  /\ TicksFor(w) \in 1..MaxDelay
         /\ w # 0 => TicksFor(w) * MsPerTick < w + MsPerTick
  <1> DEFINE q == w \div MsPerTick
             r == w % MsPerTick
             x == (q * 99) \div 100
             m == TicksFor(w)
  <1>1. w \in Nat /\ MsPerTick \in Nat \ {0} /\ MaxDelay \in Nat \ {0}
    BY SoftTimerAssumption
  <1>2. q \in Int /\ r \in 0..(MsPerTick - 1) /\ w = MsPerTick * q + r
    BY <1>1, Divide
  <1>3. m = IF x = 0 THEN 1 ELSE IF x > MaxDelay THEN MaxDelay ELSE x
    BY DEF TicksFor, Limit
  <1> HIDE DEF q, r, m
  <1>4. q >= 0
    <2>1. q <= -1 => q * MsPerTick <= (-1) * MsPerTick
      BY <1>1, <1>2, Multiply
    <2>2. QED
      BY <1>1, <1>2, <2>1
  <1>5. x \in Int /\ 0 <= x /\ x <= q
    BY <1>2, <1>4
  <1> HIDE DEF x
  <1>6. m \in 1..MaxDelay /\ (m = 1 \/ m <= q)
    BY <1>1, <1>2, <1>3, <1>5
  <1>7. w # 0 => m * MsPerTick < w + MsPerTick
    <2>1. CASE m = 1
      BY <1>1, <2>1
    <2>2. CASE m <= q
      <3>1. m * MsPerTick <= q * MsPerTick
        BY <1>1, <1>2, <1>6, <2>2, Multiply
      <3>2. QED
        BY <1>1, <1>2, <1>6, <3>1
    <2>3. QED
      BY <1>6, <2>1, <2>2
  <1>8. QED
    BY <1>6, <1>7 DEF m

-----------------------------------------------------------------------------
(* The steps.                                                              *)

LEMMA InitIInv == Init => IInv
  BY SoftTimerAssumption
  DEF Init, IInv, Types, NotAhead, DelayFits, NoOverflow, NotBehind, Arming, Armed,
      Forever, Scripts

LEMMA TypesStep == Types /\ [Next]_vars => Types'
  <1> SUFFICES ASSUME Types, [Next]_vars
               PROVE  Types'
    OBVIOUS
  <1> USE DEF Types, Forever, Scripts, history, Armed
  <1>1. CASE Tick
    <2>1. tick' \in 0..(Word - 1)
      BY <1>1, PassedTick DEF Tick
    <2>2. QED
      BY <1>1, <2>1, SoftTimerAssumption DEF Tick
  <1>2. ASSUME NEW ms \in Requests, SetTimer(ms)
        PROVE  Types'
    BY <1>2, SoftTimerAssumption DEF SetTimer
  <1>3. CASE TimerSetCheck
    <2>1. delay' \in 1..MaxDelay
      BY <1>3, TicksForFits DEF TimerSetCheck
    <2>2. QED
      BY <1>3, <2>1, SoftTimerAssumption DEF TimerSetCheck
  <1>4. CASE TimerCheckNoTimer
    BY <1>4, SoftTimerAssumption DEF TimerCheckNoTimer
  <1>5. CASE TimerCheckTooSoon
    BY <1>5 DEF TimerCheckTooSoon
  <1>6. CASE TimerCheckExpired
    BY <1>6, SoftTimerAssumption DEF TimerCheckExpired
  <1>7. CASE TimerCheckNotYet
    <2>1. PassedMs \in 0..(Word - 1)
      BY PassedMsBelow
    <2>2. wake' \in 0..(Word - 1)
      BY <1>7, <2>1, SoftTimerAssumption DEF TimerCheckNotYet
    <2>3. QED
      BY <1>7, <2>2 DEF TimerCheckNotYet
  <1>8. CASE Wait
    BY <1>8, SoftTimerAssumption DEF Wait, Goto
  <1>9. CASE Notified \/ TimedOut \/ GetEvent \/ GetNothing \/ ScriptDone
    BY <1>9, SoftTimerAssumption
    DEF Notified, TimedOut, GetEvent, GetNothing, ScriptDone, Goto
  <1>10. CASE Reset
    BY <1>10, SoftTimerAssumption DEF Reset
  <1>11. CASE UNCHANGED vars
    BY <1>11 DEF vars
  <1>12. QED
    BY <1>1, <1>2, <1>3, <1>4, <1>5, <1>6, <1>7, <1>8, <1>9, <1>10, <1>11
    DEF Next, DukStep

LEMMA NotAheadStep == Types /\ NotAhead /\ [Next]_vars => NotAhead'
  <1> SUFFICES ASSUME Types, NotAhead, [Next]_vars, Armed'
               PROVE  \/ age' >= MaxAge
                      \/ Arming' /\ age' * MsPerTick >= req' - wake'
                      \/ ~Arming' /\ (age' - Passed') * MsPerTick >= req' - wake'
    BY DEF NotAhead, MaxAge
  <1> USE DEF Armed, Scripts, history
  <1> DEFINE M == MsPerTick
  <1>0. /\ M \in Nat \ {0} /\ Passed \in Nat /\ age \in Nat /\ MaxAge \in Nat
        /\ wake \in Nat /\ req \in Nat /\ Word \in Nat \ {0}
    BY SoftTimerAssumption, PassedRange, WholeWord DEF Types, MaxAge
  <1>1. CASE Tick
    <2>1. /\ wake' = wake /\ req' = req /\ pc' = pc
          /\ age' = (IF age < MaxAge THEN age + 1 ELSE age) /\ Armed
      BY <1>1 DEF Tick
    <2>2. Passed' \in Nat /\ (Passed' = 0 \/ Passed' = Passed + 1)
      BY <1>0, <1>1, PassedTick DEF Tick
    <2>3. CASE age >= MaxAge
      BY <1>0, <2>1, <2>3
    <2>4. CASE age < MaxAge /\ Arming
      <3>1. age * M >= req - wake
        BY <1>0, <2>1, <2>4 DEF NotAhead
      <3>2. age * M <= (age + 1) * M
        BY <1>0, Multiply
      <3>3. Arming' /\ age' = age + 1
        BY <2>1, <2>4 DEF Arming
      <3>4. QED
        BY <1>0, <2>1, <3>1, <3>2, <3>3
    <2>5. CASE age < MaxAge /\ ~Arming
      <3>1. (age - Passed) * M >= req - wake
        BY <1>0, <2>1, <2>5 DEF NotAhead
      <3>0. age' = age + 1
        BY <1>0, <2>1, <2>5
      <3>2. age' - Passed' \in Int /\ age - Passed \in Int /\ age - Passed <= age' - Passed'
        <4>1. age' \in Int /\ Passed' \in Int /\ Passed \in Int /\ age \in Int
          BY <1>0, <2>2, <3>0
        <4>2. age' - Passed' \in Int /\ age - Passed \in Int
          BY <4>1
        <4>3. CASE Passed' = Passed + 1
          BY <3>0, <4>1, <4>2, <4>3
        <4>4. CASE Passed' = 0
          BY <1>0, <3>0, <4>1, <4>2, <4>4
        <4>5. QED
          BY <2>2, <4>2, <4>3, <4>4
      <3>3. (age - Passed) * M <= (age' - Passed') * M
        BY <1>0, <3>2, Multiply
      <3>4. ~Arming'
        BY <2>1, <2>5 DEF Arming
      <3>5. QED
        BY <1>0, <2>1, <3>1, <3>2, <3>3, <3>4
    <2>6. QED
      BY <1>0, <2>3, <2>4, <2>5
  <1>2. ASSUME NEW ms \in Requests, SetTimer(ms)
        PROVE  Arming' /\ age' * M >= req' - wake'
    BY <1>0, <1>2, SoftTimerAssumption DEF SetTimer, Arming
  <1>3. CASE TimerSetCheck
    <2>1. Passed' = 0
      BY <1>3, PassedSet DEF TimerSetCheck
    <2>2. /\ age' = age /\ req' = req /\ wake' = wake /\ Armed /\ Arming /\ ~Arming'
      BY <1>3 DEF TimerSetCheck, Arming, Types
    <2>3. age - 0 = age
      BY <1>0
    <2>4. QED
      BY <2>1, <2>2, <2>3 DEF NotAhead, MaxAge
  <1>4. CASE TimerCheckNotYet
    <2>1. /\ age' = age /\ req' = req /\ wake' = wake - PassedMs /\ Armed /\ Arming' /\ ~Arming
      BY <1>4 DEF TimerCheckNotYet, Arming
    <2>2. PassedMs \in Nat /\ PassedMs <= Passed * M
      BY PassedMsBelow
    <2>3. (age - Passed) * M = age * M - Passed * M
      BY <1>0
    <2>4. age * M \in Int /\ Passed * M \in Int
      BY <1>0
    <2>5. age >= MaxAge \/ age * M - Passed * M >= req - wake
      BY <2>1, <2>3 DEF NotAhead
    <2> HIDE DEF M
    <2>6. age >= MaxAge \/ age * M >= req - (wake - PassedMs)
      BY <1>0, <2>2, <2>4, <2>5
    <2>7. QED
      BY <2>1, <2>6 DEF MaxAge, M
  <1>5. CASE TimerCheckNoTimer \/ TimerCheckExpired \/ Reset
    BY <1>5 DEF TimerCheckNoTimer, TimerCheckExpired, Reset
  <1>6. CASE \/ TimerCheckTooSoon \/ Wait \/ Notified \/ TimedOut
             \/ GetEvent \/ GetNothing \/ ScriptDone \/ UNCHANGED vars
    <2>1. /\ age' = age /\ req' = req /\ wake' = wake /\ tick' = tick
          /\ lastTicks' = lastTicks /\ (Arming' <=> Arming)
      BY <1>6 DEF TimerCheckTooSoon, Wait, Notified, TimedOut, GetEvent, GetNothing,
                  ScriptDone, Goto, vars, Arming
    <2>2. Passed' = Passed
      BY <2>1, PassedSame
    <2>3. QED
      BY <2>1, <2>2 DEF NotAhead, MaxAge
  <1>7. QED
    BY <1>1, <1>2, <1>3, <1>4, <1>5, <1>6 DEF Next, DukStep

(* The timer is never early, whatever woke the task while it waited, however *)
(* often the wait was begun anew, and wherever the tick count wrapped.      *)
THEOREM TimerIsNeverEarly == Spec => NeverEarly
  <1>1. Init => Types /\ NotAhead
    BY InitIInv DEF IInv
  <1>2. Types /\ NotAhead /\ [Next]_vars => (Types /\ NotAhead)'
    BY TypesStep, NotAheadStep
  <1>3. Types /\ NotAhead /\ [Next]_vars
          => [pc = "check" /\ pc' = "OnTimer" => age * MsPerTick >= req]_vars
    <2> SUFFICES ASSUME Types, NotAhead, Next, pc = "check", pc' = "OnTimer"
                 PROVE  age * MsPerTick >= req
      BY DEF vars
    <2>1. /\ MsPerTick \in Nat \ {0} /\ Passed \in Nat /\ age \in Nat
          /\ wake \in Nat /\ req \in 0..(Word - 1)
      BY SoftTimerAssumption, PassedRange DEF Types
    <2>2. TimerCheckExpired
      BY DEF Next, DukStep, Tick, SetTimer, Notified, Reset, TimerSetCheck,
             TimerCheckNoTimer, TimerCheckTooSoon, TimerCheckNotYet, Wait, TimedOut,
             GetEvent, GetNothing, ScriptDone, Goto, Scripts
    <2>3. PassedMs >= wake /\ Armed /\ ~Arming
      BY <2>2 DEF TimerCheckExpired, Arming
    <2>4. CASE age >= MaxAge
      <3> DEFINE L == Word \div MsPerTick
      <3>1. L \in Nat /\ L * MsPerTick <= Word /\ Word < (L + 1) * MsPerTick
        BY WholeWord
      <3>2. L + 1 <= age /\ L + 1 \in Int
        BY <2>1, <2>4, <3>1, SoftTimerAssumption DEF MaxAge
      <3> HIDE DEF L
      <3>3. (L + 1) * MsPerTick <= age * MsPerTick
        BY <2>1, <3>2, Multiply
      <3>4. QED
        BY <2>1, <3>1, <3>3, SoftTimerAssumption
    <2>5. CASE (age - Passed) * MsPerTick >= req - wake
      <3>1. PassedMs \in Nat /\ PassedMs <= Passed * MsPerTick
        BY PassedMsBelow
      <3>2. (age - Passed) * MsPerTick = age * MsPerTick - Passed * MsPerTick
        BY <2>1
      <3>3. age * MsPerTick \in Int /\ Passed * MsPerTick \in Int
        BY <2>1
      <3>4. QED
        BY <2>1, <2>3, <2>5, <3>1, <3>2, <3>3
    <2>6. QED
      BY <2>3, <2>4, <2>5 DEF NotAhead
  <1>4. QED
    BY <1>1, <1>2, <1>3, PTL DEF Spec, NeverEarly

LEMMA DelayFitsStep == Types /\ DelayFits /\ [Next]_vars => DelayFits'
  <1> SUFFICES ASSUME Types, DelayFits, [Next]_vars, Armed', ~Arming'
               PROVE  delay' >= 1 /\ delay' * MsPerTick < wake' + MsPerTick
    BY DEF DelayFits
  <1> USE DEF Armed, Arming, Scripts, history
  <1>1. CASE TimerSetCheck
    <2>1. wake \in 0..(Word - 1) /\ wake # 0 /\ wake' = wake /\ delay' = TicksFor(wake)
      BY <1>1 DEF TimerSetCheck, Types
    <2>2. delay' \in 1..MaxDelay /\ delay' * MsPerTick < wake + MsPerTick
      BY <2>1, TicksForFits
    <2>3. QED
      BY <2>1, <2>2, SoftTimerAssumption
  <1>2. ASSUME NEW ms \in Requests, SetTimer(ms)
        PROVE  FALSE
    BY <1>2 DEF SetTimer
  <1>3. CASE TimerCheckNotYet \/ TimerCheckNoTimer \/ TimerCheckExpired \/ Reset
    BY <1>3 DEF TimerCheckNotYet, TimerCheckNoTimer, TimerCheckExpired, Reset
  <1>4. CASE \/ Tick \/ TimerCheckTooSoon \/ Wait \/ Notified \/ TimedOut
             \/ GetEvent \/ GetNothing \/ ScriptDone \/ UNCHANGED vars
    <2>1. wake' = wake /\ delay' = delay /\ ~Arming
      BY <1>4 DEF Tick, TimerCheckTooSoon, Wait, Notified, TimedOut, GetEvent,
                  GetNothing, ScriptDone, Goto, vars
    <2>2. QED
      BY <2>1 DEF DelayFits
  <1>5. QED
    BY <1>1, <1>2, <1>3, <1>4 DEF Next, DukStep

LEMMA NoOverflowStep == Types /\ DelayFits /\ NoOverflow /\ [Next]_vars => NoOverflow'
  <1> SUFFICES ASSUME Types, DelayFits, NoOverflow, [Next]_vars, Armed'
               PROVE  NoOverflow'
    BY DEF NoOverflow
  <1> USE DEF Armed, Scripts, history
  <1> DEFINE L == Word \div MsPerTick
  <1>0. /\ Passed \in 0..(Word - 1) /\ L \in Nat /\ L <= Word /\ MaxDelay + 1 < L
        /\ MaxDelay \in Nat \ {0} /\ Word \in Nat \ {0}
    BY SoftTimerAssumption, PassedRange, WholeWord
  <1>d. left = Forever \/ left \in 0..MaxDelay
    BY DEF Types
  <1>i. Armed =>
          /\ pc = "wait" => left >= 0 /\ Passed + left < L
          /\ pc = "check" => Passed < L
          /\ pc \notin {"arm", "rearm", "wait", "check"} => Passed + MaxDelay < L
    BY DEF NoOverflow
  <1>g. ASSUME Armed' => /\ pc' = "wait" => left' >= 0 /\ Passed' + left' < L
                         /\ pc' = "check" => Passed' < L
                         /\ pc' \notin {"arm", "rearm", "wait", "check"} =>
                              Passed' + MaxDelay < L
        PROVE  NoOverflow'
    BY <1>g DEF NoOverflow
  <1> HIDE DEF L
  <1>1. CASE Tick
    <2>1. /\ Armed /\ pc' = pc
          /\ pc # "arm" /\ ~Waiting => Passed + MaxDelay + 1 < L
          /\ left' = (IF pc = "wait" /\ left > 0 THEN left - 1 ELSE left)
      BY <1>1 DEF Tick, L
    <2>2. Passed' = IF Passed = Word - 1 THEN 0 ELSE Passed + 1
      BY <1>1, PassedTick DEF Tick
    <2>3. Passed' \in Nat /\ (Passed' = 0 \/ Passed' = Passed + 1)
      BY <1>0, <2>2
    <2>4. CASE pc = "wait" /\ left > 0
      <3>1. left \in Nat \ {0} /\ left' = left - 1 /\ Passed + left < L
        BY <1>d, <1>i, <1>0, <2>1, <2>4 DEF Forever
      <3>2. left' >= 0 /\ Passed' + left' < L
        <4>1. CASE Passed' = 0
          BY <1>0, <3>1, <4>1
        <4>2. CASE Passed' = Passed + 1
          BY <1>0, <3>1, <4>2
        <4>3. QED
          BY <2>3, <4>1, <4>2
      <3>3. QED
        BY <1>g, <2>1, <2>4, <3>2
    <2>5. CASE pc = "wait" /\ ~(left > 0)
      <3>1. left = 0 /\ left' = 0
        BY <1>d, <1>i, <1>0, <2>1, <2>5 DEF Forever
      <3>2. Passed + MaxDelay + 1 < L
        BY <2>1, <2>5, <3>1 DEF Waiting
      <3>3. left' >= 0 /\ Passed' + left' < L
        <4>1. CASE Passed' = 0
          BY <1>0, <3>1, <4>1
        <4>2. CASE Passed' = Passed + 1
          BY <1>0, <3>1, <3>2, <4>2
        <4>3. QED
          BY <2>3, <4>1, <4>2
      <3>4. QED
        BY <1>g, <2>1, <2>5, <3>3
    <2>6. CASE pc \notin {"wait", "arm"}
      <3>1. Passed + MaxDelay + 1 < L
        BY <2>1, <2>6 DEF Waiting
      <3>2. Passed' < L /\ Passed' + MaxDelay < L
        <4>1. CASE Passed' = 0
          BY <1>0, <4>1
        <4>2. CASE Passed' = Passed + 1
          BY <1>0, <3>1, <4>2
        <4>3. QED
          BY <2>3, <4>1, <4>2
      <3>3. QED
        BY <1>g, <2>1, <2>6, <3>2
    <2>7. CASE pc = "arm"
      BY <1>g, <2>1, <2>7
    <2>8. QED
      BY <2>4, <2>5, <2>6, <2>7
  <1>2. ASSUME NEW ms \in Requests, SetTimer(ms)
        PROVE  NoOverflow'
    BY <1>2, <1>g DEF SetTimer
  <1>3. CASE TimerSetCheck
    <2>1. Passed' = 0
      BY <1>3, PassedSet DEF TimerSetCheck
    <2>2. pc' \notin {"arm", "rearm", "wait", "check"}
      BY <1>3 DEF TimerSetCheck, Types
    <2>3. Passed' + MaxDelay < L
      BY <1>0, <2>1
    <2>4. QED
      BY <1>g, <2>2, <2>3
  <1>4. CASE TimerCheckTooSoon
    <2>1. /\ pc' = "get" /\ Passed = 0
          /\ tick' = tick /\ lastTicks' = lastTicks
      BY <1>4 DEF TimerCheckTooSoon
    <2>2. Passed' + MaxDelay < L
      BY <1>0, <2>1, PassedSame
    <2>3. QED
      BY <1>g, <2>1, <2>2
  <1>5. CASE TimerCheckNotYet
    BY <1>5, <1>g DEF TimerCheckNotYet
  <1>6. CASE TimerCheckNoTimer \/ TimerCheckExpired \/ Reset
    BY <1>6 DEF TimerCheckNoTimer, TimerCheckExpired, Reset
  <1>7. CASE Wait
    <2>1. /\ pc = "top" /\ pc' = "wait" /\ left' = delay /\ Armed
          /\ tick' = tick /\ lastTicks' = lastTicks
      BY <1>7 DEF Wait, Goto
    <2>2. delay \in 1..MaxDelay
      <3>1. delay >= 1
        BY <2>1 DEF DelayFits, Arming
      <3>2. QED
        BY <1>0, <3>1 DEF Types, Forever
    <2>3. Passed' = Passed /\ Passed + MaxDelay < L
      BY <1>i, <2>1, PassedSame
    <2>4. left' >= 0 /\ Passed' + left' < L
      BY <1>0, <2>1, <2>2, <2>3
    <2>5. QED
      BY <1>g, <2>1, <2>4
  <1>8. CASE Notified \/ TimedOut
    <2>1. /\ pc = "wait" /\ pc' = "check" /\ Armed
          /\ tick' = tick /\ lastTicks' = lastTicks
      BY <1>8 DEF Notified, TimedOut, Goto
    <2>2. left \in Nat /\ Passed + left < L
      BY <1>d, <1>i, <2>1 DEF Forever
    <2>3. Passed' < L
      <3>1. Passed' = Passed
        BY <2>1, PassedSame
      <3>2. Passed < L
        BY <1>0, <2>2
      <3>3. QED
        BY <3>1, <3>2
    <2>4. QED
      BY <1>g, <2>1, <2>3
  <1>9. CASE GetEvent \/ GetNothing \/ ScriptDone
    <2>1. /\ pc \in {"get", "OnStart", "OnTimer", "OnEvent"}
          /\ pc' \in {"OnEvent", "top", "get", "check"} /\ Armed
          /\ tick' = tick /\ lastTicks' = lastTicks
      BY <1>9 DEF GetEvent, GetNothing, ScriptDone, Goto
    <2>2. Passed' = Passed /\ Passed + MaxDelay < L
      BY <1>i, <2>1, PassedSame
    <2>3. Passed' < L /\ Passed' + MaxDelay < L
      <3>1. Passed < L
        BY <1>0, <2>2
      <3>2. QED
        BY <2>2, <3>1
    <2>4. QED
      BY <1>g, <2>1, <2>3
  <1>10. CASE UNCHANGED vars
    <2>1. /\ pc' = pc /\ wake' = wake /\ left' = left /\ tick' = tick
          /\ lastTicks' = lastTicks
      BY <1>10 DEF vars
    <2>2. QED
      BY <2>1, <1>i, <1>g, PassedSame
  <1>11. QED
    BY <1>1, <1>2, <1>3, <1>4, <1>5, <1>6, <1>7, <1>8, <1>9, <1>10 DEF Next, DukStep

(* The products of the invariant are sums of these. *)
LEMMA Distribute ==
  ASSUME NEW a \in Int, NEW b \in Int, NEW m \in Int
  PROVE  /\ a * m \in Int /\ b * m \in Int
         /\ (a + b) * m = a * m + b * m
  OBVIOUS

LEMMA NotBehindStep ==
  Types /\ DelayFits /\ NoOverflow /\ NotBehind /\ [Next]_vars => NotBehind'
  <1> SUFFICES ASSUME Types, DelayFits, NoOverflow, NotBehind, [Next]_vars,
                      Armed', slow' < MaxSlow
               PROVE  NotBehind'
    BY DEF NotBehind
  <1> USE DEF Armed, Scripts, history
  <1> DEFINE M == MsPerTick
             L == Word \div MsPerTick
             b == age - slow
             rest == req - wake
  <1>0. /\ Passed \in 0..(Word - 1) /\ L \in Nat /\ L <= Word /\ M \in Nat \ {0}
        /\ MaxDelay \in Nat \ {0} /\ Word \in Nat \ {0} /\ MaxSlow \in Nat
    BY SoftTimerAssumption, PassedRange, WholeWord
  <1>t. /\ left = Forever \/ left \in 0..MaxDelay
        /\ delay = Forever \/ delay \in 1..MaxDelay
        /\ age \in Nat /\ slow \in Nat /\ wake \in Nat /\ req \in Nat
    BY <1>0 DEF Types
  <1>b. b \in Int /\ rest \in Int
    BY <1>t
  <1>d. Armed /\ pc \notin {"arm", "rearm"} => delay \in Nat
    BY <1>0, <1>t DEF DelayFits, Arming, Forever
  <1>l. Armed /\ pc = "wait" => left \in Nat
    BY <1>0, <1>t DEF NoOverflow, Forever
  <1>i. Armed /\ slow < MaxSlow =>
          /\ pc = "wait" => (b + left) * M <= rest + delay * M
          /\ pc = "check" => b * M <= rest + delay * M
          /\ pc \in {"wait", "check"} => b * M <= rest + Passed * M
          /\ pc \notin {"wait", "check"} => b * M <= rest
    BY DEF NotBehind
  <1>g. ASSUME /\ pc' = "wait" =>
                    (age' - slow' + left') * M <= (req' - wake') + delay' * M
               /\ pc' = "check" => (age' - slow') * M <= (req' - wake') + delay' * M
               /\ pc' \in {"wait", "check"} =>
                    (age' - slow') * M <= (req' - wake') + Passed' * M
               /\ pc' \notin {"wait", "check"} => (age' - slow') * M <= req' - wake'
        PROVE  NotBehind'
    BY <1>g DEF NotBehind
  <1>1. CASE Tick
    <2> DEFINE b1 == age' - slow'
    <2>1. /\ Armed /\ pc' = pc /\ wake' = wake /\ req' = req /\ delay' = delay
          /\ pc # "arm" /\ ~Waiting => Passed + MaxDelay + 1 < L
          /\ left' = (IF pc = "wait" /\ left > 0 THEN left - 1 ELSE left)
          /\ age' = (IF age < MaxAge THEN age + 1 ELSE age)
          /\ slow' = (IF ~Waiting /\ slow < MaxSlow THEN slow + 1 ELSE slow)
      BY <1>1 DEF Tick, L
    <2>2. slow < MaxSlow
      BY <1>0, <1>t, <2>1
    <2>3. Passed' = IF Passed = Word - 1 THEN 0 ELSE Passed + 1
      BY <1>1, PassedTick DEF Tick
    <2>4. age' \in {age, age + 1} /\ age' \in Nat /\ slow' \in Nat
      BY <1>t, <2>1
    <2>5. CASE pc = "wait" /\ left > 0
      <3>1. left \in Nat \ {0} /\ left' = left - 1 /\ slow' = slow /\ left' \in Nat
        BY <1>l, <1>0, <2>1, <2>5 DEF Waiting
      <3>2. Passed < Word - 1
        <4>1. Passed + left < L
          BY <2>1, <2>5 DEF NoOverflow, L
        <4>2. QED
          BY <1>0, <3>1, <4>1
      <3>3. Passed' = Passed + 1
        BY <1>0, <2>3, <3>2
      <3>4. b1 \in Int /\ b1 <= b + 1 /\ b1 + left' \in Int /\ b1 + left' <= b + left
        <4>1. CASE age' = age
          BY <1>t, <2>4, <3>1, <4>1
        <4>2. CASE age' = age + 1
          BY <1>t, <2>4, <3>1, <4>2
        <4>3. QED
          BY <2>4, <4>1, <4>2
      <3> HIDE DEF b, b1, rest
      <3>5. (b1 + left') * M <= (b + left) * M
        BY <1>0, <1>b, <3>1, <3>4, Multiply
      <3>6. b1 * M <= (b + 1) * M /\ (b + 1) * M = b * M + 1 * M
        BY <1>0, <1>b, <3>4, Multiply
      <3>7. Passed' * M = Passed * M + 1 * M
        BY <1>0, <3>3
      <3>8. (b1 + left') * M <= rest + delay * M
        BY <1>0, <1>b, <1>d, <1>i, <2>1, <2>2, <2>5, <3>1, <3>4, <3>5
      <3>9. b1 * M <= rest + Passed' * M
        <4>1. b * M <= rest + Passed * M
          BY <1>i, <2>1, <2>2, <2>5
        <4>2. /\ b * M \in Int /\ Passed * M \in Int /\ 1 * M \in Int
              /\ b1 * M \in Int /\ (b + 1) * M \in Int
          BY <1>0, <1>b, <3>4
        <4>3. QED
          BY <1>b, <3>6, <3>7, <4>1, <4>2
      <3> USE DEF b1, rest
      <3>10. QED
        BY <1>g, <2>1, <2>5, <3>8, <3>9
    <2>6. CASE ~(pc = "wait" /\ left > 0)
      <3>1. ~Waiting
        BY <1>l, <2>1, <2>6 DEF Waiting
      <3>2. slow' = slow + 1 /\ left' = left
        BY <2>1, <2>2, <2>6, <3>1
      <3>3. b1 \in Int /\ b1 <= b
        <4>1. CASE age' = age
          BY <1>t, <2>4, <3>2, <4>1
        <4>2. CASE age' = age + 1
          BY <1>t, <2>4, <3>2, <4>2
        <4>3. QED
          BY <2>4, <4>1, <4>2
      <3> HIDE DEF b, b1, rest
      <3>4. b1 * M <= b * M /\ b1 * M \in Int /\ b * M \in Int
        BY <1>0, <1>b, <3>3, Multiply
      <3>5. CASE pc = "wait"
        <4>1. left \in Nat /\ left = 0
          BY <1>l, <2>1, <2>6, <3>5
        <4>2. b1 + left' = b1 /\ b + left = b
          BY <1>b, <3>2, <3>3, <4>1
        <4>3. Passed < Word - 1
          BY <1>0, <2>1, <3>1, <3>5
        <4>4. Passed' = Passed + 1
          BY <1>0, <2>3, <4>3
        <4>5. /\ Passed' * M \in Int /\ Passed * M \in Int
              /\ Passed * M <= Passed' * M /\ delay * M \in Int
          BY <1>0, <1>d, <2>1, <3>5, <4>4, Multiply
        <4>6. b * M <= rest + delay * M /\ b * M <= rest + Passed * M
          BY <1>i, <2>1, <2>2, <3>5, <4>2
        <4>7. b1 * M <= rest + delay * M /\ b1 * M <= rest + Passed' * M
          BY <1>b, <3>4, <4>5, <4>6
        <4> USE DEF b1, rest
        <4>8. QED
          BY <1>g, <2>1, <3>5, <4>2, <4>7
      <3>6. CASE pc = "check"
        <4>1. Passed < Word - 1
          BY <1>0, <2>1, <3>1, <3>6
        <4>2. Passed' = Passed + 1
          BY <1>0, <2>3, <4>1
        <4>3. /\ Passed' * M \in Int /\ Passed * M \in Int
              /\ Passed * M <= Passed' * M /\ delay * M \in Int
          BY <1>0, <1>d, <2>1, <3>6, <4>2, Multiply
        <4>4. b * M <= rest + delay * M /\ b * M <= rest + Passed * M
          BY <1>i, <2>1, <2>2, <3>6
        <4>5. b1 * M <= rest + delay * M /\ b1 * M <= rest + Passed' * M
          BY <1>b, <3>4, <4>3, <4>4
        <4> USE DEF b1, rest
        <4>6. QED
          BY <1>g, <2>1, <3>6, <4>5
      <3>7. CASE pc \notin {"wait", "check"}
        <4>1. b1 * M <= rest
          BY <1>b, <1>i, <2>1, <2>2, <3>4, <3>7
        <4> USE DEF b1, rest
        <4>2. QED
          BY <1>g, <2>1, <3>7, <4>1
      <3>8. QED
        BY <3>5, <3>6, <3>7
    <2>7. QED
      BY <2>5, <2>6
  <1>2. ASSUME NEW ms \in Requests, SetTimer(ms)
        PROVE  NotBehind'
    <2>1. /\ pc' = "arm" /\ age' = 0 /\ slow' = 0 /\ wake' = ms /\ req' = ms /\ ms \in Nat
      BY <1>2, SoftTimerAssumption DEF SetTimer
    <2>2. (age' - slow') * M <= req' - wake'
      BY <1>0, <2>1
    <2>3. QED
      BY <1>g, <2>1, <2>2
  <1>3. CASE TimerSetCheck
    <2>1. /\ pc' \notin {"wait", "check"} /\ pc \notin {"wait", "check"} /\ Armed
          /\ age' = age /\ slow' = slow /\ wake' = wake /\ req' = req
      BY <1>3 DEF TimerSetCheck, Types
    <2>2. QED
      BY <1>g, <1>i, <2>1
  <1>4. CASE TimerCheckTooSoon
    <2>1. /\ pc = "check" /\ pc' = "get" /\ Passed = 0 /\ Armed
          /\ age' = age /\ slow' = slow /\ wake' = wake /\ req' = req
      BY <1>4 DEF TimerCheckTooSoon
    <2>2. b * M <= rest + 0 * M
      BY <1>i, <2>1
    <2>3. b * M <= rest
      BY <1>0, <1>b, <2>2
    <2>4. QED
      BY <1>g, <2>1, <2>3
  <1>5. CASE TimerCheckNotYet
    <2>1. /\ pc = "check" /\ pc' = "rearm" /\ Armed /\ wake' = wake - PassedMs
          /\ age' = age /\ slow' = slow /\ req' = req
      BY <1>5 DEF TimerCheckNotYet
    <2>2. PassedMs = Passed * M
      BY <2>1, PassedMsBelow DEF NoOverflow
    <2>3. b * M <= rest + PassedMs /\ PassedMs \in Int
      BY <1>i, <2>1, <2>2, PassedMsBelow
    <2>4. req' - wake' = rest + PassedMs
      BY <1>t, <2>1, <2>3
    <2>5. b * M <= req' - wake'
      BY <2>3, <2>4
    <2>6. QED
      BY <1>g, <2>1, <2>5
  <1>6. CASE TimerCheckNoTimer \/ TimerCheckExpired \/ Reset
    BY <1>6 DEF TimerCheckNoTimer, TimerCheckExpired, Reset
  <1>7. CASE Wait
    <2>1. /\ pc = "top" /\ pc' = "wait" /\ left' = delay /\ Armed /\ delay' = delay
          /\ tick' = tick /\ lastTicks' = lastTicks
          /\ age' = age /\ slow' = slow /\ wake' = wake /\ req' = req
      BY <1>7 DEF Wait, Goto
    <2>2. Passed' = Passed /\ delay \in Nat /\ b * M <= rest
      BY <1>d, <1>i, <2>1, PassedSame
    <2> HIDE DEF b, rest
    <2>3. /\ (b + delay) * M = b * M + delay * M /\ b * M \in Int /\ delay * M \in Int
          /\ Passed * M \in Int /\ 0 * M <= Passed * M
      BY <1>0, <1>b, <2>2, Distribute, Multiply
    <2>4. (b + delay) * M <= rest + delay * M /\ b * M <= rest + Passed * M
      BY <1>0, <1>b, <2>2, <2>3
    <2> USE DEF b, rest
    <2>5. QED
      BY <1>g, <2>1, <2>2, <2>4
  <1>8. CASE Notified \/ TimedOut
    <2>1. /\ pc = "wait" /\ pc' = "check" /\ Armed /\ delay' = delay
          /\ tick' = tick /\ lastTicks' = lastTicks
          /\ age' = age /\ slow' = slow /\ wake' = wake /\ req' = req
      BY <1>8 DEF Notified, TimedOut, Goto
    <2>2. /\ Passed' = Passed /\ left \in Nat /\ delay \in Nat
          /\ (b + left) * M <= rest + delay * M /\ b * M <= rest + Passed * M
      BY <1>d, <1>l, <1>i, <2>1, PassedSame
    <2> HIDE DEF b, rest
    <2>3. /\ b * M <= (b + left) * M /\ b * M \in Int /\ (b + left) * M \in Int
          /\ delay * M \in Int
      <3>1. b + left \in Int /\ b <= b + left
        BY <1>b, <2>2
      <3>2. QED
        BY <1>0, <1>b, <2>2, <3>1, Multiply
    <2>4. b * M <= rest + delay * M
      BY <1>b, <2>2, <2>3
    <2> USE DEF b, rest
    <2>5. QED
      BY <1>g, <2>1, <2>2, <2>4
  <1>9. CASE GetEvent \/ GetNothing \/ ScriptDone
    <2>1. /\ pc \in {"get", "OnStart", "OnTimer", "OnEvent"}
          /\ pc' \in {"OnEvent", "top", "get", "check"} /\ Armed /\ delay' = delay
          /\ tick' = tick /\ lastTicks' = lastTicks
          /\ age' = age /\ slow' = slow /\ wake' = wake /\ req' = req
      BY <1>9 DEF GetEvent, GetNothing, ScriptDone, Goto
    <2>2. Passed' = Passed /\ delay \in Nat /\ b * M <= rest
      BY <1>d, <1>i, <2>1, PassedSame
    <2> HIDE DEF b, rest
    <2>3. /\ b * M \in Int /\ delay * M \in Int /\ 0 * M <= delay * M
          /\ Passed * M \in Int /\ 0 * M <= Passed * M
      BY <1>0, <1>b, <2>2, Multiply
    <2>4. b * M <= rest + delay * M /\ b * M <= rest + Passed * M
      BY <1>0, <1>b, <2>2, <2>3
    <2> USE DEF b, rest
    <2>5. QED
      BY <1>g, <2>1, <2>2, <2>4
  <1>10. CASE UNCHANGED vars
    <2>1. /\ pc' = pc /\ wake' = wake /\ left' = left /\ tick' = tick /\ req' = req
          /\ lastTicks' = lastTicks /\ age' = age /\ slow' = slow /\ delay' = delay
      BY <1>10 DEF vars
    <2>2. Passed' = Passed
      BY <2>1, PassedSame
    <2>3. QED
      BY <1>i, <1>g, <2>1, <2>2
  <1>11. QED
    BY <1>1, <1>2, <1>3, <1>4, <1>5, <1>6, <1>7, <1>8, <1>9, <1>10 DEF Next, DukStep

(* The timer is late only by the ticks in which the task did not wait, and  *)
(* by less than one tick of rounding.                                      *)
THEOREM TimerIsNeverLate == Spec => []NeverLate
  <1>1. Init => IInv
    BY InitIInv
  <1>2. IInv /\ [Next]_vars => IInv'
    BY TypesStep, NotAheadStep, DelayFitsStep, NoOverflowStep, NotBehindStep DEF IInv
  <1>3. IInv => NeverLate
    <2> SUFFICES ASSUME IInv, Armed, slow < MaxSlow
                 PROVE  age <= TicksNeeded(req) + slow
      BY DEF NeverLate
    <2> DEFINE M == MsPerTick
               b == age - slow
               n == req + M - 1
               q == n \div M
               r == n % M
    <2>1. /\ M \in Nat \ {0} /\ age \in Nat /\ slow \in Nat /\ wake \in Nat
          /\ req \in Nat /\ Passed \in Nat /\ n \in Int /\ b \in Int
      BY SoftTimerAssumption, PassedRange DEF IInv, Types
    <2>2. q \in Int /\ r \in 0..(M - 1) /\ n = M * q + r
      BY <2>1, Divide
    <2>3. b * M < req + M
      <3>1. pc \in {"wait", "check"} => delay \in Int /\ delay * M < wake + M
        BY SoftTimerAssumption DEF IInv, Types, DelayFits, Arming, Forever
      <3>2. pc = "wait" => left \in Nat
        BY SoftTimerAssumption DEF IInv, Types, NoOverflow, Forever
      <3>3. /\ pc = "wait" => (b + left) * M <= (req - wake) + delay * M
            /\ pc = "check" => b * M <= (req - wake) + delay * M
            /\ pc \notin {"wait", "check"} => b * M <= req - wake
        BY DEF IInv, NotBehind
      <3> HIDE DEF b, M
      <3>4. pc = "wait" => b * M <= (b + left) * M
        <4>1. ASSUME left \in Nat
              PROVE  b + left \in Int /\ b <= b + left
          BY <2>1, <4>1
        <4>2. QED
          BY <2>1, <3>2, <4>1, Multiply
      <3>5. b * M \in Int
        BY <2>1
      <3>6. CASE pc \in {"wait", "check"}
        <4>1. delay * M \in Int /\ (pc = "wait" => (b + left) * M \in Int)
          BY <2>1, <3>1, <3>2, <3>6
        <4>2. b * M <= (req - wake) + delay * M
          BY <2>1, <3>3, <3>4, <3>5, <3>6, <4>1
        <4>3. QED
          BY <2>1, <3>1, <3>5, <3>6, <4>1, <4>2
      <3>7. CASE pc \notin {"wait", "check"}
        BY <2>1, <3>3, <3>5, <3>7
      <3>8. QED
        BY <3>6, <3>7
    <2> DEFINE d == b - q - 1
    <2>4. d \in Int /\ b = d + q + 1
      BY <2>1, <2>2
    <2>5. TicksNeeded(req) = q
      BY DEF TicksNeeded
    <2>6. n = req + M - 1
      OBVIOUS
    <2> HIDE DEF q, r, n, d, M
    <2>7. ~(b >= q + 1)
      <3>1. SUFFICES ASSUME b >= q + 1
                     PROVE  FALSE
        OBVIOUS
      <3> HIDE DEF b
      <3>2. (q + 1) * M <= b * M
        BY <2>1, <2>2, <3>1, Multiply
      <3>3. (q + 1) * M = M * q + M
        BY <2>1, <2>2
      <3>4. M * q \in Int /\ b * M \in Int
        BY <2>1, <2>2
      <3>5. QED
        BY <2>1, <2>2, <2>3, <2>6, <3>2, <3>3, <3>4
    <2>8. QED
      BY <2>1, <2>2, <2>5, <2>7
  <1>4. QED
    BY <1>1, <1>2, <1>3, PTL DEF Spec
=============================================================================
