------------------------ MODULE ButtonService_proofs ------------------------
(***************************************************************************)
(* Theorems about ButtonService, for any length of a frame, any number of  *)
(* presses, at any time, and a timer task that runs later than it should.  *)
(***************************************************************************)
EXTENDS ButtonService, FiniteSetTheorems, TLAPS

-----------------------------------------------------------------------------
(* The count of button_callback.  It looks at the presses once and keeps   *)
(* the last one it counted; that no other choice of presses so far counts  *)
(* more, and none as many that ends earlier, is what makes it right.       *)

Apart(p, S) == \A j, k \in S : j < k => p[j] - p[k] > MinGap

Chosen(p, n, c, l) ==
  \E S \in SUBSET (1..n) :
    Apart(p, S) /\ Cardinality(S) = c /\ l \in S /\ \A s \in S : s <= l

Greatest(p, n, c, l) ==
  \A T \in SUBSET (1..n) :
    Apart(p, T) => /\ Cardinality(T) <= c
                   /\ Cardinality(T) = c => \E t \in T : l <= t

Best(p, n, c, l) == Chosen(p, n, c, l) /\ Greatest(p, n, c, l)

Older(p, n) ==
  /\ \A k \in 1..n : p[k] \in Nat
  /\ \A j, k \in 1..n : j < k => p[j] >= p[k]

(* A choice is finite. *)
LEMMA Finite ==
  \A n \in Nat : \A T \in SUBSET (1..n) : IsFiniteSet(T) /\ Cardinality(T) \in Nat
  <1> SUFFICES ASSUME NEW n \in Nat, NEW T \in SUBSET (1..n)
               PROVE  IsFiniteSet(T) /\ Cardinality(T) \in Nat
    OBVIOUS
  <1>1. IsFiniteSet(1..n)
    BY FS_Interval
  <1>2. IsFiniteSet(T)
    BY <1>1, FS_Subset
  <1>3. QED
    BY <1>2, FS_CardinalityType

(* The first press counts. *)
LEMMA BestFirst ==
  ASSUME NEW p
  PROVE  Best(p, 1, 1, 1)
  <1>1. Chosen(p, 1, 1, 1)
    <2>1. Apart(p, {1}) /\ {1} \in SUBSET (1..1)
      BY DEF Apart
    <2>2. Cardinality({1}) = 1
      BY FS_Singleton
    <2>3. 1 \in {1} /\ \A s \in {1} : s <= 1
      OBVIOUS
    <2>4. QED
      BY <2>1, <2>2, <2>3 DEF Chosen
  <1>2. ASSUME NEW T \in SUBSET (1..1)
        PROVE  Cardinality(T) <= 1 /\ (Cardinality(T) = 1 => \E t \in T : 1 <= t)
    <2>1. 1..1 = {1}
      OBVIOUS
    <2>2. T = {} \/ T = {1}
      BY <2>1
    <2>3. CASE T = {}
      BY <2>3, FS_EmptySet
    <2>4. CASE T = {1}
      <3>1. Cardinality(T) = 1
        BY <2>4, FS_Singleton
      <3>2. QED
        BY <2>4, <3>1
    <2>5. QED
      BY <2>2, <2>3, <2>4
  <1>3. QED
    BY <1>1, <1>2 DEF Best, Greatest

(* Without the last of them, presses that lie apart still do. *)
LEMMA WithoutLast ==
  ASSUME NEW p, NEW n \in Nat, NEW T \in SUBSET (1..(n + 1)), Apart(p, T)
  PROVE  /\ T \ {n + 1} \in SUBSET (1..n)
         /\ Apart(p, T \ {n + 1})
         /\ n + 1 \in T => Cardinality(T) = Cardinality(T \ {n + 1}) + 1
         /\ n + 1 \notin T => T \ {n + 1} = T
         /\ Cardinality(T \ {n + 1}) \in Nat
  <1>1. T \ {n + 1} \in SUBSET (1..n)
    OBVIOUS
  <1>2. Apart(p, T \ {n + 1})
    BY DEF Apart
  <1>3. IsFiniteSet(T) /\ Cardinality(T) \in Nat
    <2>1. n + 1 \in Nat
      OBVIOUS
    <2>2. QED
      BY <2>1, Finite
  <1>4. Cardinality(T \ {n + 1}) = IF n + 1 \in T THEN Cardinality(T) - 1 ELSE Cardinality(T)
    BY <1>3, FS_RemoveElement
  <1>5. Cardinality(T \ {n + 1}) \in Nat
    BY <1>1, Finite
  <1>6. QED
    BY <1>1, <1>2, <1>3, <1>4, <1>5

(* A press too close to the last one counted is too close to one of any    *)
(* choice of as many.                                                      *)
LEMMA BestSkip ==
  ASSUME NEW p, NEW n \in Nat, NEW c \in Nat, NEW l \in 1..n, Older(p, n + 1),
         Best(p, n, c, l), ~(p[l] - p[n + 1] > MinGap)
  PROVE  Best(p, n + 1, c, l)
  <1>1. Chosen(p, n + 1, c, l)
    BY DEF Best, Chosen
  <1>2. ASSUME NEW T \in SUBSET (1..(n + 1)), Apart(p, T)
        PROVE  Cardinality(T) <= c /\ (Cardinality(T) = c => \E t \in T : l <= t)
    <2> DEFINE R == T \ {n + 1}
    <2>1. /\ R \in SUBSET (1..n) /\ Apart(p, R) /\ Cardinality(R) \in Nat
          /\ n + 1 \in T => Cardinality(T) = Cardinality(R) + 1
          /\ n + 1 \notin T => R = T
      BY <1>2, WithoutLast
    <2>2. Cardinality(R) <= c /\ (Cardinality(R) = c => \E t \in R : l <= t)
      BY <2>1 DEF Best, Greatest
    <2>3. CASE n + 1 \notin T
      BY <2>1, <2>2, <2>3
    <2>4. CASE n + 1 \in T
      <3>1. ASSUME NEW t \in R, l <= t PROVE FALSE
        <4>1. t \in 1..n /\ t < n + 1 /\ t \in T
          BY <2>1
        <4>2. p[t] - p[n + 1] > MinGap
          BY <1>2, <2>4, <4>1 DEF Apart
        <4>3. /\ p[l] >= p[t] /\ p[l] \in Nat /\ p[t] \in Nat /\ p[n + 1] \in Nat
          <5>1. l \in 1..(n + 1) /\ t \in 1..(n + 1) /\ n + 1 \in 1..(n + 1)
            BY <4>1
          <5>2. l = t \/ l < t
            BY <3>1, <4>1
          <5>3. QED
            BY <5>1, <5>2 DEF Older
        <4>4. QED
          BY <4>2, <4>3, ButtonAssumption
      <3>2. Cardinality(R) < c
        BY <2>1, <2>2, <3>1
      <3>3. l <= n + 1
        OBVIOUS
      <3>4. QED
        BY <2>1, <2>4, <3>2, <3>3
    <2>5. QED
      BY <2>3, <2>4
  <1>3. QED
    BY <1>1, <1>2 DEF Best, Greatest

(* A press far enough from the last one counted is far enough from all     *)
(* that have been counted.                                                 *)
LEMMA BestTake ==
  ASSUME NEW p, NEW n \in Nat, NEW c \in Nat, NEW l \in 1..n, Older(p, n + 1),
         Best(p, n, c, l), p[l] - p[n + 1] > MinGap
  PROVE  Best(p, n + 1, c + 1, n + 1)
  <1>1. Chosen(p, n + 1, c + 1, n + 1)
    <2>1. PICK S \in SUBSET (1..n) :
            Apart(p, S) /\ Cardinality(S) = c /\ l \in S /\ \A s \in S : s <= l
      BY DEF Best, Chosen
    <2> DEFINE U == S \cup {n + 1}
    <2>2. U \in SUBSET (1..(n + 1)) /\ n + 1 \in U /\ \A s \in U : s <= n + 1
      OBVIOUS
    <2>3. Cardinality(U) = c + 1
      <3>1. IsFiniteSet(S)
        BY Finite
      <3>2. n + 1 \notin S
        OBVIOUS
      <3>3. QED
        BY <2>1, <3>1, <3>2, FS_AddElement
    <2>4. ASSUME NEW j \in U, NEW k \in U, j < k PROVE p[j] - p[k] > MinGap
      <3>1. CASE k \in S
        <4>1. j \in S
          BY <2>4, <3>1
        <4>2. QED
          BY <2>1, <2>4, <3>1, <4>1 DEF Apart
      <3>2. CASE k = n + 1
        <4>1. j \in S /\ j <= l
          BY <2>1, <2>4, <3>2
        <4>2. p[j] >= p[l] /\ p[j] \in Nat /\ p[l] \in Nat /\ p[n + 1] \in Nat
          <5>1. j \in 1..(n + 1) /\ l \in 1..(n + 1) /\ n + 1 \in 1..(n + 1) /\ (j = l \/ j < l)
            BY <4>1
          <5>2. QED
            BY <5>1 DEF Older
        <4>3. QED
          BY <3>2, <4>2, ButtonAssumption
      <3>3. QED
        BY <3>1, <3>2
    <2>5. Apart(p, U)
      BY <2>4 DEF Apart
    <2>6. QED
      BY <2>2, <2>3, <2>5 DEF Chosen
  <1>2. ASSUME NEW T \in SUBSET (1..(n + 1)), Apart(p, T)
        PROVE  Cardinality(T) <= c + 1 /\ (Cardinality(T) = c + 1 => \E t \in T : n + 1 <= t)
    <2> DEFINE R == T \ {n + 1}
    <2>1. /\ R \in SUBSET (1..n) /\ Apart(p, R) /\ Cardinality(R) \in Nat
          /\ n + 1 \in T => Cardinality(T) = Cardinality(R) + 1
          /\ n + 1 \notin T => R = T
      BY <1>2, WithoutLast
    <2>2. Cardinality(R) <= c
      BY <2>1 DEF Best, Greatest
    <2>3. QED
      BY <2>1, <2>2
  <1>3. QED
    BY <1>1, <1>2 DEF Best, Greatest

(* Only the gaps between presses matter, not how old they are. *)
LEMMA BestAgain ==
  ASSUME NEW p, NEW q, NEW n \in Nat, NEW c, NEW l, Best(p, n, c, l),
         \A j, k \in 1..n : j < k => (p[j] - p[k] > MinGap <=> q[j] - q[k] > MinGap)
  PROVE  Best(q, n, c, l)
  <1>1. \A S \in SUBSET (1..n) : Apart(p, S) <=> Apart(q, S)
    BY DEF Apart
  <1>2. QED
    BY <1>1 DEF Best, Chosen, Greatest

-----------------------------------------------------------------------------
(* The invariant.                                                          *)

Types ==
  /\ presses \in Seq(0..Old)
  /\ timer_started \in BOOLEAN
  /\ armed \in -1..Timeout
  /\ pc \in {"wait", "count", "reset", "enable", "post"}
  /\ late \in 0..MaxLate

(* The timer is marked as started while it runs, or while the callback is  *)
(* on its way to clear the mark, and runs only if a press started it.      *)
Marked ==
  /\ pc \in {"wait", "post"} => (timer_started <=> armed # Off)
  /\ pc \in {"count", "reset", "enable"} => timer_started /\ armed = Off
  /\ armed # Off \/ pc = "count" => presses # <<>>
  /\ pc = "wait" /\ armed # 0 => late = 0

(* A press is either one of those made while an earlier callback ran, which *)
(* lie close together, or was made after the timer of this frame started.  *)
Close(m) ==
  \A j, k \in DOMAIN presses : j < k /\ k <= m => presses[j] - presses[k] <= MinGap

Waited == IF pc = "wait" THEN (Timeout - armed) + late ELSE Timeout + late

Recent(m) ==
  \A k \in DOMAIN presses : k > m => presses[k] <= Waited /\ ~(pc = "wait" /\ armed = Off)

Ages ==
  /\ \A j, k \in DOMAIN presses : j < k => presses[j] >= presses[k]
  /\ pc \in {"enable", "post"} => \A k \in DOMAIN presses : presses[k] <= late
  /\ pc \in {"wait", "count"} => \E m \in 0..Len(presses) : Close(m) /\ Recent(m)

Counting ==
  pc = "count" =>
    /\ i \in 2..(Len(presses) + 1) /\ last \in 1..(i - 1) /\ count \in Nat
    /\ Best(presses, i - 1, count, last)

Counted ==
  pc \in {"reset", "enable", "post"} =>
    /\ frame \in Seq(0..Old) /\ count \in Nat
    /\ \E l \in Nat : Best(frame, Len(frame), count, l)

IInv == Types /\ Marked /\ Ages /\ Counting /\ Counted

-----------------------------------------------------------------------------

(* The ages of a sequence of presses. *)
LEMMA SequenceOfAges ==
  ASSUME NEW S, NEW p \in Seq(S)
  PROVE  DOMAIN p = 1..Len(p) /\ Len(p) \in Nat /\ \A k \in DOMAIN p : p[k] \in S
  OBVIOUS

LEMMA InitIInv == Init => IInv
  <1> SUFFICES ASSUME Init
               PROVE  IInv
    OBVIOUS
  <1>1. Types /\ Marked
    <2>1. <<>> \in Seq(0..Old) /\ -1 \in -1..Timeout /\ 0 \in 0..MaxLate
      BY ButtonAssumption
    <2>2. QED
      BY <2>1 DEF Init, Types, Marked, Off
  <1>2. Ages
    <2>1. DOMAIN presses = {} /\ Len(presses) = 0 /\ 0 \in 0..0
      BY DEF Init
    <2>2. QED
      BY <2>1 DEF Init, Ages, Close, Recent
  <1>3. QED
    BY <1>1, <1>2 DEF Init, IInv, Counting, Counted

(* A press that is added is the youngest. *)
LEMMA IsrKeeps ==
  ASSUME IInv, button_isr
  PROVE  IInv'
  <1> USE ButtonAssumption DEF IInv, button_isr, callback, Off
  <1>1. CASE Len(presses) < MaxPresses
    <2>1. /\ presses' = Append(presses, 0) /\ presses' \in Seq(0..Old)
          /\ Len(presses') = Len(presses) + 1 /\ Len(presses) \in Nat
          /\ DOMAIN presses = 1..Len(presses) /\ DOMAIN presses' = 1..(Len(presses) + 1)
          /\ \A k \in DOMAIN presses : presses'[k] = presses[k] /\ presses[k] \in 0..Old
          /\ presses'[Len(presses) + 1] = 0
      BY <1>1, SMTT(60) DEF Types, Old
    <2>2. Types' /\ Marked'
      BY <2>1 DEF Types, Marked
    <2>3. Ages'
      <3>1. \A j, k \in DOMAIN presses' : j < k => presses'[j] >= presses'[k]
        BY <2>1 DEF Ages, Types
      <3>2. pc' \in {"enable", "post"} => \A k \in DOMAIN presses' : presses'[k] <= late'
        BY <2>1 DEF Ages, Types
      <3>3. ASSUME pc' \in {"wait", "count"} PROVE (\E m \in 0..Len(presses) : Close(m) /\ Recent(m))'
        <4>1. PICK m \in 0..Len(presses) : Close(m) /\ Recent(m)
          BY <3>3 DEF Ages
        <4>2. \A k \in DOMAIN presses' : k \in DOMAIN presses \/ k = Len(presses) + 1
          BY <2>1
        <4>3. Close(m)'
          <5>1. ASSUME NEW j \in DOMAIN presses', NEW k \in DOMAIN presses', j < k, k <= m
                PROVE  presses'[j] - presses'[k] <= MinGap
            <6>1. j \in DOMAIN presses /\ k \in DOMAIN presses
              BY <2>1, <4>1, <5>1
            <6>2. QED
              BY <2>1, <4>1, <5>1, <6>1 DEF Close
          <5>2. QED
            BY <5>1 DEF Close
        <4>4. Waited' \in Nat /\ (timer_started => Waited' = Waited)
          BY <3>3 DEF Waited, Types, Marked
        <4>5. ASSUME NEW k \in DOMAIN presses', k > m
              PROVE  presses'[k] <= Waited' /\ ~(pc' = "wait" /\ armed' = Off)
          <5>1. ~(pc' = "wait" /\ armed' = Off)
            BY <3>3 DEF Types, Marked
          <5>2. CASE k = Len(presses) + 1
            BY <2>1, <4>4, <5>1, <5>2
          <5>3. CASE k \in DOMAIN presses
            <6>1. presses'[k] = presses[k] /\ presses[k] <= Waited /\ ~(pc = "wait" /\ armed = Off)
              BY <2>1, <4>1, <4>5, <5>3 DEF Recent
            <6>2. timer_started
              BY <3>3, <6>1 DEF Marked
            <6>3. QED
              BY <4>4, <5>1, <6>1, <6>2
          <5>4. QED
            BY <4>2, <5>2, <5>3
        <4>6. Recent(m)'
          BY <4>5 DEF Recent
        <4>7. m \in 0..Len(presses')
          BY <2>1
        <4>8. QED
          BY <4>3, <4>6, <4>7
      <3>4. QED
        BY <3>1, <3>2, <3>3 DEF Ages
    <2>4. Counting'
      <3> SUFFICES ASSUME pc = "count"
                   PROVE  Counting'
        BY DEF Counting
      <3>1. \A j, k \in 1..(i - 1) :
              j < k => (presses[j] - presses[k] > MinGap <=> presses'[j] - presses'[k] > MinGap)
        BY <2>1, SMTT(60) DEF Counting
      <3>2. i - 1 \in Nat /\ Best(presses, i - 1, count, last)
        BY DEF Counting
      <3>3. Best(presses', i - 1, count, last)
        <4> DEFINE n == i - 1
        <4>1. n \in Nat /\ Best(presses, n, count, last)
          BY <3>2
        <4>2. \A j, k \in 1..n :
                j < k => (presses[j] - presses[k] > MinGap <=> presses'[j] - presses'[k] > MinGap)
          BY <3>1
        <4> HIDE DEF n
        <4>3. Best(presses', n, count, last)
          BY <4>1, <4>2, BestAgain
        <4>4. QED
          BY <4>3 DEF n
      <3>4. QED
        BY <2>1, <3>3 DEF Counting
    <2>5. Counted'
      BY DEF Counted
    <2>6. QED
      BY <2>2, <2>3, <2>4, <2>5
  <1>2. CASE ~(Len(presses) < MaxPresses)
    <2>1. presses' = presses /\ presses # <<>>
      BY <1>2
    <2>2. Types' /\ Marked'
      BY <2>1 DEF Types, Marked
    <2>3. Ages'
      <3>1. ASSUME pc \in {"wait", "count"} PROVE (\E m \in 0..Len(presses) : Close(m) /\ Recent(m))'
        <4>1. PICK m \in 0..Len(presses) : Close(m) /\ Recent(m)
          BY <3>1 DEF Ages
        <4>2. Close(m)'
          BY <2>1, <4>1 DEF Close
        <4>3. Recent(m)'
          <5>1. CASE timer_started
            BY <2>1, <4>1, <5>1 DEF Recent, Waited
          <5>2. CASE ~timer_started
            <6>1. pc = "wait" /\ armed = Off
              BY <3>1, <5>2 DEF Marked
            <6>2. \A k \in DOMAIN presses : ~(k > m)
              BY <4>1, <6>1 DEF Recent
            <6>3. QED
              BY <2>1, <6>2 DEF Recent
          <5>3. QED
            BY <5>1, <5>2
        <4>4. QED
          BY <2>1, <4>2, <4>3
      <3>2. QED
        BY <2>1, <3>1 DEF Ages
    <2>4. Counting' /\ Counted'
      BY <2>1 DEF Counting, Counted
    <2>5. QED
      BY <2>2, <2>3, <2>4
  <1>3. QED
    BY <1>1, <1>2

(* Time passes: a gap within the frame that is counted stays a gap and what *)
(* is none does not become one, though no age exceeds Old.                 *)
LEMMA TickKeeps ==
  ASSUME IInv, Tick
  PROVE  IInv'
  <1> USE ButtonAssumption DEF IInv, callback, Off
  <1>1. /\ DOMAIN presses' = DOMAIN presses /\ presses' \in Seq(0..Old)
        /\ Len(presses') = Len(presses) /\ DOMAIN presses = 1..Len(presses)
        /\ \A k \in DOMAIN presses :
             /\ presses[k] \in 0..Old /\ presses'[k] \in 0..Old
             /\ presses'[k] = IF presses[k] < Old THEN presses[k] + 1 ELSE Old
    <2>1. DOMAIN presses = 1..Len(presses) /\ \A k \in DOMAIN presses : presses[k] \in 0..Old
      BY SequenceOfAges DEF Types
    <2>2. \A k \in DOMAIN presses :
            (IF presses[k] < Old THEN presses[k] + 1 ELSE Old) \in 0..Old
      BY <2>1 DEF Old
    <2>3. QED
      BY <2>1, <2>2 DEF Tick, Types
  <1>2. Types'
    BY <1>1 DEF Tick, Types
  <1>3. Marked'
    <2>1. presses' = <<>> => presses = <<>>
      BY <1>1 DEF Types
    <2>2. QED
      BY <2>1 DEF Tick, Marked, Types
  <1>4. Old = Timeout + MaxLate + MinGap + 1 /\ Old \in Nat
    BY DEF Old
  <1>5. \A j, k \in DOMAIN presses : j < k => /\ presses'[j] >= presses'[k]
                                             /\ presses'[j] - presses'[k] <= presses[j] - presses[k]
    <2> SUFFICES ASSUME NEW j \in DOMAIN presses, NEW k \in DOMAIN presses, j < k
                 PROVE  /\ presses'[j] >= presses'[k]
                        /\ presses'[j] - presses'[k] <= presses[j] - presses[k]
      OBVIOUS
    <2>1. presses[j] >= presses[k] /\ presses[j] \in 0..Old /\ presses[k] \in 0..Old
      BY <1>1 DEF Ages
    <2>2. /\ presses'[j] = IF presses[j] < Old THEN presses[j] + 1 ELSE Old
          /\ presses'[k] = IF presses[k] < Old THEN presses[k] + 1 ELSE Old
      BY <1>1
    <2>3. QED
      BY <1>4, <2>1, <2>2
  <1>6. ASSUME NEW m \in 0..Len(presses), pc \in {"wait", "count"}, Close(m) /\ Recent(m)
        PROVE  /\ Close(m)' /\ Recent(m)'
               /\ \A j, k \in DOMAIN presses : j < k =>
                    (presses[j] - presses[k] > MinGap <=> presses'[j] - presses'[k] > MinGap)
    <2>1. Close(m)'
      <3>1. ASSUME NEW j \in DOMAIN presses', NEW k \in DOMAIN presses', j < k, k <= m
            PROVE  presses'[j] - presses'[k] <= MinGap
        <4>1. presses'[j] \in Nat /\ presses'[k] \in Nat /\ presses[j] \in Nat /\ presses[k] \in Nat
          BY <1>1, <1>4
        <4>2. presses'[j] - presses'[k] <= presses[j] - presses[k]
          BY <1>1, <1>5, <3>1
        <4>3. presses[j] - presses[k] <= MinGap
          BY <1>1, <1>6, <3>1 DEF Close
        <4>4. QED
          BY <4>1, <4>2, <4>3
      <3>2. QED
        BY <3>1 DEF Close
    <2>2. ASSUME NEW k \in DOMAIN presses, k > m
          PROVE  /\ presses'[k] <= Waited' /\ ~(pc' = "wait" /\ armed' = Off)
                 /\ presses'[k] <= Timeout + MaxLate
      <3>1. presses[k] <= Waited /\ ~(pc = "wait" /\ armed = Off) /\ presses[k] \in 0..Old
        BY <1>1, <1>6, <2>2 DEF Recent
      <3>2. pc' = pc /\ late \in 0..MaxLate /\ armed \in -1..Timeout /\ late' \in 0..MaxLate
        BY DEF Tick, Types
      <3>3. /\ ~(pc' = "wait" /\ armed' = Off)
            /\ Waited' = Waited + 1 /\ Waited \in Nat /\ Waited + 1 <= Timeout + MaxLate
        <4>1. CASE pc = "wait" /\ armed # 0
          <5>1. late = 0 /\ armed \in 1..Timeout /\ late' = late /\ armed' = armed - 1
            BY <3>1, <3>2, <4>1 DEF Tick, Marked
          <5>2. QED
            BY <3>2, <4>1, <5>1 DEF Waited
        <4>2. CASE pc = "wait" /\ armed = 0
          <5>1. late < MaxLate /\ late' = late + 1 /\ armed' = armed
            BY <4>2 DEF Tick
          <5>2. QED
            BY <3>2, <4>2, <5>1 DEF Waited
        <4>3. CASE pc = "count"
          <5>1. late < MaxLate /\ late' = late + 1
            BY <4>3 DEF Tick
          <5>2. QED
            BY <3>2, <4>3, <5>1 DEF Waited
        <4>4. QED
          BY <1>6, <4>1, <4>2, <4>3
      <3>4. presses'[k] <= presses[k] + 1
        BY <1>1, <1>4, <3>1
      <3>5. presses'[k] \in 0..Old /\ Timeout + MaxLate \in Nat
        BY <1>1
      <3>6. QED
        BY <3>1, <3>3, <3>4, <3>5, <1>4, SMTT(60)
    <2>3. ASSUME NEW j \in DOMAIN presses, NEW k \in DOMAIN presses, j < k
          PROVE  presses[j] - presses[k] > MinGap <=> presses'[j] - presses'[k] > MinGap
      <3>0. /\ presses[j] \in 0..Old /\ presses[k] \in 0..Old
            /\ presses'[j] \in 0..Old /\ presses'[k] \in 0..Old
        BY <1>1
      <3>1. CASE k <= m
        <4>1. presses[j] - presses[k] <= MinGap /\ presses'[j] - presses'[k] <= MinGap
          BY <1>1, <1>6, <2>1, <2>3, <3>1 DEF Close
        <4>2. QED
          BY <1>4, <3>0, <4>1, SMTT(60)
      <3>2. CASE k > m
        <4>1. presses'[k] <= Timeout + MaxLate
          BY <2>2, <3>2
        <4>2. /\ presses'[j] = IF presses[j] < Old THEN presses[j] + 1 ELSE Old
              /\ presses'[k] = IF presses[k] < Old THEN presses[k] + 1 ELSE Old
          BY <1>1
        <4>3. presses'[k] = presses[k] + 1
          BY <1>4, <3>0, <4>1, <4>2
        <4>4. CASE presses[j] < Old
          BY <1>4, <3>0, <4>2, <4>3, <4>4, SMTT(60)
        <4>5. CASE presses[j] = Old
          BY <1>4, <3>0, <4>1, <4>2, <4>3, <4>5
        <4>6. QED
          BY <1>4, <3>0, <4>4, <4>5
      <3>3. QED
        BY <1>1, <3>1, <3>2
    <2>4. Recent(m)'
      BY <1>1, <2>2 DEF Recent
    <2>5. QED
      BY <2>1, <2>3, <2>4
  <1>7. Ages'
    <2>1. pc' \in {"enable", "post"} => \A k \in DOMAIN presses' : presses'[k] <= late'
      BY <1>1 DEF Ages, Tick, Types
    <2>2. pc' = pc
      BY DEF Tick
    <2>3. pc' \in {"wait", "count"} => (\E m \in 0..Len(presses) : Close(m) /\ Recent(m))'
      BY <1>1, <1>6, <2>2 DEF Ages
    <2>4. QED
      BY <1>1, <1>5, <2>1, <2>2, <2>3 DEF Ages
  <1>8. Counting'
    <2> SUFFICES ASSUME pc = "count"
                 PROVE  Counting'
      BY DEF Counting, Tick
    <2>1. \A j, k \in DOMAIN presses : j < k =>
            (presses[j] - presses[k] > MinGap <=> presses'[j] - presses'[k] > MinGap)
      BY <1>6 DEF Ages
    <2> DEFINE n == i - 1
    <2>2. 1..n \subseteq DOMAIN presses /\ n \in Nat /\ Best(presses, n, count, last)
      BY <1>1 DEF Counting, Types
    <2>3. Best(presses', n, count, last)
      <3> HIDE DEF n
      <3>1. \A j, k \in 1..n :
              j < k => (presses[j] - presses[k] > MinGap <=> presses'[j] - presses'[k] > MinGap)
        BY <2>1, <2>2
      <3>2. QED
        BY <2>2, <3>1, BestAgain
    <2>4. QED
      BY <1>1, <2>3 DEF Counting, Tick
  <1>9. Counted'
    BY DEF Counted, Tick
  <1>10. QED
    BY <1>2, <1>3, <1>7, <1>8, <1>9

(* button_callback: each press that is looked at makes the count the best  *)
(* for one press more.                                                     *)
LEMMA CallbackKeeps ==
  ASSUME IInv, TimerTask
  PROVE  IInv'
  <1> USE ButtonAssumption DEF IInv, Off
  <1>0. /\ DOMAIN presses = 1..Len(presses) /\ Len(presses) \in Nat
        /\ \A k \in DOMAIN presses : presses[k] \in 0..Old
    BY SequenceOfAges DEF Types
  <1>1. CASE TimerExpires
    <2> USE <1>1 DEF TimerExpires
    <2>1. Types' /\ Marked' /\ Counted'
      BY DEF Types, Marked, Counted
    <2>2. PICK m \in 0..Len(presses) : Close(m) /\ Recent(m)
      BY DEF Ages
    <2>3. Close(m)' /\ Recent(m)'
      <3>1. Waited' = Waited
        BY DEF Waited, Types
      <3>2. QED
        BY <2>2, <3>1 DEF Close, Recent
    <2>4. Ages'
      BY <2>2, <2>3 DEF Ages
    <2>5. i' = 2 /\ last' = 1 /\ count' = 1 /\ Len(presses) >= 1
      BY <1>0 DEF Marked, Types
    <2>6. Best(presses, 1, 1, 1)
      BY BestFirst
    <2>7. Counting'
      BY <2>5, <2>6 DEF Counting
    <2>8. QED
      BY <2>1, <2>4, <2>7
  <1>2. CASE CountNext
    <2> USE <1>2 DEF CountNext
    <2>1. Types' /\ Marked' /\ Counted'
      BY DEF Types, Marked, Counted
    <2>2. PICK m \in 0..Len(presses) : Close(m) /\ Recent(m)
      BY DEF Ages
    <2>3. Close(m)' /\ Recent(m)'
      BY <2>2 DEF Close, Recent, Waited
    <2>4. Ages'
      BY <2>2, <2>3 DEF Ages
    <2> DEFINE n == i - 1
    <2>5. n \in Nat /\ i = n + 1 /\ last \in 1..n /\ count \in Nat /\ n + 1 <= Len(presses)
          /\ Best(presses, n, count, last)
      BY <1>0 DEF Counting
    <2>6. Older(presses, n + 1)
      <3> HIDE DEF n
      <3>1. \A k \in 1..(n + 1) : k \in DOMAIN presses
        BY <1>0, <2>5
      <3>2. \A k \in 1..(n + 1) : presses[k] \in Nat
        <4>1. 0..Old \subseteq Nat
          BY DEF Old
        <4>2. QED
          BY <1>0, <3>1, <4>1
      <3>3. \A j, k \in 1..(n + 1) : j < k => presses[j] >= presses[k]
        BY <3>1 DEF Ages
      <3>4. QED
        BY <3>2, <3>3 DEF Older
    <2>7. Best(presses, n + 1, count', last')
      <3> HIDE DEF n
      <3>1. CASE FollowsLastPress
        <4>1. count' = count + 1 /\ last' = n + 1 /\ presses[last] - presses[n + 1] > MinGap
          BY <2>5, <3>1 DEF FollowsLastPress
        <4>2. QED
          BY <2>5, <2>6, <4>1, BestTake
      <3>2. CASE ~FollowsLastPress
        <4>1. count' = count /\ last' = last /\ ~(presses[last] - presses[n + 1] > MinGap)
          BY <2>5, <3>2 DEF FollowsLastPress
        <4>2. QED
          BY <2>5, <2>6, <4>1, BestSkip
      <3>3. QED
        BY <3>1, <3>2
    <2>8. i' - 1 = n + 1 /\ i' \in 2..(Len(presses) + 1) /\ last' \in 1..(i' - 1) /\ count' \in Nat
      BY <1>0, <2>5, SMTT(60)
    <2>9. Counting'
      BY <2>7, <2>8 DEF Counting
    <2>10. QED
      BY <2>1, <2>4, <2>9
  <1>3. CASE CountDone
    <2> USE <1>3 DEF CountDone
    <2>1. Types' /\ Marked' /\ Counting'
      BY DEF Types, Marked, Counting
    <2>2. Ages'
      BY DEF Ages
    <2>3. i - 1 = Len(presses) /\ last \in Nat
      BY <1>0 DEF Counting
    <2>4. Counted'
      BY <2>3 DEF Counted, Counting, Types
    <2>5. QED
      BY <2>1, <2>2, <2>4
  <1>4. CASE ResetPresses
    <2> USE <1>4 DEF ResetPresses
    <2>1. presses' = <<>> /\ DOMAIN presses' = {}
      OBVIOUS
    <2>2. Types' /\ Marked' /\ Counting' /\ Counted'
      BY <2>1 DEF Types, Marked, Counting, Counted
    <2>3. Ages'
      BY <2>1 DEF Ages
    <2>4. QED
      BY <2>2, <2>3
  <1>5. CASE Enable
    <2> USE <1>5 DEF Enable
    <2>1. Types' /\ Marked' /\ Counting' /\ Counted'
      BY DEF Types, Marked, Counting, Counted
    <2>2. Ages'
      BY DEF Ages
    <2>3. QED
      BY <2>1, <2>2
  <1>6. CASE Post
    <2> USE <1>6 DEF Post
    <2>1. Types' /\ Marked' /\ Counting' /\ Counted'
      BY DEF Types, Marked, Counting, Counted
    <2>2. Close(Len(presses))'
      BY <1>0 DEF Ages, Close, Types
    <2>3. Recent(Len(presses))'
      BY <1>0 DEF Recent
    <2>4. Ages'
      <3>1. \E m \in 0..Len(presses') : Close(m)' /\ Recent(m)'
        BY <1>0, <2>2, <2>3
      <3>2. QED
        BY <3>1 DEF Ages
    <2>5. QED
      BY <2>1, <2>4
  <1>7. QED
    BY <1>1, <1>2, <1>3, <1>4, <1>5, <1>6 DEF TimerTask

LEMMA StepKeeps == IInv /\ [Next]_vars => IInv'
  <1>1. ASSUME IInv, UNCHANGED vars PROVE IInv'
    <2>1. Types' /\ Marked' /\ Counting' /\ Counted'
      BY <1>1 DEF IInv, vars, callback, Types, Marked, Counting, Counted
    <2>2. Ages'
      BY <1>1 DEF IInv, vars, callback, Ages, Close, Recent, Waited
    <2>3. QED
      BY <2>1, <2>2 DEF IInv
  <1>2. QED
    BY <1>1, IsrKeeps, TickKeeps, CallbackKeeps DEF Next

LEMMA Invariance == Spec => []IInv
  BY InitIInv, StepKeeps, PTL DEF Spec

-----------------------------------------------------------------------------

(* The button can always be pressed again: button_isr marks the timer as   *)
(* started only when it starts it, and the callback clears the mark.       *)
THEOREM ButtonIsNotDeaf == Spec => []NotDeaf
  <1>1. IInv => NotDeaf
    BY DEF IInv, Types, Marked, NotDeaf
  <1>2. QED
    BY <1>1, Invariance, PTL

(* An event reports the largest number of presses that lie far enough      *)
(* apart, whenever presses are added and however old they get meanwhile.   *)
THEOREM ButtonCountIsRight == Spec => []CountIsRight
  <1>1. IInv => CountIsRight
    <2> SUFFICES ASSUME IInv, pc \in {"reset", "enable", "post"}
                 PROVE  count = Max({Cardinality(S) : S \in {T \in SUBSET DOMAIN frame : Spaced(T)}})
      BY DEF CountIsRight
    <2>1. PICK l \in Nat : Best(frame, Len(frame), count, l)
      BY DEF IInv, Counted
    <2>2. Len(frame) \in Nat /\ DOMAIN frame = 1..Len(frame) /\ count \in Nat
      BY DEF IInv, Counted
    <2> DEFINE All == {Cardinality(S) : S \in {T \in SUBSET DOMAIN frame : Spaced(T)}}
    <2>3. count \in All
      BY <2>1, <2>2 DEF Best, Chosen, Apart, Spaced
    <2>4. \A c \in All : c \in Nat /\ count >= c
      BY <2>1, <2>2, Finite DEF Best, Greatest, Apart, Spaced
    <2>5. \A c \in All : (\A d \in All : c >= d) => c = count
      BY <2>2, <2>3, <2>4
    <2>6. QED
      BY <2>3, <2>4, <2>5 DEF Max
  <1>2. QED
    BY <1>1, Invariance, PTL
=============================================================================
