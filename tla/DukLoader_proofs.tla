-------------------------- MODULE DukLoader_proofs --------------------------
(***************************************************************************)
(* Theorems about DukLoader, for any heap, any files, any of them broken,  *)
(* and either or both of the tasks that set the file to load.              *)
(***************************************************************************)
EXTENDS DukLoader, TLAPS

Types ==
  /\ pc \in InDukInit \cup {"running"}
  /\ heap \in [Address -> File \cup {Null}]
  /\ loadFile \in Address \cup {Null}
  /\ loadName \in Address \cup LoadFiles \cup {Null}
  /\ setter \in [Setters -> [at : {"idle", "test", "free", "store"},
                             fname : Address \cup {Null}]]
  /\ sets \in 0..2
  /\ wanted \in File \cup {Null}

Busy(s) == s \in Setters /\ setter[s].at # "idle"

(* Without a race one task at a time is in duk_main_set_load_file, and none *)
(* while duk_init has to do with the file.                                 *)
OneCall ==
  /\ Busy("script") => pc \in {"OnStart", "running"} /\ ~Busy("web")
  /\ Busy("web") => pc \in {"running", "zero"}

(* g->load_file dangles between free() and the assignment that follows it, *)
Dangling ==
  \/ pc \in {"nullFailed", "nullLoaded"}
  \/ \E s \in Setters : setter[s].at = "store"

(* and then only; a name on its way to it has a block of its own; a block  *)
(* that nobody points to is free; and duk_init opens no other block.       *)
Blocks ==
  /\ loadFile # Null => (heap[loadFile] = Null <=> Dangling)
  /\ \A s \in Setters :
       /\ setter[s].at = "idle" => setter[s].fname = Null
       /\ setter[s].fname # Null => /\ heap[setter[s].fname] # Null
                                    /\ setter[s].fname # loadFile
  /\ \A a \in Address : heap[a] # Null => a \in Reachable
  /\ pc = "open" /\ loadName \in Address => loadName = loadFile

(* What duk_init loads, or has loaded, has an address as long as g->load_file *)
(* was not set; set once, it has another one.                              *)
Loading == pc \in {"open", "OnStart", "failed", "loaded"}

Compared ==
  /\ Loading => loadName # Null
  /\ Loading /\ loadName \in Address =>
       /\ sets = 0 => loadFile = loadName /\ (pc # "open" => wanted = Null)
       /\ sets = 1 => loadFile # loadName
  /\ ~Loading => loadName = Null
  /\ pc \in {"freeFailed", "freeLoaded"} => wanted = Null \/ sets = 2
  /\ pc \in {"nullFailed", "nullLoaded"} => wanted = Null

Wanted ==
  NoCall /\ wanted # Null /\ pc \notin {"freeFailed", "freeLoaded"} =>
    loadFile # Null /\ heap[loadFile] = wanted

Inv == Types /\ OneCall /\ Blocks /\ Compared /\ Wanted

(* Nothing is claimed of what comes after a race. *)
IInv == ~raced => Inv

-----------------------------------------------------------------------------

LEMMA InitIInv == Init => IInv
  BY DistinctNames
  DEF Init, IInv, Inv, Types, InDukInit, File, LoadFiles, Idle, OneCall, Busy, Blocks, Dangling,
      Reachable, Loading, Compared, Wanted, NoCall

(* A step without a race leaves at most one task in a call. *)
LEMMA NoRace ==
  ASSUME ~Race'
  PROVE  Busy("web")' => pc' \in {"running", "zero"} /\ ~Busy("script")'
  BY DEF Race, InCall, Busy

(* What a task may find at duk_main_set_load_file: nobody else is there.   *)
LEMMA Alone ==
  ASSUME Types, OneCall, NEW s \in Setters, NEW t \in Setters, Busy(s), Busy(t)
  PROVE  s = t
  <1>1. s \in {"script", "web"} /\ t \in {"script", "web"}
    BY DistinctNames
  <1>2. QED
    BY <1>1 DEF OneCall

(* Outside of calls nothing dangles but between the two steps of duk_init. *)
LEMMA IdleHeap ==
  ASSUME Inv, ~Busy("script"), ~Busy("web")
  PROVE  /\ NoCall
         /\ \A s \in Setters : setter[s].fname = Null
         /\ Dangling <=> pc \in {"nullFailed", "nullLoaded"}
         /\ \A a \in Address : heap[a] # Null => a = loadFile
  <1>1. \A s \in Setters : setter[s].at = "idle"
    BY DistinctNames DEF Busy
  <1>2. \A s \in Setters : setter[s].fname = Null
    BY <1>1 DEF Inv, Blocks
  <1>3. QED
    BY <1>1, <1>2, DistinctNames DEF Inv, Blocks, NoCall, Dangling, Reachable

(* The steps of duktape_task. *)
LEMMA DukStepKeeps ==
  ASSUME Inv, DukStep \/ RequestReset, ~Race'
  PROVE  Inv'
  <1> USE DistinctNames DEF local, history, InDukInit
  <1>0. /\ setter' = setter
        /\ \A s : Busy(s)' <=> Busy(s)
        /\ NoCall' <=> NoCall
    BY DEF DukStep, RequestReset, Restart, Zero, LoadName, Open, OnStartDone, LoadFailed,
           LoadWorked, FreeLoadFile, ForgetLoadFile, Go, Busy, NoCall
  <1>1. OneCall'
    <2>1. Busy("web")' => pc' \in {"running", "zero"} /\ ~Busy("script")'
      BY NoRace
    <2>2. Busy("script")' => pc' \in {"OnStart", "running"}
      <3>1. Busy("script") => pc \in {"OnStart", "running"} /\ InCall
        BY DEF Inv, OneCall, Busy, InCall
      <3>2. QED
        BY <1>0, <3>1
        DEF DukStep, RequestReset, Restart, Zero, LoadName, Open, OnStartDone, LoadFailed,
            LoadWorked, FreeLoadFile, ForgetLoadFile, Go
    <2>3. QED
      BY <2>1, <2>2 DEF OneCall
  <1>2. CASE RequestReset \/ Restart \/ Zero
    <2>1. /\ UNCHANGED <<heap, loadFile, loadName, setter, wanted, sets>>
          /\ pc' \in {pc, "zero", "name"} /\ pc' \in InDukInit \cup {"running"}
          /\ pc' # pc => pc \in {"running", "zero"}
      BY <1>2 DEF RequestReset, Restart, Zero, Go, Inv, Types
    <2>2. Types' /\ Blocks' /\ Compared'
      BY <2>1 DEF Inv, Types, Blocks, Compared, Loading, Dangling, Reachable
    <2>3. Wanted'
      BY <1>0, <2>1 DEF Inv, Wanted
    <2>4. QED
      BY <1>1, <2>2, <2>3 DEF Inv
  <1>3. CASE LoadName
    <2>1. /\ UNCHANGED <<heap, loadFile, setter, wanted>> /\ pc = "name" /\ pc' = "open"
          /\ sets' = 0 /\ (loadFile # Null => loadName' = loadFile)
          /\ loadFile = Null => loadName' \in LoadFiles
      BY <1>3 DEF LoadName, Go, LoadFiles
    <2>2. Types'
      BY <2>1 DEF Inv, Types
    <2>3. Blocks'
      BY <2>1 DEF Inv, Blocks, Dangling, Reachable, Types
    <2>4. Compared'
      BY <2>1 DEF Inv, Compared, Loading, Types, File
    <2>5. Wanted'
      BY <1>0, <2>1 DEF Inv, Wanted
    <2>6. QED
      BY <1>1, <2>2, <2>3, <2>4, <2>5 DEF Inv
  <1>4. CASE Open
    <2>1. /\ UNCHANGED <<heap, loadFile, loadName, setter, sets>>
          /\ pc = "open" /\ pc' = "OnStart"
          /\ wanted' = (IF loadName = loadFile THEN Null ELSE wanted)
      BY <1>4 DEF Open, Go
    <2>2. Types'
      BY <2>1 DEF Inv, Types
    <2>3. Blocks'
      BY <2>1 DEF Inv, Blocks, Dangling, Reachable
    <2>4. Compared'
      BY <2>1 DEF Inv, Compared, Loading
    <2>5. Wanted'
      BY <1>0, <2>1 DEF Inv, Wanted
    <2>6. QED
      BY <1>1, <2>2, <2>3, <2>4, <2>5 DEF Inv
  <1>5. CASE OnStartDone
    <2>1. /\ UNCHANGED <<heap, loadFile, loadName, setter, sets, wanted>>
          /\ pc = "OnStart" /\ pc' \in {"failed", "loaded"}
      BY <1>5 DEF OnStartDone, Go
    <2>2. Types'
      BY <2>1 DEF Inv, Types
    <2>3. Blocks'
      BY <2>1 DEF Inv, Blocks, Dangling, Reachable
    <2>4. Compared'
      BY <2>1 DEF Inv, Compared, Loading
    <2>5. Wanted'
      BY <1>0, <2>1 DEF Inv, Wanted
    <2>6. QED
      BY <1>1, <2>2, <2>3, <2>4, <2>5 DEF Inv
  <1>6. CASE LoadFailed \/ LoadWorked
    <2>1. /\ UNCHANGED <<heap, loadFile, setter, sets, wanted>> /\ loadName' = Null
          /\ pc \in {"failed", "loaded"}
          /\ pc' \in {"freeFailed", "freeLoaded", "zero", "running"}
          /\ pc' \in {"freeFailed", "freeLoaded"} => loadFile = loadName
      BY <1>6 DEF LoadFailed, LoadWorked, Go
    <2>2. Types'
      BY <2>1 DEF Inv, Types
    <2>3. Blocks'
      BY <2>1 DEF Inv, Blocks, Dangling, Reachable
    <2>4. Compared'
      <3>1. loadFile = loadName => wanted = Null \/ sets = 2
        BY <2>1 DEF Inv, Compared, Loading, Types
      <3>2. QED
        BY <2>1, <3>1 DEF Compared, Loading
    <2>5. Wanted'
      BY <1>0, <2>1 DEF Inv, Wanted
    <2>6. QED
      BY <1>1, <2>2, <2>3, <2>4, <2>5 DEF Inv
  <1>7. CASE FreeLoadFile
    <2>1. /\ UNCHANGED <<loadFile, loadName, setter, sets>>
          /\ heap' = (IF loadFile = Null THEN heap ELSE [heap EXCEPT ![loadFile] = Null])
          /\ pc \in {"freeFailed", "freeLoaded"} /\ pc' \in {"nullFailed", "nullLoaded"}
          /\ wanted' = (IF sets = 2 THEN Null ELSE wanted)
      BY <1>7 DEF FreeLoadFile, Go, Free
    <2>2. Types'
      BY <2>1 DEF Inv, Types
    <2>3. ~Busy("script") /\ ~Busy("web")
      BY <2>1 DEF Inv, OneCall
    <2>4. /\ \A s \in Setters : setter[s].fname = Null
          /\ \A a \in Address : heap[a] # Null => a = loadFile
      BY <2>3, IdleHeap
    <2>5. /\ loadFile # Null => heap'[loadFile] = Null
          /\ \A a \in Address : heap'[a] = Null
      BY <2>1, <2>4 DEF Inv, Types
    <2>6. Blocks'
      BY <2>1, <2>4, <2>5 DEF Inv, Blocks, Dangling
    <2>7. Compared' /\ wanted' = Null
      BY <2>1 DEF Inv, Compared, Loading
    <2>8. QED
      BY <1>1, <2>2, <2>6, <2>7 DEF Inv, Wanted
  <1>8. CASE ForgetLoadFile
    <2>1. /\ UNCHANGED <<heap, loadName, setter, sets, wanted>> /\ loadFile' = Null
          /\ pc \in {"nullFailed", "nullLoaded"} /\ pc' \in {"zero", "running"}
      BY <1>8 DEF ForgetLoadFile, Go
    <2>2. Types'
      BY <2>1 DEF Inv, Types
    <2>3. ~Busy("script") /\ ~Busy("web")
      BY <2>1 DEF Inv, OneCall
    <2>4. /\ \A s \in Setters : setter[s].fname = Null
          /\ \A a \in Address : heap[a] # Null => a = loadFile
          /\ Dangling
      BY <2>1, <2>3, IdleHeap
    <2>5. \A a \in Address : heap[a] = Null
      BY <2>4 DEF Inv, Blocks
    <2>6. Blocks'
      BY <2>1, <2>4, <2>5 DEF Inv, Blocks
    <2>7. Compared' /\ wanted' = Null
      BY <2>1 DEF Inv, Compared, Loading
    <2>8. QED
      BY <1>1, <2>2, <2>6, <2>7 DEF Inv, Wanted
  <1>9. QED
    BY <1>2, <1>3, <1>4, <1>5, <1>6, <1>7, <1>8 DEF DukStep

(* The steps of duk_main_set_load_file, in either task. *)
LEMMA SetCallKeeps ==
  ASSUME Inv, NEW s \in Setters, SetCall(s), ~Race'
  PROVE  Inv'
  <1> USE DistinctNames DEF local, history
  <1>1. /\ UNCHANGED <<pc, loadName, app, wanted, sets, loadFile>>
        /\ setter[s].at = "idle" /\ s \in {"script", "web"}
    BY DEF SetCall
  <1>2. PICK fname \in Address \cup {Null} :
          /\ setter' = [setter EXCEPT ![s] = [at |-> "test", fname |-> fname]]
          /\ \/ fname = Null /\ heap' = heap
             \/ /\ fname # Null /\ heap[fname] = Null
                /\ \E f \in Apps : heap' = [heap EXCEPT ![fname] = f]
    BY DEF SetCall
  <1>3. /\ setter'[s].at = "test" /\ setter'[s].fname = fname
        /\ \A t \in Setters : t # s => setter'[t] = setter[t]
    BY <1>2 DEF Inv, Types
  <1>4. Busy(s)' /\ ~Busy(s)
    BY <1>1, <1>3 DEF Busy
  <1>5. ~Busy("script") /\ ~Busy("web")
    BY <1>1, <1>3, <1>4, NoRace DEF Busy
  <1>6. pc \in {"OnStart", "running", "zero"} /\ (s = "script" => pc \in {"OnStart", "running"})
    BY <1>1, <1>4, NoRace DEF SetCall, CanSet
  <1>7. /\ \A t \in Setters : setter[t].fname = Null /\ setter[t].at = "idle"
        /\ ~Dangling
        /\ \A a \in Address : heap[a] # Null => a = loadFile
    BY <1>5, <1>6, IdleHeap DEF NoCall
  <1>8. loadFile # Null => heap[loadFile] # Null
    BY <1>7 DEF Inv, Blocks
  <1>9. Types'
    BY <1>1, <1>2 DEF Inv, Types, File
  <1>10. OneCall'
    BY <1>1, <1>4, <1>6, NoRace DEF OneCall, Busy
  <1>11. Blocks'
    <2>1. /\ fname # loadFile \/ fname = Null
          /\ fname # Null => heap'[fname] # Null
          /\ \A a \in Address : a # fname => heap'[a] = heap[a]
      BY <1>2, <1>8 DEF Inv, Types, File
    <2>2. ~Dangling'
      BY <1>1, <1>3, <1>6, <1>7 DEF Dangling
    <2>3. loadFile # Null => heap'[loadFile] # Null
      BY <1>8, <2>1 DEF Inv, Types
    <2>4. \A t \in Setters :
            /\ setter'[t].at = "idle" => setter'[t].fname = Null
            /\ setter'[t].fname # Null => /\ heap'[setter'[t].fname] # Null
                                          /\ setter'[t].fname # loadFile
      BY <1>3, <1>7, <2>1
    <2>5. \A a \in Address : heap'[a] # Null => a = loadFile \/ a = setter'[s].fname
      BY <1>3, <1>7, <2>1
    <2>6. QED
      BY <1>1, <1>6, <2>2, <2>3, <2>4, <2>5 DEF Blocks, Reachable
  <1>12. Compared'
    BY <1>1 DEF Inv, Compared, Loading
  <1>13. Wanted'
    BY <1>3 DEF Wanted, NoCall
  <1>14. QED
    BY <1>9, <1>10, <1>11, <1>12, <1>13 DEF Inv

LEMMA SetStepKeeps ==
  ASSUME Inv, NEW s \in Setters, SetStep(s), ~Race'
  PROVE  Inv'
  <1> USE DistinctNames DEF local, history
  <1>1. /\ UNCHANGED <<pc, loadName, app>> /\ Busy(s) /\ s \in {"script", "web"}
    BY DEF SetStep, SetTest, SetFree, SetStore, Busy
  <1>2. /\ \A t \in Setters : t # s => setter[t].at = "idle" /\ setter[t].fname = Null
        /\ pc \in {"OnStart", "running", "zero"}
        /\ setter[s] \in [at : {"idle", "test", "free", "store"}, fname : Address \cup {Null}]
    <2>1. \A t \in Setters : t # s => ~Busy(t)
      BY <1>1, Alone DEF Inv
    <2>2. QED
      BY <1>1, <2>1 DEF Inv, Blocks, OneCall, Busy, Types
  <1>3. OneCall'
    <2>1. \A t \in {"script", "web"} : Busy(t)' => Busy(t)
      BY <1>1, <1>2 DEF SetStep, SetTest, SetFree, SetStore, Busy, Inv, Types, Idle
    <2>2. QED
      BY <1>1, <2>1 DEF Inv, OneCall
  <1>4. /\ setter[s].fname # Null => heap[setter[s].fname] # Null /\ setter[s].fname # loadFile
        /\ \A a \in Address : heap[a] # Null => a = loadFile \/ a = setter[s].fname
        /\ loadFile # Null => (heap[loadFile] = Null <=> setter[s].at = "store")
    <2>1. Dangling <=> setter[s].at = "store"
      BY <1>2 DEF Dangling
    <2>2. QED
      BY <1>2, <2>1 DEF Inv, Blocks, Reachable
  <1>5. CASE SetTest(s) \/ SetFree(s)
    <2>1. /\ UNCHANGED <<loadFile, sets, wanted>>
          /\ \E at \in {"free", "store"} : setter' = [setter EXCEPT ![s].at = at]
          /\ setter'[s].at = "free" => setter[s].at = "test" /\ heap' = heap
          /\ setter'[s].at = "store" =>
               \/ heap' = heap /\ loadFile = Null
               \/ loadFile # Null /\ heap' = [heap EXCEPT ![loadFile] = Null]
      BY <1>5 DEF SetTest, SetFree, Free, Inv, Types
    <2>2. /\ \A t \in Setters : t # s => setter'[t] = setter[t]
          /\ setter'[s].fname = setter[s].fname /\ setter'[s].at \in {"free", "store"}
      BY <2>1 DEF Inv, Types
    <2>3. Types'
      BY <1>1, <2>1 DEF Inv, Types
    <2>4. Dangling' <=> setter'[s].at = "store"
      BY <1>1, <1>2, <2>2 DEF Dangling
    <2>5. /\ loadFile # Null => (heap'[loadFile] = Null <=> setter'[s].at = "store")
          /\ \A a \in Address : a # loadFile => heap'[a] = heap[a]
          /\ \A a \in Address : heap'[a] # Null => heap[a] # Null
      BY <1>4, <2>1, <2>2 DEF Inv, Types
    <2>6. \A t \in Setters :
            /\ setter'[t].at = "idle" => setter'[t].fname = Null
            /\ setter'[t].fname # Null => /\ heap'[setter'[t].fname] # Null
                                          /\ setter'[t].fname # loadFile
      BY <1>2, <1>4, <2>2, <2>5
    <2>7. \A a \in Address : heap'[a] # Null => a = loadFile \/ a = setter'[s].fname
      BY <1>4, <2>2, <2>5
    <2>8. Blocks'
      BY <1>1, <1>2, <2>1, <2>4, <2>5, <2>6, <2>7 DEF Blocks, Reachable
    <2>9. Compared'
      BY <1>1, <2>1 DEF Inv, Compared, Loading
    <2>10. Wanted'
      BY <2>2 DEF Wanted, NoCall
    <2>11. QED
      BY <1>3, <2>3, <2>8, <2>9, <2>10 DEF Inv
  <1>6. CASE SetStore(s)
    <2>1. /\ heap' = heap /\ loadFile' = setter[s].fname /\ setter[s].at = "store"
          /\ setter' = [setter EXCEPT ![s] = [at |-> "idle", fname |-> Null]]
          /\ wanted' = (IF loadFile' = Null THEN Null ELSE heap[loadFile'])
          /\ sets' = (IF loadName \in Address /\ sets < 2 THEN sets + 1 ELSE sets)
      BY <1>6 DEF SetStore, Idle
    <2>2. \A t \in Setters : setter'[t].at = "idle" /\ setter'[t].fname = Null
      BY <1>2, <2>1 DEF Inv, Types
    <2>3. Types'
      <3>1. sets' \in 0..2
        BY <2>1 DEF Inv, Types
      <3>2. loadFile' \in Address \cup {Null} /\ wanted' \in File \cup {Null}
        BY <1>2, <2>1 DEF Inv, Types
      <3>3. QED
        BY <1>1, <2>1, <3>1, <3>2 DEF Inv, Types
    <2>4. ~Dangling'
      BY <1>1, <1>2, <2>2 DEF Dangling
    <2>5. /\ loadFile' # Null => heap'[loadFile'] # Null
          /\ \A a \in Address : heap'[a] # Null => a = loadFile'
      BY <1>4, <2>1
    <2>6. Blocks'
      BY <1>1, <1>2, <2>2, <2>4, <2>5 DEF Blocks, Reachable
    <2>7. Compared'
      <3>1. /\ pc' = pc /\ loadName' = loadName
            /\ loadName \in Address => (sets = 0 /\ sets' = 1) \/ (sets \in 1..2 /\ sets' = 2)
        BY <1>1, <2>1 DEF Inv, Types
      <3>2. Loading /\ loadName \in Address /\ sets' = 1 => loadFile' # loadName
        <4>1. Loading /\ loadName \in Address /\ sets' = 1 => loadFile = loadName
          BY <3>1 DEF Inv, Compared
        <4>2. QED
          BY <1>4, <2>1, <4>1
      <3>3. QED
        BY <1>2, <3>1, <3>2 DEF Inv, Compared, Loading
    <2>8. Wanted'
      BY <2>1, <2>5 DEF Wanted
    <2>9. QED
      BY <1>3, <2>3, <2>6, <2>7, <2>8 DEF Inv
  <1>7. QED
    BY <1>5, <1>6 DEF SetStep

LEMMA StepKeeps == IInv /\ [Next]_vars => IInv'
  <1> SUFFICES ASSUME IInv, [Next]_vars, ~raced'
               PROVE  Inv'
    BY DEF IInv
  <1>1. CASE UNCHANGED vars
    BY <1>1
    DEF vars, IInv, Inv, Types, OneCall, Busy, Blocks, Dangling, Reachable, Compared, Loading,
        Wanted, NoCall
  <1>2. CASE Step(DukStep) \/ Step(RequestReset)
    <2>1. Inv /\ ~Race'
      BY <1>2 DEF Step, IInv
    <2>2. QED
      BY <1>2, <2>1, DukStepKeeps DEF Step
  <1>3. ASSUME NEW s \in Setters, Step(SetCall(s) \/ SetStep(s))
        PROVE  Inv'
    <2>1. Inv /\ ~Race'
      BY <1>3 DEF Step, IInv
    <2>2. QED
      BY <1>3, <2>1, SetCallKeeps, SetStepKeeps DEF Step
  <1>4. CASE raced /\ UNCHANGED vars
    BY <1>4 DEF vars
  <1>5. QED
    BY <1>1, <1>2, <1>3, <1>4 DEF Next

LEMMA Invariance == Spec => []IInv
  BY InitIInv, StepKeeps, PTL DEF Spec

(* The block of the name is freed once, opened while it is allocated, and  *)
(* never lost, whoever sets the file while another one is loaded, run or   *)
(* given up, and wherever the allocator puts the names.                    *)
THEOREM HeapIsSound == Spec => []HeapSound
  <1>1. IInv => HeapSound
    <2> SUFFICES ASSUME Inv
                 PROVE  /\ Freeing /\ loadFile # Null => heap[loadFile] # Null
                        /\ Opening => heap[loadName] # Null
                        /\ \A a \in Address : heap[a] # Null => a \in Reachable
      BY DEF IInv, HeapSound
    <2>1. Freeing => ~Dangling
      <3>1. ASSUME pc \in {"freeFailed", "freeLoaded"}
            PROVE  ~Dangling
        <4>1. ~Busy("script") /\ ~Busy("web")
          BY <3>1 DEF Inv, OneCall
        <4>2. QED
          BY <3>1, <4>1, IdleHeap
      <3>2. ASSUME NEW s \in Setters, setter[s].at = "free"
            PROVE  ~Dangling
        <4>1. Busy(s) /\ s \in {"script", "web"}
          BY <3>2, DistinctNames DEF Busy
        <4>2. \A t \in Setters : setter[t].at # "store"
          <5>1. ASSUME NEW t \in Setters, setter[t].at = "store" PROVE FALSE
            <6>1. Busy(t)
              BY <5>1 DEF Busy
            <6>2. s = t
              BY <4>1, <6>1, Alone DEF Inv
            <6>3. QED
              BY <3>2, <5>1, <6>2
          <5>2. QED
            BY <5>1
        <4>3. pc \notin {"nullFailed", "nullLoaded"}
          BY <4>1 DEF Inv, OneCall
        <4>4. QED
          BY <4>2, <4>3 DEF Dangling
      <3>3. QED
        BY <3>1, <3>2 DEF Freeing
    <2>2. Opening => heap[loadName] # Null
      <3>1. SUFFICES ASSUME Opening PROVE heap[loadName] # Null
        OBVIOUS
      <3>2. pc = "open" /\ loadName \in Address /\ loadName = loadFile
        BY <3>1 DEF Opening, Inv, Blocks
      <3>3. ~Busy("script") /\ ~Busy("web")
        BY <3>2 DEF Inv, OneCall
      <3>4. ~Dangling
        BY <3>2, <3>3, IdleHeap
      <3>5. QED
        BY <3>2, <3>4, DistinctNames DEF Inv, Blocks
    <2>3. QED
      BY <2>1, <2>2 DEF Inv, Blocks
  <1>2. QED
    BY <1>1, Invariance, PTL

(* The file that was set last is the one that will be loaded next, though  *)
(* it may have been set while another one was being loaded.                *)
THEOREM LastSetIsLoaded == Spec => []LastSetWins
  <1>1. IInv => LastSetWins
    BY DEF IInv, Inv, Wanted, LastSetWins
  <1>2. QED
    BY <1>1, Invariance, PTL
=============================================================================
