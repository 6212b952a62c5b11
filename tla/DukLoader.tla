------------------------------ MODULE DukLoader ------------------------------
(***************************************************************************)
(* Which application duk_init loads (main/duk_main.c), and the life of the *)
(* heap block that holds the name of the file to load.                     *)
(*                                                                         *)
(* The name is set by Platform.setLoadFileName, called by a script in      *)
(* duktape_task, and by the web server's task on /control?setload=; both   *)
(* end in duk_main_set_load_file, without a lock.  duk_init, meanwhile,    *)
(* works on a copy of the pointer.  A step below is what no other task can *)
(* cut in two: one access to g->load_file, or one call of the allocator.   *)
(* Events and timers are left to DukMain.                                  *)
(***************************************************************************)
EXTENDS Naturals, FiniteSets

CONSTANTS
  Address,   \* where strdup may put a name
  Apps,      \* the files, besides the two of load_files, that can be set
  Setters,   \* the tasks that set the file: "script", "web" or both
  Null

LoadFiles == {"main.js", "recovery.js"}
File == LoadFiles \cup Apps

ASSUME DistinctNames ==
  /\ Null \notin Address \cup File
  /\ Address \cap LoadFiles = {}
  /\ Apps \cap LoadFiles = {}
  /\ Setters \subseteq {"script", "web"}

VARIABLES
  pc,         \* where duktape_task is
  reset,      \* g->reset
  heap,       \* what a block holds: a file name, or Null if it is free
  loadFile,   \* g->load_file
  loadIndex,  \* g->load_index
  loadName,   \* the local load_name of duk_init
  app,        \* the file being evaluated
  setter,     \* each setter's place in duk_main_set_load_file, and its fname
  broken,     \* the files that cannot be run
  wanted,     \* history: the file set last and not opened since
  sets,       \* history: how often a file was set while load_name pointed to a block
  raced       \* history: see Race

local == <<pc, loadName, app>>
history == <<wanted, sets>>
vars == <<pc, reset, heap, loadFile, loadIndex, loadName, app, setter, broken,
          wanted, sets, raced>>

InDukInit == {"zero", "name", "open", "OnStart", "failed", "loaded",
              "freeFailed", "freeLoaded", "nullFailed", "nullLoaded"}

Idle == [at |-> "idle", fname |-> Null]

Init ==
  /\ pc = "zero"       \* duktape_task has set g->reset and called duk_init
  /\ reset = TRUE
  /\ heap = [a \in Address |-> Null]
  /\ loadFile = Null
  /\ loadIndex = 0
  /\ loadName = Null
  /\ app = Null
  /\ setter = [s \in Setters |-> Idle]
  /\ broken \in SUBSET File
  /\ wanted = Null
  /\ sets = 0
  /\ raced = FALSE

(* free(a), of a block or of NULL. *)
Free(a) == heap' = IF a = Null THEN heap ELSE [heap EXCEPT ![a] = Null]

-----------------------------------------------------------------------------
(* duk_main_set_load_file                                                  *)

(* A script runs in duktape_task: in OnStart, or in the event loop. *)
CanSet(s) == s = "script" => pc \in {"OnStart", "running"}

(* The argument: strdup of a file name, or NULL if a script passes ''. *)
SetCall(s) ==
  /\ setter[s].at = "idle"
  /\ CanSet(s)
  /\ \/ \E a \in Address, f \in Apps :
          /\ heap[a] = Null
          /\ heap' = [heap EXCEPT ![a] = f]
          /\ setter' = [setter EXCEPT ![s] = [at |-> "test", fname |-> a]]
     \/ /\ s = "script"
        /\ setter' = [setter EXCEPT ![s] = [at |-> "test", fname |-> Null]]
        /\ UNCHANGED heap
  /\ UNCHANGED <<local, history, reset, loadFile, loadIndex, broken>>

(* if (g->load_file) *)
SetTest(s) ==
  /\ setter[s].at = "test"
  /\ setter' = [setter EXCEPT ![s].at = IF loadFile = Null THEN "store" ELSE "free"]
  /\ UNCHANGED <<local, history, reset, heap, loadFile, loadIndex, broken>>

(* free(g->load_file) *)
SetFree(s) ==
  /\ setter[s].at = "free"
  /\ Free(loadFile)
  /\ setter' = [setter EXCEPT ![s].at = "store"]
  /\ UNCHANGED <<local, history, reset, loadFile, loadIndex, broken>>

(* g->load_file = fname, which makes the NULL stored before it invisible. *)
SetStore(s) ==
  /\ setter[s].at = "store"
  /\ loadFile' = setter[s].fname
  /\ setter' = [setter EXCEPT ![s] = Idle]
  /\ wanted' = IF loadFile' = Null THEN Null ELSE heap[loadFile']
  /\ sets' = IF loadName \in Address /\ sets < 2 THEN sets + 1 ELSE sets
  /\ UNCHANGED <<local, reset, heap, loadIndex, broken>>

-----------------------------------------------------------------------------
(* duktape_task                                                            *)

(* Nothing else happens in duktape_task while a script is in a call. *)
InCall == "script" \in Setters /\ setter["script"].at # "idle"

Go(from, to) == pc = from /\ pc' = to

(* The event loop ends when g->reset is seen: duk_init. *)
Restart ==
  /\ reset
  /\ ~InCall
  /\ Go("running", "zero")
  /\ UNCHANGED <<history, reset, heap, loadFile, loadIndex, loadName, app, setter, broken>>

(* Platform.reset of a script, or CMD_RESET. *)
RequestReset ==
  /\ reset' = TRUE
  /\ UNCHANGED <<local, history, heap, loadFile, loadIndex, setter, broken>>

Zero ==
  /\ Go("zero", "name")
  /\ reset' = FALSE
  /\ UNCHANGED <<history, heap, loadFile, loadIndex, loadName, app, setter, broken>>

(* load_name = g->load_file, or a name from load_files. *)
LoadName ==
  /\ Go("name", "open")
  /\ loadName' = IF loadFile # Null THEN loadFile
                 ELSE IF loadIndex = 0 THEN "main.js" ELSE "recovery.js"
  /\ sets' = 0
  /\ UNCHANGED <<wanted, reset, heap, loadFile, loadIndex, app, setter, broken>>

(* fopen(load_name): the block may have been freed since, and then holds   *)
(* what is left of some name.                                              *)
Open ==
  /\ Go("open", "OnStart")
  /\ app' \in IF loadName \in LoadFiles THEN {loadName}
              ELSE IF heap[loadName] # Null THEN {heap[loadName]}
              ELSE Apps
  /\ wanted' = IF loadName = loadFile THEN Null ELSE wanted
  /\ UNCHANGED <<sets, reset, heap, loadFile, loadIndex, loadName, setter, broken>>

(* duk_util_load_and_run returns, having evaluated the file and OnStart(). *)
OnStartDone ==
  /\ ~InCall
  /\ Go("OnStart", IF app \in broken THEN "failed" ELSE "loaded")
  /\ app' = Null
  /\ UNCHANGED <<history, reset, heap, loadFile, loadIndex, loadName, setter, broken>>

(* Fault: a file that cannot be run is kept as the file to load. *)
LoadFailedKeepsFile ==
  /\ loadIndex' = (loadIndex + 1) % 2
  /\ Go("failed", "zero")
  /\ loadName' = Null
  /\ UNCHANGED <<history, reset, heap, loadFile, app, setter, broken>>

(* Fault: g->load_file is freed without comparing it with load_name. *)
LoadWorkedNoCompare ==
  /\ loadIndex' = 0
  /\ Go("loaded", "freeLoaded")
  /\ loadName' = Null
  /\ UNCHANGED <<history, reset, heap, loadFile, app, setter, broken>>

(* load_index is advanced or rewound, and g->load_file compared with       *)
(* load_name: the same address?                                            *)
LoadFailed ==
  /\ loadIndex' = (loadIndex + 1) % 2
  /\ Go("failed", IF loadFile = loadName THEN "freeFailed" ELSE "zero")
  /\ loadName' = Null
  /\ UNCHANGED <<history, reset, heap, loadFile, app, setter, broken>>

LoadWorked ==
  /\ loadIndex' = 0
  /\ Go("loaded", IF loadFile = loadName THEN "freeLoaded" ELSE "running")
  /\ loadName' = Null
  /\ UNCHANGED <<history, reset, heap, loadFile, app, setter, broken>>

(* free(g->load_file): the file that has been loaded, or, as strdup reuses *)
(* addresses, the second one that its OnStart has set, which is forgotten. *)
FreeLoadFile ==
  /\ \/ Go("freeFailed", "nullFailed")
     \/ Go("freeLoaded", "nullLoaded")
  /\ Free(loadFile)
  /\ wanted' = IF sets = 2 THEN Null ELSE wanted
  /\ UNCHANGED <<sets, reset, loadFile, loadIndex, loadName, app, setter, broken>>

(* Fault: g->load_file keeps pointing to the block that was freed. *)
ForgetLoadFileDangling ==
  /\ \/ Go("nullFailed", "zero")
     \/ Go("nullLoaded", "running")
  /\ UNCHANGED <<history, reset, heap, loadFile, loadIndex, loadName, app, setter, broken>>

(* g->load_file = NULL *)
ForgetLoadFile ==
  /\ \/ Go("nullFailed", "zero")
     \/ Go("nullLoaded", "running")
  /\ loadFile' = Null
  /\ UNCHANGED <<history, reset, heap, loadIndex, loadName, app, setter, broken>>

-----------------------------------------------------------------------------

DukStep ==
  \/ Restart
  \/ Zero
  \/ LoadName
  \/ Open
  \/ OnStartDone
  \/ LoadFailed
  \/ LoadWorked
  \/ FreeLoadFile
  \/ ForgetLoadFile

SetStep(s) == SetTest(s) \/ SetFree(s) \/ SetStore(s)

(* The unsynchronised uses of g->load_file: a set by the web server's task *)
(* while duk_init copies the pointer or works on the copy, or while a      *)
(* script sets the file too.  What follows is undefined, so the model has  *)
(* no step that follows.                                                   *)
Race ==
  /\ "web" \in Setters
  /\ setter["web"].at # "idle"
  /\ pc \notin {"running", "zero"} \/ InCall

Step(A) == ~raced /\ A /\ raced' = Race'

Next ==
  \/ Step(DukStep)
  \/ Step(RequestReset)
  \/ \E s \in Setters : Step(SetCall(s) \/ SetStep(s))
  \/ raced /\ UNCHANGED vars

Spec == Init /\ [][Next]_vars

(* Tasks that can run do run, a call that has begun is finished, and a     *)
(* script makes finitely many calls.                                       *)
Fairness ==
  /\ WF_vars(Step(DukStep))
  /\ SF_vars(Step(OnStartDone \/ Restart))
  /\ \A s \in Setters : WF_vars(Step(SetStep(s)))

FairSpec == Spec /\ Fairness

-----------------------------------------------------------------------------
(* Properties.                                                             *)

(* Without a race the name's block is freed once and never lost: no free   *)
(* block is freed, duk_init opens a name that is allocated, and every      *)
(* allocated block can be reached.                                         *)
Freeing ==
  \/ pc \in {"freeFailed", "freeLoaded"}
  \/ \E s \in Setters : setter[s].at = "free"

Opening == pc = "open" /\ loadName \in Address

Reachable == {loadFile} \cup {setter[s].fname : s \in Setters}

HeapSound ==
  ~raced =>
    /\ Freeing /\ loadFile # Null => heap[loadFile] # Null
    /\ Opening => heap[loadName] # Null
    /\ \A a \in Address : heap[a] # Null => a \in Reachable

(* Without a race the file set last is the file the next duk_init will     *)
(* load, also if it is set while another file is being loaded and whether  *)
(* or not that load fails.  There is one exception: when duk_init loads a  *)
(* file that was set, and its OnStart sets a file twice, the second may be *)
(* forgotten, because strdup may give its name the address that duk_init   *)
(* compares g->load_file with.                                             *)
NoCall == \A s \in Setters : setter[s].at = "idle"

LastSetWins ==
  /\ ~raced /\ NoCall
  /\ wanted # Null
  /\ pc \in {"running", "zero", "name"}
  => loadFile # Null /\ heap[loadFile] = wanted

(* A board whose recovery.js works does not stay in duk_init: every failed *)
(* load is followed by an application that runs, unless files are set      *)
(* again and again.                                                        *)
RecoveryRuns ==
  \/ "recovery.js" \in broken
  \/ <>raced
  \/ []<><<\E s \in Setters : SetStore(s)>>_vars
  \/ pc = "failed" ~> pc = "running"
=============================================================================
