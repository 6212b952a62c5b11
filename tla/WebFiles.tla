------------------------------ MODULE WebFiles ------------------------------
(***************************************************************************)
(* The files of the board and who uses them at the same time: the task of  *)
(* the web server, which stores, sends and deletes them one request at a   *)
(* time (main/web_service.c); duk_init, which loads main.js or, failing    *)
(* that, recovery.js (main/duk_util.c, main/duk_main.c); the application,  *)
(* through FileSystem (main/duk_fs.c).  All share the few descriptors that *)
(* the file system was mounted with (main/main.c).                         *)
(*                                                                         *)
(* A script comes in Chunks pieces, to which an upload appends a new line. *)
(* The file system itself (SPIFFS) is external: what one writes the next   *)
(* reads, and who has a file open that is deleted reads nothing.           *)
(***************************************************************************)
EXTENDS Integers, Sequences, SequencesExt

CONSTANTS
  Versions,  \* of the scripts that are uploaded
  Chunks,    \* what httpd_req_recv returns of a script, in so many pieces
  MaxFiles,  \* FS_MAX_NUM_FILES
  MaxAppend, \* bound: a script writes to files that are not longer
  None

ASSUME WebFilesAssumption ==
  /\ None \notin Versions /\ Versions # {}
  /\ Chunks \in Nat \ {0} /\ MaxFiles \in Nat \ {0}
  /\ MaxAppend \in Nat
  /\ None \notin [who : {"http", "duk", "script"}, name : {"main.js", "recovery.js", "deleted"}]

VARIABLES
  fs,     \* the files, sequences of pieces, or None
  table,  \* the descriptors: who uses them for which file, or None
  server, \* "off", or how the web server was started: "ro" or "rw"
  http,   \* the request that is handled
  reset,  \* g->reset
  duk,    \* duktape_task: where it is, load_index, what it has read
  last,   \* history: the upload that is or was the last to change a file, or None
  quiet,  \* history: nobody has changed the file since duk_init opened it
  undef   \* history: duk_util_load_file has written before its buffer

history == <<last, quiet, undef>>
vars == <<fs, table, server, http, reset, duk, history>>

Image == "image"     \* the version in the image that is flashed
Names == {"main.js", "recovery.js"}
LoadFiles == <<"main.js", "recovery.js">>
NewLine == <<None, 0>>
Data == <<None, 1>>  \* what an application writes
Gone == "deleted"    \* the name of a file that was deleted while open

Script(v) == [k \in 1..Chunks |-> <<v, k>>]

Idle == [at |-> "idle", fd |-> 0, name |-> None, v |-> None, got |-> 0, silent |-> FALSE]
Fresh == [at |-> "open", index |-> 0, fd |-> 0, size |-> 0, buf |-> <<>>]

Init ==
  /\ fs = [n \in Names |-> Append(Script(Image), NewLine)]
  /\ last = [n \in Names |-> [v |-> Image, done |-> TRUE]]
  /\ table = [d \in 1..MaxFiles |-> None]
  /\ server = "off"
  /\ http = Idle
  /\ reset = FALSE
  /\ duk = Fresh
  /\ quiet = TRUE
  /\ undef = FALSE

-----------------------------------------------------------------------------
(* Descriptors and files.                                                  *)

Free == {d \in 1..MaxFiles : table[d] = None}
Lowest == CHOOSE d \in Free : \A e \in Free : d <= e

Take(who, n) == table' = [table EXCEPT ![Lowest] = [who |-> who, name |-> n]]
Close(d) == table' = [table EXCEPT ![d] = None]

(* The file changes, under everybody who has it open. *)
Store(n, content, upload) ==
  /\ fs' = [fs EXCEPT ![n] = content]
  /\ last' = [last EXCEPT ![n] = upload]
  /\ quiet' = (quiet /\ n # LoadFiles[duk.index + 1])
  /\ UNCHANGED undef

Unlink(n) ==
  /\ Store(n, None, None)
  /\ table' = [d \in DOMAIN table |->
                 IF table[d] # None /\ table[d].name = n
                 THEN [table[d] EXCEPT !.name = Gone] ELSE table[d]]

Length(n) == IF n = Gone THEN 0 ELSE Len(fs[n])

-----------------------------------------------------------------------------
(* The web server.  A request for a name that starts with '_' is refused   *)
(* before it opens anything, and is left out.                              *)

Request(modes) == http.at = "idle" /\ server \in modes /\ duk.at # "stop"

(* post_handler: fopen("w+"), and "FileCreateError" without a descriptor. *)
PostOpen(n, v) ==
  /\ Request({"rw"}) /\ Free # {}
  /\ Take("http", n)
  /\ Store(n, <<>>, [v |-> v, done |-> FALSE])
  /\ http' = [Idle EXCEPT !.at = "recv", !.fd = Lowest, !.name = n, !.v = v]
  /\ UNCHANGED <<server, reset, duk>>

(* Fault: what is stored is what was sent. *)
PieceOnly(k) == <<<<http.v, k>>>>

(* What follows the pieces that are stored already. *)
Piece(k) == <<<<http.v, k>>>> \o (IF k = Chunks THEN <<NewLine>> ELSE <<>>)

(* A piece is received; fwrite's result is ignored, though the file system *)
(* may be full.                                                            *)
PostRecv ==
  /\ http.at = "recv" /\ ~http.silent
  /\ LET k == http.got + 1
         n == http.name
     IN /\ http' = [http EXCEPT !.got = k, !.at = IF k = Chunks THEN "close" ELSE @]
        /\ \/ table[http.fd].name # Gone /\ Store(n, fs[n] \o Piece(k), last[n])
           \/ last' = [last EXCEPT ![n] = None] /\ UNCHANGED <<fs, quiet, undef>>
  /\ UNCHANGED <<table, server, reset, duk>>

(* The client sends nothing any more, or its connection breaks. *)
ClientEnds ==
  /\ http.at = "recv" /\ ~http.silent
  /\ http' = [http EXCEPT !.silent = TRUE]
  /\ UNCHANGED <<fs, table, server, reset, duk, history>>

(* Fault: httpd_req_recv is called again after a timeout. *)
PostErrorRetry ==
  /\ http.at = "recv" /\ http.silent
  /\ UNCHANGED vars

(* Fault: the file stays open when nothing was received. *)
PostErrorKeeps ==
  /\ http.at = "recv" /\ http.silent
  /\ http' = Idle
  /\ UNCHANGED <<fs, table, server, reset, duk, history>>

(* httpd_req_recv returns an error: what has been stored remains. *)
PostError ==
  /\ http.at = "recv" /\ http.silent
  /\ Close(http.fd)
  /\ http' = Idle
  /\ UNCHANGED <<fs, server, reset, duk, history>>

(* The file is closed, and the answer is "OK". *)
HttpClose ==
  /\ http.at = "close"
  /\ Close(http.fd)
  /\ http' = Idle
  /\ last' = IF http.got = 0 \/ last[http.name] = None THEN last
             ELSE [last EXCEPT ![http.name].done = TRUE]
  /\ UNCHANGED <<fs, server, reset, duk, quiet, undef>>

(* get_file_by_name: how much is sent of the file does not matter here. *)
GetOpen(n) ==
  /\ Request({"ro", "rw"}) /\ Free # {} /\ fs[n] # None
  /\ Take("http", n)
  /\ http' = [Idle EXCEPT !.at = "close", !.fd = Lowest, !.name = n]
  /\ UNCHANGED <<fs, server, reset, duk, history>>

(* control_handler *)
ControlDelete(n) ==
  /\ Request({"rw"}) /\ fs[n] # None
  /\ Unlink(n)
  /\ UNCHANGED <<server, http, reset, duk>>

ControlReset ==
  /\ Request({"rw"})
  /\ reset' = TRUE
  /\ UNCHANGED <<fs, table, server, http, duk, history>>

-----------------------------------------------------------------------------
(* duk_init and duk_util_load_file.                                        *)

name == LoadFiles[duk.index + 1]

(* duk_util_load_and_run has failed: the heap is made anew for the next. *)
LoadFails == duk' = [Fresh EXCEPT !.index = (duk.index + 1) % 2]

LoadOpen ==
  /\ duk.at = "open"
  /\ reset' = FALSE
  /\ quiet' = TRUE
  /\ IF fs[name] = None \/ Free = {}
     THEN LoadFails /\ UNCHANGED table
     ELSE Take("duk", name) /\ duk' = [duk EXCEPT !.at = "seek", !.fd = Lowest]
  /\ UNCHANGED <<fs, server, http, last, undef>>

(* fseek, ftell, and malloc, which may fail. *)
LoadSize ==
  /\ duk.at = "seek"
  /\ \/ /\ duk' = [duk EXCEPT !.at = "read", !.size = Length(table[duk.fd].name)]
        /\ UNCHANGED table
     \/ LoadFails /\ Close(duk.fd)
  /\ UNCHANGED <<fs, server, http, reset, history>>

(* fread, a piece at a time. *)
More == Len(duk.buf) < duk.size /\ Len(duk.buf) < Length(table[duk.fd].name)

LoadRead ==
  /\ duk.at = "read" /\ More
  /\ duk' = [duk EXCEPT !.buf = Append(@, fs[name][Len(@) + 1])]
  /\ UNCHANGED <<fs, table, server, http, reset, history>>

(* buff[fsize - 1] = 0, which is before the buffer if the file was empty. *)
LoadClose ==
  /\ duk.at = "read" /\ ~More
  /\ Close(duk.fd)
  /\ undef' = (duk.size = 0)
  /\ IF Len(duk.buf) < duk.size THEN LoadFails
     ELSE duk' = [duk EXCEPT !.at = "eval", !.fd = 0,
                             !.buf = IF @ = <<>> THEN @ ELSE Front(@)]
  /\ UNCHANGED <<fs, server, http, reset, last, quiet>>

(* A script that is not whole may throw, or run for all that. *)
LoadEval ==
  /\ duk.at = "eval"
  /\ \/ duk' = [Fresh EXCEPT !.at = "run"]
     \/ (\A v \in Versions \cup {Image} : duk.buf # Script(v)) /\ LoadFails
  /\ UNCHANGED <<fs, table, server, http, reset, history>>

-----------------------------------------------------------------------------
(* The application.                                                        *)

Scripts == {d \in 1..MaxFiles : table[d] # None /\ table[d].who = "script"}

(* stringToPosixFlags: "r+", "w+" and "a+" treat a file like these.        *)
Flags == {"r", "w", "a"}

(* FileSystem.open: the others create the file, "w" empties it.            *)
ScriptOpen(n, flags) ==
  /\ duk.at = "run" /\ Free # {}
  /\ flags = "r" => fs[n] # None
  /\ Take("script", n)
  /\ IF flags = "w" \/ fs[n] = None THEN Store(n, <<>>, None) ELSE UNCHANGED <<fs, history>>
  /\ UNCHANGED <<server, http, reset, duk>>

(* js_fs_write, at the end of the file: where a script writes matters no   *)
(* more than what.                                                         *)
ScriptWrite(d) ==
  /\ duk.at = "run" /\ d \in Scripts /\ table[d].name # Gone
  /\ Len(fs[table[d].name]) <= MaxAppend
  /\ Store(table[d].name, Append(fs[table[d].name], Data), None)
  /\ UNCHANGED <<table, server, http, reset, duk>>

ScriptClose(d) ==
  /\ duk.at = "run" /\ d \in Scripts
  /\ Close(d)
  /\ UNCHANGED <<fs, server, http, reset, duk, history>>

ScriptUnlink(n) ==
  /\ duk.at = "run" /\ fs[n] # None
  /\ Unlink(n)
  /\ UNCHANGED <<server, http, reset, duk>>

(* wifiConfigure: webserver_start. *)
ServerStart(mode) ==
  /\ duk.at = "run" /\ server = "off"
  /\ server' = mode
  /\ UNCHANGED <<fs, table, http, reset, duk, history>>

(* setConnectivity: webserver_stop, where httpd_stop waits for the task. *)
ServerStop ==
  /\ duk.at = "run" /\ server # "off"
  /\ duk' = [duk EXCEPT !.at = "stop"]
  /\ UNCHANGED <<fs, table, server, http, reset, history>>

ServerStopped ==
  /\ duk.at = "stop" /\ http.at = "idle"
  /\ duk' = [duk EXCEPT !.at = "run"]
  /\ server' = "off"
  /\ UNCHANGED <<fs, table, http, reset, history>>

(* The reset is seen.  Nothing closes the files that the application left  *)
(* open, and the next one does not know their descriptors.                 *)
Restart ==
  /\ duk.at = "run" /\ reset
  /\ duk' = Fresh
  /\ UNCHANGED <<fs, table, server, http, reset, history>>

-----------------------------------------------------------------------------

HttpStep == PostRecv \/ PostError \/ HttpClose

HttpRequest ==
  \/ \E n \in Names : GetOpen(n) \/ ControlDelete(n) \/ \E v \in Versions : PostOpen(n, v)
  \/ ControlReset

DukStep ==
  \/ LoadOpen \/ LoadSize \/ LoadRead \/ LoadClose \/ LoadEval
  \/ ServerStopped

Application ==
  \/ \E n \in Names : ScriptUnlink(n) \/ \E flags \in Flags : ScriptOpen(n, flags)
  \/ \E d \in 1..MaxFiles : ScriptWrite(d) \/ ScriptClose(d)
  \/ \E mode \in {"ro", "rw"} : ServerStart(mode)
  \/ ServerStop
  \/ Restart

Next ==
  \/ ~undef /\ (HttpStep \/ HttpRequest \/ ClientEnds)
  \/ ~undef /\ (DukStep \/ Application)
  \/ undef /\ UNCHANGED vars

Spec == Init /\ [][Next]_vars

(* Both tasks run; httpd_req_recv gives up after a time. *)
FairSpec == Spec /\ WF_vars(~undef /\ HttpStep) /\ WF_vars(~undef /\ DukStep)

-----------------------------------------------------------------------------
(* Properties.                                                             *)

(* duk_init runs what was uploaded, no more and no less, if the upload was *)
(* answered with "OK", nothing has changed the file since, and nothing     *)
(* does while it is read.                                                  *)
RunsTheUpload ==
  duk.at = "eval" /\ quiet /\ last[name] # None /\ last[name].done =>
    duk.buf = Script(last[name].v)

(* Whatever fails, the web server and duk_init have no descriptor but that *)
(* of the request handled now and of the file loaded now: only a script    *)
(* can use them up.                                                        *)
NoDescriptorLost ==
  \A d \in DOMAIN table :
    table[d] # None => \/ table[d].who = "http" /\ http.fd = d
                       \/ table[d].who = "duk" /\ duk.fd = d
                       \/ table[d].who = "script"

(* The server can be stopped, whatever the client of a request does.       *)
StopReturns == duk.at = "stop" ~> duk.at = "run"
=============================================================================
