--------------------------- MODULE WebFiles_proofs ---------------------------
(***************************************************************************)
(* Theorems about WebFiles, for any number of descriptors, any scripts and *)
(* whatever fails.                                                         *)
(***************************************************************************)
EXTENDS WebFiles, WellFoundedInduction, SequenceTheorems, TLAPS

(* NoDescriptorLost alone is not inductive: a request may only be taken    *)
(* when the one before it holds no descriptor any more, and duk_init has   *)
(* closed its file when it runs a script.                                  *)
Descriptors == {None} \cup [who : {"http", "duk", "script"}, name : Names \cup {Gone}]

Shapes ==
  /\ table \in [1..MaxFiles -> Descriptors]
  /\ http = [at |-> http.at, fd |-> http.fd, name |-> http.name, v |-> http.v,
             got |-> http.got, silent |-> http.silent]
  /\ duk = [at |-> duk.at, index |-> duk.index, fd |-> duk.fd, size |-> duk.size,
            buf |-> duk.buf]
  /\ duk.index \in 0..1

HttpIdleHoldsNone == http.at \in {"idle", "recv", "close"} /\ (http.at = "idle" => http.fd = 0)

DukRunsWithout == duk.at \in {"open", "eval", "run", "stop"} => duk.fd = 0

IInv == Shapes /\ HttpIdleHoldsNone /\ DukRunsWithout /\ NoDescriptorLost

-----------------------------------------------------------------------------

(* The board starts with no file open. *)
LEMMA InitIInv == Init => IInv
  BY WebFilesAssumption
     DEF Init, IInv, Shapes, HttpIdleHoldsNone, DukRunsWithout, NoDescriptorLost, Idle, Fresh,
         Descriptors

(* A descriptor that is taken belongs to who took it, and one that is      *)
(* closed to nobody; the others are as they were.                          *)
LEMMA TakeOthers ==
  ASSUME Shapes, NEW who \in {"http", "duk", "script"}, NEW n \in Names, Take(who, n)
  PROVE  /\ table' \in [1..MaxFiles -> Descriptors]
         /\ \A d \in 1..MaxFiles :
              IF d = Lowest THEN table'[d].who = who ELSE table'[d] = table[d]
  <1>1. [who |-> who, name |-> n] \in Descriptors
    BY DEF Descriptors
  <1>2. QED
    BY <1>1 DEF Shapes, Take

LEMMA CloseOthers ==
  ASSUME Shapes, NEW fd, Close(fd)
  PROVE  /\ table' \in [1..MaxFiles -> Descriptors]
         /\ \A d \in 1..MaxFiles : IF d = fd THEN table'[d] = None ELSE table'[d] = table[d]
  BY DEF Shapes, Close, Descriptors

(* A file that is deleted stays open for those who use it. *)
LEMMA UnlinkOthers ==
  ASSUME Shapes, NEW n \in Names, Unlink(n)
  PROVE  /\ table' \in [1..MaxFiles -> Descriptors]
         /\ \A d \in 1..MaxFiles :
              table'[d] # None => table[d] # None /\ table'[d].who = table[d].who
  <1>1. ASSUME NEW d \in 1..MaxFiles, table[d] # None
        PROVE  /\ [table[d] EXCEPT !.name = Gone] \in Descriptors
               /\ [table[d] EXCEPT !.name = Gone].who = table[d].who
    BY <1>1 DEF Shapes, Descriptors
  <1>2. DOMAIN table = 1..MaxFiles /\ \A d \in 1..MaxFiles : table[d] \in Descriptors
    BY DEF Shapes
  <1>3. table' = [d \in 1..MaxFiles |->
                    IF table[d] # None /\ table[d].name = n
                    THEN [table[d] EXCEPT !.name = Gone] ELSE table[d]]
    BY <1>2 DEF Unlink
  <1>4. QED
    BY <1>1, <1>2, <1>3

-----------------------------------------------------------------------------

LEMMA HttpKeeps ==
  ASSUME IInv, HttpStep \/ HttpRequest \/ ClientEnds
  PROVE  IInv'
  <1> USE DEF HttpIdleHoldsNone, DukRunsWithout, NoDescriptorLost, Idle
  <1>0. Shapes
    BY DEF IInv
  <1>1. ASSUME NEW n \in Names, GetOpen(n) \/ \E v \in Versions : PostOpen(n, v) PROVE IInv'
    <2>1. http.fd = 0 /\ Take("http", n) /\ UNCHANGED duk
      BY <1>1 DEF GetOpen, PostOpen, Request, IInv
    <2>2. /\ table' \in [1..MaxFiles -> Descriptors]
          /\ \A d \in 1..MaxFiles :
               IF d = Lowest THEN table'[d].who = "http" ELSE table'[d] = table[d]
      BY <1>0, <2>1, TakeOthers
    <2>3. http'.at \in {"recv", "close"} /\ http'.fd = Lowest
      BY <1>1 DEF GetOpen, PostOpen
    <2>4. Shapes'
      BY <1>1, <2>1, <2>2 DEF Shapes, IInv, GetOpen, PostOpen
    <2>5. NoDescriptorLost'
      BY <1>0, <2>1, <2>2, <2>3 DEF IInv, Shapes
    <2>6. QED
      BY <2>1, <2>3, <2>4, <2>5 DEF IInv
  <1>2. ASSUME NEW n \in Names, ControlDelete(n) PROVE IInv'
    <2>1. Unlink(n) /\ UNCHANGED <<http, duk>>
      BY <1>2 DEF ControlDelete
    <2>2. QED
      BY <1>0, <2>1, UnlinkOthers DEF IInv, Shapes
  <1>3. CASE PostError \/ HttpClose
    <2>1. Close(http.fd) /\ http' = Idle /\ UNCHANGED duk
      BY <1>3 DEF PostError, HttpClose
    <2>2. /\ table' \in [1..MaxFiles -> Descriptors]
          /\ \A d \in 1..MaxFiles :
               IF d = http.fd THEN table'[d] = None ELSE table'[d] = table[d]
      BY <1>0, <2>1, CloseOthers
    <2>3. QED
      BY <1>0, <2>1, <2>2 DEF IInv, Shapes
  <1>4. CASE ControlReset \/ ClientEnds \/ PostRecv
    <2>1. UNCHANGED <<table, duk>> /\ http'.fd = http.fd /\ Shapes'
      BY <1>0, <1>4 DEF ControlReset, ClientEnds, PostRecv, Shapes
    <2>2. http'.at \in {"idle", "recv", "close"} /\ (http'.at = "idle" => http.at = "idle")
      BY <1>0, <1>4 DEF ControlReset, ClientEnds, PostRecv, Shapes, IInv
    <2>3. QED
      BY <1>0, <2>1, <2>2 DEF IInv, Shapes
  <1>5. QED
    BY <1>1, <1>2, <1>3, <1>4 DEF HttpStep, HttpRequest

LEMMA DukKeeps ==
  ASSUME IInv, DukStep
  PROVE  IInv'
  <1> USE DEF HttpIdleHoldsNone, DukRunsWithout, NoDescriptorLost, Fresh
  <1>0. Shapes /\ name \in Names
    BY DEF IInv, Shapes, name, LoadFiles, Names
  <1>1. LoadFails => duk'.fd = 0 /\ duk'.at = "open" /\ duk'.index \in 0..1
                     /\ duk' = [at |-> duk'.at, index |-> duk'.index, fd |-> duk'.fd,
                                size |-> duk'.size, buf |-> duk'.buf]
    <2>1. (duk.index + 1) % 2 \in 0..1
      BY <1>0 DEF Shapes
    <2>2. QED
      BY <2>1 DEF LoadFails
  <1>2. CASE LoadOpen
    <2>1. duk.fd = 0 /\ UNCHANGED http
      BY <1>2 DEF LoadOpen, IInv
    <2>2. CASE LoadFails /\ UNCHANGED table
      BY <1>0, <1>1, <2>1, <2>2 DEF IInv, Shapes
    <2>3. CASE Take("duk", name) /\ duk' = [duk EXCEPT !.at = "seek", !.fd = Lowest]
      <3>1. /\ table' \in [1..MaxFiles -> Descriptors]
            /\ \A d \in 1..MaxFiles :
                 IF d = Lowest THEN table'[d].who = "duk" ELSE table'[d] = table[d]
        BY <1>0, <2>3, TakeOthers
      <3>2. Shapes' /\ duk'.fd = Lowest /\ duk'.at = "seek"
        BY <1>0, <2>1, <2>3, <3>1 DEF Shapes
      <3>3. QED
        BY <1>0, <2>1, <3>1, <3>2 DEF IInv, Shapes
    <2>4. QED
      BY <1>2, <2>2, <2>3 DEF LoadOpen
  <1>3. CASE LoadSize \/ LoadRead
    <2>1. UNCHANGED http
      BY <1>3 DEF LoadSize, LoadRead
    <2>2. CASE LoadFails /\ Close(duk.fd)
      <3>1. /\ table' \in [1..MaxFiles -> Descriptors]
            /\ \A d \in 1..MaxFiles :
                 IF d = duk.fd THEN table'[d] = None ELSE table'[d] = table[d]
        BY <1>0, <2>2, CloseOthers
      <3>2. QED
        BY <1>0, <1>1, <2>1, <2>2, <3>1 DEF IInv, Shapes
    <2>3. CASE UNCHANGED table /\ duk'.fd = duk.fd /\ duk'.at = "read" /\ Shapes'
      BY <1>0, <2>1, <2>3 DEF IInv, Shapes
    <2>4. LoadRead => UNCHANGED table /\ duk'.fd = duk.fd /\ duk'.at = "read" /\ Shapes'
      BY <1>0 DEF LoadRead, Shapes
    <2>5. ASSUME LoadSize, ~(LoadFails /\ Close(duk.fd))
          PROVE  UNCHANGED table /\ duk'.fd = duk.fd /\ duk'.at = "read" /\ Shapes'
      BY <1>0, <2>5 DEF LoadSize, Shapes
    <2>6. QED
      BY <1>3, <2>2, <2>3, <2>4, <2>5
  <1>4. CASE LoadClose
    <2>1. Close(duk.fd) /\ UNCHANGED http
      BY <1>4 DEF LoadClose
    <2>2. /\ table' \in [1..MaxFiles -> Descriptors]
          /\ \A d \in 1..MaxFiles :
               IF d = duk.fd THEN table'[d] = None ELSE table'[d] = table[d]
      BY <1>0, <2>1, CloseOthers
    <2>3. duk'.fd = 0 /\ duk'.index \in 0..1 /\ Shapes'
      BY <1>0, <1>1, <1>4, <2>1, <2>2 DEF LoadClose, Shapes
    <2>4. QED
      BY <1>0, <2>1, <2>2, <2>3 DEF IInv, Shapes
  <1>5. CASE LoadEval \/ ServerStopped
    <2>1. UNCHANGED <<table, http>> /\ duk.fd = 0
      BY <1>5 DEF LoadEval, ServerStopped, IInv
    <2>2. duk'.fd = 0 /\ Shapes'
      BY <1>0, <1>1, <1>5, <2>1 DEF LoadEval, ServerStopped, Shapes
    <2>3. QED
      BY <1>0, <2>1, <2>2 DEF IInv, Shapes
  <1>6. QED
    BY <1>2, <1>3, <1>4, <1>5 DEF DukStep

LEMMA ApplicationKeeps ==
  ASSUME IInv, Application
  PROVE  IInv'
  <1> USE DEF HttpIdleHoldsNone, DukRunsWithout, NoDescriptorLost, Fresh
  <1>0. Shapes
    BY DEF IInv
  <1>1. ASSUME NEW n \in Names, ScriptUnlink(n) PROVE IInv'
    <2>1. Unlink(n) /\ UNCHANGED <<http, duk>>
      BY <1>1 DEF ScriptUnlink
    <2>2. QED
      BY <1>0, <2>1, UnlinkOthers DEF IInv, Shapes
  <1>2. ASSUME NEW n \in Names, NEW flags \in Flags, ScriptOpen(n, flags) PROVE IInv'
    <2>1. Take("script", n) /\ UNCHANGED <<http, duk>>
      BY <1>2 DEF ScriptOpen
    <2>2. /\ table' \in [1..MaxFiles -> Descriptors]
          /\ \A d \in 1..MaxFiles :
               IF d = Lowest THEN table'[d].who = "script" ELSE table'[d] = table[d]
      BY <1>0, <2>1, TakeOthers
    <2>3. QED
      BY <1>0, <2>1, <2>2 DEF IInv, Shapes
  <1>3. ASSUME NEW d \in 1..MaxFiles, ScriptWrite(d) \/ ScriptClose(d) PROVE IInv'
    <2>1. UNCHANGED <<http, duk>> /\ (UNCHANGED table \/ Close(d))
      BY <1>3 DEF ScriptWrite, ScriptClose
    <2>2. /\ table' \in [1..MaxFiles -> Descriptors]
          /\ \A e \in 1..MaxFiles : table'[e] = None \/ table'[e] = table[e]
      BY <1>0, <2>1, CloseOthers DEF Shapes
    <2>3. QED
      BY <1>0, <2>1, <2>2 DEF IInv, Shapes
  <1>4. CASE (\E mode \in {"ro", "rw"} : ServerStart(mode)) \/ ServerStop \/ Restart
    <2>1. UNCHANGED <<table, http>> /\ duk.fd = 0 /\ duk'.fd = 0 /\ Shapes'
      BY <1>0, <1>4 DEF ServerStart, ServerStop, Restart, IInv, Shapes
    <2>2. QED
      BY <1>0, <2>1 DEF IInv, Shapes
  <1>5. QED
    BY <1>1, <1>2, <1>3, <1>4 DEF Application

LEMMA Invariance == Spec => []IInv
  <1>1. IInv /\ [Next]_vars => IInv'
    <2>1. IInv /\ UNCHANGED vars => IInv'
      BY DEF vars, history, IInv, Shapes, HttpIdleHoldsNone, DukRunsWithout, NoDescriptorLost
    <2>2. QED
      BY <2>1, HttpKeeps, DukKeeps, ApplicationKeeps DEF Next
  <1>2. QED
    BY InitIInv, <1>1, PTL DEF Spec

(* Neither the web server nor duk_init ever loses a descriptor, whatever   *)
(* fails and in whatever order requests, resets and scripts' calls come.   *)
THEOREM NoDescriptorIsLost == Spec => []NoDescriptorLost
  <1>1. IInv => NoDescriptorLost
    BY DEF IInv
  <1>2. QED
    BY Invariance, <1>1, PTL

-----------------------------------------------------------------------------
(* What duk_init reads is what was uploaded.                               *)

(* The file that an upload makes, its first k pieces, the new line being   *)
(* the last, and what is stored of it after so many were received.         *)
Part(v, k) == [j \in 1..k |-> IF j <= Chunks THEN <<v, j>> ELSE NewLine]
Stored(v, k) == IF k = Chunks THEN Part(v, Chunks + 1) ELSE Part(v, k)

(* Each of the two tasks has the descriptor it goes on to use. *)
Holds(who, d) == d \in 1..MaxFiles /\ table[d] # None /\ table[d].who = who

Held ==
  /\ http.at # "idle" => Holds("http", http.fd)
  /\ duk.at \in {"seek", "read"} => Holds("duk", duk.fd)

(* A file that only the upload has changed holds what was received so far, *)
(* and the whole script when the upload was answered with "OK".            *)
Uploading(n) == http.name = n /\ (http.at = "recv" \/ (http.at = "close" /\ http.got # 0))

Counted ==
  /\ http.got \in 0..Chunks
  /\ http.at # "idle" => http.name \in Names
  /\ http.at = "recv" => http.got < Chunks
  /\ http.at = "close" => http.got \in {0, Chunks}

Upload(n) ==
  last[n] # None =>
    /\ last[n] = [v |-> last[n].v, done |-> last[n].done]
    /\ last[n].done => fs[n] = Part(last[n].v, Chunks + 1)
    /\ Uploading(n) => /\ ~last[n].done /\ last[n].v = http.v
                       /\ fs[n] = Stored(http.v, http.got)

Uploads == DOMAIN fs = Names /\ DOMAIN last = Names /\ \A n \in Names : Upload(n)

(* duk_init has read a part of the file, unless somebody changed it.       *)
Whole(n) == last[n] # None /\ fs[n] = Part(last[n].v, Chunks + 1)

Loaded ==
  /\ duk.at \in {"open", "seek"} => duk.buf = <<>>
  /\ quiet /\ Whole(name) =>
       /\ duk.at \in {"seek", "read"} => table[duk.fd].name = name
       /\ duk.at = "read" => /\ duk.size = Chunks + 1
                             /\ \E k \in 0..(Chunks + 1) : duk.buf = Part(last[name].v, k)
       /\ duk.at = "eval" => duk.buf = Part(last[name].v, Chunks)

RInv == Held /\ Counted /\ Uploads /\ Loaded

-----------------------------------------------------------------------------

(* A file of which k pieces are stored, and what is added to it. *)
LEMMA PartIsSeq ==
  ASSUME NEW v, NEW k \in Nat
  PROVE  /\ Part(v, k) \in Seq({<<v, j>> : j \in Nat} \cup {NewLine})
         /\ Len(Part(v, k)) = k
         /\ DOMAIN Part(v, k) = 1..k
  <1> USE WebFilesAssumption
  <1>1. \A j \in 1..k : Part(v, k)[j] \in {<<v, i>> : i \in Nat} \cup {NewLine}
    BY DEF Part
  <1>2. DOMAIN Part(v, k) = 1..k
    BY DEF Part
  <1>3. Part(v, k) \in [1..k -> {<<v, i>> : i \in Nat} \cup {NewLine}]
    BY <1>1, <1>2 DEF Part
  <1> HIDE DEF Part
  <1>4. QED
    BY <1>2, <1>3

LEMMA PartGrows ==
  ASSUME NEW v, NEW k \in Nat
  PROVE  /\ Append(Part(v, k), IF k + 1 <= Chunks THEN <<v, k + 1>> ELSE NewLine) = Part(v, k + 1)
         /\ Part(v, k) \o <<IF k + 1 <= Chunks THEN <<v, k + 1>> ELSE NewLine>> = Part(v, k + 1)
  <1> USE WebFilesAssumption
  <1> DEFINE x == IF k + 1 <= Chunks THEN <<v, k + 1>> ELSE NewLine
             S == {<<v, j>> : j \in Nat} \cup {NewLine}
             p == Part(v, k)
             q == Part(v, k + 1)
  <1>1. k + 1 \in Nat /\ x \in S
    OBVIOUS
  <1>2. p \in Seq(S) /\ Len(p) = k /\ q \in Seq(S) /\ Len(q) = k + 1
    BY <1>1, PartIsSeq
  <1>3. \A j \in 1..k : p[j] = q[j]
    BY DEF Part
  <1>4. q[k + 1] = x
    BY DEF Part
  <1> HIDE DEF p, q, x, S
  <1>5. /\ Append(p, x) \in Seq(S) /\ Len(Append(p, x)) = k + 1
        /\ \A j \in 1..(k + 1) : Append(p, x)[j] = q[j]
    BY <1>1, <1>2, <1>3, <1>4
  <1>6. Append(p, x) = q
    BY <1>2, <1>5
  <1>7. p \o <<x>> = Append(p, x)
    BY <1>1, <1>2
  <1>8. QED
    BY <1>6, <1>7 DEF p, q, x

LEMMA ScriptIsPart ==
  ASSUME NEW v
  PROVE  /\ Script(v) = Part(v, Chunks)
         /\ Append(Script(v), NewLine) = Part(v, Chunks + 1)
         /\ Front(Part(v, Chunks + 1)) = Script(v)
  <1> USE WebFilesAssumption
  <1>1. Script(v) = Part(v, Chunks)
    BY DEF Script, Part
  <1>2. ~(Chunks + 1 <= Chunks) /\ Chunks \in Nat
    OBVIOUS
  <1>3. Append(Part(v, Chunks), NewLine) = Part(v, Chunks + 1)
    BY <1>2, PartGrows
  <1>4. Front(Part(v, Chunks + 1)) = Part(v, Chunks)
    <2> DEFINE S == {<<v, j>> : j \in Nat} \cup {NewLine}
               p == Part(v, Chunks)
               q == Part(v, Chunks + 1)
    <2>1. Chunks + 1 \in Nat
      OBVIOUS
    <2>2. p \in Seq(S) /\ Len(p) = Chunks /\ q \in Seq(S) /\ Len(q) = Chunks + 1
      BY <1>2, <2>1, PartIsSeq
    <2>3. \A j \in 1..Chunks : p[j] = q[j]
      BY DEF Part
    <2> HIDE DEF p, q, S
    <2>4. Front(q) = SubSeq(q, 1, Chunks)
      BY <2>2 DEF Front
    <2>5. SubSeq(q, 1, Chunks) \in Seq(S) /\ Len(SubSeq(q, 1, Chunks)) = Chunks
          /\ \A j \in 1..Chunks : SubSeq(q, 1, Chunks)[j] = q[j]
      BY <2>2
    <2>6. SubSeq(q, 1, Chunks) = p
      BY <2>2, <2>3, <2>5
    <2>7. QED
      BY <2>4, <2>6 DEF p, q
  <1>5. QED
    BY <1>1, <1>3, <1>4

(* A piece that is stored follows those that have been. *)
LEMMA PieceFollows ==
  ASSUME NEW k \in Nat, k < Chunks
  PROVE  Stored(http.v, k) \o Piece(k + 1) = Stored(http.v, k + 1)
  <1> USE WebFilesAssumption
  <1> DEFINE v == http.v
             S == {<<v, j>> : j \in Nat} \cup {NewLine}
  <1>1. Stored(v, k) = Part(v, k) /\ k + 1 \in Nat /\ k + 1 <= Chunks
    BY DEF Stored
  <1>2. Part(v, k) \o <<<<v, k + 1>>>> = Part(v, k + 1)
    <2>1. Part(v, k) \o <<IF k + 1 <= Chunks THEN <<v, k + 1>> ELSE NewLine>> = Part(v, k + 1)
      BY PartGrows
    <2>2. (IF k + 1 <= Chunks THEN <<v, k + 1>> ELSE NewLine) = <<v, k + 1>>
      BY <1>1
    <2>3. QED
      BY <2>1, <2>2
  <1>3. CASE k + 1 = Chunks
    <2>1. /\ Piece(k + 1) = <<<<v, k + 1>>, NewLine>>
          /\ <<<<v, k + 1>>>> \o <<NewLine>> = <<<<v, k + 1>>, NewLine>>
      <3>1. ASSUME NEW a, NEW b PROVE <<a>> \o <<b>> = <<a, b>>
        <4>1. /\ <<a>> \in Seq({a, b}) /\ Len(<<a>>) = 1 /\ <<a>>[1] = a
              /\ <<b>> \in Seq({a, b}) /\ Len(<<b>>) = 1 /\ <<b>>[1] = b
              /\ <<a, b>> \in Seq({a, b}) /\ Len(<<a, b>>) = 2
              /\ <<a, b>>[1] = a /\ <<a, b>>[2] = b
          OBVIOUS
        <4>2. /\ <<a>> \o <<b>> \in Seq({a, b}) /\ Len(<<a>> \o <<b>>) = 2
              /\ (<<a>> \o <<b>>)[1] = a /\ (<<a>> \o <<b>>)[2] = b
          BY <4>1
        <4> DEFINE p == <<a>> \o <<b>>
                   q == <<a, b>>
        <4> HIDE DEF p, q
        <4>3. p \in Seq({a, b}) /\ q \in Seq({a, b}) /\ Len(p) = 2 /\ Len(q) = 2
              /\ \A j \in 1..2 : p[j] = q[j]
          BY <4>1, <4>2 DEF p, q
        <4>4. p = q
          BY <4>3
        <4>5. QED
          BY <4>4 DEF p, q
      <3>2. Piece(k + 1) = <<<<v, k + 1>>>> \o <<NewLine>>
        BY <1>3 DEF Piece
      <3>3. QED
        BY <3>1, <3>2
    <2>2. Part(v, k) \in Seq(S) /\ <<v, k + 1>> \in S /\ NewLine \in S
      BY <1>1, PartIsSeq
    <2>3. Part(v, k) \o <<<<v, k + 1>>, NewLine>> = Append(Part(v, k) \o <<<<v, k + 1>>>>, NewLine)
      <3> DEFINE chunk == <<v, k + 1>>
                 one == <<chunk>>
                 line == <<NewLine>>
      <3>1. one \in Seq(S) /\ line \in Seq(S)
        BY <2>2
      <3>2. one \o line = <<chunk, NewLine>>
        BY <2>1
      <3> HIDE DEF S, v, chunk, one, line
      <3>3. (Part(v, k) \o one) \o line = Part(v, k) \o (one \o line)
        BY <2>2, <3>1, ConcatAssociative, SMTT(60)
      <3>4. Part(v, k) \o one \in Seq(S)
        BY <2>2, <3>1, ConcatProperties
      <3>5. Append(Part(v, k) \o one, NewLine) = (Part(v, k) \o one) \o line
        BY <2>2, <3>4, AppendIsConcat, Zenon DEF line
      <3>6. QED
        BY <3>2, <3>3, <3>5, Zenon DEF one, chunk
    <2>4. Append(Part(v, Chunks), NewLine) = Part(v, Chunks + 1)
      BY ScriptIsPart
    <2>5. QED
      BY <1>1, <1>2, <1>3, <2>1, <2>3, <2>4 DEF Stored, v
  <1>4. CASE k + 1 # Chunks
    <2>1. Piece(k + 1) = <<<<v, k + 1>>>>
      BY <1>4 DEF Piece
    <2>2. QED
      BY <1>1, <1>2, <1>4, <2>1 DEF Stored
  <1>5. QED
    BY <1>3, <1>4

(* The lowest free descriptor is free. *)
LEMMA LowestIsFree == Free # {} => Lowest \in Free
  <1> SUFFICES ASSUME Free # {}
               PROVE  Lowest \in Free
    OBVIOUS
  <1>1. Free \subseteq Nat
    BY DEF Free
  <1>2. PICK d \in Free : \A e \in Free : ~(<<e, d>> \in OpToRel(<, Nat))
    BY <1>1, WFMin, NatLessThanWellFounded
  <1>3. \A e \in Free : d <= e
    <2> SUFFICES ASSUME NEW e \in Free, e < d
                 PROVE  FALSE
      BY <1>1
    <2>1. <<e, d>> \in Nat \X Nat /\ <<e, d>>[1] < <<e, d>>[2]
      BY <1>1
    <2>2. <<e, d>> \in OpToRel(<, Nat)
      BY <2>1, Zenon DEF OpToRel
    <2>3. QED
      BY <1>2, <2>2
  <1>4. QED
    BY <1>3 DEF Lowest

-----------------------------------------------------------------------------
(* What a step does to descriptors and files.                              *)

LEMMA TakeHolds ==
  ASSUME Shapes, Free # {}, NEW who \in {"http", "duk", "script"}, NEW n \in Names, Take(who, n)
  PROVE  /\ Lowest \in 1..MaxFiles /\ table'[Lowest] # None
         /\ table'[Lowest].who = who /\ table'[Lowest].name = n
         /\ \A w, d : Holds(w, d) => table'[d] = table[d]
  <1>1. Lowest \in 1..MaxFiles /\ table[Lowest] = None
    BY LowestIsFree DEF Free
  <1>2. table'[Lowest] = [who |-> who, name |-> n]
    BY <1>1 DEF Shapes, Take
  <1>3. [who |-> who, name |-> n] # None
    BY WebFilesAssumption DEF Names
  <1>4. \A w, d : Holds(w, d) => table'[d] = table[d]
    BY <1>1 DEF Shapes, Take, Holds
  <1>5. QED
    BY <1>1, <1>2, <1>3, <1>4

LEMMA CloseHolds ==
  ASSUME Shapes, NEW fd, Close(fd)
  PROVE  \A w, d : Holds(w, d) /\ d # fd => table'[d] = table[d]
  BY CloseOthers DEF Holds

LEMMA StoreChanges ==
  ASSUME Uploads, NEW n \in Names, NEW content, NEW upload, Store(n, content, upload)
  PROVE  /\ DOMAIN fs' = Names /\ DOMAIN last' = Names
         /\ fs'[n] = content /\ last'[n] = upload
         /\ \A m \in Names \ {n} : fs'[m] = fs[m] /\ last'[m] = last[m]
         /\ quiet' => quiet /\ n # name
  BY DEF Uploads, Store, name

LEMMA UnlinkHolds ==
  ASSUME Shapes, NEW n \in Names, Unlink(n)
  PROVE  \A w, d : Holds(w, d) => /\ d \in 1..MaxFiles /\ table'[d] # None /\ table'[d].who = w
                                  /\ table[d].name # n => table'[d] = table[d]
  <1> SUFFICES ASSUME NEW w, NEW d, Holds(w, d)
               PROVE  /\ d \in 1..MaxFiles /\ table'[d] # None /\ table'[d].who = w
                      /\ table[d].name # n => table'[d] = table[d]
    OBVIOUS
  <1>1. /\ d \in 1..MaxFiles /\ table[d] # None /\ table[d].who = w
        /\ table[d] \in [who : {"http", "duk", "script"}, name : Names \cup {Gone}]
    BY DEF Holds, Shapes, Descriptors
  <1>2. table'[d] = IF table[d].name = n THEN [table[d] EXCEPT !.name = Gone] ELSE table[d]
    BY <1>1 DEF Unlink, Shapes
  <1>3. /\ [table[d] EXCEPT !.name = Gone] \in [who : {"http", "duk", "script"}, name : Names \cup {Gone}]
        /\ [table[d] EXCEPT !.name = Gone].who = table[d].who
    BY <1>1
  <1>4. None \notin [who : {"http", "duk", "script"}, name : Names \cup {Gone}]
    <2>1. Names \cup {Gone} = {"main.js", "recovery.js", "deleted"}
      BY DEF Names, Gone
    <2>2. QED
      BY <2>1, WebFilesAssumption
  <1>5. QED
    BY <1>1, <1>2, <1>3, <1>4

(* What a step of somebody else leaves alone. *)
LEMMA UploadStays ==
  ASSUME NEW m \in Names, Upload(m), fs'[m] = fs[m], last'[m] = last[m],
         Uploading(m)' => Uploading(m) /\ http'.v = http.v /\ http'.got = http.got
  PROVE  Upload(m)'
  BY DEF Upload, Stored, Part

LEMMA LoadedStays ==
  ASSUME Loaded, UNCHANGED duk, quiet' => quiet,
         quiet' /\ Whole(name)' => /\ Whole(name) /\ last'[name].v = last[name].v
                                   /\ duk.at \in {"seek", "read"} /\ table[duk.fd].name = name =>
                                        table'[duk.fd].name = name
  PROVE  Loaded'
  <1>1. name' = name
    BY DEF name
  <1>2. duk'.at \in {"open", "seek"} => duk'.buf = <<>>
    BY DEF Loaded
  <1>3. ASSUME quiet', Whole(name)'
        PROVE  /\ duk'.at \in {"seek", "read"} => table'[duk'.fd].name = name'
               /\ duk'.at = "read" =>
                    /\ duk'.size = Chunks + 1
                    /\ \E k \in 0..(Chunks + 1) : duk'.buf = Part(last'[name'].v, k)
               /\ duk'.at = "eval" => duk'.buf = Part(last'[name'].v, Chunks)
    <2>1. quiet /\ Whole(name) /\ last'[name'].v = last[name].v
      BY <1>1, <1>3
    <2>2. QED
      BY <1>1, <1>3, <2>1 DEF Loaded
  <1>4. QED
    BY <1>2, <1>3 DEF Loaded, Part

LEMMA InitRInv == Init => RInv
  <1> SUFFICES ASSUME Init
               PROVE  RInv
    OBVIOUS
  <1> USE WebFilesAssumption DEF Init, Idle, Fresh
  <1>1. Held /\ Counted
    BY DEF Held, Counted
  <1>2. ASSUME NEW n \in Names PROVE Upload(n)
    <2>1. fs[n] = Part(Image, Chunks + 1)
      BY ScriptIsPart
    <2>2. last[n] = [v |-> Image, done |-> TRUE] /\ ~Uploading(n)
      BY DEF Uploading
    <2>3. QED
      BY <2>1, <2>2 DEF Upload
  <1>3. Uploads
    BY <1>2 DEF Uploads
  <1>4. Loaded
    BY DEF Loaded
  <1>5. QED
    BY <1>1, <1>3, <1>4 DEF RInv

LEMMA HttpKeepsFiles ==
  ASSUME IInv, RInv, HttpStep \/ HttpRequest \/ ClientEnds
  PROVE  RInv'
  <1> USE WebFilesAssumption DEF Idle
  <1>0. Shapes /\ Held /\ Counted /\ Uploads /\ Loaded /\ name \in Names
    BY DEF IInv, RInv, Shapes, name, LoadFiles, Names
  <1>1. ASSUME NEW n \in Names, GetOpen(n) PROVE RInv'
    <2> USE <1>1 DEF GetOpen, Request
    <2>1. /\ Lowest \in 1..MaxFiles /\ table'[Lowest] # None /\ table'[Lowest].who = "http"
          /\ \A w, d : Holds(w, d) => table'[d] = table[d]
      BY <1>0, TakeHolds
    <2>2. Held'
      BY <1>0, <2>1 DEF Held, Holds
    <2>3. Counted'
      BY DEF Counted
    <2>4. Uploads'
      <3>1. ASSUME NEW m \in Names PROVE Upload(m)'
        <4>1. ~Uploading(m)'
          BY DEF Uploading
        <4>2. QED
          BY <1>0, <4>1, UploadStays DEF Uploads, history
      <3>2. QED
        BY <1>0, <3>1 DEF Uploads, history
    <2>5. Loaded'
      BY <1>0, <2>1, LoadedStays DEF Whole, Held, history, name
    <2>6. QED
      BY <2>2, <2>3, <2>4, <2>5 DEF RInv
  <1>2. ASSUME NEW n \in Names, NEW v \in Versions, PostOpen(n, v) PROVE RInv'
    <2> USE <1>2 DEF PostOpen, Request
    <2>1. /\ Lowest \in 1..MaxFiles /\ table'[Lowest] # None /\ table'[Lowest].who = "http"
          /\ \A w, d : Holds(w, d) => table'[d] = table[d]
      BY <1>0, TakeHolds
    <2>2. Held'
      BY <1>0, <2>1 DEF Held, Holds
    <2>3. Counted'
      BY DEF Counted
    <2>4. /\ DOMAIN fs' = Names /\ DOMAIN last' = Names
          /\ fs'[n] = <<>> /\ last'[n] = [v |-> v, done |-> FALSE]
          /\ \A m \in Names \ {n} : fs'[m] = fs[m] /\ last'[m] = last[m]
          /\ quiet' => quiet /\ n # name
      BY <1>0, StoreChanges
    <2>5. Uploads'
      <3>1. Upload(n)'
        <4>1. <<>> = Stored(v, 0)
          BY DEF Stored, Part
        <4>2. http'.v = v /\ http'.got = 0
          OBVIOUS
        <4>3. fs'[n] = Stored(http.v, http.got)'
          BY <2>4, <4>1, <4>2 DEF Stored, Part
        <4>4. QED
          BY <2>4, <4>2, <4>3 DEF Upload
      <3>2. ASSUME NEW m \in Names \ {n} PROVE Upload(m)'
        <4>1. ~Uploading(m)'
          BY DEF Uploading
        <4>2. QED
          BY <1>0, <2>4, <4>1, UploadStays DEF Uploads
      <3>3. QED
        BY <2>4, <3>1, <3>2 DEF Uploads
    <2>6. Loaded'
      BY <1>0, <2>1, <2>4, LoadedStays DEF Whole, Held, name
    <2>7. QED
      BY <2>2, <2>3, <2>5, <2>6 DEF RInv
  <1>3. ASSUME NEW n \in Names, ControlDelete(n) PROVE RInv'
    <2> USE <1>3 DEF ControlDelete, Unlink
    <2>1. /\ DOMAIN fs' = Names /\ DOMAIN last' = Names /\ last'[n] = None
          /\ \A m \in Names \ {n} : fs'[m] = fs[m] /\ last'[m] = last[m]
          /\ quiet' => quiet /\ n # name
      BY <1>0, StoreChanges
    <2>2. \A w, d : Holds(w, d) => /\ d \in 1..MaxFiles /\ table'[d] # None /\ table'[d].who = w
                                   /\ table[d].name # n => table'[d] = table[d]
      BY <1>0, UnlinkHolds
    <2>3. Held' /\ Counted'
      <3>1. \A w, d : Holds(w, d) => d \in 1..MaxFiles /\ table'[d] # None /\ table'[d].who = w
        BY <2>2
      <3>2. QED
        BY <1>0, <3>1, SMTT(60) DEF Held, Holds, Counted
    <2>4. Uploads'
      <3>1. ASSUME NEW m \in Names PROVE Upload(m)'
        <4>1. CASE m = n
          BY <2>1, <4>1 DEF Upload
        <4>2. CASE m # n
          BY <1>0, <2>1, <4>2, UploadStays DEF Uploads, Uploading
        <4>3. QED
          BY <4>1, <4>2
      <3>2. QED
        BY <2>1, <3>1 DEF Uploads
    <2>5. Loaded'
      BY <1>0, <2>1, <2>2, LoadedStays, ZenonT(60) DEF Whole, Held, name
    <2>6. QED
      BY <2>3, <2>4, <2>5 DEF RInv
  <1>4. CASE ControlReset \/ ClientEnds
    <2> USE <1>4 DEF ControlReset, ClientEnds, Request
    <2>1. /\ UNCHANGED <<fs, table, duk, history>>
          /\ http'.at = http.at /\ http'.fd = http.fd /\ http'.name = http.name
          /\ http'.v = http.v /\ http'.got = http.got
      BY <1>0 DEF Shapes
    <2>2. Held' /\ Counted'
      BY <1>0, <2>1 DEF Held, Holds, Counted
    <2>3. Uploads'
      <3>1. ASSUME NEW m \in Names PROVE Upload(m)'
        BY <1>0, <2>1, UploadStays DEF Uploads, Uploading, history
      <3>2. QED
        BY <1>0, <2>1, <3>1 DEF Uploads, history
    <2>4. Loaded'
      BY <1>0, <2>1, LoadedStays DEF Whole, history, name
    <2>5. QED
      BY <2>2, <2>3, <2>4 DEF RInv
  <1>5. CASE PostRecv
    <2> DEFINE n == http.name
               k == http.got + 1
    <2> USE <1>5 DEF PostRecv
    <2>1. /\ n \in Names /\ http.got \in Nat /\ http.got < Chunks /\ k \in 1..Chunks
          /\ http'.got = k /\ http'.name = n /\ http'.v = http.v /\ http'.fd = http.fd
          /\ http'.at = IF k = Chunks THEN "close" ELSE "recv"
          /\ UNCHANGED <<table, duk>>
      BY <1>0 DEF Counted, Shapes
    <2>2. Held'
      BY <1>0, <2>1 DEF Held, Holds
    <2>3. Counted'
      BY <2>1 DEF Counted
    <2>4. \A m \in Names \ {n} : ~Uploading(m)'
      BY <2>1 DEF Uploading
    <2>5. CASE Store(n, fs[n] \o Piece(k), last[n])
      <3>1. /\ DOMAIN fs' = Names /\ DOMAIN last' = Names
            /\ fs'[n] = fs[n] \o Piece(k) /\ last'[n] = last[n]
            /\ \A m \in Names \ {n} : fs'[m] = fs[m] /\ last'[m] = last[m]
            /\ quiet' => quiet /\ n # name
        BY <1>0, <2>1, <2>5, StoreChanges
      <3>2. Upload(n)'
        <4>1. Uploading(n) /\ Upload(n)
          BY <1>0, <2>1 DEF Uploading, Uploads
        <4>2. Stored(http.v, http.got) \o Piece(k) = Stored(http.v, k)
          BY <2>1, PieceFollows
        <4>3. Stored(http.v, http.got)' = Stored(http.v, k)
          BY <2>1, SMTT(60) DEF Stored, Part
        <4>4. last[n] # None => fs'[n] = Stored(http.v, http.got)'
          BY <3>1, <4>1, <4>2, <4>3 DEF Upload
        <4>5. QED
          BY <2>1, <3>1, <4>1, <4>4 DEF Upload
      <3>3. ASSUME NEW m \in Names \ {n} PROVE Upload(m)'
        BY <1>0, <2>4, <3>1, UploadStays DEF Uploads
      <3>4. Uploads'
        BY <3>1, <3>2, <3>3 DEF Uploads
      <3>5. Loaded'
        BY <1>0, <2>1, <3>1, LoadedStays DEF Whole, name
      <3>6. QED
        BY <2>2, <2>3, <3>4, <3>5 DEF RInv
    <2>6. CASE last' = [last EXCEPT ![n] = None] /\ UNCHANGED <<fs, quiet, undef>>
      <3>1. /\ DOMAIN last' = Names /\ last'[n] = None
            /\ \A m \in Names \ {n} : last'[m] = last[m]
        BY <1>0, <2>1, <2>6 DEF Uploads
      <3>2. Upload(n)'
        BY <3>1 DEF Upload
      <3>3. ASSUME NEW m \in Names \ {n} PROVE Upload(m)'
        BY <1>0, <2>4, <2>6, <3>1, UploadStays DEF Uploads
      <3>4. Uploads'
        BY <1>0, <2>6, <3>1, <3>2, <3>3 DEF Uploads
      <3>5. Loaded'
        BY <1>0, <2>1, <2>6, <3>1, LoadedStays DEF Whole, name
      <3>6. QED
        BY <2>2, <2>3, <3>4, <3>5 DEF RInv
    <2>7. QED
      BY <2>5, <2>6
  <1>6. CASE PostError \/ HttpClose
    <2> USE <1>6 DEF PostError, HttpClose
    <2>1. /\ Close(http.fd) /\ http' = Idle /\ UNCHANGED <<fs, duk, quiet>> /\ http.at # "idle"
          /\ http.name \in Names
      BY <1>0 DEF history, Counted
    <2>2. \A w, d : Holds(w, d) /\ d # http.fd => table'[d] = table[d]
      BY <1>0, <2>1, CloseHolds
    <2>3. duk.at \in {"seek", "read"} => duk.fd # http.fd
      BY <1>0, <2>1 DEF Held, Holds
    <2>4. Held' /\ Counted'
      BY <1>0, <2>1, <2>2, <2>3 DEF Held, Holds, Counted
    <2>5. \A m \in Names : ~Uploading(m)'
      BY <2>1 DEF Uploading
    <2>6. CASE last' = last
      <3>1. ASSUME NEW m \in Names PROVE Upload(m)'
        BY <1>0, <2>1, <2>5, <2>6, UploadStays DEF Uploads
      <3>2. Uploads'
        BY <1>0, <2>1, <2>6, <3>1 DEF Uploads
      <3>3. Loaded'
        BY <1>0, <2>1, <2>2, <2>3, <2>6, LoadedStays DEF Whole, Held, name
      <3>4. QED
        BY <2>4, <3>2, <3>3 DEF RInv
    <2>7. CASE /\ HttpClose /\ http.got # 0 /\ last[http.name] # None
               /\ last' = [last EXCEPT ![http.name].done = TRUE]
      <3>0. PICK n \in Names : n = http.name
        BY <2>1
      <3> USE <3>0
      <3>1. Uploading(n) /\ Upload(n) /\ http.got = Chunks
        BY <1>0, <2>1, <2>7 DEF Uploading, Uploads, Counted
      <3>2. last[n] = [v |-> last[n].v, done |-> last[n].done] /\ fs[n] = Part(last[n].v, Chunks + 1)
        BY <2>7, <3>1 DEF Upload, Stored
      <3>3. /\ DOMAIN last' = Names /\ last'[n] = [v |-> last[n].v, done |-> TRUE]
            /\ \A m \in Names \ {n} : last'[m] = last[m]
        BY <1>0, <2>1, <2>7, <3>2 DEF Uploads
      <3>4. Upload(n)'
        BY <2>1, <2>5, <3>2, <3>3 DEF Upload, Part
      <3>5. ASSUME NEW m \in Names \ {n} PROVE Upload(m)'
        BY <1>0, <2>1, <2>5, <3>3, UploadStays DEF Uploads
      <3>6. Uploads'
        BY <1>0, <2>1, <3>3, <3>4, <3>5 DEF Uploads
      <3>7. Loaded'
        <4>1. Whole(name)' => Whole(name) /\ last'[name].v = last[name].v
          <5>1. name' = name /\ fs' = fs
            BY <2>1 DEF name
          <5>2. last'[name].v = last[name].v /\ (last'[name] # None => last[name] # None)
            BY <1>0, <2>7, <3>3
          <5>3. Whole(name)' <=> last'[name] # None /\ fs[name] = Part(last'[name].v, Chunks + 1)
            BY <5>1 DEF Whole, Part
          <5>4. QED
            BY <5>2, <5>3 DEF Whole
        <4>2. duk.at \in {"seek", "read"} => table'[duk.fd] = table[duk.fd]
          BY <1>0, <2>2, <2>3 DEF Held
        <4>3. QED
          BY <1>0, <2>1, <4>1, <4>2, LoadedStays
      <3>8. QED
        BY <2>4, <3>6, <3>7 DEF RInv
    <2>8. QED
      BY <2>6, <2>7 DEF history
  <1>7. QED
    BY <1>1, <1>2, <1>3, <1>4, <1>5, <1>6 DEF HttpStep, HttpRequest

LEMMA DukKeepsFiles ==
  ASSUME IInv, RInv, DukStep
  PROVE  RInv'
  <1> USE WebFilesAssumption DEF Fresh
  <1>0. Shapes /\ Held /\ Counted /\ Uploads /\ Loaded /\ name \in Names
    BY DEF IInv, RInv, Shapes, name, LoadFiles, Names
  <1>1. UNCHANGED <<fs, http, last>> => Counted' /\ Uploads'
    <2> SUFFICES ASSUME UNCHANGED <<fs, http, last>>
                 PROVE  Counted' /\ Uploads'
      OBVIOUS
    <2>1. ASSUME NEW m \in Names PROVE Upload(m)'
      BY <1>0, UploadStays DEF Uploads, Uploading
    <2>2. QED
      BY <1>0, <2>1 DEF Counted, Uploads
  <1>2. LoadFails => duk'.at = "open" /\ duk'.buf = <<>> /\ Loaded'
    BY DEF LoadFails, Loaded
  <1>3. CASE LoadOpen
    <2> USE <1>3 DEF LoadOpen
    <2>1. CASE LoadFails /\ UNCHANGED table
      <3>1. Held'
        BY <1>0, <1>2, <2>1 DEF Held, Holds
      <3>2. QED
        BY <1>1, <1>2, <2>1, <3>1 DEF RInv
    <2>2. CASE Free # {} /\ Take("duk", name) /\ duk' = [duk EXCEPT !.at = "seek", !.fd = Lowest]
      <3>1. /\ Lowest \in 1..MaxFiles /\ table'[Lowest] # None
            /\ table'[Lowest].who = "duk" /\ table'[Lowest].name = name
            /\ \A w, d : Holds(w, d) => table'[d] = table[d]
        BY <1>0, <2>2, TakeHolds
      <3>2. /\ duk'.at = "seek" /\ duk'.fd = Lowest /\ duk'.buf = <<>>
            /\ duk'.index = duk.index
        BY <1>0, <2>2 DEF Shapes, Loaded
      <3>3. Held'
        BY <1>0, <3>1, <3>2 DEF Held, Holds
      <3>4. Loaded'
        BY <3>1, <3>2 DEF Loaded, name
      <3>5. QED
        BY <1>1, <3>3, <3>4 DEF RInv
    <2>3. QED
      BY <2>1, <2>2
  <1>4. CASE LoadSize
    <2> USE <1>4 DEF LoadSize
    <2>1. CASE LoadFails /\ Close(duk.fd)
      <3>1. \A w, d : Holds(w, d) /\ d # duk.fd => table'[d] = table[d]
        BY <1>0, <2>1, CloseHolds
      <3>2. http.at # "idle" => http.fd # duk.fd
        BY <1>0 DEF Held, Holds
      <3>3. Held'
        BY <1>0, <1>2, <2>1, <3>1, <3>2 DEF Held, Holds
      <3>4. QED
        BY <1>1, <1>2, <2>1, <3>3 DEF RInv, history
    <2>2. CASE /\ duk' = [duk EXCEPT !.at = "read", !.size = Length(table[duk.fd].name)]
               /\ UNCHANGED table
      <3>1. /\ duk'.at = "read" /\ duk'.fd = duk.fd /\ duk'.buf = <<>>
            /\ duk'.index = duk.index /\ duk'.size = Length(table[duk.fd].name)
        BY <1>0, <2>2 DEF Shapes, Loaded
      <3>2. Held'
        BY <1>0, <2>2, <3>1 DEF Held, Holds
      <3>3. ASSUME quiet, Whole(name)
            PROVE  /\ table[duk.fd].name = name /\ duk'.size = Chunks + 1
                   /\ duk'.buf = Part(last[name].v, 0)
        <4>1. table[duk.fd].name = name /\ name # Gone
          BY <1>0, <3>3 DEF Loaded, Names, Gone
        <4>2. Len(fs[name]) = Chunks + 1
          <5>1. Chunks + 1 \in Nat
            OBVIOUS
          <5>2. QED
            BY <3>3, <5>1, PartIsSeq DEF Whole
        <4>3. <<>> = Part(last[name].v, 0)
          BY DEF Part
        <4>4. QED
          BY <3>1, <4>1, <4>2, <4>3 DEF Length
      <3>4. Loaded'
        <4>1. name' = name /\ UNCHANGED <<fs, last, quiet>>
          BY <3>1 DEF name, history
        <4>2. 0 \in 0..(Chunks + 1)
          OBVIOUS
        <4>3. Whole(name)' => Whole(name)
          BY <4>1 DEF Whole, Part
        <4>4. quiet' /\ Whole(name)' =>
                /\ table'[duk'.fd].name = name' /\ duk'.size = Chunks + 1
                /\ \E k \in 0..(Chunks + 1) : duk'.buf = Part(last'[name'].v, k)
          BY <2>2, <3>1, <3>3, <4>1, <4>2, <4>3
        <4>5. QED
          BY <3>1, <4>4 DEF Loaded, Part
      <3>5. QED
        BY <1>1, <3>2, <3>4 DEF RInv, history
    <2>3. QED
      BY <2>1, <2>2
  <1>5. CASE LoadRead
    <2> USE <1>5 DEF LoadRead
    <2>1. /\ duk'.at = "read" /\ duk'.fd = duk.fd /\ duk'.size = duk.size
          /\ duk'.buf = Append(duk.buf, fs[name][Len(duk.buf) + 1])
          /\ duk'.index = duk.index /\ name' = name /\ UNCHANGED <<fs, table, last, quiet>>
      BY <1>0 DEF Shapes, history, name
    <2>2. Held'
      BY <1>0, <2>1 DEF Held, Holds
    <2>3. ASSUME quiet, Whole(name)
          PROVE  /\ table[duk.fd].name = name /\ duk.size = Chunks + 1
                 /\ \E k \in 0..(Chunks + 1) : duk'.buf = Part(last[name].v, k)
      <3> DEFINE v == last[name].v
      <3>1. PICK k \in 0..(Chunks + 1) : duk.buf = Part(v, k)
        BY <1>0, <2>3 DEF Loaded
      <3>2. table[duk.fd].name = name /\ duk.size = Chunks + 1
        BY <1>0, <2>3 DEF Loaded
      <3>3. k \in Nat /\ Len(duk.buf) = k
        <4>1. k \in Nat
          OBVIOUS
        <4>2. Len(Part(v, k)) = k
          BY <4>1, PartIsSeq
        <4>3. QED
          BY <3>1, <4>1, <4>2
      <3>4. k + 1 \in 0..(Chunks + 1)
        BY <3>2, <3>3 DEF More
      <3>5. fs[name][k + 1] = IF k + 1 <= Chunks THEN <<v, k + 1>> ELSE NewLine
        BY <2>3, <3>3, <3>4 DEF Whole, Part
      <3>6. duk'.buf = Part(v, k + 1)
        BY <2>1, <3>1, <3>3, <3>5, PartGrows, ZenonT(60)
      <3>7. QED
        BY <3>2, <3>4, <3>6
    <2>4. Loaded'
      <3>1. Whole(name)' => Whole(name)
        BY <2>1 DEF Whole, Part
      <3>2. quiet' /\ Whole(name)' =>
              /\ table'[duk'.fd].name = name' /\ duk'.size = Chunks + 1
              /\ \E k \in 0..(Chunks + 1) : duk'.buf = Part(last'[name'].v, k)
        BY <2>1, <2>3, <3>1
      <3>3. QED
        BY <2>1, <3>2 DEF Loaded, Part
    <2>5. QED
      BY <1>1, <2>2, <2>4 DEF RInv, history
  <1>6. CASE LoadClose
    <2> USE <1>6 DEF LoadClose
    <2>1. \A w, d : Holds(w, d) /\ d # duk.fd => table'[d] = table[d]
      BY <1>0, CloseHolds
    <2>2. http.at # "idle" => http.fd # duk.fd
      BY <1>0 DEF Held, Holds
    <2>3. duk'.at \in {"open", "eval"}
      BY <1>0, <1>2 DEF Shapes
    <2>4. Held'
      BY <1>0, <2>1, <2>2, <2>3 DEF Held, Holds
    <2>5. CASE LoadFails
      BY <1>1, <1>2, <2>4, <2>5 DEF RInv
    <2>6. CASE /\ ~(Len(duk.buf) < duk.size)
               /\ duk' = [duk EXCEPT !.at = "eval", !.fd = 0,
                                     !.buf = IF @ = <<>> THEN @ ELSE Front(@)]
      <3>1. /\ duk'.at = "eval" /\ duk'.index = duk.index
            /\ duk'.buf = IF duk.buf = <<>> THEN duk.buf ELSE Front(duk.buf)
            /\ name' = name
        BY <1>0, <2>6 DEF Shapes, name
      <3>2. ASSUME quiet, Whole(name)
            PROVE  duk'.buf = Part(last[name].v, Chunks)
        <4> DEFINE v == last[name].v
        <4>1. PICK k \in 0..(Chunks + 1) : duk.buf = Part(v, k)
          BY <1>0, <3>2 DEF Loaded
        <4>2. duk.size = Chunks + 1
          BY <1>0, <3>2 DEF Loaded
        <4>3. k \in Nat /\ Len(duk.buf) = k
          <5>1. k \in Nat
            OBVIOUS
          <5>2. Len(Part(v, k)) = k
            BY <5>1, PartIsSeq
          <5>3. QED
            BY <4>1, <5>1, <5>2
        <4>4. k = Chunks + 1
          BY <2>6, <4>2, <4>3
        <4>5. duk.buf # <<>>
          BY <4>3, <4>4
        <4>6. QED
          BY <3>1, <4>1, <4>4, <4>5, ScriptIsPart
      <3>3. Loaded'
        <4>1. Whole(name)' => Whole(name)
          BY <3>1 DEF Whole, Part
        <4>2. quiet' /\ Whole(name)' => duk'.buf = Part(last'[name'].v, Chunks)
          BY <3>1, <3>2, <4>1
        <4>3. QED
          BY <3>1, <4>2 DEF Loaded, Part
      <3>4. QED
        BY <1>1, <2>4, <3>3 DEF RInv
    <2>7. QED
      BY <2>5, <2>6
  <1>7. CASE LoadEval \/ ServerStopped
    <2>1. UNCHANGED <<fs, table, http, last>> /\ duk'.at \in {"open", "run"}
      BY <1>0, <1>2, <1>7 DEF LoadEval, ServerStopped, Shapes, history
    <2>2. Held'
      BY <1>0, <2>1 DEF Held, Holds
    <2>3. Loaded'
      BY <1>0, <1>2, <1>7, <2>1 DEF LoadEval, ServerStopped, Loaded, Shapes
    <2>4. QED
      BY <1>1, <2>1, <2>2, <2>3 DEF RInv
  <1>8. QED
    BY <1>3, <1>4, <1>5, <1>6, <1>7 DEF DukStep

LEMMA ApplicationKeepsFiles ==
  ASSUME IInv, RInv, Application
  PROVE  RInv'
  <1> USE WebFilesAssumption
  <1>0. Shapes /\ Held /\ Counted /\ Uploads /\ Loaded /\ name \in Names
    BY DEF IInv, RInv, Shapes, name, LoadFiles, Names
  <1>1. ASSUME UNCHANGED <<http, duk>>, duk.at = "run",
               \A w, d : Holds(w, d) /\ w # "script" =>
                 d \in 1..MaxFiles /\ table'[d] # None /\ table'[d].who = w
        PROVE  Held' /\ Counted' /\ Loaded'
    BY <1>0, <1>1 DEF Held, Holds, Counted, Loaded
  <1>2. ASSUME UNCHANGED <<http, fs, last>>
        PROVE  Uploads'
    <2>1. ASSUME NEW m \in Names PROVE Upload(m)'
      BY <1>0, <1>2, UploadStays DEF Uploads, Uploading
    <2>2. QED
      BY <1>0, <1>2, <2>1 DEF Uploads
  <1>3. ASSUME NEW n \in Names, NEW content, Store(n, content, None), UNCHANGED http
        PROVE  Uploads'
    <2>1. /\ DOMAIN fs' = Names /\ DOMAIN last' = Names /\ last'[n] = None
          /\ \A m \in Names \ {n} : fs'[m] = fs[m] /\ last'[m] = last[m]
      BY <1>0, <1>3, StoreChanges
    <2>2. ASSUME NEW m \in Names PROVE Upload(m)'
      <3>1. CASE m = n
        BY <2>1, <3>1 DEF Upload
      <3>2. CASE m # n
        BY <1>0, <1>3, <2>1, <3>2, UploadStays DEF Uploads, Uploading
      <3>3. QED
        BY <3>1, <3>2
    <2>3. QED
      BY <2>1, <2>2 DEF Uploads
  <1>4. ASSUME NEW n \in Names, ScriptUnlink(n) PROVE RInv'
    <2>1. Unlink(n) /\ Store(n, None, None) /\ UNCHANGED <<http, duk>> /\ duk.at = "run"
      BY <1>4 DEF ScriptUnlink, Unlink
    <2>2. \A w, d : Holds(w, d) => d \in 1..MaxFiles /\ table'[d] # None /\ table'[d].who = w
      BY <1>0, <2>1, UnlinkHolds
    <2>3. Held' /\ Counted' /\ Loaded'
      BY <1>1, <2>1, <2>2
    <2>4. Uploads'
      BY <1>3, <2>1
    <2>5. QED
      BY <2>3, <2>4 DEF RInv
  <1>5. ASSUME NEW n \in Names, NEW flags \in Flags, ScriptOpen(n, flags) PROVE RInv'
    <2>1. Free # {} /\ Take("script", n) /\ UNCHANGED <<http, duk>> /\ duk.at = "run"
      BY <1>5 DEF ScriptOpen
    <2>2. \A w, d : Holds(w, d) => table'[d] = table[d]
      BY <1>0, <2>1, TakeHolds
    <2>3. \A w, d : Holds(w, d) => d \in 1..MaxFiles /\ table'[d] # None /\ table'[d].who = w
      BY <2>2 DEF Holds
    <2>4. Held' /\ Counted' /\ Loaded'
      BY <1>1, <2>1, <2>3
    <2>5. Uploads'
      BY <1>2, <1>3, <1>5, <2>1 DEF ScriptOpen, history
    <2>6. QED
      BY <2>4, <2>5 DEF RInv
  <1>6. ASSUME NEW d \in 1..MaxFiles, ScriptWrite(d) PROVE RInv'
    <2>1. PICK n : n = table[d].name
      OBVIOUS
    <2>2. /\ Store(n, Append(fs[n], Data), None) /\ UNCHANGED <<table, http, duk>>
          /\ duk.at = "run"
      BY <1>6, <2>1 DEF ScriptWrite
    <2>3. n \in Names
      BY <1>0, <1>6, <2>1 DEF ScriptWrite, Scripts, Shapes, Descriptors
    <2>4. Held' /\ Counted' /\ Loaded'
      BY <1>1, <2>2 DEF Holds
    <2>5. Uploads'
      BY <1>3, <2>2, <2>3
    <2>6. QED
      BY <2>4, <2>5 DEF RInv
  <1>7. ASSUME NEW d \in 1..MaxFiles, ScriptClose(d) PROVE RInv'
    <2>1. /\ Close(d) /\ UNCHANGED <<http, duk, fs, last>> /\ duk.at = "run"
          /\ table[d].who = "script"
      BY <1>7 DEF ScriptClose, Scripts, history
    <2>2. \A w, e : Holds(w, e) /\ e # d => table'[e] = table[e]
      BY <1>0, <2>1, CloseHolds
    <2>3. \A w, e : Holds(w, e) /\ w # "script" =>
            e \in 1..MaxFiles /\ table'[e] # None /\ table'[e].who = w
      BY <2>1, <2>2 DEF Holds
    <2>4. Held' /\ Counted' /\ Loaded'
      BY <1>1, <2>1, <2>3
    <2>5. QED
      BY <1>2, <2>1, <2>4 DEF RInv
  <1>8. CASE (\E mode \in {"ro", "rw"} : ServerStart(mode)) \/ ServerStop \/ Restart
    <2>1. /\ UNCHANGED <<table, http, fs, last>> /\ duk'.at \in {"run", "stop", "open"}
          /\ duk'.at = "open" => duk'.buf = <<>>
      BY <1>0, <1>8 DEF ServerStart, ServerStop, Restart, Shapes, Fresh, history
    <2>2. Held' /\ Counted' /\ Loaded'
      BY <1>0, <2>1 DEF Held, Holds, Counted, Loaded
    <2>3. QED
      BY <1>2, <2>1, <2>2 DEF RInv
  <1>9. QED
    BY <1>4, <1>5, <1>6, <1>7, <1>8 DEF Application

(* duk_init runs what was uploaded, for any number of pieces, descriptors  *)
(* and versions: an upload that was answered with "OK" is whole, and a     *)
(* script is only run as it was read to the end of the file.               *)
THEOREM RunsWhatWasUploaded == Spec => []RunsTheUpload
  <1>1. IInv /\ RInv /\ [Next]_vars => RInv'
    <2>1. ASSUME RInv, UNCHANGED vars
          PROVE  RInv'
      <3>1. UNCHANGED <<fs, table, http, duk, last, quiet>> /\ UNCHANGED name
        BY <2>1 DEF vars, history, name
      <3>2. Held' /\ Counted'
        BY <2>1, <3>1 DEF RInv, Held, Holds, Counted
      <3>3. ASSUME NEW m \in Names PROVE Upload(m)'
        BY <2>1, <3>1, UploadStays DEF RInv, Uploads, Uploading
      <3>4. Loaded'
        BY <2>1, <3>1, LoadedStays DEF RInv, Whole, Part
      <3>5. QED
        BY <2>1, <3>1, <3>2, <3>3, <3>4 DEF RInv, Uploads
    <2>2. QED
      BY <2>1, HttpKeepsFiles, DukKeepsFiles, ApplicationKeepsFiles DEF Next
  <1>2. IInv /\ RInv => RunsTheUpload
    <2> SUFFICES ASSUME IInv, RInv, duk.at = "eval", quiet, last[name] # None, last[name].done
                 PROVE  duk.buf = Script(last[name].v)
      BY DEF RunsTheUpload
    <2>1. name \in Names
      BY DEF IInv, Shapes, name, LoadFiles, Names
    <2>2. Whole(name)
      BY <2>1 DEF RInv, Uploads, Upload, Whole
    <2>3. QED
      BY <2>2, ScriptIsPart DEF RInv, Loaded
  <1>3. Spec => []RInv
    BY InitRInv, <1>1, Invariance, PTL DEF Spec
  <1>4. QED
    BY <1>2, <1>3, Invariance, PTL
=============================================================================
