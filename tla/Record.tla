------------------------------- MODULE Record -------------------------------
(***************************************************************************)
(* Frames cut into pieces that fit a notification or a write, and put      *)
(* together again (main/record.c).  A frame is its identity, its length    *)
(* and its head, the two bytes in which the first piece announces the      *)
(* length.                                                                 *)
(***************************************************************************)
EXTENDS Integers, Sequences

CONSTANT Base  \* a byte is below, 256

ASSUME RecordAssumption == Base \in Nat /\ Base > 1

LenBytes == 2

(* The two lowest bytes of a length as record_send puts them, the lower    *)
(* one first, and the length that record_add takes from two bytes.         *)
LengthBytes(len) == <<len % Base, (len \div Base) % Base>>

LengthOf(head) == head[1] + head[2] * Base

Smaller(m, n) == IF m < n THEN m ELSE n

(* n bytes of a frame with its head in front, beginning with byte from.    *)
Piece(frame, from, n) == [frame |-> frame, from |-> from, n |-> n]

-----------------------------------------------------------------------------
(* record_send: the sizes of the pieces of a frame.                        *)

FirstSize(len, recordSize) == Smaller(len + LenBytes, recordSize)

NextSize(len, cur, recordSize) == Smaller(recordSize, len - cur)

(* Fault: the rest of a frame that does not fill a piece is forgotten. *)
NumRecordsFull(len, recordSize) == (len + LenBytes) \div recordSize

NumRecords(len, recordSize) ==
  LET total == len + LenBytes IN
  total \div recordSize + (IF total % recordSize > 0 THEN 1 ELSE 0)

-----------------------------------------------------------------------------
(* record_add, record_complete and record_get.  A record is the announced  *)
(* length, the number of bytes so far and the pieces they come from.       *)

EmptyRecord == [len |-> 0, cur |-> 0, pieces |-> <<>>]

Added(r, piece) == [r EXCEPT !.cur = @ + piece.n, !.pieces = Append(@, piece)]
First(piece, cur) == [len |-> LengthOf(piece.frame.head), cur |-> cur, pieces |-> <<piece>>]

(* Fault: the two bytes of the length are counted. *)
RecordAddCountsLength(r, piece) ==
  IF r.len = 0 THEN First(piece, piece.n)
  ELSE IF r.len >= r.cur + piece.n THEN Added(r, piece) ELSE r

(* Fault: a piece that fits exactly is dropped. *)
RecordAddTooStrict(r, piece) ==
  IF r.len = 0 THEN First(piece, piece.n - LenBytes)
  ELSE IF r.len > r.cur + piece.n THEN Added(r, piece) ELSE r

(* The piece is taken for the first of a frame if nothing is there yet.    *)
RecordAdd(r, piece) ==
  IF r.len = 0 THEN First(piece, piece.n - LenBytes)
  ELSE IF r.len >= r.cur + piece.n THEN Added(r, piece) ELSE r

RecordComplete(r) == r.len = r.cur

RecordGet(r) == EmptyRecord

(* What the pieces of a record amount to: a frame, if they are all the     *)
(* pieces of one and in order, and otherwise None.                         *)
FrameOf(r, None) ==
  LET p == r.pieces
      End(k) == p[k].from + p[k].n
  IN IF /\ p # <<>> /\ p[1].from = 0
        /\ End(Len(p)) = p[1].frame.len + LenBytes
        /\ \A k \in 1..(Len(p) - 1) :
             p[k + 1].frame = p[1].frame /\ p[k + 1].from = End(k)
     THEN p[1].frame ELSE None
=============================================================================
