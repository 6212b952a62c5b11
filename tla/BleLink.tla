------------------------------ MODULE BleLink ------------------------------
(***************************************************************************)
(* Frames over Bluetooth (main/ble_server.c, main/record.c): a client      *)
(* writes the pieces of its frames, the board puts them together and hands *)
(* them to the application; the board's own frames go out as notifications.*)
(* The link may break at any time, and another client may come.            *)
(*                                                                         *)
(* What happens on the link reaches ble_server.c as events that a task of  *)
(* the Bluetooth stack handles one by one; duktape_task sends meanwhile,   *)
(* piece by piece, with the connection and the MTU that those events have  *)
(* told.  The stack and the clients are external: a client keeps to the    *)
(* protocol, but for the byte order of lengths, which may be that of       *)
(* docs/BLE.md; the stack delivers what it accepts, in order, if the link  *)
(* is up, and refuses pieces whenever it likes (when it is congested).     *)
(***************************************************************************)
EXTENDS Record, FiniteSets, SequencesExt

CONSTANTS
  DefaultMtu,      \* 23
  Mtus,            \* the MTUs that clients ask for
  ClientLengths,   \* the lengths of the frames of clients
  BoardLengths,    \* ... and of the application
  PieceSizes,      \* the sizes of the pieces that clients write, but for a last piece
  MaxFrames,       \* bound: frames from clients, and frames to clients
  MaxConnections,  \* bound: connections
  MaxEvents,       \* bound: events that the stack has yet to report
  None

ASSUME BleLinkAssumption ==
  /\ DefaultMtu \in Nat /\ DefaultMtu > 5 + LenBytes
  /\ \A mtu \in Mtus : mtu \in Nat /\ mtu > DefaultMtu
  /\ ClientLengths \cup BoardLengths \subseteq Nat
  /\ PieceSizes \subseteq Nat /\ \A n \in PieceSizes : n >= LenBytes
  /\ MaxFrames \in Nat /\ MaxConnections \in Nat /\ MaxEvents \in Nat

Lengths == ClientLengths \cup BoardLengths
Bytes == 0..(Base - 1)
Frames == [id : 1..MaxFrames, len : Lengths, head : Bytes \X Bytes]

ASSUME NoneAssumption ==
  /\ None \notin Frames
  /\ None \notin [frame : Frames, from : Nat]
  /\ None \notin [frame : Frames, cur : Nat, recordSize : Nat, toGo : Nat]

VARIABLES
  link,         \* is it up, its MTU, the number of the connection, and whether the
                \* client has lengths in network byte order
  advertising,  \* clients can connect
  events,       \* what the stack has yet to report, oldest first
  connected,    \* flux_is_connected
  mtuSize,      \* flux_mtu_size
  record,       \* recv_record
  received,     \* the frames handed to the application (None: not a frame of a client)
  told,         \* the last UI_CONNECTED (TRUE) or UI_DISCONNECTED event
  sending,      \* record_send: the frame, its bytes sent, records to go; or None
  client,       \* the client: the frame it is writing and the bytes written; or None
  clientRecord, \* the frame the client is receiving
  written,      \* history: the frames clients have written
  sent,         \* history: the frames the application has sent
  got,          \* history: the frames clients have received
  cut,          \* history: a client did not write a frame as the board reads it: the
                \* link broke within it, or its head is in network byte order
  abandoned,    \* history: the rest of a frame for the client that is there was refused
  torn          \* history: a client has taken a piece for what it is not

board == <<connected, mtuSize, record, received, told>>
bleVars == <<link, advertising, events, connected, mtuSize, record, received, told,
             sending, client, clientRecord, written, sent, got, cut, abandoned, torn>>

BleInit ==
  /\ link = [up |-> FALSE, mtu |-> DefaultMtu, number |-> 0, network |-> FALSE]
  /\ advertising = TRUE
  /\ events = <<>>
  /\ connected = FALSE
  /\ mtuSize = DefaultMtu
  /\ record = EmptyRecord
  /\ received = <<>>
  /\ told = FALSE
  /\ sending = None
  /\ client = None
  /\ clientRecord = EmptyRecord
  /\ written = <<>> /\ sent = <<>> /\ got = <<>>
  /\ cut = FALSE /\ abandoned = FALSE /\ torn = FALSE

-----------------------------------------------------------------------------
(* Clients.                                                                *)

Report(event) == Len(events) < MaxEvents /\ events' = Append(events, event)

Connect(network) ==
  /\ ~link.up /\ advertising
  /\ link.number < MaxConnections
  /\ link' = [up |-> TRUE, mtu |-> DefaultMtu, number |-> link.number + 1, network |-> network]
  /\ advertising' = FALSE
  /\ Report([type |-> "connect"])
  /\ clientRecord' = EmptyRecord
  /\ UNCHANGED <<board, sending, client, written, sent, got, cut, abandoned, torn>>

(* The client leaves, or is out of reach. *)
Disconnect ==
  /\ link.up
  /\ link' = [link EXCEPT !.up = FALSE]
  /\ Report([type |-> "disconnect"])
  /\ client' = None
  /\ cut' = (cut \/ client # None)
  /\ abandoned' = FALSE
  /\ UNCHANGED <<board, advertising, sending, clientRecord, written, sent, got, torn>>

(* Once per connection. *)
ExchangeMtu(mtu) ==
  /\ link.up /\ link.mtu = DefaultMtu
  /\ link' = [link EXCEPT !.mtu = mtu]
  /\ Report([type |-> "mtu", mtu |-> mtu])
  /\ UNCHANGED <<board, advertising, sending, client, clientRecord, written, sent, got, cut,
                 abandoned, torn>>

(* A piece of n bytes, of which a frame's first has at least the length.   *)
WritePiece(frame, from, n) ==
  /\ link.up
  /\ from + n # frame.len + LenBytes => n \in PieceSizes
  /\ n <= link.mtu - 3
  /\ Report([type |-> "write", piece |-> Piece(frame, from, n)])
  /\ client' = IF from + n = frame.len + LenBytes THEN None
               ELSE [frame |-> frame, from |-> from + n]
  /\ written' = IF client' = None THEN Append(written, frame) ELSE written
  /\ cut' = (cut \/ LengthOf(frame.head) # frame.len)
  /\ UNCHANGED <<link, board, advertising, sending, clientRecord, sent, got, abandoned, torn>>

(* docs/BLE.md wants the length in network byte order. *)
NetworkOrder(head) == <<head[2], head[1]>>

ClientFrame(len) ==
  [id |-> Len(written) + 1, len |-> len,
   head |-> IF link.network THEN NetworkOrder(LengthBytes(len)) ELSE LengthBytes(len)]

(* No client writes a frame that is too long to be announced. *)
WriteFirst ==
  /\ client = None /\ Len(written) < MaxFrames
  /\ \E len \in ClientLengths : \E n \in LenBytes..(len + LenBytes) :
       len < Base * Base /\ WritePiece(ClientFrame(len), 0, n)

WriteNext ==
  /\ client # None
  /\ \E n \in 1..(client.frame.len + LenBytes - client.from) :
       WritePiece(client.frame, client.from, n)

-----------------------------------------------------------------------------
(* ble_server.c: the events.                                               *)

Event(type) ==
  /\ events # <<>> /\ Head(events).type = type
  /\ events' = Tail(events)
  /\ UNCHANGED <<link, sending, client, clientRecord, written, sent, got, cut, abandoned, torn>>

OnConnect ==
  /\ Event("connect")
  /\ connected' = TRUE
  /\ told' = TRUE
  /\ UNCHANGED <<advertising, mtuSize, record, received>>

(* Fault: a client that has left is not reported. *)
OnDisconnectSilent ==
  /\ Event("disconnect")
  /\ connected' = FALSE
  /\ advertising' = TRUE
  /\ UNCHANGED <<told, mtuSize, record, received>>

(* Neither the record nor the MTU is reset. *)
OnDisconnect ==
  /\ Event("disconnect")
  /\ connected' = FALSE
  /\ told' = FALSE
  /\ advertising' = TRUE
  /\ UNCHANGED <<mtuSize, record, received>>

OnMtu ==
  /\ Event("mtu")
  /\ mtuSize' = Head(events).mtu
  /\ UNCHANGED <<advertising, connected, record, received, told>>

(* A piece that is not a frame's first, taken for one, announces an        *)
(* accidental length; a piece that is longer than the length it announces  *)
(* is copied behind the end of the buffer.  The model ends there.          *)
Misread ==
  /\ events # <<>> /\ Head(events).type = "write" /\ record.len = 0
  /\ LET piece == Head(events).piece IN
       piece.from # 0 \/ piece.n - LenBytes > LengthOf(piece.frame.head)

OnWrite ==
  /\ Event("write")
  /\ ~Misread
  /\ LET r == RecordAdd(record, Head(events).piece) IN
       IF RecordComplete(r)
       THEN record' = RecordGet(r) /\ received' = Append(received, FrameOf(r, None))
       ELSE record' = r /\ UNCHANGED received
  /\ UNCHANGED <<advertising, connected, mtuSize, told>>

-----------------------------------------------------------------------------
(* duktape_task: ble_server_send.                                          *)

(* The frames whose length the client reads as it is meant: it fits into   *)
(* two bytes, which are the same in the byte order of the client.          *)
Legible(frame) ==
  /\ LengthOf(frame.head) = frame.len
  /\ link.network => NetworkOrder(frame.head) = frame.head

(* A piece comes to the client that is there; what becomes of one that     *)
(* the link's MTU does not allow is open.                                  *)
Arrives(frame, from, n) ==
  LET r == RecordAdd(clientRecord, Piece(frame, from, n))
      first == clientRecord.len = 0
      astray == \/ n > link.mtu - 3
                \/ first # (from = 0)
                \/ first /\ ~Legible(frame)
  IN /\ torn' = (torn \/ astray)
     /\ IF torn' THEN UNCHANGED <<clientRecord, got>>
        ELSE IF RecordComplete(r)
        THEN clientRecord' = EmptyRecord /\ got' = Append(got, FrameOf(r, None))
        ELSE clientRecord' = r /\ UNCHANGED got

(* send_function, for one piece, which the stack takes, though it is lost  *)
(* without a client, or refuses.                                           *)
Notify(frame, from, n, taken) ==
  /\ abandoned' = (abandoned \/ (~taken /\ link.up /\ from # 0 /\ clientRecord.len # 0))
  /\ IF taken /\ link.up THEN Arrives(frame, from, n)
     ELSE UNCHANGED <<clientRecord, got, torn>>

RecordSize == mtuSize - 5

(* record_send returns at once when a piece is refused. *)
SendFirst(len) ==
  /\ sending = None /\ Len(sent) < MaxFrames
  /\ connected
  /\ LET frame == [id |-> Len(sent) + 1, len |-> len, head |-> LengthBytes(len)]
         n == FirstSize(len, RecordSize)
         records == NumRecords(len, RecordSize)
     IN /\ sent' = Append(sent, frame)
        /\ \E taken \in BOOLEAN :
             /\ Notify(frame, 0, n, taken)
             /\ sending' = IF ~taken \/ records = 1 THEN None
                           ELSE [frame |-> frame, cur |-> n - LenBytes,
                                 recordSize |-> RecordSize, toGo |-> records - 1]
  /\ UNCHANGED <<link, board, advertising, events, client, written, cut>>

SendNext ==
  /\ sending # None
  /\ LET n == NextSize(sending.frame.len, sending.cur, sending.recordSize) IN
       \E taken \in BOOLEAN :
         /\ Notify(sending.frame, sending.cur + LenBytes, n, taken)
         /\ sending' = IF ~taken \/ sending.toGo = 1 THEN None
                       ELSE [sending EXCEPT !.cur = @ + n, !.toGo = @ - 1]
  /\ UNCHANGED <<link, board, advertising, events, client, written, sent, cut>>

-----------------------------------------------------------------------------

StackStep ==
  \/ OnConnect
  \/ OnDisconnect
  \/ OnMtu
  \/ OnWrite

(* The model also ends when its bounds are reached. *)
BleNext ==
  \/ \E network \in BOOLEAN : Connect(network)
  \/ Disconnect
  \/ \E mtu \in Mtus : ExchangeMtu(mtu)
  \/ WriteFirst
  \/ WriteNext
  \/ StackStep
  \/ \E len \in BoardLengths : SendFirst(len)
  \/ SendNext

BleSpec == BleInit /\ [][BleNext]_bleVars

(* The stack's task runs, and so does duktape_task. *)
BleFairness == WF_bleVars(StackStep) /\ WF_bleVars(SendNext)

FairBleSpec == BleSpec /\ BleFairness

-----------------------------------------------------------------------------
(* Properties.                                                             *)

(* Frames arrive whole, once and in order, in both directions, however     *)
(* they are cut into pieces and whatever else happens between two of them. *)
(* At the application they do until a link breaks within a frame or a      *)
(* client announces a length in network byte order; at the clients, until  *)
(* one takes a piece for what it is not: one of a frame for the client     *)
(* before, one that is too long for its MTU, the next frame behind one     *)
(* whose rest the stack refused, or a length that it reads otherwise.      *)
FramesInOrder ==
  /\ ~cut => IsPrefix(received, written)
  /\ ~torn => /\ ToSet(got) \subseteq ToSet(sent)
              /\ \A j, k \in DOMAIN got : j < k => got[j].id < got[k].id

(* The frame of which the client that is there has a part. *)
UnderWay ==
  IF sending # None /\ link.up /\ clientRecord.len # 0 THEN sending.frame ELSE None

Channel == INSTANCE FrameChannel WITH
  Frame <- Frames, Readable <- {f \in Frames : LengthOf(f.head) = f.len},
  up <- link.up, clients <- link.number, legible <- {f \in Frames : Legible(f)},
  underWay <- UnderWay

(* The pieces of frames, however they are cut, add up to what FrameChannel *)
(* promises: besides FramesInOrder, that a frame that the stack takes for  *)
(* a client that stays is got by it before the next one is sent, as the    *)
(* number of its pieces is exact, and that nothing is torn but for a       *)
(* second client, a refused piece within a frame, or an illegible length.  *)
ImplementsChannel == Channel!ChannelSpec

(* A frame that was written reaches the application, unless a link breaks  *)
(* within a frame or a client announces a length in network byte order as  *)
(* docs/BLE.md:9 says; such a frame never does (but for a length whose two *)
(* bytes are the same).                                                    *)
FrameArrives ==
  /\ \A n \in 1..MaxFrames : Len(written) >= n ~> (Len(received) >= n \/ cut)
  /\ [](\A f \in ToSet(received) \ {None} : LengthOf(f.head) = f.len)

(* The application learns whether a client is there, however connections   *)
(* and their ends follow each other.                                       *)
ConnectionIsTold ==
  \A up \in BOOLEAN : <>Misread \/ ((<>[](link.up = up)) => (<>[](told = up)))
=============================================================================
