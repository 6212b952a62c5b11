---------------------------- MODULE FrameChannel ----------------------------
(***************************************************************************)
(* What Bluetooth promises to the application and to its clients, who come *)
(* one after the other: frames arrive whole, once and in order.  A frame   *)
(* of a client's is received until a link breaks within one, or the length *)
(* of one is not readable.  A frame for a client is got by the client that *)
(* is there when it is sent, or begun and then got before the next one is  *)
(* sent, unless that client leaves; it is lost then, and no other client   *)
(* ever gets it.  A frame may also be refused, as a whole or after it was  *)
(* begun, and is abandoned then.  A frame may be torn only for a second    *)
(* client or later, behind one that was abandoned, or if its length is not *)
(* legible to the client; what clients get after that is open.             *)
(*                                                                         *)
(* BleLink implements this specification; it is not a translation of code. *)
(***************************************************************************)
EXTENDS Naturals, Sequences, Functions

CONSTANTS
  Frame,     \* the frames
  Readable,  \* those whose length the board reads as it is meant
  None       \* no frame

VARIABLES
  up,        \* a client is there
  clients,   \* how many clients have come
  written,   \* the frames that clients have written
  received,  \* what the application has received
  cut,       \* a link broke within a frame of a client's, or one was not readable
  sent,      \* the frames that the application has sent
  legible,   \* the frames whose length the client that is there reads as it is meant
  underWay,  \* the frame that the client has begun to get, or None
  abandoned, \* the client has begun to get a frame that it will not get
  got,       \* the frames that clients have got
  torn       \* a frame for a client was torn

inVars == <<written, received>>
outVars == <<sent, underWay, abandoned, got, torn>>
channelVars == <<up, clients, legible, cut, inVars, outVars>>

ChannelInit ==
  /\ up = FALSE /\ clients = 0 /\ legible \subseteq Frame
  /\ written = <<>> /\ received = <<>> /\ cut = FALSE
  /\ sent = <<>> /\ underWay = None /\ got = <<>> /\ abandoned = FALSE /\ torn = FALSE

Come ==
  /\ ~up
  /\ up' = TRUE
  /\ clients' = clients + 1
  /\ legible' \subseteq Frame
  /\ UNCHANGED <<cut, inVars, outVars>>

(* A client leaves, and with it the frame that it was getting. *)
Leave ==
  /\ up
  /\ up' = FALSE
  /\ cut' \in {cut, TRUE}
  /\ underWay' = None /\ abandoned' = FALSE
  /\ UNCHANGED <<clients, legible, inVars, sent, got, torn>>

Write(f) ==
  /\ up /\ f \notin Range(written)
  /\ written' = Append(written, f)
  /\ cut' = (cut \/ f \notin Readable)
  /\ UNCHANGED <<up, clients, legible, received, outVars>>

(* The first piece of a frame that is not readable is written. *)
Misannounce ==
  /\ up /\ Readable # Frame
  /\ cut' = TRUE
  /\ UNCHANGED <<up, clients, legible, inVars, outVars>>

(* The application receives the next frame. *)
Receive(f) ==
  /\ ~cut => Len(received) < Len(written) /\ f = written[Len(received) + 1]
  /\ received' = Append(received, f)
  /\ UNCHANGED <<up, clients, legible, cut, written, outVars>>

(* What the client that is there can read, behind whole frames. *)
Taken(f) == up /\ f \in legible /\ ~abandoned

(* A frame is sent when none is under way.  The client gets it at once, or *)
(* begins to; without a client, or if it is refused, it is lost.           *)
Send(f) ==
  /\ underWay = None /\ f \notin Range(sent)
  /\ sent' = Append(sent, f)
  /\ \/ Taken(f) /\ got' = Append(got, f) /\ UNCHANGED underWay
     \/ Taken(f) /\ underWay' = f /\ UNCHANGED got
     \/ UNCHANGED <<underWay, got>>
  /\ UNCHANGED <<up, clients, legible, cut, inVars, abandoned, torn>>

(* The client that began to get a frame has got it. *)
Get ==
  /\ underWay # None /\ up
  /\ got' = Append(got, underWay)
  /\ underWay' = None
  /\ UNCHANGED <<up, clients, legible, cut, inVars, sent, abandoned, torn>>

(* The rest of it is refused. *)
Abandon ==
  /\ underWay # None /\ up
  /\ underWay' = None /\ abandoned' = TRUE
  /\ UNCHANGED <<up, clients, legible, cut, inVars, sent, got, torn>>

(* A frame is torn, and what becomes of the frames after that is open. *)
Tear ==
  /\ torn' = TRUE
  /\ \/ torn \/ clients > 1 \/ abandoned
     \/ \E f \in Frame \ legible : sent' = Append(sent, f)
  /\ \/ sent' = sent
     \/ \E f \in Frame : f \notin Range(sent) /\ sent' = Append(sent, f)
  /\ underWay' \in Frame \cup {None} /\ abandoned' \in BOOLEAN
  /\ UNCHANGED <<up, clients, legible, cut, inVars, got>>

ChannelNext ==
  \/ Come
  \/ Leave
  \/ \E f \in Frame : Write(f)
  \/ Misannounce
  \/ \E f \in Frame \cup {None} : Receive(f)
  \/ \E f \in Frame : Send(f)
  \/ Get
  \/ Abandon
  \/ Tear

ChannelSpec == ChannelInit /\ [][ChannelNext]_channelVars
=============================================================================
