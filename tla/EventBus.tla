------------------------------ MODULE EventBus ------------------------------
(***************************************************************************)
(* What the event queue of the JavaScript runtime promises to the tasks    *)
(* that post to it: an event is handled at most once, in the order of its  *)
(* posting, by the application that was running when it was posted or by   *)
(* none.  Events still pending when an application is torn down are        *)
(* thrown away, all of them, before the next application runs.             *)
(*                                                                         *)
(* DukMain implements this specification; it is not a translation of code. *)
(***************************************************************************)
EXTENDS Naturals, Sequences, Functions

CONSTANTS
  Message,   \* the events a task can post
  None       \* no event

VARIABLES
  pending,   \* the events posted and not yet handled, oldest first
  inHand,    \* the event being handled, or None
  old,       \* how many pending events predate the current application
  clearing   \* events are thrown away: the application has been torn down

busVars == <<pending, inHand, old, clearing>>

BusInit ==
  /\ pending = <<>>
  /\ inHand = None
  /\ old = 0
  /\ clearing = FALSE

InUse == Range(pending) \cup {inHand}

(* A task posts an event. *)
BusPost ==
  /\ \E m \in Message \ InUse : pending' = Append(pending, m)
  /\ UNCHANGED <<inHand, old, clearing>>

(* The application is given the oldest event, ... *)
BusTake ==
  /\ ~clearing
  /\ inHand = None
  /\ pending # <<>>
  /\ inHand' = Head(pending)
  /\ pending' = Tail(pending)
  /\ UNCHANGED <<old, clearing>>

(* ... and is done with it. *)
BusFinish ==
  /\ inHand # None
  /\ inHand' = None
  /\ UNCHANGED <<pending, old, clearing>>

(* The application is torn down: every pending event has become old. *)
BusTearDown ==
  /\ inHand = None
  /\ clearing' = TRUE
  /\ old' = Len(pending)
  /\ UNCHANGED <<pending, inHand>>

(* While no application runs events are thrown away, the old ones first. *)
BusDiscard ==
  /\ clearing
  /\ pending # <<>>
  /\ pending' = Tail(pending)
  /\ old' = IF old > 0 THEN old - 1 ELSE 0
  /\ UNCHANGED <<inHand, clearing>>

(* The next application starts once no old event is left. *)
BusStart ==
  /\ clearing
  /\ old = 0
  /\ clearing' = FALSE
  /\ UNCHANGED <<pending, inHand, old>>

(* A reboot of the board loses everything. *)
BusReboot ==
  /\ pending' = <<>>
  /\ inHand' = None
  /\ old' = 0
  /\ clearing' = FALSE

BusNext ==
  \/ BusPost
  \/ BusTake
  \/ BusFinish
  \/ BusTearDown
  \/ BusDiscard
  \/ BusStart
  \/ BusReboot

BusSpec == BusInit /\ [][BusNext]_busVars
=============================================================================
