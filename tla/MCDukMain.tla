----------------------------- MODULE MCDukMain ------------------------------
(***************************************************************************)
(* A small instance of DukMain for TLC.  Two producers are enough for one  *)
(* to add an event between another's add and wake; three blocks let an     *)
(* event be in hand while two wait, one of them from the previous          *)
(* application.                                                            *)
(***************************************************************************)
EXTENDS DukMain

MCProducers == {"lora_isr_recv_task", "websocket_server"}
MCCells == 1..3
=============================================================================
