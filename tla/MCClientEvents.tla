---------------------------- MODULE MCClientEvents ----------------------------
(***************************************************************************)
(* A ring buffer of two entries (1000 in the program), which two requests  *)
(* can reserve completely; MPV_EVENT_SHUTDOWN and one other event.         *)
(***************************************************************************)
EXTENDS ClientEvents
===============================================================================
