------------------------------ MODULE MCShutdown ------------------------------
(***************************************************************************)
(* A small core: the main handle, a weak one that has an asynchronous      *)
(* command, and a command that nobody waits for. With room for three       *)
(* events no queue overflows.                                              *)
(***************************************************************************)
EXTENDS Shutdown
===============================================================================
