----------------------------- MODULE MCAudioOutput ----------------------------
(***************************************************************************)
(* More samples than fit. For the callback: two planes, and requests for   *)
(* less and for more than there can be. For the thread: a device of two    *)
(* samples in one period, so that a single one stays in the buffer, and    *)
(* a write that fails.                                                     *)
(***************************************************************************)
EXTENDS AudioOutput
===============================================================================
