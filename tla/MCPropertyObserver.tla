-------------------------- MODULE MCPropertyObserver --------------------------
(***************************************************************************)
(* Two observers, each with or without a format, of a property that has a  *)
(* value or has none, and changes twice.                                   *)
(***************************************************************************)
EXTENDS PropertyObserver
===============================================================================
