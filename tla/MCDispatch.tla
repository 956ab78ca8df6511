------------------------------ MODULE MCDispatch ------------------------------
(***************************************************************************)
(* Two clients and a target thread. The first client makes two calls (so   *)
(* that it also calls while it holds the lock, and calls again after a     *)
(* call has ended), the others make one each.                              *)
(***************************************************************************)
EXTENDS Dispatch

CONSTANTS c1, c2, target

CallBound == [t \in {c1, c2, target} |-> IF t = c1 THEN 2 ELSE 1]
===============================================================================
