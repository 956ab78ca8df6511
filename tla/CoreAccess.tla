------------------------------ MODULE CoreAccess ------------------------------
(***************************************************************************)
(* What a dispatch queue promises to its users (misc/dispatch.c, and the   *)
(* comments on its entry points): the state of the target thread has one   *)
(* user at a time, and the work queued for the target thread is done in    *)
(* the order it was queued in, all of it before the target thread goes on  *)
(* with its own code.                                                      *)
(***************************************************************************)
EXTENDS Sequences, Withdrawal

CONSTANTS
  Clients,    (* threads that want access to the state of the target *)
  Target,     (* the thread that owns the queue                      *)
  Items       (* what can be queued                                  *)

VARIABLES
  user,       (* who may touch the state of the target thread *)
  pending     (* the work not yet started, oldest first       *)

\* The target waits for something to do, and nobody uses its state.
Nobody == "nobody"

\* A queued callback runs, on the target thread.
Callback == "callback"

TargetUses == "target"

Init ==
  /\ user = TargetUses
  /\ pending = <<>>

\* Any thread may queue work at any time.
Submit(i) ==
  /\ pending' = Append(pending, i)
  /\ UNCHANGED user

\* The target can withdraw some of the queued work; the rest keeps its order.
Withdraw(S) ==
  /\ pending' \in Without(pending, S)
  /\ UNCHANGED user

\* A client gets the state only while nobody uses it.
Grab(c) ==
  /\ user = Nobody
  /\ user' = c
  /\ UNCHANGED pending

Drop(c) ==
  /\ user = c
  /\ user' = Nobody
  /\ UNCHANGED pending

\* The oldest item is the next to run, never while a client uses the state.
Start ==
  /\ user \notin Clients
  /\ pending # <<>>
  /\ user' = Callback
  /\ pending' = Tail(pending)

\* The target stops using its state, or waits again after a callback.
Park ==
  /\ user \in {TargetUses, Callback}
  /\ user' = Nobody
  /\ UNCHANGED pending

\* The target goes on with its own code: no queued work is left behind.
Return ==
  /\ user \in {Callback, Nobody}
  /\ pending = <<>>
  /\ user' = TargetUses
  /\ UNCHANGED pending

Next ==
  \/ \E i \in Items : Submit(i)
  \/ \E S \in SUBSET Items : Withdraw(S)
  \/ \E c \in Clients : Grab(c) \/ Drop(c)
  \/ Start
  \/ Park
  \/ Return

vars == <<user, pending>>

Spec == Init /\ [][Next]_vars
===============================================================================
