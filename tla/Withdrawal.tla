------------------------------ MODULE Withdrawal ------------------------------
(***************************************************************************)
(* Taking queued items out of the middle of a queue.                       *)
(***************************************************************************)
EXTENDS Naturals, Sequences, FiniteSets

\* The strictly increasing functions from 1..Cardinality(K) onto K: there is
\* one for every finite set K of numbers.
InOrder(K) ==
  {f \in [1..Cardinality(K) -> K] :
     \A m, n \in 1..Cardinality(K) : m < n => f[m] < f[n]}

\* The queue q without the items of S, the others in their order (a set with
\* this queue as its one element).
Without(q, S) ==
  LET kept == {j \in 1..Len(q) : q[j] \notin S}
  IN  {[n \in 1..Cardinality(kept) |-> q[f[n]]] : f \in InOrder(kept)}
===============================================================================
