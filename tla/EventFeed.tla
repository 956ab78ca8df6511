------------------------------- MODULE EventFeed -------------------------------
(***************************************************************************)
(* What a client handle promises about its events (libmpa/client.h and     *)
(* the comments in player/client.c): events arrive in the order they were  *)
(* sent in; a request that was accepted gets its reply, however full the   *)
(* queue becomes; and after events have been lost, none is accepted until  *)
(* the client has been told with an overflow event.                        *)
(***************************************************************************)
EXTENDS Naturals, Sequences, FiniteSets

CONSTANTS
  Events,     (* what can be sent without having been requested *)
  Requests,   (* asynchronous requests, each is made at most once *)
  Capacity    (* room for events and replies                    *)

VARIABLES
  feed,       (* sent and not yet received, oldest first        *)
  gap,        (* events have been lost and the client not told  *)
  promised    (* requests without their reply                   *)

Room == Len(feed) + Cardinality(promised) < Capacity

Init ==
  /\ feed = <<>>
  /\ gap = FALSE
  /\ promised = {}

Send(e) ==
  /\ ~gap /\ Room
  /\ feed' = Append(feed, e)
  /\ UNCHANGED <<gap, promised>>

\* An event is only lost if there is no room for it.
Lose ==
  /\ ~Room
  /\ gap' = TRUE
  /\ UNCHANGED <<feed, promised>>

Promise(r) ==
  /\ r \notin promised
  /\ ~gap /\ Room
  /\ promised' = promised \cup {r}
  /\ UNCHANGED <<feed, gap>>

\* The reply takes the room that was promised to it.
Reply(r) ==
  /\ r \in promised
  /\ promised' = promised \ {r}
  /\ feed' = Append(feed, r)
  /\ UNCHANGED gap

Receive ==
  /\ feed # <<>>
  /\ feed' = Tail(feed)
  /\ UNCHANGED <<gap, promised>>

\* The overflow event comes after everything that was not lost.
ReportGap ==
  /\ feed = <<>> /\ gap
  /\ gap' = FALSE
  /\ UNCHANGED <<feed, promised>>

\* The handle is destroyed; no request may be left without its reply.
Discard ==
  /\ promised = {}
  /\ feed' = <<>>
  /\ UNCHANGED <<gap, promised>>

Next ==
  \/ \E e \in Events : Send(e)
  \/ Lose
  \/ \E r \in Requests : Promise(r) \/ Reply(r)
  \/ Receive
  \/ ReportGap
  \/ Discard

vars == <<feed, gap, promised>>

Spec == Init /\ [][Next]_vars
===============================================================================
