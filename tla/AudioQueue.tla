------------------------------ MODULE AudioQueue ------------------------------
(***************************************************************************)
(* What an audio output promises to the player (the comments on ao_play,   *)
(* ao_reset, ao_pause and ao_read_data in audio/out/ao.c and pull.c): a    *)
(* queue of samples of bounded size, which the device takes in order, each *)
(* one once and for all channels together, and only while playing.         *)
(***************************************************************************)
EXTENDS Naturals, Sequences

VARIABLES
  capacity,   (* samples that fit                                       *)
  accepted,   (* samples taken from the player; they are numbered from 1 *)
  queue,      (* accepted, and neither played nor dropped               *)
  heard,      (* what the device has got                                *)
  playing

Init ==
  /\ capacity \in Nat
  /\ accepted = 0
  /\ queue = <<>>
  /\ heard = <<>>
  /\ playing \in BOOLEAN

Accept(n) ==
  /\ Len(queue) + n <= capacity
  /\ accepted' = accepted + n
  /\ queue' = queue \o [i \in 1..n |-> accepted + i]
  /\ playing' \in {playing, TRUE}
  /\ UNCHANGED heard

Take(n) ==
  /\ playing /\ n <= Len(queue)
  /\ heard' = heard \o SubSeq(queue, 1, n)
  /\ queue' = SubSeq(queue, n + 1, Len(queue))
  /\ UNCHANGED <<accepted, playing>>

Start ==
  /\ playing' = TRUE
  /\ UNCHANGED <<accepted, queue, heard>>

Stop ==
  /\ playing' = FALSE
  /\ UNCHANGED <<accepted, queue, heard>>

Clear ==
  /\ playing' \in BOOLEAN
  /\ queue' = <<>>
  /\ UNCHANGED <<accepted, heard>>

Next ==
  /\ UNCHANGED capacity
  /\ \/ \E n \in 1..capacity : Accept(n) \/ Take(n)
     \/ Start \/ Stop \/ Clear

Spec == Init /\ [][Next]_<<capacity, accepted, queue, heard, playing>>
===============================================================================
