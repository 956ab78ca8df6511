------------------------------ MODULE PullOutput ------------------------------
(***************************************************************************)
(* Audio output to a device that calls for data (audio/out/pull.c), over   *)
(* one ring buffer for each plane (misc/ring.c). The player's thread and   *)
(* the device's callback share no lock: one action is one atomic access,   *)
(* or the copy between two of them. Positions count samples, not bytes.    *)
(***************************************************************************)
EXTENDS Integers, Sequences, FiniteSetsExt

CONSTANTS
  NumPlanes,    (* ao->num_planes                                           *)
  Size,         (* samples in each ring, ao->buffer                         *)
  Requests,     (* how many samples a callback may ask for                  *)
  Drivers,      (* "reset": can stop the callback; "no_reset": cannot;
                   "silence": with ao->stream_silence                       *)
  MaxSamples,   (* bound: samples the player has to play                    *)
  MaxCommands   (* bound: calls of ao_pause and ao_reset                    *)

PullOutputAssumption ==
  /\ NumPlanes \in Nat \ {0}
  /\ Size \in Nat \ {0}
  /\ Requests \subseteq Nat \ {0}
  /\ Drivers \subseteq {"reset", "no_reset", "silence"}
  /\ MaxSamples \in Nat
  /\ MaxCommands \in Nat

Planes == 0..(NumPlanes - 1)
LastPlane == NumPlanes - 1

VARIABLES
  mem, wpos, rpos,    (* p->buffers: contents and positions of each ring    *)
  state,              (* p->state: "none", "play" or "busy"                 *)
  draining,           (* p->draining                                        *)
  underflow,          (* p->underflow                                       *)
  driver, running,    (* the driver, and whether it calls the callback      *)

  call, pc,           (* the player: what it has called and where it is     *)
  samples, write,     (* play: what was given, and what is accepted of it   *)
  final,              (* play: AOPLAY_FINAL_CHUNK                           *)
  plane,              (* play, reset: the plane it works on                 *)
  saw_eof,            (* drain: it has seen the end, and not given up       *)
  next,               (* samples the player has handed over so far          *)
  core_paused,        (* mpctx->paused                                      *)
  woken,              (* the player has been woken, and looks at the AO     *)
  commands,           (* how many it has called, up to MaxCommands          *)

  cb_pc,              (* ao_read_data: where it is                          *)
  cb_plane,           (* the plane it works on                              *)
  want,               (* samples it has been asked for                      *)
  buffered, bytes,    (* its variables                                      *)
  data,               (* what it has copied of each plane                   *)
  heard               (* history: the samples the device has got            *)

rings == <<mem, wpos, rpos>>
control == <<state, draining, underflow>>
device == <<driver, running>>
playing == <<samples, write, final, plane, next>>
player == <<saw_eof, core_paused, commands>>
callback == <<cb_pc, cb_plane, want, buffered, bytes, data, heard>>

vars == <<rings, control, device, call, pc, playing, player, woken, callback>>

Init ==
  /\ mem = [p \in Planes |-> [i \in 0..(Size - 1) |-> 0]]
  /\ wpos = [p \in Planes |-> 0]
  /\ rpos = [p \in Planes |-> 0]
  /\ state = "none" /\ draining = FALSE /\ underflow = 0
  /\ driver \in Drivers
  /\ running = (driver = "silence")
  /\ call = "none" /\ pc = "idle"
  /\ samples = 0 /\ write = 0 /\ final = FALSE /\ plane = 0
  /\ next = 0 /\ saw_eof = FALSE /\ core_paused = FALSE /\ commands = 0
  /\ woken = TRUE
  /\ cb_pc = "idle" /\ cb_plane = 0 /\ want = 0
  /\ buffered = 0 /\ bytes = 0
  /\ data = [p \in Planes |-> <<>>]
  /\ heard = <<>>

(***************************************************************************)
(* The rings                                                               *)
(***************************************************************************)

Buffered(p) == wpos[p] - rpos[p]
Available(p) == Size - Buffered(p)

\* The places of n samples from a position on.
Slots(pos, n) == {(pos + i) % Size : i \in 0..(n - 1)}

\* The ring of plane p with n samples, numbered from first on, put at wpos.
Written(p, first, n) ==
  [s \in 0..(Size - 1) |->
     IF \E i \in 0..(n - 1) : s = (wpos[p] + i) % Size
     THEN first + (CHOOSE i \in 0..(n - 1) : s = (wpos[p] + i) % Size)
     ELSE mem[p][s]]

Readable(p, n) == [i \in 1..n |-> mem[p][(rpos[p] + i - 1) % Size]]

(***************************************************************************)
(* The player's thread                                                     *)
(***************************************************************************)

\* A free sample is free in all planes when it is in the last one.
SpaceOfFirst == Available(0)
Space == Available(LastPlane)

\* The player has decoded samples, and gives them to ao_play if there is
\* something to play. It sleeps again afterwards, until it is woken.
Play(n) ==
  /\ pc = "idle" /\ ~core_paused /\ woken
  /\ next + n <= MaxSamples
  /\ call' = "play" /\ pc' = "copy"
  /\ samples' = n
  /\ final' \in {FALSE, next + n = MaxSamples}
  /\ write' = Min({Space, n})
  /\ plane' = LastPlane
  /\ woken' = FALSE
  /\ UNCHANGED <<rings, control, device, next, player, callback>>

WriteCopy ==
  /\ pc = "copy"
  /\ mem' = [mem EXCEPT ![plane] =
                Written(plane, next + 1, Min({write, Available(plane)}))]
  /\ pc' = "publish"
  /\ UNCHANGED <<wpos, rpos, control, device, call, playing, player, woken,
                 callback>>

WritePublish ==
  /\ pc = "publish"
  /\ wpos' = [wpos EXCEPT ![plane] = @ + write]
  /\ IF plane > 0
     THEN /\ plane' = plane - 1
          /\ pc' = "copy"
          /\ next' = next
     ELSE /\ plane' = plane
          /\ pc' = "check"
          /\ next' = next + write
  /\ UNCHANGED <<mem, rpos, control, device, call, samples, write, final,
                 player, woken, callback>>

\* Only the player itself leaves or enters the state "none".
CheckState ==
  /\ pc = "check"
  /\ IF state = "none"
     THEN /\ draining' = FALSE /\ underflow' = 0
          /\ pc' = "set_play"
     ELSE /\ pc' = "flag"
          /\ UNCHANGED <<draining, underflow>>
  /\ UNCHANGED <<rings, state, device, call, playing, player, woken, callback>>

\* After a call of ao_pause, ao_resume or ao_reset the player looks again.
Return ==
  /\ pc' = "idle" /\ call' = "none"
  /\ woken' = TRUE

\* set_state waits for a callback to end.
SetPlay ==
  /\ pc = "set_play" /\ state # "busy"
  /\ state' = "play"
  /\ pc' = "start"
  /\ UNCHANGED <<rings, draining, underflow, device, call, playing, player,
                 woken, callback>>

StartDriver ==
  /\ pc = "start"
  /\ running' = TRUE       \* it already is with stream_silence
  /\ IF call = "play"
     THEN pc' = "flag" /\ UNCHANGED <<call, woken>>
     ELSE Return
  /\ UNCHANGED <<rings, control, driver, playing, player, callback>>

SetDraining ==
  /\ pc = "flag"
  /\ draining' = (write = samples /\ final)
  /\ pc' = "underflow"
  /\ samples' = 0 /\ write' = 0 /\ final' = FALSE
  /\ UNCHANGED <<rings, state, underflow, device, call, plane, next, player, woken,
                 callback>>

TakeUnderflow ==
  /\ pc = "underflow"
  /\ underflow' = 0
  /\ pc' = "idle" /\ call' = "none"
  /\ UNCHANGED <<rings, state, draining, device, playing, player, woken,
                 callback>>

\* The beginning of ao_pause and ao_reset, and the end of ao_drain.
BeginStop(c) ==
  /\ call' = c
  /\ pc' = IF driver = "reset" THEN "stop" ELSE "set_none"

Pause ==
  /\ pc = "idle" /\ ~core_paused /\ commands < MaxCommands
  /\ commands' = commands + 1
  /\ core_paused' = TRUE
  /\ BeginStop("pause")
  /\ UNCHANGED <<rings, control, device, playing, saw_eof, woken, callback>>

Reset ==
  /\ pc = "idle" /\ commands < MaxCommands
  /\ commands' = commands + 1
  /\ BeginStop("reset")
  /\ UNCHANGED <<rings, control, device, playing, saw_eof, core_paused, woken,
                 callback>>

Resume ==
  /\ pc = "idle" /\ core_paused
  /\ core_paused' = FALSE
  /\ call' = "resume" /\ pc' = "set_play"
  /\ UNCHANGED <<rings, control, device, playing, saw_eof, commands, woken,
                 callback>>

\* At the end of playback, before the AO is closed.
Drain ==
  /\ pc = "idle"
  /\ IF state # "none"
     THEN call' = "drain" /\ pc' = "poll" /\ draining' = TRUE
     ELSE BeginStop("drain") /\ UNCHANGED draining
  /\ UNCHANGED <<rings, state, underflow, device, playing, player, woken,
                 callback>>

\* It waits for the end as seen in the first plane, but not for ever.
DrainPoll ==
  /\ pc = "poll"
  /\ saw_eof' \in {FALSE, Buffered(0) = 0}
  /\ BeginStop("drain")
  /\ UNCHANGED <<rings, control, device, playing, core_paused, commands, woken,
                 callback>>

\* No callback begins after that; one that has begun may still be running.
StopDriver ==
  /\ pc = "stop"
  /\ running' = FALSE
  /\ pc' = "set_none"
  /\ UNCHANGED <<rings, control, driver, call, playing, player, woken, callback>>

SetNone ==
  /\ pc = "set_none" /\ state # "busy"
  /\ state' = "none"
  /\ IF call = "pause"
     THEN Return /\ UNCHANGED plane
     ELSE pc' = "reset_wpos" /\ plane' = 0 /\ UNCHANGED <<call, woken>>
  /\ UNCHANGED <<rings, draining, underflow, device, samples, write, final,
                 next, player, callback>>

ResetWpos ==
  /\ pc = "reset_wpos"
  /\ wpos' = [wpos EXCEPT ![plane] = 0]
  /\ pc' = "reset_rpos"
  /\ UNCHANGED <<mem, rpos, control, device, call, playing, player, woken,
                 callback>>

\* After ao_drain the player closes the AO.
ResetRpos ==
  /\ pc = "reset_rpos"
  /\ rpos' = [rpos EXCEPT ![plane] = 0]
  /\ IF plane < LastPlane
     THEN /\ pc' = "reset_wpos" /\ plane' = plane + 1
          /\ UNCHANGED <<call, woken, running>>
     ELSE /\ plane' = 0
          /\ IF call = "drain"
             THEN pc' = "closed" /\ running' = FALSE /\ UNCHANGED <<call, woken>>
             ELSE Return /\ UNCHANGED running
  /\ UNCHANGED <<mem, wpos, control, driver, samples, write, final, next,
                 player, callback>>

\* The player is woken for other reasons: data, a command, a timer.
Poke ==
  /\ ~woken /\ pc # "closed"
  /\ woken' = TRUE
  /\ UNCHANGED <<rings, control, device, call, pc, playing, player, callback>>

(***************************************************************************)
(* The callback: ao_read_data                                              *)
(***************************************************************************)

CbBeginAlways(n) ==
  /\ cb_pc = "idle" /\ running
  /\ state' = IF state = "play" THEN "busy" ELSE state
  /\ want' = n
  /\ cb_pc' = "load"
  /\ UNCHANGED <<rings, draining, underflow, device, call, pc, playing, player,
                 woken, cb_plane, buffered, bytes, data, heard>>

\* In other states it plays silence, which changes nothing.
CbBegin(n) ==
  /\ cb_pc = "idle" /\ running
  /\ state = "play"
  /\ state' = "busy"
  /\ want' = n
  /\ cb_pc' = "load"
  /\ UNCHANGED <<rings, draining, underflow, device, call, pc, playing, player,
                 woken, cb_plane, buffered, bytes, data, heard>>

CbLoad ==
  /\ cb_pc = "load"
  /\ buffered' = Buffered(0)
  /\ bytes' = Min({buffered', want})
  /\ cb_pc' = "count"
  /\ UNCHANGED <<rings, control, device, call, pc, playing, player, woken,
                 cb_plane, want, data, heard>>

CbCount ==
  /\ cb_pc = "count"
  /\ underflow' = IF buffered < bytes /\ ~draining
                  THEN underflow + bytes - buffered ELSE underflow
  /\ cb_plane' = 0
  /\ cb_pc' = "copy"
  /\ UNCHANGED <<rings, state, draining, device, call, pc, playing, player, woken,
                 want, buffered, bytes, data, heard>>

CbCopy ==
  /\ cb_pc = "copy"
  /\ bytes' = Min({bytes, Buffered(cb_plane)})
  /\ data' = [data EXCEPT ![cb_plane] = Readable(cb_plane, bytes')]
  /\ cb_pc' = "release"
  /\ UNCHANGED <<rings, control, device, call, pc, playing, player, woken,
                 cb_plane, want, buffered, heard>>

\* With the last plane the device has its samples for all channels.
CbRelease ==
  /\ cb_pc = "release"
  /\ rpos' = [rpos EXCEPT ![cb_plane] = @ + bytes]
  /\ IF cb_plane < LastPlane
     THEN /\ cb_plane' = cb_plane + 1
          /\ cb_pc' = "copy"
          /\ UNCHANGED <<data, heard>>
     ELSE /\ cb_plane' = 0
          /\ cb_pc' = "end"
          /\ data' = [p \in Planes |-> <<>>]
          /\ heard' = heard \o
               [i \in 1..bytes |-> [p \in Planes |-> data[p][i]]]
  /\ UNCHANGED <<mem, wpos, control, device, call, pc, playing, player, woken,
                 want, buffered, bytes>>

NeedWakeupAtHalf == buffered - bytes = Size \div 2

\* Half of the buffer played: request more.
NeedWakeup == buffered - bytes <= Size \div 2

CbEnd ==
  /\ cb_pc = "end"
  /\ state' = IF state = "busy" THEN "play" ELSE state
  /\ cb_pc' = IF NeedWakeup THEN "wake" ELSE "idle"
  /\ want' = 0 /\ buffered' = 0 /\ bytes' = 0
  /\ UNCHANGED <<rings, draining, underflow, device, call, pc, playing, player,
                 woken, cb_plane, data, heard>>

CbWake ==
  /\ cb_pc = "wake"
  /\ woken' = TRUE
  /\ cb_pc' = "idle"
  /\ UNCHANGED <<rings, control, device, call, pc, playing, player, cb_plane,
                 want, buffered, bytes, data, heard>>

(***************************************************************************)
(* The specification                                                       *)
(***************************************************************************)

PlayerStep ==
  \/ WriteCopy \/ WritePublish \/ CheckState \/ SetPlay \/ StartDriver
  \/ SetDraining \/ TakeUnderflow
  \/ DrainPoll \/ StopDriver \/ SetNone \/ ResetWpos \/ ResetRpos

CbStep ==
  CbLoad \/ CbCount \/ CbCopy \/ CbRelease \/ CbEnd \/ CbWake

Next ==
  \/ \E n \in 1..MaxSamples : Play(n)
  \/ Pause \/ Resume \/ Reset \/ Drain \/ Poke
  \/ PlayerStep
  \/ \E n \in Requests : CbBegin(n)
  \/ CbStep

Spec == Init /\ [][Next]_vars

\* The player goes on when it has been woken and has samples, and the device
\* goes on calling while it runs. set_state polls, and does not only look while
\* there is a callback, as these take a small part of the time. Nobody has to
\* pause, resume, reset or close.
Fairness ==
  /\ WF_vars(PlayerStep) /\ SF_vars(SetNone)
  /\ WF_vars(\E n \in 1..MaxSamples : Play(n))
  /\ WF_vars(CbStep)
  /\ WF_vars(\E n \in Requests : CbBegin(n))

FairSpec == Spec /\ Fairness

(***************************************************************************)
(* Properties                                                              *)
(***************************************************************************)

PlayerAt == {"idle", "copy", "publish", "check", "set_play", "start", "flag",
             "underflow", "poll", "stop", "set_none", "reset_wpos", "reset_rpos",
             "closed"}

\* Types, and the bounds of what is in a ring or in flight: neither position
\* overtakes the other, except between the two stores of mp_ring_reset.
TypeOK ==
  /\ mem \in [Planes -> [0..(Size - 1) -> 0..MaxSamples]]
  /\ wpos \in [Planes -> Nat] /\ rpos \in [Planes -> Nat]
  /\ \A p \in Planes :
       (pc = "reset_rpos" /\ p = plane) \/ Buffered(p) \in 0..Size
  /\ state \in {"none", "play", "busy"}
  /\ draining \in BOOLEAN /\ underflow \in Nat
  /\ driver \in Drivers /\ running \in BOOLEAN
  /\ call \in {"none", "play", "pause", "resume", "reset", "drain"}
  /\ pc \in PlayerAt
  /\ samples \in 0..MaxSamples /\ write \in 0..samples /\ final \in BOOLEAN
  /\ plane \in Planes /\ next \in 0..MaxSamples
  /\ saw_eof \in BOOLEAN /\ core_paused \in BOOLEAN /\ woken \in BOOLEAN
  /\ commands \in 0..MaxCommands
  /\ cb_pc \in {"idle", "load", "count", "copy", "release", "end", "wake"}
  /\ cb_plane \in Planes /\ want \in Requests \cup {0}
  /\ buffered \in 0..Size /\ bytes \in 0..Size
  /\ \A p \in Planes : Len(data[p]) <= Size
  /\ Len(heard) <= MaxSamples

\* While play() and the callback copy at the same time, they are at different
\* places of a ring, and what play() accepted fits into every plane (the
\* assertion in play()). There is no lock: it follows from the order in which
\* each side goes through the planes.
CopiesApart ==
  pc = "copy" =>
    /\ write <= Available(plane)
    /\ cb_pc = "copy" /\ cb_plane = plane =>
         Slots(wpos[plane], write) \cap Slots(rpos[plane], bytes) = {}

\* The number of a sample the device has got, if it got the same one for all
\* planes.
Number(sample) ==
  IF \A p \in Planes : sample[p] = sample[0] THEN sample[0] ELSE 0

\* A sample is in the queue from the write of the first plane, which is the
\* last one written, to the read of the last one.
Queued ==
  IF pc \in {"reset_wpos", "reset_rpos"} THEN <<>>
  ELSE [i \in 1..(wpos[0] - rpos[LastPlane]) |->
          mem[0][(rpos[LastPlane] + i - 1) % Size]]

\* The reset of a drain() that has seen the end. It looks for the end in the
\* first plane, while a callback may still have to read the others.
DrainedReset == pc = "set_none" /\ call = "drain" /\ saw_eof /\ pc' # pc

===============================================================================
