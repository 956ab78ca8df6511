----------------------------- MODULE AudioProofs ------------------------------
(***************************************************************************)
(* Proofs about the path of the audio: the audio output, and the filters   *)
(* in front of it.                                                         *)
(*                                                                         *)
(* Of the output, for every number of planes and samples and all sizes of  *)
(* the buffers. For the ring buffers that have no lock, the inductive      *)
(* invariant says how far the positions of the planes may be apart         *)
(* (RingInv), what is between them (MemInv, DataInv), and when there is no *)
(* callback (CallbackInv, ResetInv). For the thread, it says what the      *)
(* player has said and left before it sleeps (DrainInv), and what the time *)
(* of the end of playback stands for (EndInv). The refinement follows from *)
(* what is between the positions, by laws of sequences.                    *)
(*                                                                         *)
(* Of the filters, for every number of packets and segments, any delay of  *)
(* the decoder and any number of seeks. The inductive invariant says what  *)
(* a filter may find on its pins (Protocol), when the decoder is fed and   *)
(* drained (Decoding, Draining), and what a failure leaves (Failing). The  *)
(* property itself is a part of it: what every step does to the frames on  *)
(* their way is again a law of sequences.                                  *)
(***************************************************************************)
EXTENDS AudioOutput, FilterGraph, SequenceTheorems, WellFoundedInduction, TLAPS

(***************************************************************************)
(* The invariant of pull.c                                                 *)
(***************************************************************************)

Planes == Pull!Planes
LastPlane == Pull!LastPlane

Writing == pc \in {"copy", "publish"}
Resetting == pc \in {"reset_wpos", "reset_rpos"}
Reading == cb_pc \in {"count", "copy", "release"}

\* What play() has still to publish in the first plane, and the callback to release in
\* the last one.
InWrite == IF Writing THEN write ELSE 0
InRead == IF Reading THEN bytes ELSE 0

\* play() goes from the last plane to the first one, the callback from the first to the
\* last, so the first plane shows what can be read in all of them, and the last one
\* where all of them can be written.
RingInv ==
  ~Resetting =>
    /\ \A p \in Planes : wpos[p] = wpos[0] + (IF Writing /\ p > plane THEN write ELSE 0)
    /\ \A p \in Planes :
         rpos[p] = rpos[LastPlane] + (IF Reading /\ p < cb_plane THEN bytes ELSE 0)
    /\ rpos[LastPlane] + InRead <= wpos[0]
    /\ wpos[0] + InWrite <= rpos[LastPlane] + RingSize

\* Samples are numbered as they are accepted, so each one in a ring is known from its
\* distance to the position of the next one.
MemInv ==
  ~Resetting =>
    \A p \in Planes :
      \A k \in rpos[LastPlane]..(wpos[p] - 1 + (IF pc = "publish" /\ p = plane THEN write ELSE 0)) :
        mem[p][k % RingSize] = next + 1 + k - wpos[0]

Copied(p) == p < cb_plane \/ (p = cb_plane /\ cb_pc = "release")

\* The callback has the same samples of all planes.
DataInv ==
  /\ data \in [Planes -> Seq(Int)]
  /\ cb_pc \in {"copy", "release"} =>
       \A p \in Planes : Copied(p) =>
         data[p] = [i \in 1..bytes |-> next + rpos[LastPlane] + i - wpos[0]]

\* A callback that uses the rings has set the state, and play(), reset() and set_state()
\* wait for it.
CallbackInv ==
  /\ state = "busy" <=> cb_pc \in {"load", "count", "copy", "release", "end"}
  /\ cb_pc \notin {"copy", "release"} => cb_plane = 0

ResetInv ==
  Resetting =>
    /\ state = "none"
    /\ \A p \in Planes : p < plane => wpos[p] = 0 /\ rpos[p] = 0
    /\ pc = "reset_rpos" => wpos[plane] = 0

\* What has been heard or is in a ring has been accepted.
CountInv ==
  /\ heard \in Seq([Planes -> Int])
  /\ Len(heard) + (IF Resetting THEN 0 ELSE wpos[0] - rpos[LastPlane]) <= next
  /\ Writing => next + samples <= MaxSamples

\* The end that drain() has seen stays the end.
SawInv ==
  saw_eof =>
    /\ call = "drain"
    /\ pc \in {"stop", "set_none", "reset_wpos", "reset_rpos", "closed"}
    /\ ~Resetting /\ pc # "closed" => wpos[0] = rpos[0]

PullInv ==
  /\ Pull!TypeOK
  /\ RingInv /\ MemInv /\ DataInv /\ CallbackInv /\ ResetInv /\ CountInv /\ SawInv

(***************************************************************************)
(* The invariant of push.c                                                 *)
(***************************************************************************)

SpaceInv ==
  /\ buffer \in Seq(Int) /\ heard \in Seq(Int)
  /\ allocated = BufferSize /\ Len(buffer) <= BufferSize
  /\ Len(heard) + Len(buffer) <= next
  /\ call = "fill" => playsize + Len(buffer) <= BufferSize

\* A thread that sleeps has left nothing to play for a drain() that has been woken.
DrainInv ==
  /\ call \in {"drain", "signalled"} => final_chunk /\ ~paused
  /\ call = "drain" /\ thread \in {"wait", "at_end"} => Push!Blocked
  /\ call = "signalled" /\ thread \in {"wait", "at_end"} =>
       buffer = <<>> \/ Push!Blocked

\* The end was computed when the device had got everything.
EndInv ==
  /\ still_playing /\ expected_end # "none" => buffer = <<>>
  /\ still_playing /\ ~paused /\ expected_end \in {"now", "past"} => device = 0
  /\ paused \/ device_paused => core_paused
  /\ core_paused /\ ~paused => ~still_playing /\ buffer = <<>>
  /\ core_paused => call # "fill"

PushInv == Push!TypeOK /\ SpaceInv /\ DrainInv /\ EndInv

IInv ==
  /\ api \in {"pull", "push"}
  /\ api = "pull" => PullInv
  /\ api = "push" => PushInv

-------------------------------------------------------------------------------

\* The constants of either output.
LEMMA Constants ==
  /\ NumPlanes \in Nat \ {0} /\ RingSize \in Nat \ {0}
  /\ Pull!Planes = 0..NumPlanes - 1 /\ Pull!LastPlane = NumPlanes - 1
  /\ Requests \subseteq Nat \ {0}
  /\ BufferSize \in Nat \ {0} /\ DeviceSize \in Nat \ {0} /\ Period \in Nat \ {0}
  /\ {Margin, MaxSamples, MaxCommands, MaxFaults} \subseteq Nat
  BY AudioAssumption
  DEF Pull!PullOutputAssumption, Push!PushOutputAssumption, Pull!Planes, Pull!LastPlane

\* The smaller of two numbers, and the larger one.
LEMMA SmallerIs ==
  ASSUME NEW a \in Int, NEW b \in Int
  PROVE  /\ Pull!Min({a, b}) = IF a <= b THEN a ELSE b
         /\ Push!AtMost(a, b) = IF a <= b THEN a ELSE b
         /\ Push!AtLeast(a, b) = IF a >= b THEN a ELSE b
  BY DEF Pull!Min, Push!Min, Push!Max, Push!AtMost, Push!AtLeast

\* Two positions less than a ring apart are at different places of it.
LEMMA Apart ==
  ASSUME NEW a \in Nat, NEW b \in Nat, a < b, b < a + RingSize
  PROVE  /\ a % RingSize # b % RingSize
         /\ a % RingSize \in 0..RingSize - 1
<1> DEFINE q == b \div RingSize - a \div RingSize
<1>1. RingSize \in Nat \ {0}
  BY Constants
<1>2. /\ a % RingSize \in 0..RingSize - 1 /\ b % RingSize \in 0..RingSize - 1
      /\ a = RingSize * (a \div RingSize) + (a % RingSize) /\ a \div RingSize \in Nat
      /\ b = RingSize * (b \div RingSize) + (b % RingSize) /\ b \div RingSize \in Nat
  BY <1>1
<1>3. SUFFICES ASSUME a % RingSize = b % RingSize PROVE FALSE
  BY <1>2
<1>4. q \in Int /\ b - a = RingSize * q
  BY <1>1, <1>2, <1>3
<1>5. b - a \in 1..RingSize - 1
  BY <1>1
<1> HIDE DEF q
<1>6. \A x \in Int : x > 0 => RingSize * x >= RingSize
  BY <1>1
<1>7. \A x \in Int : x <= 0 => RingSize * x <= 0
  BY <1>1
<1> QED
  BY <1>1, <1>4, <1>5, <1>6, <1>7

(***************************************************************************)
(* pull.c                                                                  *)
(***************************************************************************)

\* The parts of Pull!TypeOK: the rings, how full they are, and the rest, with what is
\* Boolean on its own, as the provers want it.
RingTypes ==
  /\ mem \in [Planes -> [0..RingSize - 1 -> 0..MaxSamples]]
  /\ wpos \in [Planes -> Nat] /\ rpos \in [Planes -> Nat]

LevelTypes ==
  \A p \in Planes : (pc = "reset_rpos" /\ p = plane) \/ wpos[p] - rpos[p] \in 0..RingSize

FlagTypes ==
  /\ draining \in BOOLEAN /\ running \in BOOLEAN /\ final \in BOOLEAN
  /\ saw_eof \in BOOLEAN /\ core_paused \in BOOLEAN /\ woken \in BOOLEAN

ControlTypes ==
  /\ state \in {"none", "play", "busy"} /\ underflow \in Nat
  /\ driver \in PullDrivers
  /\ call \in {"none", "play", "pause", "resume", "reset", "drain"}
  /\ pc \in Pull!PlayerAt
  /\ samples \in 0..MaxSamples /\ write \in 0..samples
  /\ plane \in Planes /\ next \in 0..MaxSamples
  /\ commands \in 0..MaxCommands
  /\ cb_pc \in {"idle", "load", "count", "copy", "release", "end", "wake"}
  /\ cb_plane \in Planes /\ want \in Requests \cup {0}
  /\ buffered \in 0..RingSize /\ bytes \in 0..RingSize

DataTypes ==
  /\ \A p \in Planes : Len(data[p]) <= RingSize
  /\ Len(heard) <= MaxSamples

\* They are all of it.
LEMMA TypesAre ==
  Pull!TypeOK <=> RingTypes /\ LevelTypes /\ FlagTypes /\ ControlTypes /\ DataTypes
  BY DEF Pull!TypeOK, Pull!Buffered, RingTypes, LevelTypes, FlagTypes, ControlTypes,
         DataTypes, Planes

\* Outside of a reset, how full the rings are follows from their positions.
LEMMA LevelsFollow ==
  ASSUME RingTypes, ControlTypes, RingInv, ~Resetting
  PROVE  /\ LevelTypes
         /\ \A p \in Planes :
              /\ rpos[LastPlane] <= rpos[p] /\ rpos[p] <= wpos[0]
              /\ wpos[0] <= wpos[p] /\ wpos[p] <= rpos[LastPlane] + RingSize
<1>1. ASSUME NEW p \in Planes
      PROVE  /\ rpos[LastPlane] <= rpos[p] /\ rpos[p] <= wpos[0]
             /\ wpos[0] <= wpos[p] /\ wpos[p] <= rpos[LastPlane] + RingSize
             /\ wpos[p] \in Nat /\ rpos[p] \in Nat
  <2>1. /\ wpos[p] \in Nat /\ rpos[p] \in Nat /\ wpos[0] \in Nat /\ rpos[LastPlane] \in Nat
        /\ write \in Nat /\ bytes \in Nat /\ RingSize \in Nat
    <3>1. 0 \in Planes /\ LastPlane \in Planes
      BY Constants DEF Planes, LastPlane
    <3>2. wpos \in [Planes -> Nat] /\ rpos \in [Planes -> Nat]
      BY DEF RingTypes
    <3>3. RingSize \in Nat /\ MaxSamples \in Nat
      BY Constants
    <3>4. samples \in 0..MaxSamples /\ write \in 0..samples /\ bytes \in 0..RingSize
      BY DEF ControlTypes
    <3>5. write \in Nat /\ bytes \in Nat
      BY ONLY <3>3, <3>4
    <3> QED
      BY ONLY <3>1, <3>2, <3>3, <3>5, p \in Planes
  <2>2. /\ rpos[p] = rpos[LastPlane] \/ (Reading /\ rpos[p] = rpos[LastPlane] + bytes)
        /\ wpos[p] = wpos[0] \/ (Writing /\ wpos[p] = wpos[0] + write)
        /\ rpos[LastPlane] + InRead <= wpos[0] /\ wpos[0] + InWrite <= rpos[LastPlane] + RingSize
    BY <2>1 DEF RingInv
  <2>3. InRead \in Nat /\ InWrite \in Nat
    BY <2>1 DEF InRead, InWrite
  <2> QED
    BY <2>1, <2>2, <2>3 DEF InRead, InWrite
<1> QED
  <2>1. RingSize \in Nat /\ rpos[LastPlane] \in Nat /\ wpos[0] \in Nat
    BY Constants DEF RingTypes, Planes, LastPlane
  <2> QED
    BY <2>1, <1>1 DEF LevelTypes

\* What the player does between its work on the rings.
ControlStep ==
  \/ Pull!CheckState \/ Pull!SetPlay \/ Pull!StartDriver \/ Pull!SetDraining
  \/ Pull!TakeUnderflow \/ Pull!DrainPoll \/ Pull!StopDriver
  \/ Pull!Pause \/ Pull!Reset \/ Pull!Resume \/ Pull!Drain

Positions == <<mem, wpos, rpos, next>>
Callback == <<cb_pc, cb_plane, bytes, data, heard>>

\* It leaves the rings and the callback alone.
LEMMA ControlStepIs ==
  ASSUME PullInv, ControlStep
  PROVE  /\ ~Resetting /\ ~Resetting' /\ ~Writing /\ ~Writing'
         /\ UNCHANGED <<Positions, Callback>>
         /\ FlagTypes' /\ ControlTypes' /\ SawInv'
         /\ (state' = "busy" <=> state = "busy")
<1>1. FlagTypes /\ ControlTypes /\ SawInv
  BY TypesAre DEF PullInv
<1> USE DEF Pull!rings, Pull!control, Pull!device, Pull!playing, Pull!player, Pull!callback,
            Pull!BeginStop, Pull!Return
<1>2. CASE Pull!CheckState
  <2>1. FlagTypes'
    BY <1>1, <1>2, Zenon DEF FlagTypes, Pull!CheckState
  <2>2. ControlTypes'
    BY <1>1, <1>2, Constants DEF ControlTypes, Pull!CheckState, Pull!PlayerAt
  <2> QED
    BY <1>1, <1>2, <2>1, <2>2
    DEF Pull!CheckState, Resetting, Writing, Positions, Callback, SawInv, Pull!Buffered
<1>3. CASE Pull!SetPlay
  <2>1. FlagTypes'
    BY <1>1, <1>3, Zenon DEF FlagTypes, Pull!SetPlay
  <2>2. ControlTypes'
    BY <1>1, <1>3, Constants DEF ControlTypes, Pull!SetPlay, Pull!PlayerAt
  <2> QED
    BY <1>1, <1>3, <2>1, <2>2
    DEF Pull!SetPlay, Resetting, Writing, Positions, Callback, SawInv, Pull!Buffered
<1>4. CASE Pull!StartDriver
  <2>1. FlagTypes'
    BY <1>1, <1>4, Zenon DEF FlagTypes, Pull!StartDriver
  <2>2. ControlTypes'
    BY <1>1, <1>4, Constants DEF ControlTypes, Pull!StartDriver, Pull!PlayerAt
  <2> QED
    BY <1>1, <1>4, <2>1, <2>2
    DEF Pull!StartDriver, Resetting, Writing, Positions, Callback, SawInv, Pull!Buffered
<1>5. CASE Pull!SetDraining
  <2>1. FlagTypes'
    BY <1>1, <1>5, Zenon DEF FlagTypes, Pull!SetDraining
  <2>2. ControlTypes'
    BY <1>1, <1>5, Constants DEF ControlTypes, Pull!SetDraining, Pull!PlayerAt
  <2> QED
    BY <1>1, <1>5, <2>1, <2>2
    DEF Pull!SetDraining, Resetting, Writing, Positions, Callback, SawInv, Pull!Buffered
<1>6. CASE Pull!TakeUnderflow
  <2>1. FlagTypes'
    BY <1>1, <1>6, Zenon DEF FlagTypes, Pull!TakeUnderflow
  <2>2. ControlTypes'
    BY <1>1, <1>6, Constants DEF ControlTypes, Pull!TakeUnderflow, Pull!PlayerAt
  <2> QED
    BY <1>1, <1>6, <2>1, <2>2
    DEF Pull!TakeUnderflow, Resetting, Writing, Positions, Callback, SawInv, Pull!Buffered
<1>7. CASE Pull!DrainPoll
  <2>1. FlagTypes'
    BY <1>1, <1>7, Zenon DEF FlagTypes, Pull!DrainPoll
  <2>2. ControlTypes'
    BY <1>1, <1>7, Constants DEF ControlTypes, Pull!DrainPoll, Pull!PlayerAt
  <2>3. wpos[0] \in Nat /\ rpos[0] \in Nat
    BY TypesAre, Constants DEF PullInv, RingTypes, Planes
  <2>4. UNCHANGED <<Positions, Callback>> /\ state' = state /\ pc = "poll"
        /\ pc' \in {"stop", "set_none"} /\ call' = "drain"
    BY <1>7 DEF Pull!DrainPoll, Positions, Callback
  <2>5. saw_eof' => wpos[0] = rpos[0]
    <3>1. saw_eof' => Pull!Buffered(0) = 0
      BY <1>7, Zenon DEF Pull!DrainPoll
    <3> QED
      BY <3>1, <2>3 DEF Pull!Buffered
  <2> QED
    BY <1>1, <2>1, <2>2, <2>4, <2>5 DEF Resetting, Writing, SawInv, Positions
<1>8. CASE Pull!StopDriver
  <2>1. FlagTypes'
    BY <1>1, <1>8, Zenon DEF FlagTypes, Pull!StopDriver
  <2>2. ControlTypes'
    BY <1>1, <1>8, Constants DEF ControlTypes, Pull!StopDriver, Pull!PlayerAt
  <2> QED
    BY <1>1, <1>8, <2>1, <2>2
    DEF Pull!StopDriver, Resetting, Writing, Positions, Callback, SawInv, Pull!Buffered
<1>9. CASE Pull!Pause
  <2>1. FlagTypes'
    BY <1>1, <1>9, Zenon DEF FlagTypes, Pull!Pause
  <2>2. ControlTypes'
    BY <1>1, <1>9, Constants DEF ControlTypes, Pull!Pause, Pull!PlayerAt
  <2> QED
    BY <1>1, <1>9, <2>1, <2>2
    DEF Pull!Pause, Resetting, Writing, Positions, Callback, SawInv, Pull!Buffered
<1>10. CASE Pull!Reset
  <2>1. FlagTypes'
    BY <1>1, <1>10, Zenon DEF FlagTypes, Pull!Reset
  <2>2. ControlTypes'
    BY <1>1, <1>10, Constants DEF ControlTypes, Pull!Reset, Pull!PlayerAt
  <2> QED
    BY <1>1, <1>10, <2>1, <2>2
    DEF Pull!Reset, Resetting, Writing, Positions, Callback, SawInv, Pull!Buffered
<1>11. CASE Pull!Resume
  <2>1. FlagTypes'
    BY <1>1, <1>11, Zenon DEF FlagTypes, Pull!Resume
  <2>2. ControlTypes'
    BY <1>1, <1>11, Constants DEF ControlTypes, Pull!Resume, Pull!PlayerAt
  <2> QED
    BY <1>1, <1>11, <2>1, <2>2
    DEF Pull!Resume, Resetting, Writing, Positions, Callback, SawInv, Pull!Buffered
<1>12. CASE Pull!Drain
  <2>1. FlagTypes'
    BY <1>1, <1>12, Zenon DEF FlagTypes, Pull!Drain
  <2>2. ControlTypes'
    BY <1>1, <1>12, Constants DEF ControlTypes, Pull!Drain, Pull!PlayerAt
  <2> QED
    BY <1>1, <1>12, <2>1, <2>2
    DEF Pull!Drain, Resetting, Writing, Positions, Callback, SawInv, Pull!Buffered
<1> QED
  BY <1>2, <1>3, <1>4, <1>5, <1>6, <1>7, <1>8, <1>9, <1>10, <1>11, <1>12 DEF ControlStep

\* So it keeps the invariant.
LEMMA ControlKeeps ==
  ASSUME PullInv, ControlStep
  PROVE  PullInv'
<1>1. /\ RingTypes /\ DataTypes /\ RingInv /\ MemInv /\ DataInv /\ CallbackInv /\ CountInv
  BY TypesAre DEF PullInv
<1>2. /\ ~Resetting /\ ~Resetting' /\ ~Writing /\ ~Writing'
      /\ UNCHANGED <<Positions, Callback>>
      /\ FlagTypes' /\ ControlTypes' /\ SawInv'
      /\ (state' = "busy" <=> state = "busy")
  BY ControlStepIs
<1>3. RingTypes' /\ DataTypes'
  BY <1>1, <1>2 DEF RingTypes, DataTypes, Positions, Callback
<1>4. RingInv'
  BY <1>1, <1>2 DEF RingInv, InWrite, InRead, Reading, Positions, Callback
<1>5. MemInv'
  BY <1>1, <1>2 DEF MemInv, Writing, Positions, Callback
<1>6. DataInv' /\ CallbackInv' /\ CountInv'
  BY <1>1, <1>2 DEF DataInv, Copied, CallbackInv, CountInv, Positions, Callback
<1>7. ResetInv'
  BY <1>2 DEF ResetInv
<1>8. LevelTypes'
  BY <1>2, <1>3, <1>4, LevelsFollow, PTL
<1> QED
  BY <1>2, <1>3, <1>4, <1>5, <1>6, <1>7, <1>8, TypesAre, PTL DEF PullInv

\* The player is woken, which concerns nothing else.
LEMMA PokeKeeps ==
  ASSUME PullInv, Pull!Poke
  PROVE  PullInv'
<1>1. /\ UNCHANGED <<Pull!rings, Pull!control, Pull!device, call, pc, Pull!playing, Pull!player,
                     Pull!callback>>
      /\ woken' = TRUE
  BY DEF Pull!Poke
<1> USE DEF Pull!rings, Pull!control, Pull!device, Pull!playing, Pull!player, Pull!callback
<1>2. RingTypes /\ LevelTypes /\ FlagTypes /\ ControlTypes /\ DataTypes
  BY TypesAre DEF PullInv
<1>3. RingTypes' /\ LevelTypes' /\ ControlTypes' /\ DataTypes'
  BY <1>1, <1>2 DEF RingTypes, LevelTypes, ControlTypes, DataTypes
<1>4. FlagTypes'
  BY <1>1, <1>2, Zenon DEF FlagTypes
<1>5. RingInv' /\ MemInv' /\ DataInv' /\ CallbackInv'
  BY <1>1 DEF PullInv, RingInv, MemInv, DataInv, CallbackInv, Copied, InWrite, InRead,
              Reading, Writing, Resetting
<1>6. ResetInv' /\ CountInv' /\ SawInv'
  BY <1>1 DEF PullInv, ResetInv, CountInv, SawInv, Resetting, Writing
<1> QED
  BY <1>3, <1>4, <1>5, <1>6, TypesAre, PTL DEF PullInv

\* The player begins to write no more than there is room for in the last plane, where all
\* planes have room.
LEMMA PlayKeeps ==
  ASSUME PullInv, NEW n \in 1..MaxSamples, Pull!Play(n)
  PROVE  PullInv'
<1>1. /\ RingTypes /\ FlagTypes /\ ControlTypes /\ DataTypes /\ RingInv /\ MemInv /\ DataInv
      /\ CallbackInv /\ CountInv /\ SawInv
  BY TypesAre DEF PullInv
<1> USE DEF Pull!rings, Pull!control, Pull!device, Pull!player, Pull!callback
<1>2. /\ pc = "idle" /\ pc' = "copy" /\ call' = "play"
      /\ samples' = n /\ plane' = LastPlane /\ write' = Pull!Min({Pull!Space, n})
      /\ next + n <= MaxSamples
      /\ UNCHANGED <<Positions, Callback>>
      /\ UNCHANGED <<state, underflow, driver, commands, want, buffered, saw_eof>>
  BY DEF Pull!Play, Positions, Callback, LastPlane
<1>3. ~Resetting /\ ~Resetting' /\ ~Writing /\ Writing'
  BY <1>2 DEF Resetting, Writing
<1>4. /\ wpos[0] \in Nat /\ rpos[LastPlane] \in Nat /\ n \in Nat /\ RingSize \in Nat
      /\ LastPlane \in Planes /\ 0 \in Planes /\ \A p \in Planes : ~(p > LastPlane) /\ next \in Nat
  BY <1>1, Constants DEF RingTypes, ControlTypes, Planes, LastPlane
<1>5. wpos[LastPlane] = wpos[0]
  BY <1>1, <1>3, <1>4 DEF RingInv
<1>6. wpos[0] - rpos[LastPlane] \in 0..RingSize
  BY <1>1, <1>3, <1>4, <1>5, LevelsFollow
<1>7. Pull!Space = RingSize - (wpos[0] - rpos[LastPlane])
  BY <1>5 DEF Pull!Space, Pull!Available, Pull!Buffered, LastPlane
<1>8. write' \in 0..n /\ wpos[0] + write' <= rpos[LastPlane] + RingSize
  <2>1. Pull!Space \in Int /\ n \in Int
    BY <1>4, <1>6, <1>7
  <2>2. write' = IF Pull!Space <= n THEN Pull!Space ELSE n
    BY <1>2, <2>1, SmallerIs
  <2> QED
    BY <2>2, <1>4, <1>6, <1>7
<1>9. RingTypes' /\ DataTypes'
  BY <1>1, <1>2 DEF RingTypes, DataTypes, Positions, Callback
<1>10. FlagTypes'
  <2>1. final' \in BOOLEAN
    BY Zenon DEF Pull!Play
  <2> QED
    BY <1>1, <2>1, Zenon DEF FlagTypes, Pull!Play
<1>11. ControlTypes'
  BY <1>1, <1>2, <1>4, <1>8, Constants
  DEF ControlTypes, Pull!PlayerAt, Positions, Callback
<1>12. RingInv'
  BY <1>1, <1>2, <1>3, <1>4, <1>8 DEF RingInv, InWrite, InRead, Reading, Positions, Callback
<1>13. MemInv'
  BY <1>1, <1>2, <1>3 DEF MemInv, Positions, Writing
<1>14. DataInv' /\ CallbackInv'
  BY <1>1, <1>2 DEF DataInv, Copied, CallbackInv, Positions, Callback
<1>15. CountInv' /\ ResetInv' /\ SawInv'
  BY <1>1, <1>2, <1>3 DEF CountInv, ResetInv, SawInv, Positions, Callback
<1>16. LevelTypes'
  BY <1>3, <1>9, <1>11, <1>12, LevelsFollow, PTL
<1> QED
  BY <1>9, <1>10, <1>11, <1>12, <1>13, <1>14, <1>15, <1>16, TypesAre, PTL DEF PullInv

\* What the callback does between its work on the rings.
CallbackStep ==
  \/ \E n \in Requests : Pull!CbBegin(n)
  \/ Pull!CbLoad \/ Pull!CbCount \/ Pull!CbEnd \/ Pull!CbWake

Player == <<mem, wpos, rpos, next, call, pc, plane, write, samples, saw_eof>>

\* It begins with the first plane, and asks for no more than is in that one.
LEMMA CallbackStepIs ==
  ASSUME PullInv, CallbackStep
  PROVE  /\ UNCHANGED <<Player, data, heard>>
         /\ cb_plane = 0 /\ cb_plane' = 0 /\ cb_pc' # "release"
         /\ FlagTypes' /\ ControlTypes' /\ CallbackInv' /\ ResetInv'
         /\ Reading' => ~Resetting /\ rpos[LastPlane] + bytes' <= wpos[0]
<1>1. FlagTypes /\ ControlTypes /\ RingTypes /\ CallbackInv /\ ResetInv /\ RingInv
  BY TypesAre DEF PullInv
<1>2. 0 \in Planes /\ LastPlane \in Planes /\ wpos[0] \in Nat /\ rpos[LastPlane] \in Nat
      /\ rpos[0] \in Nat /\ Requests \subseteq Nat /\ RingSize \in Nat
  BY <1>1, Constants DEF RingTypes, Planes, LastPlane
<1> USE DEF Pull!rings, Pull!control, Pull!device, Pull!playing, Pull!player, Player
<1>3. CASE \E n \in Requests : Pull!CbBegin(n)
  <2>1. PICK n \in Requests : Pull!CbBegin(n)
    BY <1>3
  <2>2. FlagTypes'
    BY <1>1, <2>1, Zenon DEF FlagTypes, Pull!CbBegin
  <2>3. ControlTypes'
    BY <1>1, <2>1 DEF ControlTypes, Pull!CbBegin
  <2>4. CallbackInv' /\ ResetInv'
    BY <1>1, <2>1 DEF CallbackInv, ResetInv, Resetting, Pull!CbBegin
  <2> QED
    BY <1>1, <2>1, <2>2, <2>3, <2>4 DEF Pull!CbBegin, CallbackInv, Reading
<1>4. CASE Pull!CbLoad
  <2>1. FlagTypes'
    BY <1>1, <1>4, Zenon DEF FlagTypes, Pull!CbLoad
  <2>2. cb_plane = 0 /\ ~Resetting /\ ~Reading /\ want \in Nat
    BY <1>1, <1>2, <1>4 DEF Pull!CbLoad, CallbackInv, ResetInv, Reading, ControlTypes
  <2>3. rpos[0] = rpos[LastPlane] /\ wpos[0] - rpos[0] \in 0..RingSize
    <3>1. rpos[0] = rpos[LastPlane]
      BY <1>1, <1>2, <2>2 DEF RingInv
    <3> QED
      BY <1>1, <1>2, <2>2, <3>1, LevelsFollow
  <2>4. buffered' = wpos[0] - rpos[0] /\ bytes' \in 0..buffered'
    <3>1. buffered' = wpos[0] - rpos[0] /\ bytes' = Pull!Min({buffered', want})
      BY <1>4 DEF Pull!CbLoad, Pull!Buffered
    <3>2. buffered' \in Int /\ want \in Int
      BY <3>1, <2>2, <1>2
    <3>3. bytes' = IF buffered' <= want THEN buffered' ELSE want
      BY <3>1, <3>2, SmallerIs
    <3> QED
      BY <3>1, <3>2, <3>3, <2>2, <2>3
  <2>5. ControlTypes'
    BY <1>1, <1>4, <2>3, <2>4, <1>2 DEF ControlTypes, Pull!CbLoad
  <2>6. CallbackInv' /\ ResetInv'
    BY <1>1, <1>4 DEF CallbackInv, ResetInv, Resetting, Pull!CbLoad
  <2>7. rpos[LastPlane] + bytes' <= wpos[0]
    BY <2>3, <2>4, <1>2
  <2> QED
    BY <1>4, <2>1, <2>2, <2>5, <2>6, <2>7 DEF Pull!CbLoad
<1>5. CASE Pull!CbCount
  <2>1. FlagTypes'
    BY <1>1, <1>5, Zenon DEF FlagTypes, Pull!CbCount
  <2>2. ControlTypes'
    BY <1>1, <1>2, <1>5 DEF ControlTypes, Pull!CbCount
  <2>3. CallbackInv' /\ ResetInv' /\ cb_plane = 0 /\ ~Resetting
    BY <1>1, <1>5 DEF CallbackInv, ResetInv, Resetting, Pull!CbCount
  <2>4. rpos[LastPlane] + bytes <= wpos[0]
    BY <1>1, <1>5, <2>3 DEF RingInv, InRead, Reading, Pull!CbCount
  <2> QED
    BY <1>5, <2>1, <2>2, <2>3, <2>4 DEF Pull!CbCount
<1>6. CASE Pull!CbEnd
  <2>1. FlagTypes'
    BY <1>1, <1>6, Zenon DEF FlagTypes, Pull!CbEnd
  <2>2. cb_pc = "end" /\ cb_pc' \in {"wake", "idle"} /\ state = "busy" /\ state' = "play"
    BY <1>1, <1>6 DEF Pull!CbEnd, CallbackInv
  <2>3. ControlTypes'
    BY <1>1, <1>2, <1>6, <2>2 DEF ControlTypes, Pull!CbEnd
  <2>4. CallbackInv' /\ ResetInv' /\ cb_plane = 0
    BY <1>1, <1>6, <2>2 DEF CallbackInv, ResetInv, Resetting, Pull!CbEnd
  <2> QED
    BY <1>6, <2>1, <2>2, <2>3, <2>4 DEF Pull!CbEnd, Reading
<1>7. CASE Pull!CbWake
  <2>1. FlagTypes'
    BY <1>1, <1>7, Zenon DEF FlagTypes, Pull!CbWake
  <2>2. ControlTypes'
    BY <1>1, <1>7 DEF ControlTypes, Pull!CbWake
  <2>3. CallbackInv' /\ ResetInv' /\ cb_plane = 0
    BY <1>1, <1>7 DEF CallbackInv, ResetInv, Resetting, Pull!CbWake
  <2> QED
    BY <1>7, <2>1, <2>2, <2>3 DEF Pull!CbWake, Reading
<1> QED
  BY <1>3, <1>4, <1>5, <1>6, <1>7 DEF CallbackStep

\* So it keeps the invariant.
LEMMA CallbackKeeps ==
  ASSUME PullInv, CallbackStep
  PROVE  PullInv'
<1>1. /\ RingTypes /\ LevelTypes /\ DataTypes /\ RingInv /\ MemInv /\ DataInv /\ CountInv
      /\ SawInv
  BY TypesAre DEF PullInv
<1>2. /\ UNCHANGED <<Player, data, heard>>
      /\ cb_plane = 0 /\ cb_plane' = 0 /\ cb_pc' # "release"
      /\ FlagTypes' /\ ControlTypes' /\ CallbackInv' /\ ResetInv'
      /\ Reading' => ~Resetting /\ rpos[LastPlane] + bytes' <= wpos[0]
  BY CallbackStepIs
<1>3. /\ rpos[LastPlane] \in Nat /\ wpos[0] \in Nat /\ \A p \in Planes : ~(p < 0)
  BY <1>1, Constants DEF RingTypes, Planes, LastPlane
<1>4. RingTypes' /\ LevelTypes' /\ DataTypes'
  BY <1>1, <1>2 DEF RingTypes, LevelTypes, DataTypes, Player
<1>5. RingInv'
  <2> SUFFICES ASSUME ~Resetting' PROVE RingInv'
    BY DEF RingInv
  <2>1. ~Resetting /\ Writing' = Writing /\ InWrite' = InWrite
    BY <1>2 DEF Resetting, Writing, InWrite, Player
  <2>2. \A p \in Planes : rpos[p] = rpos[LastPlane]
    BY <1>1, <1>2, <1>3, <2>1 DEF RingInv
  <2>3. rpos[LastPlane] + InRead' <= wpos[0]
    <3>1. rpos[LastPlane] <= wpos[0]
      <4>1. ControlTypes /\ LastPlane \in Planes
        BY TypesAre, Constants DEF PullInv, Planes, LastPlane
      <4> QED
        BY <4>1, <1>1, <1>3, <2>1, LevelsFollow
    <3> QED
      BY <1>2, <1>3, <2>1, <3>1 DEF InRead
  <2> QED
    BY <1>1, <1>2, <1>3, <2>1, <2>2, <2>3 DEF RingInv, Player, Writing
<1>6. MemInv'
  BY <1>1, <1>2 DEF MemInv, Resetting, Player
<1>7. DataInv'
  BY <1>1, <1>2, <1>3 DEF DataInv, Copied
<1>8. CountInv' /\ SawInv'
  BY <1>1, <1>2 DEF CountInv, SawInv, Resetting, Writing, Player
<1> QED
  BY <1>2, <1>4, <1>5, <1>6, <1>7, <1>8, TypesAre, PTL DEF PullInv

\* A ring after a copy into it.
LEMMA WrittenIs ==
  ASSUME RingTypes, NEW p \in Planes, NEW first \in Nat \ {0}, NEW n \in 0..RingSize,
         first + n - 1 <= MaxSamples
  PROVE  /\ Pull!Written(p, first, n) \in [0..RingSize - 1 -> 0..MaxSamples]
         /\ \A i \in 0..n - 1 : Pull!Written(p, first, n)[(wpos[p] + i) % RingSize] = first + i
         /\ \A k \in Nat : k < wpos[p] /\ wpos[p] + n <= k + RingSize =>
              Pull!Written(p, first, n)[k % RingSize] = mem[p][k % RingSize]
<1> DEFINE At(i) == (wpos[p] + i) % RingSize
           Hit(s) == \E i \in 0..n - 1 : s = At(i)
           Pos(s) == CHOOSE i \in 0..n - 1 : s = At(i)
           W == Pull!Written(p, first, n)
<1>1. /\ RingSize \in Nat \ {0} /\ wpos[p] \in Nat /\ n \in Nat /\ MaxSamples \in Nat
      /\ mem[p] \in [0..RingSize - 1 -> 0..MaxSamples]
  BY Constants DEF RingTypes
<1>2. W = [s \in 0..RingSize - 1 |-> IF Hit(s) THEN first + Pos(s) ELSE mem[p][s]]
  BY DEF Pull!Written
<1>3. ASSUME NEW i \in 0..n - 1
      PROVE  wpos[p] + i \in Nat /\ At(i) \in 0..RingSize - 1
  <2>1. wpos[p] + i \in Nat
    BY <1>1
  <2> QED
    BY <1>1, <2>1
<1>4. \A i, j \in 0..n - 1 : At(i) = At(j) => i = j
  <2>1. SUFFICES ASSUME NEW i \in 0..n - 1, NEW j \in 0..n - 1, i < j
                 PROVE  At(i) # At(j)
    BY <1>1
  <2>2. wpos[p] + i < wpos[p] + j /\ wpos[p] + j < (wpos[p] + i) + RingSize
    BY <1>1, <2>1
  <2> QED
    BY <1>3, <2>2, Apart
<1> HIDE DEF At, W
<1>5. \A s : Hit(s) => Pos(s) \in 0..n - 1 /\ s = At(Pos(s))
  OBVIOUS
<1>6. \A i \in 0..n - 1 : Hit(At(i)) /\ Pos(At(i)) = i
  BY <1>4, <1>5
<1> HIDE DEF Hit, Pos
<1>7. \A i \in 0..n - 1 : W[At(i)] = first + i
  BY <1>2, <1>3, <1>6
<1>8. W \in [0..RingSize - 1 -> 0..MaxSamples]
  <2>1. ASSUME NEW s \in 0..RingSize - 1
        PROVE  (IF Hit(s) THEN first + Pos(s) ELSE mem[p][s]) \in 0..MaxSamples
    BY <1>1, <1>5
  <2> QED
    BY <1>2, <2>1
<1>9. ASSUME NEW k \in Nat, k < wpos[p], wpos[p] + n <= k + RingSize
      PROVE  W[k % RingSize] = mem[p][k % RingSize]
  <2>1. ASSUME NEW i \in 0..n - 1
        PROVE  k % RingSize # At(i)
    <3>1. k < wpos[p] + i /\ wpos[p] + i < k + RingSize
      BY <1>1, <1>9
    <3> QED
      BY <1>3, <3>1, Apart DEF At
  <2>2. k % RingSize \in 0..RingSize - 1 /\ ~Hit(k % RingSize)
    BY <1>1, <2>1 DEF Hit
  <2> QED
    BY <1>2, <2>2
<1> QED
  BY <1>7, <1>8, <1>9 DEF At, W

\* What play() works with: room in the plane for all it writes, so that nothing in it that
\* can still be read is overwritten.
LEMMA WriterIs ==
  ASSUME PullInv, Writing
  PROVE  /\ plane \in Planes /\ plane >= 0 /\ write \in Nat /\ wpos[plane] = wpos[0]
         /\ wpos[plane] \in Nat /\ rpos[LastPlane] \in Nat /\ RingSize \in Nat \ {0}
         /\ wpos[plane] + write <= rpos[LastPlane] + RingSize
         /\ rpos[LastPlane] <= wpos[plane] /\ rpos[LastPlane] <= rpos[plane] /\ rpos[plane] <= wpos[plane]
         /\ write <= Pull!Available(plane) /\ write \in 0..RingSize
         /\ next \in Nat /\ next + write <= MaxSamples /\ ~Resetting /\ MaxSamples \in Nat
<1>1. RingTypes /\ ControlTypes /\ RingInv /\ CountInv
  BY TypesAre DEF PullInv
<1>2. ~Resetting /\ InWrite = write
  BY DEF Writing, Resetting, InWrite
<1>3. /\ plane \in Planes /\ plane \in Nat /\ write \in 0..samples /\ samples \in 0..MaxSamples
      /\ next \in Nat /\ MaxSamples \in Nat /\ RingSize \in Nat \ {0}
      /\ 0 \in Planes /\ LastPlane \in Planes
  BY <1>1, Constants DEF ControlTypes, Planes, LastPlane
<1>4. wpos[plane] \in Nat /\ rpos[plane] \in Nat /\ wpos[0] \in Nat /\ rpos[LastPlane] \in Nat
  BY <1>1, <1>3 DEF RingTypes
<1>5. wpos[plane] = wpos[0] /\ wpos[0] + write <= rpos[LastPlane] + RingSize
  BY <1>1, <1>2, <1>3, <1>4 DEF RingInv
<1>6. rpos[LastPlane] <= rpos[plane] /\ rpos[plane] <= wpos[0]
  BY <1>1, <1>2, <1>3, LevelsFollow
<1>7. next + samples <= MaxSamples
  BY <1>1 DEF CountInv
<1> QED
  BY <1>2, <1>3, <1>4, <1>5, <1>6, <1>7 DEF Pull!Available, Pull!Buffered

\* play() writes what it has, where it has room, and overwrites nothing that can be read.
LEMMA WriteCopyKeeps ==
  ASSUME PullInv, Pull!WriteCopy
  PROVE  PullInv'
<1>1. /\ RingTypes /\ FlagTypes /\ ControlTypes /\ DataTypes /\ RingInv /\ MemInv /\ DataInv
      /\ CallbackInv /\ ResetInv /\ CountInv /\ SawInv
  BY TypesAre DEF PullInv
<1> USE DEF Pull!control, Pull!device, Pull!playing, Pull!player, Pull!callback
<1>2. Writing /\ pc = "copy" /\ pc' = "publish" /\ ~Resetting /\ ~Resetting' /\ Writing'
  BY DEF Pull!WriteCopy, Writing, Resetting
<1>3. /\ plane \in Planes /\ write \in Nat /\ wpos[plane] = wpos[0] /\ wpos[plane] \in Nat
      /\ rpos[LastPlane] \in Nat /\ RingSize \in Nat \ {0}
      /\ wpos[plane] + write <= rpos[LastPlane] + RingSize /\ rpos[LastPlane] <= wpos[plane]
      /\ write <= Pull!Available(plane) /\ write \in 0..RingSize
      /\ next \in Nat /\ next + write <= MaxSamples
      /\ rpos[plane] \in Nat
  BY <1>1, <1>2, WriterIs DEF RingTypes
<1>4. Pull!Min({write, Pull!Available(plane)}) = write
  <2>1. Pull!Available(plane) \in Int
    BY <1>3 DEF Pull!Available, Pull!Buffered
  <2>2. write \in Int /\ write <= Pull!Available(plane)
    BY <1>3
  <2> QED
    BY <2>1, <2>2, SmallerIs
<1> DEFINE W == Pull!Written(plane, next + 1, write)
<1>5. mem' = [mem EXCEPT ![plane] = W]
  BY <1>4 DEF Pull!WriteCopy
<1>6. /\ W \in [0..RingSize - 1 -> 0..MaxSamples]
      /\ \A i \in 0..write - 1 : W[(wpos[plane] + i) % RingSize] = next + 1 + i
      /\ \A k \in Nat : k < wpos[plane] /\ wpos[plane] + write <= k + RingSize =>
           W[k % RingSize] = mem[plane][k % RingSize]
  <2>1. next + 1 \in Nat \ {0} /\ next + 1 + write - 1 <= MaxSamples
    BY <1>3
  <2> QED
    BY <1>1, <1>3, <2>1, WrittenIs
<1> HIDE DEF W
<1>7. /\ UNCHANGED <<wpos, rpos, next, plane, write, samples, state, saw_eof, call>>
      /\ UNCHANGED Callback
  BY DEF Pull!WriteCopy, Callback
<1>8. RingTypes' /\ DataTypes' /\ ControlTypes'
  <2>1. RingTypes'
    BY <1>1, <1>3, <1>5, <1>6, <1>7 DEF RingTypes
  <2>2. DataTypes'
    BY <1>1, <1>7 DEF DataTypes, Callback
  <2>3. ControlTypes'
    BY <1>1, <1>7 DEF ControlTypes, Pull!WriteCopy, Callback, Pull!PlayerAt
  <2> QED
    BY <2>1, <2>2, <2>3
<1>9. FlagTypes'
  BY <1>1, Zenon DEF FlagTypes, Pull!WriteCopy
<1>10. RingInv'
  BY <1>1, <1>2, <1>7 DEF RingInv, InWrite, InRead, Reading, Callback
<1>11. MemInv'
  <2> SUFFICES ASSUME NEW p \in Planes,
                      NEW k \in rpos[LastPlane]..(wpos[p] - 1 + (IF p = plane THEN write ELSE 0))
               PROVE  mem'[p][k % RingSize] = next + 1 + k - wpos[0]
    BY <1>2, <1>7 DEF MemInv
  <2>1. wpos[p] \in Nat /\ k \in Nat /\ k >= rpos[LastPlane]
    <3>1. wpos[p] \in Nat /\ rpos[LastPlane] \in Nat /\ write \in Nat
      BY <1>1, <1>3 DEF RingTypes
    <3> QED
      BY <3>1
  <2>2. CASE p # plane
    BY <1>1, <1>2, <1>5, <2>2 DEF MemInv, RingTypes
  <2>3. CASE p = plane /\ k < wpos[plane]
    <3>1. mem[plane][k % RingSize] = next + 1 + k - wpos[0]
      BY <1>1, <1>2, <1>3, <2>1, <2>3 DEF MemInv
    <3>2. W[k % RingSize] = mem[plane][k % RingSize]
      <4>1. wpos[plane] + write <= k + RingSize
        BY <1>3, <2>1
      <4> QED
        BY <1>6, <2>1, <2>3, <4>1
    <3> QED
      BY <1>1, <1>3, <1>5, <2>3, <3>1, <3>2 DEF RingTypes
  <2>4. CASE p = plane /\ k >= wpos[plane]
    <3>1. k - wpos[plane] \in 0..write - 1 /\ wpos[plane] + (k - wpos[plane]) = k
      BY <1>3, <2>1, <2>4
    <3>2. W[k % RingSize] = next + 1 + (k - wpos[plane])
      BY <1>6, <3>1
    <3> QED
      BY <1>1, <1>3, <1>5, <2>1, <2>4, <3>2 DEF RingTypes
  <2> QED
    BY <1>3, <2>1, <2>2, <2>3, <2>4
<1>12. DataInv' /\ CallbackInv'
  BY <1>1, <1>7 DEF DataInv, Copied, CallbackInv, Callback
<1>13. CountInv' /\ ResetInv' /\ SawInv'
  BY <1>1, <1>2, <1>7 DEF CountInv, ResetInv, SawInv, Callback
<1>14. LevelTypes'
  BY <1>2, <1>8, <1>10, LevelsFollow, PTL
<1> QED
  BY <1>8, <1>9, <1>10, <1>11, <1>12, <1>13, <1>14, TypesAre, PTL DEF PullInv

\* play() makes readable what it has written in a plane.
LEMMA WritePublishKeeps ==
  ASSUME PullInv, Pull!WritePublish
  PROVE  PullInv'
<1>1. /\ RingTypes /\ FlagTypes /\ ControlTypes /\ DataTypes /\ RingInv /\ MemInv /\ DataInv
      /\ CallbackInv /\ ResetInv /\ CountInv /\ SawInv
  BY TypesAre DEF PullInv
<1> USE DEF Pull!control, Pull!device, Pull!player, Pull!callback
<1>2. Writing /\ pc = "publish" /\ ~Resetting /\ ~Resetting' /\ ~saw_eof /\ ~saw_eof'
  BY <1>1 DEF Pull!WritePublish, Writing, Resetting, SawInv
<1>3. /\ plane \in Planes /\ plane >= 0 /\ write \in Nat /\ wpos[plane] = wpos[0]
      /\ wpos[0] \in Nat /\ rpos[LastPlane] \in Nat /\ RingSize \in Nat \ {0}
      /\ wpos[0] + write <= rpos[LastPlane] + RingSize /\ rpos[LastPlane] <= wpos[0]
      /\ next \in Nat /\ next + write <= MaxSamples /\ MaxSamples \in Nat
      /\ Planes \subseteq Nat /\ 0 \in Planes /\ LastPlane \in Planes /\ plane \in Nat
      /\ (plane > 0 => plane - 1 \in Planes)
  <2>1. /\ NumPlanes \in Nat \ {0} /\ Planes = 0..NumPlanes - 1 /\ LastPlane = NumPlanes - 1
    BY Constants DEF Planes, LastPlane
  <2>2. /\ plane \in Planes /\ plane >= 0 /\ write \in Nat /\ wpos[plane] = wpos[0]
        /\ wpos[plane] \in Nat /\ rpos[LastPlane] \in Nat /\ RingSize \in Nat \ {0}
        /\ wpos[plane] + write <= rpos[LastPlane] + RingSize
        /\ rpos[LastPlane] <= wpos[plane]
        /\ next \in Nat /\ next + write <= MaxSamples /\ MaxSamples \in Nat
    BY <1>2, WriterIs
  <2> QED
    BY ONLY <2>1, <2>2
<1>4. /\ wpos' = [wpos EXCEPT ![plane] = wpos[0] + write]
      /\ UNCHANGED <<mem, rpos, write, samples, state, saw_eof, call>>
      /\ UNCHANGED Callback
      /\ UNCHANGED <<underflow, driver, commands, cb_plane, want, buffered>>
  BY <1>3 DEF Pull!WritePublish, Callback
<1>5. /\ wpos'[plane] = wpos[0] + write
      /\ \A p \in Planes : p # plane => wpos'[p] = wpos[p]
      /\ \A p \in Planes : wpos[p] = wpos[0] + (IF p > plane THEN write ELSE 0)
      /\ wpos' \in [Planes -> Nat]
  <2>1. wpos \in [Planes -> Nat]
    BY <1>1 DEF RingTypes
  <2>2. \A p \in Planes : wpos[p] = wpos[0] + (IF p > plane THEN write ELSE 0)
    BY <1>1, <1>2 DEF RingInv
  <2>3. wpos[0] + write \in Nat
    BY <1>3
  <2> QED
    BY <1>3, <1>4, <2>1, <2>2, <2>3
<1>6. \/ plane > 0 /\ plane' = plane - 1 /\ pc' = "copy" /\ next' = next /\ wpos'[0] = wpos[0]
      \/ plane = 0 /\ plane' = 0 /\ pc' = "check" /\ next' = next + write
         /\ wpos'[0] = wpos[0] + write
  BY <1>3, <1>5 DEF Pull!WritePublish
<1>7. /\ next' - wpos'[0] = next - wpos[0]
      /\ next' \in 0..MaxSamples /\ wpos'[0] - next' = wpos[0] - next
      /\ plane' \in Planes /\ wpos'[0] \in Nat /\ wpos'[0] <= wpos[0] + write
      /\ wpos[0] <= wpos'[0]
  BY <1>3, <1>6
<1>8. RingTypes' /\ DataTypes' /\ ControlTypes'
  <2>1. RingTypes' /\ DataTypes'
    BY <1>1, <1>4, <1>5 DEF RingTypes, DataTypes, Callback
  <2> QED
    BY <1>1, <1>4, <1>6, <1>7, <2>1 DEF ControlTypes, Callback, Pull!PlayerAt
<1>9. FlagTypes'
  BY <1>1, Zenon DEF FlagTypes, Pull!WritePublish
<1>10. RingInv'
  <2>1. \A p \in Planes : wpos'[p] = wpos'[0] + (IF Writing' /\ p > plane' THEN write ELSE 0)
    <3>1. CASE plane > 0
      BY <1>3, <1>5, <1>6, <3>1 DEF Writing
    <3>2. CASE plane = 0
      BY <1>3, <1>5, <1>6, <3>2 DEF Writing
    <3> QED
      BY <1>3, <3>1, <3>2
  <2>2. wpos'[0] + InWrite' <= rpos[LastPlane] + RingSize
    BY <1>3, <1>4, <1>6 DEF InWrite, Writing
  <2>3. rpos[LastPlane] + InRead <= wpos'[0]
    <3>1. rpos[LastPlane] + InRead <= wpos[0] /\ InRead \in Nat
      BY <1>1, <1>2 DEF RingInv, InRead, ControlTypes
    <3> QED
      BY <1>3, <1>7, <3>1
  <2>4. \A p \in Planes :
          rpos[p] = rpos[LastPlane] + (IF Reading /\ p < cb_plane THEN bytes ELSE 0)
    BY <1>1, <1>2 DEF RingInv
  <2> QED
    BY <1>4, <2>1, <2>2, <2>3, <2>4 DEF RingInv, InRead, Reading, Callback
<1>11. MemInv'
  <2> SUFFICES ASSUME NEW p \in Planes, NEW k \in rpos[LastPlane]..(wpos'[p] - 1)
               PROVE  mem[p][k % RingSize] = next' + 1 + k - wpos'[0]
    <3>1. \A p \in Planes : wpos'[p] - 1 + 0 = wpos'[p] - 1
      BY <1>5
    <3>2. pc' # "publish"
      BY <1>6
    <3> QED
      BY <1>4, <3>1, <3>2 DEF MemInv
  <2>1. k \in rpos[LastPlane]..(wpos[p] - 1 + (IF p = plane THEN write ELSE 0))
    BY <1>3, <1>5
  <2>2. mem[p][k % RingSize] = next + 1 + k - wpos[0]
    BY <1>1, <1>2, <2>1 DEF MemInv
  <2>3. k \in Int
    OBVIOUS
  <2> QED
    BY <2>2, <2>3, <1>3, <1>6
<1>12. DataInv' /\ CallbackInv'
  <2>1. \A i \in Int : next' + rpos[LastPlane] + i - wpos'[0] = next + rpos[LastPlane] + i - wpos[0]
    BY <1>3, <1>6
  <2>2. [i \in 1..bytes |-> next' + rpos[LastPlane] + i - wpos'[0]]
          = [i \in 1..bytes |-> next + rpos[LastPlane] + i - wpos[0]]
    BY <2>1
  <2> QED
    BY <1>1, <1>4, <2>2 DEF DataInv, Copied, CallbackInv, Callback
<1>13. CountInv'
  <2>1. /\ Len(heard) \in Nat /\ Len(heard) + (wpos[0] - rpos[LastPlane]) <= next
        /\ next + samples <= MaxSamples /\ heard \in Seq([Planes -> Int])
    BY <1>1, <1>2 DEF CountInv
  <2>2. Len(heard) + (wpos'[0] - rpos[LastPlane]) <= next'
    <3>1. wpos'[0] \in Nat /\ next' \in Nat /\ next' - wpos'[0] = next - wpos[0]
      BY <1>7, Constants
    <3>2. rpos[LastPlane]' = rpos[LastPlane] /\ wpos[0] \in Nat /\ rpos[LastPlane] \in Nat /\ next \in Nat
      BY <1>3, <1>4
    <3> QED
      BY <2>1, <3>1, <3>2, SMTT(30)
  <2>3. Writing' => next' + samples' <= MaxSamples
    BY <2>1, <1>4, <1>6 DEF Writing
  <2> QED
    BY <1>2, <1>4, <2>1, <2>2, <2>3 DEF CountInv, Callback
<1>14. ResetInv' /\ SawInv'
  BY <1>2 DEF ResetInv, SawInv
<1>15. LevelTypes'
  BY <1>2, <1>8, <1>10, LevelsFollow, PTL
<1> QED
  BY <1>8, <1>9, <1>10, <1>11, <1>12, <1>13, <1>14, <1>15, TypesAre, PTL DEF PullInv

\* set_state has waited for the callback.
LEMMA SetNoneKeeps ==
  ASSUME PullInv, Pull!SetNone
  PROVE  PullInv'
<1>1. /\ RingTypes /\ LevelTypes /\ FlagTypes /\ ControlTypes /\ DataTypes /\ RingInv /\ MemInv
      /\ DataInv /\ CallbackInv /\ CountInv /\ SawInv
  BY TypesAre DEF PullInv
<1> USE DEF Pull!rings, Pull!device, Pull!player, Pull!callback
<1>2. /\ pc = "set_none" /\ pc' \in {"idle", "reset_wpos"} /\ state # "busy" /\ state' = "none"
      /\ UNCHANGED <<Positions, Callback>> /\ UNCHANGED <<samples, write, saw_eof>>
      /\ pc' = "reset_wpos" => plane' = 0 /\ call' = call
      /\ pc' = "idle" => plane' = plane /\ call = "pause"
  BY DEF Pull!SetNone, Pull!Return, Positions, Callback
<1>3. ~Resetting /\ ~Writing /\ ~Writing' /\ pc' # "reset_rpos"
  BY <1>2 DEF Resetting, Writing
<1>4. RingTypes' /\ DataTypes' /\ LevelTypes'
  BY <1>1, <1>2 DEF RingTypes, DataTypes, LevelTypes, Positions, Callback
<1>5. FlagTypes'
  BY <1>1, Zenon DEF FlagTypes, Pull!SetNone, Pull!Return
<1>6. ControlTypes'
  <2>1. 0 \in Planes /\ plane \in Planes
    BY <1>1, Constants DEF Planes, ControlTypes
  <2>2. plane' \in Planes /\ call' \in {"none", "play", "pause", "resume", "reset", "drain"}
    BY <1>1, <2>1 DEF Pull!SetNone, Pull!Return, ControlTypes
  <2> QED
    BY <1>1, <1>2, <2>2
    DEF ControlTypes, Pull!SetNone, Pull!PlayerAt, Positions, Callback
<1>7. RingInv'
  BY <1>1, <1>2, <1>3 DEF RingInv, InWrite, InRead, Reading, Positions, Callback
<1>8. MemInv'
  BY <1>1, <1>2, <1>3 DEF MemInv, Positions, Writing
<1>9. DataInv' /\ CallbackInv'
  BY <1>1, <1>2 DEF DataInv, Copied, CallbackInv, Positions, Callback
<1>10. CountInv'
  <2>1. /\ Len(heard) \in Nat /\ Len(heard) + (wpos[0] - rpos[LastPlane]) <= next
        /\ heard \in Seq([Planes -> Int])
    BY <1>1, <1>3 DEF CountInv
  <2>2. wpos[0] \in Nat /\ rpos[LastPlane] \in Nat /\ rpos[LastPlane] <= wpos[0] /\ next \in Nat
    <3>1. 0 \in Planes /\ LastPlane \in Planes
      BY Constants DEF Planes, LastPlane
    <3>2. rpos[LastPlane] <= wpos[0]
      BY <1>1, <1>3, <3>1, LevelsFollow
    <3> QED
      BY <1>1, <3>1, <3>2 DEF RingTypes, ControlTypes
  <2> QED
    BY <1>2, <1>3, <2>1, <2>2 DEF CountInv, Positions, Callback
<1>11. ResetInv'
  <2>1. \A p \in Planes : ~(p < 0)
    BY Constants DEF Planes
  <2> QED
    BY <1>2, <2>1 DEF ResetInv, Resetting
<1>12. SawInv'
  BY <1>1, <1>2 DEF SawInv, Resetting
<1> QED
  BY <1>4, <1>5, <1>6, <1>7, <1>8, <1>9, <1>10, <1>11, <1>12, TypesAre, PTL DEF PullInv

\* The first half of the reset of a ring: nobody else is there.
LEMMA ResetWposKeeps ==
  ASSUME PullInv, Pull!ResetWpos
  PROVE  PullInv'
<1>1. /\ RingTypes /\ LevelTypes /\ FlagTypes /\ ControlTypes /\ DataTypes
      /\ DataInv /\ CallbackInv /\ ResetInv /\ CountInv /\ SawInv
  BY TypesAre DEF PullInv
<1> USE DEF Pull!control, Pull!device, Pull!player, Pull!playing, Pull!callback
<1>2. /\ pc = "reset_wpos" /\ pc' = "reset_rpos" /\ wpos' = [wpos EXCEPT ![plane] = 0]
      /\ UNCHANGED <<mem, rpos, next, plane, samples, state, saw_eof, call>>
      /\ UNCHANGED Callback
  BY DEF Pull!ResetWpos, Callback
<1>3. Resetting /\ Resetting' /\ ~Writing' /\ plane \in Planes
  BY <1>1, <1>2 DEF Resetting, Writing, ControlTypes
<1>4. RingTypes' /\ DataTypes' /\ LevelTypes'
  BY <1>1, <1>2, <1>3 DEF RingTypes, DataTypes, LevelTypes, Callback
<1>5. FlagTypes'
  BY <1>1, Zenon DEF FlagTypes, Pull!ResetWpos
<1>6. ControlTypes'
  BY <1>1 DEF ControlTypes, Pull!ResetWpos, Pull!PlayerAt
<1>7. RingInv' /\ MemInv'
  BY <1>3 DEF RingInv, MemInv
<1>8. DataInv' /\ CallbackInv'
  <2>1. cb_pc \notin {"copy", "release"}
    BY <1>1, <1>3 DEF ResetInv, CallbackInv
  <2> QED
    BY <1>1, <1>2, <2>1 DEF DataInv, CallbackInv, Callback
<1>9. ResetInv'
  BY <1>1, <1>2, <1>3 DEF ResetInv, RingTypes
<1>10. CountInv' /\ SawInv'
  BY <1>1, <1>2, <1>3 DEF CountInv, SawInv, Callback
<1> QED
  BY <1>4, <1>5, <1>6, <1>7, <1>8, <1>9, <1>10, TypesAre, PTL DEF PullInv

\* The second half, after which the last ring is empty like all others.
LEMMA ResetRposKeeps ==
  ASSUME PullInv, Pull!ResetRpos
  PROVE  PullInv'
<1>1. /\ RingTypes /\ LevelTypes /\ FlagTypes /\ ControlTypes /\ DataTypes
      /\ DataInv /\ CallbackInv /\ ResetInv /\ CountInv /\ SawInv
  BY TypesAre DEF PullInv
<1> USE DEF Pull!control, Pull!device, Pull!player, Pull!playing, Pull!callback
<1>2. /\ pc = "reset_rpos" /\ rpos' = [rpos EXCEPT ![plane] = 0]
      /\ UNCHANGED <<mem, wpos, next, samples, write, state, saw_eof, final>>
      /\ UNCHANGED Callback
      /\ \/ plane < LastPlane /\ pc' = "reset_wpos" /\ plane' = plane + 1 /\ call' = call
         \/ ~(plane < LastPlane) /\ pc' = "closed" /\ plane' = 0 /\ call' = call /\ call = "drain"
         \/ ~(plane < LastPlane) /\ pc' = "idle" /\ plane' = 0 /\ call' = "none" /\ call # "drain"
  BY DEF Pull!ResetRpos, Pull!Return, Callback, LastPlane
<1>3. /\ Resetting /\ ~Writing' /\ plane \in Planes /\ plane \in Int
      /\ wpos[plane] = 0 /\ rpos'[plane] = 0 /\ 0 \in Planes /\ LastPlane \in Planes
      /\ \A p \in Planes : p \in Int /\ p <= LastPlane
      /\ \A p \in Planes : p # plane => rpos'[p] = rpos[p]
      /\ \A p \in Planes : p < plane => wpos[p] = 0 /\ rpos[p] = 0
  <2>1. Resetting /\ plane \in Planes /\ ~Writing'
    BY <1>1, <1>2 DEF Resetting, Writing, ControlTypes
  <2>2. 0 \in Planes /\ LastPlane \in Planes /\ \A p \in Planes : p \in Int /\ p <= LastPlane
    BY Constants DEF Planes, LastPlane
  <2> QED
    BY <1>1, <1>2, <2>1, <2>2 DEF ResetInv, RingTypes
<1>4. state = "none" /\ cb_pc \notin {"load", "count", "copy", "release", "end"}
  BY <1>1, <1>3 DEF ResetInv, CallbackInv
<1>5. RingTypes' /\ DataTypes'
  BY <1>1, <1>2, <1>3 DEF RingTypes, DataTypes, Callback
<1>6. LevelTypes'
  <2>1. RingSize \in Nat
    BY Constants
  <2> QED
    BY <1>1, <1>2, <1>3, <2>1 DEF LevelTypes
<1>7. FlagTypes'
  BY <1>1, Zenon DEF FlagTypes, Pull!ResetRpos, Pull!Return
<1>8. ControlTypes'
  <2>1. plane' \in Planes
    <3>1. plane < LastPlane => plane + 1 \in Planes
      BY <1>3, Constants DEF Planes, LastPlane
    <3> QED
      BY <1>2, <1>3, <3>1
  <2> QED
    BY <1>1, <1>2, <2>1 DEF ControlTypes, Pull!ResetRpos, Pull!PlayerAt, Callback
<1>9. ASSUME ~Resetting'
      PROVE  \A p \in Planes : wpos[p] = 0 /\ rpos'[p] = 0
  <2>1. ~(plane < LastPlane)
    BY <1>2, <1>9 DEF Resetting
  <2> QED
    BY <1>3, <2>1
<1>10. RingInv'
  <2>1. RingSize \in Nat /\ ~Reading
    BY <1>4, Constants DEF Reading
  <2>2. ~Resetting' => wpos[0] = 0 /\ rpos'[LastPlane] = 0
    BY <1>3, <1>9
  <2> QED
    BY <1>2, <1>3, <1>9, <2>1, <2>2 DEF RingInv, InRead, InWrite, Reading, Callback
<1>11. MemInv'
  <2> SUFFICES ASSUME ~Resetting', NEW p \in Planes, NEW k \in 0..(0 - 1 + 0) PROVE FALSE
    <3>1. ~Resetting' => rpos'[LastPlane] = 0
      BY <1>3, <1>9
    <3>2. ~Resetting' => pc' # "publish"
      BY <1>2
    <3> QED
      BY <1>2, <1>9, <3>1, <3>2 DEF MemInv
  <2> QED
    OBVIOUS
<1>12. DataInv' /\ CallbackInv'
  BY <1>1, <1>2, <1>4 DEF DataInv, CallbackInv, Callback
<1>13. ResetInv'
  <2>1. CASE pc' = "reset_wpos"
    BY <1>1, <1>2, <1>3, <2>1 DEF ResetInv
  <2>2. CASE pc' # "reset_wpos"
    BY <1>2, <2>2 DEF ResetInv, Resetting
  <2> QED
    BY <2>1, <2>2
<1>14. CountInv'
  <2>1. Len(heard) \in Nat /\ next \in Nat /\ Len(heard) + 0 <= next
    BY <1>1, <1>3 DEF CountInv, ControlTypes
  <2>2. ~Resetting' => wpos[0] = 0 /\ rpos'[LastPlane] = 0
    BY <1>3, <1>9
  <2> QED
    BY <1>1, <1>2, <1>3, <2>1, <2>2 DEF CountInv, Callback
<1>15. SawInv'
  BY <1>1, <1>2 DEF SawInv, Resetting
<1> QED
  BY <1>5, <1>6, <1>7, <1>8, <1>10, <1>11, <1>12, <1>13, <1>14, <1>15, TypesAre, PTL
  DEF PullInv

\* What the callback works with: it has asked for no more than can be read in any plane,
\* and has not given back the plane it is at.
LEMMA ReaderIs ==
  ASSUME PullInv, cb_pc \in {"copy", "release"}
  PROVE  /\ cb_plane \in Planes /\ bytes \in 0..RingSize /\ LastPlane \in Planes /\ 0 \in Planes
         /\ ~Resetting /\ Reading
         /\ rpos[LastPlane] \in Nat /\ wpos[0] \in Nat /\ wpos[cb_plane] \in Nat
         /\ rpos[cb_plane] = rpos[LastPlane] /\ rpos[LastPlane] + bytes <= wpos[0]
         /\ wpos[0] <= wpos[cb_plane] /\ RingSize \in Nat \ {0}
<1>1. RingTypes /\ ControlTypes /\ RingInv /\ CallbackInv /\ ResetInv
  BY TypesAre DEF PullInv
<1>2. ~Resetting /\ Reading /\ InRead = bytes
  BY <1>1 DEF Reading, InRead, CallbackInv, ResetInv
<1>3. /\ cb_plane \in Planes /\ cb_plane \in Nat /\ bytes \in 0..RingSize /\ LastPlane \in Planes
      /\ 0 \in Planes /\ RingSize \in Nat \ {0}
  BY <1>1, Constants DEF ControlTypes, Planes, LastPlane
<1>4. rpos[LastPlane] \in Nat /\ wpos[0] \in Nat /\ wpos[cb_plane] \in Nat
  BY <1>1, <1>3 DEF RingTypes
<1>5. rpos[cb_plane] = rpos[LastPlane] /\ rpos[LastPlane] + bytes <= wpos[0]
  BY <1>1, <1>2, <1>3, <1>4 DEF RingInv
<1>6. wpos[0] <= wpos[cb_plane]
  BY <1>1, <1>2, <1>3, LevelsFollow
<1> QED
  BY <1>2, <1>3, <1>4, <1>5, <1>6

\* The callback copies the samples that it has found in the first plane.
LEMMA CbCopyKeeps ==
  ASSUME PullInv, Pull!CbCopy
  PROVE  PullInv'
<1>1. /\ RingTypes /\ LevelTypes /\ FlagTypes /\ ControlTypes /\ DataTypes /\ RingInv /\ MemInv
      /\ DataInv /\ CallbackInv /\ ResetInv /\ CountInv /\ SawInv
  BY TypesAre DEF PullInv
<1> USE DEF Pull!rings, Pull!control, Pull!device, Pull!playing, Pull!player
<1>2. /\ cb_pc = "copy" /\ cb_pc' = "release"
      /\ UNCHANGED <<Player, cb_plane, heard, state, plane>>
      /\ bytes' = Pull!Min({bytes, Pull!Buffered(cb_plane)})
      /\ data' = [data EXCEPT ![cb_plane] = Pull!Readable(cb_plane, bytes')]
  BY DEF Pull!CbCopy, Player
<1>3. /\ cb_plane \in Planes /\ bytes \in 0..RingSize /\ LastPlane \in Planes /\ 0 \in Planes
      /\ ~Resetting /\ Reading /\ Reading'
      /\ rpos[LastPlane] \in Nat /\ wpos[0] \in Nat /\ wpos[cb_plane] \in Nat
      /\ rpos[cb_plane] = rpos[LastPlane] /\ rpos[LastPlane] + bytes <= wpos[0]
      /\ wpos[0] <= wpos[cb_plane] /\ RingSize \in Nat \ {0} /\ next \in Nat
      /\ \A p \in Planes : p \in Int
  BY <1>1, <1>2, ReaderIs, Constants DEF Reading, ControlTypes, Planes
<1>4. bytes' = bytes
  <2>1. Pull!Buffered(cb_plane) \in Int /\ bytes \in Int /\ bytes <= Pull!Buffered(cb_plane)
    BY <1>3 DEF Pull!Buffered
  <2> QED
    BY <1>2, <2>1, SmallerIs
<1> DEFINE R == [i \in 1..bytes |-> next + rpos[LastPlane] + i - wpos[0]]
<1>5. data' = [data EXCEPT ![cb_plane] = R]
  <2>1. ASSUME NEW i \in 1..bytes
        PROVE  mem[cb_plane][(rpos[cb_plane] + i - 1) % RingSize] = next + rpos[LastPlane] + i - wpos[0]
    <3>1. i \in Nat /\ rpos[LastPlane] + i - 1 \in rpos[LastPlane]..(wpos[cb_plane] - 1)
      BY <1>3
    <3>2. rpos[LastPlane] + i - 1 \in rpos[LastPlane]..(wpos[cb_plane] - 1
            + (IF pc = "publish" /\ cb_plane = plane THEN write ELSE 0))
      <4>1. write \in Nat
        BY <1>1 DEF ControlTypes
      <4> QED
        BY <1>3, <3>1, <4>1
    <3>3. mem[cb_plane][(rpos[LastPlane] + i - 1) % RingSize]
            = next + 1 + (rpos[LastPlane] + i - 1) - wpos[0]
      BY <1>1, <1>3, <3>2 DEF MemInv
    <3>4. next + 1 + (rpos[LastPlane] + i - 1) - wpos[0] = next + rpos[LastPlane] + i - wpos[0]
      BY <1>3, <3>1
    <3>5. rpos[cb_plane] = rpos[LastPlane]
      BY <1>3
    <3> QED
      BY <3>3, <3>4, <3>5
  <2>2. Pull!Readable(cb_plane, bytes) = R
    BY <2>1 DEF Pull!Readable
  <2> QED
    BY <1>2, <1>4, <2>2
<1>6. R \in Seq(Int) /\ Len(R) = bytes
  <2>1. bytes \in Nat /\ \A i \in 1..bytes : next + rpos[LastPlane] + i - wpos[0] \in Int
    BY <1>3
  <2>2. R \in [1..bytes -> Int]
    BY <2>1
  <2> HIDE DEF R
  <2> QED
    BY <2>1, <2>2
<1>7. FlagTypes'
  BY <1>1, Zenon DEF FlagTypes, Pull!CbCopy
<1>8. ControlTypes' /\ RingTypes' /\ LevelTypes'
  BY <1>1, <1>2, <1>4 DEF ControlTypes, RingTypes, LevelTypes, Pull!CbCopy, Player
<1>9. DataInv'
  <2>1. R' = R
    BY <1>2, <1>4 DEF Player
  <2> HIDE DEF R
  <2>2. data' \in [Planes -> Seq(Int)]
    BY <1>1, <1>3, <1>5, <1>6 DEF DataInv
  <2>3. ASSUME NEW p \in Planes, Copied(p)'
        PROVE  data'[p] = R
    <3>1. CASE p = cb_plane
      BY <1>1, <1>5, <3>1 DEF DataInv
    <3>2. CASE p # cb_plane
      <4>1. Copied(p)
        BY <1>2, <2>3, <3>2 DEF Copied
      <4> QED
        BY <1>1, <1>2, <1>5, <3>2, <4>1 DEF DataInv, R
    <3> QED
      BY <3>1, <3>2
  <2> QED
    BY <2>1, <2>2, <2>3 DEF DataInv, R
<1>10. DataTypes'
  BY <1>1, <1>2, <1>3, <1>5, <1>6 DEF DataTypes, DataInv
<1>11. RingInv'
  BY <1>1, <1>2, <1>3, <1>4
  DEF RingInv, InWrite, InRead, Reading, Writing, Resetting, Player
<1>12. MemInv' /\ CallbackInv' /\ ResetInv'
  BY <1>1, <1>2 DEF MemInv, CallbackInv, ResetInv, Resetting, Player
<1>13. CountInv' /\ SawInv'
  BY <1>1, <1>2 DEF CountInv, SawInv, Resetting, Writing, Player
<1> QED
  BY <1>7, <1>8, <1>9, <1>10, <1>11, <1>12, <1>13, TypesAre, PTL DEF PullInv

\* The callback gives back the samples of a plane; with those of the last one, the device
\* gets them.
LEMMA CbReleaseKeeps ==
  ASSUME PullInv, Pull!CbRelease
  PROVE  PullInv'
<1>1. /\ RingTypes /\ LevelTypes /\ FlagTypes /\ ControlTypes /\ DataTypes /\ RingInv /\ MemInv
      /\ DataInv /\ CallbackInv /\ ResetInv /\ CountInv /\ SawInv
  BY TypesAre DEF PullInv
<1> USE DEF Pull!control, Pull!device, Pull!playing, Pull!player
<1>2. /\ cb_pc = "release" /\ rpos' = [rpos EXCEPT ![cb_plane] = rpos[cb_plane] + bytes]
      /\ UNCHANGED <<mem, wpos, next, call, pc, plane, write, samples, saw_eof, state, bytes>>
      /\ \/ cb_plane < LastPlane /\ cb_plane' = cb_plane + 1 /\ cb_pc' = "copy"
            /\ data' = data /\ heard' = heard
         \/ ~(cb_plane < LastPlane) /\ cb_plane' = 0 /\ cb_pc' = "end"
            /\ data' = [p \in Planes |-> <<>>]
            /\ heard' = heard \o [i \in 1..bytes |-> [p \in Planes |-> data[p][i]]]
  BY DEF Pull!CbRelease, LastPlane, Planes
<1>3. /\ cb_plane \in Planes /\ cb_plane \in Nat /\ bytes \in 0..RingSize
      /\ LastPlane \in Planes /\ LastPlane \in Nat /\ 0 \in Planes
      /\ ~Resetting /\ ~Resetting' /\ Reading
      /\ rpos[LastPlane] \in Nat /\ wpos[0] \in Nat
      /\ rpos[cb_plane] = rpos[LastPlane] /\ rpos[LastPlane] + bytes <= wpos[0]
      /\ RingSize \in Nat \ {0} /\ next \in 0..MaxSamples /\ MaxSamples \in Nat
      /\ \A p \in Planes : p \in Int /\ p <= LastPlane
      /\ (cb_plane < LastPlane => cb_plane + 1 \in Planes)
  <2>1. cb_plane \in Planes /\ next \in 0..MaxSamples
    BY <1>1 DEF ControlTypes
  <2>2. ~Resetting' <=> ~Resetting
    BY <1>2 DEF Resetting
  <2>3. /\ MaxSamples \in Nat /\ LastPlane \in Nat /\ cb_plane \in Nat
        /\ \A p \in Planes : p \in Int /\ p <= LastPlane
        /\ (cb_plane < LastPlane => cb_plane + 1 \in Planes)
    BY <2>1, Constants DEF Planes, LastPlane
  <2> QED
    BY <1>2, <2>1, <2>2, <2>3, ReaderIs
<1>4. /\ rpos'[cb_plane] = rpos[LastPlane] + bytes /\ rpos' \in [Planes -> Nat]
      /\ \A p \in Planes : p # cb_plane => rpos'[p] = rpos[p]
      /\ \A p \in Planes : p < cb_plane => rpos[p] = rpos[LastPlane] + bytes
      /\ \A p \in Planes : p > cb_plane => rpos[p] = rpos[LastPlane]
  <2>1. rpos \in [Planes -> Nat]
    BY <1>1 DEF RingTypes
  <2>2. \A p \in Planes :
          rpos[p] = rpos[LastPlane] + (IF Reading /\ p < cb_plane THEN bytes ELSE 0)
    BY <1>1, <1>3 DEF RingInv
  <2> QED
    BY <1>2, <1>3, <2>1, <2>2
<1>5. /\ cb_plane < LastPlane => rpos'[LastPlane] = rpos[LastPlane]
      /\ ~(cb_plane < LastPlane) => cb_plane = LastPlane /\ rpos'[LastPlane] = rpos[LastPlane] + bytes
  BY <1>3, <1>4
<1>6. rpos'[LastPlane] \in Nat /\ rpos'[LastPlane] >= rpos[LastPlane] /\ rpos'[LastPlane] <= wpos[0]
  BY <1>3, <1>5
<1>7. RingTypes'
  BY <1>1, <1>2, <1>4 DEF RingTypes
<1>8. FlagTypes'
  BY <1>1, Zenon DEF FlagTypes, Pull!CbRelease
<1>9. ControlTypes'
  <2>1. cb_plane' \in Planes
    BY <1>2, <1>3
  <2> QED
    BY <1>1, <1>2, <2>1 DEF ControlTypes, Pull!CbRelease
<1>10. RingInv'
  <2>1. \A p \in Planes : rpos'[p] = rpos'[LastPlane] + (IF Reading' /\ p < cb_plane' THEN bytes ELSE 0)
    <3>1. CASE cb_plane < LastPlane
      <4>1. Reading' /\ cb_plane' = cb_plane + 1
        BY <1>2, <3>1 DEF Reading
      <4>2. ASSUME NEW p \in Planes
            PROVE  rpos'[p] = rpos[LastPlane] + (IF p < cb_plane + 1 THEN bytes ELSE 0)
        BY <1>3, <1>4
      <4> QED
        BY <1>5, <3>1, <4>1, <4>2
    <3>2. CASE ~(cb_plane < LastPlane)
      <4>1. ~Reading'
        BY <1>2, <3>2 DEF Reading
      <4>2. ASSUME NEW p \in Planes
            PROVE  rpos'[p] = rpos[LastPlane] + bytes
        BY <1>3, <1>4, <1>5, <3>2
      <4> QED
        BY <1>5, <1>6, <3>2, <4>1, <4>2
    <3> QED
      BY <3>1, <3>2
  <2>2. rpos'[LastPlane] + InRead' <= wpos[0]
    <3>1. Reading' => cb_plane < LastPlane
      BY <1>2 DEF Reading
    <3> QED
      BY <1>2, <1>3, <1>5, <1>6, <3>1 DEF InRead
  <2>3. /\ InWrite' = InWrite /\ Writing' = Writing /\ InWrite \in Nat
        /\ wpos[0] + InWrite <= rpos[LastPlane] + RingSize
        /\ \A p \in Planes : wpos[p] = wpos[0] + (IF Writing /\ p > plane THEN write ELSE 0)
    BY <1>1, <1>2, <1>3 DEF InWrite, Writing, RingInv, ControlTypes
  <2>4. wpos[0] + InWrite' <= rpos'[LastPlane] + RingSize
    BY <1>3, <1>6, <2>3
  <2> QED
    BY <1>2, <2>1, <2>2, <2>3, <2>4 DEF RingInv
<1>11. MemInv'
  <2> SUFFICES ASSUME NEW p \in Planes,
                      NEW k \in rpos'[LastPlane]..(wpos[p] - 1
                                  + (IF pc = "publish" /\ p = plane THEN write ELSE 0))
               PROVE  mem[p][k % RingSize] = next + 1 + k - wpos[0]
    BY <1>2 DEF MemInv
  <2>1. k \in rpos[LastPlane]..(wpos[p] - 1 + (IF pc = "publish" /\ p = plane THEN write ELSE 0))
    BY <1>3, <1>6
  <2> QED
    BY <1>1, <1>3, <2>1 DEF MemInv
<1>12. DataInv' /\ DataTypes' /\ CountInv'
  <2>1. CASE cb_plane < LastPlane
    <3>1. UNCHANGED <<data, heard>> /\ cb_plane' = cb_plane + 1 /\ cb_pc' = "copy"
          /\ rpos'[LastPlane] = rpos[LastPlane]
      BY <1>2, <1>5, <2>1
    <3>2. DataInv'
      <4>1. \A p \in Planes : Copied(p)' => Copied(p)
        BY <1>2, <1>3, <3>1 DEF Copied
      <4> QED
        BY <1>1, <1>2, <3>1, <4>1 DEF DataInv
    <3> QED
      BY <1>1, <1>2, <3>1, <3>2 DEF DataTypes, CountInv, Resetting, Writing
  <2>2. CASE ~(cb_plane < LastPlane)
    <3> DEFINE Got == [i \in 1..bytes |-> [p \in Planes |-> data[p][i]]]
    <3>1. /\ data' = [p \in Planes |-> <<>>] /\ heard' = heard \o Got /\ cb_pc' = "end"
          /\ rpos'[LastPlane] = rpos[LastPlane] + bytes
      BY <1>2, <1>5, <2>2
    <3>2. ASSUME NEW p \in Planes, NEW i \in 1..bytes
          PROVE  data[p][i] \in Int
      <4>1. Copied(p)
        BY <1>2, <1>3, <2>2 DEF Copied
      <4>2. data[p] = [j \in 1..bytes |-> next + rpos[LastPlane] + j - wpos[0]]
        BY <1>1, <1>2, <4>1 DEF DataInv
      <4> QED
        BY <1>3, <4>2
    <3>3. Got \in Seq([Planes -> Int]) /\ Len(Got) = bytes
      <4>1. Got \in [1..bytes -> [Planes -> Int]] /\ bytes \in Nat
        BY <1>3, <3>2
      <4> HIDE DEF Got
      <4> QED
        BY <4>1
    <3> HIDE DEF Got
    <3>4. /\ heard \in Seq([Planes -> Int]) /\ Len(heard) \in Nat
          /\ Len(heard) + (wpos[0] - rpos[LastPlane]) <= next
          /\ Writing => next + samples <= MaxSamples
      BY <1>1, <1>3 DEF CountInv
    <3>5. heard' \in Seq([Planes -> Int]) /\ Len(heard') = Len(heard) + bytes
      BY <3>1, <3>3, <3>4, ConcatProperties
    <3>6. Len(heard') + (wpos[0] - rpos'[LastPlane]) <= next /\ Len(heard') <= MaxSamples
      BY <1>3, <3>1, <3>4, <3>5
    <3>7. DataInv'
      BY <3>1 DEF DataInv
    <3>8. \A p \in Planes : Len(data'[p]) <= RingSize
      BY <1>3, <3>1
    <3> QED
      BY <1>2, <1>3, <3>4, <3>5, <3>6, <3>7, <3>8 DEF DataTypes, CountInv, Writing
  <2> QED
    BY <2>1, <2>2
<1>13. CallbackInv' /\ ResetInv'
  BY <1>1, <1>2, <1>3 DEF CallbackInv, ResetInv
<1>14. SawInv'
  <2>1. ASSUME saw_eof PROVE wpos[0] = rpos'[0] \/ pc = "closed"
    <3>1. pc = "closed" \/ wpos[0] = rpos[0]
      BY <1>1, <1>3, <2>1 DEF SawInv
    <3>2. CASE cb_plane = 0
      BY <1>3, <1>4, <3>1, <3>2
    <3>3. CASE cb_plane # 0
      BY <1>3, <1>4, <3>1, <3>3
    <3> QED
      BY <3>2, <3>3
  <2> QED
    BY <1>1, <1>2, <2>1 DEF SawInv
<1>15. LevelTypes'
  BY <1>3, <1>7, <1>9, <1>10, LevelsFollow, PTL
<1> QED
  BY <1>7, <1>8, <1>9, <1>10, <1>11, <1>12, <1>13, <1>14, <1>15, TypesAre, PTL DEF PullInv

\* At first all is empty.
LEMMA PullInitially ==
  ASSUME Pull!Init
  PROVE  PullInv
<1>1. /\ RingSize \in Nat \ {0} /\ Planes = 0..NumPlanes - 1 /\ NumPlanes \in Nat \ {0}
      /\ 0 \in Planes /\ LastPlane \in Planes /\ MaxSamples \in Nat /\ MaxCommands \in Nat
      /\ \A p \in Planes : p \in Nat
  BY Constants DEF Planes, LastPlane
<1>2. /\ mem = [p \in Planes |-> [i \in 0..(RingSize - 1) |-> 0]]
      /\ wpos = [p \in Planes |-> 0] /\ rpos = [p \in Planes |-> 0]
      /\ state = "none" /\ draining = FALSE /\ underflow = 0 /\ driver \in PullDrivers
      /\ running = (driver = "silence") /\ call = "none" /\ pc = "idle"
      /\ samples = 0 /\ write = 0 /\ final = FALSE /\ plane = 0
      /\ next = 0 /\ saw_eof = FALSE /\ core_paused = FALSE /\ commands = 0
      /\ woken = TRUE
      /\ cb_pc = "idle" /\ cb_plane = 0 /\ want = 0
      /\ buffered = 0 /\ bytes = 0
      /\ data = [p \in Planes |-> <<>>]
      /\ heard = <<>>
  BY DEF Pull!Init, Planes
<1>3. RingTypes /\ LevelTypes
  BY <1>1, <1>2 DEF RingTypes, LevelTypes
<1>4. FlagTypes
  BY <1>2, Zenon DEF FlagTypes
<1>5. ControlTypes
  BY <1>1, <1>2 DEF ControlTypes, Pull!PlayerAt
<1>6. DataTypes
  BY <1>1, <1>2 DEF DataTypes
<1>7. RingInv
  BY <1>1, <1>2 DEF RingInv, InWrite, InRead, Writing, Reading
<1>8. MemInv /\ DataInv
  BY <1>1, <1>2 DEF MemInv, DataInv
<1>9. CallbackInv /\ ResetInv /\ SawInv
  BY <1>2 DEF CallbackInv, ResetInv, SawInv, Resetting
<1>10. CountInv
  BY <1>1, <1>2 DEF CountInv, Resetting, Writing
<1> QED
  BY <1>3, <1>4, <1>5, <1>6, <1>7, <1>8, <1>9, <1>10, TypesAre DEF PullInv

\* Every step of the player and of the callback keeps the invariant.
LEMMA PullKeeps ==
  ASSUME PullInv, Pull!Next
  PROVE  PullInv'
<1>1. CASE \E n \in 1..MaxSamples : Pull!Play(n)
  BY <1>1, PlayKeeps
<1>2. CASE ControlStep
  BY <1>2, ControlKeeps
<1>3. CASE Pull!Poke
  BY <1>3, PokeKeeps
<1>4. CASE CallbackStep
  BY <1>4, CallbackKeeps
<1>5. CASE Pull!WriteCopy
  BY <1>5, WriteCopyKeeps
<1>6. CASE Pull!WritePublish
  BY <1>6, WritePublishKeeps
<1>7. CASE Pull!SetNone
  BY <1>7, SetNoneKeeps
<1>8. CASE Pull!ResetWpos
  BY <1>8, ResetWposKeeps
<1>9. CASE Pull!ResetRpos
  BY <1>9, ResetRposKeeps
<1>10. CASE Pull!CbCopy
  BY <1>10, CbCopyKeeps
<1>11. CASE Pull!CbRelease
  BY <1>11, CbReleaseKeeps
<1> QED
  BY <1>1, <1>2, <1>3, <1>4, <1>5, <1>6, <1>7, <1>8, <1>9, <1>10, <1>11
  DEF Pull!Next, Pull!PlayerStep, Pull!CbStep, ControlStep, CallbackStep

\* While both sides copy, they are at different places of the ring.
LEMMA PullCopiesApart ==
  ASSUME PullInv
  PROVE  Pull!CopiesApart
<1> SUFFICES ASSUME pc = "copy"
             PROVE  /\ write <= Pull!Available(plane)
                    /\ cb_pc = "copy" /\ cb_plane = plane =>
                         Pull!Slots(wpos[plane], write) \cap Pull!Slots(rpos[plane], bytes) = {}
  BY DEF Pull!CopiesApart
<1>1. Writing
  BY DEF Writing
<1>2. /\ wpos[plane] = wpos[0] /\ wpos[plane] \in Nat /\ write \in Nat
      /\ RingSize \in Nat /\ wpos[plane] + write <= rpos[LastPlane] + RingSize
      /\ write <= Pull!Available(plane)
  BY <1>1, WriterIs
<1>3. ASSUME cb_pc = "copy", cb_plane = plane,
             NEW i \in 0..write - 1, NEW j \in 0..bytes - 1
      PROVE  (wpos[plane] + i) % RingSize # (rpos[plane] + j) % RingSize
  <2>1. rpos[plane] = rpos[LastPlane] /\ rpos[LastPlane] \in Nat /\ bytes \in Nat
        /\ rpos[LastPlane] + bytes <= wpos[0]
    BY <1>3, ReaderIs
  <2>2. /\ wpos[plane] + i \in Nat /\ rpos[plane] + j \in Nat
        /\ rpos[plane] + j < wpos[plane] + i
        /\ wpos[plane] + i < (rpos[plane] + j) + RingSize
    BY <1>2, <2>1
  <2> QED
    BY <2>2, Apart
<1> QED
  BY <1>2, <1>3 DEF Pull!Slots

\* A drain() that has seen the first plane empty, and waited for the callback, drops
\* nothing.
LEMMA PullNothingCutOff ==
  ASSUME PullInv, [Pull!Next]_Pull!vars, Pull!DrainedReset
  PROVE  Pull!Queued = <<>>
<1>1. pc = "set_none" /\ saw_eof /\ pc' # pc
  BY DEF Pull!DrainedReset
<1>2. state # "busy"
  <2>1. Pull!Next
    BY <1>1 DEF Pull!vars
  <2>2. Pull!SetNone
    BY <1>1, <2>1
    DEF Pull!Next, Pull!PlayerStep, Pull!CbStep, Pull!Play, Pull!Pause, Pull!Resume, Pull!Reset,
        Pull!Drain, Pull!Poke, Pull!WriteCopy, Pull!WritePublish, Pull!CheckState, Pull!SetPlay,
        Pull!StartDriver, Pull!SetDraining, Pull!TakeUnderflow, Pull!DrainPoll, Pull!StopDriver,
        Pull!ResetWpos, Pull!ResetRpos, Pull!CbBegin, Pull!CbLoad, Pull!CbCount, Pull!CbCopy,
        Pull!CbRelease, Pull!CbEnd, Pull!CbWake, Pull!control
  <2> QED
    BY <2>2 DEF Pull!SetNone
<1>3. RingTypes /\ RingInv /\ CallbackInv /\ SawInv
  BY TypesAre DEF PullInv
<1>4. ~Resetting /\ ~Reading
  BY <1>1, <1>2, <1>3 DEF Resetting, Reading, CallbackInv
<1>5. wpos[0] = rpos[0] /\ rpos[0] = rpos[LastPlane] /\ rpos[LastPlane] \in Nat
  BY <1>1, <1>3, <1>4, Constants DEF SawInv, RingInv, RingTypes, Planes, LastPlane
<1>6. wpos[0] - rpos[Pull!LastPlane] = 0
  BY <1>5 DEF LastPlane
<1> QED
  BY <1>1, <1>6 DEF Pull!Queued

(***************************************************************************)
(* push.c                                                                  *)
(***************************************************************************)

\* The parts of Push!TypeOK that do not follow from SpaceInv.
PushFlags ==
  /\ still_playing \in BOOLEAN /\ wait_on_ao \in BOOLEAN /\ need_wakeup \in BOOLEAN
  /\ paused \in BOOLEAN /\ initial_unblocked \in BOOLEAN /\ final_chunk \in BOOLEAN
  /\ terminate \in BOOLEAN /\ device_paused \in BOOLEAN /\ core_paused \in BOOLEAN
  /\ woken \in BOOLEAN

PushControl ==
  /\ expected_end \in {"none", "set", "now", "past"}
  /\ push_driver \in PushDrivers
  /\ device \in 0..DeviceSize /\ faults \in 0..MaxFaults
  /\ thread \in {"start", "ready", "again", "wait", "at_end", "timed", "device", "ended"}
  /\ call \in {"none", "fill", "drain", "signalled", "drain_device", "drained",
               "close", "join", "closed"}
  /\ playsize \in 0..BufferSize /\ next \in 0..MaxSamples
  /\ status \in {"playing", "draining", "eof"}
  /\ commands \in 0..MaxCommands

\* The invariant in parts, with what is Boolean on its own.
LEMMA PushTypesAre ==
  PushInv <=> PushFlags /\ PushControl /\ SpaceInv /\ DrainInv /\ EndInv
<1>1. Push!TypeOK <=>
        /\ Len(buffer) <= allocated /\ allocated >= BufferSize
        /\ {still_playing, wait_on_ao, need_wakeup, paused, initial_unblocked,
            final_chunk, terminate, device_paused, core_paused, woken} \subseteq BOOLEAN
        /\ PushControl /\ Len(heard) <= MaxSamples
  BY DEF Push!TypeOK, PushControl
<1>2. {still_playing, wait_on_ao, need_wakeup, paused, initial_unblocked,
       final_chunk, terminate, device_paused, core_paused, woken} \subseteq BOOLEAN
        <=> PushFlags
  BY Zenon DEF PushFlags
<1>3. SpaceInv /\ PushControl =>
        Len(buffer) <= allocated /\ allocated >= BufferSize /\ Len(heard) <= MaxSamples
  BY Constants DEF SpaceInv, PushControl
<1> QED
  BY <1>1, <1>2, <1>3 DEF PushInv

\* What the output asks for: as much as fits into the buffer at most.
LEMMA SpaceIs ==
  ASSUME NEW soft \in 0..BufferSize, NEW dev \in 0..DeviceSize, allocated = BufferSize
  PROVE  Push!SpaceWith(soft, dev) \in 0..BufferSize - soft
<1> DEFINE d == Push!WholePeriods(DeviceSize - dev)
           missing == BufferSize + Margin - (DeviceSize - d) - soft
           a == Push!AtLeast(missing, d - soft)
           b == Push!AtMost(allocated - soft, a)
<1>1. BufferSize \in Nat /\ DeviceSize \in Nat /\ Period \in Nat \ {0} /\ Margin \in Nat
  BY Constants
<1>2. d \in Int
  <2>1. DeviceSize - dev \in Nat
    BY <1>1
  <2> HIDE DEF d
  <2>2. (DeviceSize - dev) \div Period \in Nat
    BY <1>1, <2>1
  <2> QED
    BY <1>1, <2>2 DEF d, Push!WholePeriods
<1> HIDE DEF d
<1>3. missing \in Int /\ d - soft \in Int
  BY <1>1, <1>2
<1> HIDE DEF missing
<1>4. a \in Int
  BY <1>3, SmallerIs
<1> HIDE DEF a
<1>5. allocated - soft \in Int /\ allocated - soft >= 0
  BY <1>1
<1>6. b \in Int /\ b <= allocated - soft
  <2>1. b = IF allocated - soft <= a THEN allocated - soft ELSE a
    BY <1>4, <1>5, SmallerIs
  <2> QED
    BY <1>4, <1>5, <2>1
<1> HIDE DEF b
<1>7. 0 \in Int
  OBVIOUS
<1>8. Push!AtLeast(0, b) = IF 0 >= b THEN 0 ELSE b
  BY <1>6, <1>7, SmallerIs
<1>9. Push!SpaceWith(soft, dev) = Push!AtLeast(0, b)
  BY DEF Push!SpaceWith, b, a, missing, d
<1> QED
  BY <1>1, <1>5, <1>6, <1>8, <1>9

\* What the device takes: whole periods.
LEMMA WholePeriodsIs ==
  ASSUME NEW n \in Nat
  PROVE  Push!WholePeriods(n) \in 0..n
  BY Constants DEF Push!WholePeriods

\* What the player does without touching the samples.
PlayerStep ==
  \/ Push!GetSpace
  \/ Push!GetEof
  \/ Push!Pause
  \/ Push!Resume
  \/ Push!Unblock
  \/ Push!Drain
  \/ Push!DrainSignalled
  \/ Push!DrainTimeout
  \/ Push!DrainDevice
  \/ Push!Uninit
  \/ Push!Join \/ Push!Poke

\* It keeps the invariant: before it sleeps in a drain(), it has woken the thread.
LEMMA PlayerStepKeeps ==
  ASSUME PushInv, PlayerStep
  PROVE  PushInv'
<1>1. PushFlags /\ PushControl /\ SpaceInv /\ DrainInv /\ EndInv
  BY PushTypesAre
<1> USE DEF Push!data, Push!ending, Push!fixed, Push!waiting, Push!hardware, Push!output,
            Push!filling, Push!player, Push!WakeThread
<1>2. CASE Push!GetSpace
  <2>1. playsize' \in 0..BufferSize - Len(buffer)
    <3>1. Len(buffer) \in 0..BufferSize
      BY <1>1 DEF SpaceInv
    <3>2. device \in 0..DeviceSize /\ allocated = BufferSize
      BY <1>1 DEF SpaceInv, PushControl
    <3> QED
      BY <1>2, <3>1, <3>2, SpaceIs DEF Push!GetSpace, Push!Space
  <2>2. PushFlags'
    BY <1>1, <1>2, Zenon DEF PushFlags, Push!GetSpace
  <2>3. PushControl'
    BY <1>1, <1>2, <2>1, Constants DEF PushControl, SpaceInv, Push!GetSpace
  <2>4. SpaceInv'
    BY <1>1, <1>2, <2>1, Constants DEF SpaceInv, Push!GetSpace
  <2>5. DrainInv'
    BY <1>1, <1>2 DEF DrainInv, EndInv, Push!GetSpace, Push!Blocked
  <2>6. EndInv'
    BY <1>1, <1>2 DEF EndInv, Push!GetSpace, Push!EndAfterResume
  <2> QED
    BY <2>2, <2>3, <2>4, <2>5, <2>6, PushTypesAre, PTL
<1>3. CASE Push!GetEof
  <2>2. PushFlags'
    BY <1>1, <1>3, Zenon DEF PushFlags, Push!GetEof
  <2>3. PushControl'
    BY <1>1, <1>3, Constants DEF PushControl, SpaceInv, Push!GetEof
  <2>4. SpaceInv'
    BY <1>1, <1>3, Constants DEF SpaceInv, Push!GetEof
  <2>5. DrainInv'
    BY <1>1, <1>3 DEF DrainInv, EndInv, Push!GetEof, Push!Blocked
  <2>6. EndInv'
    BY <1>1, <1>3 DEF EndInv, Push!GetEof, Push!EndAfterResume
  <2> QED
    BY <2>2, <2>3, <2>4, <2>5, <2>6, PushTypesAre, PTL
<1>4. CASE Push!Pause
  <2>2. PushFlags'
    BY <1>1, <1>4, Zenon DEF PushFlags, Push!Pause
  <2>3. PushControl'
    BY <1>1, <1>4, Constants DEF PushControl, SpaceInv, Push!Pause
  <2>4. SpaceInv'
    BY <1>1, <1>4, Constants DEF SpaceInv, Push!Pause
  <2>5. DrainInv'
    BY <1>1, <1>4 DEF DrainInv, EndInv, Push!Pause, Push!Blocked
  <2>6. EndInv'
    BY <1>1, <1>4 DEF EndInv, Push!Pause, Push!EndAfterResume
  <2> QED
    BY <2>2, <2>3, <2>4, <2>5, <2>6, PushTypesAre, PTL
<1>5. CASE Push!Resume
  <2>2. PushFlags'
    BY <1>1, <1>5, Zenon DEF PushFlags, Push!Resume
  <2>3. PushControl'
    BY <1>1, <1>5, Constants DEF PushControl, Push!Resume, Push!EndAfterResume
  <2>4. SpaceInv'
    BY <1>1, <1>5, Constants DEF SpaceInv, Push!Resume
  <2>5. DrainInv'
    BY <1>1, <1>5 DEF DrainInv, EndInv, Push!Resume, Push!Blocked
  <2>6. EndInv'
    BY <1>1, <1>5 DEF EndInv, Push!Resume, Push!EndAfterResume
  <2> QED
    BY <2>2, <2>3, <2>4, <2>5, <2>6, PushTypesAre, PTL
<1>6. CASE Push!Unblock
  <2>2. PushFlags'
    BY <1>1, <1>6, Zenon DEF PushFlags, Push!Unblock
  <2>3. PushControl'
    BY <1>1, <1>6, Constants DEF PushControl, SpaceInv, Push!Unblock
  <2>4. SpaceInv'
    BY <1>1, <1>6, Constants DEF SpaceInv, Push!Unblock
  <2>5. DrainInv'
    BY <1>1, <1>6 DEF DrainInv, EndInv, Push!Unblock, Push!Blocked
  <2>6. EndInv'
    BY <1>1, <1>6 DEF EndInv, Push!Unblock, Push!EndAfterResume
  <2> QED
    BY <2>2, <2>3, <2>4, <2>5, <2>6, PushTypesAre, PTL
<1>7. CASE Push!Drain
  <2>2. PushFlags'
    BY <1>1, <1>7, Zenon DEF PushFlags, Push!Drain
  <2>3. PushControl'
    BY <1>1, <1>7, Constants DEF PushControl, SpaceInv, Push!Drain
  <2>4. SpaceInv'
    BY <1>1, <1>7, Constants DEF SpaceInv, Push!Drain
  <2>5. DrainInv'
    BY <1>1, <1>7 DEF DrainInv, EndInv, Push!Drain, Push!Blocked
  <2>6. EndInv'
    BY <1>1, <1>7 DEF EndInv, Push!Drain, Push!EndAfterResume
  <2> QED
    BY <2>2, <2>3, <2>4, <2>5, <2>6, PushTypesAre, PTL
<1>8. CASE Push!DrainSignalled
  <2>2. PushFlags'
    BY <1>1, <1>8, Zenon DEF PushFlags, Push!DrainSignalled
  <2>3. PushControl'
    BY <1>1, <1>8, Constants DEF PushControl, SpaceInv, Push!DrainSignalled
  <2>4. SpaceInv'
    BY <1>1, <1>8, Constants DEF SpaceInv, Push!DrainSignalled
  <2>5. DrainInv'
    BY <1>1, <1>8 DEF DrainInv, EndInv, Push!DrainSignalled, Push!Blocked
  <2>6. EndInv'
    BY <1>1, <1>8 DEF EndInv, Push!DrainSignalled, Push!EndAfterResume
  <2> QED
    BY <2>2, <2>3, <2>4, <2>5, <2>6, PushTypesAre, PTL
<1>9. CASE Push!DrainTimeout
  <2>2. PushFlags'
    BY <1>1, <1>9, Zenon DEF PushFlags, Push!DrainTimeout
  <2>3. PushControl'
    BY <1>1, <1>9, Constants DEF PushControl, SpaceInv, Push!DrainTimeout
  <2>4. SpaceInv'
    BY <1>1, <1>9, Constants DEF SpaceInv, Push!DrainTimeout
  <2>5. DrainInv'
    BY <1>1, <1>9 DEF DrainInv, EndInv, Push!DrainTimeout, Push!Blocked
  <2>6. EndInv'
    BY <1>1, <1>9 DEF EndInv, Push!DrainTimeout, Push!EndAfterResume
  <2> QED
    BY <2>2, <2>3, <2>4, <2>5, <2>6, PushTypesAre, PTL
<1>10. CASE Push!DrainDevice
  <2>2. PushFlags'
    BY <1>1, <1>10, Zenon DEF PushFlags, Push!DrainDevice
  <2>3. PushControl'
    BY <1>1, <1>10, Constants DEF PushControl, SpaceInv, Push!DrainDevice
  <2>4. SpaceInv'
    BY <1>1, <1>10, Constants DEF SpaceInv, Push!DrainDevice
  <2>5. DrainInv'
    BY <1>1, <1>10 DEF DrainInv, EndInv, Push!DrainDevice, Push!Blocked
  <2>6. EndInv'
    BY <1>1, <1>10 DEF EndInv, Push!DrainDevice, Push!EndAfterResume
  <2> QED
    BY <2>2, <2>3, <2>4, <2>5, <2>6, PushTypesAre, PTL
<1>11. CASE Push!Uninit
  <2>2. PushFlags'
    BY <1>1, <1>11, Zenon DEF PushFlags, Push!Uninit
  <2>3. PushControl'
    BY <1>1, <1>11, Constants DEF PushControl, SpaceInv, Push!Uninit
  <2>4. SpaceInv'
    BY <1>1, <1>11, Constants DEF SpaceInv, Push!Uninit
  <2>5. DrainInv'
    BY <1>1, <1>11 DEF DrainInv, EndInv, Push!Uninit, Push!Blocked
  <2>6. EndInv'
    BY <1>1, <1>11 DEF EndInv, Push!Uninit, Push!EndAfterResume
  <2> QED
    BY <2>2, <2>3, <2>4, <2>5, <2>6, PushTypesAre, PTL
<1>12. CASE Push!Join
  <2>2. PushFlags'
    BY <1>1, <1>12, Zenon DEF PushFlags, Push!Join
  <2>3. PushControl'
    BY <1>1, <1>12, Constants DEF PushControl, SpaceInv, Push!Join
  <2>4. SpaceInv'
    BY <1>1, <1>12, Constants DEF SpaceInv, Push!Join
  <2>5. DrainInv'
    BY <1>1, <1>12 DEF DrainInv, EndInv, Push!Join, Push!Blocked
  <2>6. EndInv'
    BY <1>1, <1>12 DEF EndInv, Push!Join, Push!EndAfterResume
  <2> QED
    BY <2>2, <2>3, <2>4, <2>5, <2>6, PushTypesAre, PTL
<1>13. CASE Push!Poke
  <2>2. PushFlags'
    BY <1>1, <1>13, Zenon DEF PushFlags, Push!Poke
  <2>3. PushControl'
    BY <1>1, <1>13, Constants DEF PushControl, SpaceInv, Push!Poke
  <2>4. SpaceInv'
    BY <1>1, <1>13, Constants DEF SpaceInv, Push!Poke
  <2>5. DrainInv'
    BY <1>1, <1>13 DEF DrainInv, EndInv, Push!Poke, Push!Blocked
  <2>6. EndInv'
    BY <1>1, <1>13 DEF EndInv, Push!Poke, Push!EndAfterResume
  <2> QED
    BY <2>2, <2>3, <2>4, <2>5, <2>6, PushTypesAre, PTL
<1> QED
  BY <1>2, <1>3, <1>4, <1>5, <1>6, <1>7, <1>8, <1>9, <1>10, <1>11, <1>12, <1>13
  DEF PlayerStep

\* What ao_play() does with n samples, which all fit.
PlayOf(n) ==
  /\ n \in 1..BufferSize /\ n <= playsize /\ n <= MaxSamples - next /\ call = "fill"
  /\ buffer' = buffer \o [i \in 1..n |-> next + i] /\ next' = next + n
  /\ allocated' = Push!AtLeast(allocated, Len(buffer'))
  /\ paused' = FALSE /\ still_playing' = TRUE /\ expected_end' = "none"
  /\ need_wakeup' = TRUE /\ final_chunk' \in BOOLEAN
  /\ thread' = IF thread \in {"wait", "at_end", "timed", "device"} THEN "ready" ELSE thread
  /\ call' = "none" /\ playsize' = 0 /\ status' = "playing" /\ ~core_paused
  /\ UNCHANGED <<initial_unblocked, terminate, push_driver, device, device_paused, faults,
                 heard, wait_on_ao, core_paused, woken, commands>>

\* The room that the player was told of has not become less meanwhile.
LEMMA PushPlayIs ==
  ASSUME PushInv, Push!Play
  PROVE  \E n \in Nat : PlayOf(n)
<1>1. PushFlags /\ PushControl /\ SpaceInv /\ DrainInv /\ EndInv
  BY PushTypesAre
<1> USE DEF Push!fixed, Push!hardware
<1> DEFINE n == Push!Samples
<1>2. /\ call = "fill" /\ call' = "none" /\ playsize' = 0 /\ n > 0 /\ ~core_paused
      /\ Push!PlayChunk(n) /\ status' = "playing"
      /\ UNCHANGED <<initial_unblocked, terminate, push_driver, device, device_paused, faults,
                     heard, wait_on_ao, core_paused, woken, commands>>
  BY <1>1 DEF Push!Play, EndInv
<1>3. /\ Len(buffer) \in Nat /\ playsize + Len(buffer) <= BufferSize /\ allocated = BufferSize
      /\ playsize \in Nat /\ next \in 0..MaxSamples /\ MaxSamples \in Nat /\ BufferSize \in Nat
      /\ Len(heard) \in Nat /\ Len(heard) + Len(buffer) <= next
  BY <1>1, <1>2, Constants DEF SpaceInv, PushControl
<1>4. n \in Nat /\ n <= playsize /\ n <= MaxSamples - next
  <2>1. MaxSamples - next \in Nat
    BY <1>3
  <2>2. n = IF MaxSamples - next <= playsize THEN MaxSamples - next ELSE playsize
    <3>1. MaxSamples - next \in Int /\ playsize \in Int
      BY <1>3, <2>1
    <3> QED
      BY <3>1, SmallerIs DEF Push!Samples, Push!Remaining
  <2> QED
    BY <1>3, <2>1, <2>2
<1> HIDE DEF n
<1>5. Push!AtMost(Push!WriteAvailable, n) = n
  <2>1. Push!WriteAvailable \in Int /\ n \in Int /\ n <= Push!WriteAvailable
    BY <1>3, <1>4 DEF Push!WriteAvailable
  <2>2. Push!AtMost(Push!WriteAvailable, n)
          = IF Push!WriteAvailable <= n THEN Push!WriteAvailable ELSE n
    BY <2>1, SmallerIs
  <2> QED
    BY <2>1, <2>2
<1>6. /\ buffer' = buffer \o [i \in 1..n |-> next + i] /\ next' = next + n
      /\ allocated' = Push!AtLeast(allocated, Len(buffer'))
      /\ paused' = FALSE /\ still_playing' = TRUE /\ expected_end' = "none"
      /\ need_wakeup' = TRUE
      /\ thread' = IF thread \in {"wait", "at_end", "timed", "device"} THEN "ready" ELSE thread
  BY <1>2, <1>5 DEF Push!PlayChunk, Push!WakeThread
<1>7. final_chunk' \in BOOLEAN
  BY <1>2 DEF Push!PlayChunk
<1>8. n \in 1..BufferSize
  BY <1>2, <1>3, <1>4
<1> QED
  BY <1>2, <1>4, <1>6, <1>7, <1>8 DEF PlayOf

\* ao_play() takes all that it is given, as that fits.
LEMMA PushPlayKeeps ==
  ASSUME PushInv, Push!Play
  PROVE  PushInv'
<1>1. PushFlags /\ PushControl /\ SpaceInv /\ DrainInv /\ EndInv
  BY PushTypesAre
<1>2. PICK n \in Nat : PlayOf(n)
  BY PushPlayIs
<1> DEFINE New == [i \in 1..n |-> next + i]
<1>3. /\ Len(buffer) \in Nat /\ playsize + Len(buffer) <= BufferSize /\ allocated = BufferSize
      /\ playsize \in Nat /\ next \in 0..MaxSamples /\ MaxSamples \in Nat /\ BufferSize \in Nat
      /\ Len(heard) \in Nat /\ Len(heard) + Len(buffer) <= next
  BY <1>1, <1>2, Constants DEF SpaceInv, PushControl, PlayOf
<1>4. n \in Nat /\ n <= playsize /\ n <= MaxSamples - next
  BY <1>2 DEF PlayOf
<1>6. New \in Seq(Int) /\ Len(New) = n
  <2>1. New \in [1..n -> Int]
    BY <1>3, <1>4
  <2> HIDE DEF New
  <2> QED
    BY <1>4, <2>1
<1>7. /\ buffer' = buffer \o New /\ next' = next + n
      /\ allocated' = Push!AtLeast(allocated, Len(buffer'))
      /\ paused' = FALSE /\ still_playing' = TRUE /\ expected_end' = "none"
      /\ need_wakeup' = TRUE /\ final_chunk' \in BOOLEAN
      /\ thread' = IF thread \in {"wait", "at_end", "timed", "device"} THEN "ready" ELSE thread
      /\ call' = "none" /\ playsize' = 0 /\ status' = "playing" /\ ~core_paused
      /\ UNCHANGED <<initial_unblocked, terminate, push_driver, device, device_paused, faults,
                     heard, wait_on_ao, core_paused, woken, commands>>
  BY <1>2 DEF PlayOf
<1> HIDE DEF New
<1>8. buffer' \in Seq(Int) /\ Len(buffer') = Len(buffer) + n
  BY <1>1, <1>6, <1>7, ConcatProperties DEF SpaceInv
<1>9. allocated' = BufferSize /\ Len(buffer') <= BufferSize
  <2>1. Len(buffer') \in Int /\ Len(buffer') <= BufferSize
    BY <1>3, <1>4, <1>8
  <2>2. BufferSize \in Int
    BY <1>3
  <2>3. Push!AtLeast(BufferSize, Len(buffer'))
          = IF BufferSize >= Len(buffer') THEN BufferSize ELSE Len(buffer')
    BY <2>1, <2>2, SmallerIs
  <2> QED
    BY <1>3, <1>7, <2>1, <2>3
<1>10. PushFlags'
  BY <1>1, <1>7, Zenon DEF PushFlags
<1>11. PushControl'
  BY <1>1, <1>3, <1>4, <1>7 DEF PushControl
<1>12. SpaceInv'
  BY <1>1, <1>3, <1>4, <1>7, <1>8, <1>9 DEF SpaceInv
<1>13. DrainInv' /\ EndInv'
  BY <1>1, <1>7 DEF DrainInv, EndInv
<1> QED
  BY <1>10, <1>11, <1>12, <1>13, PushTypesAre, PTL

\* A reset drops everything, what the device has included.
LEMMA DropAllKeeps ==
  ASSUME PushInv, Push!Reset \/ Push!DrainReset
  PROVE  PushInv'
<1>1. PushFlags /\ PushControl /\ SpaceInv /\ DrainInv /\ EndInv
  BY PushTypesAre
<1> USE DEF Push!filling, Push!fixed
<1>2. /\ Push!DropAll /\ UNCHANGED <<playsize, next, core_paused>>
      /\ status' \in {"playing", status} /\ woken' \in {TRUE, woken}
      /\ call' \in {"none", "close"}
      /\ \/ commands' = commands + 1 /\ commands < MaxCommands
         \/ commands' = commands
  BY DEF Push!Reset, Push!DrainReset
<1>3. /\ device' = 0 /\ buffer' = <<>> /\ paused' = FALSE /\ still_playing' = FALSE
      /\ need_wakeup' \in {TRUE, need_wakeup} /\ thread' \in {"ready", thread}
      /\ UNCHANGED <<initial_unblocked, terminate, push_driver, allocated, heard, expected_end,
                     final_chunk, wait_on_ao, device_paused, faults>>
  BY <1>2 DEF Push!DropAll, Push!WakeThread
<1>4. PushFlags'
  <2>1. woken' \in BOOLEAN /\ need_wakeup' \in BOOLEAN
    BY <1>1, <1>2, <1>3, Zenon DEF PushFlags
  <2> QED
    BY <1>1, <1>2, <1>3, <2>1, Zenon DEF PushFlags
<1>5. PushControl'
  BY <1>1, <1>2, <1>3, Constants DEF PushControl
<1>6. SpaceInv'
  BY <1>1, <1>2, <1>3, Constants DEF SpaceInv, PushControl
<1>7. DrainInv' /\ EndInv'
  BY <1>1, <1>2, <1>3 DEF DrainInv, EndInv
<1> QED
  BY <1>4, <1>5, <1>6, <1>7, PushTypesAre, PTL

\* The ends of the thread's waits, the device and the clock.
TimeStep ==
  \/ Push!Terminate \/ Push!EndTimeout \/ Push!DeviceWait
  \/ Push!DevicePlays \/ Push!EndPasses

\* The time of the end passes when the device has played all, or is paused.
LEMMA TimeStepKeeps ==
  ASSUME PushInv, TimeStep
  PROVE  PushInv'
<1>1. PushFlags /\ PushControl /\ SpaceInv /\ DrainInv /\ EndInv
  BY PushTypesAre
<1> USE DEF Push!data, Push!ending, Push!fixed, Push!waiting, Push!hardware, Push!filling,
            Push!player
<1>2. /\ UNCHANGED <<still_playing, wait_on_ao, paused, initial_unblocked, final_chunk,
                     terminate, device_paused, core_paused, woken>>
      /\ UNCHANGED <<buffer, heard, allocated, next, call, playsize, push_driver, faults,
                     status, commands>>
      /\ need_wakeup' \in {FALSE, need_wakeup}
      /\ thread' \in {"ready", "ended", thread}
      /\ \/ expected_end' = expected_end /\ device' = device
         \/ expected_end' = expected_end /\ device' = device - 1 /\ device > 0
         \/ expected_end = "set" /\ expected_end' = "now" /\ device' = device
            /\ (device = 0 \/ device_paused)
         \/ expected_end = "now" /\ expected_end' = "past" /\ device' = device
  BY DEF TimeStep, Push!Terminate, Push!EndTimeout, Push!DeviceWait, Push!DevicePlays,
         Push!EndPasses
<1>3. PushFlags'
  <2>1. need_wakeup' \in BOOLEAN
    BY <1>1, <1>2, Zenon DEF PushFlags
  <2> QED
    BY <1>1, <1>2, <2>1, Zenon DEF PushFlags
<1>4. PushControl'
  <2>1. /\ expected_end' \in {"none", "set", "now", "past"} /\ push_driver' \in PushDrivers
        /\ call' = call /\ status' = status /\ faults' = faults /\ next' = next
        /\ playsize' = playsize /\ commands' = commands
    BY <1>1, <1>2 DEF PushControl
  <2>2. device' \in 0..DeviceSize
    BY <1>1, <1>2, Constants DEF PushControl
  <2>3. thread' \in {"start", "ready", "again", "wait", "at_end", "timed", "device", "ended"}
    BY <1>1, <1>2 DEF PushControl
  <2> QED
    BY <1>1, <2>1, <2>2, <2>3 DEF PushControl
<1>5. SpaceInv'
  BY <1>1, <1>2 DEF SpaceInv
<1>6. DrainInv'
  BY <1>1, <1>2 DEF DrainInv, Push!Blocked
<1>7. EndInv'
  BY <1>1, <1>2, Constants DEF EndInv, PushControl
<1> QED
  BY <1>3, <1>4, <1>5, <1>6, <1>7, PushTypesAre, PTL

\* What ao_play_data writes: no more than there is, and than the device has room for.
LEMMA WriteIs ==
  ASSUME PushInv
  PROVE  /\ Push!DeviceSpace \in Nat /\ Push!DeviceSpace <= DeviceSize - device
         /\ Push!Maximum \in Nat /\ Push!Write \in Nat
         /\ Push!Write <= Push!Maximum /\ Push!Write <= Push!DeviceSpace
         /\ ~Push!PlaySilence => Push!Maximum = Len(buffer)
         /\ Push!PlaySilence => Push!Maximum = Push!DeviceSpace
         /\ Push!Final => Push!Write = Push!Maximum
<1>1. DeviceSize - device \in Nat /\ Len(buffer) \in Nat
  BY PushTypesAre, Constants DEF PushControl, SpaceInv
<1>2. Push!DeviceSpace \in Nat /\ Push!DeviceSpace <= DeviceSize - device
  BY <1>1, WholePeriodsIs DEF Push!DeviceSpace
<1>3. /\ Push!Maximum \in Nat
      /\ ~Push!PlaySilence => Push!Maximum = Len(buffer)
      /\ Push!PlaySilence => Push!Maximum = Push!DeviceSpace
  BY <1>1, <1>2 DEF Push!Maximum
<1>4. CASE Push!Final
  BY <1>2, <1>3, <1>4 DEF Push!Final, Push!Write
<1>5. CASE ~Push!Final
  <2> DEFINE n == Push!AtMost(Push!Maximum, Push!DeviceSpace)
  <2>1. n = IF Push!Maximum <= Push!DeviceSpace THEN Push!Maximum ELSE Push!DeviceSpace
    <3>1. Push!Maximum \in Int /\ Push!DeviceSpace \in Int
      BY <1>2, <1>3
    <3> QED
      BY <3>1, SmallerIs
  <2>2. n \in Nat /\ n <= Push!Maximum /\ n <= Push!DeviceSpace
    BY <1>2, <1>3, <2>1
  <2>3. Push!Write = Push!WholePeriods(n)
    BY <1>5 DEF Push!Write
  <2> HIDE DEF n
  <2>4. Push!WholePeriods(n) \in 0..n
    BY <2>2, WholePeriodsIs
  <2> QED
    BY <1>2, <1>3, <1>5, <2>2, <2>3, <2>4
<1> QED
  BY <1>4, <1>5

\* How a turn of the thread ends, which may wait for the device (w), has something playing
\* (on), and knows when that ends (ended).
TurnEnds(w, on, ended) ==
  /\ wait_on_ao' = w /\ need_wakeup' = FALSE
  /\ thread' \in {"again", "device", "timed", "at_end", "wait"}
  /\ call' = IF thread' \in {"timed", "at_end", "wait"} /\ call = "drain"
             THEN "signalled" ELSE call
  /\ thread' \in {"wait", "at_end"} => ~(w /\ Push!Playing)
  /\ \/ expected_end' = ended
     \/ /\ expected_end' \in {"set", "now"} /\ buffer' = <<>>
        /\ expected_end' = "now" => device' = 0
  /\ still_playing' => on
  /\ on /\ ~still_playing' => ~paused /\ buffer' = <<>> /\ ended = "past"

\* The thread wakes the player before it sleeps itself, and sets the time of the end only
\* when all samples are with the device.
LEMMA TurnIs ==
  ASSUME NEW w \in BOOLEAN, NEW on \in BOOLEAN, NEW ended, NEW more \in BOOLEAN,
         woken \in BOOLEAN, Push!Turn(w, on, ended, more)
  PROVE  TurnEnds(w, on, ended) /\ still_playing' \in BOOLEAN /\ woken' \in BOOLEAN
<1>1. CASE need_wakeup /\ thread = "start"
  <2>1. /\ wait_on_ao' = w /\ need_wakeup' = FALSE /\ thread' = "again"
        /\ still_playing' = on /\ expected_end' = ended /\ woken' = (woken \/ more)
        /\ call' = call
    BY <1>1 DEF Push!Turn
  <2>2. still_playing' \in BOOLEAN /\ woken' \in BOOLEAN
    BY <2>1, Zenon
  <2> QED
    BY <2>1, <2>2 DEF TurnEnds
<1>2. CASE ~(need_wakeup /\ thread = "start")
  <2>1. wait_on_ao' = w /\ need_wakeup' = FALSE /\ Push!Wait(w, on, ended, more)
    BY <1>2 DEF Push!Turn
  <2>2. CASE w /\ Push!Playing
    <3>1. /\ thread' = "device" /\ still_playing' = on /\ expected_end' = ended
          /\ woken' = (woken \/ more) /\ call' = call
      BY <2>1, <2>2 DEF Push!Wait
    <3>2. still_playing' \in BOOLEAN /\ woken' \in BOOLEAN
      BY <3>1, Zenon
    <3> QED
      BY <2>1, <3>1, <3>2 DEF TurnEnds
  <2>3. CASE ~(w /\ Push!Playing)
    <3> DEFINE over == Push!EndSeen(on) /\ ended = "past"
    <3>1. /\ still_playing' = (on /\ ~over)
          /\ expected_end' = IF Push!EndSeen(on) /\ ended = "none"
                             THEN Push!EndTime ELSE ended
          /\ thread' \in {"timed", "at_end", "wait"}
          /\ woken' = (woken \/ more \/ over)
          /\ call' = IF call = "drain" THEN "signalled" ELSE call
      BY <2>1, <2>3 DEF Push!Wait, Push!TellDrain
    <3>2. still_playing' \in BOOLEAN /\ woken' \in BOOLEAN
      BY <3>1, Zenon
    <3>3. Push!EndTime \in {"set", "now"} /\ (Push!EndTime = "now" => device' = 0)
      BY DEF Push!EndTime
    <3>4. on /\ ~still_playing' => ~paused /\ buffer' = <<>> /\ ended = "past"
      BY <3>1 DEF Push!EndSeen
    <3>5. \/ expected_end' = ended
          \/ /\ expected_end' \in {"set", "now"} /\ buffer' = <<>>
             /\ expected_end' = "now" => device' = 0
      BY <3>1, <3>3 DEF Push!EndSeen
    <3> QED
      BY <2>1, <2>3, <3>1, <3>2, <3>4, <3>5 DEF TurnEnds
  <2> QED
    BY <2>2, <2>3
<1> QED
  BY <1>1, <1>2

\* A turn in which (sent) samples go to the device, u of them from the buffer and the others
\* silence; the device may refuse them, and the buffer is dropped if they were the last. If
\* it leaves something, the player of a drain() sleeps on.
TurnOf(w, u, sent) ==
  /\ u > 0 => sent > 0 /\ ~paused
  /\ buffer' = SubSeq(buffer, u + 1, Len(buffer))
  /\ \/ heard' = heard \o SubSeq(buffer, 1, u)
     \/ heard' = heard /\ buffer' = <<>>
  /\ TurnEnds(w, still_playing \/ u > 0, IF sent > 0 THEN "none" ELSE expected_end)
  /\ still_playing' \in BOOLEAN /\ woken' \in BOOLEAN
  /\ device' \in 0..DeviceSize /\ (sent = 0 => device' = device)
  /\ faults' \in 0..MaxFaults
  /\ device_paused' \in BOOLEAN /\ (device_paused' => device_paused)
  /\ UNCHANGED <<initial_unblocked, terminate, push_driver, playsize, next, status,
                 allocated, final_chunk, paused, core_paused, commands>>
  /\ (~w \/ ~Push!Playing) /\ call \in {"drain", "signalled"} =>
       buffer' = <<>> \/ Push!Blocked

\* Such a turn keeps the invariant.
LEMMA TurnKeeps ==
  ASSUME PushInv, NEW w \in BOOLEAN, NEW u \in 0..Len(buffer), NEW sent \in Nat,
         TurnOf(w, u, sent)
  PROVE  PushInv'
<1> DEFINE ended == IF sent > 0 THEN "none" ELSE expected_end
<1> USE DEF TurnOf
<1>1. PushFlags /\ PushControl /\ SpaceInv /\ DrainInv /\ EndInv
  BY PushTypesAre
<1>2. /\ buffer' \in Seq(Int) /\ heard' \in Seq(Int)
      /\ Len(buffer') = Len(buffer) - u
      /\ Len(heard') \in Nat /\ Len(heard') <= Len(heard) + u
      /\ Len(buffer) \in Nat /\ Len(heard) \in Nat /\ u \in Nat
      /\ buffer = <<>> => buffer' = <<>>
  <2>1. buffer \in Seq(Int) /\ heard \in Seq(Int) /\ Len(buffer) \in Nat /\ u \in Nat
        /\ u <= Len(buffer) /\ Len(heard) \in Nat
    BY <1>1 DEF SpaceInv
  <2>2. buffer' \in Seq(Int) /\ Len(buffer') = Len(buffer) - u
    BY <2>1
  <2>3. SubSeq(buffer, 1, u) \in Seq(Int) /\ Len(SubSeq(buffer, 1, u)) = u
    BY <2>1
  <2>4. heard' \in Seq(Int) /\ Len(heard') \in Nat /\ Len(heard') <= Len(heard) + u
    <3>1. CASE heard' = heard \o SubSeq(buffer, 1, u)
      BY <2>1, <2>3, <3>1, ConcatProperties
    <3>2. CASE heard' = heard
      BY <2>1, <3>2
    <3> QED
      BY <3>1, <3>2
  <2>5. buffer = <<>> => buffer' = <<>>
    BY <2>1, <2>2, EmptySeq
  <2> QED
    BY <2>1, <2>2, <2>4, <2>5
<1>3. /\ wait_on_ao' = w /\ need_wakeup' = FALSE
      /\ thread' \in {"again", "device", "timed", "at_end", "wait"}
      /\ call' = IF thread' \in {"timed", "at_end", "wait"} /\ call = "drain"
                 THEN "signalled" ELSE call
      /\ thread' \in {"wait", "at_end"} => ~(w /\ Push!Playing)
      /\ \/ expected_end' = ended
         \/ /\ expected_end' \in {"set", "now"} /\ buffer' = <<>>
            /\ expected_end' = "now" => device' = 0
      /\ still_playing' => still_playing \/ u > 0
  BY DEF TurnEnds
<1>4. PushFlags'
  BY <1>1, <1>3, Zenon DEF PushFlags
<1>5. PushControl'
  BY <1>1, <1>3 DEF PushControl
<1>6. SpaceInv'
  <2>1. /\ allocated = BufferSize /\ Len(buffer) <= BufferSize /\ BufferSize \in Nat
        /\ Len(heard) + Len(buffer) <= next /\ playsize \in Nat /\ next \in Nat
        /\ call = "fill" => playsize + Len(buffer) <= BufferSize
    BY <1>1, Constants DEF SpaceInv, PushControl
  <2>2. call' = "fill" => call = "fill"
    BY <1>3
  <2>3. /\ Len(buffer') <= BufferSize /\ Len(heard') + Len(buffer') <= next
        /\ call' = "fill" => playsize + Len(buffer') <= BufferSize
    <3>1. /\ Len(buffer') = Len(buffer) - u
          /\ Len(heard') \in Nat /\ Len(heard') <= Len(heard) + u
          /\ Len(buffer) \in Nat /\ Len(heard) \in Nat /\ u \in Nat
      BY <1>2
    <3>2. Len(buffer') <= BufferSize /\ Len(buffer') <= Len(buffer)
      BY <2>1, <3>1
    <3>3. Len(heard') + Len(buffer') <= next
      <4>1. Len(heard') + Len(buffer') <= Len(heard) + Len(buffer)
        BY ONLY <3>1
      <4> QED
        BY <2>1, <3>1, <4>1
    <3>4. CASE call' = "fill"
      <4>1. playsize + Len(buffer) <= BufferSize
        BY <2>1, <2>2, <3>4
      <4>2. playsize + Len(buffer') <= BufferSize
        BY <2>1, <3>1, <4>1
      <4> QED
        BY <3>2, <3>3, <4>2
    <3> QED
      BY <3>2, <3>3, <3>4
  <2> QED
    BY <1>2, <2>1, <2>3 DEF SpaceInv
<1>7. DrainInv'
  <2>1. Push!Blocked' <=> Push!Blocked
    BY DEF Push!Blocked
  <2>2. call' \in {"drain", "signalled"} => call \in {"drain", "signalled"}
    BY <1>3
  <2>3. call' = "drain" => thread' \notin {"wait", "at_end"}
    BY <1>3
  <2>4. call' = "signalled" /\ thread' \in {"wait", "at_end"} =>
          buffer' = <<>> \/ Push!Blocked
    BY <1>3, <2>2
  <2> QED
    BY <1>1, <2>1, <2>2, <2>3, <2>4 DEF DrainInv
<1>8. EndInv'
  <2>1. still_playing' /\ expected_end' # "none" => buffer' = <<>>
    BY <1>1, <1>2, <1>3 DEF EndInv
  <2>2. still_playing' /\ ~paused /\ expected_end' \in {"now", "past"} => device' = 0
    <3>1. CASE sent > 0 \/ expected_end' # ended
      BY <1>3, <3>1
    <3>2. CASE ~(sent > 0) /\ expected_end' = ended
      <4>1. sent = 0 /\ device' = device /\ expected_end' = expected_end
        BY <3>2
      <4>2. still_playing' => still_playing
        BY <1>3, <4>1
      <4> QED
        BY <1>1, <4>1, <4>2 DEF EndInv
    <3> QED
      BY <3>1, <3>2
  <2>3. paused \/ device_paused' => core_paused
    BY <1>1 DEF EndInv
  <2>4. core_paused /\ ~paused => ~still_playing' /\ buffer' = <<>>
    <3>1. core_paused /\ ~paused => ~still_playing /\ buffer = <<>>
      BY <1>1 DEF EndInv
    <3>2. buffer = <<>> => ~(u > 0)
      BY <1>2, EmptySeq
    <3> QED
      BY <1>2, <1>3, <3>1, <3>2
  <2>5. core_paused => call' # "fill"
    BY <1>1, <1>3 DEF EndInv
  <2> QED
    BY <2>1, <2>2, <2>3, <2>4, <2>5 DEF EndInv
<1> QED
  BY <1>4, <1>5, <1>6, <1>7, <1>8, PushTypesAre, PTL

\* Without sound, or with the driver blocked, the thread does nothing.
LEMMA IdleTurnIs ==
  ASSUME PushInv, Push!IdleTurn
  PROVE  TurnOf(wait_on_ao, 0, 0) /\ wait_on_ao \in BOOLEAN /\ 0 \in 0..Len(buffer)
<1>1. PushFlags /\ PushControl /\ SpaceInv /\ DrainInv
  BY PushTypesAre
<1>2. woken \in BOOLEAN /\ still_playing \in BOOLEAN /\ wait_on_ao \in BOOLEAN
  BY <1>1 DEF PushFlags
<1>3. /\ ~Push!Playing /\ Push!Turn(wait_on_ao, still_playing, expected_end, FALSE)
      /\ UNCHANGED <<device, device_paused, faults, buffer, heard, push_driver>>
      /\ UNCHANGED <<playsize, next, status, allocated, final_chunk, initial_unblocked,
                     terminate, paused, core_paused, commands>>
  BY DEF Push!IdleTurn, Push!hardware, Push!filling
<1>4. TurnEnds(wait_on_ao, still_playing, expected_end)
      /\ still_playing' \in BOOLEAN /\ woken' \in BOOLEAN
  <2>1. FALSE \in BOOLEAN
    OBVIOUS
  <2> QED
    BY <1>2, <1>3, <2>1, TurnIs
<1>5. /\ buffer' = SubSeq(buffer, 0 + 1, Len(buffer))
      /\ heard' = heard \o SubSeq(buffer, 1, 0)
      /\ 0 \in 0..Len(buffer)
  <2>1. buffer \in Seq(Int) /\ heard \in Seq(Int) /\ Len(buffer) \in Nat
    BY <1>1 DEF SpaceInv
  <2>2. SubSeq(buffer, 0 + 1, Len(buffer)) = buffer
    BY <2>1, SubSeqFull
  <2>3. SubSeq(buffer, 1, 0) = <<>>
    BY SubSeqEmpty
  <2>4. heard \o <<>> = heard
    BY <2>1, ConcatEmptySeq
  <2> QED
    BY <1>3, <2>1, <2>2, <2>3, <2>4
<1>6. call \in {"drain", "signalled"} => Push!Blocked
  BY <1>1, <1>3 DEF DrainInv, Push!Playing
<1>7. device_paused' \in BOOLEAN /\ faults' \in 0..MaxFaults /\ device' \in 0..DeviceSize
  BY <1>1, <1>3 DEF PushFlags, PushControl
<1>8. TurnEnds(wait_on_ao, still_playing \/ 0 > 0, IF 0 > 0 THEN "none" ELSE expected_end)
  <2>1. (still_playing \/ 0 > 0) = still_playing
    BY <1>2
  <2>2. (IF 0 > 0 THEN "none" ELSE expected_end) = expected_end
    OBVIOUS
  <2> QED
    BY <1>4, <2>1, <2>2
<1> QED
  BY <1>2, <1>3, <1>4, <1>5, <1>6, <1>7, <1>8 DEF TurnOf

\* ao_play_data() writes the first samples of the buffer, or silence.
LEMMA PlayTurnIs ==
  ASSUME PushInv, Push!PlayTurn
  PROVE  \E w \in BOOLEAN, u \in 0..Len(buffer), sent \in Nat : TurnOf(w, u, sent)
<1>1. PushFlags /\ PushControl /\ SpaceInv /\ DrainInv
  BY PushTypesAre
<1>2. PICK refused \in {FALSE, faults < MaxFaults /\ Push!Write > 0} :
        LET sent == Push!Taken(refused)
            unsilent == IF Push!PlaySilence THEN 0 ELSE sent
        IN /\ faults' = faults + (IF refused THEN 1 ELSE 0)
           /\ device' = device + (IF refused THEN 0 ELSE Push!Write)
           /\ buffer' = SubSeq(buffer, unsilent + 1, Len(buffer))
           /\ heard' = heard \o
                         (IF refused THEN <<>> ELSE SubSeq(buffer, 1, unsilent))
           /\ Push!Turn(Push!DeviceSpace = 0 \/ sent > 0 \/ Push!Stuck(sent),
                        still_playing \/ unsilent > 0,
                        IF sent > 0 THEN "none" ELSE expected_end,
                        Push!More(sent))
  BY Zenon DEF Push!PlayTurn
<1>3. /\ Push!Playing /\ device_paused' = (device_paused /\ Push!Write = 0)
      /\ UNCHANGED <<playsize, next, status, allocated, final_chunk, initial_unblocked,
                     terminate, push_driver, paused, core_paused, commands>>
  BY DEF Push!PlayTurn, Push!fixed, Push!filling
<1> DEFINE sent == Push!Taken(refused)
           u == IF Push!PlaySilence THEN 0 ELSE sent
           w == Push!DeviceSpace = 0 \/ sent > 0 \/ Push!Stuck(sent)
           ended == IF sent > 0 THEN "none" ELSE expected_end
<1>4. /\ faults' = faults + (IF refused THEN 1 ELSE 0)
      /\ device' = device + (IF refused THEN 0 ELSE Push!Write)
      /\ buffer' = SubSeq(buffer, u + 1, Len(buffer))
      /\ heard' = heard \o (IF refused THEN <<>> ELSE SubSeq(buffer, 1, u))
      /\ Push!Turn(w, still_playing \/ u > 0, ended, Push!More(sent))
  BY <1>2
<1>5. /\ Push!DeviceSpace \in Nat /\ Push!DeviceSpace <= DeviceSize - device
      /\ Push!Maximum \in Nat /\ Push!Write \in Nat
      /\ Push!Write <= Push!Maximum /\ Push!Write <= Push!DeviceSpace
      /\ ~Push!PlaySilence => Push!Maximum = Len(buffer)
      /\ Push!PlaySilence => Push!Maximum = Push!DeviceSpace
      /\ Push!Final => Push!Write = Push!Maximum
  BY WriteIs
<1>6. /\ sent \in Nat /\ sent <= Push!Write
      /\ ~refused => sent = Push!Write
      /\ Push!Final => sent = Push!Write
  BY <1>5 DEF Push!Taken
<1> HIDE DEF sent
<1>7. /\ u \in 0..Len(buffer) /\ (u > 0 => sent > 0 /\ ~paused)
      /\ Len(buffer) \in Nat /\ buffer \in Seq(Int)
  <2>1. Len(buffer) \in Nat /\ buffer \in Seq(Int)
    BY <1>1 DEF SpaceInv
  <2>2. Push!PlaySilence \/ ~paused
    BY DEF Push!PlaySilence
  <2> QED
    BY <1>5, <1>6, <2>1, <2>2
<1>8. w \in BOOLEAN /\ Push!More(sent) \in BOOLEAN /\ (still_playing \/ u > 0) \in BOOLEAN
  BY Zenon DEF Push!More
<1>9. TurnEnds(w, still_playing \/ u > 0, ended) /\ still_playing' \in BOOLEAN
      /\ woken' \in BOOLEAN
  <2>1. woken \in BOOLEAN
    BY <1>1 DEF PushFlags
  <2> HIDE DEF w, u, ended
  <2> QED
    BY <1>4, <1>8, <2>1, TurnIs
<1>10. device' \in 0..DeviceSize /\ (sent = 0 => device' = device) /\ faults' \in 0..MaxFaults
  <2>1. /\ device \in 0..DeviceSize /\ DeviceSize \in Nat /\ faults \in 0..MaxFaults
        /\ MaxFaults \in Nat
    BY <1>1, Constants DEF PushControl
  <2>2. refused => faults < MaxFaults
    BY <1>2, Zenon
  <2>3. CASE refused
    BY <1>4, <2>1, <2>2, <2>3
  <2>4. CASE ~refused
    BY <1>4, <1>5, <1>6, <2>1, <2>4
  <2> QED
    BY <2>3, <2>4
<1>11. device_paused' \in BOOLEAN /\ (device_paused' => device_paused)
  BY <1>3, Zenon
<1>14. \/ heard' = heard \o SubSeq(buffer, 1, u)
       \/ heard' = heard /\ buffer' = <<>>
  <2>1. CASE ~refused
    BY <1>4, <2>1
  <2>2. CASE refused /\ u = 0
    <3>1. SubSeq(buffer, 1, 0) = <<>>
      BY SubSeqEmpty
    <3> QED
      BY <1>4, <2>2, <3>1
  <2>3. CASE refused /\ u > 0
    <3>1. u = sent /\ ~Push!PlaySilence /\ sent # 0
      BY <2>3
    <3>2. Push!Final
      BY <2>3, <3>1 DEF Push!Taken, sent
    <3>3. u = Len(buffer)
      BY <1>5, <1>6, <3>1, <3>2
    <3> HIDE DEF u
    <3>4. buffer' = <<>>
      BY <1>4, <1>7, <3>3, SubSeqEmpty
    <3>5. heard \in Seq(Int) /\ heard' = heard \o <<>>
      BY <1>1, <1>4, <2>3 DEF SpaceInv
    <3> QED
      BY <3>4, <3>5, ConcatEmptySeq
  <2> QED
    BY <1>7, <2>1, <2>2, <2>3
<1>12. ASSUME ~w \/ ~Push!Playing, call \in {"drain", "signalled"}
       PROVE  buffer' = <<>>
  <2>1. ~w
    BY <1>3, <1>12
  <2>2. Push!DeviceSpace # 0 /\ sent = 0 /\ ~Push!Stuck(sent)
    BY <1>6, <2>1
  <2>3. Push!Maximum < Push!DeviceSpace
    BY <1>5, <2>2 DEF Push!Stuck
  <2>4. ~Push!PlaySilence /\ Push!Final
    BY <1>1, <1>5, <1>12, <2>3 DEF DrainInv, Push!Final
  <2>5. Len(buffer) = 0 /\ u = 0
    BY <1>5, <1>6, <2>2, <2>4
  <2>6. buffer = <<>>
    BY <1>7, <2>5, EmptySeq
  <2> HIDE DEF u
  <2>7. buffer' = SubSeq(buffer, 1, 0)
    BY <1>4, <2>5
  <2> QED
    BY <2>7, SubSeqEmpty
<1>13. TurnOf(w, u, sent)
  <2> HIDE DEF w, u
  <2> QED
    BY <1>3, <1>4, <1>7, <1>9, <1>10, <1>11, <1>12, <1>14 DEF TurnOf
<1> HIDE DEF w, u
<1> QED
  BY <1>6, <1>7, <1>8, <1>13

\* The thread reports the end when the time has passed that it computed when everything
\* was with the device; a pause does not let it pass.
LEMMA PushNothingCutOff ==
  ASSUME PushInv, [Push!Next]_Push!vars, Push!EndReported
  PROVE  device = 0 /\ buffer = <<>>
<1>1. PushFlags /\ PushControl /\ SpaceInv /\ EndInv
  BY PushTypesAre
<1>2. still_playing /\ ~still_playing' /\ call # "drained" /\ commands' = commands
  BY DEF Push!EndReported
<1>3. Push!PlayTurn \/ Push!IdleTurn
  <2>1. Push!Next
    BY <1>2 DEF Push!vars, Push!output, Push!ending
  <2>2. ~PlayerStep
    BY <1>2
    DEF PlayerStep, Push!GetSpace, Push!GetEof, Push!Pause, Push!Resume, Push!Unblock, Push!Drain,
        Push!DrainSignalled, Push!DrainTimeout, Push!DrainDevice, Push!Uninit, Push!Join, Push!Poke,
        Push!output, Push!ending
  <2>3. ~TimeStep
    BY <1>2
    DEF TimeStep, Push!Terminate, Push!EndTimeout, Push!DeviceWait, Push!DevicePlays,
        Push!EndPasses, Push!ending
  <2>4. ~Push!Play
    BY <1>2 DEF Push!Play, Push!PlayChunk
  <2>5. ~Push!Reset /\ ~Push!DrainReset
    BY <1>1, <1>2, Constants DEF Push!Reset, Push!DrainReset, PushControl
  <2> QED
    BY <2>1, <2>2, <2>3, <2>4, <2>5
    DEF Push!Next, Push!ThreadStep, Push!Finish, PlayerStep, TimeStep
<1>4. PICK w \in BOOLEAN, u \in 0..Len(buffer), sent \in Nat : TurnOf(w, u, sent)
  BY <1>3, PlayTurnIs, IdleTurnIs
<1>5. ~paused /\ (IF sent > 0 THEN "none" ELSE expected_end) = "past"
  BY <1>2, <1>4 DEF TurnOf, TurnEnds
<1> QED
  BY <1>1, <1>2, <1>5 DEF EndInv

\* At first the output is silent and the thread has not started.
LEMMA PushInitially ==
  ASSUME Push!Init
  PROVE  PushInv
<1> USE DEF Push!Init
<1>1. PushFlags
  BY Zenon DEF PushFlags
<1>2. PushControl
  BY Constants DEF PushControl
<1>3. SpaceInv
  BY Constants DEF SpaceInv
<1>4. DrainInv /\ EndInv
  BY DEF DrainInv, EndInv
<1> QED
  BY <1>1, <1>2, <1>3, <1>4, PushTypesAre

\* Every step of the player, the thread, the device and the clock keeps the invariant.
LEMMA PushKeeps ==
  ASSUME PushInv, Push!Next
  PROVE  PushInv'
<1>1. CASE PlayerStep
  BY <1>1, PlayerStepKeeps
<1>2. CASE Push!Play
  BY <1>2, PushPlayKeeps
<1>3. CASE Push!Reset \/ Push!DrainReset
  BY <1>3, DropAllKeeps
<1>4. CASE TimeStep
  BY <1>4, TimeStepKeeps
<1>5. CASE Push!PlayTurn \/ Push!IdleTurn
  <2>1. PICK w \in BOOLEAN, u \in 0..Len(buffer), sent \in Nat : TurnOf(w, u, sent)
    BY <1>5, PlayTurnIs, IdleTurnIs
  <2> QED
    BY <2>1, TurnKeeps
<1> QED
  BY <1>1, <1>2, <1>3, <1>4, <1>5
  DEF Push!Next, Push!ThreadStep, Push!Finish, PlayerStep, TimeStep

(***************************************************************************)
(* The theorems                                                            *)
(***************************************************************************)

\* The invariant of the output that is used holds in every reachable state.
THEOREM Invariant == Spec => []IInv
<1>1. Init => IInv
  BY PullInitially, PushInitially DEF Init, IInv
<1>2. IInv /\ [Next]_vars => IInv'
  <2> SUFFICES ASSUME IInv, [Next]_vars
               PROVE  IInv'
    OBVIOUS
  <2>1. CASE PullDoes(Pull!Next)
    BY <2>1, PullKeeps DEF PullDoes, IInv
  <2>2. CASE PushDoes(Push!Next)
    BY <2>2, PushKeeps DEF PushDoes, IInv
  <2>3. CASE UNCHANGED vars
    <3>1. UNCHANGED api
      BY <2>3 DEF vars
    <3>2. PullInv => PullInv'
      <4> SUFFICES ASSUME PullInv PROVE PullInv'
        OBVIOUS
      <4>1. UNCHANGED <<Positions, Callback, Player>>
        BY <2>3 DEF vars, pull_only, Positions, Callback, Player
      <4>2. UNCHANGED <<state, underflow, driver, commands, want, buffered, cb_plane, call>>
        BY <2>3 DEF vars, pull_only
      <4>3. UNCHANGED <<draining, running, final, saw_eof, core_paused, woken>>
        BY <2>3 DEF vars, pull_only
      <4>4. /\ RingTypes /\ LevelTypes /\ FlagTypes /\ ControlTypes /\ DataTypes /\ RingInv
            /\ MemInv /\ DataInv /\ CallbackInv /\ ResetInv /\ CountInv /\ SawInv
        BY TypesAre DEF PullInv
      <4>5. RingTypes' /\ LevelTypes' /\ ControlTypes' /\ DataTypes'
        BY <4>1, <4>2, <4>4
        DEF RingTypes, LevelTypes, ControlTypes, DataTypes, Positions, Callback, Player
      <4>6. FlagTypes'
        BY <4>3, <4>4, Zenon DEF FlagTypes
      <4>7. RingInv' /\ MemInv'
        BY <4>1, <4>2, <4>4
        DEF RingInv, MemInv, InWrite, InRead, Reading, Writing, Resetting, Positions, Callback,
            Player
      <4>8. DataInv' /\ CallbackInv' /\ ResetInv'
        BY <4>1, <4>2, <4>4
        DEF DataInv, Copied, CallbackInv, ResetInv, Resetting, Positions, Callback, Player
      <4>9. CountInv' /\ SawInv'
        BY <4>1, <4>2, <4>4
        DEF CountInv, SawInv, Resetting, Writing, Positions, Callback, Player
      <4> QED
        BY <4>5, <4>6, <4>7, <4>8, <4>9, TypesAre, PTL DEF PullInv
    <3>3. PushInv => PushInv'
      <4> SUFFICES ASSUME PushInv PROVE PushInv'
        OBVIOUS
      <4>1. /\ UNCHANGED <<buffer, allocated, heard, next, expected_end, push_driver, device,
                           faults, thread, call, playsize, status, commands>>
            /\ UNCHANGED <<still_playing, wait_on_ao, need_wakeup, paused, initial_unblocked,
                           final_chunk, terminate, device_paused, core_paused, woken>>
        BY <2>3 DEF vars, push_only
      <4>2. PushFlags /\ PushControl /\ SpaceInv /\ DrainInv /\ EndInv
        BY PushTypesAre
      <4>3. PushFlags'
        BY <4>1, <4>2, Zenon DEF PushFlags
      <4>4. PushControl' /\ SpaceInv' /\ DrainInv' /\ EndInv'
        BY <4>1, <4>2 DEF PushControl, SpaceInv, DrainInv, EndInv, Push!Blocked
      <4> QED
        BY <4>3, <4>4, PushTypesAre, PTL
    <3> QED
      BY <3>1, <3>2, <3>3 DEF IInv
  <2> QED
    BY <2>1, <2>2, <2>3 DEF Next
<1> QED
  BY <1>1, <1>2, PTL DEF Spec

\* pull.c: the two sides, which have no lock, are never at the same place of a ring, and
\* what is accepted fits into every plane.
THEOREM CopyingApart == Spec => []CopiesApart
<1>1. IInv => CopiesApart
  BY PullCopiesApart DEF IInv, CopiesApart, TypeOK, PullInv, PushInv
<1> QED
  BY <1>1, Invariant, PTL

\* push.c: the thread and the player of a drain() never both sleep without a timeout.
THEOREM OneAwake == Spec => []NoCommonSleep
<1>1. IInv => NoCommonSleep
  BY DEF IInv, NoCommonSleep, Push!NoCommonSleep, PushInv, DrainInv
<1> QED
  BY <1>1, Invariant, PTL

\* What is said to be over has been played.
THEOREM EndIsEnd == Spec => NothingCutOff
<1> DEFINE Whole == IF api = "pull"
                    THEN Pull!DrainedReset => Pull!Queued = <<>>
                    ELSE Push!EndReported => device = 0 /\ buffer = <<>>
<1>1. IInv /\ [Next]_vars => Whole
  <2> SUFFICES ASSUME IInv, [Next]_vars
               PROVE  Whole
    OBVIOUS
  <2>1. CASE api = "pull"
    <3>1. [Pull!Next]_Pull!vars
      BY <2>1
      DEF Next, PullDoes, PushDoes, vars, pull_only, Pull!vars, Pull!rings, Pull!control,
          Pull!device, Pull!playing, Pull!player, Pull!callback
    <3> QED
      BY <2>1, <3>1, PullNothingCutOff DEF IInv
  <2>2. CASE api # "pull"
    <3>1. api = "push"
      BY <2>2 DEF IInv
    <3>2. [Push!Next]_Push!vars
      BY <3>1
      DEF Next, PullDoes, PushDoes, vars, push_only, Push!vars, Push!output, Push!data,
          Push!ending, Push!fixed, Push!waiting, Push!hardware, Push!filling, Push!player
    <3> QED
      BY <2>2, <3>1, <3>2, PushNothingCutOff DEF IInv
  <2> QED
    BY <2>1, <2>2
<1>2. IInv /\ [Next]_vars => [Whole]_vars
  BY <1>1
<1>3. []IInv /\ [][Next]_vars => [][Whole]_vars
  BY <1>2, PTL
<1> QED
  BY <1>3, Invariant, PTL DEF Spec, NothingCutOff

(***************************************************************************)
(* The queue of samples                                                    *)
(***************************************************************************)

\* What AudioQueue is for either output.
PullHeard == [i \in 1..Len(heard) |-> Pull!Number(heard[i])]

PQ == INSTANCE AudioQueue WITH
  capacity <- RingSize, accepted <- next, queue <- Pull!Queued, heard <- PullHeard,
  playing <- state # "none"

SQ == INSTANCE AudioQueue WITH
  capacity <- BufferSize, accepted <- next, queue <- buffer, heard <- heard,
  playing <- ~paused

pull_queue == <<RingSize, next, Pull!Queued, PullHeard, state # "none">>
push_queue == <<BufferSize, next, buffer, heard, ~paused>>

\* The n samples before the one with the number next + 1.
Latest(n) == [i \in 1..n |-> next - n + i]

\* The rings hold what was accepted last.
QueueInv ==
  /\ Resetting => Pull!Queued = <<>>
  /\ ~Resetting => /\ Pull!Queued = Latest(wpos[0] - rpos[LastPlane])
                   /\ wpos[0] - rpos[LastPlane] \in Nat /\ next \in Nat

\* It follows from the numbers of the samples in the first ring.
LEMMA QueuedIs ==
  ASSUME PullInv
  PROVE  QueueInv
<1> USE DEF QueueInv
<1>1. CASE Resetting
  BY <1>1 DEF Pull!Queued, Resetting
<1>2. CASE ~Resetting
  <2>1. RingTypes /\ ControlTypes /\ RingInv /\ MemInv
    BY TypesAre DEF PullInv
  <2>2. 0 \in Planes /\ LastPlane \in Planes
    BY Constants DEF Planes, LastPlane
  <2>3. /\ wpos[0] \in Nat /\ rpos[LastPlane] \in Nat /\ next \in Nat /\ write \in Nat
        /\ rpos[LastPlane] <= wpos[0]
    BY <1>2, <2>1, <2>2, LevelsFollow DEF RingTypes, ControlTypes
  <2>4. ASSUME NEW i \in 1..(wpos[0] - rpos[LastPlane])
        PROVE  mem[0][(rpos[LastPlane] + i - 1) % RingSize] = next - (wpos[0] - rpos[LastPlane]) + i
    <3>1. i \in Nat /\ rpos[LastPlane] + i - 1 \in rpos[LastPlane]..(wpos[0] - 1)
      BY <2>3
    <3>2. rpos[LastPlane] + i - 1 \in
            rpos[LastPlane]..(wpos[0] - 1 + (IF pc = "publish" /\ 0 = plane THEN write ELSE 0))
      BY <2>3, <3>1
    <3>3. mem[0][(rpos[LastPlane] + i - 1) % RingSize] = next + 1 + (rpos[LastPlane] + i - 1) - wpos[0]
      BY <1>2, <2>1, <2>2, <3>2 DEF MemInv
    <3>4. next + 1 + (rpos[LastPlane] + i - 1) - wpos[0] = next - (wpos[0] - rpos[LastPlane]) + i
      BY <2>3, <3>1
    <3> QED
      BY <3>3, <3>4
  <2>5. Pull!Queued = [i \in 1..(wpos[0] - rpos[LastPlane]) |->
                          mem[0][(rpos[LastPlane] + i - 1) % RingSize]]
    BY <1>2 DEF Pull!Queued, Resetting, LastPlane
  <2>6. Pull!Queued = Latest(wpos[0] - rpos[LastPlane])
    BY <2>4, <2>5 DEF Latest
  <2>7. wpos[0] - rpos[LastPlane] \in Nat
    BY <2>3
  <2> QED
    BY <1>2, <2>3, <2>6, <2>7
<1> QED
  BY <1>1, <1>2

\* A step that leaves the two ends of the queue leaves the queue.
LEMMA QueueStays ==
  ASSUME PullInv, PullInv', Resetting' <=> Resetting, next' = next,
         Resetting \/ (wpos'[0] = wpos[0] /\ rpos'[LastPlane] = rpos[LastPlane])
  PROVE  Pull!Queued' = Pull!Queued
<1>1. QueueInv /\ QueueInv'
  BY QueuedIs, PTL
<1>2. /\ Resetting => Pull!Queued = <<>> /\ Pull!Queued' = <<>>
      /\ ~Resetting => /\ Pull!Queued = Latest(wpos[0] - rpos[LastPlane])
                       /\ Pull!Queued' = Latest(wpos[0] - rpos[LastPlane])'
  BY <1>1 DEF QueueInv
<1>3. ~Resetting => Latest(wpos[0] - rpos[LastPlane])' = Latest(wpos[0] - rpos[LastPlane])
  BY DEF Latest
<1> QED
  BY <1>2, <1>3

\* With its first plane, which is the last one it publishes, play() has accepted samples.
LEMMA PullAccepts ==
  ASSUME PullInv, PullInv', Pull!WritePublish
  PROVE  [PQ!Next]_pull_queue
<1> USE DEF Pull!control, Pull!device, Pull!player, Pull!callback
<1>1. /\ ~Resetting /\ ~Resetting' /\ write \in Nat /\ wpos[0] \in Nat /\ rpos[LastPlane] \in Nat
      /\ wpos[0] + write <= rpos[LastPlane] + RingSize /\ plane \in Nat /\ RingSize \in Nat
      /\ UNCHANGED <<rpos, state, heard>> /\ 0 \in Planes /\ next \in Nat
      /\ wpos' = [wpos EXCEPT ![plane] = wpos[plane] + write] /\ wpos \in [Planes -> Nat]
      /\ plane \in Planes
  <2>1. Writing /\ ~Resetting' /\ UNCHANGED <<rpos, state, heard>>
    BY DEF Pull!WritePublish, Writing, Resetting
  <2>2. RingTypes
    BY TypesAre DEF PullInv
  <2> QED
    <3>1. 0 \in Planes /\ \A p \in Planes : p \in Nat
      BY Constants DEF Planes
    <3>2. /\ plane \in Planes /\ write \in Nat /\ wpos[plane] = wpos[0]
          /\ wpos[plane] \in Nat /\ rpos[LastPlane] \in Nat /\ RingSize \in Nat
          /\ wpos[plane] + write <= rpos[LastPlane] + RingSize /\ next \in Nat /\ ~Resetting
      BY <2>1, WriterIs
    <3>3. wpos' = [wpos EXCEPT ![plane] = wpos[plane] + write]
      BY DEF Pull!WritePublish
    <3> QED
      BY <2>1, <2>2, <3>1, <3>2, <3>3 DEF RingTypes
<1>2. PullHeard' = PullHeard
  BY <1>1 DEF PullHeard, Pull!Number
<1>3. CASE plane > 0
  <2>1. next' = next /\ wpos'[0] = wpos[0]
    BY <1>1, <1>3 DEF Pull!WritePublish
  <2> QED
    BY <1>1, <1>2, <2>1, QueueStays DEF pull_queue
<1>4. CASE plane = 0
  <2>1. next' = next + write /\ wpos'[0] = wpos[0] + write
    BY <1>1, <1>4 DEF Pull!WritePublish
  <2>2. CASE write = 0
    BY <1>1, <1>2, <2>1, <2>2, QueueStays DEF pull_queue
  <2>3. CASE write > 0
    <3> DEFINE n == wpos[0] - rpos[LastPlane]
    <3>1. Pull!Queued = Latest(n) /\ n \in Nat
      BY <1>1, QueuedIs DEF QueueInv
    <3>2. Pull!Queued' = Latest(n)' /\ n' = n + write
      <4>1. QueueInv'
        BY QueuedIs, PTL
      <4>2. Pull!Queued' = Latest(n)'
        BY <1>1, <4>1 DEF QueueInv
      <4> QED
        BY <1>1, <2>1, <4>2
    <3> HIDE DEF n
    <3>3. Latest(n)' = Latest(n) \o [i \in 1..write |-> next + i]
      <4>1. Latest(n)' = [i \in 1..n + write |-> next - n + i]
        <5>1. Latest(n)' = [i \in 1..n + write |-> (next + write) - (n + write) + i]
          BY <2>1, <3>2 DEF Latest
        <5>2. \A i \in Int : (next + write) - (n + write) + i = next - n + i
          BY <1>1, <3>1
        <5> QED
          BY <5>1, <5>2
      <4>2. /\ Latest(n) \in Seq(Int) /\ Len(Latest(n)) = n
            /\ \A i \in 1..n : Latest(n)[i] = next - n + i
        <5>1. Latest(n) \in [1..n -> Int]
          BY <1>1, <3>1 DEF Latest
        <5>2. \A i \in 1..n : Latest(n)[i] = next - n + i
          BY DEF Latest
        <5> QED
          BY <3>1, <5>1, <5>2
      <4> DEFINE New == [i \in 1..write |-> next + i]
                 All == [i \in 1..n + write |-> next - n + i]
      <4>3. New \in Seq(Int) /\ Len(New) = write /\ \A i \in 1..write : New[i] = next + i
        <5>1. New \in [1..write -> Int]
          BY <1>1
        <5>2. \A i \in 1..write : New[i] = next + i
          OBVIOUS
        <5> HIDE DEF New
        <5> QED
          BY <1>1, <5>1, <5>2
      <4>4. All \in Seq(Int) /\ Len(All) = n + write
            /\ \A i \in 1..n + write : All[i] = next - n + i
        <5>1. All \in [1..n + write -> Int] /\ n + write \in Nat
          BY <1>1, <3>1
        <5>2. \A i \in 1..n + write : All[i] = next - n + i
          OBVIOUS
        <5> HIDE DEF All
        <5> QED
          BY <5>1, <5>2
      <4> HIDE DEF New, All
      <4>5. /\ Latest(n) \o New \in Seq(Int) /\ Len(Latest(n) \o New) = n + write
            /\ \A i \in 1..n + write :
                 (Latest(n) \o New)[i] = IF i <= n THEN Latest(n)[i] ELSE New[i - n]
        BY <4>2, <4>3, ConcatProperties
      <4>6. ASSUME NEW i \in 1..n + write
            PROVE  (Latest(n) \o New)[i] = All[i]
        <5>1. CASE i <= n
          BY <3>1, <4>2, <4>4, <4>5, <5>1
        <5>2. CASE ~(i <= n)
          <6>1. i - n \in 1..write /\ next + (i - n) = next - n + i
            BY <1>1, <3>1, <5>2
          <6> QED
            BY <4>3, <4>4, <4>5, <5>2, <6>1
        <5> QED
          BY <5>1, <5>2
      <4>7. Latest(n) \o New = All
        BY <4>4, <4>5, <4>6, SeqEqual
      <4> QED
        BY <4>1, <4>7 DEF New, All
    <3>4. Len(Pull!Queued) = n
      BY <3>1 DEF Latest
    <3>5. write \in 1..RingSize /\ Len(Pull!Queued) + write <= RingSize
      BY <1>1, <2>3, <3>1, <3>4 DEF n
    <3>6. PQ!Accept(write)
      BY <1>1, <1>2, <2>1, <3>1, <3>2, <3>3, <3>5 DEF PQ!Accept
    <3> QED
      BY <3>5, <3>6 DEF PQ!Next
  <2> QED
    BY <1>1, <2>2, <2>3
<1> QED
  BY <1>1, <1>3, <1>4

\* The beginning and the rest of the samples that were accepted last.
LEMMA LatestIs ==
  ASSUME next \in Nat, NEW n \in Nat, NEW k \in 0..n
  PROVE  /\ Latest(n) \in Seq(Int) /\ Len(Latest(n)) = n
         /\ SubSeq(Latest(n), k + 1, n) = Latest(n - k)
         /\ SubSeq(Latest(n), 1, k) = [i \in 1..k |-> next - n + i]
<1>1. ASSUME NEW m \in Nat
      PROVE  /\ Latest(m) \in Seq(Int) /\ Len(Latest(m)) = m
             /\ \A i \in 1..m : Latest(m)[i] = next - m + i
  <2>1. Latest(m) \in [1..m -> Int]
    BY DEF Latest
  <2>2. \A i \in 1..m : Latest(m)[i] = next - m + i
    BY DEF Latest
  <2> QED
    BY <2>1, <2>2
<1> DEFINE Rest == SubSeq(Latest(n), k + 1, n)
           Begin == SubSeq(Latest(n), 1, k)
           First == [i \in 1..k |-> next - n + i]
<1>2. n - k \in Nat /\ k \in Nat /\ k <= n
  OBVIOUS
<1>3. /\ Latest(n) \in Seq(Int) /\ Len(Latest(n)) = n
      /\ \A i \in 1..n : Latest(n)[i] \in Int /\ Latest(n)[i] = next - n + i
  BY <1>1
<1>4. Rest \in Seq(Int) /\ Len(Rest) = n - k /\ \A i \in 1..n - k : Rest[i] = Latest(n)[k + i]
  <2>1. \A i \in k + 1..n : Latest(n)[i] \in Int
    BY <1>2, <1>3
  <2>2. /\ Rest \in Seq(Int)
        /\ Len(Rest) = IF k + 1 <= n THEN n - (k + 1) + 1 ELSE 0
        /\ \A i \in 1..n - (k + 1) + 1 : Rest[i] = Latest(n)[k + 1 + i - 1]
    <3>1. k + 1 \in Int /\ n \in Int
      BY <1>2
    <3> HIDE DEF Rest
    <3> QED
      BY <2>1, <3>1, SubSeqProperties DEF Rest
  <2> HIDE DEF Rest
  <2>3. Len(Rest) = n - k
    BY <1>2, <2>2
  <2>4. ASSUME NEW i \in 1..n - k
        PROVE  Rest[i] = Latest(n)[k + i]
    <3>1. i \in 1..n - (k + 1) + 1 /\ k + 1 + i - 1 = k + i
      BY <1>2
    <3> QED
      BY <2>2, <3>1
  <2> QED
    BY <2>2, <2>3, <2>4
<1>5. Begin \in Seq(Int) /\ Len(Begin) = k /\ \A i \in 1..k : Begin[i] = Latest(n)[i]
  <2>1. \A i \in 1..k : Latest(n)[i] \in Int
    BY <1>2, <1>3
  <2>2. /\ Begin \in Seq(Int)
        /\ Len(Begin) = IF 1 <= k THEN k - 1 + 1 ELSE 0
        /\ \A i \in 1..k - 1 + 1 : Begin[i] = Latest(n)[1 + i - 1]
    <3>1. 1 \in Int /\ k \in Int
      BY <1>2
    <3> QED
      BY <2>1, <3>1, SubSeqProperties
  <2> HIDE DEF Begin
  <2>3. Len(Begin) = k
    BY <1>2, <2>2
  <2>4. ASSUME NEW i \in 1..k
        PROVE  Begin[i] = Latest(n)[i]
    <3>1. i \in 1..k - 1 + 1 /\ 1 + i - 1 = i
      BY <1>2
    <3> QED
      BY <2>2, <3>1
  <2> QED
    BY <2>2, <2>3, <2>4
<1>6. First \in Seq(Int) /\ Len(First) = k /\ \A i \in 1..k : First[i] = next - n + i
  <2>1. First \in [1..k -> Int]
    BY <1>2
  <2>2. \A i \in 1..k : First[i] = next - n + i
    OBVIOUS
  <2> HIDE DEF First
  <2> QED
    BY <1>2, <2>1, <2>2
<1>7. Rest = Latest(n - k)
  <2>1. ASSUME NEW i \in 1..n - k
        PROVE  Rest[i] = Latest(n - k)[i]
    <3>1. k + i \in 1..n /\ next - n + (k + i) = next - (n - k) + i
      BY <1>2
    <3>2. Latest(n - k)[i] = next - (n - k) + i
      BY <1>1, <1>2
    <3> HIDE DEF Rest
    <3> QED
      BY <1>3, <1>4, <3>1, <3>2
  <2>2. Latest(n - k) \in Seq(Int) /\ Len(Latest(n - k)) = n - k
    BY <1>1, <1>2
  <2> HIDE DEF Rest
  <2> QED
    BY <1>4, <2>1, <2>2, SeqEqual
<1>8. Begin = First
  <2> HIDE DEF Begin, First
  <2>1. ASSUME NEW i \in 1..k
        PROVE  Begin[i] = First[i]
    <3>1. i \in 1..n
      BY <1>2
    <3> QED
      BY <1>3, <1>5, <1>6, <3>1
  <2> QED
    BY <1>5, <1>6, <2>1, SeqEqual
<1> QED
  BY <1>3, <1>7, <1>8

\* With its last plane, the callback has taken samples, the same ones of all channels.
LEMMA PullTakes ==
  ASSUME PullInv, PullInv', Pull!CbRelease
  PROVE  [PQ!Next]_pull_queue
<1> USE DEF Pull!control, Pull!device, Pull!playing, Pull!player
<1>1. /\ cb_pc = "release" /\ rpos' = [rpos EXCEPT ![cb_plane] = rpos[cb_plane] + bytes]
      /\ UNCHANGED <<mem, wpos, next, pc, state, bytes>>
      /\ \/ cb_plane < LastPlane /\ heard' = heard
         \/ ~(cb_plane < LastPlane)
            /\ heard' = heard \o [i \in 1..bytes |-> [p \in Planes |-> data[p][i]]]
  BY DEF Pull!CbRelease, LastPlane, Planes
<1>2. /\ cb_plane \in Planes /\ bytes \in 0..RingSize /\ LastPlane \in Planes /\ 0 \in Planes
      /\ ~Resetting /\ ~Resetting' /\ rpos[LastPlane] \in Nat /\ wpos[0] \in Nat
      /\ rpos[cb_plane] = rpos[LastPlane] /\ rpos[LastPlane] + bytes <= wpos[0]
      /\ rpos \in [Planes -> Nat] /\ next \in Nat
  <2>1. RingTypes /\ ControlTypes
    BY TypesAre DEF PullInv
  <2>2. Resetting' <=> Resetting
    BY <1>1 DEF Resetting
  <2> QED
    BY <1>1, <2>1, <2>2, ReaderIs DEF RingTypes, ControlTypes
<1>3. CASE cb_plane < LastPlane
  <2>1. heard' = heard
    BY <1>1, <1>3
  <2>2. rpos'[LastPlane] = rpos[LastPlane]
    <3>1. LastPlane \in Nat /\ cb_plane \in Nat
      BY <1>2, Constants DEF Planes
    <3> QED
      BY <1>1, <1>2, <1>3, <3>1
  <2>3. PullHeard' = PullHeard
    BY <2>1 DEF PullHeard, Pull!Number
  <2>4. Pull!Queued' = Pull!Queued
    BY <1>1, <1>2, <2>2, QueueStays
  <2> QED
    BY <1>1, <2>3, <2>4 DEF pull_queue
<1>4. CASE ~(cb_plane < LastPlane)
  <2> DEFINE n == wpos[0] - rpos[LastPlane]
             Got == [i \in 1..bytes |-> [p \in Planes |-> data[p][i]]]
             Begin == [i \in 1..bytes |-> next - n + i]
  <2>1. /\ cb_plane = LastPlane /\ rpos'[LastPlane] = rpos[LastPlane] + bytes
        /\ \A p \in Planes : p < LastPlane \/ p = LastPlane
    <3>1. cb_plane <= LastPlane /\ \A p \in Planes : p <= LastPlane /\ p \in Nat /\ LastPlane \in Nat
      BY <1>2, Constants DEF Planes, LastPlane
    <3> QED
      BY <1>1, <1>2, <1>4, <3>1
  <2>2. n \in Nat /\ bytes \in 0..n /\ bytes \in Nat /\ n' = n - bytes
    BY <1>1, <1>2, <2>1
  <2>3. Pull!Queued = Latest(n)
    BY <1>2, QueuedIs DEF QueueInv
  <2>4. Pull!Queued' = Latest(n - bytes)
    <3>1. QueueInv'
      BY QueuedIs, PTL
    <3>2. Pull!Queued' = Latest(n)'
      BY <1>2, <3>1 DEF QueueInv
    <3>3. Latest(n)' = Latest(n - bytes)
      BY <1>1, <2>2 DEF Latest
    <3> QED
      BY <3>2, <3>3
  <2>5. heard' = heard \o Got
    BY <1>1, <1>4
  <2>6. ASSUME NEW i \in 1..bytes
        PROVE  Got[i] \in [Planes -> Int] /\ Pull!Number(Got[i]) = next - n + i
    <3>1. ASSUME NEW p \in Planes
          PROVE  data[p][i] = next - n + i
      <4>1. Copied(p)
        BY <1>1, <2>1 DEF Copied
      <4>2. data[p] = [j \in 1..bytes |-> next + rpos[LastPlane] + j - wpos[0]]
        BY <1>1, <4>1, TypesAre DEF PullInv, DataInv
      <4>3. next + rpos[LastPlane] + i - wpos[0] = next - n + i
        BY <1>2
      <4> QED
        BY <4>2, <4>3
    <3>2. Got[i] = [p \in Planes |-> next - n + i]
      BY <3>1
    <3>3. next - n + i \in Int
      BY <1>2, <2>2
    <3> HIDE DEF n, Got
    <3> QED
      BY <1>2, <3>2, <3>3 DEF Pull!Number, Planes
  <2>7. Got \in Seq([Planes -> Int]) /\ Len(Got) = bytes
    <3>1. Got \in [1..bytes -> [Planes -> Int]]
      BY <2>6
    <3> HIDE DEF Got
    <3> QED
      BY <2>2, <3>1
  <2> HIDE DEF n, Got
  <2>8. /\ SubSeq(Latest(n), bytes + 1, n) = Latest(n - bytes)
        /\ SubSeq(Latest(n), 1, bytes) = Begin /\ Len(Latest(n)) = n
    BY <1>2, <2>2, LatestIs
  <2>9. PullHeard' = PullHeard \o Begin
    <3>1. heard \in Seq([Planes -> Int]) /\ Len(heard) \in Nat
      BY TypesAre DEF PullInv, CountInv
    <3>2. /\ Len(heard') = Len(heard) + bytes
          /\ \A i \in 1..Len(heard) + bytes :
               heard'[i] = IF i <= Len(heard) THEN heard[i] ELSE Got[i - Len(heard)]
      BY <2>5, <2>7, <3>1, ConcatProperties
    <3>3. ASSUME NEW i \in 1..Len(heard)
          PROVE  Pull!Number(heard[i]) \in Int
      <4>1. heard[i] \in [Planes -> Int]
        BY <3>1, ElementOfSeq
      <4> QED
        BY <1>2, <4>1 DEF Pull!Number
    <3>4. /\ PullHeard \in Seq(Int) /\ Len(PullHeard) = Len(heard)
          /\ \A i \in 1..Len(heard) : PullHeard[i] = Pull!Number(heard[i])
      <4>1. PullHeard \in [1..Len(heard) -> Int]
        BY <3>3 DEF PullHeard
      <4>2. \A i \in 1..Len(heard) : PullHeard[i] = Pull!Number(heard[i])
        BY DEF PullHeard
      <4>3. PICK m \in Nat : m = Len(heard)
        BY <3>1
      <4>4. PullHeard \in Seq(Int) /\ Len(PullHeard) = m
        BY ONLY <4>1, <4>3
      <4> QED
        BY <4>2, <4>3, <4>4
    <3>5. /\ Begin \in Seq(Int) /\ Len(Begin) = bytes
          /\ \A i \in 1..bytes : Begin[i] = next - n + i
      <4>1. Begin \in [1..bytes -> Int]
        BY <1>2, <2>2
      <4>2. \A i \in 1..bytes : Begin[i] = next - n + i
        OBVIOUS
      <4> HIDE DEF Begin
      <4> QED
        BY <2>2, <4>1, <4>2
    <3> HIDE DEF Begin
    <3>6. /\ PullHeard \o Begin \in Seq(Int)
          /\ Len(PullHeard \o Begin) = Len(heard) + bytes
          /\ \A i \in 1..Len(heard) + bytes :
               (PullHeard \o Begin)[i]
                 = IF i <= Len(heard) THEN PullHeard[i] ELSE Begin[i - Len(heard)]
      <4>1. Begin \in Seq(Int) /\ PullHeard \in Seq(Int)
        BY <3>4, <3>5
      <4>2. /\ PullHeard \o Begin \in Seq(Int)
            /\ Len(PullHeard \o Begin) = Len(PullHeard) + Len(Begin)
            /\ \A i \in 1..Len(PullHeard) + Len(Begin) :
                 (PullHeard \o Begin)[i]
                   = IF i <= Len(PullHeard) THEN PullHeard[i] ELSE Begin[i - Len(PullHeard)]
        BY <4>1, ConcatProperties
      <4>3. Len(PullHeard) = Len(heard) /\ Len(Begin) = bytes
        BY <3>4, <3>5
      <4> QED
        BY <4>2, <4>3
    <3>7. ASSUME NEW i \in 1..Len(heard) + bytes
          PROVE  Pull!Number(heard'[i]) = (PullHeard \o Begin)[i]
      <4>1. CASE i <= Len(heard)
        <5>1. i \in 1..Len(heard)
          BY <3>1, <4>1
        <5> QED
          BY <3>2, <3>4, <3>6, <4>1, <5>1
      <4>2. CASE ~(i <= Len(heard))
        <5>1. i - Len(heard) \in 1..bytes
          BY <2>2, <3>1, <4>2
        <5>2. heard'[i] = Got[i - Len(heard)]
          BY <3>2, <4>2
        <5>3. (PullHeard \o Begin)[i] = Begin[i - Len(heard)]
          BY <3>6, <4>2
        <5> QED
          BY <2>6, <3>5, <5>1, <5>2, <5>3
      <4> QED
        BY <4>1, <4>2
    <3>8. PullHeard' = [i \in 1..Len(heard) + bytes |-> (PullHeard \o Begin)[i]]
      <4>1. PullHeard' = [i \in 1..Len(heard') |-> Pull!Number(heard'[i])]
        BY DEF PullHeard, Pull!Number
      <4> QED
        BY <3>2, <3>7, <4>1
    <3>9. PullHeard \o Begin = [i \in 1..Len(heard) + bytes |-> (PullHeard \o Begin)[i]]
      <4>1. PullHeard \o Begin \in [1..Len(PullHeard \o Begin) -> Int]
        BY <3>6, LenProperties
      <4> QED
        BY <3>6, <4>1
    <3> QED
      BY <3>8, <3>9
  <2>10. CASE bytes = 0
    <3>1. Got = <<>> /\ Begin = <<>>
      BY <2>7, <2>10, EmptySeq
    <3>2. heard' = heard
      <4>1. heard \in Seq([Planes -> Int])
        BY TypesAre DEF PullInv, CountInv
      <4> QED
        BY <2>5, <3>1, <4>1, ConcatEmptySeq
    <3>3. PullHeard' = PullHeard
      BY <3>2 DEF PullHeard, Pull!Number
    <3>4. Pull!Queued' = Pull!Queued
      <4>1. n - bytes = n
        BY <2>2, <2>10
      <4> QED
        BY <2>3, <2>4, <4>1
    <3> QED
      BY <1>1, <3>3, <3>4 DEF pull_queue
  <2>11. CASE bytes > 0
    <3>1. state # "none"
      BY <1>1, TypesAre DEF PullInv, CallbackInv
    <3>2. bytes \in 1..RingSize /\ bytes <= Len(Pull!Queued)
      BY <1>2, <2>2, <2>3, <2>8, <2>11
    <3>3. PullHeard' = PullHeard \o SubSeq(Pull!Queued, 1, bytes)
      BY <2>3, <2>8, <2>9
    <3>4. Pull!Queued' = SubSeq(Pull!Queued, bytes + 1, Len(Pull!Queued))
      BY <2>3, <2>4, <2>8
    <3>5. PQ!Take(bytes)
      BY <1>1, <3>1, <3>2, <3>3, <3>4 DEF PQ!Take
    <3> QED
      BY <3>2, <3>5 DEF PQ!Next
  <2> QED
    BY <2>2, <2>10, <2>11
<1> QED
  BY <1>3, <1>4

\* The states of pull.c are those of its queue, and what is done in between is not seen.
LEMMA PullImplements ==
  ASSUME PullInv, PullInv', Pull!Next
  PROVE  [PQ!Next]_pull_queue
<1> USE DEF pull_queue
<1>1. CASE ControlStep
  <2>1. /\ ~Resetting /\ ~Resetting' /\ UNCHANGED <<wpos, rpos, next, heard>>
    BY <1>1, ControlStepIs DEF Positions, Callback
  <2>2. Pull!Queued' = Pull!Queued /\ PullHeard' = PullHeard
    BY <2>1, QueueStays DEF PullHeard, Pull!Number
  <2>3. CASE Pull!SetPlay
    <3>1. state' # "none"
      BY <2>3 DEF Pull!SetPlay
    <3> QED
      BY <2>1, <2>2, <3>1 DEF PQ!Next, PQ!Start
  <2>4. CASE ~Pull!SetPlay
    <3>1. state' = state
      BY <1>1, <2>4
      DEF ControlStep, Pull!CheckState, Pull!StartDriver, Pull!SetDraining,
          Pull!TakeUnderflow, Pull!DrainPoll, Pull!StopDriver, Pull!Pause, Pull!Reset,
          Pull!Resume, Pull!Drain, Pull!control
    <3> QED
      BY <2>1, <2>2, <3>1
  <2> QED
    BY <2>3, <2>4
<1>2. CASE CallbackStep
  <2>1. UNCHANGED <<wpos, rpos, next, heard, pc>>
    <3>1. UNCHANGED <<Player, data, heard>>
      BY <1>2, CallbackStepIs
    <3> QED
      BY <3>1 DEF Player
  <2>2. Pull!Queued' = Pull!Queued /\ PullHeard' = PullHeard
    BY <2>1, QueueStays DEF Resetting, PullHeard, Pull!Number
  <2>3. (state' # "none") = (state # "none")
    BY <1>2
    DEF CallbackStep, Pull!CbBegin, Pull!CbLoad, Pull!CbCount, Pull!CbEnd, Pull!CbWake,
        Pull!control
  <2> QED
    BY <2>1, <2>2, <2>3
<1>3. CASE \/ \E n \in 1..MaxSamples : Pull!Play(n)
           \/ Pull!Poke \/ Pull!WriteCopy \/ Pull!CbCopy
  <2>1. UNCHANGED <<wpos, rpos, next, heard, state>> /\ (Resetting' <=> Resetting)
    BY <1>3
    DEF Pull!Play, Pull!Poke, Pull!WriteCopy, Pull!CbCopy, Pull!rings, Pull!control,
        Pull!playing, Pull!callback, Resetting
  <2>2. Pull!Queued' = Pull!Queued /\ PullHeard' = PullHeard
    BY <2>1, QueueStays DEF PullHeard, Pull!Number
  <2> QED
    BY <2>1, <2>2
<1>4. CASE Pull!WritePublish
  BY <1>4, PullAccepts
<1>5. CASE Pull!CbRelease
  BY <1>5, PullTakes
<1>6. CASE Pull!SetNone
  <2>1. /\ ~Resetting /\ state' = "none" /\ UNCHANGED <<wpos, rpos, next, heard>>
        /\ pc' \in {"idle", "reset_wpos"}
    BY <1>6 DEF Pull!SetNone, Pull!Return, Pull!rings, Pull!callback, Resetting
  <2>2. PullHeard' = PullHeard
    BY <2>1 DEF PullHeard, Pull!Number
  <2>3. CASE pc' = "idle"
    <3>1. Pull!Queued' = Pull!Queued
      BY <2>1, <2>3, QueueStays DEF Resetting
    <3> QED
      BY <2>1, <2>2, <3>1 DEF PQ!Next, PQ!Stop
  <2>4. CASE pc' = "reset_wpos"
    <3>1. Pull!Queued' = <<>>
      BY <2>4 DEF Pull!Queued
    <3>2. PQ!Clear
      BY <2>1, <2>2, <3>1 DEF PQ!Clear
    <3> QED
      BY <3>2 DEF PQ!Next
  <2> QED
    BY <2>1, <2>3, <2>4
<1>7. CASE Pull!ResetWpos
  <2>1. /\ Resetting /\ Resetting' /\ UNCHANGED <<next, heard, state>>
    BY <1>7 DEF Pull!ResetWpos, Pull!control, Pull!playing, Pull!callback, Resetting
  <2>2. Pull!Queued' = Pull!Queued /\ PullHeard' = PullHeard
    BY <2>1, QueueStays DEF PullHeard, Pull!Number
  <2> QED
    BY <2>1, <2>2
<1>8. CASE Pull!ResetRpos
  <2>1. /\ Resetting /\ pc = "reset_rpos" /\ UNCHANGED <<next, heard, state, wpos>>
        /\ rpos' = [rpos EXCEPT ![plane] = 0]
        /\ pc' \in {"reset_wpos", "idle", "closed"}
        /\ pc' # "reset_wpos" => ~(plane < LastPlane)
    BY <1>8 DEF Pull!ResetRpos, Pull!Return, Pull!control, Pull!callback, Resetting, LastPlane
  <2>2. PullHeard' = PullHeard
    BY <2>1 DEF PullHeard, Pull!Number
  <2>3. Pull!Queued = <<>>
    BY <2>1, QueuedIs DEF QueueInv
  <2>4. Pull!Queued' = <<>>
    <3>1. CASE pc' = "reset_wpos"
      BY <3>1 DEF Pull!Queued
    <3>2. CASE pc' # "reset_wpos"
      <4>1. /\ plane \in Planes /\ 0 \in Planes /\ LastPlane \in Planes
            /\ \A p \in Planes : p \in Nat /\ p <= LastPlane
        BY TypesAre, Constants DEF PullInv, ControlTypes, Planes, LastPlane
      <4>2. plane = LastPlane
        BY <2>1, <3>2, <4>1
      <4>3. wpos[0] = 0
        <5>1. 0 = plane \/ 0 < plane
          BY <4>1
        <5> QED
          BY <2>1, <4>1, <5>1 DEF PullInv, ResetInv
      <4>4. rpos'[LastPlane] = 0
        BY <2>1, <4>1, <4>2, TypesAre DEF PullInv, RingTypes
      <4>5. wpos'[0] - rpos'[Pull!LastPlane] = 0
        BY <2>1, <4>3, <4>4 DEF LastPlane
      <4> QED
        BY <2>1, <3>2, <4>5 DEF Pull!Queued, Pull!LastPlane
    <3> QED
      BY <3>1, <3>2
  <2> QED
    BY <2>1, <2>2, <2>3, <2>4
<1> QED
  BY <1>1, <1>2, <1>3, <1>4, <1>5, <1>6, <1>7, <1>8
  DEF Pull!Next, Pull!PlayerStep, Pull!CbStep, ControlStep, CallbackStep

\* The buffer of push.c is the queue, and its device is who hears.
LEMMA PushImplements ==
  ASSUME PushInv, Push!Next
  PROVE  [SQ!Next]_push_queue
<1> USE DEF push_queue
<1>1. PushFlags /\ PushControl /\ SpaceInv /\ EndInv
  BY PushTypesAre
<1>2. CASE PlayerStep
  <2>1. UNCHANGED <<next, buffer, heard>>
    BY <1>2
    DEF PlayerStep, Push!GetSpace, Push!GetEof, Push!Pause, Push!Resume, Push!Unblock, Push!Drain,
        Push!DrainSignalled, Push!DrainTimeout, Push!DrainDevice, Push!Uninit, Push!Join, Push!Poke,
        Push!output, Push!data, Push!filling, Push!player
  <2>2. paused' = TRUE \/ paused' = FALSE \/ paused' = paused
    BY <1>2
    DEF PlayerStep, Push!GetSpace, Push!GetEof, Push!Pause, Push!Resume, Push!Unblock, Push!Drain,
        Push!DrainSignalled, Push!DrainTimeout, Push!DrainDevice, Push!Uninit, Push!Join, Push!Poke,
        Push!output
  <2> QED
    BY <2>1, <2>2 DEF SQ!Next, SQ!Start, SQ!Stop
<1>3. CASE Push!Play
  <2>1. PICK n \in Nat : PlayOf(n)
    BY <1>3, PushPlayIs
  <2>2. Len(buffer) + n <= BufferSize
    BY <1>1, <2>1, Constants DEF PlayOf, SpaceInv, PushControl
  <2>3. SQ!Accept(n)
    BY <2>1, <2>2 DEF PlayOf, SQ!Accept
  <2> QED
    BY <2>1, <2>3 DEF PlayOf, SQ!Next
<1>4. CASE Push!Reset \/ Push!DrainReset
  <2>1. buffer' = <<>> /\ paused' = FALSE /\ UNCHANGED <<next, heard>>
    BY <1>4 DEF Push!Reset, Push!DrainReset, Push!DropAll, Push!filling
  <2>2. SQ!Clear
    BY <2>1 DEF SQ!Clear
  <2> QED
    BY <2>2 DEF SQ!Next
<1>5. CASE TimeStep
  BY <1>5
  DEF TimeStep, Push!Terminate, Push!EndTimeout, Push!DeviceWait, Push!DevicePlays,
      Push!EndPasses, Push!data, Push!player, Push!filling
<1>6. CASE Push!PlayTurn \/ Push!IdleTurn
  <2>1. PICK w \in BOOLEAN, u \in 0..Len(buffer), sent \in Nat : TurnOf(w, u, sent)
    BY <1>6, PlayTurnIs, IdleTurnIs
  <2>2. /\ buffer' = SubSeq(buffer, u + 1, Len(buffer))
        /\ heard' = heard \o SubSeq(buffer, 1, u) \/ (heard' = heard /\ buffer' = <<>>)
        /\ UNCHANGED <<next, paused>> /\ (u > 0 => ~paused)
    BY <2>1 DEF TurnOf
  <2>3. /\ buffer \in Seq(Int) /\ heard \in Seq(Int) /\ Len(buffer) \in Nat
        /\ Len(buffer) <= BufferSize /\ BufferSize \in Nat
    BY <1>1, Constants DEF SpaceInv
  <2>6. CASE heard' = heard /\ buffer' = <<>>
    <3>1. SQ!Clear
      BY <2>2, <2>6 DEF SQ!Clear
    <3> QED
      BY <2>2, <3>1 DEF SQ!Next
  <2>4. CASE u = 0 /\ heard' = heard \o SubSeq(buffer, 1, u)
    <3>1. SubSeq(buffer, 0 + 1, Len(buffer)) = buffer /\ SubSeq(buffer, 1, 0) = <<>>
          /\ heard \o <<>> = heard
      BY <2>3, SubSeqFull, SubSeqEmpty, ConcatEmptySeq
    <3> QED
      BY <2>2, <2>4, <3>1
  <2>5. CASE u > 0 /\ heard' = heard \o SubSeq(buffer, 1, u)
    <3>1. u \in 1..BufferSize /\ u <= Len(buffer)
      BY <2>3, <2>5
    <3>2. SQ!Take(u)
      BY <2>2, <2>5, <3>1 DEF SQ!Take
    <3> QED
      BY <3>1, <3>2 DEF SQ!Next
  <2> QED
    BY <2>2, <2>3, <2>4, <2>5, <2>6
<1> QED
  BY <1>2, <1>3, <1>4, <1>5, <1>6
  DEF Push!Next, Push!ThreadStep, Push!Finish, PlayerStep, TimeStep

\* Either output is the queue that ao.h promises: what is accepted fits, and the device gets
\* it in order, once, for all channels together, and only while playing.
THEOREM Refinement == Spec => ImplementsAudioQueue
<1>1. Init => AQ!Init
  <2> SUFFICES ASSUME Init PROVE AQ!Init
    OBVIOUS
  <2>1. RingSize \in Nat /\ BufferSize \in Nat
    BY Constants
  <2>2. CASE api = "pull"
    <3>1. Pull!Init /\ PullInv
      BY PullInitially DEF Init
    <3>2. /\ pc = "idle" /\ heard = <<>> /\ next = 0 /\ wpos[0] - rpos[LastPlane] = 0
      <4>1. 0 \in Planes /\ LastPlane \in Planes
        BY Constants DEF Planes, LastPlane
      <4> QED
        BY <3>1, <4>1 DEF Pull!Init, Planes
    <3>3. Pull!Queued = <<>>
      BY <3>2 DEF Pull!Queued, LastPlane
    <3>4. [i \in 1..Len(heard) |-> Pull!Number(heard[i])] = <<>>
      BY <3>2
    <3>5. (state # "none") \in BOOLEAN
      OBVIOUS
    <3> QED
      BY <2>1, <2>2, <3>2, <3>3, <3>4, <3>5 DEF AQ!Init
  <2>3. CASE api = "push"
    <3>1. Push!Init
      BY DEF Init
    <3> QED
      BY <2>1, <2>3, <3>1 DEF AQ!Init, Push!Init
  <2> QED
    BY <2>2, <2>3 DEF Init
<1> DEFINE queue_vars ==
      <<IF api = "pull" THEN RingSize ELSE BufferSize, next,
        IF api = "pull" THEN Pull!Queued ELSE buffer,
        IF api = "pull" THEN [i \in 1..Len(heard) |-> Pull!Number(heard[i])] ELSE heard,
        IF api = "pull" THEN state # "none" ELSE ~paused>>
<1>2. IInv /\ IInv' /\ [Next]_vars => [AQ!Next]_queue_vars
  <2> SUFFICES ASSUME IInv, IInv', [Next]_vars
               PROVE  [AQ!Next]_queue_vars
    OBVIOUS
  <2>1. CASE PullDoes(Pull!Next)
    <3>1. api = "pull" /\ api' = "pull" /\ PullInv /\ PullInv'
      BY <2>1 DEF PullDoes, IInv
    <3>2. [PQ!Next]_pull_queue
      BY <2>1, <3>1, PullImplements DEF PullDoes
    <3>3. CASE UNCHANGED pull_queue
      BY <3>1, <3>3 DEF pull_queue, PullHeard
    <3>4. CASE PQ!Next
      BY <3>1, <3>4
      DEF PQ!Next, PQ!Accept, PQ!Take, PQ!Start, PQ!Stop, PQ!Clear,
          AQ!Next, AQ!Accept, AQ!Take, AQ!Start, AQ!Stop, AQ!Clear, PullHeard
    <3> QED
      BY <3>2, <3>3, <3>4
  <2>2. CASE PushDoes(Push!Next)
    <3>1. api = "push" /\ api' = "push" /\ PushInv
      BY <2>2 DEF PushDoes, IInv
    <3>2. [SQ!Next]_push_queue
      BY <2>2, <3>1, PushImplements DEF PushDoes
    <3>3. CASE UNCHANGED push_queue
      BY <3>1, <3>3 DEF push_queue
    <3>4. CASE SQ!Next
      BY <3>1, <3>4
      DEF SQ!Next, SQ!Accept, SQ!Take, SQ!Start, SQ!Stop, SQ!Clear,
          AQ!Next, AQ!Accept, AQ!Take, AQ!Start, AQ!Stop, AQ!Clear
    <3> QED
      BY <3>2, <3>3, <3>4
  <2>3. CASE UNCHANGED vars
    <3>1. UNCHANGED <<api, heard, next, mem, wpos, rpos, pc, state, buffer, paused>>
      BY <2>3 DEF vars, pull_only, push_only
    <3> QED
      BY <3>1 DEF Pull!Queued, Pull!Number
  <2> QED
    BY <2>1, <2>2, <2>3 DEF Next
<1> QED
  BY <1>1, <1>2, Invariant, PTL DEF Spec, ImplementsAudioQueue, AQ!Spec

(***************************************************************************)
(* The filters                                                             *)
(***************************************************************************)

\* Frames, and the values that stand for none and for the end.
Frames == 0..Eof

\* The filters of a playing file
Filters == {"root", "output_chain", "user_wrapper", "filter", "wrapper", "demux", "decoder"}

\* The states of all filters
States ==
  [data : [Links -> Frames], req : [Links -> BOOLEAN], pending : Seq(Filters),
   external : BOOLEAN, packet : Frames, new_segment : 0..Packets, start : Nat,
   decoding : Seq(1..Packets), draining : BOOLEAN, eof_flag : BOOLEAN,
   eof_returned : BOOLEAN, failed : BOOLEAN, disabled : BOOLEAN, error_eof_sent : BOOLEAN,
   failed_conversion : BOOLEAN]

\* A pin that is asked for data has none (the assertions of filter.c).
Protocol(s) == \A l \in Links : s.req[l] => s.data[l] = Nothing

\* The decoder and its wrapper. While a segment waits to start, the wrapper takes no packet
\* and the end that drains the decoder is in front of all else. The decoder asks for a packet only
\* when its own output was asked for and it can keep the packet back; and an end leaves it
\* empty.
Decoding(s) ==
  /\ s.new_segment # Nothing =>
       /\ s.packet = Nothing /\ ~s.req["to_decoder"]
       /\ s.draining \/ s.data["to_decoder"] = Eof \/ s.data["frames"] = Eof
  /\ s.data["to_decoder"] # Nothing \/ s.req["to_decoder"] =>
       s.req["frames"] /\ ~s.draining /\ Len(s.decoding) <= Delay
  /\ s.data["frames"] = Eof => ~s.draining /\ s.decoding = <<>>

\* A packet that has no decoder drained for it
Plain(p) == p \in 1..Packets /\ segment[p] = 0

\* The decoder was given an end of file last.
Ended(s) == \/ s.draining \/ s.data["to_decoder"] = Eof
            \/ s.eof_flag /\ s.decoding = <<>> /\ s.data["to_decoder"] = Nothing

\* What comes next to the decoder follows an end.
LastWasEof(s) == \/ s.packet = Eof
                 \/ s.packet = Nothing /\ s.new_segment = Nothing /\ Ended(s)

\* After an end the decoder is given no packet of another segment: the file goes on after its
\* end, if at all, with packets that no decoder is drained for. So no end is swallowed as the
\* one before a segment, and the decoder does not come to an end twice.
Draining(s) ==
  /\ s.eof_flag /\ s.decoding = <<>> => ~s.draining /\ s.data["to_decoder"] # Eof
  /\ Ended(s) /\ s.new_segment = Nothing /\ s.packet # Nothing => Plain(s.packet)
  /\ LastWasEof(s) => IF s.data["packets"] = Nothing THEN s.eof_returned
                      ELSE Plain(s.data["packets"])
  /\ s.data["packets"] = Eof => s.eof_returned
  /\ s.eof_returned => IF queue # <<>> THEN segment[Head(queue)] = 0
                       ELSE position <= Packets => segment[position] = 0

\* A filter that fails has nothing on its connections, one that is left out gets nothing any
\* more, and only one that converts is missed.
Failing(s) ==
  /\ s.failed => ~s.disabled /\ s.data["to_filter"] = Nothing
                             /\ s.data["from_filter"] = Nothing
  /\ s.disabled /\ role = "user" =>
       \A l \in {"to_filter", "from_filter"} : s.data[l] = Nothing /\ ~s.req[l]
  /\ s.disabled /\ role = "convert" => s.failed_conversion
  /\ s.failed_conversion => s.disabled

\* Two states that agree on all but the connections and the filters to be run.
SameRest(t, s) ==
  /\ t.packet = s.packet /\ t.new_segment = s.new_segment /\ t.start = s.start
  /\ t.decoding = s.decoding /\ t.draining = s.draining /\ t.eof_flag = s.eof_flag
  /\ t.eof_returned = s.eof_returned /\ t.failed = s.failed /\ t.disabled = s.disabled
  /\ t.failed_conversion = s.failed_conversion

\* What is true of the filters, with the queue and the rest as they are.
GraphInv(s) ==
  /\ s \in States /\ IsInjective(s.pending)
  /\ Protocol(s) /\ Decoding(s) /\ Draining(s) /\ Failing(s)
  /\ ~s.failed_conversion => owed = InFlight(s)

\* The two frames that are none are frames, and no packets.
LEMMA FramesAre ==
  /\ Eof \in Frames /\ Nothing \in Frames /\ Eof # Nothing /\ Eof \in Nat
  /\ 1..Packets \subseteq Frames
  BY GraphAssumption DEF Eof, Nothing, Frames

\* Filters write to all connections and read from them.
LEMMA NamesAre == \A l \in Links : Reader(l) \in Filters /\ Writer(l) \in Filters
  BY DEF Links, Reader, Writer, Filters

\* add_pending changes nothing but the list of filters to run, and none is in it twice.
LEMMA AddPendingIs ==
  ASSUME NEW s \in States, NEW f \in Filters, NEW t, t = AddPending(s, f)
  PROVE /\ t \in States /\ t.data = s.data /\ t.req = s.req /\ SameRest(t, s)
        /\ IsInjective(s.pending) => IsInjective(t.pending)
  <1>. DEFINE e == s.external \/ f = "root"
              p == Append(s.pending, f)
  <1>1. e \in BOOLEAN
    OBVIOUS
  <1>2. p \in Seq(Filters)
    BY AppendProperties DEF States
  <1>3. CASE f \in ToSet(s.pending)
    BY <1>3 DEF AddPending, SameRest
  <1>4. CASE f \notin ToSet(s.pending)
    <2>1. t = [s EXCEPT !.pending = p, !.external = e]
      BY <1>4 DEF AddPending
    <2>2. /\ t \in States /\ t.data = s.data /\ t.req = s.req /\ SameRest(t, s)
          /\ t.pending = p
      <3>. HIDE DEF e, p
      <3>. QED  BY ONLY s \in States, <2>1, <1>1, <1>2 DEF States, SameRest
    <2>3. ASSUME IsInjective(s.pending) PROVE IsInjective(p)
      <3>1. s.pending \in Seq(Filters)
        BY DEF States
      <3>2. ASSUME NEW i \in 1..Len(s.pending) PROVE s.pending[i] # f
        BY <1>4, <3>1, <3>2 DEF ToSet
      <3>3. /\ DOMAIN p = 1..(Len(s.pending) + 1) /\ DOMAIN s.pending = 1..Len(s.pending)
            /\ \A i \in 1..Len(s.pending) : p[i] = s.pending[i]
            /\ p[Len(s.pending) + 1] = f
            /\ Len(s.pending) \in Nat
        BY <3>1
      <3>. HIDE DEF p
      <3>. QED  BY <2>3, <3>2, <3>3 DEF IsInjective
    <2>. QED  BY <2>2, <2>3
  <1>. QED BY <1>3, <1>4

\* A request marks the connection and the filter that writes to it.
LEMMA RequestIs ==
  ASSUME NEW s \in States, NEW l \in Links, NEW t, t = Request(s, l)
  PROVE /\ t \in States /\ t.data = s.data /\ SameRest(t, s)
        /\ t.req = IF s.data[l] # Nothing THEN s.req ELSE [s.req EXCEPT ![l] = TRUE]
        /\ IsInjective(s.pending) => IsInjective(t.pending)
  <1>. DEFINE r == [s EXCEPT !.req[l] = TRUE]
  <1>1. /\ r \in States /\ r.data = s.data /\ SameRest(r, s) /\ r.pending = s.pending
        /\ r.req = [s.req EXCEPT ![l] = TRUE]
    BY DEF States, SameRest
  <1>2. CASE s.data[l] # Nothing
    BY <1>2 DEF Request, HasData, SameRest
  <1>3. CASE s.data[l] = Nothing /\ s.req[l]
    <2>1. t = s
      BY <1>3 DEF Request
    <2>2. s.req = [s.req EXCEPT ![l] = TRUE]
      BY <1>3 DEF States
    <2>. QED  BY <1>3, <2>1, <2>2 DEF SameRest
  <1>4. CASE s.data[l] = Nothing /\ ~s.req[l]
    <2>1. t = AddPending(r, Writer(l))
      BY <1>4 DEF Request, HasData
    <2>. HIDE DEF r
    <2>. QED  BY <1>1, <1>4, <2>1, AddPendingIs, NamesAre DEF SameRest
  <1>. QED BY <1>2, <1>3, <1>4

\* What is written is on the connection, which is then not asked for any more.
LEMMA WritingIs ==
  ASSUME NEW s \in States, NEW l \in Links, NEW frame \in Frames, NEW t,
         t = Write(s, l, frame)
  PROVE /\ t \in States /\ SameRest(t, s)
        /\ t.data = [s.data EXCEPT ![l] = frame] /\ t.req = [s.req EXCEPT ![l] = FALSE]
        /\ IsInjective(s.pending) => IsInjective(t.pending)
  <1>. DEFINE r == [s EXCEPT !.data[l] = frame, !.req[l] = FALSE]
  <1>1. /\ r \in States /\ SameRest(r, s) /\ r.pending = s.pending
        /\ r.data = [s.data EXCEPT ![l] = frame] /\ r.req = [s.req EXCEPT ![l] = FALSE]
    BY DEF States, SameRest
  <1>2. t = AddPending(r, Reader(l))
    BY DEF Write
  <1>. HIDE DEF r
  <1>. QED  BY <1>1, <1>2, AddPendingIs, NamesAre DEF SameRest

\* What is taken is gone from the connection.
LEMMA TakeIs ==
  ASSUME NEW s \in States, NEW l \in Links, NEW t, t = Take(s, l)
  PROVE /\ t \in States /\ SameRest(t, s) /\ t.pending = s.pending
        /\ t.data = [s.data EXCEPT ![l] = Nothing] /\ t.req = s.req
  BY FramesAre DEF Take, States, SameRest

\* A frame has moved.
Moved(t, s, dst, src) ==
  /\ s.req[dst] /\ s.data[src] # Nothing
  /\ t.data = [s.data EXCEPT ![src] = Nothing, ![dst] = s.data[src]]
  /\ t.req = [s.req EXCEPT ![dst] = FALSE]

\* A frame has been asked for, or nothing was done.
Asked(t, s, src) ==
  /\ t.data = s.data
  /\ t.req # s.req => s.data[src] = Nothing /\ t.req = [s.req EXCEPT ![src] = TRUE]

\* mp_pin_transfer_data moves a frame, or asks for one, or does nothing.
LEMMA TransferIs ==
  ASSUME NEW s \in States, NEW dst \in Links, NEW src \in Links, NEW t,
         t = Transfer(s, dst, src)
  PROVE /\ t \in States /\ SameRest(t, s)
        /\ IsInjective(s.pending) => IsInjective(t.pending)
        /\ Moved(t, s, dst, src) \/ Asked(t, s, src)
        /\ ~s.req[dst] => t = s
  <1>. DEFINE r == Request(s, src)
              k == Take(r, src)
  <1>1. /\ r \in States /\ r.data = s.data /\ SameRest(r, s)
        /\ r.req = IF s.data[src] # Nothing THEN s.req ELSE [s.req EXCEPT ![src] = TRUE]
        /\ IsInjective(s.pending) => IsInjective(r.pending)
    BY RequestIs
  <1>2. CASE ~s.req[dst]
    BY <1>2 DEF Transfer, Asked, SameRest
  <1>3. CASE s.req[dst] /\ s.data[src] = Nothing
    BY <1>1, <1>3 DEF Transfer, Asked, HasData
  <1>4. CASE s.req[dst] /\ s.data[src] # Nothing
    <2>1. t = Write(k, dst, s.data[src])
      BY <1>1, <1>4 DEF Transfer, HasData
    <2>2. /\ k \in States /\ SameRest(k, r) /\ k.pending = r.pending
          /\ k.data = [s.data EXCEPT ![src] = Nothing] /\ k.req = s.req
      BY <1>1, <1>4, TakeIs
    <2>3. s.data[src] \in Frames
      BY DEF States
    <2>4. /\ t \in States /\ SameRest(t, k)
          /\ t.data = [k.data EXCEPT ![dst] = s.data[src]]
          /\ t.req = [k.req EXCEPT ![dst] = FALSE]
          /\ IsInjective(k.pending) => IsInjective(t.pending)
      <3>. HIDE DEF k
      <3>. QED  BY <2>1, <2>2, <2>3, WritingIs
    <2>. HIDE DEF r, k
    <2>. QED  BY <1>1, <1>4, <2>2, <2>4 DEF Moved, SameRest
  <1>. QED BY <1>2, <1>3, <1>4

\* The connections of the decoder and its wrapper
DecoderLinks == {"to_decoder", "frames", "packets"}

\* Two states in which these are the same.
SameDecoder(t, s) ==
  SameRest(t, s) /\ \A l \in DecoderLinks : t.data[l] = s.data[l] /\ t.req[l] = s.req[l]

\* The decoder and its wrapper only see their own connections.
LEMMA DecoderKept ==
  ASSUME NEW s, NEW t, SameDecoder(t, s), Decoding(s), Draining(s)
  PROVE  /\ Decoding(t) /\ Draining(t)
         /\ ToDecode(t) = ToDecode(s) /\ Ends(t, t.data["frames"]) = Ends(s, s.data["frames"])
  <1>. USE DEF SameDecoder, SameRest, DecoderLinks
  <1>1. Decoding(t)
    BY DEF Decoding
  <1>2. Draining(t)
    BY DEF Draining, Ended, LastWasEof, Plain
  <1>3. ToDecode(t) = ToDecode(s) /\ Ends(t, t.data["frames"]) = Ends(s, s.data["frames"])
    BY DEF ToDecode, Ends
  <1>. QED  BY <1>1, <1>2, <1>3

\* Which link may pass its frame on to which
Passes(s, dst, src) ==
  \/ dst = "in" /\ src = "decoded"
  \/ dst = "chain" /\ src = "out"
  \/ dst = "to_filter" /\ src = "in" /\ ~s.failed /\ ~s.disabled
  \/ dst = "out" /\ src = "from_filter" /\ ~s.failed /\ ~s.disabled
  \/ dst = "out" /\ src = "in" /\ s.disabled /\ role = "user"
  \/ dst = "from_filter" /\ src = "to_filter"

\* A frame that moves on to the next connection stays where it was in the order.
LEMMA TransferKeeps ==
  ASSUME NEW s, GraphInv(s), NEW dst, NEW src, Passes(s, dst, src)
  PROVE  GraphInv(Transfer(s, dst, src)) /\ SameRest(Transfer(s, dst, src), s)
  <1>. DEFINE t == Transfer(s, dst, src)
  <1>1. s \in States /\ dst \in Links /\ src \in Links /\ dst # src
    BY DEF GraphInv, Passes, Links
  <1>2. /\ t \in States /\ SameRest(t, s)
        /\ IsInjective(s.pending) => IsInjective(t.pending)
        /\ Moved(t, s, dst, src) \/ Asked(t, s, src)
        /\ ~s.req[dst] => t = s
    BY <1>1, TransferIs
  <1>. HIDE DEF t
  <1>3. SameDecoder(t, s)
    BY <1>1, <1>2 DEF SameDecoder, DecoderLinks, Passes, Moved, Asked, States, Links
  <1>4. /\ Decoding(t) /\ Draining(t)
        /\ ToDecode(t) = ToDecode(s) /\ Ends(t, t.data["frames"]) = Ends(s, s.data["frames"])
    BY <1>3, DecoderKept DEF GraphInv
  <1>5. Protocol(t)
    BY <1>1, <1>2 DEF GraphInv, Protocol, Moved, Asked, States
  <1>6. Failing(t)
    BY <1>1, <1>2 DEF GraphInv, Failing, Moved, Asked, States, Passes, SameRest, Links
  <1>7. InFlight(t) = InFlight(s)
    <2>1. CASE Asked(t, s, src)
      BY <1>2, <1>4, <2>1 DEF InFlight, Asked, SameRest
    <2>2. CASE Moved(t, s, dst, src)
      <3>1. s.data[dst] = Nothing
        BY <1>1, <2>2 DEF GraphInv, Protocol, Moved
      <3>. DEFINE rest(x) == Ahead(Ends(x, x.data["frames"]), x.decoding \o ToDecode(x))
                  flight(x) == Ahead(x.data["chain"], Ahead(x.data["out"],
                    Ahead(x.data["from_filter"], Ahead(x.data["to_filter"],
                      Ahead(x.data["in"], Ahead(x.data["decoded"], rest(x)))))))
      <3>0. rest(t) = rest(s)
        BY <1>2, <1>4 DEF SameRest
      <3>8. \A l \in Links : t.data[l] = IF l = dst THEN s.data[src]
                                         ELSE IF l = src THEN Nothing ELSE s.data[l]
        BY <1>1, <2>2 DEF Moved, States
      <3>9. InFlight(s) = flight(s) /\ InFlight(t) = flight(t)
        BY DEF InFlight
      <3>. HIDE DEF rest
      <3>. USE <3>0, <3>1, <3>8 DEF Ahead, Links
      <3>2. ASSUME dst = "in", src = "decoded"
            PROVE  flight(t) = flight(s)
        BY <3>2
      <3>3. ASSUME dst = "chain", src = "out"
            PROVE  flight(t) = flight(s)
        BY <3>3
      <3>4. ASSUME dst = "to_filter", src = "in"
            PROVE  flight(t) = flight(s)
        BY <3>4
      <3>5. ASSUME dst = "out", src = "from_filter"
            PROVE  flight(t) = flight(s)
        BY <3>5
      <3>6. ASSUME dst = "out", src = "in", s.disabled, role = "user"
            PROVE  flight(t) = flight(s)
        BY <3>6 DEF GraphInv, Failing
      <3>7. ASSUME dst = "from_filter", src = "to_filter"
            PROVE  flight(t) = flight(s)
        BY <3>7
      <3>. HIDE DEF flight
      <3>. QED  BY <3>9, <3>2, <3>3, <3>4, <3>5, <3>6, <3>7 DEF Passes
    <2>. QED  BY <1>2, <2>1, <2>2
  <1>. QED  BY <1>2, <1>4, <1>5, <1>6, <1>7 DEF t, GraphInv, SameRest

\* Which filters are to be run, and in what order, is of no importance to the rest.
LEMMA PendingOnly ==
  ASSUME NEW s, GraphInv(s), NEW t \in States, t.data = s.data, t.req = s.req, SameRest(t, s),
         IsInjective(t.pending)
  PROVE  GraphInv(t)
  <1>1. Decoding(t) /\ Draining(t) /\ ToDecode(t) = ToDecode(s)
        /\ Ends(t, t.data["frames"]) = Ends(s, s.data["frames"])
    BY DecoderKept DEF SameDecoder, DecoderLinks, GraphInv
  <1>2. Protocol(t) /\ Failing(t) /\ InFlight(t) = InFlight(s)
    BY <1>1 DEF GraphInv, Protocol, Failing, InFlight, SameRest
  <1>. QED  BY <1>1, <1>2 DEF GraphInv, SameRest

\* A filter is marked.
LEMMA AddPendingKeeps ==
  ASSUME NEW s, GraphInv(s), NEW f \in Filters
  PROVE  GraphInv(AddPending(s, f))
  BY AddPendingIs, PendingOnly DEF GraphInv

\* A filter asks for a frame, the decoder for a packet only where it can take one.
LEMMA RequestKeeps ==
  ASSUME NEW s, GraphInv(s), NEW l \in Links,
         l = "to_decoder" => s.req["frames"] /\ ~s.draining /\ Len(s.decoding) <= Delay,
         l \in {"to_filter", "from_filter"} => ~s.disabled
  PROVE  GraphInv(Request(s, l))
  <1>. DEFINE t == Request(s, l)
  <1>1. /\ t \in States /\ t.data = s.data /\ SameRest(t, s)
        /\ t.req = IF s.data[l] # Nothing THEN s.req ELSE [s.req EXCEPT ![l] = TRUE]
        /\ IsInjective(t.pending)
    BY RequestIs DEF GraphInv
  <1>. HIDE DEF t
  <1>2. \A k \in Links : t.req[k] <=> s.req[k] \/ (k = l /\ s.data[l] = Nothing)
    BY <1>1 DEF GraphInv, States
  <1>3. Protocol(t)
    BY <1>1, <1>2 DEF GraphInv, Protocol
  <1>4. Decoding(t)
    <2>1. t.req["to_decoder"] /\ ~s.req["to_decoder"] =>
            s.new_segment = Nothing /\ s.req["frames"] /\ ~s.draining /\ Len(s.decoding) <= Delay
      BY <1>2, FramesAre DEF GraphInv, Decoding, Protocol, Links
    <2>2. s.req["frames"] => t.req["frames"]
      BY <1>2 DEF Links
    <2>. QED  BY <1>1, <2>1, <2>2 DEF GraphInv, Decoding, SameRest
  <1>5. Draining(t)
    BY <1>1 DEF GraphInv, Draining, Ended, LastWasEof, Plain, SameRest
  <1>6. Failing(t)
    BY <1>1, <1>2 DEF GraphInv, Failing, SameRest, Links
  <1>7. InFlight(t) = InFlight(s)
    BY <1>1 DEF InFlight, ToDecode, Ends, SameRest
  <1>. QED  BY <1>1, <1>3, <1>4, <1>5, <1>6, <1>7 DEF t, GraphInv, SameRest

\* feed_packet: the wrapper takes a packet, when it has none and no segment is to start.
LEMMA FeedTakes ==
  ASSUME NEW s, GraphInv(s), s.packet = Nothing, s.new_segment = Nothing, NEW r,
         r = [Take(Request(s, "packets"), "packets")
                EXCEPT !.packet = Request(s, "packets").data["packets"]]
  PROVE  GraphInv(r) /\ r.req["to_decoder"] = s.req["to_decoder"]
  <1>. DEFINE q == Request(s, "packets")
              k == Take(q, "packets")
              p == q.data["packets"]
  <1>1. /\ GraphInv(q) /\ q.data = s.data /\ SameRest(q, s)
        /\ q.req["to_decoder"] = s.req["to_decoder"] /\ "packets" \in Links
    <2>1. "packets" \in Links /\ "to_decoder" \in Links /\ s \in States
      BY DEF Links, GraphInv
    <2>2. GraphInv(q)
      BY <2>1, RequestKeeps
    <2>3. /\ q.data = s.data /\ SameRest(q, s)
          /\ q.req = IF s.data["packets"] # Nothing THEN s.req
                     ELSE [s.req EXCEPT !["packets"] = TRUE]
      BY <2>1, RequestIs
    <2>. HIDE DEF q
    <2>. QED  BY <2>1, <2>2, <2>3 DEF States
  <1>2. /\ k \in States /\ SameRest(k, q) /\ k.pending = q.pending
        /\ k.data = [q.data EXCEPT !["packets"] = Nothing] /\ k.req = q.req
    BY <1>1, TakeIs DEF GraphInv
  <1>3. p \in Frames
    BY <1>1 DEF GraphInv, States
  <1>4. /\ r \in States /\ r.data = k.data /\ r.req = k.req /\ r.packet = p
        /\ r.pending = k.pending
        /\ SameRest([r EXCEPT !.packet = Nothing], [k EXCEPT !.packet = Nothing])
    <2>. HIDE DEF k, p
    <2>1. r = [k EXCEPT !.packet = p]
      BY DEF k, p
    <2>. QED  BY <2>1, <1>2, <1>3 DEF States, SameRest
  <1>. HIDE DEF q, k, p
  <1>5. /\ r.new_segment = Nothing /\ r.decoding = q.decoding /\ r.draining = q.draining
        /\ r.eof_flag = q.eof_flag /\ r.eof_returned = q.eof_returned /\ r.failed = q.failed
        /\ r.disabled = q.disabled /\ r.failed_conversion = q.failed_conversion
        /\ q.new_segment = Nothing /\ q.packet = Nothing
    BY <1>1, <1>2, <1>4 DEF SameRest, States
  <1>6. /\ p = q.data["packets"]
        /\ \A l \in Links : r.data[l] = IF l = "packets" THEN Nothing ELSE q.data[l]
    BY <1>1, <1>2, <1>4 DEF States, GraphInv, p
  <1>. USE <1>1, <1>2, <1>4, <1>5, <1>6 DEF GraphInv
  <1>7. Protocol(r)
    BY DEF Protocol
  <1>8. Decoding(r)
    BY DEF Decoding, Links
  <1>9. Draining(r)
    <2>1. /\ r.data["to_decoder"] = q.data["to_decoder"] /\ r.data["packets"] = Nothing
          /\ r.packet = q.data["packets"]
      BY DEF Links
    <2>2. Ended(r) = Ended(q)
      BY <2>1 DEF Ended
    <2>3. Eof # Nothing /\ ~Plain(Nothing)
      BY FramesAre DEF Plain, Nothing
    <2>. QED  BY <2>1, <2>2, <2>3 DEF Draining, LastWasEof
  <1>10. Failing(r)
    BY DEF Failing, Links
  <1>11. InFlight(r) = InFlight(q)
    <2>1. ToDecode(r) = ToDecode(q)
      BY DEF ToDecode, Ends, Links, Ahead
    <2>2. Ends(r, r.data["frames"]) = Ends(q, q.data["frames"])
      BY DEF Ends, Links
    <2>. QED  BY <2>1, <2>2 DEF InFlight, Links
  <1>. QED  BY <1>7, <1>8, <1>9, <1>10, <1>11

\* feed_packet: the decoder gets the packet or, before a new segment, an end to drain it.
LEMMA FeedGives ==
  ASSUME NEW r, GraphInv(r), r.req["to_decoder"], r.packet # Nothing, NEW t,
         t = LET new == IsNewSegment(r, r.packet)
                 n == [r EXCEPT !.new_segment = IF new THEN r.packet ELSE @]
             IN [Write(n, "to_decoder", IF new THEN Eof ELSE r.packet)
                   EXCEPT !.packet = Nothing]
  PROVE  GraphInv(t)
  <1>. DEFINE new == IsNewSegment(r, r.packet)
              m == IF new THEN r.packet ELSE r.new_segment
              n == [r EXCEPT !.new_segment = m]
              f == IF new THEN Eof ELSE r.packet
              w == Write(n, "to_decoder", f)
  <1>1. /\ r.new_segment = Nothing /\ r.req["frames"] /\ ~r.draining /\ Len(r.decoding) <= Delay
        /\ r.data["to_decoder"] = Nothing /\ r.data["frames"] = Nothing
        /\ r \in States /\ "to_decoder" \in Links /\ "frames" \in Links
    BY DEF GraphInv, Protocol, Decoding, Links
  <1>2. new => r.packet \in 1..Packets /\ segment[r.packet] # 0
    BY DEF IsNewSegment
  <1>3. m \in 0..Packets /\ f \in Frames /\ f # Nothing /\ (f = Eof <=> new \/ r.packet = Eof)
        /\ (m = IF new THEN r.packet ELSE Nothing)
    BY <1>1, <1>2, FramesAre, GraphAssumption DEF States, Frames, Nothing
  <1>4. n \in States /\ n.pending = r.pending /\ n.data = r.data /\ n.req = r.req
        /\ n.new_segment = m /\ n.packet = r.packet /\ n.start = r.start
        /\ n.decoding = r.decoding /\ n.draining = r.draining /\ n.eof_flag = r.eof_flag
        /\ n.eof_returned = r.eof_returned /\ n.failed = r.failed /\ n.disabled = r.disabled
        /\ n.failed_conversion = r.failed_conversion
    <2>. HIDE DEF m
    <2>. QED  BY <1>1, <1>3 DEF States
  <1>5. /\ w \in States /\ SameRest(w, n) /\ w.data = [n.data EXCEPT !["to_decoder"] = f]
        /\ w.req = [n.req EXCEPT !["to_decoder"] = FALSE] /\ IsInjective(w.pending)
    <2>. HIDE DEF n, f
    <2>. QED  BY <1>1, <1>3, <1>4, WritingIs DEF GraphInv
  <1>6. t = [w EXCEPT !.packet = Nothing]
    OBVIOUS
  <1>16. f = IF new THEN Eof ELSE r.packet
    OBVIOUS
  <1>. HIDE DEF new, m, n, f, w
  <1>7. /\ t \in States /\ t.packet = Nothing /\ t.pending = w.pending /\ t.data = w.data
        /\ t.req = w.req /\ t.new_segment = m /\ t.decoding = r.decoding /\ t.draining = r.draining
        /\ t.eof_flag = r.eof_flag /\ t.eof_returned = r.eof_returned /\ t.failed = r.failed
        /\ t.disabled = r.disabled /\ t.failed_conversion = r.failed_conversion
    <2>1. /\ t \in States /\ t.packet = Nothing /\ t.pending = w.pending /\ t.data = w.data
          /\ t.req = w.req /\ t.new_segment = w.new_segment /\ t.decoding = w.decoding
          /\ t.draining = w.draining /\ t.eof_flag = w.eof_flag
          /\ t.eof_returned = w.eof_returned /\ t.failed = w.failed
          /\ t.disabled = w.disabled /\ t.failed_conversion = w.failed_conversion
      <3>1. w \in States /\ Nothing \in Frames
        BY <1>5, FramesAre
      <3>. QED  BY ONLY <3>1, <1>6 DEF States
    <2>. QED  BY <2>1, <1>4, <1>5 DEF SameRest
  <1>8. \A l \in Links : /\ t.data[l] = IF l = "to_decoder" THEN f ELSE r.data[l]
                         /\ t.req[l] <=> l # "to_decoder" /\ r.req[l]
    BY <1>1, <1>4, <1>5, <1>7 DEF States
  <1>. USE <1>1, <1>3, <1>7, <1>8 DEF GraphInv
  <1>9. Protocol(t)
    BY DEF Protocol
  <1>10. Decoding(t)
    BY FramesAre DEF Decoding, Links
  <1>11. Draining(t)
    <2>1. Eof # Nothing /\ ~Plain(Eof) /\ ~Plain(Nothing) /\ (new => ~Plain(r.packet))
      BY <1>2, FramesAre, GraphAssumption DEF Plain, Nothing, Eof
    <2>2. r.eof_flag /\ r.decoding = <<>> => Plain(r.packet)
      BY DEF Draining, Ended
    <2>3. t.data["packets"] = r.data["packets"] /\ t.data["to_decoder"] = f
      BY DEF Links
    <2>4. Ended(t) <=> f = Eof
      BY <2>3 DEF Ended
    <2>5. LastWasEof(t) => LastWasEof(r)
      BY <2>1, <2>3, <2>4 DEF LastWasEof
    <2>6. r.eof_flag /\ r.decoding = <<>> => f # Eof
      BY <2>1, <2>2
    <2>. QED  BY <2>1, <2>3, <2>5, <2>6 DEF Draining
  <1>12. Failing(t)
    BY DEF Failing, Links
  <1>13. InFlight(t) = InFlight(r)
    <2>1. t.data["frames"] = Nothing /\ t.data["packets"] = r.data["packets"]
          /\ t.data["to_decoder"] = f
      BY DEF Links
    <2>. DEFINE x == Ahead(r.data["packets"], queue)
    <2>2. ToDecode(r) = Ahead(r.packet, x)
      BY <1>1 DEF ToDecode, Ends, Ahead
    <2>3. ToDecode(t) = Ahead(Ends(t, f), Ahead(m, x))
      BY <1>1, <1>7, <2>1 DEF ToDecode, Ends, Ahead
    <2>. HIDE DEF x
    <2>4. Ahead(Ends(t, f), Ahead(m, x)) = Ahead(r.packet, x)
      BY ONLY <1>3, <1>7, FramesAre, r.packet # Nothing, <1>16
         DEF Ends, Ahead
    <2>5. ToDecode(t) = ToDecode(r)
      BY <2>2, <2>3, <2>4
    <2>6. Ahead(Ends(t, t.data["frames"]), t.decoding \o ToDecode(t))
            = Ahead(Ends(r, r.data["frames"]), r.decoding \o ToDecode(r))
      <3>1. Ends(t, t.data["frames"]) = Nothing /\ Ends(r, r.data["frames"]) = Nothing
        BY <1>1, <2>1 DEF Ends
      <3>. QED  BY ONLY <3>1, <1>7, <2>5 DEF Ahead
    <2>7. \A l \in {"chain", "out", "from_filter", "to_filter", "in", "decoded"} :
            t.data[l] = r.data[l]
      BY ONLY <1>8 DEF Links
    <2>. QED  BY ONLY <2>6, <2>7 DEF InFlight
  <1>. QED  BY <1>5, <1>9, <1>10, <1>11, <1>12, <1>13

\* feed_packet, as a whole.
LEMMA FeedPacketKeeps ==
  ASSUME NEW s, GraphInv(s)
  PROVE  GraphInv(FeedPacket(s))
  <1>. DEFINE q == Request(s, "packets")
              k == [Take(q, "packets") EXCEPT !.packet = q.data["packets"]]
              r == IF s.packet = Nothing /\ s.new_segment = Nothing THEN k ELSE s
              new == IsNewSegment(r, r.packet)
              n == [r EXCEPT !.new_segment = IF new THEN r.packet ELSE @]
              t == [Write(n, "to_decoder", IF new THEN Eof ELSE r.packet)
                     EXCEPT !.packet = Nothing]
  <1>1. CASE ~s.req["to_decoder"]
    BY <1>1 DEF FeedPacket
  <1>2. CASE s.req["to_decoder"]
    <2>1. FeedPacket(s) = IF r.packet = Nothing THEN r ELSE t
      BY <1>2 DEF FeedPacket
    <2>2. GraphInv(r) /\ r.req["to_decoder"]
      <3>1. CASE s.packet = Nothing /\ s.new_segment = Nothing
        <4>1. GraphInv(k) /\ k.req["to_decoder"] = s.req["to_decoder"]
          BY <3>1, FeedTakes
        <4>. HIDE DEF k
        <4>. QED  BY <1>2, <3>1, <4>1
      <3>2. CASE ~(s.packet = Nothing /\ s.new_segment = Nothing)
        BY <1>2, <3>2
      <3>. QED  BY <3>1, <3>2
    <2>. HIDE DEF r
    <2>3. r.packet # Nothing => GraphInv(t)
      BY <2>2, FeedGives
    <2>. QED  BY <2>1, <2>2, <2>3
  <1>. QED  BY <1>1, <1>2

\* read_frame: a frame is passed on, and an end that is one of the file.
LEMMA ReadsFrame ==
  ASSUME NEW q, GraphInv(q), q.req["decoded"], NEW frame, frame = q.data["frames"],
         frame # Nothing, frame = Eof => q.new_segment = Nothing
  PROVE  GraphInv(Write(Take(q, "frames"), "decoded", frame))
  <1>. DEFINE k == Take(q, "frames")
              t == Write(k, "decoded", frame)
  <1>1. /\ q \in States /\ "frames" \in Links /\ "decoded" \in Links
        /\ q.data["decoded"] = Nothing /\ ~q.req["frames"]
    BY DEF GraphInv, Protocol, Links
  <1>2. frame \in Frames
    BY <1>1 DEF States
  <1>3. /\ k \in States /\ SameRest(k, q) /\ k.pending = q.pending
        /\ k.data = [q.data EXCEPT !["frames"] = Nothing] /\ k.req = q.req
    BY <1>1, TakeIs
  <1>. HIDE DEF k
  <1>4. /\ t \in States /\ SameRest(t, k)
        /\ t.data = [k.data EXCEPT !["decoded"] = frame]
        /\ t.req = [k.req EXCEPT !["decoded"] = FALSE]
        /\ IsInjective(t.pending)
    BY <1>1, <1>2, <1>3, WritingIs DEF GraphInv
  <1>. HIDE DEF t
  <1>5. SameRest(t, q)
    BY <1>3, <1>4 DEF SameRest
  <1>6. \A l \in Links :
          /\ t.data[l] = IF l = "decoded" THEN frame ELSE IF l = "frames" THEN Nothing
                         ELSE q.data[l]
          /\ t.req[l] <=> l # "decoded" /\ q.req[l]
    BY <1>1, <1>3, <1>4 DEF States
  <1>7. Protocol(t)
    BY <1>1, <1>6 DEF GraphInv, Protocol
  <1>8. /\ t.data["frames"] = Nothing /\ t.data["to_decoder"] = q.data["to_decoder"]
        /\ t.data["packets"] = q.data["packets"]
        /\ (t.req["to_decoder"] <=> q.req["to_decoder"])
        /\ (t.req["frames"] <=> q.req["frames"])
    BY <1>6 DEF Links
  <1>9. Decoding(t)
    BY <1>1, <1>5, <1>8, FramesAre DEF GraphInv, Decoding, SameRest
  <1>10. Draining(t)
    BY <1>5, <1>8 DEF GraphInv, Draining, Ended, LastWasEof, Plain, SameRest
  <1>11. Failing(t)
    BY <1>5, <1>6 DEF GraphInv, Failing, SameRest, Links
  <1>12. InFlight(t) = InFlight(q)
    <2>1. ToDecode(t) = ToDecode(q)
      BY <1>5, <1>8 DEF ToDecode, Ends, SameRest
    <2>2. Ends(t, Nothing) = Nothing /\ Ends(q, frame) = frame
      BY DEF Ends
    <2>3. Ahead(frame, Ahead(Nothing, t.decoding \o ToDecode(t)))
            = Ahead(Nothing, Ahead(frame, q.decoding \o ToDecode(q)))
      BY ONLY <1>5, <2>1, frame # Nothing DEF Ahead, SameRest
    <2>4. \A l \in {"chain", "out", "from_filter", "to_filter", "in"} :
            t.data[l] = q.data[l]
      BY <1>6 DEF Links
    <2>5. t.data["decoded"] = frame /\ t.data["frames"] = Nothing /\ q.data["decoded"] = Nothing
      BY <1>1, <1>6
    <2>. QED  BY ONLY <2>2, <2>3, <2>4, <2>5, frame = q.data["frames"] DEF InFlight
  <1>. QED  BY <1>4, <1>5, <1>7, <1>9, <1>10, <1>11, <1>12 DEF t, k, GraphInv, SameRest

\* A decoder that has been reset, for the segment of a packet.
Restarted(s, p, n) == [ResetDecoder(s) EXCEPT !.packet = p, !.start = n]

\* What a reset of the decoder leaves, when its wrapper has a packet for it.
LEMMA ResetIs ==
  ASSUME NEW s \in States, NEW p \in 0..Packets, NEW n \in Nat, NEW t,
         t = Restarted(s, p, n)
  PROVE  /\ t \in States /\ t.pending = s.pending /\ t.packet = p /\ t.new_segment = Nothing
         /\ t.decoding = <<>> /\ ~t.draining /\ ~t.eof_flag
         /\ t.eof_returned = s.eof_returned /\ t.failed = s.failed /\ t.disabled = s.disabled
         /\ t.failed_conversion = s.failed_conversion
         /\ \A l \in Links :
              /\ t.data[l] = IF l \in {"to_decoder", "frames"} THEN Nothing ELSE s.data[l]
              /\ t.req[l] <=> l \notin {"to_decoder", "frames"} /\ s.req[l]
  <1>. DEFINE ls == {"to_decoder", "frames"}
              d == [l \in Links |-> IF l \in ls THEN Nothing ELSE s.data[l]]
              r == [l \in Links |-> l \notin ls /\ s.req[l]]
  <1>1. d \in [Links -> Frames] /\ r \in [Links -> BOOLEAN] /\ p \in Frames
        /\ Nothing \in 0..Packets /\ Nothing \in Frames /\ <<>> \in Seq(1..Packets) /\ 0 \in Nat
    BY FramesAre, GraphAssumption DEF States, Frames, Eof, Nothing
  <1>2. t = [[[s EXCEPT !.data = d, !.req = r]
               EXCEPT !.packet = Nothing, !.new_segment = Nothing, !.start = 0,
                      !.decoding = <<>>, !.draining = FALSE, !.eof_flag = FALSE]
               EXCEPT !.packet = p, !.start = n]
    BY DEF Restarted, ResetDecoder, Clear
  <1>3. /\ t \in States /\ t.pending = s.pending /\ t.packet = p /\ t.new_segment = Nothing
        /\ t.decoding = <<>> /\ ~t.draining /\ ~t.eof_flag
        /\ t.eof_returned = s.eof_returned /\ t.failed = s.failed /\ t.disabled = s.disabled
        /\ t.failed_conversion = s.failed_conversion /\ t.data = d /\ t.req = r
    <2>. HIDE DEF d, r
    <2>. QED  BY ONLY s \in States, n \in Nat, p \in 0..Packets, <1>1, <1>2 DEF States
  <1>4. \A l \in Links : /\ d[l] = IF l \in ls THEN Nothing ELSE s.data[l]
                         /\ r[l] <=> l \notin ls /\ s.req[l]
    OBVIOUS
  <1>. QED  BY <1>3, <1>4

\* read_frame: the decoder has been drained, and its new segment starts with the packet that
\* was kept back.
LEMMA StartsSegment ==
  ASSUME NEW q, GraphInv(q), q.data["frames"] = Eof, q.new_segment # Nothing,
         segment \in [1..Packets -> Nat]
  PROVE  LET k == Take(q, "frames")
         IN GraphInv([ResetDecoder(k) EXCEPT !.packet = k.new_segment,
                                             !.start = segment[k.new_segment]])
  <1>. DEFINE k == Take(q, "frames")
              p == k.new_segment
              n == segment[p]
              t == [ResetDecoder(k) EXCEPT !.packet = p, !.start = n]
  <1>1. /\ q \in States /\ "frames" \in Links /\ Eof # Nothing
        /\ ~q.req["frames"] /\ ~q.req["to_decoder"] /\ q.data["to_decoder"] = Nothing
        /\ ~q.draining /\ q.decoding = <<>> /\ q.packet = Nothing
    BY FramesAre DEF GraphInv, Protocol, Decoding, Links
  <1>2. /\ k \in States /\ SameRest(k, q) /\ k.pending = q.pending
        /\ k.data = [q.data EXCEPT !["frames"] = Nothing] /\ k.req = q.req
    BY <1>1, TakeIs
  <1>3. p = q.new_segment /\ p \in 0..Packets /\ p # Nothing /\ p # Eof /\ n \in Nat
    BY <1>1, <1>2, GraphAssumption DEF SameRest, States, Nothing, Eof
  <1>4. /\ t \in States /\ t.pending = k.pending /\ t.packet = p /\ t.new_segment = Nothing
         /\ t.decoding = <<>> /\ ~t.draining /\ ~t.eof_flag
         /\ t.eof_returned = k.eof_returned /\ t.failed = k.failed /\ t.disabled = k.disabled
         /\ t.failed_conversion = k.failed_conversion
         /\ \A l \in Links :
              /\ t.data[l] = IF l \in {"to_decoder", "frames"} THEN Nothing ELSE k.data[l]
              /\ t.req[l] <=> l \notin {"to_decoder", "frames"} /\ k.req[l]
    <2>1. t = Restarted(k, p, n)
      BY DEF Restarted
    <2>. HIDE DEF k, p, n, t
    <2>2. k \in States /\ p \in 0..Packets /\ n \in Nat
      BY <1>2, <1>3
    <2>. QED  BY <2>1, <2>2, ResetIs
  <1>. HIDE DEF k, p, n, t
  <1>5. /\ t.eof_returned = q.eof_returned /\ t.failed = q.failed /\ t.disabled = q.disabled
        /\ t.failed_conversion = q.failed_conversion
        /\ \A l \in Links :
              /\ t.data[l] = IF l = "frames" THEN Nothing ELSE q.data[l]
              /\ t.req[l] <=> q.req[l]
    BY <1>1, <1>2, <1>4 DEF SameRest, States
  <1>6. Protocol(t)
    BY <1>5 DEF GraphInv, Protocol
  <1>7. /\ t.data["frames"] = Nothing /\ t.data["to_decoder"] = Nothing
        /\ t.data["packets"] = q.data["packets"] /\ ~t.req["to_decoder"]
    BY <1>1, <1>5 DEF Links
  <1>8. Decoding(t)
    BY <1>1, <1>4, <1>7 DEF Decoding
  <1>9. Draining(t)
    BY <1>1, <1>3, <1>4, <1>5, <1>7 DEF GraphInv, Draining, Ended, LastWasEof
  <1>10. Failing(t)
    BY <1>5 DEF GraphInv, Failing, Links
  <1>11. InFlight(t) = InFlight(q)
    <2>1. ToDecode(t) = Ahead(p, Ahead(q.data["packets"], queue))
      BY <1>1, <1>4, <1>7 DEF ToDecode, Ends, Ahead
    <2>2. ToDecode(q) = Ahead(p, Ahead(q.data["packets"], queue))
      BY <1>1, <1>3 DEF ToDecode, Ends, Ahead
    <2>3. Ends(t, t.data["frames"]) = Nothing /\ Ends(q, q.data["frames"]) = Nothing
      BY <1>4, <1>7 DEF Ends
    <2>4. \A l \in {"chain", "out", "from_filter", "to_filter", "in", "decoded"} :
            t.data[l] = q.data[l]
      BY <1>5 DEF Links
    <2>. QED  BY ONLY <1>1, <1>4, <2>1, <2>2, <2>3, <2>4 DEF InFlight
  <1>12. GraphInv(t)
    BY <1>2, <1>4, <1>5, <1>6, <1>8, <1>9, <1>10, <1>11 DEF GraphInv
  <1>. QED  BY <1>12 DEF t, k, p, n

\* read_frame, as a whole.
LEMMA ReadFrameKeeps ==
  ASSUME NEW s, GraphInv(s), segment \in [1..Packets -> Nat]
  PROVE  GraphInv(ReadFrame(s))
  <1>. DEFINE q == Request(s, "frames")
              frame == q.data["frames"]
              k == Take(q, "frames")
              started == [ResetDecoder(k) EXCEPT !.packet = k.new_segment,
                                              !.start = segment[k.new_segment]]
  <1>1. CASE ~s.req["decoded"]
    BY <1>1 DEF ReadFrame
  <1>2. CASE s.req["decoded"]
    <2>1. s \in States /\ "frames" \in Links /\ "decoded" \in Links
      BY DEF GraphInv, Links
    <2>2. GraphInv(q) /\ q.req["decoded"] /\ SameRest(q, s)
      <3>1. GraphInv(q)
        BY <2>1, RequestKeeps
      <3>2. /\ SameRest(q, s)
            /\ q.req = IF s.data["frames"] # Nothing THEN s.req
                       ELSE [s.req EXCEPT !["frames"] = TRUE]
        BY <2>1, RequestIs
      <3>. HIDE DEF q
      <3>. QED  BY <1>2, <2>1, <3>1, <3>2 DEF States
    <2>3. ReadFrame(s) = IF frame = Nothing THEN q
            ELSE IF frame = Eof /\ k.new_segment # Nothing THEN AddPending(started, "wrapper")
            ELSE Write(k, "decoded", frame)
      BY <1>2 DEF ReadFrame
    <2>4. k.new_segment = q.new_segment
      <3>. HIDE DEF q
      <3>. QED  BY <2>1, <2>2, TakeIs DEF SameRest, GraphInv
    <2>5. frame # Nothing /\ ~(frame = Eof /\ k.new_segment # Nothing)
            => GraphInv(Write(k, "decoded", frame))
      <3>. HIDE DEF q
      <3>. QED  BY <2>2, <2>4, ReadsFrame
    <2>6. frame = Eof /\ k.new_segment # Nothing => GraphInv(AddPending(started, "wrapper"))
      <3>1. frame = Eof /\ k.new_segment # Nothing => GraphInv(started)
        <4>. HIDE DEF q
        <4>. QED  BY <2>2, <2>4, StartsSegment
      <3>. HIDE DEF started
      <3>. QED  BY <3>1, AddPendingKeeps DEF Filters
    <2>. HIDE DEF q, frame, k, started
    <2>. QED  BY <2>2, <2>3, <2>5, <2>6
  <1>. QED  BY <1>1, <1>2

\* Two states that agree on what is around the decoder.
SameOutside(t, s) ==
  /\ t.packet = s.packet /\ t.new_segment = s.new_segment
  /\ t.eof_returned = s.eof_returned /\ t.failed = s.failed /\ t.disabled = s.disabled
  /\ t.failed_conversion = s.failed_conversion

\* A frame in front of frames gives frames.
LEMMA AheadType ==
  ASSUME NEW f \in Frames, NEW x \in Seq(Frames)
  PROVE  Ahead(f, x) \in Seq(Frames)
  BY ConcatProperties DEF Ahead

\* What is yet to be decoded consists of frames.
LEMMA ToDecodeType ==
  ASSUME NEW s \in States, queue \in Seq(1..Packets)
  PROVE  /\ ToDecode(s) \in Seq(Frames)
         /\ Ahead(s.packet, Ahead(s.new_segment, Ahead(s.data["packets"], queue))) \in Seq(Frames)
  <1>1. /\ queue \in Seq(Frames) /\ s.packet \in Frames /\ s.data["packets"] \in Frames
        /\ s.new_segment \in Frames /\ s.data["to_decoder"] \in Frames
    <2>1. /\ s.packet \in Frames /\ s.new_segment \in 0..Packets
          /\ s.data \in [Links -> Frames]
      BY DEF States
    <2>2. "packets" \in Links /\ "to_decoder" \in Links
      BY DEF Links
    <2>3. 1..Packets \subseteq Frames /\ 0..Packets \subseteq Frames
      BY GraphAssumption DEF Frames, Eof
    <2>4. queue \in Seq(Frames)
      BY <2>3, SeqMonotonic
    <2>5. s.data["packets"] \in Frames /\ s.data["to_decoder"] \in Frames
      BY ONLY <2>1, <2>2
    <2>. QED  BY ONLY <2>1, <2>3, <2>4, <2>5
  <1>2. \A f \in Frames : Ends(s, f) \in Frames
    BY FramesAre DEF Ends
  <1>3. Ends(s, IF s.draining THEN Eof ELSE Nothing) \in Frames
    BY <1>2, FramesAre
  <1>. QED  BY <1>1, <1>2, <1>3, AheadType DEF ToDecode

\* Nothing in front
LEMMA EmptyFirst ==
  ASSUME NEW x \in Seq(Frames)
  PROVE  <<>> \o x = x
  BY ConcatProperties

\* The first of some frames in front of others
LEMMA HeadFirst ==
  ASSUME NEW d \in Seq(1..Packets), d # <<>>, NEW x \in Seq(Frames)
  PROVE  <<Head(d)>> \o (Tail(d) \o x) = d \o x
  OBVIOUS

\* lavc_process: the decoder writes a frame that it kept back or, when drained, the end.
LEMMA DecodeWrites ==
  ASSUME NEW s, GraphInv(s), queue \in Seq(1..Packets), s.req["frames"],
         NEW e \in States, NEW f \in Frames, f # Nothing,
         SameOutside(e, s), e.data = s.data, e.req = s.req, e.pending = s.pending,
         f = Eof => /\ s.draining /\ s.decoding = <<>>
                    /\ ~e.draining /\ e.decoding = <<>> /\ e.eof_flag,
         f # Eof => /\ s.decoding # <<>> /\ f = Head(s.decoding) /\ e.decoding = Tail(s.decoding)
                    /\ (e.draining <=> s.draining) /\ ~e.eof_flag
                    /\ s.draining \/ Len(s.decoding) > Delay
  PROVE  GraphInv(Write(e, "frames", f))
  <1>. DEFINE t == Write(e, "frames", f)
  <1>1. /\ s \in States /\ "frames" \in Links /\ s.data["frames"] = Nothing
        /\ s.decoding \in Seq(1..Packets) /\ Len(s.decoding) \in Nat /\ Delay \in Nat
    BY GraphAssumption DEF GraphInv, Protocol, Links, States
  <1>2. /\ t \in States /\ SameRest(t, e)
        /\ t.data = [s.data EXCEPT !["frames"] = f] /\ t.req = [s.req EXCEPT !["frames"] = FALSE]
        /\ IsInjective(t.pending)
    <2>1. e \in States /\ "frames" \in Links /\ f \in Frames /\ t = Write(e, "frames", f)
      BY <1>1
    <2>2. /\ t \in States /\ SameRest(t, e)
          /\ t.data = [e.data EXCEPT !["frames"] = f]
          /\ t.req = [e.req EXCEPT !["frames"] = FALSE]
          /\ IsInjective(e.pending) => IsInjective(t.pending)
      <3>. HIDE DEF t
      <3>. QED  BY <2>1, WritingIs, SMTT(40)
    <2>. QED  BY <2>2 DEF GraphInv
  <1>. HIDE DEF t
  <1>3. SameOutside(t, s) /\ t.decoding = e.decoding /\ (t.draining <=> e.draining)
        /\ (t.eof_flag <=> e.eof_flag)
    BY <1>2 DEF SameOutside, SameRest
  <1>4. \A l \in Links : /\ t.data[l] = IF l = "frames" THEN f ELSE s.data[l]
                         /\ t.req[l] <=> l # "frames" /\ s.req[l]
    BY <1>1, <1>2 DEF States
  <1>5. /\ t.data["frames"] = f /\ ~t.req["frames"]
        /\ t.data["to_decoder"] = s.data["to_decoder"] /\ t.data["packets"] = s.data["packets"]
        /\ (t.req["to_decoder"] <=> s.req["to_decoder"])
    BY <1>4 DEF Links
  <1>6. s.data["to_decoder"] = Nothing /\ ~s.req["to_decoder"]
    BY <1>1, FramesAre DEF GraphInv, Decoding
  <1>7. Protocol(t)
    BY <1>4 DEF GraphInv, Protocol
  <1>8. Decoding(t)
    <2>1. t.new_segment # Nothing => t.draining \/ t.data["frames"] = Eof
      BY <1>1, <1>3, <1>5, <1>6, FramesAre DEF GraphInv, Decoding, SameOutside
    <2>. QED  BY <1>3, <1>5, <1>6, <2>1 DEF GraphInv, Decoding, SameOutside
  <1>9. Draining(t)
    <2>1. Ended(t) => Ended(s)
      BY <1>3, <1>5, <1>6, FramesAre DEF Ended
    <2>2. LastWasEof(t) => LastWasEof(s)
      BY <1>3, <2>1 DEF LastWasEof, SameOutside
    <2>3. t.eof_flag /\ t.decoding = <<>> => ~t.draining
      BY <1>3
    <2>. QED  BY <1>3, <1>5, <1>6, <2>1, <2>2, <2>3, FramesAre
         DEF GraphInv, Draining, SameOutside
  <1>10. Failing(t)
    BY <1>3, <1>4 DEF GraphInv, Failing, SameOutside, Links
  <1>11. InFlight(t) = InFlight(s)
    <2>. DEFINE x == Ahead(s.packet, Ahead(s.new_segment, Ahead(s.data["packets"], queue)))
                c(u) == Ahead(Ends(u, u.data["frames"]), u.decoding \o ToDecode(u))
    <2>1. Ends(s, Nothing) = Nothing /\ Ends(t, Nothing) = Nothing
      BY FramesAre DEF Ends
    <2>2. /\ ToDecode(s) = Ahead(Ends(s, IF s.draining THEN Eof ELSE Nothing), x)
          /\ ToDecode(t) = Ahead(Ends(s, IF t.draining THEN Eof ELSE Nothing), x)
      BY <1>3, <1>5, <1>6, <2>1 DEF ToDecode, Ahead, SameOutside, Ends
    <2>. HIDE DEF x
    <2>3. c(t) = c(s)
      <3>1. CASE f = Eof
        <4>1. Ends(t, Eof) = Ends(s, Eof)
          BY <1>3 DEF Ends, SameOutside
        <4>2. ToDecode(s) = Ahead(Ends(s, Eof), x) /\ ToDecode(t) = x
          BY <1>3, <2>1, <2>2, <3>1 DEF Ahead
        <4>3. x \in Seq(Frames) /\ Ahead(Ends(s, Eof), x) \in Seq(Frames)
          <5>1. x \in Seq(Frames) /\ Ends(s, Eof) \in Frames
            BY <1>1, ToDecodeType, FramesAre DEF x, Ends
          <5>. QED  BY <5>1, AheadType
        <4>4. <<>> \o x = x /\ <<>> \o Ahead(Ends(s, Eof), x) = Ahead(Ends(s, Eof), x)
          BY <4>3, EmptyFirst
        <4>. QED  BY <1>1, <1>3, <1>5, <2>1, <3>1, <4>1, <4>2, <4>4 DEF Ahead
      <3>2. CASE f # Eof
        <4>1. ToDecode(t) = ToDecode(s)
          BY <1>3, <2>2, <3>2
        <4>2. Ends(t, f) = f
          BY <3>2 DEF Ends
        <4>3. <<Head(s.decoding)>> \o (Tail(s.decoding) \o ToDecode(s)) = s.decoding \o ToDecode(s)
          BY <1>1, <3>2, ToDecodeType, HeadFirst
        <4>. QED  BY <1>1, <1>3, <1>5, <2>1, <3>2, <4>1, <4>2, <4>3 DEF Ahead
      <3>. QED  BY <3>1, <3>2
    <2>4. \A l \in {"chain", "out", "from_filter", "to_filter", "in", "decoded"} :
            t.data[l] = s.data[l]
      BY <1>4 DEF Links
    <2>. QED  BY <2>3, <2>4 DEF InFlight
  <1>. QED  BY <1>2, <1>3, <1>7, <1>8, <1>9, <1>10, <1>11 DEF t, GraphInv, SameOutside

\* The frame in the middle belongs to either side.
LEMMA LastFirst ==
  ASSUME NEW d \in Seq(1..Packets), NEW p \in 1..Packets, NEW x \in Seq(Frames)
  PROVE  Append(d, p) \o x = d \o (<<p>> \o x)
  OBVIOUS

\* lavc_process: the decoder takes a packet, or an end and has to be drained.
LEMMA DecodeTakes ==
  ASSUME NEW q, GraphInv(q), queue \in Seq(1..Packets), q.req["frames"], ~q.draining,
         NEW p, p = q.data["to_decoder"], p # Nothing
  PROVE  LET k == Take(q, "to_decoder")
         IN GraphInv([k EXCEPT !.draining = (p = Eof),
                               !.decoding = IF p = Eof THEN @ ELSE Append(@, p)])
  <1>. DEFINE k == Take(q, "to_decoder")
              end == p = Eof
              d == IF end THEN k.decoding ELSE Append(k.decoding, p)
              t == [k EXCEPT !.draining = end, !.decoding = d]
  <1>1. /\ q \in States /\ "to_decoder" \in Links /\ "frames" \in Links
        /\ q.data["frames"] = Nothing /\ ~q.req["to_decoder"] /\ Eof # Nothing
        /\ p \in Frames /\ q.decoding \in Seq(1..Packets)
    BY FramesAre DEF GraphInv, Protocol, Links, States
  <1>2. /\ k \in States /\ SameRest(k, q) /\ k.pending = q.pending
        /\ k.data = [q.data EXCEPT !["to_decoder"] = Nothing] /\ k.req = q.req
    BY <1>1, TakeIs
  <1>3. end \in BOOLEAN /\ (end <=> p = Eof) /\ (~end => p \in 1..Packets)
    BY <1>1, GraphAssumption DEF Frames, Eof, Nothing
  <1>4. d \in Seq(1..Packets) /\ d = IF end THEN q.decoding ELSE Append(q.decoding, p)
    <2>. HIDE DEF end, k
    <2>. QED  BY <1>1, <1>2, <1>3, AppendProperties DEF SameRest
  <1>. HIDE DEF k, d, end
  <1>5. /\ t \in States /\ t.pending = q.pending /\ t.data = k.data /\ t.req = q.req
        /\ SameOutside(t, q) /\ t.eof_flag = q.eof_flag /\ t.decoding = d
        /\ (t.draining <=> end)
    BY <1>2, <1>3, <1>4 DEF States, SameOutside, SameRest
  <1>6. \A l \in Links : t.data[l] = IF l = "to_decoder" THEN Nothing ELSE q.data[l]
    BY <1>1, <1>2, <1>5 DEF States
  <1>. HIDE DEF t
  <1>7. /\ t.data["frames"] = Nothing /\ t.data["to_decoder"] = Nothing
        /\ t.data["packets"] = q.data["packets"]
    BY <1>1, <1>6 DEF Links
  <1>8. d = <<>> => end /\ q.decoding = <<>>
    BY <1>1, <1>3, <1>4
  <1>9. Protocol(t)
    BY <1>5, <1>6 DEF GraphInv, Protocol
  <1>10. Decoding(t)
    BY <1>1, <1>3, <1>5, <1>7 DEF GraphInv, Decoding, SameOutside
  <1>11. Draining(t)
    <2>1. Ended(t) => Ended(q)
      BY <1>1, <1>3, <1>5, <1>7, <1>8 DEF Ended
    <2>2. LastWasEof(t) => LastWasEof(q)
      BY <1>5, <2>1 DEF LastWasEof, SameOutside
    <2>3. t.eof_flag => t.decoding # <<>>
      BY <1>3, <1>5, <1>8 DEF GraphInv, Draining
    <2>. QED  BY <1>5, <1>7, <2>1, <2>2, <2>3, <1>1 DEF GraphInv, Draining, SameOutside
  <1>12. Failing(t)
    BY <1>5, <1>6 DEF GraphInv, Failing, SameOutside, Links
  <1>13. InFlight(t) = InFlight(q)
    <2>. DEFINE x == Ahead(q.packet, Ahead(q.new_segment, Ahead(q.data["packets"], queue)))
                c(u) == Ahead(Ends(u, u.data["frames"]), u.decoding \o ToDecode(u))
    <2>1. Ends(q, Nothing) = Nothing /\ Ends(t, Nothing) = Nothing
      BY <1>1 DEF Ends
    <2>2. /\ ToDecode(q) = Ahead(Ends(q, p), x)
          /\ ToDecode(t) = Ahead(Ends(q, IF end THEN Eof ELSE Nothing), x)
      BY <1>5, <1>7, <2>1 DEF ToDecode, Ahead, SameOutside, Ends
    <2>3. x \in Seq(Frames)
      BY <1>1, ToDecodeType
    <2>. HIDE DEF x
    <2>4. t.decoding \o ToDecode(t) = q.decoding \o ToDecode(q)
      <3>1. CASE end
        BY <1>3, <1>4, <1>5, <2>2, <3>1
      <3>2. CASE ~end
        <4>1. Ends(q, p) = p
          BY <1>3, <3>2 DEF Ends
        <4>2. ToDecode(t) = x /\ ToDecode(q) = <<p>> \o x
          BY <2>1, <2>2, <3>2, <4>1 DEF Ahead
        <4>3. Append(q.decoding, p) \o x = q.decoding \o (<<p>> \o x)
          BY <1>1, <1>3, <2>3, <3>2, LastFirst
        <4>. QED  BY <1>4, <1>5, <3>2, <4>2, <4>3
      <3>. QED  BY <3>1, <3>2
    <2>5. c(t) = c(q)
      BY <1>1, <1>7, <2>1, <2>4
    <2>6. \A l \in {"chain", "out", "from_filter", "to_filter", "in", "decoded"} :
            t.data[l] = q.data[l]
      BY <1>6 DEF Links
    <2>. QED  BY <2>5, <2>6 DEF InFlight
  <1>14. GraphInv(t)
    BY <1>5, <1>9, <1>10, <1>11, <1>12, <1>13 DEF GraphInv, SameOutside
  <1>. QED  BY <1>14 DEF t, k, d, end

\* lavc_process, as a whole.
LEMMA DecodeKeeps ==
  ASSUME NEW s, GraphInv(s), queue \in Seq(1..Packets)
  PROVE  GraphInv(Decode(s))
  <1>1. /\ s \in States /\ s.decoding \in Seq(1..Packets) /\ Len(s.decoding) \in Nat
        /\ Delay \in Nat /\ "to_decoder" \in Links /\ "frames" \in Links
    BY GraphAssumption DEF GraphInv, States, Links
  <1>2. CASE ~s.req["frames"]
    BY <1>2 DEF Decode
  <1>3. CASE s.req["frames"] /\ s.draining /\ s.decoding = <<>>
    <2>. DEFINE e == [s EXCEPT !.draining = FALSE, !.eof_flag = TRUE]
    <2>1. ~s.eof_flag
      BY <1>3 DEF GraphInv, Draining
    <2>2. Decode(s) = Write(e, "frames", Eof)
      BY <1>3, <2>1 DEF Decode
    <2>3. /\ e \in States /\ SameOutside(e, s) /\ e.data = s.data /\ e.req = s.req
          /\ e.pending = s.pending /\ ~e.draining /\ e.decoding = s.decoding /\ e.eof_flag
      BY <1>1 DEF States, SameOutside
    <2>. HIDE DEF e
    <2>. QED  BY <1>3, <2>2, <2>3, DecodeWrites, FramesAre
  <1>4. CASE s.req["frames"] /\ ~(s.draining /\ s.decoding = <<>>)
             /\ (s.draining \/ Len(s.decoding) > Delay)
    <2>. DEFINE e == [s EXCEPT !.decoding = Tail(@), !.eof_flag = FALSE]
                f == Head(s.decoding)
    <2>0. s.decoding # <<>>
      BY <1>1, <1>4
    <2>1. s.decoding # <<>> /\ f \in 1..Packets /\ Tail(s.decoding) \in Seq(1..Packets)
      BY <1>1, <2>0, HeadTailProperties
    <2>2. f \in Frames /\ f # Nothing /\ f # Eof
      BY <2>1, FramesAre, GraphAssumption DEF Nothing, Eof
    <2>3. Decode(s) = Write(e, "frames", f)
      BY <1>4 DEF Decode
    <2>4. /\ e \in States /\ SameOutside(e, s) /\ e.data = s.data /\ e.req = s.req
          /\ e.pending = s.pending /\ (e.draining <=> s.draining)
          /\ e.decoding = Tail(s.decoding) /\ ~e.eof_flag
      BY <1>1, <2>1 DEF States, SameOutside
    <2>. HIDE DEF e, f
    <2>5. f = Head(s.decoding)
      BY DEF f
    <2>. QED  BY <1>4, <2>1, <2>2, <2>3, <2>4, <2>5, DecodeWrites
  <1>5. CASE s.req["frames"] /\ ~s.draining /\ Len(s.decoding) <= Delay
    <2>. DEFINE q == Request(s, "to_decoder")
                p == q.data["to_decoder"]
                k == Take(q, "to_decoder")
                u == [k EXCEPT !.draining = (p = Eof),
                               !.decoding = IF p = Eof THEN @ ELSE Append(@, p)]
    <2>1. Decode(s) = IF p = Nothing THEN q ELSE AddPending(u, "decoder")
      BY <1>1, <1>5 DEF Decode
    <2>2. GraphInv(q)
      BY <1>1, <1>5, RequestKeeps
    <2>3. q.req["frames"] /\ ~q.draining
      <3>1. /\ SameRest(q, s)
            /\ q.req = IF s.data["to_decoder"] # Nothing THEN s.req
                       ELSE [s.req EXCEPT !["to_decoder"] = TRUE]
        BY <1>1, RequestIs
      <3>. HIDE DEF q
      <3>. QED  BY <1>1, <1>5, <3>1 DEF SameRest, States
    <2>4. p # Nothing => GraphInv(u)
      <3>. HIDE DEF q
      <3>. QED  BY <2>2, <2>3, DecodeTakes
    <2>. HIDE DEF q, p, k, u
    <2>. QED  BY <2>1, <2>2, <2>4, AddPendingKeeps DEF Filters
  <1>. QED  BY <1>1, <1>2, <1>3, <1>4, <1>5

\* reset_pin of some connections
LEMMA ClearIs ==
  ASSUME NEW s \in States, NEW ls, NEW t, t = Clear(s, ls)
  PROVE  /\ t \in States /\ SameRest(t, s) /\ t.pending = s.pending
         /\ \A l \in Links : /\ t.data[l] = IF l \in ls THEN Nothing ELSE s.data[l]
                             /\ t.req[l] <=> l \notin ls /\ s.req[l]
  <1>. DEFINE d == [l \in Links |-> IF l \in ls THEN Nothing ELSE s.data[l]]
              r == [l \in Links |-> l \notin ls /\ s.req[l]]
  <1>1. d \in [Links -> Frames] /\ r \in [Links -> BOOLEAN]
    BY FramesAre DEF States
  <1>2. t = [s EXCEPT !.data = d, !.req = r]
    BY DEF Clear
  <1>3. t \in States /\ SameRest(t, s) /\ t.pending = s.pending /\ t.data = d /\ t.req = r
    <2>. HIDE DEF d, r
    <2>. QED  BY <1>1, <1>2 DEF States, SameRest
  <1>4. \A l \in Links : /\ d[l] = IF l \in ls THEN Nothing ELSE s.data[l]
                         /\ r[l] <=> l \notin ls /\ s.req[l]
    OBVIOUS
  <1>. QED  BY <1>3, <1>4

\* What a failure changes
SameCoding(t, s) ==
  /\ t.packet = s.packet /\ t.new_segment = s.new_segment /\ t.decoding = s.decoding
  /\ (t.draining <=> s.draining) /\ (t.eof_flag <=> s.eof_flag)
  /\ (t.eof_returned <=> s.eof_returned)

\* DecoderKept, for states that differ in what failed.
LEMMA CodingKept ==
  ASSUME NEW s, NEW t, SameCoding(t, s), Decoding(s), Draining(s),
         \A l \in DecoderLinks : t.data[l] = s.data[l] /\ (t.req[l] <=> s.req[l])
  PROVE  /\ Decoding(t) /\ Draining(t)
         /\ ToDecode(t) = ToDecode(s) /\ Ends(t, t.data["frames"]) = Ends(s, s.data["frames"])
  <1>. USE DEF SameCoding, DecoderLinks
  <1>1. Decoding(t)
    BY DEF Decoding
  <1>2. Draining(t)
    BY DEF Draining, Ended, LastWasEof, Plain
  <1>3. ToDecode(t) = ToDecode(s) /\ Ends(t, t.data["frames"]) = Ends(s, s.data["frames"])
    BY DEF ToDecode, Ends
  <1>. QED  BY <1>1, <1>2, <1>3

\* process_user: a filter that has failed is left out. Its connections are empty then, so that
\* nothing is lost with them.
LEMMA DisableKeeps ==
  ASSUME NEW s, GraphInv(s), s.failed, ~s.disabled, role \in {"user", "convert"}
  PROVE  GraphInv(Disable(s)) /\ Disable(s).disabled /\ ~Disable(s).failed
  <1>. DEFINE t == Disable(s)
  <1>1. s \in States /\ s.data["to_filter"] = Nothing /\ s.data["from_filter"] = Nothing
        /\ ~s.failed_conversion
    BY DEF GraphInv, Failing
  <1>2. CASE role = "convert"
    <2>1. /\ t \in States /\ t.pending = s.pending /\ t.data = s.data /\ t.req = s.req
          /\ SameCoding(t, s) /\ t.disabled /\ ~t.failed /\ t.failed_conversion
      BY <1>1, <1>2 DEF Disable, States, SameCoding
    <2>. HIDE DEF t
    <2>2. Decoding(t) /\ Draining(t)
      BY <2>1, CodingKept DEF GraphInv
    <2>3. Protocol(t) /\ Failing(t)
      BY <2>1, <1>2 DEF GraphInv, Protocol, Failing
    <2>. QED  BY <2>1, <2>2, <2>3 DEF t, GraphInv
  <1>3. CASE role = "user"
    <2>. DEFINE c == Clear(s, {"to_filter", "from_filter"})
    <2>1. /\ c \in States /\ SameRest(c, s) /\ c.pending = s.pending
          /\ \A l \in Links :
               /\ c.data[l] = IF l \in {"to_filter", "from_filter"} THEN Nothing ELSE s.data[l]
               /\ c.req[l] <=> l \notin {"to_filter", "from_filter"} /\ s.req[l]
      BY <1>1, ClearIs
    <2>2. t = [c EXCEPT !.failed = FALSE, !.disabled = TRUE]
      BY <1>3 DEF Disable
    <2>. HIDE DEF c, t
    <2>3. /\ t \in States /\ t.pending = c.pending /\ t.data = c.data /\ t.req = c.req
          /\ SameCoding(t, c) /\ t.disabled /\ ~t.failed
          /\ t.failed_conversion = c.failed_conversion
      BY <2>1, <2>2 DEF States, SameCoding
    <2>4. /\ SameCoding(t, s) /\ t.failed_conversion = s.failed_conversion
          /\ t.pending = s.pending
          /\ \A l \in Links : /\ t.data[l] = s.data[l]
                              /\ t.req[l] <=> l \notin {"to_filter", "from_filter"} /\ s.req[l]
      BY <1>1, <2>1, <2>3 DEF SameCoding, SameRest
    <2>5. /\ Decoding(t) /\ Draining(t)
          /\ ToDecode(t) = ToDecode(s) /\ Ends(t, t.data["frames"]) = Ends(s, s.data["frames"])
      <3>1. \A l \in DecoderLinks : t.data[l] = s.data[l] /\ (t.req[l] <=> s.req[l])
        BY <2>4 DEF DecoderLinks, Links
      <3>. QED  BY <3>1, <2>4, CodingKept DEF GraphInv
    <2>6. Protocol(t)
      BY <2>4 DEF GraphInv, Protocol
    <2>7. Failing(t)
      BY <1>1, <1>3, <2>3, <2>4 DEF Failing, Links
    <2>8. InFlight(t) = InFlight(s)
      BY <2>4, <2>5 DEF InFlight, SameCoding, Links
    <2>. QED  BY <2>3, <2>4, <2>5, <2>6, <2>7, <2>8 DEF t, GraphInv
  <1>. QED  BY <1>2, <1>3

\* process_user, as a whole.
LEMMA WrapUserKeeps ==
  ASSUME NEW s, GraphInv(s), role \in {"user", "convert"}
  PROVE  GraphInv(WrapUser(s))
  <1>. DEFINE d == IF s.failed /\ ~s.disabled THEN Disable(s) ELSE s
              a == Transfer(d, "to_filter", "in")
              b == Transfer(a, "out", "from_filter")
              c == Transfer(d, "out", "in")
              w == Write(d, "out", Eof)
              e == [w EXCEPT !.error_eof_sent = TRUE]
  <1>1. WrapUser(s) = IF ~d.disabled THEN b ELSE IF role = "user" THEN c
                      ELSE IF d.req["out"] /\ ~d.error_eof_sent THEN e ELSE d
    BY DEF WrapUser
  <1>2. GraphInv(d) /\ (~d.disabled => ~d.failed)
    BY DisableKeeps
  <1>. HIDE DEF d
  <1>3. ~d.disabled => GraphInv(b)
    <2>. SUFFICES ASSUME ~d.disabled PROVE GraphInv(b)
      OBVIOUS
    <2>1. GraphInv(a) /\ SameRest(a, d)
      BY <1>2, TransferKeeps DEF Passes
    <2>2. ~a.failed /\ ~a.disabled
      BY <1>2, <2>1 DEF SameRest
    <2>. HIDE DEF a
    <2>. QED  BY <2>1, <2>2, TransferKeeps DEF Passes
  <1>4. d.disabled /\ role = "user" => GraphInv(c)
    BY <1>2, TransferKeeps DEF Passes
  <1>5. d.disabled /\ role = "convert" => GraphInv(e)
    <2>. SUFFICES ASSUME d.disabled, role = "convert" PROVE GraphInv(e)
      OBVIOUS
    <2>1. d \in States /\ d.failed_conversion /\ "out" \in Links
      BY <1>2 DEF GraphInv, Failing, Links
    <2>2. /\ w \in States /\ SameRest(w, d)
          /\ w.data = [d.data EXCEPT !["out"] = Eof] /\ w.req = [d.req EXCEPT !["out"] = FALSE]
          /\ IsInjective(w.pending)
      BY <1>2, <2>1, WritingIs, FramesAre DEF GraphInv
    <2>. HIDE DEF w
    <2>3. /\ e \in States /\ SameRest(e, w) /\ e.data = w.data /\ e.req = w.req
          /\ e.pending = w.pending
      BY <2>2 DEF States, SameRest
    <2>. HIDE DEF e
    <2>4. SameRest(e, d) /\ \A l \in Links : /\ e.data[l] = IF l = "out" THEN Eof ELSE d.data[l]
                                             /\ e.req[l] <=> l # "out" /\ d.req[l]
      BY <2>1, <2>2, <2>3 DEF SameRest, States
    <2>5. Decoding(e) /\ Draining(e)
      <3>1. \A l \in DecoderLinks : e.data[l] = d.data[l] /\ (e.req[l] <=> d.req[l])
        BY <2>4 DEF DecoderLinks, Links
      <3>2. SameCoding(e, d)
        BY <2>4 DEF SameRest, SameCoding
      <3>. QED  BY <1>2, <3>1, <3>2, CodingKept DEF GraphInv
    <2>6. Protocol(e)
      BY <1>2, <2>4 DEF GraphInv, Protocol
    <2>7. Failing(e)
      BY <1>2, <2>4 DEF GraphInv, Failing, SameRest, Links
    <2>. QED  BY <2>1, <2>2, <2>3, <2>4, <2>5, <2>6, <2>7 DEF GraphInv, SameRest
  <1>. HIDE DEF a, b, c, w, e
  <1>. QED  BY <1>1, <1>2, <1>3, <1>4, <1>5

\* The output chain passes frames on.
LEMMA ChainKeeps ==
  ASSUME NEW s, GraphInv(s)
  PROVE  GraphInv(Chain(s))
  <1>1. GraphInv(Transfer(s, "in", "decoded"))
    BY TransferKeeps DEF Passes
  <1>. QED  BY <1>1, TransferKeeps DEF Chain, Passes
\* What holds of the graph apart from what is on its way
GraphOk(s) ==
  /\ s \in States /\ IsInjective(s.pending)
  /\ Protocol(s) /\ Decoding(s) /\ Draining(s) /\ Failing(s)

\* What is left of a sequence when an element is removed.
LEMMA RemovedAt ==
  ASSUME NEW S, NEW o \in Seq(S), NEW n \in 1..Len(o)
  PROVE  /\ RemoveAt(o, n) \in Seq(S) /\ Len(RemoveAt(o, n)) = Len(o) - 1
         /\ \A i \in 1..(Len(o) - 1) : RemoveAt(o, n)[i] = IF i < n THEN o[i] ELSE o[i + 1]
  <1>. DEFINE k == Len(o)
              a == SubSeq(o, 1, n - 1)
              b == SubSeq(o, n + 1, k)
  <1>1. k \in Nat /\ n \in 1..k /\ \A i \in 1..k : o[i] \in S
    BY LenProperties, ElementOfSeq
  <1>. HIDE DEF k
  <1>2. /\ a \in Seq(S) /\ Len(a) = n - 1 /\ \A i \in 1..(n - 1) : a[i] = o[i]
    <2>1. \A i \in 1..(n - 1) : o[i] \in S
      BY <1>1
    <2>2. /\ SubSeq(o, 1, n - 1) \in Seq(S)
          /\ Len(SubSeq(o, 1, n - 1)) = IF 1 <= n - 1 THEN n - 1 - 1 + 1 ELSE 0
          /\ \A i \in 1..(n - 1) - 1 + 1 : SubSeq(o, 1, n - 1)[i] = o[1 + i - 1]
      BY <1>1, <2>1, SubSeqProperties
    <2>. QED  BY <1>1, <2>2
  <1>3. /\ b \in Seq(S) /\ Len(b) = k - n /\ \A i \in 1..(k - n) : b[i] = o[n + i]
    <2>1. \A i \in (n + 1)..k : o[i] \in S
      BY <1>1
    <2>2. /\ SubSeq(o, n + 1, k) \in Seq(S)
          /\ Len(SubSeq(o, n + 1, k)) = IF n + 1 <= k THEN k - (n + 1) + 1 ELSE 0
          /\ \A i \in 1..k - (n + 1) + 1 : SubSeq(o, n + 1, k)[i] = o[n + 1 + i - 1]
      BY <1>1, <2>1, SubSeqProperties
    <2>3. \A i \in 1..(k - n) : n + 1 + i - 1 = n + i /\ i \in 1..k - (n + 1) + 1
      BY <1>1
    <2>. QED  BY <1>1, <2>2, <2>3
  <1>. HIDE DEF a, b
  <1>4. RemoveAt(o, n) = a \o b
    BY DEF RemoveAt, a, b, k
  <1>5. /\ a \o b \in Seq(S) /\ Len(a \o b) = k - 1
        /\ \A i \in 1..(k - 1) : (a \o b)[i] = IF i < n THEN a[i] ELSE b[i - (n - 1)]
    <2>1. /\ a \o b \in Seq(S) /\ Len(a \o b) = Len(a) + Len(b)
          /\ \A i \in 1..Len(a) + Len(b) : (a \o b)[i] = IF i <= Len(a) THEN a[i] ELSE b[i - Len(a)]
      BY <1>2, <1>3, ConcatProperties
    <2>. QED  BY <1>1, <1>2, <1>3, <2>1
  <1>. QED  BY <1>1, <1>2, <1>3, <1>4, <1>5 DEF k

\* Two sequences with a frame between them
Around(p, f, r) == p \o (<<f>> \o r)

\* Without
Joined(p, r) == p \o r

\* The element between two sequences is removed.
LEMMA RemovedBetween ==
  ASSUME NEW S, NEW p \in Seq(S), NEW r \in Seq(S), NEW f \in S
  PROVE  /\ Len(p) + 1 \in 1..Len(Around(p, f, r)) /\ Around(p, f, r)[Len(p) + 1] = f
         /\ RemoveAt(Around(p, f, r), Len(p) + 1) = Joined(p, r)
  <1>. DEFINE o == Around(p, f, r)
              k == Len(p)
              m == Len(r)
              e == <<f>> \o r
  <1>1. k \in Nat /\ m \in Nat /\ k = Len(p) /\ m = Len(r)
    BY LenProperties
  <1>2. e \in Seq(S) /\ Len(e) = m + 1 /\ e[1] = f /\ \A i \in 1..m : e[i + 1] = r[i]
    <2>1. <<f>> \in Seq(S) /\ Len(<<f>>) = 1 /\ <<f>>[1] = f
      OBVIOUS
    <2>2. /\ e \in Seq(S) /\ Len(e) = 1 + Len(r)
          /\ \A i \in 1..1 + Len(r) : e[i] = IF i <= 1 THEN <<f>>[i] ELSE r[i - 1]
      BY <2>1, ConcatProperties
    <2>. HIDE DEF e, m
    <2>3. e \in Seq(S) /\ Len(e) = m + 1
      BY <1>1, <2>2
    <2>4. e[1] = f
      BY <1>1, <2>1, <2>2
    <2>5. ASSUME NEW i \in 1..m PROVE e[i + 1] = r[i]
      <3>1. i + 1 \in 1..1 + Len(r) /\ ~(i + 1 <= 1) /\ (i + 1) - 1 = i
        BY <1>1
      <3>. QED  BY <2>2, <3>1
    <2>. QED  BY <2>3, <2>4, <2>5
  <1>. HIDE DEF k, m, e, o
  <1>3. o = p \o e
    BY DEF e, o, Around
  <1>4. /\ o \in Seq(S) /\ Len(o) = k + (m + 1)
        /\ \A i \in 1..k + (m + 1) : o[i] = IF i <= k THEN p[i] ELSE e[i - k]
    <2>1. /\ p \o e \in Seq(S) /\ Len(p \o e) = Len(p) + Len(e)
          /\ \A i \in 1..Len(p) + Len(e) : (p \o e)[i] = IF i <= Len(p) THEN p[i] ELSE e[i - Len(p)]
      BY <1>2, ConcatProperties
    <2>. QED  BY <1>1, <1>2, <1>3, <2>1
  <1>5. k + 1 \in 1..Len(o) /\ o[k + 1] = f
    <2>1. k + 1 \in 1..k + (m + 1) /\ ~(k + 1 <= k) /\ (k + 1) - k = 1
      BY <1>1
    <2>2. o[k + 1] = e[(k + 1) - k]
      BY <1>4, <2>1
    <2>. QED  BY <1>2, <1>4, <2>1, <2>2
  <1>6. /\ RemoveAt(o, k + 1) \in Seq(S) /\ Len(RemoveAt(o, k + 1)) = k + m
        /\ \A i \in 1..(k + m) : RemoveAt(o, k + 1)[i] = IF i < k + 1 THEN o[i] ELSE o[i + 1]
    <2>1. /\ RemoveAt(o, k + 1) \in Seq(S) /\ Len(RemoveAt(o, k + 1)) = Len(o) - 1
          /\ \A i \in 1..(Len(o) - 1) : RemoveAt(o, k + 1)[i] = IF i < k + 1 THEN o[i] ELSE o[i + 1]
      BY <1>4, <1>5, RemovedAt
    <2>2. Len(o) - 1 = k + m
      BY <1>1, <1>4
    <2>. QED  BY <2>1, <2>2
  <1>7. /\ p \o r \in Seq(S) /\ Len(p \o r) = k + m
        /\ \A i \in 1..k + m : (p \o r)[i] = IF i <= k THEN p[i] ELSE r[i - k]
    BY <1>1, ConcatProperties
  <1>8. ASSUME NEW i \in 1..(k + m)
        PROVE  RemoveAt(o, k + 1)[i] = (p \o r)[i]
    <2>0. i \in Nat /\ i \in 1..k + (m + 1) /\ i + 1 \in 1..k + (m + 1) /\ i \in 1..k + m
      BY <1>1
    <2>1. CASE i <= k
      <3>1. i < k + 1
        BY <1>1, <2>0, <2>1
      <3>. QED  BY <1>4, <1>6, <1>7, <2>0, <2>1, <3>1
    <2>2. CASE i > k
      <3>1. ~(i < k + 1) /\ ~(i + 1 <= k)
        BY <1>1, <2>0, <2>2
      <3>2. RemoveAt(o, k + 1)[i] = o[i + 1]
        BY <1>6, <2>0, <3>1
      <3>3. o[i + 1] = e[(i + 1) - k]
        BY <1>4, <2>0, <3>1
      <3>4. i - k \in 1..m /\ (i + 1) - k = (i - k) + 1
        BY <1>1, <2>0, <2>2
      <3>5. e[(i - k) + 1] = r[i - k]
        BY <1>2, <3>4
      <3>6. ~(i <= k)
        BY <1>1, <2>0, <2>2
      <3>7. (p \o r)[i] = r[i - k]
        BY <1>7, <2>0, <3>6
      <3>. QED  BY <3>2, <3>3, <3>4, <3>5, <3>7
    <2>. QED  BY <1>1, <2>1, <2>2
  <1>9. RemoveAt(o, k + 1) = p \o r
    BY <1>1, <1>6, <1>7, <1>8, SeqEqual
  <1>. QED  BY <1>1, <1>5, <1>9 DEF o, Joined

\* A filter fails at a frame: it is taken out, wherever it is in the order.
LEMMA FilterFails ==
  ASSUME NEW s, GraphInv(s), queue \in Seq(1..Packets), s.req["from_filter"],
         NEW f, f = s.data["to_filter"], f \in 1..Packets, ~s.disabled,
         NEW t, t = MarkFailed(Take(s, "to_filter"))
  PROVE  /\ GraphOk(t) /\ ~s.failed_conversion /\ ~t.failed_conversion
         /\ \E p, r \in Seq(Frames) : /\ InFlight(s) = Around(p, f, r)
                                      /\ InFlight(t) = Joined(p, r)
  <1>. DEFINE k == Take(s, "to_filter")
              m == [k EXCEPT !.failed = TRUE]
  <1>1. /\ s \in States /\ "to_filter" \in Links /\ s.data["from_filter"] = Nothing
        /\ f # Nothing /\ f \in Frames /\ ~s.req["to_filter"] /\ ~s.failed
        /\ ~s.failed_conversion /\ "from_filter" \in Links
    BY FramesAre, GraphAssumption DEF GraphInv, Protocol, Failing, Links, Nothing, Frames, Eof
  <1>2. /\ k \in States /\ SameRest(k, s) /\ k.pending = s.pending
        /\ k.data = [s.data EXCEPT !["to_filter"] = Nothing] /\ k.req = s.req
    BY <1>1, TakeIs, SMTT(40)
  <1>. HIDE DEF k
  <1>3. /\ m \in States /\ SameCoding(m, k) /\ m.data = k.data /\ m.req = k.req
        /\ m.pending = k.pending /\ m.failed /\ m.disabled = k.disabled
        /\ m.failed_conversion = k.failed_conversion
    BY <1>2 DEF States, SameCoding
  <1>. HIDE DEF m
  <1>4. /\ t \in States /\ t.data = m.data /\ t.req = m.req /\ SameRest(t, m)
        /\ IsInjective(t.pending)
    <2>1. t = AddPending(m, "user_wrapper")
      BY DEF MarkFailed, m, k
    <2>. QED  BY <1>1, <1>2, <1>3, <2>1, AddPendingIs DEF GraphInv, Filters
  <1>5. /\ SameCoding(t, s) /\ t.failed /\ ~t.disabled /\ ~t.failed_conversion
        /\ \A l \in Links : /\ t.data[l] = IF l = "to_filter" THEN Nothing ELSE s.data[l]
                            /\ t.req[l] <=> s.req[l]
    <2>1. SameCoding(t, s) /\ t.failed /\ ~t.disabled /\ ~t.failed_conversion
      BY <1>1, <1>2, <1>3, <1>4 DEF SameCoding, SameRest
    <2>2. t.data = [s.data EXCEPT !["to_filter"] = Nothing] /\ t.req = s.req
      BY <1>2, <1>3, <1>4
    <2>. QED  BY <1>1, <2>1, <2>2 DEF States
  <1>6. /\ Decoding(t) /\ Draining(t)
        /\ ToDecode(t) = ToDecode(s) /\ Ends(t, t.data["frames"]) = Ends(s, s.data["frames"])
    <2>1. \A l \in DecoderLinks : t.data[l] = s.data[l] /\ (t.req[l] <=> s.req[l])
      BY <1>5 DEF DecoderLinks, Links
    <2>. QED  BY <2>1, <1>5, CodingKept DEF GraphInv
  <1>7. Protocol(t) /\ Failing(t)
    BY <1>1, <1>5 DEF GraphInv, Protocol, Failing, Links
  <1>. DEFINE a == s.data["chain"]
              b == s.data["out"]
              p == Ahead(a, Ahead(b, <<>>))
              r == Ahead(s.data["in"], Ahead(s.data["decoded"],
                     Ahead(Ends(s, s.data["frames"]), s.decoding \o ToDecode(s))))
  <1>8. p \in Seq(Frames) /\ r \in Seq(Frames) /\ a \in Frames /\ b \in Frames
    <2>1. /\ a \in Frames /\ b \in Frames /\ s.data["in"] \in Frames
          /\ s.data["decoded"] \in Frames /\ s.data["frames"] \in Frames
      BY <1>1 DEF States, Links
    <2>2. Ends(s, s.data["frames"]) \in Frames
      BY <2>1, FramesAre DEF Ends
    <2>3. s.decoding \in Seq(Frames)
      BY <1>1, GraphAssumption DEF States, Frames, Eof
    <2>4. s.decoding \o ToDecode(s) \in Seq(Frames)
      BY <1>1, <2>3, ToDecodeType, ConcatProperties
    <2>5. r \in Seq(Frames)
      BY <2>1, <2>2, <2>4, AheadType
    <2>6. <<>> \in Seq(Frames)
      OBVIOUS
    <2>. HIDE DEF a, b, r
    <2>. QED  BY <2>1, <2>5, <2>6, AheadType
  <1>9. InFlight(s) = Ahead(a, Ahead(b, <<f>> \o r)) /\ InFlight(t) = Ahead(a, Ahead(b, r))
    <2>1. /\ t.data["chain"] = a /\ t.data["out"] = b /\ t.data["from_filter"] = Nothing
          /\ t.data["to_filter"] = Nothing /\ t.data["in"] = s.data["in"]
          /\ t.data["decoded"] = s.data["decoded"] /\ t.decoding = s.decoding
      BY <1>1, <1>5 DEF Links, SameCoding
    <2>2. InFlight(t) = Ahead(a, Ahead(b, Ahead(Nothing, Ahead(Nothing, r))))
      BY ONLY <2>1, <1>6 DEF InFlight
    <2>3. InFlight(s) = Ahead(a, Ahead(b, Ahead(Nothing, Ahead(f, r))))
      BY <1>1 DEF InFlight
    <2>. HIDE DEF a, b, r
    <2>. QED  BY <1>1, <2>2, <2>3 DEF Ahead
  <1>. HIDE DEF r
  <1>10. \A x \in Seq(Frames) : Ahead(a, Ahead(b, x)) = p \o x
    <2>. HIDE DEF a, b
    <2>. QED  BY <1>8, FramesAre DEF Ahead, p
  <1>11. <<f>> \o r \in Seq(Frames)
    BY <1>1, <1>8
  <1>. HIDE DEF p, a, b
  <1>12. InFlight(s) = Around(p, f, r) /\ InFlight(t) = Joined(p, r)
    BY <1>8, <1>9, <1>10, <1>11 DEF Around, Joined
  <1>. QED  BY <1>1, <1>4, <1>5, <1>6, <1>7, <1>8, <1>12 DEF GraphOk

\* Induction, for the numbers of a set
LEMMA AllNumbers ==
  ASSUME NEW P, 0 \in P, \A n \in Nat : n \in P => n + 1 \in P
  PROVE  Nat \subseteq P
  <1>. DEFINE bad == Nat \ P
  <1>1. SUFFICES ASSUME bad # {} PROVE FALSE
    OBVIOUS
  <1>2. PICK m \in bad : \A k \in bad : ~(k < m)
    <2>1. PICK m \in bad : \A k \in bad : <<k, m>> \notin OpToRel(<, Nat)
      BY <1>1, NatLessThanWellFounded, WFMin, Zenon
    <2>. QED  BY <2>1 DEF OpToRel
  <1>3. m # 0 /\ m - 1 \in Nat /\ m - 1 < m /\ (m - 1) + 1 = m
    BY <1>2
  <1>4. m - 1 \in P
    BY <1>2, <1>3
  <1>. QED  BY <1>2, <1>3, <1>4

\* The notifications are taken one by one, and there is a result of that.
Marked(s, a, N) ==
  CHOOSE f : f = [n \in 0..N |-> IF n = 0 THEN s ELSE AddPending(f[n - 1], a[n])]

\* A function that is defined by recursion over the notifications exists.
LEMMA MarkedIs ==
  ASSUME NEW N \in Nat, NEW s, NEW a
  PROVE  /\ Marked(s, a, N)[0] = s
         /\ \A n \in 1..N : Marked(s, a, N)[n] = AddPending(Marked(s, a, N)[n - 1], a[n])
  <1>. DEFINE marked == Marked(s, a, N)
  <1>. DEFINE Upto(k, f) == f = [n \in 0..k |-> IF n = 0 THEN s ELSE AddPending(f[n - 1], a[n])]
              P == {k \in Nat : \E f : Upto(k, f)}
  <1>1. 0 \in P
    <2>. DEFINE f == [n \in {0} |-> s]
    <2>1. f = [n \in 0..0 |-> IF n = 0 THEN s ELSE AddPending(f[n - 1], a[n])]
      OBVIOUS
    <2>. QED  BY <2>1
  <1>2. ASSUME NEW k \in Nat, k \in P PROVE k + 1 \in P
    <2>1. PICK f : Upto(k, f)
      BY <1>2
    <2>. DEFINE h == [n \in 0..(k + 1) |-> IF n <= k THEN f[n] ELSE AddPending(f[k], a[k + 1])]
    <2>2. ASSUME NEW n \in 0..(k + 1)
          PROVE  h[n] = IF n = 0 THEN s ELSE AddPending(h[n - 1], a[n])
      <3>1. CASE n = 0
        <4>1. h[0] = f[0] /\ f[0] = s
          BY <2>1
        <4>. QED  BY <3>1, <4>1
      <3>2. CASE n # 0 /\ n <= k
        <4>1. n \in 0..k /\ n - 1 \in 0..k /\ n - 1 \in 0..(k + 1) /\ n - 1 <= k
          BY <3>2
        <4>2. f[n] = AddPending(f[n - 1], a[n])
          BY <2>1, <3>2, <4>1
        <4>3. h[n] = f[n] /\ h[n - 1] = f[n - 1]
          BY <3>2, <4>1
        <4>. QED  BY <3>2, <4>2, <4>3
      <3>3. CASE n = k + 1
        <4>1. n # 0 /\ ~(n <= k) /\ n - 1 = k /\ k \in 0..(k + 1) /\ k <= k
          BY <3>3
        <4>2. h[n] = AddPending(f[k], a[k + 1]) /\ h[k] = f[k]
          BY <3>3, <4>1
        <4>. QED  BY <3>3, <4>1, <4>2
      <3>. QED  BY <3>1, <3>2, <3>3
    <2>3. DOMAIN h = 0..(k + 1) /\ h = [n \in 0..(k + 1) |-> h[n]]
      OBVIOUS
    <2>. HIDE DEF h
    <2>4. h = [n \in 0..(k + 1) |-> IF n = 0 THEN s ELSE AddPending(h[n - 1], a[n])]
      BY <2>2, <2>3
    <2>. QED  BY <2>4
  <1>3. N \in P
    <2>. HIDE DEF P
    <2>. QED  BY <1>1, <1>2, AllNumbers
  <1>4. \E f : Upto(N, f)
    BY <1>3
  <1>5. Upto(N, marked)
    BY <1>4 DEF Marked
  <1>. HIDE DEF marked
  <1>6. \A n \in 0..N : marked[n] = IF n = 0 THEN s ELSE AddPending(marked[n - 1], a[n])
    BY <1>5
  <1>. HIDE DEF Upto, P
  <1>. QED  BY <1>6 DEF marked

\* flush_async_notifications: the notified filters are marked, one after the other.
LEMMA MarkedKeeps ==
  ASSUME NEW s, GraphInv(s), NEW a \in Seq(Filters), NEW N, N = Len(a), NEW marked,
         marked[0] = s, \A n \in 1..N : marked[n] = AddPending(marked[n - 1], a[n])
  PROVE  GraphInv(marked[N])
  <1>. DEFINE P == {k \in Nat : k <= N => GraphInv(marked[k])}
  <1>1. N \in Nat /\ \A n \in 1..N : a[n] \in Filters
    BY LenProperties, ElementOfSeq
  <1>2. 0 \in P
    OBVIOUS
  <1>3. ASSUME NEW k \in Nat, k \in P PROVE k + 1 \in P
    <2>. SUFFICES ASSUME k + 1 <= N PROVE GraphInv(marked[k + 1])
      OBVIOUS
    <2>1. k + 1 \in 1..N /\ (k + 1) - 1 = k /\ k <= N
      BY <1>1
    <2>2. GraphInv(marked[k]) /\ a[k + 1] \in Filters
      BY <1>1, <1>3, <2>1
    <2>3. marked[k + 1] = AddPending(marked[k], a[k + 1])
      BY <2>1
    <2>. QED  BY <2>2, <2>3, AddPendingKeeps
  <1>4. N \in P
    <2>. HIDE DEF P
    <2>. QED  BY <1>1, <1>2, <1>3, AllNumbers
  <1>. QED  BY <1>1, <1>4

-------------------------------------------------------------------------------

\* Types
TypeInv ==
  /\ g \in States
  /\ async_pending \in Seq(Filters)
  /\ queue \in Seq(1..Packets) /\ owed \in Seq(1..Eof)
  /\ position \in 1..(Packets + 1)
  /\ segment \in [1..Packets -> Nat] /\ role \in {"user", "convert"}

\* A file ends only where no segment starts.
FileEndInv == at_end /\ position <= Packets => segment[position] = 0

\* Each packet is on its way once, and none of those that have not been read.
OwedInv ==
  /\ \A n \in DOMAIN owed : owed[n] = Eof \/ owed[n] < position
  /\ \A m, n \in DOMAIN owed : owed[m] = owed[n] /\ owed[m] # Eof => m = n

\* The inductive invariant
FiltersInv == TypeInv /\ FileEndInv /\ OwedInv /\ GraphInv(g)

\* A step that only the graph knows of, or that only tells of the end of the file.
LEMMA GraphStep ==
  ASSUME FiltersInv, GraphInv(g'), async_pending' \in Seq(Filters),
         UNCHANGED <<queue, owed, position, segment, role>>, UNCHANGED at_end \/ FileEndInv'
  PROVE  FiltersInv'
  <1>1. TypeInv'
    BY DEF FiltersInv, TypeInv, GraphInv
  <1>2. FileEndInv'
    BY DEF FiltersInv, FileEndInv
  <1>3. OwedInv'
    BY DEF FiltersInv, OwedInv
  <1>4. GraphInv(g)'
    <2>1. Protocol(g)' /\ Decoding(g)' /\ IsInjective(g.pending)' /\ g' \in States
      BY DEF GraphInv, Protocol, Decoding
    <2>2. Draining(g)'
      BY DEF GraphInv, Draining, LastWasEof, Ended, Plain
    <2>3. Failing(g)'
      BY DEF GraphInv, Failing
    <2>4. ~g'.failed_conversion => owed' = InFlight(g)'
      BY DEF GraphInv, InFlight, ToDecode
    <2>. QED  BY <2>1, <2>2, <2>3, <2>4 DEF GraphInv
  <1>. QED  BY <1>1, <1>2, <1>3, <1>4 DEF FiltersInv

\* A filter is taken from the list, to be run.
LEMMA PoppedKeeps ==
  ASSUME GraphInv(g), g.pending # <<>>
  PROVE  GraphInv(Popped)
  <1>. DEFINE p == Front(g.pending)
  <1>1. g \in States /\ g.pending \in Seq(Filters) /\ Len(g.pending) \in Nat \ {0}
    BY EmptySeq, LenProperties DEF GraphInv, States
  <1>2. /\ p \in Seq(Filters) /\ Len(p) = Len(g.pending) - 1
        /\ \A i \in 1..(Len(g.pending) - 1) : p[i] = g.pending[i]
    BY <1>1 DEF Front
  <1>3. IsInjective(p)
    <2>1. DOMAIN p = 1..(Len(g.pending) - 1) /\ DOMAIN g.pending = 1..Len(g.pending)
      BY <1>1, <1>2, LenProperties
    <2>2. \A i \in DOMAIN p : i \in DOMAIN g.pending /\ p[i] = g.pending[i]
      BY <1>1, <1>2, <2>1
    <2>3. \A i, j \in DOMAIN g.pending : g.pending[i] = g.pending[j] => i = j
      BY DEF GraphInv, IsInjective
    <2>. HIDE DEF p
    <2>. QED  BY <2>2, <2>3 DEF IsInjective
  <1>4. /\ Popped \in States /\ Popped.data = g.data /\ Popped.req = g.req
        /\ SameRest(Popped, g) /\ Popped.pending = p
    <2>1. Popped = [g EXCEPT !.pending = p]
      BY DEF Popped
    <2>. HIDE DEF p
    <2>. QED  BY <1>1, <1>2, <2>1 DEF States, SameRest
  <1>. QED  BY <1>3, <1>4, PendingOnly

\* Nothing is on its way at first, and all filters are to be run.
LEMMA InitHolds == GraphInit => FiltersInv
  <1>. SUFFICES ASSUME GraphInit PROVE FiltersInv
    OBVIOUS
  <1>. DEFINE p == <<"root", "output_chain", "user_wrapper", "filter", "wrapper", "demux",
                     "decoder">>
  <1>1. /\ p \in Seq(Filters) /\ IsInjective(p)
    <2>1. p \in Seq(Filters)
      BY DEF Filters
    <2>2. DOMAIN p = 1..7
      OBVIOUS
    <2>3. \A i \in 1..7 : i = 1 \/ i = 2 \/ i = 3 \/ i = 4 \/ i = 5 \/ i = 6 \/ i = 7
      OBVIOUS
    <2>. QED  BY <2>1, <2>2, <2>3 DEF IsInjective
  <1>. HIDE DEF p
  <1>2. /\ NoData \in [Links -> Frames] /\ \A l \in Links : NoData[l] = Nothing
        /\ NoRequests \in [Links -> BOOLEAN] /\ \A l \in Links : ~NoRequests[l]
    BY FramesAre DEF NoData, NoRequests
  <1>3. Nothing \in Frames /\ Nothing \in 0..Packets /\ <<>> \in Seq(1..Packets) /\ 0 \in Nat
    BY FramesAre, GraphAssumption DEF Nothing
  <1>4. g = [data |-> NoData, req |-> NoRequests, pending |-> p, external |-> TRUE,
          packet |-> Nothing, new_segment |-> Nothing, start |-> 0,
          decoding |-> <<>>, draining |-> FALSE, eof_flag |-> FALSE,
          eof_returned |-> FALSE,
          failed |-> FALSE, disabled |-> FALSE, error_eof_sent |-> FALSE,
          failed_conversion |-> FALSE]
    BY DEF GraphInit, p
  <1>5. /\ g \in States /\ g.data = NoData /\ g.req = NoRequests /\ g.pending = p
        /\ g.packet = Nothing /\ g.new_segment = Nothing /\ g.decoding = <<>> /\ ~g.draining
        /\ ~g.eof_flag /\ ~g.eof_returned /\ ~g.failed /\ ~g.disabled /\ ~g.failed_conversion
    BY ONLY <1>1, <1>2, <1>3, <1>4 DEF States
  <1>6. TypeInv /\ FileEndInv /\ OwedInv
    <2>1. async_pending \in Seq(Filters) /\ queue \in Seq(1..Packets) /\ owed \in Seq(1..Eof)
          /\ position = 1 /\ ~at_end /\ owed = <<>> /\ DOMAIN owed = {}
      BY DEF GraphInit
    <2>2. segment \in [1..Packets -> Nat] /\ role \in {"user", "convert"}
      BY GraphAssumption DEF GraphInit
    <2>3. 1 \in 1..(Packets + 1)
      BY GraphAssumption
    <2>. QED  BY <1>5, <2>1, <2>2, <2>3 DEF TypeInv, FileEndInv, OwedInv
  <1>7. GraphInv(g)
    <2>1. \A l \in Links : g.data[l] = Nothing /\ ~g.req[l]
      BY <1>2, <1>5
    <2>2. Protocol(g)
      BY <2>1 DEF Protocol
    <2>3. Decoding(g)
      BY <1>5, <2>1, FramesAre DEF Decoding, Links
    <2>4. Draining(g)
      BY <1>5, <2>1, FramesAre DEF Draining, Ended, LastWasEof, Links
    <2>5. Failing(g)
      BY <1>5, <2>1 DEF Failing
    <2>6. InFlight(g) = <<>>
      <3>1. ToDecode(g) = <<>>
        BY <1>5, <2>1 DEF ToDecode, Ahead, Ends, Links, GraphInit
      <3>2. <<>> \o <<>> = <<>>
        OBVIOUS
      <3>3. Ends(g, Nothing) = Nothing
        BY DEF Ends
      <3>. QED  BY <1>5, <2>1, <3>1, <3>2, <3>3 DEF InFlight, Ahead, Links
    <2>. QED  BY <1>1, <1>5, <2>2, <2>3, <2>4, <2>5, <2>6 DEF GraphInv, GraphInit
  <1>. QED  BY <1>6, <1>7 DEF FiltersInv

\* A notification leaves filters to be marked.
LEMMA NotifyType ==
  ASSUME async_pending \in Seq(Filters), NEW f \in Filters, Notify(f)
  PROVE  async_pending' \in Seq(Filters)
  BY AppendProperties DEF Notify, asyncVars

\* The wrapper, the decoder and the output chain
LEMMA RunFilterStep ==
  ASSUME FiltersInv, RunFilter
  PROVE  FiltersInv'
  <1>1. GraphInv(Popped)
    BY PoppedKeeps DEF FiltersInv, RunFilter, Run
  <1>2. /\ UNCHANGED <<queue, owed, position, at_end, segment, role, async_pending>>
        /\ queue \in Seq(1..Packets) /\ segment \in [1..Packets -> Nat]
        /\ async_pending \in Seq(Filters)
    BY DEF RunFilter, runRest, asyncVars, demuxVars, coreVars, fixed, FiltersInv, TypeInv
  <1>3. GraphInv(g')
    <2>1. CASE g' = Popped
      BY <1>1, <2>1
    <2>2. CASE g' = ReadFrame(FeedPacket(Popped))
      BY <1>1, <1>2, <2>2, FeedPacketKeeps, ReadFrameKeeps
    <2>3. CASE g' = Decode(Popped)
      BY <1>1, <1>2, <2>3, DecodeKeeps
    <2>4. CASE g' = Chain(Popped)
      BY <1>1, <2>4, ChainKeeps
    <2>. QED  BY <2>1, <2>2, <2>3, <2>4 DEF RunFilter
  <1>. QED  BY <1>2, <1>3, GraphStep

\* The wrapper of a user filter
LEMMA RunUserWrapperStep ==
  ASSUME FiltersInv, RunUserWrapper
  PROVE  FiltersInv'
  <1>1. GraphInv(Popped)
    BY PoppedKeeps DEF FiltersInv, RunUserWrapper, Run
  <1>2. /\ UNCHANGED <<queue, owed, position, at_end, segment, role>>
        /\ role \in {"user", "convert"} /\ async_pending \in Seq(Filters)
    BY DEF RunUserWrapper, runRest, demuxVars, fixed, FiltersInv, TypeInv
  <1>3. GraphInv(g')
    BY <1>1, <1>2, WrapUserKeeps DEF RunUserWrapper
  <1>4. async_pending' \in Seq(Filters)
    <2>1. Notify("output_chain") \/ UNCHANGED async_pending
      BY DEF RunUserWrapper, asyncVars
    <2>. QED  BY <1>2, <2>1, NotifyType DEF Filters
  <1>. QED  BY <1>2, <1>3, <1>4, GraphStep

\* The notifications are taken.
LEMMA FlushAsyncStep ==
  ASSUME FiltersInv, FlushAsync
  PROVE  FiltersInv'
  <1>1. /\ UNCHANGED <<queue, owed, position, at_end, segment, role>>
        /\ async_pending' \in Seq(Filters) /\ async_pending \in Seq(Filters) /\ GraphInv(g)
    BY DEF FlushAsync, demuxVars, fixed, FiltersInv, TypeInv
  <1>. DEFINE N == Len(async_pending)
  <1>2. N \in Nat
    BY <1>1, LenProperties
  <1>. DEFINE marked == Marked(g, async_pending, N)
  <1>3. g' = marked[N]
    BY DEF FlushAsync, Marked
  <1>. HIDE DEF N
  <1>4. marked[0] = g /\ \A n \in 1..N : marked[n] = AddPending(marked[n - 1], async_pending[n])
    BY <1>2, MarkedIs
  <1>. HIDE DEF marked
  <1>5. GraphInv(g')
    BY <1>1, <1>3, <1>4, MarkedKeeps DEF N
  <1>. QED  BY <1>1, <1>5, GraphStep

\* A frame that is lost leaves the others.
LEMMA OwedRemoved ==
  ASSUME TypeInv, OwedInv, NEW n \in 1..Len(owed), owed' = RemoveAt(owed, n),
         UNCHANGED position
  PROVE  owed' \in Seq(1..Eof) /\ OwedInv'
  <1>. DEFINE k == Len(owed)
  <1>1. k \in Nat /\ DOMAIN owed = 1..k /\ owed \in Seq(1..Eof)
    BY LenProperties DEF TypeInv
  <1>2. /\ owed' \in Seq(1..Eof) /\ Len(owed') = k - 1
        /\ \A i \in 1..(k - 1) : owed'[i] = IF i < n THEN owed[i] ELSE owed[i + 1]
    BY <1>1, RemovedAt
  <1>3. DOMAIN owed' = 1..(k - 1)
    BY <1>2, LenProperties
  <1>. HIDE DEF k
  <1>4. ASSUME NEW i \in 1..(k - 1)
        PROVE  owed'[i] = Eof \/ owed'[i] < position'
    <2>1. /\ i \in 1..k /\ i + 1 \in 1..k
          /\ owed'[i] = owed[i] \/ owed'[i] = owed[i + 1]
      BY <1>1, <1>2
    <2>2. \A x \in 1..k : owed[x] = Eof \/ owed[x] < position
      BY <1>1 DEF OwedInv
    <2>. QED  BY <2>1, <2>2
  <1>5. ASSUME NEW i \in 1..(k - 1), NEW j \in 1..(k - 1), owed'[i] = owed'[j], owed'[i] # Eof
        PROVE  i = j
    <2>. DEFINE a == IF i < n THEN i ELSE i + 1
                b == IF j < n THEN j ELSE j + 1
    <2>1. a \in 1..k /\ b \in 1..k /\ owed'[i] = owed[a] /\ owed'[j] = owed[b]
      BY <1>1, <1>2
    <2>2. a = b
      <3>. HIDE DEF a, b
      <3>. QED  BY <1>1, <1>5, <2>1 DEF OwedInv
    <2>. QED  BY <2>2
  <1>. QED  BY <1>2, <1>3, <1>4, <1>5 DEF OwedInv

\* A frame that the player has taken leaves the others.
LEMMA OwedTail ==
  ASSUME TypeInv, OwedInv, owed # <<>>, owed' = Tail(owed), UNCHANGED position
  PROVE  owed' \in Seq(1..Eof) /\ OwedInv'
  <1>. DEFINE k == Len(owed)
  <1>1. k \in Nat /\ DOMAIN owed = 1..k /\ owed \in Seq(1..Eof)
    BY LenProperties DEF TypeInv
  <1>2. /\ owed' \in Seq(1..Eof) /\ Len(owed') = k - 1
        /\ \A i \in 1..Len(owed') : owed'[i] = owed[i + 1]
    BY <1>1, HeadTailProperties
  <1>3. DOMAIN owed' = 1..(k - 1)
    BY <1>2, LenProperties
  <1>. HIDE DEF k
  <1>4. \A i \in 1..(k - 1) : owed'[i] = owed[i + 1] /\ i + 1 \in 1..k
    BY <1>1, <1>2
  <1>5. \A i \in 1..(k - 1) : owed'[i] = Eof \/ owed'[i] < position'
    BY <1>1, <1>4 DEF OwedInv
  <1>6. ASSUME NEW i \in 1..(k - 1), NEW j \in 1..(k - 1), owed'[i] = owed'[j], owed'[i] # Eof
        PROVE  i = j
    <2>1. i + 1 = j + 1
      BY <1>1, <1>4, <1>6 DEF OwedInv
    <2>. QED  BY <2>1
  <1>. QED  BY <1>2, <1>3, <1>5, <1>6 DEF OwedInv

\* A packet that has been read, and an end, are new among the others.
LEMMA OwedAppended ==
  ASSUME TypeInv, OwedInv, NEW f, owed' = Append(owed, f),
         \/ f = Eof /\ position' = position
         \/ f = position /\ position <= Packets /\ position' = position + 1
  PROVE  owed' \in Seq(1..Eof) /\ OwedInv'
  <1>. DEFINE k == Len(owed)
  <1>1. k \in Nat /\ DOMAIN owed = 1..k /\ owed \in Seq(1..Eof) /\ position \in Nat
        /\ Eof = Packets + 1 /\ Packets \in Nat /\ \A i \in 1..k : owed[i] \in 1..Eof
    BY LenProperties, GraphAssumption DEF TypeInv, Eof
  <1>2. f \in 1..Eof
    BY <1>1, GraphAssumption DEF TypeInv
  <1>3. /\ owed' \in Seq(1..Eof) /\ Len(owed') = k + 1 /\ owed'[k + 1] = f
        /\ \A i \in 1..k : owed'[i] = owed[i]
    BY <1>1, <1>2, AppendProperties
  <1>4. DOMAIN owed' = 1..(k + 1)
    BY <1>3, LenProperties
  <1>. HIDE DEF k
  <1>5. \A i \in 1..(k + 1) : i \in 1..k \/ i = k + 1
    BY <1>1
  <1>6. \A i \in 1..k : owed[i] = Eof \/ owed[i] < position
    BY <1>1 DEF OwedInv
  <1>7. \A i \in 1..(k + 1) : owed'[i] = Eof \/ owed'[i] < position'
    BY <1>1, <1>3, <1>5, <1>6
  <1>8. \A i, j \in 1..k : owed'[i] = owed'[j] /\ owed'[i] # Eof => i = j
    BY <1>1, <1>3 DEF OwedInv
  <1>9. \A i \in 1..k : owed'[i] # Eof => owed'[i] # f
    BY <1>1, <1>3, <1>6
  <1>10. \A i, j \in 1..(k + 1) : owed'[i] = owed'[j] /\ owed'[i] # Eof => i = j
    BY <1>3, <1>5, <1>8, <1>9
  <1>. QED  BY <1>3, <1>4, <1>7, <1>10 DEF OwedInv

\* The user filter, and its failure
LEMMA RunUserFilterStep ==
  ASSUME FiltersInv, RunUserFilter
  PROVE  FiltersInv'
  <1>. DEFINE s == Popped
              q == IF s.req["from_filter"] THEN Request(s, "to_filter") ELSE s
              f == q.data["to_filter"]
  <1>1. GraphInv(s)
    BY PoppedKeeps DEF FiltersInv, RunUserFilter, Run
  <1>2. /\ UNCHANGED <<queue, position, at_end, segment, role, async_pending>>
        /\ async_pending \in Seq(Filters) /\ queue \in Seq(1..Packets)
    BY DEF RunUserFilter, runRest, asyncVars, demuxVars, fixed, FiltersInv, TypeInv
  <1>. HIDE DEF s
  <1>3. CASE g' = Transfer(s, "from_filter", "to_filter") /\ UNCHANGED owed
    <2>1. GraphInv(g')
      BY <1>1, <1>3, TransferKeeps DEF Passes
    <2>. QED  BY <1>2, <1>3, <2>1, GraphStep
  <1>4. CASE /\ q.req["from_filter"] /\ f \in 1..Packets /\ ~q.disabled
             /\ g' = MarkFailed(Take(q, "to_filter"))
             /\ owed' = RemoveAt(owed, CHOOSE n \in DOMAIN owed : owed[n] = f)
    <2>1. s.req["from_filter"]
      BY <1>4
    <2>2. q = s
      <3>1. s \in States /\ "to_filter" \in Links
        BY <1>1 DEF GraphInv, Links
      <3>2. f = s.data["to_filter"]
        <4>1. Request(s, "to_filter").data = s.data
          BY <3>1, RequestIs
        <4>. QED  BY <2>1, <4>1
      <3>3. f # Nothing
        BY <1>4 DEF Nothing
      <3>. QED  BY <3>2, <3>3 DEF Request, HasData
    <2>3. f = s.data["to_filter"] /\ f \in 1..Packets /\ ~s.disabled
          /\ g' = MarkFailed(Take(s, "to_filter"))
      BY <1>4, <2>2
    <2>. HIDE DEF q, f
    <2>4. /\ GraphOk(g') /\ ~s.failed_conversion /\ ~g'.failed_conversion
          /\ \E p, r \in Seq(Frames) : /\ InFlight(s) = Around(p, f, r)
                                       /\ InFlight(g') = Joined(p, r)
      BY <1>1, <1>2, <2>1, <2>3, FilterFails
    <2>5. PICK p \in Seq(Frames), r \in Seq(Frames) :
            InFlight(s) = Around(p, f, r) /\ InFlight(g') = Joined(p, r)
      BY <2>4
    <2>6. owed = InFlight(s)
      BY <1>1, <2>4 DEF GraphInv
    <2>. DEFINE n == Len(p) + 1
    <2>7. n \in 1..Len(owed) /\ owed[n] = f /\ RemoveAt(owed, n) = Joined(p, r)
      <3>1. f \in Frames
        BY <2>3, FramesAre
      <3>. QED  BY <2>5, <2>6, <3>1, RemovedBetween
    <2>. HIDE DEF n
    <2>8. (CHOOSE m \in DOMAIN owed : owed[m] = f) = n
      <3>1. f # Eof
        BY <2>3, GraphAssumption DEF Eof
      <3>2. DOMAIN owed = 1..Len(owed)
        BY LenProperties DEF FiltersInv, TypeInv
      <3>. QED  BY <2>7, <3>1, <3>2 DEF FiltersInv, OwedInv
    <2>9. owed' = RemoveAt(owed, n) /\ owed' = Joined(p, r)
      BY <1>4, <2>7, <2>8 DEF f
    <2>10. owed' \in Seq(1..Eof) /\ OwedInv'
      BY <1>2, <2>7, <2>9, OwedRemoved DEF FiltersInv
    <2>11. TypeInv' /\ FileEndInv'
      BY <1>2, <2>4, <2>10 DEF FiltersInv, TypeInv, FileEndInv, GraphOk
    <2>12. GraphInv(g)'
      <3>1. Protocol(g)' /\ Decoding(g)' /\ IsInjective(g.pending)' /\ g' \in States
        BY <2>4 DEF GraphOk, Protocol, Decoding
      <3>2. Draining(g)'
        BY <1>2, <2>4 DEF GraphOk, Draining, LastWasEof, Ended, Plain
      <3>3. Failing(g)'
        BY <1>2, <2>4 DEF GraphOk, Failing
      <3>4. owed' = InFlight(g)'
        BY <1>2, <2>5, <2>9 DEF InFlight, ToDecode
      <3>. QED  BY <3>1, <3>2, <3>3, <3>4 DEF GraphInv
    <2>. QED  BY <2>10, <2>11, <2>12 DEF FiltersInv
  <1>. QED  BY <1>3, <1>4 DEF RunUserFilter, s

\* mp_filter_run returns.
LEMMA RunEndsStep ==
  ASSUME FiltersInv, RunEnds
  PROVE  FiltersInv'
  <1>. DEFINE e == (ret = "filled") /\ g.external
  <1>1. /\ UNCHANGED <<queue, owed, position, at_end, segment, role, async_pending>>
        /\ async_pending \in Seq(Filters) /\ GraphInv(g)
    BY DEF RunEnds, asyncVars, demuxVars, fixed, FiltersInv, TypeInv
  <1>2. g' = [g EXCEPT !.external = e] /\ e \in BOOLEAN
    BY DEF RunEnds
  <1>. HIDE DEF e
  <1>3. /\ g' \in States /\ g'.data = g.data /\ g'.req = g.req /\ SameRest(g', g)
        /\ g'.pending = g.pending
    BY <1>1, <1>2 DEF GraphInv, States, SameRest
  <1>4. GraphInv(g')
    BY <1>1, <1>3, PendingOnly DEF GraphInv
  <1>. QED  BY <1>1, <1>4, GraphStep

\* fill_audio_out_buffers
LEMMA FillStep ==
  ASSUME FiltersInv, Fill
  PROVE  FiltersInv'
  <1>1. /\ UNCHANGED <<queue, owed, position, at_end, segment, role, async_pending>>
        /\ async_pending \in Seq(Filters) /\ GraphInv(g)
    BY DEF Fill, coreRest, asyncVars, demuxVars, fixed, FiltersInv, TypeInv
  <1>2. GraphInv(Request(g, "chain"))
    BY <1>1, RequestKeeps DEF Links
  <1>3. GraphInv(g')
    BY <1>1, <1>2 DEF Fill
  <1>. QED  BY <1>1, <1>3, GraphStep

\* A step of another part
LEMMA NothingOfGraph ==
  ASSUME FiltersInv,
         UNCHANGED <<g, queue, owed, position, segment, role>>, UNCHANGED at_end \/ FileEndInv',
         async_pending' \in Seq(Filters)
  PROVE  FiltersInv'
  <1>1. GraphInv(g')
    BY DEF FiltersInv
  <1>. QED  BY <1>1, GraphStep

\* Waking and waiting, the audio output, notifications, and the end of the file
LEMMA OthersStep ==
  ASSUME FiltersInv, Wakes \/ OutputTakes \/ DemuxNotifies \/ DemuxEnds \/ UNCHANGED graphVars
  PROVE  FiltersInv'
  <1>. USE DEF FiltersInv, TypeInv, coreRest, asyncVars, demuxVars, fixed, coreVars
  <1>1. CASE Wakes \/ OutputTakes \/ UNCHANGED graphVars
    BY <1>1, NothingOfGraph DEF Wakes, OutputTakes, graphVars
  <1>2. CASE DemuxNotifies
    <2>1. async_pending' \in Seq(Filters)
      BY <1>2, NotifyType DEF DemuxNotifies, Filters
    <2>. QED  BY <1>2, <2>1, NothingOfGraph DEF DemuxNotifies
  <1>3. CASE DemuxEnds
    <2>1. FileEndInv'
      BY <1>3 DEF DemuxEnds, Changed, FileEndInv
    <2>2. UNCHANGED <<g, queue, owed, position, segment, role, async_pending>>
      BY <1>3 DEF DemuxEnds, Changed
    <2>. QED  BY <2>1, <2>2, NothingOfGraph
  <1>. QED  BY <1>1, <1>2, <1>3

\* What is on its way, with x from the queue
Back(s, x) ==
  Ahead(s.data["chain"], Ahead(s.data["out"], Ahead(s.data["from_filter"],
    Ahead(s.data["to_filter"], Ahead(s.data["in"], Ahead(s.data["decoded"],
      Ahead(Ends(s, s.data["frames"]), s.decoding \o
        Ahead(Ends(s, IF s.draining THEN Eof ELSE Nothing),
          Ahead(Ends(s, s.data["to_decoder"]),
            Ahead(s.packet, Ahead(s.new_segment, x)))))))))))

\* Everything on its way is ahead of the queue, also after a step.
LEMMA FlightIs ==
  /\ \A s : InFlight(s) = Back(s, Ahead(s.data["packets"], queue))
  /\ InFlight(g)' = Back(g', Ahead(g'.data["packets"], queue'))
  <1>1. \A s : InFlight(s) = Back(s, Ahead(s.data["packets"], queue))
    BY DEF InFlight, ToDecode, Back
  <1>2. InFlight(g)' = Back(g', Ahead(g'.data["packets"], queue'))
    BY DEF InFlight, ToDecode, Back
  <1>. QED  BY <1>1, <1>2

\* y is x with e at its end.
Longer(x, y, e) == x \in Seq(Frames) /\ y \in Seq(Frames) /\ y = Append(x, e)

\* A frame in front makes no difference to what comes at the end,
LEMMA AheadLonger ==
  ASSUME NEW f \in Frames, NEW e \in Frames, NEW x, NEW y, Longer(x, y, e)
  PROVE  Longer(Ahead(f, x), Ahead(f, y), e)
  <1>0. x \in Seq(Frames) /\ y = Append(x, e) /\ y \in Seq(Frames)
    BY DEF Longer
  <1>1. Append(<<f>> \o x, e) = <<f>> \o Append(x, e)
    BY <1>0
  <1>2. Ahead(f, y) = Append(Ahead(f, x), e)
    BY <1>0, <1>1 DEF Ahead
  <1>3. Ahead(f, x) \in Seq(Frames) /\ Ahead(f, y) \in Seq(Frames)
    BY <1>0, AheadType
  <1>. QED  BY <1>2, <1>3 DEF Longer

\* nor do the frames in the decoder,
LEMMA DecodingLonger ==
  ASSUME NEW d \in Seq(Frames), NEW e \in Frames, NEW x, NEW y, Longer(x, y, e)
  PROVE  Longer(d \o x, d \o y, e)
  <1>0. x \in Seq(Frames) /\ y = Append(x, e) /\ y \in Seq(Frames)
    BY DEF Longer
  <1>1. d \o y = Append(d \o x, e)
    BY <1>0
  <1>2. d \o x \in Seq(Frames) /\ d \o y \in Seq(Frames)
    BY <1>0, ConcatProperties
  <1>. QED  BY <1>1, <1>2 DEF Longer

\* nor does all that is between the demuxer and the player.
LEMMA BackLonger ==
  ASSUME NEW s \in States, NEW e \in Frames, NEW x, NEW y, Longer(x, y, e)
  PROVE  Longer(Back(s, x), Back(s, y), e)
  <1>1. /\ \A l \in Links : s.data[l] \in Frames
        /\ s.packet \in Frames /\ s.new_segment \in Frames /\ s.decoding \in Seq(Frames)
    BY GraphAssumption DEF States, Frames, Eof
  <1>2. \A f \in Frames : Ends(s, f) \in Frames
    BY FramesAre DEF Ends
  <1>. DEFINE end == IF s.draining THEN Eof ELSE Nothing
              a(u) == Ahead(Ends(s, end), Ahead(Ends(s, s.data["to_decoder"]),
                        Ahead(s.packet, Ahead(s.new_segment, u))))
              b(u) == Ahead(Ends(s, s.data["frames"]), s.decoding \o a(u))
              c(u) == Ahead(s.data["chain"], Ahead(s.data["out"], Ahead(s.data["from_filter"],
                        Ahead(s.data["to_filter"], Ahead(s.data["in"],
                          Ahead(s.data["decoded"], u))))))
  <1>3. end \in Frames
    BY FramesAre
  <1>. HIDE DEF end
  <1>4. Longer(a(x), a(y), e)
    BY <1>1, <1>2, <1>3, AheadLonger DEF Links
  <1>. HIDE DEF a
  <1>5. Longer(s.decoding \o a(x), s.decoding \o a(y), e)
    BY <1>1, <1>4, DecodingLonger
  <1>6. Longer(b(x), b(y), e)
    <2>1. Ends(s, s.data["frames"]) \in Frames
      BY <1>1, <1>2 DEF Links
    <2>. QED  BY <1>5, <2>1, AheadLonger
  <1>. HIDE DEF b
  <1>7. Longer(c(b(x)), c(b(y)), e)
    BY <1>1, <1>6, AheadLonger DEF Links
  <1>8. \A u : Back(s, u) = c(b(u))
    BY DEF Back, a, b, end
  <1>. HIDE DEF c
  <1>. QED  BY <1>7, <1>8

\* The demuxer's thread has read a packet.
LEMMA DemuxStep ==
  ASSUME FiltersInv, Demux
  PROVE  FiltersInv'
  <1>1. /\ UNCHANGED <<g, segment, role, async_pending>> /\ ~at_end'
        /\ position <= Packets /\ position' = position + 1
        /\ queue' = Append(queue, position) /\ owed' = Append(owed, position)
    BY DEF Demux, Changed, asyncVars, fixed
  <1>2. /\ TypeInv /\ FileEndInv /\ OwedInv /\ GraphInv(g) /\ g \in States
        /\ queue \in Seq(1..Packets) /\ position \in Nat /\ position \in 1..Packets
        /\ position' \in 1..(Packets + 1)
    BY <1>1, GraphAssumption DEF FiltersInv, TypeInv
  <1>3. owed' \in Seq(1..Eof) /\ OwedInv'
    BY <1>1, <1>2, OwedAppended
  <1>4. /\ queue' \in Seq(1..Packets) /\ queue' # <<>>
        /\ Head(queue') = IF queue = <<>> THEN position ELSE Head(queue)
    BY <1>1, <1>2
  <1>5. TypeInv' /\ FileEndInv'
    BY <1>1, <1>2, <1>3, <1>4 DEF TypeInv, FileEndInv
  <1>6. GraphInv(g)'
    <2>1. Protocol(g)' /\ Decoding(g)' /\ IsInjective(g.pending)' /\ g' \in States
      BY <1>1, <1>2 DEF GraphInv, Protocol, Decoding
    <2>2. Draining(g)'
      BY <1>1, <1>2, <1>4 DEF GraphInv, Draining, LastWasEof, Ended, Plain
    <2>3. Failing(g)'
      BY <1>1, <1>2 DEF GraphInv, Failing
    <2>4. ~g'.failed_conversion => owed' = InFlight(g)'
      <3>. DEFINE k == g.data["packets"]
      <3>1. k \in Frames /\ position \in Frames
        BY <1>2, FramesAre DEF States, Links
      <3>2. Longer(queue, queue', position)
        <4>1. queue \in Seq(Frames) /\ queue' \in Seq(Frames)
          BY <1>2, <1>4, GraphAssumption DEF Frames, Eof
        <4>. QED  BY <1>1, <4>1 DEF Longer
      <3>. HIDE DEF k
      <3>3. Longer(Ahead(k, queue), Ahead(k, queue'), position)
        BY <3>1, <3>2, AheadLonger
      <3>4. Longer(Back(g, Ahead(k, queue)), Back(g, Ahead(k, queue')), position)
        BY <1>2, <3>1, <3>3, BackLonger
      <3>5. InFlight(g) = Back(g, Ahead(k, queue)) /\ InFlight(g)' = Back(g, Ahead(k, queue'))
        BY <1>1, FlightIs DEF k
      <3>. QED  BY <1>1, <1>2, <3>4, <3>5 DEF GraphInv, Longer
    <2>. QED  BY <2>1, <2>2, <2>3, <2>4 DEF GraphInv
  <1>. QED  BY <1>3, <1>5, <1>6 DEF FiltersInv

\* demux_in gives a packet, or an end.
Given(s, f, b) == [Write(s, "packets", f) EXCEPT !.eof_returned = b]

\* What that comes to: of all the state only this connection.
IsGiven(t, s, f, b) ==
  /\ t \in States /\ IsInjective(t.pending) /\ Protocol(t) /\ Decoding(t) /\ Failing(t)
  /\ (Ended(t) <=> Ended(s)) /\ (LastWasEof(t) <=> LastWasEof(s))
  /\ t.packet = s.packet /\ t.new_segment = s.new_segment /\ t.decoding = s.decoding
  /\ (t.draining <=> s.draining) /\ (t.eof_flag <=> s.eof_flag) /\ (t.eof_returned <=> b)
  /\ (t.failed_conversion <=> s.failed_conversion)
  /\ t.data["packets"] = f /\ t.data["to_decoder"] = s.data["to_decoder"]
  /\ s.data["packets"] = Nothing
  /\ \A x : Back(t, x) = Back(s, x)

\* demux_in writes, where nothing was before.
LEMMA GivesPacket ==
  ASSUME NEW s, GraphInv(s), s.req["packets"], NEW f \in Frames, f # Nothing,
         NEW b \in BOOLEAN
  PROVE  IsGiven(Given(s, f, b), s, f, b)
  <1>. DEFINE t == Given(s, f, b)
  <1>. DEFINE w == Write(s, "packets", f)
  <1>1. s \in States /\ "packets" \in Links /\ s.data["packets"] = Nothing
    BY DEF GraphInv, Protocol, Links
  <1>2. /\ w \in States /\ SameRest(w, s)
        /\ w.data = [s.data EXCEPT !["packets"] = f] /\ w.req = [s.req EXCEPT !["packets"] = FALSE]
        /\ IsInjective(w.pending)
    BY <1>1, WritingIs DEF GraphInv
  <1>. HIDE DEF w
  <1>3. t = [w EXCEPT !.eof_returned = b]
    BY DEF w, Given
  <1>. HIDE DEF t
  <1>4. /\ t \in States /\ t.data = w.data /\ t.req = w.req /\ t.pending = w.pending
        /\ t.packet = w.packet /\ t.new_segment = w.new_segment /\ t.decoding = w.decoding
        /\ (t.draining <=> w.draining) /\ (t.eof_flag <=> w.eof_flag) /\ (t.eof_returned <=> b)
        /\ (t.failed <=> w.failed) /\ (t.disabled <=> w.disabled)
        /\ (t.failed_conversion <=> w.failed_conversion)
    BY ONLY <1>2, <1>3, b \in BOOLEAN DEF States
  <1>5. /\ t.packet = s.packet /\ t.new_segment = s.new_segment /\ t.decoding = s.decoding
        /\ (t.draining <=> s.draining) /\ (t.eof_flag <=> s.eof_flag)
        /\ (t.failed <=> s.failed) /\ (t.disabled <=> s.disabled)
        /\ (t.failed_conversion <=> s.failed_conversion)
    BY <1>2, <1>4 DEF SameRest
  <1>6. \A l \in Links : /\ t.data[l] = IF l = "packets" THEN f ELSE s.data[l]
                         /\ t.req[l] <=> l # "packets" /\ s.req[l]
    BY <1>1, <1>2, <1>4 DEF States
  <1>7. Protocol(t)
    BY <1>6 DEF GraphInv, Protocol
  <1>8. Decoding(t)
    BY <1>5, <1>6 DEF GraphInv, Decoding, Links
  <1>9. Failing(t)
    BY <1>5, <1>6 DEF GraphInv, Failing, Links
  <1>10. /\ t.data["packets"] = f
         /\ \A l \in Links \ {"packets"} : t.data[l] = s.data[l]
    BY <1>1, <1>6
  <1>11. (Ended(t) <=> Ended(s)) /\ (LastWasEof(t) <=> LastWasEof(s))
    BY <1>5, <1>10 DEF Ended, LastWasEof, Links
  <1>12. \A x : Back(t, x) = Back(s, x)
    BY <1>5, <1>10 DEF Back, Ends, Links
  <1>13. t.data["to_decoder"] = s.data["to_decoder"]
    BY <1>10 DEF Links
  <1>. QED  BY <1>1, <1>2, <1>4, <1>5, <1>7, <1>8, <1>9, <1>10, <1>11, <1>12, <1>13
       DEF IsGiven, t

\* f_demux_in: a packet of the queue, or the end of the file, is passed on.
LEMMA RunDemuxStep ==
  ASSUME FiltersInv, RunDemux
  PROVE  FiltersInv'
  <1>1. GraphInv(Popped)
    BY PoppedKeeps DEF FiltersInv, RunDemux, Run
  <1>2. /\ UNCHANGED <<position, at_end, segment, role, async_pending>>
        /\ async_pending \in Seq(Filters) /\ queue \in Seq(1..Packets)
        /\ TypeInv /\ FileEndInv /\ OwedInv
        /\ Popped.req = g.req /\ Popped.data = g.data /\ Popped.eof_returned = g.eof_returned
    BY DEF RunDemux, runRest, asyncVars, fixed, FiltersInv, TypeInv, Popped
  <1>. DEFINE s == Popped
  <1>. HIDE DEF s
  <1>3. CASE g' = Popped /\ UNCHANGED <<queue, owed>>
    BY <1>1, <1>2, <1>3, GraphStep
  <1>4. CASE /\ g.req["packets"] /\ queue # <<>>
             /\ g' = [Write(Popped, "packets", Head(queue)) EXCEPT !.eof_returned = FALSE]
             /\ queue' = Tail(queue) /\ UNCHANGED owed
    <2>. DEFINE f == Head(queue)
    <2>1. /\ f \in 1..Packets /\ f \in Frames /\ f # Nothing /\ f # Eof
          /\ Tail(queue) \in Seq(1..Packets)
      <3>1. f \in 1..Packets /\ Tail(queue) \in Seq(1..Packets)
        BY <1>2, <1>4, HeadTailProperties
      <3>. QED  BY <3>1, FramesAre, GraphAssumption DEF Nothing, Eof
    <2>2. <<f>> \o Tail(queue) = queue
      BY <1>2, <1>4
    <2>. HIDE DEF f
    <2>3. /\ g' = Given(s, f, FALSE)
          /\ GraphInv(s) /\ s.req["packets"] /\ FALSE \in BOOLEAN
      BY <1>1, <1>2, <1>4 DEF s, f, Given
    <2>4. /\ g' \in States /\ IsInjective(g'.pending) /\ Protocol(g') /\ Decoding(g')
          /\ Failing(g') /\ (Ended(g') <=> Ended(s)) /\ (LastWasEof(g') <=> LastWasEof(s))
          /\ g'.packet = s.packet /\ g'.new_segment = s.new_segment
          /\ g'.decoding = s.decoding
          /\ (g'.draining <=> s.draining) /\ (g'.eof_flag <=> s.eof_flag)
          /\ ~g'.eof_returned /\ (g'.failed_conversion <=> s.failed_conversion)
          /\ g'.data["packets"] = f /\ g'.data["to_decoder"] = s.data["to_decoder"]
          /\ s.data["packets"] = Nothing
          /\ \A x : Back(g', x) = Back(s, x)
      <3>1. IsGiven(Given(s, f, FALSE), s, f, FALSE)
        BY <2>1, <2>3, GivesPacket
      <3>2. IsGiven(g', s, f, FALSE)
        BY <2>3, <3>1
      <3>. QED  BY <3>2 DEF IsGiven
    <2>5. TypeInv' /\ FileEndInv' /\ OwedInv'
      BY <1>2, <1>4, <2>1, <2>4 DEF TypeInv, FileEndInv, OwedInv
    <2>6. Protocol(g)' /\ Decoding(g)'
      BY <2>4 DEF Protocol, Decoding
    <2>7. Draining(g)'
      <3>1. LastWasEof(s) => Plain(f)
        BY <1>2, <1>4, <2>1, <2>3, <2>4 DEF GraphInv, Draining, Plain, f, s
      <3>. QED  BY <1>2, <2>1, <2>3, <2>4, <3>1 DEF GraphInv, Draining, Ended, LastWasEof, Plain
    <2>8. Failing(g)'
      BY <1>2, <2>4 DEF Failing
    <2>9. ~g'.failed_conversion => owed' = InFlight(g)'
      <3>1. InFlight(g)' = Back(s, queue)
        BY <1>4, <2>1, <2>2, <2>4, FlightIs DEF Ahead
      <3>2. InFlight(s) = Back(s, queue)
        BY <2>4, FlightIs DEF Ahead
      <3>. QED  BY <1>4, <2>3, <2>4, <3>1, <3>2 DEF GraphInv
    <2>. QED  BY <2>4, <2>5, <2>6, <2>7, <2>8, <2>9 DEF FiltersInv, GraphInv
  <1>5. CASE /\ g.req["packets"] /\ queue = <<>> /\ UNCHANGED queue
             /\ at_end /\ ~g.eof_returned
             /\ g' = [Write(Popped, "packets", Eof) EXCEPT !.eof_returned = TRUE]
             /\ owed' = Append(owed, Eof)
    <2>1. /\ g' = Given(s, Eof, TRUE)
          /\ GraphInv(s) /\ s.req["packets"] /\ TRUE \in BOOLEAN /\ ~s.eof_returned
      BY <1>1, <1>2, <1>5 DEF s, Given
    <2>2. /\ g' \in States /\ IsInjective(g'.pending) /\ Protocol(g') /\ Decoding(g')
          /\ Failing(g') /\ (Ended(g') <=> Ended(s)) /\ (LastWasEof(g') <=> LastWasEof(s))
          /\ g'.packet = s.packet /\ g'.new_segment = s.new_segment
          /\ g'.decoding = s.decoding
          /\ (g'.draining <=> s.draining) /\ (g'.eof_flag <=> s.eof_flag)
          /\ g'.eof_returned /\ (g'.failed_conversion <=> s.failed_conversion)
          /\ g'.data["packets"] = Eof /\ g'.data["to_decoder"] = s.data["to_decoder"]
          /\ s.data["packets"] = Nothing
          /\ \A x : Back(g', x) = Back(s, x)
      <3>1. IsGiven(Given(s, Eof, TRUE), s, Eof, TRUE)
        BY <2>1, FramesAre, GivesPacket
      <3>2. IsGiven(g', s, Eof, TRUE)
        BY <2>1, <3>1
      <3>. QED  BY <3>2 DEF IsGiven
    <2>3. owed' \in Seq(1..Eof) /\ OwedInv'
      BY <1>2, <1>5, OwedAppended
    <2>4. TypeInv' /\ FileEndInv'
      BY <1>2, <1>5, <2>2, <2>3 DEF TypeInv, FileEndInv
    <2>5. Protocol(g)' /\ Decoding(g)'
      BY <2>2 DEF Protocol, Decoding
    <2>6. Draining(g)'
      <3>1. ~LastWasEof(s)
        BY <2>1, <2>2 DEF GraphInv, Draining
      <3>2. position <= Packets => segment[position] = 0
        BY <1>2, <1>5 DEF FileEndInv
      <3>. QED  BY <1>2, <1>5, <2>1, <2>2, <3>1, <3>2
             DEF GraphInv, Draining, Ended, LastWasEof, Plain
    <2>7. Failing(g)'
      BY <1>2, <2>2 DEF Failing
    <2>8. ~g'.failed_conversion => owed' = InFlight(g)'
      <3>1. Longer(<<>>, <<Eof>>, Eof)
        BY FramesAre DEF Longer
      <3>2. Ahead(Nothing, queue) = <<>> /\ Ahead(Eof, queue) = <<Eof>>
        BY <1>5, FramesAre DEF Ahead
      <3>3. Longer(Back(s, <<>>), Back(s, <<Eof>>), Eof)
        BY <2>1, <3>1, FramesAre, BackLonger DEF GraphInv
      <3>4. InFlight(g)' = Back(s, <<Eof>>)
        BY <1>5, <2>2, <3>2, FlightIs
      <3>5. InFlight(s) = Back(s, <<>>)
        BY <1>5, <2>2, <3>2, FlightIs
      <3>. QED  BY <1>5, <2>1, <2>2, <3>3, <3>4, <3>5 DEF GraphInv, Longer
    <2>. QED  BY <2>2, <2>3, <2>4, <2>5, <2>6, <2>7, <2>8 DEF FiltersInv, GraphInv
  <1>. QED  BY <1>3, <1>4, <1>5 DEF RunDemux

\* copy_output: the player takes what has arrived, which is the first of all on its way.
LEMMA FilledStep ==
  ASSUME FiltersInv, Filled
  PROVE  FiltersInv'
  <1>. DEFINE f == g.data["chain"]
  <1>1. /\ UNCHANGED <<queue, position, at_end, segment, role, async_pending>>
        /\ g' = Take(g, "chain")
        /\ owed' = IF f = Nothing \/ g.failed_conversion THEN owed ELSE Tail(owed)
    BY DEF Filled, coreRest, asyncVars, demuxVars, fixed
  <1>2. /\ TypeInv /\ FileEndInv /\ OwedInv /\ GraphInv(g) /\ g \in States /\ "chain" \in Links
        /\ f \in Frames /\ queue \in Seq(1..Packets)
    BY DEF FiltersInv, TypeInv, GraphInv, States, Links
  <1>3. /\ g' \in States /\ SameRest(g', g) /\ g'.pending = g.pending
        /\ g'.data = [g.data EXCEPT !["chain"] = Nothing] /\ g'.req = g.req
    BY <1>1, <1>2, TakeIs
  <1>4. \A l \in Links : g'.data[l] = IF l = "chain" THEN Nothing ELSE g.data[l]
    BY <1>2, <1>3 DEF States
  <1>5. Protocol(g)' /\ IsInjective(g.pending)'
    BY <1>2, <1>3, <1>4 DEF GraphInv, Protocol
  <1>6. /\ Decoding(g') /\ Draining(g')
        /\ ToDecode(g') = ToDecode(g) /\ Ends(g', g'.data["frames"]) = Ends(g, g.data["frames"])
    <2>1. SameDecoder(g', g)
      BY <1>3, <1>4 DEF SameDecoder, DecoderLinks, Links
    <2>. QED  BY <1>2, <2>1, DecoderKept DEF GraphInv
  <1>7. Decoding(g)' /\ Draining(g)' /\ ToDecode(g)' = ToDecode(g')
    BY <1>1, <1>6 DEF Decoding, Draining, LastWasEof, Ended, Plain, ToDecode
  <1>8. Failing(g)'
    BY <1>1, <1>2, <1>3, <1>4 DEF GraphInv, Failing, SameRest, Links
  <1>. DEFINE rest == Ahead(g.data["out"], Ahead(g.data["from_filter"],
                        Ahead(g.data["to_filter"], Ahead(g.data["in"], Ahead(g.data["decoded"],
                          Ahead(Ends(g, g.data["frames"]), g.decoding \o ToDecode(g)))))))
  <1>9. InFlight(g) = Ahead(f, rest) /\ InFlight(g)' = rest
    <2>1. InFlight(g)' = InFlight(g')
      BY <1>7 DEF InFlight
    <2>2. InFlight(g') = rest
      BY <1>3, <1>4, <1>6 DEF InFlight, Ahead, Links, SameRest
    <2>. QED  BY <2>1, <2>2 DEF InFlight
  <1>10. rest \in Seq(Frames)
    <2>1. \A l \in Links : g.data[l] \in Frames
      BY <1>2 DEF States
    <2>2. Ends(g, g.data["frames"]) \in Frames
      BY <2>1, FramesAre DEF Ends, Links
    <2>3. g.decoding \in Seq(Frames)
      BY <1>2, GraphAssumption DEF States, Frames, Eof
    <2>4. g.decoding \o ToDecode(g) \in Seq(Frames)
      BY <1>2, <2>3, ToDecodeType, ConcatProperties
    <2>. QED  BY <2>1, <2>2, <2>4, AheadType DEF Links
  <1>. HIDE DEF rest, f
  <1>11. ~g'.failed_conversion => owed' = InFlight(g)'
    <2>. SUFFICES ASSUME ~g.failed_conversion PROVE owed' = rest
      BY <1>3, <1>9 DEF SameRest
    <2>1. CASE f = Nothing
      BY <1>1, <1>2, <1>9, <2>1 DEF Ahead, GraphInv
    <2>2. CASE f # Nothing
      <3>1. owed = <<f>> \o rest
        BY <1>2, <1>9, <2>2 DEF Ahead, GraphInv
      <3>2. Tail(<<f>> \o rest) = rest
        BY <1>2, <1>10
      <3>. QED  BY <1>1, <2>2, <3>1, <3>2
    <2>. QED  BY <2>1, <2>2
  <1>12. owed' \in Seq(1..Eof) /\ OwedInv'
    <2>1. CASE f = Nothing \/ g.failed_conversion
      BY <1>1, <1>2, <2>1 DEF TypeInv, OwedInv
    <2>2. CASE f # Nothing /\ ~g.failed_conversion
      <3>1. owed # <<>>
        <4>1. owed = <<f>> \o rest
          BY <1>2, <1>9, <2>2 DEF Ahead, GraphInv
        <4>2. <<f>> \o rest # <<>>
          BY <1>2, <1>10
        <4>. QED  BY <4>1, <4>2
      <3>. QED  BY <1>1, <1>2, <2>2, <3>1, OwedTail
    <2>. QED  BY <2>1, <2>2
  <1>13. TypeInv' /\ FileEndInv'
    BY <1>1, <1>2, <1>3, <1>12 DEF TypeInv, FileEndInv
  <1>. QED  BY <1>3, <1>5, <1>7, <1>8, <1>11, <1>12, <1>13 DEF FiltersInv, GraphInv

\* What a reset of all filters leaves of the decoder
LEMMA ResetDecoderIs ==
  ASSUME NEW c \in States, \A l \in Links : c.data[l] = Nothing /\ ~c.req[l]
  PROVE  LET r == ResetDecoder(c)
         IN /\ r \in States /\ r.pending = c.pending /\ r.packet = Nothing
            /\ r.new_segment = Nothing /\ r.decoding = <<>> /\ ~r.draining /\ ~r.eof_flag
            /\ r.failed = c.failed /\ r.disabled = c.disabled
            /\ r.failed_conversion = c.failed_conversion
            /\ \A l \in Links : r.data[l] = Nothing /\ ~r.req[l]
  <1>. DEFINE r == ResetDecoder(c)
              k == Clear(c, {"to_decoder", "frames"})
  <1>1. /\ k \in States /\ SameRest(k, c) /\ k.pending = c.pending
        /\ \A l \in Links : k.data[l] = Nothing /\ ~k.req[l]
    BY ClearIs
  <1>. HIDE DEF k
  <1>2. r = [k EXCEPT !.packet = Nothing, !.new_segment = Nothing, !.start = 0,
                      !.decoding = <<>>, !.draining = FALSE, !.eof_flag = FALSE]
    BY DEF ResetDecoder, k
  <1>3. Nothing \in 0..Packets /\ Nothing \in Frames /\ <<>> \in Seq(1..Packets) /\ 0 \in Nat
    BY FramesAre, GraphAssumption DEF Nothing
  <1>. HIDE DEF r
  <1>4. /\ r \in States /\ r.pending = k.pending /\ r.packet = Nothing
        /\ r.new_segment = Nothing /\ r.decoding = <<>> /\ ~r.draining /\ ~r.eof_flag
        /\ r.failed = k.failed /\ r.disabled = k.disabled
        /\ r.failed_conversion = k.failed_conversion /\ r.data = k.data /\ r.req = k.req
    <2>0. k \in States
      BY <1>1
    <2>1. r \in States
      BY ONLY <2>0, <1>2, <1>3 DEF States
    <2>2. /\ r.pending = k.pending /\ r.packet = Nothing
          /\ r.new_segment = Nothing /\ r.decoding = <<>> /\ ~r.draining /\ ~r.eof_flag
      BY ONLY <2>0, <1>2 DEF States
    <2>3. /\ r.failed = k.failed /\ r.disabled = k.disabled
          /\ r.failed_conversion = k.failed_conversion /\ r.data = k.data /\ r.req = k.req
      BY ONLY <2>0, <1>2 DEF States
    <2>. QED  BY <2>1, <2>2, <2>3
  <1>. QED  BY <1>1, <1>4 DEF SameRest, r

\* A seek drops all that is on its way.
LEMMA SeekStep ==
  ASSUME FiltersInv, NEW p \in 1..Packets, Seek(p)
  PROVE  FiltersInv'
  <1>. DEFINE c == Clear(g, Links)
              r == ResetDecoder(c)
  <1>1. /\ UNCHANGED <<segment, role, async_pending>> /\ ~at_end'
        /\ queue' = <<>> /\ owed' = <<>> /\ position' = p
        /\ g' = [r EXCEPT !.eof_returned = FALSE, !.error_eof_sent = FALSE]
    BY DEF Seek, ResetAll, asyncVars, fixed
  <1>2. TypeInv /\ GraphInv(g) /\ g \in States
    BY DEF FiltersInv, GraphInv
  <1>3. /\ c \in States /\ SameRest(c, g) /\ c.pending = g.pending
        /\ \A l \in Links : c.data[l] = Nothing /\ ~c.req[l]
    BY <1>2, ClearIs
  <1>. HIDE DEF c
  <1>5. /\ r \in States /\ r.pending = c.pending /\ r.packet = Nothing
        /\ r.new_segment = Nothing /\ r.decoding = <<>> /\ ~r.draining /\ ~r.eof_flag
        /\ r.failed = c.failed /\ r.disabled = c.disabled
        /\ r.failed_conversion = c.failed_conversion
        /\ \A l \in Links : r.data[l] = Nothing /\ ~r.req[l]
    BY <1>3, ResetDecoderIs
  <1>. HIDE DEF r
  <1>6. /\ g' \in States /\ g'.pending = r.pending /\ g'.packet = Nothing
        /\ g'.new_segment = Nothing /\ g'.decoding = <<>> /\ ~g'.draining /\ ~g'.eof_flag
        /\ ~g'.eof_returned /\ g'.failed = r.failed /\ g'.disabled = r.disabled
        /\ g'.failed_conversion = r.failed_conversion
        /\ g'.data = r.data /\ g'.req = r.req
    BY <1>1, <1>5 DEF States
  <1>7. \A l \in Links : g'.data[l] = Nothing /\ ~g'.req[l]
    BY <1>5, <1>6
  <1>8. TypeInv' /\ FileEndInv' /\ OwedInv'
    <2>1. p \in 1..(Packets + 1) /\ <<>> \in Seq(1..Packets) /\ <<>> \in Seq(1..Eof)
      BY GraphAssumption
    <2>2. owed' = <<>> /\ DOMAIN owed' = {}
      BY <1>1
    <2>. QED  BY <1>1, <1>2, <1>6, <2>1, <2>2 DEF TypeInv, FileEndInv, OwedInv
  <1>9. Protocol(g)' /\ IsInjective(g.pending)'
    BY <1>2, <1>3, <1>5, <1>6, <1>7 DEF GraphInv, Protocol
  <1>10. Decoding(g)'
    BY <1>6, <1>7, FramesAre DEF Decoding, Links
  <1>11. Draining(g)'
    BY <1>6, <1>7, FramesAre DEF Draining, Ended, LastWasEof, Links
  <1>12. Failing(g)'
    BY <1>1, <1>2, <1>3, <1>5, <1>6, <1>7 DEF GraphInv, Failing, SameRest, Links
  <1>13. InFlight(g)' = <<>>
    <2>1. ToDecode(g)' = <<>>
      BY <1>1, <1>6, <1>7 DEF ToDecode, Ahead, Ends, Links
    <2>2. <<>> \o <<>> = <<>>
      OBVIOUS
    <2>. QED  BY <1>6, <1>7, <2>1, <2>2 DEF InFlight, Ahead, Ends, Links
  <1>. QED  BY <1>1, <1>6, <1>8, <1>9, <1>10, <1>11, <1>12, <1>13 DEF FiltersInv, GraphInv

\* Every step keeps the invariant.
LEMMA NextKeeps == FiltersInv /\ [GraphNext]_graphVars => FiltersInv'
  <1>. SUFFICES ASSUME FiltersInv, [GraphNext]_graphVars PROVE FiltersInv'
    OBVIOUS
  <1>1. CASE Core
    BY <1>1, FlushAsyncStep, RunFilterStep, RunUserWrapperStep, RunUserFilterStep,
       RunDemuxStep, RunEndsStep, FillStep, FilledStep, OthersStep DEF Core
  <1>2. CASE Demux
    BY <1>2, DemuxStep
  <1>3. CASE OutputTakes \/ DemuxEnds \/ DemuxNotifies \/ UNCHANGED graphVars
    BY <1>3, OthersStep
  <1>4. CASE \E p \in 1..Packets : Seek(p)
    BY <1>4, SeekStep
  <1>. QED  BY <1>1, <1>2, <1>3, <1>4 DEF GraphNext

-------------------------------------------------------------------------------

\* The types of the filters' state, and what is true between two runs of a filter, for
\* every number of packets, of segments and of packets that the decoder keeps back.
THEOREM FiltersInvariant == GraphSpec => []FiltersInv
  BY InitHolds, NextKeeps, PTL DEF GraphSpec

\* All that was read arrives in order and once (filter.c, f_decoder_wrapper.c,
\* f_output_chain.c, f_demux_in.c): what is owed to the player is what is on its way to it,
\* pins keep to their protocol, and the decoder is not fed while it has to be drained.
THEOREM PlaybackInOrder == GraphSpec => []FramesInOrder
  <1>1. FiltersInv => FramesInOrder
    BY DEF FiltersInv, GraphInv, FramesInOrder, Protocol, Decoding, HasData
  <1>. QED  BY <1>1, FiltersInvariant, PTL

\* No packet is on its way twice, and none before the demuxer has read it, through seeks,
\* ends of file and failures (f_demux_in.c, mp_filter_reset).
THEOREM NoPacketTwice == GraphSpec => []OwedInv
  <1>1. FiltersInv => OwedInv
    BY DEF FiltersInv
  <1>. QED  BY <1>1, FiltersInvariant, PTL
===============================================================================
