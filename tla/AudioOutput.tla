----------------------------- MODULE AudioOutput ------------------------------
(***************************************************************************)
(* An audio output (audio/out/ao.c). ao_init gives it one of two           *)
(* implementations, by whether its driver is fed or calls for data, and    *)
(* the ao_* functions call that one.                                       *)
(***************************************************************************)
EXTENDS Integers, Sequences

CONSTANTS
  MaxSamples, MaxCommands,                  (* see PullOutput, PushOutput   *)
  NumPlanes, RingSize, Requests, PullDrivers,
  BufferSize, DeviceSize, Period, Margin, PushDrivers, MaxFaults

VARIABLES
  api,                                      (* ao->api: "pull" or "push"    *)
  call, next, heard, core_paused, woken, commands,
  mem, wpos, rpos, state, draining, underflow, driver, running,
  pc, samples, write, final, plane, saw_eof,
  cb_pc, cb_plane, want, buffered, bytes, data,
  buffer, allocated, still_playing, wait_on_ao, need_wakeup, paused,
  initial_unblocked, final_chunk, terminate, expected_end,
  push_driver, device, device_paused, faults, thread, playsize, status

pull_only ==
  <<mem, wpos, rpos, state, draining, underflow, driver, running, pc, samples,
    write, final, plane, saw_eof, cb_pc, cb_plane, want, buffered, bytes, data>>
push_only ==
  <<buffer, allocated, still_playing, wait_on_ao, need_wakeup, paused,
    initial_unblocked, final_chunk, terminate, expected_end, push_driver, device,
    device_paused, faults, thread, playsize, status>>

vars == <<api, call, next, heard, core_paused, woken, commands,
          pull_only, push_only>>

Pull == INSTANCE PullOutput WITH Size <- RingSize, Drivers <- PullDrivers
Push == INSTANCE PushOutput WITH Size <- BufferSize, Drivers <- PushDrivers

ASSUME AudioAssumption == Pull!PullOutputAssumption /\ Push!PushOutputAssumption

\* The driver that is not there is any one.
Init ==
  /\ api \in {"pull", "push"}
  /\ Pull!Init /\ Push!Init
  /\ api = "pull" => push_driver = CHOOSE d \in PushDrivers : TRUE
  /\ api = "push" => driver = CHOOSE d \in PullDrivers : TRUE

PullDoes(Step) == api = "pull" /\ Step /\ UNCHANGED <<api, push_only>>
PushDoes(Step) == api = "push" /\ Step /\ UNCHANGED <<api, pull_only>>

Next == PullDoes(Pull!Next) \/ PushDoes(Push!Next)

Spec == Init /\ [][Next]_vars

\* The fairness of the two (see Fairness there).
FairSpec ==
  /\ Spec
  /\ WF_vars(PullDoes(Pull!PlayerStep)) /\ SF_vars(PullDoes(Pull!SetNone))
  /\ WF_vars(PullDoes(\E n \in 1..MaxSamples : Pull!Play(n)))
  /\ WF_vars(PullDoes(Pull!CbStep))
  /\ WF_vars(PullDoes(\E n \in Requests : Pull!CbBegin(n)))
  /\ WF_vars(PushDoes(Push!GetSpace)) /\ WF_vars(PushDoes(Push!Play))
  /\ WF_vars(PushDoes(Push!GetEof)) /\ SF_vars(PushDoes(Push!Unblock))
  /\ WF_vars(PushDoes(Push!Finish)) /\ WF_vars(PushDoes(Push!ThreadStep))
  /\ WF_vars(PushDoes(Push!DevicePlays)) /\ WF_vars(PushDoes(Push!EndPasses))

(***************************************************************************)
(* Properties                                                              *)
(***************************************************************************)

\* Types and sizes of the one that is used.
TypeOK == IF api = "pull" THEN Pull!TypeOK ELSE Push!TypeOK

\* pull.c: while play() and the callback copy at the same time, they are at
\* different places of a ring, and what play() accepted fits into every plane
\* (the assertion in play()). There is no lock: it follows from the order in
\* which each side goes through the planes.
CopiesApart == TypeOK /\ (api = "pull" => Pull!CopiesApart)

\* push.c: the thread and a draining player sleep on one condition variable, and
\* wake each other. They never both sleep without a timeout.
NoCommonSleep == api = "push" => Push!NoCommonSleep

AQ == INSTANCE AudioQueue WITH
  capacity <- IF api = "pull" THEN RingSize ELSE BufferSize,
  accepted <- next,
  queue <- IF api = "pull" THEN Pull!Queued ELSE buffer,
  heard <- IF api = "pull"
           THEN [i \in 1..Len(heard) |-> Pull!Number(heard[i])] ELSE heard,
  playing <- IF api = "pull" THEN state # "none" ELSE ~paused

\* Both implement the queue of AudioQueue: the device gets the accepted samples
\* in order, once, with all channels in step, none while paused and none from
\* before a reset. What was accepted fits, although the player asks for the
\* space before it decodes, and the other side works in between.
ImplementsAudioQueue == AQ!Spec

\* What is said to be over has been played. A drain() of pull.c that has seen the
\* end drops nothing with its reset; the thread of push.c reports the end only
\* after the device has played all, even if a pause lets the time it had
\* computed for that pass early.
NothingCutOff ==
  [][IF api = "pull"
     THEN Pull!DrainedReset => Pull!Queued = <<>>
     ELSE Push!EndReported => device = 0 /\ buffer = <<>>]_vars

\* pull.c: if the player is not paused or closed for ever, all samples it has are
\* accepted and played or dropped by a reset: the callback wakes it in time, and
\* whoever puts the state to PLAY starts the device. push.c: once the final chunk
\* is accepted, the device gets all, and the player is woken and sees the end,
\* unless the thread looks for the end at the very end: then its timeout is 0, it
\* sleeps without one (push.c:396), and the end is not noticed. A drain ends without
\* its timeout, as the thread plays what is less than a period and tells the player
\* that the buffer is empty, and the thread is joined.
EverythingPlayed ==
  /\ (api = "push" /\ call = "drain" /\ ~Push!Blocked) ~> (call = "closed")
  /\ <>[](IF api = "pull"
       THEN ~core_paused /\ call # "drain"
       ELSE Push!Undisturbed /\ final_chunk /\ next = MaxSamples)
    => <>[](IF api = "pull"
            THEN next = MaxSamples /\ Pull!Queued = <<>>
            ELSE buffer = <<>> /\ (status = "eof" \/ thread = "at_end"))
===============================================================================
