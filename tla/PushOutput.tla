------------------------------ MODULE PushOutput ------------------------------
(***************************************************************************)
(* Audio output to a device that is fed (audio/out/push.c): the player     *)
(* puts samples into a buffer, and a thread of the output moves them to    *)
(* the driver. Both work under one lock and sleep on one condition         *)
(* variable. The driver is that of ao_null.c, which counts samples; the    *)
(* player is the end of fill_audio_out_buffers (player/audio.c), with all  *)
(* its samples decoded. One action is one time the lock is held.           *)
(***************************************************************************)
EXTENDS Integers, Sequences, FiniteSetsExt

CONSTANTS
  Size,         (* samples in the soft buffer, ao->buffer                   *)
  DeviceSize,   (* samples in the device, ao->device_buffer                 *)
  Period,       (* ao->period_size: the driver takes multiples of it        *)
  Margin,       (* what get_space keeps in reserve (64 samples)             *)
  Drivers,      (* "plain"; "blocked": initially blocked (ao_lavc.c);
                   "silence": with ao->stream_silence                       *)
  MaxSamples,   (* bound: samples the player has to play                    *)
  MaxCommands,  (* bound: calls of ao_pause and ao_reset                    *)
  MaxFaults     (* bound: writes that the device refuses                    *)

PushOutputAssumption ==
  /\ {Size, DeviceSize, Period} \subseteq Nat \ {0}
  /\ Period <= DeviceSize
  /\ Drivers \subseteq {"plain", "blocked", "silence"}
  /\ {Margin, MaxSamples, MaxCommands, MaxFaults} \subseteq Nat

VARIABLES
  buffer,         (* p->buffer; a sample is its number                      *)
  allocated,      (* how many it has room for                               *)
  still_playing, wait_on_ao, need_wakeup, paused, initial_unblocked,
  final_chunk, terminate,       (* ao_push_state, as named there            *)
  expected_end,   (* p->expected_end_time: "none", in the future ("set"),
                     "now" or "past"                                        *)

  push_driver,
  device,         (* priv->buffered of ao_null.c                            *)
  device_paused,  (* priv->paused of ao_null.c                              *)
  faults,         (* writes refused so far                                  *)

  thread,         (* the thread: "wait", "at_end" (that of the playback, but
                     no timeout), "timed" and "device" without the lock,
                     "ready" when it wants it back, "again" with it         *)
  call,           (* the player: what it has called                         *)
  playsize,       (* what ao_get_space has told it                          *)
  next,           (* samples it has handed over so far                      *)
  core_paused,    (* mpctx->paused                                          *)
  woken,          (* the player has been woken, and will look at the AO     *)
  status,         (* mpctx->audio_status: "playing", "draining" or "eof"    *)
  commands,       (* how many it has called, up to MaxCommands              *)
  heard           (* history: the samples given to the driver               *)

data == <<buffer, allocated, heard>>
ending == <<still_playing, expected_end, final_chunk>>
fixed == <<initial_unblocked, terminate, push_driver>>
waiting == <<wait_on_ao, need_wakeup, thread>>
hardware == <<device, device_paused, faults>>
output == <<data, ending, fixed, waiting, paused, hardware>>
filling == <<playsize, next, status>>
player == <<call, filling, core_paused, woken, commands>>

vars == <<output, player>>

Init ==
  /\ buffer = <<>> /\ allocated = Size
  /\ still_playing = FALSE /\ wait_on_ao = FALSE /\ need_wakeup = FALSE
  /\ paused = FALSE /\ initial_unblocked = FALSE
  /\ final_chunk = FALSE /\ terminate = FALSE
  /\ expected_end = "none"
  /\ push_driver \in Drivers
  /\ device = 0 /\ device_paused = FALSE /\ faults = 0
  /\ thread = "start"
  /\ call = "none" /\ playsize = 0 /\ next = 0
  /\ core_paused = FALSE /\ woken = TRUE /\ status = "playing"
  /\ commands = 0
  /\ heard = <<>>

LockFree == thread # "again"

AtLeast(a, b) == Max({a, b})
AtMost(a, b) == Min({a, b})

WholePeriods(n) == (n \div Period) * Period

Blocked == push_driver = "blocked" /\ ~initial_unblocked

\* wakeup_playthread: the thread leaves whatever it waits for.
WakeThread ==
  /\ need_wakeup' = TRUE
  /\ thread' = IF thread \in {"wait", "at_end", "timed", "device"}
               THEN "ready" ELSE thread

(***************************************************************************)
(* Space                                                                   *)
(***************************************************************************)

DeviceSpace == WholePeriods(DeviceSize - device)

WriteAvailable == allocated - Len(buffer)

\* unlocked_get_space: with so many samples in the buffer and the device, fill
\* both together up to ao->buffer, and the device in any case.
SpaceWith(soft, dev) ==
  LET device_space == WholePeriods(DeviceSize - dev)
      missing == Size + Margin - (DeviceSize - device_space) - soft
  IN AtLeast(0, AtMost(allocated - soft,
                       AtLeast(missing, device_space - soft)))

Space == SpaceWith(Len(buffer), device)

(***************************************************************************)
(* The player's thread                                                     *)
(***************************************************************************)

\* It has been woken, and asks how much it should write.
GetSpace ==
  /\ call = "none" /\ LockFree /\ woken /\ ~core_paused /\ status # "eof"
  /\ playsize' = Space
  /\ call' = "fill" /\ woken' = FALSE
  /\ UNCHANGED <<output, next, status, core_paused, commands>>

\* What it decodes: one that is short of that is at the end of the file.
Remaining == MaxSamples - next
Samples == AtMost(Remaining, playsize)
AudioEof == Remaining < playsize

\* ao_play. What does not fit is left to the player, and then the chunk is not
\* the final one.
PlayChunk(samples) ==
  LET write == AtMost(WriteAvailable, samples)
      is_final == AudioEof /\ write = samples
      got_data == write > 0 \/ paused \/ final_chunk # is_final
  IN /\ buffer' = buffer \o [i \in 1..samples |-> next + i]
     /\ allocated' = AtLeast(allocated, Len(buffer'))
     /\ next' = next + write
     /\ final_chunk' = is_final
     /\ paused' = FALSE
     /\ IF got_data
        THEN /\ still_playing' = TRUE
             /\ expected_end' = "none"
             /\ WakeThread
        ELSE UNCHANGED <<still_playing, expected_end, need_wakeup, thread>>

\* Never more than playsize: audio that is dropped or repeated for video's sake, which
\* may be more, needs display_sync_active, and nothing sets that.
Play ==
  /\ call = "fill" /\ LockFree /\ Samples > 0
  /\ PlayChunk(Samples)
  /\ status' = "playing"
  /\ call' = "none" /\ playsize' = 0
  /\ UNCHANGED <<fixed, hardware, heard, wait_on_ao, core_paused, woken,
                 commands>>

\* Nothing to write: at the end of the file, it asks if all has been played.
GetEof ==
  /\ call = "fill" /\ LockFree /\ Samples = 0
  /\ status' = IF ~AudioEof THEN "playing"
               ELSE IF still_playing THEN "draining" ELSE "eof"
  /\ call' = "none" /\ playsize' = 0
  /\ UNCHANGED <<output, next, core_paused, woken, commands>>

Pause ==
  /\ call = "none" /\ LockFree /\ ~core_paused /\ commands < MaxCommands
  /\ core_paused' = TRUE /\ commands' = commands + 1
  /\ device_paused' = TRUE
  /\ paused' = TRUE
  /\ WakeThread
  /\ UNCHANGED <<data, ending, fixed, filling, wait_on_ao, device, faults,
                 call, woken>>

EndAsBefore == expected_end

\* The time it was computed for has passed meanwhile.
EndAfterResume == "none"

Resume ==
  /\ call = "none" /\ LockFree /\ core_paused
  /\ core_paused' = FALSE /\ woken' = TRUE
  /\ device_paused' = FALSE
  /\ paused' = FALSE /\ expected_end' = EndAfterResume
  /\ WakeThread
  /\ UNCHANGED <<data, fixed, filling, still_playing, final_chunk, wait_on_ao,
                 device, faults, call, commands>>

\* reset of push.c, in ao_reset and at the end of ao_drain.
DropAll ==
  /\ device' = 0
  /\ buffer' = <<>>
  /\ paused' = FALSE
  /\ still_playing' = FALSE
  /\ IF still_playing THEN WakeThread ELSE UNCHANGED <<need_wakeup, thread>>
  /\ UNCHANGED <<fixed, allocated, heard, expected_end, final_chunk,
                 wait_on_ao, device_paused, faults>>

\* After a seek there is more to play.
Reset ==
  /\ call = "none" /\ LockFree /\ commands < MaxCommands
  /\ commands' = commands + 1
  /\ DropAll
  /\ status' = "playing" /\ woken' = TRUE
  /\ UNCHANGED <<call, playsize, next, core_paused>>

\* ao_drain, until it waits or needs not wait.
Drain ==
  /\ call = "none" /\ LockFree
  /\ IF paused
     THEN call' = "drained" /\ UNCHANGED <<final_chunk, need_wakeup, thread>>
     ELSE /\ final_chunk' = TRUE    \* what is less than a period is played too
          /\ WakeThread
          /\ call' = IF still_playing /\ buffer # <<>>
                     THEN "drain" ELSE "drain_device"
  /\ UNCHANGED <<data, fixed, hardware, filling, still_playing, expected_end,
                 wait_on_ao, paused, core_paused, woken, commands>>

DrainSignalled ==
  /\ call = "signalled" /\ LockFree
  /\ call' = IF still_playing /\ buffer # <<>> THEN "drain" ELSE "drain_device"
  /\ UNCHANGED <<output, filling, core_paused, woken, commands>>

\* It takes too long.
DrainTimeout ==
  /\ call \in {"drain", "signalled"} /\ LockFree
  /\ call' = "drained"
  /\ UNCHANGED <<output, filling, core_paused, woken, commands>>

\* driver->drain sleeps until the device has played all, with the lock.
DrainDevice ==
  /\ call = "drain_device" /\ LockFree
  /\ device' = IF device_paused THEN device ELSE 0
  /\ call' = "drained"
  /\ UNCHANGED <<data, ending, fixed, waiting, filling, paused, device_paused,
                 faults, core_paused, woken, commands>>

DrainReset ==
  /\ call = "drained" /\ LockFree
  /\ DropAll
  /\ call' = "close"
  /\ UNCHANGED <<filling, core_paused, woken, commands>>

\* ao_uninit, after ao_drain or without it.
Uninit ==
  /\ call \in {"none", "close"} /\ LockFree
  /\ terminate' = TRUE
  /\ WakeThread
  /\ call' = "join"
  /\ UNCHANGED <<data, ending, hardware, filling, initial_unblocked,
                 push_driver, wait_on_ao, paused, core_paused, woken,
                 commands>>

Join ==
  /\ call = "join" /\ thread = "ended"
  /\ call' = "closed"
  /\ UNCHANGED <<output, filling, core_paused, woken, commands>>

\* ao_unblock, on the event of a driver that is ready.
Unblock ==
  /\ call = "none" /\ LockFree /\ Blocked
  /\ initial_unblocked' = TRUE
  /\ WakeThread
  /\ UNCHANGED <<data, ending, hardware, terminate, push_driver, wait_on_ao,
                 paused, player>>

\* The player is woken for other reasons.
Poke ==
  /\ ~woken /\ call # "closed"
  /\ woken' = TRUE
  /\ UNCHANGED <<output, filling, call, core_paused, commands>>

(***************************************************************************)
(* The thread: playthread and ao_play_data                                 *)
(***************************************************************************)

Playing == (~paused \/ push_driver = "silence") /\ ~Blocked
PlaySilence == paused \/ (push_driver = "silence" /\ ~still_playing)

\* ao_play_data hands over as much as there is space for.
Maximum == IF PlaySilence THEN DeviceSpace ELSE Len(buffer)
Final == final_chunk /\ Maximum <= DeviceSpace
Write == IF Final THEN Maximum ELSE WholePeriods(AtMost(Maximum, DeviceSpace))

\* What leaves the buffer. The driver has taken all, or refused to take anything;
\* one that refuses the final chunk is thought to ignore the flag, and the chunk
\* is dropped.
Taken(refused) == IF refused /\ ~Final THEN 0 ELSE Write

Stuck(sent) == sent = 0 /\ Maximum >= DeviceSpace /\ DeviceSpace > 0

\* "If we just filled the AO completely, don't refill for a while." What counts
\* as the final chunk, be it empty, asks for nothing.
More(sent) ==
  /\ ~Stuck(sent) /\ ~Final
  /\ SpaceWith(Len(buffer'), device') >=
       (IF sent = DeviceSpace THEN DeviceSize \div 4 ELSE 1)

\* All is with the driver, so it is over when that has played it.
EndSeen(playing_on) == playing_on /\ ~paused /\ final_chunk /\ buffer' = <<>>

\* The time when the device will have played what it has.
EndTime == IF device' = 0 THEN "now" ELSE "set"

TellNobody == UNCHANGED call

TellDrain == call' = IF call = "drain" THEN "signalled" ELSE call

\* The thread waits for the device, if it has something for it. If not, it
\* looks for the end, and wakes a draining player. It sleeps until the end if
\* there is time until then; at the very end, it has no timeout.
Wait(wait_for_device, playing_on, ended, more) ==
  LET over == EndSeen(playing_on) /\ ended = "past"
      end == IF EndSeen(playing_on) /\ ended = "none" THEN EndTime ELSE ended
  IN IF wait_for_device /\ Playing
     THEN /\ thread' = "device"
          /\ still_playing' = playing_on /\ expected_end' = ended
          /\ woken' = (woken \/ more)
          /\ UNCHANGED call
     ELSE /\ still_playing' = (playing_on /\ ~over)
          /\ expected_end' = end
          /\ thread' = IF ~EndSeen(playing_on) \/ over THEN "wait"
                       ELSE IF end = "set" THEN "timed" ELSE "at_end"
          /\ woken' = (woken \/ more \/ over)
          /\ TellDrain

\* One turn of the loop of playthread, until it waits. A wakeup from before the
\* first turn makes it go round again; later ones end its wait.
Turn(wait_for_device, playing_on, ended, more) ==
  /\ wait_on_ao' = wait_for_device
  /\ need_wakeup' = FALSE
  /\ IF need_wakeup /\ thread = "start"
     THEN /\ thread' = "again"
          /\ still_playing' = playing_on /\ expected_end' = ended
          /\ woken' = (woken \/ more)
          /\ UNCHANGED call
     ELSE Wait(wait_for_device, playing_on, ended, more)

AtTop == thread \in {"start", "ready", "again"}

PlayTurn ==
  /\ AtTop /\ ~terminate /\ Playing
  /\ \E refused \in {FALSE, faults < MaxFaults /\ Write > 0} :
       LET sent == Taken(refused)
           unsilent == IF PlaySilence THEN 0 ELSE sent
       IN /\ faults' = faults + (IF refused THEN 1 ELSE 0)
          /\ device' = device + (IF refused THEN 0 ELSE Write)
          /\ buffer' = SubSeq(buffer, unsilent + 1, Len(buffer))
          /\ heard' = heard \o
                        (IF refused THEN <<>> ELSE SubSeq(buffer, 1, unsilent))
          /\ Turn(DeviceSpace = 0 \/ sent > 0 \/ Stuck(sent),
                  still_playing \/ unsilent > 0,
                  IF sent > 0 THEN "none" ELSE expected_end,
                  More(sent))
  /\ device_paused' = (device_paused /\ Write = 0)
  /\ UNCHANGED <<fixed, filling, allocated, final_chunk, paused, core_paused,
                 commands>>

IdleTurn ==
  /\ AtTop /\ ~terminate /\ ~Playing
  /\ UNCHANGED <<hardware, buffer, heard, push_driver>>
  /\ Turn(wait_on_ao, still_playing, expected_end, FALSE)
  /\ UNCHANGED <<filling, allocated, final_chunk, initial_unblocked,
                 terminate, paused, core_paused, commands>>

Terminate ==
  /\ AtTop /\ terminate
  /\ thread' = "ended"
  /\ UNCHANGED <<data, ending, fixed, hardware, wait_on_ao, need_wakeup,
                 paused, player>>

\* It waits for the end with a timeout, and looks at the clock after it.
EndTimeout ==
  /\ thread = "timed" /\ expected_end = "past"
  /\ thread' = "ready" /\ need_wakeup' = FALSE
  /\ UNCHANGED <<data, ending, fixed, hardware, wait_on_ao, paused, player>>

\* driver->wait, or the guess when the device will want more.
DeviceWait ==
  /\ thread = "device"
  /\ thread' = "ready" /\ need_wakeup' = FALSE
  /\ UNCHANGED <<data, ending, fixed, hardware, wait_on_ao, paused, player>>

(***************************************************************************)
(* The device and the clock                                                *)
(***************************************************************************)

DevicePlays ==
  /\ device > 0 /\ ~device_paused
  /\ device' = device - 1
  /\ UNCHANGED <<data, ending, fixed, waiting, paused, device_paused, faults,
                 player>>

\* get_delay tells exactly when the device will have played its samples, but
\* the clock goes on when it is paused.
EndPasses ==
  /\ \/ /\ expected_end = "set" /\ (device = 0 \/ device_paused)
        /\ expected_end' = "now"
     \/ expected_end = "now" /\ expected_end' = "past"
  /\ UNCHANGED <<data, fixed, waiting, hardware, still_playing, final_chunk,
                 paused, player>>

(***************************************************************************)
(* The specification                                                       *)
(***************************************************************************)

ThreadStep == PlayTurn \/ IdleTurn \/ Terminate \/ EndTimeout \/ DeviceWait

Finish == DrainSignalled \/ DrainDevice \/ DrainReset \/ Join
            \/ (call = "close" /\ Uninit)

Next ==
  \/ GetSpace \/ Play \/ GetEof \/ Pause \/ Resume \/ Reset \/ Unblock
  \/ Drain \/ DrainTimeout \/ Finish \/ Uninit \/ Poke
  \/ ThreadStep \/ DevicePlays \/ EndPasses

Spec == Init /\ [][Next]_vars

\* The player goes on when it has been woken, the thread runs, the device plays
\* and the clock goes on. A driver that is blocked is unblocked in the end.
\* Nobody has to pause, reset or close; nothing rests on the drain's timeout.
Fairness ==
  /\ WF_vars(GetSpace) /\ WF_vars(Play) /\ WF_vars(GetEof) /\ SF_vars(Unblock)
  /\ WF_vars(Finish)
  /\ WF_vars(ThreadStep) /\ WF_vars(DevicePlays) /\ WF_vars(EndPasses)

FairSpec == Spec /\ Fairness

(***************************************************************************)
(* Properties                                                              *)
(***************************************************************************)

\* Types and sizes.
TypeOK ==
  /\ Len(buffer) <= allocated /\ allocated >= Size
  /\ {still_playing, wait_on_ao, need_wakeup, paused, initial_unblocked,
      final_chunk, terminate, device_paused, core_paused, woken} \subseteq BOOLEAN
  /\ expected_end \in {"none", "set", "now", "past"}
  /\ push_driver \in Drivers
  /\ device \in 0..DeviceSize /\ faults \in 0..MaxFaults
  /\ thread \in {"start", "ready", "again", "wait", "at_end", "timed", "device",
                 "ended"}
  /\ call \in {"none", "fill", "drain", "signalled", "drain_device", "drained",
               "close", "join", "closed"}
  /\ playsize \in 0..Size /\ next \in 0..MaxSamples
  /\ status \in {"playing", "draining", "eof"}
  /\ commands \in 0..MaxCommands /\ Len(heard) <= MaxSamples

\* The thread and a draining player sleep on the same condition variable, and
\* each is woken by the other alone: with a driver that is not blocked they
\* never both sleep without a timeout.
NoCommonSleep == call = "drain" /\ thread \in {"wait", "at_end"} => Blocked

\* The thread stops to say that it is playing.
EndReported ==
  still_playing /\ ~still_playing' /\ call # "drained" /\ commands' = commands

\* Nobody pauses or closes the output.
Undisturbed == ~core_paused /\ call \in {"none", "fill"}
===============================================================================
