-------------------------------- MODULE Shutdown --------------------------------
(***************************************************************************)
(* The end of a player core that is used through the client API            *)
(* (player/client.c): handles are created and destroyed, the last strong   *)
(* handle or mpv_terminate_destroy brings the core down, and the core      *)
(* thread waits in mp_shutdown_clients until handles and commands are gone.*)
(*                                                                         *)
(* The dispatch queue is reduced to what Dispatch shows of it: locks are   *)
(* granted and items are run while the core is in mp_wait_events, and only *)
(* mp_wakeup_core or a timeout makes that return. ClientEvents has the     *)
(* details of the event queue.                                             *)
(***************************************************************************)
EXTENDS Integers, Sequences, FiniteSets

CONSTANTS
  Clients,     (* mpv_handles, each created and destroyed once              *)
  Main,        (* the one that mpv_create returns                           *)
  Weak,        (* those that mpv_create_weak_client creates                 *)
  Requesters,  (* bound: clients that have an asynchronous command, one each *)
  Detached,    (* commands without a client that waits for the reply        *)
  Capacity,    (* of an event queue (max_events)                            *)
  MaxSends     (* bound: other events that the core sends                   *)

ASSUME ShutdownAssumption ==
  /\ IsFiniteSet(Clients) /\ IsFiniteSet(Detached) /\ Clients \cap Detached = {}
  /\ Main \in Clients /\ Weak \subseteq Clients \ {Main}
  /\ Requesters \subseteq Clients
  /\ Capacity \in Nat \ {0} /\ MaxSends \in Nat

VARIABLES
  clients,                (* clients->clients                                 *)
  is_weak,                (* those that can not keep the core alive           *)
  creating,               (* the handle that a call with this one is creating *)
  cpc,                    (* where the thread that uses a handle is           *)
  terminate,              (* mpv_terminate_destroy was called for it          *)
  queue, choked,          (* its events                                       *)
  shutdown_masked,        (* MPV_EVENT_SHUTDOWN was cleared from event_mask   *)
  received,               (* MPV_EVENT_SHUTDOWN has been returned to the user *)
  work,                   (* the asynchronous command of a client, or another *)
  cancelled,              (* its mp_cancel was triggered                      *)
  outstanding_async,
  abort_all,
  have_terminator, shutting_down, terminate_core_thread,
  stop_play,              (* is PT_QUIT                                       *)
  core,                   (* where the core thread is                         *)
  interrupted,            (* mp_wakeup_core was called                        *)
  late,                   (* two seconds of mp_shutdown_clients are over      *)
  sends

eventVars == <<queue, choked, shutdown_masked, received, sends>>
workVars == <<work, cancelled, outstanding_async, abort_all>>
sharedVars == <<have_terminator, shutting_down, terminate_core_thread, stop_play>>
coreVars == <<core, interrupted, late>>
clientVars == <<clients, is_weak, creating, cpc, terminate>>
vars == <<clientVars, eventVars, workVars, sharedVars, coreVars>>

Works == Clients \cup Detached
ClientPCs == {"absent", "new", "running", "creating", "quit", "drain", "lock",
              "terminate", "join", "gone"}
CorePCs == {"play", "test", "abort", "broadcast", "wait", "exited", "freed"}

Init ==
  /\ clients = {Main} /\ is_weak = {}
  /\ creating = [c \in Clients |-> c]
  /\ terminate = [c \in Clients |-> FALSE]
  /\ cpc = [c \in Clients |-> IF c = Main THEN "running" ELSE "absent"]
  /\ queue = [c \in Clients |-> <<>>]
  /\ choked = [c \in Clients |-> FALSE]
  /\ shutdown_masked = [c \in Clients |-> FALSE]
  /\ received = [c \in Clients |-> FALSE]
  /\ work = [w \in Works |-> "none"]
  /\ cancelled = [w \in Works |-> FALSE]
  /\ outstanding_async = 0
  /\ abort_all = FALSE
  /\ have_terminator = FALSE /\ shutting_down = FALSE
  /\ terminate_core_thread = FALSE /\ stop_play = FALSE
  /\ core = "play" /\ interrupted = FALSE /\ late = FALSE
  /\ sends = 0

\* The core thread is in mp_wait_events, and runs and grants what is asked for.
CoreServes == core \in {"play", "wait"}

At(c, from, to) == cpc[c] = from /\ cpc' = [cpc EXCEPT ![c] = to]

Reserved(c) == IF work[c] \in {"queued", "running"} THEN 1 ELSE 0
Full(c) == Len(queue[c]) + Reserved(c) >= Capacity

(***************************************************************************)
(* Commands                                                                *)
(***************************************************************************)

\* mpv_command_async: reserve_reply and mp_dispatch_enqueue.
Request(c) ==
  /\ c \in Requesters
  /\ cpc[c] = "running" /\ work[c] = "none"
  /\ ~Full(c) /\ ~choked[c]
  /\ work' = [work EXCEPT ![c] = "queued"]
  /\ UNCHANGED <<clientVars, eventVars, cancelled, outstanding_async, abort_all,
                 sharedVars, coreVars>>

\* Mutant: mp_abort_add does not call mp_abort_recheck_locked.
AbortAddUnchecked(w) == UNCHANGED cancelled

\* mp_abort_add.
AbortAdd(w) == cancelled' = [cancelled EXCEPT ![w] = abort_all]

\* run_command of a command with spawn_thread and can_abort.
RunCommand(w) ==
  /\ AbortAdd(w)
  /\ work' = [work EXCEPT ![w] = "running"]
  /\ outstanding_async' = outstanding_async + 1
  /\ UNCHANGED <<clientVars, eventVars, abort_all, sharedVars, coreVars>>

\* No worker can be had: the command fails, and is completed at once.
FailCommand(w) ==
  /\ work' = [work EXCEPT ![w] = "done"]
  /\ UNCHANGED <<clientVars, eventVars, cancelled, outstanding_async, abort_all,
                 sharedVars, coreVars>>

\* async_cmd_fn, on the core thread.
StartRequest(c) ==
  /\ CoreServes /\ work[c] = "queued"
  /\ RunCommand(c) \/ FailCommand(c)

\* A client, with the core locked, starts a command it does not wait for.
StartDetached(c, w) ==
  /\ CoreServes /\ cpc[c] = "running" /\ work[w] = "none"
  /\ RunCommand(w)

\* The end of run_command_on_worker_thread, with the core locked. (The reply, for
\* which there is room, is not put into the queue here.)
FinishCommand(w) ==
  /\ CoreServes /\ work[w] = "running"
  /\ work' = [work EXCEPT ![w] = "done"]
  /\ outstanding_async' = outstanding_async - 1
  /\ cancelled' = [cancelled EXCEPT ![w] = FALSE]
  /\ interrupted' = (interrupted \/ (outstanding_async = 1 /\ shutting_down))
  /\ UNCHANGED <<clientVars, eventVars, abort_all, sharedVars, core, late>>

(***************************************************************************)
(* Events                                                                  *)
(***************************************************************************)

\* The core sends some other event: send_event.
SendOther(c) ==
  /\ core \in {"play", "wait"} /\ sends < MaxSends
  /\ c \in clients
  /\ sends' = sends + 1
  /\ IF Full(c) \/ choked[c]
     THEN choked' = [choked EXCEPT ![c] = TRUE] /\ UNCHANGED queue
     ELSE queue' = [queue EXCEPT ![c] = Append(@, "other")] /\ UNCHANGED choked
  /\ UNCHANGED <<clientVars, shutdown_masked, received, workVars, sharedVars,
                 coreVars>>

\* mpv_wait_event returns an event.
ReadEvent(c) ==
  /\ cpc[c] = "running"
  /\ \/ /\ queue[c] # <<>>
        /\ queue' = [queue EXCEPT ![c] = Tail(@)]
        /\ received' = [received EXCEPT ![c] = @ \/ Head(queue[c]) = "shutdown"]
        /\ UNCHANGED choked
     \/ /\ queue[c] = <<>> /\ choked[c]
        /\ choked' = [choked EXCEPT ![c] = FALSE]
        /\ UNCHANGED <<queue, received>>
  /\ UNCHANGED <<clientVars, shutdown_masked, sends, workVars, sharedVars, coreVars>>

(***************************************************************************)
(* Handles                                                                 *)
(***************************************************************************)

\* mp_new_client, called with the handle c. It fails once the core is shutting down.
\* The rest of mpv_create_weak_client is SetWeak.
Create(c, new) ==
  /\ ~shutting_down
  /\ cpc[c] = "running" /\ cpc[new] = "absent"
  /\ clients' = clients \cup {new}
  /\ IF new \in Weak
     THEN /\ cpc' = [cpc EXCEPT ![c] = "creating", ![new] = "new"]
          /\ creating' = [creating EXCEPT ![c] = new]
     ELSE /\ cpc' = [cpc EXCEPT ![new] = "running"]
          /\ UNCHANGED creating
  /\ UNCHANGED <<is_weak, terminate, eventVars, workVars, sharedVars, coreVars>>

\* mp_client_set_weak: until here, the new handle is a strong one.
SetWeak(c) ==
  /\ cpc[c] = "creating"
  /\ cpc' = [cpc EXCEPT ![c] = "running", ![creating[c]] = "running"]
  /\ is_weak' = is_weak \cup {creating[c]}
  /\ creating' = [creating EXCEPT ![c] = c]
  /\ UNCHANGED <<clients, terminate, eventVars, workVars, sharedVars, coreVars>>

\* mpv_terminate_destroy, up to the end of its quit command.
Quit(c) ==
  /\ CoreServes
  /\ At(c, "running", "quit")
  /\ terminate' = [terminate EXCEPT ![c] = TRUE]
  /\ stop_play' = TRUE
  /\ interrupted' = TRUE
  /\ UNCHANGED <<clients, is_weak, creating, eventVars, workVars, have_terminator,
                 shutting_down, terminate_core_thread, core, late>>

\* abort_async for a handle: commands that are still in the dispatch queue are not in
\* abort_list, and will not be cancelled.
Abort(c) == cancelled' = [cancelled EXCEPT ![c] = @ \/ work[c] = "running"]

\* mp_destroy_client, up to the wait for asynchronous requests.
Destroy(c) ==
  /\ At(c, "quit", "drain") \/ At(c, "running", "drain")
  /\ Abort(c)
  /\ UNCHANGED <<clients, is_weak, creating, terminate, eventVars, work,
                 outstanding_async, abort_all, sharedVars, coreVars>>

\* It was asked to, or the last strong handle is gone.
Terminates(c) == terminate[c] \/ clients \ {c} \subseteq is_weak

\* Mutant: the requests are not waited for.
NotWaitedFor(c) == TRUE

\* mpv_wait_async_requests has returned.
AllReplied(c) == Reserved(c) = 0

BecomeTerminator(c) ==
  LET now == Terminates(c) /\ ~have_terminator
  IN /\ cpc' = [cpc EXCEPT ![c] = IF now THEN "lock" ELSE "gone"]
     /\ have_terminator' = (have_terminator \/ now)

\* The handle is removed and freed; mp_wakeup_core.
Remove(c) ==
  /\ cpc[c] = "drain" /\ AllReplied(c)
  /\ clients' = clients \ {c}
  /\ BecomeTerminator(c)
  /\ interrupted' = TRUE
  /\ UNCHANGED <<is_weak, creating, terminate, eventVars, workVars, shutting_down,
                 terminate_core_thread, stop_play, core, late>>

\* mp_dispatch_lock and mp_dispatch_unlock, and mp_dispatch_run of get_thread.
StopPlay(c) ==
  /\ CoreServes
  /\ At(c, "lock", "terminate")
  /\ stop_play' = TRUE
  /\ UNCHANGED <<clients, is_weak, creating, terminate, eventVars, workVars,
                 have_terminator, shutting_down, terminate_core_thread, coreVars>>

TerminateCore(c) ==
  /\ At(c, "terminate", "join")
  /\ terminate_core_thread' = TRUE
  /\ interrupted' = TRUE
  /\ UNCHANGED <<clients, is_weak, creating, terminate, eventVars, workVars,
                 have_terminator, shutting_down, stop_play, core, late>>

\* pthread_join and mp_destroy.
DestroyCore(c) ==
  /\ core = "exited"
  /\ At(c, "join", "gone")
  /\ core' = "freed"
  /\ UNCHANGED <<clients, is_weak, creating, terminate, eventVars, workVars,
                 sharedVars, interrupted, late>>

(***************************************************************************)
(* The core thread                                                         *)
(***************************************************************************)

\* mp_play_files goes on after mp_wait_events, or ends, being stopped or with all
\* files played. Then mp_shutdown_clients sets its flag and tests for the first time.
PlayEnds(stopped) ==
  /\ core = "play"
  /\ stopped => interrupted /\ stop_play
  /\ core' = "test"
  /\ shutting_down' = TRUE
  /\ interrupted' = (interrupted /\ ~stopped)
  /\ UNCHANGED <<clientVars, eventVars, workVars, have_terminator,
                 terminate_core_thread, stop_play, late>>

\* Mutant: commands without a client are forgotten.
MayExitIgnoringWork == clients = {} /\ terminate_core_thread

\* The condition of the loop in mp_shutdown_clients.
MayExit == clients = {} /\ outstanding_async = 0 /\ terminate_core_thread

CoreTest ==
  /\ core = "test"
  /\ core' = IF MayExit THEN "exited" ELSE "abort"
  /\ UNCHANGED <<clientVars, eventVars, workVars, sharedVars, interrupted, late>>

\* After two seconds everything is aborted, and there is no timeout any more.
CoreAbort(now_late) ==
  /\ core = "abort"
  /\ late => now_late
  /\ late' = now_late
  /\ abort_all' = (abort_all \/ now_late)
  /\ cancelled' = [w \in Works |-> cancelled[w] \/ (now_late /\ work[w] = "running")]
  /\ core' = "broadcast"
  /\ UNCHANGED <<clientVars, eventVars, work, outstanding_async, sharedVars,
                 interrupted>>

\* Mutant: MPV_EVENT_SHUTDOWN stays enabled after it has been sent.
MaskShutdownNot(sent) == UNCHANGED shutdown_masked

\* append_event clears the event from the mask.
MaskShutdown(sent) ==
  shutdown_masked' = [c \in Clients |-> shutdown_masked[c] \/ c \in sent]

NotYetTold == {c \in clients : ~shutdown_masked[c]}

\* mp_client_broadcast_event: MPV_EVENT_SHUTDOWN to those that have not got it yet.
CoreBroadcast ==
  /\ core = "broadcast"
  /\ LET wanted == NotYetTold
         sent == {c \in wanted : ~choked[c] /\ ~Full(c)}
     IN /\ queue' = [c \in Clients |->
                      IF c \in sent THEN Append(queue[c], "shutdown") ELSE queue[c]]
        /\ choked' = [c \in Clients |-> choked[c] \/ c \in wanted \ sent]
        /\ MaskShutdown(sent)
  /\ core' = "wait"
  /\ UNCHANGED <<clientVars, received, sends, workVars, sharedVars, interrupted,
                 late>>

\* mp_wait_events returns, woken or, as long as there is a timeout, by that.
CoreWakes ==
  /\ core = "wait"
  /\ interrupted \/ ~late
  /\ core' = "test"
  /\ interrupted' = FALSE
  /\ late' = (late \/ ~interrupted)
  /\ UNCHANGED <<clientVars, eventVars, workVars, sharedVars>>

CoreStep ==
  \/ PlayEnds(TRUE)
  \/ CoreTest
  \/ \E now_late \in BOOLEAN : CoreAbort(now_late)
  \/ CoreBroadcast
  \/ CoreWakes

TerminatorStep(c) == StopPlay(c) \/ TerminateCore(c) \/ DestroyCore(c)

Next ==
  \/ CoreStep \/ PlayEnds(FALSE)
  \/ \E c \in Clients :
       \/ Request(c) \/ StartRequest(c) \/ \E w \in Detached : StartDetached(c, w)
       \/ SendOther(c) \/ ReadEvent(c)
       \/ \E new \in Clients : Create(c, new)
       \/ SetWeak(c)
       \/ Quit(c) \/ Destroy(c) \/ Remove(c)
       \/ TerminatorStep(c)
  \/ \E w \in Works : FinishCommand(w)

Spec == Init /\ [][Next]_vars

(***************************************************************************)
(* Clients read their events and destroy their handle when they are told   *)
(* to. A command need not end before it is aborted. Locks of the core are  *)
(* granted while it waits, which it does nearly all the time.              *)
(***************************************************************************)
Fairness ==
  /\ WF_vars(CoreStep)
  /\ \A c \in Clients :
       /\ WF_vars(StartRequest(c))
       /\ WF_vars(ReadEvent(c))
       /\ WF_vars(SetWeak(c))
       /\ WF_vars((received[c] \/ terminate[c]) /\ Destroy(c))
       /\ WF_vars(Remove(c))
       /\ WF_vars(TerminatorStep(c))
  /\ \A w \in Works : WF_vars(cancelled[w] /\ FinishCommand(w))

FairSpec == Spec /\ Fairness

(***************************************************************************)
(* Properties                                                              *)
(***************************************************************************)

TypeOK ==
  /\ clients \subseteq Clients /\ is_weak \subseteq Clients
  /\ cpc \in [Clients -> ClientPCs] /\ creating \in [Clients -> Clients]
  /\ \A f \in {terminate, choked, shutdown_masked, received} :
       f \in [Clients -> BOOLEAN]
  /\ queue \in [Clients -> Seq({"other", "shutdown"})]
  /\ work \in [Works -> {"none", "queued", "running", "done"}]
  /\ cancelled \in [Works -> BOOLEAN]
  /\ outstanding_async \in 0..Cardinality(Works)
  /\ \A b \in {abort_all, have_terminator, shutting_down, terminate_core_thread,
              stop_play, interrupted, late} : b \in BOOLEAN
  /\ core \in CorePCs
  /\ sends \in 0..MaxSends

\* A reply always finds its handle: mp_destroy_client waits for every request, also
\* for those that are still in the dispatch queue.
RepliesReachHandle == \A c \in Clients : Reserved(c) = 1 => c \in clients

\* At most one handle destroys the core, and when the last handle is gone there is
\* one that does.
Terminators == {c \in Clients : cpc[c] \in {"lock", "terminate", "join"}}
OneTerminator ==
  /\ Cardinality(Terminators) <= 1
  /\ clients = {} /\ core # "freed" => Terminators # {}
  /\ core = "freed" => Terminators = {}

\* The core thread ends after everything that uses the core.
CoreOutlivesUsers ==
  core \in {"exited", "freed"} =>
    clients = {} /\ \A w \in Works : work[w] \in {"none", "done"}

\* A handle gets MPV_EVENT_SHUTDOWN once, however often it is broadcast.
ShutdownCount(c) == Cardinality({i \in DOMAIN queue[c] : queue[c][i] = "shutdown"})
ShutdownOnce ==
  \A c \in Clients : ShutdownCount(c) + (IF received[c] THEN 1 ELSE 0) <= 1

\* The end comes once and in order: one handle destroys the core, after the core
\* thread, which ends after all that uses it.
EndInOrder == TypeOK /\ OneTerminator /\ CoreOutlivesUsers

\* After a quit command or mpv_terminate_destroy, every handle that is there is told
\* of it, and all handles and the core go away, although commands need not end by
\* themselves, and some have been started after their client had tried to abort them.
QuitEnds ==
  LET Untold == \E c \in Clients : cpc[c] = "running" /\ ~received[c]
  IN  /\ shutting_down /\ Untold ~> ~Untold
      /\ stop_play ~> clients = {} /\ core = "freed"
===============================================================================
