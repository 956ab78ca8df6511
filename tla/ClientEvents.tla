----------------------------- MODULE ClientEvents -----------------------------
(***************************************************************************)
(* The event queue of one mpv_handle (player/client.c): the core and the   *)
(* workers send events and replies into a ring buffer, the API user takes  *)
(* them out with mpv_wait_event, blocking or driven by a wakeup callback,  *)
(* and destroys the handle in the end.                                     *)
(*                                                                         *)
(* One action is one stretch of code under ctx->lock or, inside of         *)
(* wait_wakeup, under ctx->wakeup_lock. The senders take wakeup_lock       *)
(* within ctx->lock; what wait_wakeup does under wakeup_lock commutes with *)
(* the rest of their stretch, which is therefore one action.               *)
(***************************************************************************)
EXTENDS Naturals, Sequences, FiniteSets

CONSTANTS
  EventIds,    (* MPV_EVENT_*, among them Shutdown                         *)
  Shutdown,    (* MPV_EVENT_SHUTDOWN                                       *)
  Requests,    (* asynchronous requests the client can make                *)
  MaxEvents,   (* ctx->max_events                                          *)
  MaxSends     (* bound: how often something is sent, changed or woken     *)

ASSUME ClientEventsAssumption ==
  /\ Shutdown \in EventIds
  /\ IsFiniteSet(Requests) /\ Requests \cap EventIds = {}
  /\ MaxEvents \in Nat \ {0}
  /\ MaxSends \in Nat

VARIABLES
  events,           (* ctx->events                                            *)
  first_event,
  num_events,
  reserved_events,
  choked,
  event_mask,       (* the events the client wants                            *)
  queued_wakeup,
  need_wakeup,
  other,            (* a property change or a log message is there to be read *)
  outstanding,      (* requests that were accepted and not replied to         *)
  made,             (* requests the client has made                           *)
  uses_callback,    (* the user waits for its wakeup_cb instead of blocking   *)
  notified,         (* wakeup_cb was called, and the user has not reacted yet *)
  more,             (* the user got an event, and calls mpv_wait_event again  *)
  deadline,         (* of the call the client is in                           *)
  asleep,           (* in pthread_cond_timedwait, not woken                   *)
  pc,               (* where the client thread is                             *)
  sends

ringVars == <<events, first_event, num_events, reserved_events, choked, event_mask>>
userVars == <<uses_callback, notified, more>>
vars == <<ringVars, queued_wakeup, need_wakeup, other, outstanding, made, userVars,
          deadline, asleep, pc, sends>>

None == "none"
Entries == EventIds \cup Requests

\* The deadline of a call: already over, in the future, or never.
Deadlines == {"past", "future", "never"}

\* In mpv_wait_event: "wait" is before, "woken" and "timedout" after the stretch
\* under wakeup_lock. The same in mpv_wait_async_requests, called by
\* mp_destroy_client ("drain").
PCs == {"idle", "wait", "sleep", "woken", "timedout",
        "drain", "drain_wait", "drain_sleep", "destroyed"}

Alive == pc # "destroyed"

Init ==
  /\ events = [i \in 0..MaxEvents - 1 |-> None]
  /\ first_event = 0 /\ num_events = 0 /\ reserved_events = 0
  /\ choked = FALSE
  /\ event_mask = EventIds
  /\ queued_wakeup = FALSE /\ need_wakeup = FALSE /\ other = FALSE
  /\ outstanding = {} /\ made = {}
  /\ uses_callback \in BOOLEAN
  /\ notified = uses_callback    \* mpv_set_wakeup_callback calls it
  /\ more = FALSE
  /\ deadline = "past"
  /\ asleep = FALSE
  /\ pc = "idle"
  /\ sends = 0

(***************************************************************************)
(* Senders                                                                 *)
(***************************************************************************)

\* Mutant: the callback is called, but a blocking wait is not ended.
WakeupCallbackOnly ==
  /\ need_wakeup' = TRUE
  /\ notified' = (notified \/ (uses_callback /\ ~need_wakeup))
  /\ UNCHANGED asleep

\* wakeup_client: tell the user once, until the next wait_wakeup.
WakeupClient ==
  /\ need_wakeup' = TRUE
  /\ notified' = (notified \/ (uses_callback /\ ~need_wakeup))
  /\ asleep' = (asleep /\ need_wakeup)

\* Mutant: the room of the reserved replies is given away.
FullIgnoringReserved(reserved) == num_events >= MaxEvents

\* append_event fails.
Full(reserved) == num_events + reserved >= MaxEvents

\* Mutant: the new entry is put one place too far.
PutEntryOffByOne(e) ==
  events' = [events EXCEPT ![(first_event + num_events + 1) % MaxEvents] = e]

PutEntry(e) ==
  events' = [events EXCEPT ![(first_event + num_events) % MaxEvents] = e]

\* append_event, after it has found room.
AppendEntry(e) ==
  /\ PutEntry(e)
  /\ num_events' = num_events + 1
  /\ event_mask' = event_mask \ (IF e = Shutdown THEN {Shutdown} ELSE {})
  /\ WakeupClient
  /\ UNCHANGED first_event

CountSend == sends < MaxSends /\ sends' = sends + 1

\* send_event, under clients->lock, which keeps the handle from being destroyed.
SendEvent(e) ==
  /\ Alive /\ CountSend
  /\ IF e \notin event_mask \/ choked
     THEN UNCHANGED <<ringVars, need_wakeup, notified, asleep>>
     ELSE /\ choked' = Full(reserved_events)
          /\ UNCHANGED reserved_events
          /\ IF Full(reserved_events)
             THEN UNCHANGED <<events, num_events, event_mask, first_event,
                              need_wakeup, notified, asleep>>
             ELSE AppendEntry(e)
  /\ UNCHANGED <<queued_wakeup, other, outstanding, made, uses_callback, more,
                 deadline, pc>>

\* send_reply. If there were no room after all, the program would abort.
SendReply(r) ==
  /\ r \in outstanding
  /\ reserved_events' = reserved_events - 1
  /\ ~Full(reserved_events')
  /\ AppendEntry(r)
  /\ outstanding' = outstanding \ {r}
  /\ UNCHANGED <<choked, queued_wakeup, other, made, uses_callback, more, deadline,
                 pc, sends>>

\* A property change or a log message: not queued, the user is only woken.
ChangeOther ==
  /\ Alive /\ CountSend
  /\ other' = TRUE
  /\ WakeupClient
  /\ UNCHANGED <<ringVars, queued_wakeup, outstanding, made, uses_callback, more,
                 deadline, pc>>

\* mpv_wakeup, on any thread.
Wakeup ==
  /\ Alive /\ CountSend
  /\ queued_wakeup' = TRUE
  /\ WakeupClient
  /\ UNCHANGED <<ringVars, other, outstanding, made, uses_callback, more, deadline, pc>>

(***************************************************************************)
(* The client thread                                                       *)
(***************************************************************************)

\* reserve_reply, and run_async with it. If it fails, nothing is requested.
Request(r) ==
  /\ pc = "idle"
  /\ r \notin made
  /\ made' = made \cup {r}
  /\ IF ~Full(reserved_events) /\ ~choked
     THEN /\ reserved_events' = reserved_events + 1
          /\ outstanding' = outstanding \cup {r}
     ELSE UNCHANGED <<reserved_events, outstanding>>
  /\ UNCHANGED <<events, first_event, num_events, choked, event_mask, queued_wakeup,
                 need_wakeup, other, userVars, deadline, asleep, pc, sends>>

\* mpv_request_event. MPV_EVENT_SHUTDOWN can not be disabled.
RequestEvent(e, enable) ==
  /\ pc = "idle" /\ CountSend
  /\ enable \/ e # Shutdown
  /\ event_mask' = IF enable THEN event_mask \cup {e} ELSE event_mask \ {e}
  /\ UNCHANGED <<events, first_event, num_events, reserved_events, choked,
                 queued_wakeup, need_wakeup, other, outstanding, made, userVars,
                 deadline, asleep, pc>>

\* mpv_wait_event returns an event (or MPV_EVENT_NONE). (The deadline is a variable
\* of the call, reset here for the next one.)
Return(got_event) ==
  /\ pc' = "idle"
  /\ more' = got_event
  /\ queued_wakeup' = FALSE
  /\ deadline' = "past"

TakeOverflow ==
  /\ choked /\ num_events = 0
  /\ choked' = FALSE
  /\ Return(TRUE)
  /\ UNCHANGED <<first_event, num_events, other>>

TakeEvent ==
  /\ num_events > 0
  /\ first_event' = (first_event + 1) % MaxEvents
  /\ num_events' = num_events - 1
  /\ Return(TRUE)
  /\ UNCHANGED <<choked, other>>

\* gen_property_change_event or gen_log_message_event has something.
TakeOther ==
  /\ ~choked /\ num_events = 0
  /\ other
  /\ other' = FALSE
  /\ Return(TRUE)
  /\ UNCHANGED <<choked, first_event, num_events>>

NothingYet(d) ==
  /\ ~choked /\ num_events = 0 /\ ~other
  /\ pc' = "wait"
  /\ deadline' = IF queued_wakeup THEN "past" ELSE d
  /\ UNCHANGED <<choked, first_event, num_events, other, queued_wakeup, more>>

\* The loop of mpv_wait_event, with ctx->lock held.
WaitLoop(d) ==
  /\ \/ TakeOverflow
     \/ TakeEvent
     \/ TakeOther
     \/ NothingYet(d)
  /\ UNCHANGED <<events, reserved_events, event_mask, need_wakeup, outstanding, made,
                 uses_callback, asleep, sends>>

\* mpv_wait_event. With a callback, the user polls until there is nothing left.
WaitEvent(d) ==
  /\ pc = "idle"
  /\ uses_callback => (notified \/ more) /\ d = "past"
  /\ notified' = FALSE
  /\ WaitLoop(d)

waitWakeupUnchanged ==
  UNCHANGED <<ringVars, queued_wakeup, other, outstanding, made, userVars, deadline,
              sends>>

\* Mutant: a wakeup between the two locks is not noticed.
WaitWakeupUnchecked ==
  /\ pc = "wait"
  /\ pc' = "sleep"
  /\ asleep' = TRUE
  /\ need_wakeup' = FALSE
  /\ waitWakeupUnchanged

\* wait_wakeup up to pthread_cond_timedwait.
WaitWakeup ==
  /\ pc = "wait"
  /\ pc' = IF need_wakeup THEN "woken" ELSE "sleep"
  /\ asleep' = ~need_wakeup
  /\ need_wakeup' = FALSE
  /\ waitWakeupUnchanged

\* The wait ends, by a wakeup or for no reason.
SleepEnds ==
  /\ pc = "sleep" /\ ~asleep
  /\ pc' = "woken"
  /\ need_wakeup' = FALSE
  /\ UNCHANGED asleep
  /\ waitWakeupUnchanged

\* ETIMEDOUT. A wakeup that came at the same time stays pending.
SleepTimesOut ==
  /\ pc = "sleep" /\ deadline # "never"
  /\ pc' = "timedout"
  /\ asleep' = FALSE
  /\ UNCHANGED need_wakeup
  /\ waitWakeupUnchanged

SpuriousWakeup ==
  /\ asleep
  /\ asleep' = FALSE
  /\ UNCHANGED <<pc, need_wakeup>>
  /\ waitWakeupUnchanged

\* wait_wakeup has returned 0.
WaitAgain ==
  /\ pc = "woken"
  /\ WaitLoop(deadline)
  /\ UNCHANGED notified

\* wait_wakeup has returned ETIMEDOUT: MPV_EVENT_NONE.
WaitTimedOut ==
  /\ pc = "timedout"
  /\ Return(FALSE)
  /\ UNCHANGED <<ringVars, need_wakeup, other, outstanding, made, uses_callback,
                 notified, asleep, sends>>

(***************************************************************************)
(* mp_destroy_client, up to the removal of the handle                      *)
(***************************************************************************)

Destroy ==
  /\ pc = "idle"
  /\ pc' = "drain"
  /\ UNCHANGED <<ringVars, queued_wakeup, need_wakeup, other, outstanding, made,
                 userVars, deadline, asleep, sends>>

\* mpv_wait_async_requests: the loop test, with ctx->lock held. When it ends, the
\* handle is removed from the list, its events are freed, and it is gone.
Drain ==
  /\ pc = "drain"
  /\ IF reserved_events > 0
     THEN /\ pc' = "drain_wait"
          /\ UNCHANGED <<num_events, first_event>>
     ELSE /\ pc' = "destroyed"
          /\ num_events' = 0
          /\ first_event' = (first_event + num_events) % MaxEvents
  /\ UNCHANGED <<events, reserved_events, choked, event_mask, queued_wakeup,
                 need_wakeup, other, outstanding, made, userVars, deadline, asleep,
                 sends>>

DrainWakeup ==
  /\ pc = "drain_wait"
  /\ pc' = IF need_wakeup THEN "drain" ELSE "drain_sleep"
  /\ asleep' = ~need_wakeup
  /\ need_wakeup' = FALSE
  /\ waitWakeupUnchanged

DrainSleepEnds ==
  /\ pc = "drain_sleep" /\ ~asleep
  /\ pc' = "drain"
  /\ need_wakeup' = FALSE
  /\ UNCHANGED asleep
  /\ waitWakeupUnchanged

ClientStep ==
  \/ \E d \in Deadlines : WaitEvent(d)
  \/ WaitWakeup \/ SleepEnds \/ SleepTimesOut \/ WaitAgain \/ WaitTimedOut
  \/ Drain \/ DrainWakeup \/ DrainSleepEnds

Next ==
  \/ \E e \in EventIds : SendEvent(e) \/ \E enable \in BOOLEAN : RequestEvent(e, enable)
  \/ \E r \in Requests : Request(r) \/ SendReply(r)
  \/ ChangeOther
  \/ Wakeup
  \/ ClientStep
  \/ SpuriousWakeup
  \/ Destroy

Spec == Init /\ [][Next]_vars

(***************************************************************************)
(* Requests are served, and a client keeps calling mpv_wait_event (or      *)
(* reacts to its callback) until it destroys the handle.                   *)
(***************************************************************************)
Fairness ==
  /\ WF_vars(ClientStep)
  /\ \A r \in Requests : WF_vars(SendReply(r))

FairSpec == Spec /\ Fairness

(***************************************************************************)
(* Properties                                                              *)
(***************************************************************************)

TypeOK ==
  /\ events \in [0..MaxEvents - 1 -> Entries \cup {None}]
  /\ first_event \in 0..MaxEvents - 1
  /\ num_events \in 0..MaxEvents
  /\ reserved_events \in Nat
  /\ choked \in BOOLEAN
  /\ event_mask \subseteq EventIds
  /\ queued_wakeup \in BOOLEAN /\ need_wakeup \in BOOLEAN /\ other \in BOOLEAN
  /\ outstanding \subseteq made /\ made \subseteq Requests
  /\ uses_callback \in BOOLEAN /\ notified \in BOOLEAN /\ more \in BOOLEAN
  /\ deadline \in Deadlines
  /\ asleep \in BOOLEAN
  /\ pc \in PCs
  /\ sends \in 0..MaxSends

\* Every outstanding request has room for its reply, so that the abort in
\* send_reply is not reached, and a destroyed handle gets no reply any more.
RepliesFit ==
  /\ TypeOK
  /\ reserved_events = Cardinality(outstanding)
  /\ num_events + reserved_events <= MaxEvents
  /\ pc = "destroyed" => outstanding = {}

\* A user that waits for its callback, and a thread that blocks, have been told
\* of everything that is there for them.
NoMissedEvent ==
  /\ uses_callback /\ pc = "idle" /\ (num_events > 0 \/ other) => notified \/ more
  /\ asleep /\ pc = "sleep" =>
       num_events = 0 /\ ~other /\ (queued_wakeup => deadline = "past")
  /\ asleep /\ pc = "drain_sleep" => reserved_events > 0

\* The readable part of the ring buffer.
Feed == [i \in 1..num_events |-> events[(first_event + i - 1) % MaxEvents]]

Abstract == INSTANCE EventFeed WITH
  Events <- EventIds, Capacity <- MaxEvents,
  feed <- Feed, gap <- choked, promised <- outstanding

\* The ring buffer with its reserved entries keeps the promises of EventFeed.
ImplementsEventFeed == Abstract!Spec

\* Every event reaches the client or is discarded with the handle; an overflow is
\* reported, although it wakes nobody by itself; destroying the handle ends, as the
\* wait for its requests misses no wakeup.
EventsTaken ==
  /\ num_events > 0 \/ other ~> (num_events = 0 /\ ~other) \/ ~Alive
  /\ choked ~> ~choked \/ ~Alive
  /\ pc = "drain" ~> pc = "destroyed"
===============================================================================
