--------------------------- MODULE PropertyObserver ---------------------------
(***************************************************************************)
(* Observed properties of one mpv_handle (player/client.c): the core       *)
(* changes a property and notifies the client; the client's mpv_wait_event *)
(* finds what has changed, has new values fetched by the core (update_prop *)
(* in the dispatch queue), and returns change events.                      *)
(*                                                                         *)
(* All observers are of one property. Blocking in mpv_wait_event is        *)
(* reduced to need_wakeup here: ClientEvents has all of it.                *)
(***************************************************************************)
EXTENDS Integers, Sequences, FiniteSets, SequencesExt

CONSTANTS
  Props,          (* struct observe_property, each used once                 *)
  Values,         (* what the property can be, among them Unavailable        *)
  Unavailable,
  MaxChanges      (* bound: changes of the property                          *)

ASSUME PropertyObserverAssumption ==
  /\ IsFiniteSet(Props) /\ "none" \notin Props
  /\ Unavailable \in Values
  /\ MaxChanges \in Nat

VARIABLES
  value,              (* the property as the core has it                      *)
  unnotified,         (* it has changed, mp_notify_property was not called    *)
  changes,
  properties,         (* ctx->properties                                      *)
  lowest_changed,     (* index into it; from 1, not from 0 as in the code     *)
  properties_updating,
  status,             (* of the memory of each struct observe_property        *)
  Formatted,          (* observers with a format: the others only learn that the
                         property may have changed                            *)
  changed, need_new_value, updating, dead, new_value, user_value,
  queue,              (* update_prop calls in the dispatch queue              *)
  running,            (* the one that has got its value, and that value       *)
  need_wakeup,
  pc,                 (* of the client thread                                 *)
  broken              (* update_prop was run on freed memory                  *)

coreVars == <<value, unnotified, changes>>
propVars == <<status, Formatted, changed, need_new_value, updating, dead, new_value,
              user_value>>
listVars == <<properties, lowest_changed, properties_updating>>
vars == <<coreVars, propVars, listVars, queue, running, need_wakeup, pc, broken>>

NoUpdate == [prop |-> "none", value |-> "none"]
Updates == [prop : Props, value : Values]

\* "current" is memory that belongs to ctx->cur_event, and is freed by the next
\* call of mpv_wait_event.
Status == {"unused", "observed", "dead", "current", "freed"}

Init ==
  /\ value \in Values /\ unnotified = FALSE /\ changes = 0
  /\ properties = <<>> /\ lowest_changed = 1 /\ properties_updating = 0
  /\ status = [p \in Props |-> "unused"]
  /\ Formatted = {}
  /\ changed = [p \in Props |-> FALSE]
  /\ need_new_value = [p \in Props |-> FALSE]
  /\ updating = [p \in Props |-> FALSE]
  /\ dead = [p \in Props |-> FALSE]
  /\ new_value = [p \in Props |-> Unavailable]
  /\ user_value = [p \in Props |-> Unavailable]
  /\ queue = <<>> /\ running = NoUpdate
  /\ need_wakeup = FALSE
  /\ pc = "idle"
  /\ broken = FALSE

(***************************************************************************)
(* The core                                                                *)
(***************************************************************************)

CoreFree == running = NoUpdate /\ ~broken

Change(v) ==
  /\ CoreFree /\ changes < MaxChanges
  /\ v # value
  /\ value' = v
  /\ unnotified' = TRUE
  /\ changes' = changes + 1
  /\ UNCHANGED <<propVars, listVars, queue, running, need_wakeup, pc, broken>>

Observed == {properties[i] : i \in DOMAIN properties}

\* Mutant: only the flag is set, the incremental search is not told.
MarkChangedFlagOnly ==
  /\ changed' = [p \in Props |-> changed[p] \/ p \in Observed]
  /\ need_new_value' = [p \in Props |-> IF p \in Observed THEN p \in Formatted
                                                          ELSE need_new_value[p]]
  /\ UNCHANGED lowest_changed

\* mark_property_changed for every observer.
MarkChanged ==
  /\ changed' = [p \in Props |-> changed[p] \/ p \in Observed]
  /\ need_new_value' = [p \in Props |-> IF p \in Observed THEN p \in Formatted
                                                          ELSE need_new_value[p]]
  /\ lowest_changed' = IF properties = <<>> THEN lowest_changed ELSE 1

\* mp_client_property_change and notify_property_events.
Notify ==
  /\ CoreFree /\ unnotified
  /\ pc # "destroyed"
  /\ unnotified' = FALSE
  /\ MarkChanged
  /\ need_wakeup' = (need_wakeup \/ lowest_changed' <= Len(properties))
  /\ UNCHANGED <<value, changes, status, Formatted, updating, dead, new_value,
                 user_value, properties, properties_updating, queue, running, pc,
                 broken>>

\* update_prop up to the lock: the value is read.
Fetch ==
  /\ CoreFree /\ queue # <<>>
  /\ queue' = Tail(queue)
  /\ IF status[Head(queue)] = "freed"
     THEN broken' = TRUE /\ UNCHANGED running
     ELSE /\ running' = [prop |-> Head(queue), value |-> value]
          /\ UNCHANGED broken
  /\ UNCHANGED <<coreVars, propVars, listVars, need_wakeup, pc>>

\* wakeup_client at the end of update_prop.
Updated == need_wakeup' = TRUE

\* The rest of update_prop, under ctx->lock.
Apply ==
  /\ running # NoUpdate /\ ~broken
  /\ running' = NoUpdate
  /\ LET p == running.prop IN
     IF status[p] = "freed"
     THEN /\ broken' = TRUE
          /\ UNCHANGED <<propVars, properties_updating, need_wakeup>>
     ELSE /\ properties_updating' = properties_updating - 1
          /\ updating' = [updating EXCEPT ![p] = FALSE]
          /\ new_value' = [new_value EXCEPT ![p] = running.value]
          /\ changed' = [changed EXCEPT ![p] = @ \/ running.value # user_value[p]]
          /\ status' = [status EXCEPT ![p] = IF dead[p] THEN "current" ELSE @]
          /\ Updated
          /\ UNCHANGED <<Formatted, need_new_value, dead, user_value, broken>>
  /\ UNCHANGED <<coreVars, properties, lowest_changed, queue, pc>>

(***************************************************************************)
(* The client                                                              *)
(***************************************************************************)

ClientFree == pc = "idle" /\ ~broken

\* mpv_observe_property.
Observe(p, format) ==
  /\ ClientFree /\ status[p] = "unused"
  /\ status' = [status EXCEPT ![p] = "observed"]
  /\ Formatted' = IF format THEN Formatted \cup {p} ELSE Formatted
  /\ changed' = [changed EXCEPT ![p] = TRUE]
  /\ need_new_value' = [need_new_value EXCEPT ![p] = TRUE]
  /\ properties' = Append(properties, p)
  /\ lowest_changed' = 1
  /\ UNCHANGED <<coreVars, updating, dead, new_value, user_value, properties_updating,
                 queue, running, need_wakeup, pc, broken>>

\* mpv_unobserve_property, for one observer.
Unobserve(p) ==
  /\ ClientFree /\ status[p] = "observed"
  /\ status' = [status EXCEPT ![p] = IF updating[p] THEN "dead" ELSE "current"]
  /\ dead' = [dead EXCEPT ![p] = updating[p]]
  /\ \E n \in DOMAIN properties :
       properties[n] = p /\ properties' = RemoveAt(properties, n)
  /\ lowest_changed' = 1
  /\ UNCHANGED <<coreVars, Formatted, changed, need_new_value, updating, new_value,
                 user_value, properties_updating, queue, running, need_wakeup, pc,
                 broken>>

\* gen_property_change_event visits the observers from lowest_changed on, up to the
\* first one whose event it can return.
Deliverable(p) == changed[p] /\ ~(p \in Formatted /\ need_new_value[p])
Deliverables ==
  {i \in lowest_changed..Len(properties) : Deliverable(properties[i])}
LastVisited == IF Deliverables = {} THEN Len(properties) ELSE Min(Deliverables)

Fetchable(p) == changed[p] /\ p \in Formatted /\ need_new_value[p]
Visited == lowest_changed..LastVisited
FetchUpTo[n \in 0..Len(properties)] ==
  IF n = 0 THEN <<>>
  ELSE IF n \in Visited /\ Fetchable(properties[n])
       THEN Append(FetchUpTo[n - 1], properties[n])
       ELSE FetchUpTo[n - 1]
ToFetch == FetchUpTo[Len(properties)]

\* Mutant: observers with an update on the way are not visited again.
LowestChangedOnly ==
  Min({i \in Visited : changed[properties[i]]}
          \cup {Len(properties) + 1})

\* The next search starts at the first observer with something to come.
LowestChanged ==
  Min({i \in Visited :
           changed[properties[i]] \/ updating[properties[i]]}
          \cup {Len(properties) + 1})

\* Mutant: an observer that waits for its first update does not count again.
UpdatesStartedOnce == Cardinality({i \in DOMAIN ToFetch : ~updating[ToFetch[i]]})

UpdatesStarted == Len(ToFetch)

\* gen_property_change_event, with the event it returns, if any.
GenEvent ==
  LET fetch == {ToFetch[i] : i \in DOMAIN ToFetch}
      event == IF Deliverables = {} THEN {} ELSE {properties[LastVisited]}
  IN /\ changed' = [p \in Props |-> changed[p] /\ p \notin fetch \cup event]
     /\ need_new_value' = [p \in Props |->
                              need_new_value[p] /\ p \notin fetch \cup event]
     /\ updating' = [p \in Props |-> updating[p] \/ p \in fetch]
     /\ properties_updating' = properties_updating + UpdatesStarted
     /\ queue' = queue \o ToFetch
     /\ lowest_changed' = LowestChanged
     /\ user_value' = [p \in Props |->
                          IF p \in event THEN new_value[p] ELSE user_value[p]]
     /\ pc' = IF event = {} THEN "waiting" ELSE "idle"

waitUnchanged ==
  UNCHANGED <<coreVars, Formatted, dead, new_value, properties, running, broken>>

\* mpv_wait_event: what the last event referred to is freed.
WaitEvent ==
  /\ ClientFree
  /\ status' = [p \in Props |-> IF status[p] = "current" THEN "freed" ELSE status[p]]
  /\ GenEvent
  /\ UNCHANGED need_wakeup
  /\ waitUnchanged

\* wait_wakeup has returned, and the loop of mpv_wait_event is run again.
Woken ==
  /\ pc = "waiting" /\ ~broken
  /\ need_wakeup
  /\ need_wakeup' = FALSE
  /\ GenEvent
  /\ UNCHANGED status
  /\ waitUnchanged

\* ETIMEDOUT.
TimedOut ==
  /\ pc = "waiting" /\ ~broken
  /\ pc' = "idle"
  /\ UNCHANGED <<propVars, listVars, queue, need_wakeup, coreVars, running, broken>>

\* mp_destroy_client.
Destroy ==
  /\ ClientFree
  /\ pc' = "drain"
  /\ UNCHANGED <<coreVars, propVars, listVars, queue, running, need_wakeup, broken>>

\* mpv_wait_async_requests has returned; the handle is freed with all it owns.
Destroyed ==
  /\ pc = "drain" /\ ~broken
  /\ properties_updating = 0
  /\ pc' = "destroyed"
  /\ status' = [p \in Props |-> IF status[p] = "unused" THEN "unused" ELSE "freed"]
  /\ properties' = <<>>
  /\ lowest_changed' = 1
  /\ UNCHANGED <<coreVars, Formatted, changed, need_new_value, updating, dead,
                 new_value, user_value, properties_updating, queue, running,
                 need_wakeup, broken>>

Next ==
  \/ \E v \in Values : Change(v)
  \/ Notify \/ Fetch \/ Apply
  \/ \E p \in Props : Unobserve(p) \/ \E format \in BOOLEAN : Observe(p, format)
  \/ WaitEvent \/ Woken \/ TimedOut
  \/ Destroy \/ Destroyed

Spec == Init /\ [][Next]_vars

(***************************************************************************)
(* The core runs its dispatch queue and notifies what it has changed; the  *)
(* client calls mpv_wait_event again and again. It need not time out.      *)
(***************************************************************************)
Fairness ==
  /\ WF_vars(Notify) /\ WF_vars(Fetch) /\ WF_vars(Apply)
  /\ WF_vars(WaitEvent) /\ WF_vars(Woken) /\ WF_vars(Destroyed)

FairSpec == Spec /\ Fairness

(***************************************************************************)
(* Properties                                                              *)
(***************************************************************************)

TypeOK ==
  /\ value \in Values /\ unnotified \in BOOLEAN /\ changes \in 0..MaxChanges
  /\ properties \in Seq(Props)
  /\ lowest_changed \in 1..Len(properties) + 1
  /\ properties_updating \in Nat
  /\ status \in [Props -> Status] /\ Formatted \subseteq Props
  /\ {changed, need_new_value, updating, dead} \subseteq [Props -> BOOLEAN]
  /\ new_value \in [Props -> Values] /\ user_value \in [Props -> Values]
  /\ queue \in Seq(Props)
  /\ running \in Updates \cup {NoUpdate}
  /\ need_wakeup \in BOOLEAN
  /\ pc \in {"idle", "waiting", "drain", "destroyed"}
  /\ broken \in BOOLEAN

InUse == {queue[i] : i \in DOMAIN queue}
           \cup (IF running = NoUpdate THEN {} ELSE {running.prop})

\* Every update that is queued or running is counted, so that mpv_wait_async_requests
\* keeps the handle alive until the last one is done.
UpdatesCounted ==
  ~broken =>
    /\ properties_updating = Len(queue) + (IF running = NoUpdate THEN 0 ELSE 1)
    /\ pc = "destroyed" => InUse = {}

\* What the user was told last is the value of the property, or the difference is on
\* its way: a notification, an update, or a change that the next search will find.
NoLostChange ==
  ~broken /\ ~unnotified =>
    \A i \in DOMAIN properties :
      LET p == properties[i] IN
      p \in Formatted =>
        /\ user_value[p] # value => changed[p] \/ p \in InUse
        /\ changed[p] => lowest_changed <= i

\* A client that waits will be woken when a change can be reported.
NoSleepOverChange ==
  pc = "waiting" /\ ~need_wakeup /\ ~broken /\ ~unnotified =>
    \A p \in Observed : ~changed[p]

\* No change is lost, between the property and the search for changes or between the
\* search and a client that is about to sleep.
ChangesKept == TypeOK /\ NoLostChange /\ NoSleepOverChange

\* An observer hears of the value of the property in the end, once it stays.
UpToDate ==
  \A p \in Props :
    p \in Formatted /\ status[p] = "observed" /\ user_value[p] # value
      ~> \/ user_value[p] = value
         \/ status[p] # "observed" \/ pc \in {"drain", "destroyed"}
         \/ broken

\* A struct observe_property is not freed while an update is going to use it.
PropAlive == \A p \in InUse : status[p] # "freed"
===============================================================================
