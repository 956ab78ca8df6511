------------------------------- MODULE Dispatch -------------------------------
(***************************************************************************)
(* The dispatch queue of misc/dispatch.c: other threads run callbacks on   *)
(* the target thread (the playback core), or stop it at a defined point    *)
(* and use its state themselves.                                           *)
(*                                                                         *)
(* One action is one stretch of code under queue->lock, from taking the    *)
(* mutex to releasing it (also by pthread_cond_wait), so the mutex itself  *)
(* needs no variable. Blocking is explicit: asleep is the set of threads   *)
(* inside pthread_cond_wait that no broadcast has reached yet.             *)
(***************************************************************************)
EXTENDS Naturals, Sequences, FiniteSets, Withdrawal

CONSTANTS
  Clients,     (* threads that call into the queue                        *)
  Target,      (* the thread that calls mp_dispatch_queue_process         *)
  Keys,        (* the (fn, fn_data) pairs of asynchronous callbacks       *)
  MaxCalls     (* bound: how many calls each thread starts on the queue   *)

ASSUME DispatchAssumption ==
  /\ IsFiniteSet(Clients)
  /\ Keys \cap Clients = {}
  /\ Target \notin Clients
  /\ {"nobody", "callback", "target"} \cap Clients = {}
  /\ MaxCalls \in [Clients \cup {Target} -> Nat]

Threads == Clients \cup {Target}

\* queue->wait: no time left to wait, a deadline, or the INFINITY timeout.
Expired == 0
Deadline == 1
Forever == 2

VARIABLES
  queue,          (* queue->head .. queue->tail                            *)
  wait,           (* queue->wait                                           *)
  interrupted,    (* queue->interrupted                                    *)
  in_process,     (* queue->in_process                                     *)
  locked,         (* queue->locked                                         *)
  lock_requests,  (* queue->lock_requests                                  *)
  wakeup_fn,      (* queue->wakeup_fn is set                               *)
  signalled,      (* the event that wakeup_fn sets                         *)
  completed,      (* callers whose mp_dispatch_run item has been completed *)
  current,        (* the item whose callback runs, as a sequence of length <= 1 *)
  asleep,         (* threads in pthread_cond_wait, not woken               *)
  owes,           (* clients that must still call wakeup_fn after an append *)
  pc,             (* where each thread is                                  *)
  calls           (* calls each thread has started                         *)

queueVars == <<queue, wait, interrupted, in_process, locked, lock_requests>>
threadVars == <<completed, current, asleep, owes, pc, calls>>
vars == <<queueVars, wakeup_fn, signalled, threadVars>>

(***************************************************************************)
(* Items                                                                   *)
(***************************************************************************)

\* mp_dispatch_run: the item lives on the stack of its caller.
Sync(c) == [kind |-> "sync", key |-> c]

Async(k) == [kind |-> "async", key |-> k]

\* mp_dispatch_enqueue_notify: the item is mergeable.
Notify(k) == [kind |-> "notify", key |-> k]

AsyncItems == {Async(k) : k \in Keys} \cup {Notify(k) : k \in Keys}

Items == AsyncItems \cup {Sync(c) : c \in Clients}

-------------------------------------------------------------------------------

TargetPC == {"out", "callback", "blocked", "sleeping"}

ClientPC == {"idle", "lock_wakeup", "lock_recheck", "lock_trap", "lock_wait",
             "holding", "run"}

\* The state of the target thread is in use by its own code, by a callback on
\* it, or by a client between mp_dispatch_lock and mp_dispatch_unlock.
UsesState(t) ==
  IF t = Target THEN pc[t] \in {"out", "callback"} ELSE pc[t] = "holding"

\* Code that may call into the queue again: its own code between two queue
\* calls, callbacks, and clients, also those that hold the lock.
MayCall(t) ==
  /\ calls[t] < MaxCalls[t]
  /\ IF t = Target THEN pc[t] \in {"out", "callback"}
                   ELSE pc[t] \in {"idle", "holding"} /\ t \notin owes

Called(t) == calls' = [calls EXCEPT ![t] = @ + 1]

Broadcast == asleep' = {}

Init ==
  /\ queue = <<>>
  /\ wait = Expired
  /\ interrupted = FALSE
  /\ in_process = FALSE
  /\ locked = FALSE
  /\ lock_requests = 0
  /\ wakeup_fn \in BOOLEAN
  /\ signalled = FALSE
  /\ completed = {}
  /\ current = <<>>
  /\ asleep = {}
  /\ owes = {}
  /\ pc = [t \in Threads |-> IF t = Target THEN "out" ELSE "idle"]
  /\ calls = [t \in Threads |-> 0]

(***************************************************************************)
(* Queueing: mp_dispatch_append and the functions on top of it             *)
(***************************************************************************)

\* The mergeable item is already queued (it is freed, nobody is woken).
IsQueued(i) == \E n \in 1..Len(queue) : queue[n] = i

\* Link the item and wake the target. A wakeup_fn is called after the mutex
\* is released; without one the running or next process call is interrupted.
AppendItem(i) ==
  /\ queue' = Append(queue, i)
  /\ interrupted' = (interrupted \/ ~wakeup_fn)
  /\ Broadcast

\* mp_dispatch_enqueue, mp_dispatch_enqueue_autofree, mp_dispatch_enqueue_notify.
Enqueue(t, i) ==
  /\ MayCall(t)
  /\ Called(t)
  /\ IF i.kind = "notify" /\ IsQueued(i)
     THEN UNCHANGED <<queue, interrupted, asleep, owes, signalled>>
     ELSE /\ AppendItem(i)
          /\ owes' = IF wakeup_fn /\ t # Target THEN owes \cup {t} ELSE owes
          /\ signalled' = (signalled \/ (wakeup_fn /\ t = Target))
  /\ UNCHANGED <<wait, in_process, locked, lock_requests, wakeup_fn, completed,
                 current, pc>>

\* The wakeup_fn call at the end of mp_dispatch_append, outside of the mutex.
CallWakeup(c) ==
  /\ c \in owes
  /\ owes' = owes \ {c}
  /\ signalled' = TRUE
  /\ UNCHANGED <<queueVars, wakeup_fn, completed, current, asleep, pc, calls>>

\* mp_dispatch_cancel_fn, called in the context of the target thread.
Cancel(k) ==
  /\ MayCall(Target)
  /\ Called(Target)
  /\ queue' \in Without(queue, {Async(k), Notify(k)})
  /\ UNCHANGED <<wait, interrupted, in_process, locked, lock_requests, wakeup_fn,
                 signalled, completed, current, asleep, owes, pc>>

\* mp_dispatch_run: queue the item, then wait for its completion.
Run(c) ==
  /\ MayCall(c)
  /\ pc[c] = "idle"
  /\ Called(c)
  /\ AppendItem(Sync(c))
  /\ owes' = IF wakeup_fn THEN owes \cup {c} ELSE owes
  /\ pc' = [pc EXCEPT ![c] = "run"]
  /\ UNCHANGED <<wait, in_process, locked, lock_requests, wakeup_fn, signalled,
                 completed, current>>

\* Mutant: any wakeup is taken for the completion (if instead of while).
RunCheckOnce(c) ==
  /\ pc[c] = "run"
  /\ c \notin asleep \cup owes
  /\ pc' = [pc EXCEPT ![c] = "idle"]
  /\ completed' = completed \ {c}
  /\ UNCHANGED <<queueVars, wakeup_fn, signalled, current, asleep, owes, calls>>

RunCheck(c) ==
  /\ pc[c] = "run"
  /\ c \notin asleep \cup owes
  /\ IF c \in completed
     THEN /\ pc' = [pc EXCEPT ![c] = "idle"]
          /\ completed' = completed \ {c}
          /\ UNCHANGED asleep
     ELSE /\ asleep' = asleep \cup {c}
          /\ UNCHANGED <<pc, completed>>
  /\ UNCHANGED <<queueVars, wakeup_fn, signalled, current, owes, calls>>

\* mp_dispatch_interrupt.
Interrupt(t) ==
  /\ MayCall(t)
  /\ Called(t)
  /\ interrupted' = TRUE
  /\ Broadcast
  /\ UNCHANGED <<queue, wait, in_process, locked, lock_requests, wakeup_fn,
                 signalled, completed, current, owes, pc>>

\* mp_dispatch_adjust_timeout, by the user of the target's state (mp_set_timeout).
\* An earlier deadline than the one already set wakes the target as well.
AdjustTimeout(t) ==
  /\ MayCall(t)
  /\ UsesState(t)
  /\ Called(t)
  /\ in_process
  /\ wait \in {Deadline, Forever}
  /\ wait' = Deadline
  /\ Broadcast
  /\ UNCHANGED <<queue, interrupted, in_process, locked, lock_requests, wakeup_fn,
                 signalled, completed, current, owes, pc>>

(***************************************************************************)
(* mp_dispatch_queue_process                                               *)
(***************************************************************************)

\* The stretch ends with the target at "where", doing the items of "run".
GoTo(where, run, q, w, l, s) ==
  /\ pc' = [pc EXCEPT ![Target] = where]
  /\ current' = run
  /\ queue' = q
  /\ wait' = w
  /\ locked' = l
  /\ asleep' = s
  /\ in_process' = (where # "out")

\* A mp_dispatch_lock request goes before everything else.
LoopBlocked(q, w, l, s) ==
  /\ lock_requests > 0
  /\ GoTo("blocked", <<>>, q, w, l, s \cup {Target})
  /\ UNCHANGED interrupted

\* Take the oldest item; locked keeps the others out while it runs.
LoopRun(q, w, s) ==
  /\ lock_requests = 0
  /\ q # <<>>
  /\ GoTo("callback", <<Head(q)>>, Tail(q), w, TRUE, s)
  /\ UNCHANGED interrupted

LoopSleep(q, w, l, s) ==
  /\ lock_requests = 0
  /\ q = <<>>
  /\ w # Expired /\ ~interrupted
  /\ GoTo("sleeping", <<>>, q, w, l, s \cup {Target})
  /\ UNCHANGED interrupted

\* Mutant: an interrupted call returns at once.
LoopReturnEarly(q, w, l, s) ==
  /\ lock_requests = 0
  /\ q = <<>> \/ interrupted
  /\ w = Expired \/ interrupted
  /\ GoTo("out", <<>>, q, w, l, s)
  /\ interrupted' = FALSE

LoopReturn(q, w, l, s) ==
  /\ lock_requests = 0
  /\ q = <<>>
  /\ w = Expired \/ interrupted
  /\ GoTo("out", <<>>, q, w, l, s)
  /\ interrupted' = FALSE

\* One trip through the loop, with the mutex held, from the values that the
\* code before it leaves: q the queue, w the wait, l locked, s the sleepers. It
\* ends in a wait on the condition, in a callback, or in the return.
LoopTop(q, w, l, s) ==
  \/ LoopBlocked(q, w, l, s)
  \/ LoopRun(q, w, s)
  \/ LoopSleep(q, w, l, s)
  \/ LoopReturn(q, w, l, s)

\* Mutant: threads in mp_dispatch_lock are not told that the target is trapped.
EnterProcessSilently(w) ==
  /\ pc[Target] = "out"
  /\ wakeup_fn => signalled /\ w = Expired
  /\ signalled' = FALSE
  /\ LoopTop(queue, w, locked, asleep)
  /\ UNCHANGED <<lock_requests, wakeup_fn, completed, owes, calls>>

\* The call itself. It wakes the threads in mp_dispatch_lock, if there are any.
\* A target with a wakeup_fn (the wasapi event thread) calls it with timeout 0
\* whenever its event is set.
EnterProcess(w) ==
  /\ pc[Target] = "out"
  /\ wakeup_fn => signalled /\ w = Expired
  /\ signalled' = FALSE
  /\ LoopTop(queue, w, locked, IF lock_requests > 0 THEN {} ELSE asleep)
  /\ UNCHANGED <<lock_requests, wakeup_fn, completed, owes, calls>>

\* pthread_cond_wait returns: after a mp_dispatch_lock request was served, or in
\* the timed wait of an idle target.
Woken ==
  /\ pc[Target] \in {"blocked", "sleeping"}
  /\ Target \notin asleep
  /\ LoopTop(queue, wait, locked, asleep)
  /\ UNCHANGED <<lock_requests, wakeup_fn, signalled, completed, owes, calls>>

\* pthread_cond_timedwait reaches the deadline.
TimedOut ==
  /\ pc[Target] = "sleeping"
  /\ wait = Deadline
  /\ LoopTop(queue, Expired, locked, asleep \ {Target})
  /\ UNCHANGED <<lock_requests, wakeup_fn, signalled, completed, owes, calls>>

\* Mutant: the end of a callback wakes nobody.
FinishItemSilently ==
  /\ pc[Target] = "callback"
  /\ completed' = IF current[1].kind = "sync" THEN completed \cup {current[1].key}
                                              ELSE completed
  /\ LoopTop(queue, wait, FALSE, asleep)
  /\ UNCHANGED <<lock_requests, wakeup_fn, signalled, owes, calls>>

\* The callback returns: wake mp_dispatch_run and mp_dispatch_lock.
FinishItem ==
  /\ pc[Target] = "callback"
  /\ completed' = IF current[1].kind = "sync" THEN completed \cup {current[1].key}
                                              ELSE completed
  /\ LoopTop(queue, wait, FALSE, {})
  /\ UNCHANGED <<lock_requests, wakeup_fn, signalled, owes, calls>>

(***************************************************************************)
(* mp_dispatch_lock and mp_dispatch_unlock                                 *)
(***************************************************************************)

\* Mutant: a trapped target is enough to take the lock.
TakeLockTrapped(c) ==
  IF in_process
  THEN /\ pc' = [pc EXCEPT ![c] = "holding"]
       /\ locked' = TRUE
       /\ UNCHANGED asleep
  ELSE /\ pc' = [pc EXCEPT ![c] = "lock_wait"]
       /\ asleep' = asleep \cup {c}
       /\ UNCHANGED locked

\* The second loop of mp_dispatch_lock: take the lock, or wait for it.
TakeLock(c) ==
  IF in_process /\ ~locked
  THEN /\ pc' = [pc EXCEPT ![c] = "holding"]
       /\ locked' = TRUE
       /\ UNCHANGED asleep
  ELSE /\ pc' = [pc EXCEPT ![c] = "lock_wait"]
       /\ asleep' = asleep \cup {c}
       /\ UNCHANGED locked

\* The test of the first loop: is the target trapped in the process call?
LockTest(c) ==
  IF in_process
  THEN TakeLock(c)
  ELSE /\ pc' = [pc EXCEPT ![c] = "lock_wakeup"]
       /\ UNCHANGED <<locked, asleep>>

lockUnchanged ==
  UNCHANGED <<queue, wait, interrupted, in_process, wakeup_fn, completed, current,
              owes>>

Lock(c) ==
  /\ MayCall(c)
  /\ pc[c] = "idle"
  /\ Called(c)
  /\ lock_requests' = lock_requests + 1
  /\ LockTest(c)
  /\ UNCHANGED signalled
  /\ lockUnchanged

\* wakeup_fn, called with the mutex released.
LockWakeup(c) ==
  /\ pc[c] = "lock_wakeup"
  /\ signalled' = (signalled \/ wakeup_fn)
  /\ pc' = [pc EXCEPT ![c] = "lock_recheck"]
  /\ UNCHANGED <<locked, asleep, lock_requests, calls>>
  /\ lockUnchanged

\* The mutex is taken again: leave the first loop, or wait on the condition.
LockRecheck(c) ==
  /\ pc[c] = "lock_recheck"
  /\ IF in_process
     THEN TakeLock(c)
     ELSE /\ pc' = [pc EXCEPT ![c] = "lock_trap"]
          /\ asleep' = asleep \cup {c}
          /\ UNCHANGED locked
  /\ UNCHANGED <<lock_requests, calls, signalled>>
  /\ lockUnchanged

\* A wait of the first or of the second loop ends.
LockWoken(c) ==
  /\ pc[c] \in {"lock_trap", "lock_wait"}
  /\ c \notin asleep
  /\ IF pc[c] = "lock_trap" THEN LockTest(c) ELSE TakeLock(c)
  /\ UNCHANGED <<lock_requests, calls, signalled>>
  /\ lockUnchanged

\* Mutant: the request is still counted after the lock is given back.
UnlockKeepsRequest(c) ==
  /\ pc[c] = "holding"
  /\ c \notin owes
  /\ pc' = [pc EXCEPT ![c] = "idle"]
  /\ locked' = FALSE
  /\ Broadcast
  /\ UNCHANGED <<signalled, calls, lock_requests>>
  /\ lockUnchanged

Unlock(c) ==
  /\ pc[c] = "holding"
  /\ c \notin owes
  /\ pc' = [pc EXCEPT ![c] = "idle"]
  /\ locked' = FALSE
  /\ lock_requests' = lock_requests - 1
  /\ Broadcast
  /\ UNCHANGED <<signalled, calls>>
  /\ lockUnchanged

-------------------------------------------------------------------------------

\* pthread_cond_wait may return for no reason.
SpuriousWakeup(t) ==
  /\ t \in asleep
  /\ asleep' = asleep \ {t}
  /\ UNCHANGED <<queueVars, wakeup_fn, signalled, completed, current, owes, pc, calls>>

TargetStep ==
  \/ \E w \in {Expired, Deadline, Forever} : EnterProcess(w)
  \/ Woken
  \/ TimedOut
  \/ FinishItem

\* What a client does to finish a call it has started.
ClientStep(c) ==
  \/ CallWakeup(c)
  \/ RunCheck(c)
  \/ LockWakeup(c)
  \/ LockRecheck(c)
  \/ LockWoken(c)
  \/ Unlock(c)

\* A new call into the queue.
Call ==
  \/ \E t \in Threads, i \in AsyncItems : Enqueue(t, i)
  \/ \E k \in Keys : Cancel(k)
  \/ \E c \in Clients : Run(c)
  \/ \E t \in Threads : Interrupt(t)
  \/ \E t \in Threads : AdjustTimeout(t)
  \/ \E c \in Clients : Lock(c)

Next ==
  \/ TargetStep
  \/ \E c \in Clients : ClientStep(c)
  \/ Call
  \/ \E t \in Threads : SpuriousWakeup(t)

Spec == Init /\ [][Next]_vars

(***************************************************************************)
(* The target thread returns to the queue again and again (the playloop    *)
(* calls mp_wait_events in every iteration), callbacks and deadlines end,  *)
(* and a client finishes the call it is in. No thread has to start a call. *)
(***************************************************************************)
Fairness ==
  /\ WF_vars(TargetStep)
  /\ \A c \in Clients : WF_vars(ClientStep(c))

FairSpec == Spec /\ Fairness

(***************************************************************************)
(* Properties                                                              *)
(***************************************************************************)

Lockers == {c \in Clients : pc[c] \in {"lock_wakeup", "lock_recheck", "lock_trap",
                                       "lock_wait", "holding"}}

TypeOK ==
  /\ queue \in Seq(Items)
  /\ wait \in {Expired, Deadline, Forever}
  /\ interrupted \in BOOLEAN
  /\ in_process \in BOOLEAN
  /\ locked \in BOOLEAN
  /\ lock_requests \in 0..Cardinality(Clients)
  /\ wakeup_fn \in BOOLEAN
  /\ signalled \in BOOLEAN
  /\ completed \subseteq Clients
  /\ current = <<>> \/ \E i \in Items : current = <<i>>
  /\ asleep \subseteq Threads
  /\ owes \subseteq Clients
  /\ pc \in [Threads -> TargetPC \cup ClientPC]
  /\ pc[Target] \in TargetPC
  /\ \A c \in Clients : pc[c] \in ClientPC
  /\ calls \in [Threads -> Nat] /\ \A t \in Threads : calls[t] <= MaxCalls[t]

\* mp_dispatch_lock grants exclusive access to the state of the target thread:
\* its own code, the callbacks on it and the holders of the lock never overlap.
ExclusiveAccess ==
  \A s, t \in Threads : UsesState(s) /\ UsesState(t) => s = t

\* The item of mp_dispatch_run is on the stack of its caller: as long as the
\* queue or the running callback refers to it, the caller is still in the call,
\* and has not been told that its item is done.
SyncItemAlive ==
  \A c \in Clients :
    (\E n \in 1..Len(queue) : queue[n] = Sync(c)) \/ current = <<Sync(c)>>
      => pc[c] = "run" /\ c \notin completed

\* All threads share one condition variable. No thread sleeps on it although
\* what it waits for has already happened.
NoLostWakeup ==
  /\ Target \in asleep /\ pc[Target] = "blocked" => lock_requests > 0
  /\ Target \in asleep /\ pc[Target] = "sleeping" => queue = <<>> /\ ~interrupted
  /\ \A c \in asleep \cap Clients :
       /\ pc[c] = "run" => c \notin completed
       /\ pc[c] = "lock_trap" => ~in_process
       /\ pc[c] = "lock_wait" => locked

\* The user of the target's state, as the abstract specification sees it.
User ==
  CASE pc[Target] = "out" -> "target"
    [] pc[Target] = "callback" -> "callback"
    [] \E c \in Clients : pc[c] = "holding" -> CHOOSE c \in Clients : pc[c] = "holding"
    [] OTHER -> "nobody"

Core == INSTANCE CoreAccess WITH user <- User, pending <- queue

\* The queue keeps the promises of CoreAccess: work is done in the order it was
\* queued in, none is left when mp_dispatch_queue_process returns, and access to
\* the target passes from one user to the next only through a target at rest.
ImplementsCoreAccess == Core!Spec

\* No call is left waiting: mp_dispatch_lock and mp_dispatch_run return, whatever the
\* target is doing and however it waits, and mp_dispatch_interrupt makes a process
\* call return that waits without timeout.
CallsReturn ==
  /\ \A c \in Clients : c \in Lockers ~> pc[c] = "holding"
  /\ \A c \in Clients : pc[c] = "run" ~> pc[c] = "idle"
  /\ in_process /\ interrupted ~> ~in_process

===============================================================================
