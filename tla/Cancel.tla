-------------------------------- MODULE Cancel --------------------------------
(***************************************************************************)
(* misc/thread_tools.c: mp_cancel, a flag that aborts blocking I/O. It is    *)
(* mirrored to sleeping threads, a callback and a pipe, and to slaves, which *)
(* are mp_cancel objects themselves. Threads trigger a tree of them while    *)
(* others add to it, wait on it and take parts of it away.                   *)
(*                                                                           *)
(* mp_cancel_trigger locks an object, and keeps it locked while it triggers  *)
(* the slaves one by one. stack[t] holds the objects thread t has locked     *)
(* this way, the innermost first, with the slaves still to be triggered.     *)
(***************************************************************************)
EXTENDS Naturals, Sequences, FiniteSets, SequencesExt

CONSTANTS
  Cancels,          \* objects of struct mp_cancel
  Threads,
  None,             \* no object, no thread
  Owner,            \* the thread that has made an object: it alone may move,
                    \* extend, wait for and free it, as the callers do
  Masters,          \* for each object, those that may become its parent
  Uses,             \* for each object, the operations that are used on it
  Shared,           \* objects that live as long as the program, are triggered
                    \* by every thread and reset (playback_abort)
  MaxCalls          \* bound: calls per thread

Operations ==
  {"trigger", "reset", "wait", "set_cb", "get_fd", "set_parent", "destroy"}

\* A parent outlives its slaves: it is a shared object, or the same thread has made
\* both (the cancel object of a demuxer and that of its stream). Shared objects have
\* no parent; as slaves, they could be reset while the parent is triggered.
ASSUME CancelAssumption ==
  /\ IsFiniteSet(Cancels)
  /\ None \notin Cancels \cup Threads
  /\ Owner \in [Cancels -> Threads]
  /\ Masters \in [Cancels -> SUBSET Cancels]
  /\ Uses \in [Cancels -> SUBSET Operations]
  /\ Shared \subseteq Cancels
  /\ \A c \in Cancels : \A p \in Masters[c] : p \in Shared \/ Owner[p] = Owner[c]
  /\ \A c \in Shared : Masters[c] = {}
  /\ MaxCalls \in [Threads -> Nat]

VARIABLES
  alive,            \* objects that exist
  lock,             \* c->lock: the thread that holds it
  triggered,        \* c->triggered
  cb,               \* c->cb: none, or whether it was called for this trigger
  pipe,             \* c->wakeup_pipe: none, or whether there is a byte in it
  slaves,           \* c->slaves
  parent,           \* c->parent
  asleep,           \* threads in pthread_cond_timedwait
  stack,            \* running calls of trigger_locked
  call,             \* what a thread does: the operation, its object, a parent
  calls             \* number of calls made

mirrors == <<triggered, cb, pipe, asleep>>
vars == <<alive, lock, mirrors, slaves, parent, stack, call, calls>>

Idle == [op |-> "idle", c |-> None, to |-> None]

\* All objects have been made, and some are slaves already.
Init ==
  /\ alive = Cancels
  /\ lock = [c \in Cancels |-> None]
  /\ triggered = [c \in Cancels |-> FALSE]
  /\ cb = [c \in Cancels |-> "none"]
  /\ pipe = [c \in Cancels |-> "none"]
  /\ parent \in [Cancels -> Cancels \cup {None}]
  /\ \A c \in Cancels : parent[c] \in Masters[c] \cup {None}
  /\ slaves = [p \in Cancels |-> SetToSeq({c \in Cancels : parent[c] = p})]
  /\ asleep = {}
  /\ stack = [t \in Threads |-> <<>>]
  /\ call = [t \in Threads |-> Idle]
  /\ calls = [t \in Threads |-> 0]

Doing(t, op) == call[t].op = op /\ stack[t] = <<>>
Return(t) == call' = [call EXCEPT ![t] = Idle]
Goto(t, op) == call' = [call EXCEPT ![t].op = op]

\* A thread starts a call. An object is freed only when it has no slaves; the owner
\* of a slave sees to it that the parent exists as long as it is one.
Start(t) ==
  /\ call[t] = Idle /\ calls[t] < MaxCalls[t]
  /\ calls' = [calls EXCEPT ![t] = @ + 1]
  /\ \E c \in alive : \E op \in Uses[c], p \in Masters[c] \cup {None} :
       /\ Owner[c] = t \/ (c \in Shared /\ op = "trigger")
       /\ op = "reset" => c \in Shared
       /\ op = "destroy" => c \notin Shared /\ slaves[c] = <<>>
       /\ IF op = "set_parent"
          THEN p # parent[c] /\ p \in alive \cup {None}
          ELSE p = None
       /\ call' = [call EXCEPT ![t] = [op |-> op, c |-> c, to |-> p]]
  /\ UNCHANGED <<alive, lock, mirrors, slaves, parent, stack>>

\* trigger_locked up to its loop over the slaves, with the lock of c just taken.
Enter(t, c, list, cbs, below) ==
  /\ lock' = [lock EXCEPT ![c] = t]
  /\ triggered' = [triggered EXCEPT ![c] = TRUE]
  /\ asleep' = asleep \ {u \in asleep : call[u].c = c}
  /\ cb' = [cbs EXCEPT ![c] = IF @ = "none" THEN @ ELSE "called"]
  /\ stack' = [stack EXCEPT ![t] = <<[c |-> c, todo |-> list]>> \o below]

\* Mutant: what is added does not hear of an earlier trigger.
RetriggerNot(t, c, list, cbs) ==
  cb' = cbs /\ Return(t) /\ UNCHANGED <<lock, triggered, asleep, stack>>

\* retrigger_locked, which ends a call that has added to a mirror of c.
Retrigger(t, c, list, cbs) ==
  IF triggered[c]
  THEN Enter(t, c, list, cbs, <<>>) /\ Goto(t, "triggering")
  ELSE cb' = cbs /\ Return(t) /\ UNCHANGED <<lock, triggered, asleep, stack>>

Trigger(t) ==
  LET c == call[t].c IN
  /\ Doing(t, "trigger") /\ lock[c] = None
  /\ Enter(t, c, slaves[c], cb, <<>>) /\ Goto(t, "triggering")
  /\ UNCHANGED <<alive, pipe, slaves, parent, calls>>

\* The loop of trigger_locked calls mp_cancel_trigger for the next slave.
TriggerSlave(t) ==
  /\ stack[t] # <<>> /\ stack[t][1].todo # <<>>
  /\ LET top == stack[t][1]
         s == Head(top.todo)
     IN /\ lock[s] = None
        /\ Enter(t, s, slaves[s], cb,
                 <<[top EXCEPT !.todo = Tail(@)]>> \o Tail(stack[t]))
  /\ UNCHANGED <<alive, pipe, slaves, parent, call, calls>>

\* The end of trigger_locked, and the unlock that follows it in every caller.
Leave(t) ==
  /\ stack[t] # <<>> /\ stack[t][1].todo = <<>>
  /\ LET c == stack[t][1].c IN
     /\ pipe' = [pipe EXCEPT ![c] = IF @ = "none" THEN @ ELSE "readable"]
     /\ lock' = [lock EXCEPT ![c] = None]
  /\ stack' = [stack EXCEPT ![t] = Tail(@)]
  /\ IF Len(stack[t]) = 1 THEN Return(t) ELSE UNCHANGED call
  /\ UNCHANGED <<alive, triggered, cb, slaves, parent, asleep, calls>>

Reset(t) ==
  LET c == call[t].c IN
  /\ Doing(t, "reset") /\ lock[c] = None
  /\ triggered' = [triggered EXCEPT ![c] = FALSE]
  /\ cb' = [cb EXCEPT ![c] = IF @ = "none" THEN @ ELSE "set"]
  /\ pipe' = [pipe EXCEPT ![c] = IF @ = "none" THEN @ ELSE "empty"]
  /\ Return(t)
  /\ UNCHANGED <<alive, lock, slaves, parent, asleep, stack, calls>>

SetCb(t) ==
  LET c == call[t].c IN
  /\ Doing(t, "set_cb") /\ lock[c] = None
  /\ Retrigger(t, c, slaves[c], [cb EXCEPT ![c] = "set"])
  /\ UNCHANGED <<alive, pipe, slaves, parent, calls>>

GetFd(t) ==
  LET c == call[t].c IN
  /\ Doing(t, "get_fd") /\ lock[c] = None
  /\ IF pipe[c] = "none"
     THEN pipe' = [pipe EXCEPT ![c] = "empty"] /\ Retrigger(t, c, slaves[c], cb)
     ELSE Return(t) /\ UNCHANGED <<lock, mirrors, stack>>
  /\ UNCHANGED <<alive, slaves, parent, calls>>

\* LL_REMOVE: c leaves the list of its parent.
Detached(c) ==
  IF parent[c] = None THEN slaves' = slaves
  ELSE \E n \in DOMAIN slaves[parent[c]] :
         /\ slaves[parent[c]][n] = c
         /\ slaves' = [slaves EXCEPT ![parent[c]] = RemoveAt(@, n)]

\* Mutant: it does not take the lock of the parent.
UnlinkUnlocked(t) ==
  LET c == call[t].c IN
  /\ call[t].op \in {"set_parent", "destroy"}
  /\ Detached(c)
  /\ parent' = [parent EXCEPT ![c] = call[t].to]
  /\ \/ call[t].op = "destroy" /\ Goto(t, "free")
     \/ call[t].op = "set_parent" /\ call[t].to = None /\ Return(t)
     \/ call[t].op = "set_parent" /\ call[t].to # None /\ Goto(t, "link")
  /\ UNCHANGED <<alive, lock, mirrors, stack, calls>>

\* The first half of mp_cancel_set_parent, also of the one in cancel_destroy.
Unlink(t) ==
  LET c == call[t].c IN
  /\ call[t].op \in {"set_parent", "destroy"}
  /\ parent[c] \in {None} \cup {p \in Cancels : lock[p] = None}
  /\ Detached(c)
  /\ parent' = [parent EXCEPT ![c] = call[t].to]
  /\ \/ call[t].op = "destroy" /\ Goto(t, "free")
     \/ call[t].op = "set_parent" /\ call[t].to = None /\ Return(t)
     \/ call[t].op = "set_parent" /\ call[t].to # None /\ Goto(t, "link")
  /\ UNCHANGED <<alive, lock, mirrors, stack, calls>>

\* The second half: all slaves of a triggered parent are triggered again.
Link(t) ==
  LET c == call[t].c
      p == parent[c]
  IN
  /\ Doing(t, "link") /\ lock[p] = None
  /\ slaves' = [slaves EXCEPT ![p] = Append(@, c)]
  /\ Retrigger(t, p, slaves'[p], cb)
  /\ UNCHANGED <<alive, pipe, parent, calls>>

\* The rest of cancel_destroy: the object with its lock and its pipe is gone.
Destroy(t) ==
  LET c == call[t].c IN
  /\ Doing(t, "free")
  /\ alive' = alive \ {c}
  /\ Return(t)
  /\ UNCHANGED <<lock, mirrors, slaves, parent, stack, calls>>

\* Mutant: the flag is not looked at before sleeping.
WaitTestLate(t) ==
  LET c == call[t].c IN
  /\ Doing(t, "wait") /\ t \notin asleep /\ lock[c] = None
  /\ asleep' = asleep \cup {t}
  /\ UNCHANGED <<alive, lock, triggered, cb, pipe, slaves, parent, stack, call, calls>>

\* mp_cancel_wait: the test under the lock, before sleeping and after each wakeup.
WaitTest(t) ==
  LET c == call[t].c IN
  /\ Doing(t, "wait") /\ t \notin asleep /\ lock[c] = None
  /\ IF triggered[c]
     THEN Return(t) /\ UNCHANGED asleep
     ELSE asleep' = asleep \cup {t} /\ UNCHANGED call
  /\ UNCHANGED <<alive, lock, triggered, cb, pipe, slaves, parent, stack, calls>>

WaitTimeout(t) ==
  /\ Doing(t, "wait") /\ t \in asleep /\ lock[call[t].c] = None
  /\ asleep' = asleep \ {t}
  /\ Return(t)
  /\ UNCHANGED <<alive, lock, triggered, cb, pipe, slaves, parent, stack, calls>>

Steps(t) ==
  \/ Trigger(t) \/ TriggerSlave(t) \/ Leave(t) \/ Reset(t) \/ SetCb(t) \/ GetFd(t)
  \/ Unlink(t) \/ Link(t) \/ Destroy(t) \/ WaitTest(t)

Next == \E t \in Threads : Start(t) \/ Steps(t) \/ WaitTimeout(t)

Spec == Init /\ [][Next]_vars

\* A mutex is handed to every thread that keeps asking for it; calls need not be
\* made, and timeouts need not come.
Fairness == \A t \in Threads : SF_vars(Steps(t))
FairSpec == Spec /\ Fairness

(***************************************************************************)
(* Properties                                                              *)
(***************************************************************************)

Calls == Operations \cup {"idle", "triggering", "link", "free"}

TypeOK ==
  /\ alive \subseteq Cancels
  /\ lock \in [Cancels -> Threads \cup {None}]
  /\ triggered \in [Cancels -> BOOLEAN]
  /\ cb \in [Cancels -> {"none", "set", "called"}]
  /\ pipe \in [Cancels -> {"none", "empty", "readable"}]
  /\ slaves \in [Cancels -> Seq(Cancels)]
  /\ parent \in [Cancels -> Cancels \cup {None}]
  /\ asleep \subseteq {t \in Threads : call[t].op = "wait"}
  /\ stack \in [Threads -> Seq([c : Cancels, todo : Seq(Cancels)])]
  /\ call \in [Threads -> [op : Calls, c : Cancels \cup {None}, to : Cancels \cup {None}]]
  /\ calls \in [Threads -> Nat] /\ \A t \in Threads : calls[t] <= MaxCalls[t]

\* No thread touches an object that was freed: the slave that is triggered next, all
\* that a thread holds locked, and the parent a slave will leave exist. Nothing but the
\* lock of the parent keeps a slave, whose owner knows nothing of the trigger.
AliveWhenUsed ==
  /\ TypeOK
  /\ \A t \in Threads : \A i \in DOMAIN stack[t] :
       /\ stack[t][i].c \in alive
       /\ \A j \in DOMAIN stack[t][i].todo : stack[t][i].todo[j] \in alive
  /\ \A c \in Cancels : c \notin alive => lock[c] = None
  /\ \A c \in alive : parent[c] \in alive \cup {None}

\* "If parent gets triggered, automatically trigger slave", and whatever else has
\* been added: with nobody at work on an object, all its mirrors show its flag, also
\* those that were added after it had been triggered.
MirrorsAgree ==
  \A c \in alive : lock[c] = None =>
    /\ triggered[c] => /\ cb[c] # "set" /\ pipe[c] # "empty"
                       /\ \A t \in asleep : call[t].c # c
                       /\ \A i \in DOMAIN slaves[c] : triggered[slaves[c][i]]
    /\ ~triggered[c] => cb[c] # "called" /\ pipe[c] # "readable"

\* Every call returns, although locks are held through the whole tree; a wait does
\* once the object is triggered.
CallsEnd ==
  LET Busy(t) == \/ call[t].op \notin {"idle", "wait"}
                 \/ call[t].op = "wait" /\ triggered[call[t].c]
  IN \A t \in Threads : Busy(t) ~> ~Busy(t)
===============================================================================
