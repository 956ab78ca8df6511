------------------------------ MODULE ThreadPool ------------------------------
(***************************************************************************)
(* The worker threads of misc/thread_pool.c. The core runs commands on     *)
(* them (player/command.c, run_command). One action is one stretch of code *)
(* under pool->lock; sleepers is the set of workers inside                 *)
(* pthread_cond_wait or pthread_cond_timedwait that no signal has reached  *)
(* yet.                                                                    *)
(***************************************************************************)
EXTENDS Naturals, Sequences, FiniteSets

CONSTANTS
  Workers,       (* thread identities; one can be used again after its end *)
  Work,          (* work items, each is added at most once                 *)
  InitThreads,   (* the arguments of mp_thread_pool_create                 *)
  MinThreads,
  MaxThreads

ASSUME ThreadPoolAssumption ==
  /\ IsFiniteSet(Workers)
  /\ InitThreads \in Nat /\ MinThreads \in Nat /\ MaxThreads \in Nat
  /\ InitThreads <= MinThreads
  /\ MaxThreads > 0 /\ MaxThreads >= MinThreads
  /\ MaxThreads <= Cardinality(Workers)

VARIABLES
  threads,        (* pool->threads                                            *)
  busy_threads,   (* pool->busy_threads                                       *)
  terminate,      (* pool->terminate                                          *)
  work,           (* pool->work, the next one to be taken first               *)
  at,             (* where each worker is                                     *)
  item,           (* the work a running worker has taken, as a set            *)
  sleepers,       (* waiting workers that have not been woken                 *)
  state,          (* of the work: "new", "queued", "reserved" (accepted by
                     mp_thread_pool_run), "running", "done" or "refused"      *)
  joining,        (* the threads thread_pool_dtor joins                       *)
  freed,          (* thread_pool_dtor has returned                            *)
  create_failed   (* history: pthread_create has failed                       *)

poolVars == <<threads, busy_threads, terminate, work, at, item, sleepers, state,
              joining, freed, create_failed>>

WorkerAt == {"none", "start", "running", "wait", "timedwait"}

NumThreads == Cardinality(threads)

PoolInit ==
  /\ \E T \in SUBSET Workers :
       /\ Cardinality(T) = InitThreads
       /\ threads = T
       /\ at = [w \in Workers |-> IF w \in T THEN "start" ELSE "none"]
  /\ busy_threads = 0
  /\ terminate = FALSE
  /\ work = <<>>
  /\ item = [w \in Workers |-> {}]
  /\ sleepers = {}
  /\ state = [i \in Work |-> "new"]
  /\ joining = {}
  /\ freed = FALSE
  /\ create_failed = FALSE

(***************************************************************************)
(* worker_thread: one trip through the loop, ending with the mutex         *)
(* released. b is busy_threads, s the state of the work and e the sleepers *)
(* as the code before leaves them; expired is got_timeout.                 *)
(***************************************************************************)

TakeWork(w, b, s, e) ==
  /\ work # <<>>
  /\ work' = Tail(work)
  /\ item' = [item EXCEPT ![w] = {Head(work)}]
  /\ state' = [s EXCEPT ![Head(work)] = "running"]
  /\ busy_threads' = b + 1
  /\ at' = [at EXCEPT ![w] = "running"]
  /\ sleepers' = e
  /\ UNCHANGED threads

\* Mutant: a worker ends on a timeout although there is work.
ExitBeforeWork(w, b, s, e, expired) ==
  /\ work = <<>> \/ expired
  /\ expired \/ terminate
  /\ threads' = threads \ {w}
  /\ at' = [at EXCEPT ![w] = "none"]
  /\ item' = [item EXCEPT ![w] = {}]
  /\ busy_threads' = b
  /\ state' = s
  /\ sleepers' = e
  /\ UNCHANGED work

\* The thread ends. After thread_pool_dtor, the list of threads is empty anyway.
Exit(w, b, s, e, expired) ==
  /\ work = <<>>
  /\ expired \/ terminate
  /\ threads' = threads \ {w}
  /\ at' = [at EXCEPT ![w] = "none"]
  /\ item' = [item EXCEPT ![w] = {}]
  /\ busy_threads' = b
  /\ state' = s
  /\ sleepers' = e
  /\ UNCHANGED work

\* Only workers above the minimum wait with a timeout.
WaitForWork(w, b, s, e, expired) ==
  /\ work = <<>>
  /\ ~expired /\ ~terminate
  /\ at' = [at EXCEPT ![w] = IF NumThreads > MinThreads THEN "timedwait" ELSE "wait"]
  /\ item' = [item EXCEPT ![w] = {}]
  /\ busy_threads' = b
  /\ state' = s
  /\ sleepers' = e \cup {w}
  /\ UNCHANGED <<work, threads>>

Loop(w, b, s, e, expired) ==
  /\ \/ TakeWork(w, b, s, e)
     \/ Exit(w, b, s, e, expired)
     \/ WaitForWork(w, b, s, e, expired)
  /\ UNCHANGED <<terminate, joining, freed, create_failed>>

StartThread(w) ==
  /\ at[w] = "start"
  /\ Loop(w, busy_threads, state, sleepers, FALSE)

\* pthread_cond_wait returns: signalled, or for no reason.
WorkerWoken(w) ==
  /\ at[w] \in {"wait", "timedwait"}
  /\ w \notin sleepers
  /\ Loop(w, busy_threads, state, sleepers, FALSE)

WorkerSpuriousWakeup(w) ==
  /\ w \in sleepers
  /\ sleepers' = sleepers \ {w}
  /\ UNCHANGED <<threads, busy_threads, terminate, work, at, item, state, joining,
                 freed, create_failed>>

\* pthread_cond_timedwait times out (a signal may have come at the same time).
WorkerTimedOut(w) ==
  /\ at[w] = "timedwait"
  /\ Loop(w, busy_threads, state, sleepers \ {w}, NumThreads > MinThreads)

\* The work function returns. The worker goes on with the next item, if any.
FinishWork(w) ==
  /\ at[w] = "running"
  /\ Loop(w, busy_threads - 1,
          [i \in Work |-> IF i \in item[w] THEN "done" ELSE state[i]],
          sleepers, FALSE)

(***************************************************************************)
(* thread_pool_add, on any thread                                          *)
(***************************************************************************)

\* Mutant: work that no worker has picked up yet is not accounted for.
NeedsThreadBusyOnly == busy_threads + 1 > NumThreads /\ NumThreads < MaxThreads

\* There are not enough threads to process everything at once.
NeedsThread == busy_threads + Len(work) + 1 > NumThreads /\ NumThreads < MaxThreads

AddThread(w) ==
  /\ at[w] = "none"
  /\ at' = [at EXCEPT ![w] = "start"]
  /\ threads' = threads \cup {w}

\* Mutant: the waiting workers are not told about the new work.
InsertWorkSilently(i, accepted) ==
  /\ work' = Append(work, i)
  /\ state' = [state EXCEPT ![i] = accepted]
  /\ UNCHANGED sleepers

\* Queue the work and wake one of the waiting workers.
InsertWork(i, accepted) ==
  /\ work' = Append(work, i)
  /\ state' = [state EXCEPT ![i] = accepted]
  /\ \/ sleepers = {} /\ UNCHANGED sleepers
     \/ \E w \in sleepers : sleepers' = sleepers \ {w}

\* A thread is there, or could be created.
AddWithThread(i, accepted) ==
  /\ IF NeedsThread
     THEN \E w \in Workers : AddThread(w)
     ELSE UNCHANGED <<at, threads>>
  /\ InsertWork(i, accepted)
  /\ UNCHANGED create_failed

\* pthread_create fails. The work can still be queued if there is a thread.
AddWithoutThread(i, accepted, allow_queue) ==
  /\ NeedsThread
  /\ create_failed' = TRUE
  /\ UNCHANGED <<at, threads>>
  /\ IF allow_queue /\ NumThreads > 0
     THEN InsertWork(i, accepted)
     ELSE state' = [state EXCEPT ![i] = "refused"] /\ UNCHANGED <<work, sleepers>>

Add(i, accepted, allow_queue) ==
  /\ ~terminate
  /\ state[i] = "new"
  /\ AddWithThread(i, accepted) \/ AddWithoutThread(i, accepted, allow_queue)
  /\ UNCHANGED <<busy_threads, terminate, item, joining, freed>>

\* mp_thread_pool_queue
PoolQueue(i) == Add(i, "queued", TRUE)

\* mp_thread_pool_run
PoolRun(i) == Add(i, "reserved", FALSE)

(***************************************************************************)
(* thread_pool_dtor. No call on the pool overlaps with it.                 *)
(***************************************************************************)

Destroy ==
  /\ ~terminate
  /\ terminate' = TRUE
  /\ joining' = threads
  /\ threads' = {}
  /\ sleepers' = {}
  /\ UNCHANGED <<busy_threads, work, at, item, state, freed, create_failed>>

\* The threads have been joined; the fields are checked and freed.
Joined ==
  /\ terminate /\ ~freed
  /\ \A w \in joining : at[w] = "none"
  /\ freed' = TRUE
  /\ UNCHANGED <<threads, busy_threads, terminate, work, at, item, sleepers, state,
                 joining, create_failed>>

WorkerStep(w) == StartThread(w) \/ WorkerWoken(w) \/ WorkerTimedOut(w) \/ FinishWork(w)

PoolNext ==
  \/ \E w \in Workers : WorkerStep(w) \/ WorkerSpuriousWakeup(w)
  \/ \E i \in Work : PoolQueue(i) \/ PoolRun(i)
  \/ Destroy
  \/ Joined

PoolSpec == PoolInit /\ [][PoolNext]_poolVars

(***************************************************************************)
(* Workers run when they can, and their work ends. A signalled worker gets *)
(* the mutex in the end; a timeout only has to come if nothing else does.  *)
(***************************************************************************)
PoolFairness ==
  /\ \A w \in Workers :
       /\ WF_poolVars(StartThread(w))
       /\ WF_poolVars(WorkerWoken(w))
       /\ WF_poolVars(FinishWork(w))
  /\ WF_poolVars(Joined)

PoolFairSpec == PoolSpec /\ PoolFairness

(***************************************************************************)
(* Properties                                                              *)
(***************************************************************************)

Running == {w \in Workers : at[w] = "running"}

\* Workers on their way to look for work.
Looking == {w \in Workers : at[w] \in {"start", "wait", "timedwait"}} \ sleepers

PoolTypeOK ==
  /\ threads \subseteq Workers
  /\ busy_threads = Cardinality(Running)
  /\ terminate \in BOOLEAN /\ freed \in BOOLEAN /\ create_failed \in BOOLEAN
  /\ work \in Seq(Work)
  /\ at \in [Workers -> WorkerAt]
  /\ item \in [Workers -> SUBSET Work]
  /\ sleepers \subseteq {w \in Workers : at[w] \in {"wait", "timedwait"}}
  /\ state \in [Work -> {"new", "queued", "reserved", "running", "done", "refused"}]
  /\ joining \subseteq Workers

\* No work waits while a worker sleeps: every queued item has a worker of its
\* own on the way to it, or all workers are up.
NoIdleWorker ==
  Len(work) <= Cardinality(Looking) \/ sleepers = {}

\* As long as the pool can grow, all accepted work is processed at once: there
\* is a thread for every item that is being worked on or waits (the comment in
\* thread_pool_add), also after workers have ended on a timeout.
AllAtOnce ==
  ~terminate /\ ~create_failed /\ NumThreads < MaxThreads
    => busy_threads + Len(work) <= NumThreads

\* Accepted work is never left without a thread: pthread_create may fail, the
\* workers may end on timeouts, and the pool may be destroyed (the assertion in
\* thread_pool_dtor).
WorkHasThread ==
  /\ work # <<>> => \E w \in Workers : at[w] # "none"
  /\ freed => work = <<>> /\ \A i \in Work : state[i] \in {"new", "done", "refused"}

\* The pool accounts for all it has accepted: the counters are right, and with
\* them every item has its thread.
WorkAccounted == PoolTypeOK /\ AllAtOnce /\ WorkHasThread

\* All accepted work is done, and destroying the pool ends: every worker notices
\* and can be joined.
WorkDone ==
  /\ \A i \in Work : state[i] \in {"queued", "reserved", "running"} ~> state[i] = "done"
  /\ terminate ~> freed
===============================================================================
