------------------------------ MODULE MiscProofs ------------------------------
(***************************************************************************)
(* Proofs about the two ways of having something done on another thread,   *)
(* misc/dispatch.c and misc/thread_pool.c.                                 *)
(*                                                                         *)
(* Dispatch, for every set of clients and any bound on their calls: the    *)
(* inductive invariant says how the fields of the queue follow from the    *)
(* places the threads are at (LockInv), and that an item on a caller's     *)
(* stack is referred to once (SyncInv).                                    *)
(*                                                                         *)
(* ThreadPool, for every set of workers, any amount of work, and any       *)
(* limits: the inductive invariant adds to the properties what the fields  *)
(* have to do with the places of the workers (ThreadInv), and where each   *)
(* item is (ItemInv).                                                      *)
(***************************************************************************)
EXTENDS Dispatch, ThreadPool, FiniteSetTheorems, SequenceTheorems, TLAPS

(***************************************************************************)
(* The dispatch queue                                                      *)
(***************************************************************************)

\* in_process, locked and lock_requests are what the places of the threads say.
LockInv ==
  /\ in_process <=> pc[Target] # "out"
  /\ lock_requests = Cardinality(Lockers)
  /\ locked <=> pc[Target] = "callback" \/ \E c \in Clients : pc[c] = "holding"
  /\ \A c \in Clients : pc[c] = "lock_wait" => pc[Target] # "out"
  /\ \A c \in Clients : pc[c] = "holding" => pc[Target] \in {"blocked", "sleeping"}
  /\ \A c, d \in Clients : pc[c] = "holding" /\ pc[d] = "holding" => c = d

Queued(c) == {n \in 1..Len(queue) : queue[n] = Sync(c)}

SyncInv ==
  /\ pc[Target] = "callback" <=> current # <<>>
  /\ \A c \in Clients : c \in completed => pc[c] = "run"
  /\ \A c \in Clients, m, n \in 1..Len(queue) :
       queue[m] = Sync(c) /\ queue[n] = Sync(c) => m = n
  /\ \A c \in Clients, n \in 1..Len(queue) :
       current = <<Sync(c)>> => queue[n] # Sync(c)
  /\ SyncItemAlive

IInv == TypeOK /\ LockInv /\ SyncInv /\ NoLostWakeup

-------------------------------------------------------------------------------

\* The result of a withdrawal is made of different places of the old queue.
LEMMA WithoutPlaces ==
  ASSUME NEW X, NEW q \in Seq(X), NEW S, NEW r \in Without(q, S)
  PROVE  /\ r \in Seq(X)
         /\ \E f \in [1..Len(r) -> 1..Len(q)] :
              /\ \A n \in 1..Len(r) : r[n] = q[f[n]]
              /\ \A m, n \in 1..Len(r) : m # n => f[m] # f[n]
<1> DEFINE kept == {j \in 1..Len(q) : q[j] \notin S}
           N == Cardinality(kept)
<1>1. IsFiniteSet(kept) /\ N \in Nat
  <2>1. IsFiniteSet(1..Len(q))
    BY FS_Interval
  <2> QED
    BY <2>1, FS_Subset, FS_CardinalityType
<1> HIDE DEF N
<1>2. PICK f \in [1..N -> kept] :
        /\ r = [n \in 1..N |-> q[f[n]]]
        /\ \A m, n \in 1..N : m < n => f[m] < f[n]
  BY DEF Without, InOrder, N
<1>3. f \in [1..N -> 1..Len(q)]
  BY <1>2
<1>4. \A n \in 1..N : q[f[n]] \in X
  BY <1>3, ElementOfSeq
<1>5. r \in Seq(X) /\ Len(r) = N
  BY <1>1, <1>2, <1>4, IsASeq
<1>6. \A m, n \in 1..N : m # n => f[m] # f[n]
  BY <1>1, <1>2, <1>3
<1>7. /\ f \in [1..Len(r) -> 1..Len(q)]
      /\ \A n \in 1..Len(r) : r[n] = q[f[n]]
      /\ \A m, n \in 1..Len(r) : m # n => f[m] # f[n]
  <2>1. \A n \in 1..N : r[n] = q[f[n]]
    BY <1>2
  <2> QED
    BY <2>1, <1>3, <1>5, <1>6
<1> QED
  BY <1>5, <1>7

\* One trip through the loop keeps the fields and the places well typed.
LEMMA LoopTypes ==
  ASSUME TypeOK,
         NEW q \in Seq(Items), NEW w \in {Expired, Deadline, Forever},
         NEW l \in BOOLEAN, NEW s \in SUBSET Threads,
         LoopTop(q, w, l, s)
  PROVE  /\ queue' \in Seq(Items)
         /\ wait' \in {Expired, Deadline, Forever}
         /\ interrupted' \in BOOLEAN
         /\ in_process' \in BOOLEAN
         /\ locked' \in BOOLEAN
         /\ current' = <<>> \/ \E i \in Items : current' = <<i>>
         /\ asleep' \subseteq Threads
         /\ pc' \in [Threads -> TargetPC \cup ClientPC]
         /\ pc'[Target] \in TargetPC
         /\ \A c \in Clients : pc'[c] = pc[c]
<1> USE DEF TypeOK, GoTo, TargetPC, Threads
<1> USE DispatchAssumption
<1>1. CASE LoopBlocked(q, w, l, s)
  BY <1>1 DEF LoopBlocked
<1>2. CASE LoopRun(q, w, s)
  <2>1. Head(q) \in Items /\ Tail(q) \in Seq(Items)
    BY <1>2 DEF LoopRun
  <2> QED
    BY <1>2, <2>1 DEF LoopRun
<1>3. CASE LoopSleep(q, w, l, s)
  BY <1>3 DEF LoopSleep
<1>4. CASE LoopReturn(q, w, l, s)
  BY <1>4 DEF LoopReturn
<1> QED
  BY <1>1, <1>2, <1>3, <1>4 DEF LoopTop

-------------------------------------------------------------------------------
(***************************************************************************)
(* The fields follow the places.                                           *)
(***************************************************************************)

\* Moving only the target leaves the lockers alone.
LEMMA SameLockers ==
  ASSUME \A c \in Clients : pc'[c] = pc[c]
  PROVE  Lockers' = Lockers
BY DEF Lockers

\* The clients in mp_dispatch_lock are finitely many, so they can be counted.
LEMMA LockersFinite ==
  /\ IsFiniteSet(Lockers) /\ Lockers \subseteq Clients
  /\ Cardinality(Lockers) \in 0..Cardinality(Clients)
  /\ Cardinality(Lockers) = 0 <=> Lockers = {}
<1>1. Lockers \subseteq Clients /\ IsFiniteSet(Clients)
  BY DispatchAssumption DEF Lockers
<1> QED
  BY <1>1, FS_Subset, FS_CardinalityType, FS_EmptySet

\* The four steps of the target: l is locked as the code before the trip leaves it.
LEMMA LoopLock ==
  ASSUME TypeOK, LockInv,
         NEW q \in Seq(Items), NEW w \in {Expired, Deadline, Forever},
         NEW l \in BOOLEAN, NEW s \in SUBSET Threads,
         l <=> (\E c \in Clients : pc[c] = "holding"),
         UNCHANGED lock_requests,
         LoopTop(q, w, l, s)
  PROVE  LockInv'
<1>1. /\ pc' \in [Threads -> TargetPC \cup ClientPC]
      /\ pc'[Target] \in TargetPC
      /\ \A c \in Clients : pc'[c] = pc[c]
  BY LoopTypes
<1>2. Lockers' = Lockers
  BY <1>1, SameLockers
<1>3. lock_requests > 0 <=> Lockers # {}
  BY LockersFinite DEF LockInv
<1>4. \A c \in Clients : pc[c] \in {"lock_wait", "holding"} => lock_requests > 0
  BY <1>3 DEF Lockers
<1>5. l => lock_requests > 0
  BY <1>4
<1>6. Target \in Threads
  BY DEF Threads
<1>7. CASE LoopBlocked(q, w, l, s)
  BY <1>1, <1>2, <1>5, <1>6, <1>7 DEF LoopBlocked, GoTo, LockInv, TypeOK
<1>8. CASE LoopRun(q, w, s)
  <2>1. \A c \in Clients : pc'[c] \notin {"lock_wait", "holding"}
    BY <1>1, <1>4, <1>8 DEF LoopRun
  <2>2. pc'[Target] = "callback" /\ in_process' = TRUE /\ locked' = TRUE
    BY <1>6, <1>8 DEF LoopRun, GoTo, TypeOK
  <2> QED
    BY <2>1, <2>2, <1>2 DEF LockInv
<1>9. CASE LoopSleep(q, w, l, s)
  BY <1>1, <1>2, <1>4, <1>5, <1>6, <1>9 DEF LoopSleep, GoTo, LockInv, TypeOK
<1>10. CASE LoopReturn(q, w, l, s)
  BY <1>1, <1>2, <1>4, <1>5, <1>6, <1>10 DEF LoopReturn, GoTo, LockInv, TypeOK
<1> QED
  BY <1>7, <1>8, <1>9, <1>10 DEF LoopTop

\* LockInv without the count of the requests.
PlaceInv ==
  /\ in_process <=> pc[Target] # "out"
  /\ locked <=> pc[Target] = "callback" \/ \E c \in Clients : pc[c] = "holding"
  /\ \A c \in Clients : pc[c] = "lock_wait" => pc[Target] # "out"
  /\ \A c \in Clients : pc[c] = "holding" => pc[Target] \in {"blocked", "sleeping"}
  /\ \A c, d \in Clients : pc[c] = "holding" /\ pc[d] = "holding" => c = d

\* A trip through the loops of mp_dispatch_lock.
LEMMA LockTestPlaces ==
  ASSUME TypeOK, PlaceInv, NEW c \in Clients, pc[c] # "holding",
         UNCHANGED in_process,
         LockTest(c) \/ (in_process /\ TakeLock(c))
  PROVE  /\ PlaceInv'
         /\ pc' \in [Threads -> TargetPC \cup ClientPC]
         /\ pc'[Target] = pc[Target]
         /\ \A d \in Clients \ {c} : pc'[d] = pc[d]
         /\ pc'[c] \in {"lock_wakeup", "lock_wait", "holding"}
         /\ locked' \in BOOLEAN
         /\ asleep' \subseteq Threads
<1>1. c # Target /\ c \in Threads /\ Target \in Threads
  BY DispatchAssumption DEF Threads
<1>2. CASE in_process /\ TakeLock(c)
  <2>1. CASE ~locked
    <3>1. /\ pc' = [pc EXCEPT ![c] = "holding"]
          /\ locked' = TRUE /\ asleep' = asleep
      BY <1>2, <2>1 DEF TakeLock
    <3>2. /\ pc' \in [Threads -> TargetPC \cup ClientPC]
          /\ pc'[Target] = pc[Target] /\ pc'[c] = "holding"
          /\ \A d \in Clients \ {c} : pc'[d] = pc[d]
      BY <1>1, <3>1 DEF TypeOK, ClientPC, Threads
    <3>3. /\ pc[Target] \in {"blocked", "sleeping"}
          /\ \A d \in Clients : pc[d] # "holding"
      BY <1>2, <2>1 DEF PlaceInv, TypeOK, TargetPC
    <3>4. PlaceInv'
      BY <1>1, <1>2, <3>1, <3>2, <3>3 DEF PlaceInv
    <3> QED
      BY <3>1, <3>2, <3>4 DEF TypeOK
  <2>2. CASE locked
    <3>1. /\ pc' = [pc EXCEPT ![c] = "lock_wait"]
          /\ locked' = locked /\ asleep' = asleep \cup {c}
      BY <1>2, <2>2 DEF TakeLock
    <3>2. /\ pc' \in [Threads -> TargetPC \cup ClientPC]
          /\ pc'[Target] = pc[Target] /\ pc'[c] = "lock_wait"
          /\ \A d \in Clients \ {c} : pc'[d] = pc[d]
      BY <1>1, <3>1 DEF TypeOK, ClientPC, Threads
    <3>4. PlaceInv'
      BY <1>1, <1>2, <3>1, <3>2 DEF PlaceInv
    <3> QED
      BY <1>1, <3>1, <3>2, <3>4 DEF TypeOK
  <2> QED
    BY <2>1, <2>2
<1>3. CASE ~in_process /\ LockTest(c)
  <2>1. pc' = [pc EXCEPT ![c] = "lock_wakeup"] /\ UNCHANGED <<locked, asleep>>
    BY <1>3 DEF LockTest
  <2>2. /\ pc' \in [Threads -> TargetPC \cup ClientPC]
        /\ pc'[Target] = pc[Target] /\ pc'[c] = "lock_wakeup"
        /\ \A d \in Clients \ {c} : pc'[d] = pc[d]
    BY <1>1, <2>1 DEF TypeOK, ClientPC, Threads
  <2> QED
    BY <1>1, <2>1, <2>2 DEF PlaceInv, TypeOK
<1> QED
  BY <1>2, <1>3 DEF LockTest

\* A client that stays in mp_dispatch_lock, or outside of it, is counted as before.
LEMMA CountKept ==
  ASSUME NEW c \in Clients,
         pc'[c] \in {"lock_wakeup", "lock_recheck", "lock_trap", "lock_wait", "holding"}
           <=> c \in Lockers,
         \A d \in Clients \ {c} : pc'[d] = pc[d]
  PROVE  Lockers' = Lockers
BY DEF Lockers

\* Every step keeps the fields in_process, locked and lock_requests in agreement
\* with the places of the threads.
LEMMA LockNext ==
  ASSUME TypeOK, LockInv, Next
  PROVE  LockInv'
<1> USE DEF Threads
<1>1. PlaceInv
  BY DEF LockInv, PlaceInv
<1>2. SUFFICES PlaceInv' /\ lock_requests' = Cardinality(Lockers')
  BY DEF LockInv, PlaceInv
<1>3. lock_requests = Cardinality(Lockers)
  BY DEF LockInv
<1>4. Target \notin Clients
  BY DispatchAssumption
<1>5. ASSUME UNCHANGED <<pc, in_process, locked, lock_requests>>
      PROVE  PlaceInv' /\ lock_requests' = Cardinality(Lockers')
  <2>1. Lockers' = Lockers
    BY <1>5 DEF Lockers
  <2> QED
    BY <1>1, <1>3, <1>5, <2>1 DEF PlaceInv
<1>6. CASE TargetStep
  <2>1. ASSUME NEW w \in {Expired, Deadline, Forever}, EnterProcess(w)
        PROVE  LockInv'
    <3>1. locked \in BOOLEAN /\ (locked <=> \E c \in Clients : pc[c] = "holding")
      BY <2>1, <1>1 DEF EnterProcess, PlaceInv, TypeOK
    <3>2. PICK s \in SUBSET Threads : LoopTop(queue, w, locked, s)
      BY <2>1 DEF EnterProcess, TypeOK
    <3>3. queue \in Seq(Items) /\ UNCHANGED lock_requests
      BY <2>1 DEF EnterProcess, TypeOK
    <3> QED
      BY <3>1, <3>2, <3>3, LoopLock
  <2>2. CASE Woken
    <3>1. locked \in BOOLEAN /\ (locked <=> \E c \in Clients : pc[c] = "holding")
      BY <2>2, <1>1 DEF Woken, PlaceInv, TypeOK
    <3>2. LoopTop(queue, wait, locked, asleep) /\ UNCHANGED lock_requests
      BY <2>2 DEF Woken
    <3>3. /\ queue \in Seq(Items) /\ wait \in {Expired, Deadline, Forever}
          /\ asleep \in SUBSET Threads /\ asleep \ {Target} \in SUBSET Threads
      BY DEF TypeOK
    <3> QED
      BY <3>1, <3>2, <3>3, LoopLock DEF LockInv, PlaceInv
  <2>3. CASE TimedOut
    <3>1. locked \in BOOLEAN /\ (locked <=> \E c \in Clients : pc[c] = "holding")
      BY <2>3, <1>1 DEF TimedOut, PlaceInv, TypeOK
    <3>2. LoopTop(queue, Expired, locked, asleep \ {Target}) /\ UNCHANGED lock_requests
      BY <2>3 DEF TimedOut
    <3>3. /\ queue \in Seq(Items) /\ wait \in {Expired, Deadline, Forever}
          /\ asleep \in SUBSET Threads /\ asleep \ {Target} \in SUBSET Threads
      BY DEF TypeOK
    <3> QED
      BY <3>1, <3>2, <3>3, LoopLock DEF LockInv, PlaceInv
  <2>4. CASE FinishItem
    <3>1. ~\E c \in Clients : pc[c] = "holding"
      BY <2>4, <1>1 DEF FinishItem, PlaceInv
    <3>2. LoopTop(queue, wait, FALSE, {}) /\ UNCHANGED lock_requests
      BY <2>4 DEF FinishItem
    <3>3. /\ queue \in Seq(Items) /\ wait \in {Expired, Deadline, Forever}
          /\ {} \in SUBSET Threads
      BY DEF TypeOK
    <3> QED
      BY <3>1, <3>2, <3>3, LoopLock DEF LockInv, PlaceInv
  <2> QED
    BY <1>6, <2>1, <2>2, <2>3, <2>4 DEF TargetStep, LockInv, PlaceInv
<1>7. ASSUME NEW c \in Clients, ClientStep(c)
      PROVE  PlaceInv' /\ lock_requests' = Cardinality(Lockers')
  <2>1. CASE CallWakeup(c)
    BY <2>1, <1>5 DEF CallWakeup, queueVars
  <2>2. CASE RunCheck(c)
    <3>1. CASE c \in completed
      <4>1. Lockers' = Lockers
        BY <1>4, <2>2, <3>1, CountKept DEF RunCheck, TypeOK, Lockers
      <4> QED
        BY <1>1, <1>3, <1>4, <2>2, <3>1, <4>1
           DEF RunCheck, PlaceInv, queueVars, TypeOK
    <3>2. CASE c \notin completed
      BY <2>2, <3>2, <1>5 DEF RunCheck, queueVars
    <3> QED
      BY <3>1, <3>2
  <2>3. CASE LockWakeup(c)
    <3>1. Lockers' = Lockers
      BY <1>4, <2>3, CountKept DEF LockWakeup, TypeOK, Lockers
    <3> QED
      BY <1>1, <1>3, <1>4, <2>3, <3>1
         DEF LockWakeup, lockUnchanged, PlaceInv, TypeOK
  <2>4. CASE LockRecheck(c)
    <3>1. CASE in_process
      <4>1. TakeLock(c) /\ UNCHANGED <<in_process, lock_requests>>
        BY <2>4, <3>1 DEF LockRecheck, lockUnchanged
      <4>2. Lockers' = Lockers
        BY <1>1, <2>4, <3>1, <4>1, LockTestPlaces, CountKept DEF LockRecheck, Lockers
      <4> QED
        BY <1>1, <1>3, <2>4, <3>1, <4>1, <4>2, LockTestPlaces DEF LockRecheck
    <3>2. CASE ~in_process
      <4>1. Lockers' = Lockers
        BY <1>4, <2>4, <3>2, CountKept DEF LockRecheck, TypeOK, Lockers
      <4> QED
        BY <1>1, <1>3, <1>4, <2>4, <3>2, <4>1
           DEF LockRecheck, lockUnchanged, PlaceInv, TypeOK
    <3> QED
      BY <3>1, <3>2
  <2>5. CASE LockWoken(c)
    <3>1. /\ LockTest(c) \/ (in_process /\ TakeLock(c))
          /\ UNCHANGED <<in_process, lock_requests>>
      BY <1>1, <2>5 DEF LockWoken, lockUnchanged, PlaceInv
    <3>2. Lockers' = Lockers
      BY <1>1, <2>5, <3>1, LockTestPlaces, CountKept DEF LockWoken, Lockers
    <3> QED
      BY <1>1, <1>3, <2>5, <3>1, <3>2, LockTestPlaces DEF LockWoken
  <2>6. CASE Unlock(c)
    <3>1. Lockers' = Lockers \ {c} /\ c \in Lockers
      BY <1>4, <2>6 DEF Unlock, TypeOK, Lockers
    <3>2. Cardinality(Lockers') = Cardinality(Lockers) - 1
      BY <3>1, LockersFinite, FS_RemoveElement
    <3>3. PlaceInv'
      BY <1>1, <1>4, <2>6 DEF Unlock, lockUnchanged, PlaceInv, TypeOK
    <3> QED
      BY <1>3, <2>6, <3>2, <3>3 DEF Unlock
  <2> QED
    BY <1>7, <2>1, <2>2, <2>3, <2>4, <2>5, <2>6 DEF ClientStep
<1>8. CASE Call
  <2>1. CASE \E t \in Threads, i \in AsyncItems : Enqueue(t, i)
    BY <2>1, <1>5 DEF Enqueue
  <2>2. CASE \E k \in Keys : Cancel(k)
    BY <2>2, <1>5 DEF Cancel
  <2>3. ASSUME NEW c \in Clients, Run(c)
        PROVE  PlaceInv' /\ lock_requests' = Cardinality(Lockers')
    <3>1. Lockers' = Lockers
      BY <1>4, <2>3, CountKept DEF Run, TypeOK, Lockers
    <3> QED
      BY <1>1, <1>3, <1>4, <2>3, <3>1 DEF Run, PlaceInv, TypeOK
  <2>4. CASE \E t \in Threads : Interrupt(t)
    BY <2>4, <1>5 DEF Interrupt
  <2>5. CASE \E t \in Threads : AdjustTimeout(t)
    BY <2>5, <1>5 DEF AdjustTimeout
  <2>6. ASSUME NEW c \in Clients, Lock(c)
        PROVE  PlaceInv' /\ lock_requests' = Cardinality(Lockers')
    <3>1. /\ LockTest(c) /\ UNCHANGED in_process
          /\ lock_requests' = lock_requests + 1
          /\ c \notin Lockers
      BY <2>6 DEF Lock, lockUnchanged, Lockers
    <3>2. Lockers' = Lockers \cup {c}
      BY <1>1, <3>1, LockTestPlaces DEF Lockers
    <3>3. Cardinality(Lockers') = Cardinality(Lockers) + 1
      BY <3>1, <3>2, LockersFinite, FS_AddElement
    <3> QED
      BY <1>1, <1>3, <3>1, <3>3, LockTestPlaces DEF Lockers
  <2> QED
    BY <1>8, <2>1, <2>2, <2>3, <2>4, <2>5, <2>6 DEF Call
<1>9. CASE \E t \in Threads : SpuriousWakeup(t)
  BY <1>9, <1>5 DEF SpuriousWakeup, queueVars
<1> QED
  BY <1>6, <1>7, <1>8, <1>9 DEF Next

-------------------------------------------------------------------------------
(***************************************************************************)
(* Types.                                                                  *)
(***************************************************************************)

\* Every item is well typed, and its kind says which one it is.
LEMMA ItemTypes ==
  /\ \A c \in Clients : Sync(c) \in Items
  /\ AsyncItems \subseteq Items
  /\ \A i \in AsyncItems, c \in Clients : i # Sync(c)
  /\ \A i \in Items : i.kind = "sync" => i.key \in Clients /\ i = Sync(i.key)
  /\ \A c, d \in Clients : Sync(c) = Sync(d) => c = d
<1>1. ASSUME NEW c \in Clients PROVE Sync(c) \in Items
  BY DEF Items
<1>2. AsyncItems \subseteq Items
  BY DEF Items
<1>3. \A c \in Clients : Sync(c).kind = "sync" /\ Sync(c).key = c
  BY DEF Sync
<1>4. \A i \in AsyncItems : i.kind # "sync"
  BY DEF AsyncItems, Async, Notify
<1>5. ASSUME NEW i \in Items, i.kind = "sync"
      PROVE  i.key \in Clients /\ i = Sync(i.key)
  <2>1. PICK c \in Clients : i = Sync(c)
    BY <1>4, <1>5 DEF Items
  <2> QED
    BY <1>3, <2>1
<1> QED
  BY <1>1, <1>2, <1>3, <1>4, <1>5

\* The variables of TypeOK that LoopTypes and LockTestPlaces say nothing of.
RestTypes ==
  /\ lock_requests \in 0..Cardinality(Clients)
  /\ wakeup_fn \in BOOLEAN
  /\ signalled \in BOOLEAN
  /\ completed \subseteq Clients
  /\ owes \subseteq Clients
  /\ calls \in [Threads -> Nat] /\ \A t \in Threads : calls[t] <= MaxCalls[t]

\* A thread that may start one more call stays within its bound.
LEMMA CallTypes ==
  ASSUME TypeOK, NEW t \in Threads, MayCall(t), Called(t)
  PROVE  calls' \in [Threads -> Nat] /\ \A u \in Threads : calls'[u] <= MaxCalls[u]
<1>1. MaxCalls \in [Threads -> Nat]
  BY DispatchAssumption DEF Threads
<1>2. calls[t] \in Nat /\ MaxCalls[t] \in Nat /\ calls[t] < MaxCalls[t]
  BY <1>1 DEF MayCall, TypeOK
<1>3. calls' = [calls EXCEPT ![t] = calls[t] + 1]
  BY DEF Called
<1> QED
  BY <1>1, <1>2, <1>3 DEF TypeOK

\* The type invariant after a trip of the target through the loop.
LEMMA LoopTypeOK ==
  ASSUME TypeOK, RestTypes',
         NEW w \in {Expired, Deadline, Forever},
         NEW l \in BOOLEAN, NEW s \in SUBSET Threads,
         LoopTop(queue, w, l, s)
  PROVE  TypeOK'
<1>1. queue \in Seq(Items)
  BY DEF TypeOK
<1>2. \A c \in Clients : pc[c] \in ClientPC
  BY DEF TypeOK
<1> QED
  BY <1>1, <1>2, LoopTypes DEF TypeOK, RestTypes

\* Every step keeps the type invariant: the part about the queue is LoopTypes, the
\* count of the requests is LockNext.
LEMMA TypeNext ==
  ASSUME TypeOK, LockInv, SyncInv, Next
  PROVE  TypeOK'
<1> USE DEF Threads
<1>1. Target \notin Clients
  BY DispatchAssumption
<1>2. lock_requests' \in 0..Cardinality(Clients)
  <2>1. IsFiniteSet(Lockers') /\ Lockers' \subseteq Clients
    BY DispatchAssumption, FS_Subset DEF Lockers
  <2>2. Cardinality(Lockers') \in 0..Cardinality(Clients)
    BY <2>1, DispatchAssumption, FS_Subset, FS_CardinalityType
  <2> QED
    BY <2>2, LockNext DEF LockInv
<1>3. CASE TargetStep
  <2>1. ASSUME NEW w \in {Expired, Deadline, Forever}, EnterProcess(w)
        PROVE  TypeOK'
    <3>1. PICK s \in SUBSET Threads : LoopTop(queue, w, locked, s)
      BY <2>1 DEF EnterProcess, TypeOK
    <3>2. locked \in BOOLEAN /\ RestTypes'
      BY <1>2, <2>1 DEF EnterProcess, TypeOK, RestTypes
    <3> QED
      BY <3>1, <3>2, LoopTypeOK
  <2>2. CASE Woken
    <3>1. /\ locked \in BOOLEAN /\ RestTypes'
          /\ wait \in {Expired, Deadline, Forever} /\ asleep \in SUBSET Threads
      BY <1>2, <2>2 DEF Woken, TypeOK, RestTypes
    <3> QED
      BY <2>2, <3>1, LoopTypeOK DEF Woken
  <2>3. CASE TimedOut
    <3>1. /\ locked \in BOOLEAN /\ RestTypes'
          /\ asleep \ {Target} \in SUBSET Threads
      BY <1>2, <2>3 DEF TimedOut, TypeOK, RestTypes
    <3> QED
      BY <2>3, <3>1, LoopTypeOK DEF TimedOut
  <2>4. CASE FinishItem
    <3>1. pc[Target] = "callback" /\ completed' \subseteq Clients
      <4>1. completed \subseteq Clients /\ current[1] \in Items
        BY <2>4 DEF FinishItem, SyncInv, TypeOK
      <4>2. CASE current[1].kind = "sync"
        <5>1. current[1].key \in Clients
          BY <4>1, <4>2, ItemTypes
        <5> QED
          BY <2>4, <4>1, <4>2, <5>1 DEF FinishItem
      <4>3. CASE current[1].kind # "sync"
        BY <2>4, <4>1, <4>3 DEF FinishItem
      <4> QED
        BY <4>2, <4>3
    <3>2. RestTypes' /\ wait \in {Expired, Deadline, Forever} /\ {} \in SUBSET Threads
      BY <1>2, <2>4, <3>1 DEF FinishItem, TypeOK, RestTypes
    <3> QED
      BY <2>4, <3>2, LoopTypeOK DEF FinishItem
  <2> QED
    BY <1>3, <2>1, <2>2, <2>3, <2>4 DEF TargetStep
<1>4. ASSUME NEW c \in Clients, ClientStep(c)
      PROVE  TypeOK'
  <2>1. CASE CallWakeup(c)
    BY <1>2, <2>1 DEF CallWakeup, queueVars, TypeOK
  <2>2. CASE RunCheck(c)
    BY <1>1, <1>2, <2>2 DEF RunCheck, queueVars, TypeOK, ClientPC
  <2>3. CASE LockWakeup(c)
    BY <1>1, <1>2, <2>3 DEF LockWakeup, lockUnchanged, TypeOK, ClientPC
  <2>4. CASE LockRecheck(c) \/ LockWoken(c)
    <3>1. /\ UNCHANGED <<lock_requests, calls, signalled>> /\ lockUnchanged
          /\ \/ LockTest(c) \/ (in_process /\ TakeLock(c))
             \/ /\ pc' = [pc EXCEPT ![c] = "lock_trap"]
                /\ asleep' = asleep \cup {c}
                /\ UNCHANGED locked
          /\ pc[c] # "holding"
      BY <2>4 DEF LockRecheck, LockWoken, LockInv
    <3>2. /\ pc' \in [Threads -> TargetPC \cup ClientPC] /\ pc'[Target] \in TargetPC
          /\ \A d \in Clients : pc'[d] \in ClientPC
          /\ locked' \in BOOLEAN /\ asleep' \subseteq Threads
      <4>1. CASE LockTest(c) \/ (in_process /\ TakeLock(c))
        <5>1. PlaceInv /\ UNCHANGED in_process
          BY <3>1 DEF LockInv, PlaceInv, lockUnchanged
        <5> QED
          BY <3>1, <4>1, <5>1, LockTestPlaces DEF TypeOK, ClientPC
      <4>2. CASE UNCHANGED locked /\ asleep' = asleep \cup {c}
                 /\ pc' = [pc EXCEPT ![c] = "lock_trap"]
        BY <1>1, <4>2 DEF TypeOK, ClientPC
      <4> QED
        BY <3>1, <4>1, <4>2
    <3> QED
      BY <1>2, <3>1, <3>2 DEF lockUnchanged, TypeOK
  <2>5. CASE Unlock(c)
    BY <1>1, <1>2, <2>5 DEF Unlock, Broadcast, lockUnchanged, TypeOK, ClientPC
  <2> QED
    BY <1>4, <2>1, <2>2, <2>3, <2>4, <2>5 DEF ClientStep
<1>5. CASE Call
  <2>1. ASSUME NEW t \in Threads, NEW i \in AsyncItems, Enqueue(t, i)
        PROVE  TypeOK'
    <3>1. Append(queue, i) \in Seq(Items)
      BY ItemTypes DEF TypeOK
    <3>2. owes \cup {t} \subseteq Clients \/ t = Target
      BY DEF TypeOK
    <3> QED
      BY <1>2, <2>1, <3>1, <3>2, CallTypes DEF Enqueue, AppendItem, Broadcast, TypeOK
  <2>2. ASSUME NEW k \in Keys, Cancel(k)
        PROVE  TypeOK'
    <3>1. queue' \in Seq(Items)
      BY <2>2, WithoutPlaces DEF Cancel, TypeOK
    <3> QED
      BY <1>2, <2>2, <3>1, CallTypes DEF Cancel, TypeOK
  <2>3. ASSUME NEW c \in Clients, Run(c)
        PROVE  TypeOK'
    <3>1. Append(queue, Sync(c)) \in Seq(Items)
      BY ItemTypes DEF TypeOK
    <3> QED
      BY <1>1, <1>2, <2>3, <3>1, CallTypes
         DEF Run, AppendItem, Broadcast, TypeOK, ClientPC
  <2>4. ASSUME NEW t \in Threads, Interrupt(t)
        PROVE  TypeOK'
    BY <1>2, <2>4, CallTypes DEF Interrupt, Broadcast, TypeOK
  <2>5. ASSUME NEW t \in Threads, AdjustTimeout(t)
        PROVE  TypeOK'
    BY <1>2, <2>5, CallTypes DEF AdjustTimeout, Broadcast, TypeOK
  <2>6. ASSUME NEW c \in Clients, Lock(c)
        PROVE  TypeOK'
    <3>1. PlaceInv /\ UNCHANGED in_process /\ pc[c] # "holding" /\ LockTest(c)
      BY <2>6 DEF LockInv, PlaceInv, Lock, lockUnchanged
    <3>2. /\ pc' \in [Threads -> TargetPC \cup ClientPC] /\ pc'[Target] \in TargetPC
          /\ \A d \in Clients : pc'[d] \in ClientPC
          /\ locked' \in BOOLEAN /\ asleep' \subseteq Threads
      BY <3>1, LockTestPlaces DEF TypeOK, ClientPC
    <3> QED
      BY <1>2, <2>6, <3>2, CallTypes DEF Lock, lockUnchanged, TypeOK
  <2> QED
    BY <1>5, <2>1, <2>2, <2>3, <2>4, <2>5, <2>6 DEF Call
<1>6. CASE \E t \in Threads : SpuriousWakeup(t)
  BY <1>2, <1>6 DEF SpuriousWakeup, queueVars, TypeOK
<1> QED
  BY <1>3, <1>4, <1>5, <1>6 DEF Next

-------------------------------------------------------------------------------
(***************************************************************************)
(* Items on the stack of their callers.                                    *)
(***************************************************************************)

\* The step takes no item that a caller does not wait for, and completes
\* nothing that is still in the queue.
LEMMA SyncLoop ==
  ASSUME TypeOK, SyncInv,
         NEW w \in {Expired, Deadline, Forever},
         NEW l \in BOOLEAN, NEW s \in SUBSET Threads,
         LoopTop(queue, w, l, s),
         \A c \in Clients : c \in completed' => pc[c] = "run",
         \A c \in Clients, n \in 1..Len(queue) : queue[n] = Sync(c) => c \notin completed'
  PROVE  SyncInv'
<1>1. /\ pc' \in [Threads -> TargetPC \cup ClientPC]
      /\ \A c \in Clients : pc'[c] = pc[c]
      /\ Target \in Threads
  BY LoopTypes DEF TypeOK, Threads
<1>2. queue \in Seq(Items) /\ pc \in [Threads -> TargetPC \cup ClientPC]
  BY DEF TypeOK
<1>3. CASE LoopRun(queue, w, s)
  <2>1. /\ queue # <<>> /\ queue' = Tail(queue) /\ current' = <<Head(queue)>>
        /\ pc'[Target] = "callback"
    BY <1>1, <1>2, <1>3 DEF LoopRun, GoTo
  <2>2. /\ Len(queue') = Len(queue) - 1 /\ Len(queue) \in Nat /\ Len(queue) # 0
        /\ \A n \in 1..Len(queue') : n + 1 \in 1..Len(queue) /\ queue'[n] = queue[n + 1]
        /\ Head(queue) = queue[1]
    BY <1>2, <2>1
  <2>3. \A c \in Clients, m, n \in 1..Len(queue') :
          queue'[m] = Sync(c) /\ queue'[n] = Sync(c) => m = n
    BY <2>2 DEF SyncInv
  <2>4. \A c \in Clients, n \in 1..Len(queue') :
          current' = <<Sync(c)>> => queue'[n] # Sync(c)
    BY <2>1, <2>2 DEF SyncInv
  <2>5. SyncItemAlive'
    <3>1. \A c \in Clients, n \in 1..Len(queue) :
            queue[n] = Sync(c) => pc'[c] = "run" /\ c \notin completed'
      BY <1>1 DEF SyncInv, SyncItemAlive
    <3> QED
      BY <2>1, <2>2, <3>1 DEF SyncItemAlive
  <2> QED
    BY <1>1, <2>1, <2>3, <2>4, <2>5 DEF SyncInv
<1>4. CASE ~LoopRun(queue, w, s)
  <2>1. queue' = queue /\ current' = <<>> /\ pc'[Target] # "callback"
    BY <1>1, <1>2, <1>4
       DEF LoopTop, LoopBlocked, LoopSleep, LoopReturn, GoTo
  <2>2. \A c \in Clients : current' # <<Sync(c)>>
    BY <2>1
  <2> QED
    BY <1>1, <2>1, <2>2 DEF SyncInv, SyncItemAlive
<1> QED
  BY <1>3, <1>4

\* Steps that leave the items alone.
LEMMA SyncKept ==
  ASSUME SyncInv, UNCHANGED <<queue, current, completed>>,
         \A c \in Clients : pc[c] = "run" => pc'[c] = "run",
         pc'[Target] = pc[Target]
  PROVE  SyncInv'
BY DEF SyncInv, SyncItemAlive

\* Queueing an item that is not in the queue yet, for a caller that waits for it.
LEMMA SyncAppend ==
  ASSUME TypeOK, SyncInv, UNCHANGED <<current, completed>>,
         NEW i \in Items, queue' = Append(queue, i),
         \A c \in Clients : i = Sync(c) =>
           /\ pc'[c] = "run" /\ c \notin completed
           /\ current # <<i>> /\ \A n \in 1..Len(queue) : queue[n] # i,
         \A c \in Clients : pc[c] = "run" => pc'[c] = "run",
         pc'[Target] = pc[Target]
  PROVE  SyncInv'
<1>1. /\ queue \in Seq(Items)
      /\ Len(queue') = Len(queue) + 1 /\ Len(queue) \in Nat
      /\ \A n \in 1..Len(queue) : queue'[n] = queue[n]
      /\ queue'[Len(queue) + 1] = i
  BY DEF TypeOK
<1>2. \A n \in 1..Len(queue') : n \in 1..Len(queue) \/ n = Len(queue) + 1
  BY <1>1
<1> QED
  BY <1>1, <1>2 DEF SyncInv, SyncItemAlive

\* Every step keeps the items of mp_dispatch_run on the stack of a waiting caller.
LEMMA SyncNext ==
  ASSUME TypeOK, LockInv, SyncInv, Next
  PROVE  SyncInv'
<1> USE DEF Threads
<1>1. Target \notin Clients /\ queue \in Seq(Items)
  BY DispatchAssumption DEF TypeOK
<1>2. /\ \A c \in Clients : c \in completed => pc[c] = "run"
      /\ \A c \in Clients, n \in 1..Len(queue) : queue[n] = Sync(c) => c \notin completed
  BY DEF SyncInv, SyncItemAlive
<1>3. CASE TargetStep
  <2>1. ASSUME NEW w \in {Expired, Deadline, Forever}, EnterProcess(w)
        PROVE  SyncInv'
    <3>1. PICK s \in SUBSET Threads : LoopTop(queue, w, locked, s)
      BY <2>1 DEF EnterProcess, TypeOK
    <3>2. locked \in BOOLEAN /\ completed' = completed
      BY <2>1 DEF EnterProcess, TypeOK
    <3> QED
      BY <1>2, <3>1, <3>2, SyncLoop
  <2>2. CASE Woken
    <3>1. /\ locked \in BOOLEAN /\ completed' = completed
          /\ wait \in {Expired, Deadline, Forever} /\ asleep \in SUBSET Threads
      BY <2>2 DEF Woken, TypeOK
    <3> QED
      BY <1>2, <2>2, <3>1, SyncLoop DEF Woken
  <2>3. CASE TimedOut
    <3>1. /\ locked \in BOOLEAN /\ completed' = completed
          /\ asleep \ {Target} \in SUBSET Threads
      BY <2>3 DEF TimedOut, TypeOK
    <3> QED
      BY <1>2, <2>3, <3>1, SyncLoop DEF TimedOut
  <2>4. CASE FinishItem
    <3>1. PICK i \in Items : current = <<i>>
      BY <2>4 DEF FinishItem, SyncInv, TypeOK
    <3>2. completed' = IF i.kind = "sync" THEN completed \cup {i.key} ELSE completed
      BY <2>4, <3>1 DEF FinishItem
    <3>3. ASSUME NEW c \in Clients, c \in completed'
          PROVE  pc[c] = "run" /\ \A n \in 1..Len(queue) : queue[n] # Sync(c)
      <4>1. CASE c \in completed
        BY <1>2, <4>1
      <4>2. CASE c \notin completed
        <5>1. i = Sync(c)
          BY <3>2, <3>3, <4>2, ItemTypes
        <5> QED
          BY <3>1, <5>1 DEF SyncInv, SyncItemAlive
      <4> QED
        BY <4>1, <4>2
    <3>4. wait \in {Expired, Deadline, Forever} /\ {} \in SUBSET Threads
      BY DEF TypeOK
    <3> QED
      BY <2>4, <3>3, <3>4, SyncLoop DEF FinishItem
  <2> QED
    BY <1>3, <2>1, <2>2, <2>3, <2>4 DEF TargetStep
<1>4. ASSUME NEW c \in Clients, ClientStep(c)
      PROVE  SyncInv'
  <2>1. CASE CallWakeup(c)
    BY <2>1, SyncKept DEF CallWakeup, queueVars
  <2>2. CASE RunCheck(c)
    <3>1. CASE c \notin completed
      BY <2>2, <3>1, SyncKept DEF RunCheck, queueVars
    <3>2. CASE c \in completed
      <4>1. /\ UNCHANGED <<queue, current>> /\ completed' = completed \ {c}
            /\ pc' = [pc EXCEPT ![c] = "idle"]
        BY <2>2, <3>2 DEF RunCheck, queueVars
      <4>2. current # <<Sync(c)>> /\ \A n \in 1..Len(queue) : queue[n] # Sync(c)
        BY <3>2 DEF SyncInv, SyncItemAlive
      <4>3. pc'[Target] = pc[Target] /\ \A d \in Clients \ {c} : pc'[d] = pc[d]
        BY <1>1, <4>1 DEF TypeOK
      <4> QED
        BY <4>1, <4>2, <4>3 DEF SyncInv, SyncItemAlive
    <3> QED
      BY <3>1, <3>2
  <2>3. CASE LockWakeup(c)
    BY <1>1, <2>3, SyncKept DEF LockWakeup, lockUnchanged, TypeOK
  <2>4. CASE LockRecheck(c)
    BY <1>1, <2>4, SyncKept DEF LockRecheck, TakeLock, lockUnchanged, TypeOK
  <2>5. CASE LockWoken(c)
    BY <1>1, <2>5, SyncKept DEF LockWoken, LockTest, TakeLock, lockUnchanged, TypeOK
  <2>6. CASE Unlock(c)
    BY <1>1, <2>6, SyncKept DEF Unlock, lockUnchanged, TypeOK
  <2> QED
    BY <1>4, <2>1, <2>2, <2>3, <2>4, <2>5, <2>6 DEF ClientStep
<1>5. CASE Call
  <2>1. ASSUME NEW t \in Threads, NEW i \in AsyncItems, Enqueue(t, i)
        PROVE  SyncInv'
    <3>1. UNCHANGED <<current, completed, pc>> /\ i \in Items
      BY <2>1, ItemTypes DEF Enqueue
    <3>2. CASE queue' = queue
      BY <3>1, <3>2, SyncKept
    <3>3. CASE queue' = Append(queue, i)
      BY <3>1, <3>3, ItemTypes, SyncAppend
    <3> QED
      BY <2>1, <3>2, <3>3 DEF Enqueue, AppendItem
  <2>2. ASSUME NEW k \in Keys, Cancel(k)
        PROVE  SyncInv'
    <3>1. PICK f \in [1..Len(queue') -> 1..Len(queue)] :
            /\ \A n \in 1..Len(queue') : queue'[n] = queue[f[n]]
            /\ \A m, n \in 1..Len(queue') : m # n => f[m] # f[n]
      BY <1>1, <2>2, WithoutPlaces DEF Cancel
    <3>2. UNCHANGED <<current, completed, pc>>
      BY <2>2 DEF Cancel
    <3> QED
      BY <3>1, <3>2, SMTT(40) DEF SyncInv, SyncItemAlive
  <2>3. ASSUME NEW c \in Clients, Run(c)
        PROVE  SyncInv'
    <3>1. /\ pc[c] = "idle" /\ pc' = [pc EXCEPT ![c] = "run"]
          /\ queue' = Append(queue, Sync(c)) /\ UNCHANGED <<current, completed>>
      BY <2>3 DEF Run, AppendItem
    <3>2. /\ pc'[c] = "run" /\ pc'[Target] = pc[Target]
          /\ \A d \in Clients : pc[d] = "run" => pc'[d] = "run"
      BY <1>1, <3>1 DEF TypeOK
    <3>3. /\ c \notin completed /\ current # <<Sync(c)>>
          /\ \A n \in 1..Len(queue) : queue[n] # Sync(c)
      BY <3>1 DEF SyncInv, SyncItemAlive
    <3>4. \A d \in Clients : Sync(c) = Sync(d) => c = d
      BY ItemTypes
    <3> QED
      BY <3>1, <3>2, <3>3, <3>4, ItemTypes, SyncAppend
  <2>4. CASE \E t \in Threads : Interrupt(t)
    BY <2>4, SyncKept DEF Interrupt
  <2>5. CASE \E t \in Threads : AdjustTimeout(t)
    BY <2>5, SyncKept DEF AdjustTimeout
  <2>6. ASSUME NEW c \in Clients, Lock(c)
        PROVE  SyncInv'
    BY <1>1, <2>6, SyncKept DEF Lock, LockTest, TakeLock, lockUnchanged, TypeOK
  <2> QED
    BY <1>5, <2>1, <2>2, <2>3, <2>4, <2>5, <2>6 DEF Call
<1>6. CASE \E t \in Threads : SpuriousWakeup(t)
  BY <1>6, SyncKept DEF SpuriousWakeup, queueVars
<1> QED
  BY <1>3, <1>4, <1>5, <1>6 DEF Next

-------------------------------------------------------------------------------
(***************************************************************************)
(* Nobody sleeps through what it waits for.                                *)
(***************************************************************************)

\* The target goes through the loop: s are the threads that stay asleep.
LEMMA WakeLoop ==
  ASSUME TypeOK,
         NEW w \in {Expired, Deadline, Forever},
         NEW l \in BOOLEAN, NEW s \in SUBSET Threads,
         UNCHANGED lock_requests,
         LoopTop(queue, w, l, s),
         \A c \in s \cap Clients :
           /\ pc[c] = "run" => c \notin completed'
           /\ pc[c] # "lock_trap"
           /\ pc[c] = "lock_wait" => l
  PROVE  NoLostWakeup'
<1> USE DispatchAssumption DEF Threads
<1>1. queue \in Seq(Items) /\ \A c \in Clients : pc'[c] = pc[c]
  BY LoopTypes DEF TypeOK
<1>2. Target \in Threads /\ pc \in [Threads -> TargetPC \cup ClientPC]
  BY DEF TypeOK
<1>3. CASE LoopBlocked(queue, w, l, s)
  BY <1>1, <1>2, <1>3 DEF LoopBlocked, GoTo, NoLostWakeup
<1>4. CASE LoopRun(queue, w, s)
  BY <1>1, <1>2, <1>4 DEF LoopRun, GoTo, NoLostWakeup
<1>5. CASE LoopSleep(queue, w, l, s)
  BY <1>1, <1>2, <1>5 DEF LoopSleep, GoTo, NoLostWakeup
<1>6. CASE LoopReturn(queue, w, l, s)
  BY <1>1, <1>2, <1>6 DEF LoopReturn, GoTo, NoLostWakeup
<1> QED
  BY <1>3, <1>4, <1>5, <1>6 DEF LoopTop

\* No step makes what a sleeping thread waits for true without waking it.
LEMMA WakeNext ==
  ASSUME TypeOK, LockInv, NoLostWakeup, Next
  PROVE  NoLostWakeup'
<1> USE DEF Threads
<1>1. Target \notin Clients
  BY DispatchAssumption
<1>2. CASE TargetStep
  <2>1. ASSUME NEW w \in {Expired, Deadline, Forever}, EnterProcess(w)
        PROVE  NoLostWakeup'
    <3> DEFINE s == IF lock_requests > 0 THEN {} ELSE asleep
    <3>1. /\ LoopTop(queue, w, locked, s) /\ s \in SUBSET Threads
          /\ locked \in BOOLEAN /\ UNCHANGED <<lock_requests, completed>>
      BY <2>1 DEF EnterProcess, TypeOK
    <3>2. \A c \in s \cap Clients : c \notin Lockers
      BY LockersFinite DEF LockInv
    <3>3. \A c \in s \cap Clients : pc[c] = "run" => c \notin completed'
      BY <3>1 DEF NoLostWakeup
    <3> HIDE DEF s
    <3>4. \A c \in s \cap Clients : pc[c] \notin {"lock_trap", "lock_wait"}
      BY <3>2 DEF Lockers
    <3> QED
      BY <3>1, <3>3, <3>4, WakeLoop
  <2>2. CASE Woken
    <3>1. /\ locked \in BOOLEAN /\ UNCHANGED <<lock_requests, completed>>
          /\ wait \in {Expired, Deadline, Forever} /\ asleep \in SUBSET Threads
          /\ in_process
      BY <2>2 DEF Woken, TypeOK, LockInv
    <3> QED
      BY <2>2, <3>1, WakeLoop DEF Woken, NoLostWakeup
  <2>3. CASE TimedOut
    <3>1. /\ locked \in BOOLEAN /\ UNCHANGED <<lock_requests, completed>>
          /\ asleep \ {Target} \in SUBSET Threads /\ in_process
      BY <2>3 DEF TimedOut, TypeOK, LockInv
    <3> QED
      BY <2>3, <3>1, WakeLoop DEF TimedOut, NoLostWakeup
  <2>4. CASE FinishItem
    <3>1. /\ UNCHANGED lock_requests /\ wait \in {Expired, Deadline, Forever}
          /\ {} \in SUBSET Threads
      BY <2>4 DEF FinishItem, TypeOK
    <3> QED
      BY <2>4, <3>1, WakeLoop DEF FinishItem
  <2> QED
    BY <1>2, <2>1, <2>2, <2>3, <2>4 DEF TargetStep
<1>3. ASSUME NEW c \in Clients, ClientStep(c)
      PROVE  NoLostWakeup'
  <2>1. CASE CallWakeup(c)
    BY <2>1 DEF CallWakeup, queueVars, NoLostWakeup
  <2>2. CASE RunCheck(c)
    BY <1>1, <2>2 DEF RunCheck, queueVars, NoLostWakeup, TypeOK
  <2>3. CASE LockWakeup(c)
    BY <1>1, <2>3 DEF LockWakeup, lockUnchanged, NoLostWakeup, TypeOK
  <2>4. CASE LockRecheck(c)
    BY <1>1, <2>4 DEF LockRecheck, TakeLock, lockUnchanged, NoLostWakeup, TypeOK
  <2>5. CASE LockWoken(c)
    BY <1>1, <2>5
       DEF LockWoken, LockTest, TakeLock, lockUnchanged, NoLostWakeup, TypeOK, LockInv
  <2>6. CASE Unlock(c)
    BY <2>6 DEF Unlock, Broadcast, NoLostWakeup
  <2> QED
    BY <1>3, <2>1, <2>2, <2>3, <2>4, <2>5, <2>6 DEF ClientStep
<1>4. CASE Call
  <2>1. CASE \E t \in Threads, i \in AsyncItems : Enqueue(t, i)
    BY <2>1 DEF Enqueue, AppendItem, Broadcast, NoLostWakeup
  <2>2. ASSUME NEW k \in Keys, Cancel(k)
        PROVE  NoLostWakeup'
    BY <2>2 DEF Cancel, MayCall, NoLostWakeup
  <2>3. CASE \E c \in Clients : Run(c)
    BY <2>3 DEF Run, AppendItem, Broadcast, NoLostWakeup
  <2>4. CASE \E t \in Threads : Interrupt(t)
    BY <2>4 DEF Interrupt, Broadcast, NoLostWakeup
  <2>5. CASE \E t \in Threads : AdjustTimeout(t)
    BY <2>5 DEF AdjustTimeout, Broadcast, NoLostWakeup
  <2>6. ASSUME NEW c \in Clients, Lock(c)
        PROVE  NoLostWakeup'
    <3>1. Target \in asleep /\ pc[Target] = "blocked" => lock_requests' > 0
      BY <2>6 DEF Lock, NoLostWakeup, TypeOK
    <3> QED
      BY <1>1, <2>6, <3>1
         DEF Lock, LockTest, TakeLock, lockUnchanged, NoLostWakeup, TypeOK
  <2> QED
    BY <1>4, <2>1, <2>2, <2>3, <2>4, <2>5, <2>6 DEF Call
<1>5. CASE \E t \in Threads : SpuriousWakeup(t)
  BY <1>5 DEF SpuriousWakeup, queueVars, NoLostWakeup
<1> QED
  BY <1>2, <1>3, <1>4, <1>5 DEF Next

-------------------------------------------------------------------------------
(***************************************************************************)
(* The invariant and what follows from it.                                 *)
(***************************************************************************)

\* The invariant holds at first.
LEMMA InvInit ==
  ASSUME Init
  PROVE  IInv
<1> USE DispatchAssumption DEF Init, Threads
<1>1. Target \in Threads /\ pc[Target] = "out" /\ \A c \in Clients : pc[c] = "idle"
  OBVIOUS
<1>2. Lockers = {}
  BY <1>1 DEF Lockers
<1>3. TypeOK
  <2>1. Cardinality(Clients) \in Nat
    BY FS_CardinalityType
  <2>2. \A t \in Threads : MaxCalls[t] \in Nat
    OBVIOUS
  <2>3. queue \in Seq(Items) /\ lock_requests \in 0..Cardinality(Clients)
    BY <2>1
  <2>4. calls \in [Threads -> Nat] /\ \A t \in Threads : calls[t] <= MaxCalls[t]
    BY <2>2
  <2>5. /\ pc \in [Threads -> TargetPC \cup ClientPC]
        /\ pc[Target] \in TargetPC /\ \A c \in Clients : pc[c] \in ClientPC
    BY <1>1 DEF TargetPC, ClientPC
  <2> QED
    BY <2>3, <2>4, <2>5 DEF TypeOK
<1>4. LockInv
  BY <1>1, <1>2, FS_EmptySet DEF LockInv
<1>5. SyncInv
  BY <1>1 DEF SyncInv, SyncItemAlive
<1>6. NoLostWakeup
  BY DEF NoLostWakeup
<1> QED
  BY <1>3, <1>4, <1>5, <1>6 DEF IInv

\* Every step keeps the invariant.
LEMMA InvNext ==
  ASSUME IInv, [Next]_vars
  PROVE  IInv'
<1>1. CASE Next
  BY <1>1, TypeNext, LockNext, SyncNext, WakeNext DEF IInv
<1>2. CASE UNCHANGED vars
  <2> USE <1>2 DEF vars, queueVars, threadVars
  <2>1. TypeOK'
    BY DEF IInv, TypeOK
  <2>2. LockInv'
    BY DEF IInv, LockInv, Lockers
  <2>3. SyncInv'
    BY DEF IInv, SyncInv, SyncItemAlive
  <2>4. NoLostWakeup'
    BY DEF IInv, NoLostWakeup
  <2> QED
    BY <2>1, <2>2, <2>3, <2>4 DEF IInv
<1> QED
  BY <1>1, <1>2

\* The invariant is inductive.
THEOREM Invariant == Spec => []IInv
<1>1. Init => IInv
  BY InvInit
<1>2. IInv /\ [Next]_vars => IInv'
  BY InvNext
<1> QED
  BY <1>1, <1>2, PTL DEF Spec

\* Every field of the queue has its type; in particular the requests counted in
\* lock_requests are those of clients inside of the lock functions.
THEOREM TypeCorrect == Spec => []TypeOK
<1>1. IInv => TypeOK
  BY DEF IInv
<1> QED
  BY <1>1, Invariant, PTL

\* The users of the target's state (its own code, the callbacks, the holder of
\* mp_dispatch_lock) never overlap, for every number of clients.
THEOREM Exclusive == Spec => []ExclusiveAccess
<1>1. ASSUME IInv PROVE ExclusiveAccess
  <2>1. LockInv
    BY <1>1 DEF IInv
  <2> QED
    BY <2>1 DEF LockInv, ExclusiveAccess, UsesState, Threads
<1> QED
  BY <1>1, Invariant, PTL

\* No reference to a mp_dispatch_run item outlives the call.
THEOREM SyncItemsSafe == Spec => []SyncItemAlive
<1>1. IInv => SyncItemAlive
  BY DEF IInv, SyncInv
<1> QED
  BY <1>1, Invariant, PTL

\* No thread sleeps on the condition variable past the event it waits for.
THEOREM WakeupsKept == Spec => []NoLostWakeup
<1>1. IInv => NoLostWakeup
  BY DEF IInv
<1> QED
  BY <1>1, Invariant, PTL

-------------------------------------------------------------------------------
(***************************************************************************)
(* The queue implements CoreAccess.                                        *)
(***************************************************************************)

\* Who the user is, place by place.
UserPlaces ==
  /\ pc[Target] = "out" => User = "target"
  /\ pc[Target] = "callback" => User = "callback"
  /\ \A c \in Clients : pc[c] = "holding" => User = c
  /\ pc[Target] \in {"blocked", "sleeping"} /\ ~locked => User = "nobody"

\* Who uses the target's state, by the places of the threads.
LEMMA UserIs == LockInv => UserPlaces
<1> SUFFICES ASSUME LockInv PROVE UserPlaces
  OBVIOUS
<1>1. pc[Target] = "out" => User = "target"
  BY DEF User, LockInv
<1>2. pc[Target] = "callback" => User = "callback"
  BY DEF User, LockInv
<1>3. ASSUME NEW c \in Clients, pc[c] = "holding"
      PROVE  User = c
  <2>1. /\ pc[Target] # "out" /\ pc[Target] # "callback"
        /\ \A d \in Clients : pc[d] = "holding" => d = c
    BY <1>3 DEF LockInv
  <2>2. User = CHOOSE d \in Clients : pc[d] = "holding"
    BY <1>3, <2>1 DEF User
  <2> QED
    BY <1>3, <2>1, <2>2
<1>4. ASSUME pc[Target] \in {"blocked", "sleeping"}, ~locked
      PROVE  User = "nobody"
  <2>1. \A c \in Clients : pc[c] # "holding"
    BY <1>4 DEF LockInv
  <2> QED
    BY <1>4, <2>1 DEF User
<1> QED
  BY <1>1, <1>2, <1>3, <1>4 DEF UserPlaces

\* The same after a step.
LEMMA UserIsNext == LockInv' => UserPlaces'
BY UserIs, PTL

\* A step that moves neither the target nor a holder does not change the user.
LEMMA UserKept ==
  ASSUME TypeOK, LockInv, LockInv',
         pc'[Target] \in TargetPC,
         pc[Target] = "out" <=> pc'[Target] = "out",
         pc[Target] = "callback" <=> pc'[Target] = "callback",
         \A c \in Clients : pc'[c] = "holding" <=> pc[c] = "holding"
  PROVE  User' = User
<1>1. UserPlaces /\ UserPlaces'
  BY UserIs, UserIsNext
<1>2. CASE pc[Target] = "out"
  BY <1>1, <1>2 DEF UserPlaces
<1>3. CASE pc[Target] = "callback"
  BY <1>1, <1>3 DEF UserPlaces
<1>4. ASSUME NEW c \in Clients, pc[c] = "holding"
      PROVE  User' = User
  BY <1>1, <1>4 DEF UserPlaces
<1>5. CASE /\ pc[Target] \in {"blocked", "sleeping"}
           /\ \A c \in Clients : pc[c] # "holding"
  <2>1. pc'[Target] \in {"blocked", "sleeping"} /\ ~locked /\ ~locked'
    BY <1>5 DEF LockInv, TargetPC
  <2> QED
    BY <1>1, <1>5, <2>1 DEF UserPlaces
<1> QED
  BY <1>2, <1>3, <1>4, <1>5 DEF TypeOK, TargetPC

\* A trip through the loop is a step of the core, or a stutter.
LEMMA LoopIsCore ==
  ASSUME TypeOK, LockInv, LockInv',
         NEW w \in {Expired, Deadline, Forever},
         NEW l \in BOOLEAN, NEW s \in SUBSET Threads,
         LoopTop(queue, w, l, s)
  PROVE  [Core!Next]_(Core!vars)
<1>1. /\ queue \in Seq(Items)
      /\ pc'[Target] \in TargetPC
      /\ \A c \in Clients : pc'[c] = pc[c]
  BY LoopTypes DEF TypeOK
<1>2. UserPlaces /\ UserPlaces'
  BY UserIs, UserIsNext
<1>3. pc[Target] \in TargetPC /\ Target \in Threads
  BY DEF TypeOK, Threads
<1>4. /\ \A c \in Clients : pc[c] = "holding" => lock_requests > 0
      /\ \A c \in Clients : c \notin {"nobody", "callback", "target"}
  <2>1. \A c \in Clients : pc[c] = "holding" => Lockers # {}
    BY DEF Lockers
  <2> QED
    BY <2>1, LockersFinite, DispatchAssumption DEF LockInv
<1>5. ASSUME UNCHANGED queue, pc'[Target] \in {"blocked", "sleeping"}
      PROVE  [Core!Next]_(Core!vars)
  <2>1. CASE pc[Target] \in {"out", "callback"}
    <3>1. User \in {"target", "callback"}
      BY <1>2, <2>1 DEF UserPlaces
    <3>2. \A c \in Clients : pc'[c] # "holding"
      BY <1>1, <2>1 DEF LockInv
    <3>3. User' = "nobody"
      BY <1>2, <1>5, <3>2 DEF UserPlaces, LockInv
    <3>4. Core!Park
      BY <1>5, <3>1, <3>3 DEF Core!Park, Core!TargetUses, Core!Callback, Core!Nobody
    <3> QED
      BY <3>4 DEF Core!Next
  <2>2. CASE pc[Target] \in {"blocked", "sleeping"}
    <3>1. User' = User
      BY <1>1, <1>3, <1>5, <2>2, UserKept
    <3> QED
      BY <1>5, <3>1 DEF Core!vars
  <2> QED
    BY <1>3, <2>1, <2>2 DEF TargetPC
<1>6. lock_requests = 0 => User \in {"target", "callback", "nobody"}
  BY <1>2, <1>3, <1>4 DEF UserPlaces, LockInv, TargetPC, TypeOK
<1>7. CASE LoopRun(queue, w, s)
  <2>1. pc'[Target] = "callback" /\ queue' = Tail(queue) /\ queue # <<>>
    BY <1>3, <1>7 DEF LoopRun, GoTo, TypeOK
  <2>2. User \notin Clients
    BY <1>4, <1>6, <1>7 DEF LoopRun
  <2>3. User' = "callback"
    BY <1>2, <2>1 DEF UserPlaces
  <2>4. Core!Start
    BY <2>1, <2>2, <2>3 DEF Core!Start, Core!Callback
  <2> QED
    BY <2>4 DEF Core!Next
<1>8. CASE LoopReturn(queue, w, l, s)
  <2>1. pc'[Target] = "out" /\ queue' = queue /\ queue = <<>>
    BY <1>3, <1>8 DEF LoopReturn, GoTo, TypeOK
  <2>2. User' = "target"
    BY <1>2, <2>1 DEF UserPlaces
  <2>3. CASE User = "target"
    BY <2>1, <2>2, <2>3 DEF Core!vars
  <2>4. CASE User # "target"
    <3>1. Core!Return
      BY <1>6, <1>8, <2>1, <2>2, <2>4
         DEF LoopReturn, Core!Return, Core!Callback, Core!Nobody, Core!TargetUses
    <3> QED
      BY <3>1 DEF Core!Next
  <2> QED
    BY <2>3, <2>4
<1>9. CASE LoopBlocked(queue, w, l, s) \/ LoopSleep(queue, w, l, s)
  <2>1. UNCHANGED queue /\ pc'[Target] \in {"blocked", "sleeping"}
    BY <1>3, <1>9 DEF LoopBlocked, LoopSleep, GoTo, TypeOK
  <2> QED
    BY <1>5, <2>1
<1> QED
  BY <1>7, <1>8, <1>9 DEF LoopTop

\* Every step of the queue is a step of the core's access, or a stutter.
LEMMA CoreStep ==
  ASSUME IInv, Next
  PROVE  [Core!Next]_(Core!vars)
<1> USE DEF Threads
<1>1. TypeOK /\ LockInv /\ LockInv' /\ Target \notin Clients /\ pc[Target] \in TargetPC
  BY LockNext, DispatchAssumption DEF IInv, TypeOK
<1>2. UserPlaces /\ UserPlaces'
  BY <1>1, UserIs, UserIsNext
<1>3. ASSUME UNCHANGED queue, pc'[Target] = pc[Target],
             \A c \in Clients : pc'[c] = "holding" <=> pc[c] = "holding"
      PROVE  [Core!Next]_(Core!vars)
  BY <1>1, <1>3, UserKept DEF Core!vars
<1>4. CASE TargetStep
  <2>1. ASSUME NEW w \in {Expired, Deadline, Forever}, EnterProcess(w)
        PROVE  [Core!Next]_(Core!vars)
    <3>1. PICK s \in SUBSET Threads : LoopTop(queue, w, locked, s)
      BY <1>1, <2>1 DEF EnterProcess, TypeOK
    <3> QED
      BY <1>1, <3>1, LoopIsCore DEF TypeOK
  <2>2. ASSUME NEW w \in {Expired, Deadline, Forever},
               NEW l \in BOOLEAN, NEW s \in SUBSET Threads,
               LoopTop(queue, w, l, s)
        PROVE  [Core!Next]_(Core!vars)
    BY <1>1, <2>2, LoopIsCore
  <2>3. wait \in {Expired, Deadline, Forever} /\ locked \in BOOLEAN
        /\ asleep \in SUBSET Threads /\ asleep \ {Target} \in SUBSET Threads
    BY <1>1 DEF TypeOK
  <2>4. CASE Woken
    BY <2>2, <2>3, <2>4 DEF Woken
  <2>5. CASE TimedOut
    BY <2>2, <2>3, <2>5 DEF TimedOut
  <2>6. CASE FinishItem
    BY <2>2, <2>3, <2>6 DEF FinishItem
  <2> QED
    BY <1>4, <2>1, <2>4, <2>5, <2>6 DEF TargetStep
<1>5. ASSUME NEW c \in Clients, in_process, TakeLock(c), UNCHANGED queue, pc[c] # "holding"
      PROVE  [Core!Next]_(Core!vars)
  <2>1. CASE ~locked
    <3>1. pc'[c] = "holding" /\ pc[Target] \in {"blocked", "sleeping"}
      BY <1>1, <1>5, <2>1 DEF TakeLock, LockInv, TypeOK, TargetPC
    <3>2. User = "nobody" /\ User' = c
      BY <1>2, <2>1, <3>1 DEF UserPlaces
    <3>3. Core!Grab(c)
      BY <1>5, <3>2 DEF Core!Grab, Core!Nobody
    <3> QED
      BY <3>3 DEF Core!Next
  <2>2. CASE locked
    <3>1. /\ pc'[Target] = pc[Target]
          /\ \A d \in Clients : pc'[d] = "holding" <=> pc[d] = "holding"
      BY <1>1, <1>5, <2>2 DEF TakeLock, TypeOK
    <3> QED
      BY <1>3, <1>5, <3>1
  <2> QED
    BY <2>1, <2>2
<1>6. ASSUME NEW c \in Clients, LockTest(c), UNCHANGED queue, pc[c] # "holding"
      PROVE  [Core!Next]_(Core!vars)
  <2>1. CASE in_process
    BY <1>5, <1>6, <2>1 DEF LockTest
  <2>2. CASE ~in_process
    <3>1. /\ pc'[Target] = pc[Target]
          /\ \A d \in Clients : pc'[d] = "holding" <=> pc[d] = "holding"
      BY <1>1, <1>6, <2>2 DEF LockTest, TypeOK
    <3> QED
      BY <1>3, <1>6, <3>1
  <2> QED
    BY <2>1, <2>2
<1>7. ASSUME NEW c \in Clients, ClientStep(c)
      PROVE  [Core!Next]_(Core!vars)
  <2>1. CASE CallWakeup(c)
    BY <1>3, <2>1 DEF CallWakeup, queueVars
  <2>2. CASE RunCheck(c)
    BY <1>1, <1>3, <2>2 DEF RunCheck, queueVars, TypeOK
  <2>3. CASE LockWakeup(c)
    BY <1>1, <1>3, <2>3 DEF LockWakeup, lockUnchanged, TypeOK
  <2>4. CASE LockRecheck(c)
    <3>1. CASE in_process
      BY <1>5, <2>4, <3>1 DEF LockRecheck, lockUnchanged
    <3>2. CASE ~in_process
      BY <1>1, <1>3, <2>4, <3>2 DEF LockRecheck, lockUnchanged, TypeOK
    <3> QED
      BY <3>1, <3>2
  <2>5. CASE LockWoken(c)
    BY <1>1, <1>5, <1>6, <2>5 DEF LockWoken, lockUnchanged, LockInv
  <2>6. CASE Unlock(c)
    <3>1. User = c
      BY <1>2, <2>6 DEF Unlock, UserPlaces
    <3>2. pc'[Target] \in {"blocked", "sleeping"} /\ ~locked' /\ UNCHANGED queue
      BY <1>1, <2>6 DEF Unlock, lockUnchanged, LockInv, TypeOK
    <3>3. User' = "nobody"
      BY <1>2, <3>2 DEF UserPlaces
    <3>4. Core!Drop(c)
      BY <3>1, <3>2, <3>3 DEF Core!Drop, Core!Nobody
    <3> QED
      BY <3>4 DEF Core!Next
  <2> QED
    BY <1>7, <2>1, <2>2, <2>3, <2>4, <2>5, <2>6 DEF ClientStep
<1>8. CASE Call
  <2>1. ASSUME NEW i \in Items, AppendItem(i), pc'[Target] = pc[Target],
               \A c \in Clients : pc'[c] = "holding" <=> pc[c] = "holding"
        PROVE  [Core!Next]_(Core!vars)
    <3>1. User' = User
      BY <1>1, <2>1, UserKept
    <3>2. Core!Submit(i)
      BY <2>1, <3>1 DEF AppendItem, Core!Submit
    <3> QED
      BY <3>2 DEF Core!Next
  <2>2. CASE \E t \in Threads, i \in AsyncItems : Enqueue(t, i)
    BY <1>3, <2>1, <2>2, ItemTypes DEF Enqueue
  <2>3. ASSUME NEW k \in Keys, Cancel(k)
        PROVE  [Core!Next]_(Core!vars)
    <3> DEFINE S == {Async(k), Notify(k)}
    <3>1. S \in SUBSET Items
      BY DEF Items, AsyncItems
    <3>2. User' = User
      BY <1>1, <2>3, UserKept DEF Cancel
    <3>3. queue' \in Core!Without(queue, S)
      <4>1. \A K : InOrder(K) = Core!InOrder(K)
        BY Zenon DEF InOrder, Core!InOrder, Cardinality, Core!Cardinality
      <4>2. \A K : Cardinality(K) = Core!Cardinality(K)
        BY Zenon DEF Cardinality, Core!Cardinality
      <4>3. Without(queue, S) = Core!Without(queue, S)
        BY <4>1, <4>2, Zenon DEF Without, Core!Without
      <4> QED
        BY <2>3, <4>3 DEF Cancel
    <3>4. Core!Withdraw(S)
      BY <3>2, <3>3 DEF Core!Withdraw
    <3> HIDE DEF S
    <3> QED
      BY <3>1, <3>4 DEF Core!Next
  <2>4. ASSUME NEW c \in Clients, Run(c)
        PROVE  [Core!Next]_(Core!vars)
    <3>1. /\ AppendItem(Sync(c)) /\ pc'[Target] = pc[Target]
          /\ \A d \in Clients : pc'[d] = "holding" <=> pc[d] = "holding"
      BY <1>1, <2>4 DEF Run, TypeOK
    <3> QED
      BY <2>1, <3>1, ItemTypes
  <2>5. CASE \E t \in Threads : Interrupt(t)
    BY <1>3, <2>5 DEF Interrupt
  <2>6. CASE \E t \in Threads : AdjustTimeout(t)
    BY <1>3, <2>6 DEF AdjustTimeout
  <2>7. CASE \E c \in Clients : Lock(c)
    BY <1>6, <2>7 DEF Lock, lockUnchanged
  <2> QED
    BY <1>8, <2>2, <2>3, <2>4, <2>5, <2>6, <2>7 DEF Call
<1>9. CASE \E t \in Threads : SpuriousWakeup(t)
  BY <1>3, <1>9 DEF SpuriousWakeup, queueVars
<1> QED
  BY <1>4, <1>7, <1>8, <1>9 DEF Next

\* The queue implements CoreAccess: one user of the target's state at a time,
\* the work done in the order it was queued in, and none of it left when
\* mp_dispatch_queue_process returns to the target's own code.
THEOREM Refinement == Spec => ImplementsCoreAccess
<1>1. Init => Core!Init
  <2> SUFFICES ASSUME Init PROVE Core!Init
    OBVIOUS
  <2>1. IInv /\ pc[Target] = "out" /\ queue = <<>>
    BY InvInit DEF Init, Threads
  <2>2. UserPlaces
    BY <2>1, UserIs DEF IInv
  <2> QED
    BY <2>1, <2>2 DEF UserPlaces, Core!Init, Core!TargetUses
<1>2. IInv /\ [Next]_vars => [Core!Next]_(Core!vars)
  <2>1. UNCHANGED vars => UNCHANGED Core!vars
    BY DEF vars, queueVars, threadVars, Core!vars, User
  <2> QED
    BY <2>1, CoreStep
<1> QED
  BY <1>1, <1>2, Invariant, PTL DEF Spec, ImplementsCoreAccess, Core!Spec

(***************************************************************************)
(* The thread pool                                                         *)
(***************************************************************************)

Existing == {w \in Workers : at[w] # "none"}

\* Before the destructor the list of threads is that of the existing ones, and
\* after it these are all being joined, and none of them sleeps.
ThreadInv ==
  /\ ~terminate => threads = Existing
  /\ terminate => threads = {} /\ sleepers = {} /\ Existing \subseteq joining
  /\ freed => terminate /\ Existing = {}

Waits(i) == state[i] \in {"queued", "reserved"}

\* An item that waits is in the list, once; one that runs is with one worker.
ItemInv ==
  /\ \A n \in 1..Len(work) : Waits(work[n])
  /\ \A m, n \in 1..Len(work) : work[m] = work[n] => m = n
  /\ \A i \in Work : Waits(i) => \E n \in 1..Len(work) : work[n] = i
  /\ \A w \in Workers : at[w] # "running" => item[w] = {}
  /\ \A w \in Workers : \A i \in item[w] : state[i] = "running"
  /\ \A i \in Work : state[i] = "running" => \E w \in Workers : i \in item[w]
  /\ \A v, w \in Workers : v # w => item[v] \cap item[w] = {}

PoolInv == PoolTypeOK /\ ThreadInv /\ ItemInv /\ NoIdleWorker /\ AllAtOnce /\ WorkHasThread

-------------------------------------------------------------------------------

\* Sets of workers are finite, and so can be counted.
LEMMA WorkersFinite ==
  ASSUME NEW S \in SUBSET Workers
  PROVE  /\ IsFiniteSet(S) /\ Cardinality(S) \in Nat
         /\ Cardinality(S) = 0 <=> S = {}
         /\ \A w \in S : Cardinality(S \ {w}) = Cardinality(S) - 1
         /\ \A w \in Workers \ S : Cardinality(S \cup {w}) = Cardinality(S) + 1
         /\ \A w \in Workers \ S, T \in SUBSET Workers :
              S \cup {w} \subseteq T => Cardinality(S) < Cardinality(T)
<1>1. IsFiniteSet(Workers)
  BY ThreadPoolAssumption
<1>2. IsFiniteSet(S) /\ Cardinality(S) \in Nat /\ (Cardinality(S) = 0 <=> S = {})
  BY <1>1, FS_Subset, FS_CardinalityType, FS_EmptySet
<1>3. ASSUME NEW w \in Workers \ S
      PROVE  Cardinality(S \cup {w}) = Cardinality(S) + 1
  BY <1>2, <1>3, FS_AddElement
<1>4. ASSUME NEW w \in Workers \ S, NEW T \in SUBSET Workers, S \cup {w} \subseteq T
      PROVE  Cardinality(S) < Cardinality(T)
  <2>1. IsFiniteSet(T) /\ Cardinality(T) \in Nat
    BY <1>1, FS_Subset, FS_CardinalityType
  <2>2. Cardinality(S \cup {w}) <= Cardinality(T)
    BY <2>1, <1>4, FS_Subset
  <2> QED
    BY <2>1, <2>2, <1>2, <1>3
<1>5. ASSUME NEW w \in S
      PROVE  Cardinality(S \ {w}) = Cardinality(S) - 1
  BY <1>2, FS_RemoveElement
<1> QED
  BY <1>2, <1>3, <1>4, <1>5

\* What a worker has done with its last item, if it had one, when it comes to Loop.
Finished(w) == [i \in Work |-> IF i \in item[w] THEN "done" ELSE state[i]]

\* All trips through the loop begin alike: the worker is counted as neither busy
\* nor asleep.
LEMMA LoopEntered ==
  ASSUME PoolInv, NEW w \in Workers, WorkerStep(w)
  PROVE  /\ at[w] # "none"
         /\ \E expired \in BOOLEAN :
              /\ expired => at[w] = "timedwait"
              /\ Loop(w, Cardinality(Running \ {w}), Finished(w), sleepers \ {w}, expired)
<1> USE DEF PoolInv, PoolTypeOK
<1>1. ASSUME at[w] # "running"
      PROVE  Cardinality(Running \ {w}) = busy_threads /\ Finished(w) = state
  <2>1. Running \ {w} = Running
    BY <1>1 DEF Running
  <2>2. item[w] = {}
    BY <1>1 DEF ItemInv
  <2> QED
    BY <2>1, <2>2 DEF Finished
<1>2. CASE StartThread(w)
  <2>1. at[w] # "running" /\ at[w] # "none" /\ sleepers \ {w} = sleepers
    BY <1>2 DEF StartThread
  <2> QED
    BY <1>1, <1>2, <2>1 DEF StartThread
<1>3. CASE WorkerWoken(w)
  <2>1. at[w] # "running" /\ at[w] # "none" /\ sleepers \ {w} = sleepers
    BY <1>3 DEF WorkerWoken
  <2> QED
    BY <1>1, <1>3, <2>1 DEF WorkerWoken
<1>4. CASE WorkerTimedOut(w)
  <2>1. at[w] # "running" /\ at[w] # "none"
    BY <1>4 DEF WorkerTimedOut
  <2>2. Loop(w, Cardinality(Running \ {w}), Finished(w), sleepers \ {w},
             NumThreads > MinThreads)
    BY <1>1, <1>4, <2>1 DEF WorkerTimedOut
  <2>3. (NumThreads > MinThreads) \in BOOLEAN
    OBVIOUS
  <2> QED
    BY <1>4, <2>1, <2>2, <2>3 DEF WorkerTimedOut
<1>5. CASE FinishWork(w)
  <2>1. w \in Running /\ sleepers \ {w} = sleepers
    BY <1>5 DEF FinishWork, Running
  <2>2. Cardinality(Running \ {w}) = busy_threads - 1
    BY <2>1, WorkersFinite DEF Running
  <2> QED
    BY <1>5, <2>1, <2>2 DEF FinishWork, Finished
<1> QED
  BY <1>2, <1>3, <1>4, <1>5 DEF WorkerStep

\* The item a worker has finished is not one that waits, or that another one has.
LEMMA FinishedItems ==
  ASSUME PoolInv, NEW w \in Workers
  PROVE  /\ Finished(w) \in [Work -> {"new", "queued", "reserved", "running", "done", "refused"}]
         /\ \A i \in Work : Finished(w)[i] \in {"queued", "reserved"} <=> Waits(i)
         /\ \A i \in Work : Waits(i) => Finished(w)[i] = state[i]
         /\ \A i \in Work : Finished(w)[i] = "running"
              <=> state[i] = "running" /\ i \notin item[w]
         /\ \A v \in Workers \ {w} : \A i \in item[v] : Finished(w)[i] = "running"
         /\ \A i \in Work : i \notin item[w] => Finished(w)[i] = state[i]
         /\ \A i \in Work : i \in item[w] => Finished(w)[i] = "done"
BY DEF Finished, PoolInv, PoolTypeOK, ItemInv, Waits

\* A worker takes the next item.
LEMMA TakeWorkKeeps ==
  ASSUME PoolInv, NEW w \in Workers, at[w] # "none",
         TakeWork(w, Cardinality(Running \ {w}), Finished(w), sleepers \ {w}),
         UNCHANGED <<terminate, joining, freed, create_failed>>
  PROVE  PoolInv'
<1> DEFINE i == Head(work)
<1> USE DEF PoolInv, PoolTypeOK
<1>1. /\ i \in Work /\ i = work[1] /\ Len(work) \in Nat /\ Len(work) > 0
      /\ work' \in Seq(Work) /\ Len(work') = Len(work) - 1
      /\ \A n \in 1..Len(work') : work'[n] = work[n + 1] /\ n + 1 \in 1..Len(work)
      /\ \A n \in 1..Len(work) : n # 1 => n - 1 \in 1..Len(work') /\ work'[n - 1] = work[n]
  BY DEF TakeWork
<1> HIDE DEF i
<1>2. /\ at' = [at EXCEPT ![w] = "running"]
      /\ item' = [item EXCEPT ![w] = {i}]
      /\ state' = [Finished(w) EXCEPT ![i] = "running"]
      /\ busy_threads' = Cardinality(Running \ {w}) + 1
      /\ sleepers' = sleepers \ {w} /\ threads' = threads
  BY DEF TakeWork, i
<1>3. Waits(i) /\ \A v \in Workers : i \notin item[v]
  BY <1>1 DEF ItemInv, Waits
<1>4. /\ Running' = (Running \ {w}) \cup {w} /\ Running \subseteq Workers
      /\ Looking' = Looking \ {w} /\ Looking \subseteq Workers
      /\ Existing' = Existing
  BY <1>2 DEF Running, Looking, Existing
<1>5. busy_threads' = Cardinality(Running')
  BY <1>2, <1>4, WorkersFinite
<1>6. PoolTypeOK'
  <2>1. state' \in [Work -> {"new", "queued", "reserved", "running", "done", "refused"}]
    BY <1>1, <1>2, FinishedItems
  <2>2. at' \in [Workers -> WorkerAt] /\ item' \in [Workers -> SUBSET Work]
    BY <1>1, <1>2 DEF WorkerAt
  <2>3. sleepers' \subseteq {v \in Workers : at'[v] \in {"wait", "timedwait"}}
    BY <1>2
  <2> QED
    BY <1>1, <1>2, <1>5, <2>1, <2>2, <2>3
<1>7. ThreadInv'
  BY <1>2, <1>4 DEF ThreadInv
<1>8. ItemInv'
  <2>1. \A j \in Work : Waits(j)' <=> Waits(j) /\ j # i
    BY <1>1, <1>2, FinishedItems DEF Waits
  <2>2. \A n \in 1..Len(work') : state'[work'[n]] \in {"queued", "reserved"}
    <3>1. \A n \in 1..Len(work') : work'[n] \in Work /\ work'[n] # i /\ Waits(work'[n])
      BY <1>1, ElementOfSeq DEF ItemInv
    <3> QED
      BY <2>1, <3>1 DEF Waits
  <2>3. \A m, n \in 1..Len(work') : work'[m] = work'[n] => m = n
    BY <1>1 DEF ItemInv
  <2>4. ASSUME NEW j \in Work, Waits(j)' PROVE \E n \in 1..Len(work') : work'[n] = j
    <3>1. PICK n \in 1..Len(work) : work[n] = j
      BY <2>1, <2>4 DEF ItemInv
    <3>2. n # 1
      BY <1>1, <2>1, <2>4, <3>1
    <3> QED
      BY <1>1, <3>1, <3>2
  <2>5. \A v \in Workers : at'[v] # "running" => item'[v] = {}
    BY <1>2 DEF ItemInv
  <2>6. \A v \in Workers : \A j \in item'[v] : state'[j] = "running"
    BY <1>1, <1>2, FinishedItems DEF ItemInv
  <2>7. \A j \in Work : state'[j] = "running" => \E v \in Workers : j \in item'[v]
    BY <1>1, <1>2, FinishedItems DEF ItemInv
  <2>8. \A u, v \in Workers : u # v => item'[u] \cap item'[v] = {}
    BY <1>2, <1>3 DEF ItemInv
  <2> QED
    BY <2>2, <2>3, <2>4, <2>5, <2>6, <2>7, <2>8 DEF ItemInv, Waits
<1>9. NoIdleWorker'
  <2>1. Cardinality(Looking) - 1 <= Cardinality(Looking')
        /\ Cardinality(Looking) \in Nat /\ Cardinality(Looking') \in Nat
    <3>1. CASE w \in Looking
      BY <3>1, <1>4, WorkersFinite
    <3>2. CASE w \notin Looking
      <4>1. Looking' = Looking
        BY <3>2, <1>4
      <4>2. Cardinality(Looking) \in Nat
        BY <1>4, WorkersFinite
      <4> QED
        BY <4>1, <4>2
    <3> QED
      BY <3>1, <3>2
  <2> QED
    BY <1>1, <1>2, <2>1 DEF NoIdleWorker
<1>10. AllAtOnce'
  <2>1. busy_threads' <= busy_threads + 1 /\ busy_threads \in Nat /\ busy_threads' \in Nat
    <3>1. CASE w \in Running
      BY <3>1, <1>2, <1>4, WorkersFinite
    <3>2. CASE w \notin Running
      <4>1. Running \ {w} = Running
        BY <3>2
      <4>2. busy_threads' = busy_threads + 1
        BY <4>1, <1>2
      <4> QED
        BY <4>2, <1>4, WorkersFinite
    <3> QED
      BY <3>1, <3>2
  <2>2. NumThreads' = NumThreads /\ NumThreads \in Nat
    BY <1>2, WorkersFinite DEF NumThreads
  <2> QED
    BY <1>1, <2>1, <2>2, ThreadPoolAssumption DEF AllAtOnce
<1>11. WorkHasThread'
  <2>1. ~freed'
    BY DEF ThreadInv, Existing
  <2>2. at'[w] # "none"
    BY <1>2
  <2> QED
    BY <2>1, <2>2 DEF WorkHasThread
<1> QED
  BY <1>6, <1>7, <1>8, <1>9, <1>10, <1>11

\* Without waiting work, finishing an item leaves every item where it was otherwise.
LEMMA FinishedKeeps ==
  ASSUME PoolInv, NEW w \in Workers, work = <<>>, work' = work,
         item' = [item EXCEPT ![w] = {}], state' = Finished(w),
         NEW p \in WorkerAt \ {"running"}, at' = [at EXCEPT ![w] = p]
  PROVE  ItemInv' /\ Running' = Running \ {w}
<1> USE DEF PoolInv, PoolTypeOK
<1>1. ItemInv'
  <2>1. \A j \in Work : Waits(j)' <=> Waits(j)
    BY FinishedItems DEF Waits
  <2>2. Len(work') = 0 /\ \A j \in Work : ~Waits(j)'
    BY <2>1 DEF ItemInv
  <2>3. \A v \in Workers : at'[v] # "running" => item'[v] = {}
    BY DEF ItemInv
  <2>4. \A v \in Workers : \A j \in item'[v] : state'[j] = "running"
    BY FinishedItems DEF ItemInv
  <2>5. \A j \in Work : state'[j] = "running" => \E v \in Workers : j \in item'[v]
    BY FinishedItems DEF ItemInv
  <2>6. \A u, v \in Workers : u # v => item'[u] \cap item'[v] = {}
    BY DEF ItemInv
  <2> QED
    BY <2>2, <2>3, <2>4, <2>5, <2>6 DEF ItemInv
<1>2. Running' = Running \ {w}
  BY DEF Running
<1> QED
  BY <1>1, <1>2

\* A worker ends: there is no work, and one thread less is needed.
LEMMA ExitKeeps ==
  ASSUME PoolInv, NEW w \in Workers, at[w] # "none", NEW expired \in BOOLEAN,
         expired => at[w] = "timedwait",
         Exit(w, Cardinality(Running \ {w}), Finished(w), sleepers \ {w}, expired),
         UNCHANGED <<terminate, joining, freed, create_failed>>
  PROVE  PoolInv'
<1> USE DEF PoolInv, PoolTypeOK
<1>1. /\ work = <<>> /\ work' = work
      /\ threads' = threads \ {w}
      /\ at' = [at EXCEPT ![w] = "none"]
      /\ item' = [item EXCEPT ![w] = {}]
      /\ busy_threads' = Cardinality(Running \ {w})
      /\ state' = Finished(w) /\ sleepers' = sleepers \ {w}
  BY DEF Exit
<1>2. ItemInv' /\ Running' = Running \ {w}
  BY <1>1, FinishedKeeps DEF WorkerAt
<1>3. Existing' = Existing \ {w} /\ w \in Existing
  BY <1>1 DEF Existing
<1>4. PoolTypeOK'
  BY <1>1, <1>2, FinishedItems DEF WorkerAt
<1>5. ThreadInv'
  BY <1>1, <1>3 DEF ThreadInv
<1>6. NoIdleWorker'
  <2>1. Looking' \subseteq Workers
    BY DEF Looking
  <2> QED
    BY <1>1, <2>1, WorkersFinite DEF NoIdleWorker
<1>7. AllAtOnce'
  <2>1. ASSUME ~terminate PROVE Cardinality(Running') <= Cardinality(threads')
    <3>1. Running' \subseteq threads' /\ threads' \subseteq Workers
      BY <2>1, <1>1, <1>2 DEF ThreadInv, Existing, Running
    <3> QED
      BY <3>1, ThreadPoolAssumption, FS_Subset
  <2>2. busy_threads' = Cardinality(Running') /\ busy_threads' \in Nat
    BY <1>1, <1>2, WorkersFinite DEF Running
  <2> QED
    BY <1>1, <2>1, <2>2 DEF AllAtOnce, NumThreads
<1>8. WorkHasThread'
  <2>1. ~freed'
    BY <1>3 DEF ThreadInv
  <2> QED
    BY <1>1, <2>1 DEF WorkHasThread
<1> QED
  BY <1>2, <1>4, <1>5, <1>6, <1>7, <1>8

\* A worker goes to sleep: there is no work.
LEMMA WaitKeeps ==
  ASSUME PoolInv, NEW w \in Workers, at[w] # "none", NEW expired \in BOOLEAN,
         WaitForWork(w, Cardinality(Running \ {w}), Finished(w), sleepers \ {w}, expired),
         UNCHANGED <<terminate, joining, freed, create_failed>>
  PROVE  PoolInv'
<1> USE DEF PoolInv, PoolTypeOK
<1>1. PICK p \in {"wait", "timedwait"} : at' = [at EXCEPT ![w] = p]
  BY DEF WaitForWork
<1>2. /\ work = <<>> /\ work' = work /\ ~terminate
      /\ threads' = threads
      /\ item' = [item EXCEPT ![w] = {}]
      /\ busy_threads' = Cardinality(Running \ {w})
      /\ state' = Finished(w) /\ sleepers' = sleepers \cup {w}
  BY DEF WaitForWork
<1>3. ItemInv' /\ Running' = Running \ {w}
  BY <1>1, <1>2, FinishedKeeps DEF WorkerAt
<1>4. Existing' = Existing
  BY <1>1 DEF Existing
<1>5. PoolTypeOK'
  <2>1. sleepers' \subseteq {v \in Workers : at'[v] \in {"wait", "timedwait"}}
    BY <1>1, <1>2
  <2> QED
    BY <1>1, <1>2, <1>3, <2>1, FinishedItems DEF WorkerAt
<1>6. ThreadInv'
  BY <1>2, <1>4 DEF ThreadInv
<1>7. NoIdleWorker'
  <2>1. Looking' \subseteq Workers
    BY DEF Looking
  <2> QED
    BY <1>2, <2>1, WorkersFinite DEF NoIdleWorker
<1>8. AllAtOnce'
  <2>1. Running' \subseteq threads' /\ threads' \subseteq Workers
    BY <1>2, <1>3 DEF ThreadInv, Existing, Running
  <2>2. Cardinality(Running') <= Cardinality(threads')
    BY <2>1, ThreadPoolAssumption, FS_Subset
  <2>3. busy_threads' = Cardinality(Running') /\ busy_threads' \in Nat
    BY <1>2, <1>3, WorkersFinite DEF Running
  <2> QED
    BY <1>2, <2>2, <2>3 DEF AllAtOnce, NumThreads
<1>9. WorkHasThread'
  BY <1>2 DEF WorkHasThread, ThreadInv
<1> QED
  BY <1>3, <1>5, <1>6, <1>7, <1>8, <1>9

\* A worker that looks for work keeps the invariant, whatever it finds: work, nothing, or that
\* its time is over (worker_thread).
LEMMA WorkerKeeps ==
  ASSUME PoolInv, NEW w \in Workers, WorkerStep(w)
  PROVE  PoolInv'
<1>1. PICK expired \in BOOLEAN :
        /\ at[w] # "none"
        /\ expired => at[w] = "timedwait"
        /\ Loop(w, Cardinality(Running \ {w}), Finished(w), sleepers \ {w}, expired)
  BY LoopEntered
<1> QED
  BY <1>1, TakeWorkKeeps, ExitKeeps, WaitKeeps DEF Loop

-------------------------------------------------------------------------------

\* Work that is refused leaves all else alone.
LEMMA RefusedKeeps ==
  ASSUME PoolInv, NEW i \in Work, state[i] = "new",
         state' = [state EXCEPT ![i] = "refused"],
         UNCHANGED <<threads, busy_threads, terminate, work, at, item, sleepers, joining, freed>>,
         create_failed' = TRUE
  PROVE  PoolInv'
<1> USE DEF PoolInv, PoolTypeOK
<1>1. PoolTypeOK'
  BY DEF Running
<1>2. ThreadInv' /\ NoIdleWorker'
  BY DEF ThreadInv, NoIdleWorker, Existing, Looking
<1>3. ItemInv'
  <2>1. \A j \in Work : (Waits(j)' <=> Waits(j)) /\ (state'[j] = "running" <=> state[j] = "running")
    BY DEF Waits
  <2>2. \A n \in 1..Len(work) : work[n] \in Work
    BY ElementOfSeq
  <2>3. \A n \in 1..Len(work') : state'[work'[n]] \in {"queued", "reserved"}
    BY <2>1, <2>2 DEF ItemInv, Waits
  <2>4. \A w \in Workers : \A j \in item'[w] : state'[j] = "running"
    BY <2>1 DEF ItemInv
  <2> QED
    BY <2>1, <2>3, <2>4 DEF ItemInv, Waits
<1>4. AllAtOnce' /\ WorkHasThread'
  BY DEF AllAtOnce, WorkHasThread, NumThreads
<1> QED
  BY <1>1, <1>2, <1>3, <1>4

\* Work is accepted: it is put at the end of the list, and one worker is woken. The
\* list of threads may have grown before.
LEMMA InsertWorkKeeps ==
  ASSUME PoolInv, NEW i \in Work, NEW accepted \in {"queued", "reserved"},
         ~terminate, state[i] = "new", InsertWork(i, accepted),
         \/ UNCHANGED <<at, threads>>
         \/ \E w \in Workers : AddThread(w),
         NumThreads' > 0,
         \/ create_failed'
         \/ NumThreads >= MaxThreads
         \/ busy_threads + Len(work) + 1 <= NumThreads
         \/ NumThreads' = NumThreads + 1,
         UNCHANGED <<busy_threads, terminate, item, joining, freed>>,
         create_failed => create_failed', create_failed' \in BOOLEAN
  PROVE  PoolInv'
<1> USE DEF PoolInv, PoolTypeOK
<1>1. /\ Len(work) \in Nat
      /\ work' \in Seq(Work) /\ Len(work') = Len(work) + 1
      /\ \A n \in 1..Len(work) : work'[n] = work[n] /\ work[n] \in Work
      /\ work'[Len(work) + 1] = i
  BY ElementOfSeq DEF InsertWork
<1>2. state' = [state EXCEPT ![i] = accepted]
  BY DEF InsertWork
<1>3. /\ at' \in [Workers -> WorkerAt]
      /\ \A w \in Workers : at[w] # "none" => at'[w] = at[w]
      /\ \A w \in Workers : at[w] = "none" => at'[w] \in {"none", "start"}
      /\ Existing \subseteq Existing'
      /\ threads' = Existing' /\ threads = Existing
  BY DEF AddThread, WorkerAt, Existing, ThreadInv
<1>4. sleepers' \subseteq sleepers
  BY DEF InsertWork
<1>5. Running' = Running
  BY <1>3 DEF Running
<1>6. PoolTypeOK'
  <2>1. state' \in [Work -> {"new", "queued", "reserved", "running", "done", "refused"}]
    BY <1>2
  <2>2. sleepers' \subseteq {v \in Workers : at'[v] \in {"wait", "timedwait"}}
    BY <1>3, <1>4
  <2>3. threads' \subseteq Workers
    BY <1>3 DEF Existing
  <2> QED
    BY <1>1, <1>3, <1>5, <2>1, <2>2, <2>3
<1>7. ThreadInv'
  BY <1>3 DEF ThreadInv
<1>8. ItemInv'
  <2>1. \A j \in Work : (Waits(j)' <=> Waits(j) \/ j = i)
                        /\ (state'[j] = "running" <=> state[j] = "running")
    BY <1>2 DEF Waits
  <2>2. \A n \in 1..Len(work) : work[n] # i
    BY DEF ItemInv, Waits
  <2>3. \A n \in 1..Len(work') : n \in 1..Len(work) \/ n = Len(work) + 1
    BY <1>1
  <2>4. \A n \in 1..Len(work') : state'[work'[n]] \in {"queued", "reserved"}
    BY <1>1, <2>1, <2>3 DEF ItemInv, Waits
  <2>5. \A m, n \in 1..Len(work') : work'[m] = work'[n] => m = n
    BY <1>1, <2>2, <2>3 DEF ItemInv
  <2>6. \A j \in Work : Waits(j)' => \E n \in 1..Len(work') : work'[n] = j
    <3>1. \A n \in 1..Len(work) : n \in 1..Len(work')
      BY <1>1
    <3>2. Len(work) + 1 \in 1..Len(work')
      BY <1>1
    <3> QED
      BY <1>1, <2>1, <3>1, <3>2 DEF ItemInv
  <2>7. \A w \in Workers : at'[w] # "running" => item'[w] = {}
    BY <1>3 DEF ItemInv
  <2>8. \A w \in Workers : \A j \in item'[w] : state'[j] = "running"
    BY <2>1 DEF ItemInv
  <2>9. \A j \in Work : state'[j] = "running" => \E w \in Workers : j \in item'[w]
    BY <2>1 DEF ItemInv
  <2>10. \A v, w \in Workers : v # w => item'[v] \cap item'[w] = {}
    BY DEF ItemInv
  <2> QED
    BY <2>4, <2>5, <2>6, <2>7, <2>8, <2>9, <2>10 DEF ItemInv, Waits
<1>9. NoIdleWorker'
  <2>1. CASE sleepers = {}
    BY <2>1, <1>4 DEF NoIdleWorker
  <2>2. ASSUME NEW w \in sleepers, sleepers' = sleepers \ {w}
        PROVE  NoIdleWorker'
    <3>1. /\ Looking \cup {w} \subseteq Looking' /\ w \in Workers \ Looking
          /\ Looking \in SUBSET Workers /\ Looking' \in SUBSET Workers
      BY <2>2, <1>3 DEF Looking
    <3>2. Cardinality(Looking) < Cardinality(Looking')
      BY <3>1, WorkersFinite
    <3>3. Cardinality(Looking) \in Nat /\ Cardinality(Looking') \in Nat
      BY <3>1, WorkersFinite
    <3>4. Len(work) <= Cardinality(Looking)
      BY <2>2 DEF NoIdleWorker
    <3> QED
      BY <1>1, <3>2, <3>3, <3>4 DEF NoIdleWorker
  <2> QED
    BY <2>1, <2>2 DEF InsertWork
<1>10. AllAtOnce'
  <2>1. NumThreads \in Nat /\ NumThreads' \in Nat /\ NumThreads <= NumThreads'
    <3>1. threads \subseteq threads' /\ threads' \subseteq Workers
      BY <1>3 DEF Existing
    <3> QED
      BY <3>1, WorkersFinite, ThreadPoolAssumption, FS_Subset DEF NumThreads
  <2>2. busy_threads \in Nat
    BY WorkersFinite DEF Running
  <2> QED
    BY <1>1, <2>1, <2>2, ThreadPoolAssumption DEF AllAtOnce
<1>11. WorkHasThread'
  <2>1. ~freed'
    BY DEF ThreadInv
  <2>2. Existing' # {}
    <3>1. Cardinality(Existing') > 0
      BY <1>3 DEF NumThreads
    <3>2. ~(Cardinality({}) > 0)
      BY FS_EmptySet
    <3> QED
      BY <3>1, <3>2, Zenon
  <2> QED
    BY <2>1, <2>2 DEF WorkHasThread, Existing
<1> QED
  BY <1>6, <1>7, <1>8, <1>9, <1>10, <1>11

\* thread_pool_add
LEMMA AddKeeps ==
  ASSUME PoolInv, NEW i \in Work, NEW accepted \in {"queued", "reserved"},
         NEW allow_queue \in BOOLEAN, Add(i, accepted, allow_queue)
  PROVE  PoolInv'
<1> USE DEF PoolInv, PoolTypeOK
<1>1. /\ ~terminate /\ state[i] = "new"
      /\ UNCHANGED <<busy_threads, terminate, item, joining, freed>>
  BY DEF Add
<1>2. /\ threads = Existing /\ NumThreads \in Nat /\ busy_threads \in Nat /\ Len(work) \in Nat
  BY <1>1, WorkersFinite DEF ThreadInv, NumThreads, Running
<1>3. ASSUME NEW w \in Workers, AddThread(w)
      PROVE  NumThreads' = NumThreads + 1
  BY <1>2, <1>3, WorkersFinite DEF AddThread, Existing, NumThreads
<1>4. CASE AddWithThread(i, accepted)
  <2>1. CASE NeedsThread
    <3>1. PICK w \in Workers : AddThread(w)
      BY <1>4, <2>1 DEF AddWithThread
    <3>2. NumThreads' = NumThreads + 1 /\ NumThreads' > 0
      BY <1>2, <1>3, <3>1
    <3> QED
      BY <1>1, <1>4, <3>1, <3>2, InsertWorkKeeps DEF AddWithThread
  <2>2. CASE ~NeedsThread
    <3>1. UNCHANGED <<at, threads>> /\ NumThreads' = NumThreads
      BY <1>4, <2>2 DEF AddWithThread, NumThreads
    <3>2. \/ NumThreads >= MaxThreads
          \/ busy_threads + Len(work) + 1 <= NumThreads
      BY <1>2, <2>2, ThreadPoolAssumption DEF NeedsThread
    <3>3. NumThreads' > 0
      BY <1>2, <3>1, <3>2, ThreadPoolAssumption
    <3> QED
      BY <1>1, <1>4, <3>1, <3>2, <3>3, InsertWorkKeeps DEF AddWithThread
  <2> QED
    BY <2>1, <2>2
<1>5. CASE AddWithoutThread(i, accepted, allow_queue)
  <2>1. UNCHANGED <<at, threads>> /\ NumThreads' = NumThreads /\ create_failed' = TRUE
    BY <1>5 DEF AddWithoutThread, NumThreads
  <2>2. CASE allow_queue /\ NumThreads > 0
    <3>1. InsertWork(i, accepted) /\ NumThreads' > 0
      BY <1>5, <2>1, <2>2 DEF AddWithoutThread
    <3> QED
      BY <1>1, <2>1, <3>1, InsertWorkKeeps
  <2>3. CASE ~(allow_queue /\ NumThreads > 0)
    BY <1>1, <1>5, <2>1, <2>3, RefusedKeeps DEF AddWithoutThread
  <2> QED
    BY <2>2, <2>3
<1> QED
  BY <1>4, <1>5 DEF Add

-------------------------------------------------------------------------------

\* The pool starts with threads that have not looked for work yet.
LEMMA InitInv == PoolInit => PoolInv
<1> SUFFICES ASSUME PoolInit PROVE PoolInv
  OBVIOUS
<1>1. PICK T \in SUBSET Workers :
        /\ Cardinality(T) = InitThreads
        /\ threads = T
        /\ at = [w \in Workers |-> IF w \in T THEN "start" ELSE "none"]
  BY DEF PoolInit
<1>2. Running = {} /\ Existing = T
  BY <1>1 DEF Running, Existing
<1>3. PoolTypeOK
  <2>1. busy_threads = Cardinality(Running)
    BY <1>2, FS_EmptySet DEF PoolInit
  <2>2. at \in [Workers -> WorkerAt] /\ item \in [Workers -> SUBSET Work]
    BY <1>1 DEF PoolInit, WorkerAt
  <2>3. /\ threads \subseteq Workers /\ joining \subseteq Workers /\ sleepers = {}
        /\ state = [i \in Work |-> "new"] /\ work \in Seq(Work)
        /\ terminate = FALSE /\ freed = FALSE /\ create_failed = FALSE
    BY <1>1 DEF PoolInit
  <2> QED
    BY <2>1, <2>2, <2>3 DEF PoolTypeOK
<1>4. ThreadInv /\ ItemInv
  BY <1>1, <1>2 DEF PoolInit, ThreadInv, ItemInv, Waits
<1>5. NoIdleWorker /\ WorkHasThread
  BY DEF PoolInit, NoIdleWorker, WorkHasThread
<1>6. AllAtOnce
  <2>1. Len(work) = 0 /\ busy_threads = 0 /\ NumThreads \in Nat
    BY <1>1, ThreadPoolAssumption DEF PoolInit, NumThreads
  <2> QED
    BY <2>1 DEF AllAtOnce
<1> QED
  BY <1>3, <1>4, <1>5, <1>6 DEF PoolInv

\* Every step keeps the invariant.
LEMMA NextInv == PoolInv /\ [PoolNext]_poolVars => PoolInv'
<1> SUFFICES ASSUME PoolInv, [PoolNext]_poolVars PROVE PoolInv'
  OBVIOUS
<1> USE DEF PoolInv, PoolTypeOK
<1>1. ASSUME NEW w \in Workers, WorkerSpuriousWakeup(w)
      PROVE  PoolInv'
  <2>1. UNCHANGED <<Running, Existing>> /\ PoolTypeOK'
    BY <1>1 DEF WorkerSpuriousWakeup, Running, Existing
  <2>2. ThreadInv' /\ ItemInv' /\ AllAtOnce' /\ WorkHasThread'
    BY <1>1, <2>1
       DEF WorkerSpuriousWakeup, ThreadInv, ItemInv, Waits, AllAtOnce, NumThreads, WorkHasThread
  <2>3. NoIdleWorker'
    <3>1. Looking \cup {w} = Looking' /\ w \in Workers \ Looking /\ Looking \in SUBSET Workers
      BY <1>1 DEF WorkerSpuriousWakeup, Looking
    <3>2. Cardinality(Looking') = Cardinality(Looking) + 1 /\ Cardinality(Looking) \in Nat
      BY <3>1, WorkersFinite
    <3>3. Len(work) \in Nat /\ Len(work) <= Cardinality(Looking) /\ work' = work
      BY <1>1 DEF WorkerSpuriousWakeup, NoIdleWorker
    <3> QED
      BY <3>2, <3>3 DEF NoIdleWorker
  <2> QED
    BY <2>1, <2>2, <2>3
<1>2. ASSUME NEW i \in Work, PoolQueue(i) \/ PoolRun(i)
      PROVE  PoolInv'
  BY <1>2, AddKeeps DEF PoolQueue, PoolRun
<1>3. CASE Destroy
  <2>1. UNCHANGED <<Running, Existing>> /\ PoolTypeOK'
    BY <1>3 DEF Destroy, Running, Existing
  <2>2. ThreadInv' /\ ItemInv'
    BY <1>3, <2>1 DEF Destroy, ThreadInv, ItemInv, Waits
  <2>3. NoIdleWorker' /\ AllAtOnce' /\ WorkHasThread'
    BY <1>3 DEF Destroy, NoIdleWorker, AllAtOnce, WorkHasThread
  <2> QED
    BY <2>1, <2>2, <2>3
<1>4. CASE Joined
  <2>1. UNCHANGED <<Running, Looking>> /\ PoolTypeOK' /\ Existing' = Existing
    BY <1>4 DEF Joined, Running, Looking, Existing
  <2>2. Existing = {}
    BY <1>4 DEF Joined, ThreadInv, Existing
  <2>3. ThreadInv' /\ ItemInv' /\ NoIdleWorker' /\ AllAtOnce'
    BY <1>4, <2>1, <2>2
       DEF Joined, ThreadInv, ItemInv, Waits, NoIdleWorker, AllAtOnce, NumThreads
  <2>4. work = <<>> /\ \A i \in Work : ~Waits(i)
    <3>1. work = <<>>
      BY <2>2 DEF WorkHasThread, Existing
    <3> QED
      BY <3>1 DEF ItemInv
  <2>5. \A i \in Work : state[i] # "running"
    BY <2>2 DEF ItemInv, Existing
  <2>6. WorkHasThread'
    BY <1>4, <2>4, <2>5 DEF Joined, WorkHasThread, Waits
  <2> QED
    BY <2>1, <2>3, <2>6
<1>5. CASE UNCHANGED poolVars
  BY <1>5 DEF poolVars, ThreadInv, ItemInv, Waits, NoIdleWorker, AllAtOnce, NumThreads,
              WorkHasThread, Running, Existing, Looking
<1> QED
  BY <1>1, <1>2, <1>3, <1>4, <1>5, WorkerKeeps DEF PoolNext

\* The invariant holds in every state of the pool.
THEOREM PoolInvariant == PoolSpec => []PoolInv
BY InitInv, NextInv, PTL DEF PoolSpec

\* thread_pool_add and worker_thread: no item waits while a worker that nobody is
\* going to wake sleeps.
THEOREM NoneIdle == PoolSpec => []NoIdleWorker
<1>1. PoolInv => NoIdleWorker
  BY DEF PoolInv
<1> QED
  BY <1>1, PoolInvariant, PTL

\* thread_pool_add: the counters are right, every item has its thread as long as
\* the pool can grow, and the destructor leaves no work behind.
THEOREM Accounted == PoolSpec => []WorkAccounted
<1>1. PoolInv => WorkAccounted
  BY DEF PoolInv, WorkAccounted
<1> QED
  BY <1>1, PoolInvariant, PTL
===============================================================================
