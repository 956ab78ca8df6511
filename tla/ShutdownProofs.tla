---------------------------- MODULE ShutdownProofs ----------------------------
(***************************************************************************)
(* Proofs about the end of a player core, for every set of clients and     *)
(* commands and every capacity of the event queues. The inductive          *)
(* invariant adds to the properties which handles are in the list          *)
(* (HandleInv), that have_terminator stands for the one that destroys the  *)
(* core (TerminatorInv), what outstanding_async counts (WorkInv), and what *)
(* an event mask with MPV_EVENT_SHUTDOWN in it means (EventInv).           *)
(***************************************************************************)
EXTENDS Shutdown, FiniteSetTheorems, SequenceTheorems, TLAPS

\* A handle is in the list until mp_destroy_client has removed it, and one that is
\* being created is created by one other.
HandleInv ==
  /\ \A c \in Clients :
       c \in clients <=> cpc[c] \in {"new", "running", "creating", "quit", "drain"}
  /\ \A c \in Clients : cpc[c] = "creating" => cpc[creating[c]] = "new"
  /\ \A c, d \in Clients :
       cpc[c] = "creating" /\ cpc[d] = "creating" /\ creating[c] = creating[d] => c = d

\* The terminator is chosen once, at the latest with the last handle, and stays until
\* it has freed the core.
TerminatorInv ==
  /\ \A c, d \in Terminators : c = d
  /\ have_terminator /\ core # "freed" => Terminators # {}
  /\ ~have_terminator => Terminators = {} /\ clients # {}
  /\ core = "freed" => Terminators = {}
  /\ core = "freed" => have_terminator

Running == {w \in Works : work[w] = "running"}

\* Only the command of a client waits in the dispatch queue.
WorkInv ==
  /\ outstanding_async = Cardinality(Running)
  /\ \A w \in Works : work[w] = "queued" => w \in Clients

IsShutdown(c, i) == queue[c][i] = "shutdown"

\* There is one MPV_EVENT_SHUTDOWN at most, in the queue or received, and none as
\* long as it is not masked.
EventInv ==
  \A c \in Clients :
    /\ \A i, j \in DOMAIN queue[c] : IsShutdown(c, i) /\ IsShutdown(c, j) => i = j
    /\ received[c] \/ ~shutdown_masked[c] => \A i \in DOMAIN queue[c] : ~IsShutdown(c, i)
    /\ ~shutdown_masked[c] => ~received[c]

IInv ==
  /\ TypeOK
  /\ HandleInv /\ RepliesReachHandle /\ TerminatorInv /\ CoreOutlivesUsers
  /\ WorkInv /\ EventInv

-------------------------------------------------------------------------------

\* Commands are finitely many, and so can be counted.
LEMMA WorksFinite ==
  ASSUME NEW S \in SUBSET Works
  PROVE  /\ Cardinality(S) \in 0..Cardinality(Works)
         /\ Cardinality(S) = 0 <=> S = {}
         /\ \A w \in S : Cardinality(S \ {w}) = Cardinality(S) - 1
         /\ \A w \in Works \ S : Cardinality(S \cup {w}) = Cardinality(S) + 1
<1>1. IsFiniteSet(Works)
  BY ShutdownAssumption, FS_Union DEF Works
<1>2. /\ IsFiniteSet(S) /\ Cardinality(S) \in Nat /\ Cardinality(Works) \in Nat
      /\ Cardinality(S) <= Cardinality(Works) /\ (Cardinality(S) = 0 <=> S = {})
  BY <1>1, FS_Subset, FS_CardinalityType, FS_EmptySet
<1>3. \A w \in S : Cardinality(S \ {w}) = Cardinality(S) - 1
  BY <1>2, FS_RemoveElement
<1>4. \A w \in Works \ S : Cardinality(S \cup {w}) = Cardinality(S) + 1
  BY <1>2, FS_AddElement
<1> QED
  BY <1>2, <1>3, <1>4

\* Which steps change the commands, and how.
LEMMA WorkSteps ==
  ASSUME [Next]_vars
  PROVE  \/ UNCHANGED <<work, outstanding_async>>
         \/ \E c \in Clients : Request(c)
         \/ \E w \in Works : RunCommand(w) /\ (work[w] = "none" \/ work[w] = "queued")
         \/ \E w \in Works : FailCommand(w) /\ work[w] = "queued"
         \/ \E w \in Works : FinishCommand(w)
<1>1. CASE \E c \in Clients : Request(c)
  BY <1>1
<1>2. CASE \E c \in Clients : StartRequest(c)
  BY <1>2 DEF StartRequest, Works
<1>3. CASE \E c \in Clients, w \in Detached : StartDetached(c, w)
  BY <1>3 DEF StartDetached, Works
<1>4. CASE \E w \in Works : FinishCommand(w)
  BY <1>4
<1>5. CASE \/ CoreStep \/ PlayEnds(FALSE)
           \/ \E c \in Clients :
                \/ SendOther(c) \/ ReadEvent(c)
                \/ \E new \in Clients : Create(c, new)
                \/ SetWeak(c)
                \/ Quit(c) \/ Destroy(c) \/ Remove(c)
                \/ TerminatorStep(c)
           \/ UNCHANGED vars
  BY <1>5 DEF CoreStep, PlayEnds, CoreTest, CoreAbort, CoreBroadcast, CoreWakes,
              SendOther, ReadEvent, Create, SetWeak, Quit, Destroy, Remove,
              TerminatorStep, StopPlay, TerminateCore, DestroyCore, vars, workVars
<1> QED
  BY <1>1, <1>2, <1>3, <1>4, <1>5 DEF Next

\* outstanding_async counts the commands on workers.
LEMMA WorkNext ==
  ASSUME IInv, [Next]_vars
  PROVE  WorkInv' /\ outstanding_async' \in 0..Cardinality(Works)
<1>1. /\ work \in [Works -> {"none", "queued", "running", "done"}] /\ Clients \subseteq Works
      /\ Running \subseteq Works /\ outstanding_async = Cardinality(Running) /\ WorkInv
  BY DEF IInv, TypeOK, Works, WorkInv, Running
<1>2. outstanding_async \in 0..Cardinality(Works)
  BY DEF IInv, TypeOK
<1>3. outstanding_async' = Cardinality(Running')
  <2>1. CASE UNCHANGED <<work, outstanding_async>>
    BY <1>1, <2>1 DEF Running
  <2>2. ASSUME NEW c \in Clients, Request(c) PROVE outstanding_async' = Cardinality(Running')
    <3>1. Running' = Running /\ outstanding_async' = outstanding_async
      BY <1>1, <2>2 DEF Request, Running
    <3> QED
      BY <3>1, <1>1
  <2>3. ASSUME NEW w \in Works, RunCommand(w), work[w] = "none" \/ work[w] = "queued"
        PROVE  outstanding_async' = Cardinality(Running')
    <3>1. Running' = Running \cup {w} /\ w \notin Running
      BY <1>1, <2>3 DEF RunCommand, Running
    <3>2. Cardinality(Running') = Cardinality(Running) + 1
      BY <1>1, <3>1, WorksFinite
    <3> QED
      BY <3>2, <1>1, <2>3 DEF RunCommand
  <2>4. ASSUME NEW w \in Works, FailCommand(w), work[w] = "queued"
        PROVE  outstanding_async' = Cardinality(Running')
    <3>1. Running' = Running /\ outstanding_async' = outstanding_async
      BY <1>1, <2>4 DEF FailCommand, Running
    <3> QED
      BY <3>1, <1>1
  <2>5. ASSUME NEW w \in Works, FinishCommand(w)
        PROVE  outstanding_async' = Cardinality(Running')
    <3>1. Running' = Running \ {w} /\ w \in Running
      BY <1>1, <2>5 DEF FinishCommand, Running
    <3>2. Cardinality(Running') = Cardinality(Running) - 1
      BY <1>1, <3>1, WorksFinite
    <3> QED
      BY <3>2, <1>1, <2>5 DEF FinishCommand
  <2> QED
    BY <2>1, <2>2, <2>3, <2>4, <2>5, WorkSteps
<1>4. \A w \in Works : work'[w] = "queued" => w \in Clients
  BY <1>1, WorkSteps DEF Request, RunCommand, FailCommand, FinishCommand, WorkInv
<1>5. Running' \subseteq Works
  BY DEF Running
<1> QED
  BY <1>3, <1>4, <1>5, WorksFinite DEF WorkInv

\* The types of the fields, for each of the tuples of variables that actions leave
\* alone.
ClientTypes ==
  /\ clients \subseteq Clients /\ is_weak \subseteq Clients
  /\ cpc \in [Clients -> ClientPCs] /\ creating \in [Clients -> Clients]
  /\ terminate \in [Clients -> BOOLEAN]
EventTypes ==
  /\ queue \in [Clients -> Seq({"other", "shutdown"})]
  /\ choked \in [Clients -> BOOLEAN] /\ shutdown_masked \in [Clients -> BOOLEAN]
  /\ received \in [Clients -> BOOLEAN] /\ sends \in 0..MaxSends
WorkTypes ==
  /\ work \in [Works -> {"none", "queued", "running", "done"}]
  /\ cancelled \in [Works -> BOOLEAN]
  /\ outstanding_async \in 0..Cardinality(Works) /\ abort_all \in BOOLEAN
SharedTypes ==
  /\ have_terminator \in BOOLEAN /\ shutting_down \in BOOLEAN
  /\ terminate_core_thread \in BOOLEAN /\ stop_play \in BOOLEAN
CoreTypes == core \in CorePCs /\ interrupted \in BOOLEAN /\ late \in BOOLEAN

\* Together they are the type invariant.
LEMMA TypeParts ==
  TypeOK <=> ClientTypes /\ EventTypes /\ WorkTypes /\ SharedTypes /\ CoreTypes
<1>1. \A S : (\A f \in {terminate, choked, shutdown_masked, received} : f \in S)
               <=> terminate \in S /\ choked \in S /\ shutdown_masked \in S /\ received \in S
  OBVIOUS
<1>2. \A S : (\A b \in {abort_all, have_terminator, shutting_down, terminate_core_thread,
                        stop_play, interrupted, late} : b \in S)
               <=> /\ abort_all \in S /\ have_terminator \in S /\ shutting_down \in S
                   /\ terminate_core_thread \in S /\ stop_play \in S
                   /\ interrupted \in S /\ late \in S
  OBVIOUS
<1> QED
  BY <1>1, <1>2 DEF TypeOK, ClientTypes, EventTypes, WorkTypes, SharedTypes, CoreTypes

\* What an action leaves alone keeps its types.
LEMMA TypesKept ==
  /\ ClientTypes /\ UNCHANGED clientVars => ClientTypes'
  /\ EventTypes /\ UNCHANGED eventVars => EventTypes'
  /\ WorkTypes /\ UNCHANGED workVars => WorkTypes'
  /\ SharedTypes /\ UNCHANGED sharedVars => SharedTypes'
  /\ CoreTypes /\ UNCHANGED coreVars => CoreTypes'
<1>1. ClientTypes /\ UNCHANGED clientVars => ClientTypes'
  BY DEF ClientTypes, clientVars
<1>2. EventTypes /\ UNCHANGED eventVars => EventTypes'
  BY DEF EventTypes, eventVars
<1>3. WorkTypes /\ UNCHANGED workVars => WorkTypes'
  BY DEF WorkTypes, workVars
<1>4. SharedTypes /\ UNCHANGED sharedVars => SharedTypes'
  BY DEF SharedTypes, sharedVars
<1>5. CoreTypes /\ UNCHANGED coreVars => CoreTypes'
  BY DEF CoreTypes, coreVars
<1> QED
  BY <1>1, <1>2, <1>3, <1>4, <1>5

\* A field that is set to a truth value is one.
LEMMA Flags ==
  ASSUME NEW S, NEW f \in [S -> BOOLEAN], NEW i \in S, NEW P
  PROVE  [f EXCEPT ![i] = @ \/ P] \in [S -> BOOLEAN]
  BY Zenon

\* Every field keeps its type.
LEMMA TypeNext ==
  ASSUME IInv, [Next]_vars
  PROVE  TypeOK'
<1>1. /\ ClientTypes /\ EventTypes /\ WorkTypes /\ SharedTypes /\ CoreTypes
      /\ outstanding_async' \in 0..Cardinality(Works) /\ MaxSends \in Nat
      /\ Clients \subseteq Works
  BY WorkNext, TypeParts, ShutdownAssumption DEF IInv, Works
<1>2. ClientTypes'
  <2> USE <1>1 DEF ClientTypes, ClientPCs
  <2>1. ASSUME NEW c \in Clients, NEW new \in Clients, Create(c, new) PROVE ClientTypes'
    BY <2>1 DEF Create
  <2>2. ASSUME NEW c \in Clients, SetWeak(c) \/ Quit(c) \/ Destroy(c) PROVE ClientTypes'
    <3>1. CASE SetWeak(c)
      BY <3>1 DEF SetWeak
    <3>2. CASE Quit(c)
      BY <3>2 DEF Quit, At
    <3>3. CASE Destroy(c)
      BY <3>3 DEF Destroy, At
    <3> QED
      BY <2>2, <3>1, <3>2, <3>3
  <2>3. ASSUME NEW c \in Clients, Remove(c) PROVE ClientTypes'
    <3>1. /\ clients' = clients \ {c} /\ UNCHANGED <<is_weak, creating, terminate>>
          /\ \/ cpc' = [cpc EXCEPT ![c] = "lock"]
             \/ cpc' = [cpc EXCEPT ![c] = "gone"]
      BY <2>3 DEF Remove, BecomeTerminator
    <3> QED
      BY <3>1
  <2>4. ASSUME NEW c \in Clients, TerminatorStep(c) PROVE ClientTypes'
    BY <2>4 DEF TerminatorStep, StopPlay, TerminateCore, DestroyCore, At
  <2>5. CASE UNCHANGED clientVars
    BY <2>5, TypesKept
  <2> QED
    BY <2>1, <2>2, <2>3, <2>4, <2>5 DEF Next, CoreStep, PlayEnds, CoreTest, CoreAbort,
       CoreBroadcast, CoreWakes, Request, StartRequest, StartDetached, RunCommand,
       FailCommand, FinishCommand, SendOther, ReadEvent, vars
<1>3. EventTypes'
  <2> USE <1>1 DEF EventTypes
  <2>1. ASSUME NEW c \in Clients, SendOther(c) PROVE EventTypes'
    <3>1. queue' \in [Clients -> Seq({"other", "shutdown"})] /\ sends' \in 0..MaxSends
      <4>1. Append(queue[c], "other") \in Seq({"other", "shutdown"})
        OBVIOUS
      <4>2. queue' = queue \/ queue' = [queue EXCEPT ![c] = Append(queue[c], "other")]
        BY <2>1 DEF SendOther
      <4>3. sends' \in 0..MaxSends
        BY <2>1 DEF SendOther
      <4> QED
        BY <4>1, <4>2, <4>3
    <3>2. choked' \in [Clients -> BOOLEAN]
      BY <2>1 DEF SendOther
    <3> QED
      BY <2>1, <3>1, <3>2 DEF SendOther
  <2>2. ASSUME NEW c \in Clients, ReadEvent(c) PROVE EventTypes'
    <3>1. queue' \in [Clients -> Seq({"other", "shutdown"})]
      <4>1. queue[c] # <<>> => Tail(queue[c]) \in Seq({"other", "shutdown"})
        OBVIOUS
      <4>2. \/ queue' = queue
            \/ queue[c] # <<>> /\ queue' = [queue EXCEPT ![c] = Tail(queue[c])]
        BY <2>2 DEF ReadEvent
      <4> QED
        BY <4>1, <4>2
    <3>2. choked' \in [Clients -> BOOLEAN]
      BY <2>2 DEF ReadEvent
    <3>3. received' \in [Clients -> BOOLEAN]
      BY <2>2, Flags DEF ReadEvent
    <3> QED
      BY <2>2, <3>1, <3>2, <3>3 DEF ReadEvent
  <2>3. CASE CoreBroadcast
    BY <2>3 DEF CoreBroadcast, MaskShutdown
  <2>4. CASE UNCHANGED eventVars
    BY <2>4, TypesKept
  <2> QED
    BY <2>1, <2>2, <2>3, <2>4 DEF Next, CoreStep, PlayEnds, CoreTest, CoreAbort,
       CoreWakes, Request, StartRequest, StartDetached, RunCommand, FailCommand,
       FinishCommand, Create, SetWeak, Quit, Destroy, Remove, TerminatorStep, StopPlay,
       TerminateCore, DestroyCore, vars
<1>4. WorkTypes'
  <2> USE <1>1 DEF WorkTypes
  <2>1. work' \in [Works -> {"none", "queued", "running", "done"}]
    BY WorkSteps DEF Request, RunCommand, FailCommand, FinishCommand
  <2>2. cancelled' \in [Works -> BOOLEAN] /\ abort_all' \in BOOLEAN
    <3>1. CASE UNCHANGED <<cancelled, abort_all>>
      BY <3>1
    <3>2. ASSUME NEW w \in Works, RunCommand(w)
          PROVE  cancelled' \in [Works -> BOOLEAN] /\ abort_all' \in BOOLEAN
      BY <3>2 DEF RunCommand, AbortAdd
    <3>3. ASSUME NEW w \in Works, FinishCommand(w)
          PROVE  cancelled' \in [Works -> BOOLEAN] /\ abort_all' \in BOOLEAN
      BY <3>3 DEF FinishCommand
    <3>4. ASSUME NEW c \in Clients, Destroy(c)
          PROVE  cancelled' \in [Works -> BOOLEAN] /\ abort_all' \in BOOLEAN
      BY <3>4, Flags DEF Destroy, Abort
    <3>5. ASSUME NEW now_late \in BOOLEAN, CoreAbort(now_late)
          PROVE  cancelled' \in [Works -> BOOLEAN] /\ abort_all' \in BOOLEAN
      BY <3>5 DEF CoreAbort
    <3> QED
      BY <3>1, <3>2, <3>3, <3>4, <3>5 DEF Next, CoreStep, PlayEnds, CoreTest,
         CoreBroadcast, CoreWakes, Request, StartRequest, StartDetached, FailCommand,
         SendOther, ReadEvent, Create, SetWeak, Quit, Remove, TerminatorStep, StopPlay,
         TerminateCore, DestroyCore, vars, workVars, Works
  <2> QED
    BY <2>1, <2>2
<1>5. SharedTypes'
  <2> USE <1>1 DEF SharedTypes
  <2>1. ASSUME NEW c \in Clients, Quit(c) \/ TerminatorStep(c) PROVE SharedTypes'
    BY <2>1 DEF Quit, TerminatorStep, StopPlay, TerminateCore, DestroyCore, sharedVars
  <2>2. ASSUME NEW c \in Clients, Remove(c) PROVE SharedTypes'
    BY <2>2 DEF Remove, BecomeTerminator
  <2>3. CASE PlayEnds(TRUE) \/ PlayEnds(FALSE)
    BY <2>3 DEF PlayEnds
  <2>4. CASE UNCHANGED sharedVars
    BY <2>4, TypesKept
  <2> QED
    BY <2>1, <2>2, <2>3, <2>4 DEF Next, CoreStep, CoreTest, CoreAbort, CoreBroadcast,
       CoreWakes, Request, StartRequest, StartDetached, RunCommand, FailCommand,
       FinishCommand, SendOther, ReadEvent, Create, SetWeak, Destroy, vars
<1>6. CoreTypes'
  <2> USE <1>1 DEF CoreTypes, CorePCs
  <2>1. ASSUME NEW c \in Clients, Quit(c) \/ TerminatorStep(c) \/ Remove(c)
        PROVE  CoreTypes'
    BY <2>1 DEF Quit, TerminatorStep, StopPlay, TerminateCore, DestroyCore, Remove,
                coreVars
  <2>2. CASE PlayEnds(TRUE) \/ PlayEnds(FALSE) \/ CoreTest \/ CoreBroadcast \/ CoreWakes
    BY <2>2 DEF PlayEnds, CoreTest, CoreBroadcast, CoreWakes
  <2>3. ASSUME NEW now_late \in BOOLEAN, CoreAbort(now_late) PROVE CoreTypes'
    BY <2>3 DEF CoreAbort
  <2>4. ASSUME NEW w \in Works, FinishCommand(w) PROVE CoreTypes'
    BY <2>4 DEF FinishCommand
  <2>5. CASE UNCHANGED coreVars
    BY <2>5, TypesKept
  <2> QED
    BY <2>1, <2>2, <2>3, <2>4, <2>5 DEF Next, CoreStep, Request, StartRequest,
       StartDetached, RunCommand, FailCommand, SendOther, ReadEvent, Create, SetWeak,
       Destroy, vars
<1> QED
  <2>1. (TypeOK <=> ClientTypes /\ EventTypes /\ WorkTypes /\ SharedTypes /\ CoreTypes)'
    BY TypeParts, PTL
  <2> QED
    BY <2>1, <1>2, <1>3, <1>4, <1>5, <1>6

\* Steps that change neither the handles nor where their threads are.
LEMMA ClientSteps ==
  ASSUME [Next]_vars
  PROVE  \/ UNCHANGED <<clients, cpc, creating, have_terminator>>
         \/ \E c, new \in Clients : Create(c, new)
         \/ \E c \in Clients : SetWeak(c) \/ Quit(c) \/ Destroy(c) \/ Remove(c)
         \/ \E c \in Clients : TerminatorStep(c)
  BY DEF Next, CoreStep, PlayEnds, CoreTest, CoreAbort, CoreBroadcast, CoreWakes, Request,
         StartRequest, StartDetached, RunCommand, FailCommand, FinishCommand, SendOther,
         ReadEvent, vars, clientVars, sharedVars

\* The list holds the handles that have not been removed.
LEMMA HandleNext ==
  ASSUME IInv, [Next]_vars
  PROVE  HandleInv'
<1>1. /\ cpc \in [Clients -> ClientPCs] /\ creating \in [Clients -> Clients]
      /\ clients \subseteq Clients
  BY TypeParts DEF IInv, ClientTypes
<1> USE <1>1 DEF IInv, HandleInv
<1>2. CASE UNCHANGED <<clients, cpc, creating, have_terminator>>
  BY <1>2
<1>3. ASSUME NEW c \in Clients, NEW new \in Clients, Create(c, new)
      PROVE  HandleInv'
  BY <1>3 DEF Create
<1>4. ASSUME NEW c \in Clients, SetWeak(c)
      PROVE  HandleInv'
  BY <1>4 DEF SetWeak
<1>5. ASSUME NEW c \in Clients, Quit(c) \/ Destroy(c)
      PROVE  HandleInv'
  BY <1>5 DEF Quit, Destroy, At
<1>6. ASSUME NEW c \in Clients, Remove(c)
      PROVE  HandleInv'
  <2>1. /\ clients' = clients \ {c} /\ UNCHANGED creating /\ cpc[c] = "drain"
        /\ \/ cpc' = [cpc EXCEPT ![c] = "lock"]
           \/ cpc' = [cpc EXCEPT ![c] = "gone"]
    BY <1>6 DEF Remove, BecomeTerminator
  <2> QED
    BY <2>1
<1>7. ASSUME NEW c \in Clients, TerminatorStep(c)
      PROVE  HandleInv'
  BY <1>7 DEF TerminatorStep, StopPlay, TerminateCore, DestroyCore, At
<1> QED
  BY <1>2, <1>3, <1>4, <1>5, <1>6, <1>7, ClientSteps

\* A handle with a request is not removed.
LEMMA ReplyNext ==
  ASSUME IInv, [Next]_vars
  PROVE  RepliesReachHandle'
<1>1. /\ work \in [Works -> {"none", "queued", "running", "done"}]
      /\ Clients \subseteq Works /\ Clients \cap Detached = {}
      /\ RepliesReachHandle /\ HandleInv
  BY TypeParts, ShutdownAssumption DEF IInv, WorkTypes, Works
<1>2. RepliesReachHandle
        <=> \A c \in Clients : work[c] \in {"queued", "running"} => c \in clients
  BY DEF RepliesReachHandle, Reserved
<1>3. SUFFICES ASSUME NEW c \in Clients, work'[c] \in {"queued", "running"}
               PROVE  c \in clients'
  BY DEF RepliesReachHandle, Reserved
<1>4. c \in clients
  <2>1. CASE work[c] \in {"queued", "running"}
    BY <2>1, <1>1, <1>2
  <2>2. CASE work[c] \notin {"queued", "running"}
    <3>1. CASE \E d \in Clients : Request(d)
      <4>1. Request(c)
        BY <1>1, <1>3, <2>2, <3>1 DEF Request
      <4> QED
        BY <4>1, <1>1 DEF Request, HandleInv
    <3>2. CASE \E d \in Clients : StartRequest(d)
      BY <3>2, <1>1, <1>3, <2>2 DEF StartRequest, RunCommand, FailCommand
    <3>3. CASE \E d \in Clients, w \in Detached : StartDetached(d, w)
      BY <3>3, <1>1, <1>3, <2>2 DEF StartDetached, RunCommand
    <3>4. CASE \E w \in Works : FinishCommand(w)
      BY <3>4, <1>1, <1>3, <2>2 DEF FinishCommand
    <3>5. CASE UNCHANGED work
      BY <3>5, <1>3, <2>2
    <3> QED
      BY <3>1, <3>2, <3>3, <3>4, <3>5 DEF Next, CoreStep, PlayEnds, CoreTest, CoreAbort,
         CoreBroadcast, CoreWakes, SendOther, ReadEvent, Create, SetWeak, Quit, Destroy,
         Remove, TerminatorStep, StopPlay, TerminateCore, DestroyCore, vars, workVars
  <2> QED
    BY <2>1, <2>2
<1>5. CASE Remove(c)
  <2>1. work[c] \notin {"queued", "running"} /\ UNCHANGED work
    BY <1>5 DEF Remove, AllReplied, Reserved, workVars
  <2> QED
    BY <2>1, <1>3
<1>6. CASE ~Remove(c)
  BY <1>4, <1>6, ClientSteps DEF Create, SetWeak, Quit, Destroy, Remove, TerminatorStep,
     StopPlay, TerminateCore, DestroyCore
<1> QED
  BY <1>5, <1>6

\* The core thread ends in mp_shutdown_clients; only the terminator frees the core.
LEMMA CoreSteps ==
  ASSUME [Next]_vars
  PROVE  \/ core' = core
         \/ core # "freed" /\ core' \notin {"exited", "freed"}
         \/ core = "test" /\ core' = "exited" /\ MayExit /\ UNCHANGED <<clients, work>>
         \/ \E c \in Clients : DestroyCore(c)
<1>1. CASE PlayEnds(TRUE) \/ PlayEnds(FALSE) \/ CoreBroadcast \/ CoreWakes
  BY <1>1 DEF PlayEnds, CoreBroadcast, CoreWakes
<1>2. CASE CoreTest
  BY <1>2 DEF CoreTest, clientVars, workVars
<1>3. CASE \E now_late \in BOOLEAN : CoreAbort(now_late)
  BY <1>3 DEF CoreAbort
<1>4. CASE \E c \in Clients : DestroyCore(c)
  BY <1>4
<1>5. CASE \/ \E c \in Clients :
                \/ Request(c) \/ StartRequest(c) \/ \E w \in Detached : StartDetached(c, w)
                \/ SendOther(c) \/ ReadEvent(c)
                \/ \E new \in Clients : Create(c, new)
                \/ SetWeak(c) \/ Quit(c) \/ Destroy(c) \/ Remove(c)
                \/ StopPlay(c) \/ TerminateCore(c)
           \/ \E w \in Works : FinishCommand(w)
           \/ UNCHANGED vars
  BY <1>5 DEF Request, StartRequest, StartDetached, RunCommand, FailCommand,
     FinishCommand, SendOther, ReadEvent, Create, SetWeak, Quit, Destroy, Remove,
     StopPlay, TerminateCore, vars, coreVars
<1> QED
  BY <1>1, <1>2, <1>3, <1>4, <1>5 DEF Next, CoreStep, TerminatorStep

\* There is one terminator, from the removal that makes it to the end of the core.
LEMMA TerminatorNext ==
  ASSUME IInv, [Next]_vars
  PROVE  TerminatorInv'
<1>1. /\ cpc \in [Clients -> ClientPCs] /\ have_terminator \in BOOLEAN
      /\ creating \in [Clients -> Clients] /\ TerminatorInv /\ HandleInv
  BY TypeParts DEF IInv, ClientTypes, SharedTypes
<1>2. /\ have_terminator' = have_terminator /\ Terminators' = Terminators
      /\ core' = core \/ (core # "freed" /\ core' # "freed")
      /\ clients' = clients \/ clients' # {} \/ have_terminator
      => TerminatorInv'
  BY <1>1 DEF TerminatorInv
<1>3. CASE UNCHANGED <<clients, cpc, creating, have_terminator>>
  <2>1. Terminators' = Terminators
    BY <1>3 DEF Terminators
  <2>2. ASSUME NEW c \in Clients PROVE ~DestroyCore(c)
    BY <1>1, <1>3 DEF DestroyCore, At
  <2>3. core' = core \/ (core # "freed" /\ core' # "freed")
    BY <2>2, CoreSteps
  <2> QED
    BY <1>2, <1>3, <2>1, <2>3
<1>4. ASSUME NEW c \in Clients, NEW new \in Clients, Create(c, new)
      PROVE  TerminatorInv'
  <2>1. Terminators' = Terminators
    BY <1>1, <1>4 DEF Create, Terminators
  <2> QED
    BY <1>2, <1>4, <2>1 DEF Create, sharedVars, coreVars
<1>5. ASSUME NEW c \in Clients, SetWeak(c)
      PROVE  TerminatorInv'
  <2>1. Terminators' = Terminators
    BY <1>1, <1>5 DEF SetWeak, Terminators, HandleInv
  <2> QED
    BY <1>2, <1>5, <2>1 DEF SetWeak, sharedVars, coreVars
<1>6. ASSUME NEW c \in Clients, Quit(c) \/ Destroy(c)
      PROVE  TerminatorInv'
  <2>1. Terminators' = Terminators
    BY <1>1, <1>6 DEF Quit, Destroy, At, Terminators
  <2> QED
    BY <1>2, <1>6, <2>1 DEF Quit, Destroy, sharedVars, coreVars
<1>7. ASSUME NEW c \in Clients, Remove(c)
      PROVE  TerminatorInv'
  <2>1. /\ clients' = clients \ {c} /\ cpc[c] = "drain" /\ UNCHANGED core
    BY <1>7 DEF Remove
  <2>2. CASE Terminates(c) /\ ~have_terminator
    <3>1. cpc' = [cpc EXCEPT ![c] = "lock"] /\ have_terminator'
      BY <1>7, <2>2 DEF Remove, BecomeTerminator
    <3>2. Terminators' = Terminators \cup {c}
      BY <3>1, <1>1 DEF Terminators
    <3>3. Terminators = {} /\ core # "freed"
      BY <2>2, <1>1 DEF TerminatorInv
    <3> QED
      BY <2>1, <3>1, <3>2, <3>3 DEF TerminatorInv
  <2>3. CASE ~(Terminates(c) /\ ~have_terminator)
    <3>1. cpc' = [cpc EXCEPT ![c] = "gone"]
      BY <1>7, <2>3 DEF Remove, BecomeTerminator
    <3>2. have_terminator' = have_terminator
      BY <1>7, <2>3, <1>1 DEF Remove, BecomeTerminator
    <3>3. Terminators' = Terminators
      BY <3>1, <2>1, <1>1 DEF Terminators
    <3>4. have_terminator \/ clients' # {}
      BY <2>1, <2>3 DEF Terminates
    <3> QED
      BY <2>1, <3>2, <3>3, <3>4, <1>2
  <2> QED
    BY <2>2, <2>3
<1>8. ASSUME NEW c \in Clients, StopPlay(c) \/ TerminateCore(c)
      PROVE  TerminatorInv'
  <2>1. Terminators' = Terminators
    BY <1>1, <1>8 DEF StopPlay, TerminateCore, At, Terminators
  <2> QED
    BY <1>2, <1>8, <2>1 DEF StopPlay, TerminateCore, coreVars
<1>9. ASSUME NEW c \in Clients, DestroyCore(c)
      PROVE  TerminatorInv'
  <2>1. c \in Terminators /\ Terminators' = Terminators \ {c}
    BY <1>1, <1>9 DEF DestroyCore, At, Terminators
  <2>2. Terminators' = {} /\ have_terminator
    BY <2>1, <1>1 DEF TerminatorInv
  <2> QED
    BY <2>2, <1>9 DEF TerminatorInv, DestroyCore, sharedVars
<1> QED
  BY <1>3, <1>4, <1>5, <1>6, <1>7, <1>8, <1>9, ClientSteps DEF TerminatorStep

\* The core thread ends after its users, and nobody starts to use it after that.
LEMMA EndNext ==
  ASSUME IInv, [Next]_vars
  PROVE  CoreOutlivesUsers'
<1>1. /\ work \in [Works -> {"none", "queued", "running", "done"}]
      /\ Clients \subseteq Works /\ clients \subseteq Clients
      /\ RepliesReachHandle /\ HandleInv /\ CoreOutlivesUsers /\ WorkInv
  BY TypeParts DEF IInv, WorkTypes, ClientTypes, Works
<1>2. CASE core \in {"exited", "freed"}
  <2>1. /\ clients = {} /\ \A w \in Works : work[w] \in {"none", "done"}
        /\ ~CoreServes /\ \A c \in Clients : cpc[c] # "running"
    BY <1>1, <1>2 DEF CoreOutlivesUsers, CoreServes, HandleInv
  <2>2. clients' = {}
    BY <2>1, ClientSteps DEF Create, SetWeak, Quit, Destroy, Remove, TerminatorStep,
       StopPlay, TerminateCore, DestroyCore
  <2>3. \A w \in Works : work'[w] \in {"none", "done"}
    <3>1. ~\E c \in Clients : Request(c) \/ StartRequest(c)
      BY <2>1 DEF Request, StartRequest
    <3>2. ~\E w \in Works : FinishCommand(w)
      BY <2>1 DEF FinishCommand
    <3>3. ~\E c \in Clients, w \in Detached : StartDetached(c, w)
      BY <2>1 DEF StartDetached
    <3>4. UNCHANGED work
      BY <3>1, <3>2, <3>3 DEF Next, CoreStep, PlayEnds, CoreTest, CoreAbort,
         CoreBroadcast, CoreWakes, SendOther, ReadEvent, Create, SetWeak, Quit, Destroy,
         Remove, TerminatorStep, StopPlay, TerminateCore, DestroyCore, vars, workVars
    <3> QED
      BY <3>4, <2>1
  <2> QED
    BY <2>2, <2>3 DEF CoreOutlivesUsers
<1>3. CASE core = "test" /\ core' = "exited" /\ MayExit /\ UNCHANGED <<clients, work>>
  <2>1. clients' = {} /\ outstanding_async = 0
    BY <1>3 DEF MayExit
  <2>2. Running = {}
    <3>1. Running \subseteq Works /\ Cardinality(Running) = 0
      BY <2>1, <1>1 DEF WorkInv, Running
    <3> QED
      BY <3>1, WorksFinite
  <2>3. ASSUME NEW w \in Works PROVE work[w] \in {"none", "done"}
    <3>1. work[w] # "running"
      BY <2>2 DEF Running
    <3>2. work[w] # "queued"
      BY <1>1, <1>3, <2>1 DEF WorkInv, RepliesReachHandle, Reserved
    <3> QED
      BY <3>1, <3>2, <1>1
  <2> QED
    BY <1>3, <2>1, <2>3 DEF CoreOutlivesUsers
<1>4. CASE core' \notin {"exited", "freed"}
  BY <1>4 DEF CoreOutlivesUsers
<1> QED
  BY <1>2, <1>3, <1>4, CoreSteps DEF DestroyCore

\* append_event masks MPV_EVENT_SHUTDOWN when it puts it into the queue.
LEMMA EventNext ==
  ASSUME IInv, [Next]_vars
  PROVE  EventInv'
<1>1. /\ queue \in [Clients -> Seq({"other", "shutdown"})] /\ EventInv
      /\ shutdown_masked \in [Clients -> BOOLEAN] /\ received \in [Clients -> BOOLEAN]
  BY TypeParts DEF IInv, EventTypes
<1>2. CASE UNCHANGED <<queue, shutdown_masked, received>>
  BY <1>1, <1>2 DEF EventInv, IsShutdown
<1>3. ASSUME NEW c \in Clients, SendOther(c)
      PROVE  EventInv'
  <2>1. UNCHANGED <<shutdown_masked, received>>
    BY <1>3 DEF SendOther
  <2>2. CASE UNCHANGED queue
    BY <1>2, <2>1, <2>2
  <2>3. CASE queue' = [queue EXCEPT ![c] = Append(@, "other")]
    <3>1. /\ DOMAIN queue'[c] = 1..Len(queue[c]) + 1 /\ DOMAIN queue[c] = 1..Len(queue[c])
          /\ Len(queue[c]) \in Nat
          /\ \A i \in 1..Len(queue[c]) : queue'[c][i] = queue[c][i]
          /\ queue'[c][Len(queue[c]) + 1] = "other"
      BY <2>3, <1>1
    <3>2. \A i \in DOMAIN queue'[c] :
            queue'[c][i] = "shutdown" => i \in DOMAIN queue[c] /\ IsShutdown(c, i)
      BY <3>1 DEF IsShutdown
    <3>3. \A d \in Clients : d # c => queue'[d] = queue[d]
      BY <2>3, <1>1
    <3> QED
      BY <3>2, <3>3, <2>1, <1>1 DEF EventInv, IsShutdown
  <2> QED
    BY <1>3, <2>2, <2>3 DEF SendOther
<1>4. ASSUME NEW c \in Clients, ReadEvent(c)
      PROVE  EventInv'
  <2>1. UNCHANGED shutdown_masked
    BY <1>4 DEF ReadEvent
  <2>2. CASE UNCHANGED <<queue, received>>
    BY <1>2, <2>1, <2>2
  <2>3. CASE /\ queue[c] # <<>> /\ queue' = [queue EXCEPT ![c] = Tail(@)]
             /\ received' = [received EXCEPT ![c] = @ \/ Head(queue[c]) = "shutdown"]
    <3>1. /\ DOMAIN queue[c] = 1..Len(queue[c]) /\ Len(queue[c]) \in Nat \ {0}
          /\ DOMAIN queue'[c] = 1..Len(queue[c]) - 1
          /\ \A i \in 1..Len(queue[c]) - 1 : queue'[c][i] = queue[c][i + 1]
          /\ Head(queue[c]) = queue[c][1]
      <4>1. queue'[c] = Tail(queue[c]) /\ queue[c] \in Seq({"other", "shutdown"})
        BY <2>3, <1>1
      <4> QED
        BY <4>1, <2>3, HeadTailProperties
    <3>2. \A d \in Clients : d # c => queue'[d] = queue[d] /\ received'[d] = received[d]
      BY <2>3, <1>1
    <3>3. received'[c] <=> received[c] \/ IsShutdown(c, 1)
      BY <2>3, <1>1, <3>1 DEF IsShutdown
    <3>4. \A i \in DOMAIN queue'[c] :
            i + 1 \in DOMAIN queue[c] /\ i + 1 # 1
              /\ (queue'[c][i] = "shutdown" <=> IsShutdown(c, i + 1))
      BY <3>1 DEF IsShutdown
    <3>5. 1 \in DOMAIN queue[c] /\ \A i, j \in DOMAIN queue'[c] : i + 1 = j + 1 => i = j
      BY <3>1
    <3> QED
      BY <3>2, <3>3, <3>4, <3>5, <2>1, <1>1 DEF EventInv, IsShutdown
  <2> QED
    BY <1>4, <2>2, <2>3 DEF ReadEvent
<1>5. CASE CoreBroadcast
  <2> DEFINE sent == {c \in NotYetTold : ~choked[c] /\ ~Full(c)}
  <2>1. /\ \A c \in Clients :
             queue'[c] = IF c \in sent THEN Append(queue[c], "shutdown") ELSE queue[c]
        /\ \A c \in Clients : shutdown_masked'[c] <=> shutdown_masked[c] \/ c \in sent
        /\ UNCHANGED received
    BY <1>5 DEF CoreBroadcast, MaskShutdown
  <2>2. \A c \in sent : ~shutdown_masked[c]
    BY DEF NotYetTold
  <2> HIDE DEF sent
  <2>3. SUFFICES ASSUME NEW c \in Clients
                 PROVE  /\ \A i, j \in DOMAIN queue'[c] :
                             queue'[c][i] = "shutdown" /\ queue'[c][j] = "shutdown" => i = j
                        /\ received'[c] \/ ~shutdown_masked'[c] =>
                             \A i \in DOMAIN queue'[c] : queue'[c][i] # "shutdown"
                        /\ ~shutdown_masked'[c] => ~received'[c]
    BY DEF EventInv, IsShutdown
  <2>4. CASE c \in sent
    <3>1. /\ ~received[c] /\ \A i \in DOMAIN queue[c] : queue[c][i] # "shutdown"
      BY <1>1, <2>2, <2>4 DEF EventInv, IsShutdown
    <3>2. /\ DOMAIN queue'[c] = 1..Len(queue[c]) + 1 /\ DOMAIN queue[c] = 1..Len(queue[c])
          /\ Len(queue[c]) \in Nat
          /\ \A i \in 1..Len(queue[c]) : queue'[c][i] = queue[c][i]
      <4>1. queue'[c] = Append(queue[c], "shutdown")
        BY <2>1, <2>4
      <4>2. queue[c] \in Seq({"other", "shutdown"})
        BY <1>1
      <4> QED
        BY <4>1, <4>2
    <3>3. \A i \in DOMAIN queue'[c] :
            queue'[c][i] = "shutdown" => i = Len(queue[c]) + 1
      BY <3>1, <3>2
    <3> QED
      BY <3>1, <3>3, <2>1, <2>4
  <2>5. CASE c \notin sent
    BY <2>1, <2>5, <1>1 DEF EventInv, IsShutdown
  <2> QED
    BY <2>4, <2>5
<1> QED
  BY <1>2, <1>3, <1>4, <1>5 DEF Next, CoreStep, PlayEnds, CoreTest, CoreAbort, CoreWakes,
     Request, StartRequest, StartDetached, RunCommand, FailCommand, FinishCommand, Create,
     SetWeak, Quit, Destroy, Remove, TerminatorStep, StopPlay, TerminateCore, DestroyCore,
     vars, eventVars

\* A new core with its first handle.
LEMMA InitInv == Init => IInv
<1> SUFFICES ASSUME Init PROVE IInv
  OBVIOUS
<1>1. Main \in Clients /\ MaxSends \in Nat /\ Clients \subseteq Works
  BY ShutdownAssumption DEF Works
<1>2. Running = {} /\ Running \subseteq Works
  BY DEF Init, Running
<1>3. outstanding_async = Cardinality(Running) /\ 0 \in 0..Cardinality(Works)
  BY <1>2, WorksFinite DEF Init
<1>4. ClientTypes
  BY <1>1 DEF Init, ClientTypes, ClientPCs
<1>5. EventTypes
  BY <1>1 DEF Init, EventTypes
<1>6. WorkTypes /\ SharedTypes /\ CoreTypes
  BY <1>3 DEF Init, WorkTypes, SharedTypes, CoreTypes, CorePCs
<1>7. TypeOK
  BY <1>4, <1>5, <1>6, TypeParts
<1>8. Terminators = {}
  BY DEF Init, Terminators
<1>9. HandleInv /\ RepliesReachHandle
  BY <1>1 DEF Init, HandleInv, RepliesReachHandle, Reserved
<1>10. TerminatorInv /\ CoreOutlivesUsers
  BY <1>8 DEF Init, TerminatorInv, CoreOutlivesUsers
<1>11. WorkInv /\ EventInv
  BY <1>3 DEF Init, WorkInv, EventInv, IsShutdown
<1> QED
  BY <1>7, <1>9, <1>10, <1>11 DEF IInv

\* The invariant holds in every state of the core and its handles.
THEOREM Invariant == Spec => []IInv
<1>1. IInv /\ [Next]_vars => IInv'
  BY TypeNext, HandleNext, ReplyNext, TerminatorNext, EndNext, WorkNext, EventNext DEF IInv
<1> QED
  BY <1>1, InitInv, PTL DEF Spec

\* mp_destroy_client: as long as a request of a handle is not replied to, wherever it
\* is, the handle exists.
THEOREM RepliesArrive == Spec => []RepliesReachHandle
<1>1. IInv => RepliesReachHandle
  BY DEF IInv
<1> QED
  BY <1>1, Invariant, PTL

\* mp_destroy_client and mp_shutdown_clients: there is exactly one handle that
\* destroys the core once all are gone, and the core thread outlives its users.
THEOREM EndsInOrder == Spec => []EndInOrder
<1>1. ASSUME IInv PROVE EndInOrder
  <2>1. Cardinality(Terminators) <= 1
    <3>1. CASE Terminators = {}
      BY <3>1, FS_EmptySet
    <3>2. CASE Terminators # {}
      <4>1. PICK c : c \in Terminators
        BY <3>2
      <4>2. Terminators = {c}
        BY <4>1, <1>1 DEF IInv, TerminatorInv
      <4>3. Cardinality({c}) = 1
        BY FS_Singleton
      <4> QED
        BY <4>2, <4>3
    <3> QED
      BY <3>1, <3>2
  <2> QED
    BY <2>1, <1>1 DEF IInv, TerminatorInv, EndInOrder, OneTerminator
<1> QED
  BY <1>1, Invariant, PTL

\* append_event and mp_client_broadcast_event: no handle is told twice of the end.
THEOREM ToldOnce == Spec => []ShutdownOnce
<1>1. ASSUME IInv PROVE ShutdownOnce
  <2>1. ASSUME NEW c \in Clients
        PROVE  ShutdownCount(c) + (IF received[c] THEN 1 ELSE 0) <= 1
    <3> DEFINE S == {i \in DOMAIN queue[c] : queue[c][i] = "shutdown"}
    <3>1. CASE S = {}
      <4>1. ShutdownCount(c) = 0
        BY <3>1, FS_EmptySet DEF ShutdownCount
      <4> QED
        BY <4>1
    <3>2. CASE S # {}
      <4>1. PICK i : i \in S
        BY <3>2
      <4>2. S = {i} /\ ~received[c]
        BY <4>1, <1>1 DEF IInv, EventInv, IsShutdown
      <4>3. ShutdownCount(c) = 1
        BY <4>2, FS_Singleton DEF ShutdownCount
      <4> QED
        BY <4>2, <4>3
    <3> QED
      BY <3>1, <3>2
  <2> QED
    BY <2>1 DEF ShutdownOnce
<1> QED
  BY <1>1, Invariant, PTL
===============================================================================
