-------------------------- MODULE ClientEventsProofs --------------------------
(***************************************************************************)
(* Proofs about the event queue of a client, for every set of events and   *)
(* requests and every size of the ring buffer. The inductive invariant     *)
(* adds to the properties what need_wakeup and notified must be wherever   *)
(* the client thread can be (WakeInv).                                     *)
(***************************************************************************)
EXTENDS ClientEvents, FiniteSetTheorems, SequenceTheorems, TLAPS

Pending == num_events > 0 \/ other

\* What has been sent since the client last looked is remembered in need_wakeup
\* until it waits; for a user with a callback in notified, too, unless the user is
\* going to call mpv_wait_event, or to look again, anyway.
WakeInv ==
  /\ asleep => ~need_wakeup /\ pc \in {"sleep", "drain_sleep"}
  /\ pc = "wait" /\ Pending => need_wakeup
  /\ pc = "wait" /\ queued_wakeup => need_wakeup \/ deadline = "past"
  /\ pc = "drain_wait" /\ reserved_events = 0 => need_wakeup
  /\ uses_callback /\ pc = "idle" /\ need_wakeup => notified \/ more
  /\ uses_callback /\ pc \in {"sleep", "timedout"} /\ (Pending \/ need_wakeup) => notified

IInv == RepliesFit /\ WakeInv /\ NoMissedEvent

-------------------------------------------------------------------------------

\* Sets of requests are finite, and so can be counted.
LEMMA RequestsFinite ==
  ASSUME NEW S \in SUBSET Requests
  PROVE  /\ Cardinality(S) \in Nat
         /\ Cardinality(S) = 0 <=> S = {}
         /\ \A r \in S : Cardinality(S \ {r}) = Cardinality(S) - 1
         /\ \A r \in Requests \ S : Cardinality(S \cup {r}) = Cardinality(S) + 1
<1>1. IsFiniteSet(S)
  BY ClientEventsAssumption, FS_Subset
<1>2. Cardinality(S) \in Nat /\ (Cardinality(S) = 0 <=> S = {})
  BY <1>1, FS_CardinalityType, FS_EmptySet
<1>3. \A r \in S : Cardinality(S \ {r}) = Cardinality(S) - 1
  BY <1>1, FS_RemoveElement
<1>4. \A r \in Requests \ S : Cardinality(S \cup {r}) = Cardinality(S) + 1
  BY <1>1, FS_AddElement
<1> QED
  BY <1>2, <1>3, <1>4

\* The places of the ring buffer: one past the last is the first.
LEMMA Places ==
  ASSUME NEW f \in 0..MaxEvents - 1, NEW i \in 0..MaxEvents
  PROVE  /\ (f + i) % MaxEvents = IF f + i < MaxEvents THEN f + i ELSE f + i - MaxEvents
         /\ (f + i) % MaxEvents \in 0..MaxEvents - 1
<1> DEFINE x == f + i
<1>1. MaxEvents \in Nat \ {0} /\ x \in Nat /\ x < 2 * MaxEvents
  BY ClientEventsAssumption
<1>2. CASE x < MaxEvents
  BY <1>1, <1>2
<1>3. CASE x >= MaxEvents
  BY <1>1, <1>3
<1> QED
  BY <1>1, <1>2, <1>3

\* The readable part is a sequence of num_events entries.
LEMMA FeedIs ==
  ASSUME TypeOK
  PROVE  /\ Feed \in Seq(Entries \cup {None})
         /\ Len(Feed) = num_events
         /\ \A i \in 1..num_events :
              /\ (first_event + i - 1) % MaxEvents \in 0..MaxEvents - 1
              /\ Feed[i] = events[(first_event + i - 1) % MaxEvents]
<1>1. num_events \in Nat /\ num_events <= MaxEvents /\ MaxEvents \in Nat \ {0}
  BY ClientEventsAssumption DEF TypeOK
<1>2. ASSUME NEW i \in 1..num_events
      PROVE  (first_event + i - 1) % MaxEvents \in 0..MaxEvents - 1
  <2>1. /\ first_event \in 0..MaxEvents - 1 /\ i - 1 \in 0..MaxEvents
        /\ first_event + i - 1 = first_event + (i - 1)
    BY <1>1 DEF TypeOK
  <2> QED
    BY <2>1, <1>1, Places
<1>3. \A i \in 1..num_events :
        events[(first_event + i - 1) % MaxEvents] \in Entries \cup {None}
  BY <1>2 DEF TypeOK
<1> QED
  BY <1>1, <1>2, <1>3 DEF Feed

\* append_event puts the new entry behind all that can be read.
LEMMA FeedAppended ==
  ASSUME TypeOK, NEW e \in Entries, num_events < MaxEvents, TypeOK',
         PutEntry(e), num_events' = num_events + 1, UNCHANGED first_event
  PROVE  Feed' = Append(Feed, e)
<1>1. /\ num_events \in Nat /\ MaxEvents \in Nat \ {0}
      /\ first_event \in 0..MaxEvents - 1
      /\ events \in [0..MaxEvents - 1 -> Entries \cup {None}]
  BY ClientEventsAssumption DEF TypeOK
<1> DEFINE new == (first_event + num_events) % MaxEvents
<1>2. new = IF first_event + num_events < MaxEvents
            THEN first_event + num_events ELSE first_event + num_events - MaxEvents
  BY <1>1, Places
<1>3. new \in 0..MaxEvents - 1 /\ events' = [events EXCEPT ![new] = e]
  BY <1>1, <1>2 DEF PutEntry
<1> HIDE DEF new
<1>4. ASSUME NEW i \in 1..num_events
      PROVE  events'[(first_event + i - 1) % MaxEvents]
               = events[(first_event + i - 1) % MaxEvents]
  <2> DEFINE place == (first_event + i - 1) % MaxEvents
  <2>1. i - 1 \in 0..MaxEvents /\ first_event + i - 1 = first_event + (i - 1)
    BY <1>1
  <2>2. place = IF first_event + (i - 1) < MaxEvents
                THEN first_event + (i - 1) ELSE first_event + (i - 1) - MaxEvents
    BY <2>1, <1>1, Places
  <2>3. place # new /\ place \in 0..MaxEvents - 1
    BY <2>1, <2>2, <1>1, <1>2
  <2> QED
    BY <2>3, <1>1, <1>3
<1>5. first_event + (num_events + 1) - 1 = first_event + num_events
  BY <1>1
<1>6. events'[(first_event + (num_events + 1) - 1) % MaxEvents] = e
  BY <1>5, <1>3, <1>1 DEF new
<1>7. Feed' = [i \in 1..num_events + 1 |-> events'[(first_event + i - 1) % MaxEvents]]
  BY DEF Feed
<1>8. Len(Feed) = num_events /\ Feed \in Seq(Entries \cup {None})
  BY FeedIs
<1>9. /\ Append(Feed, e) \in Seq(Entries \cup {None})
      /\ Len(Append(Feed, e)) = num_events + 1
      /\ \A i \in 1..num_events : Append(Feed, e)[i] = Feed[i]
      /\ Append(Feed, e)[num_events + 1] = e
  BY <1>8
<1>10. Feed' \in Seq(Entries \cup {None}) /\ Len(Feed') = num_events + 1
  <2>1. (Feed \in Seq(Entries \cup {None}) /\ Len(Feed) = num_events)'
    BY FeedIs, PTL
  <2> QED
    BY <2>1
<1>11. ASSUME NEW i \in 1..num_events + 1
       PROVE  Feed'[i] = Append(Feed, e)[i]
  <2>1. CASE i = num_events + 1
    BY <2>1, <1>6, <1>7, <1>9, <1>1
  <2>2. CASE i \in 1..num_events
    BY <2>2, <1>4, <1>7, <1>9, <1>1 DEF Feed
  <2> QED
    BY <2>1, <2>2, <1>1
<1> QED
  BY <1>9, <1>10, <1>11, SeqEqual

\* mpv_wait_event takes the oldest entry.
LEMMA FeedTaken ==
  ASSUME TypeOK, num_events > 0, TypeOK', UNCHANGED events,
         first_event' = (first_event + 1) % MaxEvents, num_events' = num_events - 1
  PROVE  Feed' = Tail(Feed) /\ Feed # <<>>
<1>1. /\ num_events \in Nat \ {0} /\ MaxEvents \in Nat \ {0} /\ num_events <= MaxEvents
      /\ first_event \in 0..MaxEvents - 1
  BY ClientEventsAssumption DEF TypeOK
<1>2. first_event' = IF first_event + 1 < MaxEvents THEN first_event + 1 ELSE 0
  <2>1. (first_event + 1 = MaxEvents \/ first_event + 1 < MaxEvents) /\ 1 \in 0..MaxEvents
    BY <1>1
  <2>2. first_event' = IF first_event + 1 < MaxEvents
                       THEN first_event + 1 ELSE first_event + 1 - MaxEvents
    BY <1>1, <2>1, Places
  <2> QED
    BY <1>1, <2>1, <2>2
<1>3. ASSUME NEW i \in 1..num_events - 1
      PROVE  Feed'[i] = Feed[i + 1]
  <2>1. /\ i - 1 \in 0..MaxEvents /\ first_event' \in 0..MaxEvents - 1
        /\ first_event' + i - 1 = first_event' + (i - 1) /\ i \in 0..MaxEvents
        /\ first_event + (i + 1) - 1 = first_event + i
        /\ i + 1 \in 1..num_events /\ i \in 1..num_events'
    BY <1>1, <1>2
  <2>2. (first_event' + (i - 1)) % MaxEvents
          = IF first_event' + (i - 1) < MaxEvents
            THEN first_event' + (i - 1) ELSE first_event' + (i - 1) - MaxEvents
    BY <2>1, Places
  <2>3. (first_event + i) % MaxEvents
          = IF first_event + i < MaxEvents
            THEN first_event + i ELSE first_event + i - MaxEvents
    BY <2>1, <1>1, Places
  <2>4. (first_event' + (i - 1)) % MaxEvents = (first_event + i) % MaxEvents
    BY <2>2, <2>3, <1>1, <1>2
  <2> QED
    BY <2>1, <2>4 DEF Feed
<1>4. Feed \in Seq(Entries \cup {None}) /\ Len(Feed) = num_events
  BY FeedIs
<1>5. Feed' \in Seq(Entries \cup {None}) /\ Len(Feed') = num_events - 1
  <2>1. (Feed \in Seq(Entries \cup {None}) /\ Len(Feed) = num_events)'
    BY FeedIs, PTL
  <2> QED
    BY <2>1
<1>6. Feed # <<>>
  BY <1>4, <1>1
<1>7. /\ Tail(Feed) \in Seq(Entries \cup {None}) /\ Len(Tail(Feed)) = num_events - 1
      /\ \A i \in 1..num_events - 1 : Tail(Feed)[i] = Feed[i + 1]
  BY <1>4, <1>6, <1>1, HeadTailProperties
<1> QED
  BY <1>3, <1>5, <1>6, <1>7, SeqEqual

-------------------------------------------------------------------------------

\* append_event: the client is woken, wherever it is.
LEMMA AppendKeeps ==
  ASSUME IInv, NEW e \in Entries, AppendEntry(e),
         num_events + reserved_events' < MaxEvents,
         reserved_events' = Cardinality(outstanding'), outstanding' \subseteq outstanding,
         Alive, sends' \in 0..MaxSends,
         UNCHANGED <<choked, queued_wakeup, other, made, uses_callback, more, deadline, pc>>
  PROVE  IInv'
<1>1. /\ TypeOK /\ num_events \in Nat /\ MaxEvents \in Nat \ {0}
      /\ first_event \in 0..MaxEvents - 1
      /\ outstanding' \subseteq Requests /\ reserved_events' \in Nat
  BY ClientEventsAssumption, RequestsFinite DEF IInv, RepliesFit, TypeOK
<1>2. num_events' \in 0..MaxEvents /\ num_events' + reserved_events' <= MaxEvents
  BY <1>1 DEF AppendEntry
<1>3. events' \in [0..MaxEvents - 1 -> Entries \cup {None}]
  <2>1. events \in [0..MaxEvents - 1 -> Entries \cup {None}]
    BY <1>1 DEF TypeOK
  <2> QED
    BY <2>1 DEF AppendEntry, PutEntry
<1>4. event_mask' \subseteq EventIds
  BY <1>1 DEF AppendEntry, TypeOK
<1>5. TypeOK'
  BY <1>1, <1>2, <1>3, <1>4 DEF AppendEntry, WakeupClient, TypeOK
<1>6. RepliesFit'
  BY <1>2, <1>5 DEF RepliesFit, Alive
<1>7. WakeInv' /\ NoMissedEvent'
  BY <1>1 DEF IInv, WakeInv, NoMissedEvent, Pending, AppendEntry, WakeupClient, TypeOK
<1> QED
  BY <1>6, <1>7 DEF IInv

\* send_event
LEMMA SendEventKeeps ==
  ASSUME IInv, NEW e \in EventIds, SendEvent(e)
  PROVE  IInv'
<1>1. TypeOK /\ MaxSends \in Nat /\ sends' \in 0..MaxSends
  BY ClientEventsAssumption DEF IInv, RepliesFit, TypeOK, SendEvent, CountSend
<1>2. CASE ~(e \notin event_mask \/ choked) /\ ~Full(reserved_events)
  <2>1. AppendEntry(e) /\ UNCHANGED <<choked, reserved_events, outstanding>>
    <3>1. /\ choked' = Full(reserved_events) /\ AppendEntry(e)
          /\ UNCHANGED <<reserved_events, outstanding>>
      BY <1>2 DEF SendEvent
    <3>2. Full(reserved_events) = FALSE /\ choked = FALSE
      BY <1>1, <1>2 DEF Full, TypeOK
    <3> QED
      BY <3>1, <3>2
  <2>2. num_events + reserved_events' < MaxEvents
    BY <1>1, <1>2, <2>1, ClientEventsAssumption DEF Full, TypeOK
  <2>3. reserved_events' = Cardinality(outstanding')
    BY <2>1 DEF IInv, RepliesFit
  <2> QED
    BY <1>1, <2>1, <2>2, <2>3, AppendKeeps DEF SendEvent, Entries
<1>3. CASE (e \notin event_mask \/ choked) \/ Full(reserved_events)
  <2>1. /\ UNCHANGED <<events, num_events, event_mask, first_event, need_wakeup,
                       reserved_events, notified, asleep, queued_wakeup, other,
                       outstanding, made, uses_callback, more, deadline, pc>>
        /\ choked' \in BOOLEAN
    BY <1>1, <1>3 DEF SendEvent, Full, TypeOK, ringVars
  <2>2. TypeOK'
    BY <2>1, <1>1 DEF TypeOK
  <2> QED
    BY <2>1, <2>2 DEF IInv, RepliesFit, WakeInv, NoMissedEvent, Pending
<1> QED
  BY <1>2, <1>3

\* send_reply
LEMMA SendReplyKeeps ==
  ASSUME IInv, NEW r \in Requests, SendReply(r)
  PROVE  IInv'
<1>1. /\ TypeOK /\ Alive /\ sends' \in 0..MaxSends
      /\ outstanding \subseteq Requests /\ reserved_events = Cardinality(outstanding)
  BY DEF IInv, RepliesFit, TypeOK, SendReply, Alive
<1>2. /\ reserved_events' = reserved_events - 1 /\ outstanding' = outstanding \ {r}
      /\ r \in outstanding /\ r \in Entries
  BY DEF SendReply, Entries
<1>3. reserved_events' = Cardinality(outstanding')
  BY <1>1, <1>2, RequestsFinite
<1>4. num_events + reserved_events' < MaxEvents
  BY <1>1, <1>2, ClientEventsAssumption DEF SendReply, Full, TypeOK
<1> QED
  BY <1>1, <1>2, <1>3, <1>4, AppendKeeps DEF SendReply

\* A change that is not queued, or mpv_wakeup: the client is woken.
LEMMA WokenKeeps ==
  ASSUME IInv, ChangeOther \/ Wakeup
  PROVE  IInv'
<1>1. /\ TypeOK /\ MaxSends \in Nat /\ sends' \in 0..MaxSends
      /\ UNCHANGED <<ringVars, outstanding, made, uses_callback, more, deadline, pc>>
  BY ClientEventsAssumption DEF IInv, RepliesFit, TypeOK, ChangeOther, Wakeup, CountSend
<1>2. TypeOK'
  BY <1>1 DEF TypeOK, ChangeOther, Wakeup, WakeupClient, ringVars
<1>3. RepliesFit'
  BY <1>1, <1>2 DEF IInv, RepliesFit, ringVars
<1>4. WakeInv' /\ NoMissedEvent'
  BY <1>1 DEF IInv, WakeInv, NoMissedEvent, Pending, ChangeOther, Wakeup, WakeupClient,
              TypeOK, ringVars
<1> QED
  BY <1>3, <1>4 DEF IInv

\* reserve_reply
LEMMA RequestKeeps ==
  ASSUME IInv, NEW r \in Requests, Request(r)
  PROVE  IInv'
<1>1. /\ TypeOK /\ r \notin outstanding /\ outstanding \subseteq Requests
      /\ reserved_events = Cardinality(outstanding)
      /\ UNCHANGED <<events, first_event, num_events, choked, event_mask, queued_wakeup,
                     need_wakeup, other, userVars, deadline, asleep, pc, sends>>
  BY DEF IInv, RepliesFit, TypeOK, Request
<1>2. /\ outstanding' \subseteq made' /\ made' \subseteq Requests
      /\ reserved_events' \in Nat /\ reserved_events' = Cardinality(outstanding')
      /\ num_events + reserved_events' <= MaxEvents
  <2>1. CASE ~Full(reserved_events) /\ ~choked
    <3>1. /\ reserved_events' = reserved_events + 1
          /\ outstanding' = outstanding \cup {r} /\ made' = made \cup {r}
      BY <2>1 DEF Request
    <3>2. Cardinality(outstanding') = Cardinality(outstanding) + 1
      BY <1>1, <3>1, RequestsFinite
    <3> QED
      BY <2>1, <3>1, <3>2, <1>1, ClientEventsAssumption DEF Full, TypeOK
  <2>2. CASE Full(reserved_events) \/ choked
    BY <2>2, <1>1 DEF Request, TypeOK, IInv, RepliesFit
  <2> QED
    BY <2>1, <2>2
<1>3. TypeOK'
  BY <1>1, <1>2 DEF TypeOK, userVars
<1>4. RepliesFit'
  BY <1>1, <1>2, <1>3 DEF RepliesFit, Request
<1>5. WakeInv' /\ NoMissedEvent'
  BY <1>1 DEF IInv, WakeInv, NoMissedEvent, Pending, userVars, Request
<1> QED
  BY <1>4, <1>5 DEF IInv

\* mpv_request_event
LEMMA RequestEventKeeps ==
  ASSUME IInv, NEW e \in EventIds, NEW enable \in BOOLEAN, RequestEvent(e, enable)
  PROVE  IInv'
<1>1. /\ TypeOK /\ MaxSends \in Nat /\ sends' \in 0..MaxSends /\ event_mask' \subseteq EventIds
      /\ UNCHANGED <<events, first_event, num_events, reserved_events, choked,
                     queued_wakeup, need_wakeup, other, outstanding, made, userVars,
                     deadline, asleep, pc>>
  BY ClientEventsAssumption DEF IInv, RepliesFit, TypeOK, RequestEvent, CountSend
<1>2. TypeOK'
  BY <1>1 DEF TypeOK, userVars
<1> QED
  BY <1>1, <1>2 DEF IInv, RepliesFit, WakeInv, NoMissedEvent, Pending, userVars

\* The loop of mpv_wait_event: the client takes something, or is about to wait with
\* nothing to take.
LEMMA WaitLoopKeeps ==
  ASSUME IInv, NEW d \in Deadlines, WaitLoop(d), pc \in {"idle", "woken"},
         notified' \in BOOLEAN
  PROVE  IInv'
<1>1. /\ TypeOK /\ num_events \in Nat /\ MaxEvents \in Nat \ {0}
      /\ first_event \in 0..MaxEvents - 1 /\ num_events <= MaxEvents
      /\ UNCHANGED <<events, reserved_events, event_mask, need_wakeup, outstanding, made,
                     uses_callback, asleep, sends>>
  BY ClientEventsAssumption DEF IInv, RepliesFit, TypeOK, WaitLoop
<1>2. /\ num_events' \in Nat /\ num_events' <= num_events
      /\ first_event' \in 0..MaxEvents - 1
  <2>1. (first_event + 1) % MaxEvents \in 0..MaxEvents - 1
    <3>1. 1 \in 0..MaxEvents
      BY <1>1
    <3> QED
      BY <3>1, <1>1, Places
  <2> QED
    <3>1. CASE TakeEvent
      <4>1. num_events' = num_events - 1 /\ first_event' = (first_event + 1) % MaxEvents
        BY <3>1 DEF TakeEvent
      <4> QED
        BY <4>1, <3>1, <2>1, <1>1 DEF TakeEvent
    <3>2. CASE TakeOverflow \/ TakeOther \/ \E t \in Deadlines : NothingYet(t)
      <4>1. UNCHANGED <<num_events, first_event>>
        BY <3>2 DEF TakeOverflow, TakeOther, NothingYet
      <4> QED
        BY <4>1, <1>1
    <3> QED
      BY <3>1, <3>2 DEF WaitLoop
<1>3. choked' \in BOOLEAN /\ queued_wakeup' \in BOOLEAN /\ other' \in BOOLEAN
      /\ more' \in BOOLEAN /\ deadline' \in Deadlines /\ pc' \in {"idle", "wait"}
  BY <1>1 DEF WaitLoop, TakeOverflow, TakeEvent, TakeOther, NothingYet, Return, TypeOK,
              Deadlines
<1>4. TypeOK'
  BY <1>1, <1>2, <1>3 DEF TypeOK, PCs
<1>5. RepliesFit'
  BY <1>1, <1>2, <1>3, <1>4 DEF IInv, RepliesFit, TypeOK
<1>6. \/ pc' = "idle" /\ more'
      \/ /\ pc' = "wait" /\ ~Pending' /\ (queued_wakeup' => deadline' = "past")
  BY <1>1 DEF WaitLoop, TakeOverflow, TakeEvent, TakeOther, NothingYet, Return, Pending
<1>7. ~asleep'
  BY <1>1 DEF IInv, WakeInv
<1> QED
  BY <1>5, <1>6, <1>7, <1>3 DEF IInv, WakeInv, NoMissedEvent, Pending

\* What wait_wakeup does under wakeup_lock, in both of the loops that call it.
LEMMA WaitWakeupKeeps ==
  ASSUME IInv,
         \/ WaitWakeup \/ SleepEnds \/ SleepTimesOut \/ SpuriousWakeup
         \/ DrainWakeup \/ DrainSleepEnds
  PROVE  IInv'
<1>1. /\ TypeOK
      /\ UNCHANGED <<ringVars, queued_wakeup, other, outstanding, made, userVars,
                     deadline, sends>>
      /\ need_wakeup' \in BOOLEAN /\ asleep' \in BOOLEAN
  BY DEF IInv, RepliesFit, TypeOK, WaitWakeup, SleepEnds, SleepTimesOut, SpuriousWakeup,
         DrainWakeup, DrainSleepEnds, waitWakeupUnchanged
<1>2. pc' \in PCs \ {"destroyed"}
  BY <1>1 DEF IInv, WakeInv, PCs, WaitWakeup, SleepEnds, SleepTimesOut, SpuriousWakeup,
              DrainWakeup, DrainSleepEnds
<1>3. TypeOK'
  BY <1>1, <1>2 DEF TypeOK, ringVars, userVars
<1>4. RepliesFit'
  BY <1>1, <1>2, <1>3 DEF IInv, RepliesFit, ringVars
<1>5. num_events \in Nat /\ reserved_events \in Nat
  BY <1>1 DEF TypeOK
<1>6. WakeInv' /\ NoMissedEvent'
  <2> USE DEF IInv, WakeInv, NoMissedEvent, Pending, ringVars, userVars
  <2>1. CASE WaitWakeup
    BY <2>1, <1>1, <1>5 DEF WaitWakeup
  <2>2. CASE SleepEnds \/ SleepTimesOut \/ SpuriousWakeup
    BY <2>2, <1>1 DEF SleepEnds, SleepTimesOut, SpuriousWakeup
  <2>3. CASE DrainWakeup \/ DrainSleepEnds
    BY <2>3, <1>1, <1>5 DEF DrainWakeup, DrainSleepEnds
  <2> QED
    BY <2>1, <2>2, <2>3
<1> QED
  BY <1>4, <1>6 DEF IInv

\* mp_destroy_client
LEMMA DestroyKeeps ==
  ASSUME IInv, Destroy \/ Drain
  PROVE  IInv'
<1>1. /\ TypeOK /\ num_events \in 0..MaxEvents /\ MaxEvents \in Nat \ {0}
      /\ first_event \in 0..MaxEvents - 1 /\ reserved_events \in Nat
      /\ outstanding \subseteq Requests /\ reserved_events = Cardinality(outstanding)
      /\ UNCHANGED <<events, reserved_events, choked, event_mask, queued_wakeup,
                     need_wakeup, other, outstanding, made, userVars, deadline, asleep,
                     sends>>
  BY ClientEventsAssumption DEF IInv, RepliesFit, TypeOK, Destroy, Drain, ringVars
<1>2. num_events' \in 0..MaxEvents /\ num_events' <= num_events
      /\ first_event' \in 0..MaxEvents - 1
  <2>1. (first_event + num_events) % MaxEvents \in 0..MaxEvents - 1
    BY <1>1, Places
  <2> QED
    BY <2>1, <1>1 DEF Destroy, Drain, ringVars
<1>3. pc' \in {"drain", "drain_wait", "destroyed"} /\ pc \in {"idle", "drain"}
  BY DEF Destroy, Drain
<1>4. TypeOK'
  BY <1>1, <1>2, <1>3 DEF TypeOK, PCs, userVars
<1>5. pc' = "destroyed" => outstanding' = {}
  BY <1>1, RequestsFinite DEF Destroy, Drain
<1>6. RepliesFit'
  BY <1>1, <1>2, <1>4, <1>5 DEF IInv, RepliesFit
<1>7. pc' = "drain_wait" => reserved_events' # 0
  BY <1>1 DEF Destroy, Drain
<1> QED
  BY <1>1, <1>3, <1>6, <1>7 DEF IInv, WakeInv, NoMissedEvent, Pending

\* A new handle.
LEMMA InitInv == Init => IInv
<1> SUFFICES ASSUME Init PROVE IInv
  OBVIOUS
<1>1. MaxEvents \in Nat \ {0} /\ MaxSends \in Nat /\ Cardinality({}) = 0
  BY ClientEventsAssumption, FS_EmptySet
<1>2. TypeOK
  <2>1. events \in [0..MaxEvents - 1 -> Entries \cup {None}]
    BY DEF Init
  <2>2. /\ first_event \in 0..MaxEvents - 1 /\ num_events \in 0..MaxEvents
        /\ reserved_events \in Nat /\ sends \in 0..MaxSends
    BY <1>1 DEF Init
  <2> QED
    BY <2>1, <2>2 DEF Init, TypeOK, Deadlines, PCs
<1> QED
  BY <1>1, <1>2 DEF Init, IInv, RepliesFit, WakeInv, NoMissedEvent, Pending

\* Every step keeps the invariant.
LEMMA NextInv == IInv /\ [Next]_vars => IInv'
<1> SUFFICES ASSUME IInv, [Next]_vars PROVE IInv'
  OBVIOUS
<1>1. CASE \E e \in EventIds : SendEvent(e)
  BY <1>1, SendEventKeeps
<1>2. CASE \E e \in EventIds, enable \in BOOLEAN : RequestEvent(e, enable)
  BY <1>2, RequestEventKeeps
<1>3. CASE \E r \in Requests : Request(r) \/ SendReply(r)
  BY <1>3, RequestKeeps, SendReplyKeeps
<1>4. CASE ChangeOther \/ Wakeup
  BY <1>4, WokenKeeps
<1>5. CASE \E d \in Deadlines : WaitEvent(d)
  BY <1>5, WaitLoopKeeps DEF WaitEvent
<1>6. CASE WaitAgain
  <2>1. deadline \in Deadlines /\ notified \in BOOLEAN
    BY DEF IInv, RepliesFit, TypeOK
  <2> QED
    BY <1>6, <2>1, WaitLoopKeeps DEF WaitAgain
<1>7. CASE WaitWakeup \/ SleepEnds \/ SleepTimesOut \/ SpuriousWakeup
           \/ DrainWakeup \/ DrainSleepEnds
  BY <1>7, WaitWakeupKeeps
<1>8. CASE Destroy \/ Drain
  BY <1>8, DestroyKeeps
<1>9. CASE WaitTimedOut
  <2> USE DEF WaitTimedOut, Return, ringVars
  <2>1. TypeOK'
    BY <1>9 DEF IInv, RepliesFit, TypeOK, Deadlines, PCs
  <2> QED
    BY <1>9, <2>1 DEF IInv, RepliesFit, WakeInv, NoMissedEvent, Pending
<1>10. CASE UNCHANGED vars
  <2> USE <1>10 DEF vars, ringVars, userVars
  <2>1. TypeOK'
    BY DEF IInv, RepliesFit, TypeOK
  <2> QED
    BY <2>1 DEF IInv, RepliesFit, WakeInv, NoMissedEvent, Pending
<1> QED
  BY <1>1, <1>2, <1>3, <1>4, <1>5, <1>6, <1>7, <1>8, <1>9, <1>10 DEF Next, ClientStep

-------------------------------------------------------------------------------

\* The invariant holds in every state of the queue.
THEOREM Invariant == Spec => []IInv
  BY InitInv, NextInv, PTL DEF Spec

\* reserve_reply and send_reply: there is room for the reply to every request, and
\* a destroyed handle gets none.
THEOREM RepliesHaveRoom == Spec => []RepliesFit
<1>1. IInv => RepliesFit
  BY DEF IInv
<1> QED
  BY <1>1, Invariant, PTL

\* wakeup_client and wait_wakeup: neither a thread that blocks nor a user that
\* waits for the callback misses what is there.
THEOREM WakeupsKept == Spec => []NoMissedEvent
<1>1. IInv => NoMissedEvent
  BY DEF IInv
<1> QED
  BY <1>1, Invariant, PTL

-------------------------------------------------------------------------------

\* The room for events is that of the feed and of the promised replies.
LEMMA RoomIs ==
  ASSUME IInv
  PROVE  /\ Abstract!Room <=> ~Full(reserved_events)
         /\ TypeOK /\ num_events \in Nat /\ reserved_events \in Nat /\ MaxEvents \in Nat
<1>1. TypeOK /\ reserved_events = Cardinality(outstanding)
  BY DEF IInv, RepliesFit
<1>2. num_events \in Nat /\ reserved_events \in Nat /\ MaxEvents \in Nat
  BY <1>1, ClientEventsAssumption DEF TypeOK
<1>3. Len(Feed) = num_events
  BY <1>1, FeedIs
<1>4. Abstract!Room <=> num_events + reserved_events < MaxEvents
  <2>1. Len(Feed) + Cardinality(outstanding) = num_events + reserved_events
    BY <1>1, <1>3
  <2> QED
    BY <2>1 DEF Abstract!Room, Cardinality, Abstract!Cardinality
<1>5. Full(reserved_events) <=> num_events + reserved_events >= MaxEvents
  BY DEF Full
<1> QED
  BY <1>1, <1>2, <1>4, <1>5

\* An empty ring buffer is an empty feed.
LEMMA FeedEmpty == ASSUME num_events = 0 PROVE Feed = <<>>
  BY DEF Feed

\* append_event is Append, if there is room.
LEMMA AppendIs ==
  ASSUME IInv, IInv', NEW e \in Entries, AppendEntry(e), num_events < MaxEvents
  PROVE  Feed' = Append(Feed, e)
<1>1. TypeOK /\ TypeOK'
  BY DEF IInv, RepliesFit
<1> QED
  BY <1>1, FeedAppended DEF AppendEntry

\* A step of the sender is one of the feed: the event is added, or lost, or nobody
\* wants it.
LEMMA SendEventIs ==
  ASSUME IInv, IInv', NEW e \in EventIds, SendEvent(e)
  PROVE  Abstract!Send(e) \/ Abstract!Lose \/ UNCHANGED Abstract!vars
<1>1. outstanding' = outstanding
  BY DEF SendEvent
<1>2. CASE e \notin event_mask \/ choked
  BY <1>1, <1>2 DEF SendEvent, ringVars, Abstract!vars, Feed
<1>3. CASE ~(e \notin event_mask \/ choked) /\ Full(reserved_events)
  <2>1. choked' = Full(reserved_events) /\ UNCHANGED <<events, first_event, num_events>>
    BY <1>3 DEF SendEvent
  <2>2. Full(reserved_events) = TRUE
    BY <1>3 DEF Full
  <2>3. Feed' = Feed
    BY <2>1 DEF Feed
  <2> QED
    BY <1>1, <1>3, <2>1, <2>2, <2>3, RoomIs DEF Abstract!Lose
<1>4. CASE ~(e \notin event_mask \/ choked) /\ ~Full(reserved_events)
  <2>1. choked' = Full(reserved_events) /\ AppendEntry(e)
    BY <1>4 DEF SendEvent
  <2>2. Full(reserved_events) = FALSE /\ choked = FALSE /\ num_events < MaxEvents
    BY <1>4, RoomIs DEF Full, TypeOK
  <2>3. Feed' = Append(Feed, e)
    BY <2>1, <2>2, AppendIs DEF Entries
  <2> QED
    BY <1>1, <1>4, <2>1, <2>2, <2>3, RoomIs DEF Abstract!Send
<1> QED
  BY <1>2, <1>3, <1>4

\* A request promises a reply, if it is accepted, and the reply keeps the promise.
LEMMA RequestIs ==
  ASSUME IInv, IInv', NEW r \in Requests, Request(r) \/ SendReply(r)
  PROVE  Abstract!Promise(r) \/ Abstract!Reply(r) \/ UNCHANGED Abstract!vars
<1>1. CASE Request(r)
  <2>1. Feed' = Feed /\ choked' = choked
    BY <1>1 DEF Request, Feed
  <2>2. r \notin outstanding
    BY <1>1, RoomIs DEF Request, TypeOK
  <2>3. CASE ~Full(reserved_events) /\ ~choked
    <3>1. outstanding' = outstanding \cup {r}
      BY <1>1, <2>3 DEF Request
    <3> QED
      BY <2>1, <2>2, <2>3, <3>1, RoomIs DEF Abstract!Promise
  <2>4. CASE Full(reserved_events) \/ choked
    <3>1. outstanding' = outstanding
      BY <1>1, <2>4 DEF Request
    <3> QED
      BY <2>1, <3>1 DEF Abstract!vars
  <2> QED
    BY <2>3, <2>4
<1>2. CASE SendReply(r)
  <2>1. /\ r \in outstanding /\ outstanding' = outstanding \ {r} /\ choked' = choked
        /\ ~Full(reserved_events') /\ AppendEntry(r)
    BY <1>2 DEF SendReply
  <2>2. reserved_events' \in Nat
    BY DEF IInv, RepliesFit, TypeOK
  <2>3. num_events < MaxEvents
    BY <2>1, <2>2, RoomIs DEF Full
  <2>4. Feed' = Append(Feed, r)
    BY <2>1, <2>3, AppendIs DEF Entries
  <2> QED
    BY <2>1, <2>4 DEF Abstract!Reply
<1> QED
  BY <1>1, <1>2

\* mpv_wait_event receives the oldest event, reports the overflow once all are
\* received, or takes nothing that was queued.
LEMMA WaitLoopIs ==
  ASSUME IInv, IInv', NEW d \in Deadlines, WaitLoop(d)
  PROVE  Abstract!Receive \/ Abstract!ReportGap \/ UNCHANGED Abstract!vars
<1>1. UNCHANGED <<events, outstanding>>
  BY DEF WaitLoop
<1>2. CASE TakeOverflow
  <2>1. Feed = <<>> /\ Feed' = Feed
    BY <1>1, <1>2, FeedEmpty DEF TakeOverflow, Feed
  <2> QED
    BY <1>1, <1>2, <2>1 DEF TakeOverflow, Abstract!ReportGap
<1>3. CASE TakeEvent
  <2>1. TypeOK /\ TypeOK'
    BY DEF IInv, RepliesFit
  <2>2. Feed' = Tail(Feed) /\ Feed # <<>>
    BY <1>1, <1>3, <2>1, FeedTaken DEF TakeEvent
  <2> QED
    BY <1>1, <1>3, <2>2 DEF TakeEvent, Abstract!Receive
<1>4. CASE TakeOther \/ NothingYet(d)
  <2>1. UNCHANGED <<choked, first_event, num_events>>
    BY <1>4 DEF TakeOther, NothingYet
  <2> QED
    BY <1>1, <2>1 DEF Feed, Abstract!vars
<1> QED
  BY <1>2, <1>3, <1>4 DEF WaitLoop

\* The end of mp_destroy_client discards what nobody has received.
LEMMA DrainIs ==
  ASSUME IInv, Drain
  PROVE  Abstract!Discard \/ UNCHANGED Abstract!vars
<1>1. UNCHANGED <<events, choked, outstanding>>
  BY DEF Drain
<1>2. CASE reserved_events > 0
  BY <1>1, <1>2 DEF Drain, Feed, Abstract!vars
<1>3. CASE ~(reserved_events > 0)
  <2>1. num_events' = 0
    BY <1>3 DEF Drain
  <2>2. Feed' = <<>>
    BY <2>1 DEF Feed
  <2>3. outstanding \subseteq Requests /\ reserved_events = Cardinality(outstanding)
    BY DEF IInv, RepliesFit, TypeOK
  <2>4. outstanding = {}
    BY <1>3, <2>3, RequestsFinite, RoomIs
  <2> QED
    BY <1>1, <2>2, <2>4 DEF Abstract!Discard
<1> QED
  BY <1>2, <1>3

\* Every step is one of EventFeed or leaves its variables alone.
LEMMA NextIs == IInv /\ IInv' /\ [Next]_vars => [Abstract!Next]_(Abstract!vars)
<1> SUFFICES ASSUME IInv, IInv', [Next]_vars
             PROVE  Abstract!Next \/ UNCHANGED Abstract!vars
  OBVIOUS
<1> USE DEF Abstract!Next
<1>1. CASE \E e \in EventIds : SendEvent(e)
  BY <1>1, SendEventIs
<1>2. CASE \E r \in Requests : Request(r) \/ SendReply(r)
  BY <1>2, RequestIs
<1>3. CASE \E d \in Deadlines : WaitEvent(d)
  BY <1>3, WaitLoopIs DEF WaitEvent
<1>4. CASE WaitAgain
  <2>1. deadline \in Deadlines
    BY RoomIs DEF TypeOK
  <2> QED
    BY <1>4, <2>1, WaitLoopIs DEF WaitAgain
<1>5. CASE Drain
  BY <1>5, DrainIs
<1>6. CASE \/ \E e \in EventIds, enable \in BOOLEAN : RequestEvent(e, enable)
           \/ ChangeOther \/ Wakeup \/ WaitWakeup \/ SleepEnds \/ SleepTimesOut
           \/ WaitTimedOut \/ DrainWakeup \/ DrainSleepEnds \/ SpuriousWakeup \/ Destroy
           \/ UNCHANGED vars
  <2>1. UNCHANGED <<events, first_event, num_events, choked, outstanding>>
    BY <1>6 DEF RequestEvent, ChangeOther, Wakeup, WaitWakeup, SleepEnds, SleepTimesOut,
                WaitTimedOut, DrainWakeup, DrainSleepEnds, SpuriousWakeup, Destroy,
                waitWakeupUnchanged, ringVars, vars
  <2> QED
    BY <2>1 DEF Feed, Abstract!vars
<1> QED
  BY <1>1, <1>2, <1>3, <1>4, <1>5, <1>6 DEF Next, ClientStep

\* The ring buffer, with room reserved for replies, implements EventFeed: order,
\* no reply without its room, and no event accepted in a gap.
THEOREM Refinement == Spec => ImplementsEventFeed
<1>1. Init => Abstract!Init
  BY FeedEmpty DEF Init, Abstract!Init
<1> QED
  BY <1>1, Invariant, NextIs, PTL DEF Spec, ImplementsEventFeed, Abstract!Spec
===============================================================================
