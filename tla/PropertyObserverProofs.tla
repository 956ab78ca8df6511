------------------------ MODULE PropertyObserverProofs ------------------------
(***************************************************************************)
(* Proofs about observed properties, for every number of observers and     *)
(* every set of values. The inductive invariant adds to the properties     *)
(* that the list holds each observer once (ListInv), that only observers   *)
(* with a format have updates (UpdateInv), and from where on the next      *)
(* search must look for each observer (SearchInv).                         *)
(***************************************************************************)
EXTENDS PropertyObserver, FiniteSetTheorems, SequenceTheorems, WellFoundedInduction, TLAPS

ListInv ==
  /\ \A m, n \in DOMAIN properties : properties[m] = properties[n] => m = n
  /\ \A p \in Props : status[p] = "observed" <=> p \in Observed
  /\ \A p \in Props : dead[p] => status[p] \notin {"unused", "observed"}

\* While update_prop runs, the core changes nothing. An observer that waits for an
\* update has one on its way.
UpdateInv ==
  /\ InUse \subseteq Formatted
  /\ \A p \in Props : updating[p] => p \in InUse
  /\ \A p \in Props : status[p] = "unused" => p \notin Formatted
  /\ running # NoUpdate => running.value = value

\* An observer the next search skips is up to date, and so is a value that can be
\* returned.
SearchInv ==
  ~broken /\ ~unnotified =>
    \A n \in DOMAIN properties :
      LET p == properties[n] IN
      /\ changed[p] \/ updating[p] => lowest_changed <= n
      /\ p \in Formatted =>
           /\ user_value[p] # value => changed[p] \/ updating[p]
           /\ changed[p] /\ ~need_new_value[p] => new_value[p] = value

IInv ==
  /\ TypeOK
  /\ ListInv /\ UpdatesCounted
  /\ ~broken => UpdateInv
  /\ SearchInv /\ NoSleepOverChange

-------------------------------------------------------------------------------

\* Every set of numbers has a least one.
LEMMA MinIs ==
  ASSUME NEW T \in SUBSET Nat, T # {}
  PROVE  Min(T) \in T /\ \A m \in T : Min(T) <= m
<1>1. PICK n \in T : \A m \in T : ~(<<m, n>> \in OpToRel(<, Nat))
  BY NatLessThanWellFounded, WFMin
<1>2. \A m \in T : ~(m < n)
  BY <1>1 DEF OpToRel
<1>3. \E i \in T : \A m \in T : i <= m
  BY <1>2
<1> QED
  BY <1>3 DEF Min

\* Removing an entry leaves the others, in their order.
LEMMA RemoveAtIs ==
  ASSUME NEW S, NEW s \in Seq(S), NEW n \in 1..Len(s)
  PROVE  /\ RemoveAt(s, n) \in Seq(S) /\ Len(RemoveAt(s, n)) = Len(s) - 1
         /\ \A i \in 1..Len(s) - 1 : RemoveAt(s, n)[i] = IF i < n THEN s[i] ELSE s[i + 1]
<1> DEFINE a == SubSeq(s, 1, n - 1)
           b == SubSeq(s, n + 1, Len(s))
<1>1. Len(s) \in Nat /\ \A i \in 1..Len(s) : s[i] \in S
  OBVIOUS
<1>2. a \in Seq(S) /\ Len(a) = n - 1 /\ \A i \in 1..n - 1 : a[i] = s[i]
  BY <1>1, SubSeqProperties
<1>3. b \in Seq(S) /\ Len(b) = Len(s) - n /\ \A i \in 1..Len(s) - n : b[i] = s[n + i]
  BY <1>1, SubSeqProperties
<1>4. RemoveAt(s, n) = a \o b
  BY DEF RemoveAt
<1> HIDE DEF a, b
<1>5. /\ a \o b \in Seq(S) /\ Len(a \o b) = Len(s) - 1
      /\ \A i \in 1..Len(s) - 1 :
           (a \o b)[i] = IF i <= n - 1 THEN a[i] ELSE b[i - (n - 1)]
  BY <1>1, <1>2, <1>3, ConcatProperties
<1>6. ASSUME NEW i \in 1..Len(s) - 1
      PROVE  (a \o b)[i] = IF i < n THEN s[i] ELSE s[i + 1]
  <2>1. CASE i < n
    <3>1. i \in 1..n - 1 /\ i <= n - 1
      BY <1>1, <2>1
    <3> QED
      BY <3>1, <2>1, <1>2, <1>5
  <2>2. CASE ~(i < n)
    <3>1. i - (n - 1) \in 1..Len(s) - n /\ ~(i <= n - 1) /\ n + (i - (n - 1)) = i + 1
      BY <1>1, <2>2
    <3> QED
      BY <3>1, <2>2, <1>3, <1>5
  <2> QED
    BY <2>1, <2>2
<1> QED
  BY <1>4, <1>5, <1>6

\* How far the search goes: to the first observer whose event it can return, or to
\* the end.
LEMMA VisitedIs ==
  ASSUME TypeOK
  PROVE  /\ properties \in Seq(Props) /\ Len(properties) \in Nat
         /\ DOMAIN properties = 1..Len(properties)
         /\ LastVisited \in 0..Len(properties) /\ Visited \subseteq DOMAIN properties
         /\ lowest_changed \in 1..Len(properties) + 1
         /\ Deliverables = {} => LastVisited = Len(properties)
         /\ Deliverables # {} =>
              LastVisited \in Visited /\ Deliverable(properties[LastVisited])
         /\ \A n \in Visited : Deliverable(properties[n]) => n = LastVisited
<1>1. /\ properties \in Seq(Props) /\ Len(properties) \in Nat
      /\ DOMAIN properties = 1..Len(properties) /\ lowest_changed \in 1..Len(properties) + 1
  BY DEF TypeOK
<1>2. \A n : n \in Deliverables
             <=> n \in lowest_changed..Len(properties) /\ Deliverable(properties[n])
  BY DEF Deliverables
<1>3. CASE Deliverables = {}
  <2>1. LastVisited = Len(properties)
    BY <1>3 DEF LastVisited
  <2>2. Visited = lowest_changed..Len(properties)
    BY <2>1 DEF Visited
  <2>3. LastVisited \in 0..Len(properties) /\ Visited \subseteq 1..Len(properties)
    BY <1>1, <2>1, <2>2
  <2>4. \A n \in Visited : ~Deliverable(properties[n])
    BY <1>2, <1>3, <2>2
  <2> QED
    BY <1>1, <1>3, <2>1, <2>3, <2>4
<1>4. CASE Deliverables # {}
  <2>1. LastVisited = Min(Deliverables) /\ Deliverables \subseteq Nat
    BY <1>1, <1>2, <1>4 DEF LastVisited
  <2>2. LastVisited \in Deliverables /\ \A n \in Deliverables : LastVisited <= n
    BY <2>1, <1>4, MinIs
  <2>3. LastVisited \in lowest_changed..Len(properties) /\ Deliverable(properties[LastVisited])
    BY <2>2, <1>2
  <2>4. \A n : n \in Visited <=> n \in lowest_changed..LastVisited
    BY DEF Visited
  <2>5. \A n \in Visited : Deliverable(properties[n]) => n = LastVisited
    BY <2>2, <2>3, <2>4, <1>1, <1>2
  <2>6. LastVisited \in 0..Len(properties) /\ Visited \subseteq 1..Len(properties)
    BY <1>1, <2>3, <2>4
  <2>7. LastVisited \in Visited
    BY <1>1, <2>3, <2>4
  <2> QED
    BY <1>1, <1>4, <2>3, <2>5, <2>6, <2>7
<1> QED
  BY <1>3, <1>4

\* What the next search starts with.
LEMMA LowestIs ==
  ASSUME TypeOK
  PROVE  /\ LowestChanged \in 1..Len(properties) + 1
         /\ \A n \in Visited :
              changed[properties[n]] \/ updating[properties[n]] => LowestChanged <= n
<1> DEFINE T == {i \in Visited : changed[properties[i]] \/ updating[properties[i]]}
                  \cup {Len(properties) + 1}
<1>1. T \in SUBSET (1..Len(properties) + 1) /\ T # {} /\ Len(properties) \in Nat
  BY VisitedIs
<1>2. LowestChanged = Min(T)
  BY DEF LowestChanged
<1>3. Min(T) \in T /\ \A m \in T : Min(T) <= m
  BY <1>1, MinIs
<1> QED
  BY <1>1, <1>2, <1>3

\* The observers that need an update, among those visited up to place n.
Wanted(n) == {properties[i] : i \in {j \in Visited : j <= n /\ Fetchable(properties[j])}}

\* The search queues updates of the observers it visits that need one. (Induction:
\* a least place up to which FetchUpTo could not be computed, or at which it would
\* not be as said, does not exist.)
LEMMA FetchUpToIs ==
  ASSUME TypeOK
  PROVE  \A n \in 0..Len(properties) :
           /\ FetchUpTo[n] \in Seq(Props)
           /\ {FetchUpTo[n][i] : i \in DOMAIN FetchUpTo[n]} = Wanted(n)
<1> DEFINE L == Len(properties)
           Next1(f, n) == IF n \in Visited /\ Fetchable(properties[n])
                          THEN Append(f, properties[n]) ELSE f
           Upto(k) == {f \in [0..k -> Seq(Props)] :
                         f[0] = <<>> /\ \A n \in 1..k : f[n] = Next1(f[n - 1], n)}
<1>1. /\ L \in Nat /\ \A n \in 1..L : properties[n] \in Props
      /\ Visited \subseteq 1..L
  BY VisitedIs
<1>2. \A n \in 1..L : \A f \in Seq(Props) : Next1(f, n) \in Seq(Props)
  BY <1>1
<1> HIDE DEF L, Next1
<1>3. \A k : Upto(k) = {} <=>
        ~\E f \in [0..k -> Seq(Props)] :
           f[0] = <<>> /\ \A n \in 1..k : f[n] = Next1(f[n - 1], n)
  OBVIOUS
<1> HIDE DEF Upto
<1>4. Upto(L) # {}
  <2> DEFINE Bad == {k \in 0..L : Upto(k) = {}}
  <2>1. SUFFICES ASSUME Bad # {} PROVE FALSE
    <3>1. L \in 0..L
      BY <1>1
    <3> QED
      BY <3>1
  <2>2. PICK k \in Bad : \A m \in Bad : k <= m
    <3>1. Bad \in SUBSET Nat
      BY <1>1
    <3> HIDE DEF Bad
    <3> QED
      BY <3>1, <2>1, MinIs
  <2>3. Upto(0) # {}
    <3>1. [i \in 0..0 |-> <<>>] \in [0..0 -> Seq(Props)]
      OBVIOUS
    <3>2. [i \in 0..0 |-> <<>>][0] = <<>> /\ 1..0 = {}
      OBVIOUS
    <3> QED
      BY <3>1, <3>2, <1>3
  <2>4. k \in 1..L /\ Upto(k) = {}
    BY <2>2, <2>3, <1>1
  <2>5. k - 1 \in 0..L /\ k - 1 < k
    BY <2>4, <1>1
  <2>6. Upto(k - 1) # {}
    BY <2>2, <2>4, <2>5, <1>1
  <2>7. PICK f \in [0..k - 1 -> Seq(Props)] :
          f[0] = <<>> /\ \A n \in 1..k - 1 : f[n] = Next1(f[n - 1], n)
    BY <2>6, <1>3
  <2>8. Next1(f[k - 1], k) \in Seq(Props)
    BY <2>4, <2>7, <1>1, <1>2
  <2> DEFINE g == [n \in 0..k |-> IF n < k THEN f[n] ELSE Next1(f[k - 1], k)]
  <2>9. g \in [0..k -> Seq(Props)] /\ g[0] = <<>>
    BY <2>4, <2>7, <2>8, <1>1
  <2>10. ASSUME NEW n \in 1..k
         PROVE  g[n] = Next1(g[n - 1], n)
    <3>1. n - 1 \in 0..k - 1 /\ g[n - 1] = f[n - 1] /\ n \in 0..k
      BY <2>4, <1>1
    <3>2. CASE n < k
      <4>1. n \in 1..k - 1 /\ g[n] = f[n]
        BY <3>1, <3>2, <2>4, <1>1
      <4> HIDE DEF g
      <4> QED
        BY <3>1, <4>1, <2>7
    <3>3. CASE n = k
      <4>1. g[n] = Next1(f[k - 1], k)
        BY <3>1, <3>3, <2>4
      <4> HIDE DEF g
      <4> QED
        BY <3>1, <3>3, <4>1
    <3> QED
      BY <3>2, <3>3, <2>4
  <2> HIDE DEF g
  <2> QED
    BY <2>4, <2>9, <2>10, <1>3
<1>5. PICK f \in [0..L -> Seq(Props)] :
        f[0] = <<>> /\ \A n \in 1..L : f[n] = Next1(f[n - 1], n)
  BY <1>3, <1>4
<1>6. f = [n \in 0..L |-> IF n = 0 THEN <<>> ELSE Next1(f[n - 1], n)]
  BY <1>5, <1>1
<1>7. FetchUpTo = [n \in 0..L |-> IF n = 0 THEN <<>> ELSE Next1(FetchUpTo[n - 1], n)]
  BY <1>6 DEF FetchUpTo, L, Next1
<1>8. FetchUpTo[0] = <<>> /\ \A n \in 1..L : FetchUpTo[n] = Next1(FetchUpTo[n - 1], n)
  BY <1>7, <1>1
<1> DEFINE Elements(t) == {t[i] : i \in DOMAIN t}
           P(n) == FetchUpTo[n] \in Seq(Props) /\ Elements(FetchUpTo[n]) = Wanted(n)
           Bad == {n \in 0..L : ~P(n)}
<1>9. P(0)
  <2>1. Wanted(0) = {} /\ Elements(<<>>) = {}
    BY <1>1 DEF Wanted
  <2> QED
    BY <2>1, <1>8
<1>10. ASSUME NEW t \in Seq(Props), NEW x \in Props
       PROVE  Append(t, x) \in Seq(Props) /\ Elements(Append(t, x)) = Elements(t) \cup {x}
  <2>1. /\ Append(t, x) \in Seq(Props) /\ Len(t) \in Nat
        /\ DOMAIN Append(t, x) = 1..Len(t) + 1 /\ DOMAIN t = 1..Len(t)
        /\ \A i \in 1..Len(t) : Append(t, x)[i] = t[i]
        /\ Append(t, x)[Len(t) + 1] = x
    OBVIOUS
  <2>2. DOMAIN Append(t, x) = DOMAIN t \cup {Len(t) + 1}
    BY <2>1
  <2>3. \A y : y \in Elements(Append(t, x)) <=> y \in Elements(t) \/ y = x
    BY <2>1, <2>2
  <2> QED
    BY <2>1, <2>3
<1>11. ASSUME NEW n \in 1..L, P(n - 1) PROVE P(n)
  <2> DEFINE places(m) == {j \in Visited : j <= m /\ Fetchable(properties[j])}
  <2>0. \A j \in Visited : j <= n <=> j <= n - 1 \/ j = n
    BY <1>1
  <2> HIDE DEF Elements
  <2>1. CASE n \in Visited /\ Fetchable(properties[n])
    <3>1. FetchUpTo[n] = Append(FetchUpTo[n - 1], properties[n])
      BY <1>8, <2>1 DEF Next1
    <3>2. places(n) = places(n - 1) \cup {n}
      BY <2>0, <2>1
    <3>3. Wanted(n) = Wanted(n - 1) \cup {properties[n]}
      BY <3>2 DEF Wanted
    <3> QED
      BY <3>1, <3>3, <1>1, <1>10, <1>11
  <2>2. CASE ~(n \in Visited /\ Fetchable(properties[n]))
    <3>1. FetchUpTo[n] = FetchUpTo[n - 1]
      BY <1>8, <2>2 DEF Next1
    <3>2. places(n) = places(n - 1)
      BY <2>0, <2>2
    <3>3. Wanted(n) = Wanted(n - 1)
      BY <3>2 DEF Wanted
    <3> QED
      BY <3>1, <3>3, <1>11
  <2> QED
    BY <2>1, <2>2
<1> HIDE DEF P
<1>12. Bad = {}
  <2>1. SUFFICES ASSUME Bad # {} PROVE FALSE
    OBVIOUS
  <2>2. PICK n \in Bad : \A m \in Bad : n <= m
    <3>1. Bad \in SUBSET Nat
      BY <1>1
    <3> HIDE DEF Bad
    <3> QED
      BY <3>1, <2>1, MinIs
  <2>3. n \in 1..L /\ ~P(n)
    BY <2>2, <1>9, <1>1
  <2>4. n - 1 \in 0..L /\ n - 1 < n
    BY <2>3, <1>1
  <2>5. P(n - 1)
    BY <2>2, <2>3, <2>4, <1>1
  <2> QED
    BY <2>3, <2>5, <1>11
<1> QED
  BY <1>12 DEF P, L

\* The observers an update is queued for, and those an event is returned for.
Fetched == {properties[i] : i \in {j \in Visited : Fetchable(properties[j])}}
Returned == IF Deliverables = {} THEN {} ELSE {properties[LastVisited]}

\* gen_property_change_event queues one update for each of them.
LEMMA ToFetchIs ==
  ASSUME TypeOK
  PROVE  /\ ToFetch \in Seq(Props) /\ Len(ToFetch) \in Nat
         /\ {ToFetch[i] : i \in DOMAIN ToFetch} = Fetched
<1>1. Len(properties) \in Nat /\ Visited \subseteq 1..Len(properties)
  BY VisitedIs
<1>2. \A j \in Visited : j <= Len(properties)
  BY <1>1
<1>3. Wanted(Len(properties)) = Fetched
  BY <1>2 DEF Wanted, Fetched
<1>4. Len(properties) \in 0..Len(properties)
  BY <1>1
<1> QED
  BY <1>3, <1>4, FetchUpToIs DEF ToFetch

\* What a search does. An observer is not both fetched and returned.
LEMMA GenEventIs ==
  ASSUME TypeOK, GenEvent
  PROVE  /\ changed' = [p \in Props |-> changed[p] /\ p \notin Fetched \cup Returned]
         /\ need_new_value' = [p \in Props |->
                                 need_new_value[p] /\ p \notin Fetched \cup Returned]
         /\ updating' = [p \in Props |-> updating[p] \/ p \in Fetched]
         /\ properties_updating' = properties_updating + Len(ToFetch)
         /\ queue' = queue \o ToFetch
         /\ lowest_changed' = LowestChanged
         /\ user_value' = [p \in Props |->
                             IF p \in Returned THEN new_value[p] ELSE user_value[p]]
         /\ pc' = IF Returned = {} THEN "waiting" ELSE "idle"
         /\ Fetched \cap Returned = {} /\ Fetched \cup Returned \subseteq Observed
<1>1. \A n \in Visited : Fetchable(properties[n]) => ~Deliverable(properties[n])
  BY DEF Fetchable, Deliverable
<1>2. \A p \in Returned : Deliverable(p)
  BY VisitedIs DEF Returned
<1>3. \A p \in Fetched : ~Deliverable(p)
  BY <1>1 DEF Fetched
<1>4. Fetched \cup Returned \subseteq Observed
  BY VisitedIs DEF Fetched, Returned, Observed
<1> QED
  BY <1>2, <1>3, <1>4, ToFetchIs DEF GenEvent, UpdatesStarted, Returned

\* The memory that updates refer to, as updates are queued, run and end.
LEMMA InUseIs ==
  ASSUME TypeOK
  PROVE  /\ InUse \subseteq Props
         /\ Len(queue) \in Nat
         /\ UNCHANGED <<queue, running>> => InUse' = InUse
         /\ queue' = queue \o ToFetch /\ UNCHANGED running => InUse' = InUse \cup Fetched
         /\ /\ queue # <<>> /\ queue' = Tail(queue) /\ running = NoUpdate
            /\ running' = [prop |-> Head(queue), value |-> value]
            => InUse' = InUse /\ Head(queue) \in InUse /\ running' # NoUpdate
         /\ running # NoUpdate /\ running' = NoUpdate /\ UNCHANGED queue
            => InUse = InUse' \cup {running.prop}
<1>1. /\ queue \in Seq(Props) /\ Len(queue) \in Nat /\ DOMAIN queue = 1..Len(queue)
      /\ running \in Updates \cup {NoUpdate} /\ "none" \notin Props
  BY PropertyObserverAssumption DEF TypeOK
<1>2. \A q \in Seq(Props) : {q[i] : i \in DOMAIN q} \subseteq Props
  OBVIOUS
<1>3. running # NoUpdate => running.prop \in Props
  BY <1>1 DEF Updates
<1>4. InUse \subseteq Props
  BY <1>1, <1>2, <1>3 DEF InUse
<1>5. UNCHANGED <<queue, running>> => InUse' = InUse
  BY DEF InUse
<1>6. ASSUME queue' = queue \o ToFetch, UNCHANGED running
      PROVE  InUse' = InUse \cup Fetched
  <2>1. /\ ToFetch \in Seq(Props) /\ Len(ToFetch) \in Nat /\ DOMAIN ToFetch = 1..Len(ToFetch)
        /\ {ToFetch[i] : i \in DOMAIN ToFetch} = Fetched
    BY ToFetchIs
  <2>2. /\ DOMAIN queue' = 1..Len(queue) + Len(ToFetch)
        /\ \A i \in 1..Len(queue) + Len(ToFetch) :
             queue'[i] = IF i <= Len(queue) THEN queue[i] ELSE ToFetch[i - Len(queue)]
    BY <1>1, <1>6, <2>1, ConcatProperties, LenProperties
  <2>3. \A i \in DOMAIN queue' :
          \/ i \in DOMAIN queue /\ queue'[i] = queue[i]
          \/ i - Len(queue) \in DOMAIN ToFetch /\ queue'[i] = ToFetch[i - Len(queue)]
    BY <1>1, <2>1, <2>2
  <2>4. \A i \in DOMAIN queue : i \in DOMAIN queue' /\ queue'[i] = queue[i]
    BY <1>1, <2>1, <2>2
  <2>5. \A i \in DOMAIN ToFetch :
          Len(queue) + i \in DOMAIN queue' /\ queue'[Len(queue) + i] = ToFetch[i]
    BY <1>1, <2>1, <2>2
  <2>6. {queue'[i] : i \in DOMAIN queue'}
          = {queue[i] : i \in DOMAIN queue} \cup {ToFetch[i] : i \in DOMAIN ToFetch}
    BY <2>3, <2>4, <2>5
  <2> QED
    BY <1>6, <2>1, <2>6 DEF InUse
<1>7. ASSUME queue # <<>>, queue' = Tail(queue), running = NoUpdate,
             running' = [prop |-> Head(queue), value |-> value]
      PROVE  InUse' = InUse /\ Head(queue) \in InUse /\ running' # NoUpdate
  <2>1. /\ Head(queue) = queue[1] /\ 1 \in DOMAIN queue /\ Head(queue) \in Props
        /\ DOMAIN queue' = 1..Len(queue) - 1
        /\ \A i \in 1..Len(queue) - 1 : queue'[i] = queue[i + 1]
    BY <1>1, <1>7, HeadTailProperties, LenProperties
  <2>2. \A i \in DOMAIN queue' : i + 1 \in DOMAIN queue /\ queue'[i] = queue[i + 1]
    BY <1>1, <2>1
  <2>3. \A i \in DOMAIN queue : i = 1 \/ (i - 1 \in DOMAIN queue' /\ queue'[i - 1] = queue[i])
    BY <1>1, <2>1
  <2>4. {queue[i] : i \in DOMAIN queue} = {queue'[i] : i \in DOMAIN queue'} \cup {Head(queue)}
    BY <2>1, <2>2, <2>3
  <2>5. running' # NoUpdate /\ running'.prop = Head(queue)
    BY <1>1, <1>7, <2>1 DEF NoUpdate
  <2> QED
    BY <1>7, <2>4, <2>5 DEF InUse
<1>8. running # NoUpdate /\ running' = NoUpdate /\ UNCHANGED queue
        => InUse = InUse' \cup {running.prop}
  BY DEF InUse
<1> QED
  BY <1>1, <1>4, <1>5, <1>6, <1>7, <1>8

\* The observers in the list, as entries are added and removed; each is there once.
LEMMA ObservedIs ==
  ASSUME TypeOK
  PROVE  /\ Observed \subseteq Props
         /\ UNCHANGED properties => Observed' = Observed
         /\ properties' = <<>> => Observed' = {}
         /\ \A p \in Props : properties' = Append(properties, p)
                               => Observed' = Observed \cup {p}
<1>1. /\ properties \in Seq(Props) /\ Len(properties) \in Nat
      /\ DOMAIN properties = 1..Len(properties)
  BY DEF TypeOK
<1>2. Observed \subseteq Props
  BY <1>1 DEF Observed
<1>3. UNCHANGED properties => Observed' = Observed
  BY DEF Observed
<1>4. properties' = <<>> => Observed' = {}
  BY DEF Observed
<1>5. ASSUME NEW p \in Props, properties' = Append(properties, p)
      PROVE  Observed' = Observed \cup {p}
  <2>1. /\ DOMAIN properties' = DOMAIN properties \cup {Len(properties) + 1}
        /\ \A n \in DOMAIN properties : properties'[n] = properties[n]
        /\ properties'[Len(properties) + 1] = p
    BY <1>1, <1>5
  <2> QED
    BY <2>1 DEF Observed
<1> QED
  BY <1>2, <1>3, <1>4, <1>5

\* mpv_unobserve_property closes the gap it makes in the list.
LEMMA UnobserveIs ==
  ASSUME TypeOK, ListInv, NEW p \in Props, Unobserve(p)
  PROVE  /\ properties' \in Seq(Props) /\ Observed' = Observed \ {p}
         /\ \A m \in DOMAIN properties' : \E i \in DOMAIN properties :
              properties'[m] = properties[i]
         /\ \A m, n \in DOMAIN properties' : properties'[m] = properties'[n] => m = n
<1>1. /\ properties \in Seq(Props) /\ Len(properties) \in Nat
      /\ DOMAIN properties = 1..Len(properties)
  BY DEF TypeOK
<1>2. PICK n \in DOMAIN properties :
        properties[n] = p /\ properties' = RemoveAt(properties, n)
  BY DEF Unobserve
<1>3. /\ properties' \in Seq(Props) /\ DOMAIN properties' = 1..Len(properties) - 1
      /\ \A i \in 1..Len(properties) - 1 :
           properties'[i] = IF i < n THEN properties[i] ELSE properties[i + 1]
  <2>1. /\ properties' \in Seq(Props) /\ Len(properties') = Len(properties) - 1
        /\ \A i \in 1..Len(properties) - 1 :
             properties'[i] = IF i < n THEN properties[i] ELSE properties[i + 1]
    BY <1>1, <1>2, RemoveAtIs
  <2> QED
    BY <2>1, LenProperties
<1> DEFINE old(i) == IF i < n THEN i ELSE i + 1
<1>4. \A i \in DOMAIN properties' :
        old(i) \in DOMAIN properties /\ properties'[i] = properties[old(i)] /\ old(i) # n
  BY <1>1, <1>2, <1>3
<1>5. \A i, j \in DOMAIN properties' : old(i) = old(j) => i = j
  BY <1>1, <1>2, <1>3
<1>6. \A j \in DOMAIN properties : j = n \/ \E i \in DOMAIN properties' : old(i) = j
  <2>1. \A j \in DOMAIN properties :
          /\ j < n => j \in DOMAIN properties' /\ old(j) = j
          /\ j > n => j - 1 \in DOMAIN properties' /\ old(j - 1) = j
    BY <1>1, <1>2, <1>3
  <2>2. \A j \in DOMAIN properties : j < n \/ j > n \/ j = n
    BY <1>1, <1>2
  <2> HIDE DEF old
  <2> QED
    BY <2>1, <2>2
<1> HIDE DEF old
<1>7. \A i, j \in DOMAIN properties : properties[i] = properties[j] => i = j
  BY DEF ListInv
<1>8. \A q : q \in Observed' <=> q \in Observed /\ q # p
  BY <1>2, <1>4, <1>6, <1>7 DEF Observed
<1> QED
  BY <1>3, <1>4, <1>5, <1>7, <1>8

-------------------------------------------------------------------------------

\* A search keeps the types.
LEMMA TypeGen ==
  ASSUME TypeOK, GenEvent, UNCHANGED properties
  PROVE  /\ lowest_changed' \in 1..Len(properties') + 1
         /\ properties_updating' \in Nat
         /\ {changed, need_new_value, updating}' \subseteq [Props -> BOOLEAN]
         /\ user_value' \in [Props -> Values]
         /\ queue' \in Seq(Props)
         /\ pc' \in {"idle", "waiting"}
<1>1. /\ {changed, need_new_value, updating} \subseteq [Props -> BOOLEAN]
      /\ new_value \in [Props -> Values] /\ user_value \in [Props -> Values]
      /\ queue \in Seq(Props) /\ properties_updating \in Nat
  BY DEF TypeOK
<1>2. queue' \in Seq(Props) /\ properties_updating' \in Nat
  <2>1. /\ ToFetch \in Seq(Props) /\ Len(ToFetch) \in Nat
        /\ queue' = queue \o ToFetch
        /\ properties_updating' = properties_updating + Len(ToFetch)
    BY ToFetchIs, GenEventIs
  <2> QED
    BY <1>1, <2>1
<1>3. lowest_changed' \in 1..Len(properties') + 1
  BY LowestIs, GenEventIs
<1>4. {changed, need_new_value, updating}' \subseteq [Props -> BOOLEAN]
  BY <1>1, GenEventIs, ZenonT(60)
<1>5. user_value' \in [Props -> Values] /\ pc' \in {"idle", "waiting"}
  BY <1>1, GenEventIs
<1> QED
  BY <1>2, <1>3, <1>4, <1>5

\* Every step keeps the types. The count of updates never falls below zero because
\* the update that is running is counted.
LEMMA TypeNext ==
  ASSUME TypeOK, UpdatesCounted, ListInv, [Next]_vars
  PROVE  TypeOK'
<1> USE PropertyObserverAssumption DEF TypeOK
<1>1. ASSUME NEW v \in Values, Change(v) PROVE TypeOK'
  BY <1>1 DEF Change, propVars, listVars
<1>2. CASE Notify
  <2>1. {changed, need_new_value}' \subseteq [Props -> BOOLEAN]
    <3>1. \A p \in Props : /\ (changed[p] \/ p \in Observed) \in BOOLEAN
                          /\ need_new_value[p] \in BOOLEAN
      OBVIOUS
    <3>2. \A p \in Props : (IF p \in Observed THEN p \in Formatted
                                              ELSE need_new_value[p]) \in BOOLEAN
      <4> TAKE p \in Props
      <4>1. (p \in Formatted) \in BOOLEAN /\ need_new_value[p] \in BOOLEAN
        BY <3>1
      <4> QED
        BY <4>1, Zenon
    <3> QED
      BY <1>2, <3>1, <3>2, Zenon DEF Notify, MarkChanged
  <2>2. Len(properties) \in Nat /\ lowest_changed' \in 1..Len(properties') + 1
    BY <1>2 DEF Notify, MarkChanged
  <2>3. need_wakeup' \in BOOLEAN
    BY <1>2 DEF Notify
  <2> QED
    BY <1>2, <2>1, <2>2, <2>3 DEF Notify
<1>3. CASE Fetch
  <2>1. queue' \in Seq(Props) /\ Head(queue) \in Props
    BY <1>3 DEF Fetch
  <2>2. running' \in Updates \cup {NoUpdate} /\ broken' \in BOOLEAN
    <3>1. CASE status[Head(queue)] = "freed"
      BY <1>3, <3>1 DEF Fetch
    <3>2. CASE status[Head(queue)] # "freed"
      <4>1. [prop |-> Head(queue), value |-> value] \in Updates
        BY <2>1 DEF Updates
      <4> QED
        BY <1>3, <3>2, <4>1 DEF Fetch
    <3> QED
      BY <3>1, <3>2
  <2>3. UNCHANGED <<coreVars, propVars, listVars, need_wakeup, pc>>
    BY <1>3 DEF Fetch
  <2> QED
    BY <2>1, <2>2, <2>3 DEF coreVars, propVars, listVars
<1>4. CASE Apply
  <2>1. running.prop \in Props /\ running.value \in Values
    BY <1>4 DEF Apply, Updates
  <2>2. Len(queue) \in Nat /\ properties_updating = Len(queue) + 1
    BY <1>4 DEF Apply, UpdatesCounted
  <2>3. CASE status[running.prop] = "freed"
    <3>1. UNCHANGED <<coreVars, propVars, listVars, need_wakeup, queue, pc>>
      BY <1>4, <2>3 DEF Apply, listVars
    <3>2. running' = NoUpdate /\ broken' = TRUE
      BY <1>4, <2>3 DEF Apply
    <3> QED
      BY <3>1, <3>2 DEF coreVars, propVars, listVars
  <2>4. CASE status[running.prop] # "freed"
    <3>1. properties_updating' \in Nat
      BY <1>4, <2>2, <2>4 DEF Apply
    <3>2. {changed, updating}' \subseteq [Props -> BOOLEAN]
      <4>1. (changed[running.prop] \/ running.value # user_value[running.prop]) \in BOOLEAN
        BY <2>1
      <4>2. {changed, updating} \subseteq [Props -> BOOLEAN]
        OBVIOUS
      <4> QED
        <5> DEFINE p == running.prop
                   b == changed[p] \/ running.value # user_value[p]
        <5>1. changed' = [changed EXCEPT ![p] = b] /\ updating' = [updating EXCEPT ![p] = FALSE]
          BY <1>4, <2>4 DEF Apply
        <5>2. b \in BOOLEAN /\ changed \in [Props -> BOOLEAN] /\ updating \in [Props -> BOOLEAN]
          BY <4>1, <4>2
        <5> HIDE DEF b, p, TypeOK
        <5>3. changed' \in [Props -> BOOLEAN]
          BY <5>1, <5>2, Zenon
        <5>4. updating' \in [Props -> BOOLEAN]
          BY <5>1, <5>2, Zenon
        <5> QED
          BY <5>3, <5>4
    <3>3. new_value' \in [Props -> Values]
      BY <1>4, <2>1, <2>4 DEF Apply
    <3>4. status' \in [Props -> Status]
      BY <1>4, <2>1, <2>4 DEF Apply, Status
    <3>5. need_wakeup' = TRUE /\ running' = NoUpdate
      BY <1>4, <2>4 DEF Apply, Updated
    <3>6. UNCHANGED <<coreVars, properties, lowest_changed, queue, pc, Formatted,
                      need_new_value, dead, user_value, broken>>
      BY <1>4, <2>4 DEF Apply
    <3> QED
      BY <3>1, <3>2, <3>3, <3>4, <3>5, <3>6 DEF coreVars
  <2> QED
    BY <2>3, <2>4
<1>5. ASSUME NEW p \in Props, Unobserve(p) PROVE TypeOK'
  <2>1. properties' \in Seq(Props)
    BY <1>5, UnobserveIs
  <2> QED
    BY <1>5, <2>1 DEF Unobserve, coreVars, Status
<1>6. ASSUME NEW p \in Props, NEW format \in BOOLEAN, Observe(p, format) PROVE TypeOK'
  <2>1. properties' \in Seq(Props) /\ 1 \in 1..Len(properties') + 1
    BY <1>6 DEF Observe
  <2> QED
    BY <1>6, <2>1 DEF Observe, coreVars, Status
<1>7. CASE WaitEvent
  <2>1. status' \in [Props -> Status]
    BY <1>7 DEF WaitEvent, Status
  <2> QED
    BY <1>7, <2>1, TypeGen DEF WaitEvent, waitUnchanged, coreVars
<1>8. CASE Woken
  BY <1>8, TypeGen DEF Woken, waitUnchanged, coreVars
<1>9. CASE TimedOut
  BY <1>9 DEF TimedOut, coreVars, propVars, listVars
<1>10. CASE Destroy
  BY <1>10 DEF Destroy, coreVars, propVars, listVars
<1>11. CASE Destroyed
  BY <1>11 DEF Destroyed, coreVars, Status
<1>12. CASE UNCHANGED vars
  BY <1>12 DEF vars, coreVars, propVars, listVars
<1> QED
  BY <1>1, <1>2, <1>3, <1>4, <1>5, <1>6, <1>7, <1>8, <1>9, <1>10, <1>11, <1>12 DEF Next

-------------------------------------------------------------------------------

\* Every step keeps each observer in the list exactly as long as it is observed, and
\* there once.
LEMMA ListNext ==
  ASSUME TypeOK, ListInv, UpdatesCounted, [Next]_vars
  PROVE  ListInv'
<1>0. /\ properties \in Seq(Props) /\ Len(properties) \in Nat
      /\ DOMAIN properties = 1..Len(properties)
      /\ status \in [Props -> Status] /\ dead \in [Props -> BOOLEAN]
  BY DEF TypeOK
<1>1. ASSUME UNCHANGED <<properties, dead>>,
             \A p \in Props : \/ status'[p] = status[p]
                              \/ /\ status[p] \notin {"unused", "observed"}
                                 /\ status'[p] \notin {"unused", "observed"}
      PROVE  ListInv'
  BY <1>1, ObservedIs DEF ListInv
<1>2. UNCHANGED <<properties, dead, status>> => ListInv'
  BY <1>1
<1>3. ASSUME NEW v \in Values, Change(v) PROVE ListInv'
  BY <1>2, <1>3 DEF Change, propVars, listVars
<1>4. CASE Notify
  BY <1>2, <1>4 DEF Notify
<1>5. CASE Fetch
  BY <1>2, <1>5 DEF Fetch, propVars, listVars
<1>6. CASE Apply
  <2>1. CASE status[running.prop] = "freed"
    BY <1>2, <1>6, <2>1 DEF Apply, propVars
  <2>2. CASE status[running.prop] # "freed"
    <3>1. \A p \in Props : status'[p] = status[p]
                             \/ (p = running.prop /\ dead[p] /\ status'[p] = "current")
      BY <1>0, <1>6, <2>2 DEF Apply
    <3>2. UNCHANGED <<properties, dead>>
      BY <1>6, <2>2 DEF Apply
    <3> QED
      BY <1>1, <3>1, <3>2 DEF ListInv
  <2> QED
    BY <2>1, <2>2
<1>7. ASSUME NEW p \in Props, Unobserve(p) PROVE ListInv'
  <2>1. Observed' = Observed \ {p}
    BY <1>7, UnobserveIs
  <2>2. /\ \A q \in Props \ {p} : status'[q] = status[q] /\ dead'[q] = dead[q]
        /\ status'[p] \in {"dead", "current"}
    BY <1>0, <1>7 DEF Unobserve
  <2>3. \A m, n \in DOMAIN properties' : properties'[m] = properties'[n] => m = n
    BY <1>7, UnobserveIs
  <2> QED
    BY <2>1, <2>2, <2>3 DEF ListInv
<1>8. ASSUME NEW p \in Props, NEW format \in BOOLEAN, Observe(p, format) PROVE ListInv'
  <2>1. Observed' = Observed \cup {p} /\ p \notin Observed
    BY <1>8, ObservedIs DEF Observe, ListInv
  <2>2. status' = [status EXCEPT ![p] = "observed"] /\ dead' = dead /\ ~dead[p]
    BY <1>0, <1>8 DEF Observe, ListInv
  <2>3. /\ DOMAIN properties' = 1..Len(properties) + 1
        /\ \A n \in DOMAIN properties : properties'[n] = properties[n]
        /\ properties'[Len(properties) + 1] = p
        /\ \A n \in DOMAIN properties : properties[n] # p
    BY <1>0, <1>8, <2>1 DEF Observe, Observed
  <2>4. \A m, n \in DOMAIN properties' : properties'[m] = properties'[n] => m = n
    BY <1>0, <2>3 DEF ListInv
  <2> QED
    BY <1>0, <2>1, <2>2, <2>4 DEF ListInv
<1>9. CASE WaitEvent
  BY <1>0, <1>1, <1>9 DEF WaitEvent, waitUnchanged
<1>10. CASE Woken
  BY <1>2, <1>10 DEF Woken, waitUnchanged
<1>11. CASE TimedOut
  BY <1>2, <1>11 DEF TimedOut, propVars, listVars
<1>12. CASE Destroy
  BY <1>2, <1>12 DEF Destroy, propVars, listVars
<1>13. CASE Destroyed
  <2>1. properties' = <<>> /\ Observed' = {} /\ dead' = dead
    BY <1>13, ObservedIs DEF Destroyed
  <2>2. \A p \in Props : status'[p] = IF status[p] = "unused" THEN "unused" ELSE "freed"
    BY <1>13 DEF Destroyed
  <2>3. DOMAIN properties' = {}
    BY <2>1
  <2> QED
    BY <2>1, <2>2, <2>3 DEF ListInv
<1>14. CASE UNCHANGED vars
  BY <1>2, <1>14 DEF vars, propVars, listVars
<1> QED
  BY <1>3, <1>4, <1>5, <1>6, <1>7, <1>8, <1>9, <1>10, <1>11, <1>12, <1>13, <1>14 DEF Next

\* Every step keeps the count of the updates that are queued or run.
LEMMA CountNext ==
  ASSUME TypeOK, UpdatesCounted, [Next]_vars
  PROVE  UpdatesCounted'
<1>0. /\ queue \in Seq(Props) /\ Len(queue) \in Nat /\ broken \in BOOLEAN
      /\ properties_updating \in Nat
  BY DEF TypeOK
<1>1. ASSUME UNCHANGED <<properties_updating, queue, running, broken>>,
             pc' = "destroyed" => pc = "destroyed"
      PROVE  UpdatesCounted'
  BY <1>1, InUseIs DEF UpdatesCounted
<1>2. ASSUME GenEvent, UNCHANGED <<running, broken>>
      PROVE  UpdatesCounted'
  <2>1. /\ queue' = queue \o ToFetch /\ pc' # "destroyed"
        /\ properties_updating' = properties_updating + Len(ToFetch)
    BY <1>2, GenEventIs
  <2>2. ToFetch \in Seq(Props) /\ Len(ToFetch) \in Nat
    BY ToFetchIs
  <2>3. Len(queue') = Len(queue) + Len(ToFetch)
    BY <1>0, <2>1, <2>2
  <2> QED
    <3> DEFINE r == IF running = NoUpdate THEN 0 ELSE 1
    <3>1. r \in Nat /\ r' = r
      BY <1>2
    <3>2. ~broken => properties_updating = Len(queue) + r
      BY DEF UpdatesCounted
    <3>3. UpdatesCounted' <=> (~broken' => /\ properties_updating' = Len(queue') + r'
                                           /\ pc' = "destroyed" => InUse' = {})
      BY DEF UpdatesCounted
    <3> HIDE DEF r
    <3>4. ~broken => properties_updating' = Len(queue') + r'
      BY <1>0, <2>1, <2>2, <2>3, <3>1, <3>2
    <3> QED
      BY <1>2, <2>1, <3>3, <3>4
<1>3. ASSUME NEW v \in Values, Change(v) PROVE UpdatesCounted'
  BY <1>1, <1>3 DEF Change, listVars
<1>4. CASE Notify
  BY <1>1, <1>4 DEF Notify
<1>5. CASE Fetch
  <2>1. CASE status[Head(queue)] = "freed"
    BY <1>5, <2>1 DEF Fetch, UpdatesCounted
  <2>2. CASE status[Head(queue)] # "freed"
    <3>1. /\ queue # <<>> /\ queue' = Tail(queue) /\ running = NoUpdate
          /\ running' = [prop |-> Head(queue), value |-> value]
          /\ UNCHANGED <<properties_updating, pc, broken>>
      BY <1>5, <2>2 DEF Fetch, CoreFree, listVars
    <3>2. Len(queue') = Len(queue) - 1 /\ running' # NoUpdate /\ InUse' = InUse
      BY <1>0, <3>1, InUseIs
    <3> QED
      BY <1>0, <3>1, <3>2 DEF UpdatesCounted
  <2> QED
    BY <2>1, <2>2
<1>6. CASE Apply
  <2>1. CASE status[running.prop] = "freed"
    BY <1>6, <2>1 DEF Apply, UpdatesCounted
  <2>2. CASE status[running.prop] # "freed"
    <3>1. /\ properties_updating' = properties_updating - 1
          /\ running # NoUpdate /\ running' = NoUpdate
          /\ UNCHANGED <<queue, pc, broken>>
      BY <1>6, <2>2 DEF Apply
    <3>2. InUse' \subseteq InUse
      BY <3>1, InUseIs
    <3> QED
      BY <1>0, <3>1, <3>2 DEF UpdatesCounted
  <2> QED
    BY <2>1, <2>2
<1>7. ASSUME NEW p \in Props, Unobserve(p) PROVE UpdatesCounted'
  BY <1>1, <1>7 DEF Unobserve
<1>8. ASSUME NEW p \in Props, NEW format \in BOOLEAN, Observe(p, format)
      PROVE  UpdatesCounted'
  BY <1>1, <1>8 DEF Observe
<1>9. CASE WaitEvent
  BY <1>2, <1>9 DEF WaitEvent, waitUnchanged
<1>10. CASE Woken
  BY <1>2, <1>10 DEF Woken, waitUnchanged
<1>11. CASE TimedOut
  BY <1>1, <1>11 DEF TimedOut, listVars
<1>12. CASE Destroy
  BY <1>1, <1>12 DEF Destroy, listVars
<1>13. CASE Destroyed
  <2>1. properties_updating = 0 /\ UNCHANGED <<properties_updating, queue, running, broken>>
    BY <1>13 DEF Destroyed
  <2>2. ~broken => Len(queue) = 0 /\ running = NoUpdate
    BY <1>0, <2>1 DEF UpdatesCounted
  <2>3. ~broken => queue = <<>>
    BY <1>0, <2>2
  <2>4. ~broken => InUse = {}
    BY <2>2, <2>3 DEF InUse
  <2> QED
    BY <2>1, <2>4, InUseIs DEF UpdatesCounted
<1>14. CASE UNCHANGED vars
  BY <1>1, <1>14 DEF vars, listVars
<1> QED
  BY <1>3, <1>4, <1>5, <1>6, <1>7, <1>8, <1>9, <1>10, <1>11, <1>12, <1>13, <1>14 DEF Next

-------------------------------------------------------------------------------

\* Every step keeps what is known of updates: each is of an observer with a format,
\* and one that has its value has the current one.
LEMMA UpdateNext ==
  ASSUME TypeOK, ~broken => UpdateInv, ~broken', [Next]_vars
  PROVE  UpdateInv'
<1>0. /\ status \in [Props -> Status] /\ Formatted \subseteq Props
      /\ updating \in [Props -> BOOLEAN] /\ ~broken
  <2>1. Next => ~broken
    BY DEF Next, Change, Notify, Fetch, Apply, CoreFree, Unobserve, Observe, ClientFree,
           WaitEvent, Woken, TimedOut, Destroy, Destroyed
  <2>2. UNCHANGED vars => ~broken
    BY DEF vars
  <2> QED
    BY <2>1, <2>2 DEF TypeOK
<1>1. UpdateInv
  BY <1>0
<1>2. ASSUME UNCHANGED <<updating, queue, running, value, Formatted>>,
             \A p \in Props : status'[p] = "unused" => status[p] = "unused"
      PROVE  UpdateInv'
  BY <1>1, <1>2, InUseIs DEF UpdateInv
<1>3. ASSUME GenEvent, UNCHANGED <<running, value, Formatted>>,
             \A p \in Props : status'[p] = "unused" => status[p] = "unused"
      PROVE  UpdateInv'
  <2>1. InUse' = InUse \cup Fetched
    BY <1>3, InUseIs, GenEventIs
  <2>2. updating' = [p \in Props |-> updating[p] \/ p \in Fetched]
    BY <1>3, GenEventIs
  <2>3. Fetched \subseteq Formatted
    BY DEF Fetched, Fetchable
  <2> QED
    BY <1>1, <1>3, <2>1, <2>2, <2>3 DEF UpdateInv
<1>4. ASSUME NEW v \in Values, Change(v) PROVE UpdateInv'
  <2>1. /\ UNCHANGED <<updating, queue, running, Formatted, status>>
        /\ running = NoUpdate
    BY <1>4 DEF Change, CoreFree, propVars
  <2> QED
    BY <1>1, <2>1, InUseIs DEF UpdateInv
<1>5. CASE Notify
  BY <1>2, <1>5 DEF Notify
<1>6. CASE Fetch
  <2>1. /\ queue # <<>> /\ queue' = Tail(queue) /\ running = NoUpdate
        /\ running' = [prop |-> Head(queue), value |-> value]
        /\ UNCHANGED <<updating, value, Formatted, status>>
    BY <1>6 DEF Fetch, CoreFree, coreVars, propVars
  <2>2. InUse' = InUse /\ running'.value = value
    BY <2>1, InUseIs
  <2> QED
    BY <1>1, <2>1, <2>2 DEF UpdateInv
<1>7. CASE Apply
  <2>1. /\ running # NoUpdate /\ running' = NoUpdate
        /\ updating' = [updating EXCEPT ![running.prop] = FALSE]
        /\ UNCHANGED <<queue, value, Formatted>>
        /\ status' = [status EXCEPT ![running.prop] = IF dead[running.prop] THEN "current"
                                                                            ELSE @]
    BY <1>7 DEF Apply, coreVars
  <2>2. InUse = InUse' \cup {running.prop}
    BY <2>1, InUseIs
  <2>3. \A p \in Props : /\ status'[p] = "unused" => status[p] = "unused"
                         /\ updating'[p] => updating[p] /\ p # running.prop
    BY <1>0, <2>1
  <2> QED
    BY <1>1, <2>1, <2>2, <2>3 DEF UpdateInv
<1>8. ASSUME NEW p \in Props, Unobserve(p) PROVE UpdateInv'
  <2>1. /\ UNCHANGED <<updating, queue, running, value, Formatted>>
        /\ status' = [status EXCEPT ![p] = IF updating[p] THEN "dead" ELSE "current"]
    BY <1>8 DEF Unobserve, coreVars
  <2> QED
    BY <1>0, <1>2, <2>1
<1>9. ASSUME NEW p \in Props, NEW format \in BOOLEAN, Observe(p, format)
      PROVE  UpdateInv'
  <2>1. /\ UNCHANGED <<updating, queue, running, value>>
        /\ status' = [status EXCEPT ![p] = "observed"]
        /\ Formatted' = IF format THEN Formatted \cup {p} ELSE Formatted
    BY <1>9 DEF Observe, coreVars
  <2>2. InUse' = InUse
    BY <2>1, InUseIs
  <2>3. \A q \in Props : status'[q] = "unused" => q # p /\ status[q] = "unused"
    BY <1>0, <2>1
  <2>4. Formatted \subseteq Formatted' /\ Formatted' \subseteq Formatted \cup {p}
    BY <2>1
  <2> QED
    BY <1>1, <2>1, <2>2, <2>3, <2>4 DEF UpdateInv
<1>10. CASE WaitEvent
  BY <1>0, <1>3, <1>10 DEF WaitEvent, waitUnchanged, coreVars
<1>11. CASE Woken
  BY <1>3, <1>11 DEF Woken, waitUnchanged, coreVars
<1>12. CASE TimedOut
  BY <1>2, <1>12 DEF TimedOut, coreVars, propVars
<1>13. CASE Destroy
  BY <1>2, <1>13 DEF Destroy, coreVars, propVars
<1>14. CASE Destroyed
  <2>1. /\ UNCHANGED <<updating, queue, running, value, Formatted>>
        /\ status' = [p \in Props |-> IF status[p] = "unused" THEN "unused" ELSE "freed"]
    BY <1>14 DEF Destroyed, coreVars
  <2> QED
    BY <1>0, <1>2, <2>1
<1>15. CASE UNCHANGED vars
  BY <1>2, <1>15 DEF vars, coreVars, propVars
<1> QED
  BY <1>4, <1>5, <1>6, <1>7, <1>8, <1>9, <1>10, <1>11, <1>12, <1>13, <1>14, <1>15 DEF Next

\* What the search that just ended leaves out for the next one is up to date: it was
\* not visited, or had nothing to come.
LEMMA SearchGen ==
  ASSUME TypeOK, ListInv, SearchInv, GenEvent,
         UNCHANGED <<properties, value, Formatted, new_value, unnotified, broken>>
  PROVE  SearchInv' /\ (pc' = "waiting" /\ ~broken /\ ~unnotified
                          => \A p \in Observed : ~changed'[p])
<1> SUFFICES ASSUME ~broken, ~unnotified, NEW n \in DOMAIN properties
             PROVE  LET q == properties[n] IN
                    /\ changed'[q] \/ updating'[q] => lowest_changed' <= n
                    /\ q \in Formatted =>
                         /\ user_value'[q] # value => changed'[q] \/ updating'[q]
                         /\ changed'[q] /\ ~need_new_value'[q] => new_value[q] = value
                    /\ pc' = "waiting" => ~changed'[q]
  <2>1. \A p \in Observed : \E n \in DOMAIN properties : properties[n] = p
    BY DEF Observed
  <2> QED
    BY <2>1 DEF SearchInv
<1> DEFINE q == properties[n]
<1>0. /\ q \in Props /\ n \in Nat /\ Len(properties) \in Nat /\ n \in 1..Len(properties)
      /\ lowest_changed \in Nat
  BY DEF TypeOK
<1>1. /\ changed'[q] = (changed[q] /\ q \notin Fetched \cup Returned)
      /\ need_new_value'[q] = (need_new_value[q] /\ q \notin Fetched \cup Returned)
      /\ updating'[q] = (updating[q] \/ q \in Fetched)
      /\ user_value'[q] = IF q \in Returned THEN new_value[q] ELSE user_value[q]
      /\ lowest_changed' = LowestChanged
      /\ pc' = IF Returned = {} THEN "waiting" ELSE "idle"
  BY <1>0, GenEventIs
<1>2. /\ changed[q] \/ updating[q] => lowest_changed <= n
      /\ q \in Formatted =>
           /\ user_value[q] # value => changed[q] \/ updating[q]
           /\ changed[q] /\ ~need_new_value[q] => new_value[q] = value
  BY DEF SearchInv
<1>3. q \in Fetched <=> n \in Visited /\ Fetchable(q)
  BY VisitedIs DEF ListInv, Fetched
<1>4. q \in Returned <=> Deliverables # {} /\ n = LastVisited
  BY VisitedIs DEF ListInv, Returned
<1>5. q \in Returned => n \in Visited /\ Deliverable(q)
  BY <1>4, VisitedIs
<1>6. n \in Visited <=> lowest_changed <= n /\ n <= LastVisited
  BY <1>0, VisitedIs DEF Visited
<1>7. changed[q] \/ updating[q] => LowestChanged <= n
  <2>1. CASE n \in Visited
    BY <2>1, LowestIs
  <2>2. ASSUME n \notin Visited, changed[q] \/ updating[q]
        PROVE  LowestChanged <= n
    <3>1. LastVisited \in Nat /\ LastVisited < n
      BY <1>0, <1>2, <1>6, <2>2, VisitedIs
    <3>2. Deliverables # {}
      <4>1. Deliverables = {} => LastVisited = Len(properties)
        BY VisitedIs
      <4>2. n <= Len(properties)
        BY <1>0
      <4> QED
        BY <1>0, <3>1, <4>1, <4>2
    <3>3. LastVisited \in Visited /\ changed[properties[LastVisited]]
      BY <3>2, VisitedIs DEF Deliverable
    <3>4. LowestChanged \in Nat /\ LowestChanged <= LastVisited
      BY <1>0, <3>3, LowestIs
    <3> QED
      BY <1>0, <3>1, <3>4
  <2> QED
    BY <2>1, <2>2
<1>8. changed'[q] \/ updating'[q] => lowest_changed' <= n
  BY <1>1, <1>3, <1>7 DEF Fetchable
<1>9. ASSUME q \in Formatted
      PROVE  /\ user_value'[q] # value => changed'[q] \/ updating'[q]
             /\ changed'[q] /\ ~need_new_value'[q] => new_value[q] = value
  BY <1>1, <1>2, <1>5, <1>9 DEF Deliverable
<1>10. ASSUME pc' = "waiting" PROVE ~changed'[q]
  <2>1. Deliverables = {} /\ LastVisited = Len(properties)
    BY <1>1, <1>10, VisitedIs DEF Returned
  <2>2. SUFFICES ASSUME changed[q] PROVE q \in Fetched
    BY <1>1
  <2>3. n \in Visited
    BY <1>0, <1>2, <1>6, <2>1, <2>2
  <2>4. ~Deliverable(q)
    BY <1>0, <1>2, <2>1, <2>2 DEF Deliverables
  <2> QED
    BY <1>3, <2>2, <2>3, <2>4 DEF Deliverable, Fetchable
<1> QED
  BY <1>8, <1>9, <1>10

\* Every step keeps observers that the next search skips up to date, and values that
\* can be returned.
LEMMA SearchNext ==
  ASSUME TypeOK, ListInv, UpdatesCounted, ~broken => UpdateInv, SearchInv, [Next]_vars
  PROVE  SearchInv'
<1>0. /\ properties \in Seq(Props) /\ Len(properties) \in Nat
      /\ DOMAIN properties = 1..Len(properties)
      /\ \A n \in DOMAIN properties : properties[n] \in Props /\ properties[n] \in Observed
      /\ {changed, need_new_value, updating} \subseteq [Props -> BOOLEAN]
      /\ new_value \in [Props -> Values]
  BY DEF TypeOK, Observed
<1>1. UNCHANGED <<broken, unnotified, properties, lowest_changed, changed, updating,
                  Formatted, user_value, value, need_new_value, new_value>>
        => SearchInv'
  BY DEF SearchInv
<1>2. ASSUME NEW v \in Values, Change(v) PROVE SearchInv'
  BY <1>2 DEF Change, SearchInv
<1>3. CASE Notify
  <2>1. /\ UNCHANGED <<properties, Formatted, updating, user_value, new_value, value>>
        /\ changed' = [p \in Props |-> changed[p] \/ p \in Observed]
        /\ need_new_value' = [p \in Props |-> IF p \in Observed THEN p \in Formatted
                                                                ELSE need_new_value[p]]
        /\ lowest_changed' = IF properties = <<>> THEN lowest_changed ELSE 1
    BY <1>3 DEF Notify, MarkChanged
  <2>2. ASSUME NEW n \in DOMAIN properties
        PROVE  /\ changed'[properties[n]] /\ lowest_changed' <= n
               /\ properties[n] \in Formatted => need_new_value'[properties[n]]
    <3>1. properties[n] \in Props /\ properties[n] \in Observed
      BY <1>0
    <3>2. changed'[properties[n]]
      BY <2>1, <3>1
    <3>3. need_new_value'[properties[n]] = (properties[n] \in Formatted)
      BY <2>1, <3>1
    <3>4. properties # <<>> /\ n \in Nat /\ 1 <= n
      BY <1>0
    <3>5. lowest_changed' <= n
      BY <2>1, <3>4
    <3> QED
      BY <3>2, <3>3, <3>5
  <2> QED
    BY <2>1, <2>2 DEF SearchInv
<1>4. CASE Fetch
  <2>1. UNCHANGED <<unnotified, properties, lowest_changed, changed, updating,
                    Formatted, user_value, value, need_new_value, new_value>>
    BY <1>4 DEF Fetch, coreVars, propVars, listVars
  <2>2. ~broken
    BY <1>4 DEF Fetch, CoreFree
  <2> QED
    BY <2>1, <2>2 DEF SearchInv
<1>5. CASE Apply
  <2> DEFINE p == running.prop
  <2>1. SUFFICES ASSUME ~broken', ~unnotified PROVE SearchInv'
    BY <1>5 DEF SearchInv, Apply, coreVars
  <2>2. /\ ~broken /\ running # NoUpdate
        /\ updating' = [updating EXCEPT ![p] = FALSE]
        /\ new_value' = [new_value EXCEPT ![p] = running.value]
        /\ changed' = [changed EXCEPT ![p] = @ \/ running.value # user_value[p]]
        /\ UNCHANGED <<properties, lowest_changed, Formatted, need_new_value, user_value,
                       value>>
    BY <1>5, <2>1 DEF Apply, coreVars
  <2>3. running.value = value /\ p \in InUse /\ p \in Formatted
    BY <2>2 DEF UpdateInv, InUse
  <2>4. ASSUME NEW n \in DOMAIN properties, properties[n] # p
        PROVE  LET q == properties[n] IN
               /\ changed'[q] = changed[q] /\ updating'[q] = updating[q]
               /\ new_value'[q] = new_value[q]
    BY <1>0, <2>2, <2>4
  <2>5. ASSUME NEW n \in DOMAIN properties, properties[n] = p
        PROVE  /\ ~updating'[p] /\ new_value'[p] = value
               /\ changed'[p] <=> changed[p] \/ user_value[p] # value
    <3>1. p \in Props
      BY <1>0, <2>5
    <3> QED
      BY <1>0, <2>2, <2>3, <3>1
  <2>6. ASSUME NEW n \in DOMAIN properties
        PROVE  LET q == properties[n] IN
               /\ changed'[q] \/ updating'[q] => lowest_changed <= n
               /\ q \in Formatted =>
                    /\ user_value[q] # value => changed'[q] \/ updating'[q]
                    /\ changed'[q] /\ ~need_new_value[q] => new_value'[q] = value
    <3>1. LET q == properties[n] IN
          /\ changed[q] \/ updating[q] => lowest_changed <= n
          /\ q \in Formatted =>
               /\ user_value[q] # value => changed[q] \/ updating[q]
               /\ changed[q] /\ ~need_new_value[q] => new_value[q] = value
      BY <2>1, <2>2 DEF SearchInv
    <3>2. CASE properties[n] = p
      BY <2>3, <2>5, <3>1, <3>2
    <3>3. CASE properties[n] # p
      BY <2>4, <3>1, <3>3
    <3> QED
      BY <3>2, <3>3
  <2> QED
    BY <2>2, <2>6 DEF SearchInv
<1>6. ASSUME NEW p \in Props, Unobserve(p) PROVE SearchInv'
  <2>1. \A m \in DOMAIN properties' : \E n \in DOMAIN properties :
          properties'[m] = properties[n]
    BY <1>6, UnobserveIs
  <2>2. \A m \in DOMAIN properties' : 1 <= m
    <3>1. properties' \in Seq(Props)
      BY <1>6, UnobserveIs
    <3> QED
      BY <3>1
  <2>3. /\ UNCHANGED <<broken, unnotified, changed, updating, Formatted, user_value,
                       value, need_new_value, new_value>>
        /\ lowest_changed' = 1
    BY <1>6 DEF Unobserve, coreVars
  <2> QED
    BY <2>1, <2>2, <2>3 DEF SearchInv
<1>7. ASSUME NEW p \in Props, NEW format \in BOOLEAN, Observe(p, format)
      PROVE  SearchInv'
  <2>1. /\ UNCHANGED <<broken, unnotified, updating, user_value, value, new_value>>
        /\ properties' = Append(properties, p)
        /\ changed' = [changed EXCEPT ![p] = TRUE]
        /\ need_new_value' = [need_new_value EXCEPT ![p] = TRUE]
        /\ lowest_changed' = 1
        /\ Formatted' \subseteq Formatted \cup {p}
        /\ p \notin Observed
    BY <1>7 DEF Observe, ListInv, coreVars
  <2>2. /\ DOMAIN properties' = 1..Len(properties) + 1
        /\ \A n \in DOMAIN properties : properties'[n] = properties[n] /\ properties[n] # p
        /\ properties'[Len(properties) + 1] = p
    BY <1>0, <2>1
  <2>3. changed'[p] /\ need_new_value'[p]
    BY <1>0, <2>1
  <2>4. \A q \in Props \ {p} : /\ changed'[q] = changed[q]
                               /\ need_new_value'[q] = need_new_value[q]
                               /\ q \in Formatted' => q \in Formatted
    BY <1>0, <2>1
  <2>5. SUFFICES ASSUME ~broken, ~unnotified, NEW n \in DOMAIN properties'
        PROVE  LET q == properties'[n] IN
               /\ 1 <= n
               /\ q \in Formatted' =>
                    /\ user_value[q] # value => changed'[q] \/ updating[q]
                    /\ changed'[q] /\ ~need_new_value'[q] => new_value[q] = value
    BY <2>1 DEF SearchInv
  <2>6. CASE n = Len(properties) + 1
    BY <1>0, <2>2, <2>3, <2>6
  <2>7. CASE n # Len(properties) + 1
    <3>1. n \in DOMAIN properties /\ 1 <= n /\ properties'[n] = properties[n]
          /\ properties[n] \in Props \ {p}
      BY <1>0, <2>2, <2>7
    <3> QED
      BY <2>4, <2>5, <3>1 DEF SearchInv
  <2> QED
    BY <2>6, <2>7
<1>8. CASE WaitEvent
  BY <1>8, SearchGen DEF WaitEvent, waitUnchanged, coreVars
<1>9. CASE Woken
  BY <1>9, SearchGen DEF Woken, waitUnchanged, coreVars
<1>10. CASE TimedOut
  BY <1>1, <1>10 DEF TimedOut, coreVars, propVars, listVars
<1>11. CASE Destroy
  BY <1>1, <1>11 DEF Destroy, coreVars, propVars, listVars
<1>12. CASE Destroyed
  <2>1. DOMAIN properties' = {}
    BY <1>12 DEF Destroyed
  <2> QED
    BY <2>1 DEF SearchInv
<1>13. CASE UNCHANGED vars
  BY <1>1, <1>13 DEF vars, coreVars, propVars, listVars
<1> QED
  BY <1>2, <1>3, <1>4, <1>5, <1>6, <1>7, <1>8, <1>9, <1>10, <1>11, <1>12, <1>13 DEF Next

\* No step leaves the client asleep over a change it could report.
LEMMA SleepNext ==
  ASSUME TypeOK, ListInv, SearchInv, NoSleepOverChange, [Next]_vars
  PROVE  NoSleepOverChange'
<1>1. UNCHANGED <<pc, need_wakeup, broken, unnotified, properties, changed>>
        => NoSleepOverChange'
  BY ObservedIs DEF NoSleepOverChange
<1>2. pc' # "waiting" => NoSleepOverChange'
  BY DEF NoSleepOverChange
<1>3. ASSUME NEW v \in Values, Change(v) PROVE NoSleepOverChange'
  BY <1>3 DEF Change, NoSleepOverChange
<1>4. CASE Notify
  <2>1. /\ properties' = properties
        /\ lowest_changed' = IF properties = <<>> THEN lowest_changed ELSE 1
        /\ need_wakeup' = (need_wakeup \/ lowest_changed' <= Len(properties))
    BY <1>4 DEF Notify, MarkChanged
  <2>2. CASE properties = <<>>
    <3>1. Observed' = {}
      BY <2>1, <2>2, ObservedIs
    <3> QED
      BY <3>1 DEF NoSleepOverChange
  <2>3. CASE properties # <<>>
    <3>1. 1 <= Len(properties)
      BY <2>3 DEF TypeOK
    <3>2. need_wakeup'
      BY <2>1, <2>3, <3>1
    <3> QED
      BY <3>2 DEF NoSleepOverChange
  <2> QED
    BY <2>2, <2>3
<1>5. CASE Fetch
  <2>1. ~broken /\ UNCHANGED <<pc, need_wakeup, unnotified, properties, changed>>
    BY <1>5 DEF Fetch, CoreFree, coreVars, propVars, listVars
  <2> QED
    BY <2>1, ObservedIs DEF NoSleepOverChange
<1>6. CASE Apply
  BY <1>6 DEF Apply, Updated, NoSleepOverChange
<1>7. ASSUME NEW p \in Props, Unobserve(p) PROVE NoSleepOverChange'
  BY <1>2, <1>7 DEF Unobserve, ClientFree
<1>8. ASSUME NEW p \in Props, NEW format \in BOOLEAN, Observe(p, format)
      PROVE  NoSleepOverChange'
  BY <1>2, <1>8 DEF Observe, ClientFree
<1>9. ASSUME GenEvent, waitUnchanged PROVE NoSleepOverChange'
  <2>1. /\ Observed' = Observed
        /\ pc' = "waiting" /\ ~broken /\ ~unnotified => \A p \in Observed : ~changed'[p]
    BY <1>9, ObservedIs, SearchGen DEF waitUnchanged, coreVars
  <2>2. broken' = broken /\ unnotified' = unnotified
    BY <1>9 DEF waitUnchanged, coreVars
  <2> QED
    BY <2>1, <2>2 DEF NoSleepOverChange
<1>10. CASE WaitEvent
  BY <1>9, <1>10 DEF WaitEvent
<1>11. CASE Woken
  BY <1>9, <1>11 DEF Woken
<1>12. CASE TimedOut
  BY <1>2, <1>12 DEF TimedOut
<1>13. CASE Destroy
  BY <1>2, <1>13 DEF Destroy
<1>14. CASE Destroyed
  BY <1>2, <1>14 DEF Destroyed
<1>15. CASE UNCHANGED vars
  BY <1>1, <1>15 DEF vars, coreVars, propVars, listVars
<1> QED
  BY <1>3, <1>4, <1>5, <1>6, <1>7, <1>8, <1>10, <1>11, <1>12, <1>13, <1>14, <1>15 DEF Next

-------------------------------------------------------------------------------

\* A new handle observes nothing.
LEMMA InitInv ==
  ASSUME Init
  PROVE  IInv
<1> USE PropertyObserverAssumption
<1>1. TypeOK
  <2>1. /\ properties \in Seq(Props) /\ queue \in Seq(Props)
        /\ lowest_changed \in 1..Len(properties) + 1
    BY DEF Init
  <2>2. /\ {changed, need_new_value, updating, dead} \subseteq [Props -> BOOLEAN]
        /\ {new_value, user_value} \subseteq [Props -> Values]
        /\ status \in [Props -> Status]
    BY DEF Init, Status
  <2>3. /\ value \in Values /\ unnotified \in BOOLEAN /\ changes \in 0..MaxChanges
        /\ properties_updating \in Nat /\ Formatted \subseteq Props
    <3>1. 0 \in 0..MaxChanges
      OBVIOUS
    <3>2. changes = 0 /\ properties_updating = 0 /\ unnotified = FALSE /\ Formatted = {}
          /\ value \in Values
      BY DEF Init
    <3> QED
      BY <3>1, <3>2
  <2>4. /\ running \in Updates \cup {NoUpdate} /\ need_wakeup \in BOOLEAN
        /\ pc \in {"idle", "waiting", "drain", "destroyed"} /\ broken \in BOOLEAN
    BY DEF Init
  <2> QED
    BY <2>1, <2>2, <2>3, <2>4 DEF TypeOK
<1>2. DOMAIN properties = {} /\ Observed = {} /\ InUse = {} /\ queue = <<>>
  BY DEF Init, Observed, InUse
<1> QED
  BY <1>1, <1>2 DEF Init, IInv, ListInv, UpdatesCounted, UpdateInv, SearchInv,
                    NoSleepOverChange

\* The types, the list of observers, the count of updates, what updates carry and
\* what the searches for changes leave out hold together (IInv).
THEOREM Invariant == Spec => []IInv
<1>1. Init => IInv
  BY InitInv
<1>2. IInv /\ [Next]_vars => IInv'
  BY TypeNext, ListNext, CountNext, UpdateNext, SearchNext, SleepNext DEF IInv
<1> QED
  BY <1>1, <1>2, PTL DEF Spec

\* Every update_prop that is queued or runs is counted in properties_updating, so the
\* handle is only freed when none is left.
THEOREM AllCounted == Spec => []UpdatesCounted
<1>1. IInv => UpdatesCounted
  BY DEF IInv
<1> QED
  BY <1>1, Invariant, PTL

\* No change of a property is lost between the core, its updates and the searches of
\* mpv_wait_event, nor does the client sleep over one that it can be told of.
THEOREM NoChangeLost == Spec => []ChangesKept
<1>1. ASSUME IInv PROVE NoLostChange
  <2>1. SUFFICES ASSUME ~broken, ~unnotified, NEW n \in DOMAIN properties,
                        properties[n] \in Formatted
                 PROVE  LET p == properties[n] IN
                        /\ user_value[p] # value => changed[p] \/ p \in InUse
                        /\ changed[p] => lowest_changed <= n
    BY DEF NoLostChange
  <2>2. properties[n] \in Props
    BY <1>1 DEF IInv, TypeOK
  <2> QED
    BY <1>1, <2>1, <2>2 DEF IInv, SearchInv, UpdateInv
<1>2. IInv => ChangesKept
  BY <1>1 DEF IInv, ChangesKept
<1> QED
  BY <1>2, Invariant, PTL
===============================================================================
