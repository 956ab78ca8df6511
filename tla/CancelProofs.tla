----------------------------- MODULE CancelProofs -----------------------------
(***************************************************************************)
(* Proofs about mp_cancel, for every tree of objects and every number of   *)
(* threads. The inductive invariant says who may be where: a slave is once *)
(* in the list of its parent (SlaveInv), a thread only works on objects it *)
(* has made or that are shared (CallInv), and the running calls of         *)
(* trigger_locked go down a chain of slaves they have locked (StackInv).   *)
(***************************************************************************)
EXTENDS Cancel, FiniteSetTheorems, SequenceTheorems, TLAPS

Entries(s) == {s[i] : i \in DOMAIN s}

\* The parent of an object, and the list it is in.
SlaveInv ==
  /\ \A p \in Cancels : \A c \in Entries(slaves[p]) : parent[c] = p
  /\ \A p \in Cancels : \A i, j \in DOMAIN slaves[p] : slaves[p][i] = slaves[p][j] => i = j
  /\ \A c \in Cancels : parent[c] \in (Masters[c] \cap alive) \cup {None}
  /\ \A c \in Cancels : c \notin alive => parent[c] = None
  /\ \A c \in Cancels : \/ parent[c] = None
                        \/ c \in Entries(slaves[parent[c]])
                        \/ call[Owner[c]].op = "link" /\ call[Owner[c]].c = c

\* What a thread that is in a call may rely on.
CallOk(t) ==
  LET c == call[t].c
      op == call[t].op
  IN
  /\ stack[t] # <<>> => op = "triggering"
  /\ op # "idle" =>
       c \in alive /\ (Owner[c] = t \/ (c \in Shared /\ op \in {"trigger", "triggering"}))
  /\ op = "reset" => c \in Shared
  /\ op = "set_parent" => call[t].to \in (Masters[c] \cap alive) \cup {None}
  /\ op = "link" => parent[c] \in alive /\ c \notin Entries(slaves[parent[c]])
  /\ op \in {"destroy", "free"} => c \notin Shared /\ slaves[c] = <<>> /\ call[t].to = None
  /\ op = "free" => parent[c] = None

CallInv == \A t \in Threads : CallOk(t)

\* An object in trigger_locked: its flag is set and nobody sleeps on it. A slave that
\* is not waiting for its turn has been triggered.
EntryInv(t, i) ==
  LET c == stack[t][i].c IN
  /\ c \in alive /\ lock[c] = t
  /\ i = Len(stack[t]) => c \in Shared \/ Owner[c] = t
  /\ i < Len(stack[t]) => c \in Entries(slaves[stack[t][i + 1].c])
  /\ triggered[c] /\ cb[c] # "set" /\ \A u \in asleep : call[u].c # c
  /\ Entries(stack[t][i].todo) \subseteq Entries(slaves[c])
  /\ \A s \in Entries(slaves[c]) : s \in Entries(stack[t][i].todo) \/ triggered[s]

StackInv ==
  /\ \A t \in Threads : \A i \in DOMAIN stack[t] : EntryInv(t, i)
  /\ \A t \in Threads : \A i, j \in DOMAIN stack[t] :
       stack[t][i].c = stack[t][j].c => i = j
  /\ \A c \in Cancels : lock[c] # None => \E i \in DOMAIN stack[lock[c]] :
                                              stack[lock[c]][i].c = c

IInv == TypeOK /\ SlaveInv /\ CallInv /\ StackInv /\ MirrorsAgree

-------------------------------------------------------------------------------

\* A call that returns, and one that goes on.
LEMMA CallIs ==
  ASSUME TypeOK, NEW t \in Threads
  PROVE  /\ Return(t) => /\ call'[t] = Idle
                         /\ \A u \in Threads \ {t} : call'[u] = call[u]
         /\ \A op \in Calls : Goto(t, op) =>
              /\ call'[t].op = op /\ call'[t].c = call[t].c /\ call'[t].to = call[t].to
              /\ \A u \in Threads \ {t} : call'[u] = call[u]
  BY DEF TypeOK, Return, Goto

\* The types of what those two leave.
LEMMA CallType ==
  ASSUME TypeOK, NEW t \in Threads
  PROVE  /\ Return(t) =>
              call' \in [Threads -> [op : Calls, c : Cancels \cup {None},
                                     to : Cancels \cup {None}]]
         /\ \A op \in Calls : Goto(t, op) =>
              call' \in [Threads -> [op : Calls, c : Cancels \cup {None},
                                     to : Cancels \cup {None}]]
<1>1. Idle \in [op : Calls, c : Cancels \cup {None}, to : Cancels \cup {None}]
  BY DEF Idle, Calls
<1>2. call \in [Threads -> [op : Calls, c : Cancels \cup {None}, to : Cancels \cup {None}]]
  BY DEF TypeOK
<1>3. \A op \in Calls : [call[t] EXCEPT !.op = op]
                         \in [op : Calls, c : Cancels \cup {None}, to : Cancels \cup {None}]
  <2>1. call[t] \in [op : Calls, c : Cancels \cup {None}, to : Cancels \cup {None}]
    BY <1>2
  <2> QED
    BY <2>1
<1>4. ASSUME NEW op \in Calls, Goto(t, op)
      PROVE  call' \in [Threads -> [op : Calls, c : Cancels \cup {None},
                                    to : Cancels \cup {None}]]
  <2>1. call' = [call EXCEPT ![t] = [call[t] EXCEPT !.op = op]]
    BY <1>4 DEF Goto
  <2> QED
    BY <1>2, <1>3, <2>1
<1> QED
  BY <1>1, <1>2, <1>4 DEF Return

\* An empty list is one with no entries.
LEMMA NoEntries ==
  ASSUME NEW S, NEW s \in Seq(S)
  PROVE  s = <<>> <=> Entries(s) = {}
<1>1. Len(s) \in Nat /\ DOMAIN s = 1..Len(s)
  OBVIOUS
<1>2. ASSUME s # <<>>
      PROVE  s[1] \in Entries(s)
  <2>1. 1 \in DOMAIN s
    BY <1>2
  <2> QED
    BY <2>1 DEF Entries
<1>3. ASSUME s = <<>>, NEW x \in Entries(s)
      PROVE  FALSE
  <2>1. PICK i \in DOMAIN s : s[i] = x
    BY DEF Entries
  <2>2. Len(s) = 0
    BY <1>3
  <2> QED
    BY <1>1, <2>1, <2>2
<1> QED
  BY <1>2, <1>3

\* LL_APPEND.
LEMMA AppendIs ==
  ASSUME NEW S, NEW s \in Seq(S), NEW x \in S
  PROVE  /\ Append(s, x) \in Seq(S)
         /\ Entries(Append(s, x)) = Entries(s) \cup {x}
         /\ (\A i, j \in DOMAIN s : s[i] = s[j] => i = j) /\ x \notin Entries(s)
              => \A i, j \in DOMAIN Append(s, x) :
                   Append(s, x)[i] = Append(s, x)[j] => i = j
<1>1. /\ Append(s, x) \in Seq(S) /\ Len(s) \in Nat
      /\ DOMAIN Append(s, x) = 1..Len(s) + 1 /\ DOMAIN s = 1..Len(s)
      /\ \A i \in 1..Len(s) : Append(s, x)[i] = s[i]
      /\ Append(s, x)[Len(s) + 1] = x
  OBVIOUS
<1>2. DOMAIN Append(s, x) = DOMAIN s \cup {Len(s) + 1}
  BY <1>1
<1>3. \A y : y \in Entries(Append(s, x)) <=> y \in Entries(s) \/ y = x
  BY <1>1, <1>2 DEF Entries
<1>4. ASSUME \A i, j \in DOMAIN s : s[i] = s[j] => i = j, x \notin Entries(s)
      PROVE  \A i, j \in DOMAIN Append(s, x) : Append(s, x)[i] = Append(s, x)[j] => i = j
  <2>1. \A i \in DOMAIN s : Append(s, x)[i] # x
    BY <1>1, <1>4 DEF Entries
  <2> QED
    BY <1>1, <1>2, <1>4, <2>1
<1> QED
  BY <1>1, <1>3, <1>4

\* LL_REMOVE, of an entry that is there once.
LEMMA RemoveIs ==
  ASSUME NEW S, NEW s \in Seq(S), NEW n \in DOMAIN s
  PROVE  /\ RemoveAt(s, n) \in Seq(S)
         /\ (\A i, j \in DOMAIN s : s[i] = s[j] => i = j)
              => /\ Entries(RemoveAt(s, n)) = Entries(s) \ {s[n]}
                 /\ \A i, j \in DOMAIN RemoveAt(s, n) :
                      RemoveAt(s, n)[i] = RemoveAt(s, n)[j] => i = j
<1> DEFINE a == SubSeq(s, 1, n - 1)
           b == SubSeq(s, n + 1, Len(s))
           r == RemoveAt(s, n)
<1>1. /\ Len(s) \in Nat /\ DOMAIN s = 1..Len(s) /\ n \in 1..Len(s)
      /\ \A i \in 1..Len(s) : s[i] \in S
  OBVIOUS
<1>2. a \in Seq(S) /\ Len(a) = n - 1 /\ \A i \in 1..n - 1 : a[i] = s[i]
  BY <1>1, SubSeqProperties
<1>3. b \in Seq(S) /\ Len(b) = Len(s) - n /\ \A i \in 1..Len(s) - n : b[i] = s[n + i]
  BY <1>1, SubSeqProperties
<1>4. r = a \o b
  BY DEF RemoveAt
<1> HIDE DEF a, b, r
<1>5. /\ r \in Seq(S) /\ Len(r) = Len(s) - 1
      /\ \A i \in 1..Len(s) - 1 : r[i] = IF i <= n - 1 THEN a[i] ELSE b[i - (n - 1)]
  <2>1. /\ a \o b \in Seq(S) /\ Len(a \o b) = Len(s) - 1
        /\ \A i \in 1..Len(s) - 1 :
             (a \o b)[i] = IF i <= n - 1 THEN a[i] ELSE b[i - (n - 1)]
    <3>1. /\ a \o b \in Seq(S) /\ Len(a \o b) = Len(a) + Len(b)
          /\ \A i \in 1..Len(a) + Len(b) :
               (a \o b)[i] = IF i <= Len(a) THEN a[i] ELSE b[i - Len(a)]
      BY <1>2, <1>3, ConcatProperties
    <3>2. Len(a) = n - 1 /\ Len(a) + Len(b) = Len(s) - 1
      BY <1>1, <1>2, <1>3
    <3> QED
      BY <3>1, <3>2
  <2> QED
    BY <2>1, <1>4
<1> DEFINE old(i) == IF i < n THEN i ELSE i + 1
<1>6. ASSUME NEW i \in 1..Len(s) - 1
      PROVE  r[i] = s[old(i)]
  <2>1. CASE i < n
    <3>1. i \in 1..n - 1 /\ i <= n - 1
      BY <1>1, <2>1
    <3> QED
      BY <3>1, <2>1, <1>2, <1>5
  <2>2. CASE ~(i < n)
    <3>1. i - (n - 1) \in 1..Len(s) - n /\ ~(i <= n - 1) /\ n + (i - (n - 1)) = i + 1
      BY <1>1, <2>2
    <3> QED
      BY <3>1, <2>2, <1>3, <1>5
  <2> QED
    BY <2>1, <2>2
<1>7. DOMAIN r = 1..Len(s) - 1
  BY <1>5, LenProperties
<1>8. /\ \A i \in DOMAIN r : old(i) \in DOMAIN s /\ old(i) # n
      /\ \A i, j \in DOMAIN r : old(i) = old(j) => i = j
  BY <1>1, <1>7
<1>9. \A j \in DOMAIN s : j = n \/ \E i \in DOMAIN r : old(i) = j
  <2>1. \A j \in DOMAIN s : /\ j < n => j \in DOMAIN r /\ old(j) = j
                            /\ j > n => j - 1 \in DOMAIN r /\ old(j - 1) = j
    BY <1>1, <1>7
  <2>2. \A j \in DOMAIN s : j < n \/ j > n \/ j = n
    BY <1>1
  <2> HIDE DEF old
  <2> QED
    BY <2>1, <2>2
<1> HIDE DEF old
<1>10. \A i \in DOMAIN r : r[i] = s[old(i)]
  BY <1>6, <1>7
<1>11. ASSUME \A i, j \in DOMAIN s : s[i] = s[j] => i = j
       PROVE  /\ \A y : y \in Entries(r) <=> y \in Entries(s) /\ y # s[n]
              /\ \A i, j \in DOMAIN r : r[i] = r[j] => i = j
  <2>1. \A y : y \in Entries(r) <=> y \in Entries(s) /\ y # s[n]
    BY <1>8, <1>9, <1>10, <1>11 DEF Entries
  <2>2. \A i, j \in DOMAIN r : r[i] = r[j] => i = j
    BY <1>8, <1>10, <1>11
  <2> QED
    BY <2>1, <2>2
<1> QED
  BY <1>5, <1>11 DEF r

\* What leaving the list of its parent does to all lists.
LEMMA DetachedIs ==
  ASSUME TypeOK, SlaveInv, NEW c \in Cancels, Detached(c)
  PROVE  /\ slaves' \in [Cancels -> Seq(Cancels)]
         /\ \A p \in Cancels : p # parent[c] => slaves'[p] = slaves[p]
         /\ \A p \in Cancels : Entries(slaves'[p]) = Entries(slaves[p]) \ {c}
         /\ \A p \in Cancels : \A i, j \in DOMAIN slaves'[p] :
              slaves'[p][i] = slaves'[p][j] => i = j
<1>1. /\ slaves \in [Cancels -> Seq(Cancels)] /\ parent[c] \in Cancels \cup {None}
      /\ None \notin Cancels
  BY CancelAssumption DEF TypeOK
<1>2. \A p \in Cancels : p # parent[c] => c \notin Entries(slaves[p])
  BY DEF SlaveInv, Entries
<1>3. \A p \in Cancels : \A i, j \in DOMAIN slaves[p] : slaves[p][i] = slaves[p][j] => i = j
  BY DEF SlaveInv
<1>4. CASE parent[c] = None
  BY <1>1, <1>2, <1>3, <1>4 DEF Detached
<1>5. CASE parent[c] # None
  <2> DEFINE q == parent[c]
  <2>1. q \in Cancels /\ slaves[q] \in Seq(Cancels)
    BY <1>1, <1>5
  <2>2. PICK n \in DOMAIN slaves[q] :
          slaves[q][n] = c /\ slaves' = [slaves EXCEPT ![q] = RemoveAt(slaves[q], n)]
    BY <1>5 DEF Detached
  <2> HIDE DEF q
  <2>3. /\ RemoveAt(slaves[q], n) \in Seq(Cancels)
        /\ Entries(RemoveAt(slaves[q], n)) = Entries(slaves[q]) \ {c}
        /\ \A i, j \in DOMAIN RemoveAt(slaves[q], n) :
             RemoveAt(slaves[q], n)[i] = RemoveAt(slaves[q], n)[j] => i = j
    BY <1>3, <2>1, <2>2, RemoveIs
  <2>4. /\ slaves' \in [Cancels -> Seq(Cancels)] /\ slaves'[q] = RemoveAt(slaves[q], n)
        /\ \A p \in Cancels : p # q => slaves'[p] = slaves[p]
    BY <1>1, <2>1, <2>2, <2>3
  <2> QED
    BY <1>2, <1>3, <2>3, <2>4, ZenonT(60) DEF q
<1> QED
  BY <1>4, <1>5

\* The head of a list, and the rest.
LEMMA TailIs ==
  ASSUME NEW S, NEW s \in Seq(S), s # <<>>
  PROVE  /\ Len(s) \in Nat /\ Len(s) > 0 /\ DOMAIN s = 1..Len(s) /\ 1 \in DOMAIN s
         /\ Head(s) = s[1] /\ s[1] \in S
         /\ Tail(s) \in Seq(S) /\ Len(Tail(s)) = Len(s) - 1
         /\ DOMAIN Tail(s) = 1..Len(s) - 1
         /\ \A i \in 1..Len(s) - 1 : Tail(s)[i] = s[i + 1]
         /\ Len(s) = 1 => Tail(s) = <<>>
         /\ Entries(s) = Entries(Tail(s)) \cup {s[1]}
<1>1. /\ Len(s) \in Nat /\ Len(s) > 0 /\ DOMAIN s = 1..Len(s) /\ 1 \in DOMAIN s
      /\ Head(s) = s[1] /\ s[1] \in S
      /\ Tail(s) \in Seq(S) /\ Len(Tail(s)) = Len(s) - 1
      /\ DOMAIN Tail(s) = 1..Len(s) - 1
      /\ \A i \in 1..Len(s) - 1 : Tail(s)[i] = s[i + 1]
  OBVIOUS
<1>2. \A i \in DOMAIN Tail(s) : i + 1 \in DOMAIN s /\ Tail(s)[i] = s[i + 1]
  BY <1>1
<1>3. \A i \in DOMAIN s : i = 1 \/ (i - 1 \in DOMAIN Tail(s) /\ Tail(s)[i - 1] = s[i])
  BY <1>1
<1>4. Entries(s) = Entries(Tail(s)) \cup {s[1]}
  BY <1>1, <1>2, <1>3 DEF Entries
<1>5. Len(s) = 1 => Tail(s) = <<>>
  BY <1>1
<1> QED
  BY <1>1, <1>4, <1>5

\* One more entry in front.
LEMMA PushIs ==
  ASSUME NEW S, NEW s \in Seq(S), NEW x \in S
  PROVE  /\ <<x>> \o s \in Seq(S) /\ Len(<<x>> \o s) = Len(s) + 1
         /\ DOMAIN (<<x>> \o s) = 1..Len(s) + 1 /\ (<<x>> \o s)[1] = x
         /\ \A i \in 1..Len(s) : (<<x>> \o s)[i + 1] = s[i]
<1>1. <<x>> \in Seq(S) /\ Len(<<x>>) = 1 /\ <<x>>[1] = x /\ Len(s) \in Nat
  OBVIOUS
<1>2. /\ <<x>> \o s \in Seq(S) /\ Len(<<x>> \o s) = 1 + Len(s)
      /\ \A i \in 1..1 + Len(s) : (<<x>> \o s)[i] = IF i <= 1 THEN <<x>>[i] ELSE s[i - 1]
  BY <1>1, ConcatProperties
<1>3. /\ 1 + Len(s) = Len(s) + 1 /\ 1 \in 1..1 + Len(s)
      /\ \A i \in 1..Len(s) : i + 1 \in 1..1 + Len(s) /\ ~(i + 1 <= 1) /\ i + 1 - 1 = i
  BY <1>1
<1>4. DOMAIN (<<x>> \o s) = 1..1 + Len(s)
  BY <1>2
<1>5. (<<x>> \o s)[1] = x
  BY <1>1, <1>2, <1>3
<1>6. \A i \in 1..Len(s) : (<<x>> \o s)[i + 1] = s[i]
  BY <1>2, <1>3
<1> QED
  BY <1>2, <1>3, <1>4, <1>5, <1>6

\* A level of trigger_locked.
Levels == [c : Cancels, todo : Seq(Cancels)]

\* Going on to the next slave of a level leaves what the level belongs to.
LEMMA LevelIs ==
  /\ \A e \in Levels : e.c \in Cancels /\ e.todo \in Seq(Cancels)
  /\ \A e \in Levels : e.todo # <<>> =>
       /\ [e EXCEPT !.todo = Tail(@)] \in Levels
       /\ [e EXCEPT !.todo = Tail(@)].c = e.c
       /\ [e EXCEPT !.todo = Tail(@)].todo = Tail(e.todo)
  /\ \A c \in Cancels, list \in Seq(Cancels) :
       /\ [c |-> c, todo |-> list] \in Levels
       /\ [c |-> c, todo |-> list].c = c /\ [c |-> c, todo |-> list].todo = list
  /\ TypeOK => stack \in [Threads -> Seq(Levels)]
<1>1. \A e \in Levels : e.c \in Cancels /\ e.todo \in Seq(Cancels)
  BY DEF Levels
<1>2. ASSUME NEW e \in Levels, e.todo # <<>>
      PROVE  /\ [e EXCEPT !.todo = Tail(@)] \in Levels
             /\ [e EXCEPT !.todo = Tail(@)].c = e.c
             /\ [e EXCEPT !.todo = Tail(@)].todo = Tail(e.todo)
  <2>1. Tail(e.todo) \in Seq(Cancels)
    BY <1>1, <1>2, TailIs
  <2> QED
    BY <1>2, <2>1 DEF Levels
<1>3. TypeOK => stack \in [Threads -> Seq(Levels)]
  BY DEF TypeOK, Levels
<1> QED
  BY <1>1, <1>2, <1>3 DEF Levels

\* What taking the lock of an object and entering trigger_locked does.
LEMMA EnterIs ==
  ASSUME TypeOK, NEW t \in Threads, NEW c \in Cancels, NEW list \in Seq(Cancels),
         NEW cbs \in [Cancels -> {"none", "set", "called"}],
         NEW below \in Seq(Levels),
         Enter(t, c, list, cbs, below)
  PROVE  /\ lock' \in [Cancels -> Threads \cup {None}] /\ lock'[c] = t
         /\ \A d \in Cancels \ {c} : lock'[d] = lock[d]
         /\ triggered' \in [Cancels -> BOOLEAN] /\ triggered'[c]
         /\ \A d \in Cancels \ {c} : triggered'[d] = triggered[d]
         /\ cb' \in [Cancels -> {"none", "set", "called"}] /\ cb'[c] # "set"
         /\ \A d \in Cancels \ {c} : cb'[d] = cbs[d]
         /\ asleep' \subseteq asleep /\ \A u \in asleep' : call[u].c # c
         /\ stack' \in [Threads -> Seq(Levels)]
         /\ \A u \in Threads \ {t} : stack'[u] = stack[u]
         /\ stack'[t] = <<[c |-> c, todo |-> list]>> \o below
<1>1. /\ lock \in [Cancels -> Threads \cup {None}] /\ triggered \in [Cancels -> BOOLEAN]
      /\ stack \in [Threads -> Seq(Levels)]
  BY LevelIs DEF TypeOK
<1>2. lock' = [lock EXCEPT ![c] = t] /\ triggered' = [triggered EXCEPT ![c] = TRUE]
  BY DEF Enter
<1>3. cb' = [cbs EXCEPT ![c] = IF cbs[c] = "none" THEN cbs[c] ELSE "called"]
  BY DEF Enter
<1>4. asleep' \subseteq asleep /\ \A u \in asleep' : call[u].c # c
  BY DEF Enter
<1>5. stack' = [stack EXCEPT ![t] = <<[c |-> c, todo |-> list]>> \o below]
  BY DEF Enter
<1>6. <<[c |-> c, todo |-> list]>> \o below \in Seq(Levels)
  BY LevelIs, PushIs
<1>7. /\ cb' \in [Cancels -> {"none", "set", "called"}] /\ cb'[c] # "set"
      /\ \A d \in Cancels \ {c} : cb'[d] = cbs[d]
  BY <1>3
<1>8. /\ lock' \in [Cancels -> Threads \cup {None}] /\ lock'[c] = t
      /\ triggered' \in [Cancels -> BOOLEAN] /\ triggered'[c]
      /\ \A d \in Cancels \ {c} : lock'[d] = lock[d] /\ triggered'[d] = triggered[d]
  BY <1>1, <1>2
<1>9. /\ stack' \in [Threads -> Seq(Levels)]
      /\ \A u \in Threads \ {t} : stack'[u] = stack[u]
      /\ stack'[t] = <<[c |-> c, todo |-> list]>> \o below
  BY <1>1, <1>5, <1>6
<1> QED
  BY <1>4, <1>7, <1>8, <1>9

\* trigger_locked for the next slave: a level more, and a slave less to do.
LEMMA TriggerSlaveIs ==
  ASSUME TypeOK, NEW t \in Threads, TriggerSlave(t)
  PROVE  LET n == Len(stack[t])
             top == stack[t][1]
             s == top.todo[1]
             below == <<[top EXCEPT !.todo = Tail(@)]>> \o Tail(stack[t])
         IN /\ n \in Nat /\ n > 0 /\ 1 \in DOMAIN stack[t] /\ DOMAIN stack[t] = 1..n
            /\ s \in Cancels /\ 1 \in DOMAIN top.todo /\ lock[s] = None
            /\ Enter(t, s, slaves[s], cb, below) /\ below \in Seq(Levels)
            /\ DOMAIN stack'[t] = 1..n + 1 /\ Len(stack'[t]) = n + 1
            /\ stack'[t][1].c = s /\ stack'[t][1].todo = slaves[s]
            /\ stack'[t][2].c = top.c
            /\ Entries(top.todo) = Entries(stack'[t][2].todo) \cup {s}
            /\ \A i \in 2..n : stack'[t][i + 1] = stack[t][i]
<1> DEFINE n == Len(stack[t])
           top == stack[t][1]
           s == top.todo[1]
           low == [top EXCEPT !.todo = Tail(@)]
           below == <<low>> \o Tail(stack[t])
           first == [c |-> s, todo |-> slaves[s]]
<1>1. stack[t] \in Seq(Levels) /\ stack[t] # <<>> /\ top.todo # <<>>
  BY LevelIs DEF TriggerSlave
<1>2. slaves \in [Cancels -> Seq(Cancels)] /\ cb \in [Cancels -> {"none", "set", "called"}]
  BY DEF TypeOK
<1>3. /\ n \in Nat /\ n > 0 /\ DOMAIN stack[t] = 1..n /\ 1 \in DOMAIN stack[t]
      /\ top \in Levels
      /\ Tail(stack[t]) \in Seq(Levels) /\ Len(Tail(stack[t])) = n - 1
      /\ \A i \in 1..n - 1 : Tail(stack[t])[i] = stack[t][i + 1]
  BY <1>1, TailIs
<1>4. /\ top.todo \in Seq(Cancels) /\ low \in Levels /\ low.c = top.c
      /\ low.todo = Tail(top.todo)
  BY <1>1, <1>3, LevelIs
<1>5. /\ Head(top.todo) = s /\ s \in Cancels /\ 1 \in DOMAIN top.todo
      /\ Entries(top.todo) = Entries(low.todo) \cup {s}
  BY <1>1, <1>4, TailIs
<1>6. lock[s] = None /\ Enter(t, s, slaves[s], cb, below)
  BY <1>5 DEF TriggerSlave
<1> HIDE DEF top, low
<1>7. /\ below \in Seq(Levels) /\ Len(below) = n /\ below[1] = low
      /\ \A i \in 1..n - 1 : below[i + 1] = stack[t][i + 1]
  <2>1. /\ below \in Seq(Levels) /\ Len(below) = n - 1 + 1 /\ below[1] = low
        /\ \A i \in 1..n - 1 : below[i + 1] = Tail(stack[t])[i]
    BY <1>3, <1>4, PushIs
  <2> QED
    BY <1>3, <2>1
<1>8. slaves[s] \in Seq(Cancels) /\ first \in Levels /\ first.c = s /\ first.todo = slaves[s]
  BY <1>2, <1>5, LevelIs
<1> HIDE DEF below, s
<1>9. stack'[t] = <<first>> \o below
  <2>1. stack' = [stack EXCEPT ![t] = <<first>> \o below]
    BY <1>6 DEF Enter
  <2>2. stack \in [Threads -> Seq(Levels)]
    BY LevelIs
  <2> HIDE DEF first
  <2> QED
    BY <2>1, <2>2
<1> HIDE DEF first
<1>10. /\ DOMAIN stack'[t] = 1..n + 1 /\ stack'[t][1] = first /\ Len(stack'[t]) = n + 1
       /\ \A i \in 1..n : stack'[t][i + 1] = below[i]
  BY <1>7, <1>8, <1>9, PushIs
<1> HIDE DEF n
<1>11. stack'[t][2] = low
  BY <1>3, <1>7, <1>10
<1>12. \A i \in 2..n : stack'[t][i + 1] = stack[t][i]
  <2>1. \A i \in 2..n : i - 1 \in 1..n - 1 /\ i - 1 + 1 = i /\ i \in 1..n
    BY <1>3
  <2> QED
    BY <2>1, <1>7, <1>10
<1> QED
  BY <1>3, <1>4, <1>5, <1>6, <1>7, <1>8, <1>10, <1>11, <1>12 DEF below, low, top, s, n

\* The end of trigger_locked: a level less.
LEMMA LeaveIs ==
  ASSUME TypeOK, NEW t \in Threads, Leave(t)
  PROVE  LET n == Len(stack[t])
             c == stack[t][1].c
         IN /\ n \in Nat /\ n > 0 /\ 1 \in DOMAIN stack[t] /\ DOMAIN stack[t] = 1..n
            /\ c \in Cancels /\ stack[t][1].todo = <<>>
            /\ stack' \in [Threads -> Seq(Levels)]
            /\ \A u \in Threads \ {t} : stack'[u] = stack[u]
            /\ DOMAIN stack'[t] = 1..n - 1 /\ Len(stack'[t]) = n - 1
            /\ \A i \in 1..n - 1 : stack'[t][i] = stack[t][i + 1]
            /\ n = 1 => stack'[t] = <<>> /\ Return(t)
            /\ n # 1 => call' = call
            /\ lock' \in [Cancels -> Threads \cup {None}] /\ lock'[c] = None
            /\ \A d \in Cancels \ {c} : lock'[d] = lock[d]
            /\ pipe' \in [Cancels -> {"none", "empty", "readable"}] /\ pipe'[c] # "empty"
            /\ \A d \in Cancels \ {c} : pipe'[d] = pipe[d]
<1> DEFINE n == Len(stack[t])
           c == stack[t][1].c
<1>1. /\ stack \in [Threads -> Seq(Levels)] /\ stack[t] \in Seq(Levels)
      /\ stack[t] # <<>> /\ stack[t][1].todo = <<>>
  BY LevelIs DEF Leave
<1>2. /\ lock \in [Cancels -> Threads \cup {None}]
      /\ pipe \in [Cancels -> {"none", "empty", "readable"}]
  BY DEF TypeOK
<1>3. /\ n \in Nat /\ n > 0 /\ DOMAIN stack[t] = 1..n /\ 1 \in DOMAIN stack[t]
      /\ stack[t][1] \in Levels
      /\ Tail(stack[t]) \in Seq(Levels) /\ Len(Tail(stack[t])) = n - 1
      /\ DOMAIN Tail(stack[t]) = 1..n - 1
      /\ \A i \in 1..n - 1 : Tail(stack[t])[i] = stack[t][i + 1]
      /\ n = 1 => Tail(stack[t]) = <<>>
  BY <1>1, TailIs
<1>4. c \in Cancels
  BY <1>3, LevelIs
<1>5. /\ stack' = [stack EXCEPT ![t] = Tail(stack[t])] /\ lock' = [lock EXCEPT ![c] = None]
      /\ pipe' = [pipe EXCEPT ![c] = IF pipe[c] = "none" THEN pipe[c] ELSE "readable"]
      /\ IF n = 1 THEN Return(t) ELSE call' = call
  BY DEF Leave
<1> HIDE DEF n, c
<1>6. /\ stack' \in [Threads -> Seq(Levels)] /\ stack'[t] = Tail(stack[t])
      /\ \A u \in Threads \ {t} : stack'[u] = stack[u]
  BY <1>1, <1>3, <1>5
<1>7. /\ lock' \in [Cancels -> Threads \cup {None}] /\ lock'[c] = None
      /\ \A d \in Cancels \ {c} : lock'[d] = lock[d]
      /\ pipe' \in [Cancels -> {"none", "empty", "readable"}] /\ pipe'[c] # "empty"
      /\ \A d \in Cancels \ {c} : pipe'[d] = pipe[d]
  BY <1>2, <1>4, <1>5
<1> QED
  BY <1>1, <1>3, <1>4, <1>5, <1>6, <1>7 DEF n, c

\* The first level of trigger_locked.
LEMMA EnterFirst ==
  ASSUME TypeOK, NEW t \in Threads, NEW c \in Cancels, NEW list \in Seq(Cancels),
         NEW cbs \in [Cancels -> {"none", "set", "called"}],
         Enter(t, c, list, cbs, <<>>)
  PROVE  /\ stack' \in [Threads -> Seq(Levels)]
         /\ \A u \in Threads \ {t} : stack'[u] = stack[u]
         /\ DOMAIN stack'[t] = 1..1 /\ Len(stack'[t]) = 1 /\ stack'[t] # <<>>
         /\ stack'[t][1].c = c /\ stack'[t][1].todo = list
<1> DEFINE below == <<>>
           first == [c |-> c, todo |-> list]
<1>1. /\ below \in Seq(Levels) /\ Len(below) = 0 /\ Enter(t, c, list, cbs, below)
      /\ first \in Levels /\ first.c = c /\ first.todo = list
  BY LevelIs
<1> HIDE DEF below
<1>2. /\ stack' \in [Threads -> Seq(Levels)] /\ \A u \in Threads \ {t} : stack'[u] = stack[u]
      /\ stack'[t] = <<first>> \o below
  <2>1. stack' = [stack EXCEPT ![t] = <<first>> \o below]
    BY <1>1 DEF Enter
  <2>2. stack \in [Threads -> Seq(Levels)]
    BY LevelIs
  <2> HIDE DEF first
  <2>3. <<first>> \o below \in Seq(Levels)
    BY <1>1, PushIs
  <2> QED
    BY <2>1, <2>2, <2>3
<1> HIDE DEF first
<1>3. DOMAIN stack'[t] = 1..0 + 1 /\ Len(stack'[t]) = 0 + 1 /\ stack'[t][1] = first
  BY <1>1, <1>2, PushIs
<1>4. stack'[t] # <<>>
  BY <1>3
<1> QED
  BY <1>1, <1>2, <1>3, <1>4

\* Who is in a call has an object. (Facts of the invariant that most steps need.)
LEMMA Facts ==
  ASSUME TypeOK, CallInv, SlaveInv, NEW t \in Threads, call[t].op # "idle"
  PROVE  /\ call[t].c \in Cancels /\ call[t].c \in alive
         /\ parent[call[t].c] \in Cancels \cup {None}
         /\ slaves[call[t].c] \in Seq(Cancels)
         /\ Owner[call[t].c] = t \/ call[t].c \in Shared
         /\ call[t].op = "link" => /\ parent[call[t].c] \in Cancels
                                   /\ parent[call[t].c] \in alive
                                   /\ slaves[parent[call[t].c]] \in Seq(Cancels)
  BY CancelAssumption DEF TypeOK, CallInv, CallOk, SlaveInv

\* The end of a call that has added to a mirror: either trigger_locked is entered, or
\* the call returns.
LEMMA RetriggerIs ==
  ASSUME TypeOK, NEW t \in Threads, NEW c \in Cancels, NEW list \in Seq(Cancels),
         NEW cbs \in [Cancels -> {"none", "set", "called"}],
         Retrigger(t, c, list, cbs)
  PROVE  \/ triggered[c] /\ Enter(t, c, list, cbs, <<>>) /\ Goto(t, "triggering")
         \/ ~triggered[c] /\ cb' = cbs /\ Return(t) /\ UNCHANGED <<lock, triggered, asleep, stack>>
  BY DEF Retrigger

-------------------------------------------------------------------------------

\* A step into trigger_locked keeps the types of what it changes.
LEMMA TypeEnter ==
  ASSUME TypeOK, NEW t \in Threads, NEW c \in Cancels, NEW list \in Seq(Cancels),
         NEW cbs \in [Cancels -> {"none", "set", "called"}], call[t].op # "wait",
         Retrigger(t, c, list, cbs) \/ (Enter(t, c, list, cbs, <<>>) /\ Goto(t, "triggering"))
  PROVE  /\ lock' \in [Cancels -> Threads \cup {None}]
         /\ triggered' \in [Cancels -> BOOLEAN]
         /\ cb' \in [Cancels -> {"none", "set", "called"}]
         /\ asleep' \subseteq {u \in Threads : call'[u].op = "wait"}
         /\ stack' \in [Threads -> Seq([c : Cancels, todo : Seq(Cancels)])]
         /\ call' \in [Threads -> [op : Calls, c : Cancels \cup {None},
                                   to : Cancels \cup {None}]]
<1>1. CASE Enter(t, c, list, cbs, <<>>) /\ Goto(t, "triggering")
  <2>1. "triggering" \in Calls /\ <<>> \in Seq(Levels)
    BY DEF Calls
  <2>2. /\ lock' \in [Cancels -> Threads \cup {None}]
        /\ triggered' \in [Cancels -> BOOLEAN]
        /\ cb' \in [Cancels -> {"none", "set", "called"}]
        /\ asleep' \subseteq asleep
        /\ stack' \in [Threads -> Seq(Levels)]
    BY <1>1, <2>1, EnterIs
  <2>3. asleep \subseteq {u \in Threads : call[u].op = "wait"}
    BY DEF TypeOK
  <2>4. asleep' \subseteq {u \in Threads : call'[u].op = "wait"}
    BY <1>1, <2>1, <2>2, <2>3, CallIs
  <2> QED
    BY <1>1, <2>1, <2>2, <2>4, CallType DEF Levels
<1>2. CASE cb' = cbs /\ Return(t) /\ UNCHANGED <<lock, triggered, asleep, stack>>
  <2>1. /\ lock' \in [Cancels -> Threads \cup {None}]
        /\ triggered' \in [Cancels -> BOOLEAN]
        /\ stack' \in [Threads -> Seq([c : Cancels, todo : Seq(Cancels)])]
        /\ asleep' \subseteq {u \in Threads : call[u].op = "wait"}
    BY <1>2 DEF TypeOK
  <2>2. asleep' \subseteq {u \in Threads : call'[u].op = "wait"}
    BY <1>2, <2>1, CallIs
  <2> QED
    BY <1>2, <2>1, <2>2, CallType
<1> QED
  BY <1>1, <1>2, RetriggerIs

\* Every step keeps the types.
LEMMA TypeNext ==
  ASSUME TypeOK, SlaveInv, CallInv, [Next]_vars
  PROVE  TypeOK'
<1>0. /\ lock \in [Cancels -> Threads \cup {None}] /\ triggered \in [Cancels -> BOOLEAN]
      /\ cb \in [Cancels -> {"none", "set", "called"}]
      /\ pipe \in [Cancels -> {"none", "empty", "readable"}]
      /\ slaves \in [Cancels -> Seq(Cancels)] /\ parent \in [Cancels -> Cancels \cup {None}]
      /\ stack \in [Threads -> Seq([c : Cancels, todo : Seq(Cancels)])]
      /\ asleep \subseteq {u \in Threads : call[u].op = "wait"}
      /\ alive \subseteq Cancels
      /\ call \in [Threads -> [op : Calls, c : Cancels \cup {None}, to : Cancels \cup {None}]]
      /\ calls \in [Threads -> Nat] /\ \A t \in Threads : calls[t] <= MaxCalls[t]
  BY DEF TypeOK
<1>a. ASSUME NEW t \in Threads, UNCHANGED calls, UNCHANGED alive, UNCHANGED slaves,
             UNCHANGED parent,
             pipe' \in [Cancels -> {"none", "empty", "readable"}],
             call[t].op # "wait", NEW c \in Cancels, NEW list \in Seq(Cancels),
             NEW cbs \in [Cancels -> {"none", "set", "called"}],
             Retrigger(t, c, list, cbs)
               \/ (Enter(t, c, list, cbs, <<>>) /\ Goto(t, "triggering"))
      PROVE  TypeOK'
  BY <1>0, <1>a, TypeEnter DEF TypeOK
<1>b. ASSUME NEW t \in Threads, call[t].op # "wait",
             Return(t) \/ \E op \in Calls : Goto(t, op), asleep' \subseteq asleep
      PROVE  /\ call' \in [Threads -> [op : Calls, c : Cancels \cup {None},
                                       to : Cancels \cup {None}]]
             /\ asleep' \subseteq {u \in Threads : call'[u].op = "wait"}
  <2>1. /\ call' \in [Threads -> [op : Calls, c : Cancels \cup {None},
                                  to : Cancels \cup {None}]]
        /\ \A u \in Threads \ {t} : call'[u] = call[u]
    BY <1>b, CallIs, CallType
  <2> QED
    BY <1>0, <1>b, <2>1
<1>1. ASSUME NEW t \in Threads, Start(t) PROVE TypeOK'
  <2>1. PICK c \in alive : \E op \in Uses[c], p \in Masters[c] \cup {None} :
          call' = [call EXCEPT ![t] = [op |-> op, c |-> c, to |-> p]]
    BY <1>1 DEF Start
  <2>2. PICK op \in Uses[c], p \in Masters[c] \cup {None} :
          call' = [call EXCEPT ![t] = [op |-> op, c |-> c, to |-> p]]
    BY <2>1
  <2>3. op \in Calls /\ c \in Cancels /\ p \in Cancels \cup {None}
    BY <1>0, <2>1, <2>2, CancelAssumption DEF Calls
  <2>4. [op |-> op, c |-> c, to |-> p]
          \in [op : Calls, c : Cancels \cup {None}, to : Cancels \cup {None}]
    BY <2>3
  <2>5. call' \in [Threads -> [op : Calls, c : Cancels \cup {None}, to : Cancels \cup {None}]]
    BY <1>0, <2>2, <2>4
  <2>6. call[t] = Idle /\ \A u \in Threads \ {t} : call'[u] = call[u]
    BY <1>0, <1>1, <2>2 DEF Start
  <2>7. asleep \subseteq {u \in Threads : call'[u].op = "wait"}
    BY <1>0, <2>6, SMTT(40) DEF Idle
  <2>8. calls' \in [Threads -> Nat] /\ \A u \in Threads : calls'[u] <= MaxCalls[u]
    <3>1. calls' = [calls EXCEPT ![t] = calls[t] + 1] /\ calls[t] < MaxCalls[t]
      BY <1>1 DEF Start
    <3>2. MaxCalls[t] \in Nat /\ calls[t] \in Nat
      BY <1>0, CancelAssumption
    <3>3. calls[t] + 1 \in Nat /\ calls[t] + 1 <= MaxCalls[t]
      BY <3>1, <3>2
    <3> QED
      BY <1>0, <3>1, <3>3
  <2>9. UNCHANGED <<alive, lock, triggered, cb, pipe, asleep, slaves, parent, stack>>
    BY <1>1 DEF Start, mirrors
  <2> QED
    BY <1>0, <2>5, <2>7, <2>8, <2>9 DEF TypeOK
<1>2. ASSUME NEW t \in Threads, Trigger(t) PROVE TypeOK'
  <2>1. /\ call[t].op = "trigger" /\ UNCHANGED <<alive, pipe, slaves, parent, calls>>
        /\ Enter(t, call[t].c, slaves[call[t].c], cb, <<>>) /\ Goto(t, "triggering")
    BY <1>2 DEF Trigger, Doing
  <2>2. call[t].c \in Cancels /\ slaves[call[t].c] \in Seq(Cancels)
    BY <2>1, Facts
  <2> QED
    BY <1>0, <1>a, <2>1, <2>2
<1>3. ASSUME NEW t \in Threads, TriggerSlave(t) PROVE TypeOK'
  <2> DEFINE s == stack[t][1].todo[1]
             below == <<[stack[t][1] EXCEPT !.todo = Tail(@)]>> \o Tail(stack[t])
  <2>1. s \in Cancels /\ Enter(t, s, slaves[s], cb, below) /\ below \in Seq(Levels)
    BY <1>3, TriggerSlaveIs
  <2> HIDE DEF s, below
  <2>2. /\ lock' \in [Cancels -> Threads \cup {None}]
        /\ triggered' \in [Cancels -> BOOLEAN]
        /\ cb' \in [Cancels -> {"none", "set", "called"}]
        /\ asleep' \subseteq asleep
        /\ stack' \in [Threads -> Seq([c : Cancels, todo : Seq(Cancels)])]
    BY <1>0, <2>1, EnterIs DEF Levels
  <2>3. UNCHANGED <<alive, pipe, slaves, parent, call, calls>>
    BY <1>3 DEF TriggerSlave
  <2> QED
    BY <1>0, <2>2, <2>3 DEF TypeOK
<1>4. ASSUME NEW t \in Threads, Leave(t) PROVE TypeOK'
  <2>1. /\ stack' \in [Threads -> Seq([c : Cancels, todo : Seq(Cancels)])]
        /\ lock' \in [Cancels -> Threads \cup {None}]
        /\ pipe' \in [Cancels -> {"none", "empty", "readable"}]
        /\ Return(t) \/ call' = call
    BY <1>4, LeaveIs DEF Levels
  <2>2. UNCHANGED <<alive, triggered, cb, slaves, parent, asleep, calls>>
    BY <1>4 DEF Leave
  <2>3. call[t].op = "triggering"
    BY <1>4 DEF Leave, CallInv, CallOk
  <2>4. /\ call' \in [Threads -> [op : Calls, c : Cancels \cup {None},
                                  to : Cancels \cup {None}]]
        /\ asleep' \subseteq {u \in Threads : call'[u].op = "wait"}
    BY <1>0, <1>b, <2>1, <2>2, <2>3
  <2> QED
    BY <1>0, <2>1, <2>2, <2>4 DEF TypeOK
<1>5. ASSUME NEW t \in Threads, Reset(t) PROVE TypeOK'
  <2> DEFINE c == call[t].c
  <2>1. call[t].op = "reset" /\ Return(t)
    BY <1>5 DEF Reset, Doing
  <2>2. /\ triggered' = [triggered EXCEPT ![c] = FALSE]
        /\ cb' = [cb EXCEPT ![c] = IF cb[c] = "none" THEN cb[c] ELSE "set"]
        /\ pipe' = [pipe EXCEPT ![c] = IF pipe[c] = "none" THEN pipe[c] ELSE "empty"]
        /\ UNCHANGED <<alive, lock, slaves, parent, asleep, stack, calls>>
    BY <1>5 DEF Reset
  <2>3. c \in Cancels
    BY <2>1, Facts
  <2> HIDE DEF c
  <2>4. /\ triggered' \in [Cancels -> BOOLEAN]
        /\ cb' \in [Cancels -> {"none", "set", "called"}]
        /\ pipe' \in [Cancels -> {"none", "empty", "readable"}]
    BY <1>0, <2>2, <2>3
  <2>5. /\ call' \in [Threads -> [op : Calls, c : Cancels \cup {None},
                                  to : Cancels \cup {None}]]
        /\ asleep' \subseteq {u \in Threads : call'[u].op = "wait"}
    BY <1>b, <2>1, <2>2
  <2> QED
    BY <1>0, <2>2, <2>4, <2>5 DEF TypeOK
<1>6. ASSUME NEW t \in Threads, SetCb(t) PROVE TypeOK'
  <2> DEFINE c == call[t].c
             cbs == [cb EXCEPT ![c] = "set"]
  <2>1. /\ call[t].op = "set_cb" /\ Retrigger(t, c, slaves[c], cbs)
        /\ UNCHANGED <<alive, pipe, slaves, parent, calls>>
    BY <1>6 DEF SetCb, Doing
  <2>2. c \in Cancels /\ slaves[c] \in Seq(Cancels)
    BY <2>1, Facts
  <2> HIDE DEF c
  <2>3. cbs \in [Cancels -> {"none", "set", "called"}]
    BY <1>0, <2>2
  <2> HIDE DEF cbs
  <2> QED
    BY <1>0, <1>a, <2>1, <2>2, <2>3
<1>7. ASSUME NEW t \in Threads, GetFd(t) PROVE TypeOK'
  <2> DEFINE c == call[t].c
  <2>1. call[t].op = "get_fd" /\ UNCHANGED <<alive, slaves, parent, calls>>
    BY <1>7 DEF GetFd, Doing
  <2>2. c \in Cancels /\ slaves[c] \in Seq(Cancels)
    BY <2>1, Facts
  <2>3. CASE pipe[c] = "none"
    <3>1. pipe' = [pipe EXCEPT ![c] = "empty"] /\ Retrigger(t, c, slaves[c], cb)
      BY <1>7, <2>3 DEF GetFd
    <3>2. pipe' \in [Cancels -> {"none", "empty", "readable"}]
      BY <1>0, <2>2, <3>1
    <3> HIDE DEF c
    <3> QED
      BY <1>0, <1>a, <2>1, <2>2, <3>1, <3>2
  <2>4. CASE pipe[c] # "none"
    <3>1. Return(t) /\ UNCHANGED <<lock, triggered, cb, pipe, asleep, stack>>
      BY <1>7, <2>4 DEF GetFd, mirrors
    <3>2. /\ call' \in [Threads -> [op : Calls, c : Cancels \cup {None},
                                    to : Cancels \cup {None}]]
          /\ asleep' \subseteq {u \in Threads : call'[u].op = "wait"}
      BY <1>b, <2>1, <3>1
    <3> QED
      BY <1>0, <2>1, <3>1, <3>2 DEF TypeOK
  <2> QED
    BY <2>3, <2>4
<1>8. ASSUME NEW t \in Threads, Unlink(t) PROVE TypeOK'
  <2> DEFINE c == call[t].c
  <2>1. /\ call[t].op \in {"set_parent", "destroy"} /\ Detached(c)
        /\ parent' = [parent EXCEPT ![c] = call[t].to]
        /\ Return(t) \/ Goto(t, "free") \/ Goto(t, "link")
        /\ UNCHANGED <<alive, lock, triggered, cb, pipe, asleep, stack, calls>>
    BY <1>8 DEF Unlink, mirrors
  <2>2. c \in Cancels /\ call[t].to \in Cancels \cup {None}
    BY <1>0, <2>1, Facts
  <2>3. slaves' \in [Cancels -> Seq(Cancels)] /\ parent' \in [Cancels -> Cancels \cup {None}]
    BY <1>0, <2>1, <2>2, DetachedIs
  <2>4. "free" \in Calls /\ "link" \in Calls
    BY DEF Calls
  <2>5. /\ call' \in [Threads -> [op : Calls, c : Cancels \cup {None},
                                  to : Cancels \cup {None}]]
        /\ asleep' \subseteq {u \in Threads : call'[u].op = "wait"}
    BY <1>b, <2>1, <2>4
  <2> QED
    BY <1>0, <2>1, <2>3, <2>5 DEF TypeOK
<1>9. ASSUME NEW t \in Threads, Link(t) PROVE TypeOK'
  <2> DEFINE c == call[t].c
             p == parent[c]
  <2>1. /\ call[t].op = "link" /\ slaves' = [slaves EXCEPT ![p] = Append(slaves[p], c)]
        /\ Retrigger(t, p, slaves'[p], cb) /\ UNCHANGED <<alive, pipe, parent, calls>>
    BY <1>9 DEF Link, Doing
  <2>2. c \in Cancels /\ p \in Cancels /\ slaves[p] \in Seq(Cancels)
    BY <2>1, Facts
  <2> HIDE DEF c, p
  <2>3. slaves' \in [Cancels -> Seq(Cancels)] /\ slaves'[p] \in Seq(Cancels)
    BY <1>0, <2>1, <2>2
  <2>4. /\ lock' \in [Cancels -> Threads \cup {None}]
        /\ triggered' \in [Cancels -> BOOLEAN]
        /\ cb' \in [Cancels -> {"none", "set", "called"}]
        /\ asleep' \subseteq {u \in Threads : call'[u].op = "wait"}
        /\ stack' \in [Threads -> Seq([c : Cancels, todo : Seq(Cancels)])]
        /\ call' \in [Threads -> [op : Calls, c : Cancels \cup {None},
                                  to : Cancels \cup {None}]]
    BY <1>0, <2>1, <2>2, <2>3, TypeEnter
  <2> QED
    BY <1>0, <2>1, <2>3, <2>4 DEF TypeOK
<1>10. ASSUME NEW t \in Threads, Destroy(t) PROVE TypeOK'
  <2>1. /\ call[t].op = "free" /\ Return(t) /\ alive' \subseteq alive
        /\ UNCHANGED <<lock, triggered, cb, pipe, asleep, slaves, parent, stack, calls>>
    BY <1>10 DEF Destroy, Doing, mirrors
  <2>2. /\ call' \in [Threads -> [op : Calls, c : Cancels \cup {None},
                                  to : Cancels \cup {None}]]
        /\ asleep' \subseteq {u \in Threads : call'[u].op = "wait"}
    BY <1>b, <2>1
  <2> QED
    BY <1>0, <2>1, <2>2 DEF TypeOK
<1>11. ASSUME NEW t \in Threads, WaitTest(t) \/ WaitTimeout(t) PROVE TypeOK'
  <2>1. /\ call[t].op = "wait"
        /\ UNCHANGED <<alive, lock, triggered, cb, pipe, slaves, parent, stack, calls>>
        /\ \/ Return(t) /\ t \notin asleep' /\ asleep' \subseteq asleep
           \/ asleep' = asleep \cup {t} /\ call' = call
    BY <1>11 DEF WaitTest, WaitTimeout, Doing
  <2>2. /\ call' \in [Threads -> [op : Calls, c : Cancels \cup {None},
                                  to : Cancels \cup {None}]]
        /\ asleep' \subseteq {u \in Threads : call'[u].op = "wait"}
    BY <1>0, <2>1, CallIs, CallType
  <2> QED
    BY <1>0, <2>1, <2>2 DEF TypeOK
<1>12. CASE UNCHANGED vars
  BY <1>0, <1>12 DEF vars, mirrors, TypeOK
<1> QED
  BY <1>1, <1>2, <1>3, <1>4, <1>5, <1>6, <1>7, <1>8, <1>9, <1>10, <1>11, <1>12
  DEF Next, Steps
-------------------------------------------------------------------------------

\* The steps that leave the tree of objects alone, and what they do to calls: the call
\* goes on, or returns, or enters trigger_locked.
LEMMA TreeKept ==
  ASSUME TypeOK, CallInv, SlaveInv, NEW t \in Threads,
         \/ Trigger(t) \/ TriggerSlave(t) \/ Leave(t) \/ Reset(t) \/ SetCb(t) \/ GetFd(t)
         \/ WaitTest(t) \/ WaitTimeout(t)
  PROVE  /\ UNCHANGED <<alive, slaves, parent>>
         /\ call[t].op \notin {"idle", "link"}
         /\ \A u \in Threads \ {t} : call'[u] = call[u] /\ stack'[u] = stack[u]
         /\ \/ call'[t] = Idle /\ stack'[t] = <<>>
            \/ call'[t].op = "triggering" /\ call'[t].c = call[t].c
            \/ call'[t] = call[t] /\ stack'[t] = stack[t]
<1>0. /\ \A c \in Cancels : slaves[c] \in Seq(Cancels)
      /\ cb \in [Cancels -> {"none", "set", "called"}] /\ "triggering" \in Calls
      /\ stack[t] # <<>> => call[t].op = "triggering"
  BY DEF TypeOK, Calls, CallInv, CallOk
<1>1. CASE Trigger(t)
  <2>1. /\ call[t].op = "trigger" /\ UNCHANGED <<alive, slaves, parent>>
        /\ Enter(t, call[t].c, slaves[call[t].c], cb, <<>>) /\ Goto(t, "triggering")
    BY <1>1 DEF Trigger, Doing
  <2>2. call[t].c \in Cancels
    BY <2>1, Facts
  <2> QED
    BY <1>0, <2>1, <2>2, EnterFirst, CallIs
<1>2. CASE TriggerSlave(t)
  <2>1. UNCHANGED <<alive, slaves, parent, call>> /\ stack[t] # <<>>
    BY <1>2 DEF TriggerSlave
  <2> DEFINE s == stack[t][1].todo[1]
             below == <<[stack[t][1] EXCEPT !.todo = Tail(@)]>> \o Tail(stack[t])
  <2>2. s \in Cancels /\ Enter(t, s, slaves[s], cb, below) /\ below \in Seq(Levels)
    BY <1>2, TriggerSlaveIs
  <2> HIDE DEF s, below
  <2>3. \A u \in Threads \ {t} : stack'[u] = stack[u]
    BY <1>0, <2>2, EnterIs
  <2> QED
    BY <1>0, <2>1, <2>3
<1>3. CASE Leave(t)
  <2>1. UNCHANGED <<alive, slaves, parent>> /\ stack[t] # <<>>
    BY <1>3 DEF Leave
  <2>2. /\ \A u \in Threads \ {t} : stack'[u] = stack[u]
        /\ (stack'[t] = <<>> /\ Return(t)) \/ call' = call
    BY <1>3, LeaveIs
  <2> QED
    BY <1>0, <2>1, <2>2, CallIs
<1>4. CASE Reset(t)
  BY <1>0, <1>4, CallIs DEF Reset, Doing
<1>5. CASE SetCb(t)
  <2> DEFINE c == call[t].c
             cbs == [cb EXCEPT ![c] = "set"]
  <2>1. /\ call[t].op = "set_cb" /\ stack[t] = <<>> /\ UNCHANGED <<alive, slaves, parent>>
        /\ Retrigger(t, c, slaves[c], cbs)
    BY <1>5 DEF SetCb, Doing
  <2>2. c \in Cancels
    BY <2>1, Facts
  <2>3. cbs \in [Cancels -> {"none", "set", "called"}]
    BY <1>0, <2>2
  <2> HIDE DEF cbs
  <2>4. \/ Enter(t, c, slaves[c], cbs, <<>>) /\ Goto(t, "triggering")
        \/ Return(t) /\ UNCHANGED stack
    BY <1>0, <2>1, <2>2, <2>3, RetriggerIs
  <2> QED
    BY <1>0, <2>1, <2>2, <2>3, <2>4, EnterFirst, CallIs
<1>6. CASE GetFd(t)
  <2> DEFINE c == call[t].c
  <2>1. /\ call[t].op = "get_fd" /\ stack[t] = <<>> /\ UNCHANGED <<alive, slaves, parent>>
        /\ Retrigger(t, c, slaves[c], cb) \/ (Return(t) /\ UNCHANGED stack)
    BY <1>6 DEF GetFd, Doing
  <2>2. c \in Cancels
    BY <2>1, Facts
  <2>3. \/ Enter(t, c, slaves[c], cb, <<>>) /\ Goto(t, "triggering")
        \/ Return(t) /\ UNCHANGED stack
    BY <1>0, <2>1, <2>2, RetriggerIs
  <2> QED
    BY <1>0, <2>1, <2>2, <2>3, EnterFirst, CallIs
<1>7. CASE WaitTest(t)
  BY <1>0, <1>7, CallIs DEF WaitTest, Doing
<1>8. CASE WaitTimeout(t)
  BY <1>0, <1>8, CallIs DEF WaitTimeout, Doing
<1> QED
  BY <1>1, <1>2, <1>3, <1>4, <1>5, <1>6, <1>7, <1>8

\* An object leaves the list of its parent; if it has a new one, it is in no list.
LEMMA UnlinkIs ==
  ASSUME TypeOK, CallInv, SlaveInv, NEW t \in Threads, Unlink(t)
  PROVE  LET c == call[t].c IN
         /\ c \in Cancels /\ c \in alive /\ Owner[c] = t /\ call[t].to \in Masters[c] \cup {None}
         /\ call[t].to \in alive \cup {None} /\ Detached(c)
         /\ stack[t] = <<>>
         /\ parent' = [parent EXCEPT ![c] = call[t].to]
         /\ parent[c] \in {None} \cup {p \in Cancels : lock[p] = None}
         /\ UNCHANGED <<alive, lock, triggered, cb, pipe, asleep, stack>>
         /\ \A u \in Threads \ {t} : call'[u] = call[u]
         /\ call'[t].to = call[t].to \/ call'[t] = Idle
         /\ \/ call[t].op = "destroy" /\ call'[t].op = "free" /\ call'[t].c = c
            \/ call[t].op = "set_parent" /\ call[t].to = None /\ call'[t] = Idle
            \/ /\ call[t].op = "set_parent" /\ call[t].to # None
               /\ call'[t].op = "link" /\ call'[t].c = c
<1>1. /\ call[t].op \in {"set_parent", "destroy"}
      /\ \/ call[t].op = "destroy" /\ Goto(t, "free")
         \/ call[t].op = "set_parent" /\ call[t].to = None /\ Return(t)
         \/ call[t].op = "set_parent" /\ call[t].to # None /\ Goto(t, "link")
      /\ UNCHANGED <<alive, lock, triggered, cb, pipe, asleep, stack>>
      /\ Detached(call[t].c) /\ parent' = [parent EXCEPT ![call[t].c] = call[t].to]
      /\ parent[call[t].c] \in {None} \cup {p \in Cancels : lock[p] = None}
  BY DEF Unlink, mirrors
<1>2. "free" \in Calls /\ "link" \in Calls
  BY DEF Calls
<1>3. call[t].c \in Cancels
  BY <1>1, Facts
<1>5. /\ \A u \in Threads \ {t} : call'[u] = call[u]
      /\ call'[t].to = call[t].to \/ call'[t] = Idle
      /\ \/ call[t].op = "destroy" /\ call'[t].op = "free" /\ call'[t].c = call[t].c
         \/ call[t].op = "set_parent" /\ call[t].to = None /\ call'[t] = Idle
         \/ /\ call[t].op = "set_parent" /\ call[t].to # None
            /\ call'[t].op = "link" /\ call'[t].c = call[t].c
  BY <1>1, <1>2, CallIs
<1>6. /\ Owner[call[t].c] = t /\ stack[t] = <<>> /\ call[t].c \in alive
      /\ call[t].to \in Masters[call[t].c] \cup {None}
      /\ call[t].to \in alive \cup {None}
  BY <1>1 DEF CallInv, CallOk
<1> QED
  BY <1>1, <1>3, <1>5, <1>6

\* The slave is appended, and a triggered parent enters trigger_locked again.
LEMMA LinkIs ==
  ASSUME TypeOK, CallInv, SlaveInv, NEW t \in Threads, Link(t)
  PROVE  LET c == call[t].c
             p == parent[c]
         IN
         /\ c \in Cancels /\ p \in Cancels /\ p \in alive /\ Owner[c] = t /\ p \in Masters[c]
         /\ lock[p] = None /\ stack[t] = <<>> /\ call[t].op = "link" /\ c \notin Entries(slaves[p])
         /\ slaves' \in [Cancels -> Seq(Cancels)]
         /\ Entries(slaves'[p]) = Entries(slaves[p]) \cup {c}
         /\ \A d \in Cancels \ {p} : slaves'[d] = slaves[d]
         /\ \A i, j \in DOMAIN slaves'[p] : slaves'[p][i] = slaves'[p][j] => i = j
         /\ Retrigger(t, p, slaves'[p], cb) /\ UNCHANGED <<alive, pipe, parent>>
         /\ \A u \in Threads \ {t} : call'[u] = call[u] /\ stack'[u] = stack[u]
         /\ \/ call'[t] = Idle /\ UNCHANGED <<lock, triggered, cb, asleep, stack>>
               /\ ~triggered[p]
            \/ /\ call'[t].op = "triggering" /\ call'[t].c = c
               /\ Enter(t, p, slaves'[p], cb, <<>>)
<1> DEFINE c == call[t].c
           p == parent[c]
<1>1. /\ call[t].op = "link" /\ stack[t] = <<>> /\ lock[p] = None
      /\ slaves' = [slaves EXCEPT ![p] = Append(slaves[p], c)]
      /\ Retrigger(t, p, slaves'[p], cb) /\ UNCHANGED <<alive, pipe, parent>>
  BY DEF Link, Doing
<1>2. /\ c \in Cancels /\ p \in Cancels /\ p \in alive /\ Owner[c] = t
      /\ slaves[p] \in Seq(Cancels) /\ c \notin Entries(slaves[p])
      /\ slaves \in [Cancels -> Seq(Cancels)] /\ cb \in [Cancels -> {"none", "set", "called"}]
      /\ \A i, j \in DOMAIN slaves[p] : slaves[p][i] = slaves[p][j] => i = j
  BY <1>1, Facts DEF CallInv, CallOk, SlaveInv, TypeOK
<1>3. p \in Masters[c]
  BY <1>2, CancelAssumption DEF SlaveInv
<1> HIDE DEF c, p
<1>4. /\ Append(slaves[p], c) \in Seq(Cancels)
      /\ Entries(Append(slaves[p], c)) = Entries(slaves[p]) \cup {c}
      /\ \A i, j \in DOMAIN Append(slaves[p], c) :
           Append(slaves[p], c)[i] = Append(slaves[p], c)[j] => i = j
  BY <1>2, AppendIs
<1>5. /\ slaves' \in [Cancels -> Seq(Cancels)] /\ slaves'[p] = Append(slaves[p], c)
      /\ \A d \in Cancels \ {p} : slaves'[d] = slaves[d]
  BY <1>1, <1>2, <1>4
<1>6. slaves'[p] \in Seq(Cancels)
  BY <1>2, <1>5
<1>7. "triggering" \in Calls
  BY DEF Calls
<1>8. \/ Enter(t, p, slaves'[p], cb, <<>>) /\ Goto(t, "triggering")
      \/ Return(t) /\ UNCHANGED <<lock, triggered, cb, asleep, stack>> /\ ~triggered[p]
  BY <1>1 DEF Retrigger
<1>9. /\ \A u \in Threads \ {t} : call'[u] = call[u] /\ stack'[u] = stack[u]
      /\ \/ call'[t] = Idle /\ UNCHANGED <<lock, triggered, cb, asleep, stack>>
            /\ ~triggered[p]
         \/ /\ call'[t].op = "triggering" /\ call'[t].c = c
            /\ Enter(t, p, slaves'[p], cb, <<>>)
  <2>1. CASE Return(t) /\ UNCHANGED <<lock, triggered, cb, asleep, stack>> /\ ~triggered[p]
    BY <2>1, CallIs
  <2>2. CASE Enter(t, p, slaves'[p], cb, <<>>) /\ Goto(t, "triggering")
    <3>1. \A u \in Threads \ {t} : stack'[u] = stack[u]
      <4>1. stack' = [stack EXCEPT ![t] = <<[c |-> p, todo |-> slaves'[p]]>> \o <<>>]
        BY <2>2 DEF Enter
      <4>2. stack \in [Threads -> Seq(Levels)]
        BY LevelIs
      <4> QED
        BY <4>1, <4>2
    <3> QED
      BY <2>2, <3>1, <1>7, CallIs DEF c
  <2> QED
    BY <1>8, <2>1, <2>2
<1> QED
  BY <1>1, <1>2, <1>3, <1>4, <1>5, <1>9, ZenonT(60) DEF c, p

\* The object that is freed has neither parent nor slaves.
LEMMA DestroyIs ==
  ASSUME TypeOK, CallInv, SlaveInv, NEW t \in Threads, Destroy(t)
  PROVE  LET c == call[t].c IN
         /\ c \in Cancels /\ c \in alive /\ Owner[c] = t /\ c \notin Shared
         /\ stack[t] = <<>> /\ call[t].op = "free"
         /\ slaves[c] = <<>> /\ parent[c] = None
         /\ alive' = alive \ {c} /\ call'[t] = Idle
         /\ \A u \in Threads \ {t} : call'[u] = call[u]
         /\ UNCHANGED <<lock, triggered, cb, pipe, asleep, slaves, parent, stack>>
<1>1. /\ call[t].op = "free" /\ stack[t] = <<>> /\ alive' = alive \ {call[t].c} /\ Return(t)
      /\ UNCHANGED <<lock, triggered, cb, pipe, asleep, slaves, parent, stack>>
  BY DEF Destroy, Doing, mirrors
<1>2. /\ call[t].c \in Cancels /\ call[t].c \in alive /\ Owner[call[t].c] = t
      /\ call[t].c \notin Shared /\ slaves[call[t].c] = <<>> /\ parent[call[t].c] = None
  BY <1>1, Facts DEF CallInv, CallOk
<1> QED
  BY <1>1, <1>2, CallIs

\* What a thread may call.
LEMMA StartIs ==
  ASSUME TypeOK, CallInv, NEW t \in Threads, Start(t)
  PROVE  /\ call[t] = Idle /\ stack[t] = <<>>
         /\ \A u \in Threads \ {t} : call'[u] = call[u]
         /\ UNCHANGED <<alive, lock, triggered, cb, pipe, asleep, slaves, parent, stack>>
         /\ LET c == call'[t].c
                op == call'[t].op
            IN /\ c \in alive /\ op \in Operations
               /\ Owner[c] = t \/ (c \in Shared /\ op = "trigger")
               /\ op = "reset" => c \in Shared
               /\ op = "destroy" => c \notin Shared /\ slaves[c] = <<>>
               /\ op = "set_parent" => call'[t].to \in (Masters[c] \cap alive) \cup {None}
               /\ op # "set_parent" => call'[t].to = None
<1>1. PICK c \in alive : \E op \in Uses[c], p \in Masters[c] \cup {None} :
        /\ Owner[c] = t \/ (c \in Shared /\ op = "trigger")
        /\ op = "reset" => c \in Shared
        /\ op = "destroy" => c \notin Shared /\ slaves[c] = <<>>
        /\ IF op = "set_parent"
           THEN p # parent[c] /\ p \in alive \cup {None}
           ELSE p = None
        /\ call' = [call EXCEPT ![t] = [op |-> op, c |-> c, to |-> p]]
  BY DEF Start
<1>2. PICK op \in Uses[c], p \in Masters[c] \cup {None} :
        /\ Owner[c] = t \/ (c \in Shared /\ op = "trigger")
        /\ op = "reset" => c \in Shared
        /\ op = "destroy" => c \notin Shared /\ slaves[c] = <<>>
        /\ IF op = "set_parent"
           THEN p # parent[c] /\ p \in alive \cup {None}
           ELSE p = None
        /\ call' = [call EXCEPT ![t] = [op |-> op, c |-> c, to |-> p]]
  BY <1>1
<1>3. op \in Operations /\ c \in Cancels
  BY <1>2, CancelAssumption DEF TypeOK
<1>4. /\ call[t] = Idle
      /\ UNCHANGED <<alive, lock, triggered, cb, pipe, asleep, slaves, parent, stack>>
  BY DEF Start, mirrors
<1>5. stack[t] = <<>>
  BY <1>4 DEF CallInv, CallOk, Idle
<1>6. /\ call'[t] = [op |-> op, c |-> c, to |-> p]
      /\ \A u \in Threads \ {t} : call'[u] = call[u]
  BY <1>2 DEF TypeOK
<1> QED
  BY <1>2, <1>3, <1>4, <1>5, <1>6
-------------------------------------------------------------------------------

\* Every step keeps a slave in the list of its parent, and there once.
LEMMA SlaveNext ==
  ASSUME TypeOK, CallInv, SlaveInv, [Next]_vars
  PROVE  SlaveInv'
<1>0. /\ slaves \in [Cancels -> Seq(Cancels)] /\ parent \in [Cancels -> Cancels \cup {None}]
      /\ alive \subseteq Cancels /\ None \notin Cancels
      /\ \A c \in Cancels : Owner[c] \in Threads
  BY CancelAssumption DEF TypeOK
<1>1. ASSUME UNCHANGED <<alive, slaves, parent>>,
             \A u \in Threads : call[u].op = "link" => call'[u] = call[u]
      PROVE  SlaveInv'
  <2>1. \A c \in Cancels : call[Owner[c]].op = "link" => call'[Owner[c]] = call[Owner[c]]
    BY <1>0, <1>1
  <2> QED
    BY <1>1, <2>1 DEF SlaveInv
<1>2. ASSUME NEW t \in Threads, Start(t) PROVE SlaveInv'
  BY <1>1, <1>2, StartIs DEF Idle
<1>3. ASSUME NEW t \in Threads,
             \/ Trigger(t) \/ TriggerSlave(t) \/ Leave(t) \/ Reset(t) \/ SetCb(t) \/ GetFd(t)
             \/ WaitTest(t) \/ WaitTimeout(t)
      PROVE  SlaveInv'
  BY <1>1, <1>3, TreeKept
<1>4. ASSUME NEW t \in Threads, Unlink(t) PROVE SlaveInv'
  <2> DEFINE c == call[t].c
  <2>1. /\ c \in Cancels /\ c \in alive /\ Owner[c] = t
        /\ call[t].to \in (Masters[c] \cap alive) \cup {None}
        /\ Detached(c) /\ parent' = [parent EXCEPT ![c] = call[t].to]
        /\ UNCHANGED alive /\ \A u \in Threads \ {t} : call'[u] = call[u]
        /\ call[t].op # "link"
        /\ call[t].to = None \/ (call'[t].op = "link" /\ call'[t].c = c)
    BY <1>4, UnlinkIs DEF CallInv, CallOk
  <2> HIDE DEF c
  <2>2. /\ \A p \in Cancels : Entries(slaves'[p]) = Entries(slaves[p]) \ {c}
        /\ \A p \in Cancels : \A i, j \in DOMAIN slaves'[p] :
              slaves'[p][i] = slaves'[p][j] => i = j
    BY <2>1, DetachedIs
  <2>3. parent'[c] = call[t].to /\ \A d \in Cancels \ {c} : parent'[d] = parent[d]
    BY <1>0, <2>1
  <2>4. \A p \in Cancels : \A d \in Entries(slaves[p]) : d \in Cancels
    BY <1>0 DEF Entries
  <2>5. \A p \in Cancels : \A d \in Entries(slaves'[p]) : parent'[d] = p
    BY <2>2, <2>3, <2>4 DEF SlaveInv
  <2>6. \A d \in Cancels : parent'[d] \in (Masters[d] \cap alive') \cup {None}
    BY <2>1, <2>3 DEF SlaveInv
  <2>7. \A d \in Cancels : d \notin alive' => parent'[d] = None
    BY <2>1, <2>3 DEF SlaveInv
  <2>8. ASSUME NEW d \in Cancels
        PROVE  \/ parent'[d] = None \/ d \in Entries(slaves'[parent'[d]])
               \/ call'[Owner[d]].op = "link" /\ call'[Owner[d]].c = d
    <3>1. CASE d = c
      BY <2>1, <2>3, <3>1
    <3>2. CASE d # c
      <4>1. parent'[d] = parent[d] /\ parent[d] \in Cancels \cup {None}
        BY <1>0, <2>3, <3>2
      <4>2. call[Owner[d]].op = "link" => call'[Owner[d]] = call[Owner[d]]
        BY <1>0, <2>1
      <4> QED
        BY <2>2, <3>2, <4>1, <4>2 DEF SlaveInv
    <3> QED
      BY <3>1, <3>2
  <2> QED
    BY <2>2, <2>5, <2>6, <2>7, <2>8 DEF SlaveInv
<1>5. ASSUME NEW t \in Threads, Link(t) PROVE SlaveInv'
  <2> DEFINE c == call[t].c
             p == parent[c]
  <2>1. /\ c \in Cancels /\ p \in Cancels /\ Entries(slaves'[p]) = Entries(slaves[p]) \cup {c}
        /\ \A d \in Cancels \ {p} : slaves'[d] = slaves[d]
        /\ UNCHANGED <<alive, parent>> /\ \A u \in Threads \ {t} : call'[u] = call[u]
    BY ONLY <1>5, TypeOK, CallInv, SlaveInv, t \in Threads, LinkIs, ZenonT(80)
  <2>0. \A i, j \in DOMAIN slaves'[p] : slaves'[p][i] = slaves'[p][j] => i = j
    BY <1>5, LinkIs
  <2>2. \A q \in Cancels : \A d \in Entries(slaves'[q]) : parent[d] = q
    BY <2>1 DEF SlaveInv
  <2>3. \A q \in Cancels : \A i, j \in DOMAIN slaves'[q] : slaves'[q][i] = slaves'[q][j] => i = j
    BY <2>0, <2>1 DEF SlaveInv
  <2>4. ASSUME NEW d \in Cancels
        PROVE  \/ parent[d] = None \/ d \in Entries(slaves'[parent[d]])
               \/ call'[Owner[d]].op = "link" /\ call'[Owner[d]].c = d
    <3>1. CASE d = c
      BY <2>1, <3>1
    <3>2. CASE d # c
      <4>1. parent[d] \in Cancels \cup {None} /\ Owner[d] \in Threads
        BY <1>0
      <4>2. parent[d] \in Cancels =>
              Entries(slaves[parent[d]]) \subseteq Entries(slaves'[parent[d]])
        BY <2>1
      <4>3. call[Owner[d]].op = "link" /\ call[Owner[d]].c = d => call'[Owner[d]] = call[Owner[d]]
        BY <2>1, <3>2, <4>1
      <4> QED
        BY <4>1, <4>2, <4>3 DEF SlaveInv
    <3> QED
      BY <3>1, <3>2
  <2> QED
    BY <2>1, <2>2, <2>3, <2>4 DEF SlaveInv
<1>6. ASSUME NEW t \in Threads, Destroy(t) PROVE SlaveInv'
  <2>1. /\ call[t].c \in Cancels /\ parent[call[t].c] = None
        /\ alive' = alive \ {call[t].c} /\ UNCHANGED <<slaves, parent>>
        /\ \A u \in Threads : call[u].op = "link" => call'[u] = call[u] /\ u # t
        /\ Owner[call[t].c] = t /\ call[t].c \notin Shared
    BY <1>6, DestroyIs
  <2>2. \A c \in Cancels : call[Owner[c]].op = "link" => call'[Owner[c]] = call[Owner[c]]
    BY <1>0, <2>1
  <2>3. slaves[call[t].c] = <<>> /\ Entries(slaves[call[t].c]) = {}
    BY <1>0, <1>6, <2>1, DestroyIs, NoEntries
  <2>4. ASSUME NEW c \in Cancels, parent[c] = call[t].c
        PROVE  FALSE
    <3>1. c \notin Entries(slaves[parent[c]]) /\ parent[c] # None /\ parent[c] \in Masters[c]
      BY <1>0, <2>1, <2>3, <2>4 DEF SlaveInv
    <3>2. call[Owner[c]].op = "link"
      BY <3>1 DEF SlaveInv
    <3>3. Owner[c] = t
      BY <2>1, <2>4, <3>1, CancelAssumption
    <3> QED
      BY <1>0, <2>1, <3>2, <3>3
  <2>5. \A c \in Cancels : parent'[c] \in (Masters[c] \cap alive') \cup {None}
    BY <2>1, <2>4 DEF SlaveInv
  <2> QED
    BY <2>1, <2>2, <2>5 DEF SlaveInv
<1>7. CASE UNCHANGED vars
  BY <1>1, <1>7 DEF vars
<1> QED
  BY <1>2, <1>3, <1>4, <1>5, <1>6, <1>7 DEF Next, Steps

\* A call that is not disturbed keeps what it relies on.
LEMMA CallKept ==
  ASSUME NEW u \in Threads, CallOk(u), call'[u] = call[u], stack'[u] = stack[u],
         UNCHANGED <<alive, slaves, parent>>
  PROVE  CallOk(u)'
  BY DEF CallOk

\* Every step keeps what the calls of all threads rely on: only the owner of an object
\* moves or frees it, and frees no parent of an object it is adding or has.
LEMMA CallNext ==
  ASSUME TypeOK, CallInv, SlaveInv, [Next]_vars
  PROVE  CallInv'
<1>0. /\ slaves \in [Cancels -> Seq(Cancels)] /\ parent \in [Cancels -> Cancels \cup {None}]
      /\ alive \subseteq Cancels /\ None \notin Cancels
      /\ \A c \in Cancels : Masters[c] \subseteq Cancels
      /\ \A c \in Cancels : \A p \in Masters[c] : p \in Shared \/ Owner[p] = Owner[c]
  BY CancelAssumption DEF TypeOK
<1>1. ASSUME NEW t \in Threads, call'[t] = Idle, stack'[t] = <<>>
      PROVE  CallOk(t)'
  BY <1>1 DEF CallOk, Idle
<1>2. ASSUME NEW t \in Threads, Start(t) PROVE CallInv'
  <2>1. \A u \in Threads \ {t} : CallOk(u)'
    BY <1>2, StartIs, CallKept DEF CallInv
  <2>2. CallOk(t)'
    BY <1>2, StartIs DEF CallOk, Operations
  <2> QED
    BY <2>1, <2>2 DEF CallInv
<1>3. ASSUME NEW t \in Threads,
             \/ Trigger(t) \/ TriggerSlave(t) \/ Leave(t) \/ Reset(t) \/ SetCb(t) \/ GetFd(t)
             \/ WaitTest(t) \/ WaitTimeout(t)
      PROVE  CallInv'
  <2>1. \A u \in Threads \ {t} : CallOk(u)'
    BY <1>3, TreeKept, CallKept DEF CallInv
  <2>2. CallOk(t) /\ call[t].op # "idle" /\ UNCHANGED alive
    BY <1>3, TreeKept DEF CallInv
  <2>3. CallOk(t)'
    <3>1. CASE call'[t] = Idle /\ stack'[t] = <<>>
      BY <1>1, <3>1
    <3>2. CASE call'[t].op = "triggering" /\ call'[t].c = call[t].c
      <4>1. /\ call[t].c \in alive' /\ (Owner[call[t].c] = t \/ call[t].c \in Shared)
        BY <2>2 DEF CallOk
      <4> QED
        BY <3>2, <4>1 DEF CallOk
    <3>3. CASE call'[t] = call[t] /\ stack'[t] = stack[t]
      BY <1>3, <2>2, <3>3, TreeKept, CallKept
    <3> QED
      BY <1>3, <3>1, <3>2, <3>3, TreeKept
  <2> QED
    BY <2>1, <2>3 DEF CallInv
<1>4. ASSUME NEW t \in Threads, Unlink(t) PROVE CallInv'
  <2> DEFINE c == call[t].c
  <2>1. /\ c \in Cancels /\ c \in alive /\ Owner[c] = t
        /\ call[t].to \in Masters[c] \cup {None} /\ call[t].to \in alive \cup {None}
        /\ Detached(c) /\ stack[t] = <<>> /\ parent' = [parent EXCEPT ![c] = call[t].to]
        /\ UNCHANGED <<alive, stack>> /\ \A u \in Threads \ {t} : call'[u] = call[u]
    BY <1>4, UnlinkIs
  <2>2. /\ slaves' \in [Cancels -> Seq(Cancels)]
        /\ \A p \in Cancels : Entries(slaves'[p]) = Entries(slaves[p]) \ {c}
    BY <2>1, DetachedIs
  <2>3. parent'[c] = call[t].to /\ \A d \in Cancels \ {c} : parent'[d] = parent[d]
    BY <1>0, <2>1
  <2>4. ASSUME NEW d \in Cancels, slaves[d] = <<>> PROVE slaves'[d] = <<>>
    <3>1. Entries(slaves[d]) = {}
      BY <1>0, <2>4, NoEntries
    <3>2. Entries(slaves'[d]) = {} /\ slaves'[d] \in Seq(Cancels)
      BY <2>2, <3>1
    <3> QED
      BY <3>2, NoEntries
  <2>5. ASSUME NEW u \in Threads \ {t} PROVE CallOk(u)'
    <3>1. CallOk(u) /\ call'[u] = call[u] /\ stack'[u] = stack[u]
      BY <2>1 DEF CallInv
    <3>2. call[u].op \notin {"idle", "trigger", "triggering"}
            => call[u].c \in Cancels \ {c} /\ parent'[call[u].c] = parent[call[u].c]
      BY <1>0, <2>1, <2>3, <3>1 DEF CallOk
    <3>3. call[u].op = "link" => parent[call[u].c] \in Cancels
      BY <1>0, <3>1 DEF CallOk
    <3> QED
      BY <2>1, <2>2, <2>4, <3>1, <3>2, <3>3 DEF CallOk
  <2>6. CallOk(t)'
    <3>1. CASE call'[t] = Idle
      BY <1>1, <2>1, <3>1
    <3>2. CASE call[t].op = "destroy" /\ call'[t].op = "free" /\ call'[t].c = c
               /\ call'[t].to = call[t].to
      <4>1. CallOk(t)
        BY DEF CallInv
      <4> QED
        BY <2>1, <2>3, <2>4, <3>2, <4>1 DEF CallOk
    <3>3. CASE call'[t].op = "link" /\ call'[t].c = c /\ call[t].to # None
      <4>1. parent'[c] \in alive' /\ parent'[c] \in Cancels
        BY <1>0, <2>1, <2>3, <3>3
      <4>2. c \notin Entries(slaves'[parent'[c]])
        BY <2>2, <4>1
      <4> QED
        BY <2>1, <3>3, <4>1, <4>2 DEF CallOk
    <3> QED
      BY <1>4, <3>1, <3>2, <3>3, UnlinkIs
  <2> QED
    BY <2>5, <2>6 DEF CallInv
<1>5. ASSUME NEW t \in Threads, Link(t) PROVE CallInv'
  <2> DEFINE c == call[t].c
             p == parent[c]
  <2>1. /\ c \in Cancels /\ p \in Cancels /\ Owner[c] = t /\ p \in Masters[c]
        /\ stack[t] = <<>> /\ c \in alive
        /\ Entries(slaves'[p]) = Entries(slaves[p]) \cup {c}
        /\ \A d \in Cancels \ {p} : slaves'[d] = slaves[d]
        /\ UNCHANGED <<alive, parent>>
        /\ \A u \in Threads \ {t} : call'[u] = call[u] /\ stack'[u] = stack[u]
    BY <1>5, LinkIs, Facts
  <2>2. ASSUME NEW u \in Threads \ {t} PROVE CallOk(u)'
    <3>1. CallOk(u) /\ call'[u] = call[u] /\ stack'[u] = stack[u]
      BY <2>1 DEF CallInv
    <3>2. call[u].op \notin {"idle", "trigger", "triggering"}
            => call[u].c \in Cancels \ {c} /\ Owner[call[u].c] = u
      BY <1>0, <2>1, <3>1 DEF CallOk
    <3>3. p \in Shared \/ Owner[p] = t
      BY <1>0, <2>1
    <3>4. call[u].op \in {"destroy", "free"} => call[u].c # p
      BY <3>1, <3>2, <3>3 DEF CallOk
    <3>5. call[u].op = "link" => /\ parent[call[u].c] \in Cancels
                                 /\ Entries(slaves'[parent[call[u].c]])
                                      \subseteq Entries(slaves[parent[call[u].c]]) \cup {c}
      BY <1>0, <2>1, <3>1 DEF CallOk
    <3> QED
      BY <2>1, <3>1, <3>2, <3>4, <3>5 DEF CallOk
  <2>3. CallOk(t)'
    <3>1. CASE call'[t] = Idle /\ stack' = stack
      BY <1>1, <2>1, <3>1
    <3>2. CASE call'[t].op = "triggering" /\ call'[t].c = c
      BY <2>1, <3>2 DEF CallOk
    <3> QED
      BY <1>5, <3>1, <3>2, LinkIs
  <2> QED
    BY <2>2, <2>3 DEF CallInv
<1>6. ASSUME NEW t \in Threads, Destroy(t) PROVE CallInv'
  <2> DEFINE c == call[t].c
  <2>1. /\ c \in Cancels /\ Owner[c] = t /\ c \notin Shared
        /\ stack[t] = <<>> /\ alive' = alive \ {c} /\ call'[t] = Idle
        /\ \A u \in Threads \ {t} : call'[u] = call[u] /\ UNCHANGED <<slaves, parent, stack>>
    BY <1>6, DestroyIs
  <2>2. ASSUME NEW u \in Threads \ {t} PROVE CallOk(u)'
    <3>1. CallOk(u) /\ call'[u] = call[u] /\ stack'[u] = stack[u]
          /\ UNCHANGED <<slaves, parent>>
      BY <1>6, <2>1, DestroyIs DEF CallInv
    <3>2. call[u].op # "idle" => call[u].c \in Cancels \ {c}
      BY <1>0, <2>1, <3>1 DEF CallOk
    <3>3. call[u].op \in {"set_parent", "link"} => c \notin Masters[call[u].c]
      BY <1>0, <2>1, <3>1, <3>2 DEF CallOk
    <3>4. call[u].op = "link" => parent[call[u].c] \in Masters[call[u].c]
      BY <1>0, <3>1, <3>2 DEF CallOk, SlaveInv
    <3> QED
      BY <2>1, <3>1, <3>2, <3>3, <3>4 DEF CallOk
  <2>3. CallOk(t)'
    BY <1>1, <1>6, <2>1, DestroyIs
  <2> QED
    BY <2>2, <2>3 DEF CallInv
<1>7. CASE UNCHANGED vars
  BY <1>7, CallKept DEF vars, CallInv
<1> QED
  BY <1>2, <1>3, <1>4, <1>5, <1>6, <1>7 DEF Next, Steps
-------------------------------------------------------------------------------

\* The four operations that may enter trigger_locked with their own object, or the
\* parent they add it to: what they enter is free, and nothing else is touched.
LEMMA AddIs ==
  ASSUME TypeOK, CallInv, SlaveInv, NEW t \in Threads,
         Trigger(t) \/ SetCb(t) \/ GetFd(t) \/ Link(t)
  PROVE  /\ stack[t] = <<>> /\ call[t].op \notin {"idle", "wait"} /\ UNCHANGED alive
         /\ \A u \in Threads \ {t} : call'[u] = call[u] /\ stack'[u] = stack[u]
         /\ \E c \in Cancels :
              /\ lock[c] = None /\ c \in alive /\ (Owner[c] = t \/ c \in Shared)
              /\ \A d \in Cancels \ {c} :
                   /\ lock'[d] = lock[d] /\ triggered'[d] = triggered[d]
                   /\ slaves'[d] = slaves[d] /\ cb'[d] = cb[d] /\ pipe'[d] = pipe[d]
              /\ \/ /\ lock'[c] = t /\ triggered'[c] /\ cb'[c] # "set"
                    /\ asleep' \subseteq asleep /\ \A u \in asleep' : call[u].c # c
                    /\ DOMAIN stack'[t] = 1..1 /\ Len(stack'[t]) = 1
                    /\ stack'[t][1].c = c /\ stack'[t][1].todo = slaves'[c]
                 \/ /\ UNCHANGED <<lock, triggered, asleep, stack>>
                    /\ \/ UNCHANGED <<slaves, cb, pipe>>
                       \/ /\ ~triggered[c]
                          /\ cb'[c] \in {cb[c], "set"} /\ pipe'[c] \in {pipe[c], "empty"}
<1>0. /\ lock \in [Cancels -> Threads \cup {None}] /\ triggered \in [Cancels -> BOOLEAN]
      /\ cb \in [Cancels -> {"none", "set", "called"}] /\ "triggering" \in Calls
      /\ pipe \in [Cancels -> {"none", "empty", "readable"}]
  BY DEF TypeOK, Calls
<1> DEFINE Entered(c, list) ==
             /\ lock'[c] = t /\ triggered'[c] /\ cb'[c] # "set"
             /\ asleep' \subseteq asleep /\ \A u \in asleep' : call[u].c # c
             /\ DOMAIN stack'[t] = 1..1 /\ Len(stack'[t]) = 1
             /\ stack'[t][1].c = c /\ stack'[t][1].todo = list
<1>1. ASSUME NEW c \in Cancels, NEW list \in Seq(Cancels),
             NEW cbs \in [Cancels -> {"none", "set", "called"}], Enter(t, c, list, cbs, <<>>)
      PROVE  /\ Entered(c, list)
             /\ \A d \in Cancels \ {c} :
                  lock'[d] = lock[d] /\ triggered'[d] = triggered[d] /\ cb'[d] = cbs[d]
  <2>1. /\ lock' = [lock EXCEPT ![c] = t] /\ triggered' = [triggered EXCEPT ![c] = TRUE]
        /\ cb' = [cbs EXCEPT ![c] = IF cbs[c] = "none" THEN cbs[c] ELSE "called"]
        /\ asleep' \subseteq asleep /\ \A u \in asleep' : call[u].c # c
    BY <1>1 DEF Enter
  <2>2. /\ lock'[c] = t /\ triggered'[c] /\ cb'[c] # "set"
        /\ \A d \in Cancels \ {c} :
             lock'[d] = lock[d] /\ triggered'[d] = triggered[d] /\ cb'[d] = cbs[d]
    BY <1>0, <2>1
  <2> QED
    BY <1>1, <2>1, <2>2, EnterFirst
<1>2. ASSUME Trigger(t) \/ SetCb(t) \/ GetFd(t)
      PROVE  \A u \in Threads \ {t} : call'[u] = call[u] /\ stack'[u] = stack[u]
  BY <1>2, TreeKept
<1> HIDE DEF Entered
<1>3. CASE Trigger(t)
  <2> DEFINE c == call[t].c
  <2>1. /\ call[t].op = "trigger" /\ stack[t] = <<>> /\ lock[c] = None
        /\ UNCHANGED <<alive, pipe, slaves>> /\ Enter(t, c, slaves[c], cb, <<>>)
    BY <1>3 DEF Trigger, Doing
  <2>2. c \in Cancels /\ c \in alive /\ (Owner[c] = t \/ c \in Shared) /\ slaves[c] \in Seq(Cancels)
    BY <2>1, Facts
  <2> HIDE DEF c
  <2>3. /\ Entered(c, slaves[c])
        /\ \A d \in Cancels \ {c} :
             lock'[d] = lock[d] /\ triggered'[d] = triggered[d] /\ cb'[d] = cb[d]
    BY <1>0, <1>1, <2>1, <2>2
  <2> QED
    BY <1>2, <1>3, <2>1, <2>2, <2>3 DEF Entered
<1>4. CASE SetCb(t)
  <2> DEFINE c == call[t].c
             cbs == [cb EXCEPT ![c] = "set"]
  <2>1. /\ call[t].op = "set_cb" /\ stack[t] = <<>> /\ lock[c] = None
        /\ UNCHANGED <<alive, pipe, slaves>> /\ Retrigger(t, c, slaves[c], cbs)
    BY <1>4 DEF SetCb, Doing
  <2>2. c \in Cancels /\ c \in alive /\ (Owner[c] = t \/ c \in Shared) /\ slaves[c] \in Seq(Cancels)
    BY <2>1, Facts
  <2> HIDE DEF c
  <2>3. /\ cbs \in [Cancels -> {"none", "set", "called"}] /\ cbs[c] = "set"
        /\ \A d \in Cancels \ {c} : cbs[d] = cb[d]
    BY <1>0, <2>2
  <2> HIDE DEF cbs
  <2>4. \/ Enter(t, c, slaves[c], cbs, <<>>)
        \/ ~triggered[c] /\ cb' = cbs /\ UNCHANGED <<lock, triggered, asleep, stack>>
    BY <2>1, <2>2, <2>3, RetriggerIs
  <2>5. CASE Enter(t, c, slaves[c], cbs, <<>>)
    <3>1. /\ Entered(c, slaves[c])
          /\ \A d \in Cancels \ {c} :
               lock'[d] = lock[d] /\ triggered'[d] = triggered[d] /\ cb'[d] = cbs[d]
      BY <1>1, <2>2, <2>3, <2>5
    <3> QED
      BY <1>2, <1>4, <2>1, <2>2, <2>3, <3>1 DEF Entered
  <2>6. CASE ~triggered[c] /\ cb' = cbs /\ UNCHANGED <<lock, triggered, asleep, stack>>
    BY <1>2, <1>4, <2>1, <2>2, <2>3, <2>6
  <2> QED
    BY <2>4, <2>5, <2>6
<1>5. CASE GetFd(t)
  <2> DEFINE c == call[t].c
  <2>1. /\ call[t].op = "get_fd" /\ stack[t] = <<>> /\ lock[c] = None
        /\ UNCHANGED <<alive, slaves>>
        /\ \/ pipe' = [pipe EXCEPT ![c] = "empty"] /\ Retrigger(t, c, slaves[c], cb)
           \/ UNCHANGED <<lock, triggered, cb, pipe, asleep, stack>>
    BY <1>5 DEF GetFd, Doing, mirrors
  <2>2. c \in Cancels /\ c \in alive /\ (Owner[c] = t \/ c \in Shared) /\ slaves[c] \in Seq(Cancels)
    BY <2>1, Facts
  <2> HIDE DEF c
  <2>3. pipe' = [pipe EXCEPT ![c] = "empty"]
          => pipe'[c] = "empty" /\ \A d \in Cancels \ {c} : pipe'[d] = pipe[d]
    BY <1>0, <2>2
  <2>4. \/ pipe' = [pipe EXCEPT ![c] = "empty"] /\ Enter(t, c, slaves[c], cb, <<>>)
        \/ /\ pipe' = [pipe EXCEPT ![c] = "empty"]
           /\ ~triggered[c] /\ cb' = cb /\ UNCHANGED <<lock, triggered, asleep, stack>>
        \/ UNCHANGED <<lock, triggered, cb, pipe, asleep, stack>>
    BY <1>0, <2>1, <2>2, RetriggerIs
  <2>5. CASE pipe' = [pipe EXCEPT ![c] = "empty"] /\ Enter(t, c, slaves[c], cb, <<>>)
    <3>1. /\ Entered(c, slaves[c])
          /\ \A d \in Cancels \ {c} :
               lock'[d] = lock[d] /\ triggered'[d] = triggered[d] /\ cb'[d] = cb[d]
      BY <1>0, <1>1, <2>2, <2>5
    <3> QED
      BY <1>2, <1>5, <2>1, <2>2, <2>3, <2>5, <3>1 DEF Entered
  <2>6. CASE /\ pipe' = [pipe EXCEPT ![c] = "empty"]
             /\ ~triggered[c] /\ cb' = cb /\ UNCHANGED <<lock, triggered, asleep, stack>>
    BY <1>2, <1>5, <2>1, <2>2, <2>3, <2>6
  <2>7. CASE UNCHANGED <<lock, triggered, cb, pipe, asleep, stack>>
    BY <1>2, <1>5, <2>1, <2>2, <2>7
  <2> QED
    BY <2>4, <2>5, <2>6, <2>7
<1>6. CASE Link(t)
  <2> DEFINE c == call[t].c
             p == parent[c]
  <2>1. /\ c \in Cancels /\ p \in Cancels /\ p \in alive /\ Owner[c] = t /\ p \in Masters[c]
        /\ lock[p] = None /\ stack[t] = <<>> /\ call[t].op = "link"
        /\ slaves' \in [Cancels -> Seq(Cancels)] /\ \A d \in Cancels \ {p} : slaves'[d] = slaves[d]
        /\ UNCHANGED <<alive, pipe>>
    BY <1>6, LinkIs, Zenon
  <2>2. /\ \A u \in Threads \ {t} : call'[u] = call[u] /\ stack'[u] = stack[u]
        /\ \/ UNCHANGED <<lock, triggered, cb, asleep, stack>> /\ ~triggered[p]
           \/ Enter(t, p, slaves'[p], cb, <<>>)
    BY <1>6, LinkIs, Zenon
  <2>3. Owner[p] = t \/ p \in Shared
    BY <2>1, CancelAssumption
  <2> HIDE DEF c, p
  <2>4. CASE Enter(t, p, slaves'[p], cb, <<>>)
    <3>1. /\ Entered(p, slaves'[p])
          /\ \A d \in Cancels \ {p} :
               lock'[d] = lock[d] /\ triggered'[d] = triggered[d] /\ cb'[d] = cb[d]
      BY <1>0, <1>1, <2>1, <2>4
    <3> QED
      BY <2>1, <2>2, <2>3, <3>1 DEF Entered
  <2>5. CASE UNCHANGED <<lock, triggered, cb, asleep, stack>> /\ ~triggered[p]
    BY <2>1, <2>2, <2>3, <2>5
  <2> QED
    BY <2>2, <2>4, <2>5
<1> QED
  BY <1>3, <1>4, <1>5, <1>6
-------------------------------------------------------------------------------

\* A step leaves what is locked alone: it is not freed, its list and its callback stay
\* and nobody goes to sleep on it. The only flags that are reset are those of shared
\* objects, which are no slaves.
Undisturbed ==
  /\ \A d \in Cancels : lock[d] # None =>
       (d \in alive => d \in alive') /\ slaves'[d] = slaves[d] /\ cb'[d] = cb[d]
  /\ \A d \in Cancels : triggered[d] => triggered'[d] \/ (lock[d] = None /\ d \in Shared)
  /\ \A u \in asleep' : (u \in asleep /\ call'[u].c = call[u].c) \/ lock[call'[u].c] = None

\* Then what holds of an object in trigger_locked goes on to hold.
LEMMA HeldKept ==
  ASSUME TypeOK, SlaveInv, StackInv, Undisturbed, NEW u \in Threads, NEW i \in DOMAIN stack[u]
  PROVE  LET c == stack[u][i].c IN
         /\ c \in Cancels /\ lock[c] = u /\ c \in alive'
         /\ slaves'[c] = slaves[c] /\ slaves[c] \in Seq(Cancels)
         /\ triggered'[c] /\ cb'[c] # "set" /\ \A v \in asleep' : call'[v].c # c
         /\ Entries(stack[u][i].todo) \subseteq Entries(slaves[c])
         /\ \A s \in Entries(slaves[c]) : s \in Entries(stack[u][i].todo) \/ triggered'[s]
<1> DEFINE c == stack[u][i].c
           todo == stack[u][i].todo
<1>1. EntryInv(u, i)
  BY DEF StackInv
<1>2. /\ c \in alive /\ lock[c] = u /\ triggered[c] /\ cb[c] # "set"
      /\ \A v \in asleep : call[v].c # c
      /\ Entries(todo) \subseteq Entries(slaves[c])
      /\ \A s \in Entries(slaves[c]) : s \in Entries(todo) \/ triggered[s]
  BY <1>1 DEF EntryInv
<1> HIDE DEF c, todo
<1>3. c \in Cancels /\ u # None /\ slaves[c] \in Seq(Cancels)
  BY <1>2, CancelAssumption DEF TypeOK
<1>4. /\ c \in alive' /\ slaves'[c] = slaves[c] /\ cb'[c] # "set"
      /\ \A v \in asleep' : call'[v].c # c
  BY <1>2, <1>3 DEF Undisturbed
<1>5. triggered'[c]
  BY <1>2, <1>3 DEF Undisturbed
<1>6. ASSUME NEW s \in Entries(slaves[c]), triggered[s]
      PROVE  triggered'[s]
  <2>1. s \in Cancels
    BY <1>3 DEF Entries
  <2>2. c \in Masters[s] \cup {None}
    BY <1>3, <2>1 DEF SlaveInv
  <2>3. s \notin Shared
    BY <1>3, <2>1, <2>2, CancelAssumption
  <2> QED
    BY <1>6, <2>1, <2>3 DEF Undisturbed
<1> QED
  BY <1>2, <1>3, <1>4, <1>5, <1>6 DEF c, todo

\* A level whose thread keeps its locks and its levels.
LEMMA EntryKept ==
  ASSUME TypeOK, SlaveInv, StackInv, Undisturbed, NEW u \in Threads, NEW i \in DOMAIN stack[u],
         stack'[u] = stack[u], lock'[stack[u][i].c] = u
  PROVE  EntryInv(u, i)'
<1>1. EntryInv(u, i)
  BY DEF StackInv
<1>2. i < Len(stack[u]) => i + 1 \in DOMAIN stack[u]
  <2>1. stack[u] \in Seq(Levels)
    BY LevelIs
  <2> QED
    BY <2>1
<1>3. i < Len(stack[u]) => slaves'[stack[u][i + 1].c] = slaves[stack[u][i + 1].c]
  BY <1>2, HeldKept
<1> QED
  BY <1>1, <1>3, HeldKept DEF EntryInv

\* A step that takes and leaves no lock.
LEMMA SameStack ==
  ASSUME TypeOK, SlaveInv, StackInv, Undisturbed, UNCHANGED <<lock, stack>>
  PROVE  StackInv'
<1>1. ASSUME NEW u \in Threads, NEW i \in DOMAIN stack'[u]
      PROVE  EntryInv(u, i)'
  BY <1>1, HeldKept, EntryKept
<1> QED
  BY <1>1 DEF StackInv

\* The steps but those of trigger_locked do not disturb it.
LEMMA QuietSteps ==
  ASSUME TypeOK, CallInv, SlaveInv, StackInv, NEW t \in Threads,
         \/ Start(t) \/ Reset(t) \/ Unlink(t) \/ Destroy(t) \/ WaitTest(t) \/ WaitTimeout(t)
  PROVE  Undisturbed /\ UNCHANGED <<lock, stack>>
<1>0. /\ asleep \subseteq {u \in Threads : call[u].op = "wait"} /\ alive \subseteq Cancels
      /\ lock \in [Cancels -> Threads \cup {None}] /\ None \notin Threads \cup Cancels
      /\ triggered \in [Cancels -> BOOLEAN] /\ cb \in [Cancels -> {"none", "set", "called"}]
  BY CancelAssumption DEF TypeOK
<1>1. CASE Start(t)
  BY <1>0, <1>1, StartIs DEF Undisturbed, Idle
<1>2. CASE Reset(t)
  <2> DEFINE c == call[t].c
  <2>1. /\ call[t].op = "reset" /\ lock[c] = None /\ c \in Shared
        /\ triggered' = [triggered EXCEPT ![c] = FALSE]
        /\ cb' = [cb EXCEPT ![c] = IF cb[c] = "none" THEN cb[c] ELSE "set"]
        /\ Return(t) /\ UNCHANGED <<alive, lock, slaves, asleep, stack>>
    BY <1>2 DEF Reset, Doing, CallInv, CallOk
  <2>2. \A u \in Threads \ {t} : call'[u] = call[u]
    BY <2>1, CallIs
  <2>3. c \in Cancels
    BY <2>1, Facts
  <2> HIDE DEF c
  <2>4. \A d \in Cancels \ {c} : triggered'[d] = triggered[d] /\ cb'[d] = cb[d]
    BY <1>0, <2>1, <2>3
  <2>5. \A d \in Cancels : lock[d] # None => slaves'[d] = slaves[d] /\ cb'[d] = cb[d]
    BY <2>1, <2>4
  <2>6. \A d \in Cancels : triggered[d] => triggered'[d] \/ (lock[d] = None /\ d \in Shared)
    BY <2>1, <2>4
  <2>7. \A u \in asleep' : u \in asleep /\ call'[u].c = call[u].c
    BY <1>0, <2>1, <2>2
  <2> QED
    BY <2>1, <2>5, <2>6, <2>7 DEF Undisturbed
<1>3. CASE Unlink(t)
  <2> DEFINE c == call[t].c
  <2>1. /\ c \in Cancels /\ Detached(c) /\ call[t].op \in {"set_parent", "destroy"}
        /\ parent[c] \in {None} \cup {p \in Cancels : lock[p] = None}
        /\ UNCHANGED <<alive, lock, triggered, cb, asleep, stack>>
        /\ \A u \in Threads \ {t} : call'[u] = call[u]
    BY <1>3, UnlinkIs
  <2> HIDE DEF c
  <2>2. \A d \in Cancels : lock[d] # None => slaves'[d] = slaves[d]
    BY <1>0, <2>1, DetachedIs
  <2>3. \A u \in asleep' : u \in asleep /\ call'[u].c = call[u].c
    BY <1>0, <2>1
  <2> QED
    BY <2>1, <2>2, <2>3 DEF Undisturbed
<1>4. CASE Destroy(t)
  <2> DEFINE c == call[t].c
  <2>1. /\ c \in Cancels /\ Owner[c] = t /\ c \notin Shared /\ stack[t] = <<>>
        /\ parent[c] = None /\ alive' = alive \ {c} /\ call[t].op = "free"
        /\ UNCHANGED <<lock, triggered, cb, asleep, slaves, stack>>
        /\ \A u \in Threads \ {t} : call'[u] = call[u]
    BY <1>4, DestroyIs
  <2> HIDE DEF c
  <2>2. ASSUME lock[c] # None PROVE FALSE
    <3> DEFINE u == lock[c]
    <3>1. u \in Threads
      BY <1>0, <2>1, <2>2
    <3>2. PICK i \in DOMAIN stack[u] : stack[u][i].c = c
      BY <2>1, <2>2 DEF StackInv
    <3>3. /\ i = Len(stack[u]) => Owner[c] = u
          /\ i < Len(stack[u]) => c \in Entries(slaves[stack[u][i + 1].c])
      BY <2>1, <3>1, <3>2 DEF StackInv, EntryInv
    <3> HIDE DEF u
    <3>4. stack[u] \in Seq(Levels)
      BY <3>1, LevelIs
    <3>5. i = Len(stack[u]) \/ (i < Len(stack[u]) /\ i + 1 \in DOMAIN stack[u])
      BY <3>2, <3>4
    <3>6. CASE i = Len(stack[u])
      <4>1. stack[u] = <<>>
        BY <2>1, <3>3, <3>6
      <4> QED
        BY <3>2, <4>1
    <3>7. CASE i < Len(stack[u]) /\ i + 1 \in DOMAIN stack[u]
      <4>1. stack[u][i + 1].c \in Cancels
        BY <3>4, <3>7, LevelIs
      <4> QED
        BY <1>0, <2>1, <3>3, <3>7, <4>1 DEF SlaveInv
    <3> QED
      BY <3>5, <3>6, <3>7
  <2>3. \A u \in asleep' : u \in asleep /\ call'[u].c = call[u].c
    BY <1>0, <2>1
  <2> QED
    BY <2>1, <2>2, <2>3 DEF Undisturbed
<1>5. CASE WaitTest(t) \/ WaitTimeout(t)
  <2>1. /\ UNCHANGED <<alive, lock, triggered, cb, slaves, stack>>
        /\ \/ Return(t) /\ t \notin asleep' /\ asleep' \subseteq asleep
           \/ asleep' = asleep \cup {t} /\ call' = call /\ lock[call[t].c] = None
    BY <1>5 DEF WaitTest, WaitTimeout
  <2>2. \A u \in asleep' : (u \in asleep /\ call'[u].c = call[u].c) \/ lock[call'[u].c] = None
    BY <1>0, <2>1, CallIs
  <2> QED
    BY <2>1, <2>2 DEF Undisturbed
<1> QED
  BY <1>1, <1>2, <1>3, <1>4, <1>5

\* An operation that enters trigger_locked disturbs nobody: what it takes was free.
LEMMA AddUndisturbed ==
  ASSUME TypeOK, CallInv, SlaveInv, StackInv, NEW t \in Threads,
         Trigger(t) \/ SetCb(t) \/ GetFd(t) \/ Link(t)
  PROVE  Undisturbed
<1>0. /\ asleep \subseteq {u \in Threads : call[u].op = "wait"}
      /\ slaves \in [Cancels -> Seq(Cancels)] /\ cb \in [Cancels -> {"none", "set", "called"}]
      /\ triggered \in [Cancels -> BOOLEAN]
  BY DEF TypeOK
<1>1. /\ call[t].op # "wait" /\ UNCHANGED alive
      /\ \A u \in Threads \ {t} : call'[u] = call[u]
  BY AddIs
<1>2. PICK c \in Cancels :
        /\ lock[c] = None
        /\ \A d \in Cancels \ {c} :
             triggered'[d] = triggered[d] /\ slaves'[d] = slaves[d] /\ cb'[d] = cb[d]
        /\ \/ triggered'[c] /\ asleep' \subseteq asleep
           \/ UNCHANGED <<triggered, asleep>>
  BY AddIs
<1>3. asleep' \subseteq asleep
  BY <1>2
<1>4. \A u \in asleep' : u \in asleep /\ call'[u].c = call[u].c
  BY <1>0, <1>1, <1>3
<1>5. \A d \in Cancels : triggered[d] => triggered'[d]
  BY <1>2
<1> QED
  BY <1>1, <1>2, <1>4, <1>5 DEF Undisturbed

\* Entering trigger_locked from a call.
LEMMA AddStack ==
  ASSUME TypeOK, CallInv, SlaveInv, StackInv, NEW t \in Threads,
         Trigger(t) \/ SetCb(t) \/ GetFd(t) \/ Link(t)
  PROVE  StackInv'
<1>1. /\ stack[t] = <<>> /\ call[t].op # "wait" /\ UNCHANGED alive
      /\ \A u \in Threads \ {t} : call'[u] = call[u] /\ stack'[u] = stack[u]
  BY AddIs
<1>2. Undisturbed /\ lock \in [Cancels -> Threads \cup {None}] /\ None \notin Threads
      /\ asleep \subseteq {u \in Threads : call[u].op = "wait"}
      /\ \A u \in Threads : stack[u] \in Seq(Levels)
  BY AddUndisturbed, LevelIs, CancelAssumption DEF TypeOK
<1>3. PICK c \in Cancels :
        /\ lock[c] = None /\ c \in alive /\ (Owner[c] = t \/ c \in Shared)
        /\ \A d \in Cancels \ {c} : lock'[d] = lock[d]
        /\ \/ /\ lock'[c] = t /\ triggered'[c] /\ cb'[c] # "set"
              /\ asleep' \subseteq asleep /\ \A u \in asleep' : call[u].c # c
              /\ DOMAIN stack'[t] = 1..1 /\ Len(stack'[t]) = 1
              /\ stack'[t][1].c = c /\ stack'[t][1].todo = slaves'[c]
           \/ UNCHANGED <<lock, stack>>
  BY AddIs
<1>4. CASE UNCHANGED <<lock, stack>>
  BY <1>2, <1>4, SameStack
<1>5. CASE /\ lock'[c] = t /\ triggered'[c] /\ cb'[c] # "set"
           /\ asleep' \subseteq asleep /\ \A u \in asleep' : call[u].c # c
           /\ DOMAIN stack'[t] = 1..1 /\ Len(stack'[t]) = 1
           /\ stack'[t][1].c = c /\ stack'[t][1].todo = slaves'[c]
  <2>1. \A u \in asleep' : call'[u].c # c
    BY <1>1, <1>2, <1>5
  <2>2. EntryInv(t, 1)'
    BY <1>1, <1>3, <1>5, <2>1 DEF EntryInv
  <2>3. DOMAIN stack'[t] = {1}
    BY <1>5
  <2>4. ASSUME NEW u \in Threads \ {t}, NEW i \in DOMAIN stack'[u]
        PROVE  EntryInv(u, i)'
    <3>1. i \in DOMAIN stack[u] /\ stack'[u] = stack[u]
      BY <1>1, <2>4
    <3>2. stack[u][i].c \in Cancels \ {c} /\ lock[stack[u][i].c] = u
      BY <1>2, <1>3, <3>1, HeldKept
    <3>3. lock'[stack[u][i].c] = u
      BY <1>3, <3>2
    <3> QED
      BY <1>2, <3>1, <3>3, EntryKept
  <2>5. \A u \in Threads : \A i, j \in DOMAIN stack'[u] :
          stack'[u][i].c = stack'[u][j].c => i = j
    <3>1. \A u \in Threads \ {t} : \A i, j \in DOMAIN stack'[u] :
            stack'[u][i].c = stack'[u][j].c => i = j
      BY <1>1 DEF StackInv
    <3> QED
      BY <2>3, <3>1
  <2>6. ASSUME NEW d \in Cancels, lock'[d] # None
        PROVE  \E i \in DOMAIN stack'[lock'[d]] : stack'[lock'[d]][i].c = d
    <3>1. CASE d = c
      BY <1>5, <2>3, <3>1
    <3>2. CASE d # c
      <4>1. lock'[d] = lock[d] /\ lock[d] \in Threads
        BY <1>2, <1>3, <2>6, <3>2
      <4>2. PICK i \in DOMAIN stack[lock[d]] : stack[lock[d]][i].c = d
        BY <2>6, <4>1 DEF StackInv
      <4>3. lock[d] # t
        BY <1>1, <4>2
      <4> QED
        BY <1>1, <4>1, <4>2, <4>3
    <3> QED
      BY <3>1, <3>2
  <2> QED
    BY <2>2, <2>3, <2>4, <2>5, <2>6 DEF StackInv
<1> QED
  BY <1>3, <1>4, <1>5

\* Going down to a slave, with all objects above it locked.
LEMMA DownStack ==
  ASSUME TypeOK, CallInv, SlaveInv, StackInv, NEW t \in Threads, TriggerSlave(t)
  PROVE  Undisturbed /\ StackInv'
<1> DEFINE n == Len(stack[t])
           top == stack[t][1]
           s == top.todo[1]
           below == <<[top EXCEPT !.todo = Tail(@)]>> \o Tail(stack[t])
<1>1. /\ n \in Nat /\ n > 0 /\ 1 \in DOMAIN stack[t] /\ DOMAIN stack[t] = 1..n
      /\ s \in Cancels /\ 1 \in DOMAIN top.todo /\ lock[s] = None
      /\ Enter(t, s, slaves[s], cb, below) /\ below \in Seq(Levels)
  BY TriggerSlaveIs
<1>2. /\ DOMAIN stack'[t] = 1..n + 1 /\ Len(stack'[t]) = n + 1
      /\ stack'[t][1].c = s /\ stack'[t][1].todo = slaves[s]
      /\ stack'[t][2].c = top.c
      /\ Entries(top.todo) = Entries(stack'[t][2].todo) \cup {s}
      /\ \A i \in 2..n : stack'[t][i + 1] = stack[t][i]
  BY TriggerSlaveIs
<1>3. UNCHANGED <<alive, slaves, parent, call>>
  BY DEF TriggerSlave
<1>4. /\ slaves \in [Cancels -> Seq(Cancels)] /\ cb \in [Cancels -> {"none", "set", "called"}]
      /\ triggered \in [Cancels -> BOOLEAN] /\ lock \in [Cancels -> Threads \cup {None}]
      /\ None \notin Threads \cup Cancels /\ alive \subseteq Cancels
  BY CancelAssumption DEF TypeOK
<1>5. s \in Entries(top.todo)
  BY <1>1 DEF Entries
<1> HIDE DEF below, s, top, n
<1>6. /\ lock'[s] = t /\ triggered'[s] /\ cb'[s] # "set"
      /\ asleep' \subseteq asleep /\ \A u \in asleep' : call[u].c # s
      /\ \A d \in Cancels \ {s} :
           lock'[d] = lock[d] /\ triggered'[d] = triggered[d] /\ cb'[d] = cb[d]
      /\ \A u \in Threads \ {t} : stack'[u] = stack[u]
  <2>1. /\ lock' = [lock EXCEPT ![s] = t] /\ triggered' = [triggered EXCEPT ![s] = TRUE]
        /\ cb' = [cb EXCEPT ![s] = IF cb[s] = "none" THEN cb[s] ELSE "called"]
        /\ asleep' \subseteq asleep /\ \A u \in asleep' : call[u].c # s
    BY <1>1 DEF Enter
  <2>2. /\ lock'[s] = t /\ triggered'[s] /\ cb'[s] # "set"
        /\ \A d \in Cancels \ {s} :
             lock'[d] = lock[d] /\ triggered'[d] = triggered[d] /\ cb'[d] = cb[d]
    BY <1>1, <1>4, <2>1
  <2>3. slaves[s] \in Seq(Cancels)
    BY <1>1, <1>4
  <2>4. \A u \in Threads \ {t} : stack'[u] = stack[u]
    BY <1>1, <1>4, <2>3, EnterIs
  <2> QED
    BY <2>1, <2>2, <2>4
<1>7. Undisturbed
  BY <1>1, <1>3, <1>6 DEF Undisturbed
<1>8. \A u \in Threads : \A i \in DOMAIN stack[u] :
        stack[u][i].c \in Cancels \ {s} /\ lock'[stack[u][i].c] = u
  <2>1. \A u \in Threads : \A i \in DOMAIN stack[u] :
          stack[u][i].c \in Cancels /\ lock[stack[u][i].c] = u
    BY <1>7, HeldKept
  <2> QED
    BY <1>1, <1>4, <1>6, <2>1
<1>9. top.c \in Cancels /\ Entries(top.todo) \subseteq Entries(slaves[top.c])
  BY <1>1, <1>7, HeldKept DEF top
<1>10. s \in alive
  <2>1. parent[s] = top.c
    BY <1>5, <1>9 DEF SlaveInv
  <2> QED
    BY <1>1, <1>4, <1>9, <2>1 DEF SlaveInv
<1>11. EntryInv(t, 1)'
  <2>1. ~(1 = n + 1) /\ 1 < n + 1 /\ 1 + 1 = 2
    BY <1>1
  <2>2. s \in Entries(slaves'[stack'[t][1 + 1].c])
    BY <1>2, <1>3, <1>5, <1>9, <2>1
  <2> QED
    BY <1>2, <1>3, <1>6, <1>10, <2>1, <2>2 DEF EntryInv
<1>12. ASSUME NEW i \in 1..n
       PROVE  EntryInv(t, i + 1)'
  <2> DEFINE c == stack[t][i].c
  <2>1. EntryInv(t, i)
    BY <1>1 DEF StackInv
  <2>2. stack'[t][i + 1].c = c
    <3>1. i = 1 \/ i \in 2..n
      BY <1>1
    <3> QED
      BY <1>2, <3>1 DEF top
  <2>3. /\ Entries(stack'[t][i + 1].todo) \subseteq Entries(stack[t][i].todo)
        /\ Entries(stack[t][i].todo) \subseteq Entries(stack'[t][i + 1].todo) \cup {s}
    <3>1. i = 1 \/ i \in 2..n
      BY <1>1
    <3> QED
      BY <1>2, <3>1 DEF top
  <2>4. i + 1 = n + 1 => c \in Shared \/ Owner[c] = t
    BY <1>1, <2>1 DEF EntryInv, n
  <2>5. i + 1 < n + 1 => c \in Entries(slaves[stack'[t][i + 1 + 1].c])
    <3>1. ASSUME i + 1 < n + 1
          PROVE  i < n /\ i + 1 \in 2..n
      BY <1>1, <3>1
    <3> QED
      BY <1>2, <2>1, <3>1 DEF EntryInv, n
  <2>6. /\ c \in alive' /\ lock'[c] = t /\ triggered'[c] /\ cb'[c] # "set"
        /\ \A v \in asleep' : call'[v].c # c
        /\ Entries(stack[t][i].todo) \subseteq Entries(slaves[c])
        /\ \A r \in Entries(slaves[c]) : r \in Entries(stack[t][i].todo) \/ triggered'[r]
    <3>1. i \in DOMAIN stack[t]
      BY <1>1
    <3>2. lock'[c] = t
      BY <1>8, <3>1
    <3>3. c \in alive' /\ triggered'[c] /\ cb'[c] # "set" /\ \A v \in asleep' : call'[v].c # c
      BY <1>7, <3>1, HeldKept
    <3>4. /\ Entries(stack[t][i].todo) \subseteq Entries(slaves[c])
          /\ \A r \in Entries(slaves[c]) : r \in Entries(stack[t][i].todo) \/ triggered'[r]
      BY <1>7, <3>1, HeldKept
    <3> QED
      BY <3>2, <3>3, <3>4
  <2> HIDE DEF c
  <2>7. /\ Entries(stack'[t][i + 1].todo) \subseteq Entries(slaves'[c])
        /\ \A r \in Entries(slaves'[c]) : r \in Entries(stack'[t][i + 1].todo) \/ triggered'[r]
    BY <1>3, <1>6, <2>3, <2>6
  <2> QED
    BY <1>2, <1>3, <2>2, <2>4, <2>5, <2>6, <2>7 DEF EntryInv
<1>13. ASSUME NEW u \in Threads, NEW i \in DOMAIN stack'[u]
       PROVE  EntryInv(u, i)'
  <2>1. CASE u # t
    BY <1>6, <1>7, <1>8, <1>13, <2>1, EntryKept
  <2>2. CASE u = t /\ i = 1
    BY <1>11, <2>2
  <2>3. CASE u = t /\ i # 1
    <3>1. i - 1 \in 1..n /\ i - 1 + 1 = i
      BY <1>1, <1>2, <1>13, <2>3
    <3>2. EntryInv(t, i - 1 + 1)'
      BY <1>12, <3>1
    <3> QED
      BY <2>3, <3>1, <3>2
  <2> QED
    BY <2>1, <2>2, <2>3
<1>14. \A i \in DOMAIN stack'[t] :
         \/ i = 1 /\ stack'[t][i].c = s
         \/ i - 1 \in DOMAIN stack[t] /\ stack'[t][i].c = stack[t][i - 1].c
  <2>1. \A i \in 1..n + 1 : i = 1 \/ i = 2 \/ (i - 1 \in 2..n /\ i - 1 + 1 = i)
    BY <1>1
  <2> QED
    BY <1>1, <1>2, <2>1, SMTT(40) DEF top
<1>15. \A u \in Threads : \A i, j \in DOMAIN stack'[u] :
         stack'[u][i].c = stack'[u][j].c => i = j
  <2>1. \A u \in Threads \ {t} : \A i, j \in DOMAIN stack'[u] :
          stack'[u][i].c = stack'[u][j].c => i = j
    BY <1>6 DEF StackInv
  <2>2. \A i, j \in DOMAIN stack[t] : stack[t][i].c = stack[t][j].c => i = j
    BY DEF StackInv
  <2>3. \A i, j \in DOMAIN stack'[t] : stack'[t][i].c = stack'[t][j].c => i = j
    <3>1. \A i \in DOMAIN stack[t] : stack[t][i].c # s
      BY <1>8
    <3>2. \A i, j \in DOMAIN stack'[t] : i - 1 = j - 1 => i = j
      BY <1>1, <1>2
    <3> QED
      BY <1>14, <2>2, <3>1, <3>2
  <2> QED
    BY <2>1, <2>3
<1>16. ASSUME NEW d \in Cancels, lock'[d] # None
       PROVE  \E i \in DOMAIN stack'[lock'[d]] : stack'[lock'[d]][i].c = d
  <2>1. CASE d = s
    <3>1. 1 \in DOMAIN stack'[t]
      BY <1>1, <1>2
    <3> QED
      BY <1>2, <1>6, <2>1, <3>1
  <2>2. CASE d # s
    <3>1. lock'[d] = lock[d] /\ lock[d] \in Threads
      BY <1>4, <1>6, <1>16, <2>2
    <3>2. PICK i \in DOMAIN stack[lock[d]] : stack[lock[d]][i].c = d
      BY <1>16, <3>1 DEF StackInv
    <3>3. CASE lock[d] = t
      <4>1. i \in 1..n /\ i + 1 \in DOMAIN stack'[t]
        BY <1>1, <1>2, <3>2, <3>3
      <4>2. stack'[t][i + 1].c = d
        <5>1. i = 1 \/ i \in 2..n
          BY <1>1, <4>1
        <5> QED
          BY <1>2, <3>2, <3>3, <5>1 DEF top
      <4> QED
        BY <3>1, <3>3, <4>1, <4>2
    <3>4. CASE lock[d] # t
      BY <1>6, <3>1, <3>2, <3>4
    <3> QED
      BY <3>3, <3>4
  <2> QED
    BY <2>1, <2>2
<1> QED
  BY <1>7, <1>13, <1>15, <1>16 DEF StackInv

\* Coming back from a slave, or to the caller.
LEMMA UpStack ==
  ASSUME TypeOK, CallInv, SlaveInv, StackInv, NEW t \in Threads, Leave(t)
  PROVE  Undisturbed /\ StackInv'
<1> DEFINE n == Len(stack[t])
           c == stack[t][1].c
<1>1. /\ n \in Nat /\ n > 0 /\ 1 \in DOMAIN stack[t] /\ DOMAIN stack[t] = 1..n
      /\ c \in Cancels /\ (Return(t) \/ call' = call)
      /\ \A u \in Threads \ {t} : stack'[u] = stack[u]
      /\ DOMAIN stack'[t] = 1..n - 1 /\ Len(stack'[t]) = n - 1
      /\ \A i \in 1..n - 1 : stack'[t][i] = stack[t][i + 1]
      /\ lock'[c] = None /\ \A d \in Cancels \ {c} : lock'[d] = lock[d]
  BY LeaveIs
<1>2. UNCHANGED <<alive, triggered, cb, slaves, parent, asleep>> /\ call[t].op = "triggering"
  BY DEF Leave, CallInv, CallOk
<1>3. asleep \subseteq {u \in Threads : call[u].op = "wait"} /\ None \notin Threads
      /\ lock \in [Cancels -> Threads \cup {None}]
  BY CancelAssumption DEF TypeOK
<1>4. \A u \in asleep' : u \in asleep /\ call'[u].c = call[u].c
  BY <1>1, <1>2, <1>3, CallIs
<1>5. Undisturbed
  BY <1>2, <1>4 DEF Undisturbed
<1>6. \A u \in Threads : \A i \in DOMAIN stack[u] :
        stack[u][i].c \in Cancels /\ lock[stack[u][i].c] = u
  BY <1>5, HeldKept
<1>7. \A i \in DOMAIN stack[t] : stack[t][i].c = c => i = 1
  BY <1>1 DEF StackInv
<1>8. lock[c] = t
  BY <1>1, <1>6
<1> HIDE DEF n, c
<1>9. ASSUME NEW i \in 1..n - 1
      PROVE  EntryInv(t, i)'
  <2>1. /\ i + 1 \in DOMAIN stack[t] /\ stack'[t][i] = stack[t][i + 1]
        /\ i + 1 \in 1..n /\ i + 1 # 1
    <3>1. i + 1 \in 1..n /\ i + 1 # 1
      BY <1>1
    <3> QED
      BY <1>1, <3>1
  <2> DEFINE d == stack[t][i + 1].c
  <2>2. EntryInv(t, i + 1) /\ stack'[t][i].c = d
    BY <2>1 DEF StackInv
  <2>3. d # c /\ lock'[d] = t
    BY <1>1, <1>6, <1>7, <2>1
  <2>4. i = n - 1 => d \in Shared \/ Owner[d] = t
    BY <1>1, <2>1, <2>2 DEF EntryInv, n
  <2>5. i < n - 1 => d \in Entries(slaves[stack'[t][i + 1].c])
    <3>1. ASSUME i < n - 1
          PROVE  i + 1 < n /\ i + 1 \in 1..n - 1
      BY <1>1, <3>1
    <3> QED
      BY <1>1, <2>2, <3>1 DEF EntryInv, n
  <2>6. /\ d \in alive' /\ triggered'[d] /\ cb'[d] # "set"
        /\ \A v \in asleep' : call'[v].c # d
        /\ Entries(stack'[t][i].todo) \subseteq Entries(slaves'[d])
        /\ \A r \in Entries(slaves'[d]) : r \in Entries(stack'[t][i].todo) \/ triggered'[r]
    <3>1. /\ d \in alive' /\ triggered'[d] /\ cb'[d] # "set" /\ slaves'[d] = slaves[d]
          /\ \A v \in asleep' : call'[v].c # d
          /\ Entries(stack[t][i + 1].todo) \subseteq Entries(slaves[d])
          /\ \A r \in Entries(slaves[d]) : r \in Entries(stack[t][i + 1].todo) \/ triggered'[r]
      BY <1>5, <2>1, HeldKept, SMTT(40)
    <3> HIDE DEF d
    <3> QED
      BY <2>1, <3>1
  <2> HIDE DEF d
  <2> QED
    BY <1>1, <1>2, <2>2, <2>3, <2>4, <2>5, <2>6 DEF EntryInv
<1>10. ASSUME NEW u \in Threads, NEW i \in DOMAIN stack'[u]
       PROVE  EntryInv(u, i)'
  <2>1. CASE u = t
    BY <1>1, <1>9, <1>10, <2>1
  <2>2. CASE u # t
    <3>1. stack'[u] = stack[u] /\ i \in DOMAIN stack[u]
      BY <1>1, <1>10, <2>2
    <3>2. lock'[stack[u][i].c] = u
      BY <1>1, <1>6, <1>8, <2>2, <3>1
    <3> QED
      BY <1>5, <3>1, <3>2, EntryKept
  <2> QED
    BY <2>1, <2>2
<1>11. \A u \in Threads : \A i, j \in DOMAIN stack'[u] :
         stack'[u][i].c = stack'[u][j].c => i = j
  <2>1. \A u \in Threads \ {t} : \A i, j \in DOMAIN stack'[u] :
          stack'[u][i].c = stack'[u][j].c => i = j
    BY <1>1 DEF StackInv
  <2>2. \A i, j \in DOMAIN stack[t] : stack[t][i].c = stack[t][j].c => i = j
    BY DEF StackInv
  <2>3. \A i \in DOMAIN stack'[t] : i + 1 \in DOMAIN stack[t] /\ stack'[t][i] = stack[t][i + 1]
    BY <1>1
  <2>4. \A i, j \in DOMAIN stack'[t] : i + 1 = j + 1 => i = j
    BY <1>1
  <2>5. \A i, j \in DOMAIN stack'[t] : stack'[t][i].c = stack'[t][j].c => i = j
    BY <2>2, <2>3, <2>4
  <2> QED
    BY <2>1, <2>5
<1>12. ASSUME NEW d \in Cancels, lock'[d] # None
       PROVE  \E i \in DOMAIN stack'[lock'[d]] : stack'[lock'[d]][i].c = d
  <2>1. d # c /\ lock'[d] = lock[d] /\ lock[d] \in Threads
    BY <1>1, <1>3, <1>12
  <2>2. PICK i \in DOMAIN stack[lock[d]] : stack[lock[d]][i].c = d
    BY <1>12, <2>1 DEF StackInv
  <2>3. CASE lock[d] = t
    <3>1. i # 1
      BY <2>1, <2>2, <2>3 DEF c
    <3>2. i - 1 \in 1..n - 1 /\ i - 1 + 1 = i
      BY <1>1, <2>2, <2>3, <3>1
    <3>3. i - 1 \in DOMAIN stack'[t] /\ stack'[t][i - 1].c = d
      BY <1>1, <2>2, <2>3, <3>2
    <3> QED
      BY <2>1, <2>3, <3>3
  <2>4. CASE lock[d] # t
    BY <1>1, <2>1, <2>2, <2>4
  <2> QED
    BY <2>3, <2>4
<1> QED
  BY <1>5, <1>10, <1>11, <1>12 DEF StackInv

\* Every step keeps the chains of locked objects.
LEMMA StackNext ==
  ASSUME TypeOK, CallInv, SlaveInv, StackInv, [Next]_vars
  PROVE  StackInv'
<1>1. CASE UNCHANGED vars
  <2>1. Undisturbed /\ UNCHANGED <<lock, stack>>
    BY <1>1 DEF vars, mirrors, Undisturbed
  <2> QED
    BY <2>1, SameStack
<1>2. ASSUME NEW t \in Threads, Start(t) \/ Steps(t) \/ WaitTimeout(t)
      PROVE  StackInv'
  <2>1. CASE Trigger(t) \/ SetCb(t) \/ GetFd(t) \/ Link(t)
    BY <2>1, AddStack
  <2>2. CASE TriggerSlave(t)
    BY <2>2, DownStack
  <2>3. CASE Leave(t)
    BY <2>3, UpStack
  <2>4. CASE \/ Start(t) \/ Reset(t) \/ Unlink(t) \/ Destroy(t)
             \/ WaitTest(t) \/ WaitTimeout(t)
    BY <2>4, QuietSteps, SameStack
  <2> QED
    BY <1>2, <2>1, <2>2, <2>3, <2>4 DEF Steps
<1> QED
  BY <1>1, <1>2 DEF Next

-------------------------------------------------------------------------------

\* The mirrors of an object show its flag.
MirrorOk(c) ==
  /\ triggered[c] => /\ cb[c] # "set" /\ pipe[c] # "empty"
                     /\ \A t \in asleep : call[t].c # c
                     /\ \A s \in Entries(slaves[c]) : triggered[s]
  /\ ~triggered[c] => cb[c] # "called" /\ pipe[c] # "readable"

\* MirrorsAgree says this of all objects nobody is at work on.
LEMMA MirrorsOk == MirrorsAgree <=> \A c \in alive : lock[c] = None => MirrorOk(c)
  BY DEF MirrorsAgree, MirrorOk, Entries

\* An object keeps its mirrors unless a step changes one: its slaves may get fewer, its
\* sleepers may wake, and its slaves may be triggered.
LEMMA MirrorKept ==
  ASSUME TypeOK, SlaveInv, NEW c \in Cancels, MirrorOk(c), triggered'[c] = triggered[c],
         cb'[c] = cb[c], pipe'[c] = pipe[c], Entries(slaves'[c]) \subseteq Entries(slaves[c]),
         \A u \in asleep' : (u \in asleep /\ call'[u].c = call[u].c) \/ call'[u].c # c,
         \A d \in Cancels : triggered[d] => triggered'[d] \/ d \in Shared
  PROVE  MirrorOk(c)'
<1>1. ASSUME NEW s \in Entries(slaves[c]), triggered[s]
      PROVE  triggered'[s]
  <2>1. slaves[c] \in Seq(Cancels) /\ c # None
    BY CancelAssumption DEF TypeOK
  <2>2. s \in Cancels
    BY <2>1 DEF Entries
  <2>3. c \in Masters[s] \cup {None}
    BY <2>2 DEF SlaveInv
  <2>4. s \notin Shared
    BY <2>1, <2>2, <2>3, CancelAssumption
  <2> QED
    BY <1>1, <2>2, <2>4
<1>2. CASE triggered[c]
  <2>1. triggered'[c] /\ cb'[c] # "set" /\ pipe'[c] # "empty"
    BY <1>2 DEF MirrorOk
  <2>2. \A u \in asleep' : call'[u].c # c
    BY <1>2 DEF MirrorOk
  <2>3. \A s \in Entries(slaves'[c]) : triggered'[s]
    BY <1>1, <1>2 DEF MirrorOk
  <2> QED
    BY <2>1, <2>2, <2>3 DEF MirrorOk
<1>3. CASE ~triggered[c]
  BY <1>3 DEF MirrorOk
<1> QED
  BY <1>2, <1>3

\* Every step leaves the mirrors of an object as they should be when it unlocks it.
LEMMA MirrorNext ==
  ASSUME TypeOK, CallInv, SlaveInv, StackInv, MirrorsAgree, [Next]_vars
  PROVE  MirrorsAgree'
<1>0. /\ triggered \in [Cancels -> BOOLEAN] /\ cb \in [Cancels -> {"none", "set", "called"}]
      /\ pipe \in [Cancels -> {"none", "empty", "readable"}] /\ alive \subseteq Cancels
      /\ slaves \in [Cancels -> Seq(Cancels)]
      /\ asleep \subseteq {u \in Threads : call[u].op = "wait"}
      /\ None \notin Threads \cup Cancels
  BY CancelAssumption DEF TypeOK
<1>00. \A c \in alive : lock[c] = None => MirrorOk(c)
  BY MirrorsOk
<1> DEFINE Goal == \A c \in alive' : lock'[c] = None => MirrorOk(c)'
<1>a. Goal => MirrorsAgree'
  BY DEF MirrorsAgree, MirrorOk, Entries
<1> HIDE DEF Goal
<1> SUFFICES Goal
  BY <1>a
<1>b. ASSUME alive' \subseteq alive, UNCHANGED <<lock, triggered, cb, pipe>>,
             \A c \in Cancels : Entries(slaves'[c]) \subseteq Entries(slaves[c]),
             \A u \in asleep' : \/ u \in asleep /\ call'[u].c = call[u].c
                                \/ ~triggered[call'[u].c]
      PROVE  Goal
  <2>1. ASSUME NEW c \in alive', lock'[c] = None
        PROVE  MirrorOk(c)'
    <3>1. c \in Cancels /\ MirrorOk(c)
      BY <1>0, <1>00, <1>b, <2>1
    <3>2. CASE triggered[c]
      BY <1>b, <3>1, <3>2, MirrorKept
    <3>3. CASE ~triggered[c]
      BY <1>b, <3>1, <3>3 DEF MirrorOk
    <3> QED
      BY <3>2, <3>3
  <2> QED
    BY <2>1 DEF Goal
<1>1. CASE UNCHANGED vars
  <2>1. UNCHANGED <<alive, lock, triggered, cb, pipe, slaves, asleep, call>>
    BY <1>1 DEF vars, mirrors
  <2> QED
    BY <1>b, <2>1
<1>2. ASSUME NEW t \in Threads, Start(t) PROVE Goal
  <2>1. /\ UNCHANGED <<alive, lock, triggered, cb, pipe, slaves, asleep>>
        /\ call[t] = Idle /\ \A u \in Threads \ {t} : call'[u] = call[u]
    BY <1>2, StartIs
  <2>2. \A u \in asleep' : u \in asleep /\ call'[u].c = call[u].c
    BY <1>0, <2>1 DEF Idle
  <2> QED
    BY <1>b, <2>1, <2>2
<1>3. ASSUME NEW t \in Threads, Unlink(t) PROVE Goal
  <2> DEFINE c == call[t].c
  <2>1. /\ c \in Cancels /\ Detached(c) /\ call[t].op \in {"set_parent", "destroy"}
        /\ UNCHANGED <<alive, lock, triggered, cb, pipe, asleep>>
        /\ \A u \in Threads \ {t} : call'[u] = call[u]
    BY <1>3, UnlinkIs DEF Unlink
  <2> HIDE DEF c
  <2>2. \A d \in Cancels : Entries(slaves'[d]) \subseteq Entries(slaves[d])
    BY <2>1, DetachedIs
  <2> QED
    BY <1>0, <1>b, <2>1, <2>2
<1>4. ASSUME NEW t \in Threads, Destroy(t) PROVE Goal
  <2>1. /\ alive' \subseteq alive /\ call[t].op = "free"
        /\ UNCHANGED <<lock, triggered, cb, pipe, asleep, slaves>>
        /\ \A u \in Threads \ {t} : call'[u] = call[u]
    BY <1>4, DestroyIs
  <2> QED
    BY <1>0, <1>b, <2>1
<1>5. ASSUME NEW t \in Threads, WaitTest(t) \/ WaitTimeout(t) PROVE Goal
  <2>1. /\ UNCHANGED <<alive, lock, triggered, cb, pipe, slaves>>
        /\ \/ Return(t) /\ t \notin asleep' /\ asleep' \subseteq asleep
           \/ asleep' = asleep \cup {t} /\ call' = call /\ ~triggered[call[t].c]
    BY <1>5 DEF WaitTest, WaitTimeout
  <2>2. \A u \in asleep' : (u \in asleep /\ call'[u].c = call[u].c) \/ ~triggered[call'[u].c]
    BY <1>0, <2>1, CallIs
  <2> QED
    BY <1>0, <1>b, <2>1, <2>2
<1>6. ASSUME NEW t \in Threads, Reset(t) PROVE Goal
  <2>0. call[t].op = "reset" /\ call[t].c \in Cancels
    <3>1. call[t].op = "reset"
      BY <1>6 DEF Reset, Doing
    <3> QED
      BY <3>1, Facts
  <2>3. PICK c \in Cancels : c = call[t].c
    BY <2>0
  <2>1. /\ call[t].op = "reset" /\ c \in Shared
        /\ triggered' = [triggered EXCEPT ![c] = FALSE]
        /\ cb' = [cb EXCEPT ![c] = IF cb[c] = "none" THEN cb[c] ELSE "set"]
        /\ pipe' = [pipe EXCEPT ![c] = IF pipe[c] = "none" THEN pipe[c] ELSE "empty"]
        /\ Return(t) /\ UNCHANGED <<alive, lock, slaves, asleep>>
    BY <1>6, <2>3 DEF Reset, Doing, CallInv, CallOk
  <2>2. \A u \in asleep' : u \in asleep /\ call'[u].c = call[u].c
    BY <1>0, <2>1, CallIs, SMTT(40)
  <2>4. \A d \in Cancels \ {c} :
          triggered'[d] = triggered[d] /\ cb'[d] = cb[d] /\ pipe'[d] = pipe[d]
    BY <1>0, <2>1, <2>3
  <2>5. ~triggered'[c] /\ cb'[c] # "called" /\ pipe'[c] # "readable"
    BY <1>0, <2>1, <2>3
  <2>6. MirrorOk(c)'
    BY <2>5 DEF MirrorOk
  <2>7. \A d \in Cancels : triggered[d] => triggered'[d] \/ d \in Shared
    BY <2>1, <2>4
  <2>8. ASSUME NEW d \in alive', lock'[d] = None, d # c
        PROVE  MirrorOk(d)'
    <3>1. d \in Cancels /\ MirrorOk(d)
      BY <1>0, <1>00, <2>1, <2>8
    <3> QED
      BY <2>1, <2>2, <2>4, <2>7, <2>8, <3>1, MirrorKept
  <2> QED
    BY <2>6, <2>8 DEF Goal
<1>7. ASSUME NEW t \in Threads, Leave(t) PROVE Goal
  <2>0. 1 \in DOMAIN stack[t] /\ stack[t][1].c \in Cancels /\ stack[t][1].todo = <<>>
    BY <1>7, LeaveIs
  <2>00. PICK c \in Cancels : c = stack[t][1].c
    BY <2>0
  <2>1. /\ lock'[c] = None /\ \A d \in Cancels \ {c} : lock'[d] = lock[d]
        /\ pipe'[c] # "empty" /\ \A d \in Cancels \ {c} : pipe'[d] = pipe[d]
    BY <1>7, <2>00, LeaveIs
  <2>2. UNCHANGED <<alive, triggered, cb, slaves, asleep>>
    BY <1>7 DEF Leave
  <2>3. Undisturbed
    BY <1>7, UpStack
  <2>4. /\ triggered'[c] /\ cb'[c] # "set" /\ \A v \in asleep' : call'[v].c # c
        /\ \A s \in Entries(slaves[c]) : s \in Entries(stack[t][1].todo) \/ triggered'[s]
    BY <2>0, <2>00, <2>3, HeldKept
  <2>5. \A s \in Entries(slaves[c]) : triggered'[s]
    <3>1. stack[t][1].todo \in Seq(Cancels)
      <4>1. stack[t] \in Seq(Levels)
        BY LevelIs
      <4>2. stack[t][1] \in Levels
        BY <2>0, <4>1
      <4> QED
        BY <4>2, LevelIs
    <3>2. Entries(stack[t][1].todo) = {}
      BY <2>0, <3>1, NoEntries
    <3> QED
      BY <2>4, <3>2
  <2>6. MirrorOk(c)'
    BY <2>1, <2>2, <2>4, <2>5 DEF MirrorOk
  <2>7. \A u \in asleep' : u \in asleep /\ call'[u].c = call[u].c
    <3>1. Return(t) \/ call' = call
      BY <1>7, LeaveIs
    <3>2. call[t].op = "triggering"
      BY <1>7 DEF Leave, CallInv, CallOk
    <3> QED
      BY <1>0, <2>2, <3>1, <3>2, CallIs, ZenonT(60)
  <2>8. ASSUME NEW d \in alive', lock'[d] = None, d # c
        PROVE  MirrorOk(d)'
    <3>1. d \in Cancels /\ MirrorOk(d)
      BY <1>0, <1>00, <2>1, <2>2, <2>8
    <3> QED
      BY <2>1, <2>2, <2>7, <2>8, <3>1, MirrorKept
  <2> QED
    BY <2>6, <2>8 DEF Goal
<1>8. ASSUME NEW t \in Threads, TriggerSlave(t) PROVE Goal
  <2> DEFINE s == stack[t][1].todo[1]
             below == <<[stack[t][1] EXCEPT !.todo = Tail(@)]>> \o Tail(stack[t])
  <2>1. s \in Cancels /\ Enter(t, s, slaves[s], cb, below)
    BY <1>8, TriggerSlaveIs
  <2>2. UNCHANGED <<alive, pipe, slaves, call>>
    BY <1>8 DEF TriggerSlave
  <2> HIDE DEF s, below
  <2>3. /\ lock' = [lock EXCEPT ![s] = t] /\ triggered' = [triggered EXCEPT ![s] = TRUE]
        /\ cb' = [cb EXCEPT ![s] = IF cb[s] = "none" THEN cb[s] ELSE "called"]
        /\ asleep' \subseteq asleep
    BY <2>1 DEF Enter
  <2>4. /\ lock'[s] = t /\ triggered'[s]
        /\ \A d \in Cancels \ {s} :
             lock'[d] = lock[d] /\ triggered'[d] = triggered[d] /\ cb'[d] = cb[d]
    <3>1. lock \in [Cancels -> Threads \cup {None}]
      BY DEF TypeOK
    <3> QED
      BY <1>0, <2>1, <2>3, <3>1
  <2>5. \A d \in Cancels : triggered[d] => triggered'[d]
    BY <2>4
  <2>6. ASSUME NEW d \in alive', lock'[d] = None
        PROVE  MirrorOk(d)'
    <3>1. d \in Cancels /\ d # s
      BY <1>0, <2>2, <2>4, <2>6
    <3>2. MirrorOk(d)
      BY <1>00, <2>2, <2>4, <2>6, <3>1
    <3> QED
      BY <2>2, <2>3, <2>4, <2>5, <3>1, <3>2, MirrorKept
  <2> QED
    BY <2>6 DEF Goal
<1>9. ASSUME NEW t \in Threads, Trigger(t) \/ SetCb(t) \/ GetFd(t) \/ Link(t) PROVE Goal
  <2>1. /\ call[t].op # "wait" /\ UNCHANGED alive
        /\ \A u \in Threads \ {t} : call'[u] = call[u]
    BY <1>9, AddIs
  <2>2. PICK c \in Cancels :
          /\ \A d \in Cancels \ {c} :
               /\ lock'[d] = lock[d] /\ triggered'[d] = triggered[d]
               /\ slaves'[d] = slaves[d] /\ cb'[d] = cb[d] /\ pipe'[d] = pipe[d]
          /\ \/ /\ lock'[c] = t /\ triggered'[c] /\ asleep' \subseteq asleep
             \/ /\ UNCHANGED <<lock, triggered, asleep, stack>>
                /\ \/ UNCHANGED <<slaves, cb, pipe>>
                   \/ /\ ~triggered[c]
                      /\ cb'[c] \in {cb[c], "set"} /\ pipe'[c] \in {pipe[c], "empty"}
    BY <1>9, AddIs
  <2>3. \A u \in asleep' : u \in asleep /\ call'[u].c = call[u].c
    BY <1>0, <2>1, <2>2
  <2>4. \A d \in Cancels : triggered[d] => triggered'[d]
    BY <2>2
  <2>5. ASSUME NEW d \in alive', lock'[d] = None
        PROVE  MirrorOk(d)'
    <3>1. d \in Cancels /\ d \in alive
      BY <1>0, <2>1, <2>5
    <3>2. CASE d # c
      <4>1. MirrorOk(d)
        BY <1>00, <2>2, <2>5, <3>1, <3>2
      <4> QED
        BY <2>2, <2>3, <2>4, <3>1, <3>2, <4>1, MirrorKept
    <3>3. CASE d = c
      <4>1. UNCHANGED <<lock, triggered>> /\ MirrorOk(d)
        BY <1>0, <1>00, <2>2, <2>5, <3>1, <3>3
      <4>2. CASE UNCHANGED <<slaves, cb, pipe>>
        BY <2>3, <2>4, <3>1, <4>1, <4>2, MirrorKept
      <4>3. CASE /\ ~triggered[d]
                 /\ cb'[d] \in {cb[d], "set"} /\ pipe'[d] \in {pipe[d], "empty"}
        BY <4>1, <4>3 DEF MirrorOk
      <4> QED
        BY <1>0, <2>2, <2>5, <3>3, <4>2, <4>3
    <3> QED
      BY <3>2, <3>3
  <2> QED
    BY <2>5 DEF Goal
<1> QED
  BY <1>1, <1>2, <1>3, <1>4, <1>5, <1>6, <1>7, <1>8, <1>9 DEF Next, Steps

-------------------------------------------------------------------------------

\* The list of the elements of a finite set has each of them once.
LEMMA SetToSeqIs ==
  ASSUME NEW S, IsFiniteSet(S)
  PROVE  /\ SetToSeq(S) \in Seq(S) /\ Entries(SetToSeq(S)) = S
         /\ \A i, j \in DOMAIN SetToSeq(S) : SetToSeq(S)[i] = SetToSeq(S)[j] => i = j
<1> DEFINE n == Cardinality(S)
           s == SetToSeq(S)
<1>1. n \in Nat /\ ExistsBijection(1..n, S)
  BY FS_CardinalityType
<1>2. \E f \in [1..n -> S] : IsInjective(f)
  BY <1>1 DEF ExistsBijection, Bijection, Injection
<1>3. s = CHOOSE f \in [1..n -> S] : IsInjective(f)
  BY DEF SetToSeq
<1> HIDE DEF s
<1>4. s \in [1..n -> S] /\ IsInjective(s)
  BY <1>2, <1>3
<1>5. Cardinality(1..n) = n
  BY <1>1, FS_Interval
<1> HIDE DEF n
<1>6. s \in Injection(1..n, S)
  BY <1>4 DEF Injection
<1>7. s \in Surjection(1..n, S)
  BY <1>5, <1>6, FS_Injection DEF n
<1>8. \A x \in S : \E i \in 1..n : s[i] = x
  BY <1>7 DEF Surjection
<1>9. s \in Seq(S) /\ DOMAIN s = 1..n
  BY <1>1, <1>4
<1>10. Entries(s) = S
  BY <1>4, <1>8, <1>9 DEF Entries
<1> QED
  BY <1>4, <1>9, <1>10 DEF s, IsInjective

\* At the start nobody is at work, and the slaves of each object are listed.
LEMMA InitInv ==
  ASSUME Init
  PROVE  IInv
<1>0. /\ alive = Cancels /\ lock = [c \in Cancels |-> None]
      /\ triggered = [c \in Cancels |-> FALSE] /\ cb = [c \in Cancels |-> "none"]
      /\ pipe = [c \in Cancels |-> "none"]
      /\ parent \in [Cancels -> Cancels \cup {None}]
      /\ \A c \in Cancels : parent[c] \in Masters[c] \cup {None}
      /\ slaves = [p \in Cancels |-> SetToSeq({c \in Cancels : parent[c] = p})]
      /\ asleep = {} /\ stack = [t \in Threads |-> <<>>]
      /\ call = [t \in Threads |-> Idle] /\ calls = [t \in Threads |-> 0]
  BY DEF Init
<1>1. ASSUME NEW p \in Cancels
      PROVE  /\ slaves[p] \in Seq(Cancels)
             /\ Entries(slaves[p]) = {c \in Cancels : parent[c] = p}
             /\ \A i, j \in DOMAIN slaves[p] : slaves[p][i] = slaves[p][j] => i = j
  <2> DEFINE S == {c \in Cancels : parent[c] = p}
  <2>1. slaves[p] = SetToSeq(S) /\ S \subseteq Cancels
    BY <1>0
  <2>2. IsFiniteSet(S)
    BY <2>1, CancelAssumption, FS_Subset
  <2> HIDE DEF S
  <2>3. /\ slaves[p] \in Seq(S) /\ Entries(slaves[p]) = S
        /\ \A i, j \in DOMAIN slaves[p] : slaves[p][i] = slaves[p][j] => i = j
    BY <2>1, <2>2, SetToSeqIs
  <2>4. slaves[p] \in Seq(Cancels)
    BY <2>1, <2>3
  <2> QED
    BY <2>3, <2>4 DEF S
<1>2. TypeOK
  <2>1. slaves \in [Cancels -> Seq(Cancels)]
    <3> DEFINE list(p) == SetToSeq({c \in Cancels : parent[c] = p})
    <3>1. slaves = [p \in Cancels |-> list(p)]
      BY <1>0
    <3> HIDE DEF list
    <3>2. \A p \in Cancels : list(p) \in Seq(Cancels)
      BY <1>1, <3>1
    <3> QED
      BY <3>1, <3>2
  <2>2. stack \in [Threads -> Seq([c : Cancels, todo : Seq(Cancels)])]
    <3>1. <<>> \in Seq(Levels)
      OBVIOUS
    <3>2. stack \in [Threads -> Seq(Levels)]
      BY <1>0, <3>1
    <3> QED
      BY <3>2 DEF Levels
  <2>3. call \in [Threads -> [op : Calls, c : Cancels \cup {None}, to : Cancels \cup {None}]]
    BY <1>0 DEF Calls, Idle
  <2>4. triggered \in [Cancels -> BOOLEAN]
    BY <1>0
  <2>5. /\ alive \subseteq Cancels /\ lock \in [Cancels -> Threads \cup {None}]
        /\ cb \in [Cancels -> {"none", "set", "called"}]
        /\ pipe \in [Cancels -> {"none", "empty", "readable"}]
        /\ asleep \subseteq {t \in Threads : call[t].op = "wait"}
    BY <1>0
  <2>6. calls \in [Threads -> Nat] /\ \A t \in Threads : calls[t] <= MaxCalls[t]
    BY <1>0, CancelAssumption
  <2> QED
    BY <1>0, <2>1, <2>2, <2>3, <2>4, <2>5, <2>6 DEF TypeOK
<1>3. SlaveInv
  <2>1. \A p \in Cancels : \A c \in Entries(slaves[p]) : parent[c] = p
    BY <1>1
  <2>2. \A p \in Cancels : \A i, j \in DOMAIN slaves[p] : slaves[p][i] = slaves[p][j] => i = j
    BY <1>1
  <2>3. \A c \in Cancels : parent[c] = None \/ c \in Entries(slaves[parent[c]])
    BY <1>0, <1>1
  <2> QED
    BY <1>0, <2>1, <2>2, <2>3 DEF SlaveInv
<1>4. CallInv
  BY <1>0 DEF CallInv, CallOk, Idle
<1>5. StackInv
  <2>1. \A t \in Threads : DOMAIN stack[t] = {}
    BY <1>0
  <2>2. \A c \in Cancels : lock[c] = None
    BY <1>0
  <2> QED
    BY <2>1, <2>2 DEF StackInv
<1>6. MirrorsAgree
  BY <1>0 DEF MirrorsAgree
<1> QED
  BY <1>2, <1>3, <1>4, <1>5, <1>6 DEF IInv

\* The inductive invariant, of every tree of mp_cancel objects and any threads that use
\* it: a slave is in one list, calls are made by owners, and trigger_locked holds the
\* locks down a chain of slaves.
THEOREM Invariant == Spec => []IInv
<1>1. Init => IInv
  BY InitInv
<1>2. IInv /\ [Next]_vars => IInv'
  BY TypeNext, SlaveNext, CallNext, StackNext, MirrorNext DEF IInv
<1> QED
  BY <1>1, <1>2, PTL DEF Spec

\* No thread touches an object that was freed: trigger_locked goes through slaves it has
\* no reference to, and the lock of the parent is what keeps them.
THEOREM NoneUsedFreed == Spec => []AliveWhenUsed
<1>1. ASSUME IInv
      PROVE  AliveWhenUsed
  <2>0. /\ TypeOK /\ SlaveInv /\ CallInv /\ StackInv
        /\ slaves \in [Cancels -> Seq(Cancels)] /\ parent \in [Cancels -> Cancels \cup {None}]
        /\ alive \subseteq Cancels /\ None \notin Cancels
        /\ lock \in [Cancels -> Threads \cup {None}]
    BY <1>1, CancelAssumption DEF IInv, TypeOK
  <2>1. ASSUME NEW t \in Threads, NEW i \in DOMAIN stack[t]
        PROVE  /\ stack[t][i].c \in alive /\ lock[stack[t][i].c] = t
               /\ \A j \in DOMAIN stack[t][i].todo : stack[t][i].todo[j] \in alive
    <3> DEFINE c == stack[t][i].c
               todo == stack[t][i].todo
    <3>1. EntryInv(t, i)
      BY <2>0 DEF StackInv
    <3>2. c \in alive /\ lock[c] = t /\ Entries(todo) \subseteq Entries(slaves[c])
      BY <3>1 DEF EntryInv
    <3> HIDE DEF c, todo
    <3>3. ASSUME NEW j \in DOMAIN todo
          PROVE  todo[j] \in alive
      <4>1. todo[j] \in Entries(slaves[c]) /\ c \in Cancels
        BY <2>0, <3>2 DEF Entries
      <4>2. todo[j] \in Cancels
        BY <2>0, <4>1 DEF Entries
      <4>3. parent[todo[j]] = c
        BY <2>0, <4>1 DEF SlaveInv
      <4> QED
        BY <2>0, <4>1, <4>2, <4>3 DEF SlaveInv
    <3> QED
      BY <3>2, <3>3 DEF c, todo
  <2>2. ASSUME NEW c \in Cancels, c \notin alive, lock[c] # None
        PROVE  FALSE
    <3>1. lock[c] \in Threads
      BY <2>0, <2>2
    <3>2. PICK i \in DOMAIN stack[lock[c]] : stack[lock[c]][i].c = c
      BY <2>0, <2>2 DEF StackInv
    <3> QED
      BY <2>1, <2>2, <3>1, <3>2
  <2>3. ASSUME NEW c \in alive, parent[c] # None
        PROVE  parent[c] \in alive
    <3>1. c \in Cancels /\ parent[c] \in Cancels
      BY <2>0, <2>3
    <3> QED
      BY <2>0, <2>3, <3>1 DEF SlaveInv
  <2> QED
    BY <2>0, <2>1, <2>2, <2>3 DEF AliveWhenUsed
<1> QED
  BY <1>1, Invariant, PTL

\* With nobody at work on an object all its mirrors show its flag, those that were added
\* after it had been triggered too.
THEOREM MirrorsFollow == Spec => []MirrorsAgree
<1>1. IInv => MirrorsAgree
  BY DEF IInv
<1> QED
  BY <1>1, Invariant, PTL
===============================================================================
