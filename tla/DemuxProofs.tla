----------------------------- MODULE DemuxProofs -----------------------------
(***************************************************************************)
(* The books of the packet cache: Consistent is an invariant of DemuxCache *)
(* for every file, all limits and all requests, as long as no stream holds *)
(* subtitles. Those are not waited for, and ranges may be joined without a *)
(* common packet of theirs (attempt_range_joining): a packet could then be *)
(* in a queue twice.                                                       *)
(*                                                                         *)
(* The inductive invariant (DemuxInv) says what the code relies on: queues *)
(* are in file order and their pointers point into them (QueueOk), readers *)
(* are at packets of the current range (ReaderOk), the counters are what   *)
(* they count (Stored, Served), and what the demuxer reads next is not yet *)
(* in the cache, or is dropped when it comes (Follows). There is a lemma   *)
(* for each function of demux.c; those that go through a list are          *)
(* recursive functions in the model, and AllNumbers is the induction.      *)
(***************************************************************************)
EXTENDS DemuxCache, FiniteSetTheorems, SequenceTheorems, WellFoundedInduction, TLAPS

-----------------------------------------------------------------------------
(* Numbers, recursion, sums                                                *)

\* Induction over the natural numbers, with a set in place of a predicate.
LEMMA AllNumbers ==
  ASSUME NEW P, 0 \in P, \A n \in Nat : n \in P => n + 1 \in P
  PROVE  Nat \subseteq P
  <1>. DEFINE bad == Nat \ P
  <1>1. SUFFICES ASSUME bad # {} PROVE FALSE
    OBVIOUS
  <1>2. PICK m \in bad : \A k \in bad : ~(k < m)
    <2>1. PICK m \in bad : \A k \in bad : <<k, m>> \notin OpToRel(<, Nat)
      BY <1>1, NatLessThanWellFounded, WFMin, Zenon
    <2>. QED  BY <2>1 DEF OpToRel
  <1>3. m # 0 /\ m - 1 \in Nat /\ m - 1 < m /\ (m - 1) + 1 = m
    BY <1>2
  <1>4. m - 1 \in P
    BY <1>2, <1>3
  <1>. QED  BY <1>2, <1>3, <1>4

\* A function of 0..N that is defined by recursion exists.
Steps(N, S) == [1..N -> [S -> S]]

\* N steps from a, the nth one by step[n].
HasRecursion(N, S, a, step) ==
  \E g \in [0..N -> S] : g[0] = a /\ \A n \in 1..N : g[n] = step[n][g[n - 1]]

\* What is defined by N steps from a start exists.
LEMMA Recursion ==
  ASSUME NEW N \in Nat, NEW S, NEW a \in S, NEW step \in Steps(N, S)
  PROVE  HasRecursion(N, S, a, step)
  <1>. DEFINE Upto(k, g) == g[0] = a /\ \A n \in 1..k : g[n] = step[n][g[n - 1]]
              P == {k \in Nat : k <= N => \E g \in [0..k -> S] : Upto(k, g)}
  <1>1. 0 \in P
    <2>. DEFINE g == [n \in 0..0 |-> a]
    <2>1. g \in [0..0 -> S] /\ Upto(0, g)
      OBVIOUS
    <2>. QED  BY <2>1
  <1>2. ASSUME NEW k \in Nat, k \in P PROVE k + 1 \in P
    <2>. SUFFICES ASSUME k + 1 <= N PROVE \E h \in [0..(k + 1) -> S] : Upto(k + 1, h)
      OBVIOUS
    <2>1. PICK g \in [0..k -> S] : Upto(k, g)
      BY <1>2
    <2>. DEFINE h == [n \in 0..(k + 1) |-> IF n = k + 1 THEN step[k + 1][g[k]] ELSE g[n]]
    <2>2. k \in 0..k /\ k + 1 \in 1..N /\ g[k] \in S /\ step[k + 1] \in [S -> S]
      BY DEF Steps
    <2>3. step[k + 1][g[k]] \in S
      BY <2>2
    <2>4. h \in [0..(k + 1) -> S]
      BY <2>3
    <2>5. h[0] = a
      BY <2>1
    <2>6. ASSUME NEW n \in 1..(k + 1) PROVE h[n] = step[n][h[n - 1]]
      <3>1. CASE n = k + 1
        <4>1. n - 1 = k /\ n - 1 \in 0..(k + 1) /\ n - 1 # k + 1 /\ n \in 0..(k + 1)
          BY <3>1
        <4>2. h[n - 1] = g[k] /\ h[n] = step[k + 1][g[k]]
          BY <3>1, <4>1
        <4>. QED  BY <3>1, <4>2
      <3>2. CASE n # k + 1
        <4>1. n \in 1..k /\ n - 1 \in 0..k /\ n - 1 # k + 1 /\ n \in 0..(k + 1) /\ n - 1 \in 0..(k + 1)
          BY <3>2
        <4>2. h[n - 1] = g[n - 1] /\ h[n] = g[n]
          BY <3>2, <4>1
        <4>. QED  BY <2>1, <4>1, <4>2
      <3>. QED  BY <3>1, <3>2
    <2>. HIDE DEF h
    <2>. QED  BY <2>4, <2>5, <2>6
  <1>3. N \in P
    <2>. HIDE DEF P
    <2>. QED  BY <1>1, <1>2, AllNumbers
  <1>. QED  BY <1>3 DEF HasRecursion

\* What Sum adds up on the way
SumUpto(f) ==
  CHOOSE g : g = [n \in 0 .. Len(f) |-> IF n = 0 THEN 0 ELSE g[n - 1] + f[n]]

\* The sum of a sequence, term by term.
LEMMA SumIs ==
  ASSUME NEW f \in Seq(Int)
  PROVE  /\ Sum(f) = SumUpto(f)[Len(f)]
         /\ SumUpto(f) \in [0..Len(f) -> Int]
         /\ SumUpto(f)[0] = 0
         /\ \A n \in 1..Len(f) : SumUpto(f)[n] = SumUpto(f)[n - 1] + f[n]
  <1>. DEFINE N == Len(f)
              step == [n \in 1..N |-> [v \in Int |-> v + f[n]]]
              Is(g) == g = [n \in 0..N |-> IF n = 0 THEN 0 ELSE g[n - 1] + f[n]]
  <1>1. N \in Nat /\ \A n \in 1..N : f[n] \in Int
    BY LenProperties
  <1>2. step \in [1..N -> [Int -> Int]]
    BY <1>1
  <1>3. PICK g \in [0..N -> Int] : g[0] = 0 /\ \A n \in 1..N : g[n] = step[n][g[n - 1]]
    <2>1. 0 \in Int /\ N \in Nat /\ step \in Steps(N, Int)
      BY <1>1, <1>2 DEF Steps
    <2>. HIDE DEF step, N
    <2>2. HasRecursion(N, Int, 0, step)
      BY <2>1, Recursion
    <2>. QED  BY <2>2 DEF HasRecursion
  <1>4. ASSUME NEW n \in 1..N PROVE g[n] = g[n - 1] + f[n]
    <2>1. n - 1 \in 0..N
      BY <1>1
    <2>2. g[n - 1] \in Int /\ step[n] = [v \in Int |-> v + f[n]]
      BY <2>1
    <2>3. step[n][g[n - 1]] = g[n - 1] + f[n]
      BY <2>2
    <2>. QED  BY <1>3, <2>3
  <1>5. Is(g)
    <2>1. ASSUME NEW n \in 0..N PROVE g[n] = IF n = 0 THEN 0 ELSE g[n - 1] + f[n]
      BY <1>3, <1>4
    <2>. QED  BY <1>3, <2>1
  <1>6. Is(SumUpto(f))
    BY <1>5 DEF SumUpto
  <1>7. Sum(f) = SumUpto(f)[Len(f)]
    BY DEF Sum, SumUpto
  <1>. DEFINE u == SumUpto(f)
              P == {k \in Nat : k <= N => u[k] = g[k]}
  <1>. HIDE DEF step, Is, u
  <1>8. /\ u[0] = 0 /\ \A n \in 1..N : u[n] = u[n - 1] + f[n]
        /\ u = [n \in 0..N |-> u[n]]
    BY <1>1, <1>6 DEF u, Is
  <1>9. 0 \in P
    BY <1>3, <1>8
  <1>10. ASSUME NEW k \in Nat, k \in P PROVE k + 1 \in P
    <2>. SUFFICES ASSUME k + 1 <= N PROVE u[k + 1] = g[k + 1]
      OBVIOUS
    <2>1. k + 1 \in 1..N /\ (k + 1) - 1 = k /\ u[k] = g[k]
      BY <1>10
    <2>. QED  BY <1>4, <1>8, <2>1
  <1>11. \A k \in 0..N : u[k] = g[k]
    <2>1. Nat \subseteq P
      <3>. HIDE DEF P
      <3>. QED  BY <1>9, <1>10, AllNumbers
    <2>. QED  BY <2>1
  <1>12. u \in [0..N -> Int]
    BY <1>3, <1>8, <1>11
  <1>. QED  BY <1>7, <1>8, <1>12 DEF u

\* Sums of sequences that differ in one place
LEMMA SumChanged ==
  ASSUME NEW f \in Seq(Int), NEW g \in Seq(Int), Len(f) = Len(g), NEW k \in 1..Len(f),
         \A n \in 1..Len(f) : n # k => g[n] = f[n]
  PROVE  Sum(g) = Sum(f) - f[k] + g[k]
  <1>. DEFINE N == Len(f)
              u == SumUpto(f)
              v == SumUpto(g)
              d == g[k] - f[k]
              P == {n \in Nat : n <= N => v[n] = u[n] + (IF n >= k THEN d ELSE 0)}
  <1>1. N \in Nat /\ Len(g) = N /\ k \in 1..N /\ \A n \in 1..N : f[n] \in Int /\ g[n] \in Int
    BY LenProperties
  <1>2. /\ Sum(f) = u[N] /\ u \in [0..N -> Int] /\ u[0] = 0
        /\ \A n \in 1..N : u[n] = u[n - 1] + f[n]
    BY SumIs
  <1>3. /\ Sum(g) = v[N] /\ v \in [0..N -> Int] /\ v[0] = 0
        /\ \A n \in 1..N : v[n] = v[n - 1] + g[n]
    BY <1>1, SumIs
  <1>. HIDE DEF u, v, N
  <1>0. d \in Int /\ d = g[k] - f[k]
    BY <1>1
  <1>. HIDE DEF d
  <1>4. 0 \in P
    BY <1>1, <1>2, <1>3
  <1>5. ASSUME NEW n \in Nat, n \in P PROVE n + 1 \in P
    <2>. SUFFICES ASSUME n + 1 <= N
                  PROVE  v[n + 1] = u[n + 1] + (IF n + 1 >= k THEN d ELSE 0)
      OBVIOUS
    <2>1. /\ n + 1 \in 1..N /\ (n + 1) - 1 = n /\ n \in 0..N
          /\ v[n] = u[n] + (IF n >= k THEN d ELSE 0)
      BY <1>1, <1>5
    <2>2. v[n + 1] = v[n] + g[n + 1] /\ u[n + 1] = u[n] + f[n + 1]
      BY <1>2, <1>3, <2>1
    <2>3. u[n] \in Int /\ v[n] \in Int /\ f[k] \in Int /\ g[k] \in Int /\ f[n + 1] \in Int
      BY <1>1, <1>2, <1>3, <2>1
    <2>4. CASE n + 1 = k
      BY <1>0, <2>1, <2>2, <2>3, <2>4
    <2>5. CASE n + 1 # k
      <3>1. g[n + 1] = f[n + 1] /\ (n + 1 >= k <=> n >= k)
        BY <1>1, <2>1, <2>5 DEF N
      <3>2. CASE n >= k
        <4>1. n + 1 >= k
          BY <3>1, <3>2
        <4>2. v[n] = u[n] + d /\ v[n + 1] = v[n] + f[n + 1] /\ u[n + 1] = u[n] + f[n + 1]
          BY <2>1, <2>2, <3>1, <3>2
        <4>. DEFINE a == u[n]
                    b == f[n + 1]
        <4>3. a \in Int /\ b \in Int /\ d \in Int /\ v[n + 1] = (a + d) + b /\ u[n + 1] = a + b
          BY <1>0, <2>3, <4>2
        <4>. HIDE DEF a, b
        <4>4. (a + d) + b = (a + b) + d
          BY <4>3
        <4>5. v[n + 1] = u[n + 1] + d
          BY <4>3, <4>4
        <4>. QED  BY <4>1, <4>5
      <3>3. CASE ~(n >= k)
        BY <1>0, <2>1, <2>2, <2>3, <3>1, <3>3
      <3>. QED  BY <3>2, <3>3
    <2>. QED  BY <2>4, <2>5
  <1>6. N \in P
    <2>. HIDE DEF P
    <2>. QED  BY <1>1, <1>4, <1>5, AllNumbers
  <1>7. v[N] = u[N] + d /\ u[N] \in Int /\ f[k] \in Int /\ g[k] \in Int
    BY <1>1, <1>2, <1>6
  <1>. QED  BY <1>0, <1>2, <1>3, <1>7

\* One more term.
LEMMA SumAppended ==
  ASSUME NEW f \in Seq(Int), NEW a \in Int
  PROVE  Sum(Append(f, a)) = Sum(f) + a
  <1>. DEFINE N == Len(f)
              h == Append(f, a)
              u == SumUpto(f)
              v == SumUpto(h)
              P == {n \in Nat : n <= N => v[n] = u[n]}
  <1>1. /\ N \in Nat /\ h \in Seq(Int) /\ Len(h) = N + 1 /\ h[N + 1] = a
        /\ \A n \in 1..N : h[n] = f[n]
    BY LenProperties, AppendProperties
  <1>2. /\ Sum(f) = u[N] /\ u \in [0..N -> Int] /\ u[0] = 0
        /\ \A n \in 1..N : u[n] = u[n - 1] + f[n]
    BY SumIs
  <1>3. /\ Sum(h) = v[N + 1] /\ v[0] = 0
        /\ \A n \in 1..N + 1 : v[n] = v[n - 1] + h[n]
    <2>. HIDE DEF h, v
    <2>. QED  BY <1>1, SumIs DEF v
  <1>. HIDE DEF u, v, h, N
  <1>4. 0 \in P
    BY <1>2, <1>3
  <1>5. ASSUME NEW n \in Nat, n \in P PROVE n + 1 \in P
    <2>. SUFFICES ASSUME n + 1 <= N PROVE v[n + 1] = u[n + 1]
      OBVIOUS
    <2>1. n + 1 \in 1..N /\ n + 1 \in 1..N + 1 /\ (n + 1) - 1 = n /\ v[n] = u[n]
      BY <1>1, <1>5
    <2>. QED  BY <1>1, <1>2, <1>3, <2>1
  <1>6. N \in P
    <2>. HIDE DEF P
    <2>. QED  BY <1>1, <1>4, <1>5, AllNumbers
  <1>7. v[N + 1] = v[N] + a
    <2>1. N + 1 \in 1..N + 1 /\ (N + 1) - 1 = N
      BY <1>1
    <2>. QED  BY <1>1, <1>3, <2>1
  <1>. QED  BY <1>1, <1>2, <1>3, <1>6, <1>7 DEF h

\* A sequence without its kth element
LEMMA RemoveAtIs ==
  ASSUME NEW S, NEW s \in Seq(S), NEW k \in 1..Len(s)
  PROVE  /\ RemoveAt(s, k) \in Seq(S) /\ Len(RemoveAt(s, k)) = Len(s) - 1
         /\ \A i \in 1..Len(s) - 1 : RemoveAt(s, k)[i] = IF i < k THEN s[i] ELSE s[i + 1]
  <1>. DEFINE a == SubSeq(s, 1, k - 1)
              b == SubSeq(s, k + 1, Len(s))
  <1>1. Len(s) \in Nat /\ k \in 1..Len(s) /\ \A i \in 1..Len(s) : s[i] \in S
    BY LenProperties
  <1>2. a \in Seq(S) /\ Len(a) = k - 1 /\ \A i \in 1..k - 1 : a[i] = s[i]
    BY <1>1, SubSeqProperties
  <1>3. b \in Seq(S) /\ Len(b) = Len(s) - k /\ \A i \in 1..Len(s) - k : b[i] = s[k + i]
    BY <1>1, SubSeqProperties
  <1>. HIDE DEF a, b
  <1>4. /\ a \o b \in Seq(S) /\ Len(a \o b) = Len(a) + Len(b)
        /\ \A i \in 1..Len(a) + Len(b) : (a \o b)[i] = IF i <= Len(a) THEN a[i] ELSE b[i - Len(a)]
    BY <1>2, <1>3, ConcatProperties
  <1>5. RemoveAt(s, k) = a \o b
    BY DEF RemoveAt, a, b
  <1>6. Len(a) + Len(b) = Len(s) - 1
    BY <1>1, <1>2, <1>3
  <1>7. ASSUME NEW i \in 1..Len(s) - 1 PROVE (a \o b)[i] = IF i < k THEN s[i] ELSE s[i + 1]
    <2>1. CASE i < k
      BY <1>1, <1>2, <1>4, <1>6, <2>1
    <2>2. CASE ~(i < k)
      <3>1. i - (k - 1) \in 1..Len(s) - k /\ k + (i - (k - 1)) = i + 1
        BY <1>1, <2>2
      <3>2. i \in 1..Len(a) + Len(b) /\ ~(i <= Len(a)) /\ i - Len(a) = i - (k - 1)
        BY <1>1, <1>2, <1>6, <2>2
      <3>3. (a \o b)[i] = b[i - (k - 1)] /\ b[i - (k - 1)] = s[i + 1]
        BY <1>3, <1>4, <3>1, <3>2
      <3>. QED  BY <2>2, <3>3
    <2>. QED  BY <2>1, <2>2
  <1>. QED  BY <1>4, <1>5, <1>6, <1>7

\* One term less.
LEMMA SumRemoved ==
  ASSUME NEW f \in Seq(Int), NEW k \in 1..Len(f)
  PROVE  Sum(RemoveAt(f, k)) = Sum(f) - f[k]
  <1>. DEFINE N == Len(f)
              h == RemoveAt(f, k)
              c == f[k]
              u == SumUpto(f)
              v == SumUpto(h)
              P == {n \in Nat : n <= N - 1 => v[n] = IF n < k THEN u[n] ELSE u[n + 1] - c}
  <1>1. N \in Nat /\ k \in 1..N /\ c = f[k] /\ \A n \in 1..N : f[n] \in Int
    BY LenProperties
  <1>2. /\ Sum(f) = u[N] /\ u \in [0..N -> Int] /\ u[0] = 0
        /\ \A n \in 1..N : u[n] = u[n - 1] + f[n]
    BY SumIs
  <1>3. /\ h \in Seq(Int) /\ Len(h) = N - 1
        /\ \A i \in 1..N - 1 : h[i] = IF i < k THEN f[i] ELSE f[i + 1]
    BY RemoveAtIs
  <1>. HIDE DEF h, N, u, c
  <1>4. /\ Sum(h) = v[N - 1] /\ v[0] = 0
        /\ \A n \in 1..N - 1 : v[n] = v[n - 1] + h[n]
    BY <1>3, SumIs
  <1>. HIDE DEF v
  <1>5. 0 \in P
    BY <1>1, <1>2, <1>4
  <1>6. ASSUME NEW n \in Nat, n \in P PROVE n + 1 \in P
    <2>. SUFFICES ASSUME n + 1 <= N - 1
                  PROVE  v[n + 1] = IF n + 1 < k THEN u[n + 1] ELSE u[n + 2] - c
      OBVIOUS
    <2>1. /\ n + 1 \in 1..N - 1 /\ (n + 1) - 1 = n /\ n + 1 \in 1..N /\ n + 2 \in 1..N
          /\ (n + 2) - 1 = n + 1 /\ n \in 0..N
          /\ v[n] = IF n < k THEN u[n] ELSE u[n + 1] - c
      BY <1>1, <1>6
    <2>2. v[n + 1] = v[n] + h[n + 1] /\ u[n + 1] = u[n] + f[n + 1]
          /\ u[n + 2] = u[n + 1] + f[n + 2]
      BY <1>2, <1>4, <2>1
    <2>. DEFINE x == u[n]
                y == f[n + 1]
                z == f[n + 2]
    <2>3. x \in Int /\ y \in Int /\ z \in Int /\ c \in Int
      BY <1>1, <1>2, <2>1
    <2>4. u[n + 1] = x + y /\ u[n + 2] = (x + y) + z
      BY <2>2
    <2>5. CASE n + 1 < k
      <3>1. n < k /\ h[n + 1] = y
        BY <1>1, <1>3, <2>1, <2>5
      <3>. QED  BY <2>1, <2>2, <2>5, <3>1
    <2>6. CASE n + 1 = k
      <3>1. n < k /\ h[n + 1] = z /\ y = c
        BY <1>1, <1>3, <2>1, <2>6
      <3>2. v[n + 1] = x + z
        BY <2>1, <2>2, <3>1
      <3>. HIDE DEF x, y, z
      <3>3. x + z = ((x + y) + z) - c
        BY <2>3, <3>1
      <3>. QED  BY <2>4, <2>6, <3>2, <3>3
    <2>7. CASE n + 1 > k
      <3>1. ~(n < k) /\ ~(n + 1 < k) /\ h[n + 1] = z
        BY <1>1, <1>3, <2>1, <2>7
      <3>2. v[n + 1] = ((x + y) - c) + z
        BY <2>1, <2>2, <2>4, <3>1
      <3>. HIDE DEF x, y, z
      <3>3. ((x + y) - c) + z = ((x + y) + z) - c
        BY <2>3
      <3>. QED  BY <2>4, <3>1, <3>2, <3>3
    <2>8. n + 1 < k \/ n + 1 = k \/ n + 1 > k
      BY <1>1
    <2>. QED  BY <2>5, <2>6, <2>7, <2>8
  <1>7. N - 1 \in Nat
    BY <1>1
  <1>8. N - 1 \in P
    <2>. HIDE DEF P
    <2>. QED  BY <1>5, <1>6, <1>7, AllNumbers
  <1>9. v[N - 1] = u[N] - c
    <2>1. CASE N - 1 < k
      <3>1. k = N /\ N \in 1..N
        BY <1>1, <2>1
      <3>2. u[N] = u[N - 1] + c /\ v[N - 1] = u[N - 1] /\ u[N - 1] \in Int /\ c \in Int
        BY <1>1, <1>2, <1>7, <1>8, <3>1
      <3>. DEFINE a == u[N - 1]
      <3>3. a \in Int /\ c \in Int /\ u[N] = a + c /\ v[N - 1] = a
        BY <3>2
      <3>. HIDE DEF a
      <3>4. a = (a + c) - c
        BY <3>3
      <3>. QED  BY <3>3, <3>4
    <2>2. CASE ~(N - 1 < k)
      <3>1. (N - 1) + 1 = N
        BY <1>1
      <3>. QED  BY <1>7, <1>8, <2>2, <3>1
    <2>. QED  BY <2>1, <2>2
  <1>. QED  BY <1>1, <1>2, <1>4, <1>9 DEF h

\* Sums of numbers that are not negative.
LEMMA SumNat ==
  ASSUME NEW f \in Seq(Nat)
  PROVE  Sum(f) \in Nat
  <1>. DEFINE N == Len(f)
              u == SumUpto(f)
              P == {n \in Nat : n <= N => u[n] \in Nat}
  <1>1. N \in Nat /\ f \in Seq(Int) /\ \A n \in 1..N : f[n] \in Nat
    BY LenProperties, SeqMonotonic, Nat \subseteq Int
  <1>2. Sum(f) = u[N] /\ u[0] = 0 /\ \A n \in 1..N : u[n] = u[n - 1] + f[n]
    BY <1>1, SumIs
  <1>. HIDE DEF u, N
  <1>3. 0 \in P
    BY <1>2
  <1>4. ASSUME NEW n \in Nat, n \in P PROVE n + 1 \in P
    <2>. SUFFICES ASSUME n + 1 <= N PROVE u[n + 1] \in Nat
      OBVIOUS
    <2>1. n + 1 \in 1..N /\ (n + 1) - 1 = n /\ u[n] \in Nat
      BY <1>1, <1>4
    <2>2. u[n + 1] = u[n] + f[n + 1] /\ f[n + 1] \in Nat
      BY <1>1, <1>2, <2>1
    <2>. DEFINE a == u[n]
                b == f[n + 1]
    <2>3. a \in Nat /\ b \in Nat /\ u[n + 1] = a + b
      BY <2>1, <2>2
    <2>. HIDE DEF a, b
    <2>. QED  BY <2>3
  <1>5. N \in P
    <2>. HIDE DEF P
    <2>. QED  BY <1>1, <1>3, <1>4, AllNumbers
  <1>. QED  BY <1>1, <1>2, <1>5

\* No part is more than the sum.
LEMMA SumPart ==
  ASSUME NEW f \in Seq(Nat), NEW k \in 1..Len(f)
  PROVE  Sum(f) >= f[k]
  <1>. DEFINE g == [f EXCEPT ![k] = 0]
  <1>1. /\ g \in Seq(Nat) /\ Len(g) = Len(f) /\ g[k] = 0
        /\ \A n \in 1..Len(f) : n # k => g[n] = f[n]
    BY ExceptSeq
  <1>2. f \in Seq(Int) /\ g \in Seq(Int)
    BY <1>1, SeqMonotonic, Nat \subseteq Int
  <1>. HIDE DEF g
  <1>3. Sum(g) = Sum(f) - f[k] + g[k]
    BY <1>1, <1>2, SumChanged
  <1>4. Sum(g) \in Nat /\ Sum(f) \in Nat /\ f[k] \in Nat
    BY <1>1, SumNat, LenProperties
  <1>. QED  BY <1>1, <1>3, <1>4

\* Sums of zeros.
LEMMA SumZero ==
  ASSUME NEW f \in Seq(Int), \A n \in 1..Len(f) : f[n] = 0
  PROVE  Sum(f) = 0
  <1>. DEFINE N == Len(f)
              u == SumUpto(f)
              P == {n \in Nat : n <= N => u[n] = 0}
  <1>1. N \in Nat
    BY LenProperties
  <1>2. Sum(f) = u[N] /\ u[0] = 0 /\ \A n \in 1..N : u[n] = u[n - 1] + f[n]
    BY SumIs
  <1>3. \A n \in 1..N : f[n] = 0
    OBVIOUS
  <1>. HIDE DEF u, N
  <1>4. 0 \in P
    BY <1>2
  <1>5. ASSUME NEW n \in Nat, n \in P PROVE n + 1 \in P
    <2>. SUFFICES ASSUME n + 1 <= N PROVE u[n + 1] = 0
      OBVIOUS
    <2>1. n + 1 \in 1..N /\ (n + 1) - 1 = n /\ u[n] = 0
      BY <1>1, <1>5
    <2>. QED  BY <1>2, <1>3, <2>1
  <1>6. N \in P
    <2>. HIDE DEF P
    <2>. QED  BY <1>1, <1>4, <1>5, AllNumbers
  <1>. QED  BY <1>1, <1>2, <1>6

-----------------------------------------------------------------------------
(* Types                                                                   *)

\* A packet or, as 0, none: NULL in the code.
Numbers == 0 .. Len(File)
Entries == [i : Packets, kf : Int]
Queues ==
  [pkts : Seq(Entries), npt : Numbers, last : Numbers, last_ts : Int,
   kf_latest : Numbers, kf_pts : Int, kf_end : Int,
   start : Int, end : Int, pruned : Int, bof : BOOLEAN, eof : BOOLEAN]

\* The fields of struct demux_cached_range, and of struct demux_stream as far
\* as readers use them.
Ranges ==
  [q : [Streams -> Queues], start : Int, end : Int, bof : BOOLEAN, eof : BOOLEAN]
Readers ==
  [selected : BOOLEAN, refreshing : BOOLEAN, eof : BOOLEAN, head : Numbers,
   fw : Nat, skip : BOOLEAN, need : BOOLEAN, base_ts : Int, last_ret : Numbers]

\* The streams are numbered from 1.
LEMMA StreamsAre ==
  /\ Cardinality(Streams) \in Nat /\ Streams = 1 .. Cardinality(Streams)
  /\ IsFiniteSet(Streams) /\ Streams # {}
  BY DemuxAssumption, FS_CardinalityType

\* What the file has at each place.
LEMMA FileIs ==
  /\ Len(File) \in Nat /\ Packets = 1 .. Len(File) /\ Packets \subseteq Numbers /\ 0 \in Numbers
  /\ \A i \in Packets : /\ File[i].s \in Streams /\ File[i].kf \in BOOLEAN
                        /\ File[i].pts \in Int /\ File[i].dts \in Int
  <1>1. File \in Seq([s : Streams, kf : BOOLEAN, dts : Int, pts : Int])
    BY DemuxAssumption
  <1>2. Len(File) \in Nat /\ \A i \in 1..Len(File) : File[i] \in [s : Streams, kf : BOOLEAN, dts : Int, pts : Int]
    BY <1>1, LenProperties
  <1>. QED  BY <1>2 DEF Packets, Numbers

\* What is said of every stream is a sequence.
LEMMA StreamSeq ==
  ASSUME NEW S, NEW f \in [Streams -> S]
  PROVE  /\ f \in Seq(S) /\ Len(f) = Cardinality(Streams)
  <1>. DEFINE N == Cardinality(Streams)
  <1>1. N \in Nat /\ Streams = 1..N
    BY StreamsAre
  <1>. HIDE DEF N
  <1>2. f \in [1..N -> S]
    BY <1>1
  <1>3. f \in Seq(S) /\ Len(f) = N
    BY <1>1, <1>2, SeqDef
  <1>. QED  BY <1>3 DEF N

-----------------------------------------------------------------------------
(* What ranges hold                                                        *)

\* How many packets each queue of a range holds.
Sizes(r) == [s \in Streams |-> Len(r.q[s].pkts)]

\* A range holds what its queues hold.
LEMMA SizesAre ==
  ASSUME NEW r \in Ranges
  PROVE  /\ Sizes(r) \in Seq(Nat) /\ Sizes(r) \in Seq(Int) /\ Len(Sizes(r)) = Cardinality(Streams)
         /\ Held(r) = Sum(Sizes(r))
         /\ \A s \in Streams : Sizes(r)[s] = Len(r.q[s].pkts) /\ Len(r.q[s].pkts) \in Nat
  <1>1. \A s \in Streams : r.q[s].pkts \in Seq(Entries)
    BY DEF Ranges, Queues
  <1>2. \A s \in Streams : Len(r.q[s].pkts) \in Nat
    BY <1>1, LenProperties
  <1>3. Sizes(r) \in [Streams -> Nat]
    BY <1>2 DEF Sizes
  <1>4. Sizes(r) \in Seq(Nat) /\ Len(Sizes(r)) = Cardinality(Streams)
    BY <1>3, StreamSeq
  <1>5. Sizes(r) \in Seq(Int)
    BY <1>4, SeqMonotonic, Nat \subseteq Int
  <1>. QED  BY <1>2, <1>4, <1>5 DEF Held, Sizes

\* A range holds no less than each of its queues, and nothing if they are
\* empty.
LEMMA HeldIs ==
  ASSUME NEW r \in Ranges
  PROVE  /\ Held(r) \in Nat
         /\ \A s \in Streams : Len(r.q[s].pkts) \in Nat /\ Held(r) >= Len(r.q[s].pkts)
         /\ (\A s \in Streams : r.q[s].pkts = <<>>) => Held(r) = 0
  <1>. DEFINE N == Cardinality(Streams)
  <1>1. N \in Nat /\ Streams = 1..N
    BY StreamsAre
  <1>2. /\ Sizes(r) \in Seq(Nat) /\ Sizes(r) \in Seq(Int) /\ Len(Sizes(r)) = N
        /\ Held(r) = Sum(Sizes(r))
        /\ \A s \in Streams : Sizes(r)[s] = Len(r.q[s].pkts) /\ Len(r.q[s].pkts) \in Nat
    BY SizesAre
  <1>. HIDE DEF N
  <1>3. Held(r) \in Nat
    BY <1>2, SumNat
  <1>4. ASSUME NEW s \in Streams PROVE Held(r) >= Len(r.q[s].pkts)
    BY <1>1, <1>2, SumPart
  <1>5. ASSUME \A s \in Streams : r.q[s].pkts = <<>> PROVE Held(r) = 0
    <2>1. \A n \in 1..N : Sizes(r)[n] = 0
      BY <1>1, <1>2, <1>5
    <2>. QED  BY <1>2, <2>1, SumZero
  <1>. QED  BY <1>2, <1>3, <1>4, <1>5

\* Ranges that differ in the queue of one stream
LEMMA HeldChanged ==
  ASSUME NEW r \in Ranges, NEW r2 \in Ranges, NEW s \in Streams,
         \A t \in Streams : t # s => Len(r2.q[t].pkts) = Len(r.q[t].pkts)
  PROVE  Held(r2) = Held(r) - Len(r.q[s].pkts) + Len(r2.q[s].pkts)
  <1>. DEFINE N == Cardinality(Streams)
  <1>1. N \in Nat /\ Streams = 1..N
    BY StreamsAre
  <1>2. /\ Sizes(r) \in Seq(Int) /\ Len(Sizes(r)) = N /\ Held(r) = Sum(Sizes(r))
        /\ \A t \in Streams : Sizes(r)[t] = Len(r.q[t].pkts)
    BY SizesAre
  <1>3. /\ Sizes(r2) \in Seq(Int) /\ Len(Sizes(r2)) = N /\ Held(r2) = Sum(Sizes(r2))
        /\ \A t \in Streams : Sizes(r2)[t] = Len(r2.q[t].pkts)
    BY SizesAre
  <1>. HIDE DEF N
  <1>4. \A n \in 1..N : n # s => Sizes(r2)[n] = Sizes(r)[n]
    BY <1>1, <1>2, <1>3
  <1>5. Sum(Sizes(r2)) = Sum(Sizes(r)) - Sizes(r)[s] + Sizes(r2)[s]
    BY <1>1, <1>2, <1>3, <1>4, SumChanged
  <1>. QED  BY <1>2, <1>3, <1>5

\* Only the packets count.
LEMMA HeldSame ==
  ASSUME NEW r, NEW r2, \A s \in Streams : Len(r2.q[s].pkts) = Len(r.q[s].pkts)
  PROVE  Held(r2) = Held(r)
  <1>1. [s \in Streams |-> Len(r2.q[s].pkts)] = [s \in Streams |-> Len(r.q[s].pkts)]
    OBVIOUS
  <1>. QED  BY <1>1 DEF Held

\* What each range holds.
HeldBy(R) == [n \in DOMAIN R |-> Held(R[n])]

\* The ranges together hold the sum of what each holds.
LEMMA HeldByIs ==
  ASSUME NEW R \in Seq(Ranges)
  PROVE  /\ HeldBy(R) \in Seq(Nat) /\ HeldBy(R) \in Seq(Int) /\ Len(HeldBy(R)) = Len(R)
         /\ Bytes(R) = Sum(HeldBy(R)) /\ Bytes(R) \in Nat
         /\ \A n \in 1..Len(R) : HeldBy(R)[n] = Held(R[n]) /\ Held(R[n]) \in Nat
         /\ Len(R) \in Nat /\ \A n \in 1..Len(R) : R[n] \in Ranges
  <1>. DEFINE N == Len(R)
  <1>1. N \in Nat /\ DOMAIN R = 1..N /\ \A n \in 1..N : R[n] \in Ranges
    BY LenProperties
  <1>. HIDE DEF N
  <1>2. \A n \in 1..N : Held(R[n]) \in Nat
    BY <1>1, HeldIs
  <1>3. HeldBy(R) \in [1..N -> Nat] /\ \A n \in 1..N : HeldBy(R)[n] = Held(R[n])
    BY <1>1, <1>2 DEF HeldBy
  <1>4. HeldBy(R) \in Seq(Nat) /\ Len(HeldBy(R)) = N
    BY <1>1, <1>3, SeqDef
  <1>5. HeldBy(R) \in Seq(Int)
    BY <1>4, SeqMonotonic, Nat \subseteq Int
  <1>6. Bytes(R) = Sum(HeldBy(R))
    BY DEF Bytes, HeldBy
  <1>7. Bytes(R) \in Nat
    BY <1>4, <1>6, SumNat
  <1>. QED  BY <1>1, <1>2, <1>3, <1>4, <1>5, <1>6, <1>7 DEF N

\* One range changes.
LEMMA BytesChanged ==
  ASSUME NEW R \in Seq(Ranges), NEW R2 \in Seq(Ranges), Len(R2) = Len(R), NEW k \in 1..Len(R),
         \A n \in 1..Len(R) : n # k => Held(R2[n]) = Held(R[n])
  PROVE  Bytes(R2) = Bytes(R) - Held(R[k]) + Held(R2[k])
  <1>1. /\ HeldBy(R) \in Seq(Int) /\ Len(HeldBy(R)) = Len(R) /\ Bytes(R) = Sum(HeldBy(R))
        /\ \A n \in 1..Len(R) : HeldBy(R)[n] = Held(R[n])
    BY HeldByIs
  <1>2. /\ HeldBy(R2) \in Seq(Int) /\ Len(HeldBy(R2)) = Len(R) /\ Bytes(R2) = Sum(HeldBy(R2))
        /\ \A n \in 1..Len(R) : HeldBy(R2)[n] = Held(R2[n])
    BY HeldByIs
  <1>3. \A n \in 1..Len(R) : n # k => HeldBy(R2)[n] = HeldBy(R)[n]
    BY <1>1, <1>2
  <1>4. Sum(HeldBy(R2)) = Sum(HeldBy(R)) - HeldBy(R)[k] + HeldBy(R2)[k]
    BY <1>1, <1>2, <1>3, SumChanged
  <1>. QED  BY <1>1, <1>2, <1>4

\* A range is added.
LEMMA BytesAppended ==
  ASSUME NEW R \in Seq(Ranges), NEW r \in Ranges
  PROVE  Bytes(Append(R, r)) = Bytes(R) + Held(r)
  <1>. DEFINE R2 == Append(R, r)
              N == Len(R)
  <1>1. R2 \in Seq(Ranges) /\ Len(R2) = N + 1 /\ R2[N + 1] = r /\ \A n \in 1..N : R2[n] = R[n]
    BY AppendProperties
  <1>. HIDE DEF R2, N
  <1>2. /\ HeldBy(R) \in Seq(Int) /\ Len(HeldBy(R)) = N /\ Bytes(R) = Sum(HeldBy(R)) /\ N \in Nat
        /\ \A n \in 1..N : HeldBy(R)[n] = Held(R[n])
    BY HeldByIs DEF N
  <1>3. /\ HeldBy(R2) \in Seq(Int) /\ Len(HeldBy(R2)) = N + 1 /\ Bytes(R2) = Sum(HeldBy(R2))
        /\ \A n \in 1..N + 1 : HeldBy(R2)[n] = Held(R2[n])
    BY <1>1, HeldByIs
  <1>4. Held(r) \in Int
    BY HeldIs
  <1>. DEFINE f == Append(HeldBy(R), Held(r))
  <1>5. /\ f \in Seq(Int) /\ Len(f) = N + 1 /\ f[N + 1] = Held(r) /\ \A n \in 1..N : f[n] = HeldBy(R)[n]
    BY <1>2, <1>4, AppendProperties
  <1>6. Sum(f) = Sum(HeldBy(R)) + Held(r)
    BY <1>2, <1>4, SumAppended
  <1>. HIDE DEF f
  <1>7. \A n \in 1..N + 1 : f[n] = HeldBy(R2)[n]
    <2>1. ASSUME NEW n \in 1..N PROVE f[n] = HeldBy(R2)[n]
      <3>1. n \in 1..N + 1
        BY <1>2
      <3>. QED  BY <1>1, <1>2, <1>3, <1>5, <3>1
    <2>2. N + 1 \in 1..N + 1 /\ f[N + 1] = HeldBy(R2)[N + 1]
      BY <1>1, <1>2, <1>3, <1>5
    <2>. QED  BY <1>2, <2>1, <2>2
  <1>8. f = HeldBy(R2)
    BY <1>3, <1>5, <1>7, SeqEqual
  <1>. QED  BY <1>2, <1>3, <1>6, <1>8 DEF R2

\* A range goes.
LEMMA BytesRemoved ==
  ASSUME NEW R \in Seq(Ranges), NEW k \in 1..Len(R)
  PROVE  Bytes(RemoveAt(R, k)) = Bytes(R) - Held(R[k])
  <1>. DEFINE R2 == RemoveAt(R, k)
              N == Len(R)
              f == RemoveAt(HeldBy(R), k)
  <1>1. /\ R2 \in Seq(Ranges) /\ Len(R2) = N - 1
        /\ \A n \in 1..N - 1 : R2[n] = IF n < k THEN R[n] ELSE R[n + 1]
    BY RemoveAtIs
  <1>2. /\ HeldBy(R) \in Seq(Int) /\ Len(HeldBy(R)) = N /\ Bytes(R) = Sum(HeldBy(R)) /\ N \in Nat
        /\ \A n \in 1..N : HeldBy(R)[n] = Held(R[n])
    BY HeldByIs DEF N
  <1>3. k \in 1..N
    OBVIOUS
  <1>. HIDE DEF N
  <1>4. /\ f \in Seq(Int) /\ Len(f) = N - 1
        /\ \A n \in 1..N - 1 : f[n] = IF n < k THEN HeldBy(R)[n] ELSE HeldBy(R)[n + 1]
    BY <1>2, <1>3, RemoveAtIs
  <1>5. Sum(f) = Sum(HeldBy(R)) - HeldBy(R)[k]
    BY <1>2, <1>3, SumRemoved
  <1>. HIDE DEF R2, f
  <1>6. /\ HeldBy(R2) \in Seq(Int) /\ Len(HeldBy(R2)) = N - 1 /\ Bytes(R2) = Sum(HeldBy(R2))
        /\ \A n \in 1..N - 1 : HeldBy(R2)[n] = Held(R2[n])
    BY <1>1, HeldByIs
  <1>7. ASSUME NEW n \in 1..N - 1 PROVE f[n] = HeldBy(R2)[n]
    <2>1. n \in 1..N /\ n + 1 \in 1..N
      BY <1>2
    <2>2. CASE n < k
      BY <1>1, <1>2, <1>4, <1>6, <2>1, <2>2
    <2>3. CASE ~(n < k)
      BY <1>1, <1>2, <1>4, <1>6, <2>1, <2>3
    <2>. QED  BY <2>2, <2>3
  <1>8. f = HeldBy(R2)
    BY <1>4, <1>6, <1>7, SeqEqual
  <1>. QED  BY <1>2, <1>3, <1>5, <1>6, <1>8 DEF R2

-----------------------------------------------------------------------------
(* What holds of queues, ranges and readers                                *)

\* The packet is in the queue.
Has(q, i) == \E p \in 1..Len(q.pkts) : q.pkts[p].i = i

\* A queue is in file order, and its pointers point into it.
QueueOk(s, q) ==
  /\ q \in Queues
  /\ \A p \in 1..Len(q.pkts) : File[q.pkts[p].i].s = s /\ q.pkts[p].i <= q.last
  /\ \A m, n \in 1..Len(q.pkts) : m < n => q.pkts[m].i < q.pkts[n].i
  /\ q.npt # 0 => Has(q, q.npt)
  /\ q.kf_latest # 0 => Has(q, q.kf_latest)

\* All queues of a range are in order.
RangeOk(r) == r \in Ranges /\ \A s \in Streams : QueueOk(s, r.q[s])

\* A reader is at a packet of its queue, and knows what is left from there.
ReaderOk(q, d) == (d.head # 0 => Has(q, d.head)) /\ d.fw = From(q, d.head)

\* The books: ranges R that hold T, and readers D of the last of them that
\* have F before them.
Stored(R, D, T) ==
  /\ R \in Seq(Ranges) /\ R # <<>> /\ \A n \in 1..Len(R) : RangeOk(R[n])
  /\ D \in [Streams -> Readers]
  /\ \A s \in Streams : ~D[s].selected => \A n \in 1..Len(R) : R[n].q[s].pkts = <<>>
  /\ T = Bytes(R)
Served(R, D, F) == (\A s \in Streams : ReaderOk(Last(R).q[s], D[s])) /\ F = FwBytes(D)
Books(R, D, T, F) == Stored(R, D, T) /\ Served(R, D, F)

\* What the demuxer reads next is new: a stream reads again what it has
\* ("refreshing"), or it has nothing, or it was read up to fp; that is the
\* one that is wrong when the demuxer is to seek.
Follows(R, D, seek, fp) ==
  \A s \in Streams : \/ D[s].refreshing
                     \/ Last(R).q[s].pkts = <<>>
                     \/ ~seek /\ Last(R).q[s].last < fp

Fields ==
  {"ranges", "ds", "total", "fw_bytes", "blocked", "initial", "eof", "last_eof",
   "reading", "seeking", "seek_pts", "seek_flags", "switched", "run_fn",
   "terminate", "shutdown", "asleep", "woken", "failed", "bare", "stale", "dry",
   "cut"}

\* All that is kept of struct demux_internal; b: the demuxer is seeking.
\* There may be one range too many while a new one is made.
Nearly(x, b, fp) ==
  /\ DOMAIN x = Fields /\ ~x.failed
  /\ Books(x.ranges, x.ds, x.total, x.fw_bytes)
  /\ Follows(x.ranges, x.ds, x.seeking \/ b, fp)

\* struct demux_internal as others find it: no range too many.
Sound(x, b, fp) == Nearly(x, b, fp) /\ Len(x.ranges) <= MaxRanges

\* What changed is in S.
AllBut(S, x, y) == DOMAIN y = Fields /\ \A f \in Fields \ S : y[f] = x[f]

\* The threads sleep as they did, or were woken.
Quiet(x, y) == (y.run_fn <=> x.run_fn) /\ y.asleep \in {x.asleep, {}}

-----------------------------------------------------------------------------
(* Queues                                                                  *)

\* The types of what is in a queue.
LEMMA QueueIs ==
  ASSUME NEW s, NEW q, QueueOk(s, q)
  PROVE  /\ q.pkts \in Seq(Entries) /\ Len(q.pkts) \in Nat /\ DOMAIN q.pkts = 1..Len(q.pkts)
         /\ \A p \in 1..Len(q.pkts) : q.pkts[p] \in Entries /\ q.pkts[p].i \in Packets
                                      /\ q.pkts[p].i \in Nat \ {0} /\ q.pkts[p].kf \in Int
         /\ q.pkts # <<>> <=> Len(q.pkts) > 0
         /\ q.last \in Nat /\ q.npt \in Numbers /\ q.kf_latest \in Numbers
  <1>1. q.pkts \in Seq(Entries) /\ q.last \in Numbers /\ q.npt \in Numbers /\ q.kf_latest \in Numbers
    BY DEF QueueOk, Queues
  <1>2. Len(q.pkts) \in Nat /\ DOMAIN q.pkts = 1..Len(q.pkts) /\ \A p \in 1..Len(q.pkts) : q.pkts[p] \in Entries
    BY <1>1, LenProperties
  <1>3. \A p \in 1..Len(q.pkts) : q.pkts[p].i \in Packets /\ q.pkts[p].kf \in Int
    BY <1>2 DEF Entries
  <1>4. q.pkts # <<>> <=> Len(q.pkts) > 0
    BY <1>1, <1>2, EmptySeq
  <1>5. Packets \subseteq Nat \ {0} /\ Numbers \subseteq Nat
    BY FileIs DEF Numbers
  <1>. QED  BY <1>1, <1>2, <1>3, <1>4, <1>5

\* A packet is at one place of its queue.
LEMMA AtIs ==
  ASSUME NEW s, NEW q, QueueOk(s, q), NEW i, Has(q, i)
  PROVE  /\ At(q, i) \in 1..Len(q.pkts) /\ q.pkts[At(q, i)].i = i
         /\ \A p \in 1..Len(q.pkts) : q.pkts[p].i = i => p = At(q, i)
         /\ i # 0 /\ i \in Packets
  <1>1. /\ Len(q.pkts) \in Nat /\ DOMAIN q.pkts = 1..Len(q.pkts)
        /\ \A p \in 1..Len(q.pkts) : q.pkts[p].i \in Packets /\ q.pkts[p].i \in Nat \ {0}
    BY QueueIs
  <1>2. \E p \in DOMAIN q.pkts : q.pkts[p].i = i
    BY <1>1 DEF Has
  <1>3. At(q, i) \in DOMAIN q.pkts /\ q.pkts[At(q, i)].i = i
    BY <1>2 DEF At
  <1>4. ASSUME NEW p \in 1..Len(q.pkts), q.pkts[p].i = i PROVE p = At(q, i)
    <2>1. At(q, i) \in 1..Len(q.pkts)
      BY <1>1, <1>3
    <2>. DEFINE a == At(q, i)
    <2>2. a \in 1..Len(q.pkts) /\ q.pkts[a].i = i
      BY <1>3, <2>1
    <2>. HIDE DEF a
    <2>3. ~(p < a) /\ ~(a < p)
      BY <1>1, <1>4, <2>2 DEF QueueOk
    <2>4. p = a
      BY <1>1, <2>2, <2>3
    <2>. QED  BY <2>4 DEF a
  <1>. QED  BY <1>1, <1>3, <1>4

\* Queues with the same packets in the same places
SameIds(q, r) ==
  Len(r.pkts) = Len(q.pkts) /\ \A p \in 1..Len(q.pkts) : r.pkts[p].i = q.pkts[p].i

\* Queues with the same packets have the same places.
LEMMA SameIdsAt ==
  ASSUME NEW s, NEW q, QueueOk(s, q), NEW r, QueueOk(s, r), SameIds(q, r), NEW i
  PROVE  (Has(r, i) <=> Has(q, i)) /\ (i = 0 \/ Has(q, i) => From(r, i) = From(q, i))
  <1>1. Has(r, i) <=> Has(q, i)
    BY DEF Has, SameIds
  <1>2. CASE Has(q, i)
    <2>1. /\ At(q, i) \in 1..Len(q.pkts) /\ q.pkts[At(q, i)].i = i
      BY <1>2, AtIs
    <2>2. \A p \in 1..Len(r.pkts) : r.pkts[p].i = i => p = At(r, i)
      BY <1>1, <1>2, AtIs
    <2>3. At(q, i) = At(r, i)
      BY <2>1, <2>2 DEF SameIds
    <2>. QED  BY <1>1, <2>3 DEF From, SameIds
  <1>3. CASE ~Has(q, i)
    BY <1>1, <1>3 DEF From
  <1>. QED  BY <1>2, <1>3

\* A queue whose packets stay, whatever else is known of it
LEMMA SameIdsOk ==
  ASSUME NEW s, NEW q, QueueOk(s, q), NEW r \in Queues, SameIds(q, r), r.last = q.last,
         r.npt # 0 => Has(q, r.npt), r.kf_latest # 0 => Has(q, r.kf_latest)
  PROVE  QueueOk(s, r)
  <1>1. \A p \in 1..Len(r.pkts) : File[r.pkts[p].i].s = s /\ r.pkts[p].i <= r.last
    BY DEF QueueOk, SameIds
  <1>2. \A m, n \in 1..Len(r.pkts) : m < n => r.pkts[m].i < r.pkts[n].i
    BY DEF QueueOk, SameIds
  <1>3. (r.npt # 0 => Has(r, r.npt)) /\ (r.kf_latest # 0 => Has(r, r.kf_latest))
    BY DEF Has, SameIds
  <1>. QED  BY <1>1, <1>2, <1>3 DEF QueueOk

\* The packets of a queue after its first n
LEMMA RemoveHeadsOk ==
  ASSUME NEW s, NEW q, QueueOk(s, q), NEW n \in 0..Len(q.pkts)
  PROVE  /\ QueueOk(s, RemoveHeads(q, n)) /\ Len(RemoveHeads(q, n).pkts) = Len(q.pkts) - n
         /\ \A p \in 1..Len(q.pkts) - n : RemoveHeads(q, n).pkts[p] = q.pkts[p + n]
         /\ RemoveHeads(q, n).last = q.last
  <1>. DEFINE r == RemoveHeads(q, n)
              L == Len(q.pkts)
              P == SubSeq(q.pkts, n + 1, L)
              gone == {q.pkts[p].i : p \in 1 .. n}
  <1>0. /\ q \in Queues /\ q.pkts \in Seq(Entries) /\ L \in Nat /\ n \in 0..L
        /\ DOMAIN q.pkts = 1..L /\ \A p \in 1..L : q.pkts[p] \in Entries
    BY QueueIs DEF QueueOk
  <1>1. CASE n = 0
    BY <1>0, <1>1 DEF RemoveHeads
  <1>2. CASE n # 0
    <2>1. P \in Seq(Entries) /\ Len(P) = L - n /\ \A p \in 1..L - n : P[p] = q.pkts[p + n]
      <3>1. n + 1 \in Int /\ L \in Int /\ \A p \in n + 1 .. L : q.pkts[p] \in Entries
        BY <1>0
      <3>2. P \in Seq(Entries) /\ Len(P) = (IF n + 1 <= L THEN L - (n + 1) + 1 ELSE 0)
            /\ \A p \in 1 .. L - (n + 1) + 1 : P[p] = q.pkts[n + 1 + p - 1]
        BY <3>1, SubSeqProperties
      <3>3. \A p \in 1..L - n : n + 1 + p - 1 = p + n
        BY <1>0
      <3>4. L - (n + 1) + 1 = L - n /\ (IF n + 1 <= L THEN L - (n + 1) + 1 ELSE 0) = L - n
        BY <1>0
      <3>. QED  BY <3>2, <3>3, <3>4
    <2>. HIDE DEF P
    <2>2. /\ r.pkts = P /\ r.last = q.last
          /\ r.npt = (IF q.npt \in gone THEN 0 ELSE q.npt)
          /\ r.kf_latest = (IF q.kf_latest \in gone THEN 0 ELSE q.kf_latest)
          /\ r \in Queues
      <3>1. r = [q EXCEPT !.pkts = P, !.npt = IF @ \in gone THEN 0 ELSE @,
                     !.kf_latest = IF @ \in gone THEN 0 ELSE @, !.bof = FALSE]
        BY <1>2 DEF RemoveHeads, P
      <3>. HIDE DEF r, gone
      <3>2. 0 \in Numbers
        BY FileIs
      <3>. QED  BY <1>0, <2>1, <3>1, <3>2 DEF Queues
    <2>. HIDE DEF r
    <2>3. ASSUME NEW i, i # 0 => Has(q, i), NEW j, j = (IF i \in gone THEN 0 ELSE i), j # 0
          PROVE  Has(r, j)
      <3>1. PICK p \in 1..L : q.pkts[p].i = i
        BY <2>3 DEF Has
      <3>2. p > n
        BY <1>0, <2>3, <3>1
      <3>3. p - n \in 1..L - n /\ (p - n) + n = p
        BY <1>0, <3>1, <3>2
      <3>4. P[p - n].i = i
        BY <2>1, <3>1, <3>3
      <3>. QED  BY <2>1, <2>2, <2>3, <3>3, <3>4 DEF Has
    <2>4. (r.npt # 0 => Has(r, r.npt)) /\ (r.kf_latest # 0 => Has(r, r.kf_latest))
      <3>1. (q.npt # 0 => Has(q, q.npt)) /\ (q.kf_latest # 0 => Has(q, q.kf_latest))
        BY DEF QueueOk
      <3>. HIDE DEF gone
      <3>. QED  BY <2>2, <2>3, <3>1
    <2>5. \A p \in 1..L - n : p + n \in 1..L
      BY <1>0
    <2>6. \A p \in 1..L - n : File[P[p].i].s = s /\ P[p].i <= q.last
      BY <2>1, <2>5 DEF QueueOk
    <2>7. ASSUME NEW k \in 1..L - n, NEW m \in 1..L - n, k < m PROVE P[k].i < P[m].i
      <3>1. k + n \in 1..L /\ m + n \in 1..L /\ k + n < m + n
        BY <1>0, <2>5, <2>7
      <3>2. q.pkts[k + n].i < q.pkts[m + n].i
        BY <3>1 DEF QueueOk
      <3>. QED  BY <2>1, <3>2
    <2>8. QueueOk(s, r)
      BY <2>1, <2>2, <2>4, <2>6, <2>7 DEF QueueOk
    <2>. QED  BY <2>1, <2>2, <2>8 DEF r
  <1>. QED  BY <1>1, <1>2

-----------------------------------------------------------------------------
(* Extremes of sets of times                                               *)

\* Sets of times that have a least and a greatest one.
Bounded(T) == T \subseteq Int /\ \E c \in Nat : \A t \in T : -c <= t /\ t <= c

\* A set of numbers has a least one.
LEMMA Least ==
  ASSUME NEW D, D \subseteq Nat, D # {}
  PROVE  \E m \in D : \A k \in D : m <= k
  <1>1. PICK m \in D : \A k \in D : <<k, m>> \notin OpToRel(<, Nat)
    BY NatLessThanWellFounded, WFMin, Zenon
  <1>2. \A k \in D : ~(k < m)
    BY <1>1 DEF OpToRel
  <1>. QED  BY <1>2

\* The greatest and the least time of a bounded set.
LEMMA Extremes ==
  ASSUME NEW T, Bounded(T), T # {}
  PROVE  /\ Max(T) \in T /\ \A t \in T : t <= Max(T)
         /\ Min(T) \in T /\ \A t \in T : Min(T) <= t
  <1>1. PICK c \in Nat : \A t \in T : -c <= t /\ t <= c
    BY DEF Bounded
  <1>2. \A t \in T : t \in Int /\ c - t \in Nat /\ c + t \in Nat
    BY <1>1 DEF Bounded
  <1>. DEFINE D == {n \in Nat : \E t \in T : n = c - t}
              E == {n \in Nat : \E t \in T : n = c + t}
  <1>3. \E m \in T : \A t \in T : m >= t
    <2>1. D \subseteq Nat /\ D # {}
      BY <1>2
    <2>2. PICK d \in D : \A k \in D : d <= k
      <3>. HIDE DEF D
      <3>. QED  BY <2>1, Least
    <2>3. PICK m \in T : d = c - m
      BY <2>2
    <2>4. ASSUME NEW t \in T PROVE m >= t
      <3>1. c - t \in D
        BY <1>2
      <3>2. c - m <= c - t
        BY <2>2, <2>3, <3>1
      <3>. QED  BY <1>2, <3>2
    <2>. QED  BY <2>4
  <1>4. \E m \in T : \A t \in T : m =< t
    <2>1. E \subseteq Nat /\ E # {}
      BY <1>2
    <2>2. PICK d \in E : \A k \in E : d <= k
      <3>. HIDE DEF E
      <3>. QED  BY <2>1, Least
    <2>3. PICK m \in T : d = c + m
      BY <2>2
    <2>4. ASSUME NEW t \in T PROVE m =< t
      <3>1. c + t \in E
        BY <1>2
      <3>2. c + m <= c + t
        BY <2>2, <2>3, <3>1
      <3>. QED  BY <1>2, <3>2
    <2>. QED  BY <2>4
  <1>5. Max(T) \in T /\ \A t \in T : Max(T) >= t
    BY <1>3 DEF Max
  <1>6. Min(T) \in T /\ \A t \in T : Min(T) =< t
    BY <1>4 DEF Min
  <1>. QED  BY <1>2, <1>5, <1>6

\* Finitely many times are bounded.
LEMMA BoundedNumbers ==
  ASSUME NEW N \in Nat, NEW f \in [1..N -> Int], NEW S \in SUBSET (1..N)
  PROVE  Bounded({f[s] : s \in S})
  <1>. DEFINE P == {n \in Nat : n <= N => \E c \in Nat : \A s \in 1..n : -c <= f[s] /\ f[s] <= c}
  <1>1. N \in Nat
    OBVIOUS
  <1>2. 0 \in P
    OBVIOUS
  <1>3. ASSUME NEW n \in Nat, n \in P PROVE n + 1 \in P
    <2>. SUFFICES ASSUME n + 1 <= N
                  PROVE  \E c \in Nat : \A s \in 1..(n + 1) : -c <= f[s] /\ f[s] <= c
      OBVIOUS
    <2>1. PICK c \in Nat : \A s \in 1..n : -c <= f[s] /\ f[s] <= c
      BY <1>1, <1>3
    <2>. DEFINE a == f[n + 1]
                d == c + (IF a < 0 THEN -a ELSE a)
    <2>2. a \in Int /\ \A s \in 1..n : f[s] \in Int
      BY <1>1
    <2>3. d \in Nat /\ -d <= a /\ a <= d /\ c <= d
      BY <2>2
    <2>4. ASSUME NEW s \in 1..(n + 1) PROVE -d <= f[s] /\ f[s] <= d
      <3>. HIDE DEF d
      <3>1. CASE s = n + 1
        BY <2>3, <3>1
      <3>2. CASE s # n + 1
        <4>1. s \in 1..n
          BY <3>2
        <4>. QED  BY <2>1, <2>2, <2>3, <4>1
      <3>. QED  BY <3>1, <3>2
    <2>. HIDE DEF d
    <2>. QED  BY <2>3, <2>4
  <1>4. N \in P
    <2>. HIDE DEF P
    <2>. QED  BY <1>1, <1>2, <1>3, AllNumbers
  <1>5. PICK c \in Nat : \A s \in 1..N : -c <= f[s] /\ f[s] <= c
    BY <1>1, <1>4
  <1>6. \A t \in {f[s] : s \in S} : t \in Int /\ -c <= t /\ t <= c
    BY <1>1, <1>5
  <1>. QED  BY <1>6 DEF Bounded

\* One time per stream, of some streams
LEMMA BoundedTimes ==
  ASSUME NEW f \in [Streams -> Int], NEW S \in SUBSET Streams
  PROVE  Bounded({f[s] : s \in S})
  <1>. DEFINE N == Cardinality(Streams)
  <1>1. N \in Nat /\ Streams = 1..N
    BY StreamsAre
  <1>. HIDE DEF N
  <1>. QED  BY <1>1, BoundedNumbers

\* So is a part of a bounded set,
LEMMA BoundedPart ==
  ASSUME NEW T, Bounded(T), NEW U, U \subseteq T
  PROVE  Bounded(U)
  BY DEF Bounded

\* a bounded set with one more time,
LEMMA BoundedWith ==
  ASSUME NEW T, Bounded(T), NEW a \in Int
  PROVE  Bounded({a} \cup T)
  <1>1. PICK c \in Nat : \A t \in T : -c <= t /\ t <= c
    BY DEF Bounded
  <1>. DEFINE d == c + (IF a < 0 THEN -a ELSE a)
  <1>2. d \in Nat /\ -d <= a /\ a <= d /\ c <= d
    OBVIOUS
  <1>. HIDE DEF d
  <1>3. ASSUME NEW t \in {a} \cup T PROVE t \in Int /\ -d <= t /\ t <= d
    <2>1. CASE t = a
      BY <1>2, <2>1
    <2>2. CASE t \in T
      BY <1>1, <1>2, <2>2 DEF Bounded
    <2>. QED  BY <2>1, <2>2
  <1>. QED  BY <1>2, <1>3 DEF Bounded

\* and a pair.
LEMMA BoundedPair ==
  ASSUME NEW a \in Int, NEW b \in Int
  PROVE  Bounded({a, b})
  <1>1. Bounded({})
    BY DEF Bounded
  <1>2. Bounded({b})
    BY <1>1, BoundedWith
  <1>3. {a} \cup {b} = {a, b}
    OBVIOUS
  <1>. QED  BY <1>2, <1>3, BoundedWith

\* MP_PTS_MAX and MP_PTS_MIN give times.
LEMMA PtsAre ==
  ASSUME NEW T, Bounded(T)
  PROVE  PtsMax(T) \in Int /\ PtsMin(T) \in Int
  <1>1. CASE T \subseteq {NoPts}
    BY <1>1 DEF PtsMax, PtsMin, NoPts
  <1>2. CASE ~(T \subseteq {NoPts})
    <2>1. T \ {NoPts} # {} /\ Bounded(T \ {NoPts}) /\ T \subseteq Int
      BY <1>2, BoundedPart DEF Bounded
    <2>2. Max(T \ {NoPts}) \in T /\ Min(T \ {NoPts}) \in T
      BY <2>1, Extremes
    <2>. QED  BY <1>2, <2>1, <2>2 DEF PtsMax, PtsMin
  <1>. QED  BY <1>1, <1>2

\* A set of places in a queue has a first and a last one.
LEMMA Places ==
  ASSUME NEW N \in Nat, NEW S, S \subseteq 1..N, S # {}
  PROVE  Max(S) \in S /\ Min(S) \in S /\ \A p \in S : Min(S) <= p /\ p <= Max(S)
  <1>1. Bounded(S)
    BY DEF Bounded
  <1>. QED  BY <1>1, Extremes

\* Of the places S, one has the least number.
LEMMA LeastOf ==
  ASSUME NEW N \in Nat, NEW f \in [1..N -> Int], NEW S \in SUBSET (1..N), S # {}
  PROVE  \E s \in S : \A t \in S : f[s] <= f[t]
  <1>. DEFINE T == {f[s] : s \in S}
  <1>1. Bounded(T) /\ T # {}
    BY BoundedNumbers
  <1>. HIDE DEF T
  <1>2. Min(T) \in T /\ \A t \in T : Min(T) <= t
    BY <1>1, Extremes
  <1>. QED  BY <1>2 DEF T
-----------------------------------------------------------------------------
(* Readers and books                                                       *)

\* in->fw_bytes as a sum over the streams.
LEMMA FwIs ==
  ASSUME NEW D \in [Streams -> Readers]
  PROVE  /\ FwBytes(D) \in Nat
         /\ \A s \in Streams : D[s].fw \in Nat /\ FwBytes(D) >= D[s].fw
         /\ (\A s \in Streams : D[s].fw = 0) => FwBytes(D) = 0
  <1>. DEFINE f == [s \in Streams |-> D[s].fw]
              N == Cardinality(Streams)
  <1>1. \A s \in Streams : D[s].fw \in Nat
    BY DEF Readers
  <1>2. f \in [Streams -> Nat] /\ \A s \in Streams : f[s] = D[s].fw
    BY <1>1
  <1>. HIDE DEF f
  <1>3. f \in Seq(Nat) /\ Len(f) = N /\ N \in Nat /\ Streams = 1..N
    BY <1>2, StreamSeq, StreamsAre
  <1>4. f \in Seq(Int)
    BY <1>3, SeqMonotonic, Nat \subseteq Int
  <1>5. FwBytes(D) = Sum(f)
    BY DEF FwBytes, f
  <1>6. Sum(f) \in Nat
    BY <1>3, SumNat
  <1>7. \A s \in Streams : Sum(f) >= f[s]
    BY <1>3, SumPart
  <1>8. (\A s \in Streams : f[s] = 0) => Sum(f) = 0
    BY <1>3, <1>4, SumZero
  <1>. QED  BY <1>1, <1>2, <1>5, <1>6, <1>7, <1>8

\* One reader changes.
LEMMA FwChanged ==
  ASSUME NEW D \in [Streams -> Readers], NEW E \in [Streams -> Readers], NEW s \in Streams,
         \A t \in Streams : t # s => E[t].fw = D[t].fw
  PROVE  FwBytes(E) = FwBytes(D) - D[s].fw + E[s].fw
  <1>. DEFINE f == [t \in Streams |-> D[t].fw]
              g == [t \in Streams |-> E[t].fw]
              N == Cardinality(Streams)
  <1>1. \A t \in Streams : D[t].fw \in Int /\ E[t].fw \in Int
    BY DEF Readers
  <1>2. /\ f \in [Streams -> Int] /\ \A t \in Streams : f[t] = D[t].fw
        /\ g \in [Streams -> Int] /\ \A t \in Streams : g[t] = E[t].fw
    BY <1>1
  <1>3. FwBytes(D) = Sum(f) /\ FwBytes(E) = Sum(g)
    BY DEF FwBytes
  <1>. HIDE DEF f, g
  <1>4. f \in Seq(Int) /\ Len(f) = N /\ g \in Seq(Int) /\ Len(g) = N /\ N \in Nat /\ Streams = 1..N
    BY <1>2, StreamSeq, StreamsAre
  <1>. HIDE DEF N
  <1>5. \A n \in 1..N : n # s => g[n] = f[n]
    BY <1>2, <1>4
  <1>6. Sum(g) = Sum(f) - f[s] + g[s]
    BY <1>4, <1>5, SumChanged
  <1>. QED  BY <1>2, <1>3, <1>6

\* All readers have as much before them as they had.
LEMMA FwSame ==
  ASSUME NEW D, NEW E, \A s \in Streams : E[s].fw = D[s].fw
  PROVE  FwBytes(E) = FwBytes(D)
  <1>1. [s \in Streams |-> E[s].fw] = [s \in Streams |-> D[s].fw]
    OBVIOUS
  <1>. QED  BY <1>1 DEF FwBytes

\* All ranges hold as much as they did.
LEMMA BytesSame ==
  ASSUME NEW R \in Seq(Ranges), NEW R2 \in Seq(Ranges), Len(R2) = Len(R),
         \A n \in 1..Len(R) : Held(R2[n]) = Held(R[n])
  PROVE  Bytes(R2) = Bytes(R)
  <1>1. DOMAIN R = 1..Len(R) /\ DOMAIN R2 = 1..Len(R)
    BY LenProperties
  <1>2. [n \in DOMAIN R2 |-> Held(R2[n])] = [n \in DOMAIN R |-> Held(R[n])]
    BY <1>1
  <1>. QED  BY <1>2 DEF Bytes

\* No range holds anything.
LEMMA BytesZero ==
  ASSUME NEW R \in Seq(Ranges), \A n \in 1..Len(R) : Held(R[n]) = 0
  PROVE  Bytes(R) = 0
  <1>1. /\ HeldBy(R) \in Seq(Int) /\ Len(HeldBy(R)) = Len(R) /\ Bytes(R) = Sum(HeldBy(R))
        /\ \A n \in 1..Len(R) : HeldBy(R)[n] = Held(R[n])
    BY HeldByIs
  <1>. QED  BY <1>1, SumZero

\* The ranges hold no less than each of them.
LEMMA BytesPart ==
  ASSUME NEW R \in Seq(Ranges), NEW k \in 1..Len(R)
  PROVE  Bytes(R) >= Held(R[k])
  <1>1. /\ HeldBy(R) \in Seq(Nat) /\ Len(HeldBy(R)) = Len(R) /\ Bytes(R) = Sum(HeldBy(R))
        /\ \A n \in 1..Len(R) : HeldBy(R)[n] = Held(R[n])
    BY HeldByIs
  <1>. QED  BY <1>1, SumPart

\* What is known of ranges and readers, in the forms it is used.
LEMMA StoredAre ==
  ASSUME NEW R, NEW D, NEW T, Stored(R, D, T)
  PROVE  /\ R \in Seq(Ranges) /\ Len(R) \in Nat \ {0} /\ DOMAIN R = 1..Len(R) /\ Len(R) \in 1..Len(R)
         /\ Last(R) = R[Len(R)] /\ RangeOk(Last(R)) /\ Last(R) \in Ranges
         /\ \A n \in 1..Len(R) : RangeOk(R[n]) /\ R[n] \in Ranges
         /\ \A n \in 1..Len(R), s \in Streams : QueueOk(s, R[n].q[s])
         /\ \A s \in Streams : QueueOk(s, Last(R).q[s]) /\ D[s] \in Readers
         /\ \A s \in Streams : ~D[s].selected => Last(R).q[s].pkts = <<>>
         /\ T \in Nat /\ T = Bytes(R) /\ D \in [Streams -> Readers] /\ FwBytes(D) \in Nat
  <1>1. R \in Seq(Ranges) /\ R # <<>> /\ \A n \in 1..Len(R) : RangeOk(R[n])
    BY DEF Stored
  <1>2. Len(R) \in Nat \ {0} /\ DOMAIN R = 1..Len(R)
    BY <1>1, EmptySeq, LenProperties
  <1>3. Len(R) \in 1..Len(R) /\ Last(R) = R[Len(R)]
    BY <1>2 DEF Last
  <1>4. /\ D \in [Streams -> Readers] /\ T = Bytes(R)
        /\ \A s \in Streams : ~D[s].selected => \A n \in 1..Len(R) : R[n].q[s].pkts = <<>>
    BY DEF Stored
  <1>5. T \in Nat /\ FwBytes(D) \in Nat
    BY <1>1, <1>4, HeldByIs, FwIs
  <1>6. \A n \in 1..Len(R) : R[n] \in Ranges /\ \A s \in Streams : QueueOk(s, R[n].q[s])
    BY <1>1 DEF RangeOk
  <1>. QED  BY <1>1, <1>2, <1>3, <1>4, <1>5, <1>6

\* Another range in place of the kth
LEMMA StoredRange ==
  ASSUME NEW R, NEW D, NEW T, Stored(R, D, T), NEW k \in 1..Len(R), NEW r, RangeOk(r),
         \A s \in Streams : ~D[s].selected => r.q[s].pkts = <<>>
  PROVE  /\ Stored([R EXCEPT ![k] = r], D, T - Held(R[k]) + Held(r))
         /\ Len([R EXCEPT ![k] = r]) = Len(R)
         /\ Last([R EXCEPT ![k] = r]) = IF k = Len(R) THEN r ELSE Last(R)
         /\ Held(R[k]) \in Nat /\ Held(r) \in Nat /\ T \in Nat /\ T >= Held(R[k])
  <1>. DEFINE R2 == [R EXCEPT ![k] = r]
  <1>1. /\ R \in Seq(Ranges) /\ Len(R) \in Nat \ {0} /\ r \in Ranges /\ R[k] \in Ranges
        /\ Last(R) = R[Len(R)] /\ T = Bytes(R) /\ T \in Nat
    BY StoredAre DEF RangeOk
  <1>2. /\ R2 \in Seq(Ranges) /\ Len(R2) = Len(R)
        /\ \A n \in 1..Len(R) : R2[n] = IF n = k THEN r ELSE R[n]
    BY <1>1, ExceptSeq
  <1>. HIDE DEF R2
  <1>3. R2 # <<>> /\ Last(R2) = (IF k = Len(R) THEN r ELSE Last(R))
    BY <1>1, <1>2, EmptySeq DEF Last
  <1>4. \A n \in 1..Len(R2) : RangeOk(R2[n])
    BY <1>2 DEF Stored
  <1>6. \A s \in Streams : ~D[s].selected => \A n \in 1..Len(R2) : R2[n].q[s].pkts = <<>>
    BY <1>2 DEF Stored
  <1>7. Bytes(R2) = T - Held(R[k]) + Held(r)
    <2>1. k \in 1..Len(R) /\ \A n \in 1..Len(R) : n # k => Held(R2[n]) = Held(R[n])
      BY <1>2
    <2>2. Bytes(R2) = Bytes(R) - Held(R[k]) + Held(R2[k])
      BY <1>1, <1>2, <2>1, BytesChanged
    <2>. QED  BY <1>1, <1>2, <2>2
  <1>8. Stored(R2, D, T - Held(R[k]) + Held(r))
    BY <1>2, <1>3, <1>4, <1>6, <1>7 DEF Stored
  <1>9. Held(R[k]) \in Nat /\ Held(r) \in Nat /\ T >= Held(R[k])
    BY <1>1, HeldIs, BytesPart
  <1>. QED  BY <1>1, <1>2, <1>3, <1>8, <1>9 DEF R2

\* One range less, which is not the current one
LEMMA StoredRemoved ==
  ASSUME NEW R, NEW D, NEW T, Stored(R, D, T), NEW k \in 1..Len(R), k # Len(R)
  PROVE  /\ Stored(RemoveAt(R, k), D, T - Held(R[k]))
         /\ Len(RemoveAt(R, k)) = Len(R) - 1 /\ Last(RemoveAt(R, k)) = Last(R)
  <1>. DEFINE R2 == RemoveAt(R, k)
  <1>1. /\ R \in Seq(Ranges) /\ Len(R) \in Nat \ {0} /\ k \in 1..Len(R)
        /\ Last(R) = R[Len(R)] /\ T = Bytes(R)
    BY StoredAre
  <1>2. /\ R2 \in Seq(Ranges) /\ Len(R2) = Len(R) - 1
        /\ \A n \in 1..Len(R) - 1 : R2[n] = IF n < k THEN R[n] ELSE R[n + 1]
    BY <1>1, RemoveAtIs
  <1>3. Bytes(R2) = T - Held(R[k])
    BY <1>1, BytesRemoved
  <1>. HIDE DEF R2
  <1>4. R2 # <<>> /\ Last(R2) = Last(R)
    <2>1. Len(R) - 1 \in 1..Len(R) - 1 /\ ~(Len(R) - 1 < k) /\ (Len(R) - 1) + 1 = Len(R)
      BY <1>1
    <2>2. R2[Len(R) - 1] = R[Len(R)]
      BY <1>2, <2>1
    <2>. QED  BY <1>1, <1>2, <2>1, <2>2, EmptySeq DEF Last
  <1>5. \A n \in 1..Len(R2) : \E m \in 1..Len(R) : R2[n] = R[m]
    <2>. SUFFICES ASSUME NEW n \in 1..Len(R2) PROVE \E m \in 1..Len(R) : R2[n] = R[m]
      OBVIOUS
    <2>1. n \in 1..Len(R) - 1 /\ n \in 1..Len(R) /\ n + 1 \in 1..Len(R)
      BY <1>1, <1>2
    <2>. QED  BY <1>2, <2>1
  <1>6. \A n \in 1..Len(R2) : RangeOk(R2[n])
    BY <1>5 DEF Stored
  <1>7. ASSUME NEW s \in Streams, ~D[s].selected, NEW n \in 1..Len(R2) PROVE R2[n].q[s].pkts = <<>>
    <2>1. PICK m \in 1..Len(R) : R2[n] = R[m]
      BY <1>5
    <2>2. R[m].q[s].pkts = <<>>
      BY <1>7 DEF Stored
    <2>. QED  BY <2>1, <2>2
  <1>8. Stored(R2, D, T - Held(R[k]))
    BY <1>2, <1>3, <1>4, <1>6, <1>7 DEF Stored
  <1>. QED  BY <1>2, <1>4, <1>8 DEF R2
-----------------------------------------------------------------------------
(* Ranges                                                                  *)

\* update_seek_ranges changes the times of a range only.
LEMMA UpdateSeekRangeIs ==
  ASSUME NEW x, NEW r \in Ranges
  PROVE  UpdateSeekRange(x, r) \in Ranges /\ UpdateSeekRange(x, r).q = r.q
  <1>. DEFINE E == Eager(x)
              bof == \A s \in E : r.q[s].bof
              eof == \A s \in E : r.q[s].eof
              lo == IF bof THEN PtsMin({r.q[s].start : s \in E})
                    ELSE PtsMax({r.q[s].start : s \in {t \in E : ~r.q[t].bof}})
              hi == IF eof THEN PtsMax({r.q[s].end : s \in E})
                    ELSE PtsMin({r.q[s].end : s \in {t \in E : ~r.q[t].eof}})
              sparse == {s \in Selected(x) \ E : r.q[s].pruned # NoPts}
              start == IF lo = NoPts THEN lo
                       ELSE PtsMax({lo} \cup {r.q[s].pruned + 1 : s \in sparse})
              broken == \/ start >= hi
                        \/ \E s \in E : /\ r.q[s].start >= r.q[s].end
                                        /\ ~(r.q[s].eof /\ r.q[s].pkts = <<>>)
  <1>1. E \in SUBSET Streams /\ sparse \in SUBSET Streams
        /\ {t \in E : ~r.q[t].bof} \in SUBSET Streams /\ {t \in E : ~r.q[t].eof} \in SUBSET Streams
    BY DEF Eager, Selected
  <1>2. \A s \in Streams : r.q[s].start \in Int /\ r.q[s].end \in Int /\ r.q[s].pruned + 1 \in Int
    BY DEF Ranges, Queues
  <1>3. ASSUME NEW S \in SUBSET Streams
        PROVE  /\ Bounded({r.q[s].start : s \in S}) /\ Bounded({r.q[s].end : s \in S})
               /\ Bounded({r.q[s].pruned + 1 : s \in S})
    <2>. DEFINE f == [s \in Streams |-> r.q[s].start]
                g == [s \in Streams |-> r.q[s].end]
                h == [s \in Streams |-> r.q[s].pruned + 1]
    <2>1. f \in [Streams -> Int] /\ g \in [Streams -> Int] /\ h \in [Streams -> Int]
      BY <1>2
    <2>2. /\ {f[s] : s \in S} = {r.q[s].start : s \in S} /\ {g[s] : s \in S} = {r.q[s].end : s \in S}
          /\ {h[s] : s \in S} = {r.q[s].pruned + 1 : s \in S}
      OBVIOUS
    <2>. HIDE DEF f, g, h
    <2>3. Bounded({f[s] : s \in S}) /\ Bounded({g[s] : s \in S}) /\ Bounded({h[s] : s \in S})
      BY <2>1, BoundedTimes
    <2>. QED  BY <2>2, <2>3
  <1>4. lo \in Int
    <2>. HIDE DEF E
    <2>. QED  BY <1>1, <1>3, PtsAre
  <1>5. hi \in Int
    <2>. HIDE DEF E
    <2>. QED  BY <1>1, <1>3, PtsAre
  <1>6. start \in Int
    <2>. HIDE DEF E, lo, sparse
    <2>1. Bounded({lo} \cup {r.q[s].pruned + 1 : s \in sparse})
      BY <1>1, <1>3, <1>4, BoundedWith
    <2>. QED  BY <1>4, <2>1, PtsAre
  <1>7. UpdateSeekRange(x, r)
          = [r EXCEPT !.bof = bof, !.eof = eof,
                      !.start = IF broken THEN NoPts ELSE start,
                      !.end = IF broken THEN NoPts ELSE hi]
    BY DEF UpdateSeekRange
  <1>8. bof \in BOOLEAN /\ eof \in BOOLEAN /\ (IF broken THEN NoPts ELSE start) \in Int
        /\ (IF broken THEN NoPts ELSE hi) \in Int
    <2>1. NoPts \in Int
      BY DEF NoPts
    <2>. HIDE DEF E, lo, hi, start, broken
    <2>. QED  BY <1>5, <1>6, <2>1
  <1>. HIDE DEF E, bof, eof, lo, hi, sparse, start, broken
  <1>. QED  BY <1>7, <1>8 DEF Ranges

\* Only the queues matter.
LEMMA SameQueues ==
  ASSUME NEW r, RangeOk(r), NEW r2 \in Ranges, r2.q = r.q
  PROVE  RangeOk(r2) /\ Held(r2) = Held(r)
  BY HeldSame DEF RangeOk

\* update_seek_ranges leaves the queues as they are.
LEMMA UpdateSeekRangeOk ==
  ASSUME NEW x, NEW r, RangeOk(r)
  PROVE  /\ RangeOk(UpdateSeekRange(x, r)) /\ UpdateSeekRange(x, r) \in Ranges
         /\ UpdateSeekRange(x, r).q = r.q /\ Held(UpdateSeekRange(x, r)) = Held(r)
  <1>1. UpdateSeekRange(x, r) \in Ranges /\ UpdateSeekRange(x, r).q = r.q
    BY UpdateSeekRangeIs DEF RangeOk
  <1>. QED  BY <1>1, SameQueues

\* What Seekable keeps on the way
KeepUpto(R) ==
  CHOOSE g : g = [n \in 0 .. Len(R) |->
                    IF n = 0 THEN <<>>
                    ELSE IF R[n].start = NoPts THEN g[n - 1]
                    ELSE Append(g[n - 1], R[n])]

\* The ranges that are reported are some of those that are there.
LEMMA SeekableIs ==
  ASSUME NEW S, NEW R \in Seq(S)
  PROVE  Seekable(R) \in Seq(S) /\ Len(Seekable(R)) <= Len(R)
  <1>. DEFINE N == Len(R)
              step == [n \in 1..N |-> [v \in Seq(S) |->
                         IF R[n].start = NoPts THEN v ELSE Append(v, R[n])]]
              Is(g) == g = [n \in 0 .. N |-> IF n = 0 THEN <<>>
                                             ELSE IF R[n].start = NoPts THEN g[n - 1]
                                             ELSE Append(g[n - 1], R[n])]
  <1>1. N \in Nat /\ \A n \in 1..N : R[n] \in S
    BY LenProperties
  <1>2. step \in Steps(N, Seq(S)) /\ <<>> \in Seq(S)
    <2>1. \A n \in 1..N : \A v \in Seq(S) : Append(v, R[n]) \in Seq(S)
      BY <1>1, AppendProperties
    <2>. QED  BY <2>1, EmptySeq DEF Steps
  <1>3. PICK g \in [0..N -> Seq(S)] : g[0] = <<>> /\ \A n \in 1..N : g[n] = step[n][g[n - 1]]
    <2>. HIDE DEF step, N
    <2>1. HasRecursion(N, Seq(S), <<>>, step)
      BY <1>1, <1>2, Recursion
    <2>. QED  BY <2>1 DEF HasRecursion
  <1>4. ASSUME NEW n \in 1..N
        PROVE  g[n] = (IF R[n].start = NoPts THEN g[n - 1] ELSE Append(g[n - 1], R[n]))
    <2>1. n - 1 \in 0..N
      BY <1>1
    <2>2. g[n - 1] \in Seq(S)
      BY <2>1
    <2>. QED  BY <1>3, <2>2
  <1>. HIDE DEF step
  <1>5. Is(g)
    <2>1. ASSUME NEW n \in 0..N
          PROVE  g[n] = IF n = 0 THEN <<>>
                        ELSE IF R[n].start = NoPts THEN g[n - 1]
                        ELSE Append(g[n - 1], R[n])
      <3>1. CASE n = 0
        BY <1>3, <3>1
      <3>2. CASE n # 0
        <4>1. n \in 1..N
          BY <1>1, <3>2
        <4>. QED  BY <1>4, <3>2, <4>1
      <3>. QED  BY <3>1, <3>2
    <2>. QED  BY <1>3, <2>1
  <1>6. Is(KeepUpto(R)) /\ Seekable(R) = KeepUpto(R)[N]
    BY <1>5 DEF KeepUpto, Seekable
  <1>. DEFINE u == KeepUpto(R)
              P == {k \in Nat : k <= N => u[k] \in Seq(S) /\ Len(u[k]) <= k}
  <1>. HIDE DEF u, N
  <1>7. /\ u[0] = <<>>
        /\ \A n \in 1..N : u[n] = IF R[n].start = NoPts THEN u[n - 1] ELSE Append(u[n - 1], R[n])
    <2>1. u = [n \in 0 .. N |-> IF n = 0 THEN <<>>
                                ELSE IF R[n].start = NoPts THEN u[n - 1]
                                ELSE Append(u[n - 1], R[n])]
      BY <1>6 DEF u
    <2>2. 0 \in 0..N /\ \A n \in 1..N : n \in 0..N /\ n # 0
      BY <1>1
    <2>3. u[0] = <<>>
      BY <2>1, <2>2
    <2>4. ASSUME NEW n \in 1..N
          PROVE  u[n] = IF R[n].start = NoPts THEN u[n - 1] ELSE Append(u[n - 1], R[n])
      <3>. DEFINE rest(k) == IF R[k].start = NoPts THEN u[k - 1] ELSE Append(u[k - 1], R[k])
      <3>1. u = [k \in 0 .. N |-> IF k = 0 THEN <<>> ELSE rest(k)]
        BY <2>1
      <3>. HIDE DEF rest
      <3>2. u[n] = rest(n)
        BY <2>2, <3>1
      <3>. QED  BY <3>2 DEF rest
    <2>. QED  BY <2>3, <2>4
  <1>. HIDE DEF Is
  <1>8. 0 \in P
    <2>1. <<>> \in Seq(S) /\ Len(<<>>) = 0
      BY EmptySeq
    <2>2. u[0] \in Seq(S) /\ Len(u[0]) <= 0
      BY <1>7, <2>1
    <2>. QED  BY <2>2
  <1>9. ASSUME NEW n \in Nat, n \in P PROVE n + 1 \in P
    <2>. SUFFICES ASSUME n + 1 <= N PROVE u[n + 1] \in Seq(S) /\ Len(u[n + 1]) <= n + 1
      OBVIOUS
    <2>1. n + 1 \in 1..N /\ (n + 1) - 1 = n /\ u[n] \in Seq(S) /\ Len(u[n]) <= n
      BY <1>1, <1>9
    <2>2. R[n + 1] \in S /\ Len(u[n]) \in Nat
      BY <1>1, <2>1, LenProperties
    <2>3. Append(u[n], R[n + 1]) \in Seq(S) /\ Len(Append(u[n], R[n + 1])) = Len(u[n]) + 1
      BY <2>1, <2>2, AppendProperties
    <2>4. CASE R[n + 1].start = NoPts
      <3>1. u[n + 1] = u[n]
        BY <1>7, <2>1, <2>4
      <3>. QED  BY <2>1, <2>2, <3>1
    <2>5. CASE R[n + 1].start # NoPts
      <3>1. u[n + 1] = Append(u[n], R[n + 1])
        BY <1>7, <2>1, <2>5
      <3>. QED  BY <2>1, <2>2, <2>3, <3>1
    <2>. QED  BY <2>4, <2>5
  <1>10. N \in P
    <2>. HIDE DEF P
    <2>. QED  BY <1>1, <1>8, <1>9, AllNumbers
  <1>. QED  BY <1>1, <1>6, <1>10 DEF u, N

\* All ranges but the current one, and that one, are the ranges.
LEMMA FrontIs ==
  ASSUME NEW S, NEW R \in Seq(S), R # <<>>
  PROVE  /\ Front(R) \in Seq(S) /\ Len(Front(R)) = Len(R) - 1 /\ Len(R) \in Nat \ {0}
         /\ \A n \in 1..Len(R) - 1 : Front(R)[n] = R[n] /\ n \in 1..Len(R)
         /\ Append(Front(R), Last(R)) = R /\ Last(R) \in S
  <1>. DEFINE N == Len(R)
              Q == Front(R)
  <1>1. N \in Nat \ {0} /\ \A n \in 1..N : R[n] \in S
    BY EmptySeq, LenProperties
  <1>2. \A n \in 1..N - 1 : n \in 1..N /\ 1 + n - 1 = n
    BY <1>1
  <1>3. /\ Q \in Seq(S) /\ Len(Q) = N - 1 /\ \A n \in 1..N - 1 : Q[n] = R[n]
    <2>. HIDE DEF N
    <2>1. 1 \in Int /\ N - 1 \in Int /\ \A n \in 1..N - 1 : R[n] \in S
      BY <1>1, <1>2
    <2>. DEFINE M == N - 1
    <2>2. M \in Nat /\ Q = SubSeq(R, 1, M)
      BY <1>1 DEF Front, N
    <2>3. \A n \in 1..M : R[n] \in S
      BY <2>1
    <2>. HIDE DEF M, Q
    <2>4. Q \in Seq(S) /\ Len(Q) = (IF 1 <= M THEN M - 1 + 1 ELSE 0)
          /\ \A n \in 1..M - 1 + 1 : Q[n] = R[1 + n - 1]
      BY <2>2, <2>3, SubSeqProperties
    <2>5. M - 1 + 1 = M /\ (IF 1 <= M THEN M - 1 + 1 ELSE 0) = M
      BY <2>2
    <2>6. \A n \in 1..M : Q[n] = R[n]
      BY <1>2, <2>4, <2>5 DEF M
    <2>. QED  BY <2>4, <2>5, <2>6 DEF M
  <1>4. Last(R) = R[N] /\ Last(R) \in S
    BY <1>1 DEF Last
  <1>. HIDE DEF N, Q
  <1>5. /\ Append(Q, Last(R)) \in Seq(S) /\ Len(Append(Q, Last(R))) = N
        /\ Append(Q, Last(R))[N] = Last(R)
        /\ \A n \in 1..N - 1 : Append(Q, Last(R))[n] = Q[n]
    <2>1. /\ Append(Q, Last(R)) \in Seq(S) /\ Len(Append(Q, Last(R))) = (N - 1) + 1
          /\ Append(Q, Last(R))[(N - 1) + 1] = Last(R)
          /\ \A n \in 1..N - 1 : Append(Q, Last(R))[n] = Q[n]
      BY <1>3, <1>4, AppendProperties
    <2>2. (N - 1) + 1 = N
      BY <1>1
    <2>. QED  BY <2>1, <2>2
  <1>. DEFINE A == Append(Q, Last(R))
  <1>6. \A n \in 1..N : A[n] = R[n]
    <2>. SUFFICES ASSUME NEW n \in 1..N PROVE A[n] = R[n]
      OBVIOUS
    <2>1. CASE n = N
      BY <1>4, <1>5, <2>1
    <2>2. CASE n # N
      <3>1. n \in 1..N - 1
        BY <1>1, <2>2
      <3>. QED  BY <1>3, <1>5, <3>1
    <2>. QED  BY <2>1, <2>2
  <1>7. A = R
    <2>1. A \in Seq(S) /\ Len(A) = Len(R) /\ R \in Seq(S)
      BY <1>5 DEF N
    <2>. HIDE DEF A
    <2>. QED  BY <1>6, <2>1, SeqEqual DEF N
  <1>. QED  BY <1>1, <1>2, <1>3, <1>4, <1>7 DEF N, Q, A

\* The empty ranges go, and one more if there are too many.
LEMMA FreeEmptyRangesIs ==
  ASSUME NEW x, DOMAIN x = Fields, Stored(x.ranges, x.ds, x.total), Len(x.ranges) <= MaxRanges + 1,
         NEW y, y = FreeEmptyRanges(x)
  PROVE  /\ AllBut({"ranges", "total"}, x, y)
         /\ Stored(y.ranges, x.ds, y.total) /\ Len(y.ranges) <= MaxRanges
         /\ Last(y.ranges) = Last(x.ranges)
         /\ \A n \in 1..Len(y.ranges) : \E m \in 1..Len(x.ranges) : y.ranges[n] = x.ranges[m]
  <1>. DEFINE R == x.ranges
              N == Len(R)
              S == {R[n] : n \in 1..N}
              old == Seekable(Front(R))
              L == Len(old)
              span(n) == old[n].end - old[n].start
              short == {n \in DOMAIN old : \A m \in DOMAIN old : span(n) <= span(m)}
              left == IF L < MaxRanges THEN old ELSE RemoveAt(old, Max(short))
  <1>1. /\ R \in Seq(Ranges) /\ N \in Nat \ {0} /\ Last(R) = R[N] /\ R # <<>>
        /\ \A n \in 1..N : RangeOk(R[n]) /\ R[n] \in Ranges
        /\ x.total = Bytes(R) /\ MaxRanges \in Nat \ {0}
    BY StoredAre, DemuxAssumption DEF Stored
  <1>2. R \in Seq(S) /\ S \subseteq Ranges /\ Last(R) \in S
    <2>1. R \in [1..N -> S]
      BY <1>1, LenProperties
    <2>2. R \in Seq(S)
      BY <1>1, <2>1, SeqDef
    <2>. QED  BY <1>1, <2>2
  <1>. HIDE DEF S, R, N
  <1>3. /\ Front(R) \in Seq(S) /\ Len(Front(R)) = N - 1
        /\ Front(R) \in Seq(Ranges) /\ Append(Front(R), Last(R)) = R
    BY <1>1, <1>2, FrontIs DEF N
  <1>4. old \in Seq(S) /\ L <= N - 1 /\ L \in Nat /\ DOMAIN old = 1..L
    <2>1. old \in Seq(S) /\ Len(old) <= Len(Front(R))
      BY <1>3, SeekableIs
    <2>. QED  BY <1>3, <2>1, LenProperties
  <1>5. \A n \in 1..L : old[n] \in S /\ old[n].start \in Int /\ old[n].end \in Int
    <2>1. \A n \in 1..L : old[n] \in S
      BY <1>4, LenProperties
    <2>. QED  BY <1>2, <2>1 DEF Ranges
  <1>. HIDE DEF old, L
  <1>6. left \in Seq(S) /\ Len(left) <= MaxRanges - 1 /\ Len(left) \in Nat
    <2>1. CASE L < MaxRanges
      BY <1>1, <1>4, <2>1 DEF L
    <2>2. CASE ~(L < MaxRanges)
      <3>1. L = MaxRanges /\ L \in Nat \ {0}
        BY <1>1, <1>4, <2>2 DEF N, R
      <3>. DEFINE f == [n \in 1..L |-> span(n)]
      <3>2. f \in [1..L -> Int] /\ \A n \in 1..L : f[n] = span(n)
        BY <1>5
      <3>3. 1..L # {} /\ 1..L \in SUBSET (1..L)
        BY <3>1
      <3>. HIDE DEF f
      <3>4. \E n \in 1..L : \A m \in 1..L : f[n] <= f[m]
        BY <1>4, <3>2, <3>3, LeastOf
      <3>5. short # {} /\ short \subseteq 1..L
        <4>1. PICK k \in 1..L : \A m \in 1..L : f[k] <= f[m]
          BY <3>4
        <4>2. \A m \in 1..L : span(k) <= span(m)
          BY <3>2, <4>1
        <4>3. k \in short
          BY <1>4, <4>2
        <4>. QED  BY <1>4, <4>3
      <3>. HIDE DEF short
      <3>6. Max(short) \in 1..L
        BY <1>4, <3>5, Places
      <3>7. Max(short) \in 1..Len(old)
        BY <3>6 DEF L
      <3>8. RemoveAt(old, Max(short)) \in Seq(S) /\ Len(RemoveAt(old, Max(short))) = L - 1
        BY <1>4, <3>7, RemoveAtIs DEF L
      <3>. QED  BY <2>2, <3>1, <3>8
    <2>. QED  BY <2>1, <2>2
  <1>7. y = [x EXCEPT !.ranges = Append(left, Last(R)),
                      !.total = @ - (Bytes(Front(R)) - Bytes(left))]
    BY DEF FreeEmptyRanges, Cur, R, old, L
  <1>. HIDE DEF left
  <1>. DEFINE R2 == Append(left, Last(R))
              T2 == x.total - (Bytes(Front(R)) - Bytes(left))
  <1>8. AllBut({"ranges", "total"}, x, y) /\ y.ranges = R2 /\ y.total = T2
    BY <1>7 DEF AllBut, Fields
  <1>9. /\ R2 \in Seq(S) /\ Len(R2) = Len(left) + 1 /\ R2[Len(left) + 1] = Last(R)
    BY <1>2, <1>6, AppendProperties
  <1>10. R2 \in Seq(Ranges) /\ R2 # <<>> /\ Last(R2) = Last(R) /\ Len(R2) <= MaxRanges
    <2>1. R2 \in Seq(Ranges)
      BY <1>2, <1>9, SeqMonotonic
    <2>2. Len(R2) # 0 /\ Len(R2) <= MaxRanges
      BY <1>1, <1>6, <1>9
    <2>3. R2 # <<>>
      BY <2>2, EmptySeq
    <2>. QED  BY <1>9, <2>1, <2>2, <2>3 DEF Last
  <1>11. \A n \in 1..Len(R2) : \E m \in 1..N : R2[n] = R[m]
    <2>. HIDE DEF R2
    <2>1. \A n \in 1..Len(R2) : R2[n] \in S
      BY <1>9, LenProperties
    <2>. QED  BY <2>1 DEF S
  <1>12. T2 = Bytes(R2)
    <2>1. left \in Seq(Ranges) /\ Last(R) \in Ranges
      BY <1>2, <1>6, SeqMonotonic
    <2>2. Bytes(R2) = Bytes(left) + Held(Last(R))
      BY <2>1, BytesAppended
    <2>3. Bytes(R) = Bytes(Front(R)) + Held(Last(R))
      BY <1>3, <2>1, BytesAppended
    <2>4. Bytes(left) \in Nat /\ Bytes(Front(R)) \in Nat /\ Held(Last(R)) \in Nat
      BY <1>3, <2>1, HeldByIs, HeldIs
    <2>5. x.total = Bytes(R)
      BY <1>1
    <2>. HIDE DEF R2
    <2>. QED  BY <2>2, <2>3, <2>4, <2>5
  <1>. HIDE DEF R2, T2
  <1>13. \A n \in 1..Len(R2) : RangeOk(R2[n])
    BY <1>1, <1>11
  <1>14. ASSUME NEW s \in Streams, ~x.ds[s].selected, NEW n \in 1..Len(R2)
         PROVE  R2[n].q[s].pkts = <<>>
    <2>1. PICK m \in 1..N : R2[n] = R[m]
      BY <1>11
    <2>2. R[m].q[s].pkts = <<>>
      BY <1>14 DEF Stored, R, N
    <2>. QED  BY <2>1, <2>2
  <1>15. x.ds \in [Streams -> Readers]
    BY DEF Stored
  <1>16. Stored(R2, x.ds, T2)
    BY <1>10, <1>12, <1>13, <1>14, <1>15 DEF Stored
  <1>. QED  BY <1>8, <1>10, <1>11, <1>16 DEF R, N

\* free_empty_cached_ranges drops ranges that hold nothing, or the oldest one,
\* never the current one.
LEMMA FreeEmptyRangesOk ==
  ASSUME NEW x, DOMAIN x = Fields, Stored(x.ranges, x.ds, x.total), Len(x.ranges) <= MaxRanges + 1,
         NEW y, y = FreeEmptyRanges(x)
  PROVE  /\ AllBut({"ranges", "total"}, x, y)
         /\ Stored(y.ranges, x.ds, y.total) /\ Len(y.ranges) <= MaxRanges
         /\ Last(y.ranges) = Last(x.ranges)
  BY FreeEmptyRangesIs
-----------------------------------------------------------------------------
(* Readers and wakeups                                                     *)

\* The fields the books are about.
Core == {"ranges", "ds", "total", "fw_bytes", "failed", "seeking"}

\* What else there is does not matter.
LEMMA Aside ==
  ASSUME NEW x, NEW y, NEW S, AllBut(S, x, y), S \cap Core = {}, NEW b, NEW fp
  PROVE  /\ Nearly(x, b, fp) => Nearly(y, b, fp)
         /\ Sound(x, b, fp) => Sound(y, b, fp)
         /\ y.ranges = x.ranges /\ y.ds = x.ds /\ y.total = x.total /\ y.fw_bytes = x.fw_bytes
         /\ y.failed = x.failed /\ y.seeking = x.seeking
  <1>1. Core \subseteq Fields \ S
    BY DEF Core, Fields
  <1>2. \A f \in Core : y[f] = x[f]
    BY <1>1 DEF AllBut
  <1>3. /\ y.ranges = x.ranges /\ y.ds = x.ds /\ y.total = x.total /\ y.fw_bytes = x.fw_bytes
        /\ y.failed = x.failed /\ y.seeking = x.seeking
    BY <1>2 DEF Core
  <1>4. DOMAIN y = Fields
    BY DEF AllBut
  <1>5. Nearly(x, b, fp) => Nearly(y, b, fp)
    BY <1>3, <1>4 DEF Nearly
  <1>. QED  BY <1>3, <1>5 DEF Sound

\* pthread_cond_signal wakes who sleeps, and changes nothing else.
LEMMA SignalIs ==
  ASSUME NEW x, DOMAIN x = Fields
  PROVE  AllBut({"asleep"}, x, Signal(x)) /\ Signal(x).asleep = {}
  BY DEF Signal, AllBut, Fields

\* It keeps the books.
LEMMA SignalOk ==
  ASSUME NEW x, NEW b, NEW fp, Sound(x, b, fp)
  PROVE  Sound(Signal(x), b, fp) /\ Quiet(x, Signal(x))
  <1>1. AllBut({"asleep"}, x, Signal(x)) /\ Signal(x).asleep = {}
    BY SignalIs DEF Sound, Nearly
  <1>2. Sound(Signal(x), b, fp)
    BY <1>1, Aside DEF Core
  <1>3. Signal(x).run_fn = x.run_fn
    BY <1>1 DEF AllBut, Fields
  <1>. QED  BY <1>1, <1>2, <1>3 DEF Quiet

\* Readers that are where they were
SameReaders(D, E) ==
  /\ E \in [Streams -> Readers]
  /\ \A s \in Streams : /\ E[s].head = D[s].head /\ E[s].fw = D[s].fw
                        /\ (E[s].selected <=> D[s].selected)
                        /\ (E[s].refreshing <=> D[s].refreshing)

\* Whatever changes beside the books keeps them.
LEMMA SameReadersOk ==
  ASSUME NEW x, NEW y, NEW b, NEW fp, NEW S, AllBut(S \cup {"ds"}, x, y), S \cap Core = {},
         Sound(x, b, fp), SameReaders(x.ds, y.ds)
  PROVE  Sound(y, b, fp)
  <1>1. /\ y.ranges = x.ranges /\ y.total = x.total /\ y.fw_bytes = x.fw_bytes
        /\ y.failed = x.failed /\ y.seeking = x.seeking /\ DOMAIN y = Fields
    <2>1. {"ranges", "total", "fw_bytes", "failed", "seeking"} \subseteq Fields \ (S \cup {"ds"})
      BY DEF Core, Fields
    <2>. QED  BY <2>1 DEF AllBut
  <1>. DEFINE R == x.ranges
              D == x.ds
              E == y.ds
  <1>2. Stored(R, D, x.total) /\ Served(R, D, x.fw_bytes) /\ ~x.failed /\ Len(R) <= MaxRanges
        /\ Follows(R, D, x.seeking \/ b, fp)
    BY DEF Sound, Nearly, Books
  <1>. HIDE DEF R, D, E
  <1>3. SameReaders(D, E)
    BY DEF D, E
  <1>4. FwBytes(E) = FwBytes(D)
    BY <1>3, FwSame DEF SameReaders
  <1>5. Stored(R, E, x.total)
    BY <1>2, <1>3 DEF Stored, SameReaders
  <1>6. Served(R, E, x.fw_bytes)
    BY <1>2, <1>3, <1>4 DEF Served, ReaderOk, SameReaders
  <1>7. Follows(R, E, x.seeking \/ b, fp)
    BY <1>2, <1>3 DEF Follows, SameReaders
  <1>. QED  BY <1>1, <1>2, <1>5, <1>6, <1>7 DEF Sound, Nearly, Books, R, D, E

\* wakeup_ds keeps the books.
LEMMA WakeupOk ==
  ASSUME NEW x, NEW b, NEW fp, Sound(x, b, fp), NEW S
  PROVE  Sound(Wakeup(x, S), b, fp) /\ Quiet(x, Wakeup(x, S))
  <1>. DEFINE W == {s \in S : x.ds[s].need}
              E == [s \in Streams |-> [x.ds[s] EXCEPT !.need = @ /\ s \notin W]]
              z == [x EXCEPT !.ds = E, !.woken = TRUE]
              y == Signal(z)
  <1>0. DOMAIN x = Fields /\ x.ds \in [Streams -> Readers]
    BY DEF Sound, Nearly, Books, Stored
  <1>1. CASE W = {}
    <2>1. Wakeup(x, S) = x
      BY <1>1 DEF Wakeup
    <2>. QED  BY <2>1 DEF Quiet
  <1>2. CASE W # {}
    <2>1. Wakeup(x, S) = y
      BY <1>2 DEF Wakeup
    <2>2. SameReaders(x.ds, E)
      <3>1. ASSUME NEW s \in Streams
            PROVE  /\ E[s] \in Readers /\ E[s].head = x.ds[s].head /\ E[s].fw = x.ds[s].fw
                   /\ (E[s].selected <=> x.ds[s].selected)
                   /\ (E[s].refreshing <=> x.ds[s].refreshing)
        <4>1. x.ds[s] \in Readers
          BY <1>0
        <4>. HIDE DEF W
        <4>. QED  BY <4>1 DEF Readers
      <3>. HIDE DEF W
      <3>2. E \in [Streams -> Readers]
        BY <3>1
      <3>. HIDE DEF E
      <3>. QED  BY <3>1, <3>2 DEF SameReaders
    <2>. HIDE DEF E
    <2>3. DOMAIN z = Fields
      BY <1>0
    <2>4. AllBut({"asleep"}, z, y) /\ y.asleep = {}
      BY <2>3, SignalIs
    <2>5. AllBut({"ds", "woken"}, x, z) /\ z.ds = E
      BY <1>0 DEF AllBut, Fields
    <2>. HIDE DEF z, y
    <2>6. AllBut({"asleep", "woken"} \cup {"ds"}, x, y) /\ y.ds = E
      BY <2>4, <2>5 DEF AllBut, Fields
    <2>7. Sound(y, b, fp)
      BY <2>2, <2>6, SameReadersOk DEF Core
    <2>8. y.run_fn = x.run_fn
      BY <2>6 DEF AllBut, Fields
    <2>. QED  BY <2>1, <2>4, <2>7, <2>8 DEF Quiet
  <1>. QED  BY <1>1, <1>2

\* What is left in a queue from one of its packets on.
LEMMA FromIs ==
  ASSUME NEW s, NEW q, QueueOk(s, q), NEW i, i # 0 => Has(q, i)
  PROVE  /\ From(q, i) \in Nat /\ (i # 0 => From(q, i) \in Nat \ {0})
         /\ (i # 0 => From(q, i) = Len(q.pkts) - At(q, i) + 1 /\ At(q, i) \in 1..Len(q.pkts))
  <1>1. CASE i = 0
    BY <1>1 DEF From
  <1>2. CASE i # 0
    <2>1. At(q, i) \in 1..Len(q.pkts) /\ Len(q.pkts) \in Nat
      BY <1>2, AtIs, QueueIs
    <2>2. From(q, i) = Len(q.pkts) - At(q, i) + 1
      BY <1>2 DEF From
    <2>. DEFINE a == At(q, i)
                l == Len(q.pkts)
    <2>. HIDE DEF a, l
    <2>3. a \in 1..l /\ l \in Nat /\ From(q, i) = l - a + 1
      BY <2>1, <2>2 DEF a, l
    <2>4. From(q, i) \in Nat \ {0}
      BY <2>3
    <2>. QED  BY <1>2, <2>1, <2>2, <2>4
  <1>. QED  BY <1>1, <1>2

\* Readers that are counted again are served.
LEMMA RecountOk ==
  ASSUME NEW x, DOMAIN x = Fields, Stored(x.ranges, x.ds, x.total),
         \A s \in Streams : x.ds[s].head # 0 => Has(CurQ(x, s), x.ds[s].head),
         NEW y, y = Recount(x)
  PROVE  /\ AllBut({"ds", "fw_bytes"}, x, y) /\ Books(x.ranges, y.ds, x.total, y.fw_bytes)
         /\ \A s \in Streams : /\ (y.ds[s].refreshing <=> x.ds[s].refreshing)
                               /\ (y.ds[s].selected <=> x.ds[s].selected)
                               /\ y.ds[s].head = x.ds[s].head
  <1>. DEFINE E == [s \in Streams |-> [x.ds[s] EXCEPT !.fw = From(CurQ(x, s), x.ds[s].head)]]
              R == x.ranges
  <1>1. \A s \in Streams : x.ds[s] \in Readers /\ QueueOk(s, CurQ(x, s)) /\ CurQ(x, s) = Last(R).q[s]
    BY StoredAre DEF CurQ, Cur
  <1>2. y = [x EXCEPT !.ds = E, !.fw_bytes = FwBytes(E)]
    BY DEF Recount
  <1>3. ASSUME NEW s \in Streams
        PROVE  /\ E[s] \in Readers /\ E[s].head = x.ds[s].head /\ E[s].fw = From(CurQ(x, s), E[s].head)
               /\ (E[s].selected <=> x.ds[s].selected)
               /\ (E[s].refreshing <=> x.ds[s].refreshing)
    <2>. DEFINE f == From(CurQ(x, s), x.ds[s].head)
    <2>1. f \in Nat
      BY <1>1, FromIs
    <2>2. x.ds[s] \in Readers /\ E[s] = [x.ds[s] EXCEPT !.fw = f]
      BY <1>1
    <2>. HIDE DEF f, E
    <2>3. /\ E[s] \in Readers /\ E[s].head = x.ds[s].head /\ E[s].fw = f
          /\ (E[s].selected <=> x.ds[s].selected)
          /\ (E[s].refreshing <=> x.ds[s].refreshing)
      BY <2>1, <2>2 DEF Readers
    <2>. QED  BY <2>3 DEF f
  <1>4. E \in [Streams -> Readers]
    BY <1>3
  <1>. HIDE DEF E
  <1>5. AllBut({"ds", "fw_bytes"}, x, y) /\ y.ds = E /\ y.fw_bytes = FwBytes(E)
    BY <1>2 DEF AllBut, Fields
  <1>6. Stored(R, E, x.total)
    BY <1>3, <1>4 DEF Stored
  <1>7. Served(R, E, FwBytes(E))
    BY <1>1, <1>3 DEF Served, ReaderOk
  <1>. QED  BY <1>3, <1>5, <1>6, <1>7 DEF Books, R

\* A cleared reader is nowhere and has nothing before it.
LEMMA ReaderClearedIs ==
  ASSUME NEW d \in Readers
  PROVE  /\ ReaderQueueCleared(d) \in Readers
         /\ ReaderQueueCleared(d).head = 0 /\ ReaderQueueCleared(d).fw = 0
         /\ (ReaderQueueCleared(d).selected <=> d.selected)
         /\ (ReaderQueueCleared(d).refreshing <=> d.refreshing)
         /\ ReaderCleared(d) \in Readers
         /\ ReaderCleared(d).head = 0 /\ ReaderCleared(d).fw = 0
         /\ (ReaderCleared(d).selected <=> d.selected)
         /\ (ReaderCleared(d).refreshing <=> d.refreshing)
  <1>. DEFINE e == ReaderQueueCleared(d)
  <1>0. 0 \in Numbers /\ NoPts \in Int
    BY FileIs DEF NoPts
  <1>1. /\ e \in Readers /\ e.head = 0 /\ e.fw = 0
        /\ (e.selected <=> d.selected) /\ (e.refreshing <=> d.refreshing)
    <2>1. e = [d EXCEPT !.head = 0, !.fw = 0, !.eof = FALSE, !.need = TRUE]
      BY DEF ReaderQueueCleared
    <2>. HIDE DEF e
    <2>. QED  BY <1>0, <2>1 DEF Readers
  <1>2. ReaderCleared(d) = [e EXCEPT !.base_ts = NoPts, !.skip = FALSE, !.last_ret = 0]
    BY DEF ReaderCleared
  <1>. DEFINE c == ReaderCleared(d)
  <1>. HIDE DEF e, c
  <1>3. /\ c \in Readers /\ c.head = e.head /\ c.fw = e.fw
        /\ (c.selected <=> e.selected) /\ (c.refreshing <=> e.refreshing)
    <2>1. c = [e EXCEPT !.base_ts = NoPts, !.skip = FALSE, !.last_ret = 0]
      BY <1>2 DEF c
    <2>. QED  BY <1>0, <1>1, <2>1 DEF Readers
  <1>. QED  BY <1>1, <1>3 DEF c, e

\* clear_reader_state clears all readers and keeps the books.
LEMMA ClearReaderStateOk ==
  ASSUME NEW x, NEW b, NEW fp, Sound(x, b, fp), NEW y, y = ClearReaderState(x)
  PROVE  /\ Sound(y, b, fp) /\ Quiet(x, y)
         /\ AllBut({"ds", "fw_bytes", "blocked", "failed", "dry", "cut"}, x, y)
         /\ \A s \in Streams : /\ y.ds[s].head = 0 /\ y.ds[s].fw = 0
                               /\ (y.ds[s].selected <=> x.ds[s].selected)
                               /\ (y.ds[s].refreshing <=> x.ds[s].refreshing)
  <1>. DEFINE E == [s \in Streams |-> ReaderCleared(x.ds[s])]
              R == x.ranges
              D == x.ds
  <1>1. /\ Stored(R, D, x.total) /\ x.fw_bytes = FwBytes(D) /\ ~x.failed /\ Len(R) <= MaxRanges
        /\ Follows(R, D, x.seeking \/ b, fp) /\ DOMAIN x = Fields /\ D \in [Streams -> Readers]
    BY DEF Sound, Nearly, Books, Served, Stored
  <1>2. y = [x EXCEPT !.ds = E, !.fw_bytes = @ - FwBytes(D), !.blocked = FALSE,
                      !.failed = @ \/ x.fw_bytes # FwBytes(D), !.dry = {}, !.cut = {}]
    BY DEF ClearReaderState
  <1>3. ASSUME NEW s \in Streams
        PROVE  /\ E[s] \in Readers /\ E[s].head = 0 /\ E[s].fw = 0
               /\ (E[s].selected <=> D[s].selected)
               /\ (E[s].refreshing <=> D[s].refreshing)
    <2>1. D[s] \in Readers
      BY <1>1
    <2>2. E[s] = ReaderCleared(D[s])
      OBVIOUS
    <2>. HIDE DEF E, D
    <2>. QED  BY <2>1, <2>2, ReaderClearedIs
  <1>4. E \in [Streams -> Readers]
    BY <1>3
  <1>. HIDE DEF E
  <1>5. FwBytes(E) = 0 /\ FwBytes(D) \in Nat
    BY <1>1, <1>3, <1>4, FwIs
  <1>6. /\ y.ds = E /\ y.fw_bytes = x.fw_bytes - FwBytes(D)
        /\ (y.failed <=> x.failed \/ x.fw_bytes # FwBytes(D))
        /\ AllBut({"ds", "fw_bytes", "blocked", "failed", "dry", "cut"}, x, y)
    <2>1. y.ds = E
      BY <1>1, <1>2 DEF Fields
    <2>2. y.fw_bytes = x.fw_bytes - FwBytes(D)
      BY <1>1, <1>2 DEF Fields
    <2>3. y.failed <=> x.failed \/ x.fw_bytes # FwBytes(D)
      BY <1>1, <1>2 DEF Fields
    <2>4. AllBut({"ds", "fw_bytes", "blocked", "failed", "dry", "cut"}, x, y)
      BY <1>1, <1>2 DEF Fields, AllBut
    <2>. QED  BY <2>1, <2>2, <2>3, <2>4
  <1>7. y.fw_bytes = 0 /\ ~y.failed
    BY <1>1, <1>5, <1>6
  <1>8. Stored(R, E, x.total)
    BY <1>1, <1>3, <1>4 DEF Stored
  <1>9. Served(R, E, 0)
    BY <1>3, <1>5 DEF Served, ReaderOk, From
  <1>10. Follows(R, E, x.seeking \/ b, fp)
    BY <1>1, <1>3 DEF Follows
  <1>11. /\ y.ranges = x.ranges /\ y.total = x.total /\ y.seeking = x.seeking /\ DOMAIN y = Fields
         /\ y.run_fn = x.run_fn /\ y.asleep = x.asleep
    BY <1>6 DEF AllBut, Fields
  <1>12. Sound(y, b, fp)
    BY <1>1, <1>6, <1>7, <1>8, <1>9, <1>10, <1>11 DEF Sound, Nearly, Books, R
  <1>. QED  BY <1>3, <1>6, <1>11, <1>12 DEF Quiet, D
-----------------------------------------------------------------------------
(* Joining                                                                 *)

\* No stream holds subtitles, so every stream that is selected is eager.
NoSubtitles == \A s \in Streams : Type[s] # "sub"

\* Without subtitles all selected streams are eager.
LEMMA EagerIs ==
  ASSUME NoSubtitles, NEW x
  PROVE  Eager(x) = Selected(x)
  BY DEF NoSubtitles, Eager, Selected

\* attempt_range_joining looks for the first packet behind those of the other
\* queue.
LEMMA JoinPointIs ==
  ASSUME NEW s, NEW q1, QueueOk(s, q1), NEW q2, QueueOk(s, q2)
  PROVE  /\ JoinPoint(q1, q2) \in 1..Len(q2.pkts) + 1
         /\ q1.pkts # <<>> => \A p \in 1..Len(q2.pkts) :
              (p >= JoinPoint(q1, q2) <=> q2.pkts[p].i > Last(q1.pkts).i)
  <1>. DEFINE L1 == Len(q1.pkts)
              L2 == Len(q2.pkts)
              last == Last(q1.pkts).i
              past == {p \in DOMAIN q2.pkts : q2.pkts[p].i > last}
              J == JoinPoint(q1, q2)
  <1>1. /\ L2 \in Nat /\ DOMAIN q2.pkts = 1..L2
        /\ \A p \in 1..L2 : q2.pkts[p].i \in Nat
    BY QueueIs
  <1>2. CASE q1.pkts = <<>>
    BY <1>1, <1>2 DEF JoinPoint
  <1>3. CASE q1.pkts # <<>>
    <2>1. last \in Nat
      BY <1>3, QueueIs DEF Last
    <2>2. J = IF past = {} THEN L2 + 1 ELSE Min(past)
      BY <1>3 DEF JoinPoint
    <2>. HIDE DEF last, J
    <2>3. CASE past = {}
      BY <1>1, <1>3, <2>1, <2>2, <2>3 DEF J, last
    <2>4. CASE past # {}
      <3>1. past \subseteq 1..L2
        BY <1>1
      <3>. HIDE DEF past
      <3>2. Min(past) \in past /\ \A p \in past : Min(past) <= p
        BY <1>1, <2>4, <3>1, Places
      <3>3. J \in past /\ (\A p \in past : J <= p) /\ J \in 1..L2 /\ q2.pkts[J].i > last
        BY <2>2, <2>4, <3>1, <3>2 DEF past
      <3>4. ASSUME NEW p \in 1..L2, p >= J PROVE q2.pkts[p].i > last
        <4>1. CASE p = J
          BY <3>3, <4>1
        <4>2. CASE p # J
          <5>1. J < p
            BY <1>1, <3>3, <3>4, <4>2
          <5>2. q2.pkts[J].i < q2.pkts[p].i
            BY <3>3, <5>1 DEF QueueOk
          <5>. QED  BY <1>1, <2>1, <3>3, <5>2
        <4>. QED  BY <4>1, <4>2
      <3>5. ASSUME NEW p \in 1..L2, q2.pkts[p].i > last PROVE p >= J
        BY <1>1, <3>3, <3>5 DEF past
      <3>. QED  BY <1>1, <3>3, <3>4, <3>5 DEF J, last
    <2>. QED  BY <2>3, <2>4
  <1>. QED  BY <1>2, <1>3

\* The types of a packet in a queue.
LEMMA EntryIs ==
  ASSUME NEW e \in Entries
  PROVE  e.i \in Packets /\ e.i \in Nat \ {0} /\ e.kf \in Int
  <1>1. Packets \subseteq Nat \ {0} /\ e.i \in Packets /\ e.kf \in Int
    BY FileIs DEF Entries
  <1>. QED  BY <1>1

\* Packets of a stream in file order, and the packets of two such queues
\* one after another
InOrder(s, C) ==
  /\ \A p \in 1..Len(C) : File[C[p].i].s = s
  /\ \A m, n \in 1..Len(C) : m < n => C[m].i < C[n].i

\* All packets of one queue come before those of the other in the file.
Before(K, B) == \A m \in 1..Len(K), n \in 1..Len(B) : K[m].i < B[n].i

\* C is K and behind it B.
Chained(K, B, C) ==
  /\ C \in Seq(Entries) /\ Len(C) = Len(K) + Len(B)
  /\ \A p \in 1..Len(K) : p \in 1..Len(C) /\ C[p] = K[p]
  /\ \A p \in 1..Len(B) : p + Len(K) \in 1..Len(C) /\ C[p + Len(K)] = B[p]

\* Two parts of a queue in file order make one.
LEMMA ChainOk ==
  ASSUME NEW s, NEW K \in Seq(Entries), NEW B \in Seq(Entries),
         InOrder(s, K), InOrder(s, B), Before(K, B), NEW C, C = K \o B
  PROVE  InOrder(s, C) /\ Chained(K, B, C)
  <1>. DEFINE k == Len(K)
              l == Len(B)
  <1>1. /\ C \in Seq(Entries) /\ Len(C) = k + l /\ k \in Nat /\ l \in Nat
        /\ \A p \in 1..k + l : C[p] = IF p <= k THEN K[p] ELSE B[p - k]
    BY ConcatProperties, LenProperties
  <1>2. \A p \in 1..k : p \in 1..k + l /\ C[p] = K[p]
    BY <1>1
  <1>3. \A p \in 1..l : p + k \in 1..k + l /\ C[p + k] = B[p]
    <2>. SUFFICES ASSUME NEW p \in 1..l PROVE p + k \in 1..k + l /\ C[p + k] = B[p]
      OBVIOUS
    <2>1. p + k \in 1..k + l /\ ~(p + k <= k) /\ (p + k) - k = p
      BY <1>1
    <2>. QED  BY <1>1, <2>1
  <1>4. ASSUME NEW p \in 1..k + l PROVE p \in 1..k \/ (p > k /\ p - k \in 1..l /\ C[p] = B[p - k])
    BY <1>1
  <1>5. \A p \in 1..k + l : File[C[p].i].s = s
    BY <1>2, <1>4 DEF InOrder
  <1>6. ASSUME NEW m \in 1..k + l, NEW n \in 1..k + l, m < n PROVE C[m].i < C[n].i
    <2>1. CASE m \in 1..k /\ n \in 1..k
      BY <1>2, <1>6, <2>1 DEF InOrder
    <2>2. CASE m \in 1..k /\ n > k
      <3>1. n - k \in 1..l /\ C[n] = B[n - k]
        BY <1>4, <2>2, <1>1
      <3>. QED  BY <1>2, <2>2, <3>1 DEF Before
    <2>3. CASE m > k /\ n > k
      <3>1. m - k \in 1..l /\ n - k \in 1..l /\ m - k < n - k /\ C[n] = B[n - k] /\ C[m] = B[m - k]
        BY <1>1, <1>4, <1>6, <2>3
      <3>. QED  BY <3>1 DEF InOrder
    <2>. QED  BY <1>1, <1>4, <1>6, <2>1, <2>2, <2>3
  <1>. QED  BY <1>1, <1>2, <1>3, <1>5, <1>6 DEF InOrder, Chained

\* The queue of a stream after the join
LEMMA JoinedQueueOk ==
  ASSUME NEW s, NEW q1, QueueOk(s, q1), NEW q2, QueueOk(s, q2),
         q1.pkts = <<>> \/ Overlap(q1, q2),
         \A p \in 1 .. JoinPoint(q1, q2) - 1 : q2.pkts[p].i # q2.kf_latest
  PROVE  /\ QueueOk(s, JoinedQueue(q1, q2))
         /\ \A i : Has(q1, i) => Has(JoinedQueue(q1, q2), i)
         /\ q1.pkts = <<>> /\ q2.pkts = <<>> => JoinedQueue(q1, q2).pkts = <<>>
  <1>. DEFINE L1 == Len(q1.pkts)
              L2 == Len(q2.pkts)
              J == JoinPoint(q1, q2)
              K == IF q1.pkts # <<>> /\ Overlap(q1, q2)
                   THEN [q1.pkts EXCEPT ![L1].kf = q2.pkts[J - 1].kf]
                   ELSE q1.pkts
              B == SubSeq(q2.pkts, J, L2)
              C == K \o B
              r == JoinedQueue(q1, q2)
  <1>1. /\ q1.pkts \in Seq(Entries) /\ L1 \in Nat /\ q1 \in Queues
        /\ q2.pkts \in Seq(Entries) /\ L2 \in Nat /\ q2 \in Queues
        /\ (q1.pkts # <<>> <=> L1 > 0) /\ DOMAIN q2.pkts = 1..L2
        /\ \A p \in 1..L1 : q1.pkts[p] \in Entries
        /\ \A p \in 1..L2 : q2.pkts[p] \in Entries
        /\ \A p \in 1..L1 : q1.pkts[p].i \in Nat \ {0}
        /\ \A p \in 1..L2 : q2.pkts[p].i \in Nat \ {0}
    BY QueueIs DEF QueueOk
  <1>2. /\ J \in 1..L2 + 1
        /\ q1.pkts # <<>> => \A p \in 1..L2 : (p >= J <=> q2.pkts[p].i > Last(q1.pkts).i)
    BY JoinPointIs
  <1>3. q1.pkts # <<>> => /\ L1 \in 1..L1 /\ Last(q1.pkts) = q1.pkts[L1]
                          /\ \E p \in 1..L2 : q2.pkts[p].i = q1.pkts[L1].i /\ p < J
    <2>. SUFFICES ASSUME q1.pkts # <<>>
                  PROVE  /\ L1 \in 1..L1 /\ Last(q1.pkts) = q1.pkts[L1]
                         /\ \E p \in 1..L2 : q2.pkts[p].i = q1.pkts[L1].i /\ p < J
      OBVIOUS
    <2>1. L1 \in 1..L1 /\ Last(q1.pkts) = q1.pkts[L1]
      BY <1>1 DEF Last
    <2>2. PICK p \in 1..L2 : q2.pkts[p].i = q1.pkts[L1].i
      BY <1>1, <2>1 DEF Overlap
    <2>. HIDE DEF J
    <2>3. q1.pkts[L1].i \in Int
      BY <1>1, <2>1
    <2>4. ~(q2.pkts[p].i > q1.pkts[L1].i)
      BY <2>2, <2>3
    <2>5. p < J
      BY <1>1, <1>2, <2>1, <2>4
    <2>. QED  BY <2>1, <2>2, <2>5
  <1>4. /\ K \in Seq(Entries) /\ Len(K) = L1 /\ \A p \in 1..L1 : K[p].i = q1.pkts[p].i
    <2>1. CASE q1.pkts # <<>> /\ Overlap(q1, q2)
      <3>. DEFINE e == [q1.pkts[L1] EXCEPT !.kf = q2.pkts[J - 1].kf]
      <3>1. J - 1 \in 1..L2
        BY <1>1, <1>2, <1>3, <2>1
      <3>2. q2.pkts[J - 1].kf \in Int /\ q1.pkts[L1] \in Entries
        BY <1>1, <1>3, <2>1, <3>1 DEF Entries
      <3>3. e \in Entries /\ e.i = q1.pkts[L1].i
        BY <3>2 DEF Entries
      <3>4. K = [q1.pkts EXCEPT ![L1] = e]
        BY <1>1, <1>3, <2>1
      <3>. HIDE DEF e
      <3>. QED  BY <1>1, <1>3, <2>1, <3>3, <3>4, ExceptSeq
    <2>2. CASE ~(q1.pkts # <<>> /\ Overlap(q1, q2))
      BY <1>1, <2>2
    <2>. QED  BY <2>1, <2>2
  <1>5. /\ B \in Seq(Entries) /\ Len(B) = L2 - J + 1
        /\ \A p \in 1..Len(B) : B[p] = q2.pkts[J + p - 1] /\ J + p - 1 \in 1..L2
    <2>. HIDE DEF J
    <2>1. J \in Int /\ L2 \in Int /\ \A p \in J..L2 : q2.pkts[p] \in Entries
      BY <1>1, <1>2
    <2>2. /\ B \in Seq(Entries) /\ Len(B) = (IF J <= L2 THEN L2 - J + 1 ELSE 0)
          /\ \A p \in 1..L2 - J + 1 : B[p] = q2.pkts[J + p - 1]
      BY <2>1, SubSeqProperties
    <2>3. (IF J <= L2 THEN L2 - J + 1 ELSE 0) = L2 - J + 1
      BY <1>1, <1>2
    <2>4. \A p \in 1..L2 - J + 1 : J + p - 1 \in 1..L2
      BY <1>1, <1>2
    <2>. QED  BY <2>2, <2>3, <2>4
  <1>6. \A p \in 1..L1 : File[K[p].i].s = s
    BY <1>4 DEF QueueOk
  <1>7. \A m, n \in 1..L1 : m < n => K[m].i < K[n].i
    BY <1>4 DEF QueueOk
  <1>. HIDE DEF K, B, J
  <1>8. \A p \in 1..Len(B) : File[B[p].i].s = s
    BY <1>5 DEF QueueOk
  <1>9. ASSUME NEW m \in 1..Len(B), NEW n \in 1..Len(B), m < n PROVE B[m].i < B[n].i
    <2>1. J + m - 1 \in 1..L2 /\ J + n - 1 \in 1..L2 /\ J + m - 1 < J + n - 1
      BY <1>1, <1>2, <1>5, <1>9
    <2>2. q2.pkts[J + m - 1].i < q2.pkts[J + n - 1].i
      BY <2>1 DEF QueueOk
    <2>. QED  BY <1>5, <2>2
  <1>10. ASSUME NEW m \in 1..L1, NEW n \in 1..Len(B) PROVE K[m].i < B[n].i
    <2>1. q1.pkts # <<>> /\ L1 \in 1..L1 /\ Last(q1.pkts) = q1.pkts[L1]
      BY <1>1, <1>3
    <2>2. J + n - 1 \in 1..L2 /\ J + n - 1 >= J
      BY <1>1, <1>2, <1>5
    <2>3. q2.pkts[J + n - 1].i > q1.pkts[L1].i
      BY <1>2, <2>1, <2>2
    <2>4. q1.pkts[m].i <= q1.pkts[L1].i
      <3>1. CASE m = L1
        BY <1>1, <3>1, <2>1
      <3>2. CASE m # L1
        <4>1. q1.pkts[m].i < q1.pkts[L1].i
          BY <1>1, <2>1, <3>2 DEF QueueOk
        <4>2. q1.pkts[m].i \in Int /\ q1.pkts[L1].i \in Int
          BY <1>1, <2>1
        <4>. QED  BY <4>1, <4>2
      <3>. QED  BY <3>1, <3>2
    <2>5. q1.pkts[m].i \in Int /\ q1.pkts[L1].i \in Int /\ q2.pkts[J + n - 1].i \in Int
      BY <1>1, <2>1, <2>2
    <2>6. q1.pkts[m].i < q2.pkts[J + n - 1].i
      BY <2>3, <2>4, <2>5
    <2>. QED  BY <1>4, <1>5, <2>6
  <1>11. /\ C \in Seq(Entries) /\ Len(C) = L1 + Len(B)
         /\ \A p \in 1..L1 : p \in 1..Len(C) /\ C[p] = K[p]
         /\ \A p \in 1..Len(B) : p + L1 \in 1..Len(C) /\ C[p + L1] = B[p]
         /\ \A p \in 1..Len(C) : File[C[p].i].s = s
         /\ \A m, n \in 1..Len(C) : m < n => C[m].i < C[n].i
    <2>1. K \in Seq(Entries) /\ B \in Seq(Entries) /\ Len(K) = L1
      BY <1>4, <1>5
    <2>2. InOrder(s, K)
      BY <1>6, <1>7, <2>1 DEF InOrder
    <2>3. InOrder(s, B)
      BY <1>8, <1>9 DEF InOrder
    <2>4. Before(K, B)
      BY <1>10, <2>1 DEF Before
    <2>5. C = K \o B
      OBVIOUS
    <2>. HIDE DEF L1, C
    <2>6. InOrder(s, C) /\ Chained(K, B, C)
      BY <2>1, <2>2, <2>3, <2>4, <2>5, ChainOk
    <2>. QED  BY <2>1, <2>6 DEF InOrder, Chained
  <1>. HIDE DEF C
  <1>11a. \A p \in 1..Len(C) : C[p] \in Entries /\ C[p].i \in Nat \ {0}
    BY <1>11, LenProperties, EntryIs
  <1>12. /\ r \in Queues /\ r.pkts = C /\ r.npt = q1.npt /\ r.kf_latest = q2.kf_latest
         /\ r.last = q2.last
    <2>1. r = [q2 EXCEPT !.pkts = C, !.npt = q1.npt, !.start = q1.start,
                         !.pruned = q1.pruned, !.bof = q1.bof]
      BY DEF JoinedQueue, C, B, K, J
    <2>. HIDE DEF r
    <2>. QED  BY <1>1, <1>11, <2>1 DEF Queues
  <1>. HIDE DEF r
  <1>13. \A i : Has(q1, i) => Has(r, i)
    BY <1>4, <1>11, <1>12 DEF Has
  <1>14. r.npt # 0 => Has(r, r.npt)
    BY <1>12, <1>13 DEF QueueOk
  <1>15. r.kf_latest # 0 => Has(r, r.kf_latest)
    <2>. SUFFICES ASSUME q2.kf_latest # 0 PROVE Has(r, q2.kf_latest)
      BY <1>12
    <2>1. PICK p \in 1..L2 : q2.pkts[p].i = q2.kf_latest
      BY DEF QueueOk, Has
    <2>2. ~(p \in 1..J - 1)
      BY <2>1 DEF J
    <2>3. p - J + 1 \in 1..Len(B) /\ J + (p - J + 1) - 1 = p
      BY <1>1, <1>2, <1>5, <2>2
    <2>4. B[p - J + 1].i = q2.kf_latest
      BY <1>5, <2>1, <2>3
    <2>. QED  BY <1>11, <1>12, <2>3, <2>4 DEF Has
  <1>16. \A p \in 1..L2 : q2.pkts[p].i <= q2.last
    BY DEF QueueOk
  <1>17. ASSUME NEW p \in 1..Len(C) PROVE C[p].i <= q2.last
    <2>0. q2.last \in Nat
      BY QueueIs
    <2>1. CASE p \in 1..L1
      <3>1. q1.pkts # <<>> /\ L1 \in 1..L1 /\ C[p].i = K[p].i
        BY <1>1, <1>11, <2>1
      <3>2. PICK m \in 1..L2 : q2.pkts[m].i = q1.pkts[L1].i
        BY <1>3, <3>1
      <3>3. C[p].i <= C[L1].i
        <4>1. CASE p = L1
          BY <1>1, <1>11, <1>11a, <4>1
        <4>2. CASE p # L1
          <5>1. p < L1 /\ p \in 1..Len(C) /\ L1 \in 1..Len(C)
            BY <1>1, <1>11, <2>1, <3>1, <4>2
          <5>2. C[p].i < C[L1].i
            BY <1>11, <5>1
          <5>. QED  BY <1>11a, <5>1, <5>2
        <4>. QED  BY <4>1, <4>2
      <3>4. C[L1].i = q1.pkts[L1].i
        BY <1>4, <1>11, <3>1
      <3>5. C[p].i \in Nat /\ q1.pkts[L1].i \in Nat /\ q1.pkts[L1].i <= q2.last
        BY <1>1, <1>11a, <1>16, <3>1, <3>2
      <3>. QED  BY <2>0, <3>3, <3>4, <3>5
    <2>2. CASE ~(p \in 1..L1)
      <3>1. p - L1 \in 1..Len(B) /\ (p - L1) + L1 = p
        BY <1>1, <1>5, <1>11, <2>2
      <3>2. C[p] = q2.pkts[J + (p - L1) - 1] /\ J + (p - L1) - 1 \in 1..L2
        BY <1>5, <1>11, <3>1
      <3>. QED  BY <1>16, <3>2
    <2>. QED  BY <2>1, <2>2
  <1>18. QueueOk(s, r)
    BY <1>11, <1>12, <1>14, <1>15, <1>17 DEF QueueOk
  <1>19. q1.pkts = <<>> /\ q2.pkts = <<>> => r.pkts = <<>>
    <2>. SUFFICES ASSUME q1.pkts = <<>>, q2.pkts = <<>> PROVE C = <<>>
      BY <1>12
    <2>1. L1 = 0 /\ L2 = 0
      BY EmptySeq
    <2>2. J = 1
      BY DEF J, JoinPoint
    <2>3. Len(C) = 0
      BY <1>5, <1>11, <2>1, <2>2
    <2>. QED  BY <1>11, <2>3, EmptySeq
  <1>. QED  BY <1>13, <1>18, <1>19 DEF r

\* Other readers of the same streams
LEMMA StoredReaders ==
  ASSUME NEW R, NEW D, NEW T, Stored(R, D, T), NEW E \in [Streams -> Readers],
         \A s \in Streams : E[s].selected <=> D[s].selected
  PROVE  Stored(R, E, T)
  BY DEF Stored

\* What is nearly sound is sound without its empty ranges.
LEMMA FreeOk ==
  ASSUME NEW x, NEW b, NEW fp, Nearly(x, b, fp), Len(x.ranges) <= MaxRanges + 1,
         NEW y, y = FreeEmptyRanges(x)
  PROVE  Sound(y, b, fp) /\ AllBut({"ranges", "total"}, x, y) /\ Last(y.ranges) = Last(x.ranges)
  <1>1. /\ DOMAIN x = Fields /\ ~x.failed /\ Stored(x.ranges, x.ds, x.total)
        /\ Served(x.ranges, x.ds, x.fw_bytes) /\ Follows(x.ranges, x.ds, x.seeking \/ b, fp)
    BY DEF Nearly, Books
  <1>2. /\ AllBut({"ranges", "total"}, x, y)
        /\ Stored(y.ranges, x.ds, y.total) /\ Len(y.ranges) <= MaxRanges
        /\ Last(y.ranges) = Last(x.ranges)
    BY <1>1, FreeEmptyRangesOk
  <1>3. /\ y.ds = x.ds /\ y.fw_bytes = x.fw_bytes /\ y.failed = x.failed /\ y.seeking = x.seeking
        /\ DOMAIN y = Fields
    BY <1>2 DEF AllBut, Fields
  <1>4. Served(y.ranges, y.ds, y.fw_bytes) /\ Follows(y.ranges, y.ds, y.seeking \/ b, fp)
    BY <1>1, <1>2, <1>3 DEF Served, Follows
  <1>. QED  BY <1>1, <1>2, <1>3, <1>4 DEF Sound, Nearly, Books

\* What is nearly sound is so without a range that is not the current one.
LEMMA WithoutOk ==
  ASSUME NEW x, NEW b, NEW fp, Nearly(x, b, fp), NEW n \in 1..Len(x.ranges), n # Len(x.ranges),
         NEW y, AllBut({"ranges", "total"}, x, y), y.ranges = RemoveAt(x.ranges, n),
         y.total = x.total - Held(x.ranges[n])
  PROVE  Nearly(y, b, fp) /\ Len(y.ranges) = Len(x.ranges) - 1
  <1>. DEFINE R == RemoveAt(x.ranges, n)
  <1>1. /\ DOMAIN x = Fields /\ ~x.failed /\ Stored(x.ranges, x.ds, x.total)
        /\ Served(x.ranges, x.ds, x.fw_bytes) /\ Follows(x.ranges, x.ds, x.seeking \/ b, fp)
    BY DEF Nearly, Books
  <1>2. /\ Stored(R, x.ds, y.total) /\ Len(R) = Len(x.ranges) - 1 /\ y.ranges = R
        /\ Last(R) = Last(x.ranges)
    BY <1>1, StoredRemoved
  <1>. HIDE DEF R
  <1>3. /\ y.ds = x.ds /\ y.fw_bytes = x.fw_bytes /\ y.failed = x.failed /\ y.seeking = x.seeking
        /\ DOMAIN y = Fields
    BY DEF AllBut, Fields
  <1>4. Served(y.ranges, y.ds, y.fw_bytes) /\ Follows(y.ranges, y.ds, y.seeking \/ b, fp)
    BY <1>1, <1>2, <1>3 DEF Served, Follows
  <1>. QED  BY <1>1, <1>2, <1>3, <1>4 DEF Nearly, Books

\* The range to be joined is another one than the current one.
LEMMA NextRangeIs ==
  ASSUME NEW x, NEW D, NEW T, Stored(x.ranges, D, T)
  PROVE  /\ NextRange(x) \in 0..Len(x.ranges) - 1 /\ Len(x.ranges) \in Nat \ {0}
         /\ NextRange(x) # 0 => NextRange(x) \in 1..Len(x.ranges) /\ NextRange(x) # Len(x.ranges)
  <1>. DEFINE R == x.ranges
              N == Len(R) - 1
              over == {n \in 1 .. Len(x.ranges) - 1 :
                         /\ Cur(x).start <= x.ranges[n].start
                         /\ Cur(x).end > x.ranges[n].start}
              near == {n \in over : \A m \in over : x.ranges[m].start <= x.ranges[n].start}
              f == [n \in 1..N |-> -(R[n].start)]
  <1>1. Len(R) \in Nat \ {0} /\ N \in Nat /\ \A n \in 1..Len(R) : R[n].start \in Int
    BY StoredAre DEF Ranges
  <1>2. NextRange(x) = IF over = {} THEN 0 ELSE Min(near)
    BY DEF NextRange
  <1>3. CASE over = {}
    BY <1>1, <1>2, <1>3
  <1>4. CASE over # {}
    <2>1. over \in SUBSET (1..N) /\ over # {}
      BY <1>4
    <2>2. f \in [1..N -> Int]
      <3>1. \A n \in 1..N : n \in 1..Len(R)
        BY <1>1
      <3>. QED  BY <1>1, <3>1
    <2>3. PICK n \in over : \A m \in over : f[n] <= f[m]
      <3>. HIDE DEF over, f, N
      <3>. QED  BY <1>1, <2>1, <2>2, LeastOf
    <2>4. \A m \in over : m \in 1..N /\ f[m] = -(R[m].start) /\ R[m].start \in Int
      BY <1>1, <2>1
    <2>5. \A m \in over : x.ranges[m].start <= x.ranges[n].start
      <3>. HIDE DEF over, f
      <3>. QED  BY <2>3, <2>4
    <2>6. near # {} /\ near \subseteq 1..N
      BY <2>1, <2>3, <2>5
    <2>. HIDE DEF near, over, f, N
    <2>7. Min(near) \in 1..N
      BY <1>1, <2>6, Places
    <2>8. NextRange(x) \in 1..N
      BY <1>2, <1>4, <2>7
    <2>9. NextRange(x) \in 1..Len(x.ranges) /\ NextRange(x) # Len(x.ranges)
      BY <1>1, <2>8 DEF N
    <2>. QED  BY <1>1, <2>8, <2>9 DEF N
  <1>. QED  BY <1>3, <1>4

\* The current range after the join
Joined(x, next) ==
  [Cur(x) EXCEPT !.q = [s \in Streams |-> JoinedQueue(CurQ(x, s), next.q[s])]]

\* The range that two are joined to is in order, and has all the packets of the
\* current one.
LEMMA JoinedRangeOk ==
  ASSUME NoSubtitles, NEW x, NEW T, Stored(x.ranges, x.ds, T), NEW next, RangeOk(next),
         \A s \in Streams : ~x.ds[s].selected => next.q[s].pkts = <<>>,
         \A s \in Streams : Joinable(x, s, CurQ(x, s), next.q[s]),
         NEW r, r = Joined(x, next)
  PROVE  /\ RangeOk(r) /\ r \in Ranges
         /\ \A s \in Streams : \A i : Has(CurQ(x, s), i) => Has(r.q[s], i)
         /\ \A s \in Streams : ~x.ds[s].selected => r.q[s].pkts = <<>>
  <1>. DEFINE Q == [s \in Streams |-> JoinedQueue(CurQ(x, s), next.q[s])]
  <1>1. Cur(x) \in Ranges /\ \A s \in Streams : QueueOk(s, CurQ(x, s)) /\ QueueOk(s, next.q[s])
    BY StoredAre DEF CurQ, Cur, RangeOk
  <1>2. ASSUME NEW s \in Streams
        PROVE  CurQ(x, s).pkts = <<>> \/ Overlap(CurQ(x, s), next.q[s])
    <2>1. CASE x.ds[s].selected
      <3>1. s \in Eager(x)
        BY <2>1, EagerIs DEF Selected
      <3>. QED  BY <3>1 DEF Joinable
    <2>2. CASE ~x.ds[s].selected
      BY <2>2, StoredAre DEF CurQ, Cur
    <2>. QED  BY <2>1, <2>2
  <1>3. ASSUME NEW s \in Streams
        PROVE  /\ QueueOk(s, Q[s])
               /\ \A i : Has(CurQ(x, s), i) => Has(Q[s], i)
               /\ CurQ(x, s).pkts = <<>> /\ next.q[s].pkts = <<>> => Q[s].pkts = <<>>
    <2>1. \A p \in 1 .. JoinPoint(CurQ(x, s), next.q[s]) - 1 :
            next.q[s].pkts[p].i # next.q[s].kf_latest
      BY DEF Joinable
    <2>2. Q[s] = JoinedQueue(CurQ(x, s), next.q[s])
      OBVIOUS
    <2>. HIDE DEF Q
    <2>. QED  BY <1>1, <1>2, <2>1, <2>2, JoinedQueueOk
  <1>4. Q \in [Streams -> Queues]
    BY <1>3 DEF QueueOk
  <1>5. r = [Cur(x) EXCEPT !.q = Q]
    BY DEF Joined
  <1>. HIDE DEF Q
  <1>6. r \in Ranges /\ r.q = Q
    BY <1>1, <1>4, <1>5 DEF Ranges
  <1>7. \A s \in Streams : ~x.ds[s].selected => Q[s].pkts = <<>>
    BY <1>3, StoredAre DEF CurQ, Cur
  <1>. QED  BY <1>3, <1>6, <1>7 DEF RangeOk

\* attempt_range_joining keeps the books: readers stay at their packets, and
\* what is dropped is subtracted.
LEMMA AttemptRangeJoiningOk ==
  ASSUME NoSubtitles, NEW x, NEW b, NEW fp, Sound(x, b, fp), NEW y, y = AttemptRangeJoining(x)
  PROVE  Sound(y, b, fp) /\ Quiet(x, y)
  <1>. DEFINE n == NextRange(x)
              next == x.ranges[n]
              joined == Joined(x, next)
              h == Held(next)
              E == [s \in Streams |-> [x.ds[s] EXCEPT !.refreshing = x.ds[s].selected]]
              dry == x.dry \cup {s \in Streams : x.ds[s].head = 0}
              moved == [x EXCEPT !.ds = E, !.total = @ + Held(joined) - Held(Cur(x)), !.dry = dry]
              j == UpdateSeekRange(moved, joined)
              z == SetCur(moved, j)
              u == Recount(z)
              v == QueueSeek(u, next.end - Second, {"hr"})
              without(w) == [w EXCEPT !.ranges = RemoveAt(@, n), !.total = @ - h]
  <1>1. /\ DOMAIN x = Fields /\ ~x.failed /\ Stored(x.ranges, x.ds, x.total)
        /\ Served(x.ranges, x.ds, x.fw_bytes) /\ Follows(x.ranges, x.ds, x.seeking \/ b, fp)
        /\ Nearly(x, b, fp) /\ Len(x.ranges) <= MaxRanges /\ x.ds \in [Streams -> Readers]
    BY DEF Sound, Nearly, Books, Stored
  <1>2. /\ n \in 0..Len(x.ranges) - 1 /\ Len(x.ranges) \in Nat \ {0}
        /\ n # 0 => n \in 1..Len(x.ranges) /\ n # Len(x.ranges)
    BY <1>1, NextRangeIs
  <1>2a. MaxRanges \in Nat /\ Len(x.ranges) <= MaxRanges + 1
    BY <1>1, <1>2, DemuxAssumption
  <1>3. CASE n = 0
    BY <1>3 DEF AttemptRangeJoining, Quiet
  <1>4. CASE n # 0 /\ ~\A s \in Streams : Joinable(x, s, CurQ(x, s), next.q[s])
    <2>1. y = FreeEmptyRanges(without(x))
      BY <1>4 DEF AttemptRangeJoining, Joined
    <2>. DEFINE w == without(x)
    <2>2. /\ AllBut({"ranges", "total"}, x, w) /\ w.ranges = RemoveAt(x.ranges, n)
          /\ w.total = x.total - Held(x.ranges[n])
      <3>1. w = [x EXCEPT !.ranges = RemoveAt(x.ranges, n), !.total = x.total - h] /\ h = Held(x.ranges[n])
        OBVIOUS
      <3>. HIDE DEF w, n, h
      <3>. QED  BY <1>1, <3>1 DEF AllBut, Fields
    <2>. HIDE DEF w, n, h
    <2>3. Nearly(w, b, fp) /\ Len(w.ranges) = Len(x.ranges) - 1
      BY <1>1, <1>2, <1>4, <2>2, WithoutOk
    <2>4. Len(w.ranges) <= MaxRanges + 1
      BY <1>2, <1>2a, <2>3
    <2>5. y = FreeEmptyRanges(w)
      BY <2>1 DEF w
    <2>6. Sound(y, b, fp) /\ AllBut({"ranges", "total"}, w, y)
      BY <2>3, <2>4, <2>5, FreeOk
    <2>. QED  BY <2>2, <2>6 DEF AllBut, Fields, Quiet
  <1>5. CASE n # 0 /\ \A s \in Streams : Joinable(x, s, CurQ(x, s), next.q[s])
    <2>1. y = FreeEmptyRanges(without(v))
      BY <1>5 DEF AttemptRangeJoining, Joined
    <2>2. RangeOk(next) /\ \A s \in Streams : ~x.ds[s].selected => next.q[s].pkts = <<>>
      BY <1>1, <1>2, <1>5 DEF Stored
    <2>3. /\ RangeOk(joined) /\ joined \in Ranges
          /\ \A s \in Streams : \A i : Has(CurQ(x, s), i) => Has(joined.q[s], i)
          /\ \A s \in Streams : ~x.ds[s].selected => joined.q[s].pkts = <<>>
      <3>1. \A s \in Streams : Joinable(x, s, CurQ(x, s), next.q[s])
        BY <1>5
      <3>2. joined = Joined(x, next)
        OBVIOUS
      <3>. HIDE DEF joined, next
      <3>. QED  BY <1>1, <2>2, <3>1, <3>2, JoinedRangeOk
    <2>4. /\ E \in [Streams -> Readers]
          /\ \A s \in Streams : /\ (E[s].selected <=> x.ds[s].selected)
                                /\ (E[s].refreshing <=> x.ds[s].selected)
                                /\ E[s].head = x.ds[s].head
      <3>1. ASSUME NEW s \in Streams
            PROVE  /\ E[s] \in Readers /\ (E[s].selected <=> x.ds[s].selected)
                   /\ (E[s].refreshing <=> x.ds[s].selected) /\ E[s].head = x.ds[s].head
        <4>1. x.ds[s] \in Readers /\ x.ds[s].selected \in BOOLEAN
          BY <1>1 DEF Readers
        <4>. QED  BY <4>1 DEF Readers
      <3>. QED  BY <3>1
    <2>5. /\ j.q = joined.q /\ RangeOk(j) /\ Held(j) = Held(joined)
      <3>. HIDE DEF joined, moved
      <3>. QED  BY <2>3, UpdateSeekRangeOk
    <2>6. moved = [x EXCEPT !.ds = E, !.total = x.total - Held(Cur(x)) + Held(joined), !.dry = dry]
      <3>1. Held(joined) \in Nat /\ Held(Cur(x)) \in Nat /\ x.total \in Nat
        <4>1. Cur(x) \in Ranges /\ x.total \in Nat
          BY <1>1, StoredAre DEF Cur
        <4>. HIDE DEF joined
        <4>. QED  BY <2>3, <4>1, HeldIs
      <3>. DEFINE a == Held(joined)
                  c == Held(Cur(x))
      <3>2. x.total + a - c = x.total - c + a
        <4>. HIDE DEF a, c
        <4>. QED  BY <3>1 DEF a, c
      <3>. QED  BY <3>2
    <2>. HIDE DEF E, joined, dry, n, next, h, moved
    <2>7. /\ moved.ds = E /\ moved.ranges = x.ranges /\ DOMAIN moved = Fields
          /\ moved.total = x.total - Held(Cur(x)) + Held(joined)
          /\ AllBut({"ds", "total", "dry"}, x, moved)
      BY <1>1, <2>6 DEF AllBut, Fields
    <2>. DEFINE L == Len(x.ranges)
                R == [x.ranges EXCEPT ![L] = j]
    <2>. HIDE DEF j
    <2>8. /\ z.ds = E /\ z.ranges = R /\ DOMAIN z = Fields /\ z.total = moved.total
          /\ AllBut({"ranges"}, moved, z)
      <3>1. z = [moved EXCEPT !.ranges = R]
        BY <2>7 DEF SetCur
      <3>. HIDE DEF z, R
      <3>. QED  BY <2>7, <3>1 DEF AllBut, Fields
    <2>9. /\ Stored(R, x.ds, x.total - Held(x.ranges[L]) + Held(j)) /\ Len(R) = Len(x.ranges)
          /\ Last(R) = j /\ R[n] = x.ranges[n]
      <3>1. L \in 1..Len(x.ranges) /\ \A s \in Streams : ~x.ds[s].selected => j.q[s].pkts = <<>>
        BY <1>2, <2>3, <2>5
      <3>2. /\ Stored([x.ranges EXCEPT ![L] = j], x.ds, x.total - Held(x.ranges[L]) + Held(j))
            /\ Len([x.ranges EXCEPT ![L] = j]) = Len(x.ranges)
            /\ Last([x.ranges EXCEPT ![L] = j]) = (IF L = Len(x.ranges) THEN j ELSE Last(x.ranges))
        <4>. HIDE DEF L
        <4>. QED  BY <1>1, <2>5, <3>1, StoredRange
      <3>3. R[n] = x.ranges[n]
        BY <1>2, <1>5
      <3>. QED  BY <3>2, <3>3
    <2>10. x.ranges[L] = Cur(x)
      BY <1>1, StoredAre DEF Cur
    <2>. HIDE DEF R
    <2>11. Stored(z.ranges, z.ds, z.total)
      BY <2>4, <2>5, <2>7, <2>8, <2>9, <2>10, StoredReaders
    <2>12. Last(z.ranges) = j /\ \A s \in Streams : CurQ(z, s) = joined.q[s]
      BY <2>5, <2>8, <2>9 DEF CurQ, Cur
    <2>13. \A s \in Streams : z.ds[s].head # 0 => Has(CurQ(z, s), z.ds[s].head)
      BY <1>1, <2>3, <2>4, <2>8, <2>12 DEF Served, ReaderOk, CurQ, Cur
    <2>. HIDE DEF z
    <2>14. /\ AllBut({"ds", "fw_bytes"}, z, u) /\ Books(z.ranges, u.ds, z.total, u.fw_bytes)
           /\ \A s \in Streams : /\ (u.ds[s].refreshing <=> z.ds[s].refreshing)
                                 /\ (u.ds[s].selected <=> z.ds[s].selected)
      <3>. HIDE DEF u
      <3>1. u = Recount(z)
        BY DEF u
      <3>. QED  BY <2>8, <2>11, <2>13, <3>1, RecountOk
    <2>. HIDE DEF u
    <2>15. /\ AllBut({"seeking", "seek_pts", "seek_flags"}, u, v) /\ v.seeking
      <3>1. DOMAIN u = Fields
        BY <2>14 DEF AllBut
      <3>2. v = [u EXCEPT !.seeking = TRUE, !.seek_pts = next.end - Second, !.seek_flags = {"hr"}]
        BY DEF QueueSeek
      <3>. HIDE DEF v
      <3>. QED  BY <3>1, <3>2 DEF AllBut, Fields
    <2>. HIDE DEF v
    <2>16. /\ v.ranges = z.ranges /\ v.ds = u.ds /\ v.total = z.total /\ v.fw_bytes = u.fw_bytes
           /\ v.failed = x.failed /\ v.run_fn = x.run_fn /\ v.asleep = x.asleep /\ DOMAIN v = Fields
      BY <2>7, <2>8, <2>14, <2>15 DEF AllBut, Fields
    <2>17. Follows(v.ranges, v.ds, TRUE, fp)
      <3>1. \A s \in Streams : \/ v.ds[s].refreshing \/ Last(v.ranges).q[s].pkts = <<>>
        BY <2>3, <2>4, <2>5, <2>8, <2>12, <2>14, <2>16
      <3>. QED  BY <3>1 DEF Follows
    <2>18. Nearly(v, b, fp)
      BY <1>1, <2>14, <2>15, <2>16, <2>17 DEF Nearly
    <2>. DEFINE w == without(v)
    <2>19. n \in 1..Len(v.ranges) /\ n # Len(v.ranges) /\ h = Held(v.ranges[n])
      BY <1>2, <1>5, <2>8, <2>9, <2>16 DEF h, next
    <2>20. /\ AllBut({"ranges", "total"}, v, w) /\ w.ranges = RemoveAt(v.ranges, n)
           /\ w.total = v.total - Held(v.ranges[n])
      <3>1. w = [v EXCEPT !.ranges = RemoveAt(v.ranges, n), !.total = v.total - h]
        OBVIOUS
      <3>. HIDE DEF w
      <3>. QED  BY <2>16, <2>19, <3>1 DEF AllBut, Fields
    <2>. HIDE DEF w
    <2>21. Nearly(w, b, fp) /\ Len(w.ranges) = Len(v.ranges) - 1
      BY <2>18, <2>19, <2>20, WithoutOk
    <2>22. Len(w.ranges) <= MaxRanges + 1
      BY <1>2, <1>2a, <2>8, <2>9, <2>16, <2>21
    <2>23. y = FreeEmptyRanges(w)
      BY <2>1 DEF w
    <2>24. Sound(y, b, fp) /\ AllBut({"ranges", "total"}, w, y)
      BY <2>21, <2>22, <2>23, FreeOk
    <2>25. y.run_fn = x.run_fn /\ y.asleep = x.asleep
      BY <2>16, <2>20, <2>24 DEF AllBut, Fields
    <2>. QED  BY <2>24, <2>25 DEF Quiet
  <1>. QED  BY <1>3, <1>4, <1>5
-----------------------------------------------------------------------------
(* What a packet, or the end, does to its stream                           *)

\* Another current range with the same packets
LEMMA SameCurOk ==
  ASSUME NEW x, NEW b, NEW fp, Sound(x, b, fp), NEW r, RangeOk(r),
         \A s \in Streams : SameIds(CurQ(x, s), r.q[s]) /\ r.q[s].last = CurQ(x, s).last,
         NEW S, S \cap Core = {}, NEW y, AllBut(S \cup {"ranges"}, x, y),
         y.ranges = [x.ranges EXCEPT ![Len(x.ranges)] = r]
  PROVE  Sound(y, b, fp)
  <1>. DEFINE R == x.ranges
              D == x.ds
              R2 == [R EXCEPT ![Len(R)] = r]
  <1>1. /\ DOMAIN x = Fields /\ ~x.failed /\ Stored(R, D, x.total)
        /\ Served(R, D, x.fw_bytes) /\ Follows(R, D, x.seeking \/ b, fp) /\ Len(R) <= MaxRanges
    BY DEF Sound, Nearly, Books
  <1>2. /\ y.ds = D /\ y.total = x.total /\ y.fw_bytes = x.fw_bytes /\ y.failed = x.failed
        /\ y.seeking = x.seeking /\ DOMAIN y = Fields
    BY DEF AllBut, Fields, Core
  <1>3. /\ Len(R) \in 1..Len(R) /\ Last(R) = R[Len(R)] /\ Last(R) \in Ranges /\ r \in Ranges
        /\ \A s \in Streams : QueueOk(s, Last(R).q[s]) /\ QueueOk(s, r.q[s])
        /\ \A s \in Streams : ~D[s].selected => Last(R).q[s].pkts = <<>>
    BY <1>1, StoredAre DEF RangeOk
  <1>4. \A s \in Streams : CurQ(x, s) = Last(R).q[s]
    BY DEF CurQ, Cur
  <1>5. \A s \in Streams : Last(R).q[s].pkts = <<>> <=> r.q[s].pkts = <<>>
    <2>. SUFFICES ASSUME NEW s \in Streams
                  PROVE  Last(R).q[s].pkts = <<>> <=> r.q[s].pkts = <<>>
      OBVIOUS
    <2>1. /\ Last(R).q[s].pkts # <<>> <=> Len(Last(R).q[s].pkts) > 0
          /\ r.q[s].pkts # <<>> <=> Len(r.q[s].pkts) > 0
      BY <1>3, QueueIs
    <2>. QED  BY <1>4, <2>1 DEF SameIds
  <1>6. Held(r) = Held(Last(R))
    BY <1>4, HeldSame DEF SameIds
  <1>7. Stored(R2, D, x.total) /\ Len(R2) = Len(R) /\ Last(R2) = r
    <2>1. \A s \in Streams : ~D[s].selected => r.q[s].pkts = <<>>
      BY <1>3, <1>5
    <2>. DEFINE k == Len(R)
    <2>2. k \in 1..Len(R) /\ k = Len(R)
      BY <1>3
    <2>. HIDE DEF k
    <2>3. /\ Stored([R EXCEPT ![k] = r], D, x.total - Held(R[k]) + Held(r))
          /\ Len([R EXCEPT ![k] = r]) = Len(R)
          /\ Last([R EXCEPT ![k] = r]) = (IF k = Len(R) THEN r ELSE Last(R))
          /\ Held(R[k]) \in Nat /\ x.total \in Nat
      BY <1>1, <2>1, <2>2, StoredRange
    <2>4. x.total - Held(R[k]) + Held(r) = x.total
      <3>1. Held(r) = Held(R[k])
        BY <1>3, <1>6, <2>2
      <3>. DEFINE a == Held(R[k])
      <3>. HIDE DEF a
      <3>2. a \in Nat /\ Held(r) = a
        BY <2>3, <3>1 DEF a
      <3>. QED  BY <2>3, <3>2 DEF a
    <2>. QED  BY <2>2, <2>3, <2>4
  <1>. HIDE DEF R2
  <1>8. Served(R2, D, x.fw_bytes)
    <2>1. ASSUME NEW s \in Streams PROVE ReaderOk(r.q[s], D[s])
      <3>1. ReaderOk(Last(R).q[s], D[s])
        BY <1>1 DEF Served
      <3>. DEFINE h == D[s].head
      <3>2. /\ Has(r.q[s], h) <=> Has(Last(R).q[s], h)
            /\ h = 0 \/ Has(Last(R).q[s], h) => From(r.q[s], h) = From(Last(R).q[s], h)
        BY <1>3, <1>4, SameIdsAt
      <3>. QED  BY <3>1, <3>2 DEF ReaderOk
    <2>. QED  BY <1>1, <1>7, <2>1 DEF Served
  <1>9. Follows(R2, D, x.seeking \/ b, fp)
    <2>1. \A s \in Streams : r.q[s].last = Last(R).q[s].last
      BY <1>4
    <2>. QED  BY <1>1, <1>5, <1>7, <2>1 DEF Follows
  <1>. QED  BY <1>1, <1>2, <1>7, <1>8, <1>9 DEF Sound, Nearly, Books, R2

\* The queue that i, or the end (0), came to
Closed(q, i) ==
  LET close == i = 0 \/ File[i].kf
      ends == close /\ q.kf_latest # 0
  IN  IF ~ends THEN q
      ELSE [q EXCEPT !.pkts[At(q, q.kf_latest)].kf = q.kf_pts,
                     !.start = IF @ = NoPts THEN q.kf_pts ELSE @,
                     !.end = IF q.kf_end = NoPts THEN @ ELSE q.kf_end]

\* A keyframe, or the end, begins a new last keyframe,
Begun(c, i) ==
  IF ~(i = 0 \/ File[i].kf) THEN c
  ELSE [c EXCEPT !.kf_latest = i, !.kf_pts = NoPts, !.kf_end = NoPts]

\* whose times the packets behind it extend.
Extended(g, i) ==
  IF i = 0 THEN g
  ELSE [g EXCEPT !.kf_pts = PtsMin({@, File[i].pts}), !.kf_end = PtsMax({@, File[i].pts})]

\* adjust_seek_range_on_packet, what it does to the queue.
AdjustedQueue(q, i) == [Extended(Begun(Closed(q, i), i), i) EXCEPT !.eof = i = 0]

\* It changes no packet when it takes the times of the last keyframe,
LEMMA ClosedOk ==
  ASSUME NEW s \in Streams, NEW q, QueueOk(s, q), NEW i, NEW c, c = Closed(q, i)
  PROVE  /\ c \in Queues /\ SameIds(q, c) /\ c.last = q.last /\ c.npt = q.npt
         /\ c.kf_latest = q.kf_latest
  <1>. DEFINE ends == (i = 0 \/ File[i].kf) /\ q.kf_latest # 0
  <1>1. /\ q \in Queues /\ q.pkts \in Seq(Entries) /\ Len(q.pkts) \in Nat
        /\ \A p \in 1..Len(q.pkts) : q.pkts[p] \in Entries
        /\ q.kf_pts \in Int /\ q.kf_end \in Int /\ q.start \in Int /\ q.end \in Int
    BY QueueIs DEF QueueOk, Queues
  <1>2. CASE ~ends
    BY <1>1, <1>2 DEF Closed, SameIds
  <1>3. CASE ends
    <2>. DEFINE a == At(q, q.kf_latest)
                e == [q.pkts[a] EXCEPT !.kf = q.kf_pts]
                P == [q.pkts EXCEPT ![a] = e]
                st == IF q.start = NoPts THEN q.kf_pts ELSE q.start
                en == IF q.kf_end = NoPts THEN q.end ELSE q.kf_end
    <2>1. a \in 1..Len(q.pkts)
      <3>1. Has(q, q.kf_latest)
        BY <1>3 DEF QueueOk
      <3>. QED  BY <3>1, AtIs
    <2>2. c = [q EXCEPT !.pkts = P, !.start = st, !.end = en]
      BY <1>3 DEF Closed
    <2>3. st \in Int /\ en \in Int
      BY <1>1
    <2>. HIDE DEF a, st, en
    <2>4. e \in Entries /\ e.i = q.pkts[a].i
      BY <1>1, <2>1 DEF Entries
    <2>. HIDE DEF e
    <2>5. /\ P \in Seq(Entries) /\ Len(P) = Len(q.pkts)
          /\ \A p \in 1..Len(q.pkts) : P[p] = IF p = a THEN e ELSE q.pkts[p]
      BY <1>1, <2>1, <2>4, ExceptSeq
    <2>. HIDE DEF P
    <2>6. /\ c \in Queues /\ c.pkts = P /\ c.last = q.last /\ c.npt = q.npt
          /\ c.kf_latest = q.kf_latest
      BY <1>1, <2>2, <2>3, <2>5 DEF Queues
    <2>7. SameIds(q, c)
      BY <2>4, <2>5, <2>6 DEF SameIds
    <2>. QED  BY <2>6, <2>7
  <1>. QED  BY <1>2, <1>3

\* nor otherwise;
LEMMA AdjustedOk ==
  ASSUME NEW s \in Streams, NEW q, QueueOk(s, q), NEW i, i = 0 \/ Has(q, i),
         NEW r, r = AdjustedQueue(q, i)
  PROVE  /\ QueueOk(s, r) /\ SameIds(q, r) /\ r.last = q.last
  <1>. DEFINE c == Closed(q, i)
              g == Begun(c, i)
              e == Extended(g, i)
  <1>0. i \in Numbers /\ (i # 0 => i \in Packets /\ File[i].pts \in Int) /\ NoPts \in Int
    BY AtIs, FileIs DEF NoPts
  <1>1. /\ c \in Queues /\ SameIds(q, c) /\ c.last = q.last /\ c.npt = q.npt
        /\ c.kf_latest = q.kf_latest
    BY ClosedOk
  <1>. HIDE DEF c
  <1>2. /\ g \in Queues /\ g.pkts = c.pkts /\ g.last = c.last /\ g.npt = c.npt
        /\ g.kf_latest \in {c.kf_latest, i}
    <2>1. g = IF ~(i = 0 \/ File[i].kf) THEN c
              ELSE [c EXCEPT !.kf_latest = i, !.kf_pts = NoPts, !.kf_end = NoPts]
      BY DEF Begun
    <2>. HIDE DEF g
    <2>2. CASE ~(i = 0 \/ File[i].kf)
      BY <1>1, <2>1, <2>2
    <2>3. CASE i = 0 \/ File[i].kf
      <3>1. g = [c EXCEPT !.kf_latest = i, !.kf_pts = NoPts, !.kf_end = NoPts]
        BY <2>1, <2>3
      <3>. QED  BY <1>0, <1>1, <3>1 DEF Queues
    <2>. QED  BY <2>2, <2>3
  <1>. HIDE DEF g
  <1>3. /\ e \in Queues /\ e.pkts = c.pkts /\ e.last = c.last /\ e.npt = c.npt
        /\ e.kf_latest = g.kf_latest
    <2>1. CASE i = 0
      BY <1>2, <2>1 DEF Extended
    <2>2. CASE i # 0
      <3>. DEFINE a == PtsMin({g.kf_pts, File[i].pts})
                  z == PtsMax({g.kf_end, File[i].pts})
      <3>1. g.kf_pts \in Int /\ g.kf_end \in Int
        BY <1>2 DEF Queues
      <3>2. a \in Int /\ z \in Int
        BY <1>0, <2>2, <3>1, BoundedPair, PtsAre
      <3>3. e = [g EXCEPT !.kf_pts = a, !.kf_end = z]
        BY <2>2 DEF Extended
      <3>. HIDE DEF a, z, e
      <3>. QED  BY <1>2, <3>2, <3>3 DEF Queues
    <2>. QED  BY <2>1, <2>2
  <1>4. r = [e EXCEPT !.eof = (i = 0)]
    BY DEF e, g, c, AdjustedQueue
  <1>. HIDE DEF e
  <1>5. /\ r \in Queues /\ r.pkts = c.pkts /\ r.last = q.last /\ r.npt = q.npt
        /\ r.kf_latest \in {q.kf_latest, i}
    BY <1>1, <1>2, <1>3, <1>4 DEF Queues
  <1>6. SameIds(q, r)
    BY <1>1, <1>5 DEF SameIds
  <1>7. (r.npt # 0 => Has(q, r.npt)) /\ (r.kf_latest # 0 => Has(q, r.kf_latest))
    BY <1>5 DEF QueueOk
  <1>. QED  BY <1>5, <1>6, <1>7, SameIdsOk

\* What AdjustSeekRange makes of the current range
Adjusted(x, s, i) ==
  [Cur(x) EXCEPT !.q[s] = AdjustedQueue(CurQ(x, s), i)]

\* the other queues of the range stay what they are.
LEMMA AdjustedRangeOk ==
  ASSUME NEW x, NEW T, Stored(x.ranges, x.ds, T), NEW s \in Streams, NEW i,
         i = 0 \/ Has(CurQ(x, s), i), NEW r, r = Adjusted(x, s, i)
  PROVE  /\ RangeOk(r) /\ r \in Ranges
         /\ \A t \in Streams : SameIds(CurQ(x, t), r.q[t]) /\ r.q[t].last = CurQ(x, t).last
  <1>. DEFINE q == AdjustedQueue(CurQ(x, s), i)
  <1>1. /\ Cur(x) \in Ranges /\ \A t \in Streams : QueueOk(t, CurQ(x, t)) /\ CurQ(x, t) = Cur(x).q[t]
        /\ Cur(x).q \in [Streams -> Queues]
    BY StoredAre DEF CurQ, Cur, RangeOk, Ranges
  <1>2. QueueOk(s, q) /\ SameIds(CurQ(x, s), q) /\ q.last = CurQ(x, s).last
    BY <1>1, AdjustedOk
  <1>3. r = [Cur(x) EXCEPT !.q = [@ EXCEPT ![s] = q]]
    BY DEF Adjusted
  <1>. HIDE DEF q
  <1>4. q \in Queues
    BY <1>2 DEF QueueOk
  <1>. DEFINE Q == [Cur(x).q EXCEPT ![s] = q]
  <1>5. Q \in [Streams -> Queues] /\ \A t \in Streams : Q[t] = IF t = s THEN q ELSE CurQ(x, t)
    BY <1>1, <1>4
  <1>6. r = [Cur(x) EXCEPT !.q = Q]
    BY <1>3
  <1>. HIDE DEF Q
  <1>7. r \in Ranges /\ r.q = Q
    BY <1>1, <1>5, <1>6 DEF Ranges
  <1>8. \A t \in Streams : SameIds(CurQ(x, t), CurQ(x, t))
    BY DEF SameIds
  <1>. QED  BY <1>1, <1>2, <1>5, <1>7, <1>8 DEF RangeOk

\* adjust_seek_range_on_packet, with the joining it may come to, keeps the
\* books.
LEMMA AdjustSeekRangeOk ==
  ASSUME NoSubtitles, NEW x, NEW b, NEW fp, Sound(x, b, fp), NEW s \in Streams, NEW i,
         i = 0 \/ Has(CurQ(x, s), i), NEW y, y = AdjustSeekRange(x, s, i)
  PROVE  Sound(y, b, fp) /\ Quiet(x, y)
  <1>. DEFINE q == CurQ(x, s)
              ends == (i = 0 \/ File[i].kf) /\ q.kf_latest # 0
              given_up == ends /\ q.npt # 0 /\ At(q, q.kf_latest) <= At(q, q.npt)
              r == Adjusted(x, s, i)
              r2 == IF ends \/ q.eof # (i = 0) THEN UpdateSeekRange(x, r) ELSE r
              z == SetCur([x EXCEPT !.stale = @ \/ given_up], r2)
  <1>1. DOMAIN x = Fields /\ Stored(x.ranges, x.ds, x.total)
    BY DEF Sound, Nearly, Books
  <1>2. y = IF ends /\ Cur(z).end > Cur(x).end THEN AttemptRangeJoining(z) ELSE z
    BY DEF AdjustSeekRange, Adjusted, AdjustedQueue, Extended, Begun, Closed
  <1>. HIDE DEF r
  <1>3. /\ RangeOk(r) /\ r \in Ranges
        /\ \A t \in Streams : SameIds(CurQ(x, t), r.q[t]) /\ r.q[t].last = CurQ(x, t).last
    <2>1. r = Adjusted(x, s, i)
      BY DEF r
    <2>. QED  BY <1>1, <2>1, AdjustedRangeOk
  <1>4. /\ RangeOk(r2) /\ r2.q = r.q
    BY <1>3, UpdateSeekRangeOk
  <1>5. z = [x EXCEPT !.stale = @ \/ given_up, !.ranges = [x.ranges EXCEPT ![Len(x.ranges)] = r2]]
    <2>. DEFINE w == [x EXCEPT !.stale = @ \/ given_up]
    <2>1. w.ranges = x.ranges
      BY <1>1 DEF Fields
    <2>2. z = [w EXCEPT !.ranges = [w.ranges EXCEPT ![Len(w.ranges)] = r2]]
      BY DEF SetCur
    <2>. QED  BY <2>1, <2>2
  <1>. HIDE DEF r2, z, given_up, ends
  <1>6. /\ AllBut({"stale"} \cup {"ranges"}, x, z)
        /\ z.ranges = [x.ranges EXCEPT ![Len(x.ranges)] = r2]
    BY <1>1, <1>5 DEF AllBut, Fields
  <1>7. {"stale"} \cap Core = {}
    BY DEF Core
  <1>8. \A t \in Streams : SameIds(CurQ(x, t), r2.q[t]) /\ r2.q[t].last = CurQ(x, t).last
    BY <1>3, <1>4
  <1>9. Sound(z, b, fp)
    BY <1>4, <1>6, <1>7, <1>8, SameCurOk
  <1>10. z.run_fn = x.run_fn /\ z.asleep = x.asleep
    BY <1>6 DEF AllBut, Fields
  <1>11. CASE ends /\ Cur(z).end > Cur(x).end
    <2>1. Sound(y, b, fp) /\ Quiet(z, y)
      BY <1>2, <1>9, <1>11, AttemptRangeJoiningOk
    <2>. QED  BY <1>10, <2>1 DEF Quiet
  <1>12. CASE ~(ends /\ Cur(z).end > Cur(x).end)
    BY <1>2, <1>9, <1>10, <1>12 DEF Quiet
  <1>. QED  BY <1>11, <1>12

\* A queue with one more packet
Appended(q, i) ==
  [q EXCEPT !.pkts = Append(@, [i |-> i, kf |-> NoPts]), !.last = i, !.last_ts = File[i].dts]

\* A packet at the end of its queue is in file order if it is new.
LEMMA AppendedOk ==
  ASSUME NEW q, NEW i \in Packets, NEW s, s = File[i].s, QueueOk(s, q),
         q.pkts = <<>> \/ q.last < i,
         NEW r, r = Appended(q, i)
  PROVE  /\ QueueOk(s, r) /\ r.last = i /\ Len(r.pkts) = Len(q.pkts) + 1
         /\ Has(r, i) /\ From(r, i) = 1
         /\ \A j : Has(q, j) => Has(r, j) /\ j # 0 /\ From(r, j) = From(q, j) + 1
  <1>. DEFINE L == Len(q.pkts)
              e == [i |-> i, kf |-> NoPts]
              P == Append(q.pkts, e)
  <1>1. /\ q \in Queues /\ q.pkts \in Seq(Entries) /\ L \in Nat
        /\ \A p \in 1..L : q.pkts[p].i \in Nat \ {0}
        /\ q.last \in Nat /\ (q.pkts # <<>> <=> L > 0)
    BY QueueIs DEF QueueOk
  <1>2. i \in Nat \ {0} /\ i \in Numbers /\ File[i].dts \in Int /\ e \in Entries /\ e.i = i
    <2>1. Packets \subseteq Nat \ {0} /\ Packets \subseteq Numbers /\ File[i].dts \in Int
      BY FileIs
    <2>2. e \in Entries
      BY DEF Entries, NoPts
    <2>. QED  BY <2>1, <2>2
  <1>. HIDE DEF e
  <1>3. /\ P \in Seq(Entries) /\ Len(P) = L + 1 /\ P[L + 1] = e
        /\ \A p \in 1..L : P[p] = q.pkts[p]
    BY <1>1, <1>2, AppendProperties
  <1>4. r = [q EXCEPT !.pkts = P, !.last = i, !.last_ts = File[i].dts]
    BY DEF e, Appended
  <1>. HIDE DEF P
  <1>5. /\ r \in Queues /\ r.pkts = P /\ r.last = i /\ r.npt = q.npt /\ r.kf_latest = q.kf_latest
    BY <1>1, <1>2, <1>3, <1>4 DEF Queues
  <1>6. \A p \in 1..L + 1 : p \in 1..L \/ (p = L + 1 /\ L + 1 \in 1..L + 1)
    BY <1>1
  <1>6a. \A p \in 1..L : p \in 1..L + 1
    BY <1>1
  <1>7. ASSUME NEW p \in 1..L PROVE q.pkts[p].i < i /\ q.pkts[p].i # 0 /\ File[q.pkts[p].i].s = s
    <2>1. q.pkts[p].i <= q.last /\ File[q.pkts[p].i].s = s
      BY DEF QueueOk
    <2>2. q.last < i
      BY <1>1
    <2>. QED  BY <1>1, <1>2, <2>1, <2>2
  <1>8. \A p \in 1..L + 1 : File[P[p].i].s = s /\ P[p].i <= i
    BY <1>1, <1>2, <1>3, <1>6, <1>7
  <1>9. ASSUME NEW m \in 1..L + 1, NEW n \in 1..L + 1, m < n PROVE P[m].i < P[n].i
    <2>1. m \in 1..L
      BY <1>1, <1>9
    <2>2. CASE n \in 1..L
      BY <1>3, <1>9, <2>1, <2>2 DEF QueueOk
    <2>3. CASE n = L + 1
      BY <1>2, <1>3, <1>7, <2>1, <2>3
    <2>. QED  BY <1>6, <2>2, <2>3
  <1>10. \A j : Has(q, j) => Has(r, j)
    BY <1>3, <1>5, <1>6a DEF Has
  <1>11. QueueOk(s, r)
    <2>1. (r.npt # 0 => Has(r, r.npt)) /\ (r.kf_latest # 0 => Has(r, r.kf_latest))
      BY <1>5, <1>10 DEF QueueOk
    <2>. QED  BY <1>3, <1>5, <1>8, <1>9, <2>1 DEF QueueOk
  <1>12. Has(r, i)
    BY <1>1, <1>2, <1>3, <1>5, <1>6 DEF Has
  <1>13. ASSUME NEW j, NEW p \in 1..L + 1, P[p].i = j PROVE From(r, j) = L + 1 - p + 1 /\ j # 0
    <2>1. Has(r, j)
      BY <1>3, <1>5, <1>13 DEF Has
    <2>1a. /\ \A m \in 1..Len(r.pkts) : r.pkts[m].i = j => m = At(r, j)
           /\ j # 0
      BY <1>11, <2>1, AtIs
    <2>2. p = At(r, j) /\ j # 0
      BY <1>3, <1>5, <1>13, <2>1a
    <2>3. Len(r.pkts) = L + 1
      BY <1>3, <1>5
    <2>. QED  BY <2>2, <2>3 DEF From
  <1>14. From(r, i) = 1
    <2>1. L + 1 \in 1..L + 1 /\ P[L + 1].i = i
      BY <1>1, <1>2, <1>3
    <2>2. From(r, i) = L + 1 - (L + 1) + 1
      BY <1>13, <2>1
    <2>. QED  BY <1>1, <2>2
  <1>15. ASSUME NEW j, Has(q, j) PROVE j # 0 /\ From(r, j) = From(q, j) + 1
    <2>. DEFINE a == At(q, j)
    <2>1. a \in 1..L /\ q.pkts[a].i = j /\ j # 0
      BY <1>15, AtIs
    <2>2. From(q, j) = L - a + 1
      BY <2>1 DEF From
    <2>. HIDE DEF a
    <2>3. a \in 1..L + 1 /\ P[a].i = j
      BY <1>3, <1>6a, <2>1
    <2>4. From(r, j) = L + 1 - a + 1
      BY <1>13, <2>3
    <2>. QED  BY <1>1, <2>1, <2>2, <2>4
  <1>. QED  BY <1>3, <1>5, <1>10, <1>11, <1>12, <1>14, <1>15

\* The reader of a stream that got the packet i
Fed(d, i) ==
  LET head == IF d.head = 0 /\ (~d.skip \/ File[i].kf) THEN i ELSE d.head
  IN  [d EXCEPT !.head = head,
                !.skip = @ /\ (d.head # 0 \/ ~File[i].kf),
                !.fw = @ + (IF head # 0 THEN 1 ELSE 0), !.eof = FALSE,
                !.base_ts = IF @ = NoPts THEN File[i].dts ELSE @]

\* A reader who waits gets the packet; one more is before him if he is
\* somewhere.
LEMMA FedOk ==
  ASSUME NEW d \in Readers, NEW i \in Packets, NEW e, e = Fed(d, i)
  PROVE  /\ e \in Readers
         /\ e.head = (IF d.head = 0 /\ (~d.skip \/ File[i].kf) THEN i ELSE d.head)
         /\ e.fw = d.fw + (IF e.head # 0 THEN 1 ELSE 0)
         /\ (e.selected <=> d.selected) /\ (e.refreshing <=> d.refreshing)
  <1>. DEFINE head == IF d.head = 0 /\ (~d.skip \/ File[i].kf) THEN i ELSE d.head
              skip == d.skip /\ (d.head # 0 \/ ~File[i].kf)
              fw == d.fw + (IF head # 0 THEN 1 ELSE 0)
              ts == IF d.base_ts = NoPts THEN File[i].dts ELSE d.base_ts
  <1>1. head \in Numbers /\ skip \in BOOLEAN /\ ts \in Int
    <2>1. i \in Numbers /\ File[i].dts \in Int
      BY FileIs
    <2>. QED  BY <2>1 DEF Readers
  <1>2. fw \in Nat
    <2>1. d.fw \in Nat
      BY DEF Readers
    <2>. QED  BY <2>1
  <1>3. e = [d EXCEPT !.head = head, !.skip = skip, !.fw = fw, !.eof = FALSE, !.base_ts = ts]
    BY DEF Fed
  <1>. HIDE DEF head, skip, fw, ts
  <1>4. /\ e \in Readers /\ e.head = head /\ e.fw = fw
        /\ (e.selected <=> d.selected) /\ (e.refreshing <=> d.refreshing)
    BY <1>1, <1>2, <1>3 DEF Readers
  <1>. QED  BY <1>4 DEF head, fw

\* append_packet counts the packet in its queue and its reader; the demuxer
\* reads on behind it.
LEMMA AppendPacketOk ==
  ASSUME NEW x, NEW i \in Packets, NEW s, s = File[i].s, Sound(x, FALSE, i),
         x.ds[s].selected, ~x.ds[s].refreshing, ~x.seeking,
         NEW y, y = AppendPacket(x, s, i)
  PROVE  /\ Sound(y, FALSE, i + 1) /\ Has(CurQ(y, s), i) /\ s \in Streams
         /\ AllBut({"ds", "total", "fw_bytes", "eof", "last_eof", "cut", "ranges"}, x, y)
  <1>. DEFINE R == x.ranges
              D == x.ds
              d1 == Fed(D[s], i)
              head == IF D[s].head = 0 /\ (~D[s].skip \/ File[i].kf) THEN i ELSE D[s].head
              one == IF head # 0 THEN 1 ELSE 0
              q == CurQ(x, s)
              q1 == Appended(q, i)
              Q == [Last(R).q EXCEPT ![s] = q1]
              r == [Last(R) EXCEPT !.q = Q]
              E == [D EXCEPT ![s] = d1]
              R2 == [R EXCEPT ![Len(R)] = r]
  <1>1. /\ DOMAIN x = Fields /\ ~x.failed /\ Stored(R, D, x.total)
        /\ Served(R, D, x.fw_bytes) /\ Follows(R, D, FALSE, i) /\ Len(R) <= MaxRanges
        /\ D \in [Streams -> Readers]
    BY DEF Sound, Nearly, Books, Stored
  <1>2. s \in Streams /\ i \in Nat \ {0}
    BY FileIs
  <1>3. /\ R \in Seq(Ranges) /\ Len(R) \in 1..Len(R) /\ Last(R) = R[Len(R)] /\ Last(R) \in Ranges
        /\ \A t \in Streams : QueueOk(t, Last(R).q[t])
        /\ \A t \in Streams : ~D[t].selected => Last(R).q[t].pkts = <<>>
        /\ x.total \in Nat /\ q = Last(R).q[s] /\ Last(R).q \in [Streams -> Queues]
    BY <1>1, StoredAre DEF CurQ, Cur, Ranges
  <1>4. q.pkts = <<>> \/ q.last < i
    BY <1>1, <1>2, <1>3 DEF Follows
  <1>5. /\ QueueOk(s, q1) /\ q1.last = i /\ Len(q1.pkts) = Len(q.pkts) + 1
        /\ Has(q1, i) /\ From(q1, i) = 1
        /\ \A j : Has(q, j) => Has(q1, j) /\ j # 0 /\ From(q1, j) = From(q, j) + 1
    <2>1. QueueOk(s, q) /\ q1 = Appended(q, i)
      BY <1>2, <1>3
    <2>. HIDE DEF q, q1
    <2>. QED  BY <1>4, <2>1, AppendedOk
  <1>6. /\ d1 \in Readers
        /\ d1.head = head /\ d1.fw = D[s].fw + one
        /\ (d1.selected <=> D[s].selected) /\ (d1.refreshing <=> D[s].refreshing)
    <2>. DEFINE d == D[s]
                e == Fed(d, i)
    <2>1. d \in Readers /\ e = Fed(d, i)
      BY <1>1, <1>2
    <2>. HIDE DEF d, e
    <2>2. /\ e \in Readers
          /\ e.head = (IF d.head = 0 /\ (~d.skip \/ File[i].kf) THEN i ELSE d.head)
          /\ e.fw = d.fw + (IF e.head # 0 THEN 1 ELSE 0)
          /\ (e.selected <=> d.selected) /\ (e.refreshing <=> d.refreshing)
      BY <2>1, FedOk
    <2>. QED  BY <2>2 DEF d, e
  <1>. DEFINE w == [x EXCEPT !.ds = E, !.total = @ + 1, !.fw_bytes = @ + one,
                             !.eof = FALSE, !.last_eof = FALSE, !.cut = @ \ {s}]
  <1>7. y = [w EXCEPT !.ranges[Len(x.ranges)].q[s] = q1]
    BY DEF AppendPacket, Fed, Appended
  <1>7a. w.ranges = R
    BY <1>1 DEF Fields
  <1>. HIDE DEF w
  <1>7b. y = [w EXCEPT !.ranges = R2]
    BY <1>3, <1>7, <1>7a
  <1>7c. y = [x EXCEPT !.ds = E, !.total = @ + 1, !.fw_bytes = @ + one,
                      !.eof = FALSE, !.last_eof = FALSE, !.cut = @ \ {s},
                      !.ranges = R2]
    BY <1>7b DEF w
  <1>. HIDE DEF d1, q1, one, head
  <1>8. /\ Q \in [Streams -> Queues] /\ \A t \in Streams : Q[t] = IF t = s THEN q1 ELSE Last(R).q[t]
    BY <1>2, <1>3, <1>5 DEF QueueOk
  <1>. HIDE DEF Q
  <1>9. r \in Ranges /\ r.q = Q
    BY <1>3, <1>8 DEF Ranges
  <1>. HIDE DEF r
  <1>10. RangeOk(r)
    BY <1>3, <1>5, <1>8, <1>9 DEF RangeOk
  <1>11. /\ E \in [Streams -> Readers] /\ \A t \in Streams : E[t] = IF t = s THEN d1 ELSE D[t]
    BY <1>1, <1>2, <1>6
  <1>. HIDE DEF E
  <1>12. Held(r) = Held(Last(R)) + 1 /\ Held(Last(R)) \in Nat
    <2>1. \A t \in Streams : t # s => Len(r.q[t].pkts) = Len(Last(R).q[t].pkts)
      BY <1>8, <1>9
    <2>2. Held(r) = Held(Last(R)) - Len(Last(R).q[s].pkts) + Len(r.q[s].pkts)
      BY <1>2, <1>3, <1>9, <2>1, HeldChanged
    <2>3. Held(Last(R)) \in Nat /\ Len(Last(R).q[s].pkts) \in Nat
      BY <1>2, <1>3, HeldIs
    <2>4. Len(r.q[s].pkts) = Len(Last(R).q[s].pkts) + 1
      BY <1>2, <1>3, <1>5, <1>8, <1>9
    <2>. DEFINE a == Held(Last(R))
                l == Len(Last(R).q[s].pkts)
    <2>. HIDE DEF a, l
    <2>5. a \in Nat /\ l \in Nat /\ Held(r) = a - l + (l + 1)
      BY <2>2, <2>3, <2>4 DEF a, l
    <2>6. Held(r) = a + 1
      BY <2>5
    <2>. QED  BY <2>3, <2>6 DEF a
  <1>13. /\ Stored(R2, D, x.total + 1) /\ Len(R2) = Len(R) /\ Last(R2) = r
    <2>1. \A t \in Streams : ~D[t].selected => r.q[t].pkts = <<>>
      BY <1>3, <1>8, <1>9
    <2>. DEFINE k == Len(R)
    <2>2. k \in 1..Len(R) /\ k = Len(R)
      BY <1>3
    <2>. HIDE DEF k
    <2>3. /\ Stored([R EXCEPT ![k] = r], D, x.total - Held(R[k]) + Held(r))
          /\ Len([R EXCEPT ![k] = r]) = Len(R)
          /\ Last([R EXCEPT ![k] = r]) = (IF k = Len(R) THEN r ELSE Last(R))
      BY <1>1, <1>10, <2>1, <2>2, StoredRange
    <2>4. x.total - Held(R[k]) + Held(r) = x.total + 1
      <3>1. Held(R[k]) \in Nat /\ Held(r) = Held(R[k]) + 1
        BY <1>3, <1>12, <2>2
      <3>. DEFINE a == Held(R[k])
      <3>. HIDE DEF a
      <3>2. a \in Nat /\ Held(r) = a + 1
        BY <3>1 DEF a
      <3>3. x.total - a + (a + 1) = x.total + 1
        BY <1>3, <3>2
      <3>. QED  BY <3>2, <3>3 DEF a
    <2>. QED  BY <2>2, <2>3, <2>4
  <1>. HIDE DEF R2
  <1>14. Stored(R2, E, x.total + 1)
    <2>1. \A t \in Streams : E[t].selected <=> D[t].selected
      BY <1>6, <1>11
    <2>. QED  BY <1>11, <1>13, <2>1, StoredReaders
  <1>15. one \in {0, 1} /\ FwBytes(D) \in Nat /\ D[s].fw \in Nat /\ FwBytes(E) = FwBytes(D) + one
    <2>1. FwBytes(E) = FwBytes(D) - D[s].fw + E[s].fw
      BY <1>1, <1>2, <1>11, FwChanged
    <2>2. FwBytes(D) \in Nat /\ D[s].fw \in Nat
      BY <1>1, <1>2, FwIs
    <2>3. one \in {0, 1}
      BY DEF one
    <2>4. E[s].fw = D[s].fw + one
      BY <1>2, <1>6, <1>11
    <2>. DEFINE a == FwBytes(D)
                f == D[s].fw
    <2>. HIDE DEF a, f
    <2>5. a \in Nat /\ f \in Nat /\ one \in {0, 1} /\ FwBytes(E) = a - f + (f + one)
      BY <2>1, <2>2, <2>3, <2>4 DEF a, f
    <2>6. FwBytes(E) = a + one
      BY <2>5
    <2>. QED  BY <2>2, <2>3, <2>6 DEF a
  <1>16. ASSUME NEW t \in Streams PROVE ReaderOk(r.q[t], E[t])
    <2>0. ReaderOk(Last(R).q[t], D[t])
      BY <1>1 DEF Served
    <2>1. CASE t # s
      BY <1>8, <1>9, <1>11, <2>0, <2>1
    <2>2. CASE t = s
      <3>0. r.q[t] = q1 /\ E[t] = d1 /\ ReaderOk(q, D[s])
        BY <1>3, <1>8, <1>9, <1>11, <2>0, <2>2
      <3>1. CASE D[s].head = 0
        <4>1. D[s].fw = 0
          BY <3>0, <3>1 DEF ReaderOk, From
        <4>2. CASE ~D[s].skip \/ File[i].kf
          <5>1. d1.head = i /\ one = 1
            BY <1>2, <1>6, <3>1, <4>2 DEF one, head
          <5>2. d1.fw = 1
            BY <1>6, <4>1, <5>1
          <5>. QED  BY <1>5, <3>0, <5>1, <5>2 DEF ReaderOk
        <4>3. CASE ~(~D[s].skip \/ File[i].kf)
          <5>1. d1.head = 0 /\ one = 0
            BY <1>6, <3>1, <4>3 DEF one, head
          <5>2. d1.fw = 0
            BY <1>6, <4>1, <5>1
          <5>. QED  BY <3>0, <5>1, <5>2 DEF ReaderOk, From
        <4>. QED  BY <4>2, <4>3
      <3>2. CASE D[s].head # 0
        <4>1. d1.head = D[s].head /\ one = 1
          BY <1>6, <3>2 DEF one, head
        <4>2. Has(q, D[s].head) /\ D[s].fw = From(q, D[s].head)
          BY <3>0, <3>2 DEF ReaderOk
        <4>3. Has(q1, d1.head) /\ d1.fw = From(q1, d1.head)
          BY <1>5, <1>6, <4>1, <4>2
        <4>. QED  BY <3>0, <4>3 DEF ReaderOk
      <3>. QED  BY <3>1, <3>2
    <2>. QED  BY <2>1, <2>2
  <1>17. Served(R2, E, x.fw_bytes + one)
    <2>1. x.fw_bytes = FwBytes(D)
      BY <1>1 DEF Served
    <2>. QED  BY <1>13, <1>15, <1>16, <2>1 DEF Served
  <1>18. Follows(R2, E, FALSE, i + 1)
    <2>. SUFFICES ASSUME NEW t \in Streams
                  PROVE  \/ E[t].refreshing \/ r.q[t].pkts = <<>> \/ r.q[t].last < i + 1
      BY <1>13 DEF Follows
    <2>1. CASE t = s
      BY <1>2, <1>5, <1>8, <1>9, <2>1
    <2>2. CASE t # s
      <3>1. \/ E[t].refreshing \/ r.q[t].pkts = <<>> \/ Last(R).q[t].last < i
        BY <1>1, <1>8, <1>9, <1>11, <2>2 DEF Follows
      <3>2. Last(R).q[t].last \in Nat /\ r.q[t] = Last(R).q[t]
        BY <1>3, <1>8, <1>9, <2>2, QueueIs
      <3>. QED  BY <1>2, <3>1, <3>2
    <2>. QED  BY <2>1, <2>2
  <1>19. /\ y.ranges = R2 /\ y.ds = E /\ y.total = x.total + 1 /\ y.fw_bytes = x.fw_bytes + one
         /\ DOMAIN y = Fields
         /\ AllBut({"ds", "total", "fw_bytes", "eof", "last_eof", "cut", "ranges"}, x, y)
    BY <1>1, <1>7c DEF AllBut, Fields
  <1>20. y.failed = x.failed /\ y.seeking = x.seeking
    BY <1>19 DEF AllBut, Fields
  <1>21. Sound(y, FALSE, i + 1)
    BY <1>1, <1>13, <1>14, <1>17, <1>18, <1>19, <1>20 DEF Sound, Nearly, Books
  <1>22. CurQ(y, s) = q1
    BY <1>2, <1>8, <1>9, <1>13, <1>19 DEF CurQ, Cur
  <1>. QED  BY <1>2, <1>5, <1>19, <1>21, <1>22

\* The demuxer may be further on.
LEMMA SoundLater ==
  ASSUME NEW x, NEW b, NEW i \in Nat, Sound(x, b, i)
  PROVE  Sound(x, b, i + 1)
  <1>. DEFINE R == x.ranges
  <1>1. /\ Stored(R, x.ds, x.total) /\ Follows(R, x.ds, x.seeking \/ b, i)
    BY DEF Sound, Nearly, Books
  <1>2. \A s \in Streams : Last(R).q[s].last \in Nat
    BY <1>1, StoredAre, QueueIs
  <1>3. \A s \in Streams : Last(R).q[s].last < i => Last(R).q[s].last < i + 1
    BY <1>2
  <1>4. Follows(R, x.ds, x.seeking \/ b, i + 1)
    BY <1>1, <1>3 DEF Follows
  <1>. QED  BY <1>4 DEF Sound, Nearly

\* Two steps that only wake sleepers are one.
LEMMA QuietBoth ==
  ASSUME NEW x, NEW y, NEW z, Quiet(x, y), Quiet(y, z)
  PROVE  Quiet(x, z)
  BY DEF Quiet

\* add_packet_locked keeps the books, whether it drops the packet, ends a
\* refresh seek with it, or adds it.
LEMMA AddPacketOk ==
  ASSUME NoSubtitles, NEW x, NEW i \in Packets, Sound(x, FALSE, i), NEW y, y = AddPacket(x, i)
  PROVE  Sound(y, FALSE, i + 1) /\ Quiet(x, y)
  <1>. DEFINE s == File[i].s
              z == [x EXCEPT !.initial = FALSE]
  <1>0. i \in Nat \ {0} /\ s \in Streams /\ DOMAIN x = Fields
    BY FileIs DEF Sound, Nearly
  <1>1. /\ AllBut({"initial"}, x, z)
    BY <1>0 DEF AllBut, Fields
  <1>2. y = IF ~x.ds[s].selected \/ x.seeking THEN z
            ELSE IF x.ds[s].refreshing
                 THEN [z EXCEPT !.ds[s].refreshing = ~RefreshedBy(CurQ(x, s), i)]
                 ELSE Wakeup(AdjustSeekRange(AppendPacket(z, s, i), s, i), {s})
    BY DEF AddPacket
  <1>. HIDE DEF z, s
  <1>3. /\ Sound(z, FALSE, i) /\ z.ranges = x.ranges /\ z.ds = x.ds /\ z.seeking = x.seeking
        /\ z.run_fn = x.run_fn /\ z.asleep = x.asleep /\ DOMAIN z = Fields
    <2>1. {"initial"} \cap Core = {}
      BY DEF Core
    <2>2. Sound(z, FALSE, i) /\ z.ranges = x.ranges /\ z.ds = x.ds /\ z.seeking = x.seeking
      BY <1>1, <2>1, Aside
    <2>. QED  BY <1>1, <2>2 DEF AllBut, Fields
  <1>4. Quiet(x, z)
    BY <1>3 DEF Quiet
  <1>5. Sound(z, FALSE, i + 1)
    BY <1>0, <1>3, SoundLater
  <1>6. CASE ~x.ds[s].selected \/ x.seeking
    BY <1>2, <1>4, <1>5, <1>6
  <1>7. CASE x.ds[s].selected /\ ~x.seeking /\ x.ds[s].refreshing
    <2>. DEFINE R == z.ranges
                D == z.ds
                v == ~RefreshedBy(CurQ(x, s), i)
                E == [D EXCEPT ![s] = [@ EXCEPT !.refreshing = v]]
    <2>1. y = [z EXCEPT !.ds = E]
      BY <1>2, <1>7
    <2>2. /\ ~z.failed /\ Stored(R, D, z.total) /\ Served(R, D, z.fw_bytes)
          /\ Follows(R, D, FALSE, i) /\ Len(R) <= MaxRanges /\ D \in [Streams -> Readers]
      BY <1>3, <1>7 DEF Sound, Nearly, Books, Stored
    <2>3. /\ \A t \in Streams : /\ E[t] \in Readers /\ E[t].head = D[t].head /\ E[t].fw = D[t].fw
                                /\ (E[t].selected <=> D[t].selected)
                                /\ t # s => (E[t].refreshing <=> D[t].refreshing)
          /\ E[s].refreshing <=> v
      <3>1. D[s] \in Readers /\ v \in BOOLEAN
        BY <1>0, <2>2 DEF RefreshedBy
      <3>. DEFINE e == [D[s] EXCEPT !.refreshing = v]
      <3>2. E = [D EXCEPT ![s] = e]
        OBVIOUS
      <3>3. /\ e \in Readers /\ e.head = D[s].head /\ e.fw = D[s].fw
            /\ (e.selected <=> D[s].selected) /\ (e.refreshing <=> v)
        <4>. HIDE DEF v, D
        <4>. QED  BY <3>1 DEF Readers
      <3>. HIDE DEF e, v, D
      <3>4. \A t \in Streams : E[t] = IF t = s THEN e ELSE D[t]
        BY <1>0, <2>2, <3>2
      <3>. HIDE DEF E
      <3>5. \A t \in Streams : D[t] \in Readers
        BY <2>2
      <3>. QED  BY <1>0, <3>3, <3>4, <3>5
    <2>3a. E \in [Streams -> Readers]
      BY <2>2, <2>3
    <2>. HIDE DEF E
    <2>4. FwBytes(E) = FwBytes(D)
      BY <2>3, FwSame
    <2>5. Stored(R, E, z.total)
      BY <2>2, <2>3, <2>3a, StoredReaders
    <2>6. Served(R, E, z.fw_bytes)
      BY <2>2, <2>3, <2>4 DEF Served, ReaderOk
    <2>7. Follows(R, E, FALSE, i + 1)
      <3>1. \A t \in Streams : Last(R).q[t].last \in Nat
        BY <2>2, StoredAre, QueueIs
      <3>2. ASSUME NEW t \in Streams
            PROVE  \/ E[t].refreshing \/ Last(R).q[t].pkts = <<>> \/ Last(R).q[t].last < i + 1
        <4>1. CASE t # s
          <5>1. \/ E[t].refreshing \/ Last(R).q[t].pkts = <<>> \/ Last(R).q[t].last < i
            BY <2>2, <2>3, <4>1 DEF Follows
          <5>. QED  BY <1>0, <3>1, <5>1
        <4>2. CASE t = s
          <5>1. E[s].refreshing \/ i >= Last(R).q[s].last
            BY <1>3, <2>3 DEF RefreshedBy, CurQ, Cur
          <5>. QED  BY <1>0, <3>1, <4>2, <5>1
        <4>. QED  BY <4>1, <4>2
      <3>. QED  BY <3>2 DEF Follows
    <2>. HIDE DEF R, D, v
    <2>8. AllBut({"ds"}, z, y) /\ y.ds = E
      BY <1>3, <2>1 DEF AllBut, Fields
    <2>9. /\ y.ranges = R /\ y.total = z.total /\ y.fw_bytes = z.fw_bytes /\ y.failed = z.failed
          /\ y.seeking = x.seeking /\ y.run_fn = z.run_fn /\ y.asleep = z.asleep /\ DOMAIN y = Fields
      BY <1>3, <2>8 DEF AllBut, Fields, R
    <2>10. Sound(y, FALSE, i + 1)
      BY <1>7, <2>2, <2>5, <2>6, <2>7, <2>8, <2>9 DEF Sound, Nearly, Books
    <2>. QED  BY <1>3, <2>9, <2>10 DEF Quiet
  <1>8. CASE x.ds[s].selected /\ ~x.seeking /\ ~x.ds[s].refreshing
    <2>. DEFINE u == AppendPacket(z, s, i)
                v == AdjustSeekRange(u, s, i)
                w == Wakeup(v, {s})
    <2>1. y = w
      BY <1>2, <1>8
    <2>2. /\ Sound(u, FALSE, i + 1) /\ Has(CurQ(u, s), i)
          /\ AllBut({"ds", "total", "fw_bytes", "eof", "last_eof", "cut", "ranges"}, z, u)
      <3>1. s = File[i].s /\ u = AppendPacket(z, s, i)
        BY DEF s
      <3>2. z.ds[s].selected /\ ~z.ds[s].refreshing /\ ~z.seeking
        BY <1>3, <1>8
      <3>. HIDE DEF u
      <3>. QED  BY <1>3, <3>1, <3>2, AppendPacketOk
    <2>. HIDE DEF u
    <2>3. Quiet(z, u)
      BY <2>2 DEF Quiet, AllBut, Fields
    <2>4. Sound(v, FALSE, i + 1) /\ Quiet(u, v)
      <3>1. v = AdjustSeekRange(u, s, i)
        OBVIOUS
      <3>. HIDE DEF v
      <3>. QED  BY <1>0, <2>2, <3>1, AdjustSeekRangeOk
    <2>. HIDE DEF v
    <2>5. Sound(w, FALSE, i + 1) /\ Quiet(v, w)
      BY <2>4, WakeupOk
    <2>. HIDE DEF w
    <2>. QED  BY <1>4, <2>1, <2>3, <2>4, <2>5, QuietBoth
  <1>. QED  BY <1>6, <1>7, <1>8

-----------------------------------------------------------------------------
(* The end of streams                                                      *)

\* mark_stream_eof for the nth stream, if it is to be marked;
EofStep(y, n, all) ==
  IF y.ds[n].eof \/ ~(all \/ y.ds[n].head = 0) THEN y
  ELSE Wakeup(AdjustSeekRange(
         [y EXCEPT !.ds[n].eof = TRUE, !.cut = IF all THEN @ ELSE @ \cup {n}],
         n, 0), {n})

\* for the first ones up to the nth,
EofUpto(x, all, N) == CHOOSE g : g = [n \in 0 .. N |-> IF n = 0 THEN x ELSE EofStep(g[n - 1], n, all)]

\* one after the other.
LEMMA EofUptoIs ==
  ASSUME NEW x, NEW all, NEW N \in Nat
  PROVE  /\ EofUpto(x, all, N)[0] = x
         /\ \A n \in 1..N : EofUpto(x, all, N)[n] = EofStep(EofUpto(x, all, N)[n - 1], n, all)
  <1>. DEFINE Is(g, k) == g = [n \in 0 .. k |-> IF n = 0 THEN x ELSE EofStep(g[n - 1], n, all)]
              P == {k \in Nat : \E g : Is(g, k)}
  <1>1. 0 \in P
    <2>. DEFINE g == [n \in 0..0 |-> x]
    <2>1. Is(g, 0)
      <3>1. \A n \in 0..0 : n = 0
        OBVIOUS
      <3>2. g = [n \in 0..0 |-> IF n = 0 THEN x ELSE EofStep(g[n - 1], n, all)]
        BY <3>1
      <3>. QED  BY <3>2
    <2>. QED  BY <2>1
  <1>2. ASSUME NEW k \in Nat, k \in P PROVE k + 1 \in P
    <2>1. PICK g : Is(g, k)
      BY <1>2
    <2>. DEFINE h == [n \in 0..k + 1 |-> IF n = k + 1 THEN EofStep(g[k], k + 1, all) ELSE g[n]]
    <2>2. ASSUME NEW n \in 0..k + 1
          PROVE  h[n] = IF n = 0 THEN x ELSE EofStep(h[n - 1], n, all)
      <3>1. CASE n = k + 1
        <4>1. n - 1 = k /\ k \in 0..k + 1 /\ k # k + 1 /\ n # 0
          BY <3>1
        <4>2. h[n - 1] = g[k] /\ h[n] = EofStep(g[k], k + 1, all)
          BY <3>1, <4>1
        <4>. QED  BY <3>1, <4>1, <4>2
      <3>2. CASE n # k + 1
        <4>1. n \in 0..k /\ h[n] = g[n]
          BY <3>2
        <4>2. g[n] = IF n = 0 THEN x ELSE EofStep(g[n - 1], n, all)
          <5>. DEFINE rest(m) == IF m = 0 THEN x ELSE EofStep(g[m - 1], m, all)
          <5>1. g = [m \in 0 .. k |-> rest(m)]
            BY <2>1
          <5>. HIDE DEF rest
          <5>2. g[n] = rest(n)
            BY <4>1, <5>1
          <5>. QED  BY <5>2 DEF rest
        <4>3. CASE n = 0
          BY <4>1, <4>2, <4>3
        <4>4. CASE n # 0
          <5>1. n - 1 \in 0..k + 1 /\ n - 1 # k + 1
            BY <4>1, <4>4
          <5>2. h[n - 1] = g[n - 1]
            BY <5>1
          <5>. QED  BY <4>1, <4>2, <4>4, <5>2
        <4>. QED  BY <4>3, <4>4
      <3>. QED  BY <3>1, <3>2
    <2>3. Is(h, k + 1)
      <3>1. h = [n \in 0..k + 1 |-> h[n]]
        OBVIOUS
      <3>. HIDE DEF h
      <3>2. h = [n \in 0..k + 1 |-> IF n = 0 THEN x ELSE EofStep(h[n - 1], n, all)]
        BY <2>2, <3>1
      <3>. QED  BY <3>2
    <2>. HIDE DEF Is
    <2>. QED  BY <2>3
  <1>3. N \in P
    <2>. HIDE DEF P
    <2>. QED  BY <1>1, <1>2, AllNumbers
  <1>. DEFINE u == EofUpto(x, all, N)
              rest(m) == IF m = 0 THEN x ELSE EofStep(u[m - 1], m, all)
  <1>4. Is(u, N)
    BY <1>3 DEF EofUpto
  <1>. HIDE DEF u
  <1>5. u = [m \in 0 .. N |-> rest(m)]
    BY <1>4
  <1>6. \A m \in 0..N : u[m] = rest(m)
    <2>. HIDE DEF rest
    <2>. QED  BY <1>5
  <1>7. \A n \in 1..N : n \in 0..N /\ n # 0
    OBVIOUS
  <1>. QED  BY <1>6, <1>7 DEF u

\* The end of one stream keeps the books,
LEMMA EofStepOk ==
  ASSUME NoSubtitles, NEW y, NEW b, NEW fp, Sound(y, b, fp), NEW n \in Streams, NEW all,
         NEW z, z = EofStep(y, n, all)
  PROVE  Sound(z, b, fp) /\ Quiet(y, z)
  <1>. DEFINE E == [y.ds EXCEPT ![n] = [@ EXCEPT !.eof = TRUE]]
              cut == IF all THEN y.cut ELSE y.cut \cup {n}
              w == [y EXCEPT !.ds = E, !.cut = cut]
              v == AdjustSeekRange(w, n, 0)
              u == Wakeup(v, {n})
  <1>1. DOMAIN y = Fields /\ y.ds \in [Streams -> Readers]
    BY DEF Sound, Nearly, Books, Stored
  <1>2. CASE y.ds[n].eof \/ ~(all \/ y.ds[n].head = 0)
    BY <1>2 DEF EofStep, Quiet
  <1>3. CASE ~(y.ds[n].eof \/ ~(all \/ y.ds[n].head = 0))
    <2>1. z = u
      <3>1. [y EXCEPT !.ds[n].eof = TRUE, !.cut = IF all THEN @ ELSE @ \cup {n}] = w
        BY <1>1 DEF Fields
      <3>2. z = Wakeup(AdjustSeekRange(
                  [y EXCEPT !.ds[n].eof = TRUE, !.cut = IF all THEN @ ELSE @ \cup {n}], n, 0), {n})
        BY <1>3 DEF EofStep
      <3>. HIDE DEF w
      <3>. QED  BY <3>1, <3>2
    <2>2. SameReaders(y.ds, E)
      <3>1. y.ds[n] \in Readers
        BY <1>1
      <3>. DEFINE e == [y.ds[n] EXCEPT !.eof = TRUE]
      <3>2. /\ e \in Readers /\ e.head = y.ds[n].head /\ e.fw = y.ds[n].fw
            /\ (e.selected <=> y.ds[n].selected) /\ (e.refreshing <=> y.ds[n].refreshing)
        BY <3>1 DEF Readers
      <3>3. E = [y.ds EXCEPT ![n] = e]
        OBVIOUS
      <3>. HIDE DEF e
      <3>. QED  BY <1>1, <3>2, <3>3 DEF SameReaders
    <2>. HIDE DEF E, cut
    <2>3. AllBut({"cut"} \cup {"ds"}, y, w) /\ w.ds = E
      BY <1>1 DEF AllBut, Fields
    <2>. HIDE DEF w
    <2>4. {"cut"} \cap Core = {}
      BY DEF Core
    <2>5. Sound(w, b, fp)
      BY <2>2, <2>3, <2>4, SameReadersOk
    <2>6. Quiet(y, w)
      BY <2>3 DEF AllBut, Fields, Quiet
    <2>7. Sound(v, b, fp) /\ Quiet(w, v)
      <3>1. v = AdjustSeekRange(w, n, 0) /\ (0 = 0 \/ Has(CurQ(w, n), 0))
        OBVIOUS
      <3>. HIDE DEF v
      <3>. QED  BY <2>5, <3>1, AdjustSeekRangeOk
    <2>. HIDE DEF v
    <2>8. Sound(u, b, fp) /\ Quiet(v, u)
      BY <2>7, WakeupOk
    <2>. HIDE DEF u
    <2>. QED  BY <2>1, <2>6, <2>7, <2>8, QuietBoth
  <1>. QED  BY <1>2, <1>3

\* and so does that of all, or of those that have got no packet.
LEMMA MarkEofOk ==
  ASSUME NoSubtitles, NEW x, NEW b, NEW fp, Sound(x, b, fp), NEW all
  PROVE  Sound(MarkEof(x, all), b, fp) /\ Quiet(x, MarkEof(x, all))
  <1>. DEFINE N == Cardinality(Streams)
              u == EofUpto(x, all, N)
              P == {k \in Nat : k <= N => Sound(u[k], b, fp) /\ Quiet(x, u[k])}
  <1>1. N \in Nat /\ Streams = 1..N
    BY StreamsAre
  <1>2. u[0] = x /\ \A n \in 1..N : u[n] = EofStep(u[n - 1], n, all)
    BY <1>1, EofUptoIs
  <1>3. MarkEof(x, all) = u[N]
    BY DEF MarkEof, EofUpto, EofStep
  <1>. HIDE DEF u, N
  <1>4. 0 \in P
    BY <1>2 DEF Quiet
  <1>5. ASSUME NEW n \in Nat, n \in P PROVE n + 1 \in P
    <2>. SUFFICES ASSUME n + 1 <= N PROVE Sound(u[n + 1], b, fp) /\ Quiet(x, u[n + 1])
      OBVIOUS
    <2>1. n + 1 \in 1..N /\ (n + 1) - 1 = n /\ Sound(u[n], b, fp) /\ Quiet(x, u[n])
      BY <1>1, <1>5
    <2>2. u[n + 1] = EofStep(u[n], n + 1, all) /\ n + 1 \in Streams
      BY <1>1, <1>2, <2>1
    <2>3. Sound(u[n + 1], b, fp) /\ Quiet(u[n], u[n + 1])
      BY <2>1, <2>2, EofStepOk
    <2>. QED  BY <2>1, <2>3, QuietBoth
  <1>6. N \in P
    <2>. HIDE DEF P
    <2>. QED  BY <1>1, <1>4, <1>5, AllNumbers
  <1>. QED  BY <1>1, <1>3, <1>6

\* read_packet keeps the books, whatever it finds to be done.
LEMMA FillResultOk ==
  ASSUME NoSubtitles, NEW x, NEW b, NEW fp, Sound(x, b, fp), NEW eof,
         NEW r, r = FillResult(x, eof)
  PROVE  Sound(r, b, fp) /\ Quiet(x, r)
  <1>. DEFINE y == IF eof THEN MarkEof(x, TRUE) ELSE x
              w == [y EXCEPT !.woken = TRUE]
              z == IF eof /\ ~x.last_eof THEN Signal(w) ELSE y
              v == [z EXCEPT !.eof = eof, !.last_eof = eof]
  <1>1. r = IF x.seeking THEN x ELSE v
    BY DEF FillResult
  <1>2. Sound(y, b, fp) /\ Quiet(x, y)
    <2>1. CASE eof
      BY <2>1, MarkEofOk
    <2>2. CASE ~eof
      BY <2>2 DEF Quiet
    <2>. QED  BY <2>1, <2>2
  <1>. HIDE DEF y
  <1>3. DOMAIN y = Fields
    BY <1>2 DEF Sound, Nearly
  <1>4. Sound(w, b, fp) /\ Quiet(y, w)
    <2>1. AllBut({"woken"}, y, w) /\ {"woken"} \cap Core = {}
      BY <1>3 DEF AllBut, Fields, Core
    <2>. HIDE DEF w
    <2>2. Sound(w, b, fp)
      BY <1>2, <2>1, Aside
    <2>. QED  BY <2>1, <2>2 DEF Quiet, AllBut, Fields
  <1>. HIDE DEF w
  <1>5. Sound(z, b, fp) /\ Quiet(x, z)
    <2>1. Sound(Signal(w), b, fp) /\ Quiet(w, Signal(w))
      BY <1>4, SignalOk
    <2>. QED  BY <1>2, <1>4, <2>1, QuietBoth
  <1>. HIDE DEF z
  <1>6. DOMAIN z = Fields
    BY <1>5 DEF Sound, Nearly
  <1>7. Sound(v, b, fp) /\ Quiet(z, v)
    <2>1. AllBut({"eof", "last_eof"}, z, v) /\ {"eof", "last_eof"} \cap Core = {}
      BY <1>6 DEF AllBut, Fields, Core
    <2>. HIDE DEF v
    <2>2. Sound(v, b, fp)
      BY <1>5, <2>1, Aside
    <2>. QED  BY <2>1, <2>2 DEF Quiet, AllBut, Fields
  <1>. HIDE DEF v
  <1>8. Sound(v, b, fp) /\ Quiet(x, v)
    BY <1>5, <1>7, QuietBoth
  <1>. QED  BY <1>1, <1>8 DEF Quiet

-----------------------------------------------------------------------------
(* Pruning                                                                 *)

\* The next packet to be pruned up to is one of the queue.
LEMMA PruneTargetOk ==
  ASSUME NEW s, NEW q, QueueOk(s, q), q.pkts # <<>>, NEW r, r = PruneTarget(q)
  PROVE  /\ QueueOk(s, r) /\ SameIds(q, r) /\ r.last = q.last /\ r.npt # 0 /\ Has(r, r.npt)
  <1>. DEFINE L == Len(q.pkts)
              later == {p \in 2 .. L : /\ File[q.pkts[p].i].kf /\ q.pkts[p].kf # NoPts}
              first == Min(later)
              st == IF later = {} THEN NoPts ELSE q.pkts[first].kf
              pr == IF q.start # NoPts THEN q.start ELSE q.pruned
              to == IF later = {} THEN Last(q.pkts).i ELSE q.pkts[first - 1].i
  <1>1. /\ q \in Queues /\ q.pkts \in Seq(Entries) /\ L \in Nat \ {0}
        /\ \A p \in 1..L : q.pkts[p] \in Entries /\ q.pkts[p].i \in Packets /\ q.pkts[p].i # 0
                           /\ q.pkts[p].kf \in Int
        /\ q.start \in Int /\ q.pruned \in Int
    <2>1. q \in Queues
      BY DEF QueueOk
    <2>2. q.start \in Int /\ q.pruned \in Int
      BY <2>1 DEF Queues
    <2>. QED  BY <2>1, <2>2, QueueIs
  <1>2. CASE q.npt # 0
    BY <1>2 DEF PruneTarget, QueueOk, SameIds
  <1>3. CASE q.npt = 0
    <2>1. r = [q EXCEPT !.pruned = pr, !.start = st, !.npt = to]
      BY <1>3 DEF PruneTarget
    <2>2. st \in Int /\ (\E p \in 1..L : q.pkts[p].i = to) /\ to \in Numbers /\ to # 0
      <3>0. Packets \subseteq Numbers
        BY FileIs
      <3>1. CASE later = {}
        <4>1. st \in Int
          BY <3>1 DEF NoPts
        <4>2. to = q.pkts[L].i /\ L \in 1..L
          BY <1>1, <3>1 DEF Last
        <4>. HIDE DEF to, st
        <4>. QED  BY <1>1, <3>0, <4>1, <4>2
      <3>2. CASE later # {}
        <4>1. later \subseteq 1..L
          BY <1>1
        <4>2. first \in later
          <5>. HIDE DEF later
          <5>. QED  BY <1>1, <3>2, <4>1, Places
        <4>3. first \in 2..L
          BY <4>2
        <4>4. st = q.pkts[first].kf /\ to = q.pkts[first - 1].i
          BY <3>2
        <4>. HIDE DEF st, to, first
        <4>5. first \in 1..L /\ first - 1 \in 1..L
          BY <1>1, <4>3
        <4>. QED  BY <1>1, <3>0, <4>4, <4>5
      <3>. QED  BY <3>1, <3>2
    <2>3. pr \in Int
      BY <1>1
    <2>. HIDE DEF st, to, pr, later
    <2>4. /\ r \in Queues /\ r.pkts = q.pkts /\ r.last = q.last /\ r.npt = to
          /\ r.kf_latest = q.kf_latest
      BY <1>1, <2>1, <2>2, <2>3 DEF Queues
    <2>5. SameIds(q, r)
      BY <2>4 DEF SameIds
    <2>6. Has(q, to) /\ (q.kf_latest # 0 => Has(q, q.kf_latest))
      BY <2>2 DEF Has, QueueOk
    <2>7. QueueOk(s, r)
      BY <2>4, <2>5, <2>6, SameIdsOk
    <2>. QED  BY <2>2, <2>4, <2>5, <2>7 DEF QueueOk
  <1>. QED  BY <1>2, <1>3

\* A packet that is not among the first n stays.
LEMMA RemoveHeadsFrom ==
  ASSUME NEW s, NEW q, QueueOk(s, q), NEW n \in 0..Len(q.pkts), NEW i, Has(q, i), At(q, i) > n
  PROVE  Has(RemoveHeads(q, n), i) /\ From(RemoveHeads(q, n), i) = From(q, i)
  <1>. DEFINE r == RemoveHeads(q, n)
              a == At(q, i)
              L == Len(q.pkts)
  <1>1. /\ QueueOk(s, r) /\ Len(r.pkts) = L - n
        /\ \A p \in 1..L - n : r.pkts[p] = q.pkts[p + n]
    BY RemoveHeadsOk
  <1>2. a \in 1..L /\ q.pkts[a].i = i /\ i # 0 /\ L \in Nat
    BY AtIs, QueueIs
  <1>3. a > n /\ From(q, i) = L - a + 1
    BY <1>2 DEF From
  <1>. HIDE DEF r, a
  <1>4. a - n \in 1..L - n /\ (a - n) + n = a /\ n \in Nat
    BY <1>2, <1>3
  <1>5. r.pkts[a - n].i = i /\ a - n \in 1..Len(r.pkts)
    BY <1>1, <1>2, <1>4
  <1>6. Has(r, i)
    BY <1>5 DEF Has
  <1>7. \A p \in 1..Len(r.pkts) : r.pkts[p].i = i => p = At(r, i)
    BY <1>1, <1>6, AtIs
  <1>8. From(r, i) = (L - n) - (a - n) + 1
    BY <1>1, <1>2, <1>5, <1>7 DEF From
  <1>9. From(r, i) = From(q, i)
    BY <1>2, <1>3, <1>4, <1>8
  <1>. QED  BY <1>6, <1>9 DEF r

\* prune_old_packets takes a stream that has something to prune.
LEMMA EarliestIs ==
  ASSUME NEW x, NEW D, NEW T, Stored(x.ranges, D, T), PrunableStreams(x) # {}
  PROVE  EarliestStream(x) \in PrunableStreams(x)
  <1>. DEFINE N == Cardinality(Streams)
              S == PrunableStreams(x)
              hd(s) == Head(x.ranges[1].q[s].pkts)
              loose == {s \in S : hd(s).kf = NoPts \/ ~File[hd(s).i].kf}
              early == {s \in S : \A t \in S : hd(s).kf <= hd(t).kf}
              f == [s \in 1..N |-> IF s \in S THEN hd(s).kf ELSE 0]
  <1>1. N \in Nat /\ Streams = 1..N
    BY StreamsAre
  <1>2. S \subseteq 1..N /\ \A s \in S : x.ranges[1].q[s].pkts # <<>>
    BY <1>1 DEF PrunableStreams
  <1>3. \A s \in S : hd(s).kf \in Int
    <2>. SUFFICES ASSUME NEW s \in S PROVE hd(s).kf \in Int
      OBVIOUS
    <2>. DEFINE q == x.ranges[1].q[s]
    <2>1. 1 \in 1..Len(x.ranges) /\ s \in Streams
      BY <1>1, <1>2, StoredAre
    <2>2. QueueOk(s, q) /\ q.pkts # <<>>
      BY <1>2, <2>1, StoredAre
    <2>3. Len(q.pkts) > 0 /\ Len(q.pkts) \in Nat /\ \A p \in 1..Len(q.pkts) : q.pkts[p].kf \in Int
      BY <2>2, QueueIs
    <2>4. hd(s) = q.pkts[1] /\ 1 \in 1..Len(q.pkts)
      BY <2>3
    <2>. QED  BY <2>3, <2>4
  <1>4. EarliestStream(x) = Min(IF loose # {} THEN loose ELSE early)
    BY DEF EarliestStream
  <1>5. CASE loose # {}
    <2>1. loose \subseteq 1..N /\ loose \subseteq S
      BY <1>2
    <2>. HIDE DEF loose, N, S
    <2>2. Min(loose) \in loose
      BY <1>1, <1>5, <2>1, Places
    <2>. QED  BY <1>4, <1>5, <2>1, <2>2 DEF S
  <1>6. CASE loose = {}
    <2>1. f \in [1..N -> Int]
      BY <1>3
    <2>2. PICK s \in S : \A t \in S : f[s] <= f[t]
      <3>1. S \in SUBSET (1..N) /\ S # {}
        BY <1>2
      <3>. HIDE DEF f, S, N
      <3>. QED  BY <1>1, <2>1, <3>1, LeastOf
    <2>3. \A t \in S : f[t] = hd(t).kf
      BY <1>2
    <2>4. s \in early
      BY <2>2, <2>3
    <2>5. early \subseteq 1..N /\ early \subseteq S /\ early # {}
      BY <1>2, <2>4
    <2>. HIDE DEF early, loose, N, S, f
    <2>6. Min(early) \in early
      BY <1>1, <2>5, Places
    <2>. QED  BY <1>4, <1>6, <2>5, <2>6 DEF S
  <1>. QED  BY <1>5, <1>6

\* How many packets PruneOnce takes from the queue q of which head is read
Taken(q, one, head) ==
  Min({At(q, q.npt)} \cup (IF one /\ head # 0 THEN {At(q, head) - 1} ELSE {}))

\* What it takes lies before the reader, if it takes from the current range.
LEMMA TakenIs ==
  ASSUME NEW s, NEW q, QueueOk(s, q), q.npt # 0, NEW one, NEW head,
         one /\ head # 0 => Has(q, head)
  PROVE  /\ Taken(q, one, head) \in 0..Len(q.pkts)
         /\ one /\ head # 0 => At(q, head) > Taken(q, one, head)
  <1>. DEFINE L == Len(q.pkts)
              a == At(q, q.npt)
              h == At(q, head)
              n == Taken(q, one, head)
  <1>1. L \in Nat /\ a \in 1..L
    BY QueueIs, AtIs DEF QueueOk
  <1>2. CASE ~(one /\ head # 0)
    <2>1. n = Min({a} \cup {})
      BY <1>2 DEF Taken
    <2>2. {a} \cup {} = {a, a}
      OBVIOUS
    <2>. HIDE DEF a, n
    <2>3. Min({a, a}) \in {a, a}
      BY <1>1, BoundedPair, Extremes
    <2>4. n = a
      BY <2>1, <2>2, <2>3
    <2>. QED  BY <1>1, <1>2, <2>4 DEF n
  <1>3. CASE one /\ head # 0
    <2>1. n = Min({a} \cup {h - 1})
      BY <1>3 DEF Taken
    <2>2. h \in 1..L
      BY <1>3, AtIs
    <2>3. {a} \cup {h - 1} = {a, h - 1}
      OBVIOUS
    <2>. HIDE DEF a, h, n
    <2>4. a \in Int /\ h - 1 \in Int
      BY <1>1, <2>2
    <2>5. /\ Min({a, h - 1}) \in {a, h - 1} /\ \A t \in {a, h - 1} : Min({a, h - 1}) <= t
      BY <2>4, BoundedPair, Extremes
    <2>6. n \in {a, h - 1} /\ n <= h - 1
      BY <2>1, <2>3, <2>5
    <2>7. n \in 0..L /\ h > n
      BY <1>1, <2>2, <2>6
    <2>. QED  BY <2>7 DEF n, h
  <1>. QED  BY <1>2, <1>3

\* Pruning once subtracts what it frees, and takes away no packet that
\* something points to.
LEMMA PruneOnceOk ==
  ASSUME NEW x, NEW b, NEW fp, Sound(x, b, fp), PrunableStreams(x) # {}, NEW z, z = PruneOnce(x)
  PROVE  Sound(z, b, fp) /\ AllBut({"ranges", "total"}, x, z)
  <1>. DEFINE R == x.ranges
              D == x.ds
              s == EarliestStream(x)
              q == PruneTarget(R[1].q[s])
              head == D[s].head
              one == Len(R) = 1
              n == Taken(q, one, head)
              g == RemoveHeads(q, n)
              Q == [R[1].q EXCEPT ![s] = g]
              r == [R[1] EXCEPT !.q = Q]
              r1 == UpdateSeekRange(x, r)
              R2 == [R EXCEPT ![1] = r1]
              y == [x EXCEPT !.ranges = R2, !.total = @ - n]
  <1>1. /\ DOMAIN x = Fields /\ ~x.failed /\ Stored(R, D, x.total)
        /\ Served(R, D, x.fw_bytes) /\ Follows(R, D, x.seeking \/ b, fp) /\ Len(R) <= MaxRanges
    BY DEF Sound, Nearly, Books
  <1>2. z = IF Len(R) > 1 /\ r1.start = NoPts THEN FreeEmptyRanges(y) ELSE y
    <2>1. [x EXCEPT !.ranges[1] = r1, !.total = @ - n] = y
      BY <1>1 DEF Fields
    <2>2. r1 = UpdateSeekRange(x, [R[1] EXCEPT !.q[s] = g])
      OBVIOUS
    <2>3. z = IF Len(R) > 1 /\ r1.start = NoPts
              THEN FreeEmptyRanges([x EXCEPT !.ranges[1] = r1, !.total = @ - n])
              ELSE [x EXCEPT !.ranges[1] = r1, !.total = @ - n]
      BY DEF PruneOnce, Taken
    <2>. HIDE DEF y, r1, n
    <2>. QED  BY <2>1, <2>3
  <1>3. s \in Streams /\ R[1].q[s].pkts # <<>>
    <2>1. s \in PrunableStreams(x)
      BY <1>1, EarliestIs
    <2>. HIDE DEF s
    <2>. QED  BY <2>1 DEF PrunableStreams
  <1>. HIDE DEF s
  <1>4. /\ Len(R) \in Nat \ {0} /\ 1 \in 1..Len(R) /\ Len(R) \in 1..Len(R) /\ Last(R) = R[Len(R)]
        /\ RangeOk(R[1]) /\ R[1] \in Ranges /\ R[1].q \in [Streams -> Queues]
        /\ \A t \in Streams : QueueOk(t, R[1].q[t]) /\ QueueOk(t, Last(R).q[t])
        /\ \A t \in Streams : ~D[t].selected => R[1].q[t].pkts = <<>>
        /\ x.total \in Nat
    <2>1. /\ Len(R) \in Nat \ {0} /\ 1 \in 1..Len(R) /\ Len(R) \in 1..Len(R) /\ Last(R) = R[Len(R)]
          /\ RangeOk(R[1]) /\ R[1] \in Ranges /\ x.total \in Nat
          /\ \A t \in Streams : QueueOk(t, R[1].q[t]) /\ QueueOk(t, Last(R).q[t])
      BY <1>1, StoredAre
    <2>2. R[1].q \in [Streams -> Queues]
      BY <2>1 DEF Ranges
    <2>3. \A t \in Streams : ~D[t].selected => R[1].q[t].pkts = <<>>
      BY <1>1, <2>1 DEF Stored
    <2>. QED  BY <2>1, <2>2, <2>3
  <1>5. /\ QueueOk(s, q) /\ SameIds(R[1].q[s], q) /\ q.last = R[1].q[s].last /\ q.npt # 0
    <2>. DEFINE o == R[1].q[s]
    <2>1. QueueOk(s, o) /\ o.pkts # <<>> /\ q = PruneTarget(o)
      BY <1>3, <1>4
    <2>. HIDE DEF o, q
    <2>2. /\ QueueOk(s, q) /\ SameIds(o, q) /\ q.last = o.last /\ q.npt # 0
      BY <2>1, PruneTargetOk
    <2>. QED  BY <2>2 DEF o
  <1>. HIDE DEF q
  <1>6. one => /\ Last(R) = R[1] /\ ReaderOk(R[1].q[s], D[s])
               /\ (head # 0 => Has(q, head)) /\ From(q, head) = D[s].fw
    <2>. SUFFICES ASSUME one
                  PROVE  /\ Last(R) = R[1] /\ ReaderOk(R[1].q[s], D[s])
                         /\ (head # 0 => Has(q, head)) /\ From(q, head) = D[s].fw
      OBVIOUS
    <2>1. Last(R) = R[1] /\ ReaderOk(R[1].q[s], D[s])
      BY <1>1, <1>3, <1>4 DEF Served
    <2>2. (head # 0 => Has(R[1].q[s], head)) /\ D[s].fw = From(R[1].q[s], head)
      BY <2>1 DEF ReaderOk
    <2>. HIDE DEF head
    <2>3. /\ Has(q, head) <=> Has(R[1].q[s], head)
          /\ head = 0 \/ Has(R[1].q[s], head) => From(q, head) = From(R[1].q[s], head)
      BY <1>3, <1>4, <1>5, SameIdsAt
    <2>. QED  BY <2>1, <2>2, <2>3
  <1>7. n \in 0..Len(q.pkts) /\ (one /\ head # 0 => At(q, head) > n)
    <2>. HIDE DEF one, head
    <2>. QED  BY <1>5, <1>6, TakenIs
  <1>. HIDE DEF n
  <1>8. /\ QueueOk(s, g) /\ Len(g.pkts) = Len(q.pkts) - n /\ g.last = q.last
        /\ Len(q.pkts) \in Nat /\ n \in Nat /\ Len(q.pkts) = Len(R[1].q[s].pkts)
    <2>1. QueueOk(s, g) /\ Len(g.pkts) = Len(q.pkts) - n /\ g.last = q.last
      BY <1>5, <1>7, RemoveHeadsOk
    <2>2. Len(q.pkts) \in Nat
      BY <1>5, QueueIs
    <2>3. n \in Nat
      BY <1>7, <2>2
    <2>4. Len(q.pkts) = Len(R[1].q[s].pkts)
      BY <1>5 DEF SameIds
    <2>. QED  BY <2>1, <2>2, <2>3, <2>4
  <1>9. one => ReaderOk(g, D[s])
    <2>. SUFFICES ASSUME one PROVE (head # 0 => Has(g, head)) /\ D[s].fw = From(g, head)
      BY DEF ReaderOk
    <2>1. CASE head = 0
      BY <1>6, <2>1 DEF From
    <2>2. CASE head # 0
      <3>1. Has(q, head) /\ At(q, head) > n
        BY <1>6, <1>7, <2>2
      <3>2. Has(g, head) /\ From(g, head) = From(q, head)
        <4>. HIDE DEF head
        <4>. QED  BY <1>5, <1>7, <3>1, RemoveHeadsFrom
      <3>. QED  BY <1>6, <3>2
    <2>. QED  BY <2>1, <2>2
  <1>. HIDE DEF g
  <1>10. Q \in [Streams -> Queues] /\ \A t \in Streams : Q[t] = IF t = s THEN g ELSE R[1].q[t]
    BY <1>3, <1>4, <1>8 DEF QueueOk
  <1>. HIDE DEF Q
  <1>11. r \in Ranges /\ r.q = Q
    BY <1>4, <1>10 DEF Ranges
  <1>12. RangeOk(r)
    BY <1>4, <1>8, <1>10, <1>11 DEF RangeOk
  <1>. HIDE DEF r
  <1>13. /\ RangeOk(r1) /\ r1 \in Ranges /\ r1.q = Q /\ Held(r1) = Held(r)
    BY <1>11, <1>12, UpdateSeekRangeOk
  <1>. HIDE DEF r1
  <1>14. Held(r1) = Held(R[1]) - n /\ Held(R[1]) \in Nat
    <2>1. \A t \in Streams : t # s => Len(r1.q[t].pkts) = Len(R[1].q[t].pkts)
      BY <1>10, <1>13
    <2>2. Held(r1) = Held(R[1]) - Len(R[1].q[s].pkts) + Len(r1.q[s].pkts)
      BY <1>3, <1>4, <1>13, <2>1, HeldChanged
    <2>3. Held(R[1]) \in Nat
      BY <1>4, HeldIs
    <2>4. Len(r1.q[s].pkts) = Len(R[1].q[s].pkts) - n /\ Len(R[1].q[s].pkts) \in Nat
      BY <1>3, <1>8, <1>10, <1>13
    <2>. DEFINE a == Held(R[1])
                l == Len(R[1].q[s].pkts)
    <2>. HIDE DEF a, l
    <2>5. a \in Nat /\ l \in Nat /\ Held(r1) = a - l + (l - n)
      BY <2>2, <2>3, <2>4 DEF a, l
    <2>6. Held(r1) = a - n
      BY <1>8, <2>5
    <2>. QED  BY <2>3, <2>6 DEF a
  <1>15. /\ Stored(R2, D, x.total - n) /\ Len(R2) = Len(R)
         /\ Last(R2) = IF one THEN r1 ELSE Last(R)
    <2>1. \A t \in Streams : ~D[t].selected => r1.q[t].pkts = <<>>
      <3>. SUFFICES ASSUME NEW t \in Streams, ~D[t].selected PROVE r1.q[t].pkts = <<>>
        OBVIOUS
      <3>1. R[1].q[t].pkts = <<>>
        BY <1>4
      <3>. QED  BY <1>3, <1>10, <1>13, <3>1
    <2>. DEFINE k == 1
    <2>2. k \in 1..Len(R) /\ (k = Len(R) <=> one)
      BY <1>4
    <2>. HIDE DEF k
    <2>3. /\ Stored([R EXCEPT ![k] = r1], D, x.total - Held(R[k]) + Held(r1))
          /\ Len([R EXCEPT ![k] = r1]) = Len(R)
          /\ Last([R EXCEPT ![k] = r1]) = (IF k = Len(R) THEN r1 ELSE Last(R))
      BY <1>1, <1>13, <2>1, <2>2, StoredRange
    <2>4. x.total - Held(R[k]) + Held(r1) = x.total - n
      <3>. DEFINE a == Held(R[k])
      <3>1. a \in Nat /\ Held(r1) = a - n
        BY <1>14 DEF k
      <3>. HIDE DEF a
      <3>2. x.total - a + (a - n) = x.total - n
        BY <1>4, <1>8, <3>1
      <3>. QED  BY <3>1, <3>2 DEF a
    <2>. HIDE DEF one
    <2>. QED  BY <2>2, <2>3, <2>4 DEF k
  <1>. HIDE DEF R2
  <1>16. /\ AllBut({"ranges", "total"}, x, y) /\ y.ranges = R2 /\ y.total = x.total - n
    BY <1>1 DEF AllBut, Fields
  <1>. HIDE DEF y
  <1>17. /\ y.ds = D /\ y.fw_bytes = x.fw_bytes /\ y.failed = x.failed /\ y.seeking = x.seeking
         /\ DOMAIN y = Fields
    BY <1>16 DEF AllBut, Fields
  <1>18. Served(R2, D, x.fw_bytes)
    <2>1. ASSUME NEW t \in Streams PROVE ReaderOk(Last(R2).q[t], D[t])
      <3>0. ReaderOk(Last(R).q[t], D[t])
        BY <1>1 DEF Served
      <3>1. CASE ~one
        BY <1>15, <3>0, <3>1
      <3>2. CASE one /\ t = s
        BY <1>3, <1>9, <1>10, <1>13, <1>15, <3>2
      <3>3. CASE one /\ t # s
        <4>1. Last(R2).q[t] = Last(R).q[t]
          BY <1>6, <1>10, <1>13, <1>15, <3>3
        <4>. QED  BY <3>0, <4>1
      <3>. QED  BY <3>1, <3>2, <3>3
    <2>. QED  BY <1>1, <2>1 DEF Served
  <1>19. Follows(R2, D, x.seeking \/ b, fp)
    <2>1. ASSUME NEW t \in Streams, Last(R2).q[t] # Last(R).q[t]
          PROVE  /\ t = s /\ Last(R).q[t].pkts # <<>> /\ Last(R2).q[t].last = Last(R).q[t].last
      <3>1. one
        BY <1>15, <2>1
      <3>2. t = s
        BY <1>6, <1>10, <1>13, <1>15, <2>1, <3>1
      <3>3. Last(R2).q[t].last = Last(R).q[t].last
        BY <1>3, <1>5, <1>6, <1>8, <1>10, <1>13, <1>15, <3>1, <3>2
      <3>. QED  BY <1>3, <1>6, <3>1, <3>2, <3>3
    <2>2. ASSUME NEW t \in Streams
          PROVE  \/ D[t].refreshing \/ Last(R2).q[t].pkts = <<>>
                 \/ ~(x.seeking \/ b) /\ Last(R2).q[t].last < fp
      <3>1. \/ D[t].refreshing \/ Last(R).q[t].pkts = <<>>
            \/ ~(x.seeking \/ b) /\ Last(R).q[t].last < fp
        BY <1>1 DEF Follows
      <3>. QED  BY <2>1, <3>1
    <2>. QED  BY <2>2 DEF Follows
  <1>20. Nearly(y, b, fp) /\ Sound(y, b, fp)
    BY <1>1, <1>15, <1>16, <1>17, <1>18, <1>19 DEF Sound, Nearly, Books
  <1>21. CASE Len(R) > 1 /\ r1.start = NoPts
    <2>1. Len(y.ranges) <= MaxRanges + 1
      BY <1>1, <1>4, <1>15, <1>16, DemuxAssumption
    <2>2. z = FreeEmptyRanges(y)
      BY <1>2, <1>21
    <2>3. Sound(z, b, fp) /\ AllBut({"ranges", "total"}, y, z)
      BY <1>20, <2>1, <2>2, FreeOk
    <2>. QED  BY <1>16, <2>3 DEF AllBut
  <1>22. CASE ~(Len(R) > 1 /\ r1.start = NoPts)
    BY <1>2, <1>16, <1>20, <1>22
  <1>. QED  BY <1>21, <1>22

\* The loop of prune_old_packets,
PruneStep(y) ==
  IF y.total - y.fw_bytes <= MaxBack THEN y
  ELSE IF PrunableStreams(y) = {} THEN [y EXCEPT !.bare = TRUE]
  ELSE PruneOnce(y)

\* It keeps the books each time,
LEMMA PruneStepOk ==
  ASSUME NEW x, NEW b, NEW fp, Sound(x, b, fp), NEW z, z = PruneStep(x)
  PROVE  Sound(z, b, fp) /\ AllBut({"ranges", "total", "bare"}, x, z)
  <1>0. DOMAIN x = Fields
    BY DEF Sound, Nearly
  <1>1. CASE x.total - x.fw_bytes <= MaxBack
    BY <1>0, <1>1 DEF PruneStep, AllBut
  <1>2. CASE ~(x.total - x.fw_bytes <= MaxBack) /\ PrunableStreams(x) = {}
    <2>1. z = [x EXCEPT !.bare = TRUE]
      BY <1>2 DEF PruneStep
    <2>2. AllBut({"bare"}, x, z) /\ {"bare"} \cap Core = {}
      BY <1>0, <2>1 DEF AllBut, Fields, Core
    <2>3. Sound(z, b, fp)
      BY <2>2, Aside
    <2>. QED  BY <2>2, <2>3 DEF AllBut
  <1>3. CASE ~(x.total - x.fw_bytes <= MaxBack) /\ PrunableStreams(x) # {}
    <2>1. z = PruneOnce(x)
      BY <1>3 DEF PruneStep
    <2>2. Sound(z, b, fp) /\ AllBut({"ranges", "total"}, x, z)
      BY <1>3, <2>1, PruneOnceOk
    <2>. QED  BY <2>2 DEF AllBut
  <1>. QED  BY <1>1, <1>2, <1>3

\* N times,
PruneUpto(x, N) == CHOOSE g : g = [n \in 0 .. N |-> IF n = 0 THEN x ELSE PruneStep(g[n - 1])]

\* one after the other.
LEMMA PruneUptoIs ==
  ASSUME NEW x, NEW N \in Nat
  PROVE  /\ PruneUpto(x, N)[0] = x
         /\ \A n \in 1..N : PruneUpto(x, N)[n] = PruneStep(PruneUpto(x, N)[n - 1])
  <1>. DEFINE Is(g, k) == g = [n \in 0 .. k |-> IF n = 0 THEN x ELSE PruneStep(g[n - 1])]
              P == {k \in Nat : \E g : Is(g, k)}
  <1>1. 0 \in P
    <2>. DEFINE g == [n \in 0..0 |-> x]
    <2>1. Is(g, 0)
      <3>1. \A n \in 0..0 : n = 0
        OBVIOUS
      <3>2. g = [n \in 0..0 |-> IF n = 0 THEN x ELSE PruneStep(g[n - 1])]
        BY <3>1
      <3>. QED  BY <3>2
    <2>. QED  BY <2>1
  <1>2. ASSUME NEW k \in Nat, k \in P PROVE k + 1 \in P
    <2>1. PICK g : Is(g, k)
      BY <1>2
    <2>. DEFINE h == [n \in 0..k + 1 |-> IF n = k + 1 THEN PruneStep(g[k]) ELSE g[n]]
    <2>2. ASSUME NEW n \in 0..k + 1
          PROVE  h[n] = IF n = 0 THEN x ELSE PruneStep(h[n - 1])
      <3>1. CASE n = k + 1
        <4>1. n - 1 = k /\ k \in 0..k + 1 /\ k # k + 1 /\ n # 0
          BY <3>1
        <4>2. h[n - 1] = g[k] /\ h[n] = PruneStep(g[k])
          BY <3>1, <4>1
        <4>. QED  BY <3>1, <4>1, <4>2
      <3>2. CASE n # k + 1
        <4>1. n \in 0..k /\ h[n] = g[n]
          BY <3>2
        <4>2. g[n] = IF n = 0 THEN x ELSE PruneStep(g[n - 1])
          <5>. DEFINE rest(m) == IF m = 0 THEN x ELSE PruneStep(g[m - 1])
          <5>1. g = [m \in 0 .. k |-> rest(m)]
            BY <2>1
          <5>. HIDE DEF rest
          <5>2. g[n] = rest(n)
            BY <4>1, <5>1
          <5>. QED  BY <5>2 DEF rest
        <4>3. CASE n = 0
          BY <4>1, <4>2, <4>3
        <4>4. CASE n # 0
          <5>1. n - 1 \in 0..k + 1 /\ n - 1 # k + 1
            BY <4>1, <4>4
          <5>2. h[n - 1] = g[n - 1]
            BY <5>1
          <5>. QED  BY <4>1, <4>2, <4>4, <5>2
        <4>. QED  BY <4>3, <4>4
      <3>. QED  BY <3>1, <3>2
    <2>3. Is(h, k + 1)
      <3>1. h = [n \in 0..k + 1 |-> h[n]]
        OBVIOUS
      <3>. HIDE DEF h
      <3>2. h = [n \in 0..k + 1 |-> IF n = 0 THEN x ELSE PruneStep(h[n - 1])]
        BY <2>2, <3>1
      <3>. QED  BY <3>2
    <2>. HIDE DEF Is
    <2>. QED  BY <2>3
  <1>3. N \in P
    <2>. HIDE DEF P
    <2>. QED  BY <1>1, <1>2, AllNumbers
  <1>. DEFINE u == PruneUpto(x, N)
              rest(m) == IF m = 0 THEN x ELSE PruneStep(u[m - 1])
  <1>4. Is(u, N)
    BY <1>3 DEF PruneUpto
  <1>. HIDE DEF u
  <1>5. u = [m \in 0 .. N |-> rest(m)]
    BY <1>4
  <1>6. \A m \in 0..N : u[m] = rest(m)
    <2>. HIDE DEF rest
    <2>. QED  BY <1>5
  <1>7. \A n \in 1..N : n \in 0..N /\ n # 0
    OBVIOUS
  <1>. QED  BY <1>6, <1>7 DEF u

\* and so does prune_old_packets.
LEMMA PruneOldPacketsOk ==
  ASSUME NEW x, NEW b, NEW fp, Sound(x, b, fp), NEW z, z = PruneOldPackets(x)
  PROVE  Sound(z, b, fp) /\ AllBut({"ranges", "total", "bare"}, x, z)
  <1>. DEFINE N == x.total
              u == PruneUpto(x, N)
              P == {k \in Nat : k <= N => Sound(u[k], b, fp) /\ AllBut({"ranges", "total", "bare"}, x, u[k])}
  <1>1. N \in Nat /\ DOMAIN x = Fields
    BY StoredAre DEF Sound, Nearly, Books
  <1>2. u[0] = x /\ \A n \in 1..N : u[n] = PruneStep(u[n - 1])
    BY <1>1, PruneUptoIs
  <1>3. z = u[N]
    BY DEF PruneOldPackets, PruneUpto, PruneStep
  <1>. HIDE DEF u, N
  <1>4. 0 \in P
    BY <1>1, <1>2 DEF AllBut
  <1>5. ASSUME NEW n \in Nat, n \in P PROVE n + 1 \in P
    <2>. SUFFICES ASSUME n + 1 <= N
                  PROVE  Sound(u[n + 1], b, fp) /\ AllBut({"ranges", "total", "bare"}, x, u[n + 1])
      OBVIOUS
    <2>1. /\ n + 1 \in 1..N /\ (n + 1) - 1 = n /\ Sound(u[n], b, fp)
          /\ AllBut({"ranges", "total", "bare"}, x, u[n])
      BY <1>1, <1>5
    <2>2. u[n + 1] = PruneStep(u[n])
      BY <1>2, <2>1
    <2>3. Sound(u[n + 1], b, fp) /\ AllBut({"ranges", "total", "bare"}, u[n], u[n + 1])
      BY <2>1, <2>2, PruneStepOk
    <2>. QED  BY <2>1, <2>3 DEF AllBut
  <1>6. N \in P
    <2>. HIDE DEF P
    <2>. QED  BY <1>1, <1>4, <1>5, AllNumbers
  <1>. QED  BY <1>1, <1>3, <1>6
-----------------------------------------------------------------------------
(* Reading                                                                 *)

\* The packet after i, or 0
After(q, i) == IF At(q, i) = Len(q.pkts) THEN 0 ELSE q.pkts[At(q, i) + 1].i

\* The packet behind one of a queue has one less before it.
LEMMA AfterIs ==
  ASSUME NEW s, NEW q, QueueOk(s, q), NEW i, Has(q, i)
  PROVE  /\ After(q, i) \in Numbers /\ (After(q, i) # 0 => Has(q, After(q, i)))
         /\ From(q, i) \in Nat \ {0} /\ From(q, After(q, i)) = From(q, i) - 1
  <1>. DEFINE L == Len(q.pkts)
              a == At(q, i)
              j == After(q, i)
  <1>1. L \in Nat /\ a \in 1..L /\ i # 0
    BY QueueIs, AtIs
  <1>2. From(q, i) = L - a + 1
    BY <1>1 DEF From
  <1>3. j = IF a = L THEN 0 ELSE q.pkts[a + 1].i
    BY DEF After
  <1>. HIDE DEF a, j
  <1>4. From(q, i) \in Nat \ {0}
    BY <1>1, <1>2
  <1>5. CASE a = L
    <2>1. j = 0 /\ From(q, j) = 0 /\ From(q, i) = 1
      BY <1>1, <1>2, <1>3, <1>5 DEF From
    <2>. QED  BY <2>1, FileIs DEF j
  <1>6. CASE a # L
    <2>1. a + 1 \in 1..L /\ j = q.pkts[a + 1].i
      BY <1>1, <1>3, <1>6
    <2>2. Has(q, j)
      BY <2>1 DEF Has
    <2>3. \A p \in 1..L : q.pkts[p].i = j => p = At(q, j)
      BY <2>2, AtIs
    <2>4. j # 0 /\ j \in Packets
      BY <2>2, AtIs
    <2>5. From(q, j) = L - (a + 1) + 1
      BY <2>1, <2>3, <2>4 DEF From
    <2>6. From(q, j) = From(q, i) - 1
      BY <1>1, <1>2, <2>5
    <2>7. j \in Numbers
      BY <2>4, FileIs
    <2>. QED  BY <1>4, <2>2, <2>6, <2>7 DEF j
  <1>. QED  BY <1>5, <1>6

\* dequeue_packet moves the reader by one packet, and counts it.
LEMMA DequeueOk ==
  ASSUME NEW x, NEW b, NEW fp, Sound(x, b, fp), NEW s \in Streams, x.ds[s].head # 0,
         NEW z, z = Dequeue(x, s)
  PROVE  Sound(z, b, fp) /\ Quiet(x, z)
  <1>. DEFINE R == x.ranges
              D == x.ds
              d == D[s]
              q == CurQ(x, s)
              dd == [d EXCEPT !.head = After(q, d.head), !.fw = @ - 1, !.last_ret = d.head,
                              !.base_ts = File[d.head].dts]
              E == [D EXCEPT ![s] = dd]
              y == [x EXCEPT !.ds = E, !.fw_bytes = @ - 1]
  <1>1. /\ DOMAIN x = Fields /\ ~x.failed /\ Stored(R, D, x.total)
        /\ Served(R, D, x.fw_bytes) /\ Follows(R, D, x.seeking \/ b, fp) /\ Len(R) <= MaxRanges
        /\ D \in [Streams -> Readers]
    BY DEF Sound, Nearly, Books, Stored
  <1>2. z = PruneOldPackets(y)
    <2>1. z = PruneOldPackets([x EXCEPT !.ds[s] = dd, !.fw_bytes = @ - 1])
      BY DEF Dequeue, After
    <2>. QED  BY <2>1
  <1>3. d \in Readers /\ QueueOk(s, q) /\ q = Last(R).q[s] /\ ReaderOk(q, d)
    <2>1. QueueOk(s, Last(R).q[s]) /\ d \in Readers
      BY <1>1, StoredAre
    <2>2. q = Last(R).q[s]
      BY DEF CurQ, Cur
    <2>. QED  BY <1>1, <2>1, <2>2 DEF Served
  <1>4. Has(q, d.head) /\ d.fw = From(q, d.head)
    BY <1>3 DEF ReaderOk
  <1>. DEFINE h == d.head
              j == After(q, h)
  <1>. HIDE DEF h
  <1>5. h \in Packets /\ File[h].dts \in Int
    BY <1>3, <1>4, AtIs, FileIs DEF h
  <1>6. /\ j \in Numbers /\ (j # 0 => Has(q, j))
        /\ From(q, h) \in Nat \ {0} /\ From(q, j) = From(q, h) - 1
    BY <1>3, <1>4, AfterIs DEF h
  <1>7. dd = [d EXCEPT !.head = j, !.fw = d.fw - 1, !.last_ret = h, !.base_ts = File[h].dts]
    BY DEF h
  <1>8. d.fw - 1 \in Nat /\ d.fw - 1 = From(q, j) /\ d.fw \in Nat \ {0}
    BY <1>4, <1>6 DEF h
  <1>8a. Packets \subseteq Numbers
    BY FileIs
  <1>. HIDE DEF j, dd, d, q
  <1>9. /\ dd \in Readers /\ dd.head = j /\ dd.fw = d.fw - 1
        /\ (dd.selected <=> d.selected) /\ (dd.refreshing <=> d.refreshing)
    BY <1>3, <1>5, <1>6, <1>7, <1>8, <1>8a DEF Readers
  <1>10. ReaderOk(q, dd)
    BY <1>6, <1>8, <1>9 DEF ReaderOk
  <1>11. E \in [Streams -> Readers] /\ \A t \in Streams : E[t] = IF t = s THEN dd ELSE D[t]
    BY <1>1, <1>9
  <1>. HIDE DEF E
  <1>12. FwBytes(E) = FwBytes(D) - 1
    <2>1. FwBytes(E) = FwBytes(D) - D[s].fw + E[s].fw
      BY <1>1, <1>11, FwChanged
    <2>2. FwBytes(D) \in Nat /\ D[s].fw \in Nat
      BY <1>1, FwIs
    <2>3. E[s].fw = D[s].fw - 1
      BY <1>9, <1>11 DEF d
    <2>. DEFINE a == FwBytes(D)
                f == D[s].fw
    <2>. HIDE DEF a, f
    <2>4. a \in Nat /\ f \in Nat /\ FwBytes(E) = a - f + (f - 1)
      BY <2>1, <2>2, <2>3 DEF a, f
    <2>5. FwBytes(E) = a - 1
      BY <2>4
    <2>. QED  BY <2>5 DEF a
  <1>13. \A t \in Streams : /\ (E[t].selected <=> D[t].selected)
                            /\ (E[t].refreshing <=> D[t].refreshing)
    BY <1>9, <1>11 DEF d
  <1>14. Stored(R, E, x.total)
    BY <1>1, <1>11, <1>13, StoredReaders
  <1>15. Served(R, E, x.fw_bytes - 1)
    BY <1>1, <1>3, <1>10, <1>11, <1>12 DEF Served
  <1>16. Follows(R, E, x.seeking \/ b, fp)
    BY <1>1, <1>13 DEF Follows
  <1>17. AllBut({"ds", "fw_bytes"}, x, y) /\ y.ds = E /\ y.fw_bytes = x.fw_bytes - 1
    BY <1>1 DEF AllBut, Fields
  <1>. HIDE DEF y
  <1>18. /\ y.ranges = R /\ y.total = x.total /\ y.failed = x.failed /\ y.seeking = x.seeking
         /\ DOMAIN y = Fields
    BY <1>17 DEF AllBut, Fields
  <1>19. Sound(y, b, fp)
    BY <1>1, <1>14, <1>15, <1>16, <1>17, <1>18 DEF Sound, Nearly, Books
  <1>20. Sound(z, b, fp) /\ AllBut({"ranges", "total", "bare"}, y, z)
    BY <1>2, <1>19, PruneOldPacketsOk
  <1>. QED  BY <1>17, <1>20 DEF Quiet, AllBut, Fields

-----------------------------------------------------------------------------
(* Seeking                                                                 *)

\* find_seek_target gives a packet of the queue, or none.
LEMMA FindSeekTargetIs ==
  ASSUME NEW s, NEW q, QueueOk(s, q), NEW pts, NEW flags
  PROVE  FindSeekTarget(q, pts, flags) # 0 => Has(q, FindSeekTarget(q, pts, flags))
  <1>. DEFINE kfs == {p \in DOMAIN q.pkts : File[q.pkts[p].i].kf /\ q.pkts[p].kf # NoPts}
              before == {p \in kfs : q.pkts[p].kf <= pts}
              after == {p \in kfs : q.pkts[p].kf >= pts}
              best == IF "forward" \in flags
                      THEN IF after = {} THEN 0 ELSE Min(after)
                      ELSE IF before # {} THEN Max(before)
                      ELSE IF kfs = {} THEN 0 ELSE Min(kfs)
              L == Len(q.pkts)
  <1>1. L \in Nat /\ DOMAIN q.pkts = 1..L
    BY QueueIs
  <1>2. FindSeekTarget(q, pts, flags) = IF best = 0 THEN 0 ELSE q.pkts[best].i
    BY DEF FindSeekTarget
  <1>3. kfs \subseteq 1..L /\ before \subseteq kfs /\ after \subseteq kfs
    BY <1>1
  <1>. HIDE DEF kfs, before, after, L
  <1>4. best \in {0} \cup 1..L
    <2>1. after # {} => Min(after) \in 1..L
      BY <1>1, <1>3, Places
    <2>2. before # {} => Max(before) \in 1..L
      BY <1>1, <1>3, Places
    <2>3. kfs # {} => Min(kfs) \in 1..L
      BY <1>1, <1>3, Places
    <2>. QED  BY <2>1, <2>2, <2>3
  <1>. HIDE DEF best
  <1>. QED  BY <1>2, <1>4 DEF Has, L

\* Another range becomes the last one.
LEMMA StoredMoved ==
  ASSUME NEW R, NEW D, NEW T, Stored(R, D, T), NEW n \in 1..Len(R), n # Len(R)
  PROVE  /\ Stored(Append(RemoveAt(R, n), R[n]), D, T)
         /\ Len(Append(RemoveAt(R, n), R[n])) = Len(R)
         /\ Last(Append(RemoveAt(R, n), R[n])) = R[n]
  <1>. DEFINE A == RemoveAt(R, n)
              B == Append(A, R[n])
  <1>1. /\ Stored(A, D, T - Held(R[n])) /\ Len(A) = Len(R) - 1
    BY StoredRemoved
  <1>2. /\ R \in Seq(Ranges) /\ Len(R) \in Nat \ {0} /\ R[n] \in Ranges /\ RangeOk(R[n])
        /\ T \in Nat /\ D \in [Streams -> Readers]
    BY StoredAre
  <1>3. A \in Seq(Ranges) /\ Bytes(A) = T - Held(R[n])
    BY <1>1, StoredAre
  <1>. HIDE DEF A
  <1>4. /\ B \in Seq(Ranges) /\ Len(B) = Len(R) /\ B[Len(R)] = R[n]
        /\ \A m \in 1..Len(R) - 1 : B[m] = A[m]
    <2>1. /\ B \in Seq(Ranges) /\ Len(B) = Len(A) + 1 /\ B[Len(A) + 1] = R[n]
          /\ \A m \in 1..Len(A) : B[m] = A[m]
      BY <1>2, <1>3, AppendProperties
    <2>2. Len(A) + 1 = Len(R)
      BY <1>1, <1>2
    <2>. QED  BY <1>1, <2>1, <2>2
  <1>5. Bytes(B) = T
    <2>1. Bytes(B) = Bytes(A) + Held(R[n])
      BY <1>2, <1>3, BytesAppended
    <2>2. Held(R[n]) \in Nat
      BY <1>2, HeldIs
    <2>. DEFINE h == Held(R[n])
    <2>. HIDE DEF h, B
    <2>3. h \in Nat /\ Bytes(B) = (T - h) + h
      BY <1>3, <2>1, <2>2 DEF h
    <2>. QED  BY <1>2, <2>3
  <1>. HIDE DEF B
  <1>6. B # <<>> /\ Last(B) = R[n]
    BY <1>2, <1>4, EmptySeq DEF Last
  <1>7. \A m \in 1..Len(B) : m = Len(R) \/ m \in 1..Len(A)
    BY <1>1, <1>2, <1>4
  <1>8. \A m \in 1..Len(B) : RangeOk(B[m])
    BY <1>1, <1>2, <1>4, <1>7 DEF Stored
  <1>9. \A s \in Streams : ~D[s].selected => \A m \in 1..Len(B) : B[m].q[s].pkts = <<>>
    <2>. SUFFICES ASSUME NEW s \in Streams, ~D[s].selected, NEW m \in 1..Len(B)
                  PROVE  B[m].q[s].pkts = <<>>
      OBVIOUS
    <2>1. R[n].q[s].pkts = <<>>
      BY DEF Stored
    <2>2. m \in 1..Len(A) => A[m].q[s].pkts = <<>>
      BY <1>1 DEF Stored
    <2>. QED  BY <1>1, <1>4, <1>7, <2>1, <2>2
  <1>10. Stored(B, D, T)
    BY <1>2, <1>4, <1>5, <1>6, <1>8, <1>9 DEF Stored
  <1>. QED  BY <1>4, <1>6, <1>10 DEF A, B

\* What stays of a queue when its range is not the current one any more
Usable(q) == IF q.npt = 0 THEN q ELSE RemoveHeads(q, At(q, q.npt))

\* A queue that has ended before the target keeps its packets.
LEMMA UsableOk ==
  ASSUME NEW s, NEW q, QueueOk(s, q)
  PROVE  QueueOk(s, Usable(q)) /\ (q.pkts = <<>> => Usable(q).pkts = <<>>)
  <1>1. CASE q.npt = 0
    BY <1>1 DEF Usable
  <1>2. CASE q.npt # 0
    <2>. DEFINE a == At(q, q.npt)
    <2>1. Has(q, q.npt)
      BY <1>2 DEF QueueOk
    <2>2. a \in 1..Len(q.pkts) /\ Len(q.pkts) \in Nat /\ (q.pkts # <<>> <=> Len(q.pkts) > 0)
      BY <2>1, AtIs, QueueIs
    <2>. HIDE DEF a
    <2>3. a \in 0..Len(q.pkts) /\ q.pkts # <<>>
      BY <2>2
    <2>4. QueueOk(s, RemoveHeads(q, a))
      BY <2>3, RemoveHeadsOk
    <2>. QED  BY <1>2, <2>3, <2>4 DEF Usable, a
  <1>. QED  BY <1>1, <1>2

\* switch_current_range puts the range last; the books of the ranges stay
\* right, the readers are not yet in it.
LEMMA SwitchCurrentRangeOk ==
  ASSUME NEW x, DOMAIN x = Fields, Stored(x.ranges, x.ds, x.total), NEW n \in 1..Len(x.ranges),
         n # Len(x.ranges), Len(x.ranges) <= MaxRanges + 1, NEW y, y = SwitchCurrentRange(x, n)
  PROVE  /\ AllBut({"ranges", "total", "ds"}, x, y)
         /\ Stored(y.ranges, y.ds, y.total) /\ Len(y.ranges) <= MaxRanges
         /\ Last(y.ranges) = x.ranges[n]
         /\ \A s \in Streams : /\ y.ds[s].head = x.ds[s].head /\ y.ds[s].fw = x.ds[s].fw
                               /\ (y.ds[s].selected <=> x.ds[s].selected)
  <1>. DEFINE R == x.ranges
              D == x.ds
              L == Len(R)
              Q == [s \in Streams |-> Usable(Cur(x).q[s])]
              old == [Cur(x) EXCEPT !.q = Q]
              R1 == [R EXCEPT ![L] = old]
              R2 == Append(RemoveAt(R1, n), R[n])
              E == [s \in Streams |-> [D[s] EXCEPT !.refreshing = FALSE, !.eof = FALSE]]
              T2 == x.total - (Held(Cur(x)) - Held(old))
              z == [x EXCEPT !.ranges = R2, !.total = T2, !.ds = E]
  <1>1. y = FreeEmptyRanges(z)
    <2>. DEFINE w == SetCur(x, old)
    <2>1. w = [x EXCEPT !.ranges = R1]
      BY DEF SetCur
    <2>2. w.ranges = R1 /\ w.total = x.total /\ DOMAIN w = Fields
      BY <2>1 DEF Fields
    <2>3. y = FreeEmptyRanges([w EXCEPT !.ranges = Append(RemoveAt(@, n), R[n]),
                                 !.total = @ - (Held(Cur(x)) - Held(old)), !.ds = E])
      BY DEF SwitchCurrentRange, Usable
    <2>. HIDE DEF w, old, R1, E
    <2>4. [w EXCEPT !.ranges = Append(RemoveAt(@, n), R[n]),
                    !.total = @ - (Held(Cur(x)) - Held(old)), !.ds = E]
          = [w EXCEPT !.ranges = R2, !.total = T2, !.ds = E]
      BY <2>2
    <2>. HIDE DEF R2, T2
    <2>5. [w EXCEPT !.ranges = R2, !.total = T2, !.ds = E] = z
      BY <2>1
    <2>. QED  BY <2>3, <2>4, <2>5
  <1>2. /\ Cur(x) \in Ranges /\ Cur(x) = R[L] /\ L \in 1..L /\ L \in Nat \ {0} /\ x.total \in Nat
        /\ \A s \in Streams : QueueOk(s, Cur(x).q[s])
        /\ \A s \in Streams : ~D[s].selected => Cur(x).q[s].pkts = <<>>
        /\ D \in [Streams -> Readers]
    BY StoredAre DEF Cur
  <1>3. \A s \in Streams : QueueOk(s, Q[s]) /\ (Cur(x).q[s].pkts = <<>> => Q[s].pkts = <<>>)
    BY <1>2, UsableOk
  <1>4. Q \in [Streams -> Queues]
    BY <1>3 DEF QueueOk
  <1>. HIDE DEF Q
  <1>5. old \in Ranges /\ old.q = Q
    BY <1>2, <1>4 DEF Ranges
  <1>. HIDE DEF old
  <1>6. RangeOk(old) /\ \A s \in Streams : ~D[s].selected => old.q[s].pkts = <<>>
    BY <1>2, <1>3, <1>5 DEF RangeOk
  <1>7. Stored(R1, D, T2) /\ Len(R1) = Len(R)
    <2>. DEFINE k == L
    <2>1. k \in 1..Len(R)
      BY <1>2
    <2>. HIDE DEF k, L
    <2>2. /\ Stored([R EXCEPT ![k] = old], D, x.total - Held(R[k]) + Held(old))
          /\ Len([R EXCEPT ![k] = old]) = Len(R) /\ Held(R[k]) \in Nat /\ Held(old) \in Nat
      BY <1>6, <2>1, StoredRange
    <2>3. x.total - Held(R[k]) + Held(old) = T2
      <3>. DEFINE a == Held(R[k])
                  c == Held(old)
      <3>1. a \in Nat /\ c \in Nat /\ T2 = x.total - (a - c)
        BY <1>2, <2>2 DEF k
      <3>. HIDE DEF a, c, T2
      <3>2. x.total - a + c = T2
        BY <1>2, <3>1
      <3>. QED  BY <3>2 DEF a, c
    <2>. QED  BY <2>2, <2>3 DEF k
  <1>8. R1[n] = R[n]
    BY <1>2
  <1>. HIDE DEF R1, T2
  <1>9. Stored(R2, D, T2) /\ Len(R2) = Len(R) /\ Last(R2) = R[n]
    <2>1. n \in 1..Len(R1) /\ n # Len(R1)
      BY <1>7
    <2>. QED  BY <1>7, <1>8, <2>1, StoredMoved
  <1>. HIDE DEF R2
  <1>10. /\ E \in [Streams -> Readers]
         /\ \A s \in Streams : /\ E[s].head = D[s].head /\ E[s].fw = D[s].fw
                               /\ (E[s].selected <=> D[s].selected)
    <2>1. ASSUME NEW s \in Streams
          PROVE  /\ E[s] \in Readers /\ E[s].head = D[s].head /\ E[s].fw = D[s].fw
                 /\ (E[s].selected <=> D[s].selected)
      <3>1. D[s] \in Readers
        BY <1>2
      <3>. QED  BY <3>1 DEF Readers
    <2>. QED  BY <2>1
  <1>. HIDE DEF E
  <1>11. Stored(R2, E, T2)
    BY <1>9, <1>10, StoredReaders
  <1>12. z.ranges = R2 /\ z.total = T2 /\ z.ds = E /\ AllBut({"ranges", "total", "ds"}, x, z)
    BY DEF AllBut, Fields
  <1>. HIDE DEF z
  <1>13. DOMAIN z = Fields
    BY <1>12 DEF AllBut
  <1>14. /\ AllBut({"ranges", "total"}, z, y)
         /\ Stored(y.ranges, z.ds, y.total) /\ Len(y.ranges) <= MaxRanges
         /\ Last(y.ranges) = Last(z.ranges)
    BY <1>1, <1>9, <1>11, <1>12, <1>13, FreeEmptyRangesOk
  <1>15. y.ds = E
    BY <1>12, <1>14 DEF AllBut, Fields
  <1>16. AllBut({"ranges", "total", "ds"}, x, y)
    BY <1>12, <1>14 DEF AllBut
  <1>. QED  BY <1>9, <1>10, <1>12, <1>14, <1>15, <1>16

\* A seek starts what follows afresh.
LEMMA QueueSeekOk ==
  ASSUME NEW x, DOMAIN x = Fields, ~x.failed, Books(x.ranges, x.ds, x.total, x.fw_bytes),
         \A s \in Streams : x.ds[s].refreshing \/ Last(x.ranges).q[s].pkts = <<>>,
         NEW pts, NEW flags, NEW y, y = QueueSeek(x, pts, flags), NEW b, NEW fp
  PROVE  /\ Nearly(y, b, fp) /\ AllBut({"seeking", "seek_pts", "seek_flags"}, x, y)
         /\ y.ranges = x.ranges
  <1>1. y = [x EXCEPT !.seeking = TRUE, !.seek_pts = pts, !.seek_flags = flags]
    BY DEF QueueSeek
  <1>2. AllBut({"seeking", "seek_pts", "seek_flags"}, x, y) /\ y.seeking
    BY <1>1 DEF AllBut, Fields
  <1>3. /\ y.ranges = x.ranges /\ y.ds = x.ds /\ y.total = x.total /\ y.fw_bytes = x.fw_bytes
        /\ y.failed = x.failed /\ DOMAIN y = Fields
    BY <1>2 DEF AllBut, Fields
  <1>4. Follows(y.ranges, y.ds, y.seeking \/ b, fp)
    BY <1>3 DEF Follows
  <1>. QED  BY <1>2, <1>3, <1>4 DEF Nearly

\* The readers after a seek inside the range r
Sought(D, r, to, how) ==
  [s \in Streams |->
     [D[s] EXCEPT
        !.head = FindSeekTarget(r.q[s], to, how), !.skip = FindSeekTarget(r.q[s], to, how) = 0,
        !.base_ts = IF FindSeekTarget(r.q[s], to, how) = 0 THEN @
                    ELSE File[FindSeekTarget(r.q[s], to, how)].pts]]

\* execute_cache_seek puts the readers at packets of the range, or nowhere.
LEMMA SoughtOk ==
  ASSUME NEW D \in [Streams -> Readers], NEW r, RangeOk(r), NEW to, NEW how,
         NEW E, E = Sought(D, r, to, how)
  PROVE  /\ E \in [Streams -> Readers]
         /\ \A s \in Streams : /\ E[s].head # 0 => Has(r.q[s], E[s].head)
                               /\ (E[s].selected <=> D[s].selected)
                               /\ (E[s].refreshing <=> D[s].refreshing)
  <1>1. ASSUME NEW s \in Streams
        PROVE  /\ E[s] \in Readers /\ (E[s].head # 0 => Has(r.q[s], E[s].head))
               /\ (E[s].selected <=> D[s].selected)
               /\ (E[s].refreshing <=> D[s].refreshing)
    <2>. DEFINE i == FindSeekTarget(r.q[s], to, how)
                ts == IF i = 0 THEN D[s].base_ts ELSE File[i].pts
                d == D[s]
                e == E[s]
    <2>1. i # 0 => Has(r.q[s], i)
      BY FindSeekTargetIs DEF RangeOk
    <2>2. e = [d EXCEPT !.head = i, !.skip = (i = 0), !.base_ts = ts]
      BY DEF Sought
    <2>. HIDE DEF i, ts
    <2>3. i # 0 => i \in Packets
      BY <2>1, AtIs DEF RangeOk
    <2>4. i \in Numbers
      BY <2>3, FileIs
    <2>5. ts \in Int /\ d \in Readers
      <3>1. d \in Readers
        OBVIOUS
      <3>2. d.base_ts \in Int
        BY <3>1 DEF Readers
      <3>. QED  BY <2>3, <3>1, <3>2, FileIs DEF ts
    <2>. HIDE DEF d, e
    <2>6. /\ e \in Readers /\ e.head = i /\ (e.selected <=> d.selected)
          /\ (e.refreshing <=> d.refreshing)
      BY <2>2, <2>4, <2>5 DEF Readers
    <2>. QED  BY <2>1, <2>6 DEF d, e
  <1>2. E \in [Streams -> Readers]
    <2>1. \A s \in Streams : E[s] \in Readers
      BY <1>1
    <2>. QED  BY <2>1 DEF Sought
  <1>. QED  BY <1>1, <1>2

\* execute_cache_seek keeps the books.
LEMMA ExecuteCacheSeekOk ==
  ASSUME NEW x, NEW b, NEW fp, Sound(x, b, fp), NEW n \in 1..Len(x.ranges), NEW pts, NEW flags,
         NEW y, y = ExecuteCacheSeek(x, n, pts, flags)
  PROVE  Sound(y, b, fp) /\ Quiet(x, y)
  <1>. DEFINE R == x.ranges
              D == x.ds
              r == R[n]
              v == VideoTarget(x, r, pts, flags)
              qv == r.q[File[v].s]
              to == IF v = 0 THEN pts ELSE qv.pkts[At(qv, v)].kf
              how == IF v = 0 THEN flags ELSE flags \ {"forward"}
              E == Sought(D, r, to, how)
              there == [x EXCEPT !.ds = E]
              moved == SwitchCurrentRange(there, n)
              G == [s \in Streams |-> [moved.ds[s] EXCEPT !.refreshing = moved.ds[s].selected]]
              resumed == [moved EXCEPT !.ds = G]
              u == Recount(resumed)
  <1>1. /\ DOMAIN x = Fields /\ ~x.failed /\ Stored(R, D, x.total)
        /\ Served(R, D, x.fw_bytes) /\ Follows(R, D, x.seeking \/ b, fp) /\ Len(R) <= MaxRanges
        /\ D \in [Streams -> Readers]
    BY DEF Sound, Nearly, Books, Stored
  <1>2. y = IF n = Len(R) THEN Recount(there) ELSE QueueSeek(u, r.end - Second, {"hr"})
    BY DEF ExecuteCacheSeek, Sought
  <1>3. RangeOk(r) /\ Last(R) = R[Len(R)] /\ Len(R) \in Nat
    BY <1>1, StoredAre
  <1>4. /\ E \in [Streams -> Readers]
        /\ \A s \in Streams : /\ E[s].head # 0 => Has(r.q[s], E[s].head)
                              /\ (E[s].selected <=> D[s].selected)
                              /\ (E[s].refreshing <=> D[s].refreshing)
    <2>. DEFINE e == E
    <2>1. e = Sought(D, r, to, how)
      OBVIOUS
    <2>. HIDE DEF e, r, to, how
    <2>2. /\ e \in [Streams -> Readers]
          /\ \A s \in Streams : /\ e[s].head # 0 => Has(r.q[s], e[s].head)
                                /\ (e[s].selected <=> D[s].selected)
                                /\ (e[s].refreshing <=> D[s].refreshing)
      BY <1>1, <1>3, <2>1, SoughtOk
    <2>. QED  BY <2>2 DEF e
  <1>. HIDE DEF E
  <1>5. AllBut({"ds"}, x, there) /\ there.ds = E
    BY <1>1 DEF AllBut, Fields
  <1>. HIDE DEF there
  <1>6. /\ there.ranges = R /\ there.total = x.total /\ there.failed = x.failed
        /\ there.seeking = x.seeking /\ DOMAIN there = Fields
    BY <1>5 DEF AllBut, Fields
  <1>7. Stored(there.ranges, there.ds, there.total)
    <2>1. Stored(R, E, x.total)
      BY <1>1, <1>4, StoredReaders
    <2>. QED  BY <1>5, <1>6, <2>1
  <1>8. CASE n = Len(R)
    <2>1. \A s \in Streams : CurQ(there, s) = r.q[s]
      BY <1>3, <1>6, <1>8 DEF CurQ, Cur
    <2>2. \A s \in Streams : there.ds[s].head # 0 => Has(CurQ(there, s), there.ds[s].head)
      BY <1>4, <1>5, <2>1
    <2>3. y = Recount(there)
      BY <1>2, <1>8
    <2>4. /\ AllBut({"ds", "fw_bytes"}, there, y) /\ Books(there.ranges, y.ds, there.total, y.fw_bytes)
          /\ \A s \in Streams : (y.ds[s].refreshing <=> there.ds[s].refreshing)
      BY <1>6, <1>7, <2>2, <2>3, RecountOk
    <2>5. /\ y.ranges = R /\ y.total = x.total /\ y.failed = x.failed /\ y.seeking = x.seeking
          /\ DOMAIN y = Fields /\ y.run_fn = x.run_fn /\ y.asleep = x.asleep
      BY <1>5, <1>6, <2>4 DEF AllBut, Fields
    <2>6. Follows(R, y.ds, x.seeking \/ b, fp)
      BY <1>1, <1>4, <1>5, <2>4 DEF Follows
    <2>7. Sound(y, b, fp)
      BY <1>1, <1>6, <2>4, <2>5, <2>6 DEF Sound, Nearly
    <2>. QED  BY <2>5, <2>7 DEF Quiet
  <1>9. CASE n # Len(R)
    <2>1. Len(R) <= MaxRanges + 1
      BY <1>1, <1>3, DemuxAssumption
    <2>2. /\ AllBut({"ranges", "total", "ds"}, there, moved)
          /\ Stored(moved.ranges, moved.ds, moved.total) /\ Len(moved.ranges) <= MaxRanges
          /\ Last(moved.ranges) = r
          /\ \A s \in Streams : /\ moved.ds[s].head = E[s].head
                                /\ (moved.ds[s].selected <=> E[s].selected)
      <3>1. moved = SwitchCurrentRange(there, n)
        OBVIOUS
      <3>. HIDE DEF moved
      <3>2. n \in 1..Len(there.ranges) /\ n # Len(there.ranges) /\ Len(there.ranges) <= MaxRanges + 1
        BY <1>6, <1>9, <2>1
      <3>3. /\ AllBut({"ranges", "total", "ds"}, there, moved)
            /\ Stored(moved.ranges, moved.ds, moved.total) /\ Len(moved.ranges) <= MaxRanges
            /\ Last(moved.ranges) = there.ranges[n]
            /\ \A s \in Streams : /\ moved.ds[s].head = there.ds[s].head
                                  /\ (moved.ds[s].selected <=> there.ds[s].selected)
        BY <1>6, <1>7, <3>1, <3>2, SwitchCurrentRangeOk
      <3>. QED  BY <1>5, <1>6, <3>3
    <2>. HIDE DEF moved, r
    <2>3. moved.ds \in [Streams -> Readers] /\ DOMAIN moved = Fields
      BY <2>2 DEF Stored, AllBut
    <2>4. /\ G \in [Streams -> Readers]
          /\ \A s \in Streams : /\ G[s].head = moved.ds[s].head
                                /\ (G[s].selected <=> moved.ds[s].selected)
                                /\ (G[s].refreshing <=> moved.ds[s].selected)
      <3>1. ASSUME NEW s \in Streams
            PROVE  /\ G[s] \in Readers /\ G[s].head = moved.ds[s].head
                   /\ (G[s].selected <=> moved.ds[s].selected)
                   /\ (G[s].refreshing <=> moved.ds[s].selected)
        <4>. DEFINE d == moved.ds[s]
                    e == G[s]
        <4>1. d \in Readers /\ d.selected \in BOOLEAN
          BY <2>3 DEF Readers
        <4>2. e = [d EXCEPT !.refreshing = d.selected]
          OBVIOUS
        <4>. HIDE DEF d, e
        <4>3. /\ e \in Readers /\ e.head = d.head /\ (e.selected <=> d.selected)
              /\ (e.refreshing <=> d.selected)
          BY <4>1, <4>2 DEF Readers
        <4>. QED  BY <4>3 DEF d, e
      <3>. QED  BY <3>1
    <2>. HIDE DEF G
    <2>5. AllBut({"ds"}, moved, resumed) /\ resumed.ds = G
      BY <2>3 DEF AllBut, Fields
    <2>. HIDE DEF resumed
    <2>6. resumed.ranges = moved.ranges /\ resumed.total = moved.total /\ DOMAIN resumed = Fields
      BY <2>5 DEF AllBut, Fields
    <2>7. Stored(resumed.ranges, resumed.ds, resumed.total)
      <3>1. Stored(moved.ranges, G, moved.total)
        BY <2>2, <2>4, StoredReaders
      <3>. QED  BY <2>5, <2>6, <3>1
    <2>8. \A s \in Streams : resumed.ds[s].head # 0 => Has(CurQ(resumed, s), resumed.ds[s].head)
      BY <1>4, <2>2, <2>4, <2>5, <2>6 DEF CurQ, Cur
    <2>9. /\ AllBut({"ds", "fw_bytes"}, resumed, u)
          /\ Books(resumed.ranges, u.ds, resumed.total, u.fw_bytes)
          /\ \A s \in Streams : (u.ds[s].refreshing <=> resumed.ds[s].refreshing)
      <3>1. u = Recount(resumed)
        OBVIOUS
      <3>. HIDE DEF u
      <3>. QED  BY <2>6, <2>7, <2>8, <3>1, RecountOk
    <2>. HIDE DEF u
    <2>10. /\ u.ranges = moved.ranges /\ u.total = moved.total /\ u.failed = x.failed
           /\ DOMAIN u = Fields /\ u.run_fn = x.run_fn /\ u.asleep = x.asleep
      BY <1>5, <2>2, <2>5, <2>6, <2>9 DEF AllBut, Fields
    <2>11. \A s \in Streams : u.ds[s].refreshing \/ Last(u.ranges).q[s].pkts = <<>>
      <3>1. \A s \in Streams : ~moved.ds[s].selected => Last(moved.ranges).q[s].pkts = <<>>
        BY <2>2, StoredAre
      <3>. QED  BY <2>4, <2>5, <2>9, <2>10, <3>1
    <2>12. y = QueueSeek(u, r.end - Second, {"hr"})
      BY <1>2, <1>9
    <2>13. Books(u.ranges, u.ds, u.total, u.fw_bytes)
      BY <2>6, <2>9, <2>10
    <2>14. /\ Nearly(y, b, fp) /\ AllBut({"seeking", "seek_pts", "seek_flags"}, u, y)
           /\ y.ranges = u.ranges
      <3>. DEFINE to2 == r.end - Second
                  fl == {"hr"}
      <3>1. y = QueueSeek(u, to2, fl)
        BY <2>12
      <3>2. ~u.failed /\ DOMAIN u = Fields
        BY <1>1, <2>10
      <3>. HIDE DEF to2, fl
      <3>. QED  BY <2>11, <2>13, <3>1, <3>2, QueueSeekOk
    <2>15. y.run_fn = x.run_fn /\ y.asleep = x.asleep
      BY <2>10, <2>14 DEF AllBut, Fields
    <2>. QED  BY <2>2, <2>10, <2>14, <2>15 DEF Sound, Quiet
  <1>. QED  BY <1>8, <1>9

\* A queue without packets, whatever packet of it was the last one
LEMMA NoPacketsOk ==
  ASSUME NEW s, NEW l \in Numbers, NEW q, q = [EmptyQueue EXCEPT !.last = l] \/ q = EmptyQueue
  PROVE  QueueOk(s, q) /\ q.pkts = <<>>
  <1>1. 0 \in Numbers /\ NoPts \in Int /\ <<>> \in Seq(Entries) /\ Len(<<>>) = 0
    BY FileIs, EmptySeq DEF NoPts
  <1>2. EmptyQueue \in Queues
    BY <1>1 DEF EmptyQueue, Queues
  <1>3. /\ q \in Queues /\ q.pkts = <<>> /\ q.npt = 0 /\ q.kf_latest = 0
    <2>1. EmptyQueue.pkts = <<>> /\ EmptyQueue.npt = 0 /\ EmptyQueue.kf_latest = 0
      BY DEF EmptyQueue
    <2>2. CASE q = EmptyQueue
      BY <1>2, <2>1, <2>2
    <2>3. CASE q = [EmptyQueue EXCEPT !.last = l]
      <3>. DEFINE e == EmptyQueue
      <3>. HIDE DEF e
      <3>1. e \in Queues /\ e.pkts = <<>> /\ e.npt = 0 /\ e.kf_latest = 0 /\ q = [e EXCEPT !.last = l]
        BY <1>2, <2>1, <2>3 DEF e
      <3>. QED  BY <3>1 DEF Queues
    <2>. QED  BY <2>2, <2>3
  <1>4. \A p \in 1..Len(q.pkts) : FALSE
    BY <1>1, <1>3
  <1>. QED  BY <1>3, <1>4 DEF QueueOk

\* A new range holds nothing.
LEMMA EmptyRangeOk ==
  /\ RangeOk(EmptyRange) /\ EmptyRange \in Ranges /\ Held(EmptyRange) = 0
  /\ \A s \in Streams : EmptyRange.q[s].pkts = <<>>
  <1>. DEFINE Q == [s \in Streams |-> EmptyQueue]
  <1>1. EmptyRange = [q |-> Q, start |-> NoPts, end |-> NoPts, bof |-> FALSE, eof |-> FALSE]
    BY DEF EmptyRange
  <1>2. \A s \in Streams : QueueOk(s, Q[s]) /\ Q[s].pkts = <<>>
    <2>1. 0 \in Numbers
      BY FileIs
    <2>2. \A s \in Streams : QueueOk(s, EmptyQueue) /\ EmptyQueue.pkts = <<>>
      BY <2>1, NoPacketsOk
    <2>. QED  BY <2>2
  <1>3. Q \in [Streams -> Queues]
    BY <1>2 DEF QueueOk
  <1>. HIDE DEF Q
  <1>4. EmptyRange \in Ranges /\ EmptyRange.q = Q
    BY <1>1, <1>3 DEF Ranges, NoPts
  <1>5. /\ RangeOk(EmptyRange) /\ \A s \in Streams : EmptyRange.q[s].pkts = <<>>
    BY <1>2, <1>4 DEF RangeOk
  <1>. QED  BY <1>4, <1>5, HeldIs

\* A new range comes before the last one.
LEMMA StoredWithFresh ==
  ASSUME NEW R, NEW D, NEW T, Stored(R, D, T),
         NEW W, W = Append(Front(R), EmptyRange) \o <<Last(R)>>
  PROVE  /\ Stored(W, D, T) /\ Len(W) = Len(R) + 1 /\ W[Len(R)] = EmptyRange
  <1>. DEFINE e == EmptyRange
              a == Last(R)
              F == Front(R)
              V == Append(F, e)
              L == Len(R)
  <1>1. /\ R \in Seq(Ranges) /\ L \in Nat \ {0} /\ a \in Ranges /\ R[L] = a
        /\ T = Bytes(R) /\ D \in [Streams -> Readers] /\ \A n \in 1..L : RangeOk(R[n]) /\ R[n] \in Ranges
    BY StoredAre
  <1>2. R # <<>>
    BY DEF Stored
  <1>3. /\ F \in Seq(Ranges) /\ Len(F) = L - 1 /\ \A n \in 1..L - 1 : F[n] = R[n]
        /\ Append(F, a) = R
    BY <1>1, <1>2, FrontIs
  <1>4. e \in Ranges /\ RangeOk(e) /\ Held(e) = 0 /\ \A s \in Streams : e.q[s].pkts = <<>>
    BY EmptyRangeOk
  <1>. HIDE DEF e, a, F
  <1>5. /\ V \in Seq(Ranges) /\ Len(V) = L /\ V[L] = e /\ \A n \in 1..L - 1 : V[n] = R[n]
    <2>1. /\ V \in Seq(Ranges) /\ Len(V) = Len(F) + 1 /\ V[Len(F) + 1] = e
          /\ \A n \in 1..Len(F) : V[n] = F[n]
      BY <1>3, <1>4, AppendProperties
    <2>2. Len(F) + 1 = L /\ Len(F) = L - 1
      BY <1>1, <1>3
    <2>. QED  BY <1>3, <2>1, <2>2
  <1>6. W = Append(V, a)
    <2>1. W = V \o <<a>>
      BY DEF V, e, a, F
    <2>. HIDE DEF V
    <2>. QED  BY <1>1, <1>5, <2>1, AppendIsConcat
  <1>. HIDE DEF V
  <1>7. /\ W \in Seq(Ranges) /\ Len(W) = L + 1 /\ W[L + 1] = a /\ \A n \in 1..L : W[n] = V[n]
    <2>1. /\ W \in Seq(Ranges) /\ Len(W) = Len(V) + 1 /\ W[Len(V) + 1] = a
          /\ \A n \in 1..Len(V) : W[n] = V[n]
      <3>. DEFINE w == V
      <3>1. w \in Seq(Ranges) /\ a \in Ranges /\ W = Append(w, a)
        BY <1>1, <1>5, <1>6
      <3>. HIDE DEF w
      <3>2. /\ W \in Seq(Ranges) /\ Len(W) = Len(w) + 1 /\ W[Len(w) + 1] = a
            /\ \A n \in 1..Len(w) : W[n] = w[n]
        <4>1. /\ Append(w, a) \in Seq(Ranges) /\ Len(Append(w, a)) = Len(w) + 1
              /\ Append(w, a)[Len(w) + 1] = a
              /\ \A n \in 1..Len(w) : Append(w, a)[n] = w[n]
          BY <3>1, AppendProperties
        <4>. QED  BY <3>1, <4>1
      <3>. QED  BY <3>2 DEF w
    <2>. QED  BY <1>5, <2>1
  <1>8. Bytes(W) = T
    <2>1. Bytes(V) = Bytes(F) + Held(e) /\ Bytes(W) = Bytes(V) + Held(a) /\ T = Bytes(F) + Held(a)
      <3>1. Bytes(V) = Bytes(F) + Held(e)
        BY <1>3, <1>4, BytesAppended DEF V
      <3>2. Bytes(W) = Bytes(V) + Held(a)
        BY <1>1, <1>5, <1>6, BytesAppended
      <3>3. T = Bytes(F) + Held(a)
        BY <1>1, <1>3, BytesAppended
      <3>. QED  BY <3>1, <3>2, <3>3
    <2>2. Bytes(F) \in Nat
      BY <1>3, HeldByIs
    <2>3. Held(a) \in Nat
      BY <1>1, HeldIs
    <2>. QED  BY <1>4, <2>1, <2>2, <2>3
  <1>9. \A n \in 1..L + 1 : W[n] = e \/ \E m \in 1..L : W[n] = R[m]
    <2>. SUFFICES ASSUME NEW n \in 1..L + 1 PROVE W[n] = e \/ \E m \in 1..L : W[n] = R[m]
      OBVIOUS
    <2>1. CASE n = L + 1
      BY <1>1, <1>7, <2>1
    <2>2. CASE n = L
      BY <1>1, <1>5, <1>7, <2>2
    <2>3. CASE n \in 1..L - 1
      BY <1>1, <1>5, <1>7, <2>3
    <2>4. L \in Nat \ {0}
      BY <1>1
    <2>5. n = L + 1 \/ n = L \/ n \in 1..L - 1
      <3>. HIDE DEF L
      <3>. QED  BY <2>4
    <2>. QED  BY <2>1, <2>2, <2>3, <2>5
  <1>10. \A n \in 1..Len(W) : RangeOk(W[n])
    BY <1>1, <1>4, <1>7, <1>9
  <1>11. \A s \in Streams : ~D[s].selected => \A n \in 1..Len(W) : W[n].q[s].pkts = <<>>
    <2>. SUFFICES ASSUME NEW s \in Streams, ~D[s].selected, NEW n \in 1..Len(W)
                  PROVE  W[n].q[s].pkts = <<>>
      OBVIOUS
    <2>1. \A m \in 1..L : R[m].q[s].pkts = <<>>
      BY DEF Stored
    <2>. QED  BY <1>4, <1>7, <1>9, <2>1
  <1>12. W # <<>>
    BY <1>1, <1>7, EmptySeq
  <1>13. Stored(W, D, T)
    BY <1>1, <1>7, <1>8, <1>10, <1>11, <1>12 DEF Stored
  <1>. QED  BY <1>1, <1>5, <1>7, <1>13 DEF e

\* switch_to_fresh_cache_range, for readers that have been cleared.
LEMMA SwitchToFreshRangeOk ==
  ASSUME NEW x, DOMAIN x = Fields, Stored(x.ranges, x.ds, x.total), Len(x.ranges) <= MaxRanges,
         x.fw_bytes = FwBytes(x.ds), \A s \in Streams : x.ds[s].head = 0 /\ x.ds[s].fw = 0,
         NEW y, y = SwitchToFreshRange(x)
  PROVE  /\ AllBut({"ranges", "total", "ds"}, x, y) /\ Books(y.ranges, y.ds, y.total, y.fw_bytes)
         /\ Len(y.ranges) <= MaxRanges /\ \A s \in Streams : Last(y.ranges).q[s].pkts = <<>>
  <1>. DEFINE R == x.ranges
              W == Append(Front(R), EmptyRange) \o <<Last(R)>>
              z == [x EXCEPT !.ranges = W]
  <1>1. y = SwitchCurrentRange(z, Len(R))
    BY DEF SwitchToFreshRange
  <1>2. Stored(W, x.ds, x.total) /\ Len(W) = Len(R) + 1 /\ W[Len(R)] = EmptyRange
    <2>1. W = Append(Front(R), EmptyRange) \o <<Last(R)>> /\ Stored(R, x.ds, x.total)
      OBVIOUS
    <2>. HIDE DEF W, R
    <2>. QED  BY <2>1, StoredWithFresh
  <1>3. Len(R) \in Nat \ {0}
    BY StoredAre
  <1>. HIDE DEF W
  <1>4. AllBut({"ranges"}, x, z) /\ z.ranges = W
    BY DEF AllBut, Fields
  <1>. HIDE DEF z
  <1>5. DOMAIN z = Fields /\ z.ds = x.ds /\ z.total = x.total /\ z.fw_bytes = x.fw_bytes
    BY <1>4 DEF AllBut, Fields
  <1>6. Stored(z.ranges, z.ds, z.total)
    BY <1>2, <1>4, <1>5
  <1>7. Len(R) \in 1..Len(z.ranges) /\ Len(R) # Len(z.ranges) /\ Len(z.ranges) <= MaxRanges + 1
    BY <1>2, <1>3, <1>4, DemuxAssumption
  <1>8. /\ AllBut({"ranges", "total", "ds"}, z, y)
        /\ Stored(y.ranges, y.ds, y.total) /\ Len(y.ranges) <= MaxRanges
        /\ Last(y.ranges) = z.ranges[Len(R)]
        /\ \A s \in Streams : /\ y.ds[s].head = z.ds[s].head /\ y.ds[s].fw = z.ds[s].fw
    BY <1>1, <1>5, <1>6, <1>7, SwitchCurrentRangeOk
  <1>9. Last(y.ranges) = EmptyRange
    BY <1>2, <1>4, <1>8
  <1>10. \A s \in Streams : Last(y.ranges).q[s].pkts = <<>>
    BY <1>9, EmptyRangeOk
  <1>11. AllBut({"ranges", "total", "ds"}, x, y)
    BY <1>4, <1>8 DEF AllBut
  <1>12. y.fw_bytes = x.fw_bytes
    BY <1>11 DEF AllBut, Fields
  <1>13. FwBytes(y.ds) = FwBytes(x.ds)
    BY <1>5, <1>8, FwSame
  <1>14. \A s \in Streams : ReaderOk(Last(y.ranges).q[s], y.ds[s])
    BY <1>5, <1>8 DEF ReaderOk, From
  <1>15. Served(y.ranges, y.ds, y.fw_bytes)
    BY <1>12, <1>13, <1>14 DEF Served
  <1>. QED  BY <1>8, <1>10, <1>11, <1>15 DEF Books

\* find_cache_seek_target gives one of the ranges, or none.
LEMMA CacheTargetIs ==
  ASSUME NEW x, NEW D, NEW T, Stored(x.ranges, D, T), NEW pts
  PROVE  FindCacheSeekTarget(x, pts) \in 0..Len(x.ranges)
  <1>. DEFINE hit(r) == /\ r.start # NoPts
                        /\ pts >= r.start \/ r.bof
                        /\ pts <= r.end \/ r.eof
              H == {n \in DOMAIN x.ranges : hit(x.ranges[n])}
  <1>1. FindCacheSeekTarget(x, pts) = IF H = {} THEN 0 ELSE Min(H)
    BY DEF FindCacheSeekTarget
  <1>2. Len(x.ranges) \in Nat \ {0} /\ H \subseteq 1..Len(x.ranges)
    BY StoredAre
  <1>. HIDE DEF H
  <1>3. H # {} => Min(H) \in H
    <2>. DEFINE N == Len(x.ranges)
    <2>1. N \in Nat /\ H \subseteq 1..N
      BY <1>2
    <2>. HIDE DEF N
    <2>. QED  BY <2>1, Places
  <1>4. H # {} => Min(H) \in 1..Len(x.ranges)
    BY <1>2, <1>3, Zenon
  <1>5. CASE H = {}
    <2>1. FindCacheSeekTarget(x, pts) = 0
      BY <1>1, <1>5
    <2>. QED  BY <1>2, <2>1
  <1>6. CASE H # {}
    <2>1. FindCacheSeekTarget(x, pts) = Min(H)
      BY <1>1, <1>6
    <2>. QED  BY <1>2, <1>4, <1>6, <2>1
  <1>. QED  BY <1>5, <1>6

\* queue_seek keeps the books, in the cache and when it is for the demuxer.
LEMMA SeekDoneOk ==
  ASSUME NEW x, NEW b, NEW fp, Sound(x, b, fp), NEW pts, NEW flags,
         NEW z, z = SeekDone(x, pts, flags)
  PROVE  Sound(z, b, fp) /\ Quiet(x, z)
  <1>. DEFINE n == FindCacheSeekTarget(x, pts)
              w == ClearReaderState(x)
              y == [w EXCEPT !.eof = FALSE, !.last_eof = FALSE, !.reading = FALSE]
              v == IF n # 0 THEN ExecuteCacheSeek(y, n, pts, flags)
                   ELSE QueueSeek(SwitchToFreshRange(y), pts, flags)
  <1>1. z = Signal(Wakeup(v, Streams))
    BY DEF SeekDone
  <1>2. /\ Sound(w, b, fp) /\ Quiet(x, w)
        /\ AllBut({"ds", "fw_bytes", "blocked", "failed", "dry", "cut"}, x, w)
        /\ \A s \in Streams : w.ds[s].head = 0 /\ w.ds[s].fw = 0
    <2>1. w = ClearReaderState(x)
      OBVIOUS
    <2>. HIDE DEF w
    <2>. QED  BY <2>1, ClearReaderStateOk
  <1>3. DOMAIN w = Fields /\ w.ranges = x.ranges
    BY <1>2 DEF AllBut, Fields
  <1>. HIDE DEF w
  <1>4. AllBut({"eof", "last_eof", "reading"}, w, y)
    BY <1>3 DEF AllBut, Fields
  <1>. HIDE DEF y
  <1>5. /\ Sound(y, b, fp) /\ y.ranges = w.ranges /\ y.ds = w.ds
    <2>1. {"eof", "last_eof", "reading"} \cap Core = {}
      BY DEF Core
    <2>. QED  BY <1>2, <1>4, <2>1, Aside
  <1>6. Quiet(x, y)
    BY <1>2, <1>4 DEF Quiet, AllBut, Fields
  <1>7. /\ DOMAIN y = Fields /\ ~y.failed /\ Stored(y.ranges, y.ds, y.total)
        /\ y.fw_bytes = FwBytes(y.ds) /\ Len(y.ranges) <= MaxRanges
    BY <1>5 DEF Sound, Nearly, Books, Served
  <1>8. n \in 0..Len(y.ranges)
    <2>1. Stored(x.ranges, y.ds, y.total)
      BY <1>3, <1>5, <1>7
    <2>. QED  BY <1>3, <1>5, <2>1, CacheTargetIs
  <1>. HIDE DEF n
  <1>9. Sound(v, b, fp) /\ Quiet(y, v)
    <2>1. CASE n # 0
      <3>1. v = ExecuteCacheSeek(y, n, pts, flags) /\ n \in 1..Len(y.ranges)
        <4>1. Len(y.ranges) \in Nat \ {0}
          BY <1>7, StoredAre
        <4>. QED  BY <1>8, <2>1, <4>1
      <3>. HIDE DEF v
      <3>. QED  BY <1>5, <3>1, ExecuteCacheSeekOk
    <2>2. CASE n = 0
      <3>. DEFINE u == SwitchToFreshRange(y)
      <3>1. v = QueueSeek(u, pts, flags)
        BY <2>2
      <3>2. \A s \in Streams : y.ds[s].head = 0 /\ y.ds[s].fw = 0
        BY <1>2, <1>5
      <3>3. /\ AllBut({"ranges", "total", "ds"}, y, u) /\ Books(u.ranges, u.ds, u.total, u.fw_bytes)
            /\ Len(u.ranges) <= MaxRanges /\ \A s \in Streams : Last(u.ranges).q[s].pkts = <<>>
        <4>1. u = SwitchToFreshRange(y)
          OBVIOUS
        <4>. HIDE DEF u
        <4>. QED  BY <1>7, <3>2, <4>1, SwitchToFreshRangeOk
      <3>. HIDE DEF u, v
      <3>4. DOMAIN u = Fields /\ ~u.failed /\ u.run_fn = y.run_fn /\ u.asleep = y.asleep
        BY <1>7, <3>3 DEF AllBut, Fields
      <3>5. /\ Nearly(v, b, fp) /\ AllBut({"seeking", "seek_pts", "seek_flags"}, u, v)
            /\ v.ranges = u.ranges
        <4>1. \A s \in Streams : u.ds[s].refreshing \/ Last(u.ranges).q[s].pkts = <<>>
          BY <3>3
        <4>2. DOMAIN u = Fields /\ ~u.failed /\ Books(u.ranges, u.ds, u.total, u.fw_bytes)
          BY <3>3, <3>4
        <4>. QED  BY <3>1, <4>1, <4>2, QueueSeekOk
      <3>6. v.run_fn = y.run_fn /\ v.asleep = y.asleep
        BY <3>4, <3>5 DEF AllBut, Fields
      <3>. QED  BY <3>3, <3>5, <3>6 DEF Sound, Quiet
    <2>. QED  BY <1>7, <2>1, <2>2
  <1>. HIDE DEF v
  <1>10. Sound(Wakeup(v, Streams), b, fp) /\ Quiet(v, Wakeup(v, Streams))
    BY <1>9, WakeupOk
  <1>. DEFINE t == Wakeup(v, Streams)
  <1>. HIDE DEF t
  <1>11. Sound(t, b, fp) /\ Quiet(v, t) /\ z = Signal(t)
    BY <1>1, <1>10 DEF t
  <1>12. Sound(z, b, fp) /\ Quiet(t, z)
    BY <1>11, SignalOk
  <1>. QED  BY <1>6, <1>9, <1>11, <1>12, QuietBoth

\* A refresh seek drops what is cached of the current range and seeks, or it
\* leaves all as it is.
Emptied(x, l) ==
  [Cur(x) EXCEPT !.q = [s \in Streams |->
                          IF x.ds[s].selected /\ x.ds[s].last_ret # 0
                          THEN [EmptyQueue EXCEPT !.last = l[s]] ELSE EmptyQueue]]

\* A refresh seek empties the queues of the current range,
LEMMA EmptiedOk ==
  ASSUME NEW x, Cur(x) \in Ranges, NEW l \in [Streams -> Numbers], NEW r, r = Emptied(x, l)
  PROVE  /\ RangeOk(r) /\ r \in Ranges /\ Held(r) = 0
         /\ \A s \in Streams : r.q[s].pkts = <<>>
  <1>. DEFINE Q == [s \in Streams |-> IF x.ds[s].selected /\ x.ds[s].last_ret # 0
                                      THEN [EmptyQueue EXCEPT !.last = l[s]] ELSE EmptyQueue]
  <1>1. r = [Cur(x) EXCEPT !.q = Q]
    BY DEF Emptied
  <1>2. \A s \in Streams : QueueOk(s, Q[s]) /\ Q[s].pkts = <<>>
    <2>. SUFFICES ASSUME NEW s \in Streams PROVE QueueOk(s, Q[s]) /\ Q[s].pkts = <<>>
      OBVIOUS
    <2>. DEFINE q == Q[s]
                n == l[s]
    <2>1. n \in Numbers /\ (q = [EmptyQueue EXCEPT !.last = n] \/ q = EmptyQueue)
      OBVIOUS
    <2>. HIDE DEF q, n
    <2>2. QueueOk(s, q) /\ q.pkts = <<>>
      BY <2>1, NoPacketsOk
    <2>. QED  BY <2>2 DEF q
  <1>3. Q \in [Streams -> Queues]
    <2>1. \A s \in Streams : Q[s] \in Queues
      BY <1>2 DEF QueueOk
    <2>. QED  BY <2>1
  <1>. HIDE DEF Q
  <1>4. r \in Ranges /\ r.q = Q
    BY <1>1, <1>3 DEF Ranges
  <1>5. RangeOk(r) /\ \A s \in Streams : r.q[s].pkts = <<>>
    BY <1>2, <1>4 DEF RangeOk
  <1>. QED  BY <1>4, <1>5, HeldIs

\* The reader of a stream after a refresh seek
Refreshed(d) ==
  [ReaderQueueCleared(d) EXCEPT !.refreshing = @ \/ (d.selected /\ d.last_ret # 0)]

\* and takes their readers away.
LEMMA RefreshedIs ==
  ASSUME NEW D \in [Streams -> Readers], NEW E, E = [s \in Streams |-> Refreshed(D[s])]
  PROVE  /\ E \in [Streams -> Readers]
         /\ \A s \in Streams : /\ E[s].head = 0 /\ E[s].fw = 0
                               /\ (E[s].selected <=> D[s].selected)
  <1>1. ASSUME NEW s \in Streams
        PROVE  /\ E[s] \in Readers /\ E[s].head = 0 /\ E[s].fw = 0
               /\ (E[s].selected <=> D[s].selected)
    <2>. DEFINE d == D[s]
                c == ReaderQueueCleared(d)
                e == E[s]
                yes == c.refreshing \/ (d.selected /\ d.last_ret # 0)
    <2>1. d \in Readers
      OBVIOUS
    <2>2. e = [c EXCEPT !.refreshing = yes]
      BY DEF Refreshed
    <2>3. yes \in BOOLEAN
      OBVIOUS
    <2>. HIDE DEF d, e, yes
    <2>4. c \in Readers /\ c.head = 0 /\ c.fw = 0 /\ (c.selected <=> d.selected)
      BY <2>1, ReaderClearedIs
    <2>. HIDE DEF c
    <2>5. e \in Readers /\ e.head = 0 /\ e.fw = 0 /\ (e.selected <=> d.selected)
      BY <2>2, <2>3, <2>4 DEF Readers
    <2>. QED  BY <2>5 DEF d, e
  <1>. QED  BY <1>1

\* initiate_refresh_seek keeps the books: what is read again is not in the
\* cache, or dropped when it comes.
LEMMA InitiateRefreshSeekOk ==
  ASSUME NEW x, NEW b, NEW fp, Sound(x, b, fp), NEW stream \in Streams,
         Last(x.ranges).q[stream].pkts = <<>>,
         NEW ref, NEW z, z = InitiateRefreshSeek(x, stream, ref)
  PROVE  Sound(z, b, fp) /\ Quiet(x, z)
  <1>. DEFINE av == {s \in Selected(x) : Type[s] # "sub"}
              pts == PtsMin({ref} \cup {x.ds[s].base_ts : s \in av})
              l == [s \in Streams |-> x.ds[s].last_ret]
              E == [s \in Streams |-> Refreshed(x.ds[s])]
              R == x.ranges
              D == x.ds
              again == [x EXCEPT !.ds = E, !.fw_bytes = @ - FwBytes(x.ds), !.total = @ - Held(Cur(x))]
              r == UpdateSeekRange(again, Emptied(x, l))
              cleared == SetCur(again, r)
              fl == {"hr"}
              to == pts - Second
  <1>1. z = IF pts = NoPts THEN x
            ELSE IF Selected(x) = {stream} THEN QueueSeek(x, pts, fl)
            ELSE QueueSeek(cleared, to, fl)
    <2>. HIDE DEF Second
    <2>1. Emptied(x, l) =
            [Cur(x) EXCEPT !.q = [s \in Streams |->
               IF x.ds[s].selected /\ x.ds[s].last_ret # 0
               THEN [EmptyQueue EXCEPT !.last = x.ds[s].last_ret] ELSE EmptyQueue]]
      BY DEF Emptied
    <2>2. E = [s \in Streams |->
                 [ReaderQueueCleared(x.ds[s]) EXCEPT
                    !.refreshing = @ \/ (x.ds[s].selected /\ x.ds[s].last_ret # 0)]]
      BY DEF Refreshed
    <2>. HIDE DEF E
    <2>. QED  BY <2>1, <2>2 DEF InitiateRefreshSeek
  <1>2. /\ DOMAIN x = Fields /\ ~x.failed /\ Stored(R, D, x.total)
        /\ x.fw_bytes = FwBytes(D) /\ Books(R, D, x.total, x.fw_bytes)
        /\ Follows(R, D, x.seeking \/ b, fp) /\ Len(R) <= MaxRanges
        /\ D \in [Streams -> Readers]
    BY DEF Sound, Nearly, Books, Stored, Served
  <1>. HIDE DEF pts, fl, to
  <1>3. CASE pts = NoPts
    BY <1>1, <1>3 DEF Quiet
  <1>4. CASE pts # NoPts /\ Selected(x) = {stream}
    <2>1. z = QueueSeek(x, pts, fl)
      BY <1>1, <1>4
    <2>2. \A s \in Streams : D[s].refreshing \/ Last(R).q[s].pkts = <<>>
      <3>1. \A s \in Streams : s # stream => ~D[s].selected
        BY <1>4 DEF Selected
      <3>. QED  BY <1>2, <3>1, StoredAre
    <2>3. /\ Nearly(z, b, fp) /\ AllBut({"seeking", "seek_pts", "seek_flags"}, x, z)
          /\ z.ranges = x.ranges
      BY <1>2, <2>1, <2>2, QueueSeekOk
    <2>4. z.run_fn = x.run_fn /\ z.asleep = x.asleep
      BY <2>3 DEF AllBut, Fields
    <2>. QED  BY <1>2, <2>3, <2>4 DEF Sound, Quiet
  <1>5. CASE pts # NoPts /\ Selected(x) # {stream}
    <2>1. z = QueueSeek(cleared, to, fl)
      BY <1>1, <1>5
    <2>2. /\ E \in [Streams -> Readers]
          /\ \A s \in Streams : /\ E[s].head = 0 /\ E[s].fw = 0
                                /\ (E[s].selected <=> D[s].selected)
      <3>1. E = [s \in Streams |-> Refreshed(D[s])]
        OBVIOUS
      <3>. HIDE DEF E, D
      <3>. QED  BY <1>2, <3>1, RefreshedIs
    <2>. HIDE DEF E
    <2>3. /\ Cur(x) \in Ranges /\ Cur(x) = R[Len(R)] /\ Len(R) \in 1..Len(R)
          /\ FwBytes(D) \in Nat
      BY <1>2, StoredAre DEF Cur
    <2>4. l \in [Streams -> Numbers]
      <3>1. \A s \in Streams : D[s].last_ret \in Numbers
        BY <1>2 DEF Readers
      <3>. QED  BY <3>1
    <2>. HIDE DEF l
    <2>5. /\ RangeOk(Emptied(x, l)) /\ Emptied(x, l) \in Ranges /\ Held(Emptied(x, l)) = 0
          /\ \A s \in Streams : Emptied(x, l).q[s].pkts = <<>>
      BY <2>3, <2>4, EmptiedOk
    <2>6. /\ RangeOk(r) /\ r \in Ranges /\ Held(r) = 0
          /\ \A s \in Streams : r.q[s].pkts = <<>>
      BY <2>5, UpdateSeekRangeOk
    <2>. HIDE DEF r
    <2>7. /\ AllBut({"ds", "fw_bytes", "total"}, x, again) /\ again.ds = E
          /\ again.fw_bytes = x.fw_bytes - FwBytes(D) /\ again.total = x.total - Held(Cur(x))
      BY <1>2 DEF AllBut, Fields
    <2>. HIDE DEF again
    <2>8. DOMAIN again = Fields /\ again.ranges = R
      BY <2>7 DEF AllBut, Fields
    <2>9. /\ AllBut({"ranges"}, again, cleared) /\ cleared.ranges = [R EXCEPT ![Len(R)] = r]
      BY <2>8 DEF SetCur, AllBut, Fields
    <2>. HIDE DEF cleared
    <2>10. /\ cleared.ds = E /\ cleared.total = x.total - Held(Cur(x)) /\ DOMAIN cleared = Fields
           /\ cleared.fw_bytes = x.fw_bytes - FwBytes(D) /\ ~cleared.failed
           /\ cleared.run_fn = x.run_fn /\ cleared.asleep = x.asleep
      BY <1>2, <2>7, <2>9 DEF AllBut, Fields
    <2>11. /\ Stored(cleared.ranges, D, cleared.total) /\ Len(cleared.ranges) = Len(R)
           /\ Last(cleared.ranges) = r
      <3>. DEFINE k == Len(R)
      <3>1. k \in 1..Len(R) /\ k = Len(R)
        BY <2>3
      <3>2. \A s \in Streams : ~D[s].selected => r.q[s].pkts = <<>>
        BY <2>6
      <3>3. cleared.ranges = [R EXCEPT ![k] = r]
        BY <2>9
      <3>. HIDE DEF k
      <3>4. /\ Stored([R EXCEPT ![k] = r], D, x.total - Held(R[k]) + Held(r))
            /\ Len([R EXCEPT ![k] = r]) = Len(R)
            /\ Last([R EXCEPT ![k] = r]) = (IF k = Len(R) THEN r ELSE Last(R))
            /\ Held(R[k]) \in Nat /\ x.total \in Nat
        BY <1>2, <2>6, <3>1, <3>2, StoredRange
      <3>5. x.total - Held(R[k]) + Held(r) = cleared.total
        <4>. DEFINE a == Held(R[k])
        <4>1. a \in Nat /\ cleared.total = x.total - a
          BY <2>3, <2>10, <3>1, <3>4
        <4>. HIDE DEF a
        <4>2. x.total - a + 0 = cleared.total
          BY <3>4, <4>1
        <4>. QED  BY <2>6, <4>2 DEF a
      <3>. QED  BY <3>1, <3>3, <3>4, <3>5
    <2>12. Stored(cleared.ranges, cleared.ds, cleared.total)
      <3>1. Stored(cleared.ranges, E, cleared.total)
        BY <2>2, <2>11, StoredReaders
      <3>. QED  BY <2>10, <3>1
    <2>13. Served(cleared.ranges, cleared.ds, cleared.fw_bytes)
      <3>1. FwBytes(E) = 0
        BY <2>2, FwIs
      <3>2. cleared.fw_bytes = 0
        BY <1>2, <2>3, <2>10
      <3>3. \A s \in Streams : ReaderOk(r.q[s], E[s])
        BY <2>2 DEF ReaderOk, From
      <3>. QED  BY <2>10, <2>11, <3>1, <3>2, <3>3 DEF Served
    <2>14. /\ Nearly(z, b, fp) /\ AllBut({"seeking", "seek_pts", "seek_flags"}, cleared, z)
           /\ z.ranges = cleared.ranges
      <3>1. Books(cleared.ranges, cleared.ds, cleared.total, cleared.fw_bytes)
        BY <2>12, <2>13 DEF Books
      <3>2. \A s \in Streams : cleared.ds[s].refreshing \/ Last(cleared.ranges).q[s].pkts = <<>>
        BY <2>6, <2>11
      <3>3. DOMAIN cleared = Fields /\ ~cleared.failed
        BY <2>10
      <3>. DEFINE c == cleared
      <3>4. \A s \in Streams : c.ds[s].refreshing \/ Last(c.ranges).q[s].pkts = <<>>
        BY <3>2
      <3>5. DOMAIN c = Fields
        BY <3>3
      <3>6. ~c.failed
        BY <3>3
      <3>7. Books(c.ranges, c.ds, c.total, c.fw_bytes)
        BY <3>1
      <3>8. z = QueueSeek(c, to, fl)
        BY <2>1
      <3>. HIDE DEF c, R, D
      <3>9. /\ Nearly(z, b, fp) /\ AllBut({"seeking", "seek_pts", "seek_flags"}, c, z)
            /\ z.ranges = c.ranges
        BY <3>4, <3>5, <3>6, <3>7, <3>8, QueueSeekOk
      <3>. QED  BY <3>9 DEF c
    <2>15. z.run_fn = x.run_fn /\ z.asleep = x.asleep
      BY <2>10, <2>14 DEF AllBut, Fields
    <2>16. Len(z.ranges) <= MaxRanges
      BY <1>2, <2>11, <2>14
    <2>17. Sound(z, b, fp)
      BY <2>14, <2>16 DEF Sound
    <2>. QED  BY <2>15, <2>17 DEF Quiet
  <1>. QED  BY <1>3, <1>4, <1>5

\* A range whose streams in drop lost their packets
Without(r, drop) ==
  [r EXCEPT !.q = [t \in Streams |-> IF t \in drop THEN EmptyQueue ELSE @[t]]]

\* Clearing some queues of a range leaves the other ones,
LEMMA DroppedOk ==
  ASSUME NEW r, RangeOk(r), NEW drop, NEW c, c = Without(r, drop)
  PROVE  /\ RangeOk(c) /\ c \in Ranges
         /\ \A t \in Streams : /\ t \in drop => c.q[t].pkts = <<>>
                               /\ t \notin drop => c.q[t] = r.q[t]
  <1>. DEFINE Q == [t \in Streams |-> IF t \in drop THEN EmptyQueue ELSE r.q[t]]
  <1>1. r \in Ranges /\ \A t \in Streams : QueueOk(t, r.q[t])
    BY DEF RangeOk
  <1>2. c = [r EXCEPT !.q = Q]
    BY DEF Without
  <1>3. \A t \in Streams : QueueOk(t, EmptyQueue) /\ EmptyQueue.pkts = <<>>
    <2>1. 0 \in Numbers
      BY FileIs
    <2>. QED  BY <2>1, NoPacketsOk
  <1>4. \A t \in Streams : /\ QueueOk(t, Q[t]) /\ (t \in drop => Q[t].pkts = <<>>)
                           /\ (t \notin drop => Q[t] = r.q[t])
    BY <1>1, <1>3
  <1>5. Q \in [Streams -> Queues]
    <2>1. \A t \in Streams : Q[t] \in Queues
      BY <1>4 DEF QueueOk
    <2>. QED  BY <2>1
  <1>. HIDE DEF Q
  <1>6. c \in Ranges /\ c.q = Q
    BY <1>1, <1>2, <1>5 DEF Ranges
  <1>. QED  BY <1>4, <1>6 DEF RangeOk

\* as in all ranges when a stream is switched off,
LeftOf(x, R, drop) == [n \in DOMAIN R |-> UpdateSeekRange(x, Without(R[n], drop))]

\* which keeps the books of the ranges.
LEMMA LeftOk ==
  ASSUME NEW R, NEW D, NEW T, Stored(R, D, T), NEW x, NEW drop, NEW L, L = LeftOf(x, R, drop),
         NEW E \in [Streams -> Readers],
         \A t \in Streams : ~E[t].selected => t \in drop \/ ~D[t].selected
  PROVE  /\ Stored(L, E, Bytes(L)) /\ Len(L) = Len(R)
         /\ \A t \in Streams : t \notin drop => Last(L).q[t] = Last(R).q[t]
         /\ \A n \in 1..Len(L), t \in Streams : t \in drop => L[n].q[t].pkts = <<>>
         /\ \A t \in Streams : t \in drop => Last(L).q[t].pkts = <<>>
  <1>. DEFINE N == Len(R)
  <1>1. /\ R \in Seq(Ranges) /\ N \in Nat \ {0} /\ DOMAIN R = 1..N /\ N \in 1..N
        /\ Last(R) = R[N] /\ \A n \in 1..N : RangeOk(R[n])
    BY StoredAre
  <1>2. ASSUME NEW n \in 1..N
        PROVE  /\ RangeOk(L[n]) /\ L[n] \in Ranges
               /\ \A t \in Streams : /\ t \in drop => L[n].q[t].pkts = <<>>
                                     /\ t \notin drop => L[n].q[t] = R[n].q[t]
    <2>. DEFINE r == R[n]
                c == Without(r, drop)
                u == L[n]
    <2>1. RangeOk(r) /\ u = UpdateSeekRange(x, c)
      BY <1>1 DEF LeftOf
    <2>2. /\ RangeOk(c) /\ c \in Ranges
          /\ \A t \in Streams : /\ t \in drop => c.q[t].pkts = <<>>
                                /\ t \notin drop => c.q[t] = r.q[t]
      <3>1. c = Without(r, drop)
        OBVIOUS
      <3>. HIDE DEF r, c
      <3>. QED  BY <2>1, <3>1, DroppedOk
    <2>. HIDE DEF r, c, u
    <2>3. RangeOk(u) /\ u \in Ranges /\ u.q = c.q
      BY <2>1, <2>2, UpdateSeekRangeOk
    <2>4. /\ RangeOk(u) /\ u \in Ranges
          /\ \A t \in Streams : /\ t \in drop => u.q[t].pkts = <<>>
                                /\ t \notin drop => u.q[t] = r.q[t]
      BY <2>2, <2>3
    <2>. QED  BY <2>4 DEF r, u
  <1>3. L \in Seq(Ranges) /\ Len(L) = N
    <2>1. L \in [1..N -> Ranges]
      <3>1. L = [n \in 1..N |-> L[n]]
        BY <1>1 DEF LeftOf
      <3>. QED  BY <1>2, <3>1
    <2>2. L \in Seq(Ranges)
      BY <1>1, <2>1, SeqDef
    <2>. QED  BY <1>1, <2>1, <2>2, LenProperties
  <1>4. L # <<>> /\ Last(L) = L[N]
    <2>1. L # <<>>
      BY <1>1, <1>3, EmptySeq
    <2>. QED  BY <1>3, <2>1 DEF Last
  <1>. HIDE DEF N
  <1>5. \A t \in Streams : ~E[t].selected => \A n \in 1..N : L[n].q[t].pkts = <<>>
    <2>. SUFFICES ASSUME NEW t \in Streams, ~E[t].selected, NEW n \in 1..N
                  PROVE  L[n].q[t].pkts = <<>>
      OBVIOUS
    <2>1. CASE t \in drop
      BY <1>2, <2>1
    <2>2. CASE t \notin drop
      <3>1. ~D[t].selected
        BY <2>2
      <3>2. R[n].q[t].pkts = <<>>
        BY <3>1 DEF Stored, N
      <3>3. L[n].q[t] = R[n].q[t]
        BY <1>2, <2>2
      <3>. QED  BY <3>2, <3>3
    <2>. QED  BY <2>1, <2>2
  <1>6. Stored(L, E, Bytes(L))
    BY <1>2, <1>3, <1>4, <1>5 DEF Stored
  <1>7. \A n \in 1..Len(L), t \in Streams : t \in drop => L[n].q[t].pkts = <<>>
    BY <1>2, <1>3
  <1>8. \A t \in Streams : /\ t \notin drop => Last(L).q[t] = Last(R).q[t]
                           /\ t \in drop => Last(L).q[t].pkts = <<>>
    BY <1>1, <1>2, <1>4
  <1>. QED  BY <1>3, <1>6, <1>7, <1>8 DEF N

\* The readers when s is selected, or not any more
Toggled(D, s) == [D EXCEPT ![s].selected = ~D[s].selected]

\* A reader who begins anew.
Restarted(D, s) == [D EXCEPT ![s] = [ReaderCleared(@) EXCEPT !.refreshing = FALSE]]

\* Switching a stream changes its reader only.
LEMMA RestartedIs ==
  ASSUME NEW D \in [Streams -> Readers], NEW s \in Streams, NEW C, C = Toggled(D, s),
         NEW E, E = Restarted(C, s)
  PROVE  /\ C \in [Streams -> Readers] /\ (C[s].selected <=> ~D[s].selected) /\ C[s].fw = D[s].fw
         /\ E \in [Streams -> Readers] /\ E[s].head = 0 /\ E[s].fw = 0
         /\ (E[s].selected <=> ~D[s].selected)
         /\ \A t \in Streams : t # s => C[t] = D[t] /\ E[t] = D[t]
  <1>. DEFINE d == D[s]
              c == C[s]
              e == E[s]
              g == ReaderCleared(c)
              no == ~d.selected
  <1>1. d \in Readers /\ no \in BOOLEAN
    OBVIOUS
  <1>2. /\ c = [d EXCEPT !.selected = no] /\ C = [D EXCEPT ![s] = c]
        /\ \A t \in Streams : t # s => C[t] = D[t]
    BY DEF Toggled
  <1>3. /\ e = [g EXCEPT !.refreshing = FALSE] /\ E = [C EXCEPT ![s] = e]
        /\ \A t \in Streams : t # s => E[t] = D[t]
    BY <1>2 DEF Restarted
  <1>. HIDE DEF d, c, e, no
  <1>4. c \in Readers /\ (c.selected <=> no) /\ c.fw = d.fw
    BY <1>1, <1>2 DEF Readers
  <1>5. C \in [Streams -> Readers]
    BY <1>2, <1>4
  <1>6. g \in Readers /\ g.head = 0 /\ g.fw = 0 /\ (g.selected <=> c.selected)
    BY <1>4, ReaderClearedIs
  <1>. HIDE DEF g
  <1>7. e \in Readers /\ e.head = 0 /\ e.fw = 0 /\ (e.selected <=> g.selected)
    BY <1>3, <1>6 DEF Readers
  <1>8. E \in [Streams -> Readers]
    BY <1>3, <1>5, <1>7
  <1>. QED  BY <1>2, <1>3, <1>4, <1>5, <1>6, <1>7, <1>8 DEF c, d, e, no

\* update_stream_selection_state keeps the books, and leaves nothing of the
\* stream in the cache.
LEMMA UpdateStreamSelectionOk ==
  ASSUME NEW x, NEW b, NEW fp, Sound(x, b, fp), NEW s \in Streams,
         NEW w, AllBut({"ds"}, x, w), w.ds = Toggled(x.ds, s),
         NEW z, z = UpdateStreamSelection(w, s)
  PROVE  Sound(z, b, fp) /\ Quiet(x, z) /\ Last(z.ranges).q[s].pkts = <<>>
  <1>. DEFINE R == x.ranges
              D == x.ds
              C == w.ds
              drop == IF C[s].selected THEN {} ELSE {s}
              L == LeftOf(w, R, drop)
              E == Restarted(C, s)
              F2 == w.fw_bytes - C[s].fw
              T2 == w.total - (Bytes(R) - Bytes(L))
              bl == w.blocked /\ Selected(w) # {}
              y == [w EXCEPT !.ds = E, !.fw_bytes = F2, !.blocked = bl, !.ranges = L, !.total = T2]
              v == FreeEmptyRanges(y)
  <1>1. /\ DOMAIN x = Fields /\ ~x.failed /\ Stored(R, D, x.total)
        /\ Served(R, D, x.fw_bytes) /\ Follows(R, D, x.seeking \/ b, fp) /\ Len(R) <= MaxRanges
        /\ D \in [Streams -> Readers] /\ x.fw_bytes = FwBytes(D)
    BY DEF Sound, Nearly, Books, Stored, Served
  <1>2. /\ w.ranges = R /\ w.total = x.total /\ w.fw_bytes = x.fw_bytes /\ w.failed = x.failed
        /\ w.seeking = x.seeking /\ DOMAIN w = Fields /\ w.run_fn = x.run_fn /\ w.asleep = x.asleep
    BY DEF AllBut, Fields
  <1>3. z = Wakeup(v, {s})
    <2>1. L = [n \in DOMAIN w.ranges |->
                 UpdateSeekRange(w, [w.ranges[n] EXCEPT !.q =
                   [t \in Streams |-> IF t \in drop THEN EmptyQueue ELSE @[t]]])]
      BY <1>2 DEF LeftOf, Without
    <2>. DEFINE y0 == [w EXCEPT
                         !.ds[s] = [ReaderCleared(@) EXCEPT !.refreshing = FALSE],
                         !.fw_bytes = @ - w.ds[s].fw,
                         !.blocked = @ /\ Selected(w) # {},
                         !.ranges = L,
                         !.total = @ - (Bytes(w.ranges) - Bytes(L))]
    <2>2. z = Wakeup(FreeEmptyRanges(y0), {s})
      <3>. HIDE DEF L
      <3>. QED  BY <2>1 DEF UpdateStreamSelection
    <2>. HIDE DEF L
    <2>3. y0 = y
      BY <1>2 DEF Restarted, Fields
    <2>. QED  BY <2>2, <2>3
  <1>4. /\ C \in [Streams -> Readers] /\ (C[s].selected <=> ~D[s].selected) /\ C[s].fw = D[s].fw
        /\ E \in [Streams -> Readers] /\ E[s].head = 0 /\ E[s].fw = 0
        /\ (E[s].selected <=> ~D[s].selected)
        /\ \A t \in Streams : t # s => C[t] = D[t] /\ E[t] = D[t]
    <2>1. C = Toggled(D, s) /\ E = Restarted(C, s)
      OBVIOUS
    <2>. HIDE DEF C, E, D
    <2>. QED  BY <1>1, <2>1, RestartedIs
  <1>. HIDE DEF E
  <1>5. /\ Stored(L, E, Bytes(L)) /\ Len(L) = Len(R)
        /\ \A t \in Streams : t \notin drop => Last(L).q[t] = Last(R).q[t]
        /\ \A t \in Streams : t \in drop => Last(L).q[t].pkts = <<>>
    <2>1. \A t \in Streams : ~E[t].selected => t \in drop \/ ~D[t].selected
      BY <1>4
    <2>2. L = LeftOf(w, R, drop)
      OBVIOUS
    <2>. HIDE DEF L, drop, R, D
    <2>. QED  BY <1>1, <1>4, <2>1, <2>2, LeftOk
  <1>6. Last(L).q[s].pkts = <<>>
    <2>1. CASE C[s].selected
      <3>1. Last(R).q[s].pkts = <<>>
        BY <1>1, <1>4, <2>1, StoredAre
      <3>. QED  BY <1>5, <2>1, <3>1
    <2>2. CASE ~C[s].selected
      BY <1>5, <2>2
    <2>. QED  BY <2>1, <2>2
  <1>7. \A t \in Streams : t # s => Last(L).q[t] = Last(R).q[t]
    BY <1>5
  <1>. HIDE DEF L
  <1>8. T2 = Bytes(L)
    <2>1. x.total \in Nat /\ x.total = Bytes(R)
      BY <1>1, StoredAre
    <2>2. Bytes(L) \in Nat
      BY <1>5, StoredAre
    <2>. DEFINE l == Bytes(L)
                h == Bytes(R)
    <2>3. T2 = h - (h - l) /\ l \in Nat /\ h \in Nat
      BY <1>2, <2>1, <2>2
    <2>. HIDE DEF l, h, T2
    <2>4. T2 = l
      BY <2>3
    <2>. QED  BY <2>4 DEF l
  <1>9. F2 = FwBytes(E)
    <2>1. FwBytes(E) = FwBytes(D) - D[s].fw + E[s].fw
      BY <1>1, <1>4, FwChanged
    <2>2. FwBytes(D) \in Nat /\ D[s].fw \in Nat
      BY <1>1, FwIs
    <2>. DEFINE h == FwBytes(D)
                f == D[s].fw
                g == FwBytes(E)
    <2>3. F2 = h - f /\ h \in Nat /\ f \in Nat /\ g = h - f + 0
      BY <1>1, <1>2, <1>4, <2>1, <2>2
    <2>. HIDE DEF h, f, g, F2
    <2>4. F2 = g
      BY <2>3
    <2>. QED  BY <2>4 DEF g
  <1>. HIDE DEF T2, F2, bl
  <1>10. /\ AllBut({"ds", "fw_bytes", "blocked", "ranges", "total"}, w, y)
         /\ y.ds = E /\ y.fw_bytes = F2 /\ y.ranges = L /\ y.total = T2
    BY <1>2 DEF AllBut, Fields
  <1>. HIDE DEF y
  <1>11. /\ DOMAIN y = Fields /\ ~y.failed /\ y.seeking = x.seeking
         /\ y.run_fn = x.run_fn /\ y.asleep = x.asleep
    BY <1>1, <1>2, <1>10 DEF AllBut, Fields
  <1>12. Served(L, E, F2)
    <2>1. ASSUME NEW t \in Streams PROVE ReaderOk(Last(L).q[t], E[t])
      <3>1. CASE t = s
        BY <1>4, <3>1 DEF ReaderOk, From
      <3>2. CASE t # s
        <4>1. ReaderOk(Last(R).q[t], D[t])
          BY <1>1 DEF Served
        <4>. QED  BY <1>4, <1>7, <3>2, <4>1
      <3>. QED  BY <3>1, <3>2
    <2>. QED  BY <1>9, <2>1 DEF Served
  <1>13. Follows(L, E, x.seeking \/ b, fp)
    <2>1. ASSUME NEW t \in Streams
          PROVE  \/ E[t].refreshing \/ Last(L).q[t].pkts = <<>>
                 \/ ~(x.seeking \/ b) /\ Last(L).q[t].last < fp
      <3>1. CASE t = s
        BY <1>6, <3>1
      <3>2. CASE t # s
        <4>1. \/ D[t].refreshing \/ Last(R).q[t].pkts = <<>>
              \/ ~(x.seeking \/ b) /\ Last(R).q[t].last < fp
          BY <1>1 DEF Follows
        <4>2. E[t] = D[t] /\ Last(L).q[t] = Last(R).q[t]
          BY <1>4, <1>7, <3>2
        <4>. QED  BY <4>1, <4>2
      <3>. QED  BY <3>1, <3>2
    <2>. QED  BY <2>1 DEF Follows
  <1>14. Nearly(y, b, fp)
    BY <1>5, <1>8, <1>10, <1>11, <1>12, <1>13 DEF Nearly, Books
  <1>15. /\ Sound(v, b, fp) /\ AllBut({"ranges", "total"}, y, v)
         /\ Last(v.ranges) = Last(y.ranges)
    <2>1. v = FreeEmptyRanges(y)
      OBVIOUS
    <2>2. Len(y.ranges) <= MaxRanges + 1
      <3>1. Len(R) \in Nat /\ Len(R) <= MaxRanges
        BY <1>1, StoredAre
      <3>. QED  BY <1>5, <1>10, <3>1, DemuxAssumption
    <2>. HIDE DEF v
    <2>. QED  BY <1>14, <2>1, <2>2, FreeOk
  <1>. HIDE DEF v
  <1>16. v.run_fn = x.run_fn /\ v.asleep = x.asleep
    BY <1>11, <1>15 DEF AllBut, Fields
  <1>17. Sound(z, b, fp) /\ Quiet(v, z)
    BY <1>3, <1>15, WakeupOk
  <1>18. Quiet(x, z)
    BY <1>16, <1>17 DEF Quiet
  <1>19. z.ranges = v.ranges
    <2>1. DOMAIN v = Fields
      BY <1>15 DEF AllBut
    <2>. QED  BY <1>3, <2>1 DEF Wakeup, Signal, Fields
  <1>. QED  BY <1>6, <1>10, <1>15, <1>17, <1>18, <1>19

\* demuxer_select_track keeps the books, with the refresh seek it may ask for.
LEMMA SelectTrackOk ==
  ASSUME NEW x, NEW b, NEW fp, Sound(x, b, fp), NEW s \in Streams, NEW ref,
         NEW z, z = SelectTrack(x, s, ref)
  PROVE  Sound(z, b, fp) /\ Quiet(x, z)
  <1>. DEFINE on == ~x.ds[s].selected
              w == [x EXCEPT !.ds[s].selected = on]
              y == UpdateStreamSelection(w, s)
              v == [y EXCEPT !.switched = TRUE]
              u == IF on /\ ~x.initial THEN InitiateRefreshSeek(v, s, ref) ELSE v
  <1>1. z = Signal(u)
    BY DEF SelectTrack
  <1>2. DOMAIN x = Fields
    BY DEF Sound, Nearly
  <1>3. AllBut({"ds"}, x, w) /\ w.ds = Toggled(x.ds, s)
    BY <1>2 DEF AllBut, Fields, Toggled
  <1>. HIDE DEF w
  <1>4. Sound(y, b, fp) /\ Quiet(x, y) /\ Last(y.ranges).q[s].pkts = <<>>
    <2>1. y = UpdateStreamSelection(w, s)
      OBVIOUS
    <2>. HIDE DEF y
    <2>. QED  BY <1>3, <2>1, UpdateStreamSelectionOk
  <1>. HIDE DEF y
  <1>5. AllBut({"switched"}, y, v)
    <2>1. DOMAIN y = Fields
      BY <1>4 DEF Sound, Nearly
    <2>. QED  BY <2>1 DEF AllBut, Fields
  <1>. HIDE DEF v
  <1>6. Sound(v, b, fp) /\ v.ranges = y.ranges
    <2>1. {"switched"} \cap Core = {}
      BY DEF Core
    <2>. QED  BY <1>4, <1>5, <2>1, Aside
  <1>7. Quiet(x, v)
    BY <1>4, <1>5 DEF Quiet, AllBut, Fields
  <1>. HIDE DEF on
  <1>8. Sound(u, b, fp) /\ Quiet(v, u)
    <2>1. CASE on /\ ~x.initial
      <3>1. u = InitiateRefreshSeek(v, s, ref) /\ Last(v.ranges).q[s].pkts = <<>>
        BY <1>4, <1>6, <2>1
      <3>. HIDE DEF u
      <3>. QED  BY <1>6, <3>1, InitiateRefreshSeekOk
    <2>2. CASE ~(on /\ ~x.initial)
      BY <1>6, <2>2 DEF Quiet
    <2>. QED  BY <2>1, <2>2
  <1>. HIDE DEF u
  <1>9. Sound(z, b, fp) /\ Quiet(u, z)
    BY <1>1, <1>8, SignalOk
  <1>. QED  BY <1>7, <1>8, <1>9, QuietBoth

\* demux_flush leaves nothing in the cache.
LEMMA FlushAllOk ==
  ASSUME NEW x, NEW b, NEW fp, Sound(x, b, fp), NEW z, z = FlushAll(x)
  PROVE  Sound(z, b, fp) /\ Quiet(x, z) /\ z.total = 0
  <1>. DEFINE y == ClearReaderState(x)
              R == x.ranges
              L == LeftOf(y, R, Streams)
              T2 == y.total - Bytes(R)
              e == [y EXCEPT !.ranges = L, !.total = T2]
  <1>1. /\ Sound(y, b, fp) /\ Quiet(x, y)
        /\ AllBut({"ds", "fw_bytes", "blocked", "failed", "dry", "cut"}, x, y)
        /\ \A s \in Streams : /\ y.ds[s].head = 0 /\ y.ds[s].fw = 0
    <2>1. y = ClearReaderState(x)
      OBVIOUS
    <2>. HIDE DEF y
    <2>. QED  BY <2>1, ClearReaderStateOk
  <1>2. z = FreeEmptyRanges(e)
    <2>1. y.ranges = R
      BY <1>1 DEF AllBut, Fields
    <2>2. L = [n \in DOMAIN R |-> ClearRange(y, R[n])]
      BY DEF LeftOf, ClearRange, Without
    <2>. HIDE DEF L, R
    <2>3. z = FreeEmptyRanges([y EXCEPT !.ranges = [n \in DOMAIN @ |-> ClearRange(y, @[n])],
                                        !.total = @ - Bytes(R)])
      BY DEF FlushAll, R
    <2>4. [y EXCEPT !.ranges = [n \in DOMAIN @ |-> ClearRange(y, @[n])], !.total = @ - Bytes(R)]
          = e
      BY <2>1, <2>2
    <2>. QED  BY <2>3, <2>4
  <1>. HIDE DEF y
  <1>3. /\ DOMAIN y = Fields /\ ~y.failed /\ Stored(y.ranges, y.ds, y.total) /\ y.ranges = R
        /\ y.fw_bytes = FwBytes(y.ds) /\ Len(R) <= MaxRanges /\ y.ds \in [Streams -> Readers]
    BY <1>1 DEF Sound, Nearly, Books, Served, Stored, AllBut, Fields
  <1>4. /\ Stored(L, y.ds, Bytes(L)) /\ Len(L) = Len(R)
        /\ \A n \in 1..Len(L), t \in Streams : t \in Streams => L[n].q[t].pkts = <<>>
        /\ \A t \in Streams : t \in Streams => Last(L).q[t].pkts = <<>>
    <2>. DEFINE D == y.ds
                T == y.total
                S == Streams
    <2>1. Stored(R, D, T) /\ L = LeftOf(y, R, S) /\ D \in [Streams -> Readers]
      BY <1>3
    <2>2. \A t \in Streams : ~D[t].selected => t \in S \/ ~D[t].selected
      OBVIOUS
    <2>. HIDE DEF L, D, T, R, S
    <2>3. /\ Stored(L, D, Bytes(L)) /\ Len(L) = Len(R)
          /\ \A n \in 1..Len(L), t \in Streams : t \in S => L[n].q[t].pkts = <<>>
          /\ \A t \in Streams : t \in S => Last(L).q[t].pkts = <<>>
      BY <2>1, <2>2, LeftOk
    <2>. QED  BY <2>3 DEF D, S
  <1>. HIDE DEF L
  <1>5. L \in Seq(Ranges) /\ \A n \in 1..Len(L) : L[n] \in Ranges
    BY <1>4, StoredAre
  <1>6. \A n \in 1..Len(L) : Held(L[n]) = 0
    <2>. SUFFICES ASSUME NEW n \in 1..Len(L) PROVE Held(L[n]) = 0
      OBVIOUS
    <2>. DEFINE r == L[n]
    <2>1. r \in Ranges /\ \A t \in Streams : r.q[t].pkts = <<>>
      BY <1>4, <1>5
    <2>. HIDE DEF r
    <2>2. Held(r) = 0
      BY <2>1, HeldIs
    <2>. QED  BY <2>2 DEF r
  <1>7. Bytes(L) = 0
    BY <1>5, <1>6, BytesZero
  <1>8. T2 = 0
    <2>1. y.total \in Nat /\ y.total = Bytes(R)
      BY <1>3, StoredAre
    <2>. QED  BY <2>1
  <1>. HIDE DEF T2
  <1>9. AllBut({"ranges", "total"}, y, e) /\ e.ranges = L /\ e.total = T2
    BY <1>3 DEF AllBut, Fields
  <1>. HIDE DEF e
  <1>10. /\ DOMAIN e = Fields /\ e.ds = y.ds /\ e.fw_bytes = y.fw_bytes /\ ~e.failed
         /\ e.seeking = y.seeking /\ e.run_fn = y.run_fn /\ e.asleep = y.asleep
    BY <1>3, <1>9 DEF AllBut, Fields
  <1>11. Served(e.ranges, e.ds, e.fw_bytes)
    <2>1. \A s \in Streams : ReaderOk(Last(L).q[s], y.ds[s])
      BY <1>1 DEF ReaderOk, From
    <2>. QED  BY <1>3, <1>9, <1>10, <2>1 DEF Served
  <1>12. Stored(e.ranges, e.ds, e.total)
    BY <1>4, <1>7, <1>8, <1>9, <1>10
  <1>13. Follows(e.ranges, e.ds, e.seeking \/ b, fp)
    BY <1>4, <1>9 DEF Follows
  <1>14. Nearly(e, b, fp)
    BY <1>10, <1>11, <1>12, <1>13 DEF Nearly, Books
  <1>15. Len(e.ranges) <= MaxRanges + 1
    <2>1. Len(R) \in Nat /\ Len(R) <= MaxRanges
      BY <1>3, StoredAre
    <2>. QED  BY <1>4, <1>9, <2>1, DemuxAssumption
  <1>16. Sound(z, b, fp) /\ AllBut({"ranges", "total"}, e, z)
    BY <1>2, <1>14, <1>15, FreeOk
  <1>17. \A n \in 1..Len(z.ranges) : \E m \in 1..Len(e.ranges) : z.ranges[n] = e.ranges[m]
    BY <1>2, <1>10, <1>12, <1>15, FreeEmptyRangesIs
  <1>18. z.total = 0
    <2>1. Stored(z.ranges, z.ds, z.total)
      BY <1>16 DEF Sound, Nearly, Books
    <2>2. z.ranges \in Seq(Ranges) /\ z.total = Bytes(z.ranges)
      BY <2>1, StoredAre
    <2>3. \A n \in 1..Len(z.ranges) : Held(z.ranges[n]) = 0
      BY <1>6, <1>9, <1>17
    <2>. QED  BY <2>2, <2>3, BytesZero
  <1>19. z.run_fn = y.run_fn /\ z.asleep = y.asleep
    BY <1>10, <1>16 DEF AllBut, Fields
  <1>. QED  BY <1>1, <1>16, <1>18, <1>19 DEF Quiet

\* The packets that a read starts at are the first of the file, if it has not
\* read from there yet.
LEMMA BofOk ==
  ASSUME NEW x, NEW b, NEW fp, Sound(x, b, fp), NEW f \in [Streams -> BOOLEAN],
         NEW r, r = [Cur(x) EXCEPT !.q = [s \in Streams |-> [CurQ(x, s) EXCEPT !.bof = f[s]]]],
         NEW y, y = [SetCur(x, r) EXCEPT !.initial = FALSE]
  PROVE  Sound(y, b, fp) /\ Quiet(x, y)
  <1>. DEFINE Q == [s \in Streams |-> [CurQ(x, s) EXCEPT !.bof = f[s]]]
              w == SetCur(x, r)
  <1>1. /\ DOMAIN x = Fields /\ Cur(x) \in Ranges /\ \A s \in Streams : QueueOk(s, CurQ(x, s))
    <2>1. Stored(x.ranges, x.ds, x.total) /\ DOMAIN x = Fields
      BY DEF Sound, Nearly, Books
    <2>. QED  BY <2>1, StoredAre DEF Cur, CurQ
  <1>2. ASSUME NEW s \in Streams
        PROVE  /\ QueueOk(s, Q[s]) /\ SameIds(CurQ(x, s), Q[s]) /\ Q[s].last = CurQ(x, s).last
    <2>. DEFINE q == CurQ(x, s)
                g == f[s]
                p == Q[s]
    <2>1. QueueOk(s, q) /\ g \in BOOLEAN
      BY <1>1
    <2>2. p = [q EXCEPT !.bof = g]
      OBVIOUS
    <2>. HIDE DEF q, g, p
    <2>3. /\ p \in Queues /\ p.pkts = q.pkts /\ p.last = q.last /\ p.npt = q.npt
          /\ p.kf_latest = q.kf_latest
      BY <2>1, <2>2 DEF QueueOk, Queues
    <2>4. SameIds(q, p)
      BY <2>3 DEF SameIds
    <2>5. (p.npt # 0 => Has(q, p.npt)) /\ (p.kf_latest # 0 => Has(q, p.kf_latest))
      BY <2>1, <2>3 DEF QueueOk
    <2>6. QueueOk(s, p)
      BY <2>1, <2>3, <2>4, <2>5, SameIdsOk
    <2>. QED  BY <2>3, <2>4, <2>6 DEF p, q
  <1>3. Q \in [Streams -> Queues]
    <2>1. \A s \in Streams : Q[s] \in Queues
      BY <1>2 DEF QueueOk
    <2>. QED  BY <2>1
  <1>4. r = [Cur(x) EXCEPT !.q = Q]
    OBVIOUS
  <1>. HIDE DEF Q
  <1>5. r \in Ranges /\ r.q = Q
    BY <1>1, <1>3, <1>4 DEF Ranges
  <1>6. /\ RangeOk(r)
        /\ \A s \in Streams : SameIds(CurQ(x, s), r.q[s]) /\ r.q[s].last = CurQ(x, s).last
    BY <1>2, <1>5 DEF RangeOk
  <1>7. AllBut({"initial", "ranges"}, x, y) /\ y.ranges = [x.ranges EXCEPT ![Len(x.ranges)] = r]
    BY <1>1 DEF SetCur, AllBut, Fields
  <1>8. {"initial"} \cap Core = {} /\ {"initial"} \cup {"ranges"} = {"initial", "ranges"}
    BY DEF Core
  <1>9. Sound(y, b, fp)
    <2>. DEFINE S == {"initial"}
    <2>1. S \cap Core = {} /\ AllBut(S \cup {"ranges"}, x, y)
      BY <1>7, <1>8
    <2>. HIDE DEF S
    <2>. QED  BY <1>6, <1>7, <2>1, SameCurOk
  <1>. QED  BY <1>7, <1>9 DEF Quiet, AllBut, Fields
-----------------------------------------------------------------------------
(* The invariant                                                           *)

\* The books are right wherever the demuxer thread is.
Fine(x, t, fp) ==
  /\ t.pc = "seek" => Sound(x, TRUE, fp)
  /\ t.pc # "seek" => Sound(x, FALSE, fp)

\* Who sleeps: never both, and not the thread while it has something to run.
Sleepers(x) ==
  /\ x.asleep \in {{}, {"demux"}, {"player"}}
  /\ x.run_fn => "demux" \notin x.asleep

\* What the last call of the player has told of each stream.
Statuses == [Streams -> {"ready", "waits", "eof"}]

\* The inductive invariant.
DemuxInv ==
  /\ Fine(in, thread, fpos) /\ Sleepers(in)
  /\ fpos \in 1 .. Len(File) + 1
  /\ DOMAIN thread = {"pc", "pts", "flags"} /\ DOMAIN player = {"pc", "status", "ops"}
  /\ player.status \in Statuses

\* What keeps the books keeps them wherever the thread is.
LEMMA FineIs ==
  ASSUME NEW x, NEW t, NEW fp, Fine(x, t, fp)
  PROVE  /\ \E b : Sound(x, b, fp) /\ \A y : Sound(y, b, fp) => Fine(y, t, fp)
         /\ DOMAIN x = Fields
  <1>1. CASE t.pc = "seek"
    <2>1. Sound(x, TRUE, fp) /\ \A y : Sound(y, TRUE, fp) => Fine(y, t, fp)
      BY <1>1 DEF Fine
    <2>. QED  BY <2>1 DEF Sound, Nearly
  <1>2. CASE t.pc # "seek"
    <2>1. Sound(x, FALSE, fp) /\ \A y : Sound(y, FALSE, fp) => Fine(y, t, fp)
      BY <1>2 DEF Fine
    <2>. QED  BY <2>1 DEF Sound, Nearly
  <1>. QED  BY <1>1, <1>2

\* What changes beside the books keeps them.
LEMMA FineAside ==
  ASSUME NEW x, NEW t, NEW fp, Fine(x, t, fp), NEW S, NEW y, AllBut(S, x, y), S \cap Core = {}
  PROVE  Fine(y, t, fp)
  <1>1. PICK b : Sound(x, b, fp) /\ \A z : Sound(z, b, fp) => Fine(z, t, fp)
    BY FineIs
  <1>2. Sound(y, b, fp)
    BY <1>1, Aside
  <1>. QED  BY <1>1, <1>2

\* Waking keeps what is known of the sleepers.
LEMMA QuietSleepers ==
  ASSUME NEW x, NEW y, Sleepers(x), Quiet(x, y)
  PROVE  Sleepers(y)
  BY DEF Sleepers, Quiet

\* Once the demuxer has the seek it may be anywhere.
LEMMA SoundAnywhere ==
  ASSUME NEW x, NEW fp, NEW fq, Sound(x, TRUE, fp)
  PROVE  Sound(x, FALSE, fq)
  <1>1. Follows(x.ranges, x.ds, x.seeking \/ TRUE, fp)
    BY DEF Sound, Nearly
  <1>2. Follows(x.ranges, x.ds, x.seeking \/ FALSE, fq)
    BY <1>1 DEF Follows
  <1>. QED  BY <1>2 DEF Sound, Nearly

\* The thread takes the seek from the player.
LEMMA SeekTaken ==
  ASSUME NEW x, NEW fp, Sound(x, FALSE, fp), x.seeking, NEW y,
         AllBut({"seeking", "initial"}, x, y)
  PROVE  Sound(y, TRUE, fp)
  <1>1. Follows(x.ranges, x.ds, x.seeking \/ FALSE, fp)
    BY DEF Sound, Nearly
  <1>2. /\ DOMAIN y = Fields /\ y.ranges = x.ranges /\ y.ds = x.ds /\ y.total = x.total
        /\ y.fw_bytes = x.fw_bytes /\ y.failed = x.failed
    BY DEF AllBut, Fields
  <1>3. Follows(y.ranges, y.ds, y.seeking \/ TRUE, fp)
    BY <1>1, <1>2 DEF Follows
  <1>. QED  BY <1>2, <1>3 DEF Sound, Nearly

\* A seek of the demuxer leads into the file.
LEMMA SeekPositionIs ==
  ASSUME NEW pts, NEW flags
  PROVE  SeekPosition(pts, flags) \in 1 .. Len(File) + 1
  <1>. DEFINE kfs == {i \in Packets : File[i].kf /\ File[i].s = Min(Streams)}
              before == {i \in kfs : File[i].pts <= pts}
              after == {i \in kfs : File[i].pts >= pts}
              N == Len(File)
  <1>1. SeekPosition(pts, flags) =
          IF "forward" \in flags THEN IF after = {} THEN N + 1 ELSE Min(after)
          ELSE IF before = {} THEN 1 ELSE Max(before)
    BY DEF SeekPosition
  <1>2. N \in Nat /\ before \subseteq 1..N /\ after \subseteq 1..N
    BY FileIs
  <1>. HIDE DEF before, after, N
  <1>3. before # {} => Max(before) \in before
    BY <1>2, Places
  <1>4. after # {} => Min(after) \in after
    BY <1>2, Places
  <1>5. (before # {} => Max(before) \in 1..N) /\ (after # {} => Min(after) \in 1..N)
    BY <1>2, <1>3, <1>4, Zenon
  <1>6. SeekPosition(pts, flags) \in {1, N + 1} \cup 1..N
    BY <1>1, <1>5, Zenon
  <1>7. 1 \in 1..N + 1 /\ N + 1 \in 1..N + 1 /\ 1..N \subseteq 1..N + 1
    BY <1>2
  <1>8. SeekPosition(pts, flags) \in 1..N + 1
    BY <1>6, <1>7, Zenon
  <1>. QED  BY <1>8 DEF N

\* What a step of the thread that neither takes nor makes a seek must show
LEMMA ThreadMoves ==
  ASSUME DemuxInv, NEW pc, pc # "seek", thread.pc # "seek", Goto(pc),
         Sound(in', FALSE, fpos'), Sleepers(in'), fpos' \in 1 .. Len(File) + 1, ThreadOnly
  PROVE  DemuxInv'
  <1>1. thread' = [thread EXCEPT !.pc = pc] /\ player' = player
    BY DEF Goto, ThreadOnly
  <1>2. DOMAIN thread' = {"pc", "pts", "flags"} /\ thread'.pc = pc
    BY <1>1 DEF DemuxInv
  <1>3. Fine(in', thread', fpos')
    BY <1>2 DEF Fine
  <1>. QED  BY <1>1, <1>2, <1>3 DEF DemuxInv

\* demux_thread keeps the invariant,
LEMMA ThreadStepOk ==
  ASSUME NoSubtitles, DemuxInv, ThreadStep
  PROVE  DemuxInv'
  <1>1. /\ Fine(in, thread, fpos) /\ Sleepers(in) /\ fpos \in 1 .. Len(File) + 1
        /\ DOMAIN in = Fields /\ Len(File) \in Nat /\ Packets = 1..Len(File)
    BY FineIs, FileIs DEF DemuxInv
  <1>2. thread.pc # "seek" => Sound(in, FALSE, fpos)
    BY <1>1 DEF Fine
  <1>3. CASE RunFn
    <2>1. thread.pc = "loop" /\ in' = in /\ fpos' = fpos /\ Goto("run_fn") /\ ThreadOnly
      BY <1>3 DEF RunFn, InLoop
    <2>. QED  BY <1>1, <1>2, <2>1, ThreadMoves
  <1>4. CASE RunFnDone
    <2>. DEFINE w == [in EXCEPT !.run_fn = FALSE]
    <2>1. /\ thread.pc = "run_fn" /\ in' = Signal(w) /\ fpos' = fpos /\ Goto("loop") /\ ThreadOnly
      BY <1>4 DEF RunFnDone
    <2>2. AllBut({"run_fn"}, in, w) /\ w.run_fn = FALSE
      BY <1>1 DEF AllBut, Fields
    <2>. HIDE DEF w
    <2>3. Sound(w, FALSE, fpos)
      <3>1. {"run_fn"} \cap Core = {}
        BY DEF Core
      <3>. QED  BY <1>2, <2>1, <2>2, <3>1, Aside
    <2>4. Sound(in', FALSE, fpos) /\ Quiet(w, in')
      BY <2>1, <2>3, SignalOk
    <2>5. Sleepers(in')
      BY <1>1, <2>2, <2>4 DEF Sleepers, Quiet, AllBut, Fields
    <2>. QED  BY <1>1, <2>1, <2>4, <2>5, ThreadMoves
  <1>5. CASE ExecuteTrackswitch
    <2>1. /\ thread.pc = "loop" /\ in' = [in EXCEPT !.switched = FALSE] /\ fpos' = fpos
          /\ Goto("switch") /\ ThreadOnly
      BY <1>5 DEF ExecuteTrackswitch, InLoop
    <2>2. AllBut({"switched"}, in, in') /\ {"switched"} \cap Core = {}
      BY <1>1, <2>1 DEF AllBut, Fields, Core
    <2>3. Sound(in', FALSE, fpos)
      BY <1>2, <2>1, <2>2, Aside
    <2>4. Sleepers(in')
      BY <1>1, <2>2 DEF Sleepers, AllBut, Fields
    <2>. QED  BY <1>1, <2>1, <2>3, <2>4, ThreadMoves
  <1>6. CASE ExecuteSeek
    <2>1. /\ thread.pc = "loop" /\ in.seeking /\ fpos' = fpos /\ player' = player
          /\ in' = [in EXCEPT !.seeking = FALSE, !.initial = FALSE]
          /\ thread' = [pc |-> "seek", pts |-> in.seek_pts, flags |-> in.seek_flags]
      BY <1>6 DEF ExecuteSeek, InLoop, ThreadOnly
    <2>2. AllBut({"seeking", "initial"}, in, in')
      BY <1>1, <2>1 DEF AllBut, Fields
    <2>3. Sound(in', TRUE, fpos')
      BY <1>2, <2>1, <2>2, SeekTaken
    <2>4. Sleepers(in')
      BY <1>1, <2>2 DEF Sleepers, AllBut, Fields
    <2>5. thread'.pc = "seek" /\ DOMAIN thread' = {"pc", "pts", "flags"}
      BY <2>1
    <2>. QED  BY <1>1, <2>1, <2>3, <2>4, <2>5 DEF DemuxInv, Fine
  <1>7. CASE SeekDemuxer
    <2>1. /\ thread.pc = "seek" /\ fpos' = SeekPosition(thread.pts, thread.flags)
          /\ thread' = [thread EXCEPT !.pc = "loop"] /\ in' = in /\ player' = player
      BY <1>7 DEF SeekDemuxer, Goto, ThreadOnly
    <2>2. Sound(in, TRUE, fpos)
      BY <1>1, <2>1 DEF Fine
    <2>3. Sound(in', FALSE, fpos')
      BY <2>1, <2>2, SoundAnywhere
    <2>4. fpos' \in 1 .. Len(File) + 1
      BY <2>1, SeekPositionIs
    <2>5. thread'.pc = "loop" /\ DOMAIN thread' = {"pc", "pts", "flags"}
      BY <2>1 DEF DemuxInv
    <2>. QED  BY <1>1, <2>1, <2>3, <2>4, <2>5 DEF DemuxInv, Fine
  <1>8. CASE SwitchedTracks
    <2>1. thread.pc = "switch" /\ in' = in /\ fpos' = fpos /\ Goto("loop") /\ ThreadOnly
      BY <1>8 DEF SwitchedTracks
    <2>. QED  BY <1>1, <1>2, <2>1, ThreadMoves
  <1>9. CASE ReadPacket
    <2>. DEFINE bof(s) == IF in.initial THEN in.ds[s].selected ELSE CurQ(in, s).bof
                f == [s \in Streams |-> bof(s)]
                r == [Cur(in) EXCEPT !.q = [s \in Streams |-> [CurQ(in, s) EXCEPT !.bof = f[s]]]]
    <2>1. /\ thread.pc = "loop" /\ fpos' = fpos /\ Goto("fill") /\ ThreadOnly
          /\ in' = [SetCur(in, r) EXCEPT !.initial = FALSE]
      BY <1>9 DEF ReadPacket, InLoop
    <2>2. Sound(in, FALSE, fpos)
      BY <1>2, <2>1
    <2>3. f \in [Streams -> BOOLEAN]
      <3>1. Stored(in.ranges, in.ds, in.total)
        BY <2>2 DEF Sound, Nearly, Books
      <3>2. \A s \in Streams : QueueOk(s, CurQ(in, s)) /\ in.ds[s] \in Readers
        BY <3>1, StoredAre DEF CurQ, Cur
      <3>3. \A s \in Streams : CurQ(in, s).bof \in BOOLEAN /\ in.ds[s].selected \in BOOLEAN
        BY <3>2 DEF QueueOk, Queues, Readers
      <3>. QED  BY <3>3
    <2>. HIDE DEF f
    <2>4. Sound(in', FALSE, fpos) /\ Quiet(in, in')
      BY <2>1, <2>2, <2>3, BofOk
    <2>. QED  BY <1>1, <2>1, <2>4, QuietSleepers, ThreadMoves
  <1>10. CASE FillBuffer
    <2>1. thread.pc = "fill" /\ ThreadOnly
      BY <1>10 DEF FillBuffer
    <2>2. Sound(in, FALSE, fpos)
      BY <1>2, <2>1
    <2>3. CASE fpos \in Packets
      <3>1. in' = AddPacket(in, fpos) /\ fpos' = fpos + 1 /\ Goto("filled")
        BY <1>10, <2>3 DEF FillBuffer
      <3>2. Sound(in', FALSE, fpos') /\ Quiet(in, in')
        BY <2>2, <2>3, <3>1, AddPacketOk
      <3>3. fpos' \in 1 .. Len(File) + 1
        BY <1>1, <2>3, <3>1
      <3>. QED  BY <1>1, <2>1, <3>1, <3>2, <3>3, QuietSleepers, ThreadMoves
    <2>4. CASE fpos \notin Packets
      <3>1. in' = in /\ fpos' = fpos /\ Goto("eof")
        BY <1>10, <2>4 DEF FillBuffer
      <3>. QED  BY <1>1, <2>1, <2>2, <3>1, ThreadMoves
    <2>. QED  BY <2>3, <2>4
  <1>11. CASE Filled
    <2>1. /\ thread.pc # "seek" /\ in' = FillResult(in, thread.pc = "eof") /\ fpos' = fpos
          /\ Goto("loop") /\ ThreadOnly
      BY <1>11 DEF Filled
    <2>2. Sound(in', FALSE, fpos) /\ Quiet(in, in')
      <3>. DEFINE eof == thread.pc = "eof"
      <3>1. Sound(in, FALSE, fpos) /\ in' = FillResult(in, eof)
        BY <1>2, <2>1
      <3>. HIDE DEF eof
      <3>. QED  BY <3>1, FillResultOk
    <2>. QED  BY <1>1, <2>1, <2>2, QuietSleepers, ThreadMoves
  <1>12. CASE NothingToRead
    <2>. DEFINE w == IF MayRead /\ Full /\ ReadMore THEN MarkEof(in, FALSE) ELSE in
                v == Signal(w)
    <2>1. /\ thread.pc = "loop" /\ ~in.run_fn /\ in' = [v EXCEPT !.asleep = {"demux"}]
          /\ fpos' = fpos /\ Goto("asleep") /\ ThreadOnly
      BY <1>12 DEF NothingToRead, InLoop, NoRequest, Sleep
    <2>2. Sound(w, FALSE, fpos) /\ Quiet(in, w)
      <3>1. Sound(in, FALSE, fpos)
        BY <1>2, <2>1
      <3>2. Sound(MarkEof(in, FALSE), FALSE, fpos) /\ Quiet(in, MarkEof(in, FALSE))
        BY <3>1, MarkEofOk
      <3>3. Quiet(in, in)
        BY DEF Quiet
      <3>. QED  BY <3>1, <3>2, <3>3
    <2>. HIDE DEF w
    <2>3. Sound(v, FALSE, fpos) /\ Quiet(w, v)
      BY <2>2, SignalOk
    <2>. HIDE DEF v
    <2>4. AllBut({"asleep"}, v, in') /\ in'.asleep = {"demux"} /\ {"asleep"} \cap Core = {}
      <3>1. DOMAIN v = Fields
        BY <2>3 DEF Sound, Nearly
      <3>. QED  BY <2>1, <3>1 DEF AllBut, Fields, Core
    <2>5. Sound(in', FALSE, fpos)
      BY <2>3, <2>4, Aside
    <2>6. ~in'.run_fn
      BY <2>1, <2>2, <2>3, <2>4 DEF Quiet, AllBut, Fields
    <2>7. Sleepers(in')
      BY <2>4, <2>6 DEF Sleepers
    <2>. QED  BY <1>1, <2>1, <2>5, <2>7, ThreadMoves
  <1>13. CASE WakeUp
    <2>1. thread.pc = "asleep" /\ in' = in /\ fpos' = fpos /\ Goto("loop") /\ ThreadOnly
      BY <1>13 DEF WakeUp
    <2>. QED  BY <1>1, <1>2, <2>1, ThreadMoves
  <1>14. CASE Shutdown
    <2>. DEFINE x == FlushAll(in)
                fl == x.failed \/ x.total # 0
    <2>1. /\ thread.pc = "loop" /\ fpos' = fpos /\ Goto("end") /\ ThreadOnly
          /\ in' = [x EXCEPT !.shutdown = FALSE, !.woken = TRUE, !.failed = fl]
      BY <1>14 DEF Shutdown
    <2>2. Sound(x, FALSE, fpos) /\ Quiet(in, x) /\ x.total = 0
      <3>1. Sound(in, FALSE, fpos) /\ x = FlushAll(in)
        BY <1>2, <2>1
      <3>. HIDE DEF x
      <3>. QED  BY <3>1, FlushAllOk
    <2>. HIDE DEF x
    <2>3. ~x.failed /\ DOMAIN x = Fields
      BY <2>2 DEF Sound, Nearly
    <2>4. ~fl
      BY <2>2, <2>3
    <2>. HIDE DEF fl
    <2>5. AllBut({"shutdown", "woken", "failed"}, x, in') /\ ~in'.failed
      BY <2>1, <2>3, <2>4 DEF AllBut, Fields
    <2>6. Sound(in', FALSE, fpos)
      BY <2>2, <2>5 DEF Sound, Nearly, AllBut, Fields
    <2>7. Sleepers(in')
      <3>1. Sleepers(x)
        BY <1>1, <2>2, QuietSleepers
      <3>. QED  BY <2>5, <3>1 DEF Sleepers, AllBut, Fields
    <2>. QED  BY <1>1, <2>1, <2>6, <2>7, ThreadMoves
  <1>. QED  BY <1>3, <1>4, <1>5, <1>6, <1>7, <1>8, <1>9, <1>10, <1>11, <1>12, <1>13, <1>14
            DEF ThreadStep

\* What a step of the player must show
LEMMA PlayerMoves ==
  ASSUME DemuxInv, Fine(in', thread, fpos), Sleepers(in'), PlayerOnly,
         DOMAIN player' = DOMAIN player, player'.status \in Statuses
  PROVE  DemuxInv'
  BY DEF DemuxInv, PlayerOnly

\* demux_read_packet_async does,
LEMMA ReadPacketAsyncOk ==
  ASSUME DemuxInv, NEW s \in Streams, ReadPacketAsync(s)
  PROVE  DemuxInv'
  <1>. DEFINE got == in.ds[s].head # 0 /\ ~in.blocked
              eager == s \in Eager(in)
              x == IF got THEN Dequeue(in, s) ELSE in
              w == [x EXCEPT !.reading = TRUE, !.eof = FALSE]
              y == IF eager THEN Signal(w) ELSE x
              n == ~got
              r == IF got THEN "ready" ELSE IF eager /\ ~in.ds[s].eof THEN "waits" ELSE "eof"
  <1>1. /\ in' = [y EXCEPT !.ds[s].need = n] /\ player' = [player EXCEPT !.status[s] = r] /\ PlayerOnly
    BY DEF ReadPacketAsync
  <1>2. PICK b : Sound(in, b, fpos) /\ \A z : Sound(z, b, fpos) => Fine(z, thread, fpos)
    BY FineIs DEF DemuxInv
  <1>3. Sound(x, b, fpos) /\ Quiet(in, x)
    <2>1. CASE got
      <3>1. in.ds[s].head # 0 /\ x = Dequeue(in, s)
        BY <2>1
      <3>. HIDE DEF x, got
      <3>. QED  BY <1>2, <3>1, DequeueOk
    <2>2. CASE ~got
      BY <1>2, <2>2 DEF Quiet
    <2>. QED  BY <2>1, <2>2
  <1>4. r \in {"ready", "waits", "eof"} /\ n \in BOOLEAN
    OBVIOUS
  <1>. HIDE DEF x, got, eager, r, n
  <1>5. Sound(y, b, fpos) /\ Quiet(x, y)
    <2>1. AllBut({"reading", "eof"}, x, w) /\ {"reading", "eof"} \cap Core = {}
      <3>1. DOMAIN x = Fields
        BY <1>3 DEF Sound, Nearly
      <3>. QED  BY <3>1 DEF AllBut, Fields, Core
    <2>. HIDE DEF w
    <2>2. Sound(w, b, fpos) /\ Quiet(x, w)
      <3>1. Sound(w, b, fpos)
        BY <1>3, <2>1, Aside
      <3>. QED  BY <2>1, <3>1 DEF Quiet, AllBut, Fields
    <2>3. Sound(Signal(w), b, fpos) /\ Quiet(w, Signal(w))
      BY <2>2, SignalOk
    <2>4. CASE eager
      <3>. DEFINE v == Signal(w)
      <3>1. Sound(v, b, fpos) /\ Quiet(w, v)
        BY <2>3
      <3>. HIDE DEF v
      <3>2. Quiet(x, v)
        BY <2>2, <3>1, QuietBoth
      <3>. QED  BY <2>4, <3>1, <3>2 DEF v
    <2>5. CASE ~eager
      BY <1>3, <2>5 DEF Quiet
    <2>. QED  BY <2>4, <2>5
  <1>. HIDE DEF y
  <1>6. /\ DOMAIN y = Fields /\ y.ds \in [Streams -> Readers]
    BY <1>5 DEF Sound, Nearly, Books, Stored
  <1>7. AllBut({} \cup {"ds"}, y, in') /\ SameReaders(y.ds, in'.ds)
    <2>. DEFINE E == [y.ds EXCEPT ![s].need = n]
                d == y.ds[s]
                e == E[s]
    <2>1. in'.ds = E /\ AllBut({} \cup {"ds"}, y, in')
      BY <1>1, <1>6 DEF AllBut, Fields
    <2>2. d \in Readers /\ e = [d EXCEPT !.need = n] /\ \A t \in Streams : t # s => E[t] = y.ds[t]
      BY <1>6
    <2>3. E = [y.ds EXCEPT ![s] = e]
      BY <1>6
    <2>. HIDE DEF d, e
    <2>4. /\ e \in Readers /\ e.head = d.head /\ e.fw = d.fw /\ (e.selected <=> d.selected)
          /\ (e.refreshing <=> d.refreshing)
      BY <1>4, <2>2 DEF Readers
    <2>5. E \in [Streams -> Readers]
      BY <1>6, <2>3, <2>4
    <2>. HIDE DEF E
    <2>6. \A t \in Streams : /\ E[t].head = y.ds[t].head /\ E[t].fw = y.ds[t].fw
                             /\ (E[t].selected <=> y.ds[t].selected)
                             /\ (E[t].refreshing <=> y.ds[t].refreshing)
      BY <2>2, <2>4 DEF d, e
    <2>. QED  BY <2>1, <2>5, <2>6 DEF SameReaders
  <1>8. Sound(in', b, fpos)
    <2>. DEFINE S == {}
    <2>1. AllBut(S \cup {"ds"}, y, in') /\ S \cap Core = {}
      BY <1>7
    <2>. HIDE DEF S
    <2>. QED  BY <1>5, <1>7, <2>1, SameReadersOk
  <1>9. Quiet(in, in')
    <2>1. Quiet(in, y)
      BY <1>3, <1>5, QuietBoth
    <2>. QED  BY <1>7, <2>1 DEF Quiet, AllBut, Fields
  <1>10. Sleepers(in')
    BY <1>9, QuietSleepers DEF DemuxInv
  <1>11. DOMAIN player' = DOMAIN player /\ player'.status \in Statuses
    BY <1>1, <1>4 DEF DemuxInv, Statuses
  <1>. QED  BY <1>1, <1>2, <1>8, <1>10, <1>11, PlayerMoves

\* demux_block_reading does,
LEMMA BlockReadingOk ==
  ASSUME DemuxInv, NEW block, BlockReading(block)
  PROVE  DemuxInv'
  <1>. DEFINE E == [s \in Streams |-> [in.ds[s] EXCEPT !.need = TRUE]]
              x == [in EXCEPT !.blocked = block, !.ds = E]
              w == Wakeup(x, Streams)
  <1>1. in' = Signal(w) /\ player' = [player EXCEPT !.ops = MaxOps] /\ PlayerOnly
    BY DEF BlockReading
  <1>2. PICK b : Sound(in, b, fpos) /\ \A z : Sound(z, b, fpos) => Fine(z, thread, fpos)
    BY FineIs DEF DemuxInv
  <1>3. DOMAIN in = Fields /\ in.ds \in [Streams -> Readers]
    BY <1>2 DEF Sound, Nearly, Books, Stored
  <1>4. SameReaders(in.ds, E)
    <2>1. ASSUME NEW s \in Streams
          PROVE  /\ E[s] \in Readers /\ E[s].head = in.ds[s].head /\ E[s].fw = in.ds[s].fw
                 /\ (E[s].selected <=> in.ds[s].selected)
                 /\ (E[s].refreshing <=> in.ds[s].refreshing)
      <3>1. in.ds[s] \in Readers
        BY <1>3
      <3>. QED  BY <3>1 DEF Readers
    <2>. QED  BY <2>1 DEF SameReaders
  <1>. HIDE DEF E
  <1>5. AllBut({"blocked"} \cup {"ds"}, in, x) /\ x.ds = E
    BY <1>3 DEF AllBut, Fields
  <1>. HIDE DEF x
  <1>6. Sound(x, b, fpos) /\ Quiet(in, x)
    <2>1. {"blocked"} \cap Core = {}
      BY DEF Core
    <2>2. Sound(x, b, fpos)
      BY <1>2, <1>4, <1>5, <2>1, SameReadersOk
    <2>. QED  BY <1>5, <2>2 DEF Quiet, AllBut, Fields
  <1>7. Sound(w, b, fpos) /\ Quiet(x, w)
    BY <1>6, WakeupOk
  <1>. HIDE DEF w
  <1>8. Sound(in', b, fpos) /\ Quiet(w, in')
    BY <1>1, <1>7, SignalOk
  <1>9. Quiet(in, in')
    BY <1>6, <1>7, <1>8, QuietBoth
  <1>10. Sleepers(in')
    BY <1>9, QuietSleepers DEF DemuxInv
  <1>11. DOMAIN player' = DOMAIN player /\ player'.status \in Statuses
    BY <1>1 DEF DemuxInv, Statuses
  <1>. QED  BY <1>1, <1>2, <1>8, <1>10, <1>11, PlayerMoves

\* demux_control, with the thread that runs it, and the updates of the cache
\* state do,
LEMMA ControlOk ==
  ASSUME DemuxInv, Control \/ ControlWait \/ ControlDone \/ CacheUpdate
  PROVE  DemuxInv'
  <1>1. /\ Fine(in, thread, fpos) /\ Sleepers(in) /\ DOMAIN in = Fields
        /\ fpos \in 1 .. Len(File) + 1
        /\ DOMAIN thread = {"pc", "pts", "flags"} /\ DOMAIN player = {"pc", "status", "ops"}
        /\ player.status \in Statuses
    BY FineIs DEF DemuxInv
  <1>2. CASE Control
    <2>. DEFINE w == [in EXCEPT !.run_fn = TRUE]
                v == Signal(w)
    <2>1. /\ in' = [v EXCEPT !.asleep = {"player"}] /\ PlayerOnly
          /\ player' = [player EXCEPT !.ops = MaxOps, !.pc = "control"]
      BY <1>2 DEF Control
    <2>2. AllBut({"run_fn"}, in, w)
      BY <1>1 DEF AllBut, Fields
    <2>. HIDE DEF w
    <2>3. AllBut({"asleep"}, w, v)
      <3>1. DOMAIN w = Fields
        BY <2>2 DEF AllBut
      <3>. QED  BY <3>1, SignalIs
    <2>. HIDE DEF v
    <2>4. AllBut({"asleep"}, v, in') /\ in'.asleep = {"player"}
      <3>1. DOMAIN v = Fields
        BY <2>3 DEF AllBut
      <3>. QED  BY <2>1, <3>1 DEF AllBut, Fields
    <2>5. AllBut({"run_fn", "asleep"}, in, in') /\ {"run_fn", "asleep"} \cap Core = {}
      BY <2>2, <2>3, <2>4 DEF AllBut, Core
    <2>6. Fine(in', thread, fpos)
      BY <1>1, <2>5, FineAside
    <2>7. Sleepers(in')
      BY <2>4 DEF Sleepers
    <2>8. DOMAIN player' = DOMAIN player /\ player'.status \in Statuses
      BY <1>1, <2>1
    <2>. QED  BY <2>1, <2>6, <2>7, <2>8, PlayerMoves
  <1>3. CASE ControlWait
    <2>1. /\ "player" \notin in.asleep /\ in.run_fn /\ in' = [in EXCEPT !.asleep = @ \cup {"player"}]
          /\ player' = player /\ PlayerOnly
      BY <1>3 DEF ControlWait
    <2>2. in.asleep = {}
      BY <1>1, <2>1 DEF Sleepers
    <2>3. AllBut({"asleep"}, in, in') /\ in'.asleep = {"player"} /\ {"asleep"} \cap Core = {}
      BY <1>1, <2>1, <2>2 DEF AllBut, Fields, Core
    <2>4. Fine(in', thread, fpos) /\ Sleepers(in')
      <3>1. Fine(in', thread, fpos)
        BY <1>1, <2>3, FineAside
      <3>. QED  BY <2>3, <3>1 DEF Sleepers
    <2>. QED  BY <1>1, <2>1, <2>4, PlayerMoves
  <1>4. CASE ControlDone
    <2>1. in' = in /\ player' = [player EXCEPT !.pc = "run"] /\ PlayerOnly
      BY <1>4 DEF ControlDone
    <2>2. DOMAIN player' = DOMAIN player /\ player'.status \in Statuses
      BY <1>1, <2>1
    <2>. QED  BY <1>1, <2>1, <2>2, PlayerMoves
  <1>5. CASE CacheUpdate
    <2>1. /\ "demux" \in in.asleep /\ in' = [in EXCEPT !.asleep = @ \ {"demux"}] /\ fpos' = fpos
          /\ thread' = [thread EXCEPT !.pc = "loop"] /\ player' = player /\ thread.pc = "asleep"
      BY <1>5 DEF CacheUpdate, Goto, ThreadOnly
    <2>2. in.asleep = {"demux"}
      BY <1>1, <2>1 DEF Sleepers
    <2>3. AllBut({"asleep"}, in, in') /\ in'.asleep = {} /\ {"asleep"} \cap Core = {}
      BY <1>1, <2>1, <2>2 DEF AllBut, Fields, Core
    <2>4. Fine(in', thread, fpos) /\ Sleepers(in')
      <3>1. Fine(in', thread, fpos)
        BY <1>1, <2>3, FineAside
      <3>. QED  BY <2>3, <3>1 DEF Sleepers
    <2>5. thread'.pc = "loop" /\ DOMAIN thread' = {"pc", "pts", "flags"}
      BY <1>1, <2>1
    <2>6. Fine(in', thread', fpos)
      BY <2>1, <2>4, <2>5 DEF Fine
    <2>. QED  BY <1>1, <2>1, <2>4, <2>5, <2>6 DEF DemuxInv
  <1>. QED  BY <1>2, <1>3, <1>4, <1>5

\* and the other calls of the player do.
LEMMA PlayerStepOk ==
  ASSUME DemuxInv,
         \/ Woken \/ FreeFinish \/ FreeAsync \/ Flush
         \/ \E k \in Seeks[player.ops + 1] : Seek(k)
         \/ \E k \in Switches : Switch(k.s, k.pts)
  PROVE  DemuxInv'
  <1>1. /\ Fine(in, thread, fpos) /\ Sleepers(in) /\ DOMAIN in = Fields
        /\ DOMAIN player = {"pc", "status", "ops"} /\ player.status \in Statuses
    BY FineIs DEF DemuxInv
  <1>2. PICK b : Sound(in, b, fpos) /\ \A z : Sound(z, b, fpos) => Fine(z, thread, fpos)
    BY <1>1, FineIs
  <1>3. AllReady \in Statuses
    BY DEF AllReady, Statuses
  <1>4. CASE Woken \/ FreeFinish
    <2>1. /\ in' = [in EXCEPT !.woken = FALSE] /\ PlayerOnly /\ DOMAIN player' = DOMAIN player
          /\ player'.status \in Statuses
      <3>1. CASE Woken
        BY <1>1, <1>3, <3>1 DEF Woken
      <3>2. CASE FreeFinish
        BY <1>1, <3>2 DEF FreeFinish
      <3>. QED  BY <1>4, <3>1, <3>2
    <2>2. AllBut({"woken"}, in, in') /\ {"woken"} \cap Core = {}
      BY <1>1, <2>1 DEF AllBut, Fields, Core
    <2>3. Fine(in', thread, fpos)
      BY <1>1, <2>2, FineAside
    <2>4. Sleepers(in')
      BY <1>1, <2>2 DEF Sleepers, AllBut, Fields
    <2>. QED  BY <2>1, <2>3, <2>4, PlayerMoves
  <1>5. CASE FreeAsync
    <2>. DEFINE w == [in EXCEPT !.terminate = TRUE, !.shutdown = TRUE]
    <2>1. /\ in' = Signal(w) /\ PlayerOnly
          /\ player' = [player EXCEPT !.pc = "free", !.ops = MaxOps]
      BY <1>5 DEF FreeAsync
    <2>2. AllBut({"terminate", "shutdown"}, in, w) /\ {"terminate", "shutdown"} \cap Core = {}
      BY <1>1 DEF AllBut, Fields, Core
    <2>. HIDE DEF w
    <2>3. Sound(w, b, fpos) /\ Quiet(in, w)
      <3>1. Sound(w, b, fpos)
        BY <1>2, <2>2, Aside
      <3>. QED  BY <2>2, <3>1 DEF Quiet, AllBut, Fields
    <2>4. Sound(in', b, fpos) /\ Quiet(w, in')
      BY <2>1, <2>3, SignalOk
    <2>5. Sleepers(in')
      <3>1. Sleepers(w)
        BY <1>1, <2>3, QuietSleepers
      <3>. QED  BY <2>4, <3>1, QuietSleepers
    <2>6. DOMAIN player' = DOMAIN player /\ player'.status \in Statuses
      BY <1>1, <2>1
    <2>. QED  BY <1>2, <2>1, <2>4, <2>5, <2>6, PlayerMoves
  <1>6. CASE Flush
    <2>1. /\ in' = FlushAll(in) /\ PlayerOnly
          /\ player' = [player EXCEPT !.ops = MaxOps, !.status = AllReady]
      BY <1>6 DEF Flush
    <2>2. Sound(in', b, fpos) /\ Quiet(in, in')
      BY <1>2, <2>1, FlushAllOk
    <2>3. Sleepers(in')
      BY <1>1, <2>2, QuietSleepers
    <2>4. DOMAIN player' = DOMAIN player /\ player'.status \in Statuses
      BY <1>1, <1>3, <2>1
    <2>. QED  BY <1>2, <2>1, <2>2, <2>3, <2>4, PlayerMoves
  <1>7. CASE \E k \in Seeks[player.ops + 1] : Seek(k)
    <2>1. PICK k \in Seeks[player.ops + 1] : Seek(k)
      BY <1>7
    <2>2. /\ in' = SeekDone(in, k.pts, k.flags) /\ PlayerOnly
          /\ player' = [player EXCEPT !.ops = @ + 1, !.status = AllReady]
      BY <2>1 DEF Seek
    <2>3. Sound(in', b, fpos) /\ Quiet(in, in')
      BY <1>2, <2>2, SeekDoneOk
    <2>4. Sleepers(in')
      BY <1>1, <2>3, QuietSleepers
    <2>5. DOMAIN player' = DOMAIN player /\ player'.status \in Statuses
      BY <1>1, <1>3, <2>2
    <2>. QED  BY <1>2, <2>2, <2>3, <2>4, <2>5, PlayerMoves
  <1>8. CASE \E k \in Switches : Switch(k.s, k.pts)
    <2>1. PICK k \in Switches : Switch(k.s, k.pts)
      BY <1>8
    <2>2. /\ in' = SelectTrack(in, k.s, k.pts) /\ PlayerOnly
          /\ player' = [player EXCEPT !.ops = @ + 1, !.status[k.s] = "ready"]
      BY <2>1 DEF Switch
    <2>3. k.s \in Streams
      BY <2>1, DemuxAssumption
    <2>4. Sound(in', b, fpos) /\ Quiet(in, in')
      BY <1>2, <2>2, <2>3, SelectTrackOk
    <2>5. Sleepers(in')
      BY <1>1, <2>4, QuietSleepers
    <2>6. DOMAIN player' = DOMAIN player /\ player'.status \in Statuses
      BY <1>1, <2>2 DEF Statuses
    <2>. QED  BY <1>2, <2>2, <2>4, <2>5, <2>6, PlayerMoves
  <1>. QED  BY <1>4, <1>5, <1>6, <1>7, <1>8

\* The demuxer layer as demux_start_thread finds it.
LEMMA DemuxInit ==
  ASSUME Init
  PROVE  DemuxInv
  <1>. DEFINE D == [s \in Streams |->
                      [selected |-> TRUE, refreshing |-> FALSE, eof |-> FALSE,
                       head |-> 0, fw |-> 0, skip |-> FALSE, need |-> TRUE,
                       base_ts |-> NoPts, last_ret |-> 0]]
              R == <<EmptyRange>>
  <1>1. /\ in.ranges = R /\ in.ds = D /\ in.total = 0 /\ in.fw_bytes = 0 /\ ~in.failed
        /\ ~in.run_fn /\ in.asleep = {} /\ DOMAIN in = Fields
    BY DEF Init, Fields
  <1>2. D \in [Streams -> Readers] /\ \A s \in Streams : D[s].head = 0 /\ D[s].fw = 0 /\ D[s].selected
    <2>1. 0 \in Numbers /\ NoPts \in Int
      BY FileIs DEF NoPts
    <2>. QED  BY <2>1 DEF Readers
  <1>. HIDE DEF D
  <1>3. /\ R \in Seq(Ranges) /\ Len(R) = 1 /\ R[1] = EmptyRange /\ R # <<>> /\ Last(R) = EmptyRange
    BY EmptyRangeOk DEF Last
  <1>. HIDE DEF R
  <1>4. Bytes(R) = 0
    <2>1. \A n \in 1..Len(R) : Held(R[n]) = 0
      BY <1>3, EmptyRangeOk
    <2>. QED  BY <1>3, <2>1, BytesZero
  <1>5. Stored(R, D, 0)
    <2>1. \A n \in 1..Len(R) : RangeOk(R[n])
      BY <1>3, EmptyRangeOk
    <2>. QED  BY <1>2, <1>3, <1>4, <2>1 DEF Stored
  <1>6. Served(R, D, 0)
    <2>1. FwBytes(D) = 0
      BY <1>2, FwIs
    <2>. QED  BY <1>2, <2>1 DEF Served, ReaderOk, From
  <1>7. Follows(R, D, in.seeking \/ FALSE, fpos)
    BY <1>3, EmptyRangeOk DEF Follows
  <1>8. Sound(in, FALSE, fpos)
    <2>1. Len(in.ranges) <= MaxRanges
      BY <1>1, <1>3, DemuxAssumption
    <2>. QED  BY <1>1, <1>5, <1>6, <1>7, <2>1 DEF Sound, Nearly, Books
  <1>9. Fine(in, thread, fpos) /\ Sleepers(in)
    BY <1>1, <1>8 DEF Fine, Sleepers, Init
  <1>10. fpos \in 1 .. Len(File) + 1
    BY FileIs DEF Init
  <1>11. /\ DOMAIN thread = {"pc", "pts", "flags"} /\ DOMAIN player = {"pc", "status", "ops"}
         /\ player.status \in Statuses
    BY DEF Init, Statuses
  <1>. QED  BY <1>9, <1>10, <1>11 DEF DemuxInv

\* The packets of a queue as a set.
LEMMA IdsAre ==
  ASSUME NEW s, NEW q, QueueOk(s, q), NEW i
  PROVE  i \in ToSet(Ids(q)) <=> Has(q, i)
  <1>1. DOMAIN q.pkts = 1..Len(q.pkts)
    BY QueueIs
  <1>. QED  BY <1>1 DEF ToSet, Ids, Has

\* check_queue_consistency and the counters, from the books.
LEMMA DemuxConsistent ==
  ASSUME DemuxInv
  PROVE  Consistent
  <1>. DEFINE R == in.ranges
              D == in.ds
  <1>1. PICK b : Sound(in, b, fpos)
    BY FineIs DEF DemuxInv
  <1>2. /\ ~in.failed /\ Stored(R, D, in.total) /\ Served(R, D, in.fw_bytes) /\ Len(R) <= MaxRanges
    BY <1>1 DEF Sound, Nearly, Books
  <1>3. /\ Len(R) \in Nat \ {0} /\ DOMAIN R = 1..Len(R) /\ Last(R) = R[Len(R)]
        /\ \A n \in 1..Len(R), s \in Streams : QueueOk(s, R[n].q[s])
        /\ \A s \in Streams : QueueOk(s, Last(R).q[s])
        /\ in.total \in Nat /\ in.total = Bytes(R) /\ FwBytes(D) \in Nat
    BY <1>2, StoredAre
  <1>4. in.fw_bytes = FwBytes(D) /\ in.fw_bytes \in Nat
    BY <1>2, <1>3 DEF Served
  <1>5. ASSUME NEW n \in DOMAIN R, NEW s \in Streams
        PROVE  LET q == R[n].q[s]
               IN  /\ {q.npt, q.kf_latest} \subseteq {0} \cup ToSet(Ids(q))
                   /\ \A p \in 1 .. Len(q.pkts) - 1 : q.pkts[p].i < q.pkts[p + 1].i
                   /\ \A p \in DOMAIN q.pkts : File[q.pkts[p].i].s = s
    <2>. DEFINE q == R[n].q[s]
    <2>1. QueueOk(s, q)
      BY <1>3
    <2>. HIDE DEF q
    <2>2. Len(q.pkts) \in Nat /\ DOMAIN q.pkts = 1..Len(q.pkts)
      BY <2>1, QueueIs
    <2>3. q.npt # 0 => q.npt \in ToSet(Ids(q))
      BY <2>1, IdsAre DEF QueueOk
    <2>4. q.kf_latest # 0 => q.kf_latest \in ToSet(Ids(q))
      BY <2>1, IdsAre DEF QueueOk
    <2>5. \A p \in 1 .. Len(q.pkts) - 1 : q.pkts[p].i < q.pkts[p + 1].i
      <3>1. \A k, m \in 1..Len(q.pkts) : k < m => q.pkts[k].i < q.pkts[m].i
        BY <2>1 DEF QueueOk
      <3>2. \A p \in 1 .. Len(q.pkts) - 1 : p \in 1..Len(q.pkts) /\ p + 1 \in 1..Len(q.pkts) /\ p < p + 1
        BY <2>2
      <3>. QED  BY <3>1, <3>2
    <2>6. \A p \in DOMAIN q.pkts : File[q.pkts[p].i].s = s
      BY <2>1, <2>2 DEF QueueOk
    <2>7. /\ {q.npt, q.kf_latest} \subseteq {0} \cup ToSet(Ids(q))
          /\ \A p \in 1 .. Len(q.pkts) - 1 : q.pkts[p].i < q.pkts[p + 1].i
          /\ \A p \in DOMAIN q.pkts : File[q.pkts[p].i].s = s
      BY <2>3, <2>4, <2>5, <2>6
    <2>. QED  BY <2>7 DEF q
  <1>6. ASSUME NEW s \in Streams
        PROVE  /\ D[s].head \in {0} \cup ToSet(Ids(CurQ(in, s)))
               /\ D[s].fw = From(CurQ(in, s), D[s].head)
    <2>1. ReaderOk(CurQ(in, s), D[s]) /\ QueueOk(s, CurQ(in, s))
      BY <1>2, <1>3 DEF Served, CurQ, Cur
    <2>2. D[s].head # 0 => D[s].head \in ToSet(Ids(CurQ(in, s)))
      BY <2>1, IdsAre DEF ReaderOk
    <2>. QED  BY <2>1, <2>2 DEF ReaderOk
  <1>7. TypeOK
    <2>1. Len(R) \in 1 .. MaxRanges
      BY <1>2, <1>3, DemuxAssumption
    <2>2. in.asleep \in {{}, {"demux"}, {"player"}}
      BY DEF DemuxInv, Sleepers
    <2>3. \A s \in Streams : player.status[s] \in {"ready", "waits", "eof"}
      BY DEF DemuxInv, Statuses
    <2>4. \A n \in DOMAIN R, s \in Streams : \A p \in DOMAIN R[n].q[s].pkts :
            File[R[n].q[s].pkts[p].i].s = s
      BY <1>5
    <2>. QED  BY <1>3, <1>4, <2>1, <2>2, <2>3, <2>4 DEF TypeOK
  <1>8. \A s \in Streams :
          LET q == CurQ(in, s)
          IN  /\ in.ds[s].head \in {0} \cup ToSet(Ids(q))
              /\ in.ds[s].fw = From(q, in.ds[s].head)
    BY <1>6
  <1>9. \A n \in DOMAIN in.ranges, s \in Streams :
          LET q == in.ranges[n].q[s]
          IN  /\ {q.npt, q.kf_latest} \subseteq {0} \cup ToSet(Ids(q))
              /\ \A p \in 1 .. Len(q.pkts) - 1 : q.pkts[p].i < q.pkts[p + 1].i
    BY <1>5
  <1>. QED  BY <1>2, <1>3, <1>4, <1>7, <1>8, <1>9 DEF Consistent

\* Whatever is read, joined, pruned, sought, switched and dropped, each step
\* under in->lock leaves the books right: DemuxInv is an invariant.
THEOREM CacheInvariant ==
  ASSUME NoSubtitles
  PROVE  Spec => []DemuxInv
  <1>1. DemuxInv /\ [Next]_vars => DemuxInv'
    <2>. SUFFICES ASSUME DemuxInv, [Next]_vars PROVE DemuxInv'
      OBVIOUS
    <2>1. CASE ThreadStep
      BY <2>1, ThreadStepOk
    <2>2. CASE CacheUpdate \/ Control \/ ControlWait \/ ControlDone
      BY <2>2, ControlOk
    <2>3. CASE \E s \in Streams : ReadPacketAsync(s)
      BY <2>3, ReadPacketAsyncOk
    <2>4. CASE \E block \in BOOLEAN : BlockReading(block)
      BY <2>4, BlockReadingOk
    <2>5. CASE \/ Woken \/ FreeFinish \/ FreeAsync \/ Flush
               \/ \E k \in Seeks[player.ops + 1] : Seek(k)
               \/ \E k \in Switches : Switch(k.s, k.pts)
      BY <2>5, PlayerStepOk
    <2>6. CASE UNCHANGED vars
      BY <2>6 DEF vars, DemuxInv, Fine, Sleepers
    <2>. QED  BY <2>1, <2>2, <2>3, <2>4, <2>5, <2>6 DEF Next, Reads, PlayerWaits
  <1>2. Init => DemuxInv
    BY DemuxInit
  <1>. QED  BY <1>1, <1>2, PTL DEF Spec

\* What check_queue_consistency (demux.c:343) asserts holds in every state:
\* total_bytes and fw_bytes are what is stored and what is before the readers,
\* reader_head, keyframe_latest and next_prune_target point into their queues,
\* and queues are in file order, with no packet twice.
THEOREM CacheConsistent ==
  ASSUME NoSubtitles
  PROVE  Spec => []Consistent
  <1>1. Spec => []DemuxInv
    BY CacheInvariant
  <1>2. DemuxInv => Consistent
    BY DemuxConsistent
  <1>. QED  BY <1>1, <1>2, PTL
===============================================================================
