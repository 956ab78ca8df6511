---------------------------- MODULE PlaybackProofs ----------------------------
(***************************************************************************)
(* Proofs about player/loadfile.c, for every playlist, every kind of file    *)
(* and any number of commands. The inductive invariant says, for each place  *)
(* the core may be at, what has been opened and for whom (OpenInv, FileInv), *)
(* counts the demuxers that exist (Counted), and says why the entry that was *)
(* asked for last will be the next one (AskedInv). Two of the three results  *)
(* are for commands that do not seek once the file has ended: what a seek    *)
(* breaks is shown by the run playback_seek.                                 *)
(***************************************************************************)
EXTENDS Playback, FiniteSetTheorems, SequenceTheorems, WellFoundedInduction, TLAPS

\* Where the core is, or will be once it has waited for the opener.
place == IF pc = "join" THEN then ELSE pc

Before == {"on_load", "open", "open_test", "open_sleep", "opened"}
After == {"kill_test", "kill_sleep", "finish", "ended"}
Apart == {"between", "idle", "exit"}
Places == Before \cup After \cup Apart
          \cup {"on_load_fail", "on_preloaded", "play", "on_unload", "kill"}

PlaylistInv == list \in Seq(Entries) /\ current \in ToSet(list) \cup {None}

TypeInv ==
  /\ opts \in Options
  /\ pc \in Places \cup {"join"}
  /\ then \in (IF pc = "join" THEN {"open", "opened", "exit"} ELSE {"none"})
  /\ stop_play \in {"keep", "current", "next", "error", "eof", "stop", "quit"}
  /\ playing \in Entries \cup {None}
  /\ demuxer \in Demuxers \cup {None} /\ DOMAIN killing \subseteq {"file", "tracks"}
  /\ url \in Entries \cup {None} /\ res \in Entries \cup {None}
  /\ cancel \in {"none", "set", "triggered"} /\ opener \in {"none", "running", "ended"}
  /\ adder \in {"none", "opening", "opened", "failed"}
  /\ tracks \in {"none", "set", "cancelled"}
  /\ asked \in Requests \cup {None}

\* What the opener has, and that it is aborted only for a file that is told to stop.
OpenInv ==
  /\ IF active THEN url # None /\ cancel # "none" /\ opener # "none"
     ELSE url = None /\ cancel = "none" /\ opener = "none" /\ res = None /\ ~done
  /\ done <=> opener = "ended"
  /\ res # None => done /\ res = url
  /\ pc \in {"open_test", "open_sleep"} => active /\ url = playing /\ linked
  /\ active /\ pc \notin {"open_test", "open_sleep", "join"} => ~linked /\ cancel = "set"
  /\ ~opts.over /\ pc \in {"open_test", "open_sleep"} /\ stop_play = "keep" => cancel = "set"
  /\ pc = "exit" => ~active

\* What there is of the file at each place.
FileInv ==
  /\ place \in Before \cup {"on_preloaded", "play"} => playing # None
  /\ place \in {"ended"} \cup Apart => playing = None
  /\ demuxer # None => demuxer.url = playing
  /\ place \in (Before \ {"opened"}) \cup After \cup Apart => demuxer = None
  /\ place \in {"on_preloaded", "play"} => demuxer # None
  /\ place \notin {"kill_test", "kill_sleep"} => killing = <<>>
  /\ place \in Apart => stop_play # "keep"
  /\ adder # "none" => tracks = "none"

\* A file that has not been told to stop has not been aborted, and a file that is over
\* stays so, as far as commands do not seek then.
StopInv ==
  /\ stop_play = "eof" => place \in {"on_unload", "kill"} \cup After
  /\ ~opts.over /\ place \in {"on_unload", "kill"} \cup After => stop_play # "keep"
  /\ ~opts.over /\ place \in After \cup Apart => tracks = "none"
  /\ ~opts.over /\ stop_play = "keep" =>
       ~aborted /\ (demuxer # None => ~demuxer.cancelled)

One(b) == IF b THEN 1 ELSE 0

\* The demuxers that exist, by their owners.
Counted ==
  live = One("file" \in DOMAIN killing) + One("tracks" \in DOMAIN killing)
         + One(res # None) + One(demuxer # None) + One(tracks # "none")
         + One(adder = "opened")

\* An entry that was asked for is current, and will still be when the file has ended:
\* either nothing goes on to the next entry, or it has taken the place of current.
AskedInv ==
  /\ place \in Before /\ stop_play = "keep" => current # None \/ replaced
  /\ asked # None /\ ~asked.late =>
       /\ current = asked.e
       /\ place \in Apart \/ stop_play \in {"current", "quit"}
            \/ (replaced /\ stop_play \in {"next", "error", "eof", "stop"})

IInv == PlaylistInv /\ TypeInv /\ OpenInv /\ FileInv /\ StopInv /\ Counted /\ AskedInv

-------------------------------------------------------------------------------
(***************************************************************************)
(* The playlist                                                              *)
(***************************************************************************)
\* The place of an entry of a list is one where it is.
LEMMA PlaceOfEntry ==
  ASSUME NEW l \in Seq(Entries), NEW e \in ToSet(l)
  PROVE  PlaceOf(e, l) \in 1..Len(l) /\ l[PlaceOf(e, l)] = e
<1>1. DOMAIN l = 1..Len(l)
  BY LenProperties
<1>2. \E i \in DOMAIN l : l[i] = e
  BY DEF ToSet
<1> QED BY <1>1, <1>2 DEF PlaceOf

\* Every entry of a list is found by its number.
LEMMA EntryAt ==
  ASSUME NEW l \in Seq(Entries), NEW i \in 1..Len(l)
  PROVE  l[i] \in ToSet(l) /\ l[i] \in Entries
BY LenProperties, ElementOfSeq DEF ToSet

\* Removing an entry (playlist_unlink) leaves all the others on the list, and the one
\* behind it too, whatever that is.
LEMMA RemovedEntry ==
  ASSUME NEW l \in Seq(Entries), NEW e
  PROVE  /\ Without(l, e) \in Seq(Entries)
         /\ \A x \in ToSet(l) : x # e => x \in ToSet(Without(l, e))
         /\ e \in ToSet(l) /\ PlaceOf(e, l) # Len(l) =>
              l[PlaceOf(e, l) + 1] \in ToSet(Without(l, e))
<1>1. CASE ~Contains(l, e)
  <2>1. e \notin ToSet(l)
    BY <1>1, LenProperties DEF Contains, ToSet
  <2> QED BY <1>1, <2>1 DEF Without
<1>2. CASE Contains(l, e)
  <2> DEFINE n == Len(l)
             p == PlaceOf(e, l)
             a == SubSeq(l, 1, p - 1)
             b == SubSeq(l, p + 1, n)
  <2>1. n \in Nat
    BY LenProperties
  <2>2. e \in ToSet(l)
    BY <1>2, LenProperties DEF Contains, ToSet
  <2>3. p \in 1..n /\ l[p] = e
    BY <2>2, PlaceOfEntry
  <2>4. Without(l, e) = a \o b
    BY <1>2 DEF Without, RemoveAt
  <2> HIDE DEF p, n
  <2>5. /\ a \in Seq(Entries) /\ Len(a) = p - 1
        /\ \A i \in 1..(p - 1) : a[i] = l[i]
    <3>1. 1 \in 1..(n + 1) /\ p - 1 \in (1 - 1)..n
      BY <2>1, <2>3
    <3>2. p - 1 - 1 + 1 = p - 1
      BY <2>1, <2>3
    <3>3. \A i \in 1..(p - 1) : 1 + i - 1 = i
      BY <2>1, <2>3
    <3>4. /\ a \in Seq(Entries) /\ Len(a) = p - 1 - 1 + 1
          /\ \A i \in 1..(p - 1 - 1 + 1) : a[i] = l[1 + i - 1]
      BY <3>1, SubSeqProperties DEF n
    <3> HIDE DEF a
    <3> QED BY <3>2, <3>3, <3>4
  <2>6. /\ b \in Seq(Entries) /\ Len(b) = n - p
        /\ \A i \in 1..(n - p) : b[i] = l[p + i]
    <3>1. p + 1 \in 1..(n + 1) /\ n \in (p + 1 - 1)..n
      BY <2>1, <2>3
    <3>2. n - (p + 1) + 1 = n - p
      BY <2>1, <2>3
    <3>3. \A i \in 1..(n - p) : p + 1 + i - 1 = p + i
      BY <2>1, <2>3
    <3>4. /\ b \in Seq(Entries) /\ Len(b) = n - (p + 1) + 1
          /\ \A i \in 1..(n - (p + 1) + 1) : b[i] = l[p + 1 + i - 1]
      BY <3>1, SubSeqProperties DEF n
    <3> HIDE DEF b
    <3> QED BY <3>2, <3>3, <3>4
  <2> HIDE DEF a, b
  <2>7. /\ a \o b \in Seq(Entries) /\ Len(a \o b) = n - 1
        /\ \A i \in 1..(p - 1) : (a \o b)[i] = l[i]
        /\ \A i \in p..(n - 1) : (a \o b)[i] = l[i + 1]
    <3>1. /\ a \o b \in Seq(Entries) /\ Len(a \o b) = Len(a) + Len(b)
          /\ \A i \in 1..Len(a) + Len(b) :
               (a \o b)[i] = IF i <= Len(a) THEN a[i] ELSE b[i - Len(a)]
      BY <2>5, <2>6, ConcatProperties
    <3>2. \A i \in 1..(p - 1) : (a \o b)[i] = l[i]
      BY <2>1, <2>3, <2>5, <2>6, <3>1
    <3>3. ASSUME NEW i \in p..(n - 1) PROVE (a \o b)[i] = l[i + 1]
      <4>1. i \in 1..(Len(a) + Len(b)) /\ ~(i <= Len(a))
        BY <2>1, <2>3, <2>5, <2>6
      <4>2. i - Len(a) \in 1..(n - p) /\ p + (i - Len(a)) = i + 1
        BY <2>1, <2>3, <2>5
      <4> QED BY <3>1, <4>1, <4>2, <2>6
    <3> QED BY <2>1, <2>3, <2>5, <2>6, <3>1, <3>2, <3>3, SMTT(40)
  <2>8. \A i \in 1..(n - 1) : (a \o b)[i] \in ToSet(a \o b)
    BY <2>7, EntryAt
  <2>9. ASSUME NEW x \in ToSet(l), x # e PROVE x \in ToSet(a \o b)
    <3>1. PICK i \in 1..n : l[i] = x
      BY LenProperties DEF ToSet, n
    <3>2. CASE i < p
      <4>1. i \in 1..(p - 1) /\ i \in 1..(n - 1)
        BY <2>1, <2>3, <3>2
      <4> QED BY <2>7, <2>8, <3>1, <4>1
    <3>3. CASE i > p
      <4>1. i - 1 \in p..(n - 1) /\ i - 1 + 1 = i /\ i - 1 \in 1..(n - 1)
        BY <2>1, <2>3, <3>3
      <4> QED BY <2>7, <2>8, <3>1, <4>1
    <3> QED BY <2>1, <2>3, <2>9, <3>1, <3>2, <3>3
  <2>10. p # n => l[p + 1] \in ToSet(a \o b)
    <3>1. p # n => p \in p..(n - 1) /\ p \in 1..(n - 1)
      BY <2>1, <2>3
    <3> QED BY <2>7, <2>8, <3>1
  <2> QED BY <2>4, <2>7, <2>9, <2>10 DEF p, n
<1> QED BY <1>1, <1>2

\* The entries of the parts of a list are those of the whole.
LEMMA JoinedEntries ==
  ASSUME NEW a \in Seq(Entries), NEW b \in Seq(Entries)
  PROVE  /\ a \o b \in Seq(Entries)
         /\ ToSet(a) \subseteq ToSet(a \o b) /\ ToSet(b) \subseteq ToSet(a \o b)
<1> DEFINE c == a \o b
<1>1. /\ c \in Seq(Entries) /\ Len(c) = Len(a) + Len(b)
      /\ \A i \in 1..(Len(a) + Len(b)) : c[i] = IF i <= Len(a) THEN a[i] ELSE b[i - Len(a)]
  BY ConcatProperties
<1>2. Len(a) \in Nat /\ Len(b) \in Nat /\ DOMAIN a = 1..Len(a) /\ DOMAIN b = 1..Len(b)
  BY LenProperties
<1> HIDE DEF c
<1>3. \A i \in 1..(Len(a) + Len(b)) : c[i] \in ToSet(c)
  BY <1>1, EntryAt
<1>4. ASSUME NEW x \in ToSet(a) PROVE x \in ToSet(c)
  <2>1. PICK i \in 1..Len(a) : a[i] = x
    BY <1>2 DEF ToSet
  <2>2. i \in 1..(Len(a) + Len(b)) /\ i <= Len(a)
    BY <1>2
  <2> QED BY <1>1, <1>3, <2>1, <2>2
<1>5. ASSUME NEW x \in ToSet(b) PROVE x \in ToSet(c)
  <2>1. PICK i \in 1..Len(b) : b[i] = x
    BY <1>2 DEF ToSet
  <2>2. /\ Len(a) + i \in 1..(Len(a) + Len(b)) /\ ~(Len(a) + i <= Len(a))
        /\ Len(a) + i - Len(a) = i
    BY <1>2
  <2> QED BY <1>1, <1>3, <2>1, <2>2
<1> QED BY <1>1, <1>4, <1>5 DEF c

\* An entry that is added is on the list, with all that were on it before.
LEMMA AppendedEntry ==
  ASSUME NEW l \in Seq(Entries), NEW e \in Entries
  PROVE  /\ Append(l, e) \in Seq(Entries)
         /\ ToSet(l) \subseteq ToSet(Append(l, e)) /\ e \in ToSet(Append(l, e))
<1> DEFINE c == Append(l, e)
<1>1. /\ c \in Seq(Entries) /\ Len(c) = Len(l) + 1 /\ c[Len(l) + 1] = e
      /\ \A i \in 1..Len(l) : c[i] = l[i]
  BY AppendProperties
<1>2. Len(l) \in Nat /\ DOMAIN l = 1..Len(l)
  BY LenProperties
<1> HIDE DEF c
<1>3. \A i \in 1..(Len(l) + 1) : c[i] \in ToSet(c)
  BY <1>1, EntryAt
<1>4. e \in ToSet(c)
  <2>1. Len(l) + 1 \in 1..(Len(l) + 1)
    BY <1>2
  <2> QED BY <1>1, <1>3, <2>1
<1>5. ASSUME NEW x \in ToSet(l) PROVE x \in ToSet(c)
  <2>1. PICK i \in 1..Len(l) : l[i] = x
    BY <1>2 DEF ToSet
  <2>2. i \in 1..(Len(l) + 1)
    BY <1>2
  <2> QED BY <1>1, <1>3, <2>1, <2>2
<1> QED BY <1>1, <1>4, <1>5 DEF c

\* A list of one entry.
LEMMA OneEntry ==
  ASSUME NEW e \in Entries
  PROVE  <<e>> \in Seq(Entries) /\ e \in ToSet(<<e>>)
<1>1. <<>> \in Seq(Entries) /\ Append(<<>>, e) = <<e>>
  BY EmptySeq
<1> QED BY <1>1, AppendedEntry

\* The beginning of a list, and what is behind it.
LEMMA PartsOfList ==
  ASSUME NEW l \in Seq(Entries), NEW i \in 0..Len(l)
  PROVE  SubSeq(l, 1, i) \in Seq(Entries) /\ SubSeq(l, i + 1, Len(l)) \in Seq(Entries)
<1>1. /\ 1 \in Int /\ i \in Int /\ i + 1 \in Int /\ Len(l) \in Int
      /\ \A k \in 1..i : k \in 1..Len(l) /\ \A m \in (i + 1)..Len(l) : m \in 1..Len(l)
  BY LenProperties
<1>2. (\A k \in 1..i : l[k] \in Entries) /\ \A k \in (i + 1)..Len(l) : l[k] \in Entries
  <2>1. \A k \in 1..i : k \in 1..Len(l)
    BY LenProperties
  <2>2. \A k \in (i + 1)..Len(l) : k \in 1..Len(l)
    BY LenProperties
  <2> QED BY <2>1, <2>2, EntryAt
<1> QED BY <1>1, <1>2, SubSeqProperties

\* A set of numbers up to n that is not empty has a largest one.
LEMMA LargestOf ==
  ASSUME NEW n \in Nat, NEW S \in SUBSET (1..n), S # {}
  PROVE  \E j \in S : \A k \in S : k <= j
<1> DEFINE T == {n - j : j \in S}
<1>1. T \in SUBSET Nat /\ T # {}
  <2>1. ASSUME NEW j \in S PROVE n - j \in Nat
    OBVIOUS
  <2>2. T # {}
    OBVIOUS
  <2> QED BY <2>1, <2>2
<1>2. PICK m \in T : \A k \in T : ~(<<k, m>> \in OpToRel(<, Nat))
  BY <1>1, NatLessThanWellFounded, WFMin
<1>3. \A k \in T : k \in Nat /\ m \in Nat /\ ~(k < m)
  BY <1>1, <1>2 DEF OpToRel
<1>4. PICK j \in S : m = n - j
  OBVIOUS
<1>5. ASSUME NEW k \in S PROVE k <= j
  <2>1. n - k \in T
    OBVIOUS
  <2>2. ~(n - k < n - j)
    BY <1>3, <1>4, <2>1
  <2>3. k \in Int /\ j \in Int
    OBVIOUS
  <2> QED BY <2>2, <2>3
<1> QED BY <1>5

\* The entry behind another, if there is one, is on the list.
LEMMA BehindIsOnList ==
  ASSUME list \in Seq(Entries), NEW e \in ToSet(list) \cup {None}
  PROVE  Behind(e) \in ToSet(list) \cup {None}
<1>1. CASE e = None \/ At(e) = Len(list)
  BY <1>1 DEF Behind
<1>2. CASE ~(e = None \/ At(e) = Len(list))
  <2>1. At(e) \in 1..Len(list) /\ Len(list) \in Nat
    BY <1>2, PlaceOfEntry, LenProperties DEF At
  <2>2. At(e) + 1 \in 1..Len(list)
    BY <1>2, <2>1
  <2> QED BY <1>2, <2>2, EntryAt DEF Behind
<1> QED BY <1>1, <1>2

\* mp_next_file chooses an entry of the list, or none.
LEMMA NextIsOnList ==
  ASSUME PlaylistInv, NEW direction \in {-1, 1}, NEW force \in BOOLEAN
  PROVE  NextFile(direction, force).e \in ToSet(list) \cup {None}
<1> USE DEF PlaylistInv
<1>1. \A e \in ToSet(list) : At(e) \in 1..Len(list)
  BY PlaceOfEntry DEF At
<1>2. Len(list) \in Nat
  BY LenProperties
<1>3. FirstOf(list) \in ToSet(list) \cup {None}
  <2>1. list # <<>> => 1 \in 1..Len(list)
    BY <1>2, EmptySeq
  <2> QED BY <2>1, EntryAt DEF FirstOf
<1>4. \A e \in ToSet(list) \cup {None} : Behind(e) \in ToSet(list) \cup {None}
  BY BehindIsOnList
<1>5. ASSUME NEW i \in 1..(Len(list) + 1)
      PROVE  NotShortBefore(i) \in ToSet(list) \cup {None}
  <2> DEFINE good == {j \in 1..i - 1 : list[j] \notin short}
             last == CHOOSE j \in good : \A k \in good : k <= j
  <2>1. good \in SUBSET (1..Len(list))
    BY <1>2
  <2>2. good # {} => last \in 1..Len(list)
    BY <1>2, <2>1, LargestOf
  <2>3. NotShortBefore(i) = IF good = {} THEN None ELSE list[last]
    BY DEF NotShortBefore
  <2> HIDE DEF good, last
  <2> QED BY <2>2, <2>3, EntryAt
<1>6. Prev(force) \in ToSet(list) \cup {None}
  <2>1. CASE current = None \/ At(current) = 1
    BY <2>1 DEF Prev
  <2>2. CASE ~(current = None \/ At(current) = 1)
    <3>1. At(current) \in 1..(Len(list) + 1) /\ At(current) - 1 \in 1..Len(list)
      BY <1>1, <1>2, <2>2
    <3> QED BY <1>3, <1>5, <2>2, <3>1, EntryAt DEF Prev
  <2> QED BY <2>1, <2>2
<1>7. GetNext \in ToSet(list) \cup {None}
  BY <1>4 DEF GetNext
<1>8. NotShortBefore(Len(list) + 1) \in ToSet(list) \cup {None}
  <2>1. Len(list) + 1 \in 1..(Len(list) + 1)
    BY <1>2
  <2> QED BY <1>5, <2>1
<1> DEFINE next == IF direction > 0 THEN GetNext ELSE Prev(force)
           around == IF direction > 0 THEN FirstOf(list) ELSE NotShortBefore(Len(list) + 1)
<1>9. NextFile(direction, force).e \in {next, around, None}
  BY DEF NextFile
<1>10. next \in ToSet(list) \cup {None} /\ around \in ToSet(list) \cup {None}
  BY <1>3, <1>6, <1>7, <1>8
<1> HIDE DEF next, around
<1> QED BY <1>9, <1>10

\* An entry that took the place of a removed one is played next (playlist_get_next).
LEMMA ReplacedIsNext ==
  ASSUME replaced, current # None
  PROVE  NextFile(1, FALSE).e = current
BY DEF NextFile, GetNext

-------------------------------------------------------------------------------
(***************************************************************************)
(* The invariant is kept: the playlist                                       *)
(***************************************************************************)
\* What is on the list are entries.
LEMMA OnListAreEntries ==
  ASSUME NEW l \in Seq(Entries)
  PROVE  ToSet(l) \subseteq Entries
BY LenProperties, ElementOfSeq DEF ToSet

\* transfer_playlist: the new entries are on the list, and the first is current.
LEMMA TransferKeepsList ==
  ASSUME PlaylistInv, NEW new \in Seq(Entries), new # <<>>, TransferPlaylist(new)
  PROVE  PlaylistInv' /\ new[1] \in Entries
<1> USE DEF PlaylistInv
<1> DEFINE at == IF current = None THEN None
                 ELSE IF replaced THEN Behind(current) ELSE current
           i == IF at = None THEN Len(list) ELSE At(at)
           a == Without(SubSeq(list, 1, i), current)
           b == SubSeq(list, i + 1, Len(list))
<1>1. list' = a \o new \o b /\ current' = new[1]
  BY DEF TransferPlaylist
<1>2. at \in ToSet(list) \cup {None}
  BY BehindIsOnList
<1>3. i \in 0..Len(list)
  <2>1. Len(list) \in Nat
    BY LenProperties
  <2>2. at # None => At(at) \in 1..Len(list)
    BY <1>2, PlaceOfEntry DEF At
  <2> HIDE DEF at
  <2> QED BY <2>1, <2>2
<1> HIDE DEF i
<1>4. a \in Seq(Entries) /\ b \in Seq(Entries)
  BY <1>3, PartsOfList, RemovedEntry
<1> HIDE DEF a, b
<1>5. 1 \in 1..Len(new)
  BY LenProperties, EmptySeq
<1>6. new[1] \in ToSet(new) /\ new[1] \in Entries
  BY <1>5, EntryAt
<1>7. a \o new \in Seq(Entries) /\ ToSet(new) \subseteq ToSet(a \o new)
  BY <1>4, JoinedEntries
<1>8. a \o new \o b \in Seq(Entries) /\ ToSet(a \o new) \subseteq ToSet(a \o new \o b)
  BY <1>4, <1>7, JoinedEntries
<1> QED BY <1>1, <1>6, <1>7, <1>8

\* Where the current entry goes when another is chosen.
LEMMA SetKeepsList ==
  ASSUME PlaylistInv, UNCHANGED list, current' \in ToSet(list) \cup {None}
  PROVE  PlaylistInv'
BY DEF PlaylistInv

\* Every step leaves the current entry on the list.
LEMMA PlaylistStep ==
  ASSUME IInv, [Next]_vars
  PROVE  PlaylistInv'
<1> USE DEF IInv
<1>0. PlaylistInv
  OBVIOUS
<1>1. CASE UNCHANGED <<list, current>>
  BY <1>1 DEF PlaylistInv
<1>2. CASE Opened
  <2>1. CASE UNCHANGED <<list, current>>
    BY <2>1, <1>1
  <2>2. CASE Content[playing] # <<>> /\ TransferPlaylist(Content[playing])
    <3>1. playing \in Entries
      BY <1>2 DEF Opened, FileInv, TypeInv, place, Before
    <3>2. Content[playing] \in Seq(Entries)
      BY <3>1, PlaybackAssumption
    <3> QED BY <1>0, <2>2, <3>2, TransferKeepsList
  <2> QED BY <1>2, <2>1, <2>2 DEF Opened, playlist
<1>3. CASE NextEntry
  <2>1. NextFile(1, FALSE).e \in ToSet(list) \cup {None}
    BY NextIsOnList
  <2>2. CASE stop_play = "quit"
    BY <1>1, <1>3, <2>2 DEF NextEntry, playlist
  <2>3. CASE stop_play # "quit"
    <3>1. /\ list' = list
          /\ current' \in {NextFile(1, FALSE).e, current}
      BY <1>3, <2>3 DEF NextEntry
    <3>2. current' \in ToSet(list) \cup {None}
      BY <2>1, <3>1 DEF PlaylistInv
    <3> QED BY <1>0, <3>1, <3>2, SetKeepsList
  <2> QED BY <2>2, <2>3
<1>4. CASE CmdLoadfile
  <2>1. PICK e \in Entries, old \in {<<>>, list} :
          /\ list' = Append(old, e)
          /\ current' = e \/ (old = list /\ current' = current)
    <3>1. Extra \subseteq Entries
      BY PlaybackAssumption
    <3>2. PICK e \in Loadable, append \in {"replace", "append", "append-play"} :
            LET old == IF append = "replace" THEN <<>> ELSE list
                now == append = "replace" \/ (append = "append-play" /\ current = None)
            IN /\ list' = Append(old, e) /\ short' = short \ {e}
               /\ IF now THEN SetEntry(e)
                  ELSE UNCHANGED <<current, replaced, stop_play, asked>>
      BY <1>4 DEF CmdLoadfile
    <3>3. e \in Entries
      BY <3>1 DEF Loadable
    <3>4. CASE append = "replace"
      <4>1. list' = Append(<<>>, e) /\ current' = e
        BY <3>2, <3>4 DEF SetEntry
      <4> QED BY <3>3, <4>1
    <3>5. CASE append # "replace"
      <4>1. list' = Append(list, e) /\ current' \in {e, current}
        BY <3>2, <3>5 DEF SetEntry
      <4> QED BY <3>3, <4>1
    <3> QED BY <3>4, <3>5
  <2>2. old \in Seq(Entries)
    BY EmptySeq DEF PlaylistInv
  <2>3. /\ list' \in Seq(Entries)
        /\ ToSet(old) \subseteq ToSet(list') /\ e \in ToSet(list')
    BY <2>1, <2>2, AppendedEntry
  <2> QED BY <2>1, <2>3 DEF PlaylistInv
<1>5. CASE CmdNextPrev
  <2>1. PICK direction \in {-1, 1}, force \in BOOLEAN :
          current' = NextFile(direction, force).e
    BY <1>5 DEF CmdNextPrev, SetEntry
  <2>2. current' \in ToSet(list) \cup {None}
    BY <2>1, NextIsOnList
  <2> QED BY <1>0, <1>5, <2>2, SetKeepsList DEF CmdNextPrev
<1>6. CASE CmdRemove
  <2>1. PICK e \in ToSet(list) : RemoveEntry(e)
    BY <1>6 DEF CmdRemove
  <2>2. list' = Without(list, e) /\ current' = (IF current = e THEN Behind(e) ELSE current)
    BY <2>1 DEF RemoveEntry
  <2>3. /\ list' \in Seq(Entries)
        /\ \A x \in ToSet(list) : x # e => x \in ToSet(list')
        /\ At(e) # Len(list) => list[At(e) + 1] \in ToSet(list')
    BY <2>2, RemovedEntry DEF PlaylistInv, At
  <2> QED BY <2>2, <2>3 DEF PlaylistInv, Behind
<1>7. CASE CmdClear
  <2>1. /\ current' \in {current, None}
        /\ list' = IF current' = None THEN <<>> ELSE <<current'>>
    BY <1>7 DEF CmdClear
  <2>2. current' \in Entries \cup {None}
    BY <2>1, OnListAreEntries DEF PlaylistInv
  <2> QED BY <2>1, <2>2, OneEntry, EmptySeq DEF PlaylistInv
<1>8. CASE CmdMove
  <2>1. PICK e \in ToSet(list) : list' = Append(Without(list, e), e)
    BY <1>8 DEF CmdMove
  <2>2. e \in Entries /\ Without(list, e) \in Seq(Entries)
    BY RemovedEntry, OnListAreEntries DEF PlaylistInv
  <2>3. /\ list' \in Seq(Entries) /\ e \in ToSet(list')
        /\ ToSet(Without(list, e)) \subseteq ToSet(list')
    BY <2>1, <2>2, AppendedEntry
  <2>4. \A x \in ToSet(list) : x # e => x \in ToSet(list')
    BY <2>3, RemovedEntry DEF PlaylistInv
  <2>5. current' = current
    BY <1>8 DEF CmdMove
  <2> QED BY <2>3, <2>4, <2>5 DEF PlaylistInv
<1>9. CASE CmdStop
  BY <1>9, EmptySeq DEF CmdStop, PlaylistInv
<1>10. CASE Between
  BY <1>1, <1>10 DEF Between, playlist
<1>11. CASE Idle
  BY <1>1, <1>11 DEF Idle, playlist
<1>12. CASE HookAbort
  BY <1>1, <1>12 DEF HookAbort, playlist
<1>13. CASE HookEnds
  BY <1>1, <1>13 DEF HookEnds, playlist
<1>14. CASE Open
  BY <1>1, <1>14 DEF Open, playlist
<1>15. CASE OpenTest
  BY <1>1, <1>15 DEF OpenTest, playlist
<1>16. CASE OpenWakes
  BY <1>1, <1>16 DEF OpenWakes, playlist
<1>17. CASE JoinOpen
  BY <1>1, <1>17 DEF JoinOpen, playlist
<1>18. CASE PlayWakes
  BY <1>1, <1>18 DEF PlayWakes, playlist, playRest
<1>19. CASE KillStart
  BY <1>1, <1>19 DEF KillStart, playlist
<1>20. CASE KillTest
  BY <1>1, <1>20 DEF KillTest, playlist
<1>21. CASE KillWakes
  BY <1>1, <1>21 DEF KillWakes, playlist
<1>22. CASE KillTimeout
  BY <1>1, <1>22 DEF KillTimeout, playlist
<1>23. CASE Finish
  BY <1>1, <1>23 DEF Finish, playlist
<1>24. CASE OpenSucceeds
  BY <1>1, <1>24 DEF OpenSucceeds, playlist, OpenEnd
<1>25. CASE OpenFails
  BY <1>1, <1>25 DEF OpenFails, playlist, OpenEnd
<1>26. CASE Show
  BY <1>1, <1>26 DEF Show, playlist, playRest
<1>27. CASE EndOfFile
  BY <1>1, <1>27 DEF EndOfFile, playlist, playRest
<1>28. CASE AudioFails
  BY <1>1, <1>28 DEF AudioFails, playlist, playRest
<1>29. CASE Prefetch
  BY <1>1, <1>29 DEF Prefetch, playlist, playRest
<1>30. CASE AdderOpens
  BY <1>1, <1>30 DEF AdderOpens, playlist
<1>31. CASE AdderEnds
  BY <1>1, <1>31 DEF AdderEnds, playlist
<1>32. CASE CmdQuit
  BY <1>1, <1>32 DEF CmdQuit, playlist
<1>33. CASE CmdSeek
  BY <1>1, <1>33 DEF CmdSeek, playlist
<1>34. CASE CmdTrackAdd
  BY <1>1, <1>34 DEF CmdTrackAdd, playlist
<1>35. CASE \E i \in {"file", "tracks"} : DemuxerEnds(i)
  BY <1>1, <1>35 DEF DemuxerEnds, playlist
<1>36. CASE UNCHANGED vars
  BY <1>1, <1>36 DEF vars, playlist
<1> QED
  BY <1>2, <1>3, <1>4, <1>5, <1>6, <1>7, <1>8, <1>9, <1>10, <1>11, <1>12, <1>13, <1>14,
     <1>15, <1>16, <1>17, <1>18, <1>19, <1>20, <1>21, <1>22, <1>23, <1>24, <1>25, <1>26,
     <1>27, <1>28, <1>29, <1>30, <1>31, <1>32, <1>33, <1>34, <1>35, <1>36
  DEF Next, Core, Commands

-------------------------------------------------------------------------------
(***************************************************************************)
(* The invariant is kept: types                                              *)
(***************************************************************************)
\* Aborting cancels what there is.
LEMMA AbortTypes ==
  ASSUME TypeInv, Abort
  PROVE  /\ demuxer' \in Demuxers \cup {None} /\ cancel' \in {"none", "set", "triggered"}
         /\ tracks' \in {"none", "set", "cancelled"}
BY DEF TypeInv, Abort, Demuxers

\* Every variable keeps its type.
LEMMA TypeStep ==
  ASSUME IInv, [Next]_vars
  PROVE  TypeInv'
<1> USE DEF IInv, TypeInv, Places, Before, After, Apart, Demuxers, Requests
<1>1. CASE Between
  BY <1>1, OnListAreEntries DEF PlaylistInv, Between, CancelOpen, Terminate, playlist, openVars,
     adderVars
<1>2. CASE Idle
  BY <1>2 DEF Idle, playlist, core, openVars, adderVars
<1>3. CASE HookAbort
  <2>1. CASE Abort
    <3>1. /\ demuxer' \in Demuxers \cup {None} /\ cancel' \in {"none", "set", "triggered"}
          /\ tracks' \in {"none", "set", "cancelled"}
      BY <2>1, AbortTypes
    <3> QED BY <1>3, <3>1 DEF HookAbort, core, playlist
  <2>2. CASE UNCHANGED <<aborted, cancel, demuxer, tracks, adder_cancel>>
    BY <1>3, <2>2 DEF HookAbort, core, playlist
  <2> QED BY <1>3, <2>1, <2>2 DEF HookAbort
<1>4. CASE HookEnds
  BY <1>4 DEF HookEnds, Terminate, Hooks, playlist, core, openVars, adderVars
<1>5. CASE Open
  BY <1>5 DEF Open, CancelOpen, StartOpen, Usable, playlist, core, openVars, adderVars
<1>6. CASE OpenTest
  <2> DEFINE cancelled == cancel = "triggered"
  <2>1. demuxer' \in Demuxers \cup {None} /\ res' \in Entries \cup {None}
    <3>1. cancelled \in BOOLEAN
      OBVIOUS
    <3>2. \/ demuxer' \in {demuxer, None}
          \/ /\ demuxer' = [url |-> res, cancelled |-> cancelled, threaded |-> FALSE]
             /\ res # None
      BY <1>6 DEF OpenTest
    <3>3. res' \in {res, None}
      BY <1>6 DEF OpenTest
    <3> HIDE DEF cancelled
    <3>4. res # None =>
            [url |-> res, cancelled |-> cancelled, threaded |-> FALSE] \in Demuxers
      BY ONLY <3>1, res \in Entries \cup {None} DEF Demuxers
    <3> QED BY <3>2, <3>3, <3>4
  <2>2. /\ pc' \in {"open_sleep", "join"}
        /\ IF pc' = "join" THEN then' = "opened" ELSE then' = "none"
    <3>1. CASE done
      BY <1>6, <3>1 DEF OpenTest, CancelOpen
    <3>2. CASE ~done
      BY <1>6, <3>2 DEF OpenTest
    <3> QED BY <3>1, <3>2
  <2>3. cancel' \in {"none", "set", "triggered"}
    BY <1>6 DEF OpenTest, CancelOpen
  <2> QED BY <1>6, <2>1, <2>2, <2>3 DEF OpenTest, playlist, adderVars
<1>7. CASE OpenWakes
  <2>1. CASE Abort
    <3>1. /\ demuxer' \in Demuxers \cup {None} /\ cancel' \in {"none", "set", "triggered"}
          /\ tracks' \in {"none", "set", "cancelled"}
      BY <2>1, AbortTypes
    <3> QED BY <1>7, <3>1 DEF OpenWakes, core, playlist
  <2>2. CASE UNCHANGED <<aborted, cancel, demuxer, tracks, adder_cancel>>
    BY <1>7, <2>2 DEF OpenWakes, core, playlist
  <2> QED BY <1>7, <2>1, <2>2 DEF OpenWakes
<1>8. CASE JoinOpen
  BY <1>8 DEF JoinOpen, playlist, core, openVars, adderVars
<1>9. CASE Opened
  <2>1. CASE UNCHANGED asked
    <3>1. demuxer' \in Demuxers \cup {None}
      BY <1>9 DEF Opened
    <3>2. /\ pc' \in {"on_load_fail", "on_unload", "on_preloaded"}
          /\ stop_play' \in {"keep", "current", "next", "error", "eof", "stop", "quit"}
      BY <1>9 DEF Opened, Terminate
    <3> QED BY <1>9, <2>1, <3>1, <3>2 DEF Opened, openVars, adderVars
  <2>2. CASE TransferPlaylist(Content[playing]) /\ Content[playing] # <<>>
    <3>1. Content[playing] \in Seq(Entries)
      BY <1>9, PlaybackAssumption DEF Opened, FileInv, place, Before
    <3>2. Content[playing][1] \in Entries
      BY <2>2, <3>1, TransferKeepsList
    <3>3. asked' \in Requests
      BY <2>2, <3>2 DEF TransferPlaylist, Requests
    <3>4. demuxer' \in Demuxers \cup {None}
      BY <1>9 DEF Opened
    <3>5. /\ pc' \in {"on_load_fail", "on_unload", "on_preloaded"}
          /\ stop_play' \in {"keep", "current", "next", "error", "eof", "stop", "quit"}
      BY <1>9 DEF Opened, Terminate
    <3> QED BY <1>9, <3>3, <3>4, <3>5 DEF Opened, openVars, adderVars
  <2> QED BY <1>9, <2>1, <2>2 DEF Opened
<1>10. CASE PlayWakes
  BY <1>10 DEF PlayWakes, Terminate, playRest, playlist, core, openVars, adderVars
<1>11. CASE KillStart
  BY <1>11 DEF KillStart, Threaded, playlist, core, openVars, adderVars
<1>12. CASE KillTest
  BY <1>12 DEF KillTest, Only, playlist, core, openVars, adderVars
<1>13. CASE KillWakes
  BY <1>13 DEF KillWakes, playlist, core, openVars, adderVars
<1>14. CASE KillTimeout
  BY <1>14 DEF KillTimeout, playlist, core, openVars, adderVars
<1>15. CASE Finish
  <2>1. CASE Abort
    <3>1. /\ demuxer' \in Demuxers \cup {None} /\ cancel' \in {"none", "set", "triggered"}
          /\ tracks' \in {"none", "set", "cancelled"}
      BY <2>1, AbortTypes
    <3> QED BY <1>15, <3>1 DEF Finish, core, playlist
  <2>2. CASE UNCHANGED <<aborted, cancel, demuxer, tracks, adder_cancel>>
    BY <1>15, <2>2 DEF Finish, core, playlist
  <2> QED BY <1>15, <2>1, <2>2 DEF Finish
<1>16. CASE NextEntry
  <2>1. /\ pc' \in {"between", "join"}
        /\ IF pc' = "join" THEN then' = "exit" ELSE then' = "none"
        /\ stop_play' \in {"quit", "stop"} /\ cancel' \in {"none", "set", "triggered"}
    BY <1>16 DEF NextEntry, CancelOpen
  <2> QED BY <1>16, <2>1 DEF NextEntry, adderVars
<1>17. CASE OpenSucceeds
  BY <1>17 DEF OpenSucceeds, OpenEnd, playlist, core, openVars, adderVars
<1>18. CASE OpenFails
  BY <1>18 DEF OpenFails, OpenEnd, playlist, core, openVars, adderVars
<1>19. CASE Show
  BY <1>19 DEF Show, playRest, playlist, core, openVars, adderVars
<1>20. CASE EndOfFile
  BY <1>20 DEF EndOfFile, Terminate, playRest, playlist, core, openVars, adderVars
<1>21. CASE AudioFails
  BY <1>21 DEF AudioFails, Terminate, playRest, playlist, core, openVars, adderVars
<1>22. CASE Prefetch
  <2>1. NextFile(1, FALSE).e \in Entries \cup {None}
    BY NextIsOnList, OnListAreEntries DEF PlaylistInv
  <2>2. /\ url' \in Entries \cup {None} /\ cancel' \in {"none", "set", "triggered"}
        /\ opener' \in {"none", "running", "ended"} /\ res' = res
    BY <1>22, <2>1 DEF Prefetch, StartOpen, openVars
  <2> QED BY <1>22, <2>2 DEF Prefetch, playRest, playlist, adderVars
<1>23. CASE \E i \in {"file", "tracks"} : DemuxerEnds(i)
  BY <1>23 DEF DemuxerEnds, playlist, core, openVars, adderVars
<1>24. CASE AdderOpens
  BY <1>24 DEF AdderOpens, playlist, core, openVars, adderVars
<1>25. CASE AdderEnds
  BY <1>25 DEF AdderEnds, AdderWelcomed, Waits, playlist, core, openVars, adderVars
<1>26. CASE CmdLoadfile
  <2>1. PICK e \in Entries :
          \/ SetEntry(e)
          \/ UNCHANGED <<current, replaced, stop_play, asked>>
    BY <1>26, PlaybackAssumption DEF CmdLoadfile, Loadable
  <2>2. Command /\ UNCHANGED adderVars
    BY <1>26 DEF CmdLoadfile
  <2>3. CASE SetEntry(e)
    BY <2>2, <2>3 DEF SetEntry, Command, openVars, adderVars
  <2>4. CASE UNCHANGED <<current, replaced, stop_play, asked>>
    BY <2>2, <2>4 DEF Command, openVars, adderVars
  <2> QED BY <2>1, <2>3, <2>4
<1>27. CASE CmdNextPrev
  <2>1. PICK e \in Entries \cup {None} : SetEntry(e)
    BY <1>27, NextIsOnList, OnListAreEntries DEF CmdNextPrev, PlaylistInv
  <2> QED BY <1>27, <2>1 DEF CmdNextPrev, SetEntry, Command, openVars, adderVars
<1>28. CASE CmdRemove
  <2>1. PICK e \in Entries : Behind(e) \in Entries \cup {None} /\ RemoveEntry(e)
    BY <1>28, BehindIsOnList, OnListAreEntries DEF CmdRemove, PlaylistInv
  <2>2. asked' \in Requests \cup {None}
    BY <2>1 DEF RemoveEntry
  <2> QED BY <1>28, <2>2 DEF CmdRemove, Command, openVars, adderVars
<1>29. CASE CmdClear
  BY <1>29 DEF CmdClear, Command, Waits, playlist, core, openVars, adderVars
<1>30. CASE CmdMove
  BY <1>30 DEF CmdMove, Command, Waits, playlist, core, openVars, adderVars
<1>31. CASE CmdStop
  BY <1>31 DEF CmdStop, Command, Waits, playlist, core, openVars, adderVars
<1>32. CASE CmdQuit
  BY <1>32 DEF CmdQuit, Command, Waits, playlist, core, openVars, adderVars
<1>33. CASE CmdSeek
  BY <1>33 DEF CmdSeek, Command, Waits, playlist, core, openVars, adderVars
<1>34. CASE CmdTrackAdd
  BY <1>34 DEF CmdTrackAdd, Command, Waits, playlist, core, openVars, adderVars
<1>35. CASE UNCHANGED vars
  BY <1>35 DEF vars, playlist, core, openVars, adderVars
<1> QED
  BY <1>1, <1>2, <1>3, <1>4, <1>5, <1>6, <1>7, <1>8, <1>9, <1>10, <1>11, <1>12, <1>13,
     <1>14, <1>15, <1>16, <1>17, <1>18, <1>19, <1>20, <1>21, <1>22, <1>23, <1>24, <1>25,
     <1>26, <1>27, <1>28, <1>29, <1>30, <1>31, <1>32, <1>33, <1>34, <1>35
  DEF Next, Core, Commands

-------------------------------------------------------------------------------
(***************************************************************************)
(* The invariant is kept: the opener                                         *)
(***************************************************************************)
\* The opener works for the file that is opened, or for one that may come.
LEMMA OpenStep ==
  ASSUME IInv, [Next]_vars
  PROVE  OpenInv'
<1> USE DEF IInv, OpenInv, TypeInv, Places, Before, After, Apart
<1>1. CASE Between
  BY <1>1 DEF Between, CancelOpen, Terminate, playlist, core, openVars, adderVars
<1>2. CASE Idle
  BY <1>2 DEF Idle, playlist, core, openVars, adderVars
<1>3. CASE HookAbort
  BY <1>3 DEF HookAbort, Abort, playlist, core, openVars, adderVars
<1>4. CASE HookEnds
  BY <1>4 DEF HookEnds, Terminate, Hooks, playlist, core, openVars, adderVars
<1>5. CASE Open
  <2>1. playing # None
    BY <1>5 DEF Open, FileInv, place
  <2>2. ~opts.over /\ stop_play = "keep" => ~aborted
    BY DEF StopInv
  <2>3. CASE active /\ ~Usable
    <3>1. /\ CancelOpen("open") /\ UNCHANGED <<active, url, linked, done, res, opener>>
          /\ UNCHANGED <<opts, stop_play, playing>>
      BY <1>5, <2>3 DEF Open
    <3>2. pc' = "join" /\ cancel' # "none" /\ active
      BY <3>1, <2>3 DEF CancelOpen
    <3> QED BY <2>3, <3>1, <3>2
  <2>4. CASE active /\ Usable
    <3>1. /\ pc' = "open_test" /\ linked' = TRUE
          /\ cancel' = (IF aborted THEN "triggered" ELSE cancel)
          /\ UNCHANGED <<active, url, done, res, opener>>
          /\ UNCHANGED <<opts, stop_play, playing>>
      BY <1>5, <2>4 DEF Open
    <3>2. url' = playing' /\ active /\ active'
      BY <2>4, <3>1 DEF Usable
    <3>3. cancel = "set"
      BY <1>5, <2>4 DEF Open
    <3> QED BY <2>2, <3>1, <3>2, <3>3
  <2>5. CASE ~active
    BY <1>5, <2>1, <2>2, <2>5 DEF Open, StartOpen
  <2> QED BY <2>3, <2>4, <2>5
<1>6. CASE OpenTest
  BY <1>6 DEF OpenTest, CancelOpen, playlist, core, openVars, adderVars
<1>7. CASE OpenWakes
  BY <1>7 DEF OpenWakes, Abort, playlist, core, openVars, adderVars
<1>8. CASE JoinOpen
  BY <1>8 DEF JoinOpen, playlist, core, openVars, adderVars
<1>9. CASE Opened
  BY <1>9 DEF Opened, Terminate, playlist, core, openVars, adderVars
<1>10. CASE PlayWakes
  BY <1>10 DEF PlayWakes, Terminate, playRest, playlist, core, openVars, adderVars
<1>11. CASE KillStart
  BY <1>11 DEF KillStart, Threaded, playlist, core, openVars, adderVars
<1>12. CASE KillTest
  BY <1>12 DEF KillTest, Only, playlist, core, openVars, adderVars
<1>13. CASE KillWakes
  BY <1>13 DEF KillWakes, playlist, core, openVars, adderVars
<1>14. CASE KillTimeout
  BY <1>14 DEF KillTimeout, playlist, core, openVars, adderVars
<1>15. CASE Finish
  BY <1>15 DEF Finish, Abort, playlist, core, openVars, adderVars
<1>16. CASE NextEntry
  BY <1>16 DEF NextEntry, CancelOpen, playlist, core, openVars, adderVars
<1>17. CASE OpenSucceeds
  BY <1>17 DEF OpenSucceeds, OpenEnd, playlist, core, openVars, adderVars
<1>18. CASE OpenFails
  BY <1>18 DEF OpenFails, OpenEnd, playlist, core, openVars, adderVars
<1>19. CASE Show
  BY <1>19 DEF Show, playRest, playlist, core, openVars, adderVars
<1>20. CASE EndOfFile
  BY <1>20 DEF EndOfFile, Terminate, playRest, playlist, core, openVars, adderVars
<1>21. CASE AudioFails
  BY <1>21 DEF AudioFails, Terminate, playRest, playlist, core, openVars, adderVars
<1>22. CASE Prefetch
  <2>1. CASE ~active /\ NextFile(1, FALSE).e # None /\ StartOpen(NextFile(1, FALSE).e, FALSE)
    BY <1>22, <2>1 DEF Prefetch, StartOpen, playRest
  <2>2. CASE UNCHANGED openVars
    BY <1>22, <2>2 DEF Prefetch, openVars, playRest
  <2> QED BY <1>22, <2>1, <2>2 DEF Prefetch
<1>23. CASE \E i \in {"file", "tracks"} : DemuxerEnds(i)
  BY <1>23 DEF DemuxerEnds, playlist, core, openVars, adderVars
<1>24. CASE AdderOpens
  BY <1>24 DEF AdderOpens, playlist, core, openVars, adderVars
<1>25. CASE AdderEnds
  BY <1>25 DEF AdderEnds, AdderWelcomed, Waits, playlist, core, openVars, adderVars
<1>26. CASE CmdLoadfile
  BY <1>26 DEF CmdLoadfile, Command, Waits, SetEntry, playlist, core, openVars, adderVars
<1>27. CASE CmdNextPrev
  BY <1>27 DEF CmdNextPrev, Command, Waits, SetEntry, playlist, core, openVars, adderVars
<1>28. CASE CmdRemove
  BY <1>28 DEF CmdRemove, Command, Waits, RemoveEntry, playlist, core, openVars, adderVars
<1>29. CASE CmdClear
  BY <1>29 DEF CmdClear, Command, Waits, playlist, core, openVars, adderVars
<1>30. CASE CmdMove
  BY <1>30 DEF CmdMove, Command, Waits, playlist, core, openVars, adderVars
<1>31. CASE CmdStop
  BY <1>31 DEF CmdStop, Command, Waits, playlist, core, openVars, adderVars
<1>32. CASE CmdQuit
  BY <1>32 DEF CmdQuit, Command, Waits, playlist, core, openVars, adderVars
<1>33. CASE CmdSeek
  BY <1>33 DEF CmdSeek, Command, Waits, playlist, core, openVars, adderVars
<1>34. CASE CmdTrackAdd
  BY <1>34 DEF CmdTrackAdd, Command, Waits, playlist, core, openVars, adderVars
<1>35. CASE UNCHANGED vars
  BY <1>35 DEF vars, playlist, core, openVars, adderVars
<1> QED
  BY <1>1, <1>2, <1>3, <1>4, <1>5, <1>6, <1>7, <1>8, <1>9, <1>10, <1>11, <1>12, <1>13,
     <1>14, <1>15, <1>16, <1>17, <1>18, <1>19, <1>20, <1>21, <1>22, <1>23, <1>24, <1>25,
     <1>26, <1>27, <1>28, <1>29, <1>30, <1>31, <1>32, <1>33, <1>34, <1>35
  DEF Next, Core, Commands

-------------------------------------------------------------------------------
(***************************************************************************)
(* The invariant is kept: the file                                           *)
(***************************************************************************)
\* Aborting does not change which demuxer there is.
LEMMA AbortKeeps ==
  ASSUME TypeInv, Abort
  PROVE  /\ demuxer' = None <=> demuxer = None
         /\ demuxer # None => demuxer'.url = demuxer.url
<1>1. demuxer # None => demuxer' \in Demuxers /\ demuxer'.url = demuxer.url
  BY DEF TypeInv, Abort, Demuxers
<1> QED BY <1>1, PlaybackAssumption DEF Abort

\* What there is of the file belongs to the place the core is at.
LEMMA FileStep ==
  ASSUME IInv, [Next]_vars
  PROVE  FileInv'
<1> USE DEF IInv, FileInv, place, TypeInv, Places, Before, After, Apart
<1>1. CASE Between
  BY <1>1 DEF Between, CancelOpen, Terminate, playlist, core, openVars, adderVars
<1>2. CASE Idle
  BY <1>2 DEF Idle, playlist, core, openVars, adderVars
<1>3. CASE HookAbort
  <2>1. CASE Abort
    BY <1>3, <2>1, AbortKeeps DEF HookAbort, Abort, core, playlist
  <2>2. CASE UNCHANGED <<aborted, cancel, demuxer, tracks, adder_cancel>>
    BY <1>3, <2>2 DEF HookAbort, core, playlist
  <2> QED BY <1>3, <2>1, <2>2 DEF HookAbort
<1>4. CASE HookEnds
  BY <1>4 DEF HookEnds, Terminate, Hooks, playlist, core, openVars, adderVars
<1>5. CASE Open
  BY <1>5 DEF Open, CancelOpen, StartOpen, Usable, playlist, core, openVars, adderVars
<1>6. CASE OpenTest
  <2>1. demuxer' # None => demuxer'.url = playing
    BY <1>6 DEF OpenTest, OpenInv
  <2>2. \/ pc' = "open_sleep" /\ demuxer' = demuxer
        \/ pc' = "join" /\ then' = "opened"
    <3>1. CASE done
      BY <1>6, <3>1 DEF OpenTest, CancelOpen
    <3>2. CASE ~done
      BY <1>6, <3>2 DEF OpenTest
    <3> QED BY <3>1, <3>2
  <2> QED BY <1>6, <2>1, <2>2 DEF OpenTest, adderVars
<1>7. CASE OpenWakes
  BY <1>7 DEF OpenWakes, Abort, playlist, core, openVars, adderVars
<1>8. CASE JoinOpen
  BY <1>8 DEF JoinOpen, playlist, core, openVars, adderVars
<1>9. CASE Opened
  <2>1. (demuxer' = None <=> demuxer = None) /\ (demuxer # None => demuxer'.url = playing)
    <3>1. CASE UNCHANGED demuxer
      BY <3>1
    <3>2. CASE demuxer # None /\ demuxer' = [demuxer EXCEPT !.threaded = TRUE]
      <4>1. demuxer' \in Demuxers /\ demuxer'.url = demuxer.url
        BY <3>2 DEF Demuxers
      <4> QED BY <3>2, <4>1, PlaybackAssumption
    <3> QED BY <1>9, <3>1, <3>2 DEF Opened
  <2>2. pc' \in {"on_load_fail", "on_unload"} \/ (pc' = "on_preloaded" /\ demuxer # None)
    BY <1>9 DEF Opened, Terminate
  <2> QED BY <1>9, <2>1, <2>2 DEF Opened, adderVars
<1>10. CASE PlayWakes
  BY <1>10 DEF PlayWakes, Terminate, playRest, playlist, core, openVars, adderVars
<1>11. CASE KillStart
  BY <1>11 DEF KillStart, Threaded, playlist, core, openVars, adderVars
<1>12. CASE KillTest
  BY <1>12 DEF KillTest, Only, playlist, core, openVars, adderVars
<1>13. CASE KillWakes
  BY <1>13 DEF KillWakes, playlist, core, openVars, adderVars
<1>14. CASE KillTimeout
  BY <1>14 DEF KillTimeout, playlist, core, openVars, adderVars
<1>15. CASE Finish
  BY <1>15 DEF Finish, Abort, playlist, core, openVars, adderVars
<1>16. CASE NextEntry
  BY <1>16 DEF NextEntry, CancelOpen, playlist, core, openVars, adderVars
<1>17. CASE OpenSucceeds
  BY <1>17 DEF OpenSucceeds, OpenEnd, playlist, core, openVars, adderVars
<1>18. CASE OpenFails
  BY <1>18 DEF OpenFails, OpenEnd, playlist, core, openVars, adderVars
<1>19. CASE Show
  BY <1>19 DEF Show, playRest, playlist, core, openVars, adderVars
<1>20. CASE EndOfFile
  BY <1>20 DEF EndOfFile, Terminate, playRest, playlist, core, openVars, adderVars
<1>21. CASE AudioFails
  BY <1>21 DEF AudioFails, Terminate, playRest, playlist, core, openVars, adderVars
<1>22. CASE Prefetch
  BY <1>22 DEF Prefetch, StartOpen, playRest, playlist, core, openVars, adderVars
<1>23. CASE \E i \in {"file", "tracks"} : DemuxerEnds(i)
  BY <1>23 DEF DemuxerEnds, playlist, core, openVars, adderVars
<1>24. CASE AdderOpens
  BY <1>24 DEF AdderOpens, playlist, core, openVars, adderVars
<1>25. CASE AdderEnds
  BY <1>25 DEF AdderEnds, AdderWelcomed, Waits, playlist, core, openVars, adderVars
<1>26. CASE CmdLoadfile
  BY <1>26 DEF CmdLoadfile, Command, Waits, SetEntry, playlist, core, openVars, adderVars
<1>27. CASE CmdNextPrev
  BY <1>27 DEF CmdNextPrev, Command, Waits, SetEntry, playlist, core, openVars, adderVars
<1>28. CASE CmdRemove
  BY <1>28 DEF CmdRemove, Command, Waits, RemoveEntry, playlist, core, openVars, adderVars
<1>29. CASE CmdClear
  BY <1>29 DEF CmdClear, Command, Waits, playlist, core, openVars, adderVars
<1>30. CASE CmdMove
  BY <1>30 DEF CmdMove, Command, Waits, playlist, core, openVars, adderVars
<1>31. CASE CmdStop
  BY <1>31 DEF CmdStop, Command, Waits, playlist, core, openVars, adderVars
<1>32. CASE CmdQuit
  BY <1>32 DEF CmdQuit, Command, Waits, playlist, core, openVars, adderVars
<1>33. CASE CmdSeek
  BY <1>33 DEF CmdSeek, Command, Waits, playlist, core, openVars, adderVars
<1>34. CASE CmdTrackAdd
  BY <1>34 DEF CmdTrackAdd, Command, Waits, playlist, core, openVars, adderVars
<1>35. CASE UNCHANGED vars
  BY <1>35 DEF vars, playlist, core, openVars, adderVars
<1> QED
  BY <1>1, <1>2, <1>3, <1>4, <1>5, <1>6, <1>7, <1>8, <1>9, <1>10, <1>11, <1>12, <1>13,
     <1>14, <1>15, <1>16, <1>17, <1>18, <1>19, <1>20, <1>21, <1>22, <1>23, <1>24, <1>25,
     <1>26, <1>27, <1>28, <1>29, <1>30, <1>31, <1>32, <1>33, <1>34, <1>35
  DEF Next, Core, Commands

-------------------------------------------------------------------------------
(***************************************************************************)
(* The invariant is kept: being told to stop                                 *)
(***************************************************************************)
\* A file that plays is not aborted, and one that is over stays so.
LEMMA StopStep ==
  ASSUME IInv, [Next]_vars
  PROVE  StopInv'
<1> USE DEF IInv, StopInv, place, TypeInv, Places, Before, After, Apart
<1>1. CASE Between
  <2>1. demuxer = None /\ UNCHANGED <<demuxer, tracks, opts>>
    BY <1>1 DEF Between, FileInv, adderVars
  <2>2. \/ stop_play = "quit" /\ stop_play' = "quit" /\ pc' = "join" /\ then' = "exit"
        \/ stop_play' = stop_play /\ pc' = "idle"
        \/ aborted' = FALSE /\ stop_play' \in {"keep", "error"} /\ pc' \in {"on_load", "on_unload"}
           /\ (pc' = "on_unload" => stop_play' = "error")
    BY <1>1 DEF Between, CancelOpen, Terminate
  <2>3. stop_play # "keep"
    BY <1>1 DEF Between, FileInv
  <2>4. stop_play # "eof" /\ (~opts.over => tracks = "none")
    BY <1>1 DEF Between
  <2> QED BY <2>1, <2>2, <2>3, <2>4
<1>2. CASE Idle
  BY <1>2 DEF Idle, playlist, core, openVars, adderVars
<1>3. CASE HookAbort
  BY <1>3 DEF HookAbort, Abort, playlist, core, openVars, adderVars
<1>4. CASE HookEnds
  BY <1>4 DEF HookEnds, Terminate, Hooks, playlist, core, openVars, adderVars
<1>5. CASE Open
  BY <1>5 DEF Open, CancelOpen, StartOpen, Usable, playlist, core, openVars, adderVars
<1>6. CASE OpenTest
  <2>1. \/ pc' = "open_sleep" /\ demuxer' = demuxer
        \/ pc' = "join" /\ then' = "opened"
    <3>1. CASE done
      BY <1>6, <3>1 DEF OpenTest, CancelOpen
    <3>2. CASE ~done
      BY <1>6, <3>2 DEF OpenTest
    <3> QED BY <3>1, <3>2
  <2>2. UNCHANGED <<stop_play, opts, aborted, tracks>>
    BY <1>6 DEF OpenTest, adderVars
  <2>3. ~opts.over /\ stop_play = "keep" /\ demuxer' # None => ~demuxer'.cancelled
    <3>1. ~opts.over /\ stop_play = "keep" => cancel = "set"
      BY <1>6 DEF OpenTest, OpenInv
    <3>2. CASE done /\ demuxer' # None
      <4>1. demuxer' = [url |-> res, cancelled |-> cancel = "triggered", threaded |-> FALSE]
        BY <1>6, <3>2 DEF OpenTest
      <4>2. demuxer'.cancelled = (cancel = "triggered")
        BY ONLY <4>1
      <4> QED BY <3>1, <4>2
    <3>3. CASE ~done
      BY <1>6, <3>3 DEF OpenTest
    <3> QED BY <3>2, <3>3
  <2>4. place = "open_test"
    BY <1>6 DEF OpenTest
  <2> QED BY <2>1, <2>2, <2>3, <2>4
<1>7. CASE OpenWakes
  BY <1>7 DEF OpenWakes, Abort, playlist, core, openVars, adderVars
<1>8. CASE JoinOpen
  BY <1>8 DEF JoinOpen, playlist, core, openVars, adderVars
<1>9. CASE Opened
  <2>1. (demuxer' = None <=> demuxer = None)
        /\ (demuxer # None => demuxer'.cancelled = demuxer.cancelled)
    <3>1. CASE UNCHANGED demuxer
      BY <3>1
    <3>2. CASE demuxer # None /\ demuxer' = [demuxer EXCEPT !.threaded = TRUE]
      <4>1. demuxer' \in Demuxers /\ demuxer'.cancelled = demuxer.cancelled
        BY <3>2 DEF Demuxers
      <4> QED BY <3>2, <4>1, PlaybackAssumption
    <3> QED BY <1>9, <3>1, <3>2 DEF Opened
  <2>2. \/ pc' \in {"on_load_fail", "on_preloaded"} /\ stop_play' = stop_play
        \/ pc' = "on_unload" /\ stop_play' # "keep" /\ stop_play # "keep" /\ stop_play' = stop_play
        \/ pc' = "on_unload" /\ stop_play' = "error"
    BY <1>9 DEF Opened, Terminate
  <2>3. stop_play # "eof"
    BY <1>9 DEF Opened
  <2> QED BY <1>9, <2>1, <2>2, <2>3 DEF Opened, adderVars
<1>10. CASE PlayWakes
  BY <1>10 DEF PlayWakes, Terminate, playRest, playlist, core, openVars, adderVars
<1>11. CASE KillStart
  BY <1>11 DEF KillStart, Threaded, playlist, core, openVars, adderVars
<1>12. CASE KillTest
  BY <1>12 DEF KillTest, Only, playlist, core, openVars, adderVars
<1>13. CASE KillWakes
  BY <1>13 DEF KillWakes, playlist, core, openVars, adderVars
<1>14. CASE KillTimeout
  BY <1>14 DEF KillTimeout, playlist, core, openVars, adderVars
<1>15. CASE Finish
  BY <1>15 DEF Finish, Abort, playlist, core, openVars, adderVars
<1>16. CASE NextEntry
  BY <1>16 DEF NextEntry, CancelOpen, playlist, core, openVars, adderVars
<1>17. CASE OpenSucceeds
  BY <1>17 DEF OpenSucceeds, OpenEnd, playlist, core, openVars, adderVars
<1>18. CASE OpenFails
  BY <1>18 DEF OpenFails, OpenEnd, playlist, core, openVars, adderVars
<1>19. CASE Show
  BY <1>19 DEF Show, playRest, playlist, core, openVars, adderVars
<1>20. CASE EndOfFile
  BY <1>20 DEF EndOfFile, Terminate, playRest, playlist, core, openVars, adderVars
<1>21. CASE AudioFails
  BY <1>21 DEF AudioFails, Terminate, playRest, playlist, core, openVars, adderVars
<1>22. CASE Prefetch
  BY <1>22 DEF Prefetch, StartOpen, playRest, playlist, core, openVars, adderVars
<1>23. CASE \E i \in {"file", "tracks"} : DemuxerEnds(i)
  BY <1>23 DEF DemuxerEnds, playlist, core, openVars, adderVars
<1>24. CASE AdderOpens
  BY <1>24 DEF AdderOpens, playlist, core, openVars, adderVars
<1>25. CASE AdderEnds
  <2>1. UNCHANGED <<pc, then, stop_play, opts, aborted, demuxer>>
    BY <1>25 DEF AdderEnds, core
  <2>2. stop_play # "keep" => tracks' = tracks
    BY <1>25 DEF AdderEnds, AdderWelcomed
  <2>3. place \in Apart => stop_play # "keep"
    BY DEF FileInv
  <2>4. ~opts.over /\ place \in After \cup Apart => tracks' = "none"
    BY <2>2, <2>3
  <2> QED BY <2>1, <2>4
<1>26. CASE CmdLoadfile
  BY <1>26 DEF CmdLoadfile, Command, Waits, SetEntry, playlist, core, openVars, adderVars
<1>27. CASE CmdNextPrev
  BY <1>27 DEF CmdNextPrev, Command, Waits, SetEntry, playlist, core, openVars, adderVars
<1>28. CASE CmdRemove
  BY <1>28 DEF CmdRemove, Command, Waits, RemoveEntry, playlist, core, openVars, adderVars
<1>29. CASE CmdClear
  BY <1>29 DEF CmdClear, Command, Waits, playlist, core, openVars, adderVars
<1>30. CASE CmdMove
  BY <1>30 DEF CmdMove, Command, Waits, playlist, core, openVars, adderVars
<1>31. CASE CmdStop
  BY <1>31 DEF CmdStop, Command, Waits, playlist, core, openVars, adderVars
<1>32. CASE CmdQuit
  BY <1>32 DEF CmdQuit, Command, Waits, playlist, core, openVars, adderVars
<1>33. CASE CmdSeek
  BY <1>33 DEF CmdSeek, Command, Waits, playlist, core, openVars, adderVars
<1>34. CASE CmdTrackAdd
  BY <1>34 DEF CmdTrackAdd, Command, Waits, playlist, core, openVars, adderVars
<1>35. CASE UNCHANGED vars
  BY <1>35 DEF vars, playlist, core, openVars, adderVars
<1> QED
  BY <1>1, <1>2, <1>3, <1>4, <1>5, <1>6, <1>7, <1>8, <1>9, <1>10, <1>11, <1>12, <1>13,
     <1>14, <1>15, <1>16, <1>17, <1>18, <1>19, <1>20, <1>21, <1>22, <1>23, <1>24, <1>25,
     <1>26, <1>27, <1>28, <1>29, <1>30, <1>31, <1>32, <1>33, <1>34, <1>35
  DEF Next, Core, Commands

-------------------------------------------------------------------------------
(***************************************************************************)
(* The invariant is kept: counting the demuxers                              *)
(***************************************************************************)
\* One element more, or none.
LEMMA OneMore ==
  ASSUME NEW S, IsFiniteSet(S), NEW x, x \notin S, NEW b \in BOOLEAN
  PROVE  /\ IsFiniteSet(S \cup (IF b THEN {x} ELSE {}))
         /\ Cardinality(S \cup (IF b THEN {x} ELSE {})) = Cardinality(S) + One(b)
         /\ Cardinality(S) \in Nat
<1>1. CASE b
  <2>1. S \cup (IF b THEN {x} ELSE {}) = S \cup {x} /\ One(b) = 1
    BY <1>1 DEF One
  <2> QED BY <2>1, FS_AddElement, FS_CardinalityType
<1>2. CASE ~b
  <2>1. S \cup (IF b THEN {x} ELSE {}) = S /\ One(b) = 0
    BY <1>2 DEF One
  <2>2. Cardinality(S) \in Nat
    BY FS_CardinalityType
  <2> QED BY <2>1, <2>2
<1> QED BY <1>1, <1>2

\* The size of a set of demuxers that are told to end.
LEMMA TwoOf ==
  ASSUME NEW S, S \subseteq {"file", "tracks"}
  PROVE  Cardinality(S) = One("file" \in S) + One("tracks" \in S)
<1> DEFINE p == "file" \in S
           q == "tracks" \in S
           A == {} \cup (IF p THEN {"file"} ELSE {})
           B == A \cup (IF q THEN {"tracks"} ELSE {})
<1>1. IsFiniteSet({}) /\ Cardinality({}) = 0
  BY FS_EmptySet
<1>2. p \in BOOLEAN /\ q \in BOOLEAN /\ "tracks" \notin A
  OBVIOUS
<1>6. B = S
  <2>1. ASSUME NEW x \in B PROVE x \in S
    OBVIOUS
  <2>2. ASSUME NEW x \in S PROVE x \in B
    OBVIOUS
  <2> QED BY <2>1, <2>2
<1> HIDE DEF p, q
<1>3. IsFiniteSet(A) /\ Cardinality(A) = 0 + One(p)
  BY <1>1, <1>2, OneMore
<1> HIDE DEF A
<1>4. Cardinality(B) = Cardinality(A) + One(q)
  BY <1>2, <1>3, OneMore
<1> HIDE DEF B
<1>5. One(p) \in Nat
  BY DEF One
<1> QED BY <1>3, <1>4, <1>5, <1>6 DEF p, q

\* The number of the other owners.
LEMMA FourOf ==
  ASSUME NEW p \in BOOLEAN, NEW q \in BOOLEAN, NEW r \in BOOLEAN, NEW s \in BOOLEAN
  PROVE  Cardinality({x \in {"res", "file", "tracks", "adder"} :
                        \/ x = "res" /\ p
                        \/ x = "file" /\ q
                        \/ x = "tracks" /\ r
                        \/ x = "adder" /\ s})
           = One(p) + One(q) + One(r) + One(s)
<1> DEFINE A == {} \cup (IF p THEN {"res"} ELSE {})
           B == A \cup (IF q THEN {"file"} ELSE {})
           C == B \cup (IF r THEN {"tracks"} ELSE {})
           D == C \cup (IF s THEN {"adder"} ELSE {})
           all == {x \in {"res", "file", "tracks", "adder"} :
                     \/ x = "res" /\ p
                     \/ x = "file" /\ q
                     \/ x = "tracks" /\ r
                     \/ x = "adder" /\ s}
<1>1. IsFiniteSet({}) /\ Cardinality({}) = 0
  BY FS_EmptySet
<1>2. "file" \notin A /\ "tracks" \notin B /\ "adder" \notin C
  OBVIOUS
<1>3. D = all
  OBVIOUS
<1>4. IsFiniteSet(A) /\ Cardinality(A) = 0 + One(p)
  BY <1>1, OneMore
<1> HIDE DEF A
<1>5. IsFiniteSet(B) /\ Cardinality(B) = Cardinality(A) + One(q)
  BY <1>2, <1>4, OneMore
<1> HIDE DEF B
<1>6. IsFiniteSet(C) /\ Cardinality(C) = Cardinality(B) + One(r)
  BY <1>2, <1>5, OneMore
<1> HIDE DEF C
<1>7. Cardinality(D) = Cardinality(C) + One(s)
  BY <1>2, <1>6, OneMore
<1> HIDE DEF D, all
<1>8. One(p) \in Nat /\ One(q) \in Nat /\ One(r) \in Nat /\ One(s) \in Nat
  BY DEF One
<1>9. Cardinality(all) = One(p) + One(q) + One(r) + One(s)
  BY <1>3, <1>4, <1>5, <1>6, <1>7, <1>8
<1> QED BY <1>9 DEF all

\* No step loses a demuxer, or frees one twice.
LEMMA CountStep ==
  ASSUME IInv, [Next]_vars
  PROVE  Counted'
<1> USE DEF IInv, Counted, TypeInv, OpenInv, FileInv, One
<1>1. CASE Between
  BY <1>1 DEF Between, CancelOpen, Terminate, playlist, core, openVars, adderVars
<1>2. CASE Idle
  BY <1>2 DEF Idle, playlist, core, openVars, adderVars
<1>3. CASE HookAbort
  <2>1. CASE Abort
    BY <1>3, <2>1, AbortKeeps DEF HookAbort, Abort, core, playlist
  <2>2. CASE UNCHANGED <<aborted, cancel, demuxer, tracks, adder_cancel>>
    BY <1>3, <2>2 DEF HookAbort, core, playlist
  <2> QED BY <1>3, <2>1, <2>2 DEF HookAbort
<1>4. CASE HookEnds
  BY <1>4 DEF HookEnds, Terminate, Hooks, playlist, core, openVars, adderVars
<1>5. CASE Open
  BY <1>5 DEF Open, CancelOpen, StartOpen, Usable, playlist, core, openVars, adderVars
<1>6. CASE OpenTest
  <2>1. CASE done /\ res # None
    <3> DEFINE cancelled == cancel = "triggered"
    <3>1. demuxer' = [url |-> res, cancelled |-> cancelled, threaded |-> FALSE]
      BY <1>6, <2>1 DEF OpenTest
    <3>2. cancelled \in BOOLEAN
      OBVIOUS
    <3> HIDE DEF cancelled
    <3>3. demuxer' \in Demuxers
      BY ONLY <2>1, <3>1, <3>2, res \in Entries \cup {None} DEF Demuxers
    <3>4. demuxer' # None
      BY <3>3, PlaybackAssumption
    <3>5. res' = None /\ UNCHANGED <<live, killing, tracks, adder>>
      BY <1>6, <2>1 DEF OpenTest, adderVars
    <3>6. demuxer = None
      BY <1>6 DEF OpenTest, FileInv, place, Before
    <3> QED BY <2>1, <3>4, <3>5, <3>6
  <2>2. CASE ~(done /\ res # None)
    <3>1. /\ UNCHANGED <<live, killing, tracks, adder>>
          /\ res = None /\ res' = None
      BY <1>6, <2>2 DEF OpenTest, adderVars, OpenInv
    <3>2. demuxer = None /\ demuxer' = None
      BY <1>6, <2>2 DEF OpenTest, FileInv, place, Before
    <3> QED BY <3>1, <3>2
  <2> QED BY <2>1, <2>2
<1>7. CASE OpenWakes
  <2>1. CASE Abort
    BY <1>7, <2>1, AbortKeeps DEF OpenWakes, Abort, playlist
  <2>2. CASE UNCHANGED <<aborted, cancel, demuxer, tracks, adder_cancel>>
    BY <1>7, <2>2 DEF OpenWakes, playlist
  <2> QED BY <1>7, <2>1, <2>2 DEF OpenWakes
<1>8. CASE JoinOpen
  BY <1>8 DEF JoinOpen, playlist, core, openVars, adderVars
<1>9. CASE Opened
  <2>1. demuxer' = None <=> demuxer = None
    <3>1. CASE UNCHANGED demuxer
      BY <3>1
    <3>2. CASE demuxer # None /\ demuxer' = [demuxer EXCEPT !.threaded = TRUE]
      <4>1. demuxer' \in Demuxers
        BY <3>2 DEF Demuxers
      <4> QED BY <3>2, <4>1, PlaybackAssumption
    <3> QED BY <1>9, <3>1, <3>2 DEF Opened
  <2> QED BY <1>9, <2>1 DEF Opened, openVars, adderVars
<1>10. CASE PlayWakes
  BY <1>10 DEF PlayWakes, Terminate, playRest, playlist, core, openVars, adderVars
<1>11. CASE KillStart
  <2> DEFINE there == (IF demuxer = None THEN {} ELSE {"file"})
                      \cup (IF tracks = "none" THEN {} ELSE {"tracks"})
  <2>1. /\ DOMAIN killing' = Threaded /\ live' = live - Cardinality(there \ Threaded)
        /\ demuxer' = None /\ tracks' = "none" /\ UNCHANGED <<res, adder>>
    BY <1>11 DEF KillStart, openVars
  <2>2. DOMAIN killing = {}
    BY <1>11 DEF KillStart, FileInv, place
  <2>3. Threaded \subseteq there
    BY DEF Threaded
  <2>4. Cardinality(there \ Threaded)
          = One("file" \in there \ Threaded) + One("tracks" \in there \ Threaded)
    BY TwoOf
  <2>5. ("file" \in there <=> demuxer # None) /\ ("tracks" \in there <=> tracks # "none")
    OBVIOUS
  <2> HIDE DEF there
  <2> QED BY <2>1, <2>2, <2>3, <2>4, <2>5
<1>12. CASE KillTest
  <2> DEFINE ended == {i \in DOMAIN killing : killing[i] = "ended"}
  <2>1. /\ DOMAIN killing' = DOMAIN killing \ ended /\ live' = live - Cardinality(ended)
        /\ UNCHANGED <<demuxer, tracks, res, adder>>
    BY <1>12 DEF KillTest, Only, openVars, adderVars
  <2>2. ended \subseteq DOMAIN killing
    OBVIOUS
  <2>3. Cardinality(ended) = One("file" \in ended) + One("tracks" \in ended)
    BY TwoOf
  <2> HIDE DEF ended
  <2> QED BY <2>1, <2>2, <2>3
<1>13. CASE KillWakes
  BY <1>13 DEF KillWakes, playlist, core, openVars, adderVars
<1>14. CASE KillTimeout
  BY <1>14 DEF KillTimeout, playlist, core, openVars, adderVars
<1>15. CASE Finish
  BY <1>15, AbortKeeps DEF Finish, Abort, playlist
<1>16. CASE NextEntry
  BY <1>16 DEF NextEntry, CancelOpen, playlist, core, openVars, adderVars
<1>17. CASE OpenSucceeds
  BY <1>17 DEF OpenSucceeds, OpenEnd, playlist, core, openVars, adderVars
<1>18. CASE OpenFails
  BY <1>18 DEF OpenFails, OpenEnd, playlist, core, openVars, adderVars
<1>19. CASE Show
  BY <1>19 DEF Show, playRest, playlist, core, openVars, adderVars
<1>20. CASE EndOfFile
  BY <1>20 DEF EndOfFile, Terminate, playRest, playlist, core, openVars, adderVars
<1>21. CASE AudioFails
  BY <1>21 DEF AudioFails, Terminate, playRest, playlist, core, openVars, adderVars
<1>22. CASE Prefetch
  <2>1. UNCHANGED <<live, killing, demuxer, tracks, adder, res>>
    BY <1>22 DEF Prefetch, StartOpen, openVars, playRest, adderVars
  <2> QED BY <2>1
<1>23. CASE \E i \in {"file", "tracks"} : DemuxerEnds(i)
  BY <1>23 DEF DemuxerEnds, openVars, adderVars
<1>24. CASE AdderOpens
  BY <1>24 DEF AdderOpens, playlist, core, openVars, adderVars
<1>25. CASE AdderEnds
  BY <1>25 DEF AdderEnds, AdderWelcomed, Waits, playlist, core, openVars, adderVars
<1>26. CASE CmdLoadfile
  BY <1>26 DEF CmdLoadfile, Command, Waits, SetEntry, playlist, core, openVars, adderVars
<1>27. CASE CmdNextPrev
  BY <1>27 DEF CmdNextPrev, Command, Waits, SetEntry, playlist, core, openVars, adderVars
<1>28. CASE CmdRemove
  BY <1>28 DEF CmdRemove, Command, Waits, RemoveEntry, playlist, core, openVars, adderVars
<1>29. CASE CmdClear
  BY <1>29 DEF CmdClear, Command, Waits, playlist, core, openVars, adderVars
<1>30. CASE CmdMove
  BY <1>30 DEF CmdMove, Command, Waits, playlist, core, openVars, adderVars
<1>31. CASE CmdStop
  BY <1>31 DEF CmdStop, Command, Waits, playlist, core, openVars, adderVars
<1>32. CASE CmdQuit
  BY <1>32 DEF CmdQuit, Command, Waits, playlist, core, openVars, adderVars
<1>33. CASE CmdSeek
  BY <1>33 DEF CmdSeek, Command, Waits, playlist, core, openVars, adderVars
<1>34. CASE CmdTrackAdd
  BY <1>34 DEF CmdTrackAdd, Command, Waits, playlist, core, openVars, adderVars
<1>35. CASE UNCHANGED vars
  BY <1>35 DEF vars, playlist, core, openVars, adderVars
<1> QED
  BY <1>1, <1>2, <1>3, <1>4, <1>5, <1>6, <1>7, <1>8, <1>9, <1>10, <1>11, <1>12, <1>13,
     <1>14, <1>15, <1>16, <1>17, <1>18, <1>19, <1>20, <1>21, <1>22, <1>23, <1>24, <1>25,
     <1>26, <1>27, <1>28, <1>29, <1>30, <1>31, <1>32, <1>33, <1>34, <1>35
  DEF Next, Core, Commands

-------------------------------------------------------------------------------
(***************************************************************************)
(* The invariant is kept: the entry that was asked for                       *)
(***************************************************************************)
\* mp_set_playlist_entry
LEMMA SetKeepsAsked ==
  ASSUME IInv, NEW e \in Entries \cup {None}, SetEntry(e), Waits, UNCHANGED <<pc, then>>
  PROVE  AskedInv'
<1> USE DEF IInv, TypeInv, Places, Before, After, Apart
<1>1. place' = place /\ (pc # "join" => place = pc) /\ pc # "join"
  BY DEF place, Waits
<1>2. stop_play' = (IF stop_play = "keep" THEN "current" ELSE stop_play)
  BY DEF SetEntry
<1>3. CASE asked' = None
  BY <1>1, <1>2, <1>3 DEF AskedInv
<1>4. CASE asked' # None
  <2> DEFINE late == pc # "idle" /\ stop_play \notin {"keep", "current"}
  <2>1. e # None /\ asked' = [e |-> e, late |-> late] /\ current' = e
    BY <1>4 DEF SetEntry
  <2>2. asked'.late = late /\ asked'.e = e
    BY ONLY <2>1
  <2>3. ~late => place \in Apart \/ stop_play' = "current"
    BY <1>1, <1>2
  <2> HIDE DEF late
  <2> QED BY <1>1, <1>2, <2>1, <2>2, <2>3 DEF AskedInv
<1> QED BY <1>3, <1>4

\* An entry that was asked for stays the next one to be played.
LEMMA AskedStep ==
  ASSUME IInv, [Next]_vars
  PROVE  AskedInv'
<1> USE DEF IInv, AskedInv, place, TypeInv, Places, Before, After, Apart
<1>1. CASE Between
  BY <1>1 DEF Between, CancelOpen, Terminate, playlist, core, openVars, adderVars
<1>2. CASE Idle
  BY <1>2 DEF Idle, playlist, core, openVars, adderVars
<1>3. CASE HookAbort
  BY <1>3 DEF HookAbort, Abort, playlist, core, openVars, adderVars
<1>4. CASE HookEnds
  BY <1>4 DEF HookEnds, Terminate, Hooks, playlist, core, openVars, adderVars
<1>5. CASE Open
  BY <1>5 DEF Open, CancelOpen, StartOpen, Usable, playlist, core, openVars, adderVars
<1>6. CASE OpenTest
  BY <1>6 DEF OpenTest, CancelOpen, playlist, core, openVars, adderVars
<1>7. CASE OpenWakes
  BY <1>7 DEF OpenWakes, Abort, playlist, core, openVars, adderVars
<1>8. CASE JoinOpen
  BY <1>8 DEF JoinOpen, playlist, core, openVars, adderVars
<1>9. CASE Opened
  <2>1. place = "opened"
    BY <1>9 DEF Opened
  <2>2. CASE UNCHANGED <<playlist, asked>>
    <3>1. /\ pc' \in {"on_load_fail", "on_unload", "on_preloaded"}
          /\ stop_play # "keep" => stop_play' = stop_play
      BY <1>9 DEF Opened, Terminate
    <3> QED BY <2>1, <2>2, <3>1 DEF playlist
  <2>3. CASE ~UNCHANGED <<playlist, asked>>
    <3> DEFINE e == Content[playing][1]
    <3>1. /\ TransferPlaylist(Content[playing]) /\ stop_play = "keep"
          /\ stop_play' = "error" /\ pc' = "on_unload"
      BY <1>9, <2>3 DEF Opened, Terminate
    <3>2. /\ asked' = [e |-> e, late |-> FALSE] /\ current' = e
          /\ replaced' = (replaced \/ current # None)
      BY <3>1 DEF TransferPlaylist
    <3>3. replaced'
      BY <2>1, <3>1, <3>2
    <3>4. asked'.e = e
      BY ONLY <3>2
    <3> HIDE DEF e
    <3> QED BY <3>1, <3>2, <3>3, <3>4
  <2> QED BY <2>2, <2>3
<1>10. CASE PlayWakes
  BY <1>10 DEF PlayWakes, Terminate, playRest, playlist, core, openVars, adderVars
<1>11. CASE KillStart
  BY <1>11 DEF KillStart, Threaded, playlist, core, openVars, adderVars
<1>12. CASE KillTest
  BY <1>12 DEF KillTest, Only, playlist, core, openVars, adderVars
<1>13. CASE KillWakes
  BY <1>13 DEF KillWakes, playlist, core, openVars, adderVars
<1>14. CASE KillTimeout
  BY <1>14 DEF KillTimeout, playlist, core, openVars, adderVars
<1>15. CASE Finish
  BY <1>15 DEF Finish, Abort, playlist, core, openVars, adderVars
<1>16. CASE NextEntry
  <2>1. asked' = asked /\ (pc' = "between" \/ (pc' = "join" /\ then' = "exit"))
    BY <1>16 DEF NextEntry, CancelOpen
  <2>2. place' \in Apart
    BY <2>1
  <2>3. CASE asked # None /\ ~asked.late
    <3>1. asked.e # None /\ current = asked.e
      BY <2>3, PlaybackAssumption DEF Requests
    <3>2. CASE stop_play = "quit"
      BY <1>16, <2>1, <2>2, <3>1, <3>2 DEF NextEntry, playlist
    <3>3. CASE stop_play = "current"
      <4>1. current' = current
        BY <1>16, <3>3 DEF NextEntry
      <4> QED BY <2>1, <2>2, <3>1, <4>1
    <3>4. CASE replaced /\ stop_play \in {"next", "error", "eof", "stop"}
      <4>1. current' = NextFile(1, FALSE).e
        BY <1>16, <3>4 DEF NextEntry
      <4>2. current' = current
        BY <3>1, <3>4, <4>1, ReplacedIsNext
      <4> QED BY <2>1, <2>2, <3>1, <4>2
    <3>5. place = "ended"
      BY <1>16 DEF NextEntry
    <3> QED BY <2>3, <3>2, <3>3, <3>4, <3>5
  <2>4. CASE asked = None \/ asked.late
    BY <2>1, <2>2, <2>4
  <2> QED BY <2>3, <2>4
<1>17. CASE OpenSucceeds
  BY <1>17 DEF OpenSucceeds, OpenEnd, playlist, core, openVars, adderVars
<1>18. CASE OpenFails
  BY <1>18 DEF OpenFails, OpenEnd, playlist, core, openVars, adderVars
<1>19. CASE Show
  BY <1>19 DEF Show, playRest, playlist, core, openVars, adderVars
<1>20. CASE EndOfFile
  BY <1>20 DEF EndOfFile, Terminate, playRest, playlist, core, openVars, adderVars
<1>21. CASE AudioFails
  BY <1>21 DEF AudioFails, Terminate, playRest, playlist, core, openVars, adderVars
<1>22. CASE Prefetch
  BY <1>22 DEF Prefetch, StartOpen, playRest, playlist, core, openVars, adderVars
<1>23. CASE \E i \in {"file", "tracks"} : DemuxerEnds(i)
  BY <1>23 DEF DemuxerEnds, playlist, core, openVars, adderVars
<1>24. CASE AdderOpens
  BY <1>24 DEF AdderOpens, playlist, core, openVars, adderVars
<1>25. CASE AdderEnds
  BY <1>25 DEF AdderEnds, AdderWelcomed, Waits, playlist, core, openVars, adderVars
<1>26. CASE CmdLoadfile
  <2>1. PICK e \in Entries :
          \/ SetEntry(e)
          \/ UNCHANGED <<current, replaced, stop_play, asked>>
    BY <1>26, PlaybackAssumption DEF CmdLoadfile, Loadable
  <2>2. Command
    BY <1>26 DEF CmdLoadfile
  <2>3. CASE SetEntry(e)
    BY <2>2, <2>3, SetKeepsAsked DEF Command
  <2>4. CASE UNCHANGED <<current, replaced, stop_play, asked>>
    BY <2>2, <2>4 DEF Command
  <2> QED BY <2>1, <2>3, <2>4
<1>27. CASE CmdNextPrev
  <2>1. PICK e \in Entries \cup {None} : SetEntry(e)
    BY <1>27, NextIsOnList, OnListAreEntries DEF CmdNextPrev, PlaylistInv
  <2>2. Command
    BY <1>27 DEF CmdNextPrev
  <2> QED BY <2>1, <2>2, SetKeepsAsked DEF Command
<1>28. CASE CmdRemove
  <2>1. PICK e \in ToSet(list) :
          /\ RemoveEntry(e)
          /\ stop_play' = IF current = e /\ stop_play = "keep" THEN "next" ELSE stop_play
    BY <1>28 DEF CmdRemove
  <2>2. UNCHANGED <<pc, then>> /\ pc # "join"
    BY <1>28 DEF CmdRemove, Command, Waits
  <2>3. e # None
    BY OnListAreEntries, PlaybackAssumption DEF PlaylistInv
  <2>4. CASE current # e
    <3>1. /\ UNCHANGED <<current, stop_play>> /\ asked' \in {asked, None}
          /\ replaced' = (replaced \/ current = e)
      BY <2>1, <2>4 DEF RemoveEntry
    <3> QED BY <2>2, <2>4, <3>1
  <2>5. CASE current = e /\ Behind(e) = None
    <3>1. asked' \in {asked, None} /\ (asked' # None => asked.e # e)
      BY <2>1, <2>5 DEF RemoveEntry
    <3>2. asked' # None => asked'.late
      BY <2>5, <3>1
    <3>3. /\ place' = place
          /\ place \in Before /\ stop_play' = "keep" => FALSE
      BY <2>1, <2>2, <2>5
    <3> QED BY <3>2, <3>3
  <2>6. CASE current = e /\ Behind(e) # None
    <3> DEFINE b == Behind(e)
    <3>1. /\ asked' = [e |-> b, late |-> FALSE] /\ current' = b
          /\ replaced' = (replaced \/ current = e)
      BY <2>1, <2>6 DEF RemoveEntry
    <3>2. asked'.e = b /\ replaced'
      BY ONLY <2>6, <3>1
    <3>3. stop_play' \in {"current", "quit", "next", "error", "eof", "stop"}
      BY <2>1, <2>6
    <3>4. stop_play' # "keep" /\ place' = place
      BY <2>1, <2>2, <2>6
    <3> HIDE DEF b
    <3> QED BY <3>1, <3>2, <3>3, <3>4
  <2> QED BY <2>4, <2>5, <2>6
<1>29. CASE CmdClear
  BY <1>29 DEF CmdClear, Command, Waits, playlist, core, openVars, adderVars
<1>30. CASE CmdMove
  BY <1>30 DEF CmdMove, Command, Waits, playlist, core, openVars, adderVars
<1>31. CASE CmdStop
  BY <1>31 DEF CmdStop, Command, Waits, playlist, core, openVars, adderVars
<1>32. CASE CmdQuit
  BY <1>32 DEF CmdQuit, Command, Waits, playlist, core, openVars, adderVars
<1>33. CASE CmdSeek
  BY <1>33 DEF CmdSeek, Command, Waits, playlist, core, openVars, adderVars
<1>34. CASE CmdTrackAdd
  BY <1>34 DEF CmdTrackAdd, Command, Waits, playlist, core, openVars, adderVars
<1>35. CASE UNCHANGED vars
  BY <1>35 DEF vars, playlist, core, openVars, adderVars
<1> QED
  BY <1>1, <1>2, <1>3, <1>4, <1>5, <1>6, <1>7, <1>8, <1>9, <1>10, <1>11, <1>12, <1>13,
     <1>14, <1>15, <1>16, <1>17, <1>18, <1>19, <1>20, <1>21, <1>22, <1>23, <1>24, <1>25,
     <1>26, <1>27, <1>28, <1>29, <1>30, <1>31, <1>32, <1>33, <1>34, <1>35
  DEF Next, Core, Commands

-------------------------------------------------------------------------------
(***************************************************************************)
(* What follows                                                              *)
(***************************************************************************)
\* The invariant holds at the start.
LEMMA InitInv == Init => IInv
<1> SUFFICES ASSUME Init PROVE IInv
  OBVIOUS
<1> USE PlaybackAssumption DEF Init
<1>1. PlaylistInv
  <2>1. 1 \in 1..Len(Initial)
    BY LenProperties, EmptySeq
  <2> QED BY <2>1, EntryAt DEF PlaylistInv
<1>2. TypeInv
  <2>1. current \in Entries
    BY <1>1, OnListAreEntries DEF PlaylistInv
  <2>2. DOMAIN killing = {}
    OBVIOUS
  <2> QED BY <2>2 DEF TypeInv, Places, Apart
<1>3. OpenInv
  BY DEF OpenInv
<1>4. FileInv
  BY DEF FileInv, place, Before, After, Apart
<1>5. StopInv
  BY DEF StopInv, place, Before, After, Apart
<1>6. Counted
  <2>1. DOMAIN killing = {}
    OBVIOUS
  <2> QED BY <2>1 DEF Counted, One
<1>7. AskedInv
  BY DEF AskedInv, place, Before, Apart
<1> QED BY <1>1, <1>2, <1>3, <1>4, <1>5, <1>6, <1>7 DEF IInv

\* The inductive invariant, for every playlist and all options.
THEOREM Invariant == Spec => []IInv
<1>1. IInv /\ [Next]_vars => IInv'
  BY PlaylistStep, TypeStep, OpenStep, FileStep, StopStep, CountStep, AskedStep DEF IInv
<1> QED BY InitInv, <1>1, PTL DEF Spec

\* The entry that was asked for last is the one to be played next (mp_set_playlist_entry,
\* playlist_remove and transfer_playlist against mp_next_file), whatever is done to the
\* playlist until then.
THEOREM AskedComesNext == Spec => []AskedIsNext
<1>1. IInv => AskedIsNext
  BY DEF IInv, AskedInv, AskedIsNext
<1> QED BY <1>1, Invariant, PTL

\* The options are those of the start.
LEMMA OptionsStay == TypeInv /\ (\A o \in Options : ~o.over) => ~opts.over
BY DEF TypeInv

\* Every demuxer belongs to somebody who will free it, and none is left between files
\* (play_current_file, cancel_open, kill_demuxers_reentrant), as far as commands do not
\* seek in a file that is over.
THEOREM AllOwned ==
  ASSUME \A o \in Options : ~o.over
  PROVE  Spec => []DemuxersOwned
<1>1. ASSUME IInv PROVE DemuxersOwned
  <2> USE <1>1 DEF IInv
  <2>1. ~opts.over
    BY OptionsStay
  <2>2. Cardinality(DOMAIN killing)
          = One("file" \in DOMAIN killing) + One("tracks" \in DOMAIN killing)
    BY TwoOf DEF TypeInv
  <2> DEFINE owners == {x \in {"res", "file", "tracks", "adder"} :
                          \/ x = "res" /\ res # None
                          \/ x = "file" /\ demuxer # None
                          \/ x = "tracks" /\ tracks # "none"
                          \/ x = "adder" /\ adder = "opened"}
  <2>3. Cardinality(owners) = One(res # None) + One(demuxer # None)
                              + One(tracks # "none") + One(adder = "opened")
    <3> DEFINE p == res # None
               q == demuxer # None
               r == tracks # "none"
               s == adder = "opened"
    <3>1. p \in BOOLEAN /\ q \in BOOLEAN /\ r \in BOOLEAN /\ s \in BOOLEAN
      OBVIOUS
    <3>2. owners = {x \in {"res", "file", "tracks", "adder"} :
                      \/ x = "res" /\ p
                      \/ x = "file" /\ q
                      \/ x = "tracks" /\ r
                      \/ x = "adder" /\ s}
      OBVIOUS
    <3> HIDE DEF owners, p, q, r, s
    <3>3. Cardinality(owners) = One(p) + One(q) + One(r) + One(s)
      BY <3>1, <3>2, FourOf
    <3> QED BY <3>3 DEF p, q, r, s
  <2>4. live = Cardinality(DOMAIN killing) + Cardinality(owners)
    <3> HIDE DEF owners
    <3>1. /\ One("file" \in DOMAIN killing) \in Nat /\ One("tracks" \in DOMAIN killing) \in Nat
          /\ One(res # None) \in Nat /\ One(demuxer # None) \in Nat
          /\ One(tracks # "none") \in Nat /\ One(adder = "opened") \in Nat
      BY DEF One
    <3> QED BY <2>2, <2>3, <3>1 DEF Counted, One
  <2>5. /\ list \in Seq(Entries) /\ current \in ToSet(list) \cup {None}
        /\ stop_play \in {"keep", "current", "next", "error", "eof", "stop", "quit"}
    BY DEF PlaylistInv, TypeInv
  <2>6. /\ active <=> opener # "none"
        /\ ~active => cancel = "none" /\ url = None /\ res = None /\ ~done
        /\ pc = "exit" => ~active
    BY DEF OpenInv
  <2>7. pc \in {"between", "idle"} =>
          /\ demuxer = None /\ tracks = "none" /\ killing = <<>>
          /\ playing = None /\ stop_play # "keep"
    BY <2>1 DEF FileInv, StopInv, place, Apart, After, Before
  <2> QED BY <2>4, <2>5, <2>6, <2>7 DEF DemuxersOwned
<1> QED BY <1>1, Invariant, PTL

\* What is played is what is to be played, also after a prefetch, and it is not aborted
\* as long as nothing has stopped it (open_demux_reentrant, mp_abort_playback_async),
\* as far as commands do not seek in a file that is over.
THEOREM PlaysWhatIsAsked ==
  ASSUME \A o \in Options : ~o.over
  PROVE  Spec => []FileAsAsked
<1>1. ASSUME IInv PROVE FileAsAsked
  BY <1>1, OptionsStay DEF IInv, FileInv, StopInv, FileAsAsked, place, Before
<1> QED BY <1>1, Invariant, PTL

===============================================================================
