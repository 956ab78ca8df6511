------------------------------ MODULE DemuxCache ------------------------------
(***************************************************************************)
(* The packet cache of the demuxer layer (src/demux/demux.c), with the     *)
(* seekable cache on.  A demuxer thread reads packets from a file and      *)
(* appends them to the queues of the current cached range; the player      *)
(* takes packets from a position inside those queues, seeks (inside the    *)
(* cache where it can, else with a low level seek that starts a new        *)
(* range), switches tracks and drops everything.  Ranges that come to      *)
(* overlap are joined; packets behind the reader are pruned.               *)
(*                                                                         *)
(* "in" is struct demux_internal: what its lock protects.  A packet is the *)
(* index of its record in File, so its pts, dts and position in the file   *)
(* are known from it and packets are compared by file order (per stream    *)
(* dts and position grow: the "correct_dts" and "correct_pos" case).  Every*)
(* packet has size 1.  Times are in tenths of a second.                    *)
(***************************************************************************)
EXTENDS Integers, Sequences, SequencesExt, FiniteSetsExt

CONSTANTS Streams,      \* the streams, 1..n
          Type,         \* stream -> "video", "audio" or "sub"
          File,         \* the packets of the file, in the order they are read
          MaxRanges,    \* MAX_SEEK_RANGES
          MaxBytes,     \* the forward limit
          MaxBack,      \* the limit for packets behind the reader
          MinSecs,      \* how far to read ahead
          Seeks,        \* what the nth request may seek to: [pts, flags]
          Switches,     \* its track switches: [s, pts]
          MaxOps        \* bounds what the player does besides reading

ASSUME DemuxAssumption ==
  /\ IsFiniteSet(Streams) /\ Streams # {}
  /\ Streams = 1 .. Cardinality(Streams)
  /\ Type \in [Streams -> {"video", "audio", "sub"}]
  /\ File \in Seq([s : Streams, kf : BOOLEAN, dts : Int, pts : Int])
  /\ {MaxRanges, MaxBytes} \subseteq Nat \ {0}
  /\ {MaxBack, MinSecs, MaxOps} \subseteq Nat
  /\ MaxOps < Len(Seeks)
  /\ \A k \in Switches : k.s \in Streams

VARIABLES in,           \* struct demux_internal, under its lock
          thread,       \* where the demuxer thread is; its local variables
          fpos,         \* the next packet the demuxer would read
          player,       \* what the player is doing, what it knows per stream
          taken         \* history: what the player got since the last reset

vars == <<in, thread, fpos, player, taken>>

NoPts == -100000
Second == 10
Packets == 1 .. Len(File)

PtsMax(T) == IF T \subseteq {NoPts} THEN NoPts ELSE Max(T \ {NoPts})
PtsMin(T) == IF T \subseteq {NoPts} THEN NoPts ELSE Min(T \ {NoPts})

-----------------------------------------------------------------------------
(* Queues and ranges.  pkts holds [i, kf]: the packet and its kf_seek_pts. *)

EmptyQueue ==
  [pkts |-> <<>>, npt |-> 0, last |-> 0, last_ts |-> NoPts,
   kf_latest |-> 0, kf_pts |-> NoPts, kf_end |-> NoPts,
   start |-> NoPts, end |-> NoPts, pruned |-> NoPts,
   bof |-> FALSE, eof |-> FALSE]

EmptyRange ==
  [q |-> [s \in Streams |-> EmptyQueue],
   start |-> NoPts, end |-> NoPts, bof |-> FALSE, eof |-> FALSE]

(* The sum of a sequence of numbers.                                        *)
Sum(f) ==
  LET upto[n \in 0 .. Len(f)] == IF n = 0 THEN 0 ELSE upto[n - 1] + f[n]
  IN  upto[Len(f)]

Held(r) == Sum([s \in Streams |-> Len(r.q[s].pkts)])
Bytes(rs) == Sum([n \in DOMAIN rs |-> Held(rs[n])])
FwBytes(ds) == Sum([s \in Streams |-> ds[s].fw])
Ids(q) == [p \in DOMAIN q.pkts |-> q.pkts[p].i]
At(q, i) == CHOOSE p \in DOMAIN q.pkts : q.pkts[p].i = i
From(q, i) == IF i = 0 THEN 0 ELSE Len(q.pkts) - At(q, i) + 1

(* Mutant: the prune target stays when its packet goes. *)
RemoveHeadsOnly(q, n) ==
  LET gone == {q.pkts[p].i : p \in 1 .. n}
  IN  [q EXCEPT !.pkts = SubSeq(@, n + 1, Len(@)),
                !.kf_latest = IF @ \in gone THEN 0 ELSE @]

(* The first n packets leave the queue. *)
RemoveHeads(q, n) ==
  LET gone == {q.pkts[p].i : p \in 1 .. n}
  IN  IF n = 0 THEN q
      ELSE [q EXCEPT !.pkts = SubSeq(@, n + 1, Len(@)),
                     !.npt = IF @ \in gone THEN 0 ELSE @,
                     !.kf_latest = IF @ \in gone THEN 0 ELSE @,
                     !.bof = FALSE]

Cur(x) == Last(x.ranges)
CurQ(x, s) == Cur(x).q[s]
SetCur(x, r) == [x EXCEPT !.ranges[Len(x.ranges)] = r]

Selected(x) == {s \in Streams : x.ds[s].selected}
Eager(x) ==
  LET av == {s \in Selected(x) : Type[s] # "sub"}
  IN  IF av # {} THEN av ELSE Selected(x)

(* A range that no eager stream restricts to an interval is not seekable. *)
UpdateSeekRange(x, r) ==
  LET E == Eager(x)
      bof == \A s \in E : r.q[s].bof
      eof == \A s \in E : r.q[s].eof
      lo == IF bof THEN PtsMin({r.q[s].start : s \in E})
            ELSE PtsMax({r.q[s].start : s \in {t \in E : ~r.q[t].bof}})
      hi == IF eof THEN PtsMax({r.q[s].end : s \in E})
            ELSE PtsMin({r.q[s].end : s \in {t \in E : ~r.q[t].eof}})
      sparse == {s \in Selected(x) \ E : r.q[s].pruned # NoPts}
      start == IF lo = NoPts THEN lo
               ELSE PtsMax({lo} \cup {r.q[s].pruned + 1 : s \in sparse})
      broken == \/ start >= hi
                \/ \E s \in E : /\ r.q[s].start >= r.q[s].end
                                /\ ~(r.q[s].eof /\ r.q[s].pkts = <<>>)
  IN  [r EXCEPT !.bof = bof, !.eof = eof,
                !.start = IF broken THEN NoPts ELSE start,
                !.end = IF broken THEN NoPts ELSE hi]

ClearRange(x, r) ==
  UpdateSeekRange(x, [r EXCEPT !.q = [s \in Streams |-> EmptyQueue]])

(* The ranges that have something seekable.                                 *)
Seekable(rs) ==
  LET upto[n \in 0 .. Len(rs)] ==
        IF n = 0 THEN <<>>
        ELSE IF rs[n].start = NoPts THEN upto[n - 1]
        ELSE Append(upto[n - 1], rs[n])
  IN  upto[Len(rs)]

(* One range at most is added at a time, so one at most is too many: the    *)
(* one with the shortest seekable part goes.                                *)
FreeEmptyRanges(x) ==
  LET old == Seekable(Front(x.ranges))
      span(n) == old[n].end - old[n].start
      short == {n \in DOMAIN old : \A m \in DOMAIN old : span(n) <= span(m)}
      left == IF Len(old) < MaxRanges THEN old ELSE RemoveAt(old, Max(short))
  IN  [x EXCEPT !.ranges = Append(left, Cur(x)),
                !.total = @ - (Bytes(Front(x.ranges)) - Bytes(left))]

-----------------------------------------------------------------------------
(* Readers and wakeups *)

ReaderQueueCleared(d) ==
  [d EXCEPT !.head = 0, !.fw = 0, !.eof = FALSE, !.need = TRUE]
ReaderCleared(d) ==
  [ReaderQueueCleared(d) EXCEPT !.base_ts = NoPts, !.skip = FALSE,
                                !.last_ret = 0]

(* Only one of the two threads can be asleep on the condition variable when *)
(* the other signals it.                                                    *)
Signal(x) == [x EXCEPT !.asleep = {}]

Wakeup(x, S) ==
  LET W == {s \in S : x.ds[s].need}
      y == [x EXCEPT !.ds = [s \in Streams |->
                               [x.ds[s] EXCEPT !.need = @ /\ s \notin W]],
                     !.woken = TRUE]
  IN  IF W = {} THEN x ELSE Signal(y)

ClearReaderState(x) ==
  LET fw == FwBytes(x.ds)
  IN  [x EXCEPT !.ds = [s \in Streams |-> ReaderCleared(x.ds[s])],
                !.fw_bytes = @ - fw,
                !.blocked = FALSE,
                !.failed = @ \/ x.fw_bytes # fw, !.dry = {}, !.cut = {}]

(* recompute_buffers of every stream *)
Recount(x) ==
  LET ds == [s \in Streams |->
               [x.ds[s] EXCEPT !.fw = From(CurQ(x, s), x.ds[s].head)]]
  IN  [x EXCEPT !.ds = ds, !.fw_bytes = FwBytes(ds)]

QueueSeek(x, pts, flags) ==
  [x EXCEPT !.seeking = TRUE, !.seek_pts = pts, !.seek_flags = flags]

-----------------------------------------------------------------------------
(* Joining the current range with the next one it overlaps: drop from the   *)
(* next range what the current one has, up to and including the packet the  *)
(* current one ends with, append the rest, and let the demuxer resume after *)
(* it.  The next range is gone afterwards, whether this worked or not.      *)

NextRange(x) ==
  LET cur == Cur(x)
      over == {n \in 1 .. Len(x.ranges) - 1 :
                 /\ cur.start <= x.ranges[n].start
                 /\ cur.end > x.ranges[n].start}
      near == {n \in over : \A m \in over :
                              x.ranges[m].start <= x.ranges[n].start}
  IN  IF over = {} THEN 0 ELSE Min(near)

(* Where the packets of q2 begin that q1 does not have.                     *)
JoinPoint(q1, q2) ==
  LET past == {p \in DOMAIN q2.pkts : q2.pkts[p].i > Last(q1.pkts).i}
  IN  IF q1.pkts = <<>> THEN 1
      ELSE IF past = {} THEN Len(q2.pkts) + 1 ELSE Min(past)

Overlap(q1, q2) ==
  q1.pkts = <<>> \/ \E p \in DOMAIN q2.pkts : q2.pkts[p].i = Last(q1.pkts).i

(* Looking for the end of q1 must not reach the last keyframe of q2, whose  *)
(* group of packets is not complete. It goes past the end if that is not    *)
(* there.                                                                   *)
Joinable(x, s, q1, q2) ==
  /\ \A p \in 1 .. JoinPoint(q1, q2) - 1 : q2.pkts[p].i # q2.kf_latest
  /\ ~Overlap(q1, q2) /\ JoinPoint(q1, q2) \in DOMAIN q2.pkts =>
       q2.pkts[JoinPoint(q1, q2)].i # q2.kf_latest
  /\ s \in Eager(x) => Overlap(q1, q2)

JoinedQueue(q1, q2) ==
  LET p == JoinPoint(q1, q2)
      kept == IF q1.pkts # <<>> /\ Overlap(q1, q2)
              THEN [q1.pkts EXCEPT ![Len(q1.pkts)].kf = q2.pkts[p - 1].kf]
              ELSE q1.pkts
  IN  [q2 EXCEPT !.pkts = kept \o SubSeq(@, p, Len(@)),
                 !.npt = q1.npt, !.start = q1.start, !.pruned = q1.pruned,
                 !.bof = q1.bof]

AttemptRangeJoining(x) ==
  LET n == NextRange(x)
      next == x.ranges[n]
      q1(s) == CurQ(x, s)
      joined == [Cur(x) EXCEPT !.q = [s \in Streams |->
                                        JoinedQueue(q1(s), next.q[s])]]
      without(y) == [y EXCEPT !.ranges = RemoveAt(@, n),
                              !.total = @ - Held(next)]
      moved == [x EXCEPT
                  !.ds = [s \in Streams |->
                            [x.ds[s] EXCEPT !.refreshing = x.ds[s].selected]],
                  !.total = @ + Held(joined) - Held(Cur(x)),
                  !.dry = @ \cup {s \in Streams : x.ds[s].head = 0}]
      y == Recount(SetCur(moved, UpdateSeekRange(moved, joined)))
  IN  IF n = 0 THEN x
      ELSE IF \A s \in Streams : Joinable(x, s, q1(s), next.q[s])
           THEN FreeEmptyRanges(without(
                  QueueSeek(y, next.end - Second, {"hr"})))
           ELSE FreeEmptyRanges(without(x))

(* A packet, or 0 for the end of the stream, closes the group of packets    *)
(* that the last keyframe began, which extends what can be seeked to.  The  *)
(* group may be one that pruning has given up (history: stale).             *)
AdjustSeekRange(x, s, i) ==
  LET q == CurQ(x, s)
      close == i = 0 \/ File[i].kf
      ends == close /\ q.kf_latest # 0
      closed == IF ~ends THEN q
                ELSE [q EXCEPT !.pkts[At(q, q.kf_latest)].kf = q.kf_pts,
                               !.start = IF @ = NoPts THEN q.kf_pts ELSE @,
                               !.end = IF q.kf_end = NoPts THEN @ ELSE q.kf_end]
      begun == IF ~close THEN closed
               ELSE [closed EXCEPT !.kf_latest = i, !.kf_pts = NoPts,
                                   !.kf_end = NoPts]
      added == IF i = 0 THEN begun
               ELSE [begun EXCEPT !.kf_pts = PtsMin({@, File[i].pts}),
                                  !.kf_end = PtsMax({@, File[i].pts})]
      r == [Cur(x) EXCEPT !.q[s] = [added EXCEPT !.eof = i = 0]]
      given_up == ends /\ q.npt # 0 /\ At(q, q.kf_latest) <= At(q, q.npt)
      y == SetCur([x EXCEPT !.stale = @ \/ given_up],
                  IF ends \/ q.eof # (i = 0) THEN UpdateSeekRange(x, r) ELSE r)
  IN  IF ends /\ Cur(y).end > Cur(x).end THEN AttemptRangeJoining(y) ELSE y

(* Mutant: the packet that follows the last one is dropped too. *)
RefreshedAfter(q, i) == i > q.last

(* demux_add_packet *)
RefreshedBy(q, i) == i >= q.last

AppendPacket(x, s, i) ==
  LET d == x.ds[s]
      q == CurQ(x, s)
      dts == File[i].dts
      head == IF d.head = 0 /\ (~d.skip \/ File[i].kf) THEN i ELSE d.head
      one == IF head # 0 THEN 1 ELSE 0
      d1 == [d EXCEPT !.head = head,
                      !.skip = @ /\ (d.head # 0 \/ ~File[i].kf),
                      !.fw = @ + one, !.eof = FALSE,
                      !.base_ts = IF @ = NoPts THEN dts ELSE @]
      q1 == [q EXCEPT !.pkts = Append(@, [i |-> i, kf |-> NoPts]),
                      !.last = i, !.last_ts = dts]
  IN  [x EXCEPT !.ds[s] = d1, !.total = @ + 1, !.fw_bytes = @ + one,
                !.eof = FALSE, !.last_eof = FALSE, !.cut = @ \ {s},
                !.ranges[Len(x.ranges)].q[s] = q1]

(* Mutant: a packet read before the seek is kept. *)
AddPacketAnyway(x, i) ==
  LET s == File[i].s
      y == [x EXCEPT !.initial = FALSE]
  IN  IF ~x.ds[s].selected THEN y
      ELSE IF x.ds[s].refreshing
           THEN [y EXCEPT !.ds[s].refreshing = ~RefreshedBy(CurQ(x, s), i)]
           ELSE Wakeup(AdjustSeekRange(AppendPacket(y, s, i), s, i), {s})

AddPacket(x, i) ==
  LET s == File[i].s
      d == x.ds[s]
      y == [x EXCEPT !.initial = FALSE]
  IN  IF ~d.selected \/ x.seeking THEN y
      ELSE IF d.refreshing
           THEN [y EXCEPT !.ds[s].refreshing = ~RefreshedBy(CurQ(x, s), i)]
           ELSE Wakeup(AdjustSeekRange(AppendPacket(y, s, i), s, i), {s})

(* Streams come to an end: all of them at the end of the file, those with   *)
(* nothing to read when there is no room to read on.                        *)
MarkEof(x, all) ==
  LET upto[n \in 0 .. Cardinality(Streams)] ==
        IF n = 0 THEN x
        ELSE LET y == upto[n - 1]
             IN  IF y.ds[n].eof \/ ~(all \/ y.ds[n].head = 0) THEN y
                 ELSE Wakeup(AdjustSeekRange(
                        [y EXCEPT !.ds[n].eof = TRUE,
                                  !.cut = IF all THEN @ ELSE @ \cup {n}],
                        n, 0), {n})
  IN  upto[Cardinality(Streams)]

-----------------------------------------------------------------------------
(* Pruning: while too much is cached behind the reader, drop the oldest     *)
(* group of packets of the least recently used range.                       *)

PrunableStreams(x) ==
  LET r == x.ranges[1]
  IN  {s \in Streams : /\ r.q[s].pkts # <<>>
                       /\ Len(x.ranges) = 1 =>
                            Head(r.q[s].pkts).i # x.ds[s].head}

EarliestStream(x) ==
  LET S == PrunableStreams(x)
      hd(s) == Head(x.ranges[1].q[s].pkts)
      loose == {s \in S : hd(s).kf = NoPts \/ ~File[hd(s).i].kf}
      early == {s \in S : \A t \in S : hd(s).kf <= hd(t).kf}
  IN  Min(IF loose # {} THEN loose ELSE early)

(* Mutant: the start of the seekable part stays where it was. *)
PruneTargetOnly(q) ==
  LET later == {p \in 2 .. Len(q.pkts) : /\ File[q.pkts[p].i].kf
                                         /\ q.pkts[p].kf # NoPts}
  IN  IF q.npt # 0 THEN q
      ELSE [q EXCEPT !.npt = IF later = {} THEN Last(q.pkts).i
                             ELSE q.pkts[Min(later) - 1].i]

(* Packets are dropped up to the next keyframe that can be seeked to.       *)
PruneTarget(q) ==
  LET later == {p \in 2 .. Len(q.pkts) : /\ File[q.pkts[p].i].kf
                                         /\ q.pkts[p].kf # NoPts}
  IN  IF q.npt # 0 THEN q
      ELSE [q EXCEPT
              !.pruned = IF q.start # NoPts THEN q.start ELSE @,
              !.start = IF later = {} THEN NoPts ELSE q.pkts[Min(later)].kf,
              !.npt = IF later = {} THEN Last(q.pkts).i
                      ELSE q.pkts[Min(later) - 1].i]

PruneOnce(x) ==
  LET r == x.ranges[1]
      s == EarliestStream(x)
      q == PruneTarget(r.q[s])
      head == x.ds[s].head
      n == Min({At(q, q.npt)} \cup
               (IF Len(x.ranges) = 1 /\ head # 0 THEN {At(q, head) - 1} ELSE {}))
      r1 == UpdateSeekRange(x, [r EXCEPT !.q[s] = RemoveHeads(q, n)])
      y == [x EXCEPT !.ranges[1] = r1, !.total = @ - n]
  IN  IF Len(x.ranges) > 1 /\ r1.start = NoPts THEN FreeEmptyRanges(y) ELSE y

(* Each step takes a packet at least.                                       *)
PruneOldPackets(x) ==
  LET upto[n \in 0 .. x.total] ==
        IF n = 0 THEN x
        ELSE LET y == upto[n - 1]
             IN  IF y.total - y.fw_bytes <= MaxBack THEN y
                 ELSE IF PrunableStreams(y) = {} THEN [y EXCEPT !.bare = TRUE]
                 ELSE PruneOnce(y)
  IN  upto[x.total]

-----------------------------------------------------------------------------
(* Seeking inside the cache, or by a low level seek into a new range        *)

FindSeekTarget(q, pts, flags) ==
  LET kfs == {p \in DOMAIN q.pkts : File[q.pkts[p].i].kf /\ q.pkts[p].kf # NoPts}
      before == {p \in kfs : q.pkts[p].kf <= pts}
      after == {p \in kfs : q.pkts[p].kf >= pts}
      best == IF "forward" \in flags
              THEN IF after = {} THEN 0 ELSE Min(after)
              ELSE IF before # {} THEN Max(before)
              ELSE IF kfs = {} THEN 0 ELSE Min(kfs)
  IN  IF best = 0 THEN 0 ELSE q.pkts[best].i

FindCacheSeekTarget(x, pts) ==
  LET hit(r) == /\ r.start # NoPts
                /\ pts >= r.start \/ r.bof
                /\ pts <= r.end \/ r.eof
      hits == {n \in DOMAIN x.ranges : hit(x.ranges[n])}
  IN  IF hits = {} THEN 0 ELSE Min(hits)

(* Range n becomes the current one; what cannot be used when seeking back   *)
(* to the old one is dropped.                                               *)
SwitchCurrentRange(x, n) ==
  LET usable(q) == IF q.npt = 0 THEN q ELSE RemoveHeads(q, At(q, q.npt))
      old == [Cur(x) EXCEPT !.q = [s \in Streams |-> usable(Cur(x).q[s])]]
      y == SetCur(x, old)
  IN  FreeEmptyRanges(
        [y EXCEPT !.ranges = Append(RemoveAt(@, n), x.ranges[n]),
                  !.total = @ - (Held(Cur(x)) - Held(old)),
                  !.ds = [s \in Streams |->
                            [x.ds[s] EXCEPT !.refreshing = FALSE, !.eof = FALSE]]])

(* Without "hr", all streams go to the keyframe of the video stream.        *)
VideoTarget(x, r, pts, flags) ==
  LET V == {s \in Selected(x) : Type[s] = "video"}
      t == FindSeekTarget(r.q[Min(V)], pts, flags)
  IN  IF "hr" \in flags \/ V = {} THEN 0 ELSE t

ExecuteCacheSeek(x, n, pts, flags) ==
  LET r == x.ranges[n]
      v == VideoTarget(x, r, pts, flags)
      qv == r.q[File[v].s]
      to == IF v = 0 THEN pts ELSE qv.pkts[At(qv, v)].kf
      how == IF v = 0 THEN flags ELSE flags \ {"forward"}
      at(s) == FindSeekTarget(r.q[s], to, how)
      ds == [s \in Streams |->
               [x.ds[s] EXCEPT
                  !.head = at(s), !.skip = at(s) = 0,
                  !.base_ts = IF at(s) = 0 THEN @ ELSE File[at(s)].pts]]
      there == [x EXCEPT !.ds = ds]
      moved == SwitchCurrentRange(there, n)
      resumed == [moved EXCEPT !.ds = [s \in Streams |->
                   [moved.ds[s] EXCEPT !.refreshing = moved.ds[s].selected]]]
  IN  IF n = Len(x.ranges) THEN Recount(there)
      ELSE QueueSeek(Recount(resumed), r.end - Second, {"hr"})

SwitchToFreshRange(x) ==
  LET y == [x EXCEPT !.ranges = Append(Front(@), EmptyRange) \o <<Last(@)>>]
  IN  SwitchCurrentRange(y, Len(x.ranges))

(* demux_seek *)
SeekDone(x, pts, flags) ==
  LET n == FindCacheSeekTarget(x, pts)
      y == [ClearReaderState(x) EXCEPT !.eof = FALSE, !.last_eof = FALSE,
                                       !.reading = FALSE]
      z == IF n # 0 THEN ExecuteCacheSeek(y, n, pts, flags)
           ELSE QueueSeek(SwitchToFreshRange(y), pts, flags)
  IN  Signal(Wakeup(z, Streams))

-----------------------------------------------------------------------------
(* Switching tracks.  The packets of all streams are read again from where  *)
(* the player is, those it has already are dropped ("refreshing").          *)

InitiateRefreshSeek(x, stream, ref) ==
  LET av == {s \in Selected(x) : Type[s] # "sub"}
      pts == PtsMin({ref} \cup {x.ds[s].base_ts : s \in av})
      resumes(s) == x.ds[s].selected /\ x.ds[s].last_ret # 0
      ds(s) == [ReaderQueueCleared(x.ds[s]) EXCEPT
                  !.refreshing = @ \/ resumes(s)]
      q(s) == IF resumes(s) THEN [EmptyQueue EXCEPT !.last = x.ds[s].last_ret]
              ELSE EmptyQueue
      again == [x EXCEPT
                  !.ds = [s \in Streams |-> ds(s)],
                  !.fw_bytes = @ - FwBytes(x.ds),
                  !.total = @ - Held(Cur(x))]
      cleared == SetCur(again, UpdateSeekRange(again,
                   [Cur(x) EXCEPT !.q = [s \in Streams |-> q(s)]]))
  IN  IF pts = NoPts THEN x
      ELSE IF Selected(x) = {stream} THEN QueueSeek(x, pts, {"hr"})
      ELSE QueueSeek(cleared, pts - Second, {"hr"})

UpdateStreamSelection(x, s) ==
  LET drop == IF x.ds[s].selected THEN {} ELSE {s}
      cleared(r) == UpdateSeekRange(x,
        [r EXCEPT !.q = [t \in Streams |-> IF t \in drop THEN EmptyQueue ELSE @[t]]])
      left == [n \in DOMAIN x.ranges |-> cleared(x.ranges[n])]
      y == [x EXCEPT
              !.ds[s] = [ReaderCleared(@) EXCEPT !.refreshing = FALSE],
              !.fw_bytes = @ - x.ds[s].fw,
              !.blocked = @ /\ Selected(x) # {},
              !.ranges = left,
              !.total = @ - (Bytes(x.ranges) - Bytes(left))]
  IN  Wakeup(FreeEmptyRanges(y), {s})

SelectTrack(x, s, ref) ==
  LET on == ~x.ds[s].selected
      y == UpdateStreamSelection([x EXCEPT !.ds[s].selected = on], s)
      z == [y EXCEPT !.switched = TRUE]
  IN  Signal(IF on /\ ~x.initial THEN InitiateRefreshSeek(z, s, ref) ELSE z)

-----------------------------------------------------------------------------
(* The demuxer thread.  desc->seek and fill_buffer are the demuxer: a file  *)
(* whose packets come in the order of File, read again from the last        *)
(* keyframe of the first selected stream that is not after the target.      *)

Init ==
  /\ in = [ranges |-> <<EmptyRange>>,
           ds |-> [s \in Streams |->
                     [selected |-> TRUE, refreshing |-> FALSE, eof |-> FALSE,
                      head |-> 0, fw |-> 0, skip |-> FALSE, need |-> TRUE,
                      base_ts |-> NoPts, last_ret |-> 0]],
           total |-> 0, fw_bytes |-> 0, blocked |-> FALSE, initial |-> TRUE,
           eof |-> FALSE, last_eof |-> FALSE, reading |-> FALSE,
           seeking |-> FALSE, seek_pts |-> 0, seek_flags |-> {},
           switched |-> TRUE, run_fn |-> FALSE,
           terminate |-> FALSE, shutdown |-> FALSE,
           asleep |-> {}, woken |-> FALSE,
           failed |-> FALSE, bare |-> FALSE, stale |-> FALSE,
           dry |-> {}, cut |-> {}]
  /\ thread = [pc |-> "loop", pts |-> 0, flags |-> {}]
  /\ fpos = 1
  /\ player = [pc |-> "run", status |-> [s \in Streams |-> "ready"],
               ops |-> 0]
  /\ taken = [s \in Streams |-> [due |-> 0, lost |-> FALSE, late |-> FALSE,
                                 early |-> FALSE, goal |-> NoPts]]

Goto(pc) == thread' = [thread EXCEPT !.pc = pc]
ThreadOnly == UNCHANGED <<player, taken>>

InLoop == thread.pc = "loop" /\ ~in.terminate
NoRequest == ~in.run_fn /\ ~in.switched /\ ~in.seeking

RunFn ==
  /\ InLoop /\ in.run_fn
  /\ Goto("run_fn")
  /\ UNCHANGED <<in, fpos>> /\ ThreadOnly

RunFnDone ==
  /\ thread.pc = "run_fn"
  /\ in' = Signal([in EXCEPT !.run_fn = FALSE])
  /\ Goto("loop")
  /\ UNCHANGED fpos /\ ThreadOnly

(* The lock is released while the demuxer switches its tracks or seeks.     *)
ExecuteTrackswitch ==
  /\ InLoop /\ ~in.run_fn /\ in.switched
  /\ in' = [in EXCEPT !.switched = FALSE]
  /\ Goto("switch")
  /\ UNCHANGED fpos /\ ThreadOnly

ExecuteSeek ==
  /\ InLoop /\ ~in.run_fn /\ ~in.switched /\ in.seeking
  /\ in' = [in EXCEPT !.seeking = FALSE, !.initial = FALSE]
  /\ thread' = [pc |-> "seek", pts |-> in.seek_pts, flags |-> in.seek_flags]
  /\ UNCHANGED fpos /\ ThreadOnly

SeekPosition(pts, flags) ==
  LET kfs == {i \in Packets : File[i].kf /\ File[i].s = Min(Streams)}
      before == {i \in kfs : File[i].pts <= pts}
      after == {i \in kfs : File[i].pts >= pts}
  IN  IF "forward" \in flags
      THEN IF after = {} THEN Len(File) + 1 ELSE Min(after)
      ELSE IF before = {} THEN 1 ELSE Max(before)

SeekDemuxer ==
  /\ thread.pc = "seek"
  /\ fpos' = SeekPosition(thread.pts, thread.flags)
  /\ Goto("loop")
  /\ UNCHANGED in /\ ThreadOnly

SwitchedTracks ==
  /\ thread.pc = "switch"
  /\ Goto("loop")
  /\ UNCHANGED <<in, fpos>> /\ ThreadOnly

(* read_packet: whether a packet is wanted, and whether there is room.      *)
ReadMore == \E s \in Eager(in) : in.ds[s].head = 0
PrefetchMore ==
  \E s \in Eager(in) :
    LET ts == CurQ(in, s).last_ts
        base == in.ds[s].base_ts
    IN  /\ ts # NoPts /\ base # NoPts /\ ts >= base /\ MinSecs > 0
        /\ ts - base < MinSecs
RefreshMore == \E s \in Streams : in.ds[s].refreshing
Full == in.fw_bytes >= MaxBytes
(* Mutant: reading goes on only while no stream ended. *)
MayReadWithoutEnd ==
  /\ NoRequest /\ ~in.eof /\ in.reading /\ ~in.blocked
  /\ \A s \in Streams : ~in.ds[s].eof /\ in.ds[s].need

MayRead == NoRequest /\ ~in.eof /\ in.reading /\ ~in.blocked

ReadPacket ==
  /\ InLoop /\ MayRead /\ ~Full
  /\ ReadMore \/ PrefetchMore \/ RefreshMore
  /\ LET bof(s) == IF in.initial THEN in.ds[s].selected ELSE CurQ(in, s).bof
         r == [Cur(in) EXCEPT !.q = [s \in Streams |->
                                       [CurQ(in, s) EXCEPT !.bof = bof(s)]]]
     IN  in' = [SetCur(in, r) EXCEPT !.initial = FALSE]
  /\ Goto("fill")
  /\ UNCHANGED fpos /\ ThreadOnly

FillBuffer ==
  /\ thread.pc = "fill"
  /\ IF fpos \in Packets
     THEN in' = AddPacket(in, fpos) /\ fpos' = fpos + 1 /\ Goto("filled")
     ELSE UNCHANGED <<in, fpos>> /\ Goto("eof")
  /\ ThreadOnly

(* Mutant: the end of the file counts whatever happened meanwhile. *)
FillResultAlways(x, eof) ==
  [IF eof THEN MarkEof(x, TRUE) ELSE x EXCEPT !.eof = eof, !.last_eof = eof]

(* A result from before a seek was queued is not about the new position.    *)
FillResult(x, eof) ==
  LET y == IF eof THEN MarkEof(x, TRUE) ELSE x
      z == IF eof /\ ~x.last_eof THEN Signal([y EXCEPT !.woken = TRUE]) ELSE y
  IN  IF x.seeking THEN x ELSE [z EXCEPT !.eof = eof, !.last_eof = eof]

Filled ==
  /\ thread.pc \in {"filled", "eof"}
  /\ in' = FillResult(in, thread.pc = "eof")
  /\ Goto("loop")
  /\ UNCHANGED fpos /\ ThreadOnly

Sleep(x) == [Signal(x) EXCEPT !.asleep = {"demux"}]

(* Nothing to do; or no room for what a reader waits for.                   *)
NothingToRead ==
  /\ InLoop /\ NoRequest
  /\ MayRead => Full \/ ~(ReadMore \/ PrefetchMore \/ RefreshMore)
  /\ in' = Sleep(IF MayRead /\ Full /\ ReadMore THEN MarkEof(in, FALSE)
                 ELSE in)
  /\ Goto("asleep")
  /\ UNCHANGED fpos /\ ThreadOnly

(* The wait also ends when the state of the cache is to be updated.         *)
WakeUp ==
  /\ thread.pc = "asleep" /\ "demux" \notin in.asleep
  /\ Goto("loop")
  /\ UNCHANGED <<in, fpos>> /\ ThreadOnly

CacheUpdate ==
  /\ thread.pc = "asleep" /\ "demux" \in in.asleep
  /\ in' = [in EXCEPT !.asleep = @ \ {"demux"}]
  /\ Goto("loop")
  /\ UNCHANGED fpos /\ ThreadOnly

FlushAll(x) ==
  LET y == ClearReaderState(x)
      empty == [y EXCEPT !.ranges = [n \in DOMAIN @ |-> ClearRange(y, @[n])],
                         !.total = @ - Bytes(x.ranges)]
  IN  FreeEmptyRanges(empty)

(* demux_free_async: the thread itself closes the demuxer.                  *)
Shutdown ==
  /\ thread.pc = "loop" /\ in.terminate
  /\ LET x == FlushAll(in)
     IN  in' = [x EXCEPT !.shutdown = FALSE, !.woken = TRUE,
                         !.failed = @ \/ x.total # 0]
  /\ Goto("end")
  /\ UNCHANGED fpos /\ ThreadOnly

-----------------------------------------------------------------------------
(* The player.  A stream it got a packet from, or lost its state of, is     *)
(* "ready" to be read; one it got nothing from "waits" for the wakeup       *)
(* callback, one that ended is at "eof".                                    *)

Running == player.pc = "run"
NextOf(s, i) == Min({j \in Packets : j > i /\ File[j].s = s} \cup {Len(File) + 1})
Forget(S, goal) ==
  taken' = [s \in Streams |->
              IF s \in S THEN [taken[s] EXCEPT !.due = 0, !.goal = goal]
              ELSE taken[s]]
PlayerOnly == UNCHANGED <<thread, fpos>>

Dequeue(x, s) ==
  LET d == x.ds[s]
      q == CurQ(x, s)
      p == At(q, d.head)
      dd == [d EXCEPT !.head = IF p = Len(q.pkts) THEN 0 ELSE q.pkts[p + 1].i,
                      !.fw = @ - 1, !.last_ret = d.head,
                      !.base_ts = File[d.head].dts]
  IN  PruneOldPackets([x EXCEPT !.ds[s] = dd, !.fw_bytes = @ - 1])

Took(s, i) ==
  LET t == taken[s]
      earlier == \E j \in Packets : /\ File[j].s = s /\ File[j].kf
                                    /\ File[j].pts <= t.goal
  IN  taken' = [taken EXCEPT ![s] =
        [due |-> NextOf(s, i), goal |-> NoPts,
         lost |-> t.lost \/ (t.due # 0 /\ i > t.due),
         early |-> t.early \/ (t.due # 0 /\ i < t.due),
         late |-> t.late \/ (/\ t.due = 0 /\ t.goal # NoPts /\ earlier
                             /\ File[i].pts > t.goal)]]

(* demux_read_packet_async *)
ReadPacketAsync(s) ==
  LET got == in.ds[s].head # 0 /\ ~in.blocked
      eager == s \in Eager(in)
      x == IF got THEN Dequeue(in, s) ELSE in
      y == IF eager THEN Signal([x EXCEPT !.reading = TRUE, !.eof = FALSE]) ELSE x
      r == IF got THEN "ready"
           ELSE IF eager /\ ~in.ds[s].eof THEN "waits" ELSE "eof"
  IN  /\ Running /\ in.ds[s].selected /\ player.status[s] = "ready"
      /\ in' = [y EXCEPT !.ds[s].need = ~got]
      /\ player' = [player EXCEPT !.status[s] = r]
      /\ IF got THEN Took(s, in.ds[s].head) ELSE UNCHANGED taken
      /\ PlayerOnly

AllReady == [s \in Streams |-> "ready"]

(* The wakeup callback made the player look at all its streams again.       *)
Woken ==
  /\ Running /\ in.woken
  /\ in' = [in EXCEPT !.woken = FALSE]
  /\ player' = [player EXCEPT !.status = AllReady]
  /\ UNCHANGED taken /\ PlayerOnly

(* What the cache says of the stream at pts is not what it holds            *)
(* (SeekRangeHolds).                                                        *)
CacheLacks(pts, s) ==
  LET n == FindCacheSeekTarget(in, pts)
  IN  n # 0 /\ (in.stale \/ in.ranges[n].q[s].start = NoPts)

Seek(k) ==
  /\ Running /\ player.ops < MaxOps
  /\ in' = SeekDone(in, k.pts, k.flags)
  /\ player' = [player EXCEPT !.ops = @ + 1, !.status = AllReady]
  /\ taken' = [s \in Streams |->
                [taken[s] EXCEPT !.due = 0,
                   !.goal = IF "forward" \in k.flags \/ CacheLacks(k.pts, s)
                            THEN NoPts ELSE k.pts]]
  /\ PlayerOnly

Switch(s, ref) ==
  /\ Running /\ player.ops < MaxOps
  /\ in' = SelectTrack(in, s, ref)
  /\ player' = [player EXCEPT !.ops = @ + 1, !.status[s] = "ready"]
  /\ Forget({s}, NoPts)
  /\ PlayerOnly

Flush ==
  /\ Running /\ player.ops = 0
  /\ in' = FlushAll(in)
  /\ player' = [player EXCEPT !.ops = MaxOps, !.status = AllReady]
  /\ Forget(Streams, NoPts)
  /\ PlayerOnly

BlockReading(block) ==
  /\ Running /\ IF block THEN player.ops = 0 ELSE in.blocked
  /\ LET x == [in EXCEPT !.blocked = block,
                         !.ds = [s \in Streams |->
                                   [in.ds[s] EXCEPT !.need = TRUE]]]
     IN  in' = Signal(Wakeup(x, Streams))
  /\ player' = [player EXCEPT !.ops = MaxOps]
  /\ UNCHANGED taken /\ PlayerOnly

(* demux_control, for what the thread has no copy of: the player waits on   *)
(* the thread's own condition variable until the thread has run it.         *)
Control ==
  /\ Running /\ player.ops = 0
  /\ in' = [Signal([in EXCEPT !.run_fn = TRUE]) EXCEPT !.asleep = {"player"}]
  /\ player' = [player EXCEPT !.ops = MaxOps, !.pc = "control"]
  /\ UNCHANGED taken /\ PlayerOnly

ControlWait ==
  /\ player.pc = "control" /\ "player" \notin in.asleep /\ in.run_fn
  /\ in' = [in EXCEPT !.asleep = @ \cup {"player"}]
  /\ UNCHANGED <<player, taken>> /\ PlayerOnly

ControlDone ==
  /\ player.pc = "control" /\ "player" \notin in.asleep /\ ~in.run_fn
  /\ player' = [player EXCEPT !.pc = "run"]
  /\ UNCHANGED <<in, taken>> /\ PlayerOnly

FreeAsync ==
  /\ Running /\ player.ops = 0
  /\ in' = Signal([in EXCEPT !.terminate = TRUE, !.shutdown = TRUE])
  /\ player' = [player EXCEPT !.pc = "free", !.ops = MaxOps]
  /\ UNCHANGED taken /\ PlayerOnly

FreeFinish ==
  /\ player.pc = "free" /\ in.woken
  /\ in' = [in EXCEPT !.woken = FALSE]
  /\ player' = [player EXCEPT !.pc = IF in.shutdown THEN "free" ELSE "freed"]
  /\ UNCHANGED taken /\ PlayerOnly

ThreadStep ==
  \/ RunFn \/ RunFnDone \/ ExecuteTrackswitch \/ ExecuteSeek \/ SeekDemuxer
  \/ SwitchedTracks \/ ReadPacket \/ FillBuffer \/ Filled \/ NothingToRead \/ WakeUp
  \/ Shutdown

PlayerWaits == ControlWait \/ ControlDone \/ FreeFinish
Reads == (\E s \in Streams : ReadPacketAsync(s)) \/ Woken

Next ==
  \/ ThreadStep \/ CacheUpdate
  \/ Reads \/ PlayerWaits
  \/ \E k \in Seeks[player.ops + 1] : Seek(k)
  \/ \E k \in Switches : Switch(k.s, k.pts)
  \/ Flush \/ (\E b \in BOOLEAN : BlockReading(b)) \/ Control
  \/ FreeAsync

Spec == Init /\ [][Next]_vars

-----------------------------------------------------------------------------
(* Types: counters do not wrap, at most MaxRanges ranges, every queue holds *)
(* packets of its stream.                                                   *)
TypeOK ==
  /\ in.total \in Nat /\ in.fw_bytes \in Nat
  /\ Len(in.ranges) \in 1 .. MaxRanges
  /\ \A n \in DOMAIN in.ranges, s \in Streams :
       \A p \in DOMAIN in.ranges[n].q[s].pkts :
         File[in.ranges[n].q[s].pkts[p].i].s = s
  /\ in.asleep \in {{}, {"demux"}, {"player"}}
  /\ \A s \in Streams : player.status[s] \in {"ready", "waits", "eof"}

(* What check_queue_consistency (demux.c:343, compiled out) asserts, and    *)
(* that the counters agree when a reader is reset: the counters are what    *)
(* the queues hold, the reader, the last keyframe and the prune target      *)
(* point into their queues, and each queue is in the order of the file,     *)
(* nothing twice, from wherever it was filled, resumed and joined.          *)
Consistent ==
  /\ TypeOK
  /\ ~in.failed
  /\ in.total = Bytes(in.ranges)
  /\ in.fw_bytes = FwBytes(in.ds)
  /\ \A s \in Streams :
       LET q == CurQ(in, s)
       IN  /\ in.ds[s].head \in {0} \cup ToSet(Ids(q))
           /\ in.ds[s].fw = From(q, in.ds[s].head)
  /\ \A n \in DOMAIN in.ranges, s \in Streams :
       LET q == in.ranges[n].q[s]
       IN  /\ {q.npt, q.kf_latest} \subseteq {0} \cup ToSet(Ids(q))
           /\ \A p \in 1 .. Len(q.pkts) - 1 : q.pkts[p].i < q.pkts[p + 1].i

(* A cached range is continuous: no queue misses a packet of the file or    *)
(* has one twice, however it was filled, pruned, resumed and joined.        *)
CachedWithoutGaps ==
  \A n \in DOMAIN in.ranges, s \in Streams :
    LET q == in.ranges[n].q[s].pkts
    IN  \A p \in 1 .. Len(q) - 1 : q[p + 1].i = NextOf(s, q[p].i)

CanSeekTo(q, pts) ==
  \E p \in DOMAIN q.pkts : /\ File[q.pkts[p].i].kf /\ q.pkts[p].kf # NoPts
                          /\ q.pkts[p].kf <= pts

(* A range that offers itself for a seek can do it: it has packets, and     *)
(* every stream that it is read for has a keyframe at or before its start,  *)
(* whatever was pruned; and while anything must be pruned, some stream has  *)
(* a packet to prune (the assert at demux.c:1632).  Excepted by the code,   *)
(* rightly or not (README): a stream that pruning left without a keyframe   *)
(* has no start and does not restrict the range (demux.c:534), nor does one *)
(* that has ended and has no packet left; and after a group was closed      *)
(* behind its prune target, its start is stale (demux.c:1352).              *)
SeekRangeHolds ==
  ~in.stale =>
    /\ ~in.bare
    /\ \A n \in DOMAIN in.ranges :
         LET r == in.ranges[n]
         IN  r.start # NoPts
             => /\ Held(r) > 0
                /\ \A s \in Eager(in) :
                     \/ r.q[s].start = NoPts
                     \/ r.bof \/ CanSeekTo(r.q[s], r.start)
                     \/ r.q[s].pkts = <<>> /\ r.q[s].eof

(* Between two seeks the player gets every packet of a stream once and in   *)
(* order: nothing is read twice or left out when a seek resumes the demuxer *)
(* at the end of a range, when a track switch makes it read again, or when  *)
(* a packet was under way.  After a seek it starts at or before the target. *)
(* Only the join of two ranges leaves packets out, rightly or not (README): *)
(* where the reader has taken all of its queue, reader_head stays NULL and  *)
(* the packets that the join appends are never read (demux.c:1274).         *)
ReadInOrder ==
  \A s \in Streams : /\ ~taken[s].early /\ ~taken[s].late
                     /\ taken[s].lost => s \in in.dry

(* A reader is told of the end only after the last packet; a result that    *)
(* was under way when the player seeked is not taken for it.  Excepted are  *)
(* a stream cut for lack of room, a join (ReadInOrder), and blocked reading.*)
EofAtEnd ==
  [][\A s \in Eager(in) :
       player'.status[s] = "eof" /\ player.status[s] # "eof"
       => \/ taken[s].due \in {0, Len(File) + 1}
          \/ s \in in.dry \cup in.cut \/ in.blocked]_vars

(* Weak fairness of ThreadStep: it is enabled where ThreadReady holds, and   *)
(* then every step of the thread moves it.                                  *)
ThreadReady ==
  thread.pc # "end" /\ (thread.pc = "asleep" => "demux" \notin in.asleep)
ThreadRuns == <>[]ThreadReady => []<><<thread' # thread>>_vars

Fairness == ThreadRuns /\ WF_vars(PlayerWaits) /\ WF_vars(Woken)
FairSpec == Spec /\ Fairness

(* A reader that waits gets a packet or the end, as long as reading is not  *)
(* blocked and the stream stays selected; a call that waits for the thread  *)
(* returns: demux_control, which shares the condition variable with the     *)
(* thread, and demux_free_async.                                            *)
PacketOrEof ==
  /\ \A s \in Streams : (player.status[s] = "waits") ~>
       \/ player.status[s] # "waits" \/ in.blocked
       \/ ~in.ds[s].selected \/ ~Running
  /\ (player.pc \in {"control", "free"}) ~> (player.pc \in {"run", "freed"})
=============================================================================
