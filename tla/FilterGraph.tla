------------------------------ MODULE FilterGraph ------------------------------
(***************************************************************************)
(* The filters between demuxer and audio output (filters/filter.c), as the    *)
(* player builds them for an audio track: demux_in, the decoder in its        *)
(* wrapper, the output chain with one user filter in its own wrapper. The     *)
(* core asks the last pin for a frame; a request travels towards the demuxer  *)
(* and a frame back, each filter being run when something has changed on one   *)
(* of its pins. Nothing runs by itself: a filter that is not marked, or a      *)
(* wakeup that is not sent, stops playback.                                    *)
(*                                                                         *)
(* The demuxer's thread adds packets and notifies demux_in meanwhile, the     *)
(* audio output is full at times, the user filter may fail, and the core may  *)
(* seek. A packet decodes to the frame of its number.                         *)
(***************************************************************************)
EXTENDS Integers, Sequences, FiniteSets, SequencesExt

CONSTANTS
  Packets,      \* number of packets in the file
  Segments,     \* sequences with the segment of each packet, 0 for none (timelines)
  Roles,        \* the filter in the chain is a "user" filter, or the one that has to
                \* "convert" to what the audio output takes
  Delay,        \* packets that the decoder keeps back
  MaxSeeks      \* bound: seeks

ASSUME GraphAssumption ==
  /\ Packets \in Nat \ {0} /\ Delay \in Nat /\ MaxSeeks \in Nat
  /\ Segments \subseteq [1..Packets -> Nat]
  /\ Roles \subseteq {"user", "convert"}

\* Frames are numbers; MP_FRAME_NONE and MP_FRAME_EOF:
Nothing == 0
Eof == Packets + 1

\* The connections (mp_pin.conn), from the filter that writes to the one that reads.
Links == {"packets", "to_decoder", "frames", "decoded", "in", "to_filter", "from_filter",
          "out", "chain"}

Writer(l) ==
  CASE l = "packets" -> "demux"
    [] l \in {"to_decoder", "decoded"} -> "wrapper"
    [] l = "frames" -> "decoder"
    [] l \in {"in", "chain"} -> "output_chain"
    [] l \in {"to_filter", "out"} -> "user_wrapper"
    [] l = "from_filter" -> "filter"

Reader(l) ==
  CASE l \in {"packets", "frames"} -> "wrapper"
    [] l = "to_decoder" -> "decoder"
    [] l \in {"decoded", "out"} -> "output_chain"
    [] l \in {"in", "from_filter"} -> "user_wrapper"
    [] l = "to_filter" -> "filter"
    [] l = "chain" -> "root"

VARIABLES
  g,               \* the filters and their connections, which only the core touches
  async_pending,   \* filters notified by other threads
  async_sent,      \* async_wakeup_sent
  core_woken,      \* mp_wakeup_core
  playloop, ret,   \* the core (run_playloop), and where mp_filter_run returns to
  full,            \* the audio output takes no more at the moment
  out_eof,         \* ao_chain.out_eof
  \* the demuxer
  queue, position, at_end, ds_need_wakeup, notifying,
  segment, role,   \* of this file and chain
  owed,            \* observation: what was read and is not with the player yet
  seeks

coreVars == <<playloop, ret, full, out_eof>>
asyncVars == <<async_pending, async_sent>>
demuxVars == <<queue, position, at_end, ds_need_wakeup, notifying>>
fixed == <<segment, role>>
graphVars == <<g, asyncVars, core_woken, coreVars, demuxVars, fixed, owed, seeks>>

NoData == [l \in Links |-> Nothing]
NoRequests == [l \in Links |-> FALSE]

\* All connections are new, so that every filter is marked (init_connection).
GraphInit ==
  /\ g = [data |-> NoData, req |-> NoRequests,
          pending |-> <<"root", "output_chain", "user_wrapper", "filter", "wrapper",
                        "demux", "decoder">>,
          external |-> TRUE,
          packet |-> Nothing, new_segment |-> Nothing, start |-> 0,
          decoding |-> <<>>, draining |-> FALSE, eof_flag |-> FALSE,
          eof_returned |-> FALSE,
          failed |-> FALSE, disabled |-> FALSE, error_eof_sent |-> FALSE,
          failed_conversion |-> FALSE]
  /\ async_pending = <<>> /\ async_sent = FALSE /\ core_woken = FALSE
  /\ playloop = "fill" /\ ret = "none" /\ full = FALSE /\ out_eof = FALSE
  /\ queue = <<>> /\ position = 1 /\ at_end = FALSE /\ ds_need_wakeup = TRUE
  /\ notifying = FALSE
  /\ segment \in Segments /\ role \in Roles
  /\ owed = <<>> /\ seeks = 0

-------------------------------------------------------------------------------
\* filter.c: pins

\* add_pending
AddPending(s, f) ==
  IF f \in ToSet(s.pending) THEN s
  ELSE [s EXCEPT !.pending = Append(@, f), !.external = @ \/ f = "root"]

HasData(s, l) == s.data[l] # Nothing

\* mp_pin_out_request_data. For the filters; that the player's request runs the filters
\* at once (filter_recursive) is in Fill.
Request(s, l) ==
  IF HasData(s, l) \/ s.req[l] THEN s
  ELSE AddPending([s EXCEPT !.req[l] = TRUE], Writer(l))

\* mp_pin_in_write, to a pin that needs data
Write(s, l, frame) ==
  AddPending([s EXCEPT !.data[l] = frame, !.req[l] = FALSE], Reader(l))

\* The second half of mp_pin_out_read.
Take(s, l) == [s EXCEPT !.data[l] = Nothing]

\* mp_pin_transfer_data
Transfer(s, dst, src) ==
  IF ~s.req[dst] THEN s
  ELSE LET r == Request(s, src)
       IN IF HasData(r, src) THEN Write(Take(r, src), dst, r.data[src]) ELSE r

\* reset_pin
Clear(s, links) ==
  [s EXCEPT !.data = [l \in Links |-> IF l \in links THEN Nothing ELSE @[l]],
            !.req = [l \in Links |-> l \notin links /\ @[l]]]

-------------------------------------------------------------------------------
\* f_decoder_wrapper.c

\* The decoder's own reset, and that of its pins.
ResetDecoder(s) ==
  [Clear(s, {"to_decoder", "frames"}) EXCEPT
     !.packet = Nothing, !.new_segment = Nothing, !.start = 0,
     !.decoding = <<>>, !.draining = FALSE, !.eof_flag = FALSE]

IsNewSegment(s, p) == p \in 1..Packets /\ segment[p] # 0 /\ segment[p] # s.start

\* feed_packet: before a packet of another segment the decoder is told to drain. The
\* assertion that there is a packet then is one of FramesInOrder.
FeedPacket(s) ==
  IF ~s.req["to_decoder"] THEN s
  ELSE LET r == IF s.packet = Nothing /\ s.new_segment = Nothing
                THEN LET q == Request(s, "packets")
                     IN [Take(q, "packets") EXCEPT !.packet = q.data["packets"]]
                ELSE s
       IN IF r.packet = Nothing THEN r
          ELSE LET new == IsNewSegment(r, r.packet)
                   n == [r EXCEPT !.new_segment = IF new THEN r.packet ELSE @]
               IN [Write(n, "to_decoder", IF new THEN Eof ELSE r.packet)
                     EXCEPT !.packet = Nothing]

\* Mutant: the end of a segment is taken for the end of the file.
ReadFrameEnding(s) == Transfer(s, "decoded", "frames")

\* read_frame: when the decoder is drained, its new segment starts.
ReadFrame(s) ==
  IF ~s.req["decoded"] THEN s
  ELSE LET q == Request(s, "frames")
           frame == q.data["frames"]
           t == Take(q, "frames")
           next == [ResetDecoder(t) EXCEPT !.packet = t.new_segment,
                                           !.start = segment[t.new_segment]]
       IN IF frame = Nothing THEN q
          ELSE IF frame = Eof /\ t.new_segment # Nothing THEN AddPending(next, "wrapper")
          ELSE Write(t, "decoded", frame)

\* lavc_process: what libavcodec does with a packet is a queue of length Delay.
Decode(s) ==
  IF ~s.req["frames"] THEN s
  ELSE IF s.draining /\ s.decoding = <<>>
  THEN LET e == [s EXCEPT !.draining = FALSE, !.eof_flag = TRUE]
       IN IF s.eof_flag THEN e ELSE Write(e, "frames", Eof)
  ELSE IF s.draining \/ Len(s.decoding) > Delay
  THEN Write([s EXCEPT !.decoding = Tail(@), !.eof_flag = FALSE], "frames",
             Head(s.decoding))
  ELSE LET q == Request(s, "to_decoder")
           p == q.data["to_decoder"]
           t == Take(q, "to_decoder")
       IN IF p = Nothing THEN q
          ELSE AddPending([t EXCEPT !.draining = (p = Eof),
                                    !.decoding = IF p = Eof THEN @ ELSE Append(@, p)],
                          "decoder")

-------------------------------------------------------------------------------
\* f_output_chain.c

\* The first part of process_user: the filter has failed. One that converts cannot be
\* left out, any other is.
Disable(s) ==
  IF role = "convert"
  THEN [s EXCEPT !.failed = FALSE, !.disabled = TRUE, !.failed_conversion = TRUE]
  ELSE [Clear(s, {"to_filter", "from_filter"}) EXCEPT !.failed = FALSE, !.disabled = TRUE]

\* process_user
WrapUser(s) ==
  LET d == IF s.failed /\ ~s.disabled THEN Disable(s) ELSE s
  IN IF ~d.disabled
     THEN Transfer(Transfer(d, "to_filter", "in"), "out", "from_filter")
     ELSE IF role = "user" THEN Transfer(d, "out", "in")
     ELSE IF d.req["out"] /\ ~d.error_eof_sent
     THEN [Write(d, "out", Eof) EXCEPT !.error_eof_sent = TRUE]
     ELSE d

\* process
Chain(s) == Transfer(Transfer(s, "in", "decoded"), "chain", "out")

\* mp_filter_internal_mark_failed, for a filter whose error handler is its wrapper.
MarkFailed(s) == AddPending([s EXCEPT !.failed = TRUE], "user_wrapper")

-------------------------------------------------------------------------------
\* Notifications (filter_wakeup, flush_async_notifications), under async_lock

Notify(f) ==
  IF f \in ToSet(async_pending) THEN UNCHANGED <<asyncVars, core_woken>>
  ELSE /\ async_pending' = Append(async_pending, f)
       /\ async_sent' = TRUE
       /\ core_woken' = (core_woken \/ ~async_sent)

\* Mutant: the next notification takes the core to be woken already.
Noticed == async_sent

\* Has a wakeup been sent, after the notifications were taken?
StillSent == FALSE

FlushAsync ==
  /\ playloop = "flush" /\ playloop' = "run"
  /\ LET marked[n \in 0..Len(async_pending)] ==
           IF n = 0 THEN g ELSE AddPending(marked[n - 1], async_pending[n])
     IN g' = marked[Len(async_pending)]
  /\ async_pending' = <<>> /\ async_sent' = StillSent
  /\ UNCHANGED <<core_woken, ret, full, out_eof, demuxVars, fixed, owed, seeks>>

-------------------------------------------------------------------------------
\* mp_filter_run

Next1 == Last(g.pending)
Popped == [g EXCEPT !.pending = Front(@)]

Run(f) == playloop = "run" /\ g.pending # <<>> /\ Next1 = f

runRest == <<coreVars, fixed, seeks>>

\* Filters that only the core is concerned with.
RunFilter ==
  /\ \/ Run("root") /\ g' = Popped
     \/ Run("wrapper") /\ g' = ReadFrame(FeedPacket(Popped))
     \/ Run("decoder") /\ g' = Decode(Popped)
     \/ Run("output_chain") /\ g' = Chain(Popped)
  /\ UNCHANGED <<runRest, asyncVars, core_woken, demuxVars, owed>>

\* process_user; a failed conversion has the core look at it.
RunUserWrapper ==
  /\ Run("user_wrapper") /\ g' = WrapUser(Popped)
  /\ IF g'.failed_conversion /\ ~g.failed_conversion THEN Notify("output_chain")
     ELSE UNCHANGED <<asyncVars, core_woken>>
  /\ UNCHANGED <<runRest, demuxVars, owed>>

\* A user filter like af_format: frame by frame, and it may fail at one.
RunUserFilter ==
  /\ Run("filter")
  /\ LET q == IF Popped.req["from_filter"] THEN Request(Popped, "to_filter") ELSE Popped
         frame == q.data["to_filter"]
     IN \/ g' = Transfer(Popped, "from_filter", "to_filter") /\ UNCHANGED owed
        \/ /\ q.req["from_filter"] /\ frame \in 1..Packets /\ ~q.disabled
           /\ g' = MarkFailed(Take(q, "to_filter"))
           /\ owed' = RemoveAt(owed, CHOOSE n \in DOMAIN owed : owed[n] = frame)
  /\ UNCHANGED <<runRest, asyncVars, core_woken, demuxVars>>

\* f_demux_in.c: process, with demux_read_packet_async, which wants to notify of changes
\* if it has no packet to give. It needs the demuxer's lock.
RunDemux ==
  /\ Run("demux") /\ ~notifying
  /\ IF ~g.req["packets"] THEN g' = Popped /\ UNCHANGED <<queue, ds_need_wakeup, owed>>
     ELSE IF queue # <<>>
     THEN /\ g' = [Write(Popped, "packets", Head(queue)) EXCEPT !.eof_returned = FALSE]
          /\ queue' = Tail(queue) /\ ds_need_wakeup' = FALSE /\ UNCHANGED owed
     ELSE /\ ds_need_wakeup' = TRUE /\ UNCHANGED queue
          /\ IF at_end /\ ~g.eof_returned
             THEN /\ g' = [Write(Popped, "packets", Eof) EXCEPT !.eof_returned = TRUE]
                  /\ owed' = Append(owed, Eof)
             ELSE g' = Popped /\ UNCHANGED owed
  /\ UNCHANGED <<runRest, asyncVars, core_woken, position, at_end, notifying>>

\* mp_filter_run returns whether something has changed for the player.
RunEnds ==
  /\ playloop = "run" /\ g.pending = <<>>
  /\ playloop' = ret /\ ret' = "none"
  /\ g' = [g EXCEPT !.external = (ret = "filled") /\ @]
  /\ core_woken' = (core_woken \/ (ret = "wait" /\ g.external))
  /\ UNCHANGED <<asyncVars, full, out_eof, demuxVars, fixed, owed, seeks>>

-------------------------------------------------------------------------------
\* The player: run_playloop

coreRest == <<asyncVars, demuxVars, fixed>>

\* fill_audio_out_buffers: nothing to do, or a frame is asked for, and the filters run.
Fill ==
  /\ playloop = "fill"
  /\ \/ g.failed_conversion /\ playloop' = "stopped" /\ UNCHANGED <<g, ret>>
     \/ /\ ~g.failed_conversion
        /\ g' = IF full THEN g ELSE Request(g, "chain")
        /\ playloop' = "flush" /\ ret' = IF full THEN "wait" ELSE "filled"
  /\ UNCHANGED <<coreRest, core_woken, full, out_eof, owed, seeks>>

\* copy_output: until there is enough for the audio output, or nothing more.
Filled ==
  /\ playloop = "filled"
  /\ LET frame == g.data["chain"]
     IN /\ g' = Take(g, "chain")
        /\ IF frame \in 1..Packets
           THEN /\ full' \in BOOLEAN /\ out_eof' = FALSE
                /\ IF full' THEN playloop' = "flush" /\ ret' = "wait"
                   ELSE playloop' = "fill" /\ UNCHANGED ret
           ELSE /\ out_eof' = (out_eof \/ frame = Eof)
                /\ playloop' = "flush" /\ ret' = "wait" /\ UNCHANGED full
        /\ owed' = IF frame = Nothing \/ g.failed_conversion THEN owed ELSE Tail(owed)
  /\ UNCHANGED <<coreRest, core_woken, seeks>>

\* mp_wait_events
Wakes ==
  /\ playloop = "wait" /\ core_woken /\ core_woken' = FALSE
  /\ playloop' = "fill"
  /\ UNCHANGED <<g, coreRest, ret, full, out_eof, owed, seeks>>

\* mp_filter_reset of the root, and with it of all filters.
ResetAll(s) ==
  [ResetDecoder(Clear(s, Links)) EXCEPT !.eof_returned = FALSE, !.error_eof_sent = FALSE]

\* A seek (execute_queued_seek, mp_seek): the demuxer's packets are flushed and the
\* filters reset, from where the playloop begins again.
Seek(p) ==
  /\ playloop = "wait" /\ seeks < MaxSeeks /\ ~notifying
  /\ seeks' = seeks + 1
  /\ queue' = <<>> /\ position' = p /\ at_end' = FALSE /\ ds_need_wakeup' = TRUE
  /\ g' = ResetAll(g) /\ owed' = <<>> /\ out_eof' = FALSE /\ full' = FALSE
  /\ playloop' = "fill" /\ core_woken' = TRUE
  /\ UNCHANGED <<asyncVars, ret, notifying, fixed>>

\* External: the audio output has played something, and wakes the core.
OutputTakes ==
  /\ full /\ full' = FALSE /\ core_woken' = TRUE
  /\ UNCHANGED <<g, coreRest, playloop, ret, out_eof, owed, seeks>>

-------------------------------------------------------------------------------
\* The demuxer's thread (DemuxCache): it adds a packet, or finds that there is none, for
\* ever or, in a file that grows, for now; and notifies under its lock.

Changed ==
  /\ notifying' = ds_need_wakeup /\ ds_need_wakeup' = FALSE
  /\ UNCHANGED <<g, asyncVars, core_woken, coreVars, fixed, seeks>>

Demux ==
  /\ ~notifying /\ position <= Packets
  /\ queue' = Append(queue, position) /\ owed' = Append(owed, position)
  /\ position' = position + 1 /\ at_end' = FALSE
  /\ Changed

DemuxEnds ==
  /\ ~notifying /\ ~at_end /\ at_end' = TRUE
  /\ IF position <= Packets THEN segment[position] = 0 ELSE TRUE
  /\ Changed /\ UNCHANGED <<queue, position, owed>>

\* mp_filter_wakeup, from the callback of the stream
DemuxNotifies ==
  /\ notifying /\ notifying' = FALSE
  /\ Notify("demux")
  /\ UNCHANGED <<g, coreVars, queue, position, at_end, ds_need_wakeup, fixed, owed, seeks>>

-------------------------------------------------------------------------------
Core == \/ FlushAsync \/ RunFilter \/ RunUserWrapper \/ RunUserFilter \/ RunDemux \/ RunEnds
        \/ Fill \/ Filled \/ Wakes

DemuxThread == Demux \/ (position > Packets /\ DemuxEnds) \/ DemuxNotifies

GraphNext == \/ Core \/ OutputTakes
             \/ Demux \/ DemuxEnds \/ DemuxNotifies
             \/ \E p \in 1..Packets : Seek(p)

GraphSpec == GraphInit /\ [][GraphNext]_graphVars

GraphFairness ==
  WF_graphVars(Core) /\ WF_graphVars(OutputTakes) /\ WF_graphVars(DemuxThread)

FairGraphSpec == GraphSpec /\ GraphFairness

-------------------------------------------------------------------------------
\* A sequence with a frame in front of it, if there is one.
Ahead(frame, rest) == IF frame = Nothing THEN rest ELSE <<frame>> \o rest

\* What the filters of a state and the demuxer's queue have on its way to the player, the
\* next to arrive first. The end that only drains the decoder for the next segment is not
\* one of the file.
Ends(s, frame) == IF s.new_segment # Nothing /\ frame = Eof THEN Nothing ELSE frame

ToDecode(s) ==
  Ahead(Ends(s, IF s.draining THEN Eof ELSE Nothing),
    Ahead(Ends(s, s.data["to_decoder"]),
      Ahead(s.packet, Ahead(s.new_segment, Ahead(s.data["packets"], queue)))))

InFlight(s) ==
  Ahead(s.data["chain"], Ahead(s.data["out"], Ahead(s.data["from_filter"],
    Ahead(s.data["to_filter"], Ahead(s.data["in"], Ahead(s.data["decoded"],
      Ahead(Ends(s, s.data["frames"]), s.decoding \o ToDecode(s))))))))

\* What has been read and has not reached the player is on its way, in order and once:
\* packets, frames and ends of file, but for the frame at which a user filter failed and
\* what a seek drops. An end is only told of when all before it has been given. After a
\* conversion failed the player gives up. Pins keep to their protocol (the assertions of
\* filter.c), and the decoder is never fed while it has to be drained (feed_packet).
FramesInOrder ==
  /\ ~g.failed_conversion => owed = InFlight(g)
  /\ \A l \in Links : g.req[l] => ~HasData(g, l)
  /\ g.new_segment # Nothing => g.packet = Nothing /\ ~g.req["to_decoder"]
  /\ IsInjective(g.pending)

\* The end arrives, and all before it: whatever is asked for, written, drained or notified,
\* in whatever order the demuxer, the audio output and the filters do so, no filter is
\* left waiting for one that does not know of it, and the filters come to rest. Only
\* what a file got after the player had been told of its end may stay in the queue: the
\* player does not ask again until the output has played what it has.
EndArrives ==
  <>[](playloop = "stopped" \/ (out_eof /\ owed = queue /\ position > Packets))
===============================================================================
