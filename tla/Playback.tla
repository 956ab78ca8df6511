------------------------------- MODULE Playback -------------------------------
(***************************************************************************)
(* player/loadfile.c: the core thread plays one file of the playlist after   *)
(* the other. A file is opened by a thread of its own, which may have been   *)
(* started ahead of time (prefetch); at the end its demuxers are told to     *)
(* stop, and forced to if that takes too long. Whenever the core waits, it   *)
(* runs commands, which change the playlist and stop what is being played;   *)
(* a worker may meanwhile open an external file for it.                      *)
(*                                                                           *)
(* What aborts these things, mp_cancel, is a flag for each here; that a      *)
(* trigger of playback_abort reaches its slaves is shown for Cancel.         *)
(***************************************************************************)
EXTENDS Integers, Sequences, FiniteSets, SequencesExt, TLC

CONSTANTS
  Entries,          \* playlist entries; each stands for its URL, too
  Kind,             \* what the URL is: "good" or "empty" (it has no streams), "broken",
                    \* or a "playlist"
  Content,          \* the entries in a playlist file
  Initial,          \* the playlist at start
  Extra,            \* entries that commands may load
  Options,          \* records of options: prefetch, loop, keep_open, idle; and whether
                    \* commands may add an "external" file, or seek when it is "over"
  MaxCommands,      \* bound: commands
  None

Demuxers == [url : Entries, cancelled : BOOLEAN, threaded : BOOLEAN]
Requests == [e : Entries, late : BOOLEAN]

ASSUME PlaybackAssumption ==
  /\ None \notin Entries \cup Demuxers \cup Requests
  /\ Kind \in [Entries -> {"good", "empty", "broken", "playlist"}]
  /\ Content \in [Entries -> Seq(Entries)]
  /\ Initial \in Seq(Entries) /\ Initial # <<>>
  /\ Extra \subseteq Entries \ ToSet(Initial)
  /\ Options \subseteq [prefetch : BOOLEAN, loop : Int, keep_open : 0..2, idle : 0..2,
                         external : BOOLEAN, over : BOOLEAN]
  /\ MaxCommands \in Nat

VARIABLES
  \* the playlist (common/playlist.c)
  list, current,    \* its entries, and the one that is or was played
  replaced,         \* current_was_replaced: current is still to be played
  short, failed,    \* entries with playback_short, init_failed
  \* MPContext, the core thread
  pc, opts, loop_times, stop_play, playing, error_playing, shown,
  demuxer,          \* mpctx->demuxer: its URL, and whether it is cancelled
  killing,          \* items of kill_demuxers_reentrant: done, and forced
  aborted,          \* playback_abort
  woken,            \* a wakeup of the core is pending
  then,             \* where cancel_open returns to
  \* the opener
  active, url, cancel, linked, done, res, opener,
  \* a command that adds an external file, and the demuxer of its tracks
  adder, adder_cancel, tracks,
  \* observations
  live,             \* number of demuxers that exist
  asked,            \* the entry a command has asked for, until something else is asked
  commands

playlist == <<list, current, replaced>>
flags == <<short, failed>>
core == <<pc, loop_times, stop_play, playing, error_playing, shown, then>>
openVars == <<active, url, cancel, linked, done, res, opener>>
adderVars == <<adder, adder_cancel, tracks>>
vars == <<playlist, flags, core, opts, demuxer, killing, aborted, woken, openVars,
          adderVars, live, asked, commands>>

Init ==
  /\ list = Initial /\ current = Initial[1] /\ replaced = FALSE
  /\ short = {} /\ failed = {}
  /\ opts \in Options /\ loop_times = opts.loop
  /\ pc = "between" /\ stop_play = "stop" /\ playing = None
  /\ error_playing = "none" /\ shown = FALSE /\ then = "none"
  /\ demuxer = None /\ killing = <<>> /\ aborted = FALSE /\ woken = FALSE
  /\ active = FALSE /\ url = None /\ cancel = "none" /\ linked = FALSE
  /\ done = FALSE /\ res = None /\ opener = "none"
  /\ adder = "none" /\ adder_cancel = FALSE /\ tracks = "none"
  /\ live = 0 /\ asked = None /\ commands = 0

\* The core waits in mp_idle or in the playloop, and commands run.
Waits == pc \in {"idle", "on_load", "open_sleep", "on_load_fail", "on_preloaded", "play",
                 "on_unload", "kill_sleep"}

-------------------------------------------------------------------------------
\* common/playlist.c

PlaceOf(e, l) == CHOOSE i \in DOMAIN l : l[i] = e
At(e) == PlaceOf(e, list)
FirstOf(l) == IF l = <<>> THEN None ELSE l[1]
Without(l, e) == IF Contains(l, e) THEN RemoveAt(l, PlaceOf(e, l)) ELSE l
Behind(e) == IF e = None \/ At(e) = Len(list) THEN None ELSE list[At(e) + 1]

\* Mutant: the entry that took the place is taken to be played.
GetNextBehind == Behind(current)

\* playlist_get_next, for the next one: an entry that took the place of a removed one
\* is still to be played.
GetNext == IF replaced THEN current ELSE Behind(current)

\* The last entry before position i that was played for more than a moment.
NotShortBefore(i) ==
  LET good == {j \in 1..i - 1 : list[j] \notin short}
  IN IF good = {} THEN None ELSE list[CHOOSE j \in good : \A k \in good : k <= j]

Prev(force) ==
  IF current = None \/ At(current) = 1 THEN None
  ELSE IF force THEN list[At(current) - 1]
  ELSE LET p == NotShortBefore(At(current))
       IN IF p = None /\ loop_times = 1 THEN FirstOf(list) ELSE p

\* With loop_times "inf" or a number, a playlist of which nothing can be played ends.
Hopeless(e, force) ==
  ~force /\ loop_times # -2 /\ e \in failed /\ ToSet(list) \subseteq failed

\* mp_next_file: the entry, and the loops that are left. The argument mutate is not
\* looked at in the code.
NextFile(direction, force) ==
  LET next == IF direction > 0 THEN GetNext ELSE Prev(force)
      around == IF direction > 0 THEN FirstOf(list) ELSE NotShortBefore(Len(list) + 1)
      turn == direction > 0 /\ around # None /\ loop_times > 1
  IN IF next # None \/ loop_times = 1 THEN [e |-> next, loop |-> loop_times]
     ELSE [e |-> IF Hopeless(around, force) THEN None ELSE around,
           loop |-> IF turn THEN loop_times - 1 ELSE loop_times]

-------------------------------------------------------------------------------
\* The opener thread

\* mp_abort_playback_async: playback_abort reaches all that is coupled to it. What the
\* opener has opened is a slave of its cancel.
Abort ==
  /\ aborted' = TRUE
  /\ cancel' = IF linked /\ cancel = "set" THEN "triggered" ELSE cancel
  /\ demuxer' = IF demuxer = None THEN None ELSE [demuxer EXCEPT !.cancelled = TRUE]
  /\ tracks' = IF tracks = "set" THEN "cancelled" ELSE tracks
  /\ adder_cancel' = (adder # "none")

\* open_demux_thread: opening may take for ever, unless it is cancelled. The core looks
\* at the result only when open_done is set.
OpenEnd ==
  /\ opener = "running" /\ opener' = "ended" /\ done' = TRUE /\ woken' = TRUE
  /\ UNCHANGED <<playlist, flags, core, opts, demuxer, killing, aborted, active, url,
                 cancel, linked, adderVars, asked, commands>>

OpenSucceeds ==
  OpenEnd /\ Kind[url] # "broken" /\ res' = url /\ live' = live + 1

OpenFails ==
  OpenEnd /\ (Kind[url] = "broken" \/ cancel = "triggered") /\ UNCHANGED <<res, live>>

\* cancel_open, in two steps around pthread_join: while the core waits for the thread
\* it runs no commands.
CancelOpen(to) ==
  /\ cancel' = IF cancel = "none" THEN "none" ELSE "triggered"
  /\ pc' = "join" /\ then' = to

JoinOpen ==
  /\ pc = "join" /\ (active => opener = "ended")
  /\ live' = IF res = None THEN live ELSE live - 1
  /\ active' = FALSE /\ url' = None /\ cancel' = "none" /\ linked' = FALSE
  /\ done' = FALSE /\ res' = None /\ opener' = "none"
  /\ pc' = then /\ then' = "none"
  /\ UNCHANGED <<playlist, flags, loop_times, stop_play, playing, error_playing, shown,
                 opts, demuxer, killing, aborted, woken, adderVars, asked, commands>>

\* start_open, with nothing active: cancel_open then has nothing to do. That the
\* thread cannot be created is left out (README).
StartOpen(e, parent) ==
  /\ active' = TRUE /\ url' = e /\ opener' = "running"
  /\ linked' = parent
  /\ cancel' = IF parent /\ aborted THEN "triggered" ELSE "set"
  /\ UNCHANGED <<done, res>>

\* Mutant: whatever was prefetched is played.
UsableAlways == ~(done /\ res = None)

\* Is a running or finished prefetch of any use? (open_demux_reentrant)
Usable == url = playing /\ ~(done /\ res = None)

-------------------------------------------------------------------------------
\* The core thread: play_current_file

\* terminate_playback
Terminate(stop) ==
  stop_play' = (IF stop = "keep" THEN "error" ELSE stop) /\ pc' = "on_unload"

\* idle_loop decides whether there is anything to do; it wakes itself up once, which
\* is left out.
Between ==
  /\ pc = "between"
  /\ \/ stop_play = "quit" /\ CancelOpen("exit") /\ woken' = woken
        /\ UNCHANGED <<stop_play, playing, aborted, error_playing, shown, asked>>
     \/ stop_play # "quit" /\ current = None /\ opts.idle # 0 /\ pc' = "idle"
        /\ UNCHANGED <<stop_play, playing, aborted, error_playing, shown, asked, woken,
                       cancel, then>>
     \/ /\ stop_play # "quit" /\ (current # None \/ opts.idle = 0)
        /\ aborted' = FALSE /\ playing' = current /\ asked' = None
        /\ error_playing' = "failed" /\ shown' = FALSE
        /\ IF current = None THEN Terminate("keep")
           ELSE stop_play' = "keep" /\ pc' = "on_load"
        /\ UNCHANGED <<woken, cancel, then>>
  /\ UNCHANGED <<playlist, flags, opts, loop_times, demuxer, killing, active, url, linked,
                 done, res, opener, adderVars, live, commands>>

Idle ==
  /\ pc = "idle" /\ woken /\ woken' = FALSE
  /\ pc' = IF current = None /\ stop_play # "quit" THEN "idle" ELSE "between"
  /\ UNCHANGED <<playlist, flags, opts, loop_times, stop_play, playing, error_playing,
                 shown, then, demuxer, killing, aborted, openVars, adderVars, live, asked,
                 commands>>

Hooks == {"on_load", "on_load_fail", "on_preloaded", "on_unload"}

\* process_hooks: while clients handle a hook, being told to stop aborts everything.
HookAbort ==
  /\ pc \in Hooks /\ woken /\ woken' = FALSE
  /\ IF stop_play # "keep" THEN Abort
     ELSE UNCHANGED <<aborted, cancel, demuxer, tracks, adder_cancel>>
  /\ UNCHANGED <<playlist, flags, core, opts, killing, active, url, linked, done, res,
                 opener, adder, live, asked, commands>>

\* The clients are done with the hook, or there were none for it.
HookEnds ==
  /\ pc \in Hooks
  /\ \/ /\ pc = "on_unload" /\ pc' = "kill"
        /\ UNCHANGED <<stop_play, error_playing>>
     \/ /\ pc = "on_load_fail" \/ (pc # "on_unload" /\ stop_play # "keep")
        /\ Terminate(stop_play) /\ UNCHANGED error_playing
     \/ /\ pc = "on_load" /\ stop_play = "keep" /\ pc' = "open"
        /\ UNCHANGED <<stop_play, error_playing>>
     \/ /\ pc = "on_preloaded" /\ stop_play = "keep"
        /\ IF Kind[playing] = "empty"
           THEN Terminate("keep") /\ error_playing' = "failed"
           ELSE pc' = "play" /\ error_playing' = "none" /\ UNCHANGED stop_play
  /\ UNCHANGED <<playlist, flags, opts, loop_times, playing, shown, then, demuxer, killing,
                 aborted, woken, openVars, adderVars, live, asked, commands>>

\* open_demux_reentrant
Open ==
  /\ pc = "open"
  /\ \/ active /\ ~Usable /\ CancelOpen("open")
        /\ UNCHANGED <<active, url, linked, done, res, opener>>
     \/ /\ active /\ Usable /\ pc' = "open_test" /\ linked' = TRUE
        /\ cancel' = IF aborted THEN "triggered" ELSE cancel
        /\ UNCHANGED <<active, url, done, res, opener, then>>
     \/ ~active /\ StartOpen(playing, TRUE) /\ pc' = "open_test" /\ UNCHANGED then
  /\ UNCHANGED <<playlist, flags, opts, loop_times, stop_play, playing, error_playing,
                 shown, demuxer, killing, aborted, woken, adderVars, live, asked, commands>>

OpenTest ==
  /\ pc = "open_test"
  /\ IF done
     THEN /\ demuxer' = IF res = None THEN None
                        ELSE [url |-> res, cancelled |-> cancel = "triggered",
                              threaded |-> FALSE]
          /\ res' = None
          /\ error_playing' = IF res = None THEN "failed" ELSE error_playing
          /\ CancelOpen("opened")
     ELSE /\ pc' = "open_sleep"
          /\ UNCHANGED <<demuxer, res, error_playing, cancel, then>>
  /\ UNCHANGED <<playlist, flags, opts, loop_times, stop_play, playing, shown, killing,
                 aborted, woken, active, url, linked, done, opener, adderVars, live, asked,
                 commands>>

OpenWakes ==
  /\ pc = "open_sleep" /\ woken /\ woken' = FALSE
  /\ pc' = "open_test"
  /\ IF stop_play # "keep" THEN Abort
     ELSE UNCHANGED <<aborted, cancel, demuxer, tracks, adder_cancel>>
  /\ UNCHANGED <<playlist, flags, opts, loop_times, stop_play, playing, error_playing,
                 shown, then, killing, active, url, linked, done, res, opener, adder, live,
                 asked, commands>>

\* transfer_playlist: the entries of a playlist file take its place, or that of the
\* entry behind it if it was removed meanwhile.
TransferPlaylist(new) ==
  LET at == IF current = None THEN None
            ELSE IF replaced THEN Behind(current) ELSE current
      i == IF at = None THEN Len(list) ELSE At(at)
  IN /\ list' = Without(SubSeq(list, 1, i), current) \o new \o SubSeq(list, i + 1, Len(list))
     /\ current' = new[1] /\ asked' = [e |-> new[1], late |-> FALSE]
     /\ replaced' = (replaced \/ current # None)

Opened ==
  /\ pc = "opened"
  /\ \/ /\ demuxer = None /\ stop_play = "keep" /\ pc' = "on_load_fail"
        /\ UNCHANGED <<playlist, asked, stop_play, error_playing, demuxer>>
     \/ /\ stop_play # "keep" /\ Terminate(stop_play)
        /\ UNCHANGED <<playlist, asked, error_playing, demuxer>>
     \/ /\ demuxer # None /\ stop_play = "keep" /\ Kind[playing] = "playlist"
        /\ IF Content[playing] = <<>> THEN UNCHANGED <<playlist, asked>>
           ELSE TransferPlaylist(Content[playing])
        /\ error_playing' = "redirect" /\ Terminate("keep") /\ UNCHANGED demuxer
     \/ /\ demuxer # None /\ stop_play = "keep" /\ Kind[playing] \in {"good", "empty"}
        /\ demuxer' = [demuxer EXCEPT !.threaded = TRUE] /\ pc' = "on_preloaded"
        /\ UNCHANGED <<playlist, asked, stop_play, error_playing>>
  /\ UNCHANGED <<flags, opts, loop_times, playing, shown, then, killing, aborted, woken,
                 openVars, adderVars, live, commands>>

-------------------------------------------------------------------------------
\* run_playloop

playRest == <<playlist, flags, opts, playing, error_playing, then, demuxer, killing,
              aborted, adderVars, live, asked, commands>>

Show ==
  /\ pc = "play" /\ ~shown /\ shown' = TRUE
  /\ UNCHANGED <<playRest, pc, loop_times, stop_play, woken, openVars>>

\* handle_eof, handle_keep_open
KeepOpen == /\ opts.keep_open = 2 \/ (opts.keep_open = 1 /\ GetNext = None)
            /\ loop_times = 1

EndOfFile ==
  /\ pc = "play" /\ stop_play = "keep" /\ ~KeepOpen
  /\ Terminate("eof")
  /\ UNCHANGED <<playRest, loop_times, shown, woken, openVars>>

\* error_on_track: the only track cannot be decoded or played. (What it sets
\* error_playing to only goes into the event of the end.)
AudioFails ==
  /\ pc = "play" /\ stop_play = "keep"
  /\ Terminate("error")
  /\ UNCHANGED <<playRest, loop_times, shown, woken, openVars>>

\* prefetch_next, when all of the file is in the cache. That it changes the loop
\* counter is what the code does.
Prefetch ==
  /\ pc = "play" /\ opts.prefetch
  /\ LET next == NextFile(1, FALSE)
     IN /\ loop_times' = next.loop
        /\ (next.e # None /\ ~active) \/ next.loop # loop_times
        /\ IF next.e # None /\ ~active THEN StartOpen(next.e, FALSE)
           ELSE UNCHANGED openVars
  /\ UNCHANGED <<playRest, pc, stop_play, shown, woken>>

PlayWakes ==
  /\ pc = "play" /\ woken /\ woken' = FALSE
  /\ IF stop_play = "keep" THEN UNCHANGED <<pc, stop_play>> ELSE Terminate(stop_play)
  /\ UNCHANGED <<playRest, loop_times, shown, openVars>>

-------------------------------------------------------------------------------
\* The end of a file

\* uninit_demuxer, kill_demuxers_reentrant: a demuxer with a thread, unless it was
\* cancelled before, gets the time to end.
Threaded == (IF demuxer # None /\ demuxer.threaded /\ ~demuxer.cancelled THEN {"file"} ELSE {})
            \cup (IF tracks = "set" THEN {"tracks"} ELSE {})

KillStart ==
  /\ pc = "kill" /\ pc' = "kill_test"
  /\ killing' = [i \in Threaded |-> "running"]
  /\ live' = live - Cardinality(((IF demuxer = None THEN {} ELSE {"file"})
                                 \cup (IF tracks = "none" THEN {} ELSE {"tracks"})) \ Threaded)
  /\ demuxer' = None /\ tracks' = "none"
  /\ UNCHANGED <<playlist, flags, opts, loop_times, stop_play, playing, error_playing,
                 shown, then, aborted, woken, openVars, adder, adder_cancel, asked, commands>>

Only(f, S) == [x \in S |-> f[x]]

KillTest ==
  /\ pc = "kill_test"
  /\ LET ended == {i \in DOMAIN killing : killing[i] = "ended"}
         left == DOMAIN killing \ ended
     IN /\ killing' = Only(killing, left)
        /\ live' = live - Cardinality(ended)
        /\ pc' = IF left = {} THEN "finish" ELSE "kill_sleep"
  /\ UNCHANGED <<playlist, flags, opts, loop_times, stop_play, playing, error_playing,
                 shown, then, demuxer, aborted, woken, openVars, adderVars, asked, commands>>

KillWakes ==
  /\ pc = "kill_sleep" /\ woken /\ woken' = FALSE /\ pc' = "kill_test"
  /\ UNCHANGED <<playlist, flags, opts, loop_times, stop_play, playing, error_playing,
                 shown, then, demuxer, killing, aborted, openVars, adderVars, live, asked,
                 commands>>

\* Mutant: the timeout only wakes the core.
KillTimeoutPatient ==
  /\ pc = "kill_sleep" /\ \E i \in DOMAIN killing : killing[i] = "running"
  /\ pc' = "kill_test"
  /\ UNCHANGED <<playlist, flags, opts, loop_times, stop_play, playing, error_playing,
                 shown, then, demuxer, killing, aborted, woken, openVars, adderVars, live,
                 asked, commands>>

\* demux_termination_timeout: what still runs is forced to end.
KillTimeout ==
  /\ pc = "kill_sleep" /\ \E i \in DOMAIN killing : killing[i] = "running"
  /\ pc' = "kill_test"
  /\ killing' = [i \in DOMAIN killing |->
                  IF killing[i] = "running" THEN "forced" ELSE killing[i]]
  /\ UNCHANGED <<playlist, flags, opts, loop_times, stop_play, playing, error_playing,
                 shown, then, demuxer, aborted, woken, openVars, adderVars, live, asked,
                 commands>>

\* External: the thread of a demuxer ends; it may hang until it is forced to.
DemuxerEnds(i) ==
  /\ i \in DOMAIN killing /\ killing[i] # "ended"
  /\ killing' = [killing EXCEPT ![i] = "ended"]
  /\ woken' = TRUE
  /\ UNCHANGED <<playlist, flags, core, opts, demuxer, aborted, openVars, adderVars, live,
                 asked, commands>>

\* The rest of play_current_file. Whether a file that was played took less than a
\* second is open.
Finish ==
  /\ pc = "finish" /\ pc' = "ended"
  /\ Abort
  /\ IF stop_play \in {"error", "eof"} /\ playing # None
     THEN /\ short' \in IF error_playing = "none" THEN {short \cup {playing}, short \ {playing}}
                        ELSE {short \cup {playing}}
          /\ failed' = IF ~shown /\ error_playing # "redirect" THEN failed \cup {playing}
                       ELSE failed \ {playing}
     ELSE UNCHANGED flags
  /\ playing' = None
  /\ UNCHANGED <<playlist, opts, loop_times, stop_play, error_playing, shown, then, killing,
                 woken, active, url, linked, done, res, opener, adder, live, asked, commands>>

\* mp_play_files
NextEntry ==
  /\ pc = "ended"
  /\ LET next == IF stop_play \in {"next", "error", "eof", "stop"} THEN NextFile(1, FALSE)
                 ELSE [e |-> current, loop |-> loop_times]
     IN IF stop_play = "quit"
        THEN CancelOpen("exit") /\ UNCHANGED <<playlist, loop_times, stop_play>>
        ELSE /\ current' = next.e /\ loop_times' = next.loop /\ replaced' = FALSE
             /\ stop_play' = "stop" /\ UNCHANGED list
             /\ IF next.e = None /\ opts.idle < 2 THEN CancelOpen("exit")
                ELSE pc' = "between" /\ UNCHANGED <<cancel, then>>
  /\ UNCHANGED <<flags, opts, playing, error_playing, shown, demuxer, killing, aborted,
                 woken, active, url, linked, done, res, opener, adderVars, live, asked,
                 commands>>

-------------------------------------------------------------------------------
\* Commands (player/command.c), run by the core while it waits

\* mp_set_playlist_entry; late if the file that was played has already ended for
\* another reason, so that the core will go on to the next entry.
SetEntry(e) ==
  /\ current' = e /\ replaced' = FALSE
  /\ stop_play' = IF stop_play = "keep" THEN "current" ELSE stop_play
  /\ asked' = IF e = None THEN None
              ELSE [e |-> e, late |-> pc # "idle" /\ stop_play \notin {"keep", "current"}]

Command ==
  /\ Waits /\ commands < MaxCommands
  /\ commands' = commands + 1 /\ woken' = TRUE
  /\ UNCHANGED <<failed, pc, playing, error_playing, shown, then, opts, demuxer, killing,
                 aborted, openVars, live>>

\* An entry that may be loaded: one that is not in use under the same name.
Loadable == Extra \ (ToSet(list) \cup {playing})

CmdLoadfile ==
  /\ Command
  /\ \E e \in Loadable, append \in {"replace", "append", "append-play"} :
       LET old == IF append = "replace" THEN <<>> ELSE list
           now == append = "replace" \/ (append = "append-play" /\ current = None)
       IN /\ list' = Append(old, e) /\ short' = short \ {e}
          /\ IF now THEN SetEntry(e)
             ELSE UNCHANGED <<current, replaced, stop_play, asked>>
  /\ UNCHANGED <<loop_times, adderVars>>

CmdNextPrev ==
  /\ Command
  /\ \E direction \in {-1, 1}, force \in BOOLEAN :
       LET next == NextFile(direction, force)
       IN /\ next.e # None \/ force
          /\ loop_times' = next.loop /\ SetEntry(next.e)
  /\ UNCHANGED <<list, short, adderVars>>

\* playlist_remove: the one behind takes the place of the current one.
RemoveEntry(e) ==
  /\ list' = Without(list, e)
  /\ current' = IF current = e THEN Behind(e) ELSE current
  /\ replaced' = (replaced \/ current = e)
  /\ asked' = IF current = e /\ Behind(e) # None
              THEN [e |-> Behind(e), late |-> FALSE]
              ELSE IF asked # None /\ asked.e = e THEN None ELSE asked

CmdRemove ==
  /\ Command
  /\ \E e \in ToSet(list) :
       /\ RemoveEntry(e)
       /\ stop_play' = IF current = e /\ stop_play = "keep" THEN "next" ELSE stop_play
  /\ UNCHANGED <<short, loop_times, adderVars>>

\* All but the entry that is played.
CmdClear ==
  /\ Command
  /\ current' = IF replaced THEN None ELSE current
  /\ list' = IF current' = None THEN <<>> ELSE <<current'>>
  /\ asked' = IF asked # None /\ asked.e = current' THEN asked ELSE None
  /\ UNCHANGED <<replaced, short, loop_times, stop_play, adderVars>>

CmdMove ==
  /\ Command
  /\ \E e \in ToSet(list) : list' = Append(Without(list, e), e) /\ list' # list
  /\ UNCHANGED <<current, replaced, short, loop_times, stop_play, asked, adderVars>>

CmdStop ==
  /\ Command
  /\ list' = <<>> /\ current' = None /\ replaced' = FALSE /\ asked' = None
  /\ stop_play' = IF stop_play = "quit" THEN "quit" ELSE "stop"
  /\ UNCHANGED <<short, loop_times, adderVars>>

CmdQuit ==
  /\ Command
  /\ stop_play' = "quit" /\ asked' = None
  /\ UNCHANGED <<playlist, short, loop_times, adderVars>>

\* cmd_seek, queue_seek. playback_initialized holds until the hooks of the end are done.
\* A seek that takes back the end asks for the file that was played.
CmdSeek ==
  /\ Command
  /\ pc = "play" \/ (pc = "on_unload" /\ error_playing = "none" /\ opts.over)
  /\ stop_play' = IF stop_play = "eof" THEN "keep" ELSE stop_play
  /\ asked' = IF stop_play = "eof" THEN None ELSE asked
  /\ UNCHANGED <<playlist, short, loop_times, adderVars>>

\* cmd_track_add on a worker, up to where mp_add_external_file gives up the core.
CmdTrackAdd ==
  /\ Command /\ opts.external /\ stop_play = "keep" /\ adder = "none" /\ tracks = "none"
  /\ adder' = "opening" /\ adder_cancel' = aborted
  /\ UNCHANGED <<playlist, short, loop_times, stop_play, asked, tracks>>

\* demux_open_url on the worker, without the lock of the core.
AdderOpens ==
  /\ adder = "opening"
  /\ \/ adder' = "opened" /\ live' = live + 1
     \/ adder' = "failed" /\ UNCHANGED live
  /\ UNCHANGED <<playlist, flags, core, opts, demuxer, killing, aborted, woken, openVars,
                 adder_cancel, tracks, asked, commands>>

\* Mutant: the file is added to whatever is there now.
AdderWelcome == TRUE

\* May the file be added, now that the worker has the core again?
AdderWelcomed == stop_play = "keep"

AdderEnds ==
  /\ adder \in {"opened", "failed"} /\ (Waits \/ pc = "exit")
  /\ IF adder = "opened" /\ AdderWelcomed
     THEN /\ tracks' = IF adder_cancel \/ aborted THEN "cancelled" ELSE "set"
          /\ UNCHANGED live
     ELSE live' = live - (IF adder = "opened" THEN 1 ELSE 0) /\ UNCHANGED tracks
  /\ adder' = "none" /\ adder_cancel' = FALSE
  /\ UNCHANGED <<playlist, flags, core, opts, demuxer, killing, aborted, woken, openVars,
                 asked, commands>>

-------------------------------------------------------------------------------
Core == \/ Between \/ Idle \/ HookAbort \/ Open \/ OpenTest \/ OpenWakes \/ JoinOpen
        \/ Opened \/ PlayWakes \/ KillStart \/ KillTest \/ KillWakes \/ KillTimeout
        \/ Finish \/ NextEntry

Commands == CmdLoadfile \/ CmdNextPrev \/ CmdRemove \/ CmdClear \/ CmdMove \/ CmdStop
            \/ CmdQuit \/ CmdSeek \/ CmdTrackAdd

Next == \/ Core \/ Commands \/ HookEnds
        \/ OpenSucceeds \/ OpenFails
        \/ Show \/ EndOfFile \/ AudioFails \/ Prefetch
        \/ \E i \in {"file", "tracks"} : DemuxerEnds(i)
        \/ AdderOpens \/ AdderEnds

Spec == Init /\ [][Next]_vars

\* What is cancelled or forced ends, and clients answer their hooks. That a file opens,
\* is played to its end or has a thread that ends by itself is left open. A worker that
\* waits for the core gets it (Dispatch).
OpenEnds == cancel = "triggered" /\ (OpenSucceeds \/ OpenFails)
ForcedEnds == \E i \in DOMAIN killing : killing[i] = "forced" /\ DemuxerEnds(i)
AdderGivesUp == AdderOpens /\ adder_cancel

FairSpec ==
  /\ Spec
  /\ WF_vars(Core) /\ WF_vars(HookEnds)
  /\ WF_vars(OpenEnds) /\ WF_vars(ForcedEnds)
  /\ WF_vars(AdderGivesUp) /\ SF_vars(AdderEnds)

-------------------------------------------------------------------------------
\* Every field keeps its type, and every demuxer that was opened belongs to somebody who
\* will free it: the opener's result, the file, its tracks, those told to end, or a
\* worker. Between files nothing is left but what was opened ahead (the assertions of
\* play_current_file and start_open).
DemuxersOwned ==
  /\ list \in Seq(Entries) /\ current \in ToSet(list) \cup {None}
  /\ stop_play \in {"keep", "current", "next", "error", "eof", "stop", "quit"}
  /\ live = Cardinality(DOMAIN killing)
            + Cardinality({x \in {"res", "file", "tracks", "adder"} :
                             \/ x = "res" /\ res # None
                             \/ x = "file" /\ demuxer # None
                             \/ x = "tracks" /\ tracks # "none"
                             \/ x = "adder" /\ adder = "opened"})
  /\ active <=> opener # "none"
  /\ ~active => cancel = "none" /\ url = None /\ res = None /\ ~done
  /\ pc \in {"between", "idle"} =>
       /\ demuxer = None /\ tracks = "none" /\ killing = <<>>
       /\ playing = None /\ stop_play # "keep"
  /\ pc = "exit" => ~active

\* What is played is the entry that is to be played, also if another file was opened
\* ahead of time, and as long as nothing has stopped it its demuxer has not been told
\* to abort, whichever cancel it was a slave of before.
FileAsAsked ==
  /\ demuxer # None => demuxer.url = playing
  /\ stop_play = "keep" => ~aborted /\ (demuxer # None => ~demuxer.cancelled)
  /\ pc = "play" => demuxer # None

\* The entry that a command or the end of a playlist file has asked for last is the one
\* to be played next, unless it came when the file before it had already ended.
AskedIsNext ==
  pc \in {"between", "exit"} /\ asked # None /\ ~asked.late => current = asked.e

\* The assertion at the end of play_current_file: a file is over for some reason.
EndHasReason == pc = "ended" => stop_play # "keep"

\* A file that was told to stop is over in the end, and the core quits when it was told
\* to, whatever hangs while opening, reading or ending (mp_abort_playback_async,
\* kill_demuxers_reentrant). And a playlist of which nothing can be played is not played
\* for ever, if the attempts to open its files end (mp_next_file).
PlaybackStops ==
  /\ playing # None /\ stop_play # "keep" ~> playing = None
  /\ stop_play = "quit" ~> pc = "exit"
  /\ (/\ []<>(opener # "running")
      /\ <>[](opts.loop # -2 /\ \A e \in ToSet(list) : Kind[e] \in {"broken", "empty"}))
       => <>(pc \in {"idle", "exit"})
===============================================================================
