# TLA+ models of the mpa player core

mpa is an audio player written in C, derived from mpv. These modules model the parts of
it where threads meet, and where the order of events decides what is played: how other
threads get at the state of the playback core, how commands run on worker threads, how
events and property changes reach the users of the client API, how all of it is taken
down; how files are opened, prefetched, aborted and played one after the other; how a
thread reads ahead into a cache that the player seeks in; how frames travel through the
filters; and how audio reaches a device, with a thread or without a lock. TLC checks them
on small instances; for the dispatch queue, which everything else stands on, the thread
pool, the event queue and the observed properties of a client, the life of handles and
core, cancellation, the playback of files, the filters, and the audio output, TLAPS proves
the safety properties for any number of threads, clients, requests, observers, objects,
commands, packets, planes and samples, and for every playlist.

`PROJECT.json` lists the components, the runs, the lines of code each definition stands
for (`map`), a deliberately broken variant of the code for each checked property
(`mutants`), the disagreements between code and documentation that were met (`findings`),
and what is hard to test in this code (`hazards`).

## The system

| Component | State it keeps | Operations | Hard parts |
|---|---|---|---|
| dispatch queue, `misc/dispatch.c` | queued callbacks, `in_process`, `locked`, `lock_requests`, `interrupted`, `wait` | enqueue, cancel, run, process, interrupt, adjust_timeout, lock, unlock | one condition variable for three kinds of waiters; exclusive access handed around |
| thread pool, `misc/thread_pool.c` | threads, busy count, work | queue, run, worker loop, destruction | timeouts against new work, failing thread creation |
| client handles, `player/client.c` | ring buffer of events, reservations, overflow flag, wakeup flag; observed properties; list of handles | send, reply, wait, wake; observe, notify, update; create, destroy, terminate | events between two locks, full queues, updates in flight, the last handle |
| commands, `player/command.c` | asynchronous work, abort list | run_command, completion, abort | the core must outlive the workers |
| core thread, `player/loadfile.c`, `playloop.c`, `audio.c` | the playlist, `stop_play`, the demuxers of a file, the opener, the audio chain | play, end, prefetch, seek, load, remove, add external files | commands run wherever it waits; opening on a thread that outlives the wish for it |
| cancellation, `misc/thread_tools.c` | trigger flag, tree of slaves | trigger, reset, set_parent, wait | trigger and reset against a changing tree |
| demuxer layer, `demux/demux.c` | packet queues, cached ranges, reader positions | read, seek, select, add packet, join ranges, prune | a thread that reads while readers seek and switch |
| audio output, `audio/out/{ao,push,pull}.c`, `misc/ring.c` | soft buffer, play state | play, pause, resume, drain, reset | feed thread; lock-free callback |
| filters, `filters/filter.c`, `f_*.c` | pins with a frame each, run queue, held frames, segments | read, write, run, reset, notify | progress of a graph; ends and segments in between frames |
| input, options, logging, streams, demuxers, decoders, drivers | values, buffers, connections to libraries | parse, read, decode, write | sequential code, parsing, or glue to system and FFmpeg APIs |

How they interact. The core thread spends its idle time in `mp_wait_events`, which is
`mp_dispatch_queue_process`. An API call on another thread either takes the core with
`mp_dispatch_lock` (synchronous calls), or queues a callback (asynchronous ones, after
reserving room for the reply in the handle's event queue). A command that may block is
passed on to the thread pool; the worker locks the core again to complete it, which
sends the reply. Changes of properties mark the observers of all handles; the handle's
own thread notices in `mpv_wait_event` and queues a callback that fetches the value.
`mp_wakeup_core` (an interrupt of the dispatch queue) makes the playloop run. Destroying
the last strong handle, or a quit, ends the playloop, and `mp_shutdown_clients` then
waits on the core thread for handles and commands to go.

The core plays a file by opening it on a thread (tied to `playback_abort`, an `mp_cancel`
whose slaves are those of demuxers and streams), building the filters from the demuxer to
the audio output, and running them from the playloop: a request for a frame travels
through the pins to `demux_read_packet_async`, which either has a packet in the cache or
wakes the demuxer thread; that thread notifies the filters when there is one. Frames go
to the output with `ao_play`. There the player and the feed thread (push) or the driver's
callback (pull) share a buffer, and wake each other. At the end the demuxers are told to
cancel, closed asynchronously, and forced if they take too long.

## Modules

| Module | Models | Granularity |
|---|---|---|
| `CoreAccess` | abstract: what the dispatch queue promises | one user of the target's state, a sequence of pending work |
| `Dispatch` | `misc/dispatch.c` | one action per stretch under `queue->lock` |
| `Withdrawal` | taking items out of a queue, for both | |
| `ThreadPool` | `misc/thread_pool.c` | one action per stretch under `pool->lock` |
| `EventFeed` | abstract: what a handle promises about its events | a sequence, a gap flag, promised replies |
| `ClientEvents` | the event queue of one handle | one action per stretch under `ctx->lock` or `ctx->wakeup_lock` |
| `PropertyObserver` | observed properties of one handle | the same; `update_prop` in two steps, as it reads the value before it locks |
| `Shutdown` | handles, commands and the core's end | calls of the other modules are single steps |
| `AudioQueue` | abstract: what an audio output promises | a bounded queue of numbered samples |
| `PullOutput` | `audio/out/pull.c` with `misc/ring.c` | one action per atomic access or copy |
| `PushOutput` | `audio/out/push.c` with `ao_null.c` as the device | one action per stretch under the lock |
| `AudioOutput` | `audio/out/ao.c`: composes the two | steps of the one that was chosen |
| `DemuxCache` | `demux/demux.c`: threads, queues, cached ranges | one action per stretch under `in->lock` |
| `Cancel` | `mp_cancel` of `misc/thread_tools.c` | one action per lock taken |
| `Playback` | `player/loadfile.c` with the playlist and the commands on it | from one wait of the core to the next |
| `FilterGraph` | `filters/filter.c` and the filters of an audio track | one run of one filter |
| `MC...` | the instances TLC checks | |
| `ClientEventsProofs`, `PropertyObserverProofs`, `ShutdownProofs`, `CancelProofs`, `PlaybackProofs` | theorems about the modules they are named after | |
| `MiscProofs` | theorems about `Dispatch` and `ThreadPool` | |
| `DemuxProofs` | theorems about `DemuxCache` | |
| `AudioProofs` | theorems about `AudioOutput` and `FilterGraph` | |

`Dispatch`. Variables have the names of the fields of `struct mp_dispatch_queue`; `pc`
says where a thread is, `asleep` who is inside `pthread_cond_wait` and has not been
reached by a broadcast. A wait is "enter `asleep`", a broadcast empties it, and a waiter
that has left it re-tests its condition in an action of its own; spurious wakeups are
allowed. The target's loop is `LoopTop`, which the four steps of the target (entering,
being woken, its timeout, the end of a callback) share: each runs with the mutex held
from there to the next wait, callback or return. The call of `wakeup_fn` outside of the
mutex is a step of its own, in `mp_dispatch_lock` as well as after an append; the target
with a `wakeup_fn` is one like the event thread of `ao_wasapi.c`, which processes the
queue without waiting whenever its event is set. `locked_explicit` and the thread ids
only serve assertions; what they assert is part of `ExclusiveAccess`.

`ThreadPool`. `work` is kept with the next item first (the code's array has it last).
`Loop` is the worker's loop from having the lock to giving it up again. Destroying
threads is what it is in the code: with `terminate` set, `thread_pool_dtor` joins them.

`ClientEvents`. `other` stands for what is not queued but looked up when the queue is
empty (property changes, log messages). A user either blocks with any timeout or is
driven by the wakeup callback, and then reads until it gets no event, as client.h
demands. `EventFeed` is implemented with `feed` mapped to the readable part of the ring.

`PropertyObserver`. A value that cannot be read is a value of its own. `status` follows
the memory of each `struct observe_property`; `broken` is set when an update uses freed
memory, after which the model goes no further (this is finding 1, and the other
properties are about behaviours before it).

`Shutdown`. Commands are asynchronous, run on a worker, and can be aborted; they end by
themselves or, when cancelled, for certain. The dispatch queue is used as `Dispatch`
shows it to be: requests for the core are served while the core is in `mp_wait_events`.

`PullOutput`. The player's thread (`call`, `pc`) and `ao_read_data` (`cb_pc`) each go
plane by plane through copying and publishing; positions count samples. Local variables
are cleared when the call that has them returns. The driver is one that can stop its
callback, one that cannot, or one with `stream_silence`; stopping keeps new callbacks
from beginning, but does not wait for one that runs, which is less than `reset()`
assumes. The player sleeps after each fill until it is woken, as the playloop does; it
may offer any number of samples. `drain()` may give up at any time. A sample is in the
queue of `AudioQueue` from the publication of the first plane (written last) to the
release of the last one (read last). The positions are 64-bit counters of bytes; their
overflow is not modelled.

`PushOutput`. The thread (`thread`) and the player (`call`) wait on one condition
variable; a broadcast reaches whoever is in it, and each re-tests. The device counts
samples like `ao_null.c`, may refuse a write, and plays by itself. A final chunk that it
refuses is dropped (`push.c:325`), as the queue of `AudioQueue` may be. The time of the
end of playback is "none", "set", "now" or "past": "now" if the device has played all
when it is computed, so that there is no delay. A time that was set comes when the device
has played its last sample, or at any time while the output is paused, as the clock goes
on, and passes then. The
thread waits for a time that is "set" with a timeout ("timed"); for "now" it sleeps
without one ("at_end"). `AudioOutput` holds the variables of both
implementations, of which `api` says which one is used; it maps either to `AudioQueue`.

`DemuxCache`. `in` is `struct demux_internal`, one record, and the helpers are functions
from that record to the next, named after the functions of the code: an action is what a
thread does between taking `in->lock` and giving it up. The demuxer thread's local
variables live in `thread` while it reads without the lock; `player` is where the player
is in a call, and what it may assume. Ranges are in the order of `in->ranges`, the
current one last. A packet is its number in `File`; its stream, timestamps and position
are known from that, so order and gaps can be told apart.

`Cancel`. `mp_cancel_trigger` locks an object, and holds that lock while it triggers the
slaves; `stack` holds the nested locks. Reference counts do not exist in this code: what
keeps an object alive is its owner and the lock of its parent, and that is what is to be
shown. The callers decide which calls can happen: who owns an object, which masters it
gets (`Masters`) and what is done with it (`Uses`) is what demuxers and streams do. The
links at the start are arbitrary, so two calls by a thread start from every shape of the
tree.

`Playback`. `pc` is the place where the core waits (opening, playing, hooks, closing,
idle); an action is what it does from there to the next wait. Commands are actions that
are enabled wherever the core waits, because there it processes its dispatch queue. The
opener, the worker that adds an external file and the demuxers that are being closed go
on meanwhile. Playlist entries keep identity; `replaced` is `current_was_replaced`. What
was asked for (`asked`) is recorded by the commands, and compared with what plays.

`FilterGraph`. A link holds what is in the pin's `data` and whether it was requested; the
run queue is `g.pending`, notifications of other threads are a list and a flag, as in
the code. Each filter's `process` is one operator, from its state to the next. The
packets are numbers and a packet decodes to the frame of the same number; the decoder
holds back `Delay` of them until it is drained. A file may be a timeline with segments,
at whose borders the decoder is drained and reinitialised.

## Runs

| Run | Instance | Shows |
|---|---|---|
| `dispatch` | 2 clients, 1 target, one kind of callback; one client makes two calls, the other threads one | `TypeOK`, `ExclusiveAccess`, `SyncItemAlive`, `NoLostWakeup`, refinement of `CoreAccess`; `CallsReturn`: locks are granted, synchronous runs return, interrupts end the wait |
| `thread_pool` | 3 workers, 4 items, minimum 1, maximum 3 | `NoIdleWorker`: no item is left next to a sleeping worker; `WorkAccounted`: the counters are right, there is a thread for each item as long as the pool may grow, and none is left without any; `WorkDone`: all are done, and the pool can be destroyed |
| `client_events` | ring of 2 entries, 2 requests, 2 event ids, 3 events sent or other changes | `RepliesFit`: reserved replies always fit; refinement of `EventFeed`, overflows are reported; `NoMissedEvent`, `EventsTaken`: everything is taken, destroying ends |
| `properties` | 2 observers, 2 values (one "unavailable"), 2 changes | `UpdatesCounted`; `ChangesKept`: no change is lost, nobody sleeps over one; `UpToDate`: the last value arrives |
| `shutdown` | a strong and a weak handle, one request, one command without a client, queues of 3 | `EndInOrder`: one terminator, the core outlives its users; `RepliesReachHandle`; `ShutdownOnce`; `QuitEnds`: a quit ends everything |
| `audio_output` | 3 samples; pull: 2 planes of 2 samples, requests for 1 or 3; push: buffer of 4, device of 3 in periods of 2, a refused write; 1 pause or reset, all kinds of drivers | `CopiesApart`: no place is read and written at once; `NoCommonSleep`; refinement of `AudioQueue` by both; `NothingCutOff`: what is reported over has been played; `EverythingPlayed`: all is played and the end noticed, but for the wait at the end of `push.c` (below) |
| `demux` | 2 streams with 5 frames each, every second video frame a keyframe, 3 ranges, room for 5 packets ahead and 2 behind, 2 seeks, switches or other requests | `Consistent`: the books and the order of queues and ranges; `CachedWithoutGaps`: a cached range is what the file has between its ends; `SeekRangeHolds`: what is reported seekable is there, and pruning finds what to prune; `ReadInOrder`: the player gets the file from where it sought; `EofAtEnd`, `PacketOrEof`: it is told the end there, and each read is answered |
| `cancel` | 4 objects (core's, demuxer's, its stream's, an external file's), 3 threads with 2, 2 and 1 calls, any links at the start | `AliveWhenUsed`, `MirrorsAgree`: slaves, callbacks and pipes show the state of what they are attached to; `CallsEnd` |
| `playback` | a playlist file that contains one good file, a broken one, one more to load; 3 sets of options (prefetch; endless loop and idle; keep-open with external files), 2 commands | `DemuxersOwned`: each demuxer has exactly one who frees it; `FileAsAsked`: what plays is what the entry says, and was not aborted for another's sake; `AskedIsNext`: what a command asked for is neither skipped nor repeated; `PlaybackStops` |
| `filters` | 4 packets, a decoder that keeps back 2, with and without segments, a filter that may fail or that converts, 1 seek | `FramesInOrder`: each frame once, in order; `EndArrives`: and in the end the end of the file |
| `property_alive`, `playback_seek` | as `properties`; as `playback`, with a seek when a file is over | expected violations, see Findings |

Why the bounds are enough to be of interest. Two clients are the least with which a lock
holder, a second locker and the target meet; a second call by one of them lets it call
while it holds the lock, and come back after it. Four items for three workers make the
pool grow to its limit and queue beyond it. A ring of two entries is filled by two
reservations alone, wraps around, and overflows. Two changes are what it takes for a
property to change while its update is being fetched. In `Shutdown`, requests can be in
the dispatch queue, on a worker, or finished when their handle is destroyed. Three samples
through rings of two wrap around, and requests for three meet rings that hold less; two
planes are the least that can get out of step. A device with periods of two and an odd
number of samples leaves a rest that only the end flushes. With two seeks a range is left
and come back to, by seeking into it or by reading up to it, so ranges are joined; five
packets fill the forward limit before the file ends, a third range makes the oldest
one go, and with room for two packets behind the reader, groups of two frames are pruned
in part and whole while the ranges they are in are still read, left or joined. The calls of `Cancel` are few, but start from every tree; more calls only repeat
shapes that are initial states. Two commands can meet every wait of the core, in both
orders. Four packets are more than the decoder keeps, and have two borders of segments.

Threads stop calling when their bounds (`MaxCalls`, `MaxSends`, `MaxChanges`,
`MaxCommands`, `MaxOps`, `MaxSeeks`, `MaxFaults`) are used up, and playback ends, so the
runs allow deadlock; that nobody is left waiting is what the liveness properties say.

Fairness. Steps that a thread takes by itself once it has been woken are weakly fair, as
each thread is scheduled in the end. Threads need not start calls; timeouts need not
come, except where waiting for them is what the code does (`CoreWakes`, as long as there
is a timeout). In `Dispatch`, the target returns to the queue again and again because
the playloop does; callbacks end. In `ThreadPool`, work ends. In `Shutdown`, a command
only has to end when it has been cancelled, and a handle only has to be destroyed by a
user who has been told to, or has called `mpv_terminate_destroy`. In `PullOutput`, a
device that runs goes on calling, and the player goes on when it is awake and has
samples. In `PushOutput`, the device plays what it has unless paused, the thread runs
when woken, and a time that was set passes. In `DemuxCache`, the demuxer thread runs,
reading returns, and a player that has been woken looks again; the timeouts with which it
also looks are not assumed to come, so `PacketOrEof` is about the wakeups. In `Playback`,
the core runs, users answer hooks, and opening or closing ends once it was cancelled or
forced, which is what cancelling is for; a file that plays need not end by itself
otherwise. In `FilterGraph`, the core runs when it was woken, the audio output takes
frames, the demuxer thread adds packets.

Strong fairness is assumed in four places, each for a step that others can disable again
and again without being able to do so at every instant: `SetNone` of `PullOutput`
(`set_state` polls until no callback is active, and callbacks leave it free for most of
their period), `Unblock` of `PushOutput` (the driver's side, which only needs the lock),
the steps of each thread in `Cancel` (mutexes are not handed past a waiter for ever), and
`AdderEnds` of `Playback` (a worker gets the core's lock: `CallsReturn` of `Dispatch`).

## Findings

Two runs expect a violation of what a comment or an assertion in the code says:

1. `property_alive`: an observer can have two updates in flight; the second one uses it
   after it was unobserved and freed (`PropAlive`, `client.c:1606`).
2. `playback_seek`: a seek while clients handle `on_unload` takes back the end of the
   file after the last place that looks for it; `play_current_file` ends with `stop_play`
   unset, which `loadfile.c:1469` asserts never happens (`EndHasReason`,
   `playloop.c:391`).

Other places where the code does something else than one would expect. The models follow
the code, and the properties are stated so as to allow for them:

- `mp_thread_pool_run` does not refuse work when all threads are busy and there are as
  many as may be (`thread_pool.c:195`): the item is queued.
- A handle whose queue has overflown when the core shuts down may never get
  `MPV_EVENT_SHUTDOWN`; the run has queues with enough room for it (`Capacity`).
- A weak handle is strong while it is being created (`client.c:622`), and may then keep
  the core from ending.
- Underflows of a pull device are never counted: the amount is limited to what is
  buffered before it is compared with it (`pull.c:156`).
- With gapless audio off, a file that exactly fills the output's space never gets a final
  chunk (`audio.c:561`, `975`), so `push.c:379` does not see an end; `EverythingPlayed`
  is about files that get one.
- The thread of `push.c` waits for the end of playback with a timeout only if that is
  greater than 0 (`push.c:396`). If the device has played everything when the time of the
  end is first computed, the delay is 0, the time is now and not before now, and the
  thread sleeps without a timeout with `still_playing` set. Nobody wakes it: `get_eof`
  stays false until a pause, a reset or the closing of the output. An emptied device is
  enough for it; for a driver without `get_delay` (`ao_pcm.c`) it is always so.
  `EverythingPlayed` says that this wait ("at_end") is the only way in which the end of
  playback is missed. All samples have been played then, and a draining player has been
  told before.
- A driver that refuses the final chunk loses it: `push.c:325` drops what was not taken.
- `play()` of `push.c` appends all it is given but returns what fits (`push.c:241`); the
  player only offers more with display synchronisation, which is never active here.
- `demux_block_reading` is to "make readers think there is no new data yet"
  (`demux.c:3016`), but `demux_read_packet_async` (1912) reports the end instead if the
  demuxer has got there, although packets are queued.
- A stream that is at its end and has no packet left does not restrict the range that is
  reported seekable (`update_seek_ranges`, `demux.c:533`), and neither does one that
  pruning has left without a keyframe to seek to (`demux.c:520` takes the other streams'
  starts, and in `534` `MP_NOPTS_VALUE` is the least number): the range is offered, and a seek into it
  finds nothing for that stream. An overflow of the forward limit also marks streams as
  ended. `SeekRangeHolds` and `EofAtEnd` leave these cases out.
- At the end of a stream, `adjust_seek_range_on_packet` (`demux.c:1352`) takes the last
  keyframe for the start of a queue that has none, although `next_prune_target` may
  already be behind that keyframe (`demux.c:1649`). When the queue is pruned on, its start
  stays where nothing is left; the range can then have a start without a packet, which is
  the "invariant needed by pruning" (`demux.c:415`), and the next pruning can find nothing
  to prune (the assert at `demux.c:1632`). `SeekRangeHolds` says that this is the only way
  to get there: `stale` is the history that excepts it.
- A sparse stream may have no packet where two ranges overlap. Joining then drops what the
  reader has not seen of it, and takes the last position of the queue that goes
  (`demux.c:1286`), so that a subtitle can be cached again behind a later one. The runs
  and the proofs of `Consistent` are about files without sparse streams.
- `attempt_range_joining` leaves `reader_head` NULL where it was (`demux.c:1274`): a
  stream whose reader had nothing to read before the joining does not get the packets
  that came with it.
- `mp_set_playlist_entry` (`loadfile.c:1571`) leaves a pending end of the file, so that
  `mp_play_files` may take the entry after the one that was asked for. `AskedIsNext`
  excepts requests that come that late.
- `mp_next_file` ignores `mutate` for the loop counter: asking what to prefetch uses up
  one repetition of the playlist.
- While idle, `loadfile x append-play`, `loadfile y append`, `playlist-remove x` leave
  `current_was_replaced` set, and `y` is played twice.
- If `pthread_create` fails in `start_open`, `open_cancel` is freed and NULL when
  `mp_cancel_set_parent` is called with it.

## Proofs

Each proof module has the inductive invariant of its component as `IInv` (`PoolInv` for the
thread pool, `FiltersInv` for the filters, `DemuxInv` for the cache), a lemma for
what each action (or each group of them) does to it, and the same last steps: `Invariant`
is `Spec => []IInv`, and the properties of the runs follow from it. The theorems are about
the same definitions that the runs check.

| Module | Theorem | States |
|---|---|---|
| `MiscProofs` | `TypeCorrect`, `Exclusive`, `SyncItemsSafe`, `WakeupsKept` | `TypeOK`, `ExclusiveAccess`, `SyncItemAlive`, `NoLostWakeup` |
| | `Refinement` | `ImplementsCoreAccess` |
| | `NoneIdle`, `Accounted` | `NoIdleWorker`, `WorkAccounted` |
| `ClientEventsProofs` | `RepliesHaveRoom`, `WakeupsKept` | `RepliesFit`, `NoMissedEvent` |
| | `Refinement` | `ImplementsEventFeed` |
| `PropertyObserverProofs` | `AllCounted`, `NoChangeLost` | `UpdatesCounted`, `ChangesKept` |
| `ShutdownProofs` | `RepliesArrive`, `EndsInOrder`, `ToldOnce` | `RepliesReachHandle`, `EndInOrder`, `ShutdownOnce` |
| `CancelProofs` | `NoneUsedFreed`, `MirrorsFollow` | `AliveWhenUsed`, `MirrorsAgree` |
| `PlaybackProofs` | `AllOwned`, `PlaysWhatIsAsked`, `AskedComesNext` | `DemuxersOwned`, `FileAsAsked`, `AskedIsNext` |
| `AudioProofs` | `CopyingApart`, `OneAwake`, `EndIsEnd` | `CopiesApart`, `NoCommonSleep`, `NothingCutOff` |
| | `Refinement` | `ImplementsAudioQueue` |
| | `PlaybackInOrder` | `FramesInOrder` |
| | `NoPacketTwice` | `OwedInv`: no packet is on its way twice, or before it was read |
| `DemuxProofs` | `CacheConsistent` | `Consistent`, of files without subtitles |

`MiscProofs`, the dispatch queue. `ExclusiveAccess` is not inductive: the code excludes threads by
`in_process`, `locked` and `lock_requests`, and says nowhere how they relate to what the
threads are doing. `LockInv` says it: `in_process` holds exactly while the target is
inside the call, `locked` exactly while a callback runs or a client holds the lock,
`lock_requests` is the number of clients between the beginning of `mp_dispatch_lock` and
the end of `mp_dispatch_unlock`, and a holder has the target blocked or asleep in the
call. Exclusion follows from that. `SyncInv` adds that the item of each caller is referred
to at most once, from the queue or the running callback, without which the completion of
one reference would not make the other one harmless; `Withdrawal` is what a cancellation
does to the places in the queue. For the wakeups, each step that makes a sleeper's
condition true is shown to broadcast. The refinement maps the user of the target's state
to `User`, and every trip through the loop to one step of `CoreAccess` or a stutter.
Assumed (`DispatchAssumption`): finitely many clients, which are neither the target nor
one of the names `CoreAccess` uses for users, and a bound for each thread.

`MiscProofs`, the thread pool. That no item waits next to a sleeping worker compares two numbers,
items and workers on the way, and a step changes both; what keeps them together is that
the pool's own list of threads is the set of those that exist until the destructor takes
it (`ThreadInv`), and that each waiting item is in the list once and each running one with
one worker (`ItemInv`), so that taking an item takes one off either side. The sharper
`AllAtOnce`, a thread for every item while the pool can still grow, is inductive only
together with these. Assumed: finitely many workers, at least as many as the pool may
have threads, and limits in the order `mp_thread_pool_create` asserts.

`ClientEventsProofs`. Room for replies is a matter of counting, once the reservations are
known to be the outstanding requests. For the wakeups, `need_wakeup` and the callback
are set under one lock and looked at under another, so `WakeInv` says for each place of
the client's thread what must be remembered there if something is pending. The refinement
needs that what is read out of the ring from `first_event` on changes as a queue does:
`Places`, `FeedAppended` and `FeedTaken` go from positions modulo the size to sequences.
Assumed: at least one place in the ring, finitely many requests, which are not event ids.

`PropertyObserverProofs`. `ChangesKept` must survive `gen_property_change_event`, which
goes through a list from `lowest_changed` on, clears marks, starts updates, and may return
in the middle, leaving a new `lowest_changed`. `SearchInv` says what the next search
relies on: an observer before `lowest_changed` is neither changed nor being updated, and a
value that could be returned without fetching is the current one. What the loop collects
is a recursive function of the list (`FetchUpTo`); instead of an induction, the proof
looks at the least place where it would differ from what is claimed. Properties are about
behaviours before an update uses a freed observer, as in the run (`broken`, finding 1).
Assumed: finitely many observers.

`ShutdownProofs`. A handle is in the list of handles exactly while its user is in certain
calls (`HandleInv`), `have_terminator` stands for one user who is on the way to free the
core (`TerminatorInv`), and the commands that run are those `outstanding_async` counts,
which is what `mp_shutdown_clients` waits for (`WorkInv`). That a handle gets
`MPV_EVENT_SHUTDOWN` once follows from its event mask (`EventInv`). Assumed: finitely many
handles and commands; the queues may have any size.

`CancelProofs`. The objects, who owns them, which masters they may get and the number of
threads are arbitrary, and so are the links at the start. `SlaveInv`: an object is in the
list of its parent once, except while its owner is about to put it there. `CallInv`: a
thread uses what it owns, or what is shared. `StackInv`: the locks of a trigger go down
the tree, each level but the topmost is a slave of the one above; what a level still has
to trigger is part of its list, and what it has not to trigger is triggered. That a slave
on the way down is alive follows from the lock of its parent, which its owner needs to
leave; that the locks of two triggers never meet follows from the stacks of the two.
`MirrorsAgree` is then about objects nobody has locked. Assumed (`CancelAssumption`): a
thread links its objects to its own or to shared ones, and shared ones, like
`playback_abort`, have no parent, which is what the callers of
`mp_cancel_set_parent` do; finitely many objects.

`PlaybackProofs`. The playlist at the start, what the entries are (a playlist file may even
contain itself), the options and the number of commands are arbitrary. `place` is where
the core is, or will be once it has waited for the opener. `OpenInv` says what the opener
has: its result is for the URL it was started with, it is coupled to `playback_abort` only
while the core waits for it, and it is not cancelled before something stops the file.
`FileInv` and `StopInv` say for each place whether there is a demuxer, tracks of an
external file, or demuxers that end; `Counted` has one summand for each owner, so that a
demuxer which is handed on moves from one summand to the next. That nothing is left
between files needs more than counting: a worker may add its file whenever the core waits,
and does so only if `stop_play` is unset, so `StopInv` says it stays set from the end on.
A seek after the end unsets it, which is the disagreement that `playback_seek` shows;
`AllOwned` and `PlaysWhatIsAsked` therefore assume options without it
(`\A o \in Options : ~o.over`), as the run `playback` does. `AskedComesNext` holds with it,
too: `AskedInv` says that an entry that was asked for is `current`, and that either
`stop_play` does not advance the playlist, or the entry has taken the place of a removed
one (`replaced`), so that `mp_next_file` gives it itself. That choosing an entry gives one
of the list, or none, is `NextIsOnList`; the removal of an entry is by its place in the
list, not by filtering, which also is what `playlist_unlink` does. Assumed
(`PlaybackAssumption`): the kinds of files and options there are, and that commands only
load entries that are not there at the start.

`AudioProofs`, the output. The rings of `pull.c` have no lock. `RingInv` says how far the
positions of the planes may be apart: `play()` goes from the last plane to the first and
the callback from the first to the last, so the planes behind the writer are `write`
samples ahead of the first one, and those behind the reader `bytes` samples ahead of the
last one. From that, what can be read in the first plane can be read in all, what is free
in the last one is free in all, and two positions less than a ring apart are at different
places of it (`Apart`). `MemInv` says which sample is at which position, `DataInv` that
the callback has copied the same ones of all planes; `CallbackInv` and `ResetInv` that a
reset, which breaks all this for a moment, has waited for the callback. For the
refinement, `QueuedIs` shows the queue to be the last samples that were accepted, so
that accepting and taking are laws about sequences. In `push.c`, `DrainInv` says that a
player who waits in `drain()` has set `final_chunk`, and a thread that sleeps has found
nothing to play; `EndInv` that the time of the end was computed with everything in the
device, that the device is empty when it is "now" or "past", and that it does not count
while the output is paused. Steps of the thread have one
form (`TurnOf`), whatever the driver does. Assumed: at least one plane, sample and
period, a period that fits into the device, and the kinds of drivers there are.

`AudioProofs`, the filters. That what was read is what is on its way (`FramesInOrder`) is
about nine connections, the packets in the decoder and what its wrapper holds back, of
which each step moves one frame; `TransferKeeps`, `FeedGives`, `DecodeWrites` and their
like show that the order survives each move, and `BackLonger` that a packet at the end of
the queue is one at the end of all. It is not inductive without the state of the decoder:
that it asks for a packet only when its output was asked for (`Decoding`), so that a
segment that waits to start has nothing behind it, and above all `Draining`: after an end
the decoder is given no packet that it has to be drained for. Otherwise `read_frame` would
take the end of the file for that of a segment and swallow it, or the decoder, which
remembers that it has told of an end (`eof_flag`), would not tell of the next. This rests
on the demuxer not coming to the end of the file where another segment follows
(`FileEndInv`), which the guard of `DemuxEnds` says. `Failing`: a filter that fails has
nothing on its connections, so that leaving it out loses only the frame at which it
failed; that this frame can be found among those that are owed needs that none is owed
twice (`OwedInv`). A step that takes notifications marks filters in a recursion over the
list of them; `MarkedIs` shows that there is such a function, and `MarkedKeeps` that it
keeps the invariant, both by `AllNumbers`. Assumed (`GraphAssumption`): at least one
packet; segments are numbers, and the filter in the chain is one of the two kinds.

`DemuxProofs`. `Consistent` is inductive almost as it stands, but for two things. Streams
that are not selected have nothing in the cache, and the readers' counters are right for
the range that becomes the current one, also where a function is half through (`Stored`
holds on the way, when the readers are not yet `Served`). And that a packet which is
appended is behind all others of its queue depends on where the demuxer is: `Follows` says
that each stream either reads again what it has (`refreshing`, and then
`demux_add_packet` drops what is not new), or has nothing in the current range, or has got
nothing from behind `fpos`; the last case breaks while the demuxer is to seek, so it is
left out as long as `in->seeking` is set or the thread is about to call the demuxer's
seek (`Fine`). With that, joining is right because the packets it keeps of the next range
are those behind the last one of the current range, and pruning because it stops before
the reader and only takes what `next_prune_target` has been moved to. There is one lemma
for each function of `demux.c`, from `Sound` to `Sound`, and one for each action. Loops
over lists (`mark_stream_eof` for each stream, `prune_old_packets`, the sums of
`check_queue_consistency`) are recursive functions, which exist by `Recursion`, and about
which facts are proved by `AllNumbers`. Assumed (`DemuxAssumption`): the kinds of what is
in the file and in the limits, and that requests name streams there are; and for the
theorem `NoSubtitles`, as in the run: a stream that is not waited for lets ranges be joined
without a packet in common, after which one can be cached twice (see Findings).

What the proofs rest on beyond this: the library's theorems on finite sets, sequences and
well-founded orders.

Only model-checked: liveness everywhere, as it needs fairness and `ENABLED`, and three
properties of `DemuxCache`. `CachedWithoutGaps` and `ReadInOrder` depend on where the
demuxer's own seek leads in a file, which need not store its streams in the order of their
times, and on how far the end of a range is from the last packets of its streams.
`SeekRangeHolds` is about files whose streams begin at the same time: one that begins
later has no keyframe at the start of a range from which others were pruned. The run
checks them for such a file that is interleaved. A claim about all
inputs of a recursion needs induction over data, for which the library's theorems take an
operator as parameter, and these provers cannot instantiate one. Where a proof meets such
a claim, the recursion is a function, and the least counterexample takes the place of the
induction (`FetchUpTo`), or the claim is about a set of numbers (`AllNumbers`).

## Plan

What is left, in this order:

1. Proofs: `CachedWithoutGaps` and `ReadInOrder` of `DemuxCache`, for files that are
   interleaved, from `DemuxInv`.
2. An abstract specification of the demuxer layer (a file with a reader's position and a
   seekable interval) that `DemuxCache` implements, in place of `ReadInOrder` and
   `EofAtEnd`.
3. `mp_waiter` and `mp_rendezvous`, and hooks as part of `Shutdown`.

## Not modelled

Signal processing, parsing of files, options and commands, and the glue to FFmpeg and to
audio and system APIs: sequential code whose correctness is about data, or code whose
counterpart is not in the repository. This is most of the source by its length. Memory is
only modelled where its lifetime depends on the order of steps of several threads. Of the
parts that are modelled, the following is left out:

- `Shutdown`: hooks, the initialisation of scripts, and the command line player, which
  owns its core itself.
- `DemuxCache`: use without a thread, the seekable cache switched off, streams whose dts
  or positions do not grow, attached pictures, closed captions, metadata and tags, cue
  sheets, opening, the index, the contents of packets; all packets have one size. The
  demuxer is not cancelled while it is in use, after which packets and results are dropped
  (`demux.c:1381`, `1504`, `1569`).
- `Cancel`: the event object of Windows, a wait with a negative timeout (no caller has
  one), resets other than those of the core's own object; `mp_waiter`, `mp_rendezvous`.
- `Playback`: shuffling, `--loop-file` and A-B loops, `--stream-dump`, hooks that rename
  the file or answer a failed one, options per file and changes of options at run time,
  loading an entry under a name that is in use, `playlist-pos`, `loadlist`, moving an
  entry other than to the end. Files without streams are modelled, but not part of the
  instance. The opener's result and `open_done` are set in one step, and
  `idle_loop`'s own first wakeup, which only repeats the loop, is left out.
- `FilterGraph`: connecting, disconnecting and destroying filters while they run,
  automatic conversion, lavfi graphs, a decoder that refuses a packet, cover art, frame
  dropping, clipping, the search for an output format; the temporary end that a cache
  tells is modelled for files without segments. A packet that arrives after such an end
  may stay queued until the player asks again, and `EndArrives` allows for it.
- `PropertyObserver`: the time before `mpv_initialize`, when properties have no value yet
  (`mpctx->initialized`, `client.c:1591`).
- `PushOutput`, `PullOutput`: delays and times other than the end's, volume, `ao_control`,
  the choice among drivers, reloading.
