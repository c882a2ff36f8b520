# mpv in TLA+

Specifications of the parts of mpv where threads meet: the queues, buffers,
locks and event loops between the player core, the demuxer, the decoders, the
outputs and the users of libmpv. They are model-checked with TLC on small
instances; for eight of them theorems about all instances are proved with TLAPS. Every module is
a translation of the C code; `PROJECT.json` maps each definition to its lines.

## The system

mpv is one process with many threads. The *core thread* (player/playloop.c)
runs commands, moves frames between filters and outputs, and sleeps in
`mp_wait_events()` until something calls `mp_wakeup_core()`, which is
`mp_dispatch_interrupt()` on its dispatch queue. Around it:

| thread | code | talks to the core through |
|---|---|---|
| clients (libmpv users, scripts) | player/client.c | dispatch queue; ring buffer of events, observed properties |
| VO thread | video/out/vo.c | one queued frame, `in->lock`, a dispatch queue, wakeups |
| AO thread or a driver's callback | audio/out/buffer.c | an async queue, `buffer_state.lock`, wakeups |
| decoder threads | filters/f_decoder_wrapper.c | dispatch queue, filter graph, async queue |
| demuxer threads | demux/demux.c | packet queues, `demux_internal.lock`, wakeups |
| workers | misc/thread_pool.c | work list |
| openers, I/O | player/loadfile.c, stream/ | `mp_cancel` objects |

### Inventory

| component | state | operations | hard | correct if |
|---|---|---|---|---|
| **dispatch queue** misc/dispatch.c | items, the lock and its requests, one condition variable, `interrupted`, `wait` | enqueue, notify, cancel, run, lock, unlock, interrupt, process | one condition variable for all; the mutex is dropped around callbacks and the wakeup function; the item of a synchronous call is on the caller's stack | lock holder, callback and target exclude each other; all calls return; notifications are merged but not lost |
| **thread pool** misc/thread_pool.c | threads, busy count, work list | queue, run, destroy; workers begin, wait, work, time out, retire | one signal per item; timeouts race with new work; thread creation fails | work is done once, in order, and never left without a thread |
| **rendezvous** misc/rendezvous.c | list of waiters of the process | call | a fast thread calls again before a slow one has returned | the calls of two threads are paired up |
| **cancel** misc/thread_tools.c | flag, callback, descriptor, tree of slaves | trigger, reset, wait, set_parent, set_cb, get_fd, destroy | locks taken down the tree, links changed from below | a trigger reaches all slaves; no deadlock; no slave is used after it is freed |
| **filter runner** filters/filter.c | pending lists (one for other threads), interrupt, wakeup-sent and external flags | run, wakeup, interrupt, pin changes, destroy | only the first wakeup calls back; recursive runs | every promised `process()` happens and the user is told of changed pins |
| **async queue** filters/f_async_queue.c | frames, size, active/reading, two access filters, notifier | process of either side, reset, resume, set_config, filter reset/destroy | the ends are reset separately and asynchronously | a FIFO within its limit that does not stall or leak old frames |
| **video output** video/out/vo.c | queued and current frame, flags, wakeup time, timing | ready, queue, render, wait, redraw, seek, pause, reconfig, destroy | reads a flag under the lock, acts on it later; several reasons to sleep | each frame drawn as often as due, none after a reset; no one sleeps for ever |
| **audio buffer** audio/out/buffer.c | playing, paused, streaming, prepause, the driver's state | start, reset, pause, drain, write, read | driver calls outside the lock; emulated pausing; EOF, underrun and new audio in any order | audio stays in step, ends are reported, the device follows |
| **client API** player/client.c | ring buffer, masks, observed properties with three timestamps, hooks, references | send, reply, observe, change, wait_event, hooks, wakeup, destroy, shutdown | the core reads properties with the lock dropped; change events are made on demand; overflow | nothing is missed, no wakeup is lost, replies fit, memory is freed once |
| **client handles** player/client.c, command.c | list of handles, weak ones, the terminator, outstanding commands | create, weaken, destroy, terminate, asynchronous commands, shutdown of the core | the core waits for handles, handles for the core, commands for both | one thread destroys the core, after everybody else; the end never gets stuck |
| **demuxer layer** demux/demux.c | cached ranges with a packet queue per stream, readers, seek and EOF flags | read, dequeue, seek (low-level, cached, refresh), select tracks, prune, join ranges, block | the lock is dropped around the file format: seeks and switches come in between; flags outlive the queues they were about | decoders get every packet once and in order, EOF only at the end, and are called back |
| **option caches** options/m_config_core.c | shadow options; timestamps of the whole, groups and caches; listeners | write, update, get_next_changed | timestamp read outside the lock, forced updates matched by timestamp | a cache with a change to report is at it or notified |
| **render API** video/out/vo_libmpv.c, dr_helper.c | next and current frame, counters of frames and swaps, format, a dispatch queue, images in flight | draw, flip, reconfig, uninit; update, render, report_swap, free; screenshots, images | two threads wait for each other, one without a timeout; the application frees the context under its users | frames are rendered in their format, no wait is for what will not come, the context goes last |
| decoder wrapper filters/f_decoder_wrapper.c | decoder thread, its dispatch queue, output queue | lock, reset, thread loop | composition of three other parts | *planned* |
| logging common/msg.c | ring buffers, a file thread | write, read, set log file | blocking writers | *planned* |
| playback, commands, playlist, input, streams | state of the core thread | | mostly sequential | partly planned |
| drivers, GPU code, filters, scripts, utilities | | | system calls, numerics | not planned |

`PROJECT.json` lists the components with the reasons for what is left out, and
the hazards at their lines.

## Modules

A step is, in all modules, one critical section of the lock concerned, or one
call made without it (a driver's function, a callback). Condition variables are
sets of waiting threads, or a flag and a sleeping position where one thread
waits; spurious wakeups are steps where the code has to stand them. A timed
wait may end at any time unless a clock is modelled. Names of variables and
actions are those of the code. A definition commented "mutant of X" is a
plausible bug in X and no part of the specification.

**Dispatch**, **ExclusiveAccess**, **Subsequences** — misc/dispatch.c. The
target either sleeps in `mp_dispatch_queue_process()` or polls and is woken by
the wakeup function (`wakeup_fn`, chosen initially). `tpc` and `pc[c]` are the
positions of the target and the clients; `tpc = "loop"` is the target between
getting the mutex and its next decision, when nobody else can run.
`ExclusiveAccess` is what dispatch.h promises, without waiters, counters or
condition variables, and `Dispatch` implements it: `pending` is the queue,
`active` the parties that may touch the target's state.

**ThreadPool** — misc/thread_pool.c. `state[t]` is the position of a worker; a
step of a worker goes from getting the mutex to waiting, unlocking or exiting.
`submitted` and `started` are histories.

**Rendezvous** — misc/rendezvous.c. The value a thread passes in its n-th call
with a tag is n, so that the property can tell calls apart.

**Cancel** — mp_cancel in misc/thread_tools.c. Each thread has a stack of
activities with the locks they hold, since a trigger holds the object's lock
while it triggers the slaves and a destructor destroys the links first. The
wakeup pipe is modelled by whether it is readable. `mp_waiter` is left out.

**FilterRunner** — the runner in filters/filter.c. What filters do is left
open: a `process()` may change any pin next to it. The pins' own bookkeeping of
data and requests is reduced to whose turn it is.

**AsyncQueue** — filters/f_async_queue.c with the pins of its two access
filters and the graph steps next to them. Frames are numbered; byte and time
limits, which act like the sample limit, are left out.

**VideoOut** — the VO thread, the calls of the core and the frame exchange in
video/out/vo.c, with a clock. Left out: the vsync estimation, drivers with
capability flags of their own, window events, screenshots.

**AudioBuffer** — audio/out/buffer.c with one of several kinds of drivers
(`driver`, chosen initially): push or pull, with or without `set_pause()` and
`reset()`, failing, untimed, streaming silence, stopping at EOF. Samples are
counted. Left out: volume and format conversion, hotplug, encoding.

**ClientEvents** — one handle of player/client.c with the parts of the core
that use it: the ring buffer, observed properties from change to event, hooks,
replies, `mpv_wakeup()`, `mpv_destroy()` and the shutdown loop. `core.pc =
"pass"` means that the core holds the handle's lock. Left out: several handles,
log messages, event masks set by the client, values of other formats.

**ClientLifetime** — all handles of player/client.c, with the worker threads
that run asynchronous commands (player/command.c) and the core thread, from the
creation of handles to the destruction of the core. `pc[h]` is the position of
the thread that destroys `h`, `core` that of the core thread. Events, names and
the initialisation of the player are left out.

**DemuxCache**, **Demux** — demux/demux.c. The cache is a set of operators on
one record `d` (`struct demux_internal`), since all of it changes under one
lock; the threads are in `Demux`. The demuxer thread runs from one blocking
call of the file format to the next in one step. A packet is its position in the
file, which is its pts as well; where the code compares pointers to packets, a position
stands for the copy of the packet in the range it is looked for in (`ReaderAt`, `Prunable`).
Seeks are exact (`SEEK_HR`) or not. `goal`, `stale`, `overran`, `ignored` and `unheard` are
histories that the properties need. What is left out is in `PROJECT.json`: above
all backward demuxing, `demux_flush()`, unseekable files and the disk cache.

**ConfigCache** — m_config_shadow and m_config_cache of options/m_config_core.c.
Options are numbers in the order in which an update passes them. `due` and
`raced` are histories; `Race` describes the two cases of (a) and (b) below.

**RenderApi** — video/out/vo_libmpv.c with video/out/dr_helper.c: the VO thread as
the driver's functions see it, the render thread of the application, and as much of
the player as creates and ends the VO and its decoder. `vo_thread`, `user`, `player`
and `decoder` are their positions with what each holds; `signalled` is the update
callback. The counters of presented frames and swaps are kept as the comparisons made
with them (`user.waits`, `ctx.expects`, `ctx.reports`), which makes the module finite
without a bound. An image that is in flight and that nobody holds is a request to free
it in the queue.

`MC*.tla` give the constants their values. They replace no definition. Four of
them hold several components that do not interact (`MCTools`: Rendezvous,
ThreadPool, FilterRunner; `MCDispatch`: Dispatch, ConfigCache; `MCCancel`:
Cancel, ClientLifetime; `MCVideoOut`: VideoOut, RenderApi): `part` is chosen initially, and only that component
moves. Their properties are conjunctions of the modules' own.

## Runs

| run | question | bounds, and why they are enough |
|---|---|---|
| `dispatch` | do lock, callbacks and target exclude each other, in submission order; does every call return; is it safe to destroy the queue as dispatch.h says. And is any cache of options left with a change it does not know of | 2 clients, 2 calls each, 1 notification, waits of 0 or 1: two lockers, a locker and a synchronous call, and a canceller; the target is a third thread. Caches: 2, one read stepwise, 3 options in 2 groups, one with forced updates, 3 writes: a write before, between and after the check and the lock. The safety parts are proved for any number |
| `tools` | *rendezvous:* are the calls of two threads paired up. *Pool:* is accepted work done, once and in order, with workers that retire, fail to start, or are joined. *Runner:* is every due filter processed, the urgent first; is the user told | 3 threads, 2 tags with a common member, 3 calls each. 3 workers, min 1, max 3, 4 pieces of work: more work than workers, two simultaneous timeouts above the minimum. 1 normal and 1 urgent filter, 2 external pins, 3 changes, 2 wakeups, 1 interrupt: a recursive run through one pin that changes both (a change is hidden, see below), and one cut short by the interrupt. The safety parts are proved for any number |
| `async_queue` | is it a bounded FIFO without stale frames that never stalls | 3 frames (one without samples), limits of 2 frames or 3 samples, 1 queue reset, 1 reset or destruction of each filter, 1 change of configuration, in all orders. The safety parts are proved for any number |
| `video_out` | is every frame drawn as often as due and none after a reset; does anybody sleep for ever. And with the render API: is a frame rendered in its format, is the context freed after its last user, does a wait without a timeout end | 2 frames of 3 kinds, time up to 3, 1 other call per behaviour, which may be any. The second frame makes the core wait for the first; vsync counts of 0 and 2 are below and above the single case. Render API: 2 formats, 1 image (an empty frame takes its turn with it), otherwise unbounded; proved for any number of both; so are the safety parts of the VO thread, for any frames, commands and times |
| `vo_done_redraw` | *violation:* is a promised wakeup kept when a redraw comes | 1 frame, 2 calls |
| `audio_buffer` | does audio stay in step and the device do what it is told; are ends reported; do calls return | 6 kinds of drivers, 2 frames of 2 samples, a device of 3 samples (so that a frame is split), 3 calls. The safety parts are proved for any drivers, sizes and calls |
| `ao_pull_stops` | *violation:* does a device that stops by itself start again | the stopping driver only, 5 calls |
| `cancel` | does a trigger reach everything, without deadlock or a use of freed slaves. And is the core of the player destroyed once, after its last user, without getting stuck | 3 objects in a chain or a fork, 2 threads, 5 calls. Lifetime: 3 handles (a terminator, another strong one and a weak one), commands of one handle and of a key, player or library. The safety parts are proved for any number |
| `client` | is anything missed, is memory freed once and replies guaranteed, do hooks come after older changes, do wakeup and destroy work | ring buffer of 2, 2 properties (one with a value, one resized by the VO thread), 2 observers, 4 steps of the environment, which keeps to one of three sets of operations (`Uses`) |
| `client_stale` | *violation:* is a property's value current when its timestamp says so | 1 property, 4 steps |
| `demux` | do decoders get all packets in order and EOF only at the end, are ranges sound, is every waiting decoder called back | a file of 9 packets of 3 streams; seeks to any of 3 places, exact or not; 2 ranges. One of three uses (`MCUses`): 2 seeks with all streams and room for 8 packets forward and backward; 2 seeks with video and audio, which is deselected at some time; 1 seek with video, to which audio is added, with room for 4 packets forward and 2 backward. In the first two an older range is resumed behind its end, ranges are joined with packets of both streams in both, also while a decoder waits, and a range is freed since there are too many; in the third the queues overflow, and the current and an older range are pruned |
| `demux_request_lost` | *violation:* does the thread sleep while a decoder waits | the third use, with a subtitle track as well |

What the properties say is in the comments above them. Deadlock is not checked:
each bound lets the system stop, and the liveness properties (`Served`,
`AllDone`, `CallsReturn`) and the invariants `Ends` and `Answered` (a part of `Sound`) say that nobody who
waits for something is left. They have the form *waits ~> no longer waits*; `Served`
of Dispatch has one such formula for each place where a call waits.

In `client` the environment keeps to one of three sets of operations because two
combinations are known not to hold (see below, 2 and 3), and because all of
them at once are too many states. The VO thread's property has no value there
(`MPV_FORMAT_NONE`) for the same reason (1).

### Fairness

Threads that can run are run: weak fairness of each thread's steps. Timed waits
end, and the clock of `VideoOut` ticks. The clients of `Dispatch` have strong
fairness, because they compete with the target and with each other for one mutex
that becomes free again and again, and that no thread is refused for ever.
Nothing is assumed of the environment: no call is ever made, no data fed
and no trigger pulled because of fairness. In `Rendezvous` only the return from
the wait is fair, not the call of the other thread.

The fairness of `Demux` is weak fairness of the demuxer thread, of decoders that
were woken up and of calls under way, written out (`Busy`), since TLC is slow at
finding out whether steps of that size are enabled. A decoder that has packets
may leave them for ever, because the filters behind it may be full.

`ClientLifetime`, `ConfigCache` and `RenderApi` need no fairness: `Ends` says that somebody can
go on until the core is destroyed (`Onward`; it uses that an aborted command ends
and that the user of a handle destroys it after `MPV_EVENT_SHUTDOWN`, as client.h
demands), `Told` that a cache which has a change to report is notified or in its update, and
`Answered` that each wait of `RenderApi` is for a thread which can go on by itself or
was told to (the other waits have timeouts, and no application has to render).

## Proofs

Eight modules hold theorems, each about the module in its name: `DispatchProofs`,
`AsyncQueueProofs`, `AudioBufferProofs`, `ClientEventsProofs`, `ToolsProofs` (the three
components of `MCTools`), `CancelProofs` (the two of `MCCancel`), `VideoOutProofs` (the two of `MCVideoOut`) and
`ConfigCacheProofs` (the second one of `MCDispatch`). Where a run joins components that do not
interact, the theorems are about the joined specification (`AllSpec`, `ToolsSpec`), what the run
checks. (`Invariance` of a single component and the three parts of `ApiSound` are about its own
`Spec`.) They hold for every number of threads, callbacks, calls, frames,
samples, drivers, properties, caches, handles, tags, workers, filters, objects, commands, times, formats and images; the assumptions on constants are those named in the
modules (`DispatchAssumption`, `AsyncQueueAssumption`, `AudioBufferAssumption`,
`ClientEventsAssumption`, `RendezvousAssumption`, `ThreadPoolAssumption`,
`FilterRunnerAssumption`, `CancelAssumption`, `VideoOutAssumption`, `Assumption`), which TLC evaluates for
the instances of the runs. Two theorems have hypotheses of their own (`AllReceived`
and `OnlyThenStale`, below).

| theorem | says of the code |
|---|---|
| Dispatch `MutualExclusion`, `LockAssertions`, `TypeCorrect` | a lock holder is alone; the assertions on `locked` hold |
| Dispatch `NoDangling` | the item on the stack of `mp_dispatch_run()` is in the queue or run exactly as long as its call; the destructor's assertions hold |
| Dispatch `Refinement` | misc/dispatch.c implements `ExclusiveAccess` |
| AsyncQueue `LimitKept` | `samples_size` is the sum over the queue; the limit is passed by one frame at most |
| AsyncQueue `FifoKept` | no frame overtakes another, is doubled, or lost without a reset |
| AsyncQueue `ResetComplete` | a resume after a complete reset finds no old frame |
| AudioBuffer `TypesKept`, `PauseKeepsSync` | sizes of partial reads and writes; what a pause discards is played as silence |
| AudioBuffer `EndsAreTold` | every end of playback is told to the core |
| AudioBuffer `DeviceObeys` | between calls the device does what was asked for last |
| ClientEvents `TypesKept`, `Referenced` | replies find their place in the ring buffer; references are exact, nobody uses what is freed |
| ClientEvents `HooksWait` | a hook comes after the changes that precede it |
| ClientEvents `AllReceived` | a client that sleeps has been told everything, unless one of two steps is taken |
| ClientEvents `OnlyThenStale` | one of them is the only way to a stale value that counts as current |
| Tools `CallsPaired` | the calls of two threads with one tag are paired up |
| Tools `PoolServes` | accepted work runs in order and once, and has a worker that gets to it |
| Tools `ThreadsKept` | workers that time out leave `min_threads` |
| Tools `TypesKept` | the fields of the three; no filter is pending twice, or after it was destroyed |
| Tools `NothingLeftLying` | as `PoolServes`; and the user of a filter graph is told of every change of any pin that filter.c:152 does not hide, also over recursive and interrupted runs; which it hides |
| ConfigCache `NothingMissed` | a cache with a change to report is notified or at it |
| Cancel `TypesKept` | nobody locks, triggers or links an object that was destroyed; no command belongs to a client that is gone |
| Cancel `TriggersReach` | when the lock is free, the last trigger has reached descriptor, callback and slaves |
| ClientLifetime `CoreOutlivesUsers` | the core is destroyed once, after its last user |
| ClientLifetime `NeverStuck` | until then, the guard of some step of its own is true |
| VideoOut `TypesKept` | the assertion of `vo_queue_frame()` holds |
| VideoOut `VsyncsDrawn` | each frame is drawn or dropped for its vsyncs before the next one is |
| VideoOut `NoneStale` | nothing queued before a reset is drawn after it |
| RenderApi `ApiSound` (and its three parts) | the context outlives its users, frames have the renderer's format, no wait is forgotten |

*Dispatch.* That a lock holder is alone (`MutualExclusion`) is not inductive:
the lock is granted to a target that is trapped in the function, and the target
leaves it when it sees no request. So the invariant `IInv` adds that
`lock_requests` counts exactly the clients in `mp_dispatch_lock()` or holding
the lock (`RequestsCounted`), that `locked` and `locked_explicit` agree with who
holds it (`LockedAgrees`, which also is what the code's assertions say), that
`in_process` agrees with the target's position, and that a holder keeps the
target there (`HolderTraps`). `TypeStep`, `CountStep` and `LockStep` show that
each step preserves these three layers, each from the one before. `Refinement`
then maps each step to a step of `ExclusiveAccess` or to a stuttering step;
`AppendRefines` and `GrantRefines` are its two lemmas of substance.

`NoDangling` counts items, and a count is hard to reason about when the queue shifts.
`Once` says the same with positions: no two items of one caller, none in the queue while
its item runs, and one somewhere exactly while it waits; `OnceCounts` goes back to the
counts. That the destructor's assertions hold needs more than the order of the exit
callback: `ExitIsLast` says that whoever ends the target is the last client left, that
its item is the last of the queue, and that nothing is queued once `terminate` is set.

*Async queue.* `InOrder` speaks of the whole path (`Pipeline`: the output pin, the queue,
the input pin) and of the numbers that are missing from it. For the proof it is taken
apart into sorted parts that lie below each other and a set that is accounted for
(`OrderOfParts`), so that each step moves one frame from one part to the next.
`NoStaleFrame` needs `ResetDone`: between reset and resume, a filter that has been reset
holds no frame and the input filter asks for none (a request that is left on the output
pin is harmless). `PinsAgree` says that no pin has both a frame and a request. The sum of
sample counts is the cardinality of a union of pairs (`TotalSamples`), since finite sets
have an induction theorem that can be cited and sums by a fold have none.

*Audio buffer.* `Owes` is `SyncKept` with the reason why it holds: silence is owed
only while the device is empty. `DeviceFollows` speaks of moments without a call under way;
in between, the driver's function is still to be called, after the lock was released.
`PullAgrees` says, for each such function, what `streaming` and `hw_paused` promise of the
device once it has been called; `PushAgrees` that a push device which is not fed is empty;
`CoreOK` that at most the first step left of a call is one of the driver. A driver that
stops by itself is excluded, in the property as well: it breaks the promise (3 below).

*Client events.* The invariant has fifteen parts, each with a lemma that rests on earlier parts:
the shape of the state (`Typed`); entries of the ring buffer are reserved for exactly the
requests under way (`RingOK`) and asynchronous work is counted (`AsyncOK`), so that
`mpv_destroy()` waits for the right things (`LifeOK`); identifiers are listed in order
(`ListOK`), which keeps the core's place in the list valid while it reads a value without
the lock (`PassOK`); `ret_ts <= value_ts <= change_ts` (`TimesOK`); references (`RefsOK`).
`HooksWait` needs `HookOK`: when a hook is first seen, every property whose change
precedes it is returned or flagged, and `hook_pending` remembers that this was done.
`AllReceived` needs the chain from a change to the client's sleep: a value out of date
will be looked at, because its handle has pending changes or the core has not passed it
(`WorkOK`), with pending changes the core does not go to sleep (`AwakeOK`), without
`new_events` nothing is left to return (`SeenOK`), what counts as current is current
(`ValuesOK`, `FreshOK`), and a client that nobody is about to wake waits for something that
is to come (`WakeOK`). Its hypotheses leave out two steps, and after either the code may really
lose something. `SlipsIn`: the VO thread changes a property that the core has read and not yet
stored, and the old value is marked as current (1 below); `OnlyThenStale` says that this is the only
way to it. `Withdraws`: another thread unobserves a property while the client waits with a hook
held back, and the client is not woken up (below, client.c:1592). The other thirteen parts
hold whatever happens. In `client` neither step can occur, by its sets of operations.

*Rendezvous.* `CallsPaired` says that the n-th call returns the value of the
other thread's n-th call. The invariant adds who is ahead: a thread in the list
has called exactly once more than the other, any other thread at most as often,
and a waiter keeps the value of its own call until it is paired.

*Thread pool.* `WorkAttended` (while a worker sleeps, as many workers are awake as there
are pieces of work in the queue; before `max_threads` is reached, there is a thread for each
piece, queued or running) is inductive with two facts: `busy_threads` counts the workers that run
a work function (`Counted`), and `pool->threads` is exactly the set of workers that exist
until the destructor takes it, after which nobody sleeps again (`Kept`). A worker that
times out retires only if others remain, which is arithmetic with cardinalities
(`Count`, `RetiresSurplus`); the same arithmetic shows `MinKept`.

*Filter runner.* The lists hold a filter once (`Lists`): each operator that makes one
(`AddAll` for the loops of `add_pending()`, `Removed`, `Others`) has a lemma that says so
and what the list holds. That the user is told (`UserTold`) needs `ToldOrPolls`: a change that
is not hidden has been reported to the user, is remembered in `external_pending`, or is of a
pin that the user still polls before it sleeps; a run that reports to the user is started only
when all pins have been polled (`RunKept`). In a `process()` that changes several pins the
first one tells, unless the root filter, which stands for the user, is pending already. A
change that comes while it is pending and nothing is to be reported is `hidden`
(filter.c:152, below). How this can be is the second half of `UserTold`: as long as nothing
is interrupted a run ends with an empty list, so the root can be pending unreported only in a
recursive run, behind the change of the pin of that run. Both the change of one pin
hidden by another and the user who sleeps over it are reached in `tools`.

*Option caches.* `NothingMissed` says that a cache with a change to report is
notified or in its update (`Told`). It is not inductive, as it does not say that
the update will come by. The invariant adds `Coming`: the group of an option that
is left to report is newer than the cache's copy of it, and the option lies ahead
of the update under way (`Ahead`; for a forced write the update looks for its very
timestamp), or the cache's timestamp is old, so that the next update starts from
the first option (`Again`) and a notification is pending for that. `Timed` and
`Rests` say how timestamps and positions are ordered. `WriteStep`, `CheckStep` and
`ReportStep` are the cases of substance. The two races described below (a, b) are
excluded by the history `raced`: without it the theorem is false.

*Cancel.* A thread has a stack of what it is about to do, so the invariant is about the places of
a stack (`ThreadOK`). `Shape`: below a trigger of a slave is the trigger of its parent, and
below the removal of a link what it makes room for. `Placed`: a trigger under way holds the lock of
its object, so the slaves it has yet to visit stay its slaves, for their
removal needs that lock; what is linked or destroyed is linked to nothing else. `Reaches`: each slave of
such an object is triggered, was reset since, is still to be visited, or is what the thread
locks next. From there `TriggerComplete` follows when the lock is given up. `OtherThread` is the lemma on
interference: what a thread does to the tree disturbs no other, because an object
has one owner who links and destroys it, and everybody who uses an object is its owner or holds the
lock of its parent. This needs an assumption that the first versions of the model lacked: a
parent is shared or has the owner of its slaves (in `CancelAssumption`; thread_tools.h:74: "the parent
mp_cancel must remain valid until the slave is manually removed or destroyed").

*Client handles.* `CoreOutlivesUsers` says that the core is destroyed by one
thread, when all other handles and commands are gone, and that this thread finds
it alive when it locks it. The invariant adds that the right to destroy it is given
away once and not in the command line player (`Reserved`), that whoever has yet to
lock the core has not asked it to stop (`AskedLast`), and that the core thread
exits only when no handle and no command is left (`ExitsLast`). `NeverStuck` writes the guards of
all steps that go on by themselves out (`GoesOn`), and needs three parts more: the thread that has the
right to destroy the core is on its way to it (`OnItsWay`); the core sleeps only after it told the
clients, with a deadline or after all commands were aborted, and is woken up if it could exit by then
(`SleepsWell`); and whoever makes a weak handle waits for that one handle (`Weakened`).

*Video output.* `VsyncsKept` counts what was drawn, while the code keeps no such count, so the
invariant relates the two (`FramesCounted`): the queued frame is the latest and was never drawn, the current
one was drawn as often as its `num_vsyncs` went down, and whatever else was queued since the last
reset is done. A frame is queued only once the current one has no vsync left, because what
`vo_is_ready_for_frame()` found is still true when the core comes back (`CoreWaits`): the VO thread in
between only makes room. A frame from before the reset has been made one without repetitions, or the next drawing would be of it
(`DrawsDue`, which gives `NoneStale` as well).

*Render API.* The parts `ContextKept`, `RightFormat` and `Answered` of `Sound` need to know who has the
context: `VOAgrees` says that `in_use` is set from the creation of the VO to its
`uninit()`, that the lock is held from there until the queue is interrupted (which is
what the barrier in `mpv_render_context_free()` waits for), and that the player and
the VO thread agree on how far the end of the video has come. `WorkAgrees` says that a
synchronous call in the queue has its caller, and that the decoder holds nothing once
it was stopped; `UserAgrees` that the render thread waits only for a frame it took,
while the VO is about to present or to drop it; `FormatAgrees` that the frames have
the VO's format and so has the renderer, unless it is to be configured again. With
the last reference to an image goes a request to free it, so that none is left when
the barrier is passed (`KeptStep`).

Three lemmas recur. The least element of a set of numbers (`Least`) says what `CHOOSE`
returns: the next property with an event, the length that `read_buffer()` takes. The
lemmas on sequences say what `Append`, `Tail`, `RemoveAt` and `\o` do to a range. And each
operator of a model has a lemma that says, field by field, what it leaves alone; the
steps of `ClientEvents` and `AudioBuffer` are used only through these.

Only model-checked:

- liveness (`Served`, `AllDone`, `CallsReturn` and the other properties that say *leads to*) and the
  part of `Ends` that uses `ENABLED` (the guards in `GoesOn` are those of the actions; the rest is
  `NeverStuck`): TLAPS treats neither fairness nor ENABLED here;
- Demux: most of `DemuxCache` is defined by recursion over queues and ranges, and induction
  over data needs theorems with operator parameters, which the provers cannot instantiate.

## Where the code and its documentation disagree

Each of the first four is a run that TLC finds violated.

1. `client_stale` — player/client.c:1748 marks the value it read without the
   lock with the timestamp of the present. If the VO thread resizes the OSD in
   between (sub/osd.c:300), the old size counts as "not a stale value"
   (client.c:1803) and the client is not told the new one until the next change.
   Changes made on the core thread cannot come in between.
2. `vo_done_redraw` — video/out/vo.c:1192: a redraw takes the place of the
   wakeup that vo.c:816 promises, which had been taken out of the shared state.
3. `ao_pull_stops` — audio/out/buffer.c:283: a pull driver at EOF calls
   `ao_stop_streaming()` outside the lock. If the core's next `ao_start()` comes
   just before, it finds `streaming` still set and does not start the driver,
   which then stops: nothing asks for the new audio (the comment at line 278 says
   that the core will call `start()` again). Or, once that start has been made, `streaming`
   is cleared for a device that runs, and the next pause does not stop it.
4. `demux_request_lost` — demux/demux.c:2853: after the end of the file, selecting
   a track queues a refresh seek but leaves `in->eof` set (line 4240; `queue_seek()`
   clears it). Decoders that ask for packets before the thread executes the seek do
   not set `in->reading`, the thread sleeps after the seek, and they wait until
   somebody else asks (line 2965 promises the wakeup callback).

Seen while modelling, without a run of their own:

- options/m_config_core.c:709, (a): the update reads the timestamp, then locks. A
  write in between to an option that the update has passed in its present group is
  marked as seen with the group (line 692) and never returned, although
  m_config_core.h:103 says of `m_config_cache_get_next_changed()` that it returns
  true "as long as there is a changed option". (b): a forced update (m_option.h:404:
  "Always force an option update") is recognised by its exact timestamp, so it is lost
  if it comes in that gap, or if any other write follows it before the cache looks.
  (c): it is reported to its own writer, too, if no other write follows.
- player/client.c:643: a weak handle is strong until `mpv_create_weak_client()` marks it.
  If the last strong handle is destroyed in between, nobody terminates the core
  (client.h:508 says that this happens with the last strong one).
- demux/demux.c:4221: the flag `refreshing` of a stream survives a seek without a
  seekable cache, and a second refresh seek before the first brought packets; the
  first packet after it is dropped as one that was returned before. The properties
  except such streams (`stale`).
- demux/demux.c:1930: when ranges are joined, a reader that waits is put at a packet of the
  other range without the `wakeup_ds()` that the comment at line 878 demands ("Call if the
  observed reader state on this stream somehow changes"). The next packet that is added
  calls it, but with enough packets in the joined range none is read. Two seeks are
  enough, and `demux` does it: `Served` excepts these decoders (`unheard`) until they ask
  again, and fails without the exception.
- demux/demux.c:4033: the first new packet of a sparse stream after a refresh seek is
  dropped if its last old packet is not read again.
- demux/demux.c:2411: an overflow of the queues marks them as complete; the range
  then ends too early (`overran`). A refresh seek at the end of the file leaves an
  empty queue that counts as complete (`Bare`).

- video/out/vo_libmpv.c:530: "Wait until frame was presented" may end with the swap of
  the redraw before it, if the application reports that one late: swaps are counted,
  not matched with frames.
- video/out/dr_helper.c:31: "All references must have been freed on destruction". A
  command that writes a screenshot on a worker (player/screenshot.c:83) may hold an
  image of the render thread while `mpv_render_context_free()` runs, which waits for
  the VO and the decoder only. `RenderApi` leaves such images out.
- player/client.c:1592: `mpv_unobserve_property()` from another thread does not
  wake up a client whose hook that property holds back (client.h:1690).
- player/client.c:739: `MPV_EVENT_SHUTDOWN` is dropped while the ring buffer has
  overflowed, and not sent again after the two seconds of
  `mp_shutdown_clients()` (client.h:552: every handle receives it).
- misc/thread_pool.c:195: with max_threads threads, all busy, `mp_thread_pool_run()`
  queues the work and returns true, although thread_pool.h:30 says it succeeds only
  if a thread can be reserved for it.
- misc/thread_tools.c:194: a negative timeout of `mp_cancel_wait()` does not
  wait for ever, as thread_tools.h:57 says.
- filters/f_async_queue.c:292: an output filter wakes up the input filter without
  checking that it exists (f_async_queue.h:55 allows it not to). `AsyncQueue`
  stops there (`null_wakeup`).
- filters/filter.c:152: with two external pins, the root being pending for one hides a
  change of the other from the user, although filter.h:420 says that `mp_filter_graph_run()`
  "returns whether any outside pins have changed state": in a recursive run through
  one pin, whose change comes first, or in a run after an interrupted one. `tools`
  reaches both; `UserTold` excepts exactly these changes (`hidden`) and says when they occur.
- audio/out/buffer.c:488: `ao_drain()` unlocks before it waits, so the end of
  playback may be missed and the wait lasts until its timeout (comment at 482).

## Plan

Done: the infrastructure all threads use (dispatch, pool, cancel, rendezvous,
option caches), the paths of frames (filter runner, async queue, video and audio
output, the render API), the demuxer, the client API and the end of the player.

Theorems next: the parts of Demux that do without recursion, once `DemuxCache` is split; the second
half of `Ends` if ENABLED comes into reach.

Models next: the decoder wrapper as a composition of Dispatch, FilterRunner and
AsyncQueue; the log rings and the log file thread; queued seeks of
the core with the demuxer.

## Not modelled

- filters/f_decoder_wrapper.c, common/msg.c, input/: planned,
  see above. They use the parts that are modelled.
- backward demuxing, the disk cache, and the navigation of discs (demux/): they
  multiply the states of `Demux`, which is at the limit of what can be checked in
  minutes.
- player/command.c, loadfile.c, video.c, audio.c: sequential handlers of the core
  thread, whose conditions are floating point times; what other threads can do to
  them is in the modules of those threads.
- decoders, drivers, GPU code, filters, file formats and utilities: numerics, system
  calls and parsing. They appear as the environment of the modules, with the contracts
  their headers state.
