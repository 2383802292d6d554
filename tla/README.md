# Verification of frameworks/av: audio transport, codecs, buffer pool

TLA+ models of the code of Android's media framework whose correctness depends on the order of events: the lock-free and
shared-memory audio path, the message-driven codecs, and the buffer pool shared by processes. They are model-checked with TLC and, where marked, proved with TLAPS. Sources are cited relative to `src/`.

## 1. The system

The repository holds the native media framework: AudioFlinger (mixing and routing of audio), the client
libraries that talk to it, the audio policy, camera, codecs, extractors, DRM and the players. The modules follow its own core
logic with the hardest concurrency: the audio path from the inside out, then the codecs and the buffers they share.

| Part | State | Operations | Interacts with |
|---|---|---|---|
| State queue (`StateQueue.{h,cpp}`) | a ring of four states, `mNext`, `mAck`, pointers of each side | `poll`; `begin`/`end`/`push` | written by the normal mixer, read by the fast thread, no lock |
| Fast thread and fast mixer (`FastThread.cpp`, `FastMixer.cpp`) | current/previous state, copy of the last non-idle state, cold generation, its AudioMixer | `threadLoop`, `onIdle`, `onStateChange`, `onWork` | state queue, futex of the normal mixer |
| Normal mixer (`Threads.cpp`, MixerThread) | the mutating state, active tracks, `mFastMixerFutex` | constructor, `prepareTracks_l`, `threadLoop_write`, `threadLoop_standby`, destructor | state queue, futex |
| Shared track buffer (`AudioTrackShared.{h,cpp}`) | control block in memory shared by two processes: `mFront`, `mRear`, `mFlush`, `mStop`, `mFutex`, `mFlags` | client and server `obtainBuffer`/`releaseBuffer`, flush, stop, interrupt, stream end | client process (AudioTrack, AudioRecord), server thread, binder threads |
| Single state queue (`SingleStateQueue.h`) | sequence number, value, acknowledgement in shared memory | `push`, `ack`, `poll`, `done` | static tracks, playback rate, timestamps |
| Static tracks (`AudioTrackShared.cpp`, Static*Proxy) | loop and position on both sides, frames ready | `setLoop`, `setBufferPosition`, `obtainBuffer`, `releaseBuffer` | single state queue, AudioTrack, Track, the mixer |
| NBAIO pipes (`libnbaio`), AAudio FIFO (`libaaudio/src/fifo`) | ring buffers with wrapping counters | `write`, `read` | normal mixer to fast mixer; AAudio client to service |
| MediaCodec (`libstagefright/MediaCodec.cpp`) | its state, flags, reply tokens, buffer lists, generations of time-outs | calls of the application, notifications of ACodec, time-outs, reclaim | ACodec over two message queues; resource manager |
| ACodec (`libstagefright/ACodec.cpp`) | one of nine states, owner of each buffer, deferred messages, timers | requests of MediaCodec, completions and returned buffers of the OMX component | MediaCodec, OMX component in another process |
| Buffer pool (`bufferpool/2.0`) | buffers, owners, connections, transactions, pending invalidations; per client a cache and unposted releases | connect, allocate, send, receive, fetch, release, flush, evict, invalidate, close | processes over message queues and HIDL; invalidator thread |
| Other | audio policy, camera service, Codec2 components, extractors, players, DRM, MTP, sound trigger, metrics | | binder |

Hard to test in this code: two threads or processes that share words of memory without a lock (the state queue,
the control block, the single state queue); futex wake-ups that can be lost; counters that wrap; a client or
server process that dies or stops in the middle; state that is acted on after the lock that protected it was
dropped; settings that replace one another before the other side has read them; notifications, time-outs and replies that arrive after the
state they belong to is over; messages of several processes that are read in another order than they were posted.

What makes each part correct: the two sides of a queue never touch the same slot; data is neither lost, torn
nor read twice; a position set by one side is what the other side uses; nobody stays asleep when there is
something to do; a released object is not used again; a call gets its reply whatever happens in between; a buffer has one owner,
is not recycled under it and comes back when it is gone. `PROJECT.json` lists the hazards by line, with the
properties that would catch them.

## 2. Modules

                                                        proofs in
    FastMixer ---- composes ----> StateQueue            FastMixerProofs, StateQueueProofs
    StreamingTrack -- implements --> TrackFifo          StreamingTrackProofs
    ClientFutex                                         ClientFutexProofs
    SingleStateQueue -- implements --> StateRegister    SingleStateQueueProofs
    StaticTrack --- uses as settings queue --> StateRegister
                                                        StaticTrackProofs
    MediaCodec --- composes, over two message queues --> ACodec
    BufferPool <-- its invariant -- BufferPoolInv       BufferPoolLemmas, BufferPoolProofs (extends it)

The modules named `...MC` give the constants their values. Definitions marked "Mutant of" are deliberate bugs:
with one of them in place of the definition it mutates, TLC finds the property violated that `PROJECT.json`
pairs it with.

**`StateQueue`** (`services/audioflinger/StateQueue.{h,cpp}`). One action for each access to memory shared by
the two threads. `PollLoad`, `PollAck`, `PollReturn` are the three accesses of `poll()` and the shift of the
caller's pointers; `Begin`, `Modify`, `End` a mutation in place; `Push`, `PriorAcked`, `PushFails`, `Publish`,
`Copy`, `PushAcked` the steps of `push()`. `previous` is the state the observer still compares with. States
are opaque values.

**`FastMixer`** composes an instance of the state queue with the fast thread (`FastThread::threadLoop`, one
action per phase: poll, adopt, cold idle, futex wait, state change, work) and the normal mixer's places that push
states. A state is a record with the fields the control depends on: command, cold generation, frame count,
generations and the buffer provider of each fast track. `mTrackMask` is the set of tracks with a provider.
A mutation from `begin()` to `end()` is one step: `StateQueue` shows that it is invisible to the observer.
`released` records tracks the normal mixer has reset or let go of, `overtaken` that a standby reset the futex
while the fast thread was still on its way into the cold idle before; both are only used by properties.

**`StreamingTrack`** is the data path of a streaming `AudioTrack`: `obtainBuffer()` and `releaseBuffer()` of
both proxies, flush, stop, start, pause and `setBufferSizeInFrames()`. The server's `obtainBuffer()` and
`framesReady()` take one step per load of a variable that the client writes, so that stores can fall in between;
the client's operations take one step per store. Counters run modulo `Wrap`; `mFlush` and `mStop` carry a position modulo `2 * mFrameCountP2`
below a counter, as in the code. Each slot of the ring holds the number of the frame in it, which lets properties compare
what is read with what was written. Every operation of the client can come between any two loads of the mixer. Since the loads of one
`obtainBuffer()` are not atomic, they can be of different times: `torn` records that a write or a start came after a stop or flush that the
`obtainBuffer()` under way has missed (`Missed`). It is history, guards nothing, and the properties that the code keeps up to that point are stated with it; what
becomes of them afterwards is finding 1. Like it, `limit`, `limitSeen`, `flushes` and `flushSeen` are history. `start()` may be rejected by
`addTrack_l()`: a flush that is pending is acknowledged all the same, and the limit stays.

**`TrackFifo`** is what the ring promises: a queue of numbered frames, with flushes that move the read position
to a flush position exactly. `StreamingTrack` implements it until an `obtainBuffer()` is torn (`ImplementsFifo`), with `read` computed from
the two wrapping counters and `playing` from `mUnreleased`.

**`ClientFutex`** is the waiting: `mFlags` and `mFutex` as sets of bits, one step per access to them or to the ring
and one per futex system call. The client runs `obtainBuffer()` or `waitStreamEndDone()` with each kind of time-out;
the mixer releases and flushes; other threads run `interrupt()`, `pause()`, `binderDied()`, `signalClientFlag()`
(invalidate, disable) and `setStreamEndDone()`. `Events` chooses what may happen besides mixing, `Calls` and `Timeouts` which
calls the application makes. Of the ring only the fill level is kept.

**`SingleStateQueue`** (`media/libmedia/include/media/SingleStateQueue.h`). The value is a function from words to contents, and
every load and store of a word is a step, in any order between the accesses to the sequence number, as the
compiler and the processor may order them. `PollOdd`, `PollChanged` and `PollSame` are the outcomes of one try,
of which there are at most `MAX_TRIES`. The mutator may stop for ever at any point.

**`StateRegister`** is the atomic register with acknowledgement that the queue implements.

**`StaticTrack`** composes that register with the two static proxies and their callers: `AudioTrack` (start, stop, pause,
setLoop, setPosition, reload, getBufferPosition, `restoreTrack_l`), `Track::start()` on a binder thread, and the mixer thread
(`prepareTracks_l`, then `obtainBuffer()`/`releaseBuffer()` without the lock). `todo` holds the settings that a call
still has to make: `stop()` and `restoreTrack_l()` make two. A start may be rejected; a re-creation that fails is tried again, up to `INITIAL_RETRIES`
times, after which the track is invalid for good. `pollPosition()` is split into poll, adopt, publish and
`done()`, since the client may look in between. Of the queue of positions, which is of the same kind, the last value
and whether it is new to the client are kept; `poll()` of the client may fail while the server is in `push()`.
History: `asOf` in a position is the number of the settings it takes into account, `diverged` says that frames were
played or a setting replaced unread since the client last read a position, `saved` is what a re-creation
under way must bring back.

**`ACodec`** is the state machine of `ACodec.cpp` and its environment, the OMX component. A handler is an operator on the object and
the notifications it posts, so that `processDeferredMessages()` and the entry of a state, which handle further messages in the same
step, are applications of such operators. `mStatus` is the owner of each buffer as in the code, `commands` what the component has
still to complete, `timers` the delayed messages (`kWhatForceStateTransition`, `kWhatCheckIfStuck`, `kWhatReleaseCodecInstance`; those that a state
generation would discard are dropped when the state is left). The component answers, returns buffers, fails, changes its output format
and dies when it likes. Each call that a handler makes of the component may fail: `works` is which of them get through in this step, all, the commands but not
the buffers, or none. A `CHECK` on such a call (`PortDisable` in `onPortSettingsChanged`) sets `aborted`. Buffers come and go filled or empty: an empty
one without end of stream is handed back at once.

**`MediaCodec`** composes it with `MediaCodec.cpp`. `looper` and `inbox` are the two queues of messages. `waiting` says in which call each
thread is: `Invoke` posts one, `OnMessageReceived` handles the head of `looper` with the whole handler of that message, and the reply
ends the wait. A call that would be refused at the moment is not posted: a refusal changes nothing, and a call that messages before it in the queue
would make acceptable can be posted after them with the same effect. `release()` in `reset()`, the clearing of the object and its new `init()` are separate steps, as other
messages come in between; so are the polite and the forced half of `reclaim()`. `mc.delayed` holds dequeue time-outs, which are delivered
at any later point; those older than a `reset()` are marked, for the
properties. `setCallback()` sets and clears asynchronous mode. `aborted` names the `CHECK` that failed, in either module.

**`BufferPool`** has the Accessor of `AccessorImpl.cpp` and its clients of `BufferPoolClient.cpp`. A method of the pool runs under its mutex: `Lock` begins the call
(and does what `connect()` does before it reads), `ReadQueue` is the reading of one queue of status messages by `getBufferStatusChanges()`, `HandleMessage` an iteration of
the loop of `processStatusMessages()`, and the action named after the method completes it; `handleClose()` takes a step for each buffer (`CloseBuffer`) and each transaction (`CloseTransaction`)
that the connection leaves. Only the holder of the mutex touches the pool, but clients post, and read invalidations, between any two of these steps. Messages are handled by operators on the record `pool`,
whose fields keep the names of the code; `mail` has the messages of a connection that are not handled, of which the first `taken` are out of the queue and leave room in it.
A client is a cache (`mBuffers`, `hasCache`), references (`refs`), last references on their way into a release
(`dying`, `mReleasingIds`) and the id of its last invalidation. A transfer `tx[t]` is followed from `postSend()` through `receive()`, whose loop, fetch and
result are steps of their own; it may go to the connection that sends it. `evictCaches()` drops any set of the entries that have no reference. `onMessage` are the oneway calls of observers. `crashed` says that a handler used a buffer that its look-up had
not found.

`TypeOK` of `FastMixer`, `StreamingTrack`, `ClientFutex`, `StaticTrack` and `BufferPoolInv` is a conjunct of the inductive invariants of their proofs, and proved there; the runs check what is stronger than it.

## 3. Runs

| Run | Shows | Bounds |
|---|---|---|
| `statequeue` | slots never shared, pushes acknowledged in order, no lost update; what was pushed is observed | kN = 4 as in the code, two states; all behaviours (15,252 states) |
| `fastmixer` | no use of a released track, AudioMixer follows the state, no I/O in standby; `push()`, `threadLoop_write()` and `join()` get through unless a standby overtakes the fast thread | a fast track besides the sub-mix, two tracks that ever become active (so a slot changes hands), two cold idles (0.5 million states) |
| `streaming` | every operation of the client between any two loads of the mixer: the ring is a queue of frames; unread frames are intact, stop and flush are respected, no proxy shuts down, until an `obtainBuffer()` is torn | three frames in a ring of four (not a power of two, so the slack slot matters), counters of five bits starting before the sign bit and before the wrap; five frames, two stops or flushes |
| `streaming_stop` | violation, finding 1 | as `streaming` |
| `futex` | no sleep without a wake on its way; calls return; the stream end is noticed | four frames, so that the minimum for a wake (half) is more than one, of which the application uses three; all events, calls, time-outs (1.1 million states) |
| `futex_invalidate` | violation, finding 2 | only the event concerned |
| `single_state_queue` | the queue is an atomic register; `ack()` is right; `poll()` returns, the last value arrives | two words of two contents (a torn value is one that was never pushed), five tries as in the code, three pushes |
| `static` | assertions of the server hold and no valid client is shut down (`ServerSound`), no stale position is shown, settings are adopted as the client shows them, a re-created track resumes, a finite track plays to its end | three frames; a loop at the start played twice and an endless one at the end; a position inside the buffer; three settings between creations (one more than `stop()` makes), one re-creation of two tries (0.55 million states) |
| `mediacodec` | no `CHECK` fails but in the ways of section 5; no call loses its reply token; a buffer is in exactly one place; MediaCodec and ACodec agree whenever no message is under way, and whatever is then waited for has a timer or a command behind it | every call, one application thread and the resource manager, a buffer per port, one failure, format change, death or reclaim at any point; a finite time-out on the output port, whose generation goes to 1 and of which one is on its way at a time, while the input port only polls (2.95 million states) |
| `mediacodec_stale_timeout` | violation, finding 3 | no failure, no reclaim |
| `mediacodec_release_twice` | violation, finding 4 | as `mediacodec` |
| `bufferpool` | no buffer is recycled, evicted or invalidated while a client has it or is about to; the bookkeeping is consistent, the ranges of ids that a flush and a pending invalidation cover are right also where ids wrap (`PoolConsistent` has its own definition of them), and no handler uses a missing buffer; nothing leaks; every invalidation reaches its client | the process of the pool and one other that connects, closes or dies; one buffer, whose id is the last before the wrap; two calls of `postSend()` or `flush()`, queues of two messages (2.1 million states). The theorems of section 4 have no such bounds |

`CHECK_DEADLOCK FALSE` is used where an application may stop calling and bounds cut off counters: the track and the
futex runs, and the MediaCodec runs (an aborted process, and the last generation of a time-out, are the end). The state queue, fast mixer,
single state queue and buffer pool runs check deadlock.

**Fairness.** Threads that can run do run, and nothing else is assumed of the application. In detail: the observer of
a queue polls and the mutator inside a blocking `push()` looks at `mAck` again (its loop sleeps and retries); nobody has to
go to standby, write or exit, and spurious futex wakes are never relied upon. The mutator of the single state queue has no fairness
at all. In `ClientFutex` a finite wait has strong fairness to time out: the code adds up the
time spent asleep in `obtainBuffer()`, so wakes cannot postpone it for ever. In `StaticTrack` a call that has begun goes on
(strong, because it may have to wait for the thread lock, which the mixer takes and drops once per pass), the mixer thread makes its passes, and for `PositionArrives`
the application asks again (strong, for the same lock of AudioTrack). `MediaCodec` and `BufferPool` have no fairness: an OMX component may never
answer and an application may never return, so what must eventually happen there is stated as a safety property, that somebody who will act has it on
a list (`NoCallStranded`, `StatesAgree`, `InvalidationComes`, `NoLeak`).

## 4. Proofs

Assumptions are the named `ASSUME`s of the modules; every run evaluates them.

`StateQueueProofs` proves, for every `kN >= 4` and every set of states, that `IInv == TypeOK /\ PointerOrder /\ CopyOfPushed` is
inductive and, from it, `SlotIsolation`, `HeldStateStable`, `EveryPushAcked`, `AckedIsCurrent` and `MutationStartsFromPushed`.
`SlotIsolation` is not inductive by itself: whether the next slot is free depends on how far the acknowledgement
is behind `mNext`, and on where the observer is in `poll()`. `PointerOrder` says just that. The assumption
`kN >= 4` enters in one lemma, that a slot differs from its next three successors. `CopyOfPushed` extends what `MutationStartsFromPushed` says to
a mutation that is open and has changed nothing, which `end()` may close as clean.

`SingleStateQueueProofs` proves, for values of any number of words and any number of tries and pushes,
`AckIsCurrent` and `ImplementsRegister`. The inductive invariant is `IInv == TypeOK /\ SequenceOrder /\ CopyInOrder`. That
an acknowledged value is the last one pushed needs to know which value each sequence number stands for
(`CopyInOrder`: as long as the number the observer started from is even and unchanged, the words loaded so
far are those of the value), and that depends on the order of the numbers of both sides (`SequenceOrder`). The refinement maps the
register's read to `PollSame`, its acknowledgement to `PollAck`, its act to `Done`, its write to `PushEnd`, and every other access to a stutter. Since `StaticTrack`
uses the register, what it shows rests on this theorem.

`FastMixerProofs` proves `NoWorkInStandby`, `MixerMatchesState` and `NoUseAfterRelease` for every `kN >= 4`, every finite set of fast tracks and any number
of tracks and standbys. The queue's own `SQ!PointerOrder` is part of the inductive invariant. The rest of it says where `push()` and its caller are (`Pushing`),
what `current`, `prior` and the fast thread's program counter have to do with the pointers of the queue and with the commands there (`Pointers`, `Commands`),
that nothing but idle states is left in the queue after an acknowledged standby (`InStandby`), that the states
at `mCurrent`, `mAck`, `mNext` and in mutation are in the order of their generations (`InOrder`), that the AudioMixer is that of
the state last processed, `prior` (`Synced`), and that a removed track is in none of the states that can make the fast thread work (`Tracks`). The diff
of `onStateChange()` is then right because equal generations mean equal providers, also across the copy kept while idle.

`StreamingTrackProofs` proves `SoundUnlessTorn`, `UnreadFramesIntact`, `ChunkIsCurrent`, `StopHoldsUnlessTorn` and the refinement `ImplementsFifo` for every
buffer size, every width of the counters and all their starting values, and for all interleavings of the client with the loads of the mixer. It first does the arithmetic of counters modulo `Wrap`: `SubOverflow` of two of them is their
distance if that is less than half of `Wrap`, and replacing the low bits of `mFront` by a position of `mFlush` or `mStop`, with the correction for an overflow,
gives the counter at that position if it is at most `mFrameCount` ahead. Everything else is said in terms of `Counter(p)`, the counter at
frame number `p`, which writing does not change. The inductive invariant is `IInv == Typed /\ (torn \/ Sound)`. `Sound` has the contents of the ring (`Ring`), the position at
which a flush is pending (`Flushes`) and a stop is in force (`Stops`), and what may have been loaded in the middle of
`getRear()` (`Loads`). The step in which the mixer takes its last load
is a flush, an obtain, or nothing, of `TrackFifo`. That a write or a start after a missed stop or flush is the only way out of `Sound` is what the theorems add to finding 1; from there on only types are claimed.

`ClientFutexProofs` proves `NoSleepThroughSpace` and `NoSleepThroughInterrupt` for every buffer size, used part of it and minimum, and
every choice of events, calls and time-outs. The two properties speak of a client that is asleep; the invariant (`InterruptWakes`, `SpaceWakes`) says in addition that from the look at `mFlags`,
or at the ring, up to the system call either `CBLK_FUTEX_WAKE` is up or somebody is about to set it. `LevelsSeen` bounds the level from which the server decides whether to wake.

`StaticTrackProofs` proves `ServerSound` and `NoStalePosition` for every buffer and all loops, positions, settings and re-creations. That the server never refuses a
setting needs everything on its way to be valid (`AllValid`: the setting being pushed, the calls still to make, the position under way back), and
the order of settings, acknowledgement and published position (`QueueOrder`, `LoopOrigin`), since a setting is combined with what the server has played of an earlier one.
It adds for `IllusionKept` that what the client shows is what the server will come to by adopting first what it has polled and then
what has been pushed since (`Predicted`), and for `RestoredAsShown`, an action property, what each of the settings of `restoreTrack_l()` leaves to do, also when a try fails and the next one begins anew (`Restoring`).

`BufferPoolProofs` proves `PoolConsistent`, `NoReuseInUse`, `NoLeak` and `InvalidationComes` for any finite sets of connections and transfers, any number of buffers, calls and
flushes, every place where ids start and wrap, and queues of any size. The inductive invariant `Inv` has a module of its own, `BufferPoolInv`; TLC checked it on all states of the instance of run `bufferpool` before it was proved.
None of the four properties is inductive, because the pool lags behind its clients: what keeps a buffer from being recycled may be a message that has not been read. `Inv` therefore speaks of the stream of a connection,
its unhandled messages followed by the releases that it has not posted, and of what the pool will have made of it when it comes to a given message (`Granted`). Its parts:

- `Consistent`: what the pool says of itself. Counts are cardinalities, free is unused, ids are given out in a range that has not met its own beginning, those before the last flush are invalidated, and a pending invalidation waits for buffers that are all marked.
- `Protocol`: streams, transfers and the pool's transactions agree. An unfinished transfer is known to the pool, or its sender will still be a user when its TRANSFER_TO is read (`Kept`); a receiver's TRANSFER_FROM
  is read before its result (`Received`), so that the result always finds its transaction; a TRANSFER_TO that comes after the end of its transfer is remembered in `mCompletedTransactions` (`Remembered`), and nothing else is (`Over`).
  That no buffer in transfer is free follows by a descent: who is granted a buffer by an unread TRANSFER_OK was the receiver of a transfer that began earlier (`GrantSource`, with the order of `PairOK`), and there is a first one (`FirstTransaction`).
- `Holdings`: a reference of a client, beyond those that `receive()` has just made, is one that its stream holds; what is held has a reference, a deleter or `allocate()` at it (for `NoLeak`); a local client's cache may
  keep entries of buffers that it has released only as long as nobody uses them (`Cache`, `Unused`); a buffer that `allocate()` has taken has not been released by an older message (`Fresh`).
- `Order`: connections are opened and closed by the calls that do it, and a connection that closes has had its queue read.
- `Notices`: who has an unread invalidation has not acknowledged it, and the Accessor is registered or the observer has been called.

`BufferPoolLemmas` has a lemma per handler and per method of a client on each part that it can disturb; `BufferPoolProofs` puts them together, one lemma per action. That ids do not come back (`MaxAllocations < SYNC_BUFFERID`, 2^32 in the code)
is the assumption that these proofs add.

What the proofs assume of constants, and why the code justifies it: `kN` is 4 (`StateQueue.h`); `mFrameCountP2` is the least power of
two that is not below `mFrameCount`, and `Wrap` (2^32 in the code) a multiple of eight times it, as buffers are far smaller than that; `MaxSignals` keeps the upper bits of `mFlush` and `mStop`
from wrapping, which takes `Wrap / (2 * mFrameCountP2)` flushes or stops in the life of a track, so that the theorems are about shorter lives; `INT64_MAX > mFrameCount`, and the loops that the application may set are those whose frames can be counted in 64 bits: a loop count has 32 bits and a buffer less than 2^31 frames. The other bounds (`MaxFrames`, `MaxTracks`, `MaxSequence`,
`MaxRestores`, ...) are arbitrary naturals: the theorems hold for all of them, and so for every finite behaviour.

Only model-checked: `ChecksHold`, `NoCallStranded`, `BufferInOnePlace` and `StatesAgree` of `MediaCodec` and `ACodec`, whose handlers fold over deferred messages and lists of buffers within a step, as the code does,
so that what they compute for every input is an induction over data, which the prover does not do; and all liveness (`~>`, fairness: `PushedIsObserved`, `NeverHangs`, `WriteStartsMixing`, `CallReturns`,
`StreamEndSeen`, `PlaysToEnd`, `PositionArrives` and those of the single state queue), which is out of its reach too. Proofs are about the models: that
memory accesses are sequentially consistent, and the other abstractions of section 6, they take over.

## 5. Findings

1. `getRear()` loads `mStop` and then `mRear`. If a stop comes after the first load and a write before the second, the chunk ends after the stop. When it is released
   the stop lies behind `mFront`; the next `getRear()` takes it for corrupt and ignores it until the next start, so that the mixer plays on although
   "server will not read beyond this position until start is called" (`AudioTrackShared.cpp:722`; run `streaming_stop`). Two more things come of the same loads, after which `torn` is set in the
   passing run too: with a stop and a start in between, a stop that is over is applied to a newer rear, the chunk reaches past `mRear`, and once it is released
   the client finds the ring overfull and shuts down (`NeverShutDown`); with a flush and writes in between, the mixer reads past the flush position, and the next pass moves `mFront` back to it,
   onto slots that the client has obtained in the meantime, so that unread frames are overwritten and the client shuts down as well.
2. `signalClientFlag()` stores a value without `CBLK_FUTEX_WAKE`; a client between its look at `mFlags` and its wait
   goes to sleep on that value (`Tracks.cpp:1424`; run `futex_invalidate`).
3. `MediaCodec::reset()` starts the generations of dequeue time-outs at 0 again while a time-out posted before is still to be delivered. The old
   one answers the first dequeue after the reset, and that dequeue's own time-out then fails `CHECK(mFlags & kFlagDequeueOutputPending)`
   (`MediaCodec.cpp:1330`, `:2842`; run `mediacodec_stale_timeout`).
4. A release that finds another release in progress (the resource manager's and the application's) replaces the reply token without a reply, although the
   comment there says that the pending call is answered first; the first caller waits for ever (`MediaCodec.cpp:2676`; run `mediacodec_release_twice`).

Observations made while modelling, for which no run is kept:

- A standby that overtakes the fast thread between its acknowledgement of COLD_IDLE and its decrement of the futex erases
  the wake-up already counted there, and both threads wait for each other (`Threads.cpp:4423`, `FastThread.cpp:171`). `overtaken` records it;
  without that exception TLC finds `NeverHangs` violated, and no other property covers it.
- An interrupt by `pause()` between AudioTrack's decision to block and the first look at `mFlags` is discarded; the
  writer blocks on a paused track (`AudioTrackShared.cpp:165`).
- `waitStreamEndDone()` never adds up the time it waits, so that its finite time-out never expires (`AudioTrackShared.cpp:455`).
- After the death of the media server a buffer that the old ACodec had announced stays on MediaCodec's list across `reset()`; the new ACodec
  announces the same index again, and the second dequeue of it fails `CHECK(!info->mOwnedByClient)`. `ChecksHold` excepts it.
- `createInputSurface()` and `signalEndOfInputStream()` leave the state as it is while they wait, so a release does not know of them and replaces
  their token. `NoCallStranded` excepts them.
- `onPortSettingsChanged()` sends `PortDisable` inside a `CHECK_EQ`: a component that fails or has died by the time its event is handled aborts the
  process (`ACodec.cpp:8021`). `ChecksHold` excepts it.
- A codec reclaimed by force gives the client's buffers back to ACodec twice; the second time they are discarded there. `BufferInOnePlace` excepts it.
- The buffer pool ignores `TRANSFER_TIMEOUT` ("TODO"): a transfer whose receiver came too late, could not post its result into a full queue, or never
  called `receive()`, keeps its buffer until the receiver's connection closes. `NoLeak` says that these are the only ones.
- `handleClose()` leaves the transactions of the connection in `mPendingTransactions`; harmless as connection ids do not come back.
- An invalidation that is read between the two locks of `syncReleased()` can leave an unused entry in a client's cache until its time is over.
- `AudioTrackShared.h:526` allows a buffer to be released in parts, but `mAvailToClient` is refreshed only by the server's `obtainBuffer()`
  (`AudioTrackShared.cpp:877`): parts that are each smaller than the minimum never cause a wake. The mixer releases whole buffers.
- A static track that is just played, without any setting, shows position 0 to its client throughout: `ack()` with nothing pushed is
  `SSQ_READ`, not `SSQ_DONE`. `AudioTrack.h:571` says that `getBufferPosition()` "returns the current playback position". A re-creation of such a track starts it again from 0. `PositionArrives` therefore requires a setting.
- Settings replaced unread can leave client and server apart until the next one: `setPosition(6)`, `setLoop(0,4)`, `setLoop(0,8)` shows 0 to the
  client while the server plays from 6, since the loop that moved the client to 0 never reached it. `IllusionKept` excludes this with `diverged`.
- `stop()` resets the loop of the proxy and not `mLoopCount` and `mLoopCountNotified` of AudioTrack, from which `processAudioBuffer()` counts loop ends.

## 6. Not modelled

Within the modelled files: the input direction of the ring, volume, sample rate and playback rate, timestamps, statistics and underrun
counters; warm-up and timing of the fast thread; loop, position and marker notifications and their flags; fast static tracks (whose proxy is
polled by the fast thread alone); the legacy resamplers, which hold a buffer across passes. Sequence numbers of the static
settings and of the single state queue do not wrap in the models. Memory accesses are sequentially consistent except that words
of a single state queue's value are accessed in any order.

In the codecs: native windows and their buffers, metadata buffers, codec specific data, crypto, formats, parameters, end of stream, the retries of `init()` and
`start()` after `NO_MEMORY`, the buffers that an output port got before its reallocation failed, and components other than ACodec (CCodec, MediaFilter). `discardBuffer()` is one step, although its look-up and the message it posts are two. In the buffer pool: ClientManager and the registration of observers, the
statistics that decide when to evict (any eviction is possible), the closing of the local client, references to a buffer that an application keeps after `ClientManager::close()` (their deleter finds no client and does nothing,
`BufferPoolClient.cpp:168`; in the model they end with the client), ids that come back after 2^32 allocations, and
`syncReleased()` as two steps. Liveness that rests on the component or on another process answering is not claimed.

The other components are in `PROJECT.json` with the reason for each.

## 7. Plan

In this order, most important first:

1. `MediaCodec`: `BufferInOnePlace` and `ChecksHold`, from an invariant of the two message queues, with deferred messages handled one per step.
2. The states of `Track` across playback threads (start and stop racing with `prepareTracks_l`, lock dropped in `addTrack_l`).
3. NBAIO pipes (`MonoPipe`, `Pipe` and their readers) as a ring with overrun detection, composed with `FastMixer`'s sub-mix; the AAudio FIFO
   as a second implementation of `TrackFifo`; the capture direction: `AudioRecord`, `RecordThread`, `FastCapture`.
