--------------------------- MODULE StreamingTrack ---------------------------
(***************************************************************************)
(* The data path of a streaming AudioTrack: the ring in shared memory that *)
(* the client (AudioTrack over AudioTrackClientProxy) fills and the mixer  *)
(* (Track over AudioTrackServerProxy) empties, and start, stop, pause and  *)
(* flush, which act on it from the client's control thread.                *)
(*                                                                         *)
(* The counters mFront and mRear run modulo Wrap (2^32 in the code) and    *)
(* are reduced modulo mFrameCountP2 to index the buffer.  mFlush and mStop *)
(* hold a position modulo 2 * mFrameCountP2 under a counter in the upper   *)
(* bits.  A slot of the buffer holds the number of the frame in it, so     *)
(* that what the server reads can be compared with what was written.       *)
(*                                                                         *)
(* obtainBuffer() of the server is one step per load of a variable that    *)
(* the client writes; the client's operations are one step per store.      *)
(* The wait of the client for space is in the module ClientFutex.          *)
(***************************************************************************)
EXTENDS Integers, FiniteSetsExt

CONSTANTS
    mFrameCount,     \* frames the buffer holds
    mFrameCountP2,   \* mFrameCount rounded up to a power of 2
    Wrap,            \* number of values of a counter
    Bases,           \* initial values of the counters: where they stand after
                     \* a long play, near the wraps that matter
    MinimumSize,     \* setBufferSizeInFrames(): 16 in the code
    MaxFrames,       \* bound on the frames written
    MaxSignals       \* bound on the stops and flushes sent

ASSUME SizesAssumption ==
    /\ mFrameCount \in Nat \ {0}
    /\ mFrameCountP2 \in mFrameCount .. 2 * mFrameCount - 1
    /\ Wrap \in Nat \ {0} /\ Wrap % (8 * mFrameCountP2) = 0
    /\ Bases \subseteq 0 .. Wrap - 1
    /\ MinimumSize \in Nat \ {0}
ASSUME BoundsAssumption ==
    /\ MaxFrames \in Nat
    /\ MaxSignals \in 0 .. Wrap \div (2 * mFrameCountP2) - 1

VARIABLES
    \* audio_track_cblk_t, in shared memory
    mFront, mRear, mFlush, mStop,
    disabled,        \* CBLK_DISABLED in mFlags
    buffer,          \* the frame number in each slot
    \* the client
    mState,          \* of AudioTrack
    cpc,             \* how far releaseBuffer() or flush() has come
    cUnreleased,     \* mUnreleased of the client proxy
    mBufferSizeInFrames,
    cShutdown,       \* mIsShutdown of the client proxy
    \* the server
    active,          \* the track is in mActiveTracks
    sFlush,          \* mFlush of the server proxy: the last one acknowledged
    mStopLast,
    sShutdown,       \* mIsShutdown of the server proxy
    spc, onlyReady,  \* where the mixer is in obtainBuffer() or framesReady()
    flush, stop, rear,   \* what it has loaded
    sUnreleased,     \* mUnreleased of the server proxy
    \* history
    written,         \* frames released by the client
    flushes,         \* positions of the flushes
    limit,           \* position of a stop or flush since the last start
    flushSeen,       \* the position of the flush that the mixer has loaded
    limitSeen,       \* limit when the mixer began to obtain
    torn             \* an obtainBuffer() of the mixer has gone by values that did not
                     \* belong together (see Missed)

cblkVars == <<mFront, mRear, mFlush, mStop, disabled, buffer>>
serverVars == <<sFlush, mStopLast, sShutdown, spc, onlyReady, flush, stop, rear,
                sUnreleased, flushSeen>>
clientVars == <<mState, cpc, cUnreleased, mBufferSizeInFrames, cShutdown>>
historyVars == <<written, flushes, limit, limitSeen, torn>>
vars == <<cblkVars, active, serverVars, clientVars, historyVars>>

NoLimit == MaxFrames + 1
Dirty == -1          \* a slot that holds no released frame

-----------------------------------------------------------------------------
(* Counters.                                                               *)

\* safe_sub_overflow: a signed difference of wrapping counters.
SubOverflow(a, b) == ((a - b + Wrap \div 2) % Wrap) - Wrap \div 2

OverflowBit == 2 * mFrameCountP2
Masked(x) == x % OverflowBit
UpperBits(x) == x - Masked(x)
Slot(x) == x % mFrameCountP2
InRange(filled) == filled \in 0 .. mFrameCount

\* Mutant of NewFront: the span over the overflow bit is not corrected.
NewFrontUnwrapped(front, r, f) ==
    LET newFront == UpperBits(front) + Masked(f)
    IN  IF InRange(SubOverflow(r, newFront)) THEN newFront ELSE r

\* Mutant of NewFront: the flush is acknowledged and nothing discarded.
NewFrontKept(front, r, f) == front

\* flushBufferIfNeeded(): where mFront goes.
NewFront(front, r, f) ==
    LET rebased == UpperBits(front) + Masked(f)
        newFront == IF SubOverflow(r, rebased) >= OverflowBit
                      THEN (rebased + OverflowBit) % Wrap ELSE rebased
    IN  IF InRange(SubOverflow(r, newFront)) THEN newFront ELSE r

\* Mutant of GetRear: the position is taken without the range check.
GetRearUnchecked(st, r, last, front) ==
    IF st # last THEN UpperBits(r) + Masked(st) ELSE r

\* getRear(), once mStop, mRear and mStopLast are loaded.
GetRear(st, r, last, front) ==
    LET rebased == UpperBits(r) + Masked(st)
        newRear == IF SubOverflow(rebased, front) >= OverflowBit
                     THEN (rebased - OverflowBit) % Wrap ELSE rebased
    IN  IF st # last /\ InRange(SubOverflow(newRear, front)) THEN newRear ELSE r

\* The first contiguous part of avail frames at a counter, at most ask.
Part1(counter, avail, ask) == Min({mFrameCountP2 - Slot(counter), avail, ask})

-----------------------------------------------------------------------------
Init ==
    /\ mRear \in Bases /\ mFront = mRear
    /\ mFlush = 0 /\ mStop = 0 /\ disabled = FALSE
    /\ buffer = [s \in 0 .. mFrameCountP2 - 1 |-> Dirty]
    /\ mState = "STOPPED" /\ cpc = "idle" /\ cUnreleased = 0
    /\ mBufferSizeInFrames = mFrameCount /\ cShutdown = FALSE
    /\ active = FALSE /\ sFlush = 0 /\ mStopLast = 0 /\ sShutdown = FALSE
    /\ spc = "idle" /\ onlyReady = FALSE
    /\ flush = 0 /\ stop = 0 /\ rear = 0 /\ sUnreleased = 0
    /\ written = 0 /\ flushes = {0} /\ limit = NoLimit
    /\ flushSeen = 0 /\ limitSeen = NoLimit
    /\ torn = FALSE

\* The mixer is in obtainBuffer(), and has missed the last stop or flush: the store
\* came after its load of mStop or of mFlush.  If a write comes next, before the
\* load of mRear, or a start, what it has loaded and what it will load are of
\* different times.
Missed ==
    /\ spc \in {"flush", "stop", "rear", "last"} /\ ~onlyReady
    /\ flush # mFlush \/ (spc \in {"rear", "last"} /\ stop # mStop)

-----------------------------------------------------------------------------
(* The mixer thread.                                                       *)

\* obtainBuffer() or framesReady(): the load of mFlush.  framesReady() leaves
\* a pending flush alone and over-estimates.
SLoadFlush ==
    /\ active /\ spc = "idle" /\ ~sShutdown
    /\ onlyReady' \in BOOLEAN
    /\ flush' = mFlush /\ flushSeen' = Max(flushes)
    /\ limitSeen' = limit
    /\ spc' = IF mFlush = sFlush THEN "stop" ELSE IF onlyReady' THEN "idle" ELSE "flush"
    /\ UNCHANGED <<cblkVars, active, sFlush, mStopLast, sShutdown, stop, rear, sUnreleased,
                   clientVars, written, flushes, limit, torn>>

\* flushBufferIfNeeded(): the load of mRear and the store of mFront.
SFlushBuffer ==
    /\ spc = "flush"
    /\ mFront' = NewFront(mFront, mRear, flush)
    /\ sFlush' = flush
    /\ spc' = "stop"
    /\ UNCHANGED <<mRear, mFlush, mStop, disabled, buffer, active, mStopLast, sShutdown,
                   onlyReady, flush, stop, rear, sUnreleased, flushSeen, clientVars,
                   historyVars>>

\* getRear(): the load of mStop, then that of mRear.
SLoadStop ==
    /\ spc = "stop"
    /\ stop' = mStop
    /\ spc' = "rear"
    /\ UNCHANGED <<cblkVars, active, sFlush, mStopLast, sShutdown, onlyReady, flush, rear,
                   sUnreleased, flushSeen, clientVars, historyVars>>

SLoadRear ==
    /\ spc = "rear"
    /\ rear' = mRear
    /\ spc' = "last"
    /\ UNCHANGED <<cblkVars, active, sFlush, mStopLast, sShutdown, onlyReady, flush, stop,
                   sUnreleased, flushSeen, clientVars, historyVars>>

\* getRear(): the load of mStopLast; then the rest of obtainBuffer(), which
\* hands out the first contiguous chunk, or of framesReady().
SObtain(ask) ==
    /\ spc = "last"
    /\ LET filled == SubOverflow(GetRear(stop, rear, mStopLast, mFront), mFront)
           part1 == Part1(mFront, filled, ask)
       IN  IF ~InRange(filled)
             THEN /\ sShutdown' = TRUE
                  /\ sUnreleased' = IF onlyReady THEN sUnreleased ELSE 0
                  /\ spc' = "idle"
             ELSE /\ sUnreleased' = IF onlyReady THEN sUnreleased ELSE part1
                  /\ spc' = IF ~onlyReady /\ part1 > 0 THEN "hold" ELSE "idle"
                  /\ UNCHANGED sShutdown
    /\ flush' = 0 /\ stop' = 0 /\ rear' = 0 /\ onlyReady' = FALSE
    /\ UNCHANGED <<cblkVars, active, sFlush, mStopLast, flushSeen, clientVars, historyVars>>

\* releaseBuffer() of k frames; the rest may be released later or obtained
\* again.
SRelease(k) ==
    /\ spc = "hold"
    /\ k <= sUnreleased
    /\ mFront' = (mFront + k) % Wrap
    /\ sUnreleased' = sUnreleased - k
    /\ spc' \in (IF k < sUnreleased THEN {"idle", "hold"} ELSE {"idle"})
    /\ UNCHANGED <<mRear, mFlush, mStop, disabled, buffer, active, sFlush, mStopLast,
                   sShutdown, onlyReady, flush, stop, rear, flushSeen, clientVars,
                   historyVars>>

\* prepareTracks_l() removes the track from mActiveTracks: paused, stopped or
\* flushed, or, with CBLK_DISABLED, after a long underrun.  Which of these it
\* is depends on the track's state machine and is left open.
SDeactivate(underrun) ==
    /\ active /\ spc = "idle"
    /\ mState = "ACTIVE" => underrun
    /\ active' = FALSE
    /\ disabled' = (disabled \/ underrun)
    /\ UNCHANGED <<mFront, mRear, mFlush, mStop, buffer, serverVars, clientVars, historyVars>>

-----------------------------------------------------------------------------
(* Binder calls of the client into the track; the caller waits for them.   *)

\* Track::start(): lifts the limit, unless addTrack_l() rejects a track that is not
\* active.  If the track was not active, a pending flush is acknowledged by
\* obtainBuffer() in either case: the mixer is not looking at the track yet.
TrackStart(accepted) ==
    /\ accepted \/ ~active
    /\ active' = accepted
    /\ mStopLast' = IF accepted THEN mStop ELSE mStopLast
    /\ IF active \/ sShutdown
         THEN UNCHANGED <<mFront, sFlush, sShutdown>>
         ELSE /\ mFront' = IF mFlush = sFlush THEN mFront ELSE NewFront(mFront, mRear, mFlush)
              /\ sFlush' = mFlush
              /\ sShutdown' = ~InRange(SubOverflow(GetRear(mStop, mRear, mStopLast', mFront'),
                                                   mFront'))
    /\ limit' = IF accepted THEN NoLimit ELSE limit
    /\ limitSeen' = IF accepted THEN NoLimit ELSE limitSeen
    /\ torn' = (torn \/ Missed)

-----------------------------------------------------------------------------
(* The client's data thread.                                               *)

\* Mutant of ClientAvail: counts up to a full buffer, whatever is in it.
ClientAvailUnfilled(filled) == mBufferSizeInFrames

\* Frames that may be written, up to the size the application has set.
ClientAvail(filled) == Max({0, mBufferSizeInFrames - filled})

\* ClientProxy::obtainBuffer(): the load of mFront, and the contiguous part
\* that the application may fill from now on.
CObtain(ask) ==
    /\ ~disabled /\ ~cShutdown
    /\ LET filled == SubOverflow(mRear, mFront)
           part1 == Part1(mRear, ClientAvail(filled), ask)
       IN  IF ~InRange(filled)
             THEN cShutdown' = TRUE /\ cUnreleased' = 0 /\ UNCHANGED buffer
             ELSE /\ part1 > 0
                  /\ written + part1 <= MaxFrames
                  /\ cUnreleased' = part1
                  /\ buffer' = [s \in DOMAIN buffer |->
                                  IF s \in Slot(mRear) .. Slot(mRear) + part1 - 1
                                    THEN Dirty ELSE buffer[s]]
                  /\ UNCHANGED cShutdown
    /\ UNCHANGED <<mFront, mRear, mFlush, mStop, disabled, active, serverVars,
                   mState, cpc, mBufferSizeInFrames, historyVars>>

\* AudioTrack::releaseBuffer() of k frames, up to restartIfDisabled().
CRelease(k) ==
    /\ cpc = "idle" /\ ~cShutdown
    /\ k <= cUnreleased
    /\ cUnreleased' = cUnreleased - k
    /\ buffer' = [s \in DOMAIN buffer |->
                    IF s \in Slot(mRear) .. Slot(mRear) + k - 1
                      THEN written + (s - Slot(mRear)) ELSE buffer[s]]
    /\ mRear' = (mRear + k) % Wrap
    /\ written' = written + k
    /\ cpc' = IF disabled THEN "restart" ELSE "idle"
    /\ torn' = (torn \/ (Missed /\ spc # "last"))
    /\ UNCHANGED <<mFront, mFlush, mStop, disabled, active, serverVars, mState,
                   mBufferSizeInFrames, cShutdown, flushes, limit, limitSeen>>

\* restartIfDisabled(), from releaseBuffer(), or from AudioTrack::obtainBuffer()
\* when the proxy returns NOT_ENOUGH_DATA; it ignores the status of the start.
CRestartIfDisabled(accepted) ==
    /\ cpc \in {"idle", "restart"} /\ disabled
    /\ disabled' = FALSE
    /\ cpc' = "idle"
    /\ IF mState = "ACTIVE"
         THEN TrackStart(accepted)
         ELSE UNCHANGED <<active, mStopLast, mFront, sFlush, sShutdown, limit, limitSeen, torn>>
    /\ UNCHANGED <<mRear, mFlush, mStop, buffer, spc, onlyReady, flush, stop, rear,
                   sUnreleased, flushSeen, mState, cUnreleased, mBufferSizeInFrames,
                   cShutdown, written, flushes>>

-----------------------------------------------------------------------------
(* The client's control thread, under AudioTrack::mLock.                   *)

\* setBufferSizeInFrames(): the size clipped.
ClippedSize(size) ==
    IF mFrameCount < MinimumSize THEN mFrameCount
    ELSE Max({MinimumSize, Min({size, mFrameCount})})

CSetBufferSize(size) ==
    /\ cpc = "idle"
    /\ mBufferSizeInFrames' = ClippedSize(size)
    /\ UNCHANGED <<cblkVars, active, serverVars, mState, cpc, cUnreleased, cShutdown,
                   historyVars>>

\* AudioTrack::start(): the state is restored if the track is rejected.
CStart(accepted) ==
    /\ cpc = "idle" /\ mState # "ACTIVE"
    /\ disabled' = FALSE
    /\ mState' = IF accepted THEN "ACTIVE" ELSE mState
    /\ TrackStart(accepted)
    /\ UNCHANGED <<mRear, mFlush, mStop, buffer, spc, onlyReady, flush, stop, rear,
                   sUnreleased, flushSeen, cpc, cUnreleased, mBufferSizeInFrames, cShutdown,
                   written, flushes>>

CPause ==
    /\ cpc = "idle" /\ mState = "ACTIVE"
    /\ mState' = "PAUSED"
    /\ UNCHANGED <<cblkVars, active, serverVars, cpc, cUnreleased, mBufferSizeInFrames,
                   cShutdown, historyVars>>

\* Mutant of Signal: the counter in the upper bits stays.
SignalInPlace(x) == UpperBits(x) + Masked(mRear)

\* sendStreamingFlushStop(): the next value of mStop or mFlush.
Signal(x) == ((UpperBits(x) + OverflowBit) % Wrap) + Masked(mRear)

\* sendStreamingFlushStop(): the store of mStop, for a stop or a flush.
SendStop ==
    /\ mStop \div OverflowBit < MaxSignals
    /\ mStop' = Signal(mStop)
    /\ limit' = written
    /\ limitSeen' = IF limitSeen = NoLimit THEN NoLimit ELSE written
    /\ UNCHANGED <<mFront, mRear, mFlush, disabled, buffer, active, serverVars, cUnreleased,
                   mBufferSizeInFrames, cShutdown, written, flushes, torn>>

\* AudioTrack::stop().
CStop ==
    /\ cpc = "idle" /\ mState \in {"ACTIVE", "PAUSED"}
    /\ mState' = "STOPPED"
    /\ SendStop
    /\ UNCHANGED cpc

\* AudioTrack::flush(): the stores of mStop and of mFlush, then Track::flush(),
\* which flushes the buffer at once if the mixer does not look at the track.
CFlushStop ==
    /\ cpc = "idle" /\ mState # "ACTIVE"
    /\ mState' = "FLUSHED"
    /\ cpc' = "flush"
    /\ SendStop

CFlushFlush ==
    /\ cpc = "flush"
    /\ mFlush' = Signal(mFlush)
    /\ flushes' = flushes \cup {written}
    /\ cpc' = "binder"
    /\ UNCHANGED <<mFront, mRear, mStop, disabled, buffer, active, serverVars, mState,
                   cUnreleased, mBufferSizeInFrames, cShutdown, written, limit, limitSeen, torn>>

CFlushBinder ==
    /\ cpc = "binder"
    /\ cpc' = "idle"
    /\ IF active \/ mFlush = sFlush
         THEN UNCHANGED <<mFront, sFlush>>
         ELSE mFront' = NewFront(mFront, mRear, mFlush) /\ sFlush' = mFlush
    /\ UNCHANGED <<mRear, mFlush, mStop, disabled, buffer, active, mStopLast, sShutdown, spc,
                   onlyReady, flush, stop, rear, sUnreleased, flushSeen, mState, cUnreleased,
                   mBufferSizeInFrames, cShutdown, historyVars>>

-----------------------------------------------------------------------------
Mixer ==
    \/ SLoadFlush \/ SFlushBuffer \/ SLoadStop \/ SLoadRear
    \/ \E ask \in 1 .. mFrameCount : SObtain(ask)
    \/ \E k \in 0 .. mFrameCount : SRelease(k)
    \/ \E underrun \in BOOLEAN : SDeactivate(underrun)

Client ==
    \/ \E ask \in 1 .. mFrameCount : CObtain(ask)
    \/ \E k \in 1 .. mFrameCount : CRelease(k)
    \/ \E accepted \in BOOLEAN : CRestartIfDisabled(accepted)
    \/ \E size \in 1 .. mFrameCount + 1 : CSetBufferSize(size)
    \/ \E accepted \in BOOLEAN : CStart(accepted)
    \/ CPause \/ CStop \/ CFlushStop \/ CFlushFlush \/ CFlushBinder

Next == Mixer \/ Client
Spec == Init /\ [][Next]_vars

-----------------------------------------------------------------------------
(* Properties.                                                             *)

Counters == 0 .. Wrap - 1
Positions == 0 .. NoLimit

TypeOK ==
    /\ {mFront, mRear, mFlush, mStop, sFlush, mStopLast, flush, stop, rear} \subseteq Counters
    /\ {disabled, cShutdown, active, sShutdown, onlyReady} \subseteq BOOLEAN
    /\ buffer \in [0 .. mFrameCountP2 - 1 -> {Dirty} \cup 0 .. MaxFrames]
    /\ mState \in {"STOPPED", "ACTIVE", "PAUSED", "FLUSHED"}
    /\ cpc \in {"idle", "restart", "flush", "binder"}
    /\ spc \in {"idle", "hold"} \cup {"flush", "stop", "rear", "last"}
    /\ cUnreleased \in 0 .. mFrameCount /\ sUnreleased \in 0 .. mFrameCount
    /\ mBufferSizeInFrames \in 1 .. mFrameCount
    /\ written \in 0 .. MaxFrames /\ {limit, flushSeen, limitSeen} \subseteq Positions
    /\ flushes \subseteq Positions /\ torn \in BOOLEAN

\* Frames the server is done with, as the two counters tell.
read == written - SubOverflow(mRear, mFront)

\* The frames the mixer holds.
playing == IF spc = "hold" THEN sUnreleased ELSE 0

\* The frame whose place in the ring is n frames after mFront.
FrameAt(n) == buffer[Slot(mFront + n)]

\* Unless an obtainBuffer() was torn, the frames between mFront and mRear are the
\* ones the client wrote there, in order: obtaining, filling and flushing on either
\* side never overwrites or skips a frame that is still to be read, across every
\* wrap of the counters.
UnreadFramesIntact ==
    torn \/ \A n \in 0 .. SubOverflow(mRear, mFront) - 1 : FrameAt(n) = read + n

\* Unless an obtainBuffer() was torn, the chunk that the mixer reads lies in what
\* the client has released, and starts at or after the last flush that was stored
\* before obtainBuffer() began: flushed frames are not played.
ChunkIsCurrent ==
    torn \/ (spc = "hold" => read + playing <= written /\ read >= flushSeen)

\* "pipe should not already be overfull": neither proxy ever finds the control block
\* corrupt.  A stop or a flush between the loads of obtainBuffer(), and then a write or
\* a start, refute this.
NeverShutDown == ~cShutdown /\ ~sShutdown

\* Nothing else does: unless an obtainBuffer() was torn, neither proxy shuts down.
SoundUnlessTorn == torn \/ NeverShutDown

\* AudioTrackShared.h: "server will not read beyond this position until start is
\* called".  What obtainBuffer() hands out ends at or before the position of a stop
\* or flush that was complete before it began, if no start came since.  A stop and
\* a write between the loads of getRear() refute this.
StopHolds == spc = "hold" => read + playing <= limitSeen

\* Nothing else does: unless an obtainBuffer() was torn, the stop is kept.
StopHoldsUnlessTorn == torn \/ StopHolds

\* Until an obtainBuffer() is torn, the ring implements the abstract queue of frames:
\* the read position never goes back, and a flush moves it to a flush position
\* exactly.
Fifo == INSTANCE TrackFifo WITH Capacity <- mFrameCount
ImplementsFifo == Fifo!FifoInit /\ [][torn \/ Fifo!FifoNext]_(Fifo!fifoVars)
=============================================================================
