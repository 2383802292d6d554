------------------------------ MODULE FastMixer ------------------------------
(***************************************************************************)
(* The fast mixer thread (FastThread.cpp, FastMixer.cpp) driven by the     *)
(* normal mixer (MixerThread in Threads.cpp) through a StateQueue, and the *)
(* futex that wakes the fast thread from a cold idle.                      *)
(*                                                                         *)
(* begin() .. end() is one step of the normal mixer here: module           *)
(* StateQueue shows that the observer cannot see the slot it writes.       *)
(* kUseFastMixer is FastMixer_Static, the value in Threads.cpp.            *)
(***************************************************************************)
EXTENDS Integers, FiniteSets

CONSTANTS
    kN,                 \* slots of the state queue
    FastTracks,         \* indexes of mFastTracks, the sub-mix excluded
    MaxTracks,          \* bound: tracks that are ever made active
    MaxColdGen          \* bound: cold idles requested

ASSUME FastMixerAssumption ==
    /\ kN \in Nat /\ kN >= 4
    /\ IsFiniteSet(FastTracks) /\ FastTracks \subseteq Nat
    /\ MaxTracks \in Nat /\ MaxColdGen \in Nat

VARIABLES
    (* the state queue *)
    mStates, mNext, mAck, mCurrent, mMutating, mExpecting, mInMutation,
    mIsDirty, mIsInitialized, touched, mpc, block, opc, next, previous,
    (* the fast thread *)
    fpc,                \* where it is in threadLoop()
    current, prior,     \* FastThread::mCurrent and mPrevious
    mPreIdle,           \* copy of the last non-idle state
    mColdGen,
    expected,           \* value the thread waits on in FUTEX_WAIT
    mixer,              \* buffer provider of each track of its AudioMixer
    mGenerations, mFastTracksGen,
    fatal,              \* AudioMixer::create() of a track that exists
    (* the normal mixer *)
    npc, removing,      \* whether it is in push(), and tracksToRemove
    released,           \* tracks that were reset or freed after their removal
    lastTrack,          \* tracks are numbered in the order they become active
    mFastMixerFutex,
    overtaken           \* history: a standby came while the fast thread had not
                        \* yet entered the cold idle before it

queueVars == <<mStates, mNext, mAck, mCurrent, mMutating, mExpecting, mInMutation,
               mIsDirty, mIsInitialized, touched, mpc, block, opc, next, previous>>
mixerVars == <<mixer, mGenerations, mFastTracksGen, fatal>>
fastVars == <<fpc, current, prior, mPreIdle, mColdGen, expected, mixerVars>>
normalVars == <<npc, removing, released, lastTrack, overtaken>>
vars == <<queueVars, fastVars, normalVars, mFastMixerFutex>>

None == 0

\* FastMixerState::sInitial.  mTrackMask is the set of tracks with a provider.
sInitial == [mCommand |-> "INITIAL", mColdGen |-> 0, mFrameCount |-> 0,
             mFastTracksGen |-> 0, mGeneration |-> [j \in FastTracks |-> 0],
             mBufferProvider |-> [j \in FastTracks |-> None]]

mTrackMask(state) == {j \in FastTracks : state.mBufferProvider[j] # None}

SQ == INSTANCE StateQueue WITH T <- {sInitial}, T0 <- sInitial

IDLE == {"HOT_IDLE", "COLD_IDLE"}

\* Pointers of the fast thread: a slot, &sInitial or &mPreIdle.
InitialPtr == kN + 1
PreIdlePtr == kN + 2
Deref(p) == IF p = InitialPtr THEN sInitial ELSE IF p = PreIdlePtr THEN mPreIdle ELSE mStates[p]

Init ==
    /\ SQ!Init
    /\ fpc = "created" /\ current = InitialPtr /\ prior = InitialPtr
    /\ mPreIdle = sInitial /\ mColdGen = 0 /\ expected = 0
    /\ mixer = [j \in FastTracks |-> None]
    /\ mGenerations = [j \in FastTracks |-> 0] /\ mFastTracksGen = 0 /\ fatal = FALSE
    /\ npc = "constructor" /\ removing = {} /\ released = {} /\ lastTrack = 0
    /\ overtaken = FALSE
    /\ mFastMixerFutex = 0

-----------------------------------------------------------------------------
(* The fast thread.                                                        *)

\* poll() finds a state it has not returned before.
PollStep ==
    /\ fpc = "poll"
    /\ SQ!Poll
    /\ fpc' = IF opc = "shift" THEN "adopt" ELSE "poll"
    /\ UNCHANGED <<current, prior, mPreIdle, mColdGen, expected, mixerVars, normalVars, mFastMixerFutex>>

\* Where the switch on mCommand leads.
Dispatch(command) ==
    CASE command = "COLD_IDLE" -> "cold"
      [] command = "EXIT" -> "exited"
      [] command = "MIX_WRITE" -> "change"

\* poll() returns what it returned before (and not NULL: the constructor pushes
\* a state before it starts the thread).
PollSame ==
    /\ fpc = "poll" /\ opc = "use"
    /\ mNext = mCurrent
    /\ fpc' = Dispatch(Deref(current).mCommand)
    /\ UNCHANGED <<queueVars, current, prior, mPreIdle, mColdGen, expected, mixerVars, normalVars,
                   mFastMixerFutex>>

\* Mutant of Adopt: no copy of the last non-idle state (onIdle() dropped).
AdoptWithoutCopy ==
    /\ fpc = "adopt"
    /\ prior' = IF Deref(current).mCommand \in IDLE THEN prior ELSE current
    /\ fpc' = Dispatch(mStates[mCurrent].mCommand)
    /\ current' = mCurrent
    /\ UNCHANGED <<queueVars, mPreIdle, mColdGen, expected, mixerVars, normalVars,
                   mFastMixerFutex>>

\* The update of mPrevious and mCurrent on a new state.  A non-idle state is
\* copied (onIdle) when an idle state replaces it, and is then kept as previous.
Adopt ==
    /\ fpc = "adopt"
    /\ LET command == mStates[mCurrent].mCommand IN
       /\ IF Deref(current).mCommand \in IDLE THEN UNCHANGED <<prior, mPreIdle>>
          ELSE IF command \in IDLE
          THEN prior' = PreIdlePtr /\ mPreIdle' = Deref(current)
          ELSE prior' = current /\ UNCHANGED mPreIdle
       /\ fpc' = Dispatch(command)
    /\ current' = mCurrent
    /\ UNCHANGED <<queueVars, mColdGen, expected, mixerVars, normalVars, mFastMixerFutex>>

\* COLD_IDLE: a cold idle is performed once; the futex is decremented and the
\* thread waits unless the normal mixer has already incremented it.
ColdIdle ==
    /\ fpc = "cold"
    /\ IF Deref(current).mColdGen = mColdGen
       THEN fpc' = "poll" /\ UNCHANGED <<mFastMixerFutex, expected>>
       ELSE /\ mFastMixerFutex' = mFastMixerFutex - 1
            /\ expected' = mFastMixerFutex - 1
            /\ fpc' = IF mFastMixerFutex <= 0 THEN "wait" ELSE "awake"
    /\ UNCHANGED <<queueVars, current, prior, mPreIdle, mColdGen, mixerVars, normalVars>>

\* FUTEX_WAIT on old - 1.
FutexWait ==
    /\ fpc = "wait"
    /\ fpc' = IF mFastMixerFutex = expected THEN "asleep" ELSE "awake"
    /\ UNCHANGED <<queueVars, current, prior, mPreIdle, mColdGen, expected, mixerVars, normalVars,
                   mFastMixerFutex>>

\* The kernel may return from FUTEX_WAIT early; the code does not loop.
SpuriousWake ==
    /\ fpc = "asleep"
    /\ fpc' = "awake"
    /\ UNCHANGED <<queueVars, current, prior, mPreIdle, mColdGen, expected, mixerVars, normalVars,
                   mFastMixerFutex>>

ColdDone ==
    /\ fpc = "awake"
    /\ mColdGen' = Deref(current).mColdGen
    /\ fpc' = "poll"
    /\ UNCHANGED <<queueVars, current, prior, mPreIdle, expected, mixerVars, normalVars,
                   mFastMixerFutex>>

\* onStateChange(): bring the AudioMixer from the previous to the current set
\* of tracks; a change of frame count rebuilds it.  It then counts as processed.
OnStateChange ==
    /\ fpc = "change"
    /\ LET cur == Deref(current)
           old == Deref(prior)
           rebuild == cur.mFrameCount # old.mFrameCount
           mixer0 == IF rebuild THEN [j \in FastTracks |-> None] ELSE mixer
           oldMask == IF rebuild THEN {} ELSE mTrackMask(old)
           curMask == mTrackMask(cur)
           removed == oldMask \ curMask
           added == curMask \ oldMask
           modified == {j \in curMask \cap oldMask : mGenerations[j] # cur.mGeneration[j]}
       IN IF current # prior /\ (rebuild \/ cur.mFastTracksGen # mFastTracksGen)
          THEN /\ mixer' = [j \in FastTracks |->
                              IF j \in removed THEN None
                              ELSE IF j \in added \cup modified THEN cur.mBufferProvider[j]
                              ELSE mixer0[j]]
               /\ mGenerations' = [j \in FastTracks |->
                              IF j \in removed \cup curMask THEN cur.mGeneration[j]
                              ELSE mGenerations[j]]
               /\ mFastTracksGen' = cur.mFastTracksGen
               /\ fatal' = (fatal \/ \E j \in added : mixer0[j] # None)
          ELSE UNCHANGED mixerVars
    /\ prior' = current
    /\ fpc' = "work"
    /\ UNCHANGED <<queueVars, current, mPreIdle, mColdGen, expected, normalVars, mFastMixerFutex>>

\* onWork(): mixes the tracks of the current state and writes to the sink.
OnWork ==
    /\ fpc = "work"
    /\ fpc' = "poll"
    /\ UNCHANGED <<queueVars, current, prior, mPreIdle, mColdGen, expected, mixerVars, normalVars,
                   mFastMixerFutex>>

FastStep == PollStep \/ PollSame \/ Adopt \/ ColdIdle \/ FutexWait \/ ColdDone
            \/ OnStateChange \/ OnWork

-----------------------------------------------------------------------------
(* The normal mixer.                                                       *)

\* What the normal mixer last wrote.
Mutating == mStates[mMutating]

\* begin(), write state, end(TRUE) and the entry of push(b).
MutateAndPush(state, b) ==
    /\ mpc = "idle"
    /\ mStates' = [mStates EXCEPT ![mMutating] = state]
    /\ mIsDirty' = TRUE /\ mIsInitialized' = TRUE
    /\ mpc' = "prior" /\ block' = b
    /\ npc' = "push"
    /\ UNCHANGED <<mNext, mAck, mCurrent, mMutating, mExpecting, mInMutation, touched,
                   opc, next, previous>>

\* MixerThread constructor: the first state, then the thread is started.
Construct ==
    /\ npc = "constructor"
    /\ MutateAndPush([sInitial EXCEPT !.mCommand = "COLD_IDLE", !.mColdGen = 1,
                                      !.mFrameCount = 1, !.mFastTracksGen = 1],
                     "BLOCK_UNTIL_PUSHED")
    /\ UNCHANGED <<fastVars, removing, released, lastTrack, overtaken, mFastMixerFutex>>

RunFastMixer ==
    /\ fpc = "created" /\ npc = "cycle"
    /\ fpc' = "poll"
    /\ UNCHANGED <<queueVars, current, prior, mPreIdle, mColdGen, expected, mixerVars, normalVars,
                   mFastMixerFutex>>

\* Mutant of PrepareBlock: removed tracks are not acknowledged.
PrepareBlockPushed(rem) ==
    IF Mutating.mCommand = "COLD_IDLE" THEN "BLOCK_NEVER" ELSE "BLOCK_UNTIL_PUSHED"

\* How prepareTracks_l() pushes: removed tracks must be acknowledged, and in a
\* cold idle it does not block.
PrepareBlock(rem) ==
    IF Mutating.mCommand = "COLD_IDLE" THEN "BLOCK_NEVER"
    ELSE IF rem # {} THEN "BLOCK_UNTIL_ACKED" ELSE "BLOCK_UNTIL_PUSHED"

\* The fast track part of prepareTracks_l(): the tracks rem become inactive,
\* those of add become active.
PrepareTracks(rem, add) ==
    /\ npc = "cycle" /\ fpc # "created"
    /\ lastTrack + Cardinality(add) <= MaxTracks
    /\ LET NewTrack(j) == lastTrack + Cardinality({i \in add : i <= j})
           didModify == rem \cup add # {}
           b == PrepareBlock(rem)
       IN \/ /\ didModify
             /\ MutateAndPush([Mutating EXCEPT
                  !.mFastTracksGen = @ + 1,
                  !.mGeneration = [j \in FastTracks |-> IF j \in rem \cup add THEN @[j] + 1 ELSE @[j]],
                  !.mBufferProvider = [j \in FastTracks |->
                      IF j \in rem THEN None ELSE IF j \in add THEN NewTrack(j) ELSE @[j]]], b)
          \/ /\ ~didModify
             /\ SQ!Push(b)
             /\ npc' = "push"
    /\ removing' = {Mutating.mBufferProvider[j] : j \in rem}
    /\ lastTrack' = lastTrack + Cardinality(add)
    /\ UNCHANGED <<fastVars, released, overtaken, mFastMixerFutex>>

\* Mutant of WakeFastThread: FUTEX_WAKE on the wrong old value.
WakeFastThreadLate ==
    IF Mutating.mCommand = "COLD_IDLE"
    THEN /\ mFastMixerFutex' = mFastMixerFutex + 1
         /\ fpc' = IF mFastMixerFutex = 0 /\ fpc = "asleep" THEN "awake" ELSE fpc
    ELSE UNCHANGED <<mFastMixerFutex, fpc>>

\* Wake the fast thread from a cold idle: android_atomic_inc() and FUTEX_WAKE.
WakeFastThread ==
    IF Mutating.mCommand = "COLD_IDLE"
    THEN /\ mFastMixerFutex' = mFastMixerFutex + 1
         /\ fpc' = IF mFastMixerFutex = -1 /\ fpc = "asleep" THEN "awake" ELSE fpc
    ELSE UNCHANGED <<mFastMixerFutex, fpc>>

\* threadLoop_write(): start the fast mixer if it is not already running.
ThreadLoopWrite ==
    /\ npc = "cycle" /\ fpc # "created"
    /\ Mutating.mCommand # "MIX_WRITE"
    /\ MutateAndPush([Mutating EXCEPT !.mCommand = "MIX_WRITE"], "BLOCK_UNTIL_PUSHED")
    /\ WakeFastThread
    /\ UNCHANGED <<current, prior, mPreIdle, mColdGen, expected, mixerVars, removing, released, lastTrack,
                   overtaken>>

\* Mutant of ThreadLoopStandby: does not wait for the acknowledgement.
ThreadLoopStandbyPushed ==
    /\ npc = "cycle"
    /\ Mutating.mCommand = "MIX_WRITE"
    /\ Mutating.mColdGen < MaxColdGen
    /\ MutateAndPush([Mutating EXCEPT !.mCommand = "COLD_IDLE", !.mColdGen = @ + 1],
                     "BLOCK_UNTIL_PUSHED")
    /\ mFastMixerFutex' = 0
    /\ overtaken' = (overtaken \/ mColdGen # Mutating.mColdGen)
    /\ UNCHANGED <<fastVars, removing, released, lastTrack>>

\* threadLoop_standby(): idle the fast mixer if it is currently running.
ThreadLoopStandby ==
    /\ npc = "cycle"
    /\ Mutating.mCommand = "MIX_WRITE"
    /\ Mutating.mColdGen < MaxColdGen
    /\ MutateAndPush([Mutating EXCEPT !.mCommand = "COLD_IDLE", !.mColdGen = @ + 1],
                     "BLOCK_UNTIL_ACKED")
    /\ mFastMixerFutex' = 0
    /\ overtaken' = (overtaken \/ mColdGen # Mutating.mColdGen)
    /\ UNCHANGED <<fastVars, removing, released, lastTrack>>

\* Mutant of Destroy: a sleeping fast thread is not woken.
DestroyAsleep ==
    /\ npc = "cycle" /\ fpc # "created"
    /\ MutateAndPush([Mutating EXCEPT !.mCommand = "EXIT"], "BLOCK_UNTIL_PUSHED")
    /\ UNCHANGED <<fastVars, removing, released, lastTrack, overtaken, mFastMixerFutex>>

\* ~MixerThread(): tell the fast thread to exit, and join it.
Destroy ==
    /\ npc = "cycle" /\ fpc # "created"
    /\ MutateAndPush([Mutating EXCEPT !.mCommand = "EXIT"], "BLOCK_UNTIL_PUSHED")
    /\ WakeFastThread
    /\ UNCHANGED <<current, prior, mPreIdle, mColdGen, expected, mixerVars, removing, released, lastTrack,
                   overtaken>>

\* The steps of push().
PushStep ==
    /\ npc = "push"
    /\ SQ!PushStep
    /\ UNCHANGED <<fastVars, normalVars, mFastMixerFutex>>

\* push() has returned: prepareTracks_l() resets and lets go of what it removed.
PushReturn ==
    /\ npc = "push" /\ mpc = "idle"
    /\ npc' = IF Mutating.mCommand = "EXIT" THEN "join" ELSE "cycle"
    /\ released' = released \cup removing
    /\ removing' = {}
    /\ UNCHANGED <<queueVars, fastVars, lastTrack, overtaken, mFastMixerFutex>>

Join ==
    /\ npc = "join" /\ fpc = "exited"
    /\ npc' = "destroyed"
    /\ UNCHANGED <<queueVars, fastVars, removing, released, lastTrack, overtaken, mFastMixerFutex>>

\* Nothing is left to do.
Destroyed == npc = "destroyed" /\ UNCHANGED vars

PrepareAny ==
    \E rem \in SUBSET mTrackMask(Mutating) :
        \E add \in SUBSET (FastTracks \ mTrackMask(Mutating)) : PrepareTracks(rem, add)

Next ==
    \/ FastStep \/ SpuriousWake
    \/ Construct \/ RunFastMixer \/ PrepareAny \/ ThreadLoopWrite \/ ThreadLoopStandby
    \/ Destroy \/ PushStep \/ PushReturn \/ Join \/ Destroyed

\* Both threads keep running; nobody has to go to standby, write or exit, and
\* the kernel does not have to wake the fast thread by itself.
Fairness ==
    /\ WF_vars(FastStep) /\ WF_vars(RunFastMixer)
    /\ WF_vars(PushStep) /\ WF_vars(PushReturn) /\ WF_vars(Join)

Spec == Init /\ [][Next]_vars
FairSpec == Spec /\ Fairness
-----------------------------------------------------------------------------
FastMixerStates ==
    [mCommand : {"INITIAL", "COLD_IDLE", "MIX_WRITE", "EXIT"}, mColdGen : Nat, mFrameCount : Nat,
     mFastTracksGen : Nat, mGeneration : [FastTracks -> Nat],
     mBufferProvider : [FastTracks -> Nat]]

\* Type invariant of the queue, of the fast thread and of what the normal mixer keeps.
TypeOK ==
    /\ mStates \in [SQ!Slots -> FastMixerStates] /\ mPreIdle \in FastMixerStates
    /\ {mNext, mAck, mCurrent, mExpecting, next, previous} \subseteq SQ!Slots \cup {SQ!NULL}
    /\ mMutating \in SQ!Slots
    /\ mpc \in {"idle", "prior", "publish", "copy", "acked"} /\ block \in SQ!Blocks
    /\ opc \in {"use", "ack", "shift"}
    /\ fpc \in {"created", "poll", "adopt", "cold", "wait", "asleep", "awake", "change",
                "work", "exited"}
    /\ mixer \in [FastTracks -> Nat] /\ mGenerations \in [FastTracks -> Nat]
    /\ {mColdGen, mFastTracksGen, lastTrack} \subseteq Nat
    /\ {expected, mFastMixerFutex} \subseteq Int
    /\ npc \in {"constructor", "cycle", "push", "join", "destroyed"}
    /\ removing \cup released \subseteq 1 .. lastTrack

\* "we must wait for acknowledgement because we're about to decrement the last
\* sp<> on those tracks": the fast mixer never mixes from a track that
\* prepareTracks_l() has reset or released, whether it was removed while the
\* mixer was running (acknowledged) or idle (BLOCK_NEVER).
NoUseAfterRelease ==
    fpc = "work" =>
        \A j \in FastTracks : /\ mixer[j] \notin released
                              /\ Deref(current).mBufferProvider[j] \notin released

\* The AudioMixer of the fast thread follows the state it works from: the diff
\* against the previous state survives idle states, squashed and repeated
\* changes, and a slot that changes hands while the thread is asleep.
MixerMatchesState == fpc = "work" => ~fatal /\ mixer = Deref(current).mBufferProvider

\* "we need it to stop doing I/O now": when threadLoop_standby() has returned,
\* the fast mixer neither mixes nor writes until threadLoop_write() restarts it.
NoWorkInStandby ==
    npc = "cycle" /\ Mutating.mCommand = "COLD_IDLE" => fpc \notin {"change", "work"}

\* "For BLOCK_UNTIL_PUSHED and BLOCK_UNTIL_ACKED, always returns true": the normal
\* mixer never hangs in push(), and ~MixerThread() gets past join(), a fast thread in
\* cold idle being woken to exit.  That is so if no standby has overtaken the fast
\* thread on its way into the cold idle: the futex handshake loses no other wake-up.
NeverHangs ==
    /\ (npc = "push") ~> (npc # "push" \/ overtaken)
    /\ (npc = "join") ~> (npc = "destroyed" \/ overtaken)

\* After threadLoop_write() the fast mixer works, unless it is told to stop, or
\* a standby has overtaken it.
WriteStartsMixing ==
    (npc = "cycle" /\ Mutating.mCommand = "MIX_WRITE") ~>
        (fpc = "work" \/ Mutating.mCommand # "MIX_WRITE" \/ overtaken)
=============================================================================
