---------------------------- MODULE StaticTrack ----------------------------
(***************************************************************************)
(* A static AudioTrack: the client puts all of its data into shared memory *)
(* and afterwards only sets the position and the loop, with                *)
(* StaticAudioTrackClientProxy; StaticAudioTrackServerProxy adopts the     *)
(* settings, plays, and publishes where it is (AudioTrackShared.cpp).      *)
(*                                                                         *)
(* Settings go through a SingleStateQueue, taken here as the register that *)
(* it implements.  Of the second queue, for the position, only the last    *)
(* value and whether it is new to the client are kept.                     *)
(***************************************************************************)
EXTENDS Integers, Sequences

CONSTANTS
    mFrameCount, MIN_LOOP,
    INT64_MAX,              \* more than any number of frames ready
    Loops, Positions,       \* what the application sets
    INITIAL_RETRIES,        \* tries of a re-creation
    MaxSequence,            \* bound on the settings between two creations of the track
    MaxRestores             \* bound on the times that the track has to be re-created

\* What AudioTrack::setLoop() and setPosition() let through.
LoopOK(l) ==
    \/ l.mLoopCount = 0
    \/ /\ l.mLoopCount >= -1
       /\ l.mLoopStart < l.mLoopEnd /\ l.mLoopEnd <= mFrameCount
       /\ l.mLoopEnd - l.mLoopStart >= MIN_LOOP

NoLoop == [mLoopStart |-> 0, mLoopEnd |-> 0, mLoopCount |-> 0]

ASSUME FramesAssumption ==
    /\ mFrameCount \in Nat \ {0} /\ MIN_LOOP \in Nat \ {0}
    /\ INT64_MAX \in Nat /\ INT64_MAX > mFrameCount
    /\ INITIAL_RETRIES \in Nat \ {0} /\ MaxSequence \in Nat /\ MaxRestores \in Nat
    /\ Positions \subseteq 0 .. mFrameCount
    /\ Loops \subseteq [mLoopStart : Nat, mLoopEnd : Nat, mLoopCount : Int]
    /\ \A l \in Loops :
           LoopOK(l) /\ INT64_MAX > l.mLoopCount * mFrameCount + mFrameCount

StaticAudioTrackState ==
    [mLoopStart : Nat, mLoopEnd : Nat, mLoopCount : Int, mLoopSequence : Nat,
     mPosition : Nat, mPositionSequence : Nat]
ZeroState ==
    [mLoopStart |-> 0, mLoopEnd |-> 0, mLoopCount |-> 0, mLoopSequence |-> 0,
     mPosition |-> 0, mPositionSequence |-> 0]
\* asOf is the sequence number of the settings that a position takes into account.
ZeroPosLoop == [mBufferPosition |-> 0, mLoopCount |-> 0, asOf |-> 0]

VARIABLES
    \* the queue of settings: what was pushed, what was polled, the acknowledgement
    pushed, sequence, polled, polledAs, acked, acted,
    posLoop, isNew,     \* the queue of positions: the last one, and if it is new
    mFlags,             \* CBLK_INVALID; the flags that only processAudioBuffer() reads are left out
    \* AudioTrack and its proxy
    mState,             \* of AudioTrack
    mLoop,              \* of AudioTrack: the loop that was set last
    cpc, todo,          \* in push() or not, and what is left to be done in this call
    state, mPosLoop,    \* of the proxy
    restores,
    \* the server's Track, and its proxy
    tstate, serving,    \* its state, and whether it is in the mixer's active list
    phase, spc,         \* who uses the proxy, and where it is in its call
    server,             \* StaticAudioTrackState
    mFramesReady, mUnreleased, mIsShutdown,
    \* history
    diverged,           \* frames were played, or a setting was replaced unread, since
                        \* the client last read a position
    saved               \* what a restoration under way has to bring back, or nothing

settingsQueue == <<pushed, sequence, polled, polledAs, acked, acted>>
posLoopQueue == <<posLoop, isNew>>
appVars == <<mState, mLoop, restores>>
clientVars == <<cpc, todo, state, mPosLoop>>
trackVars == <<tstate, serving>>
bufferVars == <<server, mFramesReady, mUnreleased>>
serverVars == <<phase, spc, bufferVars, mIsShutdown>>
history == <<diverged, saved>>
vars == <<settingsQueue, posLoopQueue, mFlags, appVars, clientVars, trackVars, serverVars,
          history>>

Settings == INSTANCE StateRegister WITH
    Values <- StaticAudioTrackState, Initially <- ZeroState,
    last <- pushed, observed <- polled, observedAs <- polledAs

\* A new control block and new proxies on both sides.
Fresh ==
    /\ pushed' = ZeroState /\ sequence' = 0 /\ polled' = ZeroState /\ polledAs' = 0
    /\ acked' = 0 /\ acted' = FALSE
    /\ posLoop' = ZeroPosLoop /\ isNew' = FALSE /\ mFlags' = {}
    /\ state' = ZeroState /\ mPosLoop' = ZeroPosLoop
    /\ tstate' = "STOPPED" /\ serving' = FALSE
    /\ phase' = "prepare" /\ spc' = "idle" /\ server' = ZeroState
    /\ mFramesReady' = mFrameCount /\ mUnreleased' = 0 /\ mIsShutdown' = FALSE
    /\ diverged' = FALSE

Init ==
    /\ Settings!RegisterInit
    /\ posLoop = ZeroPosLoop /\ isNew = FALSE /\ mFlags = {}
    /\ mState = "STOPPED" /\ mLoop = NoLoop /\ restores = 0
    /\ cpc = "idle" /\ todo = <<>> /\ state = ZeroState /\ mPosLoop = ZeroPosLoop
    /\ tstate = "STOPPED" /\ serving = FALSE
    /\ phase = "prepare" /\ spc = "idle" /\ server = ZeroState
    /\ mFramesReady = mFrameCount /\ mUnreleased = 0 /\ mIsShutdown = FALSE
    /\ diverged = FALSE /\ saved = <<>>

-----------------------------------------------------------------------------
(* StaticAudioTrackClientProxy.  AudioTrack calls it with its lock held.   *)

\* incrementSequence(), away from the wraparound of its numbers.
incrementSequence(self, other) == IF self >= other THEN self + 1 ELSE other + 1

\* Mutant of SSQ_DONE: the settings have been read only.
SSQ_READ == acked = sequence /\ ~acted

\* ack(): the settings have taken effect.
SSQ_DONE == acked = sequence /\ acted

\* Mutant of getBufferPositionAndLoopCount: without a look at the acknowledgement.
GetAlways ==
    {got \in [mPosLoop : {mPosLoop, posLoop}, isNew : BOOLEAN] :
        \/ isNew /\ got = [mPosLoop |-> posLoop, isNew |-> FALSE]
        \/ /\ ~isNew \/ spc \in {"publish", "held"}
           /\ got = [mPosLoop |-> mPosLoop, isNew |-> isNew]}

\* getBufferPositionAndLoopCount(): what mPosLoop can be afterwards.  The position
\* is frozen until the settings have taken effect.  poll() can fail while the
\* server is in push().
getBufferPositionAndLoopCount ==
    {got \in [mPosLoop : {mPosLoop, posLoop}, isNew : BOOLEAN] :
        \/ SSQ_DONE /\ isNew /\ got = [mPosLoop |-> posLoop, isNew |-> FALSE]
        \/ /\ ~SSQ_DONE \/ ~isNew \/ spc \in {"publish", "held"}
           /\ got = [mPosLoop |-> mPosLoop, isNew |-> isNew]}

\* History: the client reads a position or not, and replaces an unread setting or not.
Remember(replaces) == diverged' = ((diverged /\ isNew = isNew') \/ replaces)

setLoop(l) ==
    /\ state' = [state EXCEPT !.mLoopStart = l.mLoopStart, !.mLoopEnd = l.mLoopEnd,
                     !.mLoopCount = l.mLoopCount,
                     !.mLoopSequence = incrementSequence(@, state.mPositionSequence)]
    /\ \E got \in getBufferPositionAndLoopCount :
          /\ isNew' = got.isNew
          /\ LET position == got.mPosLoop.mBufferPosition IN
             mPosLoop' = [mBufferPosition |-> IF l.mLoopCount # 0 /\ position >= l.mLoopEnd
                                              THEN l.mLoopStart ELSE position,
                          mLoopCount |-> l.mLoopCount, asOf |-> sequence + 2]
    /\ Remember(pushed.mLoopSequence # polled.mLoopSequence)

setBufferPosition(position) ==
    /\ state' = [state EXCEPT !.mPosition = position,
                     !.mPositionSequence = incrementSequence(@, state.mLoopSequence)]
    /\ \E got \in IF state.mLoopCount > 0 THEN getBufferPositionAndLoopCount
                                          ELSE {[mPosLoop |-> mPosLoop, isNew |-> isNew]} :
          /\ isNew' = got.isNew
          /\ mPosLoop' = [mBufferPosition |-> position,
                          mLoopCount |-> IF position >= state.mLoopEnd THEN 0
                                                                       ELSE got.mPosLoop.mLoopCount,
                          asOf |-> sequence + 2]
    /\ Remember(pushed.mPositionSequence # polled.mPositionSequence)

\* A setting is prepared,
Prepare ==
    /\ cpc = "idle" /\ todo # <<>> /\ Head(todo).kind \in {"loop", "position"}
    /\ LET setting == Head(todo) IN
          IF setting.kind = "loop" THEN setLoop(setting.loop)
                                   ELSE setBufferPosition(setting.position)
    /\ cpc' = "push" /\ todo' = Tail(todo)
    /\ UNCHANGED <<settingsQueue, posLoop, mFlags, appVars, trackVars, serverVars, saved>>

\* and pushed.
Push ==
    /\ cpc = "push"
    /\ pushed' = state /\ Settings!Write
    /\ cpc' = "idle"
    /\ saved' = IF \E i \in DOMAIN todo : todo[i].kind # "start" THEN saved ELSE <<>>
    /\ UNCHANGED <<posLoopQueue, mFlags, appVars, todo, state, mPosLoop, trackVars, serverVars,
                   diverged>>

-----------------------------------------------------------------------------
(* AudioTrack.                                                             *)

LoopSetting(l) == [kind |-> "loop", loop |-> l]
PositionSetting(p) == [kind |-> "position", position |-> p]

\* AudioTrack's lock is free, and so many settings are within the bound.
MayCall(n) ==
    cpc = "idle" /\ todo = <<>> /\ phase # "start" /\ sequence + 2 * n <= 2 * MaxSequence

SetLoop(l) ==
    /\ MayCall(1) /\ mState # "ACTIVE"
    /\ mLoop' = l /\ todo' = <<LoopSetting(l)>>
    /\ UNCHANGED <<settingsQueue, posLoopQueue, mFlags, mState, restores, cpc, state, mPosLoop,
                   trackVars, serverVars, history>>

\* setPosition(), and reload() for 0.
SetPosition(p) ==
    /\ MayCall(1) /\ mState # "ACTIVE"
    /\ todo' = <<PositionSetting(p)>>
    /\ UNCHANGED <<settingsQueue, posLoopQueue, mFlags, appVars, cpc, state, mPosLoop, trackVars,
                   serverVars, history>>

\* getBufferPosition(), and the look at the position in processAudioBuffer().
GetBufferPosition ==
    /\ MayCall(0)
    /\ \E got \in getBufferPositionAndLoopCount :
           isNew' = got.isNew /\ mPosLoop' = got.mPosLoop
    /\ Remember(FALSE)
    /\ UNCHANGED <<settingsQueue, posLoop, mFlags, appVars, cpc, todo, state, trackVars,
                   serverVars, saved>>

\* The lock of the thread that mixes the track: held throughout prepareTracks_l(),
\* free while it mixes.
LockFree == phase = "mix" \/ (phase = "prepare" /\ spc = "idle")

\* Track::start(): a track that is not in the active list is put there, and its
\* proxy polls the settings before the mixer looks at it.
TrackStart ==
    /\ LockFree
    /\ tstate' = "ACTIVE" /\ serving' = TRUE
    /\ phase' = IF serving THEN phase ELSE "start"
    /\ UNCHANGED <<spc, bufferVars, mIsShutdown>>

\* Track::start() that the audio policy rejects: the settings are polled all the same.
TrackStartRejected ==
    /\ LockFree /\ ~serving
    /\ phase' = "start"
    /\ UNCHANGED <<trackVars, spc, bufferVars, mIsShutdown>>

Start ==
    /\ MayCall(0) /\ mState # "ACTIVE" /\ "CBLK_INVALID" \notin mFlags
    /\ \/ TrackStart /\ mState' = "ACTIVE"
       \/ TrackStartRejected /\ UNCHANGED mState
    /\ UNCHANGED <<settingsQueue, posLoopQueue, mFlags, mLoop, restores, clientVars, history>>

\* pause(), and Track::pause(): the mixer fades the track out in its next pass.
Pause ==
    /\ MayCall(0) /\ LockFree /\ mState = "ACTIVE"
    /\ mState' = "PAUSED"
    /\ tstate' = "PAUSING"
    /\ UNCHANGED <<settingsQueue, posLoopQueue, mFlags, mLoop, restores, clientVars, serving,
                   serverVars, history>>

\* stop(), and Track::stop(); position and loop are reset when it has returned.
Stop ==
    /\ MayCall(2) /\ LockFree /\ mState # "STOPPED"
    /\ mState' = "STOPPED" /\ tstate' = "STOPPED"
    /\ todo' = <<LoopSetting(NoLoop), PositionSetting(0)>>
    /\ UNCHANGED <<settingsQueue, posLoopQueue, mFlags, mLoop, restores, cpc, state, mPosLoop,
                   serving, serverVars, history>>

\* Mutant of Restoration: the loop is not restored.
RestorePosition(shown) == <<PositionSetting(shown.mBufferPosition)>>

\* What restoreTrack_l() sets, from the position and loop count it has saved.
Restoration(shown) ==
    LET position == PositionSetting(shown.mBufferPosition) IN
    IF shown.mLoopCount # 0
    THEN <<LoopSetting([mLoop EXCEPT !.mLoopCount = shown.mLoopCount]), position>>
    ELSE <<position>>

\* restoreTrack_l(), in start() or in another call: the server has invalidated the
\* track, and the client keeps what it shows,
Restore(starts) ==
    /\ MayCall(0) /\ restores < MaxRestores
    /\ starts => mState # "ACTIVE"
    /\ restores' = restores + 1
    /\ mState' = IF starts THEN "ACTIVE" ELSE mState
    /\ \E got \in getBufferPositionAndLoopCount :
          /\ isNew' = got.isNew /\ mPosLoop' = got.mPosLoop
          /\ todo' = <<[kind |-> "create", shown |-> got.mPosLoop,
                        retries |-> INITIAL_RETRIES, previous |-> mState]>>
    /\ Remember(FALSE)
    /\ UNCHANGED <<settingsQueue, posLoop, mFlags, mLoop, cpc, state, trackVars, serverVars,
                   saved>>

\* creates it again, with no thread that mixes it, and sets what it has kept,
Create ==
    /\ cpc = "idle" /\ todo # <<>> /\ Head(todo).kind = "create" /\ phase # "start"
    /\ saved' = <<Head(todo).shown>>
    /\ todo' = Restoration(Head(todo).shown)
                   \o (IF mState = "ACTIVE" THEN <<[Head(todo) EXCEPT !.kind = "start"]>>
                                            ELSE <<>>)
    /\ Fresh
    /\ UNCHANGED <<mState, mLoop, restores, cpc>>

\* and starts it again.
Restart ==
    /\ cpc = "idle" /\ todo # <<>> /\ Head(todo).kind = "start"
    /\ TrackStart
    /\ todo' = Tail(todo)
    /\ UNCHANGED <<settingsQueue, posLoopQueue, mFlags, appVars, cpc, state, mPosLoop, history>>

\* If it cannot be created or started it is created once more, up to a limit; then
\* it is marked to be restored at the next occasion.
Retry ==
    /\ cpc = "idle" /\ todo # <<>>
    /\ \/ /\ Head(todo).kind = "create" /\ phase # "start"
          /\ UNCHANGED <<trackVars, serverVars>>
       \/ Head(todo).kind = "start" /\ TrackStartRejected
    /\ IF Head(todo).retries > 1
       THEN /\ todo' = <<[Head(todo) EXCEPT !.kind = "create", !.retries = @ - 1]>>
            /\ UNCHANGED <<mFlags, mState>>
       ELSE /\ todo' = <<>>
            /\ mFlags' = mFlags \cup {"CBLK_INVALID"}
            /\ mState' = Head(todo).previous
    /\ UNCHANGED <<settingsQueue, posLoopQueue, mLoop, restores, cpc, state, mPosLoop, history>>

-----------------------------------------------------------------------------
(* StaticAudioTrackServerProxy, called by the thread that mixes the track. *)

\* updateStateWithLoop() and updateStateWithPosition(), for valid settings.
WithLoop(local, update) ==
    IF local.mLoopSequence = update.mLoopSequence THEN local
    ELSE [update EXCEPT
             !.mPosition = IF update.mLoopCount # 0 /\ local.mPosition >= update.mLoopEnd
                           THEN update.mLoopStart ELSE local.mPosition,
             !.mPositionSequence = local.mPositionSequence]

\* Mutant of WithPosition: the loop goes on beyond its end.
WithPositionOnly(local, update) ==
    IF local.mPositionSequence = update.mPositionSequence THEN local
    ELSE [local EXCEPT !.mPosition = update.mPosition,
                       !.mPositionSequence = update.mPositionSequence]

WithPosition(local, update) ==
    IF local.mPositionSequence = update.mPositionSequence THEN local
    ELSE [local EXCEPT !.mLoopCount = IF update.mPosition >= local.mLoopEnd THEN 0 ELSE @,
                       !.mPosition = update.mPosition,
                       !.mPositionSequence = update.mPositionSequence]

\* Mutant of Adopted: the loop is always first.
AdoptedLoopFirst(local, update) == WithPosition(WithLoop(local, update), update)

\* pollPosition(): the setting that was made first is adopted first.
Adopted(local, update) ==
    IF update.mLoopSequence < update.mPositionSequence
    THEN WithPosition(WithLoop(local, update), update)
    ELSE WithLoop(WithPosition(local, update), update)

\* What makes the server shut a client down.
Invalid(local, update) ==
    \/ local.mLoopSequence # update.mLoopSequence /\ ~LoopOK(update)
    \/ local.mLoopSequence # update.mLoopSequence /\ WithLoop(local, update).mPosition > mFrameCount
    \/ local.mPositionSequence # update.mPositionSequence /\ update.mPosition > mFrameCount

FramesReady(s) ==
    CASE s.mLoopCount = -1 -> INT64_MAX
      [] s.mLoopCount = 0 -> mFrameCount - s.mPosition
      [] s.mLoopCount > 0 -> s.mLoopCount * (s.mLoopEnd - s.mLoopStart)
                                 + mFrameCount - s.mPosition

Published(s, as) == [mBufferPosition |-> s.mPosition, mLoopCount |-> s.mLoopCount, asOf |-> as]

\* Somebody who may use the proxy is about to poll: Track::start(), prepareTracks_l()
\* in framesReady(), or the mixer in obtainBuffer().
Polls ==
    /\ spc = "idle" /\ ~mIsShutdown
    /\ phase = "prepare" => serving /\ tstate # "STOPPED"

\* pollPosition(): there is something new,
PollPosition ==
    /\ Polls
    /\ Settings!Read
    /\ spc' = "polled"
    /\ UNCHANGED <<posLoopQueue, mFlags, appVars, clientVars, trackVars, phase, bufferVars,
                   mIsShutdown, history>>

\* or not, or the client is in push().
PollNothing ==
    /\ Polls
    /\ sequence = polledAs \/ cpc = "push"
    /\ spc' = "ready"
    /\ UNCHANGED <<settingsQueue, posLoopQueue, mFlags, appVars, clientVars, trackVars, phase,
                   bufferVars, mIsShutdown, history>>

\* The settings are adopted,
Adopt ==
    /\ spc = "polled"
    /\ Settings!Acknowledge
    /\ IF Invalid(server, polled)
       THEN mIsShutdown' = TRUE /\ spc' = "done" /\ UNCHANGED <<server, mFramesReady>>
       ELSE /\ server' = Adopted(server, polled)
            /\ mFramesReady' = FramesReady(server')
            /\ spc' = "publish" /\ UNCHANGED mIsShutdown
    /\ UNCHANGED <<posLoopQueue, mFlags, appVars, clientVars, trackVars, phase, mUnreleased,
                   history>>

\* the position is published,
Publish ==
    /\ spc = "publish"
    /\ posLoop' = Published(server, polledAs) /\ isNew' = TRUE
    /\ spc' = "done"
    /\ UNCHANGED <<settingsQueue, mFlags, appVars, clientVars, trackVars, phase, bufferVars,
                   mIsShutdown, history>>

\* and the client may look at it.
ObserverDone ==
    /\ spc = "done"
    /\ Settings!Act
    /\ spc' = "ready"
    /\ UNCHANGED <<posLoopQueue, mFlags, appVars, clientVars, trackVars, phase, bufferVars,
                   mIsShutdown, history>>

\* Track::start() has called obtainBuffer() for nothing but its pollPosition().
Started ==
    /\ spc = "ready" /\ phase = "start"
    /\ spc' = "idle" /\ phase' = "prepare"
    /\ UNCHANGED <<settingsQueue, posLoopQueue, mFlags, appVars, clientVars, trackVars,
                   bufferVars, mIsShutdown, history>>

\* prepareTracks_l(): the track will be mixed, for the last time if it is pausing,
PrepareMix ==
    /\ spc = "ready" /\ phase = "prepare"
    /\ mFramesReady >= 1 /\ tstate # "PAUSED"
    /\ tstate' = IF tstate = "PAUSING" THEN "PAUSED" ELSE tstate
    /\ spc' = "idle" /\ phase' = "mix"
    /\ UNCHANGED <<settingsQueue, posLoopQueue, mFlags, appVars, clientVars, serving, bufferVars,
                   mIsShutdown, history>>

\* or not: once its frames have been presented it leaves the active list.
PrepareNoMix ==
    /\ phase = "prepare" /\ serving
    /\ \/ spc = "ready" /\ (mFramesReady = 0 \/ tstate = "PAUSED")
       \/ spc = "idle" /\ tstate = "STOPPED"
    /\ spc' = "idle" /\ serving' \in BOOLEAN
    /\ UNCHANGED <<settingsQueue, posLoopQueue, mFlags, appVars, clientVars, tstate, phase,
                   bufferVars, mIsShutdown, history>>

\* Where the next buffer ends at the latest.
End == IF server.mLoopCount # 0 THEN server.mLoopEnd ELSE mFrameCount

\* obtainBuffer() after its pollPosition().  Without frames the round is over.
Obtain(wanted) ==
    /\ spc = "ready" /\ phase = "mix" /\ ~mIsShutdown
    /\ LET avail == IF server.mPosition < End THEN End - server.mPosition ELSE 0
           frames == IF avail < wanted THEN avail ELSE wanted
       IN /\ mUnreleased' = frames
          /\ IF frames = 0 THEN spc' = "idle" /\ phase' = "prepare"
                           ELSE spc' = "held" /\ phase' = "mix"
    /\ UNCHANGED <<settingsQueue, posLoopQueue, mFlags, appVars, clientVars, trackVars, server,
                   mFramesReady, mIsShutdown, history>>

\* Mutant of Advanced: the passes through the loop are not counted.
AdvancedForever(moved) ==
    IF server.mLoopCount # 0 /\ moved = server.mLoopEnd
    THEN [server EXCEPT !.mPosition = server.mLoopStart]
    ELSE [server EXCEPT !.mPosition = IF moved <= mFrameCount THEN moved ELSE mFrameCount]

\* The server's state when it has come to a position: at the end of a loop it
\* goes back to its start.
Advanced(moved) ==
    IF server.mLoopCount # 0 /\ moved = server.mLoopEnd
    THEN [server EXCEPT !.mPosition = server.mLoopStart,
                        !.mLoopCount = IF @ = -1 THEN -1 ELSE @ - 1]
    ELSE [server EXCEPT !.mPosition = IF moved <= mFrameCount THEN moved ELSE mFrameCount]

\* releaseBuffer(), its push of the position included.  The mixer obtains another
\* buffer, or its round is over.
Release(stepCount) ==
    /\ spc = "held" /\ stepCount \in 1 .. mUnreleased
    /\ mUnreleased' = mUnreleased - stepCount
    /\ server' = Advanced(server.mPosition + stepCount)
    /\ mFramesReady' = IF mFramesReady = INT64_MAX THEN INT64_MAX ELSE mFramesReady - stepCount
    /\ posLoop' = Published(server', polledAs) /\ isNew' = TRUE
    /\ spc' = "idle" /\ phase' \in {"mix", "prepare"}
    /\ diverged' = TRUE
    /\ UNCHANGED <<settingsQueue, mFlags, appVars, clientVars, trackVars, mIsShutdown, saved>>

-----------------------------------------------------------------------------
InCall == Prepare \/ Push \/ Create \/ Restart \/ Retry

Client ==
    \/ InCall \/ GetBufferPosition \/ Start \/ Pause \/ Stop
    \/ \E starts \in BOOLEAN : Restore(starts)
    \/ \E l \in Loops : SetLoop(l)
    \/ \E p \in Positions : SetPosition(p)

Server ==
    \/ PollPosition \/ PollNothing \/ Adopt \/ Publish \/ ObserverDone
    \/ Started \/ PrepareMix \/ PrepareNoMix
    \/ \E n \in 1 .. mFrameCount : Obtain(n) \/ Release(n)

Next == Client \/ Server
Spec == Init /\ [][Next]_vars

\* A call that was begun goes on, the application asks for the position again and
\* again, and the server goes on: its thread makes one pass after the other.
FairSpec == Spec /\ SF_vars(InCall) /\ SF_vars(GetBufferPosition) /\ WF_vars(Server)

-----------------------------------------------------------------------------
(* Properties.                                                             *)

States == {"ACTIVE", "PAUSED", "STOPPED"}
PosLoops == [mBufferPosition : 0 .. mFrameCount, mLoopCount : Int, asOf : Nat]
TodoItems ==
    [kind : {"loop"}, loop : [mLoopStart : Nat, mLoopEnd : Nat, mLoopCount : Int]]
    \cup [kind : {"position"}, position : Nat]
    \cup [kind : {"create", "start"}, shown : PosLoops, retries : Nat \ {0}, previous : States]

TypeOK ==
    /\ {pushed, polled, state, server} \subseteq StaticAudioTrackState
    /\ {sequence, polledAs, acked, restores} \subseteq Nat
    /\ {posLoop, mPosLoop} \subseteq PosLoops
    /\ {acted, isNew, serving, mIsShutdown, diverged} \subseteq BOOLEAN
    /\ saved \in Seq(PosLoops)
    /\ mFlags \subseteq {"CBLK_INVALID"}
    /\ mState \in States /\ mLoop \in Loops \cup {NoLoop}
    /\ cpc \in {"idle", "push"} /\ todo \in Seq(TodoItems)
    /\ tstate \in {"ACTIVE", "PAUSING", "PAUSED", "STOPPED"}
    /\ phase \in {"start", "prepare", "mix"}
    /\ spc \in {"idle", "polled", "publish", "done", "ready", "held"}
    /\ mFramesReady \in 0 .. INT64_MAX /\ mUnreleased \in 0 .. mFrameCount

\* While a loop is on, the position is inside it or before it, so that playing
\* comes to mLoopEnd exactly, which is what releaseBuffer() compares with.
WithinLoop ==
    server.mLoopCount # 0 =>
        /\ LoopOK(server)
        /\ server.mPosition < server.mLoopEnd

\* The frames left: to the end of this pass through the loop, the other passes,
\* and from the start of the loop to the end of the buffer.
FramesLeft ==
    CASE server.mLoopCount = -1 -> INT64_MAX
      [] server.mLoopCount = 0 -> mFrameCount - server.mPosition
      [] server.mLoopCount > 0 -> (server.mLoopEnd - server.mPosition)
             + (server.mLoopCount - 1) * (server.mLoopEnd - server.mLoopStart)
             + (mFrameCount - server.mLoopStart)

\* "As mFramesReady is the total remaining frames in the static audio track, it is
\* always larger or equal to avail": the number that is counted down step by step
\* is the number of frames left, and no assertion of obtainBuffer() or
\* releaseBuffer() can fail.
FramesReadyExact ==
    /\ mFramesReady = FramesLeft
    /\ spc = "held" => mUnreleased <= mFramesReady /\ server.mPosition + mUnreleased <= End

\* No check of the server fails: however settings are replaced by later ones and
\* whatever has been played, what it adopts from a client that AudioTrack has checked
\* is valid, the position can come to the end of the loop, and the count is right.
ServerSound == ~mIsShutdown /\ WithinLoop /\ FramesReadyExact

\* "The client side getters will read a cached version of the position and loop
\* variables until the setting takes effect": a position that the server reached
\* before it knew of the last setting is never shown.
NoStalePosition == mPosLoop.asOf = IF cpc = "push" THEN sequence + 2 ELSE sequence

\* "To give the illusion of a synchronous change": what the client shows until
\* the setting takes effect is what the server adopts.  That is so as long as no
\* frames are played and no setting is replaced by one of its kind before the
\* server reads it.
IllusionKept ==
    spc = "publish" /\ polledAs = sequence /\ cpc = "idle" /\ ~diverged =>
        /\ server.mPosition = mPosLoop.mBufferPosition
        /\ server.mLoopCount = mPosLoop.mLoopCount

\* "Continue playback from last known position and restore loop": after a
\* re-creation of the track the client shows what it showed before, and by
\* IllusionKept the new server track goes on from there.
RestoredAsShown ==
    [][saved # <<>> /\ saved' = <<>> =>
           /\ mPosLoop.mBufferPosition = saved[1].mBufferPosition
           /\ mPosLoop.mLoopCount = saved[1].mLoopCount]_vars

\* A track that is played without an endless loop comes to its end, and says so,
\* unless it could not be restored.
PlaysToEnd ==
    <>[](mState = "ACTIVE" /\ state.mLoopCount # -1 /\ "CBLK_INVALID" \notin mFlags) =>
        <>[](server.mPosition = mFrameCount)

\* The client is told where the server has come to, if it has ever set or restored
\* a position or a loop: before that ack() is not SSQ_DONE, and the position of a
\* track that is just played stays 0 to the client.
PositionArrives ==
    <>[](/\ sequence > 0 /\ polledAs = sequence
         /\ cpc = "idle" /\ todo = <<>> /\ spc \in {"idle", "ready"})
        => <>[](mPosLoop.mBufferPosition = server.mPosition)
=============================================================================
