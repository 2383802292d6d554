---------------------------- MODULE ClientFutex ----------------------------
(***************************************************************************)
(* How the client of a streaming AudioTrack waits for the server, over the *)
(* words mFlags and mFutex of the control block: ClientProxy::             *)
(* obtainBuffer(), which waits for space, waitStreamEndDone(), and all who *)
(* wake them: releaseBuffer() of the server, signalClientFlag(),           *)
(* setStreamEndDone(), interrupt() and binderDied().                       *)
(*                                                                         *)
(* A step is one access to mFlags, mFutex or the ring, or one futex system *)
(* call.  Of the ring only its fill level is kept (see StreamingTrack).    *)
(***************************************************************************)
EXTENDS Naturals, FiniteSetsExt

CONSTANTS
    mFrameCount,
    mBufferSizeInFrames,    \* what the application lets itself fill
    mMinimum,               \* of the control block; 0 stands for the default
    Calls, Timeouts,        \* which calls the application makes
    Events                  \* what may happen besides

AllEvents == {"interrupt", "pause", "die", "invalidate", "disable", "streamEnd"}

ASSUME LevelsAssumption ==
    /\ mFrameCount \in Nat \ {0} /\ mBufferSizeInFrames \in 1 .. mFrameCount
    /\ mMinimum \in 0 .. mFrameCount
ASSUME ScopeAssumption ==
    /\ Events \subseteq AllEvents
    /\ Calls \subseteq {"obtainBuffer", "waitStreamEndDone"}
    /\ Timeouts \subseteq {"ZERO", "SHORT", "FINITE", "INFINITE"}

VARIABLES
    mFlags,         \* the CBLK_ flags that are set
    mFutex,         \* the bits that are set: "WAKE", and 0x40000000 as "SIGNAL"
    filled,         \* frames between mFront and mRear
    \* the client thread
    cpc, call, timeout, ignoreInitialPendingInterrupt, expired, old,
    mState,         \* of AudioTrack
    \* a thread in interrupt(), or the one that runs binderDied()
    ipc, iflag,
    \* the mixer
    spc, mAvailToClient, mUnreleased,
    serving,        \* the mixer has the track in its active list
    alive,          \* the server process lives
    \* a thread in signalClientFlag()
    gpc

clientVars == <<cpc, call, timeout, ignoreInitialPendingInterrupt, expired, old>>
serverVars == <<spc, mAvailToClient, mUnreleased>>
vars == <<mFlags, mFutex, filled, clientVars, mState, ipc, iflag, serverVars, serving, alive, gpc>>

Init ==
    /\ mFlags = {} /\ mFutex = {} /\ filled = 0
    /\ cpc = "app" /\ call = "obtainBuffer" /\ timeout = "ZERO"
    /\ ignoreInitialPendingInterrupt = TRUE /\ expired = FALSE /\ old = {}
    /\ mState = "ACTIVE"
    /\ ipc = "idle" /\ iflag = "INTERRUPT"
    /\ spc = "idle" /\ mAvailToClient = 0 /\ mUnreleased = 0
    /\ serving = TRUE /\ alive = TRUE /\ gpc = "idle"

\* FUTEX_WAKE: a client that is asleep goes back to the top of its loop.
Woken == IF cpc = "asleep" THEN "flags" ELSE cpc

-----------------------------------------------------------------------------
(* The client thread.                                                      *)

\* The call returns; which status it returns is written beside each use.
Return ==
    /\ cpc' = "app"
    /\ old' = {} /\ expired' = FALSE /\ timeout' = "ZERO"

\* The application calls; AudioTrack::obtainBuffer() does not block unless the
\* track is active, which it looks up before it calls the proxy.
Call(c, t) ==
    /\ cpc = "app" /\ "INVALID" \notin mFlags
    /\ c \in Calls
    /\ c = "waitStreamEndDone" => t = "FINITE"
    /\ call' = c
    /\ timeout' = IF c = "obtainBuffer" /\ mState # "ACTIVE" THEN "ZERO" ELSE t
    /\ ignoreInitialPendingInterrupt' = (c = "obtainBuffer")
    /\ cpc' = "flags"
    /\ UNCHANGED <<mFlags, mFutex, filled, expired, old, mState, ipc, iflag, serverVars,
                   serving, alive, gpc>>

\* The flags that the top of the loop clears as it looks at them.
Consumed == IF call = "obtainBuffer" THEN {"INTERRUPT"} ELSE {"INTERRUPT", "STREAM_END_DONE"}

\* The top of the loop of either call.
CheckFlags ==
    /\ cpc = "flags"
    /\ ignoreInitialPendingInterrupt' = FALSE
    /\ mFlags' = mFlags \ Consumed
    /\ LET interrupted == "INTERRUPT" \in mFlags /\ ~ignoreInitialPendingInterrupt
           ended == call = "waitStreamEndDone" /\ mFlags \cap {"DISABLED", "STREAM_END_DONE"} # {}
           disabled == call = "obtainBuffer" /\ "DISABLED" \in mFlags
       IN  \/ "INVALID" \in mFlags /\ Return   \* DEAD_OBJECT
           \/ "INVALID" \notin mFlags /\ ended /\ Return   \* NO_ERROR
           \/ /\ "INVALID" \notin mFlags /\ disabled
              /\ cpc' = "restart"
              /\ UNCHANGED <<old, expired, timeout>>
           \/ "INVALID" \notin mFlags /\ ~ended /\ ~disabled /\ interrupted /\ Return   \* EINTR
           \/ /\ "INVALID" \notin mFlags /\ ~ended /\ ~disabled /\ ~interrupted
              /\ cpc' = "avail"
              /\ UNCHANGED <<old, expired, timeout>>
    /\ UNCHANGED <<mFutex, filled, call, mState, ipc, iflag, serverVars, serving, alive, gpc>>

\* AudioTrack calls restartIfDisabled() after NOT_ENOUGH_DATA, and at the end of
\* releaseBuffer().  That AudioTrack::obtainBuffer() tries again after
\* NOT_ENOUGH_DATA is left to the next call.
RestartIfDisabled ==
    /\ cpc = "restart"
    /\ mFlags' = mFlags \ {"DISABLED"}
    /\ serving' = (serving \/ ("DISABLED" \in mFlags /\ mState = "ACTIVE" /\ alive))
    /\ Return   \* NOT_ENOUGH_DATA or NO_ERROR
    /\ UNCHANGED <<mFutex, filled, call, ignoreInitialPendingInterrupt, mState, ipc, iflag,
                   serverVars, alive, gpc>>

\* The space is looked up; k frames of it are written and released at once (what
\* happens in between does not concern a client that does not wait), or the
\* time-out decides whether to wait.  "SHORT" is a finite time-out that is not
\* measured: it expires before the first wait.
CheckAvail(k) ==
    /\ cpc = "avail"
    /\ \/ /\ call = "obtainBuffer" /\ filled + k <= mBufferSizeInFrames
          /\ filled' = filled + k
          /\ cpc' = "restart"
          /\ UNCHANGED <<old, expired, timeout>>
       \/ /\ call = "waitStreamEndDone" \/ filled >= mBufferSizeInFrames
          /\ UNCHANGED filled
          /\ \/ timeout = "ZERO" /\ Return   \* WOULD_BLOCK
             \/ (timeout = "SHORT" \/ expired) /\ Return   \* TIMED_OUT
             \/ /\ timeout \in {"FINITE", "INFINITE"} /\ ~expired
                /\ cpc' = "arm"
                /\ UNCHANGED <<old, expired, timeout>>
    /\ UNCHANGED <<mFlags, mFutex, call, ignoreInitialPendingInterrupt, mState, ipc, iflag,
                   serverVars, serving, alive, gpc>>

\* Mutant of Arm: the wake bit is cleared, but it is not looked at.
ArmBlindly ==
    /\ cpc = "arm"
    /\ mFutex' = mFutex \ {"WAKE"}
    /\ old' = mFutex \ {"WAKE"}
    /\ cpc' = "wait"
    /\ UNCHANGED <<mFlags, filled, call, timeout, ignoreInitialPendingInterrupt, expired,
                   mState, ipc, iflag, serverVars, serving, alive, gpc>>

\* The event flag is taken down; if it was up there is no need to wait.
Arm ==
    /\ cpc = "arm"
    /\ mFutex' = mFutex \ {"WAKE"}
    /\ old' = mFutex \ {"WAKE"}
    /\ cpc' = IF "WAKE" \in mFutex THEN "flags" ELSE "wait"
    /\ UNCHANGED <<mFlags, filled, call, timeout, ignoreInitialPendingInterrupt, expired,
                   mState, ipc, iflag, serverVars, serving, alive, gpc>>

\* FUTEX_WAIT: it returns at once if the word has changed.
FutexWait ==
    /\ cpc = "wait"
    /\ cpc' = IF mFutex = old THEN "asleep" ELSE "flags"
    /\ UNCHANGED <<mFlags, mFutex, filled, call, timeout, ignoreInitialPendingInterrupt, expired,
                   old, mState, ipc, iflag, serverVars, serving, alive, gpc>>

\* Mutant of WaitTimesOut: the wait of waitStreamEndDone() has no limit.
WaitTimesOutObtain ==
    /\ cpc = "asleep" /\ timeout = "FINITE" /\ call = "obtainBuffer"
    /\ cpc' = "flags"
    /\ expired' = TRUE
    /\ UNCHANGED <<mFlags, mFutex, filled, call, timeout, ignoreInitialPendingInterrupt, old,
                   mState, ipc, iflag, serverVars, serving, alive, gpc>>

\* A finite wait ends, after at most MAX_SEC.  obtainBuffer() adds it to the
\* elapsed time, waitStreamEndDone() does not.
WaitTimesOut ==
    /\ cpc = "asleep" /\ timeout = "FINITE"
    /\ cpc' = "flags"
    /\ expired' = (call = "obtainBuffer")
    /\ UNCHANGED <<mFlags, mFutex, filled, call, timeout, ignoreInitialPendingInterrupt, old,
                   mState, ipc, iflag, serverVars, serving, alive, gpc>>

\* EINTR of the system call, or a wake meant for an earlier wait.
SpuriousWakeup ==
    /\ cpc = "asleep"
    /\ cpc' = "flags"
    /\ UNCHANGED <<mFlags, mFutex, filled, call, timeout, ignoreInitialPendingInterrupt, expired,
                   old, mState, ipc, iflag, serverVars, serving, alive, gpc>>

-----------------------------------------------------------------------------
(* interrupt() and binderDied(): set the flag; if it was clear, put up the *)
(* event flag and wake.                                                    *)

InterruptFlag(flag) ==
    /\ ipc = "idle"
    /\ mFlags' = mFlags \cup {flag}
    /\ iflag' = flag
    /\ ipc' = IF flag \in mFlags THEN "idle" ELSE "futex"
    /\ UNCHANGED <<mFutex, filled, clientVars, serverVars, alive, gpc>>

\* Another thread of the application interrupts, pauses the track, or resumes
\* it.
Interrupt ==
    /\ "interrupt" \in Events
    /\ InterruptFlag("INTERRUPT")
    /\ UNCHANGED <<mState, serving>>

Pause ==
    /\ "pause" \in Events /\ mState = "ACTIVE"
    /\ mState' = "PAUSED"
    /\ InterruptFlag("INTERRUPT")
    /\ UNCHANGED serving

Start ==
    /\ mState = "PAUSED" /\ ipc = "idle"
    /\ mState' = "ACTIVE"
    /\ mFlags' = mFlags \ {"STREAM_END_DONE", "DISABLED"}
    /\ serving' = (alive /\ "INVALID" \notin mFlags)
    /\ UNCHANGED <<mFutex, filled, clientVars, ipc, iflag, serverVars, alive, gpc>>

\* The server has died, at whatever point the mixer was.
BinderDied ==
    /\ ~alive /\ "INVALID" \notin mFlags
    /\ InterruptFlag("INVALID")
    /\ UNCHANGED <<mState, serving>>

\* Mutant of InterruptFutex: the flag alone, without the event flag.
InterruptFutexSkipped ==
    /\ ipc = "futex"
    /\ ipc' = "wake"
    /\ UNCHANGED <<mFlags, mFutex, filled, clientVars, mState, iflag, serverVars, serving, alive,
                   gpc>>

InterruptFutex ==
    /\ ipc = "futex"
    /\ mFutex' = mFutex \cup {"WAKE"}
    /\ ipc' = "wake"
    /\ UNCHANGED <<mFlags, filled, clientVars, mState, iflag, serverVars, serving, alive, gpc>>

InterruptWake ==
    /\ ipc = "wake"
    /\ cpc' = Woken
    /\ ipc' = "idle"
    /\ UNCHANGED <<mFlags, mFutex, filled, call, timeout, ignoreInitialPendingInterrupt, expired,
                   old, mState, iflag, serverVars, serving, alive, gpc>>

-----------------------------------------------------------------------------
(* The mixer.                                                              *)

Half == Max({1, mFrameCount \div 2})
Minimum == IF mMinimum = 0 THEN Half ELSE Min({mMinimum, Half})

\* obtainBuffer() of the server: the fill level at this moment.
SObtain(k) ==
    /\ alive /\ serving /\ spc = "idle" /\ k <= filled
    /\ mAvailToClient' = mFrameCount - filled
    /\ mUnreleased' = k
    /\ spc' = "hold"
    /\ UNCHANGED <<mFlags, mFutex, filled, clientVars, mState, ipc, iflag, serving, alive, gpc>>

\* releaseBuffer(): whether the client is worth waking.
WakesClient == mAvailToClient + mUnreleased >= Minimum

\* releaseBuffer(): the store of mFront.  The mixer releases once what it has
\* obtained; a smaller part is the same as a smaller buffer obtained.
SRelease ==
    /\ alive /\ spc = "hold"
    /\ filled' = filled - mUnreleased
    /\ mUnreleased' = 0 /\ mAvailToClient' = 0   \* not read before the next obtainBuffer()
    /\ spc' = IF WakesClient THEN "futex" ELSE "idle"
    /\ UNCHANGED <<mFlags, mFutex, clientVars, mState, ipc, iflag, serving, alive, gpc>>

\* releaseBuffer() or flushBufferIfNeeded(): the event flag goes up; if it was
\* down the client is woken.
SFutex ==
    /\ alive /\ spc = "futex"
    /\ mFutex' = mFutex \cup {"WAKE"}
    /\ spc' = IF "WAKE" \in mFutex THEN "idle" ELSE "wake"
    /\ UNCHANGED <<mFlags, filled, clientVars, mState, ipc, iflag, mAvailToClient, mUnreleased,
                   serving, alive, gpc>>

SWake ==
    /\ alive /\ spc = "wake"
    /\ cpc' = Woken
    /\ spc' = "idle"
    /\ UNCHANGED <<mFlags, mFutex, filled, call, timeout, ignoreInitialPendingInterrupt, expired,
                   old, mState, ipc, iflag, mAvailToClient, mUnreleased, serving, alive,
                   gpc>>

\* A paused track is no longer served, and may be flushed.
SPaused ==
    /\ alive /\ spc = "idle" /\ mState = "PAUSED" /\ ipc = "idle" /\ serving
    /\ serving' = FALSE
    /\ UNCHANGED <<mFlags, mFutex, filled, clientVars, mState, ipc, iflag, serverVars, alive, gpc>>

SFlush ==
    /\ alive /\ spc = "idle" /\ mState = "PAUSED" /\ ipc = "idle"
    /\ filled > 0 /\ filled' = 0
    /\ spc' = "futex"
    /\ UNCHANGED <<mFlags, mFutex, clientVars, mState, ipc, iflag, mAvailToClient, mUnreleased,
                   serving, alive, gpc>>

-----------------------------------------------------------------------------
(* Other threads of the server.                                            *)

Die ==
    /\ "die" \in Events /\ alive
    /\ alive' = FALSE /\ serving' = FALSE
    /\ UNCHANGED <<mFlags, mFutex, filled, clientVars, mState, ipc, iflag, serverVars, gpc>>

\* signalClientFlag(): the flag; then the store of mFutex; then the wake.
SignalFlag(flag) ==
    /\ alive /\ gpc = "idle"
    /\ mFlags' = mFlags \cup {flag}
    /\ gpc' = "futex"
    /\ UNCHANGED <<mFutex, filled, clientVars, mState, ipc, iflag, serverVars, alive>>

\* A playback thread that exits invalidates its tracks; invalidateTracks() does so
\* from another thread, wherever the mixer is, which goes on.
Invalidate ==
    /\ "invalidate" \in Events /\ "INVALID" \notin mFlags
    /\ SignalFlag("INVALID")
    /\ serving' \in IF spc = "idle" THEN {serving, FALSE} ELSE {serving}

\* prepareTracks_l() disables a track that underruns, when the frames in it are
\* fewer than it needs.
Disable ==
    /\ "disable" \in Events /\ serving /\ spc = "idle" /\ filled < mFrameCount
    /\ SignalFlag("DISABLED")
    /\ serving' = FALSE

SignalFutex ==
    /\ alive /\ gpc = "futex"
    /\ mFutex' = {"SIGNAL"}
    /\ gpc' = "wake"
    /\ UNCHANGED <<mFlags, filled, clientVars, mState, ipc, iflag, serverVars, serving, alive>>

SignalWake ==
    /\ alive /\ gpc = "wake"
    /\ cpc' = Woken
    /\ gpc' = "idle"
    /\ UNCHANGED <<mFlags, mFutex, filled, call, timeout, ignoreInitialPendingInterrupt, expired,
                   old, mState, ipc, iflag, serverVars, serving, alive>>

\* setStreamEndDone(): the flag and a wake, but not the event flag.
SetStreamEndDone ==
    /\ "streamEnd" \in Events /\ alive /\ gpc = "idle" /\ filled = 0
    /\ mFlags' = mFlags \cup {"STREAM_END_DONE"}
    /\ gpc' = IF "STREAM_END_DONE" \in mFlags THEN "idle" ELSE "wake"
    /\ UNCHANGED <<mFutex, filled, clientVars, mState, ipc, iflag, serverVars, serving, alive>>

-----------------------------------------------------------------------------
ClientSteps ==
    \/ CheckFlags \/ RestartIfDisabled \/ Arm \/ FutexWait
    \/ \E k \in 1 .. mFrameCount : CheckAvail(k)

MixerSteps ==
    \/ \E k \in 1 .. mFrameCount : SObtain(k)
    \/ SRelease \/ SFutex \/ SWake \/ SPaused

InterruptSteps == InterruptFutex \/ InterruptWake
SignalSteps == SignalFutex \/ SignalWake

Next ==
    \/ \E c \in Calls, t \in Timeouts : Call(c, t)
    \/ ClientSteps \/ WaitTimesOut \/ SpuriousWakeup
    \/ Interrupt \/ Pause \/ Start \/ BinderDied \/ InterruptSteps
    \/ MixerSteps \/ SFlush
    \/ Die \/ Invalidate \/ Disable \/ SetStreamEndDone \/ SignalSteps

Spec == Init /\ [][Next]_vars

\* Threads that can run do run and the death of the server is reported.  A
\* finite wait ends even if it is broken by wakes: the time asleep adds up.
\* What the application and the server decide to do need not happen.
Fairness ==
    /\ WF_vars(ClientSteps) /\ SF_vars(WaitTimesOut)
    /\ WF_vars(MixerSteps)
    /\ WF_vars(InterruptSteps) /\ WF_vars(SignalSteps)
    /\ WF_vars(BinderDied)

FairSpec == Spec /\ Fairness

-----------------------------------------------------------------------------
(* Properties.                                                             *)

TypeOK ==
    /\ mFlags \subseteq {"INVALID", "DISABLED", "INTERRUPT", "STREAM_END_DONE"}
    /\ mFutex \subseteq {"WAKE", "SIGNAL"} /\ old \subseteq {"SIGNAL"}
    /\ filled \in 0 .. mFrameCount
    /\ cpc \in {"app", "flags", "restart", "avail", "arm", "wait", "asleep"}
    /\ call \in {"obtainBuffer", "waitStreamEndDone"} /\ timeout \in Timeouts \cup {"ZERO"}
    /\ {ignoreInitialPendingInterrupt, expired, serving, alive} \subseteq BOOLEAN
    /\ mState \in {"ACTIVE", "PAUSED"}
    /\ ipc \in {"idle", "futex", "wake"} /\ iflag \in {"INTERRUPT", "INVALID"}
    /\ spc \in {"idle", "hold", "futex", "wake"} /\ gpc \in {"idle", "futex", "wake"}
    /\ mAvailToClient \in 0 .. mFrameCount /\ mUnreleased \in 0 .. mFrameCount
    /\ mUnreleased <= filled

\* signalClientFlag() has stored its constant into mFutex, and may have erased
\* the event flag with it, or is about to.
Signalled == "SIGNAL" \in mFutex \/ gpc = "futex"

\* A client does not sleep through space: if it sleeps in obtainBuffer() while
\* there is room for it and the server had reason to tell it, the server or an
\* interrupt is on its way to the wake, or the server has died.
NoSleepThroughSpace ==
    /\ cpc = "asleep" /\ call = "obtainBuffer" /\ ~Signalled
    /\ filled < mBufferSizeInFrames /\ mFrameCount - filled >= Minimum
    => spc \in {"futex", "wake"} \/ ipc = "wake" \/ ~alive

\* An interrupt or the death of the server does not find the client asleep
\* for good: the wake is still to come.
NoSleepThroughInterrupt ==
    cpc = "asleep" /\ iflag \in mFlags /\ ~Signalled => ipc # "idle" \/ gpc # "idle"

\* Every obtainBuffer() returns, whatever the interleaving of the loads, the
\* event flag and the system calls, and if the server dies: with a finite
\* time-out always, with an infinite one unless the track is not being served
\* (it is paused) or has gone through signalClientFlag().
CallReturns ==
    (cpc # "app" /\ call = "obtainBuffer")
        ~> (cpc = "app" \/ (timeout = "INFINITE" /\ (Signalled \/ (alive /\ ~serving))))

\* A call returns from an invalidated track: "check for track invalidation by
\* server" is what the loop of obtainBuffer() begins with.
InvalidatedReturns == (cpc # "app" /\ "INVALID" \in mFlags) ~> (cpc = "app")

\* A stream end that is signalled while the client waits for it, or just before
\* it starts to, is noticed although setStreamEndDone() does not put up the
\* event flag: the client takes the flag and returns, or start() takes it.
StreamEndSeen ==
    (cpc # "app" /\ call = "waitStreamEndDone" /\ "STREAM_END_DONE" \in mFlags)
        ~> ("STREAM_END_DONE" \notin mFlags)
=============================================================================
