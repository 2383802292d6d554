------------------------- MODULE ClientFutexProofs -------------------------
(***************************************************************************)
(* The client of a streaming track does not sleep through what it waits    *)
(* for, whatever the size of the buffer, the part of it that is used and   *)
(* the minimum at which the server wakes it.                               *)
(***************************************************************************)
EXTENDS ClientFutex, TLAPS

\* What the server holds is counted from the fill level that it saw, which can
\* only have risen since.
LevelsSeen ==
    /\ spc # "hold" => mUnreleased = 0
    /\ spc = "hold" => mAvailToClient >= mFrameCount - filled

\* A client that has looked at the flags finds the event flag up, or the wake of
\* a sleeping client is still to come, whenever interrupt() or binderDied() have
\* set theirs since.
InterruptWakes ==
    \A flag \in {"INTERRUPT", "INVALID"} : flag \in mFlags /\ ~Signalled =>
        /\ cpc \in {"avail", "arm", "wait"} => ipc = "futex" \/ "WAKE" \in mFutex
        /\ cpc = "asleep" => ipc # "idle"

\* There is room for the client, and the server has reason to tell it.
Space == filled < mBufferSizeInFrames /\ mFrameCount - filled >= Minimum

\* The same for a client that has found the buffer full and the server that made
\* room since; and whoever put up the event flag of a sleeping client wakes it.
SpaceWakes ==
    ~Signalled /\ alive =>
        /\ cpc \in {"arm", "wait"} /\ call = "obtainBuffer" /\ Space
               => spc = "futex" \/ "WAKE" \in mFutex
        /\ cpc = "asleep" /\ call = "obtainBuffer" /\ Space
               => spc \in {"futex", "wake"} \/ ipc = "wake"
        /\ cpc = "asleep" /\ "WAKE" \in mFutex => spc = "wake" \/ ipc = "wake"

\* The inductive invariant of the protocol over mFlags and mFutex.
IInv == TypeOK /\ LevelsSeen /\ InterruptWakes /\ SpaceWakes

\* The minimum at which the server wakes the client is a number of frames.
LEMMA MinimumLemma == Minimum \in Nat
<1>1. \A a \in Nat, b \in Nat : Max({a, b}) \in Nat /\ Min({a, b}) \in Nat
  BY DEF Max, Min
<1>2. mFrameCount \div 2 \in Nat
  BY LevelsAssumption
<1> QED BY <1>1, <1>2, LevelsAssumption DEF Minimum, Half

\* Types are kept: the fill level stays within the buffer because the client
\* writes within mBufferSizeInFrames, and the server takes out what it saw in it.
LEMMA TypeStep ==
    ASSUME TypeOK, LevelsSeen, [Next]_vars
    PROVE  TypeOK'
<1> USE LevelsAssumption, ScopeAssumption DEF TypeOK, LevelsSeen
<1>1. ASSUME NEW c \in Calls, NEW t \in Timeouts, Call(c, t) PROVE TypeOK'
  BY <1>1 DEF Call, serverVars
<1>2. CASE CheckFlags
  BY <1>2, ZenonT(30) DEF CheckFlags, Return, Consumed, serverVars
<1>3. CASE RestartIfDisabled
  BY <1>3 DEF RestartIfDisabled, Return, serverVars
<1>4. ASSUME NEW k \in 1 .. mFrameCount, CheckAvail(k) PROVE TypeOK'
  <2>1. filled' \in 0 .. mFrameCount /\ mUnreleased <= filled'
    BY <1>4 DEF CheckAvail
  <2> QED BY <1>4, <2>1 DEF CheckAvail, Return, serverVars
<1>5. CASE Arm
  BY <1>5 DEF Arm, serverVars
<1>6. CASE FutexWait
  BY <1>6 DEF FutexWait, serverVars
<1>7. CASE WaitTimesOut \/ SpuriousWakeup
  BY <1>7, ZenonT(30) DEF WaitTimesOut, SpuriousWakeup, serverVars
<1>8. CASE Interrupt \/ Pause \/ BinderDied
  BY <1>8, ZenonT(30) DEF Interrupt, Pause, BinderDied, InterruptFlag, clientVars, serverVars
<1>9. CASE Start
  BY <1>9 DEF Start, clientVars, serverVars
<1>10. CASE InterruptSteps
  BY <1>10, ZenonT(30) DEF InterruptSteps, InterruptFutex, InterruptWake, Woken, clientVars, serverVars
<1>11. ASSUME NEW k \in 1 .. mFrameCount, SObtain(k) PROVE TypeOK'
  BY <1>11 DEF SObtain, clientVars
<1>12. CASE SRelease
  BY <1>12 DEF SRelease, clientVars
<1>13. CASE SFutex \/ SWake
  BY <1>13, ZenonT(30) DEF SFutex, SWake, Woken, clientVars
<1>14. CASE SPaused
  BY <1>14 DEF SPaused, clientVars, serverVars
<1>15. CASE SFlush
  <2>1. mUnreleased = 0 /\ filled' = 0
    BY <1>15 DEF SFlush
  <2> QED BY <1>15, <2>1 DEF SFlush, clientVars
<1>16. CASE Die
  BY <1>16, ZenonT(30) DEF Die, clientVars, serverVars
<1>17. CASE Invalidate \/ Disable
  BY <1>17, ZenonT(30) DEF Invalidate, Disable, SignalFlag, clientVars, serverVars
<1>18. CASE SetStreamEndDone
  BY <1>18 DEF SetStreamEndDone, clientVars, serverVars
<1>19. CASE SignalSteps
  BY <1>19, ZenonT(30) DEF SignalSteps, SignalFutex, SignalWake, Woken, clientVars, serverVars
<1>20. CASE UNCHANGED vars
  BY <1>20 DEF vars, clientVars, serverVars
<1> QED BY <1>1, <1>2, <1>3, <1>4, <1>5, <1>6, <1>7, <1>8, <1>9, <1>10, <1>11, <1>12, <1>13,
        <1>14, <1>15, <1>16, <1>17, <1>18, <1>19, <1>20 DEF Next, ClientSteps, MixerSteps,
        InterruptSteps, SignalSteps

\* While the server holds a buffer the fill level does not go down: the client
\* only adds to it, and a flush waits for the end of the mixer's round.
LEMMA LevelsStep ==
    ASSUME TypeOK, LevelsSeen, [Next]_vars
    PROVE  LevelsSeen'
<1> USE LevelsAssumption DEF TypeOK, LevelsSeen
<1>1. ASSUME NEW c \in Calls, NEW t \in Timeouts, Call(c, t) PROVE LevelsSeen'
  BY <1>1 DEF Call, serverVars
<1>2. CASE CheckFlags
  BY <1>2 DEF CheckFlags, Return, Consumed, serverVars
<1>3. CASE RestartIfDisabled
  BY <1>3 DEF RestartIfDisabled, Return, serverVars
<1>4. ASSUME NEW k \in 1 .. mFrameCount, CheckAvail(k) PROVE LevelsSeen'
  BY <1>4 DEF CheckAvail, Return, serverVars
<1>5. CASE Arm
  BY <1>5 DEF Arm, serverVars
<1>6. CASE FutexWait
  BY <1>6 DEF FutexWait, serverVars
<1>7. CASE WaitTimesOut \/ SpuriousWakeup
  BY <1>7 DEF WaitTimesOut, SpuriousWakeup, serverVars
<1>8. CASE Interrupt \/ Pause \/ BinderDied
  BY <1>8 DEF Interrupt, Pause, BinderDied, InterruptFlag, clientVars, serverVars
<1>9. CASE Start
  BY <1>9 DEF Start, clientVars, serverVars
<1>10. CASE InterruptSteps
  BY <1>10 DEF InterruptSteps, InterruptFutex, InterruptWake, Woken, clientVars, serverVars
<1>11. ASSUME NEW k \in 1 .. mFrameCount, SObtain(k) PROVE LevelsSeen'
  BY <1>11 DEF SObtain, clientVars
<1>12. CASE SRelease
  BY <1>12 DEF SRelease, clientVars
<1>13. CASE SFutex \/ SWake
  BY <1>13 DEF SFutex, SWake, Woken, clientVars
<1>14. CASE SPaused
  BY <1>14 DEF SPaused, clientVars, serverVars
<1>15. CASE SFlush
  BY <1>15 DEF SFlush, clientVars
<1>16. CASE Die
  BY <1>16 DEF Die, clientVars, serverVars
<1>17. CASE Invalidate \/ Disable
  BY <1>17 DEF Invalidate, Disable, SignalFlag, clientVars, serverVars
<1>18. CASE SetStreamEndDone
  BY <1>18 DEF SetStreamEndDone, clientVars, serverVars
<1>19. CASE SignalSteps
  BY <1>19 DEF SignalSteps, SignalFutex, SignalWake, Woken, clientVars, serverVars
<1>20. CASE UNCHANGED vars
  BY <1>20 DEF vars, clientVars, serverVars
<1> QED BY <1>1, <1>2, <1>3, <1>4, <1>5, <1>6, <1>7, <1>8, <1>9, <1>10, <1>11, <1>12, <1>13,
        <1>14, <1>15, <1>16, <1>17, <1>18, <1>19, <1>20 DEF Next, ClientSteps, MixerSteps,
        InterruptSteps, SignalSteps

\* A flag that is set after the client has looked at the flags is followed by the
\* event flag, which the client takes down and looks at in one step, and by a
\* wake that comes after the event flag.
LEMMA InterruptStep ==
    ASSUME TypeOK, InterruptWakes, [Next]_vars
    PROVE  InterruptWakes'
<1> USE DEF TypeOK, InterruptWakes, Signalled
<1>1. ASSUME NEW c \in Calls, NEW t \in Timeouts, Call(c, t) PROVE InterruptWakes'
  BY <1>1 DEF Call, serverVars
<1>2. CASE CheckFlags
  BY <1>2 DEF CheckFlags, Return, Consumed, serverVars
<1>3. CASE RestartIfDisabled
  BY <1>3 DEF RestartIfDisabled, Return, serverVars
<1>4. ASSUME NEW k \in 1 .. mFrameCount, CheckAvail(k) PROVE InterruptWakes'
  BY <1>4 DEF CheckAvail, Return, serverVars
<1>5. CASE Arm
  BY <1>5 DEF Arm, serverVars
<1>6. CASE FutexWait
  BY <1>6 DEF FutexWait, serverVars
<1>7. CASE WaitTimesOut \/ SpuriousWakeup
  BY <1>7 DEF WaitTimesOut, SpuriousWakeup, serverVars
<1>8. CASE Interrupt \/ Pause \/ BinderDied
  BY <1>8 DEF Interrupt, Pause, BinderDied, InterruptFlag, clientVars, serverVars
<1>9. CASE Start
  BY <1>9 DEF Start, clientVars, serverVars
<1>10. CASE InterruptSteps
  BY <1>10 DEF InterruptSteps, InterruptFutex, InterruptWake, Woken, clientVars, serverVars
<1>11. ASSUME NEW k \in 1 .. mFrameCount, SObtain(k) PROVE InterruptWakes'
  BY <1>11 DEF SObtain, clientVars
<1>12. CASE SRelease
  BY <1>12 DEF SRelease, clientVars
<1>13. CASE SFutex \/ SWake
  BY <1>13 DEF SFutex, SWake, Woken, clientVars
<1>14. CASE SPaused
  BY <1>14 DEF SPaused, clientVars, serverVars
<1>15. CASE SFlush
  BY <1>15 DEF SFlush, clientVars
<1>16. CASE Die
  BY <1>16 DEF Die, clientVars, serverVars
<1>17. CASE Invalidate \/ Disable
  BY <1>17 DEF Invalidate, Disable, SignalFlag, clientVars, serverVars
<1>18. CASE SetStreamEndDone
  BY <1>18 DEF SetStreamEndDone, clientVars, serverVars
<1>19. CASE SignalSteps
  BY <1>19 DEF SignalSteps, SignalFutex, SignalWake, Woken, clientVars, serverVars
<1>20. CASE UNCHANGED vars
  BY <1>20 DEF vars, clientVars, serverVars
<1> QED BY <1>1, <1>2, <1>3, <1>4, <1>5, <1>6, <1>7, <1>8, <1>9, <1>10, <1>11, <1>12, <1>13,
        <1>14, <1>15, <1>16, <1>17, <1>18, <1>19, <1>20 DEF Next, ClientSteps, MixerSteps,
        InterruptSteps, SignalSteps

\* The same for space: a release that leaves room for the client is followed by
\* the event flag, since the server counts at least the room that there is.
LEMMA SpaceStep ==
    ASSUME TypeOK, LevelsSeen, SpaceWakes, [Next]_vars
    PROVE  SpaceWakes'
<1> USE LevelsAssumption, MinimumLemma
        DEF TypeOK, LevelsSeen, SpaceWakes, Space, Signalled, WakesClient
<1>1. ASSUME NEW c \in Calls, NEW t \in Timeouts, Call(c, t) PROVE SpaceWakes'
  BY <1>1 DEF Call, serverVars
<1>2. CASE CheckFlags
  BY <1>2 DEF CheckFlags, Return, Consumed, serverVars
<1>3. CASE RestartIfDisabled
  BY <1>3 DEF RestartIfDisabled, Return, serverVars
<1>4. ASSUME NEW k \in 1 .. mFrameCount, CheckAvail(k) PROVE SpaceWakes'
  BY <1>4 DEF CheckAvail, Return, serverVars
<1>5. CASE Arm
  <2>1. (Space /\ ~Signalled /\ alive)' => Space /\ ~Signalled /\ alive
    BY <1>5 DEF Arm, serverVars
  <2> QED BY <1>5, <2>1 DEF Arm, serverVars
<1>6. CASE FutexWait
  <2>1. (Space /\ ~Signalled /\ alive)' => Space /\ ~Signalled /\ alive
    BY <1>6 DEF FutexWait, serverVars
  <2>2. mFutex = old => "WAKE" \notin mFutex
    OBVIOUS
  <2> QED BY <1>6, <2>1, <2>2 DEF FutexWait, serverVars
<1>7. CASE WaitTimesOut \/ SpuriousWakeup
  BY <1>7 DEF WaitTimesOut, SpuriousWakeup, serverVars
<1>8. CASE Interrupt \/ Pause \/ BinderDied
  BY <1>8 DEF Interrupt, Pause, BinderDied, InterruptFlag, clientVars, serverVars
<1>9. CASE Start
  BY <1>9 DEF Start, clientVars, serverVars
<1>10. CASE InterruptSteps
  BY <1>10 DEF InterruptSteps, InterruptFutex, InterruptWake, Woken, clientVars, serverVars
<1>11. ASSUME NEW k \in 1 .. mFrameCount, SObtain(k) PROVE SpaceWakes'
  BY <1>11 DEF SObtain, clientVars
<1>12. CASE SRelease
  BY <1>12 DEF SRelease, clientVars
<1>13. CASE SFutex \/ SWake
  BY <1>13 DEF SFutex, SWake, Woken, clientVars
<1>14. CASE SPaused
  BY <1>14 DEF SPaused, clientVars, serverVars
<1>15. CASE SFlush
  BY <1>15 DEF SFlush, clientVars
<1>16. CASE Die
  BY <1>16 DEF Die, clientVars, serverVars
<1>17. CASE Invalidate \/ Disable
  BY <1>17 DEF Invalidate, Disable, SignalFlag, clientVars, serverVars
<1>18. CASE SetStreamEndDone
  BY <1>18 DEF SetStreamEndDone, clientVars, serverVars
<1>19. CASE SignalSteps
  BY <1>19 DEF SignalSteps, SignalFutex, SignalWake, Woken, clientVars, serverVars
<1>20. CASE UNCHANGED vars
  BY <1>20 DEF vars, clientVars, serverVars
<1> QED BY <1>1, <1>2, <1>3, <1>4, <1>5, <1>6, <1>7, <1>8, <1>9, <1>10, <1>11, <1>12, <1>13,
        <1>14, <1>15, <1>16, <1>17, <1>18, <1>19, <1>20 DEF Next, ClientSteps, MixerSteps,
        InterruptSteps, SignalSteps

\* The fill level stays within the buffer, the server never holds more than it
\* saw, and every flag, release or flush that the client has not seen is followed
\* by the event flag or a wake (AudioTrackShared.cpp: obtainBuffer(), interrupt(),
\* binderDied(), releaseBuffer(), flushBufferIfNeeded()).
THEOREM Invariance == Spec => []IInv
<1>1. Init => IInv
  <2>1. Init => TypeOK /\ LevelsSeen
    <3>1. 0 \in 0 .. mFrameCount /\ 0 <= 0
      BY LevelsAssumption
    <3>2. Init => {ignoreInitialPendingInterrupt, expired, serving, alive} \subseteq BOOLEAN
      BY Zenon DEF Init
    <3> QED BY <3>1, <3>2 DEF Init, TypeOK, LevelsSeen
  <2>2. Init => InterruptWakes /\ SpaceWakes
    BY DEF Init, InterruptWakes, SpaceWakes
  <2> QED BY <2>1, <2>2 DEF IInv
<1>2. IInv /\ [Next]_vars => IInv'
  BY TypeStep, LevelsStep, InterruptStep, SpaceStep DEF IInv
<1> QED BY <1>1, <1>2, PTL DEF Spec

\* No interrupt() and no death of the server is slept through, unless
\* signalClientFlag() has stored over the event flag: the sleeping client still
\* has its wake to come.
THEOREM InterruptsWake == Spec => []NoSleepThroughInterrupt
<1>1. IInv => NoSleepThroughInterrupt
  BY DEF IInv, TypeOK, InterruptWakes, NoSleepThroughInterrupt
<1> QED BY <1>1, Invariance, PTL

\* No space is slept through: when the client sleeps although the buffer has room
\* for it and at least the minimum that the server reports, a wake is on its way.
THEOREM SpaceIsReported == Spec => []NoSleepThroughSpace
<1>1. IInv => NoSleepThroughSpace
  BY DEF IInv, SpaceWakes, Space, NoSleepThroughSpace
<1> QED BY <1>1, Invariance, PTL
=============================================================================
