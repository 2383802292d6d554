------------------------------- MODULE ACodec -------------------------------
(***************************************************************************)
(* ACodec: the hierarchical state machine between MediaCodec and an OMX    *)
(* component.  Requests come in over the queue inbox of its looper,        *)
(* notifications leave over looper, the queue of MediaCodec.  A buffer     *)
(* has the owner that BufferInfo::mStatus names.                           *)
(*                                                                         *)
(* A handler is an operator on [ac, notes, abort]: what it makes of the    *)
(* object, what it posts, in order, and the CHECK it fails, if any.  The   *)
(* OMX component is the environment: it answers commands and returns       *)
(* buffers when it likes, may fail, change its output format, and die,     *)
(* MaxEvents times in all.  Which of its calls succeed is the parameter    *)
(* works of a handler: "ALL" of them, "COMMANDS" but none about a buffer,  *)
(* or "NONE".  Native windows (buffers OWNED_BY_NATIVE_WINDOW) and end of  *)
(* stream are left out.                                                    *)
(***************************************************************************)
EXTENDS Naturals, SequencesExt

CONSTANTS
    InputBuffers, OutputBuffers,
    MaxEvents           \* failures, format changes and (in MediaCodec) reclaims, in all

ASSUME BuffersAssumption == InputBuffers \cap OutputBuffers = {}
ASSUME EventsAssumption == MaxEvents \in Nat

VARIABLES
    ac,         \* the ACodec object
    inbox,      \* messages to ACodec
    looper,     \* messages to MediaCodec
    aborted,    \* the CHECK that failed and ended the process, or "no"
    env         \* events and deaths of the media server so far, and whether it is alive

codecVars == <<ac, inbox, aborted, env>>

Buffers == InputBuffers \cup OutputBuffers

\* A new ACodec.  "channel" is what ACodecBufferChannel finds in its two arrays;
\* "commands" are the commands the component has not completed; "done" stands for
\* mComponentNowIdle and for mFlushComplete of both ports; "timers" are delayed
\* messages, those that carry a stale mStateGeneration left out.
NewCodec ==
    [state |-> "Uninitialized", mStatus |-> [b \in Buffers |-> "NONE"], channel |-> {},
     mActive |-> FALSE, mShutdownInProgress |-> FALSE, mKeepComponentAllocated |-> FALSE,
     mExplicitShutdown |-> FALSE, mFatalError |-> FALSE, mDeferredQueue |-> <<>>,
     commands |-> <<>>, done |-> FALSE, timers |-> {}]

\* The component has been allocated.
CodecInit ==
    /\ ac = [NewCodec EXCEPT !.state = "Loaded"] /\ inbox = <<>> /\ looper = <<>>
    /\ aborted = "no"
    /\ env = [events |-> 0, alive |-> TRUE, deaths |-> 0]

-----------------------------------------------------------------------------
(* What the handlers are made of.                                          *)

Notify(q, msg) == [q EXCEPT !.notes = Append(@, msg)]

\* Every error ACodec reports is fatal; "WRONG" is the report of a buffer that is
\* not where ACodec believes it to be.
SignalError(q, err) == Notify([q EXCEPT !.ac.mFatalError = TRUE], <<"Error", err>>)

Works == {"ALL", "COMMANDS", "NONE"}

SendCommand(q, c) == [q EXCEPT !.ac.commands = Append(@, c)]

Defer(q, msg) == [q EXCEPT !.ac.mDeferredQueue = Append(@, msg)]

SetStatus(q, bs, s) ==
    [q EXCEPT !.ac.mStatus = [b \in Buffers |-> IF b \in bs THEN s ELSE @[b]]]

Owned(q, s) == {b \in Buffers : q.ac.mStatus[b] = s}

\* changeState(), and the time-out that two of the states set when they are entered.
ChangeState(q, s) ==
    [q EXCEPT !.ac.state = s, !.ac.done = FALSE,
              !.ac.timers = (@ \ {"stuck", "force"})
                            \cup IF s \in {"Flushing", "OutputPortSettingsChanged"}
                                 THEN {"stuck"} ELSE {}]

\* Leaving for Uninitialized frees the node: the component answers no more, and a
\* delayed kWhatReleaseCodecInstance finds nothing to do.
FreeNode(q) == ChangeState([q EXCEPT !.ac.commands = <<>>, !.ac.timers = {}], "Uninitialized")

PortMode(q, b) ==
    CASE q.ac.state = "Executing" -> "RESUBMIT"
      [] q.ac.state = "OutputPortSettingsChanged" ->
            IF b \in InputBuffers THEN "RESUBMIT" ELSE "FREE"
      [] OTHER -> "KEEP"

AllYourBuffersAreBelongToUs(q) == \A b \in Buffers : q.ac.mStatus[b] \in {"US", "NONE"}

\* postFillThisBuffer() of every input buffer in bs that is ours.
PostFillThisBuffer(q, bs) ==
    LET ours == SetToSeq({b \in bs : q.ac.mStatus[b] = "US"})
    IN  [SetStatus(q, ToSet(ours), "UPSTREAM") EXCEPT
            !.notes = @ \o [i \in DOMAIN ours |-> <<"FillThisBuffer", ours[i]>>]]

\* submitRegularOutputBuffers() wants every output buffer to be ours.
SubmitOutputBuffers(q, works) ==
    LET bs == {b \in OutputBuffers : q.ac.mStatus[b] # "NONE"}
    IN  IF \E b \in bs : q.ac.mStatus[b] # "US" THEN SignalError(q, "WRONG")
        ELSE IF works = "ALL" THEN SetStatus(q, bs, "COMPONENT")
        ELSE SignalError(q, "FATAL")

Resume(q, works) ==
    IF q.ac.mActive THEN q
    ELSE [PostFillThisBuffer(SubmitOutputBuffers(q, works), InputBuffers) EXCEPT !.ac.mActive = TRUE]

FreeBuffers(q) == [SetStatus(q, Buffers, "NONE") EXCEPT !.ac.channel = {}]

-----------------------------------------------------------------------------
(* Shutdown, flush and resume: the messages that a state may defer.        *)

Completed(keep) == IF keep THEN <<"StopCompleted">> ELSE <<"ReleaseCompleted">>

LoadedOnShutdown(q, keep) ==
    LET freed == IF keep THEN q ELSE FreeNode(q)
    IN  [(IF freed.ac.mExplicitShutdown THEN Notify(freed, Completed(keep)) ELSE freed)
            EXCEPT !.ac.mExplicitShutdown = FALSE]

ArmForce(q) == IF q.ac.mFatalError THEN [q EXCEPT !.ac.timers = @ \cup {"force"}] ELSE q

\* Mutant of OnShutdown: a request that comes during a port change is dropped.
OnShutdownUndeferred(q, keep, works) ==
    CASE q.ac.state = "Uninitialized" -> Notify(q, Completed(keep))
      [] q.ac.state = "Loaded" -> LoadedOnShutdown([q EXCEPT !.ac.mExplicitShutdown = TRUE], keep)
      [] q.ac.state = "OutputPortSettingsChanged" -> q
      [] OTHER -> Defer(q, <<"Shutdown", keep>>)

OnShutdown(q, keep, works) ==
    CASE q.ac.state = "Uninitialized" -> Notify(q, Completed(keep))
      [] q.ac.state = "Loaded" -> LoadedOnShutdown([q EXCEPT !.ac.mExplicitShutdown = TRUE], keep)
      [] q.ac.state = "Executing" ->
            LET r == [q EXCEPT !.ac.mShutdownInProgress = TRUE, !.ac.mExplicitShutdown = TRUE,
                               !.ac.mKeepComponentAllocated = keep, !.ac.mActive = FALSE]
            IN  IF works # "NONE" THEN ChangeState(SendCommand(r, "Idle"), "ExecutingToIdle")
                ELSE IF keep THEN SignalError(r, "FATAL") ELSE r
      [] q.ac.state \in {"Flushing", "OutputPortSettingsChanged"} ->
            ArmForce(Defer(q, <<"Shutdown", keep>>))
      [] OTHER -> Defer(q, <<"Shutdown", keep>>)

OnFlush(q, works) ==
    CASE q.ac.state \in {"Uninitialized", "Loaded", "LoadedToIdle", "IdleToExecuting"} ->
            Notify(q, <<"FlushCompleted">>)
      [] q.ac.state = "Executing" ->
            LET r == [q EXCEPT !.ac.mActive = FALSE]
            IN  IF works # "NONE" THEN ChangeState(SendCommand(r, "Flush"), "Flushing")
                ELSE SignalError(r, "FATAL")
      [] q.ac.state = "OutputPortSettingsChanged" -> ArmForce(Defer(q, <<"Flush">>))
      [] OTHER -> q

OnResume(q, works) ==
    CASE q.ac.state = "Executing" -> Resume(q, works)
      [] q.ac.state = "OutputPortSettingsChanged" -> Defer(q, <<"Resume">>)
      [] OTHER -> q

\* OMX_EventPortSettingsChanged: the output buffers that are ours are freed at once,
\* the others as they come back.  A component that does not take the command is a
\* failed CHECK.
OnPortSettingsChanged(q, works) ==
    CASE q.ac.state = "Executing" /\ works # "NONE" ->
            ChangeState(SetStatus(SendCommand(q, "PortDisable"),
                                  OutputBuffers \cap Owned(q, "US"), "NONE"),
                        "OutputPortSettingsChanged")
      [] q.ac.state = "Executing" /\ works = "NONE" -> [q EXCEPT !.abort = "PortDisable"]
      [] q.ac.state = "Flushing" -> Defer(q, <<"PortSettingsChanged">>)
      [] OTHER -> q

OnDeferrable(q, msg, works) ==
    CASE msg[1] = "Shutdown" -> OnShutdown(q, msg[2], works)
      [] msg[1] = "PortSettingsChanged" -> OnPortSettingsChanged(q, works)
      [] msg[1] = "Flush" -> OnFlush(q, works)
      [] msg[1] = "Resume" -> OnResume(q, works)

ProcessDeferredMessages(q, works) ==
    FoldLeft(LAMBDA r, msg : OnDeferrable(r, msg, works),
             [q EXCEPT !.ac.mDeferredQueue = <<>>], q.ac.mDeferredQueue)

EnterExecuting(q, works) == ProcessDeferredMessages(ChangeState(q, "Executing"), works)

EnterLoaded(q, works) ==
    LET l == ChangeState(q, "Loaded")
        s == IF ~l.ac.mShutdownInProgress THEN l
             ELSE LoadedOnShutdown([l EXCEPT !.ac.mShutdownInProgress = FALSE,
                                             !.ac.mKeepComponentAllocated = FALSE],
                                   l.ac.mKeepComponentAllocated)
    IN  ProcessDeferredMessages([s EXCEPT !.ac.mExplicitShutdown = FALSE], works)

\* The component is idle, or flushed, and no buffer is with anybody else.
ChangeStateIfWeOwnAllBuffers(q, works) ==
    IF ~(q.ac.done /\ AllYourBuffersAreBelongToUs(q)) THEN q
    ELSE CASE q.ac.state = "ExecutingToIdle" ->
                LET freed == FreeBuffers(SendCommand(q, "Loaded"))
                IN  IF works = "ALL" THEN ChangeState(freed, "IdleToLoaded")
                    ELSE SignalError(IF works = "COMMANDS" THEN freed ELSE q, "FATAL")
           [] q.ac.state = "Flushing" -> EnterExecuting(Notify(q, <<"FlushCompleted">>), works)
           [] OTHER -> q

-----------------------------------------------------------------------------
(* The other requests of MediaCodec.                                       *)

OnAllocateComponent(q, works) ==
    IF q.ac.state # "Uninitialized" THEN q
    ELSE IF works = "ALL" THEN EnterLoaded(Notify(q, <<"ComponentAllocated">>), works)
    ELSE SignalError(q, "FATAL")

OnConfigureComponent(q, works) ==
    IF q.ac.state # "Loaded" THEN q
    ELSE IF works = "ALL" THEN Notify(q, <<"ComponentConfigured">>) ELSE SignalError(q, "FATAL")

\* A failure is part of the answer here.
OnCreateInputSurface(q, works) ==
    IF q.ac.state = "Loaded" THEN Notify(q, <<"InputSurfaceCreated", works = "ALL">>)
    ELSE SignalError(q, "FATAL")

OnSignalEndOfInputStream(q) ==
    IF q.ac.state \in {"LoadedToIdle", "IdleToExecuting", "Executing"}
    THEN Notify(q, <<"SignaledInputEOS">>)
    ELSE SignalError(q, "FATAL")

\* onStart(), and what LoadedToIdle does when it is entered: the buffers are
\* allocated, or the component is sent back.
OnStart(q, works) ==
    CASE q.ac.state # "Loaded" -> q
      [] q.ac.state = "Loaded" /\ works = "NONE" -> SignalError(q, "FATAL")
      [] q.ac.state = "Loaded" /\ works = "ALL" ->
            Notify([SetStatus(ChangeState(SendCommand(q, "Idle"), "LoadedToIdle"), Buffers, "US")
                        EXCEPT !.ac.channel = Buffers], <<"StartCompleted">>)
      [] q.ac.state = "Loaded" /\ works = "COMMANDS" ->
            EnterLoaded(FreeBuffers(SendCommand(SignalError(SendCommand(q, "Idle"), "FATAL"),
                                                "Loaded")), works)

\* getMoreInputDataIfPossible(): one more buffer, if one is left with us
GetMoreInputData(q) ==
    LET ours == InputBuffers \cap Owned(q, "US")
    IN  IF ours = {} THEN q ELSE PostFillThisBuffer(q, {CHOOSE b \in ours : TRUE})

\* A buffer comes back from the client filled, empty or discarded.
Contents == {"filled", "empty", "discarded"}

\* BaseState::onInputBufferFilled(), which the two states that wait for buffers extend.
OnInputBufferFilled(q, b, content, works) ==
    LET r == SetStatus(q, {b}, "US")
    IN  ChangeStateIfWeOwnAllBuffers(
            CASE q.ac.mStatus[b] # "UPSTREAM" -> SignalError(q, "WRONG")
              [] OTHER ->
                    IF content = "discarded" \/ PortMode(q, b) # "RESUBMIT" THEN r
                    ELSE IF content = "empty" THEN PostFillThisBuffer(r, {b})
                    ELSE IF works = "ALL" THEN GetMoreInputData(SetStatus(r, {b}, "COMPONENT"))
                    ELSE SignalError(r, "FATAL"),
            works)

\* A call about a buffer that has been made: q, and an error if it failed.
Tried(q, works) == IF works = "ALL" THEN q ELSE SignalError(q, "FATAL")

\* freeBuffer() forgets the buffer even if the component fails to.
FreeBuffer(q, b, works) == Tried(SetStatus(q, {b}, "NONE"), works)

\* fillBuffer()
FillBuffer(q, b, works) ==
    Tried(SetStatus(q, {b}, IF works = "ALL" THEN "COMPONENT" ELSE "US"), works)

OnOutputBufferDrained(q, b, works) ==
    ChangeStateIfWeOwnAllBuffers(
        CASE q.ac.mStatus[b] # "DOWNSTREAM" -> SignalError(q, "WRONG")
          [] q.ac.mStatus[b] = "DOWNSTREAM" /\ PortMode(q, b) = "KEEP" -> SetStatus(q, {b}, "US")
          [] q.ac.mStatus[b] = "DOWNSTREAM" /\ PortMode(q, b) = "FREE" -> FreeBuffer(q, b, works)
          [] q.ac.mStatus[b] = "DOWNSTREAM" /\ PortMode(q, b) = "RESUBMIT" ->
                FillBuffer(q, b, works),
        works)

\* One message of the looper of ACodec.  A release also sets the clock for a forced
\* one, which the looper delivers after the request itself.
OnMessage(q, msg, works) ==
    CASE msg[1] = "AllocateComponent" -> OnAllocateComponent(q, works)
      [] msg[1] = "ConfigureComponent" -> OnConfigureComponent(q, works)
      [] msg[1] = "CreateInputSurface" -> OnCreateInputSurface(q, works)
      [] msg[1] = "SignalEndOfInputStream" -> OnSignalEndOfInputStream(q)
      [] msg[1] = "Start" -> OnStart(q, works)
      [] msg[1] = "Shutdown" ->
            OnShutdown([q EXCEPT !.ac.timers = @ \cup IF msg[2] THEN {} ELSE {"release"}],
                       msg[2], works)
      [] msg[1] \in {"Flush", "Resume"} -> OnDeferrable(q, msg, works)
      [] msg[1] = "InputBufferFilled" -> OnInputBufferFilled(q, msg[2], msg[3], works)
      [] msg[1] = "OutputBufferDrained" -> OnOutputBufferDrained(q, msg[2], works)
      [] msg[1] = "OMXDied" -> SignalError(q, "DEAD")

-----------------------------------------------------------------------------
(* The actions.                                                            *)

Self == [ac |-> ac, notes |-> <<>>, abort |-> "no"]

\* A handler ends: its result is stored and its notifications are posted.
Commit(q) ==
    /\ ac' = q.ac
    /\ looper' = looper \o q.notes
    /\ aborted' = q.abort

\* Which calls of the component succeed in a step: none of a dead one.
Outcome(works) ==
    \/ works = "ALL" /\ env.alive /\ UNCHANGED env
    \/ works = "NONE" /\ ~env.alive /\ UNCHANGED env
    \/ works # "ALL" /\ env.alive /\ env.events < MaxEvents /\ env' = [env EXCEPT !.events = @ + 1]

\* Messages whose handling calls the component.
CallsComponent(msg) == msg[1] \notin {"SignalEndOfInputStream", "OMXDied"}

ReceiveMessage(works) ==
    /\ inbox # <<>>
    /\ IF CallsComponent(Head(inbox)) THEN Outcome(works) ELSE works = "ALL" /\ UNCHANGED env
    /\ inbox' = Tail(inbox)
    /\ Commit(OnMessage(Self, Head(inbox), works))

\* Messages of the component arrive: also those it sent before it died, until its death
\* is known.
Heard == env.alive \/ <<"OMXDied">> \in ToSet(inbox)

\* The component must have given back what a command takes from it.
Completable(c) ==
    CASE c \in {"Idle", "Flush"} -> Owned(Self, "COMPONENT") = {}
      [] c = "PortDisable" -> \A b \in OutputBuffers : ac.mStatus[b] = "NONE"
      [] c = "PortEnable" -> \A b \in OutputBuffers : ac.mStatus[b] # "NONE"
      [] OTHER -> TRUE

\* The command a state waits for.
Expected ==
    [LoadedToIdle |-> "Idle", IdleToExecuting |-> "Executing", ExecutingToIdle |-> "Idle",
     IdleToLoaded |-> "Loaded", Flushing |-> "Flush"]

\* onOMXEvent() of the several states, for OMX_EventCmdComplete.
OnCmdComplete(q, c, works) ==
    CASE q.ac.state \in DOMAIN Expected /\ c # Expected[q.ac.state] -> SignalError(q, "FATAL")
      [] q.ac.state = "LoadedToIdle" /\ c = "Idle" ->
            IF works # "NONE" THEN ChangeState(SendCommand(q, "Executing"), "IdleToExecuting")
            ELSE SignalError(q, "FATAL")
      [] q.ac.state = "IdleToExecuting" /\ c = "Executing" -> EnterExecuting(Resume(q, works), works)
      [] q.ac.state \in {"ExecutingToIdle", "Flushing"} /\ c = Expected[q.ac.state] ->
            ChangeStateIfWeOwnAllBuffers([q EXCEPT !.ac.done = TRUE], works)
      [] q.ac.state = "IdleToLoaded" /\ c = "Loaded" -> EnterLoaded(q, works)
      [] q.ac.state = "OutputPortSettingsChanged" /\ c = "PortDisable" ->
            LET changed == Notify(SendCommand(q, "PortEnable"), <<"OutputBuffersChanged">>)
            IN  IF works = "NONE" \/ \E b \in OutputBuffers : q.ac.mStatus[b] # "NONE"
                THEN SignalError(q, "FATAL")
                ELSE Tried(IF works = "ALL" THEN SetStatus(changed, OutputBuffers, "US")
                           ELSE changed, works)
      [] q.ac.state = "OutputPortSettingsChanged" /\ c = "PortEnable" ->
            EnterExecuting(IF q.ac.mActive THEN SubmitOutputBuffers(q, works) ELSE q, works)
      [] OTHER -> q

CmdComplete(works) ==
    /\ ac.commands # <<>> /\ Heard
    /\ Completable(Head(ac.commands))
    /\ Outcome(works)
    /\ Commit(OnCmdComplete([Self EXCEPT !.ac.commands = Tail(@)], Head(ac.commands), works))
    /\ UNCHANGED inbox

\* onOMXEmptyBufferDone()
EmptyBufferDone(b) ==
    /\ ac.mStatus[b] = "COMPONENT" /\ Heard /\ ac.state # "Uninitialized"
    /\ LET q == SetStatus(Self, {b}, "US")
       IN  Commit(IF PortMode(q, b) = "RESUBMIT" THEN PostFillThisBuffer(q, {b}) ELSE q)
    /\ UNCHANGED <<inbox, env>>

\* onOMXFillBufferDone(): an empty frame is not worth sending on, and a frame that
\* cannot be converted stays here.
FillBufferDone(b, empty, works) ==
    /\ ac.mStatus[b] = "COMPONENT" /\ Heard /\ ac.state # "Uninitialized"
    /\ Outcome(works)
    /\ LET q == SetStatus(Self, {b}, "US")
       IN  Commit(CASE PortMode(q, b) = "KEEP" -> q
                    [] PortMode(q, b) = "FREE" -> FreeBuffer(q, b, works)
                    [] PortMode(q, b) = "RESUBMIT" ->
                            IF empty THEN FillBuffer(q, b, works)
                            ELSE IF works = "ALL"
                            THEN Notify(SetStatus(q, {b}, "DOWNSTREAM"), <<"DrainThisBuffer", b>>)
                            ELSE SignalError(q, "FATAL"))
    /\ UNCHANGED inbox

\* The component changes its output format, one change at a time; it may then fail, or
\* be dead, when it is sent the command.
PortSettingsChanged(works) ==
    /\ ac.state \in {"Executing", "Flushing"} /\ Heard
    /\ env.events < MaxEvents
    /\ works = "NONE" \/ (works = "ALL" /\ env.alive)
    /\ <<"PortSettingsChanged">> \notin ToSet(ac.mDeferredQueue)
    /\ ToSet(ac.commands) \cap {"PortDisable", "PortEnable"} = {}
    /\ env' = [env EXCEPT !.events = @ + 1]
    /\ Commit(OnPortSettingsChanged(Self, works))
    /\ UNCHANGED inbox

\* OMX_EventError
ComponentError ==
    /\ ac.state # "Uninitialized" /\ env.alive /\ env.events < MaxEvents
    /\ env' = [env EXCEPT !.events = @ + 1]
    /\ Commit(SignalError(Self, "FATAL"))
    /\ UNCHANGED inbox

\* The media server dies; the death notifier is linked while there is a node.
ComponentDies ==
    /\ ac.state # "Uninitialized" /\ env.alive /\ env.events < MaxEvents
    /\ env' = [env EXCEPT !.events = @ + 1, !.alive = FALSE, !.deaths = @ + 1]
    /\ inbox' = Append(inbox, <<"OMXDied">>)
    /\ UNCHANGED <<ac, looper, aborted>>

\* kWhatReleaseCodecInstance, three seconds after a release was asked for
ForceRelease ==
    /\ "release" \in ac.timers
    /\ LET q == [Self EXCEPT !.ac.timers = @ \ {"release"}]
       IN  Commit(IF ac.state = "Uninitialized" THEN q
                  ELSE FreeNode(Notify(q, <<"ReleaseCompleted">>)))
    /\ UNCHANGED <<inbox, env>>

\* kWhatCheckIfStuck, three seconds after the state was entered
CheckIfStuck ==
    /\ "stuck" \in ac.timers
    /\ Commit(SignalError([Self EXCEPT !.ac.timers = @ \ {"stuck"}], "FATAL"))
    /\ UNCHANGED <<inbox, env>>

\* kWhatForceStateTransition
ForceStateTransition(works) ==
    /\ "force" \in ac.timers
    /\ Outcome(works)
    /\ LET q == [Self EXCEPT !.ac.timers = @ \ {"force"}, !.ac.mShutdownInProgress = TRUE,
                             !.ac.mExplicitShutdown = FALSE, !.ac.mKeepComponentAllocated = TRUE]
       IN  Commit(IF works # "NONE" THEN ChangeState(SendCommand(q, "Idle"), "ExecutingToIdle") ELSE q)
    /\ UNCHANGED inbox

CodecNext ==
    \/ \E works \in Works :
        ReceiveMessage(works) \/ CmdComplete(works) \/ PortSettingsChanged(works)
        \/ ForceStateTransition(works)
    \/ \E b \in InputBuffers : EmptyBufferDone(b)
    \/ \E b \in OutputBuffers, empty \in BOOLEAN, works \in Works : FillBufferDone(b, empty, works)
    \/ ComponentError \/ ComponentDies \/ ForceRelease \/ CheckIfStuck
=============================================================================
