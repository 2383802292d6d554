----------------------------- MODULE MediaCodec -----------------------------
(***************************************************************************)
(* MediaCodec: threads of the application, and the one in which the        *)
(* resource manager reclaims the codec, post calls to a looper and wait    *)
(* for a reply; onMessageReceived() handles the calls and the              *)
(* notifications of ACodec one at a time.                                  *)
(*                                                                         *)
(* A call that takes time leaves its reply token in mReplyID, of which     *)
(* there is one, or in mDequeueInputReplyID or mDequeueOutputReplyID; the  *)
(* notification that completes the call replies to the token it finds.     *)
(*                                                                         *)
(* As ACodec reports only ACTION_CODE_FATAL, kFlagStickyError and          *)
(* kFlagSawMediaServerDie do not outlive the handler that sets them.       *)
(* Codec specific data, crypto, formats and surfaces for output are left   *)
(* out, and so are the retries of init() and start() after NO_MEMORY.      *)
(***************************************************************************)
EXTENDS ACodec, FiniteSets

CONSTANTS
    Apps,               \* threads of the application
    Reclaimers,         \* threads of the resource manager: one, or none
    AppCalls,           \* which calls the application makes
    MaxGeneration,      \* of the dequeue time-outs, where the application stops
    MaxTimeouts,        \* how many of them are on their way, likewise
    NoToken             \* no reply token, or one that has been replied to

VARIABLES
    mc,         \* the MediaCodec object
    waiting     \* the call each thread waits in, <<>> if none

vars == <<mc, waiting, codecVars, looper>>

Threads == Apps \cup Reclaimers
Ports == {"in", "out"}
PortBuffers(p) == IF p = "in" THEN InputBuffers ELSE OutputBuffers

\* The calls.  A dequeue names its port and its time-out.
Dequeues == {<<"dequeue", p, t>> : p \in Ports, t \in {"ZERO", "FINITE", "INFINITE"}}
Returns == {<<"queueInputBuffer", b, c>> : b \in InputBuffers, c \in {"filled", "empty"}}
           \cup {<<"releaseOutputBuffer", b>> : b \in OutputBuffers}
Simple == {<<c>> : c \in {"configure", "createInputSurface", "start", "stop", "flush",
                          "signalEndOfInputStream", "release", "reset"}}
          \cup {<<"setCallback", callback>> : callback \in BOOLEAN}    \* one, or NULL

ASSUME ThreadsAssumption ==
    /\ Apps \cap Reclaimers = {} /\ NoToken \notin Apps \cup Reclaimers
    /\ AppCalls \subseteq Simple \cup Dequeues \cup Returns
ASSUME GenerationAssumption == MaxGeneration \in Nat /\ MaxTimeouts \in Nat

\* MediaCodec::CreateByType() has returned: the component is allocated.
Init ==
    /\ CodecInit
    /\ mc = [mState |-> "INITIALIZED", mFlags |-> {"ComponentAllocated"}, mReplyID |-> NoToken,
             mDequeueReplyID |-> [p \in Ports |-> NoToken],
             mDequeueTimeoutGeneration |-> [p \in Ports |-> 0],
             mHaveInputSurface |-> FALSE, mHavePendingInputBuffers |-> FALSE,
             mReleasedByResourceManager |-> FALSE,
             mData |-> {},          \* the indices of mPortBuffers that hold a buffer,
             old |-> {},            \* those that hold one of an ACodec thrown away,
             mOwnedByClient |-> {},
             mAvailPortBuffers |-> [p \in Ports |-> <<>>],
             mCodec |-> TRUE,       \* not NULL
             registered |-> TRUE,   \* the resource manager knows of this codec
             delayed |-> {}]        \* dequeue time-outs to come: port, generation, older than a reset
    /\ waiting = [t \in Threads |-> <<>>]

-----------------------------------------------------------------------------
(* What the handlers are made of: operators on [mc, replies, sent, abort]. *)

Reply(r, token, status) ==
    IF token \in Threads THEN [r EXCEPT !.replies = @ \cup {<<token, status>>}] ELSE r

\* A codec that was reclaimed answers DEAD_OBJECT.
PostReplyWithError(r, token, status) ==
    Reply(r, token, IF r.mc.mReleasedByResourceManager THEN "ERROR" ELSE status)

Check(r, condition, name) == IF condition THEN r ELSE [r EXCEPT !.abort = name]

\* A call of mCodec, which posts; a null pointer ends the process, too.
Send(r, msg) == Check([r EXCEPT !.sent = Append(@, msg)], r.mc.mCodec, "mCodec")

IsExecuting(r) == r.mc.mState \in {"STARTED", "FLUSHED"}

\* Mutant of CancelPendingDequeueOperations: the output side is forgotten.
CancelPendingDequeueInput(r) ==
    LET tok == r.mc.mDequeueReplyID
    IN  [PostReplyWithError(r, tok["in"], "INVALID") EXCEPT
            !.mc.mDequeueTimeoutGeneration =
                [p \in Ports |-> IF p = "in" /\ tok[p] # NoToken THEN @[p] + 1 ELSE @[p]],
            !.mc.mDequeueReplyID = [p \in Ports |-> NoToken]]

\* kFlagDequeueInputPending and -OutputPending stand and fall with the tokens.
CancelPendingDequeueOperations(r) ==
    LET tok == r.mc.mDequeueReplyID
    IN  [PostReplyWithError(PostReplyWithError(r, tok["in"], "INVALID"), tok["out"], "INVALID")
            EXCEPT !.mc.mDequeueTimeoutGeneration =
                        [p \in Ports |-> IF tok[p] # NoToken THEN @[p] + 1 ELSE @[p]],
                   !.mc.mDequeueReplyID = [p \in Ports |-> NoToken]]

Discarded(b) ==
    IF b \in InputBuffers THEN <<"InputBufferFilled", b, "discarded">> ELSE <<"OutputBufferDrained", b>>

\* Mutant of ReturnBuffersToCodecOnPort: what the client has is not given back.
ReturnBuffersButClients(r, p, isReclaim) ==
    LET held == r.mc.mData \cap PortBuffers(p)
        found == SetToSeq(((held \ r.mc.mOwnedByClient) \ r.mc.old) \cap ac.channel)
    IN  [r EXCEPT !.mc.mData = @ \ held, !.mc.mOwnedByClient = @ \ held,
                  !.mc.mAvailPortBuffers[p] = <<>>,
                  !.sent = @ \o [i \in DOMAIN found |-> Discarded(found[i])]]

\* A reclaimed codec discards what the client has, but leaves it marked.
ReturnBuffersToCodecOnPort(r, p, isReclaim) ==
    LET held == r.mc.mData \cap PortBuffers(p)
        kept == IF isReclaim THEN held \cap r.mc.mOwnedByClient ELSE {}
        found == SetToSeq((held \ r.mc.old) \cap ac.channel)
    IN  [r EXCEPT !.mc.mData = @ \ (held \ kept),
                  !.mc.mOwnedByClient = @ \ (held \ kept),
                  !.mc.mAvailPortBuffers[p] = <<>>,
                  !.sent = @ \o [i \in DOMAIN found |-> Discarded(found[i])]]

ReturnBuffersToCodec(r, isReclaim) ==
    ReturnBuffersToCodecOnPort(ReturnBuffersToCodecOnPort(r, "in", isReclaim), "out", isReclaim)

SetState(r, newState) ==
    LET cleared == IF newState \in {"INITIALIZED", "UNINITIALIZED"}
                   THEN [r EXCEPT !.mc.mFlags = @ \ {"Async", "OutputBuffersChanged"}] ELSE r
        returned == IF newState = "UNINITIALIZED" THEN ReturnBuffersToCodec(cleared, FALSE)
                    ELSE cleared
    IN  CancelPendingDequeueOperations([returned EXCEPT !.mc.mState = newState])

\* dequeuePortBuffer(), of a list that is not empty
DequeuePortBuffer(r, p) ==
    LET b == Head(r.mc.mAvailPortBuffers[p])
    IN  Check([r EXCEPT !.mc.mAvailPortBuffers[p] = Tail(@), !.mc.mOwnedByClient = @ \cup {b}],
              b \notin r.mc.mOwnedByClient /\ b \in r.mc.mData, "mOwnedByClient")

\* onInputBufferAvailable(), onOutputBufferAvailable(): all of them go to the callback
OnBufferAvailable(r, p) ==
    FoldLeft(LAMBDA q, b : DequeuePortBuffer(q, p), r, r.mc.mAvailPortBuffers[p])

\* handleDequeueInputBuffer(), handleDequeueOutputBuffer(): whether they reply, and
\* what they do then.
Handles(r, p, newRequest) ==
    \/ ~IsExecuting(r) \/ "Async" \in r.mc.mFlags
    \/ newRequest /\ r.mc.mDequeueReplyID[p] # NoToken
    \/ p = "out" /\ "OutputBuffersChanged" \in r.mc.mFlags
    \/ r.mc.mAvailPortBuffers[p] # <<>>

HandleDequeueBuffer(r, p, token, newRequest) ==
    IF \/ ~IsExecuting(r) \/ "Async" \in r.mc.mFlags
       \/ newRequest /\ r.mc.mDequeueReplyID[p] # NoToken
    THEN PostReplyWithError(r, token, "INVALID")
    ELSE IF p = "out" /\ "OutputBuffersChanged" \in r.mc.mFlags
    THEN PostReplyWithError([r EXCEPT !.mc.mFlags = @ \ {"OutputBuffersChanged"}], token, "INFO")
    ELSE Reply(DequeuePortBuffer(r, p), token, "OK")

-----------------------------------------------------------------------------
(* Notifications of ACodec.                                                *)

\* kWhatError: it answers the call in progress, if the state tells of one.
OnError(r, err) ==
    LET e == IF err = "DEAD" THEN [r EXCEPT !.mc.mFlags = @ \ {"ComponentAllocated"}] ELSE r
        token == r.mc.mReplyID
    IN  CASE r.mc.mState \in {"INITIALIZING", "CONFIGURING", "STARTING", "FLUSHING"} ->
                PostReplyWithError(SetState(e, "UNINITIALIZED"), token, "ERROR")
          [] r.mc.mState = "STOPPING" /\ err # "DEAD" -> PostReplyWithError(e, token, "ERROR")
          [] r.mc.mState = "RELEASING" /\ err # "DEAD" -> e
          [] r.mc.mState \in {"STOPPING", "RELEASING"} /\ err = "DEAD" ->
                Reply(SetState(e, "UNINITIALIZED"), token, "OK")
          [] r.mc.mState \in {"UNINITIALIZED", "INITIALIZED", "CONFIGURED", "STARTED", "FLUSHED"} ->
                SetState(e, "UNINITIALIZED")

OnComponentAllocated(r) ==
    IF r.mc.mState \in {"RELEASING", "UNINITIALIZED"} THEN r
    ELSE Reply(Check([SetState(r, "INITIALIZED") EXCEPT
                        !.mc.mFlags = @ \cup {"ComponentAllocated"}, !.mc.registered = TRUE],
                     r.mc.mState = "INITIALIZING", "INITIALIZING"),
               r.mc.mReplyID, "OK")

OnComponentConfigured(r) ==
    IF r.mc.mState \in {"RELEASING", "UNINITIALIZED", "INITIALIZED"} THEN r
    ELSE Reply(Check(SetState([r EXCEPT !.mc.mHaveInputSurface = FALSE], "CONFIGURED"),
                     r.mc.mState = "CONFIGURING", "CONFIGURING"),
               r.mc.mReplyID, "OK")

\* kWhatInputSurfaceCreated, kWhatInputSurfaceAccepted
OnInputSurfaceCreated(r, ok) ==
    Reply([r EXCEPT !.mc.mHaveInputSurface = @ \/ ok], r.mc.mReplyID,
          IF ok THEN "OK" ELSE "ERROR")

OnSignaledInputEOS(r) == Reply(r, r.mc.mReplyID, "OK")

\* Mutant of OnStartCompleted: a release that overtook the start is not expected.
OnStartCompletedAlways(r) ==
    Reply(Check(SetState(r, "STARTED"), r.mc.mState = "STARTING", "STARTING"),
          r.mc.mReplyID, "OK")

OnStartCompleted(r) ==
    IF r.mc.mState \in {"RELEASING", "UNINITIALIZED"} THEN r
    ELSE Reply(Check(SetState(r, "STARTED"), r.mc.mState = "STARTING", "STARTING"),
               r.mc.mReplyID, "OK")

\* kWhatFillThisBuffer, kWhatDrainThisBuffer: updateBuffers(), and then the buffer
\* goes back, to the callback, to the thread that waits, or on the list.
OnBuffer(r, p, b, old) ==
    LET u == [r EXCEPT !.mc.mData = @ \cup {b}, !.mc.mAvailPortBuffers[p] = Append(@, b),
                       !.mc.old = IF old THEN @ \cup {b} ELSE @ \ {b}]
        token == r.mc.mDequeueReplyID[p]
    IN  IF r.mc.mState \in {"FLUSHING", "STOPPING", "RELEASING"}
        THEN ReturnBuffersToCodecOnPort(u, p, FALSE)
        ELSE IF "Async" \in r.mc.mFlags
        THEN IF p = "in" /\ r.mc.mHaveInputSurface THEN u
             ELSE IF p = "in" /\ r.mc.mState = "FLUSHED"
             THEN [u EXCEPT !.mc.mHavePendingInputBuffers = TRUE]
             ELSE OnBufferAvailable(u, p)
        ELSE IF token # NoToken
        THEN [HandleDequeueBuffer(u, p, token, FALSE) EXCEPT
                !.mc.mDequeueTimeoutGeneration[p] = @ + 1, !.mc.mDequeueReplyID[p] = NoToken]
        ELSE u

OnStopCompleted(r) ==
    IF r.mc.mState # "STOPPING" THEN r
    ELSE Reply(SetState(r, "INITIALIZED"), r.mc.mReplyID, "OK")

OnReleaseCompleted(r) ==
    IF r.mc.mState # "RELEASING" THEN r
    ELSE Reply([SetState(r, "UNINITIALIZED") EXCEPT !.mc.mFlags = @ \ {"ComponentAllocated"},
                                                    !.mc.registered = FALSE],
               r.mc.mReplyID, "OK")

OnFlushCompleted(r) ==
    IF r.mc.mState # "FLUSHING" THEN r
    ELSE Reply(IF "Async" \in r.mc.mFlags THEN SetState(r, "FLUSHED")
               ELSE Send(SetState(r, "STARTED"), <<"Resume">>),
               r.mc.mReplyID, "OK")

OnNotify(r, msg) ==
    CASE msg[1] = "Error" -> OnError(r, msg[2])
      [] msg[1] = "ComponentAllocated" -> OnComponentAllocated(r)
      [] msg[1] = "ComponentConfigured" -> OnComponentConfigured(r)
      [] msg[1] = "InputSurfaceCreated" -> OnInputSurfaceCreated(r, msg[2])
      [] msg[1] = "SignaledInputEOS" -> OnSignaledInputEOS(r)
      [] msg[1] = "StartCompleted" -> OnStartCompleted(r)
      [] msg[1] = "OutputBuffersChanged" ->
            [r EXCEPT !.mc.mFlags = @ \cup {"OutputBuffersChanged"}]
      [] msg[1] = "FillThisBuffer" -> OnBuffer(r, "in", msg[2], FALSE)
      [] msg[1] = "DrainThisBuffer" -> OnBuffer(r, "out", msg[2], FALSE)
      [] msg[1] = "OldBuffer" -> OnBuffer(r, IF msg[2] \in InputBuffers THEN "in" ELSE "out",
                                          msg[2], TRUE)
      [] msg[1] = "StopCompleted" -> OnStopCompleted(r)
      [] msg[1] = "ReleaseCompleted" -> OnReleaseCompleted(r)
      [] msg[1] = "FlushCompleted" -> OnFlushCompleted(r)

-----------------------------------------------------------------------------
(* Calls.  The handler of a call has its token, which is the thread t.     *)

Invalid(r, t) == PostReplyWithError(r, t, "INVALID")

\* The call takes mReplyID, changes the state and asks ACodec.
Begin(r, t, newState, msg) == Send(SetState([r EXCEPT !.mc.mReplyID = t], newState), msg)

OnInit(r, t) ==
    IF r.mc.mState # "UNINITIALIZED" THEN Invalid(r, t)
    ELSE Begin(r, t, "INITIALIZING", <<"AllocateComponent">>)

OnSetCallback(r, t, callback) ==
    IF r.mc.mState \in {"UNINITIALIZED", "INITIALIZING"} \/ IsExecuting(r) THEN Invalid(r, t)
    ELSE Reply([r EXCEPT !.mc.mFlags = IF callback THEN @ \cup {"Async"} ELSE @ \ {"Async"}],
               t, "OK")

OnConfigure(r, t) ==
    IF r.mc.mState # "INITIALIZED" THEN Invalid(r, t)
    ELSE Begin(r, t, "CONFIGURING", <<"ConfigureComponent">>)

\* kWhatCreateInputSurface, kWhatSetInputSurface
OnCreateInputSurfaceCall(r, t) ==
    IF r.mc.mState # "CONFIGURED" THEN Invalid(r, t)
    ELSE Send([r EXCEPT !.mc.mReplyID = t], <<"CreateInputSurface">>)

OnStartCall(r, t) ==
    CASE r.mc.mState = "FLUSHED" ->
            LET s == SetState(r, "STARTED")
                a == IF s.mc.mHavePendingInputBuffers
                     THEN [OnBufferAvailable(s, "in") EXCEPT !.mc.mHavePendingInputBuffers = FALSE]
                     ELSE s
            IN  PostReplyWithError(Send(a, <<"Resume">>), t, "OK")
      [] r.mc.mState = "CONFIGURED" -> Begin(r, t, "STARTING", <<"Start">>)
      [] OTHER -> Invalid(r, t)

\* The call in progress is answered before its token is replaced.
AnswerPending(r) ==
    IF r.mc.mState \in {"FLUSHING", "STOPPING", "CONFIGURING", "STARTING"}
    THEN Reply(r, r.mc.mReplyID, "OK") ELSE r

\* kWhatStop, kWhatRelease; "reclaim" is kWhatRelease with "reclaimed", "force" with both.
OnShutdownCall(r, t, call) ==
    LET stop == call = "stop"
        reclaimed == call \in {"reclaim", "force"}
        target == IF stop THEN "INITIALIZED" ELSE "UNINITIALIZED"
        m == [r EXCEPT !.mc.mReleasedByResourceManager = @ \/ reclaimed]
        isReleasingAllocatedComponent == ~stop /\ "ComponentAllocated" \in r.mc.mFlags
    IN  IF r.mc.mState = "UNINITIALIZED" /\ r.mc.mReleasedByResourceManager
        THEN Reply(r, t, "OK")
        ELSE IF call = "reclaim" /\ r.mc.mOwnedByClient # {}
        THEN Reply(m, t, "WOULD_BLOCK")
        ELSE IF ~isReleasingAllocatedComponent
                /\ r.mc.mState \notin {"INITIALIZED", "CONFIGURED", "STARTED", "FLUSHED"}
        THEN Reply(m, t, IF r.mc.mState = target THEN "OK" ELSE "INVALID")
        ELSE ReturnBuffersToCodec(
                Begin(AnswerPending(m), t, IF stop THEN "STOPPING" ELSE "RELEASING",
                      <<"Shutdown", stop>>),
                reclaimed)

OnFlushCall(r, t) ==
    IF ~IsExecuting(r) THEN Invalid(r, t)
    ELSE ReturnBuffersToCodec(Begin(r, t, "FLUSHING", <<"Flush">>), FALSE)

OnSignalEndOfInputStreamCall(r, t) ==
    IF ~IsExecuting(r) \/ ~r.mc.mHaveInputSurface THEN Invalid(r, t)
    ELSE Send([r EXCEPT !.mc.mReplyID = t], <<"SignalEndOfInputStream">>)

\* kWhatDequeueInputBuffer, kWhatDequeueOutputBuffer
OnDequeue(r, t, p, timeout) ==
    IF "Async" \in r.mc.mFlags \/ (p = "in" /\ r.mc.mHaveInputSurface) THEN Invalid(r, t)
    ELSE IF Handles(r, p, TRUE) THEN HandleDequeueBuffer(r, p, t, TRUE)
    ELSE IF timeout = "ZERO" THEN PostReplyWithError(r, t, "AGAIN")
    ELSE LET pending == [r EXCEPT !.mc.mDequeueReplyID[p] = t]
             generation == r.mc.mDequeueTimeoutGeneration[p] + 1
         IN  IF timeout = "INFINITE" THEN pending
             ELSE [pending EXCEPT !.mc.mDequeueTimeoutGeneration[p] = generation,
                                  !.mc.delayed = @ \cup {<<p, generation, FALSE>>}]

\* kWhatQueueInputBuffer, kWhatReleaseOutputBuffer: the buffer goes to the channel,
\* which for an input buffer may not know it any more.
OnReturnBuffer(r, t, b, content) ==
    LET known == b \in ac.channel \ r.mc.old
        msg == IF b \in InputBuffers THEN <<"InputBufferFilled", b, content>> ELSE Discarded(b)
    IN  IF ~IsExecuting(r) THEN Invalid(r, t)
        ELSE IF b \notin r.mc.mData \cap r.mc.mOwnedByClient \/ (b \in InputBuffers /\ ~known)
        THEN PostReplyWithError(r, t, "ERROR")
        ELSE PostReplyWithError(
                [r EXCEPT !.mc.mData = @ \ {b}, !.mc.mOwnedByClient = @ \ {b},
                          !.sent = @ \o IF known THEN <<msg>> ELSE <<>>],
                t, "OK")

OnCall(r, t, call) ==
    CASE call[1] = "init" -> OnInit(r, t)
      [] call[1] = "setCallback" -> OnSetCallback(r, t, call[2])
      [] call[1] = "configure" -> OnConfigure(r, t)
      [] call[1] = "createInputSurface" -> OnCreateInputSurfaceCall(r, t)
      [] call[1] = "start" -> OnStartCall(r, t)
      [] call[1] \in {"stop", "release", "reclaim", "force"} -> OnShutdownCall(r, t, call[1])
      [] call[1] = "reset" -> OnShutdownCall(r, t, "release")
      [] call[1] = "flush" -> OnFlushCall(r, t)
      [] call[1] = "signalEndOfInputStream" -> OnSignalEndOfInputStreamCall(r, t)
      [] call[1] = "dequeue" -> OnDequeue(r, t, call[2], call[3])
      [] call[1] = "queueInputBuffer" -> OnReturnBuffer(r, t, call[2], call[3])
      [] call[1] = "releaseOutputBuffer" -> OnReturnBuffer(r, t, call[2], "filled")

-----------------------------------------------------------------------------
(* The actions.                                                            *)

\* What a thread does when its call returns: reset() goes on, configure() resets after
\* an error, the resource manager tries again with force.
Returned(call, status) ==
    CASE call[1] = "reset" -> <<"clear", status = "OK">>
      [] call[1] = "configure" /\ status = "ERROR" -> <<"retry", "reset">>
      [] call[1] = "reclaim" /\ status = "WOULD_BLOCK" -> <<"retry", "force">>
      [] OTHER -> <<>>

\* The handler ends: threads that got a reply go on, their tokens are worth nothing.
Finish(r) ==
    LET replied == {x[1] : x \in r.replies}
        StatusOf(t) == (CHOOSE x \in r.replies : x[1] = t)[2]
    IN  /\ waiting' = [t \in Threads |-> IF t \in replied THEN Returned(waiting[t], StatusOf(t))
                                         ELSE waiting[t]]
        /\ mc' = [r.mc EXCEPT !.mReplyID = IF @ \in replied THEN NoToken ELSE @]
        /\ inbox' = inbox \o r.sent
        /\ aborted' = r.abort

Start == [mc |-> mc, replies |-> {}, sent |-> <<>>, abort |-> "no"]

\* A thread posts a call and waits.  A call that would be refused now, and so change
\* nothing, is not made.
Post(t, call) ==
    /\ waiting' = [waiting EXCEPT ![t] = call]
    /\ looper' = Append(looper, <<"Call", t>>)
    /\ UNCHANGED <<mc, aborted, ac, inbox>>

Invoke(t, call) ==
    /\ aborted = "no" /\ waiting[t] = <<>>
    /\ call[1] = "dequeue" /\ call[3] # "ZERO" =>
            mc.mDequeueTimeoutGeneration[call[2]] < MaxGeneration
    /\ call[1] = "dequeue" /\ call[3] = "FINITE" => Cardinality(mc.delayed) < MaxTimeouts
    /\ OnCall(Start, t, call) # Invalid(Start, t)
    /\ Post(t, call)
    /\ UNCHANGED env

Reclaim(t) ==
    /\ aborted = "no" /\ waiting[t] = <<>>
    /\ mc.registered /\ env.events < MaxEvents
    /\ env' = [env EXCEPT !.events = @ + 1]
    /\ Post(t, <<"reclaim">>)

Retry(t) ==
    /\ aborted = "no" /\ waiting[t] # <<>> /\ waiting[t][1] = "retry"
    /\ Post(t, <<waiting[t][2]>>)
    /\ UNCHANGED env

Aged(msg) ==
    IF msg[1] \in {"FillThisBuffer", "DrainThisBuffer"} THEN <<"OldBuffer", msg[2]>> ELSE msg

\* The rest of reset(): the old ACodec and its messages are gone, what it has posted is
\* not, nor are the dequeue time-outs; init() then makes a new ACodec.
ResetClear(t) ==
    /\ aborted = "no" /\ waiting[t] # <<>> /\ waiting[t][1] = "clear"
    /\ mc' = [mc EXCEPT !.mCodec = waiting[t][2], !.mFlags = {}, !.mReplyID = NoToken,
                        !.mDequeueReplyID = [p \in Ports |-> NoToken],
                        !.mDequeueTimeoutGeneration = [p \in Ports |-> 0],
                        !.mHaveInputSurface = FALSE,
                        !.old = mc.mData,
                        !.delayed = {<<x[1], x[2], TRUE>> : x \in @}]
    /\ ac' = NewCodec /\ inbox' = <<>> /\ env' = [env EXCEPT !.alive = TRUE]
    /\ IF waiting[t][2]
       THEN /\ waiting' = [waiting EXCEPT ![t] = <<"init">>]
            /\ looper' = Append([i \in DOMAIN looper |-> Aged(looper[i])], <<"Call", t>>)
       ELSE /\ waiting' = [waiting EXCEPT ![t] = <<>>]
            /\ UNCHANGED looper
    /\ UNCHANGED aborted

\* onMessageReceived()
OnMessageReceived ==
    /\ aborted = "no" /\ looper # <<>>
    /\ LET msg == Head(looper)
       IN  Finish(IF msg[1] = "Call" THEN OnCall(Start, msg[2], waiting[msg[2]])
                  ELSE OnNotify(Start, msg))
    /\ looper' = Tail(looper)
    /\ UNCHANGED <<ac, env>>

\* kWhatDequeueInputTimedOut, kWhatDequeueOutputTimedOut
DequeueTimedOut(p, generation, old) ==
    /\ aborted = "no" /\ <<p, generation, old>> \in mc.delayed
    /\ LET r == [Start EXCEPT !.mc.delayed = @ \ {<<p, generation, old>>}]
           token == mc.mDequeueReplyID[p]
       IN  Finish(IF generation # mc.mDequeueTimeoutGeneration[p] THEN r
                  ELSE Check([PostReplyWithError(r, token, "AGAIN") EXCEPT
                                !.mc.mDequeueReplyID[p] = NoToken],
                             token # NoToken, "DequeuePending"))
    /\ UNCHANGED <<ac, env, looper>>

CodecStep == aborted = "no" /\ CodecNext /\ UNCHANGED <<mc, waiting>>

Next ==
    \/ \E t \in Apps : \E call \in AppCalls : Invoke(t, call)
    \/ \E t \in Reclaimers : Reclaim(t)
    \/ \E t \in Threads : Retry(t) \/ ResetClear(t)
    \/ OnMessageReceived
    \/ \E x \in mc.delayed : DequeueTimedOut(x[1], x[2], x[3])
    \/ CodecStep

Spec == Init /\ [][Next]_vars

-----------------------------------------------------------------------------
(* Properties.                                                             *)

\* Every CHECK holds and mCodec is not null where it is used: no order of
\* calls, notifications and time-outs ends the process.
NoAbort == aborted = "no"

\* The same but for two ways that a reset() opens: a dequeue time-out older than it (the
\* run of NoAbort), and a buffer that the old ACodec announced after the media server
\* died, which is still on the list when the new ACodec announces its own; and for the
\* CHECK of ACodec that a component which changes its format takes the next command.
ChecksHold ==
    \/ aborted \in {"no", "DequeuePending"}
    \/ aborted = "mOwnedByClient" /\ env.deaths > 0
    \/ aborted = "PortDisable" /\ env.events > 0

\* The thread waits, and nobody has its token any more.
Stranded(t) ==
    /\ waiting[t] # <<>>
    /\ waiting[t][1] \notin {"clear", "retry"}
    /\ <<"Call", t>> \notin ToSet(looper)
    /\ mc.mReplyID # t
    /\ \A p \in Ports : mc.mDequeueReplyID[p] # t

Releases == {"release", "reset", "reclaim", "force"}

\* No call waits for a reply that nobody can give any more, whatever error, reclaim or
\* time-out came between: every handler that replaces a token has replied to it.  Left
\* out are the calls whose token a release replaces: another release, and the two about
\* an input surface, which have no state of their own.
NoCallStranded ==
    \A t \in Threads : Stranded(t) =>
        waiting[t][1] \in Releases \cup {"createInputSurface", "signalEndOfInputStream"}

\* A release(), reset() or reclaim() does not lose its reply either: onMessageReceived()
\* is to "post the reply for the pending call first" when a release comes.
NoReleaseStranded ==
    \A t \in Threads : Stranded(t) => waiting[t][1] \notin Releases

\* The places outside ACodec and the component where a buffer can be.
Places(b) ==
    LET Count(q, msgs) == Cardinality({i \in DOMAIN q : q[i] \in msgs})
    IN  Count(looper, {<<"FillThisBuffer", b>>, <<"DrainThisBuffer", b>>})
        + Count(inbox, {<<"InputBufferFilled", b, c>> : c \in Contents}
                       \cup {<<"OutputBufferDrained", b>>})
        + (IF b \in mc.mData \ mc.old THEN 1 ELSE 0)

\* A buffer that ACodec has sent upstream or downstream is in exactly one place: on its
\* way to MediaCodec, with it, or on its way back; any other is in none.  (A codec that
\* was reclaimed by force gives the client's buffers back twice.)
BufferInOnePlace ==
    mc.mReleasedByResourceManager \/ aborted # "no" \/
    \A b \in ac.channel :
        Places(b) = IF ac.mStatus[b] \in {"UPSTREAM", "DOWNSTREAM"} THEN 1 ELSE 0

\* When neither has a message to handle, MediaCodec is in a state that ACodec's state
\* bears out: what it waits for is under way in ACodec, and even if the component never
\* answers, a flush is ended by kWhatCheckIfStuck and a release by
\* kWhatReleaseCodecInstance.  While flushed, no input buffer is with the client.
StatesAgree ==
    inbox = <<>> /\ looper = <<>> /\ aborted = "no" =>
        CASE mc.mState \in {"INITIALIZED", "CONFIGURED"} -> ac.state = "Loaded"
          [] mc.mState \in {"STARTED", "FLUSHED"} ->
                /\ ac.state \in {"LoadedToIdle", "IdleToExecuting", "Executing",
                                 "OutputPortSettingsChanged"}
                /\ mc.mState = "FLUSHED" => InputBuffers \cap mc.mOwnedByClient = {}
          [] mc.mState \in {"INITIALIZING", "CONFIGURING", "STARTING"} -> FALSE
          [] mc.mState = "FLUSHING" -> "stuck" \in ac.timers
          [] mc.mState = "STOPPING" ->
                \/ ac.state \in {"ExecutingToIdle", "IdleToLoaded"}
                \/ <<"Shutdown", TRUE>> \in ToSet(ac.mDeferredQueue)
                \/ ac.mFatalError
          [] mc.mState = "RELEASING" -> "release" \in ac.timers
          [] mc.mState = "UNINITIALIZED" -> TRUE
=============================================================================
