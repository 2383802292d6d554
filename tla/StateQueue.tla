----------------------------- MODULE StateQueue -----------------------------
(***************************************************************************)
(* StateQueue<T> (services/audioflinger/StateQueue.{h,cpp}): one mutator   *)
(* (the normal mixer) hands states to one observer (the fast mixer)        *)
(* through a circular array of kN slots, without a lock.                   *)
(*                                                                         *)
(* A step of the model is one access to memory that both threads touch     *)
(* (mNext, mAck, a slot of mStates); the fields only one thread uses are   *)
(* updated in the same step as the access they surround.                   *)
(***************************************************************************)
EXTENDS Naturals

CONSTANTS
    kN,      \* number of slots; StateQueue.h: "values < 4 are not supported"
    T,       \* the states, as opaque values
    T0       \* what a slot holds before it is first written

ASSUME KNAssumption == kN \in Nat /\ kN >= 4
ASSUME T0Assumption == T0 \in T

Slots == 0 .. kN - 1

\* The null pointer: not a slot.
NULL == kN

Blocks == {"BLOCK_NEVER", "BLOCK_UNTIL_PUSHED", "BLOCK_UNTIL_ACKED"}

VARIABLES
    mStates,         \* written by mutator, read by observer
    mNext,           \* written by mutator to advance next, read by observer
    mAck,            \* written by observer, read by mutator
    mCurrent,        \* observer: most recent value returned by poll()
    mMutating,       \* mutator: where updates are done in place
    mExpecting,      \* mutator: what it expects mAck to be set to
    mInMutation,
    mIsDirty,
    mIsInitialized,
    touched,         \* the caller of begin() has written to *mMutating
    mpc, block,      \* mutator: where it is in push(block)
    opc, next,       \* observer: where it is in poll(), and its local variable
    previous         \* observer: what poll() returned before mCurrent

observerVars == <<mAck, mCurrent, opc, next, previous>>
mutationVars == <<mMutating, mExpecting, mIsDirty, mIsInitialized>>
mutatorVars == <<mStates, mNext, mutationVars, mInMutation, touched, mpc, block>>
vars == <<observerVars, mutatorVars>>

\* Mutant of Successor: the wraparound one slot early.
SuccessorEarly(s) == IF s + 1 >= kN - 1 THEN 0 ELSE s + 1

\* ++mMutating with circular wraparound.
Successor(s) == IF s + 1 >= kN THEN 0 ELSE s + 1

Init ==
    /\ mStates = [s \in Slots |-> T0]
    /\ mNext = NULL /\ mAck = NULL /\ mCurrent = NULL
    /\ mMutating = 0 /\ mExpecting = NULL
    /\ mInMutation = FALSE /\ mIsDirty = FALSE /\ mIsInitialized = FALSE
    /\ touched = FALSE /\ mpc = "idle" /\ block = "BLOCK_NEVER"
    /\ opc = "use" /\ next = NULL /\ previous = NULL

-----------------------------------------------------------------------------
(* Observer.  Between polls ("use") it reads *mCurrent and *previous.      *)

\* poll(): the load of mNext.
PollLoad ==
    /\ opc = "use"
    /\ mNext # mCurrent
    /\ next' = mNext
    /\ opc' = "ack"
    /\ UNCHANGED <<mAck, mCurrent, previous, mutatorVars>>

\* poll(): the acknowledgement, which may let the mutator publish again.
PollAck ==
    /\ opc = "ack"
    /\ mAck' = next
    /\ opc' = "shift"
    /\ UNCHANGED <<mCurrent, next, previous, mutatorVars>>

\* Mutant of PollReturn: mCurrent keeps its old value.
PollReturnStale ==
    /\ opc = "shift"
    /\ previous' = mCurrent
    /\ opc' = "use"
    /\ UNCHANGED <<mAck, mCurrent, next, mutatorVars>>

\* poll() returns and the caller shifts: previous = current, current = next.
PollReturn ==
    /\ opc = "shift"
    /\ previous' = mCurrent
    /\ mCurrent' = next
    /\ opc' = "use"
    /\ UNCHANGED <<mAck, next, mutatorVars>>

-----------------------------------------------------------------------------
(* Mutator.                                                                *)

Begin ==
    /\ mpc = "idle" /\ ~mInMutation
    /\ mInMutation' = TRUE
    /\ touched' = FALSE
    /\ UNCHANGED <<observerVars, mStates, mNext, mutationVars, mpc, block>>

\* The caller of begin() modifies the state in place.
Modify(t) ==
    /\ mInMutation
    /\ mStates' = [mStates EXCEPT ![mMutating] = t]
    /\ touched' = TRUE
    /\ UNCHANGED <<observerVars, mNext, mutationVars, mInMutation, mpc, block>>

\* end(didModify): callers report every modification.
End(didModify) ==
    /\ mInMutation
    /\ mIsInitialized \/ didModify
    /\ touched => didModify
    /\ mIsDirty' = (mIsDirty \/ didModify)
    /\ mIsInitialized' = TRUE
    /\ mInMutation' = FALSE
    /\ UNCHANGED <<observerVars, mStates, mNext, mMutating, mExpecting, touched, mpc, block>>

\* Entry of push(b).  A clean queue skips to the optional wait for an ack.
Push(b) ==
    /\ mpc = "idle" /\ ~mInMutation
    /\ block' = b
    /\ mpc' = IF mIsDirty THEN "prior"
              ELSE IF b = "BLOCK_UNTIL_ACKED" /\ mExpecting # NULL THEN "acked"
              ELSE "idle"
    /\ UNCHANGED <<observerVars, mStates, mNext, mutationVars, mInMutation, touched>>

\* Mutant of PriorAcked: publishes over an unacknowledged push.
PriorIgnored ==
    /\ mpc = "prior"
    /\ mpc' = "publish"
    /\ UNCHANGED <<observerVars, mStates, mNext, mutationVars, mInMutation, touched, block>>

\* The prior push has been acknowledged, or there is none to wait for.
PriorAcked ==
    /\ mpc = "prior"
    /\ mExpecting = NULL \/ mAck = mExpecting
    /\ mpc' = "publish"
    /\ UNCHANGED <<observerVars, mStates, mNext, mutationVars, mInMutation, touched, block>>

\* push(BLOCK_NEVER) gives up, returns false and stays dirty.
PushFails ==
    /\ mpc = "prior"
    /\ block = "BLOCK_NEVER"
    /\ mExpecting # NULL /\ mAck # mExpecting
    /\ mpc' = "idle"
    /\ UNCHANGED <<observerVars, mStates, mNext, mutationVars, mInMutation, touched, block>>

\* Mutant of Publish: mMutating stays on the published slot.
PublishInPlace ==
    /\ mpc = "publish"
    /\ mNext' = mMutating
    /\ mExpecting' = mMutating
    /\ mpc' = "copy"
    /\ UNCHANGED <<observerVars, mStates, mMutating, mIsDirty, mIsInitialized, mInMutation,
                   touched, block>>

\* The release store of mNext; mMutating moves on to the following slot.
Publish ==
    /\ mpc = "publish"
    /\ mNext' = mMutating
    /\ mExpecting' = mMutating
    /\ mMutating' = Successor(mMutating)
    /\ mpc' = "copy"
    /\ UNCHANGED <<observerVars, mStates, mIsDirty, mIsInitialized, mInMutation, touched,
                   block>>

\* Mutant of Copy: the state is not carried over.
CopyDropped ==
    /\ mpc = "copy"
    /\ mIsDirty' = FALSE
    /\ mpc' = IF block = "BLOCK_UNTIL_ACKED" THEN "acked" ELSE "idle"
    /\ UNCHANGED <<observerVars, mStates, mNext, mMutating, mExpecting, mIsInitialized,
                   mInMutation, touched, block>>

\* *mMutating = *mExpecting: later mutations start from the pushed state.
Copy ==
    /\ mpc = "copy"
    /\ mStates' = [mStates EXCEPT ![mMutating] = mStates[mExpecting]]
    /\ mIsDirty' = FALSE
    /\ mpc' = IF block = "BLOCK_UNTIL_ACKED" THEN "acked" ELSE "idle"
    /\ UNCHANGED <<observerVars, mNext, mMutating, mExpecting, mIsInitialized,
                   mInMutation, touched, block>>

\* Mutant of PushAcked: returns without the acknowledgement.
PushNotAwaited ==
    /\ mpc = "acked"
    /\ mExpecting' = NULL
    /\ mpc' = "idle"
    /\ UNCHANGED <<observerVars, mStates, mNext, mMutating, mIsDirty, mIsInitialized,
                   mInMutation, touched, block>>

\* push(BLOCK_UNTIL_ACKED) sees its acknowledgement and returns.
PushAcked ==
    /\ mpc = "acked"
    /\ mAck = mExpecting
    /\ mExpecting' = NULL
    /\ mpc' = "idle"
    /\ UNCHANGED <<observerVars, mStates, mNext, mMutating, mIsDirty, mIsInitialized,
                   mInMutation, touched, block>>

Poll == PollLoad \/ PollAck \/ PollReturn
PushStep == PriorAcked \/ PushFails \/ Publish \/ Copy \/ PushAcked

Next ==
    \/ Poll
    \/ Begin
    \/ \E t \in T : Modify(t)
    \/ \E d \in BOOLEAN : End(d)
    \/ \E b \in Blocks : Push(b)
    \/ PushStep

\* The fast mixer is periodic and never blocks, and a mutator inside push()
\* only sleeps between two looks at mAck.
Fairness == WF_vars(Poll) /\ WF_vars(PushStep)

Spec == Init /\ [][Next]_vars
FairSpec == Spec /\ Fairness

-----------------------------------------------------------------------------
\* Type invariant: every pointer of the queue is NULL or one of its slots.
TypeOK ==
    /\ mStates \in [Slots -> T]
    /\ mNext \in Slots \cup {NULL}
    /\ mAck \in Slots \cup {NULL}
    /\ mCurrent \in Slots \cup {NULL}
    /\ mMutating \in Slots
    /\ mExpecting \in Slots \cup {NULL}
    /\ mInMutation \in BOOLEAN
    /\ mIsDirty \in BOOLEAN
    /\ mIsInitialized \in BOOLEAN
    /\ touched \in BOOLEAN
    /\ mpc \in {"idle", "prior", "publish", "copy", "acked"}
    /\ block \in Blocks
    /\ opc \in {"use", "ack", "shift"}
    /\ next \in Slots \cup {NULL}
    /\ previous \in Slots \cup {NULL}

\* b is the state pushed right after a (the first one when a is NULL).
Follows(b, a) == b = IF a = NULL THEN 0 ELSE Successor(a)

\* How far the two threads can be apart: the observer's pointers are
\* consecutive slots, mNext is at most one push ahead of the acknowledgement,
\* and mMutating is the slot after mNext.
PointerOrder ==
    /\ mNext = NULL => /\ mMutating = 0
                       /\ mExpecting = NULL /\ mAck = NULL
                       /\ mpc \in {"idle", "prior", "publish"}
    /\ mNext # NULL => /\ mMutating = Successor(mNext)
                       /\ mExpecting \in {NULL, mNext}
                       /\ mExpecting = NULL \/ mpc = "publish" => mAck = mNext
                       /\ mNext = mAck \/ Follows(mNext, mAck)
    /\ mpc \in {"copy", "acked"} => mNext # NULL /\ mExpecting = mNext
    /\ opc = "use" => /\ mCurrent = mAck
                      /\ previous # NULL => mCurrent = Successor(previous)
    /\ opc = "ack" => /\ mCurrent = mAck
                      /\ next = mNext /\ Follows(next, mCurrent)
    /\ opc = "shift" => /\ next # NULL /\ mAck = next
                        /\ Follows(next, mCurrent)

\* What MutationStartsFromPushed rests on: outside of a mutation a clean queue
\* has been pushed, and its mutable slot is a copy of the pushed one, unless the
\* caller of begin() has written to it; push() stays dirty until it has copied.
CopyOfPushed ==
    /\ mInMutation => mpc = "idle"
    /\ mpc \in {"prior", "publish", "copy"} => mIsDirty
    /\ mIsInitialized /\ ~mIsDirty => mNext # NULL
    /\ mNext # NULL /\ ~mIsDirty /\ ~(mInMutation /\ touched)
           => mStates[mMutating] = mStates[mNext]

\* The inductive invariant that the isolation of the slots, and the state that a
\* mutation starts from, rest on.
IInv == TypeOK /\ PointerOrder /\ CopyOfPushed

\* The slots the observer reads now or may read at its next poll().
Readable ==
    {mNext, mCurrent} \cup (IF opc = "use" THEN {previous} ELSE {next})

\* The slot the mutator writes, in begin()..end() and in the copy of push(),
\* is never one the observer may be reading.  The code has no lock there: it
\* rests on the acknowledgement and on the number of slots.
SlotIsolation == mMutating \notin Readable

\* "The previous state pointer is guaranteed to still be valid": no step
\* changes a state while the observer can look at it.
HeldStateStable ==
    [][\A s \in Readable \ {NULL} : mStates'[s] = mStates[s]]_vars

\* Although StateQueue.h lets the observer skip states, push() never lets it:
\* acknowledgements follow the slots in order, one after the other.
EveryPushAcked ==
    [][mAck' # mAck => mAck' = IF mAck = NULL THEN 0 ELSE Successor(mAck)]_vars

\* When push(BLOCK_UNTIL_ACKED) has returned, the observer is done with all
\* earlier states: it uses, or is about to return from poll() with, the last one.
AckedIsCurrent ==
    mExpecting = NULL /\ mNext # NULL =>
        \/ opc = "use" /\ mCurrent = mNext
        \/ opc = "shift" /\ next = mNext

\* A mutation starts from the last pushed state: the copy in push() loses no
\* update, whichever slot it went to.
MutationStartsFromPushed ==
    mIsInitialized /\ ~mIsDirty /\ ~mInMutation /\ mpc # "copy" =>
        mStates[mMutating] = mStates[mNext]

\* "observer must always be able to poll for and view the latest pushed state":
\* what is published is eventually what the observer uses.
PushedIsObserved == \A s \in Slots : (mNext = s) ~> (mCurrent = s)
=============================================================================
