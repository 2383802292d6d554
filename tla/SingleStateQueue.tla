-------------------------- MODULE SingleStateQueue --------------------------
(***************************************************************************)
(* SingleStateQueue<T> (media/libmedia/include/media/SingleStateQueue.h):  *)
(* a value of several words in memory shared by two processes, written by  *)
(* a mutator and read by an observer without a lock.  A sequence number    *)
(* that is odd during a write tells the observer to try again.             *)
(*                                                                         *)
(* A step is one access to a word of shared memory.  The words of a value  *)
(* are copied in any order, as the compiler may choose.  Sequence numbers  *)
(* are not wrapped: 2^31 pushes would have to fall into one poll().        *)
(***************************************************************************)
EXTENDS Naturals

CONSTANTS
    Words, Contents,    \* the words of a T, and what a word can hold
    T0,                 \* what the shared memory starts with
    MAX_TRIES,
    MaxSequence         \* bound on the sequence numbers

T == [Words -> Contents]

ASSUME T0Assumption == T0 \in T
ASSUME TriesAssumption == MAX_TRIES \in Nat \ {0} /\ MaxSequence \in Nat

VARIABLES
    mAck, mSequence, mValue,    \* Shared
    \* the mutator
    mpc, sequence,              \* whether it is in push(), and Mutator::mSequence
    pushed, stored,             \* the argument of push(), and the words stored
    last,                       \* history: the last value pushed completely
    \* the observer
    opc, polled,                \* where it is in poll(), and Observer::mSequence
    before, temp, loaded, tries,
    value                       \* what poll() has returned

mutatorVars == <<mSequence, mValue, mpc, sequence, pushed, stored, last>>
observerVars == <<mAck, opc, polled, before, temp, loaded, tries, value>>
vars == <<mutatorVars, observerVars>>

Init ==
    /\ mAck = 0 /\ mSequence = 0 /\ mValue = T0
    /\ mpc = "idle" /\ sequence = 0 /\ pushed = T0 /\ stored = {} /\ last = T0
    /\ opc = "idle" /\ polled = 0
    /\ before = 0 /\ temp = T0 /\ loaded = {} /\ tries = 0
    /\ value = T0

-----------------------------------------------------------------------------
(* Mutator.                                                                *)

\* push(): the sequence becomes odd,
PushBegin(t) ==
    /\ mpc = "idle"
    /\ sequence + 2 <= MaxSequence
    /\ mSequence' = sequence + 1
    /\ pushed' = t /\ stored' = {}
    /\ mpc' = "push"
    /\ UNCHANGED <<mValue, sequence, last, observerVars>>

\* the value is copied,
PushWord(w) ==
    /\ mpc = "push" /\ w \notin stored
    /\ mValue' = [mValue EXCEPT ![w] = pushed[w]]
    /\ stored' = stored \cup {w}
    /\ UNCHANGED <<mSequence, mpc, sequence, pushed, last, observerVars>>

\* Mutant of PushEnd: the sequence becomes even before the last word is stored.
PushEndEarly ==
    /\ mpc = "push" /\ stored # {}
    /\ mSequence' = sequence + 2 /\ sequence' = sequence + 2
    /\ last' = pushed
    /\ mpc' = "idle"
    /\ UNCHANGED <<mValue, pushed, stored, observerVars>>

\* and the sequence becomes even.
PushEnd ==
    /\ mpc = "push" /\ stored = Words
    /\ mSequence' = sequence + 2 /\ sequence' = sequence + 2
    /\ last' = pushed
    /\ mpc' = "idle"
    /\ UNCHANGED <<mValue, pushed, stored, observerVars>>

\* ack(): what the mutator may conclude between two pushes.
SSQ_STATUS ==
    IF mAck = sequence THEN "SSQ_READ"
    ELSE IF mAck = sequence + 1 THEN "SSQ_DONE" ELSE "SSQ_PENDING"

-----------------------------------------------------------------------------
(* Observer.                                                               *)

Odd(n) == n % 2 = 1

\* The loop of poll() goes round again from a sequence that was just loaded.
TryFrom(s) ==
    /\ before' = s /\ loaded' = {}
    /\ UNCHANGED <<mAck, polled, temp, value, mutatorVars>>

\* poll(): the first load of the sequence; there may be nothing new.
PollBegin ==
    /\ opc = "idle"
    /\ opc' = IF mSequence = polled THEN "idle" ELSE "try"
    /\ tries' = 0
    /\ TryFrom(mSequence)

\* A try has failed: it is the last one, or the sequence is s now.
TryFails(s) ==
    /\ tries' = tries + 1
    /\ opc' = IF tries + 1 >= MAX_TRIES THEN "idle" ELSE "try"
    /\ TryFrom(s)

\* Mutant of PollOdd: there is no limit to the tries.
PollOddForever ==
    /\ opc = "try" /\ Odd(before)
    /\ UNCHANGED <<tries, opc>>
    /\ TryFrom(mSequence)

\* A push was in progress.
PollOdd ==
    /\ opc = "try" /\ Odd(before)
    /\ TryFails(mSequence)

PollWord(w) ==
    /\ opc = "try" /\ ~Odd(before) /\ w \notin loaded
    /\ temp' = [temp EXCEPT ![w] = mValue[w]]
    /\ loaded' = loaded \cup {w}
    /\ UNCHANGED <<mAck, opc, polled, before, tries, value, mutatorVars>>

\* The second load of the sequence: it has changed,
PollChanged ==
    /\ opc = "try" /\ ~Odd(before) /\ loaded = Words
    /\ mSequence # before
    /\ TryFails(mSequence)

\* Mutant of PollSame: the sequence is not compared.
PollUnchecked ==
    /\ opc = "try" /\ ~Odd(before) /\ loaded = Words
    /\ value' = temp
    /\ opc' = "ack"
    /\ UNCHANGED <<mAck, polled, before, temp, loaded, tries, mutatorVars>>

\* or it has not, and the copy is the value.
PollSame ==
    /\ opc = "try" /\ ~Odd(before) /\ loaded = Words
    /\ mSequence = before
    /\ value' = temp
    /\ opc' = "ack"
    /\ UNCHANGED <<mAck, polled, before, temp, loaded, tries, mutatorVars>>

\* Mutant of PollAck: the acknowledgement is of the sequence as it is now.
PollAckNow ==
    /\ opc = "ack"
    /\ mAck' = mSequence /\ polled' = mSequence
    /\ opc' = "idle"
    /\ UNCHANGED <<before, temp, loaded, tries, value, mutatorVars>>

\* poll() acknowledges and returns true.
PollAck ==
    /\ opc = "ack"
    /\ mAck' = before /\ polled' = before
    /\ opc' = "idle"
    /\ UNCHANGED <<before, temp, loaded, tries, value, mutatorVars>>

\* done(): the caller, who has polled a value, has acted upon it.
Done ==
    /\ opc = "idle" /\ mAck = polled /\ polled # 0
    /\ mAck' = mAck + 1
    /\ UNCHANGED <<opc, polled, before, temp, loaded, tries, value, mutatorVars>>

-----------------------------------------------------------------------------
Mutator ==
    \/ \E t \in T : PushBegin(t)
    \/ \E w \in Words : PushWord(w)
    \/ PushEnd

InPoll ==
    \/ PollOdd \/ PollChanged \/ PollSame \/ PollAck
    \/ \E w \in Words : PollWord(w)

Next == Mutator \/ PollBegin \/ InPoll \/ Done
Spec == Init /\ [][Next]_vars

\* The observer keeps polling; the mutator may stop anywhere, as a client
\* process that is killed does.
FairSpec == Spec /\ WF_vars(PollBegin) /\ WF_vars(InPoll)

-----------------------------------------------------------------------------
(* Properties.                                                             *)

TypeOK ==
    /\ mAck \in Nat /\ mSequence \in Nat /\ mValue \in T
    /\ mpc \in {"idle", "push"} /\ sequence \in Nat
    /\ pushed \in T /\ stored \subseteq Words /\ last \in T
    /\ opc \in {"idle", "try", "ack"} /\ polled \in Nat
    /\ before \in Nat /\ temp \in T /\ loaded \subseteq Words
    /\ value \in T
    /\ tries \in 0 .. MAX_TRIES /\ (opc = "try" => tries < MAX_TRIES)

\* The numbers: the shared sequence is odd exactly during a push, and
\* what the observer has seen and acknowledged is never ahead of it.
SequenceOrder ==
    /\ ~Odd(sequence) /\ ~Odd(polled)
    /\ mSequence = IF mpc = "push" THEN sequence + 1 ELSE sequence
    /\ polled <= sequence /\ before <= mSequence
    /\ mAck \in {polled, polled + 1}
    /\ opc # "idle" => before > polled
    /\ opc = "ack" => ~Odd(before)

\* The copies: as long as the sequence that the observer started from is even
\* and has not changed, the words it has loaded are those of the value.
CopyInOrder ==
    /\ mpc = "idle" => mValue = last
    /\ mpc = "push" => \A w \in stored : mValue[w] = pushed[w]
    /\ opc = "try" /\ before = mSequence /\ ~Odd(before) =>
           \A w \in loaded : temp[w] = mValue[w]
    /\ opc # "ack" /\ polled = sequence => value = last
    /\ opc = "ack" /\ before = sequence => value = last

\* The inductive invariant.  AckIsCurrent and the refinement need to know which
\* value a sequence number stands for (CopyInOrder), and that depends on the
\* order of the sequence numbers of the two sides (SequenceOrder).
IInv == TypeOK /\ SequenceOrder /\ CopyInOrder

\* "SSQ_READ means it has been read, SSQ_DONE means it has been acted upon": when
\* the mutator is told so, the observer has the very value that was pushed last,
\* every word of it, although ack() looks at a word that the observer writes
\* after its copy and without a lock.
AckIsCurrent == SSQ_STATUS # "SSQ_PENDING" => value = last

\* The queue is a "multi-word atomic load / store": every value the observer
\* gets is one that was pushed, as a whole, the newest at that moment and newer
\* than the one before, and it is acknowledged and acted upon in that order.
Register == INSTANCE StateRegister WITH
    Values <- T, Initially <- T0, observed <- value,
    observedAs <- IF opc = "ack" THEN before ELSE polled,
    acked <- IF Odd(mAck) THEN mAck - 1 ELSE mAck, acted <- Odd(mAck)
ImplementsRegister == Register!RegisterSpec

\* "Non-blocking": poll() returns, however busy the mutator is and wherever it
\* dies.
PollReturns == (opc # "idle") ~> (opc = "idle")

\* Once the mutator has stopped outside push(), the observer gets the last value
\* and keeps it.
NewestArrives == <>[](mpc = "idle") => <>[](polled = sequence /\ value = last)
=============================================================================
