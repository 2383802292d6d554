----------------------- MODULE SingleStateQueueProofs -----------------------
(***************************************************************************)
(* The single state queue is an atomic register, for values of any number  *)
(* of words, any number of tries and any number of pushes.                 *)
(***************************************************************************)
EXTENDS SingleStateQueue, TLAPS

LEMMA InitIInv == Init => IInv
BY T0Assumption, TriesAssumption
   DEF Init, IInv, TypeOK, SequenceOrder, CopyInOrder, Odd, T

\* A function on Words that agrees with another one on all words is that one.
LEMMA WholeCopy ==
    ASSUME NEW s \in T, NEW t \in T, \A w \in Words : s[w] = t[w]
    PROVE  s = t
BY DEF T

LEMMA TypeStep == TypeOK /\ [Next]_vars => TypeOK'
<1> SUFFICES ASSUME TypeOK, [Next]_vars PROVE TypeOK'
  OBVIOUS
<1> USE TriesAssumption DEF TypeOK
<1>1. ASSUME NEW t \in T, PushBegin(t) PROVE TypeOK'
  BY <1>1 DEF PushBegin, observerVars
<1>2. ASSUME NEW w \in Words, PushWord(w) PROVE TypeOK'
  BY <1>2 DEF PushWord, observerVars, T
<1>3. CASE PushEnd
  BY <1>3 DEF PushEnd, observerVars
<1>4. CASE PollBegin
  BY <1>4 DEF PollBegin, TryFrom, mutatorVars
<1>5. CASE PollOdd \/ PollChanged
  BY <1>5 DEF PollOdd, PollChanged, TryFails, TryFrom, mutatorVars
<1>6. ASSUME NEW w \in Words, PollWord(w) PROVE TypeOK'
  BY <1>6 DEF PollWord, mutatorVars, T
<1>7. CASE PollSame \/ PollAck \/ Done
  BY <1>7 DEF PollSame, PollAck, Done, mutatorVars
<1>8. CASE UNCHANGED vars
  BY <1>8 DEF vars, mutatorVars, observerVars
<1> QED
  BY <1>1, <1>2, <1>3, <1>4, <1>5, <1>6, <1>7, <1>8 DEF Next, Mutator, InPoll

LEMMA OrderStep == IInv /\ [Next]_vars => SequenceOrder'
<1> SUFFICES ASSUME TypeOK, SequenceOrder, [Next]_vars PROVE SequenceOrder'
  BY DEF IInv
<1> USE DEF TypeOK, SequenceOrder, Odd
<1>1. ASSUME NEW t \in T, PushBegin(t) PROVE SequenceOrder'
  BY <1>1 DEF PushBegin, observerVars
<1>2. ASSUME NEW w \in Words, PushWord(w) PROVE SequenceOrder'
  BY <1>2 DEF PushWord, observerVars
<1>3. CASE PushEnd
  BY <1>3 DEF PushEnd, observerVars
<1>4. CASE PollBegin
  BY <1>4 DEF PollBegin, TryFrom, mutatorVars
<1>5. CASE PollOdd \/ PollChanged
  BY <1>5 DEF PollOdd, PollChanged, TryFails, TryFrom, mutatorVars
<1>6. ASSUME NEW w \in Words, PollWord(w) PROVE SequenceOrder'
  BY <1>6 DEF PollWord, mutatorVars
<1>7. CASE PollSame
  BY <1>7 DEF PollSame, mutatorVars
<1>8. CASE PollAck
  BY <1>8 DEF PollAck, mutatorVars
<1>9. CASE Done
  BY <1>9 DEF Done, mutatorVars
<1>10. CASE UNCHANGED vars
  BY <1>10 DEF vars, mutatorVars, observerVars
<1> QED
  BY <1>1, <1>2, <1>3, <1>4, <1>5, <1>6, <1>7, <1>8, <1>9, <1>10 DEF Next, Mutator, InPoll

LEMMA CopyStep == IInv /\ [Next]_vars => CopyInOrder'
<1> SUFFICES ASSUME TypeOK, SequenceOrder, CopyInOrder, [Next]_vars PROVE CopyInOrder'
  BY DEF IInv
<1> USE DEF TypeOK, SequenceOrder, CopyInOrder, Odd
<1>1. ASSUME NEW t \in T, PushBegin(t) PROVE CopyInOrder'
  BY <1>1 DEF PushBegin, observerVars
<1>2. ASSUME NEW w \in Words, PushWord(w) PROVE CopyInOrder'
  BY <1>2 DEF PushWord, observerVars, T
<1>3. CASE PushEnd
  <2>1. mValue = pushed
    BY <1>3, WholeCopy DEF PushEnd
  <2> QED BY <1>3, <2>1 DEF PushEnd, observerVars
<1>4. CASE PollBegin
  BY <1>4 DEF PollBegin, TryFrom, mutatorVars
<1>5. CASE PollOdd \/ PollChanged
  BY <1>5 DEF PollOdd, PollChanged, TryFails, TryFrom, mutatorVars
<1>6. ASSUME NEW w \in Words, PollWord(w) PROVE CopyInOrder'
  BY <1>6 DEF PollWord, mutatorVars, T
<1>7. CASE PollSame
  <2>1. temp = last
    BY <1>7, WholeCopy DEF PollSame
  <2> QED BY <1>7, <2>1 DEF PollSame, mutatorVars
<1>8. CASE PollAck
  BY <1>8 DEF PollAck, mutatorVars
<1>9. CASE Done
  BY <1>9 DEF Done, mutatorVars
<1>10. CASE UNCHANGED vars
  BY <1>10 DEF vars, mutatorVars, observerVars
<1> QED
  BY <1>1, <1>2, <1>3, <1>4, <1>5, <1>6, <1>7, <1>8, <1>9, <1>10 DEF Next, Mutator, InPoll

\* The invariant holds in every behaviour of push(), poll() and done().
THEOREM Invariance == Spec => []IInv
<1>1. IInv /\ [Next]_vars => IInv'
  BY TypeStep, OrderStep, CopyStep DEF IInv
<1> QED BY InitIInv, <1>1, PTL DEF Spec

\* What ack() tells the mutator is true: after SSQ_READ or SSQ_DONE the
\* observer has every word of the last value pushed.
THEOREM AckCorrect == Spec => []AckIsCurrent
<1>1. IInv => AckIsCurrent
  BY DEF IInv, TypeOK, SequenceOrder, CopyInOrder, AckIsCurrent, SSQ_STATUS, Odd
<1> QED BY Invariance, <1>1, PTL

-----------------------------------------------------------------------------
(* Refinement.                                                             *)

\* What an acknowledgement stands for: a sequence number, and whether the caller
\* of poll() has acted upon its value.
LEMMA AckParts ==
    ASSUME IInv
    PROVE  /\ (IF Odd(mAck) THEN mAck - 1 ELSE mAck) = polled
           /\ Odd(mAck) <=> mAck = polled + 1
BY DEF IInv, TypeOK, SequenceOrder, Odd

LEMMA InitRefines == Init => Register!RegisterInit
BY DEF Init, Register!RegisterInit, Odd

\* Each step of the queue is one of the register, or none: the value is written
\* when the sequence becomes even, and read when poll() sees the sequence
\* unchanged.
LEMMA StepRefines ==
    IInv /\ IInv' /\ [Next]_vars => [Register!RegisterNext]_(Register!registerVars)
<1> SUFFICES ASSUME IInv, IInv', [Next]_vars
             PROVE  Register!RegisterNext \/ UNCHANGED Register!registerVars
  OBVIOUS
<1> USE DEF Register!registerVars
<1>1. ASSUME NEW t \in T, PushBegin(t) PROVE UNCHANGED Register!registerVars
  BY <1>1 DEF PushBegin, observerVars
<1>2. ASSUME NEW w \in Words, PushWord(w) PROVE UNCHANGED Register!registerVars
  BY <1>2 DEF PushWord, observerVars
<1>3. CASE PushEnd
  <2>1. Register!Write
    BY <1>3 DEF PushEnd, observerVars, Register!Write, IInv, TypeOK
  <2> QED BY <2>1 DEF Register!RegisterNext
<1>4. CASE PollBegin
  BY <1>4 DEF PollBegin, TryFrom, mutatorVars
<1>5. CASE PollOdd \/ PollChanged
  BY <1>5 DEF PollOdd, PollChanged, TryFails, TryFrom, mutatorVars
<1>6. ASSUME NEW w \in Words, PollWord(w) PROVE UNCHANGED Register!registerVars
  BY <1>6 DEF PollWord, mutatorVars
<1>7. CASE PollSame
  <2>1. before = sequence /\ before > polled /\ before \in Nat /\ polled \in Nat
    BY <1>7 DEF PollSame, IInv, TypeOK, SequenceOrder, Odd
  <2>2. value' = last
    BY <1>7, <2>1 DEF PollSame, mutatorVars, IInv, CopyInOrder
  <2>3. Register!Read
    BY <1>7, <2>1, <2>2 DEF PollSame, mutatorVars, Register!Read
  <2> QED BY <2>3 DEF Register!RegisterNext
<1>8. CASE PollAck
  <2>1. before > polled /\ before \in Nat /\ polled \in Nat /\ ~Odd(before)
    BY <1>8 DEF PollAck, IInv, TypeOK, SequenceOrder
  <2>2. Register!Acknowledge
    BY <1>8, <2>1, AckParts DEF PollAck, mutatorVars, Register!Acknowledge
  <2> QED BY <2>2 DEF Register!RegisterNext
<1>9. CASE Done
  <2>1. ~Odd(mAck) /\ Odd(mAck') /\ mAck \in Nat
    BY <1>9 DEF Done, IInv, TypeOK, SequenceOrder, Odd
  <2>2. Register!Act
    BY <1>9, <2>1 DEF Done, mutatorVars, Register!Act
  <2> QED BY <2>2 DEF Register!RegisterNext
<1>10. CASE UNCHANGED vars
  BY <1>10 DEF vars, mutatorVars, observerVars
<1> QED
  BY <1>1, <1>2, <1>3, <1>4, <1>5, <1>6, <1>7, <1>8, <1>9, <1>10 DEF Next, Mutator, InPoll

\* The lock-free queue in shared memory implements the atomic register, for
\* values of any number of words.
THEOREM Refinement == Spec => ImplementsRegister
BY InitRefines, StepRefines, Invariance, PTL
   DEF Spec, ImplementsRegister, Register!RegisterSpec
=============================================================================
