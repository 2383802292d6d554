-------------------------- MODULE StateQueueProofs --------------------------
(***************************************************************************)
(* The state queue keeps its two threads apart for every number of slots   *)
(* from 4 up and every set of states.                                      *)
(***************************************************************************)
EXTENDS StateQueue, TLAPS

\* Arithmetic of the circular array: with four slots or more, a slot differs
\* from its next three successors.
LEMMA SuccessorLemma ==
    ASSUME NEW s \in Slots
    PROVE  /\ Successor(s) \in Slots
           /\ Successor(s) # s
           /\ Successor(Successor(s)) # s
           /\ Successor(Successor(Successor(s))) # s
BY KNAssumption DEF Successor, Slots

\* NULL is not a slot, the first slot is one.
LEMMA NullLemma == NULL \notin Slots /\ 0 \in Slots
BY KNAssumption DEF NULL, Slots

\* Two slots with the same successor are the same slot.
LEMMA SuccessorInjective ==
    ASSUME NEW r \in Slots, NEW s \in Slots, Successor(r) = Successor(s)
    PROVE  r = s
BY KNAssumption DEF Successor, Slots

\* Types are kept by every step taken in the order PointerOrder describes: the
\* copy in push() needs to know that mExpecting is a slot.
LEMMA TypeStep ==
    ASSUME TypeOK, PointerOrder, [Next]_vars
    PROVE  TypeOK'
<1> USE DEF TypeOK
<1>1. CASE Poll
  BY <1>1 DEF Poll, PollLoad, PollAck, PollReturn, mutatorVars, mutationVars
<1>2. CASE Begin
  BY <1>2 DEF Begin, observerVars, mutationVars
<1>3. ASSUME NEW t \in T, Modify(t) PROVE TypeOK'
  BY <1>3 DEF Modify, observerVars, mutationVars
<1>4. ASSUME NEW d \in BOOLEAN, End(d) PROVE TypeOK'
  BY <1>4, ZenonT(30) DEF End, observerVars
<1>5. ASSUME NEW b \in Blocks, Push(b) PROVE TypeOK'
  BY <1>5 DEF Push, observerVars, mutationVars
<1>6. CASE PushStep
  <2>1. CASE PriorAcked \/ PushFails
    BY <2>1 DEF PriorAcked, PushFails, observerVars, mutationVars
  <2>2. CASE Publish
    BY <2>2, SuccessorLemma DEF Publish, observerVars
  <2>3. CASE Copy
    <3>1. mExpecting \in Slots
      BY <2>3 DEF Copy, PointerOrder
    <3> QED BY <2>3, <3>1 DEF Copy, observerVars
  <2>4. CASE PushAcked
    BY <2>4, NullLemma DEF PushAcked, observerVars
  <2> QED BY <1>6, <2>1, <2>2, <2>3, <2>4 DEF PushStep
<1>7. CASE UNCHANGED vars
  BY <1>7 DEF vars, observerVars, mutatorVars, mutationVars
<1> QED BY <1>1, <1>2, <1>3, <1>4, <1>5, <1>6, <1>7 DEF Next

\* The order of the pointers is kept: a poll() moves the observer one slot on,
\* and a push() publishes only when the observer has acknowledged mNext.
LEMMA OrderStep ==
    ASSUME TypeOK, PointerOrder, [Next]_vars
    PROVE  PointerOrder'
<1> USE NullLemma DEF TypeOK, PointerOrder, Follows
<1>1. CASE PollLoad
  BY <1>1 DEF PollLoad, mutatorVars, mutationVars
<1>2. CASE PollAck
  BY <1>2, SuccessorLemma DEF PollAck, mutatorVars, mutationVars
<1>3. CASE PollReturn
  BY <1>3, SuccessorLemma DEF PollReturn, mutatorVars, mutationVars
<1>4. CASE Begin
  BY <1>4 DEF Begin, observerVars, mutationVars
<1>5. ASSUME NEW t \in T, Modify(t) PROVE PointerOrder'
  BY <1>5 DEF Modify, observerVars, mutationVars
<1>6. ASSUME NEW d \in BOOLEAN, End(d) PROVE PointerOrder'
  BY <1>6 DEF End, observerVars
<1>7. ASSUME NEW b \in Blocks, Push(b) PROVE PointerOrder'
  BY <1>7 DEF Push, observerVars, mutationVars
<1>8. CASE PriorAcked \/ PushFails
  BY <1>8 DEF PriorAcked, PushFails, observerVars, mutationVars
<1>9. CASE Publish
  <2>1. mAck = mNext
    BY <1>9 DEF Publish
  <2>2. opc # "ack"
    BY <2>1, SuccessorLemma
  <2> QED BY <1>9, <2>1, <2>2, SuccessorLemma DEF Publish, observerVars
<1>10. CASE Copy
  BY <1>10 DEF Copy, observerVars
<1>11. CASE PushAcked
  BY <1>11 DEF PushAcked, observerVars
<1>12. CASE UNCHANGED vars
  BY <1>12 DEF vars, observerVars, mutatorVars, mutationVars
<1> QED BY <1>1, <1>2, <1>3, <1>4, <1>5, <1>6, <1>7, <1>8, <1>9, <1>10, <1>11, <1>12
        DEF Next, Poll, PushStep

\* The mutable slot stays a copy of the pushed one: only the caller of begin()
\* writes to it, who then has to report it to end(), and the copy in push(),
\* which goes from the slot just pushed to the one after it.
LEMMA CopyStep ==
    ASSUME TypeOK, PointerOrder, CopyOfPushed, [Next]_vars
    PROVE  CopyOfPushed'
<1> USE NullLemma DEF TypeOK, CopyOfPushed
<1>1. CASE Poll
  BY <1>1 DEF Poll, PollLoad, PollAck, PollReturn, mutatorVars, mutationVars
<1>2. CASE Begin
  BY <1>2 DEF Begin, observerVars, mutationVars
<1>3. ASSUME NEW t \in T, Modify(t) PROVE CopyOfPushed'
  BY <1>3 DEF Modify, observerVars, mutationVars
<1>4. ASSUME NEW d \in BOOLEAN, End(d) PROVE CopyOfPushed'
  BY <1>4 DEF End, observerVars
<1>5. ASSUME NEW b \in Blocks, Push(b) PROVE CopyOfPushed'
  BY <1>5 DEF Push, observerVars, mutationVars
<1>6. CASE PriorAcked \/ PushFails \/ Publish
  BY <1>6 DEF PriorAcked, PushFails, Publish, observerVars, mutationVars
<1>7. CASE Copy
  <2>1. mExpecting = mNext /\ mNext \in Slots /\ mMutating # mNext
    BY <1>7, SuccessorLemma DEF Copy, PointerOrder
  <2> QED BY <1>7, <2>1 DEF Copy, observerVars
<1>8. CASE PushAcked
  BY <1>8 DEF PushAcked, observerVars
<1>9. CASE UNCHANGED vars
  BY <1>9 DEF vars, observerVars, mutatorVars, mutationVars
<1> QED BY <1>1, <1>2, <1>3, <1>4, <1>5, <1>6, <1>7, <1>8, <1>9 DEF Next, PushStep

\* Every pointer of the state queue stays NULL or a slot and the two threads
\* stay within one push of each other, and outside push() a slot that is not being
\* mutated is a copy of the one pushed last, whatever they do (the fields of
\* StateQueue.h under poll(), begin(), end() and push()).
THEOREM Invariance == Spec => []IInv
<1>1. Init => IInv
  BY NullLemma, T0Assumption DEF Init, IInv, TypeOK, Blocks, PointerOrder, CopyOfPushed
<1>2. IInv /\ [Next]_vars => IInv'
  BY TypeStep, OrderStep, CopyStep DEF IInv
<1> QED BY <1>1, <1>2, PTL DEF Spec

\* The pointers alone decide that the mutator's slot is out of reach.
LEMMA OrderIsolates == TypeOK /\ PointerOrder => SlotIsolation
<1> SUFFICES ASSUME TypeOK, PointerOrder PROVE SlotIsolation
  OBVIOUS
<1> USE NullLemma, SuccessorLemma DEF TypeOK, PointerOrder, Follows, SlotIsolation, Readable
<1>1. CASE mNext = NULL
  BY <1>1
<1>2. CASE mNext # NULL /\ opc = "use"
  BY <1>2
<1>3. CASE mNext # NULL /\ opc = "ack"
  BY <1>3
<1>4. CASE mNext # NULL /\ opc = "shift"
  BY <1>4
<1> QED BY <1>1, <1>2, <1>3, <1>4

\* Mutual exclusion without a lock: for every kN >= 4 the slot written between
\* begin() and end() and by the copy of push() is never one that the observer
\* reads or may be handed by its next poll().
THEOREM Isolation == Spec => []SlotIsolation
BY Invariance, OrderIsolates, PTL DEF IInv

\* A state the observer can look at is not changed under it ("The previous
\* state pointer is guaranteed to still be valid", StateQueue.h).
THEOREM Stability == Spec => HeldStateStable
<1> DEFINE Stable == \A s \in Readable \ {NULL} : mStates'[s] = mStates[s]
<1>1. TypeOK /\ PointerOrder /\ [Next]_vars => [Stable]_vars
  <2> SUFFICES ASSUME TypeOK, PointerOrder, [Next]_vars PROVE [Stable]_vars
    OBVIOUS
  <2>1. mMutating \notin Readable
    BY OrderIsolates DEF SlotIsolation
  <2>2. Readable \ {NULL} \subseteq Slots
    BY DEF Readable, TypeOK
  <2>3. ASSUME NEW t \in T, Modify(t) PROVE Stable
    BY <2>1, <2>2, <2>3 DEF Modify, TypeOK
  <2>4. CASE Copy
    BY <2>1, <2>2, <2>4 DEF Copy, TypeOK
  <2>5. mStates' = mStates => Stable
    OBVIOUS
  <2>6. CASE Poll \/ Begin \/ PriorAcked \/ PushFails \/ Publish \/ PushAcked
    BY <2>5, <2>6 DEF Poll, PollLoad, PollAck, PollReturn, Begin, PriorAcked, PushFails,
                      Publish, PushAcked, mutatorVars
  <2>7. ASSUME NEW d \in BOOLEAN, End(d) PROVE Stable
    BY <2>5, <2>7 DEF End
  <2>8. ASSUME NEW b \in Blocks, Push(b) PROVE Stable
    BY <2>5, <2>8 DEF Push
  <2> QED BY <2>3, <2>4, <2>6, <2>7, <2>8 DEF Next, PushStep
<1> QED BY <1>1, Invariance, PTL DEF Spec, IInv, HeldStateStable

\* The observer acknowledges every pushed state in order: push() never replaces
\* one that has not been seen.
THEOREM InOrder == Spec => EveryPushAcked
<1> DEFINE Ordered == mAck' # mAck => mAck' = IF mAck = NULL THEN 0 ELSE Successor(mAck)
<1>1. TypeOK /\ PointerOrder /\ [Next]_vars => [Ordered]_vars
  <2> SUFFICES ASSUME TypeOK, PointerOrder, [Next]_vars PROVE [Ordered]_vars
    OBVIOUS
  <2>1. CASE PollAck
    BY <2>1 DEF PollAck, PointerOrder, Follows
  <2>2. CASE UNCHANGED mAck
    BY <2>2
  <2>3. CASE PollLoad \/ PollReturn \/ Begin \/ PushStep
    BY <2>2, <2>3 DEF PollLoad, PollReturn, Begin, PushStep, PriorAcked, PushFails, Publish,
                      Copy, PushAcked, observerVars
  <2>4. ASSUME NEW t \in T, Modify(t) PROVE Ordered
    BY <2>2, <2>4 DEF Modify, observerVars
  <2>5. ASSUME NEW d \in BOOLEAN, End(d) PROVE Ordered
    BY <2>2, <2>5 DEF End, observerVars
  <2>6. ASSUME NEW b \in Blocks, Push(b) PROVE Ordered
    BY <2>2, <2>6 DEF Push, observerVars
  <2> QED BY <2>1, <2>3, <2>4, <2>5, <2>6 DEF Next, Poll
<1> QED BY <1>1, Invariance, PTL DEF Spec, IInv, EveryPushAcked

\* When push(BLOCK_UNTIL_ACKED) has returned, the observer has left every
\* earlier state: threadLoop_standby() relies on it to stop the fast mixer's I/O.
THEOREM Acknowledged == Spec => []AckedIsCurrent
<1>1. TypeOK /\ PointerOrder => AckedIsCurrent
  BY NullLemma, SuccessorLemma DEF TypeOK, PointerOrder, Follows, AckedIsCurrent
<1> QED BY <1>1, Invariance, PTL DEF IInv

\* No update is lost between two mutations: begin() hands out the state that was
\* pushed last, for every kN >= 4 and in whichever slot it is ("*mMutating =
\* *mExpecting" in push()).
THEOREM NoUpdateLost == Spec => []MutationStartsFromPushed
<1>1. IInv => MutationStartsFromPushed
  BY DEF IInv, CopyOfPushed, MutationStartsFromPushed
<1> QED BY <1>1, Invariance, PTL
=============================================================================
