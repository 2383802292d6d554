-------------------------- MODULE FastMixerProofs --------------------------
(***************************************************************************)
(* The fast mixer stops for a standby, follows the tracks of the state     *)
(* that it works from, and never uses a track that was released, whatever  *)
(* the number of slots and of fast tracks.                                 *)
(***************************************************************************)
EXTENDS FastMixer, FiniteSetTheorems, TLAPS

\* The state in a slot; before the first one is pushed it is sInitial.
At(p) == IF p = SQ!NULL THEN sInitial ELSE mStates[p]

\* FastThread's pointer to a state of the queue.
Pointer(p) == IF p = SQ!NULL THEN InitialPtr ELSE p

\* What the normal mixer wrote last: push() moves mMutating before it copies.
Latest == IF mpc = "copy" THEN mStates[mNext] ELSE Mutating

\* push() and its caller.
Pushing ==
    /\ mpc \in {"prior", "publish", "copy"} => mIsDirty
    /\ mNext # SQ!NULL /\ ~mIsDirty => Mutating = mStates[mNext]
    /\ mpc = "acked" => ~mIsDirty /\ block = "BLOCK_UNTIL_ACKED"
    /\ mpc # "idle" => npc = "push"
    /\ npc = "push" /\ mpc = "idle" /\ block = "BLOCK_UNTIL_ACKED" => mExpecting = SQ!NULL /\ ~mIsDirty
    /\ npc = "constructor" => fpc = "created" /\ mNext = SQ!NULL
    /\ fpc # "created" \/ npc \in {"cycle", "join", "destroyed"} => mNext # SQ!NULL
    /\ npc = "push" /\ mpc = "idle" => mNext # SQ!NULL

\* Where the fast thread is, and what its pointers point to.
Pointers ==
    /\ opc # "use" => fpc = "poll"
    /\ current = Pointer(IF fpc = "adopt" THEN previous ELSE mCurrent)
    /\ fpc = "adopt" => mCurrent # SQ!NULL
    /\ IF fpc \in {"change", "exited"}
       THEN prior \in {PreIdlePtr, current, Pointer(previous)}
       ELSE prior = IF Deref(current).mCommand = "COLD_IDLE" THEN PreIdlePtr ELSE current

\* It does what the current state tells it.
Commands ==
    /\ npc # "constructor" => Latest.mCommand # "INITIAL"
    /\ \A p \in {mNext, mAck} : p # SQ!NULL => At(p).mCommand # "INITIAL"
    /\ fpc \in {"change", "work"} => Deref(current).mCommand = "MIX_WRITE"
    /\ fpc \in {"cold", "wait", "asleep", "awake"} => Deref(current).mCommand = "COLD_IDLE"

\* Once a standby is acknowledged, the queue holds nothing but idle states.
InStandby ==
    Latest.mCommand = "COLD_IDLE" /\ (mpc = "idle" \/ block # "BLOCK_UNTIL_ACKED") =>
        \A p \in {mNext, mAck} : p # SQ!NULL => At(p).mCommand = "COLD_IDLE"

\* A state that was written before another: its generations are not higher, and
\* tracks with the same generation are the same.
Before(a, b) ==
    /\ a.mFastTracksGen <= b.mFastTracksGen
    /\ a.mFastTracksGen = b.mFastTracksGen =>
          a.mGeneration = b.mGeneration /\ a.mBufferProvider = b.mBufferProvider
    /\ \A j \in FastTracks :
          /\ a.mGeneration[j] <= b.mGeneration[j]
          /\ a.mGeneration[j] = b.mGeneration[j] => a.mBufferProvider[j] = b.mBufferProvider[j]

InOrder ==
    /\ Before(Deref(prior), Deref(current)) /\ Before(Deref(current), At(mCurrent))
    /\ Before(At(mCurrent), At(mAck)) /\ Before(At(mAck), At(mNext))
    /\ Before(At(mNext), Latest)

\* The AudioMixer is that of the state that counts as processed.
Synced ==
    /\ ~fatal
    /\ mixer = Deref(prior).mBufferProvider
    /\ mFastTracksGen = Deref(prior).mFastTracksGen
    /\ \A j \in mTrackMask(Deref(prior)) : mGenerations[j] = Deref(prior).mGeneration[j]

\* Tracks that were removed are in no state that makes the fast mixer work.
Tracks ==
    /\ \A j \in FastTracks : Latest.mBufferProvider[j] \in (0 .. lastTrack) \ (released \cup removing)
    /\ \A j, k \in mTrackMask(Latest) :
          Latest.mBufferProvider[j] = Latest.mBufferProvider[k] => j = k
    /\ \A p \in {mNext, mAck} : p # SQ!NULL /\ At(p).mCommand = "MIX_WRITE" =>
          \A j \in FastTracks : At(p).mBufferProvider[j] \notin released
    /\ removing # {} =>
          /\ npc = "push" /\ block # "BLOCK_UNTIL_PUSHED"
          /\ block = "BLOCK_NEVER" => Latest.mCommand = "COLD_IDLE"

\* The inductive invariant.
IInv ==
    /\ TypeOK /\ SQ!PointerOrder /\ Pushing /\ Pointers /\ Commands /\ InStandby
    /\ InOrder /\ Synced /\ Tracks

-----------------------------------------------------------------------------
(* The operators.                                                          *)

\* Slots, NULL and the two other pointers of the fast thread are told apart; with
\* four slots or more, a slot differs from its next three successors.
LEMMA SlotLemma ==
    /\ SQ!NULL \notin SQ!Slots /\ 0 \in SQ!Slots
    /\ InitialPtr \notin SQ!Slots \cup {SQ!NULL, PreIdlePtr}
    /\ PreIdlePtr \notin SQ!Slots \cup {SQ!NULL, InitialPtr}
    /\ \A s \in SQ!Slots :
          /\ SQ!Successor(s) \in SQ!Slots
          /\ SQ!Successor(s) # s
          /\ SQ!Successor(SQ!Successor(s)) # s
          /\ SQ!Successor(SQ!Successor(SQ!Successor(s))) # s
BY FastMixerAssumption DEF SQ!Successor, SQ!Slots, SQ!NULL, InitialPtr, PreIdlePtr

\* sInitial is a state.
LEMMA InitialLemma ==
    /\ sInitial \in FastMixerStates /\ sInitial.mCommand = "INITIAL"
    /\ sInitial.mFastTracksGen = 0
    /\ \A j \in FastTracks : sInitial.mGeneration[j] = 0 /\ sInitial.mBufferProvider[j] = 0
BY DEF sInitial, FastMixerStates, None

\* The slot that the normal mixer writes is none that the fast thread looks at.
LEMMA IsolationLemma ==
    ASSUME TypeOK, SQ!PointerOrder
    PROVE  /\ mMutating \notin {mNext, mAck, mCurrent}
           /\ opc = "use" => mMutating # previous
<1> USE SlotLemma DEF TypeOK, SQ!PointerOrder, SQ!Follows
<1>1. CASE mNext = SQ!NULL
  BY <1>1
<1>2. CASE mNext # SQ!NULL /\ opc = "use"
  BY <1>2
<1>3. CASE mNext # SQ!NULL /\ opc = "ack"
  BY <1>3
<1>4. CASE mNext # SQ!NULL /\ opc = "shift"
  BY <1>4
<1> QED BY <1>1, <1>2, <1>3, <1>4

\* The states that are looked at are states.
LEMMA ViewLemma ==
    ASSUME TypeOK, SQ!PointerOrder, Pointers
    PROVE  /\ {current, prior} \subseteq SQ!Slots \cup {InitialPtr, PreIdlePtr}
           /\ mMutating \notin {current, prior}
           /\ {Deref(current), Deref(prior), At(mCurrent), At(mAck), At(mNext), Mutating, Latest}
                 \subseteq FastMixerStates
<1>1. /\ {current, prior} \subseteq SQ!Slots \cup {InitialPtr, PreIdlePtr}
      /\ mMutating \notin {current, prior}
  BY SlotLemma, IsolationLemma DEF TypeOK, Pointers, Pointer
<1>2. \A p \in SQ!Slots \cup {InitialPtr, PreIdlePtr} : Deref(p) \in FastMixerStates
  BY InitialLemma, SlotLemma DEF TypeOK, Deref
<1>3. \A p \in SQ!Slots \cup {SQ!NULL} : At(p) \in FastMixerStates
  BY InitialLemma DEF TypeOK, At
<1>4. Mutating \in FastMixerStates /\ Latest \in FastMixerStates
  BY DEF TypeOK, Mutating, Latest, SQ!PointerOrder
<1> QED BY <1>1, <1>2, <1>3, <1>4 DEF TypeOK

\* Writing to *mMutating changes nothing that the fast thread sees.
LEMMA WriteLemma ==
    ASSUME TypeOK, SQ!PointerOrder, Pointers, NEW v,
           mStates' = [mStates EXCEPT ![mMutating] = v],
           UNCHANGED <<mNext, mAck, mCurrent, current, prior, mPreIdle>>
    PROVE  /\ At(mNext)' = At(mNext) /\ At(mAck)' = At(mAck) /\ At(mCurrent)' = At(mCurrent)
           /\ Deref(current)' = Deref(current) /\ Deref(prior)' = Deref(prior)
           /\ mStates'[mMutating] = v
<1>1. \A p \in SQ!Slots \ {mMutating} : mStates'[p] = mStates[p]
  BY DEF TypeOK
<1>2. At(mNext)' = At(mNext) /\ At(mAck)' = At(mAck) /\ At(mCurrent)' = At(mCurrent)
  BY <1>1, IsolationLemma DEF At, TypeOK
<1>3. Deref(current)' = Deref(current) /\ Deref(prior)' = Deref(prior)
  BY <1>1, ViewLemma DEF Deref
<1>4. mStates'[mMutating] = v
  BY DEF TypeOK
<1> QED BY <1>2, <1>3, <1>4

\* The order of writing is reflexive and transitive.
LEMMA BeforeReflexive ==
    ASSUME NEW a \in FastMixerStates
    PROVE  Before(a, a)
BY DEF Before, FastMixerStates

\* What was written before a state that was written before c, was before c.
LEMMA BeforeTransitive ==
    ASSUME NEW a \in FastMixerStates, NEW b \in FastMixerStates, NEW c \in FastMixerStates,
           Before(a, b), Before(b, c)
    PROVE  Before(a, c)
<1>1. /\ a.mFastTracksGen \in Nat /\ b.mFastTracksGen \in Nat /\ c.mFastTracksGen \in Nat
      /\ \A j \in FastTracks : /\ a.mGeneration[j] \in Nat /\ b.mGeneration[j] \in Nat
                               /\ c.mGeneration[j] \in Nat
  BY DEF FastMixerStates
<1>2. /\ a.mFastTracksGen <= c.mFastTracksGen
      /\ a.mFastTracksGen = c.mFastTracksGen =>
            a.mGeneration = c.mGeneration /\ a.mBufferProvider = c.mBufferProvider
  BY <1>1 DEF Before
<1>3. \A j \in FastTracks :
          /\ a.mGeneration[j] <= c.mGeneration[j]
          /\ a.mGeneration[j] = c.mGeneration[j] => a.mBufferProvider[j] = c.mBufferProvider[j]
  BY <1>1 DEF Before
<1> QED BY <1>2, <1>3 DEF Before

\* Tracks of the same generations are written before and after each other.
LEMMA BeforeEqual ==
    ASSUME NEW a \in FastMixerStates, NEW b \in FastMixerStates,
           a.mFastTracksGen = b.mFastTracksGen, a.mGeneration = b.mGeneration,
           a.mBufferProvider = b.mBufferProvider
    PROVE  Before(a, b)
BY DEF Before, FastMixerStates

-----------------------------------------------------------------------------
(* What the normal mixer writes.                                           *)

\* The number of a track among those that become active together.
Rank(add, j) == Cardinality({i \in add : i <= j})

\* Tracks that become active together get numbers of their own.
LEMMA RankLemma ==
    ASSUME NEW add \in SUBSET FastTracks
    PROVE  /\ Cardinality(add) \in Nat
           /\ \A j \in add : Rank(add, j) \in 1 .. Cardinality(add)
           /\ \A j, k \in add : Rank(add, j) = Rank(add, k) => j = k
<1>1. IsFiniteSet(add) /\ Cardinality(add) \in Nat
  BY FastMixerAssumption, FS_Subset, FS_CardinalityType
<1> DEFINE upTo(j) == {i \in add : i <= j}
<1>2. \A j \in add : /\ IsFiniteSet(upTo(j)) /\ Cardinality(upTo(j)) \in Nat
                     /\ Cardinality(upTo(j)) <= Cardinality(add)
  BY <1>1, FS_Subset, FS_CardinalityType
<1>3. ASSUME NEW j \in add PROVE Cardinality(upTo(j)) # 0
  <2>1. j \in upTo(j)
    BY FastMixerAssumption
  <2> QED BY <1>2, <2>1, FS_EmptySet
<1>4. ASSUME NEW j \in add, NEW k \in add, j < k PROVE Cardinality(upTo(j)) < Cardinality(upTo(k))
  <2>1. j \in Nat /\ k \in Nat /\ \A i \in add : i \in Nat
    BY FastMixerAssumption
  <2>2. k \in upTo(k) /\ k \notin upTo(j)
    BY <1>4, <2>1
  <2>3. upTo(j) \subseteq upTo(k)
    <3> SUFFICES ASSUME NEW i \in add, i <= j PROVE i <= k
      OBVIOUS
    <3> QED BY <1>4, <2>1
  <2> HIDE DEF upTo
  <2>4. Cardinality(upTo(j)) <= Cardinality(upTo(k)) /\ Cardinality(upTo(j)) # Cardinality(upTo(k))
    BY <1>2, <2>2, <2>3, FS_Subset
  <2> QED BY <1>2, <2>4
<1>5. \A j \in add : j \in Nat
  BY FastMixerAssumption
<1>6. ASSUME NEW j \in add, NEW k \in add, Rank(add, j) = Rank(add, k) PROVE j = k
  <2>1. ~(j < k)
    BY <1>2, <1>4, <1>6 DEF Rank
  <2>2. ~(k < j)
    BY <1>2, <1>4, <1>6 DEF Rank
  <2> QED BY <1>5, <2>1, <2>2
<1> QED BY <1>1, <1>2, <1>3, <1>6 DEF Rank

\* What the invariant asks of a state that is written and pushed.
GoodWrite(s, b) ==
    /\ s \in FastMixerStates /\ b \in SQ!Blocks
    /\ s.mCommand # "INITIAL"
    /\ s.mCommand = "COLD_IDLE" /\ b # "BLOCK_UNTIL_ACKED" =>
          \A p \in {mNext, mAck} : p # SQ!NULL => At(p).mCommand = "COLD_IDLE"
    /\ Before(At(mNext), s)
    /\ \A j \in FastTracks : s.mBufferProvider[j] \in (0 .. lastTrack') \ (released \cup removing')
    /\ \A j, k \in mTrackMask(s) : s.mBufferProvider[j] = s.mBufferProvider[k] => j = k
    /\ removing' # {} => /\ b # "BLOCK_UNTIL_PUSHED"
                         /\ b = "BLOCK_NEVER" => s.mCommand = "COLD_IDLE"

\* What every caller of push() has in common.
CallsPush ==
    /\ npc \in {"constructor", "cycle"} /\ npc' = "push" /\ mpc = "idle"
    /\ npc = "constructor" => fpc' = "created"
    /\ fpc' = fpc \/ (fpc = "asleep" /\ fpc' = "awake")
    /\ UNCHANGED <<current, prior, mPreIdle, mColdGen, expected, mixerVars, released>>
    /\ lastTrack' \in Nat /\ lastTrack' >= lastTrack
    /\ removing' \subseteq 1 .. lastTrack /\ mFastMixerFutex' \in Int
    /\ \/ \E s, b : MutateAndPush(s, b) /\ GoodWrite(s, b)
       \/ \E b \in {"BLOCK_NEVER", "BLOCK_UNTIL_PUSHED"} :
              SQ!Push(b) /\ npc = "cycle" /\ removing' = {} /\ lastTrack' = lastTrack

\* A state that only changes the command.
LEMMA CommandLemma ==
    ASSUME IInv, npc = "cycle", NEW s \in FastMixerStates, NEW b \in SQ!Blocks,
           s.mCommand # "INITIAL",
           s.mFastTracksGen = Mutating.mFastTracksGen, s.mGeneration = Mutating.mGeneration,
           s.mBufferProvider = Mutating.mBufferProvider,
           s.mCommand = "COLD_IDLE" => b = "BLOCK_UNTIL_ACKED",
           UNCHANGED <<removing, lastTrack>>
    PROVE  GoodWrite(s, b)
<1>1. Latest = Mutating /\ removing = {}
  BY DEF IInv, Pushing, Latest, Tracks
<1>2. /\ At(mNext) \in FastMixerStates /\ Mutating \in FastMixerStates
      /\ Before(At(mNext), Mutating)
  BY <1>1, ViewLemma DEF IInv, InOrder
<1>3. Before(Mutating, s)
  BY <1>2, BeforeEqual
<1>4. Before(At(mNext), s)
  BY <1>2, <1>3, BeforeTransitive
<1>5. /\ \A j \in FastTracks : s.mBufferProvider[j] \in (0 .. lastTrack') \ (released \cup removing')
      /\ \A j, k \in mTrackMask(s) : s.mBufferProvider[j] = s.mBufferProvider[k] => j = k
  BY <1>1 DEF IInv, Tracks, mTrackMask
<1> QED BY <1>1, <1>4, <1>5 DEF GoodWrite

\* The state that the constructor writes.
LEMMA ConstructLemma ==
    ASSUME IInv, Construct
    PROVE  CallsPush
<1> DEFINE s == [sInitial EXCEPT !.mCommand = "COLD_IDLE", !.mColdGen = 1, !.mFrameCount = 1,
                                 !.mFastTracksGen = 1]
<1>1. /\ s \in FastMixerStates /\ s.mCommand = "COLD_IDLE" /\ s.mFastTracksGen = 1
      /\ s.mGeneration = sInitial.mGeneration /\ s.mBufferProvider = sInitial.mBufferProvider
  BY InitialLemma DEF FastMixerStates
<1> HIDE DEF s
<1>2. npc = "constructor" /\ MutateAndPush(s, "BLOCK_UNTIL_PUSHED")
  BY DEF Construct, s
<1>3. fpc = "created" /\ mNext = SQ!NULL /\ mAck = SQ!NULL /\ removing = {}
  BY <1>2 DEF IInv, Pushing, Tracks, SQ!PointerOrder
<1>4. Before(At(mNext), s)
  BY <1>1, <1>3, InitialLemma DEF At, Before, FastMixerStates
<1>5. lastTrack' = lastTrack /\ removing' = removing /\ UNCHANGED <<fastVars, released, mFastMixerFutex>>
  BY DEF Construct
<1>6. 0 \notin released /\ lastTrack \in Nat /\ mFastMixerFutex \in Int
  BY DEF IInv, TypeOK
<1>7. GoodWrite(s, "BLOCK_UNTIL_PUSHED")
  BY <1>1, <1>3, <1>4, <1>5, <1>6, InitialLemma DEF GoodWrite, SQ!Blocks, mTrackMask, None
<1>8. /\ mpc = "idle" /\ npc' = "push"
      /\ UNCHANGED <<fpc, current, prior, mPreIdle, mColdGen, expected, mixerVars, released>>
  BY <1>2, <1>5 DEF MutateAndPush, fastVars
<1> QED BY <1>2, <1>3, <1>5, <1>6, <1>7, <1>8 DEF CallsPush

\* The states that prepareTracks_l() writes: tracks that were removed are not in
\* them, new ones have new numbers, and generations tell what has changed.
LEMMA PrepareLemma ==
    ASSUME IInv, NEW rem \in SUBSET mTrackMask(Mutating),
           NEW add \in SUBSET (FastTracks \ mTrackMask(Mutating)), PrepareTracks(rem, add)
    PROVE  CallsPush
<1> DEFINE old == Mutating
           New(j) == lastTrack + Rank(add, j)
           provider == [j \in FastTracks |-> IF j \in rem THEN None
                           ELSE IF j \in add THEN New(j) ELSE old.mBufferProvider[j]]
           generation == [j \in FastTracks |-> IF j \in rem \cup add THEN old.mGeneration[j] + 1
                                                                   ELSE old.mGeneration[j]]
           s == [old EXCEPT !.mFastTracksGen = @ + 1, !.mGeneration = generation,
                            !.mBufferProvider = provider]
<1>1. npc = "cycle" /\ Latest = old /\ removing = {} /\ lastTrack \in Nat
      /\ old \in FastMixerStates /\ released \subseteq 1 .. lastTrack
  BY ViewLemma DEF PrepareTracks, IInv, Pushing, Tracks, Latest, TypeOK
<1>2. /\ mpc = "idle" /\ npc' = "push"
      /\ UNCHANGED <<fpc, current, prior, mPreIdle, mColdGen, expected, mixerVars, released,
                     mFastMixerFutex>>
      /\ lastTrack' = lastTrack + Cardinality(add)
      /\ removing' = {old.mBufferProvider[j] : j \in rem}
  BY DEF PrepareTracks, MutateAndPush, SQ!Push, fastVars
<1>3. /\ Cardinality(add) \in Nat
      /\ \A j \in add : Rank(add, j) \in 1 .. Cardinality(add)
      /\ \A j, k \in add : Rank(add, j) = Rank(add, k) => j = k
  BY RankLemma
<1>4. rem \subseteq mTrackMask(old) /\ add \cap mTrackMask(old) = {} /\ rem \subseteq FastTracks
      /\ add \subseteq FastTracks
  BY DEF mTrackMask
<1>5. /\ \A j \in FastTracks : old.mBufferProvider[j] \in (0 .. lastTrack) \ released
      /\ \A j, k \in mTrackMask(old) : old.mBufferProvider[j] = old.mBufferProvider[k] => j = k
  BY <1>1 DEF IInv, Tracks
<1>6. \A j \in mTrackMask(old) : old.mBufferProvider[j] # 0
  BY DEF mTrackMask, None
<1>7. removing' \subseteq 1 .. lastTrack
  BY <1>1, <1>2, <1>4, <1>5, <1>6
<1>8. lastTrack' \in Nat /\ lastTrack' >= lastTrack /\ mFastMixerFutex' \in Int
  BY <1>1, <1>2, <1>3 DEF IInv, TypeOK
<1>9. /\ SQ!Push(PrepareBlock(rem)) /\ rem = {} /\ add = {}
      \/ MutateAndPush(s, PrepareBlock(rem))
  BY DEF PrepareTracks, Rank
<1>10. CASE SQ!Push(PrepareBlock(rem)) /\ rem = {} /\ add = {}
  <2>1. removing' = {}
    BY <1>2, <1>10
  <2>2. lastTrack' = lastTrack
    BY <1>1, <1>2, <1>10, FS_EmptySet
  <2>3. PrepareBlock(rem) \in {"BLOCK_NEVER", "BLOCK_UNTIL_PUSHED"}
    BY <1>10 DEF PrepareBlock
  <2> QED BY <1>1, <1>2, <1>7, <1>8, <1>10, <2>1, <2>2, <2>3 DEF CallsPush
<1>11. CASE MutateAndPush(s, PrepareBlock(rem))
  <2>1. \A j \in FastTracks : /\ old.mBufferProvider[j] \in Nat /\ old.mGeneration[j] \in Nat
                              /\ j \in add => New(j) \in Nat
    BY <1>1, <1>3 DEF FastMixerStates
  <2>2. provider \in [FastTracks -> Nat] /\ generation \in [FastTracks -> Nat]
    BY <2>1 DEF None
  <2>3. \A j \in FastTracks :
            /\ j \in rem => provider[j] = 0
            /\ j \in add => provider[j] = New(j)
            /\ j \notin rem \cup add => provider[j] = old.mBufferProvider[j]
            /\ generation[j] = IF j \in rem \cup add THEN old.mGeneration[j] + 1
                                                     ELSE old.mGeneration[j]
    BY <1>4 DEF None
  <2>4. \A j \in add : New(j) \in (lastTrack + 1) .. lastTrack'
    BY <1>1, <1>2, <1>3
  <2>5. \A j, k \in add : New(j) = New(k) => j = k
    BY <1>1, <1>3
  <2> HIDE DEF provider, generation, New
  <2>6. /\ s \in FastMixerStates /\ s.mCommand = old.mCommand
        /\ s.mFastTracksGen = old.mFastTracksGen + 1
        /\ s.mGeneration = generation /\ s.mBufferProvider = provider
    <3> DEFINE g == old.mFastTracksGen + 1
    <3>1. s = [old EXCEPT !.mFastTracksGen = g, !.mGeneration = generation,
                          !.mBufferProvider = provider]
      BY <1>1 DEF FastMixerStates
    <3>2. g \in Nat
      BY <1>1 DEF FastMixerStates
    <3> HIDE DEF g, s, old
    <3>3. /\ s \in FastMixerStates /\ s.mCommand = old.mCommand /\ s.mFastTracksGen = g
          /\ s.mGeneration = generation /\ s.mBufferProvider = provider
      BY <1>1, <2>2, <3>1, <3>2 DEF FastMixerStates
    <3> QED BY <3>3 DEF g
  <2> HIDE DEF s, old
  <2>7. \A j \in FastTracks : provider[j] \in (0 .. lastTrack') \ (released \cup removing')
    <3> SUFFICES ASSUME NEW j \in FastTracks
                 PROVE  provider[j] \in (0 .. lastTrack') \ (released \cup removing')
      OBVIOUS
    <3>1. CASE j \in rem
      BY <1>1, <1>7, <1>8, <2>3, <3>1
    <3>2. CASE j \in add
      BY <1>1, <1>7, <1>8, <2>3, <2>4, <3>2
    <3>3. CASE j \notin rem \cup add
      <4>1. provider[j] = old.mBufferProvider[j] /\ provider[j] \in (0 .. lastTrack) \ released
        BY <1>5, <2>3, <3>3
      <4>2. provider[j] \notin removing'
        <5> SUFFICES ASSUME NEW k \in rem, old.mBufferProvider[k] = old.mBufferProvider[j] PROVE FALSE
          BY <1>2, <4>1
        <5>1. j \in mTrackMask(old)
          BY <1>4, <1>6 DEF mTrackMask, None
        <5> QED BY <1>4, <1>5, <3>3, <5>1
      <4> QED BY <1>1, <1>8, <4>1, <4>2
    <3> QED BY <3>1, <3>2, <3>3
  <2>8. ASSUME NEW j \in FastTracks, NEW k \in FastTracks, provider[j] # 0, provider[k] # 0,
               provider[j] = provider[k]
        PROVE  j = k
    <3>1. j \notin rem /\ k \notin rem
      BY <2>3, <2>8
    <3>2. \A i \in FastTracks : i \notin rem \cup add /\ provider[i] # 0 =>
              i \in mTrackMask(old) /\ provider[i] <= lastTrack
      BY <1>5, <2>3 DEF mTrackMask, None
    <3>3. CASE j \in add /\ k \in add
      BY <2>3, <2>5, <2>8, <3>3
    <3>4. CASE j \notin add /\ k \notin add
      BY <1>5, <2>3, <2>8, <3>1, <3>2, <3>4
    <3>5. CASE j \in add /\ k \notin add
      BY <1>1, <2>3, <2>4, <2>8, <3>1, <3>2, <3>5
    <3>6. CASE j \notin add /\ k \in add
      BY <1>1, <2>3, <2>4, <2>8, <3>1, <3>2, <3>6
    <3> QED BY <3>3, <3>4, <3>5, <3>6
  <2>9. Before(old, s)
    <3>1. old.mFastTracksGen \in Nat
      BY <1>1 DEF FastMixerStates
    <3>2. \A j \in FastTracks :
              /\ old.mGeneration[j] <= generation[j]
              /\ old.mGeneration[j] = generation[j] => old.mBufferProvider[j] = provider[j]
      BY <2>1, <2>3
    <3> QED BY <2>6, <3>1, <3>2 DEF Before
  <2>10. Before(At(mNext), s)
    <3>1. At(mNext) \in FastMixerStates /\ Before(At(mNext), old)
      BY <1>1, ViewLemma DEF IInv, InOrder
    <3> QED BY <1>1, <2>6, <2>9, <3>1, BeforeTransitive
  <2>11. /\ PrepareBlock(rem) \in SQ!Blocks
         /\ PrepareBlock(rem) = "BLOCK_NEVER" <=> old.mCommand = "COLD_IDLE"
         /\ PrepareBlock(rem) = "BLOCK_UNTIL_PUSHED" => rem = {}
    BY DEF PrepareBlock, SQ!Blocks, old
  <2>12. old.mCommand # "INITIAL"
    BY <1>1 DEF IInv, Commands
  <2>13. old.mCommand = "COLD_IDLE" =>
            \A p \in {mNext, mAck} : p # SQ!NULL => At(p).mCommand = "COLD_IDLE"
    BY <1>1, <1>2 DEF IInv, InStandby
  <2>14. removing' # {} => rem # {}
    BY <1>2
  <2>15. GoodWrite(s, PrepareBlock(rem))
    BY <2>6, <2>7, <2>8, <2>10, <2>11, <2>12, <2>13, <2>14 DEF GoodWrite, mTrackMask, None
  <2> QED BY <1>1, <1>2, <1>7, <1>8, <1>11, <2>15 DEF CallsPush
<1> QED BY <1>9, <1>10, <1>11

\* The states that threadLoop_write(), threadLoop_standby() and ~MixerThread() write.
LEMMA CommandsLemma ==
    ASSUME IInv, ThreadLoopWrite \/ ThreadLoopStandby \/ Destroy
    PROVE  CallsPush
<1>1. npc = "cycle" /\ Mutating \in FastMixerStates /\ removing = {}
      /\ removing' = removing /\ lastTrack' = lastTrack /\ lastTrack \in Nat
      /\ UNCHANGED <<current, prior, mPreIdle, mColdGen, expected, mixerVars, released>>
  BY ViewLemma DEF ThreadLoopWrite, ThreadLoopStandby, Destroy, IInv, Tracks, TypeOK, fastVars
<1>2. /\ mFastMixerFutex' \in Int
      /\ fpc' = fpc \/ (fpc = "asleep" /\ fpc' = "awake")
  BY DEF ThreadLoopWrite, ThreadLoopStandby, Destroy, WakeFastThread, IInv, TypeOK, fastVars
<1>3. ASSUME NEW c \in {"COLD_IDLE", "MIX_WRITE", "EXIT"}, NEW g \in Nat, NEW b \in SQ!Blocks,
             MutateAndPush([Mutating EXCEPT !.mCommand = c, !.mColdGen = g], b),
             c = "COLD_IDLE" => b = "BLOCK_UNTIL_ACKED"
      PROVE  CallsPush
  <2> DEFINE s == [Mutating EXCEPT !.mCommand = c, !.mColdGen = g]
  <2>1. /\ s \in FastMixerStates /\ s.mCommand = c
        /\ s.mFastTracksGen = Mutating.mFastTracksGen /\ s.mGeneration = Mutating.mGeneration
        /\ s.mBufferProvider = Mutating.mBufferProvider
    BY <1>1 DEF FastMixerStates
  <2>2. MutateAndPush(s, b)
    BY <1>3
  <2> HIDE DEF s
  <2>3. GoodWrite(s, b)
    BY <1>1, <1>3, <2>1, CommandLemma
  <2>4. mpc = "idle" /\ npc' = "push"
    BY <2>2 DEF MutateAndPush
  <2> QED BY <1>1, <1>2, <2>2, <2>3, <2>4 DEF CallsPush
<1>4. Mutating.mColdGen \in Nat
  BY <1>1 DEF FastMixerStates
<1>5. \A c : [Mutating EXCEPT !.mCommand = c]
               = [Mutating EXCEPT !.mCommand = c, !.mColdGen = Mutating.mColdGen]
  BY <1>1 DEF FastMixerStates
<1>6. CASE ThreadLoopWrite
  <2>1. MutateAndPush([Mutating EXCEPT !.mCommand = "MIX_WRITE"], "BLOCK_UNTIL_PUSHED")
    BY <1>6 DEF ThreadLoopWrite
  <2> QED BY <1>3, <1>4, <1>5, <2>1 DEF SQ!Blocks
<1>7. CASE ThreadLoopStandby
  <2>1. MutateAndPush([Mutating EXCEPT !.mCommand = "COLD_IDLE",
                                       !.mColdGen = Mutating.mColdGen + 1], "BLOCK_UNTIL_ACKED")
    BY <1>7 DEF ThreadLoopStandby
  <2>2. Mutating.mColdGen + 1 \in Nat
    BY <1>4
  <2> QED BY <1>3, <2>1, <2>2 DEF SQ!Blocks
<1>8. CASE Destroy
  <2>1. MutateAndPush([Mutating EXCEPT !.mCommand = "EXIT"], "BLOCK_UNTIL_PUSHED")
    BY <1>8 DEF Destroy
  <2> QED BY <1>3, <1>4, <1>5, <2>1 DEF SQ!Blocks
<1> QED BY <1>6, <1>7, <1>8

-----------------------------------------------------------------------------
(* The steps, as the invariant sees them.                                  *)

\* What the fast thread's pointer to a state of the queue points to.
LEMMA PointerLemma ==
    ASSUME NEW p \in SQ!Slots \cup {SQ!NULL}
    PROVE  Deref(Pointer(p)) = At(p)
BY SlotLemma DEF Deref, Pointer, At

\* The steps of the specification, with those of the normal mixer that call push()
\* taken together.
LEMMA NextCases ==
    ASSUME IInv, [Next]_vars
    PROVE  \/ CallsPush \/ PushStep \/ PushReturn \/ Join \/ RunFastMixer
           \/ PollStep \/ PollSame \/ Adopt \/ ColdIdle \/ FutexWait \/ SpuriousWake \/ ColdDone
           \/ OnStateChange \/ OnWork \/ UNCHANGED vars
<1>1. CASE PrepareAny
  BY <1>1, PrepareLemma DEF PrepareAny
<1>2. CASE Construct \/ ThreadLoopWrite \/ ThreadLoopStandby \/ Destroy
  BY <1>2, ConstructLemma, CommandsLemma
<1> QED BY <1>1, <1>2 DEF Next, FastStep, Destroyed

\* A call of push(), with or without a new state.
LEMMA CallsPushLemma ==
    ASSUME IInv, CallsPush
    PROVE  /\ UNCHANGED <<mNext, mAck, mCurrent, mMutating, mExpecting, opc, next, previous>>
           /\ At(mNext)' = At(mNext) /\ At(mAck)' = At(mAck) /\ At(mCurrent)' = At(mCurrent)
           /\ Deref(current)' = Deref(current) /\ Deref(prior)' = Deref(prior)
           /\ Latest = Mutating
           /\ \/ \E s, b : /\ GoodWrite(s, b) /\ Latest' = s /\ Mutating' = s /\ block' = b
                           /\ mStates' = [mStates EXCEPT ![mMutating] = s]
                           /\ mpc' = "prior" /\ mIsDirty' = TRUE
              \/ /\ UNCHANGED <<mStates, mIsDirty, lastTrack>> /\ Latest' = Latest /\ removing' = {}
                 /\ mpc' = (IF mIsDirty THEN "prior" ELSE "idle") /\ npc = "cycle"
                 /\ block' \in SQ!Blocks \ {"BLOCK_UNTIL_ACKED"}
<1>1. mpc = "idle" /\ Latest = Mutating
  BY DEF CallsPush, Latest
<1>2. ASSUME NEW s, NEW b, MutateAndPush(s, b), GoodWrite(s, b)
      PROVE  /\ UNCHANGED <<mNext, mAck, mCurrent, mMutating, mExpecting, opc, next, previous>>
             /\ At(mNext)' = At(mNext) /\ At(mAck)' = At(mAck) /\ At(mCurrent)' = At(mCurrent)
             /\ Deref(current)' = Deref(current) /\ Deref(prior)' = Deref(prior)
             /\ mStates' = [mStates EXCEPT ![mMutating] = s]
             /\ Latest' = s /\ Mutating' = s /\ block' = b /\ mpc' = "prior" /\ mIsDirty' = TRUE
  <2>1. /\ mStates' = [mStates EXCEPT ![mMutating] = s]
        /\ UNCHANGED <<mNext, mAck, mCurrent, mMutating, mExpecting, opc, next, previous>>
        /\ mpc' = "prior" /\ block' = b /\ mIsDirty' = TRUE
    BY <1>2 DEF MutateAndPush
  <2>2. UNCHANGED <<current, prior, mPreIdle>>
    BY DEF CallsPush
  <2>3. /\ At(mNext)' = At(mNext) /\ At(mAck)' = At(mAck) /\ At(mCurrent)' = At(mCurrent)
        /\ Deref(current)' = Deref(current) /\ Deref(prior)' = Deref(prior)
        /\ mStates'[mMutating] = s
    BY <2>1, <2>2, WriteLemma DEF IInv
  <2> QED BY <2>1, <2>3 DEF Latest, Mutating
<1>3. ASSUME NEW b \in {"BLOCK_NEVER", "BLOCK_UNTIL_PUSHED"}, SQ!Push(b), npc = "cycle",
             removing' = {}, lastTrack' = lastTrack
      PROVE  /\ UNCHANGED <<mNext, mAck, mCurrent, mMutating, mExpecting, opc, next, previous>>
             /\ UNCHANGED <<mStates, mIsDirty, lastTrack>> /\ Latest' = Latest
             /\ mpc' = (IF mIsDirty THEN "prior" ELSE "idle")
             /\ block' \in SQ!Blocks \ {"BLOCK_UNTIL_ACKED"}
  <2>1. /\ UNCHANGED <<mNext, mAck, mCurrent, mMutating, mExpecting, opc, next, previous>>
        /\ UNCHANGED <<mStates, mIsDirty>> /\ block' = b
        /\ mpc' = (IF mIsDirty THEN "prior" ELSE "idle")
    BY <1>3 DEF SQ!Push, SQ!observerVars, SQ!mutationVars
  <2>2. Latest' = Latest
    BY <1>1, <2>1 DEF Latest, Mutating
  <2> QED BY <1>3, <2>1, <2>2 DEF SQ!Blocks
<1>4. CASE \E s, b : MutateAndPush(s, b) /\ GoodWrite(s, b)
  <2>1. PICK s, b : MutateAndPush(s, b) /\ GoodWrite(s, b)
    BY <1>4
  <2>2. /\ UNCHANGED <<mNext, mAck, mCurrent, mMutating, mExpecting, opc, next, previous>>
        /\ At(mNext)' = At(mNext) /\ At(mAck)' = At(mAck) /\ At(mCurrent)' = At(mCurrent)
        /\ Deref(current)' = Deref(current) /\ Deref(prior)' = Deref(prior)
        /\ mStates' = [mStates EXCEPT ![mMutating] = s]
        /\ Latest' = s /\ Mutating' = s /\ block' = b /\ mpc' = "prior" /\ mIsDirty' = TRUE
    BY <1>2, <2>1
  <2> QED BY <1>1, <2>1, <2>2, Zenon
<1>5. CASE \E b \in {"BLOCK_NEVER", "BLOCK_UNTIL_PUSHED"} :
              SQ!Push(b) /\ npc = "cycle" /\ removing' = {} /\ lastTrack' = lastTrack
  <2>1. UNCHANGED <<mNext, mAck, mCurrent, mMutating, mExpecting, opc, next, previous, mStates>>
    BY <1>3, <1>5
  <2>2. UNCHANGED <<current, prior, mPreIdle>>
    BY DEF CallsPush
  <2>3. /\ At(mNext)' = At(mNext) /\ At(mAck)' = At(mAck) /\ At(mCurrent)' = At(mCurrent)
        /\ Deref(current)' = Deref(current) /\ Deref(prior)' = Deref(prior)
    BY <2>1, <2>2 DEF At, Deref
  <2> QED BY <1>1, <1>3, <1>5, <2>1, <2>3
<1> QED BY <1>4, <1>5 DEF CallsPush

\* A step of push(): the fast thread sees nothing of it but mNext.
LEMMA PushStepLemma ==
    ASSUME IInv, PushStep
    PROVE  /\ UNCHANGED <<mAck, mCurrent, opc, next, previous, block, fastVars, normalVars>>
           /\ npc = "push" /\ npc' = "push"
           /\ At(mAck)' = At(mAck) /\ At(mCurrent)' = At(mCurrent)
           /\ Deref(current)' = Deref(current) /\ Deref(prior)' = Deref(prior)
           /\ Latest' = Latest
           /\ \/ mNext' = mNext /\ At(mNext)' = At(mNext)
              \/ mNext' = mMutating /\ At(mNext)' = Latest /\ SQ!Publish
<1>1. /\ UNCHANGED <<mAck, mCurrent, opc, next, previous, block, fastVars, normalVars>>
      /\ npc = "push" /\ npc' = "push"
  BY DEF PushStep, SQ!PushStep, SQ!PriorAcked, SQ!PushFails, SQ!Publish, SQ!Copy, SQ!PushAcked,
         SQ!observerVars, normalVars
<1>2. UNCHANGED <<current, prior, mPreIdle>>
  BY <1>1 DEF fastVars
<1>3. UNCHANGED mStates => /\ At(mAck)' = At(mAck) /\ At(mCurrent)' = At(mCurrent)
                           /\ Deref(current)' = Deref(current) /\ Deref(prior)' = Deref(prior)
  BY <1>1, <1>2 DEF At, Deref
<1>4. CASE SQ!PriorAcked \/ SQ!PushFails \/ SQ!PushAcked
  <2>1. UNCHANGED <<mStates, mNext, mMutating>> /\ mpc # "copy" /\ mpc' # "copy"
    BY <1>4 DEF SQ!PriorAcked, SQ!PushFails, SQ!PushAcked, SQ!mutationVars
  <2>2. Latest' = Latest /\ At(mNext)' = At(mNext)
    BY <2>1 DEF Latest, Mutating, At
  <2> QED BY <1>1, <1>3, <2>1, <2>2
<1>5. CASE SQ!Publish
  <2>1. UNCHANGED mStates /\ mNext' = mMutating /\ mpc = "publish" /\ mpc' = "copy"
    BY <1>5 DEF SQ!Publish
  <2>2. mMutating # SQ!NULL
    BY SlotLemma DEF IInv, TypeOK
  <2>3. Latest' = Latest /\ At(mNext)' = Latest
    BY <2>1, <2>2 DEF Latest, Mutating, At
  <2> QED BY <1>1, <1>3, <1>5, <2>1, <2>3
<1>6. CASE SQ!Copy
  <2>1. /\ mStates' = [mStates EXCEPT ![mMutating] = mStates[mExpecting]]
        /\ UNCHANGED <<mNext, mMutating>> /\ mpc = "copy" /\ mpc' # "copy"
    BY <1>6 DEF SQ!Copy
  <2>2. mExpecting = mNext
    BY <2>1 DEF IInv, SQ!PointerOrder
  <2>3. /\ At(mNext)' = At(mNext) /\ At(mAck)' = At(mAck) /\ At(mCurrent)' = At(mCurrent)
        /\ Deref(current)' = Deref(current) /\ Deref(prior)' = Deref(prior)
        /\ mStates'[mMutating] = mStates[mExpecting]
    BY <1>1, <1>2, <2>1, WriteLemma DEF IInv
  <2>4. Latest' = Latest
    BY <2>1, <2>2, <2>3 DEF Latest, Mutating
  <2> QED BY <1>1, <2>1, <2>3, <2>4
<1> QED BY <1>4, <1>5, <1>6 DEF PushStep, SQ!PushStep

\* A step that leaves the queue and the pointers of the fast thread alone.
LEMMA SameViews ==
    ASSUME UNCHANGED <<queueVars, current, prior, mPreIdle>>
    PROVE  /\ At(mNext)' = At(mNext) /\ At(mAck)' = At(mAck) /\ At(mCurrent)' = At(mCurrent)
           /\ Deref(current)' = Deref(current) /\ Deref(prior)' = Deref(prior)
           /\ Latest' = Latest /\ Mutating' = Mutating
BY DEF queueVars, At, Deref, Latest, Mutating

\* poll(): the acknowledged state moves on to the pushed one.
LEMMA PollLemma ==
    ASSUME IInv, PollStep
    PROVE  /\ UNCHANGED <<mStates, mNext, mMutating, mExpecting, mIsDirty, mpc, block>>
           /\ UNCHANGED <<current, prior, mPreIdle, mColdGen, expected, mixerVars, normalVars,
                          mFastMixerFutex>>
           /\ At(mNext)' = At(mNext) /\ Latest' = Latest /\ Mutating' = Mutating
           /\ Deref(current)' = Deref(current) /\ Deref(prior)' = Deref(prior)
           /\ mAck' \in {mAck, mNext}
           /\ mCurrent' \in {mCurrent, mAck}
           /\ mAck' # mAck => mCurrent' = mCurrent
           /\ At(mAck)' = At(mAck) \/ At(mAck)' = At(mNext)
           /\ At(mCurrent)' = At(mCurrent) \/ (At(mCurrent)' = At(mAck) /\ UNCHANGED mAck)
<1>1. /\ UNCHANGED <<mStates, mNext, mMutating, mExpecting, mIsDirty, mpc, block>>
      /\ UNCHANGED <<current, prior, mPreIdle, mColdGen, expected, mixerVars, normalVars,
                     mFastMixerFutex>>
  BY DEF PollStep, SQ!Poll, SQ!PollLoad, SQ!PollAck, SQ!PollReturn, SQ!mutatorVars,
         SQ!mutationVars
<1>2. mAck' \in {mAck, mNext} /\ mCurrent' \in {mCurrent, mAck} /\ (mAck' # mAck => mCurrent' = mCurrent)
  BY DEF PollStep, SQ!Poll, SQ!PollLoad, SQ!PollAck, SQ!PollReturn, IInv, SQ!PointerOrder
<1> QED BY <1>1, <1>2 DEF At, Deref, Latest, Mutating

-----------------------------------------------------------------------------
(* The parts of the invariant.                                             *)

\* The order of the pointers is kept, as in the queue by itself.
LEMMA OrderStep ==
    ASSUME IInv, [Next]_vars
    PROVE  SQ!PointerOrder'
<1> USE SlotLemma DEF IInv, TypeOK, SQ!PointerOrder, SQ!Follows
<1>1. CASE UNCHANGED <<mNext, mAck, mCurrent, mMutating, mExpecting, mpc, opc, next, previous>>
  BY <1>1
<1>2. CASE PollStep
  <2>1. CASE SQ!PollLoad
    BY <2>1 DEF SQ!PollLoad, SQ!mutatorVars, SQ!mutationVars
  <2>2. CASE SQ!PollAck
    BY <2>2 DEF SQ!PollAck, SQ!mutatorVars, SQ!mutationVars
  <2>3. CASE SQ!PollReturn
    BY <2>3 DEF SQ!PollReturn, SQ!mutatorVars, SQ!mutationVars
  <2> QED BY <1>2, <2>1, <2>2, <2>3 DEF PollStep, SQ!Poll
<1>3. CASE PushStep
  <2>1. CASE SQ!PriorAcked \/ SQ!PushFails
    BY <2>1 DEF SQ!PriorAcked, SQ!PushFails, SQ!observerVars, SQ!mutationVars
  <2>2. CASE SQ!Publish
    <3>1. mAck = mNext
      BY <2>2 DEF SQ!Publish
    <3>2. opc # "ack"
      BY <3>1
    <3> QED BY <2>2, <3>1, <3>2 DEF SQ!Publish, SQ!observerVars
  <2>3. CASE SQ!Copy
    BY <2>3 DEF SQ!Copy, SQ!observerVars
  <2>4. CASE SQ!PushAcked
    BY <2>4 DEF SQ!PushAcked, SQ!observerVars
  <2> QED BY <1>3, <2>1, <2>2, <2>3, <2>4 DEF PushStep, SQ!PushStep
<1>4. CASE CallsPush
  <2>1. /\ UNCHANGED <<mNext, mAck, mCurrent, mMutating, mExpecting, opc, next, previous>>
        /\ mpc' \in {"idle", "prior"} /\ mpc = "idle"
    BY <1>4, CallsPushLemma DEF CallsPush
  <2> QED BY <2>1
<1>5. CASE UNCHANGED queueVars
  BY <1>1, <1>5 DEF queueVars
<1>6. CASE \/ PushReturn \/ Join \/ RunFastMixer \/ PollSame \/ Adopt \/ ColdIdle \/ FutexWait
           \/ SpuriousWake \/ ColdDone \/ OnStateChange \/ OnWork \/ UNCHANGED vars
  BY <1>5, <1>6 DEF PushReturn, Join, RunFastMixer, PollSame, Adopt, ColdIdle, FutexWait,
     SpuriousWake, ColdDone, OnStateChange, OnWork, vars
<1> QED BY <1>2, <1>3, <1>4, <1>6, NextCases

\* What push() has done when it returns.
LEMMA PushingStep ==
    ASSUME IInv, [Next]_vars
    PROVE  Pushing'
<1> USE DEF IInv, Pushing
<1>1. CASE UNCHANGED <<mStates, mNext, mMutating, mExpecting, mIsDirty, mpc, block, npc>>
           /\ (fpc' = "created" <=> fpc = "created")
  BY <1>1 DEF Mutating
<1>2. CASE PollStep
  <2>1. fpc = "poll" /\ fpc' # "created"
    BY <1>2 DEF PollStep
  <2> QED BY <1>1, <1>2, <2>1, PollLemma DEF normalVars
<1>3. CASE PushStep
  <2>1. npc' = "push" /\ npc = "push" /\ fpc' = fpc /\ block' = block
    BY <1>3, PushStepLemma DEF fastVars
  <2>2. CASE SQ!PriorAcked
    BY <2>1, <2>2 DEF SQ!PriorAcked, SQ!mutationVars, Mutating
  <2>3. CASE SQ!PushFails
    <3>1. mNext # SQ!NULL
      BY <2>3 DEF SQ!PushFails, SQ!PointerOrder
    <3> QED BY <2>1, <2>3, <3>1 DEF SQ!PushFails, SQ!mutationVars, Mutating
  <2>4. CASE SQ!Publish
    BY <2>1, <2>4, SlotLemma DEF SQ!Publish, TypeOK
  <2>5. CASE SQ!Copy
    <3>1. mNext # SQ!NULL /\ mExpecting = mNext /\ mMutating # mNext
      BY <2>5, IsolationLemma DEF SQ!Copy, SQ!PointerOrder
    <3>2. Mutating' = mStates'[mNext]
      BY <2>5, <3>1, SlotLemma DEF SQ!Copy, Mutating, TypeOK
    <3> QED BY <2>1, <2>5, <3>1, <3>2 DEF SQ!Copy
  <2>6. CASE SQ!PushAcked
    <3>1. mNext # SQ!NULL
      BY <2>6 DEF SQ!PushAcked, SQ!PointerOrder
    <3> QED BY <2>1, <2>6, <3>1 DEF SQ!PushAcked, Mutating
  <2> QED BY <1>3, <2>2, <2>3, <2>4, <2>5, <2>6 DEF PushStep, SQ!PushStep
<1>4. CASE CallsPush
  <2>1. /\ npc' = "push" /\ npc \in {"constructor", "cycle"} /\ mpc = "idle"
        /\ fpc' = fpc \/ (fpc = "asleep" /\ fpc' = "awake")
        /\ UNCHANGED <<mNext, mMutating, mExpecting>>
    BY <1>4, CallsPushLemma DEF CallsPush
  <2>2. CASE mpc' = "prior" /\ mIsDirty' = TRUE
    BY <2>1, <2>2
  <2>3. CASE UNCHANGED <<mStates, mIsDirty>> /\ mpc' = "idle" /\ npc = "cycle"
             /\ block' # "BLOCK_UNTIL_ACKED"
    BY <2>1, <2>3 DEF Mutating
  <2>4. \/ mpc' = "prior" /\ mIsDirty' = TRUE
        \/ /\ UNCHANGED <<mStates, mIsDirty>> /\ mpc' = (IF mIsDirty THEN "prior" ELSE "idle")
           /\ npc = "cycle" /\ block' # "BLOCK_UNTIL_ACKED"
    BY <1>4, CallsPushLemma
  <2>5. CASE UNCHANGED <<mStates, mIsDirty>> /\ mpc' = "prior" /\ mIsDirty
    BY <2>1, <2>5 DEF Mutating
  <2> QED BY <2>2, <2>3, <2>4, <2>5
<1>5. CASE PushReturn
  BY <1>5 DEF PushReturn, queueVars, fastVars, Mutating
<1>6. CASE Join \/ RunFastMixer
  BY <1>6 DEF Join, RunFastMixer, queueVars, fastVars, normalVars, Mutating
<1>7. CASE \/ PollSame \/ Adopt \/ ColdIdle \/ FutexWait \/ SpuriousWake \/ ColdDone
           \/ OnStateChange \/ OnWork
  <2>1. UNCHANGED <<queueVars, normalVars>> /\ fpc # "created"
    BY <1>7 DEF PollSame, Adopt, ColdIdle, FutexWait, SpuriousWake, ColdDone, OnStateChange,
       OnWork
  <2> QED BY <2>1 DEF queueVars, normalVars, Mutating
<1>8. CASE UNCHANGED vars
  BY <1>1, <1>8 DEF vars, queueVars, fastVars, normalVars
<1> QED BY <1>2, <1>3, <1>4, <1>5, <1>6, <1>7, <1>8, NextCases

\* What a new state makes the fast thread do: it is the one that was acknowledged,
\* and the state that counts as processed is kept, by a copy if need be.
LEMMA AdoptLemma ==
    ASSUME IInv, Adopt
    PROVE  /\ mCurrent \in SQ!Slots /\ opc = "use" /\ mCurrent = mAck
           /\ current' = mCurrent /\ Deref(current)' = At(mCurrent)
           /\ At(mCurrent).mCommand \in {"COLD_IDLE", "MIX_WRITE", "EXIT"}
           /\ fpc' = Dispatch(At(mCurrent).mCommand)
           /\ Deref(prior)' = Deref(prior)
           /\ prior' = IF Deref(current).mCommand = "COLD_IDLE" \/ At(mCurrent).mCommand = "COLD_IDLE"
                       THEN PreIdlePtr ELSE Pointer(previous)
<1>1. /\ fpc = "adopt" /\ current' = mCurrent
      /\ UNCHANGED <<queueVars, mColdGen, expected, mixerVars, normalVars, mFastMixerFutex>>
  BY DEF Adopt
<1>2. UNCHANGED <<mStates, mCurrent>>
  BY <1>1 DEF queueVars
<1>3. /\ opc = "use" /\ mCurrent # SQ!NULL /\ current = Pointer(previous)
      /\ prior = IF Deref(current).mCommand = "COLD_IDLE" THEN PreIdlePtr ELSE current
  BY <1>1 DEF IInv, Pointers
<1>4. mCurrent \in SQ!Slots /\ mCurrent = mAck
  BY <1>3 DEF IInv, TypeOK, SQ!PointerOrder
<1>5. At(mCurrent) = mStates[mCurrent] /\ At(mCurrent).mCommand \in {"COLD_IDLE", "MIX_WRITE", "EXIT"}
  BY <1>3, <1>4 DEF At, IInv, Commands, TypeOK, FastMixerStates
<1>6. Deref(current)' = At(mCurrent)
  BY <1>1, <1>2, <1>4, <1>5, SlotLemma DEF Deref
<1>7. {Deref(current), Deref(prior)} \subseteq FastMixerStates /\ prior \in SQ!Slots \cup {InitialPtr, PreIdlePtr}
  BY ViewLemma DEF IInv
<1>8. Deref(current).mCommand \in IDLE <=> Deref(current).mCommand = "COLD_IDLE"
  BY <1>7 DEF FastMixerStates, IDLE
<1>9. At(mCurrent).mCommand \in IDLE <=> At(mCurrent).mCommand = "COLD_IDLE"
  BY <1>5 DEF IDLE
<1>10. CASE Deref(current).mCommand = "COLD_IDLE"
  <2>1. prior' = prior /\ mPreIdle' = mPreIdle
    BY <1>8, <1>10 DEF Adopt
  <2>2. Deref(prior)' = Deref(prior)
    BY <1>2, <2>1 DEF Deref
  <2> QED BY <1>1, <1>3, <1>4, <1>5, <1>6, <1>10, <2>1, <2>2 DEF Adopt
<1>11. CASE Deref(current).mCommand # "COLD_IDLE" /\ At(mCurrent).mCommand = "COLD_IDLE"
  <2>1. prior' = PreIdlePtr /\ mPreIdle' = Deref(current)
    BY <1>5, <1>8, <1>9, <1>11 DEF Adopt
  <2>2. Deref(prior)' = Deref(current)
    BY <2>1, SlotLemma DEF Deref
  <2>3. prior = current
    BY <1>3, <1>11
  <2> QED BY <1>1, <1>3, <1>4, <1>5, <1>6, <1>11, <2>1, <2>2, <2>3 DEF Adopt
<1>12. CASE Deref(current).mCommand # "COLD_IDLE" /\ At(mCurrent).mCommand # "COLD_IDLE"
  <2>1. prior' = current /\ mPreIdle' = mPreIdle
    BY <1>5, <1>8, <1>9, <1>12 DEF Adopt
  <2>2. Deref(prior)' = Deref(prior)
    BY <1>2, <1>3, <1>12, <2>1 DEF Deref
  <2> QED BY <1>1, <1>3, <1>4, <1>5, <1>6, <1>12, <2>1, <2>2 DEF Adopt
<1> QED BY <1>10, <1>11, <1>12

\* What poll() that returns the same state makes it do.
LEMMA PollSameLemma ==
    ASSUME IInv, PollSame
    PROVE  /\ UNCHANGED <<queueVars, current, prior, mPreIdle, mixerVars, normalVars>>
           /\ current = Pointer(mCurrent) /\ Deref(current) = At(mNext)
           /\ Deref(current).mCommand \in {"COLD_IDLE", "MIX_WRITE", "EXIT"}
           /\ fpc = "poll" /\ opc = "use" /\ fpc' = Dispatch(Deref(current).mCommand)
           /\ prior = IF Deref(current).mCommand = "COLD_IDLE" THEN PreIdlePtr ELSE current
<1>1. /\ fpc = "poll" /\ opc = "use" /\ mNext = mCurrent
      /\ UNCHANGED <<queueVars, current, prior, mPreIdle, mixerVars, normalVars>>
      /\ fpc' = Dispatch(Deref(current).mCommand)
  BY DEF PollSame
<1>2. /\ mNext # SQ!NULL /\ current = Pointer(mCurrent)
      /\ prior = IF Deref(current).mCommand = "COLD_IDLE" THEN PreIdlePtr ELSE current
  BY <1>1 DEF IInv, Pushing, Pointers
<1>3. Deref(current) = At(mNext)
  BY <1>1, <1>2, PointerLemma DEF IInv, TypeOK
<1>4. At(mNext).mCommand # "INITIAL" /\ At(mNext) \in FastMixerStates
  BY <1>2, ViewLemma DEF IInv, Commands
<1>5. Deref(current).mCommand \in {"COLD_IDLE", "MIX_WRITE", "EXIT"}
  BY <1>3, <1>4 DEF FastMixerStates
<1> QED BY <1>1, <1>2, <1>3, <1>5

\* Where a command leads.
LEMMA DispatchLemma ==
    /\ Dispatch("COLD_IDLE") = "cold" /\ Dispatch("EXIT") = "exited"
    /\ Dispatch("MIX_WRITE") = "change"
BY DEF Dispatch

\* The pointers of the fast thread are kept.
LEMMA PointersStep ==
    ASSUME IInv, [Next]_vars
    PROVE  Pointers'
<1> USE DEF IInv, Pointers
<1>1. CASE /\ UNCHANGED <<mCurrent, opc, previous, current, prior>> /\ Deref(current)' = Deref(current)
           /\ fpc' \notin {"adopt", "change", "exited"} /\ fpc \notin {"adopt", "change", "exited"}
           /\ (opc # "use" => fpc' = "poll")
  BY <1>1 DEF Pointer
<1>2. CASE /\ UNCHANGED <<mCurrent, opc, previous, current, prior, fpc>>
           /\ Deref(current)' = Deref(current)
  BY <1>2 DEF Pointer
<1>3. CASE PollStep
  <2>1. UNCHANGED <<current, prior>> /\ Deref(current)' = Deref(current) /\ fpc = "poll"
    BY <1>3, PollLemma DEF PollStep
  <2>2. CASE SQ!PollLoad \/ SQ!PollAck
    BY <1>3, <2>1, <2>2 DEF PollStep, SQ!PollLoad, SQ!PollAck, Pointer
  <2>3. CASE SQ!PollReturn
    <3>1. opc' = "use" /\ fpc' = "adopt" /\ previous' = mCurrent /\ mCurrent' # SQ!NULL
      BY <1>3, <2>3 DEF PollStep, SQ!PollReturn, SQ!PointerOrder
    <3> QED BY <2>1, <3>1 DEF Pointer
  <2> QED BY <1>3, <2>2, <2>3 DEF PollStep, SQ!Poll
<1>4. CASE PollSame
  <2>1. Deref(current)' = Deref(current) /\ UNCHANGED <<mCurrent, opc, previous, current, prior>>
    BY <1>4, PollSameLemma, SameViews DEF queueVars
  <2> QED BY <1>4, <2>1, PollSameLemma, DispatchLemma DEF Pointer
<1>5. CASE Adopt
  <2>1. UNCHANGED <<mCurrent, opc, previous>>
    BY <1>5 DEF Adopt, queueVars
  <2>2. current' = Pointer(mCurrent) /\ fpc' # "adopt"
    BY <1>5, AdoptLemma, DispatchLemma, SlotLemma DEF Pointer
  <2>3. prior' \in {PreIdlePtr, Pointer(previous)}
    BY <1>5, AdoptLemma
  <2>4. fpc' \notin {"change", "exited"} => At(mCurrent).mCommand = "COLD_IDLE"
    BY <1>5, AdoptLemma, DispatchLemma
  <2>5. At(mCurrent).mCommand = "COLD_IDLE" =>
            prior' = PreIdlePtr /\ Deref(current)' = At(mCurrent)
    BY <1>5, AdoptLemma
  <2>6. opc = "use"
    BY <1>5, AdoptLemma
  <2> QED BY <2>1, <2>2, <2>3, <2>4, <2>5, <2>6 DEF Pointer
<1>6. CASE OnStateChange
  <2>1. /\ prior' = current /\ current' = current /\ fpc = "change" /\ fpc' = "work"
        /\ UNCHANGED <<mStates, mCurrent, opc, previous, mPreIdle>>
    BY <1>6 DEF OnStateChange, queueVars
  <2>2. Deref(current)' = Deref(current) /\ Deref(current).mCommand = "MIX_WRITE"
    BY <2>1 DEF Deref, Commands
  <2> QED BY <2>1, <2>2 DEF Pointer
<1>7. CASE ColdIdle \/ FutexWait \/ SpuriousWake \/ ColdDone \/ OnWork \/ RunFastMixer
  <2>1. /\ UNCHANGED <<queueVars, current, prior, mPreIdle>>
        /\ fpc' \notin {"adopt", "change", "exited"} /\ fpc \notin {"adopt", "change", "exited"}
        /\ fpc # "poll"
    BY <1>7 DEF ColdIdle, FutexWait, SpuriousWake, ColdDone, OnWork, RunFastMixer
  <2>2. Deref(current)' = Deref(current) /\ UNCHANGED <<mCurrent, opc, previous>>
    BY <2>1, SameViews DEF queueVars
  <2> QED BY <1>1, <2>1, <2>2
<1>8. CASE CallsPush
  <2>1. /\ UNCHANGED <<mCurrent, opc, previous, current, prior>> /\ Deref(current)' = Deref(current)
        /\ fpc' = fpc \/ (fpc = "asleep" /\ fpc' = "awake")
    BY <1>8, CallsPushLemma DEF CallsPush
  <2> QED BY <1>1, <1>2, <2>1
<1>9. CASE PushStep
  BY <1>2, <1>9, PushStepLemma DEF fastVars
<1>10. CASE PushReturn \/ Join \/ UNCHANGED vars
  <2>1. UNCHANGED <<queueVars, current, prior, mPreIdle, fpc>>
    BY <1>10 DEF PushReturn, Join, vars, fastVars
  <2> QED BY <1>2, <2>1, SameViews DEF queueVars
<1> QED BY <1>3, <1>4, <1>5, <1>6, <1>7, <1>8, <1>9, <1>10, NextCases

\* The fast thread goes on doing what its current state tells it.
LEMMA CommandsStep ==
    ASSUME IInv, [Next]_vars
    PROVE  Commands'
<1> USE DEF IInv, Commands
<1>1. CASE /\ UNCHANGED <<mNext, mAck>> /\ At(mNext)' = At(mNext) /\ At(mAck)' = At(mAck)
           /\ Latest' = Latest /\ Deref(current)' = Deref(current)
           /\ npc = npc' \/ npc # "constructor"
           /\ \/ fpc' = fpc
              \/ fpc' \notin {"change", "work", "cold", "wait", "asleep", "awake"}
              \/ fpc \in {"change", "work"} /\ fpc' \in {"change", "work"}
              \/ /\ fpc \in {"cold", "wait", "asleep", "awake"}
                 /\ fpc' \in {"cold", "wait", "asleep", "awake"}
  BY <1>1
<1>2. CASE PollStep
  <2>1. fpc' \in {"poll", "adopt"}
    BY <1>2 DEF PollStep
  <2>2. UNCHANGED <<mStates, mNext, npc>> /\ Latest' = Latest /\ mAck' \in {mAck, mNext}
    BY <1>2, PollLemma DEF normalVars
  <2> QED BY <2>1, <2>2 DEF At
<1>3. CASE PollSame
  <2>1. /\ UNCHANGED <<queueVars, current, prior, mPreIdle, normalVars>>
        /\ fpc' \in {"cold", "change", "exited"}
        /\ fpc' = "cold" => Deref(current).mCommand = "COLD_IDLE"
        /\ fpc' = "change" => Deref(current).mCommand = "MIX_WRITE"
    BY <1>3, PollSameLemma, DispatchLemma
  <2> QED BY <2>1, SameViews DEF queueVars, normalVars
<1>4. CASE Adopt
  <2>1. /\ UNCHANGED <<queueVars, normalVars>>
        /\ fpc' \in {"cold", "change", "exited"}
        /\ fpc' = "cold" => Deref(current)'.mCommand = "COLD_IDLE"
        /\ fpc' = "change" => Deref(current)'.mCommand = "MIX_WRITE"
    <3>1. UNCHANGED <<queueVars, normalVars>>
      BY <1>4 DEF Adopt
    <3> QED BY <1>4, <3>1, AdoptLemma, DispatchLemma
  <2>2. UNCHANGED <<mNext, mAck>> /\ Latest' = Latest /\ At(mNext)' = At(mNext) /\ At(mAck)' = At(mAck)
    BY <2>1 DEF queueVars, Latest, Mutating, At
  <2> QED BY <2>1, <2>2 DEF normalVars
<1>5. CASE OnStateChange
  <2>1. /\ UNCHANGED <<queueVars, current, mPreIdle, normalVars>> /\ fpc = "change" /\ fpc' = "work"
    BY <1>5 DEF OnStateChange
  <2>2. Deref(current)' = Deref(current) /\ Latest' = Latest /\ At(mNext)' = At(mNext)
        /\ At(mAck)' = At(mAck) /\ UNCHANGED <<mNext, mAck>>
    BY <2>1 DEF queueVars, Deref, Latest, Mutating, At
  <2> QED BY <1>1, <2>1, <2>2 DEF normalVars
<1>6. CASE ColdIdle \/ FutexWait \/ SpuriousWake \/ ColdDone \/ OnWork \/ RunFastMixer
  <2>1. /\ UNCHANGED <<queueVars, current, prior, mPreIdle, normalVars>>
        /\ \/ fpc' = "poll"
           \/ fpc \in {"cold", "wait", "asleep"} /\ fpc' \in {"wait", "asleep", "awake"}
    BY <1>6 DEF ColdIdle, FutexWait, SpuriousWake, ColdDone, OnWork, RunFastMixer
  <2> QED BY <1>1, <2>1, SameViews DEF queueVars, normalVars
<1>7. CASE CallsPush
  <2>1. /\ UNCHANGED <<mNext, mAck>> /\ At(mNext)' = At(mNext) /\ At(mAck)' = At(mAck)
        /\ Deref(current)' = Deref(current)
        /\ fpc' = fpc \/ (fpc = "asleep" /\ fpc' = "awake")
    BY <1>7, CallsPushLemma DEF CallsPush
  <2>2. Latest'.mCommand # "INITIAL"
    BY <1>7, CallsPushLemma DEF GoodWrite
  <2> QED BY <2>1, <2>2
<1>8. CASE PushStep
  BY <1>8, PushStepLemma DEF fastVars
<1>9. CASE PushReturn \/ Join \/ UNCHANGED vars
  <2>1. UNCHANGED <<queueVars, current, prior, mPreIdle, fpc>> /\ (npc = npc' \/ npc # "constructor")
    BY <1>9 DEF PushReturn, Join, vars, fastVars, normalVars
  <2> QED BY <1>1, <2>1, SameViews DEF queueVars
<1> QED BY <1>2, <1>3, <1>4, <1>5, <1>6, <1>7, <1>8, <1>9, NextCases

\* Steps other than those of poll(), of push() and of its callers change nothing in
\* the queue.
LEMMA QuietLemma ==
    ASSUME \/ PushReturn \/ Join \/ RunFastMixer \/ PollSame \/ Adopt \/ ColdIdle \/ FutexWait
           \/ SpuriousWake \/ ColdDone \/ OnStateChange \/ OnWork \/ UNCHANGED vars
    PROVE  /\ UNCHANGED <<mStates, mNext, mAck, mCurrent, mMutating, mExpecting, mpc, block>>
           /\ At(mNext)' = At(mNext) /\ At(mAck)' = At(mAck) /\ At(mCurrent)' = At(mCurrent)
           /\ Latest' = Latest
<1>1. UNCHANGED queueVars
  BY DEF PushReturn, Join, RunFastMixer, PollSame, Adopt, ColdIdle, FutexWait, SpuriousWake,
         ColdDone, OnStateChange, OnWork, vars
<1> QED BY <1>1 DEF queueVars, At, Latest, Mutating

\* A standby that has been acknowledged stays: until threadLoop_write() only idle
\* states are pushed, some of them over others that were not acknowledged.
LEMMA StandbyStep ==
    ASSUME IInv, [Next]_vars
    PROVE  InStandby'
<1> USE DEF IInv, InStandby
<1>1. CASE PollStep
  <2>1. UNCHANGED <<mStates, mNext, mpc, block>> /\ Latest' = Latest /\ mAck' \in {mAck, mNext}
    BY <1>1, PollLemma
  <2> QED BY <2>1 DEF At
<1>2. CASE CallsPush
  <2>1. UNCHANGED <<mNext, mAck>> /\ At(mNext)' = At(mNext) /\ At(mAck)' = At(mAck) /\ mpc = "idle"
    BY <1>2, CallsPushLemma DEF CallsPush
  <2>2. CASE \E s, b : GoodWrite(s, b) /\ Latest' = s /\ block' = b /\ mpc' = "prior"
    BY <2>1, <2>2 DEF GoodWrite
  <2>3. CASE Latest' = Latest
    BY <2>1, <2>3
  <2> QED BY <1>2, <2>2, <2>3, CallsPushLemma
<1>3. CASE PushStep
  <2>1. /\ UNCHANGED <<mAck, block>> /\ At(mAck)' = At(mAck) /\ Latest' = Latest
        /\ \/ mNext' = mNext /\ At(mNext)' = At(mNext)
           \/ At(mNext)' = Latest
    BY <1>3, PushStepLemma
  <2>2. CASE block # "BLOCK_UNTIL_ACKED"
    <3>1. \/ mNext' = mNext /\ At(mNext)' = At(mNext)
          \/ At(mNext)' = Latest
      BY <2>1
    <3> QED BY <2>1, <2>2, <3>1
  <2>3. CASE block = "BLOCK_UNTIL_ACKED" /\ mpc' = "idle"
    <3>1. SQ!PushAcked
      BY <1>3, <2>3 DEF PushStep, SQ!PushStep, SQ!PriorAcked, SQ!PushFails, SQ!Publish, SQ!Copy
    <3>2. /\ mpc = "acked" /\ mAck = mExpecting /\ mNext' = mNext /\ mExpecting = mNext
          /\ mNext # SQ!NULL
      BY <3>1 DEF SQ!PushAcked, SQ!PointerOrder
    <3>3. At(mNext) = Latest
      BY <3>2 DEF Pushing, Latest, At
    <3>4. At(mNext)' = Latest /\ At(mAck)' = Latest
      BY <2>1, <3>2, <3>3
    <3> QED BY <2>1, <3>4
  <2> QED BY <2>1, <2>2, <2>3
<1>4. CASE \/ PushReturn \/ Join \/ RunFastMixer \/ PollSame \/ Adopt \/ ColdIdle \/ FutexWait
           \/ SpuriousWake \/ ColdDone \/ OnStateChange \/ OnWork \/ UNCHANGED vars
  BY <1>4, QuietLemma
<1> QED BY <1>1, <1>2, <1>3, <1>4, NextCases

\* The order in which the states were written is kept along the queue.
LEMMA InOrderStep ==
    ASSUME IInv, [Next]_vars
    PROVE  InOrder'
<1>1. /\ Before(Deref(prior), Deref(current)) /\ Before(Deref(current), At(mCurrent))
      /\ Before(At(mCurrent), At(mAck)) /\ Before(At(mAck), At(mNext)) /\ Before(At(mNext), Latest)
  BY DEF IInv, InOrder
<1>2. {Deref(current), Deref(prior), At(mCurrent), At(mAck), At(mNext), Latest} \subseteq FastMixerStates
  BY ViewLemma DEF IInv
<1>3. CASE PollStep
  <2>1. /\ At(mNext)' = At(mNext) /\ Latest' = Latest
        /\ Deref(current)' = Deref(current) /\ Deref(prior)' = Deref(prior)
    BY <1>3, PollLemma
  <2>2. CASE At(mCurrent)' = At(mCurrent) /\ At(mAck)' = At(mAck)
    BY <1>1, <2>1, <2>2 DEF InOrder
  <2>3. CASE At(mCurrent)' = At(mCurrent) /\ At(mAck)' = At(mNext)
    BY <1>1, <1>2, <2>1, <2>3, BeforeReflexive, BeforeTransitive DEF InOrder
  <2>4. CASE At(mCurrent)' = At(mAck) /\ At(mAck)' = At(mAck)
    BY <1>1, <1>2, <2>1, <2>4, BeforeReflexive, BeforeTransitive DEF InOrder
  <2>5. At(mCurrent)' = At(mAck) /\ UNCHANGED mAck => At(mAck)' = At(mAck)
    BY <1>3, PollLemma DEF At
  <2> QED BY <1>3, <2>2, <2>3, <2>4, <2>5, PollLemma
<1>4. CASE Adopt
  <2>1. Deref(current)' = At(mCurrent) /\ Deref(prior)' = Deref(prior)
    BY <1>4, AdoptLemma
  <2>2. /\ At(mNext)' = At(mNext) /\ At(mAck)' = At(mAck) /\ At(mCurrent)' = At(mCurrent)
        /\ Latest' = Latest
    BY <1>4, QuietLemma
  <2>3. Before(Deref(prior), At(mCurrent)) /\ Before(At(mCurrent), At(mCurrent))
    BY <1>1, <1>2, BeforeReflexive, BeforeTransitive
  <2> QED BY <1>1, <2>1, <2>2, <2>3 DEF InOrder
<1>5. CASE OnStateChange
  <2>1. Deref(current)' = Deref(current) /\ Deref(prior)' = Deref(current)
    BY <1>5 DEF OnStateChange, queueVars, Deref
  <2>2. /\ At(mNext)' = At(mNext) /\ At(mAck)' = At(mAck) /\ At(mCurrent)' = At(mCurrent)
        /\ Latest' = Latest
    BY <1>5, QuietLemma
  <2> QED BY <1>1, <1>2, <2>1, <2>2, BeforeReflexive DEF InOrder
<1>6. CASE CallsPush
  <2>1. /\ At(mNext)' = At(mNext) /\ At(mAck)' = At(mAck) /\ At(mCurrent)' = At(mCurrent)
        /\ Deref(current)' = Deref(current) /\ Deref(prior)' = Deref(prior)
    BY <1>6, CallsPushLemma
  <2>2. Before(At(mNext), Latest')
    BY <1>1, <1>6, CallsPushLemma DEF GoodWrite
  <2> QED BY <1>1, <2>1, <2>2 DEF InOrder
<1>7. CASE PushStep
  <2>1. /\ At(mAck)' = At(mAck) /\ At(mCurrent)' = At(mCurrent) /\ Latest' = Latest
        /\ Deref(current)' = Deref(current) /\ Deref(prior)' = Deref(prior)
        /\ At(mNext)' = At(mNext) \/ At(mNext)' = Latest
    BY <1>7, PushStepLemma
  <2>2. CASE At(mNext)' = At(mNext)
    BY <1>1, <2>1, <2>2 DEF InOrder
  <2>3. CASE At(mNext)' = Latest
    BY <1>1, <1>2, <2>1, <2>3, BeforeReflexive, BeforeTransitive DEF InOrder
  <2> QED BY <2>1, <2>2, <2>3
<1>8. CASE \/ PushReturn \/ Join \/ RunFastMixer \/ PollSame \/ ColdIdle \/ FutexWait
           \/ SpuriousWake \/ ColdDone \/ OnWork \/ UNCHANGED vars
  <2>1. UNCHANGED <<queueVars, current, prior, mPreIdle>>
    BY <1>8 DEF PushReturn, Join, RunFastMixer, PollSame, ColdIdle, FutexWait, SpuriousWake,
       ColdDone, OnWork, vars, fastVars
  <2> QED BY <1>1, <2>1, SameViews DEF InOrder
<1> QED BY <1>3, <1>4, <1>5, <1>6, <1>7, <1>8, NextCases

\* onStateChange() makes the AudioMixer that of the current state, from whichever
\* earlier state it comes: a track that is in both and has the same generation is
\* the same track, and if the generation of the tracks is the same, all of them are.
LEMMA ChangeLemma ==
    ASSUME IInv, OnStateChange
    PROVE  /\ ~fatal'
           /\ mixer' = Deref(current).mBufferProvider
           /\ mFastTracksGen' = Deref(current).mFastTracksGen
           /\ \A j \in mTrackMask(Deref(current)) : mGenerations'[j] = Deref(current).mGeneration[j]
<1> DEFINE cur == Deref(current)
           old == Deref(prior)
           rebuild == cur.mFrameCount # old.mFrameCount
           mixer0 == IF rebuild THEN [j \in FastTracks |-> None] ELSE mixer
           oldMask == IF rebuild THEN {} ELSE mTrackMask(old)
           curMask == mTrackMask(cur)
           removed == oldMask \ curMask
           added == curMask \ oldMask
           modified == {j \in curMask \cap oldMask : mGenerations[j] # cur.mGeneration[j]}
           changes == current # prior /\ (rebuild \/ cur.mFastTracksGen # mFastTracksGen)
<1>1. cur \in FastMixerStates /\ old \in FastMixerStates /\ Before(old, cur)
  BY ViewLemma DEF IInv, InOrder
<1>2. /\ ~fatal /\ mixer = old.mBufferProvider /\ mFastTracksGen = old.mFastTracksGen
      /\ \A j \in mTrackMask(old) : mGenerations[j] = old.mGeneration[j]
  BY DEF IInv, Synced
<1>3. /\ cur.mBufferProvider \in [FastTracks -> Nat] /\ cur.mGeneration \in [FastTracks -> Nat]
      /\ old.mBufferProvider \in [FastTracks -> Nat]
  BY <1>1 DEF FastMixerStates
<1>4. CASE changes
  <2>1. /\ mixer' = [j \in FastTracks |->
                        IF j \in removed THEN None
                        ELSE IF j \in added \cup modified THEN cur.mBufferProvider[j]
                        ELSE mixer0[j]]
        /\ mGenerations' = [j \in FastTracks |->
                        IF j \in removed \cup curMask THEN cur.mGeneration[j] ELSE mGenerations[j]]
        /\ mFastTracksGen' = cur.mFastTracksGen
        /\ fatal' = (fatal \/ \E j \in added : mixer0[j] # None)
    BY <1>4 DEF OnStateChange
  <2>2. /\ \A j \in FastTracks : j \in curMask <=> cur.mBufferProvider[j] # None
        /\ \A j \in FastTracks : j \in mTrackMask(old) <=> old.mBufferProvider[j] # None
        /\ curMask \subseteq FastTracks
    BY DEF mTrackMask
  <2>3. \A j \in added : mixer0[j] = None
    BY <1>2, <2>2
  <2>4. ASSUME NEW j \in FastTracks
        PROVE  mixer'[j] = cur.mBufferProvider[j]
    <3>1. CASE j \in removed
      BY <2>1, <2>2, <3>1
    <3>2. CASE j \in added \cup modified
      BY <2>1, <3>2
    <3>3. CASE j \notin removed \cup added \cup modified /\ j \in curMask
      <4>1. j \in mTrackMask(old) /\ ~rebuild /\ mGenerations[j] = cur.mGeneration[j]
        BY <3>3
      <4>2. old.mBufferProvider[j] = cur.mBufferProvider[j]
        BY <1>1, <1>2, <4>1 DEF Before
      <4> QED BY <1>2, <2>1, <3>3, <4>1, <4>2
    <3>4. CASE j \notin removed \cup added \cup modified /\ j \notin curMask
      <4>1. mixer0[j] = None
        BY <1>2, <2>2, <3>4
      <4> QED BY <2>1, <2>2, <3>4, <4>1
    <3> QED BY <3>1, <3>2, <3>3, <3>4
  <2>5. mixer' = cur.mBufferProvider
    <3>1. mixer' = [j \in FastTracks |-> mixer'[j]]
      BY <2>1
    <3>2. cur.mBufferProvider = [j \in FastTracks |-> cur.mBufferProvider[j]]
      BY <1>3
    <3> HIDE DEF cur
    <3> QED BY <2>4, <3>1, <3>2
  <2>6. \A j \in curMask : mGenerations'[j] = cur.mGeneration[j]
    BY <2>1, <2>2
  <2> QED BY <1>2, <2>1, <2>3, <2>5, <2>6
<1>5. CASE ~changes
  <2>1. UNCHANGED mixerVars
    BY <1>5 DEF OnStateChange
  <2>2. CASE current = prior
    BY <1>2, <2>1, <2>2 DEF mixerVars
  <2>3. CASE cur.mFastTracksGen = mFastTracksGen
    <3>1. old.mGeneration = cur.mGeneration /\ old.mBufferProvider = cur.mBufferProvider
      BY <1>1, <1>2, <2>3 DEF Before
    <3>2. mTrackMask(old) = mTrackMask(cur)
      BY <3>1 DEF mTrackMask
    <3> QED BY <1>2, <2>1, <2>3, <3>1, <3>2 DEF mixerVars
  <2> QED BY <1>5, <2>2, <2>3
<1> QED BY <1>4, <1>5

\* The AudioMixer stays that of the state that counts as processed.
LEMMA SyncedStep ==
    ASSUME IInv, [Next]_vars
    PROVE  Synced'
<1> USE DEF IInv, Synced
<1>1. CASE UNCHANGED mixerVars /\ Deref(prior)' = Deref(prior)
  BY <1>1 DEF mixerVars, mTrackMask
<1>2. CASE OnStateChange
  <2>1. Deref(prior)' = Deref(current)
    BY <1>2 DEF OnStateChange, queueVars, Deref
  <2> QED BY <1>2, <2>1, ChangeLemma DEF mTrackMask
<1>3. CASE PollStep
  BY <1>1, <1>3, PollLemma
<1>4. CASE Adopt
  BY <1>1, <1>4, AdoptLemma DEF Adopt
<1>5. CASE CallsPush
  BY <1>1, <1>5, CallsPushLemma DEF CallsPush
<1>6. CASE PushStep
  BY <1>1, <1>6, PushStepLemma DEF fastVars
<1>7. CASE \/ PushReturn \/ Join \/ RunFastMixer \/ PollSame \/ ColdIdle \/ FutexWait
           \/ SpuriousWake \/ ColdDone \/ OnWork \/ UNCHANGED vars
  <2>1. UNCHANGED <<queueVars, current, prior, mPreIdle, mixerVars>>
    BY <1>7 DEF PushReturn, Join, RunFastMixer, PollSame, ColdIdle, FutexWait, SpuriousWake,
       ColdDone, OnWork, vars, fastVars
  <2> QED BY <1>1, <2>1, SameViews
<1> QED BY <1>2, <1>3, <1>4, <1>5, <1>6, <1>7, NextCases

\* When push() has returned, no state that lets the fast mixer work has a track that
\* was removed: the fast thread has acknowledged a state without it, or it is in
\* standby.
LEMMA ReturnLemma ==
    ASSUME IInv, npc = "push", mpc = "idle", NEW p \in {mNext, mAck}, p # SQ!NULL,
           At(p).mCommand = "MIX_WRITE", NEW j \in FastTracks
    PROVE  At(p).mBufferProvider[j] \notin removing
<1>1. Latest = Mutating /\ Latest.mBufferProvider[j] \notin removing
  BY DEF Latest, IInv, Tracks
<1>2. CASE removing = {}
  BY <1>2
<1>3. CASE removing # {} /\ block = "BLOCK_NEVER"
  BY <1>3 DEF IInv, Tracks, InStandby
<1>4. CASE removing # {} /\ block = "BLOCK_UNTIL_ACKED"
  <2>1. mExpecting = SQ!NULL /\ ~mIsDirty /\ mNext # SQ!NULL
    BY <1>4 DEF IInv, Pushing
  <2>2. mAck = mNext /\ Mutating = mStates[mNext]
    BY <2>1 DEF IInv, Pushing, SQ!PointerOrder
  <2>3. At(p) = Latest
    BY <1>1, <2>1, <2>2 DEF At
  <2> QED BY <1>1, <2>3
<1> QED BY <1>2, <1>3, <1>4 DEF IInv, Tracks, TypeOK, SQ!Blocks

\* Released tracks stay out of the states that let the fast mixer work.
LEMMA TracksStep ==
    ASSUME IInv, [Next]_vars
    PROVE  Tracks'
<1> USE DEF IInv, Tracks
<1>1. CASE PollStep
  <2>1. /\ UNCHANGED <<mStates, mNext, block, npc, removing, released, lastTrack>>
        /\ Latest' = Latest /\ mAck' \in {mAck, mNext}
    BY <1>1, PollLemma DEF normalVars
  <2> QED BY <2>1 DEF At, mTrackMask
<1>2. CASE CallsPush
  <2>1. /\ UNCHANGED <<mNext, mAck, released>> /\ At(mNext)' = At(mNext) /\ At(mAck)' = At(mAck)
        /\ npc' = "push"
    BY <1>2, CallsPushLemma DEF CallsPush
  <2>2. CASE \E s, b : GoodWrite(s, b) /\ Latest' = s /\ block' = b
    <3>1. PICK s, b : GoodWrite(s, b) /\ Latest' = s /\ block' = b
      BY <2>2
    <3> QED BY <2>1, <3>1 DEF GoodWrite, mTrackMask
  <2>3. CASE Latest' = Latest /\ removing' = {} /\ lastTrack' = lastTrack
    BY <2>1, <2>3 DEF mTrackMask
  <2> QED BY <1>2, <2>2, <2>3, CallsPushLemma
<1>3. CASE PushStep
  <2>1. /\ UNCHANGED <<mAck, block, npc, removing, released, lastTrack>>
        /\ At(mAck)' = At(mAck) /\ Latest' = Latest
        /\ \/ mNext' = mNext /\ At(mNext)' = At(mNext)
           \/ At(mNext)' = Latest
    BY <1>3, PushStepLemma DEF normalVars
  <2>2. CASE mNext' = mNext /\ At(mNext)' = At(mNext)
    BY <2>1, <2>2 DEF mTrackMask
  <2>3. CASE At(mNext)' = Latest
    BY <2>1, <2>3 DEF mTrackMask
  <2> QED BY <2>1, <2>2, <2>3
<1>4. CASE PushReturn
  <2>1. /\ npc = "push" /\ mpc = "idle" /\ released' = released \cup removing /\ removing' = {}
        /\ lastTrack' = lastTrack
    BY <1>4 DEF PushReturn
  <2>2. /\ UNCHANGED <<mNext, mAck>> /\ At(mNext)' = At(mNext) /\ At(mAck)' = At(mAck)
        /\ Latest' = Latest
    BY <1>4, QuietLemma
  <2> QED BY <2>1, <2>2, ReturnLemma DEF mTrackMask
<1>5. CASE \/ Join \/ RunFastMixer \/ PollSame \/ Adopt \/ ColdIdle \/ FutexWait
           \/ SpuriousWake \/ ColdDone \/ OnStateChange \/ OnWork \/ UNCHANGED vars
  <2>1. /\ UNCHANGED <<removing, released, lastTrack>>
        /\ npc' = npc \/ npc # "push"
    BY <1>5 DEF Join, RunFastMixer, PollSame, Adopt, ColdIdle, FutexWait, SpuriousWake, ColdDone,
       OnStateChange, OnWork, vars, normalVars
  <2>2. /\ UNCHANGED <<mNext, mAck, block>> /\ At(mNext)' = At(mNext) /\ At(mAck)' = At(mAck)
        /\ Latest' = Latest
    BY <1>5, QuietLemma
  <2> QED BY <2>1, <2>2 DEF mTrackMask
<1> QED BY <1>1, <1>2, <1>3, <1>4, <1>5, NextCases

\* Types are kept.
LEMMA TypeStep ==
    ASSUME IInv, [Next]_vars
    PROVE  TypeOK'
<1> USE DEF TypeOK
<1>1. TypeOK
  BY DEF IInv
<1>2. /\ Deref(current) \in FastMixerStates /\ Latest \in FastMixerStates
      /\ Deref(current).mColdGen \in Nat /\ Deref(current).mFastTracksGen \in Nat
      /\ Deref(current).mBufferProvider \in [FastTracks -> Nat]
      /\ Deref(current).mGeneration \in [FastTracks -> Nat]
  BY ViewLemma DEF IInv, FastMixerStates
<1>3. CASE PollStep
  <2>1. /\ UNCHANGED <<mStates, mNext, mMutating, mExpecting, mpc, block>>
        /\ UNCHANGED <<current, prior, mPreIdle, mColdGen, expected, mixerVars, normalVars,
                       mFastMixerFutex>>
        /\ mAck' \in {mAck, mNext} /\ mCurrent' \in {mCurrent, mAck}
    BY <1>3, PollLemma
  <2>2. fpc' \in {"poll", "adopt"} /\ opc' \in {"use", "ack", "shift"}
        /\ {next', previous'} \subseteq SQ!Slots \cup {SQ!NULL}
    BY <1>1, <1>3 DEF PollStep, SQ!Poll, SQ!PollLoad, SQ!PollAck, SQ!PollReturn
  <2> QED BY <1>1, <2>1, <2>2 DEF mixerVars, normalVars
<1>4. CASE CallsPush
  <2>1. /\ UNCHANGED <<mNext, mAck, mCurrent, mMutating, mExpecting, opc, next, previous>>
        /\ UNCHANGED <<mPreIdle, mColdGen, expected, mixerVars, released>>
        /\ npc' = "push" /\ fpc' \in {fpc, "awake"}
        /\ lastTrack' \in Nat /\ lastTrack' >= lastTrack
        /\ removing' \subseteq 1 .. lastTrack /\ mFastMixerFutex' \in Int
    BY <1>4, CallsPushLemma DEF CallsPush
  <2>2. mpc' \in {"prior", "idle"} /\ block' \in SQ!Blocks
    BY <1>4, CallsPushLemma DEF GoodWrite
  <2>3. mStates' \in [SQ!Slots -> FastMixerStates]
    <3>1. CASE \E s, b : GoodWrite(s, b) /\ mStates' = [mStates EXCEPT ![mMutating] = s]
      BY <1>1, <3>1 DEF GoodWrite
    <3>2. CASE UNCHANGED mStates
      BY <1>1, <3>2
    <3> QED BY <1>4, <3>1, <3>2, CallsPushLemma
  <2>4. removing' \cup released' \subseteq 1 .. lastTrack'
    <3>1. lastTrack \in Nat /\ removing' \cup released' \subseteq 1 .. lastTrack
      BY <1>1, <2>1
    <3>2. 1 .. lastTrack \subseteq 1 .. lastTrack'
      BY <2>1, <3>1
    <3> QED BY <3>1, <3>2, Zenon
  <2> QED BY <1>1, <2>1, <2>2, <2>3, <2>4 DEF mixerVars
<1>5. CASE PushStep
  <2>1. UNCHANGED <<mAck, mCurrent, opc, next, previous, block, fastVars, normalVars, mFastMixerFutex>>
    BY <1>5, PushStepLemma DEF PushStep
  <2>2. /\ mStates' \in [SQ!Slots -> FastMixerStates]
        /\ {mNext', mExpecting'} \subseteq SQ!Slots \cup {SQ!NULL} /\ mMutating' \in SQ!Slots
        /\ mpc' \in {"idle", "prior", "publish", "copy", "acked"}
    <3>1. CASE SQ!PriorAcked \/ SQ!PushFails \/ SQ!PushAcked
      BY <1>1, <3>1 DEF SQ!PriorAcked, SQ!PushFails, SQ!PushAcked, SQ!mutationVars
    <3>2. CASE SQ!Publish
      BY <1>1, <3>2, SlotLemma DEF SQ!Publish
    <3>3. CASE SQ!Copy
      <4>1. mExpecting \in SQ!Slots
        BY <1>1, <3>3 DEF SQ!Copy, IInv, SQ!PointerOrder
      <4> QED BY <1>1, <3>3, <4>1 DEF SQ!Copy
    <3> QED BY <1>5, <3>1, <3>2, <3>3 DEF PushStep, SQ!PushStep
  <2> QED BY <1>1, <2>1, <2>2 DEF fastVars, mixerVars, normalVars
<1>6. CASE PushReturn \/ Join
  BY <1>1, <1>6 DEF PushReturn, Join, queueVars, fastVars, mixerVars
<1>7. CASE Adopt
  <2>1. /\ UNCHANGED <<queueVars, mColdGen, expected, mixerVars, normalVars, mFastMixerFutex>>
        /\ mPreIdle' \in {mPreIdle, Deref(current)}
    BY <1>7 DEF Adopt
  <2>2. fpc' \in {"cold", "exited", "change"}
    BY <1>7, AdoptLemma, DispatchLemma
  <2> QED BY <1>1, <1>2, <2>1, <2>2 DEF queueVars, mixerVars, normalVars
<1>8. CASE PollSame
  <2>1. /\ UNCHANGED <<queueVars, mPreIdle, mColdGen, expected, mixerVars, normalVars,
                       mFastMixerFutex>>
    BY <1>8 DEF PollSame
  <2>2. fpc' \in {"cold", "exited", "change"}
    BY <1>8, PollSameLemma, DispatchLemma
  <2> QED BY <1>1, <2>1, <2>2 DEF queueVars, mixerVars, normalVars
<1>9. CASE OnStateChange
  <2>1. /\ UNCHANGED <<queueVars, mPreIdle, mColdGen, expected, normalVars, mFastMixerFutex>>
        /\ fpc' = "work"
    BY <1>9 DEF OnStateChange
  <2>2. mGenerations' \in [FastTracks -> Nat]
    BY <1>1, <1>2, <1>9 DEF OnStateChange, mixerVars
  <2>3. mixer' \in [FastTracks -> Nat] /\ mFastTracksGen' \in Nat
    BY <1>2, <1>9, ChangeLemma
  <2> QED BY <1>1, <2>1, <2>2, <2>3 DEF queueVars, normalVars
<1>10. CASE RunFastMixer \/ FutexWait \/ SpuriousWake \/ ColdDone \/ OnWork
  <2>1. /\ UNCHANGED <<queueVars, mPreIdle, expected, mixerVars, normalVars, mFastMixerFutex>>
        /\ fpc' \in {"poll", "asleep", "awake"} /\ mColdGen' \in {mColdGen, Deref(current).mColdGen}
    BY <1>10 DEF RunFastMixer, FutexWait, SpuriousWake, ColdDone, OnWork
  <2> QED BY <1>1, <1>2, <2>1 DEF queueVars, mixerVars, normalVars
<1>11. CASE ColdIdle
  <2>1. /\ UNCHANGED <<queueVars, mPreIdle, mColdGen, mixerVars, normalVars>>
        /\ fpc' \in {"poll", "wait", "awake"} /\ {expected', mFastMixerFutex'} \subseteq Int
    BY <1>1, <1>11 DEF ColdIdle
  <2> QED BY <1>1, <2>1 DEF queueVars, mixerVars, normalVars
<1>12. CASE UNCHANGED vars
  BY <1>1, <1>12 DEF vars, queueVars, fastVars, mixerVars, normalVars
<1> QED BY <1>3, <1>4, <1>5, <1>6, <1>7, <1>8, <1>9, <1>10, <1>11, <1>12, NextCases

-----------------------------------------------------------------------------
(* The theorems.                                                           *)

\* Before the constructor pushes a state, everybody sees sInitial.
LEMMA InitLemma ==
    ASSUME Init
    PROVE  IInv
<1> USE DEF Init, SQ!Init
<1>1. TypeOK
  BY SlotLemma, InitialLemma DEF TypeOK, SQ!Blocks, None
<1>2. SQ!PointerOrder
  BY SlotLemma DEF SQ!PointerOrder
<1>3. Pushing
  BY DEF Pushing
<1>4. /\ Latest = sInitial /\ At(mNext) = sInitial /\ At(mAck) = sInitial /\ At(mCurrent) = sInitial
      /\ Deref(current) = sInitial /\ Deref(prior) = sInitial
  BY SlotLemma DEF Latest, Mutating, At, Deref
<1>5. Pointers
  BY <1>4, InitialLemma DEF Pointers, Pointer
<1>6. Commands
  BY <1>4 DEF Commands
<1>7. InStandby
  BY <1>4, InitialLemma DEF InStandby
<1>8. InOrder
  BY <1>4, InitialLemma, BeforeReflexive DEF InOrder
<1>9. Synced
  BY <1>4 DEF Synced, sInitial
<1>10. Tracks
  BY <1>4, InitialLemma DEF Tracks, mTrackMask, None
<1> QED BY <1>1, <1>2, <1>3, <1>5, <1>6, <1>7, <1>8, <1>9, <1>10 DEF IInv

\* The invariant of the fast mixer and of the normal mixer that drives it: where
\* their pointers are, that states are seen in the order they were written, that
\* the AudioMixer is that of the state onStateChange() processed last, and which
\* states a removed track can still be in.
THEOREM Invariance == Spec => []IInv
<1>1. IInv /\ [Next]_vars => IInv'
  <2> SUFFICES ASSUME IInv, [Next]_vars PROVE IInv'
    OBVIOUS
  <2>1. TypeOK' /\ SQ!PointerOrder' /\ Pushing' /\ Pointers'
    BY TypeStep, OrderStep, PushingStep, PointersStep
  <2>2. Commands' /\ InStandby' /\ InOrder' /\ Synced' /\ Tracks'
    BY CommandsStep, StandbyStep, InOrderStep, SyncedStep, TracksStep
  <2> QED BY <2>1, <2>2 DEF IInv
<1> QED BY <1>1, InitLemma, PTL DEF Spec

\* When the fast thread changes the AudioMixer or mixes, the state it works from is
\* the one it acknowledged last, and it is not an idle one.
LEMMA WorkLemma ==
    ASSUME IInv, fpc \in {"change", "work"}
    PROVE  /\ Deref(current) = At(mAck) /\ mAck # SQ!NULL
           /\ At(mAck).mCommand = "MIX_WRITE"
<1>1. /\ opc = "use" /\ current = Pointer(mCurrent) /\ mCurrent = mAck
      /\ Deref(current).mCommand = "MIX_WRITE"
  BY DEF IInv, Pointers, Commands, SQ!PointerOrder, TypeOK
<1>2. Deref(current) = At(mAck)
  BY <1>1, PointerLemma DEF IInv, TypeOK
<1>3. mAck # SQ!NULL
  BY <1>1, <1>2, InitialLemma DEF At
<1> QED BY <1>1, <1>2, <1>3

\* "we need it to stop doing I/O now": for any number of slots and tracks, once
\* threadLoop_standby() has returned from its push(BLOCK_UNTIL_ACKED), the fast mixer
\* does not work until threadLoop_write(), although prepareTracks_l() goes on pushing
\* with BLOCK_NEVER meanwhile.
THEOREM StandbyIsStill == Spec => []NoWorkInStandby
<1>1. IInv => NoWorkInStandby
  <2> SUFFICES ASSUME IInv, npc = "cycle", Mutating.mCommand = "COLD_IDLE"
               PROVE  fpc \notin {"change", "work"}
    BY DEF NoWorkInStandby
  <2>1. mpc = "idle" /\ Latest = Mutating
    BY DEF IInv, Pushing, Latest
  <2>2. mAck # SQ!NULL => At(mAck).mCommand = "COLD_IDLE"
    BY <2>1 DEF IInv, InStandby
  <2> QED BY <2>2, WorkLemma
<1> QED BY <1>1, Invariance, PTL

\* The AudioMixer of the fast thread has exactly the tracks of the state it mixes
\* from: onStateChange() may compare with a state from long before, idle states and
\* squashed changes in between.
THEOREM MixerFollows == Spec => []MixerMatchesState
<1>1. IInv => MixerMatchesState
  <2> SUFFICES ASSUME IInv, fpc = "work"
               PROVE  ~fatal /\ mixer = Deref(current).mBufferProvider
    BY DEF MixerMatchesState
  <2>1. Deref(current).mCommand = "MIX_WRITE"
    BY DEF IInv, Commands
  <2>2. prior = current
    BY <2>1 DEF IInv, Pointers
  <2> QED BY <2>2 DEF IInv, Synced
<1> QED BY <1>1, Invariance, PTL

\* "we must wait for acknowledgement because we're about to decrement the last sp<> on
\* those tracks": the fast mixer never mixes from a track that prepareTracks_l() has
\* let go of, nor does the state it works from name one.
THEOREM TracksAreAlive == Spec => []NoUseAfterRelease
<1>1. IInv => NoUseAfterRelease
  <2> SUFFICES ASSUME IInv, fpc = "work", NEW j \in FastTracks
               PROVE  mixer[j] \notin released /\ Deref(current).mBufferProvider[j] \notin released
    BY DEF NoUseAfterRelease
  <2>1. Deref(current) = At(mAck) /\ mAck # SQ!NULL /\ At(mAck).mCommand = "MIX_WRITE"
    BY WorkLemma
  <2>2. At(mAck).mBufferProvider[j] \notin released
    BY <2>1 DEF IInv, Tracks
  <2>3. prior = current
    BY <2>1 DEF IInv, Pointers
  <2>4. mixer = Deref(current).mBufferProvider
    BY <2>3 DEF IInv, Synced
  <2> QED BY <2>1, <2>2, <2>4
<1> QED BY <1>1, Invariance, PTL
=============================================================================
