-------------------------- MODULE BufferPoolLemmas --------------------------
(***************************************************************************)
(* What the handlers of the pool and the methods of a client do to the     *)
(* parts of the invariant of BufferPoolInv.                                *)
(***************************************************************************)
EXTENDS BufferPoolInv, FiniteSetTheorems, WellFoundedInduction, TLAPS

-----------------------------------------------------------------------------
(* What a step of the pool changes and what not.                           *)

\* What concerns the buffers themselves, their users and transfers, invalidations.
SameBuffers(p, q) ==
    /\ q.mBuffers = p.mBuffers /\ q.mInvalidated = p.mInvalidated
    /\ q.mFreeBuffers = p.mFreeBuffers

SameCounts(p, q) ==
    /\ q.mOwnerCount = p.mOwnerCount /\ q.mTransactionCount = p.mTransactionCount

SameUse(p, q) ==
    /\ q.mUsingBuffers = p.mUsingBuffers /\ q.mUsingConnections = p.mUsingConnections

SameTransfers(p, q) ==
    /\ q.mTransactions = p.mTransactions /\ q.mPendingTransactions = p.mPendingTransactions
    /\ q.mCompletedTransactions = p.mCompletedTransactions

SameIds(p, q) ==
    q.mSeq = p.mSeq /\ q.mStartSeq = p.mStartSeq /\ q.allocations = p.allocations

SameInvalidation(p, q) ==
    /\ q.mPendings = p.mPendings /\ q.mInvalidationId = p.mInvalidationId
    /\ q.mAcks = p.mAcks /\ q.posted = p.posted /\ q.registered = p.registered

\* An invalidation may come of it, if one was pending or the Accessor is on the list.
InvalidationStep(p, q) ==
    /\ q.mAcks = p.mAcks /\ (p.registered => q.registered)
    /\ q.mInvalidationId >= p.mInvalidationId
    /\ q.mPendings # {} \/ q.posted # <<>> => p.mPendings # {} \/ q.registered
    /\ \A i \in 1 .. Len(q.posted) :
        p.mInvalidationId < q.posted[i].id /\ q.posted[i].id <= q.mInvalidationId

\* The pool agrees with itself, except that b may have to be freed.
Almost(p, b) ==
    /\ p \in Pools /\ ~p.crashed
    /\ Counts(p) /\ FreeUnless(p, {b}) /\ Named(p) /\ Ids(p) /\ Ranges(p)
    /\ b \in p.mBuffers /\ b \notin p.mFreeBuffers

-----------------------------------------------------------------------------
(* Lists and counts.                                                       *)

\* There are finitely many buffer ids.
LEMMA FiniteIds == IsFiniteSet(BufferIds)
BY FS_Interval, IdsAssumption DEF BufferIds

\* The sets that the pool counts are finite.
LEMMA FiniteParts ==
    ASSUME NEW p \in Pools, NEW b
    PROVE  /\ IsFiniteSet(Owners(p, b)) /\ Cardinality(Owners(p, b)) \in Nat
           /\ IsFiniteSet(Transfers(p, b)) /\ Cardinality(Transfers(p, b)) \in Nat
           /\ \A y : IsFiniteSet(InRange(p, y)) /\ Cardinality(InRange(p, y)) \in Nat
<1>1. Owners(p, b) \in SUBSET Connections /\ Transfers(p, b) \in SUBSET Transactions
    BY DEF Owners, Transfers
<1>2. IsFiniteSet(Owners(p, b)) /\ IsFiniteSet(Transfers(p, b))
    BY <1>1, FS_Subset, ConnectionsAssumption, TransactionsAssumption
<1>3. ASSUME NEW y PROVE IsFiniteSet(InRange(p, y))
  <2>1. InRange(p, y) \in SUBSET BufferIds
    BY DEF InRange, Pools
  <2> QED BY <2>1, FiniteIds, FS_Subset
<1> QED BY <1>2, <1>3, FS_CardinalityType

\* SetToSeq lists a finite set.
LEMMA SetToSeqLists ==
    ASSUME NEW X, IsFiniteSet(X)
    PROVE  /\ SetToSeq(X) \in [1 .. Cardinality(X) -> X]
           /\ SetToSeq(X) \in Seq(X) /\ Len(SetToSeq(X)) = Cardinality(X)
<1>1. Cardinality(X) \in Nat /\ ExistsBijection(1 .. Cardinality(X), X)
    BY FS_CardinalityType
<1>2. PICK f \in [1 .. Cardinality(X) -> X] : IsInjective(f)
    BY <1>1 DEF ExistsBijection, Bijection, Injection, IsInjective
<1>3. SetToSeq(X) \in [1 .. Cardinality(X) -> X]
    BY <1>2 DEF SetToSeq
<1> QED BY <1>1, <1>3

-----------------------------------------------------------------------------
(* The handlers keep the pool consistent.                                  *)

\* erase() of buffers changes nothing else.
LEMMA EraseBuffersFields ==
    ASSUME NEW p \in Pools, NEW bs \in SUBSET BufferIds
    PROVE  LET q == EraseBuffers(p, bs) IN
           /\ q \in Pools
           /\ q.mBuffers = p.mBuffers \ bs /\ q.mFreeBuffers = p.mFreeBuffers \ bs
           /\ q.mInvalidated = p.mInvalidated \ bs
           /\ SameCounts(p, q) /\ SameUse(p, q) /\ SameTransfers(p, q) /\ SameIds(p, q)
           /\ SameInvalidation(p, q)
           /\ q.mConnectionIds = p.mConnectionIds /\ q.crashed = p.crashed
BY DEF EraseBuffers, Pools, SameCounts, SameUse, SameTransfers, SameIds, SameInvalidation

\* onBufferInvalidated(): the ids of what is posted are new.
LEMMA OnBufferInvalidatedFields ==
    ASSUME NEW p \in Pools, NEW b \in BufferIds, IsFiniteSet(p.mPendings)
    PROVE  LET q == OnBufferInvalidated(p, b) IN
           /\ q \in Pools /\ IsFiniteSet(q.mPendings)
           /\ SameBuffers(p, q) /\ SameCounts(p, q) /\ SameUse(p, q) /\ SameTransfers(p, q)
           /\ SameIds(p, q) /\ InvalidationStep(p, q)
           /\ q.mConnectionIds = p.mConnectionIds /\ q.crashed = p.crashed
           /\ \A z \in q.mPendings : \E y \in p.mPendings :
                /\ z.from = y.from /\ z.to = y.to
                /\ z.left = IF IsBufferInRange(y.from, y.to, b) THEN y.left - 1 ELSE y.left
<1> DEFINE One(y) == IF IsBufferInRange(y.from, y.to, b) THEN [y EXCEPT !.left = @ - 1] ELSE y
           counted == {One(y) : y \in p.mPendings}
           ends == {y \in counted : y.left = 0}
           over == SetToSeq(ends)
           posted == [i \in 1 .. Len(over) |->
                        [id |-> p.mInvalidationId + i, from |-> over[i].from, to |-> over[i].to]]
           q == OnBufferInvalidated(p, b)
<1>1. \A y \in p.mPendings : One(y) \in PendingRanges
  <2>1. \A y \in p.mPendings : y \in PendingRanges
    BY DEF Pools
  <2> QED BY <2>1 DEF PendingRanges
<1>2. counted \in SUBSET PendingRanges
    BY <1>1
<1>3. IsFiniteSet(counted)
  <2> DEFINE f == [y \in p.mPendings |-> One(y)]
  <2>1. f \in Surjection(p.mPendings, counted)
    BY DEF Surjection
  <2> QED BY <2>1, FS_Surjection
<1>4. IsFiniteSet(ends) /\ IsFiniteSet({y \in counted : y.left # 0})
    BY <1>3, FS_Subset
<1>5. over \in Seq(ends) /\ Len(over) \in Nat /\ \A i \in 1 .. Len(over) : over[i] \in ends
  <2> HIDE DEF ends
  <2> QED BY <1>4, SetToSeqLists, FS_CardinalityType
<1>6. /\ posted \in Seq(Invalidations) /\ Len(posted) = Len(over)
      /\ \A i \in 1 .. Len(posted) : posted[i].id = p.mInvalidationId + i
  <2> HIDE DEF over, counted
  <2>1. p.mInvalidationId \in Nat
    BY DEF Pools
  <2>2. \A i \in 1 .. Len(over) : over[i].from \in BufferIds /\ over[i].to \in BufferIds
    BY <1>2, <1>5 DEF PendingRanges
  <2>3. \A i \in 1 .. Len(over) :
            /\ [id |-> p.mInvalidationId + i, from |-> over[i].from, to |-> over[i].to] \in Invalidations
            /\ posted[i].id = p.mInvalidationId + i
    BY <2>1, <2>2, <1>5 DEF Invalidations
  <2>4. Len(posted) = Len(over)
    BY <1>5
  <2> QED BY <2>3, <2>4, <1>5
<1>7. q = [p EXCEPT !.mPendings = {y \in counted : y.left # 0},
                    !.mInvalidationId = p.mInvalidationId + Len(over), !.posted = posted]
    BY DEF OnBufferInvalidated
<1>8. /\ q.mPendings = {y \in counted : y.left # 0} /\ q.posted = posted
      /\ q.mInvalidationId = p.mInvalidationId + Len(over) /\ q.mInvalidationId \in Nat
  <2> HIDE DEF counted, posted, over, q
  <2> QED BY <1>5, <1>7 DEF Pools
<1>9. q \in Pools /\ SameBuffers(p, q) /\ SameCounts(p, q) /\ SameUse(p, q) /\ SameTransfers(p, q)
      /\ SameIds(p, q) /\ q.mConnectionIds = p.mConnectionIds /\ q.crashed = p.crashed
      /\ q.mAcks = p.mAcks /\ q.registered = p.registered
  <2> HIDE DEF counted, posted, over, q
  <2>1. {y \in counted : y.left # 0} \in SUBSET PendingRanges
    BY <1>2
  <2>2. p.mInvalidationId + Len(over) \in Nat
    BY <1>8, <1>5
  <2>3. posted \in Seq(Invalidations)
    BY <1>6
  <2>4. q \in Pools
    BY <1>7, <2>1, <2>2, <2>3 DEF Pools
  <2> QED BY <1>7, <2>4, ZenonT(30)
          DEF Pools, SameBuffers, SameCounts, SameUse, SameTransfers, SameIds
<1>10. \A z \in q.mPendings : \E y \in p.mPendings :
                /\ z.from = y.from /\ z.to = y.to
                /\ z.left = IF IsBufferInRange(y.from, y.to, b) THEN y.left - 1 ELSE y.left
  <2>1. ASSUME NEW y \in p.mPendings
        PROVE  /\ One(y).from = y.from /\ One(y).to = y.to
               /\ One(y).left = IF IsBufferInRange(y.from, y.to, b) THEN y.left - 1 ELSE y.left
    BY DEF Pools, PendingRanges
  <2> QED BY <1>8, <2>1
<1>11. q.mPendings # {} \/ q.posted # <<>> => p.mPendings # {}
  <2>1. p.mPendings = {} => counted = {} /\ ends = {}
    OBVIOUS
  <2>2. p.mPendings = {} => Len(over) = 0
    BY <2>1, <1>5
  <2> HIDE DEF counted, over
  <2> QED BY <2>1, <2>2, <1>6, <1>8
<1>12. InvalidationStep(p, q)
  <2> HIDE DEF counted, posted, over, q
  <2>1. p.mInvalidationId \in Nat
    BY DEF Pools
  <2> QED BY <2>1, <1>5, <1>6, <1>8, <1>9, <1>11 DEF InvalidationStep
<1>13. IsFiniteSet(q.mPendings)
    BY <1>4, <1>8
<1> HIDE DEF q
<1> QED BY <1>9, <1>10, <1>12, <1>13 DEF q

\* What a change of the pool does to parts of Consistent.
LEMMA EraseConsistent ==
    ASSUME NEW p, Consistent(p), NEW bs \in SUBSET p.mFreeBuffers
    PROVE  Consistent(EraseBuffers(p, bs))
<1> DEFINE q == EraseBuffers(p, bs)
<1>1. p \in Pools /\ bs \in SUBSET BufferIds
    BY DEF Consistent, Pools
<1>2. /\ q \in Pools
      /\ q.mBuffers = p.mBuffers \ bs /\ q.mFreeBuffers = p.mFreeBuffers \ bs
      /\ q.mInvalidated = p.mInvalidated \ bs
      /\ SameCounts(p, q) /\ SameUse(p, q) /\ SameTransfers(p, q) /\ SameIds(p, q)
      /\ SameInvalidation(p, q)
      /\ q.mConnectionIds = p.mConnectionIds /\ q.crashed = p.crashed
    BY <1>1, EraseBuffersFields
<1> HIDE DEF q
<1> USE DEF Consistent
<1>3. \A b : Owners(q, b) = Owners(p, b) /\ Transfers(q, b) = Transfers(p, b)
    BY <1>2 DEF Owners, Transfers, Known, SameUse, SameTransfers
<1>4. Counts(q)
    BY <1>2, <1>3 DEF Counts, SameCounts
<1>5. FreeUnless(q, {})
    BY <1>2 DEF FreeUnless, SameCounts
<1>6. \A b \in bs : Owners(p, b) = {} /\ Transfers(p, b) = {}
  <2> TAKE b \in bs
  <2>1. b \in BufferIds /\ b \in p.mBuffers
    BY <1>1 DEF Named
  <2>2. Cardinality(Owners(p, b)) = 0 /\ Cardinality(Transfers(p, b)) = 0
    BY <2>1 DEF FreeUnless, Counts
  <2> QED BY <2>2, <1>1, FiniteParts, FS_EmptySet
<1>7. Named(q)
  <2>1. q.mUsingBuffers \subseteq q.mConnectionIds \X q.mBuffers
    BY <1>2, <1>6, <1>1 DEF Named, SameUse, Owners, Pools
  <2>2. \A t \in Transactions : Known(q, t) => q.mTransactions[t].mBufferId \in q.mBuffers
    BY <1>2, <1>6 DEF Named, SameTransfers, Transfers, Known
  <2> QED BY <2>1, <2>2, <1>2 DEF Named, SameUse
<1>8. Ids(q)
    BY <1>2 DEF Ids, SameIds
<1>9. Ranges(q)
  <2>1. \A y \in p.mPendings : InRange(q, y) = InRange(p, y)
    BY <1>2 DEF InRange, Ranges, Named
  <2> QED BY <2>1, <1>2 DEF Ranges, SameIds, SameInvalidation, InRange, Named
<1> QED BY <1>2, <1>4, <1>5, <1>7, <1>8, <1>9 DEF q

\* A step that leaves the Invalidation alone is an InvalidationStep.
LEMMA NoInvalidation ==
    ASSUME NEW p \in Pools, NEW q, SameInvalidation(p, q), p.posted = <<>>
    PROVE  InvalidationStep(p, q)
<1>1. p.mInvalidationId \in Nat /\ q.posted = <<>> /\ Len(q.posted) = 0
    BY DEF Pools, SameInvalidation
<1> QED BY <1>1 DEF InvalidationStep, SameInvalidation

\* A buffer is put on mFreeBuffers, and nothing else changes.
LEMMA FreeFields ==
    ASSUME NEW p \in Pools, NEW b \in BufferIds
    PROVE  LET q == [p EXCEPT !.mFreeBuffers = @ \cup {b}] IN
           /\ q \in Pools /\ q.mFreeBuffers = p.mFreeBuffers \cup {b}
           /\ q.mBuffers = p.mBuffers /\ q.mInvalidated = p.mInvalidated
           /\ SameCounts(p, q) /\ SameUse(p, q) /\ SameTransfers(p, q) /\ SameIds(p, q)
           /\ SameInvalidation(p, q) /\ q.mConnectionIds = p.mConnectionIds /\ q.crashed = p.crashed
BY DEF Pools, SameCounts, SameUse, SameTransfers, SameIds, SameInvalidation

\* A buffer without owner and transaction is freed or goes.
LEMMA FreeConsistent ==
    ASSUME NEW p, NEW b, Almost(p, b)
    PROVE  LET q == FreeIfUnused(p, b) IN
           /\ Consistent(q)
           /\ SameUse(p, q) /\ SameTransfers(p, q) /\ q.mConnectionIds = p.mConnectionIds
           /\ p.posted = <<>> => InvalidationStep(p, q)
<1> DEFINE q == FreeIfUnused(p, b)
<1> USE DEF Almost, Consistent
<1>1. p \in Pools /\ b \in BufferIds
    BY DEF Pools
<1>2. CASE p.mOwnerCount[b] # 0 \/ p.mTransactionCount[b] # 0
  <2>1. q = p
    BY <1>2 DEF FreeIfUnused
  <2>2. FreeUnless(p, {})
    BY <1>2 DEF FreeUnless
  <2>3. p.posted = <<>> => InvalidationStep(p, p)
    BY <1>1 DEF InvalidationStep, Pools
  <2> QED BY <2>1, <2>2, <2>3 DEF SameUse, SameTransfers
<1>3. CASE ~(p.mOwnerCount[b] # 0 \/ p.mTransactionCount[b] # 0) /\ b \notin p.mInvalidated
  <2>1. q = [p EXCEPT !.mFreeBuffers = @ \cup {b}]
    BY <1>3 DEF FreeIfUnused
  <2>2. /\ q \in Pools /\ q.mFreeBuffers = p.mFreeBuffers \cup {b}
        /\ q.mBuffers = p.mBuffers /\ q.mInvalidated = p.mInvalidated
        /\ SameCounts(p, q) /\ SameUse(p, q) /\ SameTransfers(p, q) /\ SameIds(p, q)
        /\ SameInvalidation(p, q) /\ q.mConnectionIds = p.mConnectionIds /\ q.crashed = p.crashed
    BY <2>1, <1>1, FreeFields
  <2> HIDE DEF q
  <2>3. \A d : Owners(q, d) = Owners(p, d) /\ Transfers(q, d) = Transfers(p, d)
    BY <2>2 DEF Owners, Transfers, Known, SameUse, SameTransfers
  <2>4. Counts(q)
    BY <2>2, <2>3 DEF Counts, SameCounts
  <2>5. FreeUnless(q, {})
    BY <2>2, <1>3 DEF FreeUnless, SameCounts
  <2>6. Named(q)
    BY <2>2, <1>3 DEF Named, SameUse, SameTransfers, Known
  <2>7. Ids(q)
    BY <2>2 DEF Ids, SameIds
  <2>8. Ranges(q)
    BY <2>2 DEF Ranges, SameIds, SameInvalidation, InRange
  <2>9. p.posted = <<>> => InvalidationStep(p, q)
    BY <2>2, <1>1, NoInvalidation
  <2> QED BY <2>2, <2>4, <2>5, <2>6, <2>7, <2>8, <2>9 DEF q
<1>4. CASE ~(p.mOwnerCount[b] # 0 \/ p.mTransactionCount[b] # 0) /\ b \in p.mInvalidated
  <2> DEFINE r == EraseBuffers(p, {b})
  <2>1. q = OnBufferInvalidated(r, b)
    BY <1>4 DEF FreeIfUnused
  <2>2. /\ r \in Pools
        /\ r.mBuffers = p.mBuffers \ {b} /\ r.mFreeBuffers = p.mFreeBuffers \ {b}
        /\ r.mInvalidated = p.mInvalidated \ {b}
        /\ SameCounts(p, r) /\ SameUse(p, r) /\ SameTransfers(p, r) /\ SameIds(p, r)
        /\ SameInvalidation(p, r)
        /\ r.mConnectionIds = p.mConnectionIds /\ r.crashed = p.crashed
    BY <1>1, EraseBuffersFields
  <2> HIDE DEF r, q
  <2>3. IsFiniteSet(r.mPendings)
    BY <2>2 DEF Ranges, SameInvalidation
  <2>4. /\ q \in Pools /\ IsFiniteSet(q.mPendings)
        /\ SameBuffers(r, q) /\ SameCounts(r, q) /\ SameUse(r, q) /\ SameTransfers(r, q)
        /\ SameIds(r, q) /\ InvalidationStep(r, q)
        /\ q.mConnectionIds = r.mConnectionIds /\ q.crashed = r.crashed
        /\ \A z \in q.mPendings : \E y \in r.mPendings :
            /\ z.from = y.from /\ z.to = y.to
            /\ z.left = IF IsBufferInRange(y.from, y.to, b) THEN y.left - 1 ELSE y.left
    BY <2>1, <2>2, <2>3, <1>1, OnBufferInvalidatedFields
  <2>5. SameUse(p, q) /\ SameTransfers(p, q) /\ SameCounts(p, q) /\ SameIds(p, q)
    BY <2>2, <2>4 DEF SameUse, SameTransfers, SameCounts, SameIds
  <2>6. InvalidationStep(p, q)
    BY <2>2, <2>4 DEF InvalidationStep, SameInvalidation
  <2>7. /\ q.mBuffers = p.mBuffers \ {b} /\ q.mFreeBuffers = p.mFreeBuffers
        /\ q.mInvalidated = p.mInvalidated \ {b} /\ q.mConnectionIds = p.mConnectionIds
    BY <2>2, <2>4 DEF SameBuffers
  <2>8. Owners(p, b) = {} /\ Transfers(p, b) = {}
    <3>1. Cardinality(Owners(p, b)) = 0 /\ Cardinality(Transfers(p, b)) = 0
      BY <1>1, <1>4 DEF Counts
    <3> QED BY <3>1, <1>1, FiniteParts, FS_EmptySet
  <2>9. \A d : Owners(q, d) = Owners(p, d) /\ Transfers(q, d) = Transfers(p, d)
    BY <2>5 DEF Owners, Transfers, Known, SameUse, SameTransfers
  <2>10. Counts(q)
    BY <2>5, <2>9 DEF Counts, SameCounts
  <2>11. FreeUnless(q, {})
    BY <2>5, <2>7 DEF FreeUnless, SameCounts
  <2>12. Named(q)
    <3>1. q.mUsingBuffers \subseteq q.mConnectionIds \X q.mBuffers
      BY <2>5, <2>7, <2>8, <1>1 DEF Named, SameUse, Owners, Pools
    <3>2. \A t \in Transactions : Known(q, t) => q.mTransactions[t].mBufferId \in q.mBuffers
      BY <2>5, <2>7, <2>8 DEF Named, SameTransfers, Transfers, Known
    <3> QED BY <3>1, <3>2, <2>5, <2>7 DEF Named, SameUse
  <2>13. Ids(q)
    BY <2>5, <2>7 DEF Ids, SameIds
  <2>14. Ranges(q)
    <3>1. \A y : InRange(q, y) = InRange(p, y) \ {b}
      BY <2>7 DEF InRange
    <3>2. \A y : Cardinality(InRange(q, y)) =
                    IF b \in InRange(p, y) THEN Cardinality(InRange(p, y)) - 1
                    ELSE Cardinality(InRange(p, y))
      BY <3>1, <1>1, FiniteParts, FS_RemoveElement
    <3>3. ASSUME NEW z \in q.mPendings
          PROVE  /\ Off(z.from) < Off(z.to) /\ Off(z.to) <= q.allocations
                 /\ z.left = Cardinality(InRange(q, z))
                 /\ InRange(q, z) \subseteq q.mInvalidated
      <4>1. PICK y \in p.mPendings :
                /\ z.from = y.from /\ z.to = y.to
                /\ z.left = IF IsBufferInRange(y.from, y.to, b) THEN y.left - 1 ELSE y.left
        BY <2>2, <2>4 DEF SameInvalidation
      <4>2. InRange(p, z) = InRange(p, y)
        BY <4>1 DEF InRange
      <4>3. b \in InRange(p, y) <=> IsBufferInRange(y.from, y.to, b)
        BY DEF InRange
      <4>4. z.left = Cardinality(InRange(q, z))
        BY <4>1, <4>2, <4>3, <3>2 DEF Ranges
      <4>5. Off(z.from) < Off(z.to) /\ Off(z.to) <= q.allocations
        BY <4>1, <2>5 DEF Ranges, SameIds
      <4>6. InRange(q, z) \subseteq q.mInvalidated
        BY <4>2, <3>1, <2>7 DEF Ranges
      <4> QED BY <4>4, <4>5, <4>6
    <3> QED BY <3>3, <2>4 DEF Ranges
  <2> QED BY <2>2, <2>4, <2>5, <2>6, <2>7, <2>10, <2>11, <2>12, <2>13, <2>14 DEF q
<1> QED BY <1>2, <1>3, <1>4

\* Changes that Consistent does not see.
LEMMA CopyConsistent ==
    ASSUME NEW p, Consistent(p), NEW q \in Pools,
           SameBuffers(p, q), SameCounts(p, q), SameUse(p, q), SameIds(p, q),
           \A t \in Transactions :
                /\ q.mTransactions[t].mBufferId = p.mTransactions[t].mBufferId
                /\ Known(q, t) <=> Known(p, t),
           q.mPendings = p.mPendings, q.crashed = p.crashed,
           q.mUsingBuffers \subseteq q.mConnectionIds \X BufferIds
    PROVE  Consistent(q)
<1>1. \A b : Owners(q, b) = Owners(p, b) /\ Transfers(q, b) = Transfers(p, b)
    BY DEF Owners, Transfers, SameUse
<1>2. Counts(q)
    BY <1>1 DEF Counts, SameCounts, Consistent
<1>3. FreeUnless(q, {})
    BY DEF FreeUnless, SameBuffers, SameCounts, Consistent
<1>4. Named(q)
  <2>1. q.mUsingBuffers \subseteq q.mConnectionIds \X q.mBuffers
    BY DEF Named, Consistent, SameUse, SameBuffers
  <2> QED BY <2>1 DEF Named, Consistent, SameUse, SameBuffers
<1>5. Ids(q)
    BY DEF Ids, SameIds, SameBuffers, Consistent
<1>6. Ranges(q)
    BY DEF Ranges, InRange, SameIds, SameBuffers, Consistent
<1> QED BY <1>2, <1>3, <1>4, <1>5, <1>6 DEF Consistent

\* What is used or in transfer is not free.
LEMMA BusyNotFree ==
    ASSUME NEW p, Consistent(p), NEW b \in BufferIds,
           \/ \E c \in Connections : <<c, b>> \in p.mUsingBuffers
           \/ \E t \in Transactions : Known(p, t) /\ p.mTransactions[t].mBufferId = b
    PROVE  b \in p.mBuffers \ p.mFreeBuffers /\ Almost(p, b)
<1>1. b \in p.mBuffers
    BY DEF Consistent, Named
<1>2. Owners(p, b) # {} \/ Transfers(p, b) # {}
    BY DEF Owners, Transfers
<1>3. Cardinality(Owners(p, b)) # 0 \/ Cardinality(Transfers(p, b)) # 0
    BY <1>2, FiniteParts, FS_EmptySet DEF Consistent
<1>4. b \notin p.mFreeBuffers
    BY <1>1, <1>3 DEF Consistent, FreeUnless, Counts
<1> QED BY <1>1, <1>4 DEF Consistent, Almost, FreeUnless

\* A buffer that has an owner does not have to be freed.
LEMMA AlmostBusy ==
    ASSUME NEW p, NEW b, Almost(p, b), p.mOwnerCount[b] # 0
    PROVE  Consistent(p)
BY DEF Almost, Consistent, FreeUnless

\* handleOwnBuffer()
LEMMA OwnAlmost ==
    ASSUME NEW p, NEW b, Almost(p, b), NEW c \in p.mConnectionIds
    PROVE  LET q == HandleOwnBuffer(p, c, b) IN
           /\ Almost(q, b) /\ Consistent(q)
           /\ q.mUsingBuffers = p.mUsingBuffers \cup {<<c, b>>}
           /\ SameTransfers(p, q) /\ SameInvalidation(p, q) /\ q.mConnectionIds = p.mConnectionIds
           /\ SameBuffers(p, q)
<1> DEFINE q == HandleOwnBuffer(p, c, b)
<1>1. p \in Pools /\ b \in BufferIds /\ c \in Connections /\ b \in p.mBuffers /\ p.crashed = FALSE
    BY DEF Almost, Pools
<1>2. /\ q \in Pools
      /\ q.mUsingBuffers = p.mUsingBuffers \cup {<<c, b>>}
      /\ q.mUsingConnections = p.mUsingConnections \cup {<<b, c>>}
      /\ q.mOwnerCount = IF <<c, b>> \in p.mUsingBuffers THEN p.mOwnerCount
                         ELSE [p.mOwnerCount EXCEPT ![b] = @ + 1]
      /\ q.mTransactionCount = p.mTransactionCount
      /\ SameBuffers(p, q) /\ SameTransfers(p, q) /\ SameIds(p, q) /\ SameInvalidation(p, q)
      /\ q.mConnectionIds = p.mConnectionIds /\ q.crashed = FALSE
  <2> DEFINE r == [p EXCEPT !.mUsingBuffers = @ \cup {<<c, b>>},
                            !.mUsingConnections = @ \cup {<<b, c>>}]
  <2>3. /\ p.mUsingBuffers \cup {<<c, b>>} \in SUBSET (Connections \X BufferIds)
        /\ p.mUsingConnections \cup {<<b, c>>} \in SUBSET (BufferIds \X Connections)
    BY <1>1 DEF Pools
  <2>4. /\ r \in Pools
        /\ r.mUsingBuffers = p.mUsingBuffers \cup {<<c, b>>}
        /\ r.mUsingConnections = p.mUsingConnections \cup {<<b, c>>}
        /\ SameBuffers(p, r) /\ SameTransfers(p, r) /\ SameIds(p, r) /\ SameInvalidation(p, r)
        /\ SameCounts(p, r)
        /\ r.mConnectionIds = p.mConnectionIds /\ r.crashed = FALSE
    BY <1>1, <2>3 DEF Pools, SameBuffers, SameTransfers, SameIds, SameInvalidation, SameCounts
  <2>1. CASE <<c, b>> \in p.mUsingBuffers
    <3>1. q = r
      BY <2>1 DEF HandleOwnBuffer
    <3> HIDE DEF q, r
    <3> QED BY <2>1, <2>4, <3>1 DEF SameCounts
  <2>2. CASE <<c, b>> \notin p.mUsingBuffers
    <3> DEFINE s == [r EXCEPT !.crashed = @ \/ b \notin r.mBuffers]
    <3> HIDE DEF r
    <3>2. /\ s \in Pools
          /\ SameBuffers(r, s) /\ SameTransfers(r, s) /\ SameIds(r, s) /\ SameInvalidation(r, s)
          /\ SameCounts(r, s) /\ SameUse(r, s)
          /\ s.mConnectionIds = r.mConnectionIds /\ s.crashed = FALSE
      <4>1. b \in r.mBuffers
        BY <1>1, <2>4 DEF SameBuffers
      <4>2. s = [r EXCEPT !.crashed = FALSE]
        BY <2>4, <4>1
      <4> HIDE DEF s
      <4> QED BY <2>4, <4>2
              DEF Pools, SameBuffers, SameTransfers, SameIds, SameInvalidation, SameCounts, SameUse
    <3> HIDE DEF s
    <3>3. q = [s EXCEPT !.mOwnerCount[b] = @ + 1]
      BY <2>2 DEF HandleOwnBuffer, Deref, r, s
    <3> HIDE DEF q
    <3>4. s.mOwnerCount \in [BufferIds -> Int]
      BY <3>2 DEF Pools
    <3>5. [s.mOwnerCount EXCEPT ![b] = @ + 1] \in [BufferIds -> Int]
      BY <3>4, <1>1
    <3>6. /\ q \in Pools
          /\ SameBuffers(s, q) /\ SameTransfers(s, q) /\ SameIds(s, q) /\ SameInvalidation(s, q)
          /\ SameUse(s, q) /\ q.mOwnerCount = [s.mOwnerCount EXCEPT ![b] = @ + 1]
          /\ q.mTransactionCount = s.mTransactionCount
          /\ q.mConnectionIds = s.mConnectionIds /\ q.crashed = s.crashed
      BY <3>2, <3>3, <3>5
         DEF Pools, SameBuffers, SameTransfers, SameIds, SameInvalidation, SameCounts, SameUse
    <3> QED BY <2>2, <2>4, <3>2, <3>6
            DEF SameBuffers, SameTransfers, SameIds, SameInvalidation, SameCounts, SameUse
  <2> QED BY <2>1, <2>2
<1> HIDE DEF q
<1>3. \A d : Transfers(q, d) = Transfers(p, d)
    BY <1>2 DEF Transfers, Known, SameTransfers
<1>4. Owners(q, b) = Owners(p, b) \cup {c} /\ \A d : d # b => Owners(q, d) = Owners(p, d)
    BY <1>1, <1>2 DEF Owners
<1>5. c \in Owners(p, b) <=> <<c, b>> \in p.mUsingBuffers
    BY <1>1 DEF Owners
<1>6. Cardinality(Owners(q, b)) =
        IF c \in Owners(p, b) THEN Cardinality(Owners(p, b)) ELSE Cardinality(Owners(p, b)) + 1
    BY <1>1, <1>4, FiniteParts, FS_AddElement
<1>7. p.mOwnerCount \in [BufferIds -> Int]
    BY <1>1 DEF Pools
<1>8. \A d \in BufferIds : q.mOwnerCount[d] = Cardinality(Owners(q, d))
    BY <1>1, <1>2, <1>4, <1>5, <1>6, <1>7 DEF Almost, Counts
<1>9. Counts(q)
    BY <1>2, <1>3, <1>8 DEF Almost, Counts
<1>10. q.mOwnerCount[b] # 0
  <2>1. Owners(q, b) # {}
    BY <1>4
  <2> QED BY <2>1, <1>1, <1>2, <1>8, FiniteParts, FS_EmptySet
<1>11. FreeUnless(q, {b})
    BY <1>1, <1>2, <1>7 DEF Almost, FreeUnless, SameBuffers, Pools
<1>12. Named(q)
  <2>1. q.mUsingBuffers \subseteq q.mConnectionIds \X q.mBuffers
    BY <1>1, <1>2 DEF Almost, Named, SameBuffers
  <2>2. \A d \in Connections, e \in BufferIds :
            <<e, d>> \in q.mUsingConnections <=> <<d, e>> \in q.mUsingBuffers
    BY <1>1, <1>2 DEF Almost, Named
  <2> QED BY <2>1, <2>2, <1>2 DEF Almost, Named, SameBuffers, SameTransfers, Known
<1>13. Ids(q)
    BY <1>2 DEF Almost, Ids, SameIds, SameBuffers
<1>14. Ranges(q)
    BY <1>2 DEF Almost, Ranges, InRange, SameIds, SameBuffers, SameInvalidation
<1>15. Almost(q, b)
    BY <1>1, <1>2, <1>9, <1>11, <1>12, <1>13, <1>14 DEF Almost, SameBuffers
<1> QED BY <1>2, <1>10, <1>15, AlmostBusy DEF q

\* A connection leaves a buffer that it uses.
LEMMA LeaveConsistent ==
    ASSUME NEW p, Consistent(p), NEW c \in Connections, NEW b \in BufferIds,
           <<c, b>> \in p.mUsingBuffers
    PROVE  LET q == Leave(p, c, b) IN
           /\ Consistent(q)
           /\ q.mUsingBuffers = p.mUsingBuffers \ {<<c, b>>}
           /\ SameTransfers(p, q) /\ q.mConnectionIds = p.mConnectionIds
           /\ p.posted = <<>> => InvalidationStep(p, q)
<1> DEFINE s == [Deref(p, b) EXCEPT !.mUsingBuffers = @ \ {<<c, b>>},
                                    !.mUsingConnections = @ \ {<<b, c>>},
                                    !.mOwnerCount[b] = @ - 1]
<1>1. p \in Pools /\ b \in p.mBuffers /\ b \notin p.mFreeBuffers /\ p.crashed = FALSE /\ Almost(p, b)
    BY BusyNotFree DEF Consistent, Pools
<1>2. /\ s \in Pools
      /\ s.mUsingBuffers = p.mUsingBuffers \ {<<c, b>>}
      /\ s.mUsingConnections = p.mUsingConnections \ {<<b, c>>}
      /\ s.mOwnerCount = [p.mOwnerCount EXCEPT ![b] = @ - 1]
      /\ s.mTransactionCount = p.mTransactionCount
      /\ SameBuffers(p, s) /\ SameTransfers(p, s) /\ SameIds(p, s) /\ SameInvalidation(p, s)
      /\ s.mConnectionIds = p.mConnectionIds /\ s.crashed = FALSE
  <2>1. [p.mOwnerCount EXCEPT ![b] = @ - 1] \in [BufferIds -> Int]
    BY <1>1 DEF Pools
  <2>2. (p.crashed \/ b \notin p.mBuffers) = FALSE
    BY <1>1
  <2>3. s = [p EXCEPT !.crashed = FALSE, !.mUsingBuffers = @ \ {<<c, b>>},
                      !.mUsingConnections = @ \ {<<b, c>>},
                      !.mOwnerCount = [p.mOwnerCount EXCEPT ![b] = @ - 1]]
    BY <1>1, <2>2 DEF Deref, Pools
  <2> HIDE DEF s
  <2> QED BY <1>1, <2>1, <2>3 DEF Pools, SameBuffers, SameTransfers, SameIds, SameInvalidation
<1> HIDE DEF s
<1>3. \A d : Transfers(s, d) = Transfers(p, d)
    BY <1>2 DEF Transfers, Known, SameTransfers
<1>4. Owners(s, b) = Owners(p, b) \ {c} /\ \A d : d # b => Owners(s, d) = Owners(p, d)
    BY <1>1, <1>2 DEF Owners
<1>5. Cardinality(Owners(s, b)) = Cardinality(Owners(p, b)) - 1
  <2>1. c \in Owners(p, b)
    BY DEF Owners
  <2> QED BY <2>1, <1>1, <1>4, FiniteParts, FS_RemoveElement
<1>6. p.mOwnerCount \in [BufferIds -> Int]
    BY <1>1 DEF Pools
<1>7. \A d \in BufferIds : s.mOwnerCount[d] = Cardinality(Owners(s, d))
    BY <1>2, <1>4, <1>5, <1>6 DEF Consistent, Counts
<1>8. Counts(s)
    BY <1>2, <1>3, <1>7 DEF Consistent, Counts
<1>9. FreeUnless(s, {b})
    BY <1>1, <1>2, <1>6 DEF Consistent, FreeUnless, SameBuffers, Pools
<1>10. Named(s)
    BY <1>1, <1>2 DEF Consistent, Named, SameBuffers, SameTransfers, Known
<1>11. Ids(s) /\ Ranges(s)
    BY <1>2 DEF Consistent, Ids, Ranges, InRange, SameIds, SameBuffers, SameInvalidation
<1>12. Almost(s, b)
    BY <1>1, <1>2, <1>8, <1>9, <1>10, <1>11 DEF Almost, SameBuffers
<1>13. Leave(p, c, b) = FreeIfUnused(s, b)
    BY DEF Leave, s
<1>14. p.posted = <<>> =>
        s.posted = <<>> /\ (InvalidationStep(s, Leave(p, c, b)) => InvalidationStep(p, Leave(p, c, b)))
    BY <1>2 DEF SameInvalidation, InvalidationStep
<1> QED BY <1>2, <1>12, <1>13, <1>14, FreeConsistent DEF SameUse, SameTransfers

\* NoTransaction is a value of TransactionStates.
LEMMA NoTransactionType == NoTransaction \in TransactionStates /\ NoTransaction.mStatus = "none"
BY IdsAssumption, ConnectionsAssumption DEF NoTransaction, TransactionStates, BufferIds

\* A transaction of b ends.
LEMMA EndConsistent ==
    ASSUME NEW p, NEW b, Almost(p, b), NEW t \in Transactions, Known(p, t),
           p.mTransactions[t].mBufferId = b
    PROVE  LET q == EndTransaction(p, t, b) IN
           /\ Consistent(q)
           /\ q.mUsingBuffers = p.mUsingBuffers
           /\ q.mTransactions = [p.mTransactions EXCEPT ![t] = NoTransaction]
           /\ q.mPendingTransactions = p.mPendingTransactions
           /\ q.mCompletedTransactions = p.mCompletedTransactions \cup
                    IF p.mTransactions[t].mSenderValidated THEN {} ELSE {t}
           /\ q.mConnectionIds = p.mConnectionIds
           /\ p.posted = <<>> => InvalidationStep(p, q)
<1> DEFINE done == p.mCompletedTransactions \cup
                        IF p.mTransactions[t].mSenderValidated THEN {} ELSE {t}
           s == [Deref(p, b) EXCEPT !.mTransactions[t] = NoTransaction,
                                    !.mTransactionCount[b] = @ - 1,
                                    !.mCompletedTransactions = done]
<1>1. p \in Pools /\ b \in BufferIds /\ b \in p.mBuffers /\ b \notin p.mFreeBuffers /\ p.crashed = FALSE
    BY DEF Almost, Pools
<1>2. /\ s \in Pools
      /\ s.mTransactions = [p.mTransactions EXCEPT ![t] = NoTransaction]
      /\ s.mTransactionCount = [p.mTransactionCount EXCEPT ![b] = @ - 1]
      /\ s.mCompletedTransactions = done
      /\ s.mPendingTransactions = p.mPendingTransactions
      /\ s.mOwnerCount = p.mOwnerCount
      /\ SameBuffers(p, s) /\ SameUse(p, s) /\ SameIds(p, s) /\ SameInvalidation(p, s)
      /\ s.mConnectionIds = p.mConnectionIds /\ s.crashed = FALSE
  <2>1. [p.mTransactionCount EXCEPT ![b] = @ - 1] \in [BufferIds -> Int]
    BY <1>1 DEF Pools
  <2>2. [p.mTransactions EXCEPT ![t] = NoTransaction] \in [Transactions -> TransactionStates]
    BY <1>1, NoTransactionType DEF Pools
  <2>3. done \in SUBSET Transactions
    BY <1>1 DEF Pools
  <2>4. (p.crashed \/ b \notin p.mBuffers) = FALSE
    BY <1>1
  <2> HIDE DEF done
  <2>5. s = [p EXCEPT !.crashed = FALSE,
                      !.mTransactions = [p.mTransactions EXCEPT ![t] = NoTransaction],
                      !.mTransactionCount = [p.mTransactionCount EXCEPT ![b] = @ - 1],
                      !.mCompletedTransactions = done]
    BY <1>1, <2>4 DEF Deref, Pools
  <2> HIDE DEF s
  <2> QED BY <1>1, <2>1, <2>2, <2>3, <2>5, ZenonT(30)
          DEF Pools, SameBuffers, SameUse, SameIds, SameInvalidation
<1>13. EndTransaction(p, t, b) = FreeIfUnused(s, b)
    BY <1>1 DEF EndTransaction, Deref, Pools
<1> HIDE DEF s, done
<1>3. \A d : Owners(s, d) = Owners(p, d)
    BY <1>2 DEF Owners, SameUse
<1>4. p.mTransactions \in [Transactions -> TransactionStates]
    BY <1>1 DEF Pools
<1>5. \A u \in Transactions : s.mTransactions[u] = IF u = t THEN NoTransaction ELSE p.mTransactions[u]
    BY <1>2, <1>4
<1>6. ~Known(s, t) /\ \A u \in Transactions : u # t => (Known(s, u) <=> Known(p, u))
    BY <1>5, NoTransactionType DEF Known
<1>7. Transfers(s, b) = Transfers(p, b) \ {t} /\ \A d : d # b => Transfers(s, d) = Transfers(p, d)
    BY <1>5, <1>6 DEF Transfers
<1>8. Cardinality(Transfers(s, b)) = Cardinality(Transfers(p, b)) - 1
  <2>1. t \in Transfers(p, b)
    BY DEF Transfers
  <2>2. IsFiniteSet(Transfers(p, b))
    BY <1>1, FiniteParts
  <2>3. Cardinality(Transfers(p, b) \ {t}) = Cardinality(Transfers(p, b)) - 1
    BY <2>1, <2>2, FS_RemoveElement
  <2> QED BY <2>3, <1>7
<1>9. Counts(s)
  <2>1. p.mTransactionCount \in [BufferIds -> Int]
    BY <1>1 DEF Pools
  <2>2. \A d \in BufferIds : s.mTransactionCount[d] = Cardinality(Transfers(s, d))
    BY <1>1, <1>2, <1>7, <1>8, <2>1 DEF Almost, Counts
  <2> QED BY <1>2, <1>3, <2>2 DEF Almost, Counts
<1>10. FreeUnless(s, {b})
  <2>1. p.mTransactionCount \in [BufferIds -> Int]
    BY <1>1 DEF Pools
  <2> QED BY <1>1, <1>2, <2>1, SMTT(30) DEF Almost, FreeUnless, SameBuffers, Pools
<1>11. Named(s) /\ Ids(s) /\ Ranges(s)
  <2>1. \A u \in Transactions : Known(s, u) => s.mTransactions[u].mBufferId \in s.mBuffers
    BY <1>2, <1>5, <1>6 DEF Almost, Named, SameBuffers
  <2>2. Named(s)
    BY <1>2, <2>1 DEF Almost, Named, SameBuffers, SameUse
  <2>3. Ids(s) /\ Ranges(s)
    BY <1>2 DEF Almost, Ids, Ranges, InRange, SameIds, SameBuffers, SameInvalidation
  <2> QED BY <2>2, <2>3
<1>12. Almost(s, b)
    BY <1>1, <1>2, <1>9, <1>10, <1>11 DEF Almost, SameBuffers
<1>14. p.posted = <<>> =>
        /\ s.posted = <<>>
        /\ InvalidationStep(s, EndTransaction(p, t, b)) => InvalidationStep(p, EndTransaction(p, t, b))
    BY <1>2 DEF SameInvalidation, InvalidationStep
<1> QED BY <1>2, <1>12, <1>13, <1>14, FreeConsistent DEF SameUse, SameTransfers, done

\* A transaction of b begins.
LEMMA NewConsistent ==
    ASSUME NEW p, Consistent(p), NEW t \in Transactions, ~Known(p, t),
           NEW b \in p.mBuffers \ p.mFreeBuffers, NEW c \in p.mConnectionIds,
           NEW status \in {"TRANSFER_TO", "TRANSFER_FROM"}
    PROVE  LET q == NewTransaction(p, t, b, c, status) IN
           /\ Consistent(q)
           /\ q.mUsingBuffers = p.mUsingBuffers
           /\ \E y \in TransactionStates :
                /\ y.mBufferId = b /\ y.mReceiver = c /\ y.mStatus = status
                /\ y.mSenderValidated <=> status = "TRANSFER_TO"
                /\ q.mTransactions = [p.mTransactions EXCEPT ![t] = y]
           /\ q.mPendingTransactions = p.mPendingTransactions \cup {<<c, t>>}
           /\ q.mCompletedTransactions = p.mCompletedTransactions
           /\ q.mConnectionIds = p.mConnectionIds
           /\ SameInvalidation(p, q)
<1> DEFINE new == [mBufferId |-> b, mReceiver |-> c, mStatus |-> status,
                   mSenderValidated |-> status = "TRANSFER_TO"]
           q == NewTransaction(p, t, b, c, status)
<1>1. p \in Pools /\ b \in BufferIds /\ c \in Connections
    BY DEF Consistent, Pools
<1>2. /\ new \in TransactionStates /\ new.mStatus # "none" /\ new.mBufferId = b
      /\ new.mReceiver = c /\ new.mStatus = status
      /\ new.mSenderValidated <=> status = "TRANSFER_TO"
    BY <1>1 DEF TransactionStates
<1>3. /\ q \in Pools
      /\ q.mTransactions = [p.mTransactions EXCEPT ![t] = new]
      /\ q.mTransactionCount = [p.mTransactionCount EXCEPT ![b] = @ + 1]
      /\ q.mPendingTransactions = p.mPendingTransactions \cup {<<c, t>>}
      /\ q.mCompletedTransactions = p.mCompletedTransactions
      /\ q.mOwnerCount = p.mOwnerCount
      /\ SameBuffers(p, q) /\ SameUse(p, q) /\ SameIds(p, q) /\ SameInvalidation(p, q)
      /\ q.mConnectionIds = p.mConnectionIds /\ q.crashed = p.crashed
  <2>1. [p.mTransactionCount EXCEPT ![b] = @ + 1] \in [BufferIds -> Int]
    BY <1>1 DEF Pools
  <2>2. [p.mTransactions EXCEPT ![t] = new] \in [Transactions -> TransactionStates]
    BY <1>1, <1>2 DEF Pools
  <2>3. p.mPendingTransactions \cup {<<c, t>>} \in SUBSET (Connections \X Transactions)
    BY <1>1 DEF Pools
  <2>4. q = [p EXCEPT !.mTransactions = [p.mTransactions EXCEPT ![t] = new],
                      !.mPendingTransactions = p.mPendingTransactions \cup {<<c, t>>},
                      !.mTransactionCount = [p.mTransactionCount EXCEPT ![b] = @ + 1]]
    BY <1>1 DEF NewTransaction, Pools
  <2> HIDE DEF q, new
  <2> QED BY <1>1, <2>1, <2>2, <2>3, <2>4
          DEF Pools, SameBuffers, SameUse, SameIds, SameInvalidation
<1> HIDE DEF q, new
<1>4. p.mTransactions \in [Transactions -> TransactionStates]
    BY <1>1 DEF Pools
<1>5. \A u \in Transactions : q.mTransactions[u] = IF u = t THEN new ELSE p.mTransactions[u]
    BY <1>3, <1>4
<1>6. Known(q, t) /\ \A u \in Transactions : u # t => (Known(q, u) <=> Known(p, u))
    BY <1>2, <1>5 DEF Known
<1>7. Transfers(q, b) = Transfers(p, b) \cup {t} /\ \A d : d # b => Transfers(q, d) = Transfers(p, d)
    BY <1>2, <1>5, <1>6 DEF Transfers
<1>8. Cardinality(Transfers(q, b)) = Cardinality(Transfers(p, b)) + 1
  <2>1. t \notin Transfers(p, b)
    BY DEF Transfers
  <2> QED BY <2>1, <1>1, <1>7, FiniteParts, FS_AddElement
<1>9. Counts(q)
  <2>1. p.mTransactionCount \in [BufferIds -> Int]
    BY <1>1 DEF Pools
  <2>2. \A d \in BufferIds : q.mTransactionCount[d] = Cardinality(Transfers(q, d))
    BY <1>1, <1>3, <1>7, <1>8, <2>1 DEF Consistent, Counts
  <2>3. \A d : Owners(q, d) = Owners(p, d)
    BY <1>3 DEF Owners, SameUse
  <2> QED BY <1>3, <2>2, <2>3 DEF Consistent, Counts
<1>10. FreeUnless(q, {})
  <2>1. p.mTransactionCount \in [BufferIds -> Int]
    BY <1>1 DEF Pools
  <2>2. p.mTransactionCount[b] = Cardinality(Transfers(p, b)) /\ Cardinality(Transfers(p, b)) \in Nat
    BY <1>1, FiniteParts DEF Consistent, Counts
  <2>3. q.mTransactionCount[b] # 0
    BY <1>1, <1>3, <2>1, <2>2
  <2>4. /\ q.mBuffers = p.mBuffers /\ q.mFreeBuffers = p.mFreeBuffers /\ q.mOwnerCount = p.mOwnerCount
        /\ p.mBuffers \subseteq BufferIds /\ FreeUnless(p, {}) /\ b \notin p.mFreeBuffers
    BY <1>1, <1>3 DEF Consistent, SameBuffers, Pools
  <2>5. \A d \in BufferIds : d # b => q.mTransactionCount[d] = p.mTransactionCount[d]
    BY <1>3, <2>1
  <2> QED BY <2>3, <2>4, <2>5 DEF FreeUnless
<1>11. Named(q)
  <2>1. \A u \in Transactions : Known(q, u) => q.mTransactions[u].mBufferId \in q.mBuffers
    BY <1>2, <1>3, <1>5, <1>6 DEF Consistent, Named, SameBuffers
  <2> QED BY <1>3, <2>1 DEF Consistent, Named, SameBuffers, SameUse
<1>12. Ids(q) /\ Ranges(q)
    BY <1>3 DEF Consistent, Ids, Ranges, InRange, SameIds, SameBuffers, SameInvalidation
<1> QED BY <1>2, <1>3, <1>9, <1>10, <1>11, <1>12 DEF Consistent, q, SameUse

\* allocate() takes a free buffer.
LEMMA TakeFree ==
    ASSUME NEW p, Consistent(p), NEW b \in p.mFreeBuffers
    PROVE  LET q == [p EXCEPT !.mFreeBuffers = @ \ {b}] IN
           /\ Almost(q, b) /\ SameUse(p, q) /\ SameTransfers(p, q) /\ SameInvalidation(p, q)
           /\ q.mConnectionIds = p.mConnectionIds
<1> DEFINE q == [p EXCEPT !.mFreeBuffers = @ \ {b}]
<1>1. p \in Pools /\ b \in BufferIds /\ b \in p.mBuffers
    BY DEF Consistent, Pools, Named
<1>2. /\ q \in Pools /\ q.mFreeBuffers = p.mFreeBuffers \ {b}
      /\ q.mBuffers = p.mBuffers /\ q.mInvalidated = p.mInvalidated
      /\ SameCounts(p, q) /\ SameUse(p, q) /\ SameTransfers(p, q) /\ SameIds(p, q)
      /\ SameInvalidation(p, q) /\ q.mConnectionIds = p.mConnectionIds /\ q.crashed = p.crashed
    BY <1>1 DEF Pools, SameCounts, SameUse, SameTransfers, SameIds, SameInvalidation
<1> HIDE DEF q
<1>3. \A d : Owners(q, d) = Owners(p, d) /\ Transfers(q, d) = Transfers(p, d)
    BY <1>2 DEF Owners, Transfers, Known, SameUse, SameTransfers
<1>4. Counts(q)
    BY <1>2, <1>3 DEF Consistent, Counts, SameCounts
<1>5. FreeUnless(q, {b})
    BY <1>2 DEF Consistent, FreeUnless, SameCounts
<1>6. Named(q)
    BY <1>2 DEF Consistent, Named, SameUse, SameTransfers, Known
<1>7. Ids(q) /\ Ranges(q)
    BY <1>2 DEF Consistent, Ids, Ranges, InRange, SameIds, SameInvalidation
<1> QED BY <1>1, <1>2, <1>4, <1>5, <1>6, <1>7 DEF Almost, Consistent, q

\* A new id is that of no buffer and in no pending range.
LEMMA NewId ==
    ASSUME NEW p, Consistent(p), p.allocations < MaxAllocations
    PROVE  LET q == AddNewBuffer(p) IN
           /\ p.mSeq \in BufferIds /\ p.mSeq \notin p.mBuffers
           /\ Almost(q, p.mSeq) /\ SameUse(p, q) /\ SameTransfers(p, q) /\ SameInvalidation(p, q)
           /\ q.mConnectionIds = p.mConnectionIds /\ q.mFreeBuffers = p.mFreeBuffers
<1> DEFINE q == AddNewBuffer(p)
           b == p.mSeq
<1>1. p \in Pools /\ b \in BufferIds /\ p.allocations \in Nat
    BY DEF Consistent, Pools
<1>2. b \notin p.mBuffers
    BY <1>1 DEF Consistent, Ids
<1>3. NextId(b) \in BufferIds /\ Off(NextId(b)) = p.allocations + 1
    BY <1>1, IdsAssumption DEF Consistent, Ids, Off, NextId, BufferIds
<1>4. /\ q \in Pools /\ q.mBuffers = p.mBuffers \cup {b} /\ q.mSeq = NextId(b)
      /\ q.allocations = p.allocations + 1 /\ q.mStartSeq = p.mStartSeq
      /\ q.mFreeBuffers = p.mFreeBuffers /\ q.mInvalidated = p.mInvalidated
      /\ SameCounts(p, q) /\ SameUse(p, q) /\ SameTransfers(p, q)
      /\ SameInvalidation(p, q) /\ q.mConnectionIds = p.mConnectionIds /\ q.crashed = p.crashed
  <2>1. p.mBuffers \cup {b} \in SUBSET BufferIds /\ p.allocations + 1 \in Nat
    BY <1>1 DEF Pools
  <2>2. q = [p EXCEPT !.mBuffers = p.mBuffers \cup {b}, !.mSeq = NextId(b),
                      !.allocations = p.allocations + 1]
    BY <1>1 DEF AddNewBuffer, Pools
  <2> HIDE DEF q
  <2> QED BY <1>1, <1>3, <2>1, <2>2
          DEF Pools, SameCounts, SameUse, SameTransfers, SameInvalidation
<1> HIDE DEF q
<1>5. \A d : Owners(q, d) = Owners(p, d) /\ Transfers(q, d) = Transfers(p, d)
    BY <1>4 DEF Owners, Transfers, Known, SameUse, SameTransfers
<1>6. Counts(q)
    BY <1>4, <1>5 DEF Consistent, Counts, SameCounts
<1>7. FreeUnless(q, {b})
    BY <1>4 DEF Consistent, FreeUnless, SameCounts
<1>8. Named(q)
    BY <1>2, <1>4 DEF Consistent, Named, SameUse, SameTransfers, Known
<1>9. Ids(q)
  <2>1. Off(q.mStartSeq) <= q.allocations
    <3>1. p.mStartSeq \in BufferIds /\ Off(p.mStartSeq) <= p.allocations
      BY <1>1 DEF Consistent, Ids, Pools
    <3> QED BY <3>1, <1>1, <1>4, IdsAssumption DEF Off, BufferIds
  <2>2. ASSUME NEW d \in q.mBuffers
        PROVE  Off(d) < q.allocations /\ (d \in q.mInvalidated <=> Off(d) < Off(q.mStartSeq))
    <3>1. d \in BufferIds /\ p.mStartSeq \in BufferIds /\ Off(p.mStartSeq) <= p.allocations
      BY <1>1, <1>4 DEF Consistent, Ids, Pools
    <3>2. CASE d \in p.mBuffers
      <4>1. Off(d) < p.allocations /\ (d \in p.mInvalidated <=> Off(d) < Off(p.mStartSeq))
        BY <3>2 DEF Consistent, Ids
      <4>2. Off(d) < q.allocations
        BY <3>1, <4>1, <1>1, <1>4, IdsAssumption DEF Off, BufferIds
      <4> QED BY <1>4, <4>1, <4>2
    <3>3. CASE d = b
      <4>1. Off(d) = p.allocations
        BY <3>3 DEF Consistent, Ids
      <4>2. d \notin q.mInvalidated
        BY <1>2, <1>4, <3>3 DEF Consistent, Named
      <4>3. Off(d) < q.allocations /\ ~(Off(d) < Off(q.mStartSeq))
        BY <3>1, <4>1, <1>1, <1>4, IdsAssumption DEF Off, BufferIds
      <4> QED BY <4>2, <4>3
    <3> QED BY <1>4, <3>2, <3>3
  <2>3. q.allocations <= MaxAllocations
    BY <1>1, <1>4, IdsAssumption
  <2> QED BY <1>3, <1>4, <2>1, <2>2, <2>3 DEF Ids
<1>10. Ranges(q)
  <2>1. ASSUME NEW y \in p.mPendings
        PROVE  /\ InRange(q, y) = InRange(p, y)
               /\ Off(y.from) < Off(y.to) /\ Off(y.to) <= q.allocations
    <3>1. y.from \in BufferIds /\ y.to \in BufferIds
      BY <1>1 DEF Pools, PendingRanges
    <3>2. Off(y.from) < Off(y.to) /\ Off(y.to) <= p.allocations /\ Off(b) = p.allocations
      BY DEF Consistent, Ranges, Ids
    <3>3. ~IsBufferInRange(y.from, y.to, b)
      BY <1>1, <3>1, <3>2, IdsAssumption DEF IsBufferInRange, Off, BufferIds
    <3>4. Off(y.to) <= q.allocations
      BY <1>1, <1>4, <3>1, <3>2, IdsAssumption DEF Off, BufferIds
    <3> QED BY <1>4, <3>2, <3>3, <3>4 DEF InRange
  <2> QED BY <1>4, <2>1 DEF Consistent, Ranges, SameInvalidation
<1> QED BY <1>1, <1>2, <1>4, <1>6, <1>7, <1>8, <1>9, <1>10 DEF Almost, Consistent, Named, q

\* What the clients depend on.
SameProtocol(p, q) ==
    /\ q.mUsingBuffers = p.mUsingBuffers /\ q.mConnectionIds = p.mConnectionIds
    /\ SameTransfers(p, q)

\* The posted invalidations are on their way: the rest of the pool stays.
LEMMA ResetPosted ==
    ASSUME NEW p \in Pools
    PROVE  LET q == [p EXCEPT !.posted = <<>>] IN
           /\ q \in Pools /\ q.posted = <<>>
           /\ SameBuffers(p, q) /\ SameCounts(p, q) /\ SameUse(p, q) /\ SameTransfers(p, q)
           /\ SameIds(p, q) /\ q.mPendings = p.mPendings /\ q.mInvalidationId = p.mInvalidationId
           /\ q.mAcks = p.mAcks /\ q.registered = p.registered
           /\ q.mConnectionIds = p.mConnectionIds /\ q.crashed = p.crashed
           /\ Consistent(p) => Consistent(q)
<1> DEFINE q == [p EXCEPT !.posted = <<>>]
<1>1. <<>> \in Seq(Invalidations)
    OBVIOUS
<1>2. /\ q \in Pools /\ q.posted = <<>>
      /\ SameBuffers(p, q) /\ SameCounts(p, q) /\ SameUse(p, q) /\ SameTransfers(p, q)
      /\ SameIds(p, q) /\ q.mPendings = p.mPendings /\ q.mInvalidationId = p.mInvalidationId
      /\ q.mAcks = p.mAcks /\ q.registered = p.registered
      /\ q.mConnectionIds = p.mConnectionIds /\ q.crashed = p.crashed
    BY <1>1 DEF Pools, SameBuffers, SameCounts, SameUse, SameTransfers, SameIds
<1> HIDE DEF q
<1>3. ASSUME Consistent(p) PROVE Consistent(q)
  <2>1. \A t \in Transactions :
            /\ q.mTransactions[t].mBufferId = p.mTransactions[t].mBufferId
            /\ Known(q, t) <=> Known(p, t)
    BY <1>2 DEF SameTransfers, Known
  <2>2. q.mUsingBuffers \subseteq q.mConnectionIds \X BufferIds
    BY <1>2, <1>3 DEF SameUse, Consistent, Named, Pools
  <2> QED BY <1>2, <1>3, <2>1, <2>2, CopyConsistent
<1> QED BY <1>2, <1>3 DEF q

\* handleReleaseBuffer()
LEMMA ReleaseConsistent ==
    ASSUME NEW p, Consistent(p), p.posted = <<>>, NEW c \in Connections, NEW b \in BufferIds
    PROVE  LET q == HandleReleaseBuffer(p, c, b) IN
           /\ Consistent(q)
           /\ q.mUsingBuffers = p.mUsingBuffers \ {<<c, b>>}
           /\ SameTransfers(p, q) /\ q.mConnectionIds = p.mConnectionIds
           /\ InvalidationStep(p, q)
<1> DEFINE q == HandleReleaseBuffer(p, c, b)
<1>1. CASE <<c, b>> \in p.mUsingBuffers
    BY <1>1, LeaveConsistent DEF HandleReleaseBuffer
<1>2. CASE <<c, b>> \notin p.mUsingBuffers
  <2>1. p \in Pools /\ <<b, c>> \notin p.mUsingConnections
    BY <1>2 DEF Consistent, Named
  <2>2. q = [p EXCEPT !.mUsingConnections = @ \ {<<b, c>>}]
    BY <1>2 DEF HandleReleaseBuffer
  <2>3. p.mUsingConnections \ {<<b, c>>} = p.mUsingConnections
    BY <2>1
  <2>4. /\ q \in Pools
        /\ SameBuffers(p, q) /\ SameCounts(p, q) /\ SameUse(p, q) /\ SameTransfers(p, q)
        /\ SameIds(p, q) /\ SameInvalidation(p, q)
        /\ q.mConnectionIds = p.mConnectionIds /\ q.crashed = p.crashed
    BY <2>1, <2>2, <2>3, ZenonT(30)
       DEF Pools, SameBuffers, SameCounts, SameUse, SameTransfers, SameIds, SameInvalidation
  <2> HIDE DEF q
  <2>5. \A t \in Transactions :
            /\ q.mTransactions[t].mBufferId = p.mTransactions[t].mBufferId
            /\ Known(q, t) <=> Known(p, t)
    BY <2>4 DEF SameTransfers, Known
  <2>6. q.mUsingBuffers \subseteq q.mConnectionIds \X BufferIds
    BY <2>4 DEF SameUse, Consistent, Named, Pools
  <2>7. Consistent(q)
    BY <2>4, <2>5, <2>6, CopyConsistent DEF SameInvalidation
  <2>8. InvalidationStep(p, q)
    BY <2>1, <2>4, NoInvalidation
  <2>9. q.mUsingBuffers = p.mUsingBuffers \ {<<c, b>>}
    BY <1>2, <2>4 DEF SameUse
  <2> QED BY <2>4, <2>7, <2>8, <2>9 DEF q
<1> QED BY <1>1, <1>2

\* A change of the state of a transaction that exists.
LEMMA ChangeConsistent ==
    ASSUME NEW p, Consistent(p), NEW t \in Transactions, Known(p, t),
           NEW y \in TransactionStates, y.mStatus # "none",
           y.mBufferId = p.mTransactions[t].mBufferId,
           NEW q, q = [p EXCEPT !.mTransactions = [p.mTransactions EXCEPT ![t] = y]]
    PROVE  /\ Consistent(q)
           /\ q.mTransactions = [p.mTransactions EXCEPT ![t] = y]
           /\ q.mPendingTransactions = p.mPendingTransactions
           /\ q.mCompletedTransactions = p.mCompletedTransactions
           /\ q.mUsingBuffers = p.mUsingBuffers /\ q.mConnectionIds = p.mConnectionIds
           /\ SameInvalidation(p, q)
<1>1. p \in Pools /\ p.mTransactions \in [Transactions -> TransactionStates]
    BY DEF Consistent, Pools
<1>2. [p.mTransactions EXCEPT ![t] = y] \in [Transactions -> TransactionStates]
    BY <1>1
<1>3. /\ q \in Pools
      /\ q.mTransactions = [p.mTransactions EXCEPT ![t] = y]
      /\ q.mPendingTransactions = p.mPendingTransactions
      /\ q.mCompletedTransactions = p.mCompletedTransactions
      /\ SameBuffers(p, q) /\ SameCounts(p, q) /\ SameUse(p, q)
      /\ SameIds(p, q) /\ SameInvalidation(p, q)
      /\ q.mConnectionIds = p.mConnectionIds /\ q.crashed = p.crashed
    BY <1>1, <1>2 DEF Pools, SameBuffers, SameCounts, SameUse, SameIds, SameInvalidation
<1>4. \A u \in Transactions :
            /\ q.mTransactions[u].mBufferId = p.mTransactions[u].mBufferId
            /\ Known(q, u) <=> Known(p, u)
    BY <1>1, <1>3 DEF Known
<1>5. q.mUsingBuffers \subseteq q.mConnectionIds \X BufferIds
    BY <1>3 DEF SameUse, Consistent, Named, Pools
<1> QED BY <1>3, <1>4, <1>5, CopyConsistent DEF SameInvalidation, SameUse

\* The outcomes of handleTransferTo() and handleTransferFrom().
ToOutcome(p, q, c, t, b, target) ==
    \/ /\ t \in p.mCompletedTransactions
       /\ q.mCompletedTransactions = p.mCompletedTransactions \ {t}
       /\ q.mTransactions = p.mTransactions
       /\ q.mPendingTransactions = p.mPendingTransactions
    \/ /\ t \notin p.mCompletedTransactions
       /\ \/ <<c, b>> \notin p.mUsingBuffers
          \/ ~Known(p, t) /\ target \notin p.mConnectionIds
       /\ SameTransfers(p, q)
    \/ /\ t \notin p.mCompletedTransactions /\ <<c, b>> \in p.mUsingBuffers /\ Known(p, t)
       /\ \E y \in TransactionStates :
            /\ y.mBufferId = p.mTransactions[t].mBufferId /\ y.mStatus # "none"
            /\ y.mReceiver = p.mTransactions[t].mReceiver
            /\ q.mTransactions = [p.mTransactions EXCEPT ![t] = y]
       /\ q.mPendingTransactions = p.mPendingTransactions
       /\ q.mCompletedTransactions = p.mCompletedTransactions
    \/ /\ t \notin p.mCompletedTransactions /\ <<c, b>> \in p.mUsingBuffers /\ ~Known(p, t)
       /\ target \in p.mConnectionIds
       /\ \E y \in TransactionStates :
            /\ y.mBufferId = b /\ y.mReceiver = target /\ y.mStatus # "none"
            /\ q.mTransactions = [p.mTransactions EXCEPT ![t] = y]
       /\ q.mPendingTransactions = p.mPendingTransactions \cup {<<target, t>>}
       /\ q.mCompletedTransactions = p.mCompletedTransactions

FromOutcome(p, q, c, t, b) ==
    \/ /\ ~Known(p, t)
       /\ \E y \in TransactionStates :
            /\ y.mBufferId = b /\ y.mReceiver = c /\ y.mStatus # "none" /\ ~y.mSenderValidated
            /\ q.mTransactions = [p.mTransactions EXCEPT ![t] = y]
       /\ q.mPendingTransactions = p.mPendingTransactions \cup {<<c, t>>}
    \/ /\ Known(p, t) /\ p.mTransactions[t].mReceiver # c /\ SameTransfers(p, q)
    \/ /\ Known(p, t) /\ p.mTransactions[t].mReceiver = c
       /\ \E y \in TransactionStates :
            /\ y.mBufferId = p.mTransactions[t].mBufferId /\ y.mStatus # "none"
            /\ y.mReceiver = p.mTransactions[t].mReceiver
            /\ y.mSenderValidated = p.mTransactions[t].mSenderValidated
            /\ q.mTransactions = [p.mTransactions EXCEPT ![t] = y]
       /\ q.mPendingTransactions = p.mPendingTransactions

\* handleTransferTo()
LEMMA TransferToConsistent ==
    ASSUME NEW p, Consistent(p), NEW c \in Connections, NEW t \in Transactions,
           NEW b \in BufferIds, NEW target \in Connections,
           NEW q, q = HandleTransferTo(p, c, t, b, target)
    PROVE  /\ Consistent(q) /\ SameInvalidation(p, q)
           /\ q.mUsingBuffers = p.mUsingBuffers /\ q.mConnectionIds = p.mConnectionIds
           /\ ToOutcome(p, q, c, t, b, target)
<1>1. p \in Pools /\ p.mTransactions \in [Transactions -> TransactionStates]
      /\ (<<c, b>> \in p.mUsingBuffers => b \in p.mBuffers)
    BY DEF Consistent, Pools, Named
<1>2. CASE t \in p.mCompletedTransactions
  <2>1. q = [p EXCEPT !.mCompletedTransactions = @ \ {t}]
    BY <1>2 DEF HandleTransferTo
  <2>2. /\ q \in Pools
        /\ q.mTransactions = p.mTransactions
        /\ q.mPendingTransactions = p.mPendingTransactions
        /\ q.mCompletedTransactions = p.mCompletedTransactions \ {t}
        /\ SameBuffers(p, q) /\ SameCounts(p, q) /\ SameUse(p, q)
        /\ SameIds(p, q) /\ SameInvalidation(p, q)
        /\ q.mConnectionIds = p.mConnectionIds /\ q.crashed = p.crashed
    BY <1>1, <2>1, ZenonT(30) DEF Pools, SameBuffers, SameCounts, SameUse, SameIds, SameInvalidation
  <2>3. \A u \in Transactions :
            /\ q.mTransactions[u].mBufferId = p.mTransactions[u].mBufferId
            /\ Known(q, u) <=> Known(p, u)
    BY <2>2 DEF Known
  <2>4. q.mUsingBuffers \subseteq q.mConnectionIds \X BufferIds
    BY <2>2 DEF SameUse, Consistent, Named, Pools
  <2>5. Consistent(q)
    BY <2>2, <2>3, <2>4, CopyConsistent DEF SameInvalidation
  <2> QED BY <1>2, <2>2, <2>5 DEF SameUse, ToOutcome
<1>3. CASE t \notin p.mCompletedTransactions /\ <<c, b>> \in p.mUsingBuffers /\ Known(p, t)
  <2> DEFINE y == [p.mTransactions[t] EXCEPT !.mSenderValidated = TRUE]
  <2>1. q = [p EXCEPT !.mTransactions = [p.mTransactions EXCEPT ![t] = y]]
    BY <1>1, <1>3 DEF HandleTransferTo, Pools
  <2>2. /\ y \in TransactionStates /\ y.mStatus = p.mTransactions[t].mStatus
        /\ y.mBufferId = p.mTransactions[t].mBufferId
        /\ y.mReceiver = p.mTransactions[t].mReceiver
    BY <1>1 DEF TransactionStates
  <2>3. y.mStatus # "none"
    BY <1>3, <2>2 DEF Known
  <2> HIDE DEF y
  <2>4. /\ Consistent(q)
        /\ q.mTransactions = [p.mTransactions EXCEPT ![t] = y]
        /\ q.mPendingTransactions = p.mPendingTransactions
        /\ q.mCompletedTransactions = p.mCompletedTransactions
        /\ q.mUsingBuffers = p.mUsingBuffers /\ q.mConnectionIds = p.mConnectionIds
        /\ SameInvalidation(p, q)
    BY <1>3, <2>1, <2>2, <2>3, ChangeConsistent
  <2> QED BY <1>3, <2>2, <2>3, <2>4 DEF ToOutcome
<1>4. CASE t \notin p.mCompletedTransactions /\ <<c, b>> \in p.mUsingBuffers /\ ~Known(p, t)
           /\ target \in p.mConnectionIds
  <2>1. q = NewTransaction(p, t, b, target, "TRANSFER_TO")
    BY <1>1, <1>4 DEF HandleTransferTo
  <2>2. b \in p.mBuffers \ p.mFreeBuffers
    BY <1>4, BusyNotFree
  <2>3. /\ Consistent(q) /\ q.mUsingBuffers = p.mUsingBuffers
        /\ \E y \in TransactionStates :
                /\ y.mBufferId = b /\ y.mReceiver = target /\ y.mStatus = "TRANSFER_TO"
                /\ q.mTransactions = [p.mTransactions EXCEPT ![t] = y]
        /\ q.mPendingTransactions = p.mPendingTransactions \cup {<<target, t>>}
        /\ q.mCompletedTransactions = p.mCompletedTransactions
        /\ q.mConnectionIds = p.mConnectionIds /\ SameInvalidation(p, q)
    BY <1>4, <2>1, <2>2, NewConsistent
  <2> QED BY <1>4, <2>3 DEF ToOutcome
<1>5. CASE t \notin p.mCompletedTransactions
           /\ (<<c, b>> \notin p.mUsingBuffers \/ (~Known(p, t) /\ target \notin p.mConnectionIds))
  <2>1. q = p
    BY <1>5 DEF HandleTransferTo
  <2> QED BY <1>5, <2>1 DEF SameInvalidation, SameTransfers, ToOutcome
<1>6. \/ t \in p.mCompletedTransactions
      \/ t \notin p.mCompletedTransactions /\ <<c, b>> \in p.mUsingBuffers /\ Known(p, t)
      \/ t \notin p.mCompletedTransactions /\ <<c, b>> \in p.mUsingBuffers /\ ~Known(p, t)
         /\ target \in p.mConnectionIds
      \/ t \notin p.mCompletedTransactions
         /\ (<<c, b>> \notin p.mUsingBuffers \/ (~Known(p, t) /\ target \notin p.mConnectionIds))
    OBVIOUS
<1> QED BY <1>2, <1>3, <1>4, <1>5, <1>6

\* handleTransferFrom()
LEMMA TransferFromConsistent ==
    ASSUME NEW p, Consistent(p), NEW c \in p.mConnectionIds, NEW t \in Transactions,
           NEW b \in BufferIds, ~Known(p, t) => b \in p.mBuffers \ p.mFreeBuffers,
           NEW q, q = HandleTransferFrom(p, c, t, b)
    PROVE  /\ Consistent(q) /\ SameInvalidation(p, q)
           /\ q.mUsingBuffers = p.mUsingBuffers /\ q.mConnectionIds = p.mConnectionIds
           /\ q.mCompletedTransactions = p.mCompletedTransactions
           /\ FromOutcome(p, q, c, t, b)
<1>1. p \in Pools /\ p.mTransactions \in [Transactions -> TransactionStates] /\ p.crashed = FALSE
    BY DEF Consistent, Pools
<1>2. CASE ~Known(p, t)
  <2>1. Deref(p, b) = p
    <3>1. (p.crashed \/ b \notin p.mBuffers) = p.crashed
      BY <1>1, <1>2
    <3> QED BY <3>1, <1>1 DEF Deref, Pools
  <2>2. q = NewTransaction(p, t, b, c, "TRANSFER_FROM")
    BY <1>2, <2>1 DEF HandleTransferFrom
  <2>3. /\ Consistent(q) /\ q.mUsingBuffers = p.mUsingBuffers
        /\ \E y \in TransactionStates :
                /\ y.mBufferId = b /\ y.mReceiver = c /\ y.mStatus = "TRANSFER_FROM"
                /\ ~y.mSenderValidated
                /\ q.mTransactions = [p.mTransactions EXCEPT ![t] = y]
        /\ q.mPendingTransactions = p.mPendingTransactions \cup {<<c, t>>}
        /\ q.mCompletedTransactions = p.mCompletedTransactions
        /\ q.mConnectionIds = p.mConnectionIds /\ SameInvalidation(p, q)
    <3> DEFINE st == "TRANSFER_FROM"
    <3>1. st \in {"TRANSFER_TO", "TRANSFER_FROM"} /\ st # "TRANSFER_TO"
      OBVIOUS
    <3>2. b \in p.mBuffers \ p.mFreeBuffers /\ q = NewTransaction(p, t, b, c, st)
      BY <1>2, <2>2
    <3> HIDE DEF st
    <3>3. /\ Consistent(q) /\ q.mUsingBuffers = p.mUsingBuffers
          /\ \E y \in TransactionStates :
                /\ y.mBufferId = b /\ y.mReceiver = c /\ y.mStatus = st
                /\ y.mSenderValidated <=> st = "TRANSFER_TO"
                /\ q.mTransactions = [p.mTransactions EXCEPT ![t] = y]
          /\ q.mPendingTransactions = p.mPendingTransactions \cup {<<c, t>>}
          /\ q.mCompletedTransactions = p.mCompletedTransactions
          /\ q.mConnectionIds = p.mConnectionIds /\ SameInvalidation(p, q)
      BY <1>2, <3>1, <3>2, NewConsistent, SMTT(30)
    <3> QED BY <3>1, <3>3 DEF st
  <2> QED BY <1>2, <2>3 DEF FromOutcome
<1>3. CASE Known(p, t) /\ p.mTransactions[t].mReceiver = c
  <2> DEFINE y == [p.mTransactions[t] EXCEPT !.mStatus = "TRANSFER_FROM"]
  <2>1. q = [p EXCEPT !.mTransactions = [p.mTransactions EXCEPT ![t] = y]]
    BY <1>1, <1>3 DEF HandleTransferFrom, Pools
  <2>2. /\ y \in TransactionStates /\ y.mStatus # "none"
        /\ y.mBufferId = p.mTransactions[t].mBufferId
        /\ y.mReceiver = p.mTransactions[t].mReceiver
        /\ y.mSenderValidated = p.mTransactions[t].mSenderValidated
    BY <1>1 DEF TransactionStates
  <2> HIDE DEF y
  <2>3. /\ Consistent(q)
        /\ q.mTransactions = [p.mTransactions EXCEPT ![t] = y]
        /\ q.mPendingTransactions = p.mPendingTransactions
        /\ q.mCompletedTransactions = p.mCompletedTransactions
        /\ q.mUsingBuffers = p.mUsingBuffers /\ q.mConnectionIds = p.mConnectionIds
        /\ SameInvalidation(p, q)
    BY <1>3, <2>1, <2>2, ChangeConsistent
  <2> QED BY <1>3, <2>2, <2>3 DEF FromOutcome
<1>4. CASE Known(p, t) /\ p.mTransactions[t].mReceiver # c
  <2>1. q = p
    BY <1>4 DEF HandleTransferFrom
  <2> QED BY <1>4, <2>1 DEF SameInvalidation, SameTransfers, FromOutcome
<1> QED BY <1>2, <1>3, <1>4

\* handleTransferResult()
LEMMA TransferResultConsistent ==
    ASSUME NEW p, Consistent(p), p.posted = <<>>, NEW c \in p.mConnectionIds, NEW t \in Transactions,
           NEW b \in BufferIds, NEW ok \in BOOLEAN,
           Known(p, t) /\ <<c, t>> \in p.mPendingTransactions, p.mTransactions[t].mBufferId = b
    PROVE  LET q == HandleTransferResult(p, c, t, b, ok) IN
           /\ Consistent(q) /\ InvalidationStep(p, q)
           /\ q.mUsingBuffers = p.mUsingBuffers \cup IF ok THEN {<<c, b>>} ELSE {}
           /\ q.mConnectionIds = p.mConnectionIds
           /\ q.mTransactions = [p.mTransactions EXCEPT ![t] = NoTransaction]
           /\ q.mPendingTransactions = p.mPendingTransactions \ {<<c, t>>}
           /\ q.mCompletedTransactions = p.mCompletedTransactions \cup
                    IF p.mTransactions[t].mSenderValidated THEN {} ELSE {t}
<1> DEFINE q == HandleTransferResult(p, c, t, b, ok)
           r == [p EXCEPT !.mPendingTransactions = @ \ {<<c, t>>}]
           s == IF ok THEN HandleOwnBuffer(r, c, b) ELSE r
<1>1. p \in Pools /\ c \in Connections
    BY DEF Consistent, Pools
<1>2. /\ r \in Pools
      /\ r.mTransactions = p.mTransactions
      /\ r.mPendingTransactions = p.mPendingTransactions \ {<<c, t>>}
      /\ r.mCompletedTransactions = p.mCompletedTransactions
      /\ SameBuffers(p, r) /\ SameCounts(p, r) /\ SameUse(p, r)
      /\ SameIds(p, r) /\ SameInvalidation(p, r)
      /\ r.mConnectionIds = p.mConnectionIds /\ r.crashed = p.crashed
    BY <1>1 DEF Pools, SameBuffers, SameCounts, SameUse, SameIds, SameInvalidation
<1>3. q = EndTransaction(s, t, b)
    BY DEF HandleTransferResult
<1> HIDE DEF q, r
<1>4. Consistent(r)
  <2>1. \A u \in Transactions :
            /\ r.mTransactions[u].mBufferId = p.mTransactions[u].mBufferId
            /\ Known(r, u) <=> Known(p, u)
    BY <1>2 DEF Known
  <2>2. r.mUsingBuffers \subseteq r.mConnectionIds \X BufferIds
    BY <1>2 DEF SameUse, Consistent, Named, Pools
  <2> QED BY <1>2, <2>1, <2>2, CopyConsistent DEF SameInvalidation
<1>5. Almost(r, b)
    BY <1>2, <1>4, BusyNotFree DEF Known
<1>6. /\ Almost(s, b) /\ SameTransfers(r, s) /\ SameInvalidation(r, s)
      /\ s.mConnectionIds = r.mConnectionIds
      /\ s.mUsingBuffers = r.mUsingBuffers \cup IF ok THEN {<<c, b>>} ELSE {}
  <2>1. CASE ok
    BY <2>1, <1>2, <1>5, OwnAlmost
  <2>2. CASE ~ok
    BY <2>2, <1>5 DEF SameTransfers, SameInvalidation
  <2> QED BY <2>1, <2>2
<1> HIDE DEF s
<1>7. Known(s, t) /\ s.mTransactions[t].mBufferId = b
      /\ s.mTransactions = p.mTransactions /\ s.mCompletedTransactions = p.mCompletedTransactions
      /\ s.mPendingTransactions = p.mPendingTransactions \ {<<c, t>>}
    BY <1>2, <1>6 DEF SameTransfers, Known
<1>8. s.posted = <<>> /\ (InvalidationStep(s, q) => InvalidationStep(p, q))
    BY <1>2, <1>6 DEF SameInvalidation, InvalidationStep
<1>9. /\ Consistent(q)
      /\ q.mUsingBuffers = s.mUsingBuffers
      /\ q.mTransactions = [s.mTransactions EXCEPT ![t] = NoTransaction]
      /\ q.mPendingTransactions = s.mPendingTransactions
      /\ q.mCompletedTransactions = s.mCompletedTransactions \cup
                    IF s.mTransactions[t].mSenderValidated THEN {} ELSE {t}
      /\ q.mConnectionIds = s.mConnectionIds
      /\ s.posted = <<>> => InvalidationStep(s, q)
    BY <1>3, <1>6, <1>7, EndConsistent
<1> QED BY <1>2, <1>6, <1>7, <1>8, <1>9 DEF q, SameUse

\* A change that concerns neither buffers nor transfers.
LEMMA AsideConsistent ==
    ASSUME NEW p, Consistent(p), NEW q \in Pools,
           SameBuffers(p, q), SameCounts(p, q), SameUse(p, q), SameTransfers(p, q), SameIds(p, q),
           q.mPendings = p.mPendings, q.crashed = p.crashed,
           q.mUsingBuffers \subseteq q.mConnectionIds \X BufferIds
    PROVE  Consistent(q)
<1>1. \A t \in Transactions :
            /\ q.mTransactions[t].mBufferId = p.mTransactions[t].mBufferId
            /\ Known(q, t) <=> Known(p, t)
    BY DEF SameTransfers, Known
<1> QED BY <1>1, CopyConsistent

\* The pool after acknowledgements, and after connect() has listed a connection.
Acked(p, acks, r) == [p EXCEPT !.mAcks = acks, !.registered = r]
Joined(p, c) == [p EXCEPT !.mConnectionIds = @ \cup {c}, !.mAcks[c] = p.mInvalidationId]

\* onAck(), and the part of onHandleAck() that concerns the pool
LEMMA AckConsistent ==
    ASSUME NEW p, Consistent(p), NEW acks \in [Connections -> Nat], NEW r \in BOOLEAN,
           NEW q, q = Acked(p, acks, r)
    PROVE  /\ Consistent(q) /\ SameProtocol(p, q)
           /\ q.mAcks = acks /\ q.registered = r /\ q.mPendings = p.mPendings
           /\ q.mInvalidationId = p.mInvalidationId /\ q.posted = p.posted
<1>1. p \in Pools
    BY DEF Consistent
<1>2. /\ q \in Pools
      /\ SameBuffers(p, q) /\ SameCounts(p, q) /\ SameUse(p, q) /\ SameTransfers(p, q)
      /\ SameIds(p, q) /\ q.mConnectionIds = p.mConnectionIds /\ q.crashed = p.crashed
      /\ q.mAcks = acks /\ q.registered = r /\ q.mPendings = p.mPendings
      /\ q.mInvalidationId = p.mInvalidationId /\ q.posted = p.posted
    BY <1>1 DEF Acked, Pools, SameBuffers, SameCounts, SameUse, SameTransfers, SameIds
<1>3. q.mUsingBuffers \subseteq q.mConnectionIds \X BufferIds
    BY <1>2 DEF SameUse, Consistent, Named, Pools
<1> QED BY <1>2, <1>3, AsideConsistent DEF SameProtocol, SameUse

\* The change of connect() before it reads the queues.
LEMMA ConnectConsistent ==
    ASSUME NEW p, Consistent(p), NEW c \in Connections,
           NEW q, q = Joined(p, c)
    PROVE  /\ Consistent(q) /\ q.mUsingBuffers = p.mUsingBuffers /\ SameTransfers(p, q)
           /\ q.mConnectionIds = p.mConnectionIds \cup {c}
           /\ q.mAcks = [p.mAcks EXCEPT ![c] = p.mInvalidationId]
           /\ q.registered = p.registered /\ q.mPendings = p.mPendings
           /\ q.mInvalidationId = p.mInvalidationId /\ q.posted = p.posted
<1>1. p \in Pools /\ p.mAcks \in [Connections -> Nat] /\ p.mInvalidationId \in Nat
    BY DEF Consistent, Pools
<1> DEFINE acks == [p.mAcks EXCEPT ![c] = p.mInvalidationId]
           conns == p.mConnectionIds \cup {c}
<1>2. acks \in [Connections -> Nat] /\ conns \in SUBSET Connections
    BY <1>1 DEF Pools
<1>3. q = [p EXCEPT !.mConnectionIds = conns, !.mAcks = acks]
    BY <1>1 DEF Joined, Pools
<1> HIDE DEF acks, conns
<1>4. /\ q \in Pools
      /\ SameBuffers(p, q) /\ SameCounts(p, q) /\ SameUse(p, q) /\ SameTransfers(p, q)
      /\ SameIds(p, q) /\ q.mConnectionIds = conns /\ q.crashed = p.crashed
      /\ q.mAcks = acks /\ q.registered = p.registered /\ q.mPendings = p.mPendings
      /\ q.mInvalidationId = p.mInvalidationId /\ q.posted = p.posted
    BY <1>1, <1>2, <1>3, ZenonT(30) DEF Pools, SameBuffers, SameCounts, SameUse, SameTransfers, SameIds
<1>5. q.mUsingBuffers \subseteq q.mConnectionIds \X BufferIds
    BY <1>4 DEF SameUse, Consistent, Named, Pools, conns
<1> QED BY <1>4, <1>5, AsideConsistent DEF SameUse, acks, conns

\* The last step of handleClose()
LEMMA CloseConsistent ==
    ASSUME NEW p, Consistent(p), NEW c \in Connections, OwnedBuffers(p, c) = {},
           NEW q, q = EraseBuffers([p EXCEPT !.mConnectionIds = @ \ {c}], p.mFreeBuffers)
    PROVE  /\ Consistent(q) /\ q.mUsingBuffers = p.mUsingBuffers /\ SameTransfers(p, q)
           /\ q.mConnectionIds = p.mConnectionIds \ {c} /\ SameInvalidation(p, q)
<1> DEFINE r == [p EXCEPT !.mConnectionIds = @ \ {c}]
<1>1. p \in Pools
    BY DEF Consistent
<1>2. /\ r \in Pools
      /\ SameBuffers(p, r) /\ SameCounts(p, r) /\ SameUse(p, r) /\ SameTransfers(p, r)
      /\ SameIds(p, r) /\ r.mConnectionIds = p.mConnectionIds \ {c} /\ r.crashed = p.crashed
      /\ SameInvalidation(p, r)
    BY <1>1 DEF Pools, SameBuffers, SameCounts, SameUse, SameTransfers, SameIds, SameInvalidation
<1> HIDE DEF r
<1>3. r.mUsingBuffers \subseteq r.mConnectionIds \X BufferIds
  <2>1. \A b \in BufferIds : <<c, b>> \notin p.mUsingBuffers
    BY DEF OwnedBuffers
  <2>2. p.mUsingBuffers \subseteq p.mConnectionIds \X BufferIds
    BY DEF Consistent, Named, Pools
  <2> QED BY <1>2, <2>1, <2>2 DEF SameUse
<1>4. Consistent(r)
    BY <1>2, <1>3, AsideConsistent DEF SameInvalidation
<1>5. p.mFreeBuffers \in SUBSET r.mFreeBuffers /\ p.mFreeBuffers \in SUBSET BufferIds
      /\ q = EraseBuffers(r, p.mFreeBuffers)
    BY <1>1, <1>2 DEF SameBuffers, Pools, r
<1> DEFINE bs == p.mFreeBuffers
<1> HIDE DEF bs
<1>6. Consistent(q)
    BY <1>4, <1>5, EraseConsistent
<1>7. /\ SameUse(r, q) /\ SameTransfers(r, q) /\ SameInvalidation(r, q)
      /\ q.mConnectionIds = r.mConnectionIds
  <2>1. bs \in SUBSET BufferIds /\ q = EraseBuffers(r, bs) /\ r \in Pools
    BY <1>2, <1>5 DEF bs
  <2> QED BY <2>1, EraseBuffersFields
<1> QED BY <1>2, <1>6, <1>7 DEF SameUse, SameTransfers, SameInvalidation

\* cleanUp() evicts free buffers only.
LEMMA EvictConsistent ==
    ASSUME NEW p, Consistent(p), NEW bs \in Evictions(p), NEW q, q = EraseBuffers(p, bs)
    PROVE  Consistent(q) /\ SameProtocol(p, q) /\ SameInvalidation(p, q)
<1>1. bs \in SUBSET p.mFreeBuffers /\ bs \in SUBSET BufferIds /\ p \in Pools
    BY DEF Evictions, Consistent, Pools
<1>2. Consistent(q)
    BY <1>1, EraseConsistent
<1>3. /\ SameUse(p, q) /\ SameTransfers(p, q) /\ SameInvalidation(p, q)
      /\ q.mConnectionIds = p.mConnectionIds
    BY <1>1, EraseBuffersFields
<1> QED BY <1>2, <1>3 DEF SameProtocol, SameUse

\* flush(): the request is pending, or is announced at once.
LEMMA FlushConsistent ==
    ASSUME NEW p, Consistent(p), p.posted = <<>>, NEW q, q = FlushPool(p)
    PROVE  Consistent(q) /\ SameProtocol(p, q) /\ InvalidationStep(p, q)
<1>1. p \in Pools /\ p.mStartSeq \in BufferIds /\ p.mSeq \in BufferIds /\ p.mInvalidationId \in Nat
    BY DEF Consistent, Pools
<1>2. CASE p.mStartSeq = p.mSeq
  <2>1. q = p
    BY <1>2 DEF FlushPool
  <2>2. SameInvalidation(p, q)
    BY <2>1 DEF SameInvalidation
  <2> QED BY <1>1, <2>1, <2>2, NoInvalidation DEF SameProtocol, SameTransfers
<1>3. CASE p.mStartSeq # p.mSeq
  <2> DEFINE from == p.mStartSeq
             to == p.mSeq
             range == {b \in BufferIds : IsBufferInRange(from, to, b)}
             out == p.mFreeBuffers \cap range
             e == EraseBuffers(p, out)
             rest == e.mBuffers \cap range
             left == Cardinality(rest)
             id == p.mInvalidationId + 1
             bad == e.mInvalidated \cup rest
             new == [from |-> from, to |-> to, left |-> left]
             news == <<[id |-> id, from |-> from, to |-> to]>>
  <2>1. Off(from) < Off(to) /\ Off(to) = p.allocations
    BY <1>1, <1>3, IdsAssumption DEF Consistent, Ids, Off, BufferIds
  <2>3. out \in SUBSET p.mFreeBuffers /\ out \in SUBSET BufferIds
    BY <1>1 DEF Pools
  <2>4. Consistent(e)
    BY <2>3, EraseConsistent
  <2>5. /\ e \in Pools
        /\ e.mBuffers = p.mBuffers \ out /\ e.mFreeBuffers = p.mFreeBuffers \ out
        /\ SameCounts(p, e) /\ SameUse(p, e) /\ SameTransfers(p, e) /\ SameIds(p, e)
        /\ SameInvalidation(p, e)
        /\ e.mConnectionIds = p.mConnectionIds
    <3> HIDE DEF out
    <3> QED BY <1>1, <2>3, EraseBuffersFields
  <2>6. e.mFreeBuffers \cap rest = {} /\ rest \in SUBSET e.mBuffers /\ rest \in SUBSET BufferIds
    BY <2>5
  <2>7. bad \in SUBSET BufferIds /\ bad \subseteq e.mBuffers \ e.mFreeBuffers
    BY <2>4, <2>5, <2>6 DEF Pools, Consistent, Named
  <2>8. IsFiniteSet(rest) /\ left \in Nat /\ id \in Nat
    <3> HIDE DEF rest
    <3>1. IsFiniteSet(rest)
      BY <2>6, FiniteIds, FS_Subset
    <3> QED BY <1>1, <3>1, FS_CardinalityType
  <2>9. new \in PendingRanges /\ news \in Seq(Invalidations)
    BY <1>1, <2>8 DEF PendingRanges, Invalidations
  <2>10. new.from = from /\ new.to = to /\ new.left = left
    OBVIOUS
  <2>11. Len(news) = 1 /\ news[1].id = id
    OBVIOUS
  <2>12. e.mPendings \cup {new} \in SUBSET PendingRanges
    BY <2>5, <2>9 DEF Pools
  <2>13. q = IF left = 0
             THEN [e EXCEPT !.mStartSeq = to, !.mInvalidated = bad, !.registered = TRUE,
                            !.mInvalidationId = id, !.posted = news]
             ELSE [e EXCEPT !.mStartSeq = to, !.mInvalidated = bad, !.registered = TRUE,
                            !.mInvalidationId = id, !.mPendings = e.mPendings \cup {new}]
    <3> DEFINE s == [p EXCEPT !.mStartSeq = p.mSeq]
               g == [e EXCEPT !.mStartSeq = to]
    <3>1. q = Invalidate(s, from, to)
      BY <1>3 DEF FlushPool
    <3>2. s.mInvalidationId + 1 = id /\ s.mFreeBuffers = p.mFreeBuffers
      BY <1>1 DEF Pools
    <3>3. EraseBuffers(s, out) = g
      <4> HIDE DEF out
      <4> QED BY <1>1 DEF EraseBuffers, Pools
    <3>4. g.mBuffers = e.mBuffers /\ g.mInvalidated = e.mInvalidated
      <4> HIDE DEF e
      <4> QED BY <2>5 DEF Pools
    <3> DEFINE r == [g EXCEPT !.mInvalidated = @ \cup rest, !.registered = TRUE,
                              !.mInvalidationId = id]
    <3>5. q = IF left = 0 THEN [r EXCEPT !.posted = news]
              ELSE [r EXCEPT !.mPendings = @ \cup {new}]
      <4>1. q = LET q0 == EraseBuffers(s, out)
                    r0 == [q0 EXCEPT !.mInvalidated = @ \cup (q0.mBuffers \cap range),
                                     !.registered = TRUE, !.mInvalidationId = id]
                IN  IF Cardinality(q0.mBuffers \cap range) = 0 THEN [r0 EXCEPT !.posted = news]
                    ELSE [r0 EXCEPT !.mPendings = @ \cup
                            {[from |-> from, to |-> to, left |-> Cardinality(q0.mBuffers \cap range)]}]
        BY <3>1, <3>2 DEF Invalidate
      <4> HIDE DEF s, g, e, out, range, id, news
      <4> QED BY <3>3, <3>4, <4>1
    <3> HIDE DEF e, rest, left, new, news, id, s, to, from
    <3> QED BY <2>5, <3>5 DEF Pools
  <2>14. ASSUME NEW post \in Seq(Invalidations), NEW pend \in SUBSET PendingRanges,
                q = [e EXCEPT !.mStartSeq = to, !.mInvalidated = bad, !.registered = TRUE,
                              !.mInvalidationId = id, !.posted = post, !.mPendings = pend],
                pend = e.mPendings \/ pend = e.mPendings \cup {new},
                post = <<>> \/ post = news
         PROVE  Consistent(q) /\ SameProtocol(p, q) /\ InvalidationStep(p, q)
    <3>10. to \in BufferIds /\ from \in BufferIds /\ p.allocations \in Nat
      BY <1>1 DEF Pools
    <3>11. ASSUME NEW b \in BufferIds, Off(b) < p.allocations, Off(from) <= Off(b)
           PROVE  b \in range
      <4>1. IsBufferInRange(from, to, b)
        <5> HIDE DEF from, to
        <5> QED BY <2>1, <3>10, <3>11, IdsAssumption DEF IsBufferInRange, Off, BufferIds
      <4> QED BY <4>1
    <3> HIDE DEF e, rest, left, new, news, id, bad, range, from, to
    <3>1. /\ q \in Pools
          /\ q.mBuffers = e.mBuffers /\ q.mFreeBuffers = e.mFreeBuffers /\ q.mInvalidated = bad
          /\ SameCounts(e, q) /\ SameUse(e, q) /\ SameTransfers(e, q)
          /\ q.mSeq = e.mSeq /\ q.mStartSeq = to /\ q.allocations = e.allocations
          /\ q.mConnectionIds = e.mConnectionIds /\ q.crashed = e.crashed
          /\ q.mAcks = e.mAcks /\ q.registered = TRUE /\ q.mPendings = pend
          /\ q.mInvalidationId = id /\ q.posted = post
      <4>1. bad \in SUBSET BufferIds /\ id \in Nat /\ e \in Pools
        BY <2>5, <2>7, <2>8
      <4>2. q = [e EXCEPT !.mStartSeq = to, !.mInvalidated = bad, !.registered = TRUE,
                          !.mInvalidationId = id, !.posted = post, !.mPendings = pend]
        BY <2>14
      <4>3. q \in Pools
        <5>1. [e EXCEPT !.mStartSeq = to, !.mInvalidated = bad, !.registered = TRUE,
                        !.mInvalidationId = id] \in Pools
          BY <3>10, <4>1 DEF Pools
        <5>2. ASSUME NEW o \in Pools PROVE [o EXCEPT !.posted = post, !.mPendings = pend] \in Pools
          BY DEF Pools
        <5>3. q = [[e EXCEPT !.mStartSeq = to, !.mInvalidated = bad, !.registered = TRUE,
                             !.mInvalidationId = id] EXCEPT !.posted = post, !.mPendings = pend]
          BY <4>1, <4>2 DEF Pools
        <5> QED BY <5>1, <5>2, <5>3
      <4> QED BY <4>1, <4>2, <4>3, ZenonT(30) DEF Pools, SameCounts, SameUse, SameTransfers
    <3>2. \A b : Owners(q, b) = Owners(e, b) /\ Transfers(q, b) = Transfers(e, b)
      BY <3>1 DEF Owners, Transfers, SameUse, SameTransfers, Known
    <3>3. Counts(q) /\ FreeUnless(q, {})
      BY <2>4, <3>1, <3>2 DEF Consistent, Counts, FreeUnless, SameCounts
    <3>4. Named(q)
      BY <2>4, <2>7, <3>1 DEF Consistent, Named, SameUse, SameTransfers, Known
    <3>5. Ids(q)
      <4>1. /\ q.allocations = p.allocations /\ q.mSeq = p.mSeq /\ e.mStartSeq = from
            /\ e.allocations = p.allocations
        BY <2>5, <3>1 DEF SameIds, from
      <4>2. ASSUME NEW b \in q.mBuffers
            PROVE  Off(b) < q.allocations /\ (b \in q.mInvalidated <=> Off(b) < Off(q.mStartSeq))
        <5>1. b \in e.mBuffers /\ b \in BufferIds
          BY <2>5, <3>1 DEF Pools
        <5>2. Off(b) < p.allocations /\ (b \in e.mInvalidated <=> Off(b) < Off(from))
          BY <2>4, <4>1, <5>1 DEF Consistent, Ids
        <5>3. Off(b) < Off(from) \/ Off(from) <= Off(b)
          BY <3>10, <5>1, IdsAssumption DEF Off, BufferIds
        <5>4. b \in bad
          BY <3>11, <5>1, <5>2, <5>3 DEF bad, rest
        <5> QED BY <2>1, <3>1, <4>1, <5>2, <5>4
      <4>3. q.allocations <= MaxAllocations /\ Off(q.mSeq) = q.allocations
        BY <4>1 DEF Consistent, Ids
      <4>4. Off(q.mStartSeq) <= q.allocations
        BY <2>1, <3>1, <3>10, <4>1
      <4> QED BY <4>2, <4>3, <4>4 DEF Ids
    <3>6. Ranges(q)
      <4>1. \A y : InRange(q, y) = InRange(e, y)
        BY <3>1 DEF InRange
      <4>2. ASSUME NEW y \in e.mPendings
            PROVE  /\ Off(y.from) < Off(y.to) /\ Off(y.to) <= q.allocations
                   /\ y.left = Cardinality(InRange(q, y)) /\ InRange(q, y) \subseteq q.mInvalidated
        BY <2>4, <4>1, <3>1 DEF Consistent, Ranges, bad
      <4>3. /\ Off(new.from) < Off(new.to) /\ Off(new.to) <= q.allocations
            /\ new.left = Cardinality(InRange(q, new)) /\ InRange(q, new) \subseteq q.mInvalidated
        <5>1. InRange(q, new) = rest
          BY <2>5, <2>10, <4>1 DEF InRange, rest, range, Pools
        <5>2. q.allocations = p.allocations /\ p.allocations \in Nat
          BY <2>5, <3>1, <3>10 DEF SameIds
        <5> QED BY <2>1, <2>10, <3>1, <5>1, <5>2 DEF left, bad
      <4>4. IsFiniteSet(pend)
        <5>1. IsFiniteSet(e.mPendings)
          BY <2>4 DEF Consistent, Ranges
        <5>2. IsFiniteSet(e.mPendings \cup {new})
          BY <5>1, FS_AddElement
        <5> QED BY <2>14, <5>1, <5>2
      <4> QED BY <2>14, <3>1, <4>2, <4>3, <4>4 DEF Ranges
    <3>7. Consistent(q)
      BY <2>4, <3>1, <3>3, <3>4, <3>5, <3>6 DEF Consistent
    <3>8. SameProtocol(p, q)
      BY <2>5, <3>1 DEF SameProtocol, SameUse, SameTransfers
    <3>9. InvalidationStep(p, q)
      <4>1. q.mAcks = p.mAcks
        BY <2>5, <3>1 DEF SameInvalidation
      <4>2. \A i \in 1 .. Len(q.posted) : q.posted[i].id = id
        BY <2>11, <2>14, <3>1
      <4>3. q.mInvalidationId = p.mInvalidationId + 1
        BY <3>1 DEF id
      <4> QED BY <1>1, <3>1, <4>1, <4>2, <4>3 DEF InvalidationStep, id
    <3> QED BY <3>7, <3>8, <3>9
  <2>15. e.posted = <<>> /\ e.posted \in Seq(Invalidations)
    BY <2>5 DEF SameInvalidation, Pools
  <2> HIDE DEF e, rest, left, new, news, id, bad, range, from, to
  <2>16. CASE left = 0
    <3>1. q = [e EXCEPT !.mStartSeq = to, !.mInvalidated = bad, !.registered = TRUE,
                        !.mInvalidationId = id, !.posted = news, !.mPendings = e.mPendings]
      BY <2>5, <2>13, <2>16 DEF Pools
    <3>2. e.mPendings \in SUBSET PendingRanges
      BY <2>5 DEF Pools
    <3> QED BY <2>9, <2>14, <3>1, <3>2
  <2>17. CASE left # 0
    <3> DEFINE pend == e.mPendings \cup {new}
    <3>1. q = [e EXCEPT !.mStartSeq = to, !.mInvalidated = bad, !.registered = TRUE,
                        !.mInvalidationId = id, !.posted = e.posted, !.mPendings = pend]
      BY <2>5, <2>13, <2>17 DEF Pools
    <3>2. pend \in SUBSET PendingRanges
      BY <2>12
    <3> QED BY <2>14, <2>15, <3>1, <3>2
  <2> QED BY <2>16, <2>17
<1> QED BY <1>2, <1>3

-----------------------------------------------------------------------------
(* Queues.                                                                 *)

\* The messages of a queue after a write, and after a read.
LEMMA AppendItems ==
    ASSUME NEW s \in Seq(Messages), NEW m \in Messages
    PROVE  /\ Append(s, m) \in Seq(Messages) /\ Len(Append(s, m)) = Len(s) + 1
           /\ \A i \in 1 .. Len(s) : Append(s, m)[i] = s[i]
           /\ Append(s, m)[Len(s) + 1] = m /\ Len(s) \in Nat
OBVIOUS

\* The messages of a queue after a read.
LEMMA TailItems ==
    ASSUME NEW s \in Seq(Messages), s # <<>>
    PROVE  /\ Tail(s) \in Seq(Messages) /\ Len(Tail(s)) = Len(s) - 1
           /\ \A i \in 1 .. Len(s) - 1 : Tail(s)[i] = s[i + 1]
           /\ Head(s) = s[1] /\ Head(s) \in Messages /\ Len(s) \in Nat \ {0}
OBVIOUS

\* What is said about a transfer after a write.
LEMMA AppendHas ==
    ASSUME NEW s \in Seq(Messages), NEW m \in Messages, NEW t
    PROVE  /\ HasTo(Append(s, m), t) <=> HasTo(s, t) \/ IsTo(m, t)
           /\ HasFrom(Append(s, m), t) <=> HasFrom(s, t) \/ IsFrom(m, t)
           /\ HasResult(Append(s, m), t) <=> HasResult(s, t) \/ IsResult(m, t)
<1> DEFINE r == Append(s, m)
<1>1. /\ Len(r) = Len(s) + 1 /\ (\A i \in 1 .. Len(s) : r[i] = s[i])
      /\ r[Len(s) + 1] = m /\ Len(s) \in Nat
    BY AppendItems
<1> HIDE DEF r
<1>2. \A i \in 1 .. Len(r) : i \in 1 .. Len(s) \/ i = Len(s) + 1
    BY <1>1
<1>3. \A i \in 1 .. Len(s) : i \in 1 .. Len(r)
    BY <1>1
<1>4. Len(s) + 1 \in 1 .. Len(r)
    BY <1>1
<1>5. HasTo(r, t) <=> HasTo(s, t) \/ IsTo(m, t)
    BY <1>1, <1>2, <1>3, <1>4 DEF HasTo
<1>6. HasFrom(r, t) <=> HasFrom(s, t) \/ IsFrom(m, t)
    BY <1>1, <1>2, <1>3, <1>4 DEF HasFrom
<1>7. HasResult(r, t) <=> HasResult(s, t) \/ IsResult(m, t)
    BY <1>1, <1>2, <1>3, <1>4 DEF HasResult
<1> QED BY <1>5, <1>6, <1>7 DEF r

\* What is said about a transfer before and after a read.
LEMMA TailHas ==
    ASSUME NEW s \in Seq(Messages), s # <<>>, NEW t
    PROVE  /\ HasTo(s, t) <=> HasTo(Tail(s), t) \/ IsTo(Head(s), t)
           /\ HasFrom(s, t) <=> HasFrom(Tail(s), t) \/ IsFrom(Head(s), t)
           /\ HasResult(s, t) <=> HasResult(Tail(s), t) \/ IsResult(Head(s), t)
<1> DEFINE r == Tail(s)
           m == Head(s)
<1>1. /\ Len(r) = Len(s) - 1 /\ (\A i \in 1 .. Len(s) - 1 : r[i] = s[i + 1])
      /\ s[1] = m /\ Len(s) \in Nat \ {0}
    BY TailItems
<1> HIDE DEF r, m
<1>2. \A i \in 1 .. Len(s) : i = 1 \/ (i - 1 \in 1 .. Len(r) /\ s[i] = r[i - 1])
    BY <1>1
<1>3. \A i \in 1 .. Len(r) : i + 1 \in 1 .. Len(s) /\ r[i] = s[i + 1]
    BY <1>1
<1>4. 1 \in 1 .. Len(s)
    BY <1>1
<1>5. HasTo(s, t) <=> HasTo(r, t) \/ IsTo(m, t)
    BY <1>1, <1>2, <1>3, <1>4 DEF HasTo
<1>6. HasFrom(s, t) <=> HasFrom(r, t) \/ IsFrom(m, t)
    BY <1>1, <1>2, <1>3, <1>4 DEF HasFrom
<1>7. HasResult(s, t) <=> HasResult(r, t) \/ IsResult(m, t)
    BY <1>1, <1>2, <1>3, <1>4 DEF HasResult
<1> QED BY <1>5, <1>6, <1>7 DEF r, m

\* What is granted before a message does not depend on the messages after it.
LEMMA GrantedPrefix ==
    ASSUME NEW s, NEW r, NEW n \in Nat, \A i \in 1 .. n : r[i] = s[i],
           NEW U, NEW c, NEW b, NEW j \in 1 .. n + 1
    PROVE  Granted(U, c, s, b, j) <=> Granted(U, c, r, b, j)
<1>1. \A i \in 1 .. j - 1 : r[i] = s[i]
    OBVIOUS
<1>2. \A i \in 1 .. j - 1 : \A k \in i + 1 .. j - 1 : r[k] = s[k]
    OBVIOUS
<1> QED BY <1>1, <1>2 DEF Granted

\* Who is granted a buffer after a write.
LEMMA AppendGranted ==
    ASSUME NEW s \in Seq(Messages), NEW m \in Messages, NEW U, NEW c, NEW b
    PROVE  /\ \A j \in 1 .. Len(s) + 1 : Granted(U, c, s, b, j) <=> Granted(U, c, Append(s, m), b, j)
           /\ Holds(U, c, Append(s, m), b) <=> (Holds(U, c, s, b) /\ ~Releases(m, b)) \/ Grants(m, b)
           /\ \A t : GrantedTo(U, c, s, b, t) => GrantedTo(U, c, Append(s, m), b, t)
           /\ \A t : Holds(U, c, s, b) /\ IsTo(m, t) => GrantedTo(U, c, Append(s, m), b, t)
<1> DEFINE r == Append(s, m)
           n == Len(s)
<1>1. /\ Len(r) = n + 1 /\ (\A i \in 1 .. n : r[i] = s[i]) /\ r[n + 1] = m /\ n \in Nat
    BY AppendItems
<1> HIDE DEF r, n
<1>2. \A j \in 1 .. n + 1 : Granted(U, c, s, b, j) <=> Granted(U, c, r, b, j)
    BY <1>1, GrantedPrefix
<1>3. Granted(U, c, r, b, n + 2) <=> (Granted(U, c, r, b, n + 1) /\ ~Releases(m, b)) \/ Grants(m, b)
  <2>1. \A i \in 1 .. n + 1 : i \in 1 .. n \/ i = n + 1
    BY <1>1
  <2>2. (n + 2) - 1 = n + 1 /\ (n + 1) - 1 = n
    BY <1>1
  <2>3. ASSUME Granted(U, c, r, b, n + 2) PROVE (Granted(U, c, r, b, n + 1) /\ ~Releases(m, b)) \/ Grants(m, b)
    <3>1. CASE <<c, b>> \in U /\ \A i \in 1 .. n + 1 : ~Releases(r[i], b)
      BY <1>1, <3>1, <2>2 DEF Granted
    <3>2. ASSUME NEW i \in 1 .. n + 1, Grants(r[i], b), \A k \in i + 1 .. n + 1 : ~Releases(r[k], b)
          PROVE  (Granted(U, c, r, b, n + 1) /\ ~Releases(m, b)) \/ Grants(m, b)
      <4>1. CASE i = n + 1
        BY <1>1, <3>2, <4>1
      <4>2. CASE i \in 1 .. n
        <5>1. n + 1 \in i + 1 .. n + 1 /\ \A k \in i + 1 .. n : k \in i + 1 .. n + 1
          BY <1>1, <4>2
        <5> QED BY <1>1, <2>2, <3>2, <4>2, <5>1 DEF Granted
      <4> QED BY <2>1, <4>1, <4>2
    <3> QED BY <2>2, <2>3, <3>1, <3>2 DEF Granted
  <2>4. ASSUME Grants(m, b) PROVE Granted(U, c, r, b, n + 2)
    <3>1. n + 1 \in 1 .. n + 1 /\ \A k \in (n + 1) + 1 .. n + 1 : FALSE
      BY <1>1
    <3> QED BY <1>1, <2>2, <2>4, <3>1 DEF Granted
  <2>5. ASSUME Granted(U, c, r, b, n + 1), ~Releases(m, b) PROVE Granted(U, c, r, b, n + 2)
    <3>1. CASE <<c, b>> \in U /\ \A i \in 1 .. n : ~Releases(r[i], b)
      BY <1>1, <2>1, <2>2, <2>5, <3>1 DEF Granted
    <3>2. ASSUME NEW i \in 1 .. n, Grants(r[i], b), \A k \in i + 1 .. n : ~Releases(r[k], b)
          PROVE  Granted(U, c, r, b, n + 2)
      <4>1. i \in 1 .. n + 1 /\ \A k \in i + 1 .. n + 1 : k \in i + 1 .. n \/ k = n + 1
        BY <1>1
      <4>2. \A k \in i + 1 .. n + 1 : ~Releases(r[k], b)
        BY <1>1, <2>5, <3>2, <4>1
      <4> QED BY <2>2, <3>2, <4>1, <4>2 DEF Granted
    <3> QED BY <2>2, <2>5, <3>1, <3>2 DEF Granted
  <2> QED BY <2>3, <2>4, <2>5
<1>4. Holds(U, c, r, b) <=> (Holds(U, c, s, b) /\ ~Releases(m, b)) \/ Grants(m, b)
  <2>1. Len(r) + 1 = n + 2 /\ n + 1 \in 1 .. n + 1
    BY <1>1
  <2> QED BY <1>2, <1>3, <2>1 DEF Holds, n
<1>5. ASSUME NEW t, GrantedTo(U, c, s, b, t) PROVE GrantedTo(U, c, r, b, t)
  <2>1. PICK i \in 1 .. n : IsTo(s[i], t) /\ Granted(U, c, s, b, i)
    BY <1>5 DEF GrantedTo, n
  <2>2. i \in 1 .. n + 1 /\ i \in 1 .. Len(r) /\ r[i] = s[i]
    BY <1>1
  <2> QED BY <1>2, <2>1, <2>2 DEF GrantedTo
<1>6. ASSUME NEW t, Holds(U, c, s, b), IsTo(m, t) PROVE GrantedTo(U, c, r, b, t)
  <2>1. n + 1 \in 1 .. Len(r) /\ n + 1 \in 1 .. n + 1
    BY <1>1
  <2> QED BY <1>1, <1>2, <1>6, <2>1 DEF GrantedTo, Holds, n
<1> QED BY <1>2, <1>4, <1>5, <1>6 DEF r, n

\* The pool handles the first message, and then U2 says who uses what.
LEMMA TailGranted ==
    ASSUME NEW s \in Seq(Messages), s # <<>>, NEW U, NEW U2, NEW c, NEW b
    PROVE  /\ ((<<c, b>> \in U /\ ~Releases(Head(s), b)) \/ Grants(Head(s), b) => <<c, b>> \in U2) =>
                /\ \A j \in 2 .. Len(s) + 1 : Granted(U, c, s, b, j) => Granted(U2, c, Tail(s), b, j - 1)
                /\ Holds(U, c, s, b) => Holds(U2, c, Tail(s), b)
                /\ \A t : GrantedTo(U, c, s, b, t) /\ ~IsTo(Head(s), t) => GrantedTo(U2, c, Tail(s), b, t)
           /\ (<<c, b>> \in U2 => (<<c, b>> \in U /\ ~Releases(Head(s), b)) \/ Grants(Head(s), b)) =>
                /\ Holds(U2, c, Tail(s), b) => Holds(U, c, s, b)
<1> DEFINE r == Tail(s)
           m == Head(s)
           n == Len(s)
<1>1. /\ Len(r) = n - 1 /\ (\A i \in 1 .. n - 1 : r[i] = s[i + 1]) /\ s[1] = m /\ n \in Nat \ {0}
    BY TailItems
<1> HIDE DEF r, m, n
<1>2. ASSUME (<<c, b>> \in U /\ ~Releases(m, b)) \/ Grants(m, b) => <<c, b>> \in U2,
             NEW j \in 2 .. n + 1, Granted(U, c, s, b, j)
      PROVE  Granted(U2, c, r, b, j - 1)
  <2>1. \A i \in 1 .. (j - 1) - 1 : i + 1 \in 1 .. j - 1 /\ i + 1 \in 2 .. j - 1 /\ r[i] = s[i + 1]
    BY <1>1
  <2>2. CASE <<c, b>> \in U /\ \A i \in 1 .. j - 1 : ~Releases(s[i], b)
    <3>1. 1 \in 1 .. j - 1
      BY <1>1
    <3> QED BY <1>1, <1>2, <2>1, <2>2, <3>1 DEF Granted
  <2>3. ASSUME NEW i \in 1 .. j - 1, Grants(s[i], b), \A k \in i + 1 .. j - 1 : ~Releases(s[k], b)
        PROVE  Granted(U2, c, r, b, j - 1)
    <3>1. CASE i = 1
      BY <1>1, <1>2, <2>1, <2>3, <3>1 DEF Granted
    <3>2. CASE i # 1
      <4>1. i - 1 \in 1 .. (j - 1) - 1 /\ r[i - 1] = s[i]
        BY <1>1, <3>2
      <4>2. \A k \in (i - 1) + 1 .. (j - 1) - 1 : k + 1 \in i + 1 .. j - 1 /\ r[k] = s[k + 1]
        BY <1>1, <3>2
      <4> QED BY <2>3, <4>1, <4>2 DEF Granted
    <3> QED BY <3>1, <3>2
  <2> QED BY <1>2, <2>2, <2>3 DEF Granted
<1>3. ASSUME (<<c, b>> \in U /\ ~Releases(m, b)) \/ Grants(m, b) => <<c, b>> \in U2, Holds(U, c, s, b) PROVE Holds(U2, c, r, b)
  <2>1. n + 1 \in 2 .. n + 1 /\ (n + 1) - 1 = Len(r) + 1
    BY <1>1
  <2>2. Granted(U, c, s, b, n + 1)
    BY <1>3 DEF Holds, n
  <2>3. Granted(U2, c, r, b, (n + 1) - 1)
    BY <1>2, <1>3, <2>1, <2>2
  <2> QED BY <2>1, <2>3 DEF Holds
<1>4. ASSUME (<<c, b>> \in U /\ ~Releases(m, b)) \/ Grants(m, b) => <<c, b>> \in U2, NEW t, GrantedTo(U, c, s, b, t), ~IsTo(m, t)
      PROVE  GrantedTo(U2, c, r, b, t)
  <2>1. PICK i \in 1 .. n : IsTo(s[i], t) /\ Granted(U, c, s, b, i)
    BY <1>4 DEF GrantedTo, n
  <2>2. i \in 2 .. n + 1 /\ i - 1 \in 1 .. Len(r) /\ r[i - 1] = s[i]
    BY <1>1, <1>4, <2>1
  <2>3. Granted(U2, c, r, b, i - 1)
    BY <1>2, <1>4, <2>1, <2>2
  <2> QED BY <2>1, <2>2, <2>3 DEF GrantedTo
<1>5. ASSUME <<c, b>> \in U2 => (<<c, b>> \in U /\ ~Releases(m, b)) \/ Grants(m, b), Holds(U2, c, r, b) PROVE Holds(U, c, s, b)
  <2>1. Len(r) + 1 = n /\ (Len(r) + 1) - 1 = n - 1
    BY <1>1
  <2>2. CASE <<c, b>> \in U2 /\ \A i \in 1 .. n - 1 : ~Releases(r[i], b)
    <3>1. \A k \in 2 .. n : ~Releases(s[k], b)
      <4>1. \A k \in 2 .. n : k - 1 \in 1 .. n - 1 /\ r[k - 1] = s[k]
        BY <1>1
      <4> QED BY <2>2, <4>1
    <3>2. CASE Grants(m, b)
      <4>1. 1 \in 1 .. (n + 1) - 1 /\ (n + 1) - 1 = n /\ 1 + 1 = 2
        BY <1>1
      <4> QED BY <1>1, <3>1, <3>2, <4>1 DEF Holds, Granted, n
    <3>3. CASE <<c, b>> \in U /\ ~Releases(m, b)
      <4>1. \A k \in 1 .. (n + 1) - 1 : k = 1 \/ k \in 2 .. n
        BY <1>1
      <4>2. \A k \in 1 .. (n + 1) - 1 : ~Releases(s[k], b)
        BY <1>1, <3>1, <3>3, <4>1
      <4> QED BY <3>3, <4>2 DEF Holds, Granted, n
    <3> QED BY <1>5, <2>2, <3>2, <3>3
  <2>3. ASSUME NEW i \in 1 .. n - 1, Grants(r[i], b), \A k \in i + 1 .. n - 1 : ~Releases(r[k], b)
        PROVE  Holds(U, c, s, b)
    <3>1. i + 1 \in 1 .. (n + 1) - 1 /\ s[i + 1] = r[i]
      BY <1>1
    <3>2. \A k \in (i + 1) + 1 .. (n + 1) - 1 : k - 1 \in i + 1 .. n - 1 /\ r[k - 1] = s[k]
      BY <1>1
    <3>3. \A k \in (i + 1) + 1 .. (n + 1) - 1 : ~Releases(s[k], b)
      BY <2>3, <3>2
    <3> QED BY <2>3, <3>1, <3>3 DEF Holds, Granted, n
  <2> QED BY <1>5, <2>1, <2>2, <2>3 DEF Holds, Granted
<1> QED BY <1>2, <1>3, <1>4, <1>5 DEF r, m, n

-----------------------------------------------------------------------------
(* The protocol of transfers, when messages are posted,                    *)

\* What follows when a connection posts a message, and when the pool handles its first one
Posted(S, S2, c, m) ==
    /\ S2 \in AllStreams
    /\ \A d \in Connections : \A t :
        /\ HasTo(S2[d], t) <=> HasTo(S[d], t) \/ (d = c /\ IsTo(m, t))
        /\ HasFrom(S2[d], t) <=> HasFrom(S[d], t) \/ (d = c /\ IsFrom(m, t))
        /\ HasResult(S2[d], t) <=> HasResult(S[d], t) \/ (d = c /\ IsResult(m, t))
    /\ \A d \in Connections : \A U, b, t :
        /\ GrantedTo(U, d, S[d], b, t) => GrantedTo(U, d, S2[d], b, t)
        /\ d = c /\ Holds(U, c, S[c], b) /\ IsTo(m, t) => GrantedTo(U, d, S2[d], b, t)
    /\ \A x : Sane(S, x) /\ MessageOK(x, c, m) => Sane(S2, x)
    /\ InOrder(S) /\ (\A i \in 1 .. Len(S[c]) : PairOK(S[c][i], m)) => InOrder(S2)

\* S2 is S after the pool has read the message m of c.
WasRead(S, S2, c, m) ==
    /\ S2 \in AllStreams /\ m \in Messages
    /\ \A d \in Connections : \A t :
        /\ HasTo(S[d], t) <=> HasTo(S2[d], t) \/ (d = c /\ IsTo(m, t))
        /\ HasFrom(S[d], t) <=> HasFrom(S2[d], t) \/ (d = c /\ IsFrom(m, t))
        /\ HasResult(S[d], t) <=> HasResult(S2[d], t) \/ (d = c /\ IsResult(m, t))
    /\ \A d \in Connections : \A U, U2, b, t :
        /\ GrantedTo(U, d, S[d], b, t) /\ ~(d = c /\ IsTo(m, t))
        /\ (<<d, b>> \in U /\ ~(d = c /\ Releases(m, b))) \/ (d = c /\ Grants(m, b)) => <<d, b>> \in U2
        => GrantedTo(U2, d, S2[d], b, t)
    /\ \A x : Sane(S, x) => Sane(S2, x) /\ MessageOK(x, c, m)
    /\ InOrder(S) => InOrder(S2) /\ (\A i \in 1 .. Len(S2[c]) : PairOK(m, S2[c][i]))

\* A message is appended to the queue of c.
LEMMA PostStream ==
    ASSUME NEW S \in AllStreams, NEW c \in Connections, NEW m \in Messages,
           NEW S2, S2 = [S EXCEPT ![c] = Append(S[c], m)]
    PROVE  Posted(S, S2, c, m)
<1>1. S[c] \in Seq(Messages) /\ S2[c] = Append(S[c], m) /\ (\A d \in Connections : d # c => S2[d] = S[d])
    BY DEF AllStreams
<1>2. S2 \in AllStreams
    BY <1>1, AppendItems DEF AllStreams
<1>3. ASSUME NEW d \in Connections, NEW t
      PROVE  /\ HasTo(S2[d], t) <=> HasTo(S[d], t) \/ (d = c /\ IsTo(m, t))
             /\ HasFrom(S2[d], t) <=> HasFrom(S[d], t) \/ (d = c /\ IsFrom(m, t))
             /\ HasResult(S2[d], t) <=> HasResult(S[d], t) \/ (d = c /\ IsResult(m, t))
    BY <1>1, AppendHas
<1>4. ASSUME NEW d \in Connections, NEW U, NEW b, NEW t
      PROVE  /\ GrantedTo(U, d, S[d], b, t) => GrantedTo(U, d, S2[d], b, t)
             /\ d = c /\ Holds(U, c, S[c], b) /\ IsTo(m, t) => GrantedTo(U, d, S2[d], b, t)
  <2>1. CASE d = c
    BY <1>1, <2>1, AppendGranted
  <2>2. CASE d # c
    BY <1>1, <2>2
  <2> QED BY <2>1, <2>2
<1>5. /\ Len(S2[c]) = Len(S[c]) + 1 /\ Len(S[c]) \in Nat
      /\ (\A i \in 1 .. Len(S[c]) : S2[c][i] = S[c][i]) /\ S2[c][Len(S[c]) + 1] = m
    BY <1>1, AppendItems
<1>6. \A i \in 1 .. Len(S2[c]) : i \in 1 .. Len(S[c]) \/ i = Len(S[c]) + 1
    BY <1>5
<1>7. ASSUME NEW x, Sane(S, x), MessageOK(x, c, m) PROVE Sane(S2, x)
    BY <1>1, <1>5, <1>6, <1>7 DEF Sane
<1>8. ASSUME InOrder(S), \A i \in 1 .. Len(S[c]) : PairOK(S[c][i], m) PROVE InOrder(S2)
  <2>1. ASSUME NEW d \in Connections, NEW i \in 1 .. Len(S2[d]), NEW j \in 1 .. Len(S2[d]), i < j
        PROVE  PairOK(S2[d][i], S2[d][j])
    <3>1. CASE d # c
      BY <1>1, <1>8, <2>1, <3>1 DEF InOrder
    <3>2. CASE d = c
      <4>1. i \in 1 .. Len(S[c])
        BY <1>5, <2>1, <3>2
      <4>2. CASE j = Len(S[c]) + 1
        BY <1>5, <1>8, <3>2, <4>1, <4>2
      <4>3. CASE j \in 1 .. Len(S[c])
        BY <1>5, <1>8, <2>1, <3>2, <4>1, <4>3 DEF InOrder
      <4> QED BY <1>6, <2>1, <3>2, <4>2, <4>3
    <3> QED BY <3>1, <3>2
  <2> QED BY <2>1 DEF InOrder
<1> QED BY <1>2, <1>3, <1>4, <1>7, <1>8 DEF Posted

\* The first message of the queue of c is removed.
LEMMA ReadStream ==
    ASSUME NEW S \in AllStreams, NEW c \in Connections, S[c] # <<>>,
           NEW S2, S2 = [S EXCEPT ![c] = Tail(S[c])], NEW m, m = Head(S[c])
    PROVE  WasRead(S, S2, c, m)
<1>1. /\ S[c] \in Seq(Messages) /\ S2[c] = Tail(S[c]) /\ (\A d \in Connections : d # c => S2[d] = S[d])
    BY DEF AllStreams
<1>2. /\ S2[c] \in Seq(Messages) /\ Len(S2[c]) = Len(S[c]) - 1
      /\ \A i \in 1 .. Len(S[c]) - 1 : S2[c][i] = S[c][i + 1]
      /\ m = S[c][1] /\ m \in Messages /\ Len(S[c]) \in Nat \ {0}
    BY <1>1, TailItems
<1>3. S2 \in AllStreams
    BY <1>1, <1>2 DEF AllStreams
<1>4. ASSUME NEW d \in Connections, NEW t
      PROVE  /\ HasTo(S[d], t) <=> HasTo(S2[d], t) \/ (d = c /\ IsTo(m, t))
             /\ HasFrom(S[d], t) <=> HasFrom(S2[d], t) \/ (d = c /\ IsFrom(m, t))
             /\ HasResult(S[d], t) <=> HasResult(S2[d], t) \/ (d = c /\ IsResult(m, t))
    BY <1>1, TailHas
<1>5. ASSUME NEW d \in Connections, NEW U, NEW U2, NEW b, NEW t,
             GrantedTo(U, d, S[d], b, t), ~(d = c /\ IsTo(m, t)),
             (<<d, b>> \in U /\ ~(d = c /\ Releases(m, b))) \/ (d = c /\ Grants(m, b)) => <<d, b>> \in U2
      PROVE  GrantedTo(U2, d, S2[d], b, t)
  <2>1. CASE d = c
    <3>1. (<<c, b>> \in U /\ ~Releases(m, b)) \/ Grants(m, b) => <<c, b>> \in U2
      BY <1>5, <2>1
    <3>2. \A v : GrantedTo(U, c, S[c], b, v) /\ ~IsTo(m, v) => GrantedTo(U2, c, Tail(S[c]), b, v)
      BY <1>1, <3>1, TailGranted
    <3>3. GrantedTo(U, c, S[c], b, t) /\ ~IsTo(m, t)
      BY <1>5, <2>1
    <3> QED BY <1>1, <2>1, <3>2, <3>3
  <2>2. CASE d # c
    BY <1>1, <1>5, <2>2 DEF GrantedTo, Granted
  <2> QED BY <2>1, <2>2
<1>6. \A i \in 1 .. Len(S2[c]) : i + 1 \in 1 .. Len(S[c]) /\ 1 < i + 1 /\ S2[c][i] = S[c][i + 1]
    BY <1>2
<1>7. 1 \in 1 .. Len(S[c])
    BY <1>2
<1>8. ASSUME NEW x, Sane(S, x) PROVE Sane(S2, x) /\ MessageOK(x, c, m)
    BY <1>1, <1>2, <1>6, <1>7, <1>8 DEF Sane
<1>9. ASSUME InOrder(S) PROVE InOrder(S2) /\ (\A i \in 1 .. Len(S2[c]) : PairOK(m, S2[c][i]))
  <2>1. \A i \in 1 .. Len(S2[c]) : PairOK(m, S2[c][i])
    BY <1>2, <1>6, <1>7, <1>9 DEF InOrder
  <2>2. ASSUME NEW d \in Connections, NEW i \in 1 .. Len(S2[d]), NEW j \in 1 .. Len(S2[d]), i < j
        PROVE  PairOK(S2[d][i], S2[d][j])
    <3>1. CASE d # c
      BY <1>1, <1>9, <2>2, <3>1 DEF InOrder
    <3>2. CASE d = c
      <4>1. i + 1 < j + 1
        BY <1>2, <2>2, <3>2
      <4> QED BY <1>6, <1>9, <2>2, <3>2, <4>1 DEF InOrder
    <3> QED BY <3>1, <3>2
  <2> QED BY <2>1, <2>2 DEF InOrder
<1> QED BY <1>2, <1>3, <1>4, <1>5, <1>8, <1>9 DEF WasRead

\* Streams that say the same about transfers.
LEMMA SameSaid ==
    ASSUME NEW S \in AllStreams, NEW S2 \in AllStreams, NEW x \in AllTransfers,
           NEW p, NEW live, NEW st, Protocol(S, x, p, live, st),
           Sane(S2, x), InOrder(S2),
           \A d \in Connections : \A t :
                /\ HasTo(S2[d], t) <=> HasTo(S[d], t)
                /\ HasFrom(S2[d], t) <=> HasFrom(S[d], t)
                /\ HasResult(S2[d], t) <=> HasResult(S[d], t),
           \A d \in Connections : \A U, b, t :
                GrantedTo(U, d, S[d], b, t) => GrantedTo(U, d, S2[d], b, t)
    PROVE  Protocol(S2, x, p, live, st)
<1>1. \A t \in Transactions : x[t].from \in Connections /\ x[t].to \in Connections
    BY DEF AllTransfers, TransferStates
<1>2. \A t \in Transactions : /\ Unfinished(S2, x, t) <=> Unfinished(S, x, t)
                              /\ Interest(S2, x, live, t) <=> Interest(S, x, live, t)
    BY <1>1 DEF Unfinished, Interest
<1>3. Open(S2, x) /\ Real(S2, x, p) /\ Over(S2, x, p, live)
    BY <1>1, <1>2 DEF Protocol, Open, Real, Over
<1>4. Kept(S2, x, p, live)
    BY <1>1, <1>2 DEF Protocol, Kept
<1>5. Received(S2, x, p) /\ Validated(S2, x, p) /\ Remembered(S2, x, p)
    BY <1>1, <1>2 DEF Protocol, Received, Validated, Remembered
<1> QED BY <1>3, <1>4, <1>5 DEF Protocol

\* The messages that are not about transfers.
Neutral == {"NOT_USED", "TRANSFER_TIMEOUT", "INVALIDATION_ACK"}

\* They say nothing about transfers, and may come anywhere.
LEMMA NeutralMessage ==
    ASSUME NEW m, m.newStatus \in Neutral
    PROVE  /\ \A t : ~IsTo(m, t) /\ ~IsFrom(m, t) /\ ~IsResult(m, t)
           /\ \A b : ~Grants(m, b)
           /\ \A n : PairOK(n, m) /\ PairOK(m, n)
           /\ \A x, c : (m.newStatus = "NOT_USED" => m.bufferId \in BufferIds) => MessageOK(x, c, m)
BY DEF Neutral, IsTo, IsFrom, IsResult, Grants, PairOK, MessageOK, Results

\* The protocol does not depend on them.
LEMMA PostNeutral ==
    ASSUME NEW S \in AllStreams, NEW x \in AllTransfers,
           NEW p, NEW live, NEW st, Protocol(S, x, p, live, st),
           NEW c \in Connections, NEW m \in Messages, m.newStatus \in Neutral,
           m.newStatus = "NOT_USED" => m.bufferId \in BufferIds,
           NEW S2, S2 = [S EXCEPT ![c] = Append(S[c], m)]
    PROVE  Protocol(S2, x, p, live, st)
<1>1. /\ S2 \in AllStreams
      /\ \A d \in Connections : \A t :
            /\ HasTo(S2[d], t) <=> HasTo(S[d], t) \/ (d = c /\ IsTo(m, t))
            /\ HasFrom(S2[d], t) <=> HasFrom(S[d], t) \/ (d = c /\ IsFrom(m, t))
            /\ HasResult(S2[d], t) <=> HasResult(S[d], t) \/ (d = c /\ IsResult(m, t))
      /\ \A d \in Connections : \A U, b, t :
            GrantedTo(U, d, S[d], b, t) => GrantedTo(U, d, S2[d], b, t)
      /\ Sane(S, x) /\ MessageOK(x, c, m) => Sane(S2, x)
      /\ InOrder(S) /\ (\A i \in 1 .. Len(S[c]) : PairOK(S[c][i], m)) => InOrder(S2)
  <2>1. Posted(S, S2, c, m)
    BY PostStream
  <2> QED BY <2>1 DEF Posted
<1>2. /\ MessageOK(x, c, m) /\ \A n : PairOK(n, m)
      /\ \A t : ~IsTo(m, t) /\ ~IsFrom(m, t) /\ ~IsResult(m, t)
    BY NeutralMessage
<1>3. Sane(S2, x) /\ InOrder(S2)
    BY <1>1, <1>2 DEF Protocol
<1> QED BY <1>1, <1>2, <1>3, SameSaid

\* A transfer goes on, or is given up, without a word about its end.
LEMMA MoveOn ==
    ASSUME NEW S \in AllStreams, NEW x \in AllTransfers,
           NEW p, NEW live, NEW st, Protocol(S, x, p, live, st),
           NEW x2 \in AllTransfers,
           \A t \in Transactions :
                \/ x2[t] = x[t]
                \/ /\ x2[t].b = x[t].b /\ x2[t].from = x[t].from /\ x2[t].to = x[t].to
                   /\ \/ x[t].pc \in Receiving \cup {"sent"} /\ x2[t].pc = "abandoned"
                      \/ x[t].pc \in Receiving /\ x2[t].pc \in Receiving
    PROVE  Protocol(S, x2, p, live, st)
<1>1. \A t \in Transactions :
        /\ x2[t].b = x[t].b /\ x2[t].from = x[t].from /\ x2[t].to = x[t].to
        /\ x2[t].pc = "none" <=> x[t].pc = "none"
        /\ x2[t].pc = "done" <=> x[t].pc = "done"
        /\ x2[t].pc \in Receiving => x[t].pc \in Receiving
        /\ x2[t].pc = "sent" => x[t].pc = "sent"
    BY DEF Receiving
<1>2. \A t \in Transactions : /\ Unfinished(S, x2, t) <=> Unfinished(S, x, t)
                              /\ Interest(S, x2, live, t) <=> Interest(S, x, live, t)
    BY <1>1 DEF Unfinished, Interest
<1>3. ASSUME NEW c, NEW m, MessageOK(x, c, m) PROVE MessageOK(x2, c, m)
    BY <1>1, <1>3 DEF MessageOK
<1>4. Sane(S, x2) /\ InOrder(S)
    BY <1>3 DEF Protocol, Sane
<1>5. Open(S, x2) /\ Begun(x2, st) /\ Here(x2, st) /\ Addressed(x2, p)
    BY <1>1, <1>2 DEF Protocol, Open, Begun, Here, Addressed
<1>6. Real(S, x2, p) /\ Kept(S, x2, p, live) /\ Over(S, x2, p, live)
    BY <1>1, <1>2 DEF Protocol, Real, Kept, Over
<1>7. Received(S, x2, p) /\ Validated(S, x2, p) /\ Remembered(S, x2, p)
    BY <1>1, <1>2 DEF Protocol, Received, Validated, Remembered
<1> QED BY <1>4, <1>5, <1>6, <1>7 DEF Protocol

\* postSend(): a transfer begins.
LEMMA BeginTransfer ==
    ASSUME NEW S \in AllStreams, NEW x \in AllTransfers,
           NEW p, NEW live, NEW st, Protocol(S, x, p, live, st),
           NEW t \in Transactions, x[t].pc = "none", \A s \in Transactions : s < t => x[s].pc # "none",
           NEW c \in Connections, NEW r \in Connections, st[r] # "new", NEW b \in BufferIds,
           Holds(p.mUsingBuffers, c, S[c], b),
           NEW x2, x2 = [x EXCEPT ![t] = [pc |-> "sent", b |-> b, from |-> c, to |-> r]],
           NEW S2, S2 = [S EXCEPT ![c] = Append(S[c], Message("TRANSFER_TO", b, t, r))]
    PROVE  Protocol(S2, x2, p, live, st)
<1> DEFINE m == Message("TRANSFER_TO", b, t, r)
<1>1. /\ m \in Messages /\ m.newStatus = "TRANSFER_TO" /\ m.bufferId = b /\ m.transactionId = t
      /\ m.targetConnectionId = r
    BY ConnectionsAssumption, TransactionsAssumption DEF Message, Messages, Statuses, BufferIds
<1> HIDE DEF m
<1>2. /\ x2 \in AllTransfers
      /\ x2[t].pc = "sent" /\ x2[t].b = b /\ x2[t].from = c /\ x2[t].to = r
      /\ \A s \in Transactions : s # t => x2[s] = x[s]
    BY DEF AllTransfers, TransferStates
<1>3. /\ S2 \in AllStreams
      /\ \A d \in Connections : \A s :
            /\ HasTo(S2[d], s) <=> HasTo(S[d], s) \/ (d = c /\ IsTo(m, s))
            /\ HasFrom(S2[d], s) <=> HasFrom(S[d], s) \/ (d = c /\ IsFrom(m, s))
            /\ HasResult(S2[d], s) <=> HasResult(S[d], s) \/ (d = c /\ IsResult(m, s))
      /\ \A d \in Connections : \A U, v, s :
            /\ GrantedTo(U, d, S[d], v, s) => GrantedTo(U, d, S2[d], v, s)
            /\ d = c /\ Holds(U, c, S[c], v) /\ IsTo(m, s) => GrantedTo(U, d, S2[d], v, s)
      /\ Sane(S, x2) /\ MessageOK(x2, c, m) => Sane(S2, x2)
      /\ InOrder(S) /\ (\A i \in 1 .. Len(S[c]) : PairOK(S[c][i], m)) => InOrder(S2)
    <2>1. S2 = [S EXCEPT ![c] = Append(S[c], m)]
      BY DEF m
    <2>2. Posted(S, S2, c, m)
      BY <1>1, <2>1, PostStream
    <2> QED BY <2>2 DEF Posted
<1>4. \A s : (IsTo(m, s) <=> s = t) /\ ~IsFrom(m, s) /\ ~IsResult(m, s)
    BY <1>1 DEF IsTo, IsFrom, IsResult, Results
    \* Nothing has been said about t.
<1>5. ASSUME NEW d, NEW n, MessageOK(x, d, n)
      PROVE  /\ MessageOK(x2, d, n)
             /\ n.newStatus \in {"TRANSFER_TO", "TRANSFER_FROM"} \cup Results =>
                    n.transactionId \in Transactions /\ n.transactionId < t
  <2>1. n.newStatus \in {"TRANSFER_TO", "TRANSFER_FROM"} \cup Results =>
            n.transactionId \in Transactions /\ x[n.transactionId].pc # "none"
    BY <1>5 DEF MessageOK, Results
  <2>2. ASSUME NEW s \in Transactions, x[s].pc # "none" PROVE s < t
    <3>1. s # t /\ ~(t < s)
      BY <2>2 DEF Protocol, Begun
    <3>2. s \in Nat /\ t \in Nat
      BY TransactionsAssumption
    <3> QED BY <3>1, <3>2
  <2>3. ASSUME NEW s \in Transactions, s < t PROVE s # t
    BY <2>3, TransactionsAssumption
  <2>4. n.newStatus \in {"TRANSFER_TO", "TRANSFER_FROM"} \cup Results =>
            n.transactionId \in Transactions /\ n.transactionId < t /\ x2[n.transactionId] = x[n.transactionId]
    BY <1>2, <2>1, <2>2, <2>3
  <2> QED BY <1>5, <2>4 DEF MessageOK
<1>6. \A s \in Transactions : \A d \in Connections :
        HasTo(S[d], s) \/ HasFrom(S[d], s) \/ HasResult(S[d], s) => s # t
  <2>1. ASSUME NEW d \in Connections, NEW i \in 1 .. Len(S[d]),
               S[d][i].newStatus \in {"TRANSFER_TO", "TRANSFER_FROM"} \cup Results
        PROVE  S[d][i].transactionId # t
    <3>1. MessageOK(x, d, S[d][i])
      BY DEF Protocol, Sane
    <3>2. S[d][i].transactionId \in Transactions /\ S[d][i].transactionId < t
      BY <1>5, <2>1, <3>1
    <3> QED BY <3>2, TransactionsAssumption
  <2> QED BY <2>1 DEF HasTo, HasFrom, HasResult, IsTo, IsFrom, IsResult
<1>7. Sane(S2, x2)
  <2>1. Sane(S, x2)
    BY <1>5 DEF Protocol, Sane
  <2>2. MessageOK(x2, c, m)
    BY <1>1, <1>2 DEF MessageOK, Results
  <2> QED BY <1>3, <2>1, <2>2
<1>8. InOrder(S2)
  <2>1. ASSUME NEW i \in 1 .. Len(S[c]) PROVE PairOK(S[c][i], m)
    <3> DEFINE n == S[c][i]
    <3>1. MessageOK(x, c, n)
      BY DEF Protocol, Sane
    <3> HIDE DEF n
    <3>2. n.newStatus \in {"TRANSFER_TO", "TRANSFER_OK"} =>
            n.transactionId < t /\ n.transactionId \in Nat /\ t \in Nat
      BY <1>5, <3>1, TransactionsAssumption DEF Results
    <3>3. PairOK(n, m)
      BY <1>1, <3>2 DEF PairOK, Results
    <3> QED BY <3>3 DEF n
  <2> QED BY <1>3, <2>1 DEF Protocol
<1>9. \A s \in Transactions : x[s].from \in Connections /\ x[s].to \in Connections
    BY DEF AllTransfers, TransferStates
<1>10. \A s \in Transactions : s # t =>
            /\ Unfinished(S2, x2, s) <=> Unfinished(S, x, s)
            /\ Interest(S2, x2, live, s) <=> Interest(S, x, live, s)
    BY <1>2, <1>3, <1>4, <1>9 DEF Unfinished, Interest
<1>11. Unfinished(S2, x2, t)
    BY <1>2 DEF Unfinished
<1>12. ~Known(p, t) /\ t \notin p.mCompletedTransactions
    BY DEF Protocol, Real, Over, Unfinished
<1>13. Open(S2, x2)
    BY <1>2, <1>3, <1>4, <1>9, <1>10, <1>11 DEF Protocol, Open
<1>14. Begun(x2, st)
  <2>1. ASSUME NEW s \in Transactions, NEW v \in Transactions, x2[v].pc # "none", s < v
        PROVE  x2[s].pc # "none"
    <3>1. x2[s].pc = x[s].pc \/ x2[s].pc = "sent"
      BY <1>2
    <3>2. v = t \/ x[v].pc # "none"
      BY <1>2, <2>1
    <3>3. s = t \/ x[s].pc # "none"
      BY <2>1, <3>2 DEF Protocol, Begun
    <3> QED BY <1>2, <3>1, <3>3
  <2>2. ASSUME NEW v \in Transactions, x2[v].pc # "none"
        PROVE  st[x2[v].to] # "new"
    BY <1>2, <2>2 DEF Protocol, Begun
  <2> QED BY <2>1, <2>2 DEF Begun
<1>15. Here(x2, st)
    BY <1>2 DEF Protocol, Here, Receiving
<1>16. Real(S2, x2, p)
    BY <1>2, <1>10, <1>12 DEF Protocol, Real
<1>17. Kept(S2, x2, p, live)
  <2>1. GrantedTo(p.mUsingBuffers, c, S2[c], b, t)
    BY <1>3, <1>4
  <2>2. ASSUME NEW s \in Transactions, s # t, Interest(S2, x2, live, s)
        PROVE  Known(p, s) \/ GrantedTo(p.mUsingBuffers, x2[s].from, S2[x2[s].from], x2[s].b, s)
    BY <1>2, <1>3, <1>9, <1>10, <2>2 DEF Protocol, Kept
  <2> QED BY <1>2, <2>1, <2>2 DEF Kept
<1>18. Received(S2, x2, p)
  <2>1. ASSUME NEW s \in Transactions, x2[s].pc \in Receiving \/ HasResult(S2[x2[s].to], s)
        PROVE  Known(p, s) \/ HasFrom(S2[x2[s].to], s)
    <3>1. s # t
      <4> SUFFICES ASSUME s = t PROVE FALSE
        OBVIOUS
      <4>1. x2[s].pc = "sent" /\ x2[s].to = r
        BY <1>2
      <4>2. HasResult(S2[r], t)
        BY <2>1, <4>1 DEF Receiving
      <4>3. HasResult(S[r], t)
        BY <1>3, <1>4, <4>2
      <4> QED BY <1>6, <4>3
    <3> QED BY <1>2, <1>3, <1>4, <1>9, <2>1, <3>1 DEF Protocol, Received
  <2> QED BY <2>1 DEF Received
<1>19. Validated(S2, x2, p)
    BY <1>2, <1>3, <1>4, <1>9, <1>12 DEF Protocol, Validated
<1>20. Remembered(S2, x2, p)
    BY <1>2, <1>3, <1>4, <1>9, <1>10, <1>11 DEF Protocol, Remembered
<1>21. Over(S2, x2, p, live)
    BY <1>2, <1>10, <1>12 DEF Protocol, Over
<1>22. Addressed(x2, p)
    BY <1>2 DEF Protocol, Addressed
<1> QED BY <1>7, <1>8, <1>13, <1>14, <1>15, <1>16, <1>17, <1>18, <1>19, <1>20, <1>21, <1>22 DEF Protocol

\* postReceive(): the receiver begins.
LEMMA BeginReceipt ==
    ASSUME NEW S \in AllStreams, NEW x \in AllTransfers,
           NEW p, NEW live, NEW st, Protocol(S, x, p, live, st),
           NEW t \in Transactions, x[t].pc = "sent", NEW c, c = x[t].to, st[c] = "up",
           NEW x2, x2 \in AllTransfers,
           \A s \in Transactions : s # t => x2[s] = x[s],
           x2[t].pc = "receive" /\ x2[t].b = x[t].b /\ x2[t].from = x[t].from /\ x2[t].to = x[t].to,
           NEW S2, S2 = [S EXCEPT ![c] = Append(S[c], Message("TRANSFER_FROM", x[t].b, t, 0))]
    PROVE  Protocol(S2, x2, p, live, st)
<1> DEFINE m == Message("TRANSFER_FROM", x[t].b, t, 0)
<1>0. \A s \in Transactions : /\ x[s].from \in Connections /\ x[s].to \in Connections
                              /\ x[s].b \in BufferIds
    BY DEF AllTransfers, TransferStates
<1>1. /\ m \in Messages /\ m.newStatus = "TRANSFER_FROM" /\ m.bufferId = x[t].b /\ m.transactionId = t
    BY <1>0, TransactionsAssumption DEF Message, Messages, Statuses, BufferIds
<1> HIDE DEF m
<1>2. Posted(S, S2, c, m)
    <2>1. S2 = [S EXCEPT ![c] = Append(S[c], m)] /\ c \in Connections
      BY <1>0 DEF m
    <2> QED BY <1>1, <2>1, PostStream
<1>3. \A s : (IsFrom(m, s) <=> s = t) /\ ~IsTo(m, s) /\ ~IsResult(m, s)
    BY <1>1 DEF IsTo, IsFrom, IsResult, Results
    \* Nothing has been said by the receiver.
<1>4. ASSUME NEW d, NEW n, MessageOK(x, d, n)
      PROVE  /\ MessageOK(x2, d, n)
             /\ n.newStatus \in Results \cup {"TRANSFER_FROM"} => n.transactionId # t
    BY <1>4 DEF MessageOK, Results
<1>5. \A d \in Connections : ~HasFrom(S[d], t) /\ ~HasResult(S[d], t)
  <2>1. ASSUME NEW d \in Connections, NEW i \in 1 .. Len(S[d]) PROVE MessageOK(x, d, S[d][i])
    BY DEF Protocol, Sane
  <2> QED BY <1>4, <2>1 DEF HasFrom, HasResult, IsFrom, IsResult
<1>6. Sane(S2, x2)
  <2>1. Sane(S, x2)
    BY <1>4 DEF Protocol, Sane
  <2>2. MessageOK(x2, c, m)
    BY <1>1 DEF MessageOK, Results
  <2> QED BY <1>2, <2>1, <2>2 DEF Posted
<1>7. InOrder(S2)
  <2>1. ASSUME NEW i \in 1 .. Len(S[c]) PROVE PairOK(S[c][i], m)
    <3> DEFINE n == S[c][i]
    <3>1. MessageOK(x, c, n)
      BY <1>0 DEF Protocol, Sane
    <3> HIDE DEF n
    <3>2. n.newStatus \in Results \cup {"TRANSFER_FROM"} => n.transactionId # t
      BY <1>4, <3>1
    <3>3. PairOK(n, m)
      BY <1>1, <3>2 DEF PairOK, Results
    <3> QED BY <3>3 DEF n
  <2> QED BY <1>2, <2>1 DEF Protocol, Posted
<1>8. \A s \in Transactions :
        /\ x2[s].b = x[s].b /\ x2[s].from = x[s].from /\ x2[s].to = x[s].to
        /\ HasTo(S2[x[s].from], s) <=> HasTo(S[x[s].from], s)
        /\ HasResult(S2[x[s].to], s) <=> HasResult(S[x[s].to], s)
        /\ HasFrom(S2[x[s].to], s) <=> HasFrom(S[x[s].to], s) \/ s = t
    BY <1>0, <1>2, <1>3 DEF Posted
<1>9. \A s \in Transactions :
            /\ Unfinished(S2, x2, s) <=> Unfinished(S, x, s)
            /\ Interest(S2, x2, live, s) <=> Interest(S, x, live, s)
    BY <1>8 DEF Unfinished, Interest
<1>10. Unfinished(S, x, t)
    BY DEF Unfinished
<1>11. Open(S2, x2)
    BY <1>8, <1>9, <1>10 DEF Protocol, Open
<1>12. Begun(x2, st) /\ Addressed(x2, p)
    BY <1>8 DEF Protocol, Begun, Addressed
<1>13. Here(x2, st)
    BY <1>8 DEF Protocol, Here, Receiving
<1>14. Real(S2, x2, p) /\ Over(S2, x2, p, live)
    BY <1>8, <1>9 DEF Protocol, Real, Over, Unfinished
<1>15. Kept(S2, x2, p, live)
    BY <1>0, <1>2, <1>8, <1>9 DEF Protocol, Kept, Posted
<1>16. Received(S2, x2, p)
    BY <1>8 DEF Protocol, Received
<1>17. Validated(S2, x2, p) /\ Remembered(S2, x2, p)
    BY <1>8, <1>9 DEF Protocol, Validated, Remembered
<1> QED BY <1>6, <1>7, <1>11, <1>12, <1>13, <1>14, <1>15, <1>16, <1>17 DEF Protocol

\* postReceiveResult(): the receiver ends.
LEMMA EndReceipt ==
    ASSUME NEW S \in AllStreams, NEW x \in AllTransfers,
           NEW p, NEW live, NEW st, Protocol(S, x, p, live, st),
           NEW t \in Transactions, x[t].pc \in Receiving, NEW c, c = x[t].to,
           NEW x2, x2 \in AllTransfers,
           \A s \in Transactions : s # t => x2[s] = x[s],
           x2[t].pc = "done" /\ x2[t].b = x[t].b /\ x2[t].from = x[t].from /\ x2[t].to = x[t].to,
           NEW status \in Results,
           NEW S2, S2 = [S EXCEPT ![c] = Append(S[c], Message(status, x[t].b, t, 0))]
    PROVE  Protocol(S2, x2, p, live, st)
<1> DEFINE m == Message(status, x[t].b, t, 0)
<1>0. \A s \in Transactions : /\ x[s].from \in Connections /\ x[s].to \in Connections
                              /\ x[s].b \in BufferIds
    BY DEF AllTransfers, TransferStates
<1>1. /\ m \in Messages /\ m.newStatus = status /\ m.bufferId = x[t].b /\ m.transactionId = t
    BY <1>0, TransactionsAssumption DEF Message, Messages, Statuses, BufferIds, Results
<1> HIDE DEF m
<1>2. Posted(S, S2, c, m)
    <2>1. S2 = [S EXCEPT ![c] = Append(S[c], m)] /\ c \in Connections
      BY <1>0 DEF m
    <2> QED BY <1>1, <2>1, PostStream
<1>3. \A s : (IsResult(m, s) <=> s = t) /\ ~IsTo(m, s) /\ ~IsFrom(m, s)
    BY <1>1 DEF IsTo, IsFrom, IsResult, Results
<1>4. ASSUME NEW d, NEW n, MessageOK(x, d, n)
      PROVE  /\ MessageOK(x2, d, n)
             /\ n.newStatus \in Results => n.transactionId # t
    BY <1>4 DEF MessageOK, Results, Receiving
<1>6. Sane(S2, x2)
  <2>1. Sane(S, x2)
    BY <1>4 DEF Protocol, Sane
  <2>2. MessageOK(x2, c, m)
    BY <1>1 DEF MessageOK, Results
  <2> QED BY <1>2, <2>1, <2>2 DEF Posted
<1>7. InOrder(S2)
  <2>1. ASSUME NEW i \in 1 .. Len(S[c]) PROVE PairOK(S[c][i], m)
    <3> DEFINE n == S[c][i]
    <3>1. MessageOK(x, c, n)
      BY <1>0 DEF Protocol, Sane
    <3> HIDE DEF n
    <3>2. n.newStatus \in Results => n.transactionId # t
      BY <1>4, <3>1
    <3>3. PairOK(n, m)
      BY <1>1, <3>2 DEF PairOK, Results
    <3> QED BY <3>3 DEF n
  <2> QED BY <1>2, <2>1 DEF Protocol, Posted
<1>8. \A s \in Transactions :
        /\ x2[s].b = x[s].b /\ x2[s].from = x[s].from /\ x2[s].to = x[s].to
        /\ HasTo(S2[x[s].from], s) <=> HasTo(S[x[s].from], s)
        /\ HasResult(S2[x[s].to], s) <=> HasResult(S[x[s].to], s) \/ s = t
        /\ HasFrom(S2[x[s].to], s) <=> HasFrom(S[x[s].to], s)
    BY <1>0, <1>2, <1>3 DEF Posted
<1>9. \A s \in Transactions :
            /\ Unfinished(S2, x2, s) <=> Unfinished(S, x, s)
            /\ Interest(S2, x2, live, s) <=> Interest(S, x, live, s)
    BY <1>8 DEF Unfinished, Interest, Receiving
<1>11. Open(S2, x2)
    BY <1>8, <1>9 DEF Protocol, Open
<1>12. Begun(x2, st) /\ Addressed(x2, p)
    BY <1>8 DEF Protocol, Begun, Addressed, Receiving
<1>13. Here(x2, st)
    BY <1>8 DEF Protocol, Here, Receiving
<1>14. Real(S2, x2, p) /\ Over(S2, x2, p, live)
    BY <1>8, <1>9 DEF Protocol, Real, Over, Unfinished
<1>15. Kept(S2, x2, p, live)
    BY <1>0, <1>2, <1>8, <1>9 DEF Protocol, Kept, Posted
<1>16. Received(S2, x2, p)
    BY <1>8 DEF Protocol, Received, Receiving
<1>17. Validated(S2, x2, p) /\ Remembered(S2, x2, p)
    BY <1>8, <1>9 DEF Protocol, Validated, Remembered
<1> QED BY <1>6, <1>7, <1>11, <1>12, <1>13, <1>14, <1>15, <1>16, <1>17 DEF Protocol

\* A connection is lost: releases that it has not posted are lost too.
LEMMA CutStream ==
    ASSUME NEW S \in AllStreams, NEW x \in AllTransfers,
           NEW p, NEW live, NEW st, Protocol(S, x, p, live, st),
           NEW c \in Connections, NEW s \in Seq(Messages), Len(s) <= Len(S[c]),
           \A i \in 1 .. Len(s) : s[i] = S[c][i],
           \A i \in Len(s) + 1 .. Len(S[c]) : S[c][i].newStatus = "NOT_USED",
           NEW S2, S2 = [S EXCEPT ![c] = s]
    PROVE  S2 \in AllStreams /\ Protocol(S2, x, p, live, st)
<1>1. /\ S2 \in AllStreams /\ S2[c] = s /\ (\A d \in Connections : d # c => S2[d] = S[d])
    BY DEF AllStreams
<1>2. S[c] \in Seq(Messages) /\ Len(s) \in Nat /\ Len(S[c]) \in Nat
    BY DEF AllStreams
<1>3. \A i \in 1 .. Len(s) : i \in 1 .. Len(S[c])
    BY <1>2
<1>4. \A i \in 1 .. Len(S[c]) : i \in 1 .. Len(s) \/ S[c][i].newStatus = "NOT_USED"
    BY <1>2
<1>5. Sane(S2, x)
    BY <1>1, <1>3 DEF Protocol, Sane
<1>6. InOrder(S2)
    BY <1>1, <1>3 DEF Protocol, InOrder
<1>7. ASSUME NEW t
      PROVE  /\ HasTo(s, t) <=> HasTo(S[c], t)
             /\ HasFrom(s, t) <=> HasFrom(S[c], t)
             /\ HasResult(s, t) <=> HasResult(S[c], t)
  <2>1. HasTo(s, t) <=> HasTo(S[c], t)
    BY <1>3, <1>4 DEF HasTo, IsTo
  <2>2. HasFrom(s, t) <=> HasFrom(S[c], t)
    BY <1>3, <1>4 DEF HasFrom, IsFrom
  <2>3. HasResult(s, t) <=> HasResult(S[c], t)
    BY <1>3, <1>4 DEF HasResult, IsResult, Results
  <2> QED BY <2>1, <2>2, <2>3
<1>8. ASSUME NEW U, NEW b, NEW t, GrantedTo(U, c, S[c], b, t) PROVE GrantedTo(U, c, s, b, t)
  <2>1. PICK i \in 1 .. Len(S[c]) : IsTo(S[c][i], t) /\ Granted(U, c, S[c], b, i)
    BY <1>8 DEF GrantedTo
  <2>2. i \in 1 .. Len(s) /\ i \in 1 .. Len(s) + 1
    BY <1>2, <1>4, <2>1 DEF IsTo
  <2>3. Granted(U, c, s, b, i)
    BY <1>2, <2>1, <2>2, GrantedPrefix
  <2> QED BY <2>1, <2>2, <2>3 DEF GrantedTo
<1>9. \A d \in Connections : \A t :
            /\ HasTo(S2[d], t) <=> HasTo(S[d], t)
            /\ HasFrom(S2[d], t) <=> HasFrom(S[d], t)
            /\ HasResult(S2[d], t) <=> HasResult(S[d], t)
    BY <1>1, <1>7
<1>10. \A d \in Connections : \A U, b, t :
            GrantedTo(U, d, S[d], b, t) => GrantedTo(U, d, S2[d], b, t)
    BY <1>1, <1>8
<1> QED BY <1>1, <1>5, <1>6, <1>9, <1>10, SameSaid

-----------------------------------------------------------------------------
(* when the pool changes,                                                  *)

\* The users of buffers change, except for connections with messages to read.
LEMMA ChangeUsers ==
    ASSUME NEW S \in AllStreams, NEW x \in AllTransfers,
           NEW p, NEW live, NEW st, Protocol(S, x, p, live, st),
           NEW q, SameTransfers(p, q), q.mConnectionIds = p.mConnectionIds,
           \A d \in Connections, b \in BufferIds :
                S[d] # <<>> /\ <<d, b>> \in p.mUsingBuffers => <<d, b>> \in q.mUsingBuffers
    PROVE  Protocol(S, x, q, live, st)
<1>1. \A t : Known(q, t) <=> Known(p, t)
    BY DEF SameTransfers, Known
<1>2. Real(S, x, q) /\ Received(S, x, q) /\ Addressed(x, q)
    BY <1>1 DEF Protocol, SameTransfers, Real, Received, Addressed
<1>3. Validated(S, x, q) /\ Remembered(S, x, q) /\ Over(S, x, q, live)
    BY <1>1 DEF Protocol, SameTransfers, Validated, Remembered, Over
<1>4. Kept(S, x, q, live)
  <2>1. ASSUME NEW d \in Connections, NEW b \in BufferIds, NEW t,
               GrantedTo(p.mUsingBuffers, d, S[d], b, t)
        PROVE  GrantedTo(q.mUsingBuffers, d, S[d], b, t)
    <3>1. S[d] # <<>>
      BY <2>1 DEF GrantedTo
    <3> QED BY <2>1, <3>1 DEF GrantedTo, Granted
  <2>2. \A t \in Transactions : x[t].from \in Connections /\ x[t].b \in BufferIds
    BY DEF AllTransfers, TransferStates
  <2> QED BY <1>1, <2>1, <2>2 DEF Protocol, Kept
<1> QED BY <1>2, <1>3, <1>4 DEF Protocol

\* The protocol depends on SameProtocol only.
LEMMA SameUsers ==
    ASSUME NEW S \in AllStreams, NEW x \in AllTransfers,
           NEW p, NEW live, NEW st, Protocol(S, x, p, live, st), NEW q, SameProtocol(p, q)
    PROVE  Protocol(S, x, q, live, st)
BY ChangeUsers DEF SameProtocol

\* It holds for fewer connections.
LEMMA LessLive ==
    ASSUME NEW S, NEW x, NEW p, NEW live, NEW st, Protocol(S, x, p, live, st),
           NEW live2 \in SUBSET live
    PROVE  Protocol(S, x, p, live2, st)
<1>1. \A t : Interest(S, x, live2, t) => Interest(S, x, live, t)
    BY DEF Interest
<1> QED BY <1>1 DEF Protocol, Kept, Over

\* Connections change their state and stay up while they receive.
LEMMA OtherStates ==
    ASSUME NEW S, NEW x \in AllTransfers, NEW p, NEW live, NEW st, Protocol(S, x, p, live, st),
           NEW st2, \A d \in Connections : st[d] # "new" => st2[d] # "new",
           \A t \in Transactions : x[t].pc \in Receiving => st2[x[t].to] = "up"
    PROVE  Protocol(S, x, p, live, st2)
<1>1. \A t \in Transactions : x[t].to \in Connections
    BY DEF AllTransfers, TransferStates
<1> QED BY <1>1 DEF Protocol, Begun, Here

\* connect()
LEMMA Join ==
    ASSUME NEW S, NEW x \in AllTransfers, NEW p, NEW live, NEW st, Protocol(S, x, p, live, st),
           NEW c, st[c] = "new",
           NEW q, SameTransfers(p, q), q.mUsingBuffers = p.mUsingBuffers,
           q.mConnectionIds = p.mConnectionIds \cup {c}
    PROVE  Protocol(S, x, q, live \cup {c}, st)
<1>1. \A t : Known(q, t) <=> Known(p, t)
    BY DEF SameTransfers, Known
<1>2. \A t \in Transactions : x[t].pc # "none" => x[t].to # c
    BY DEF Protocol, Begun
<1>3. \A t \in Transactions : Interest(S, x, live \cup {c}, t) => Interest(S, x, live, t)
    BY <1>2 DEF Interest, Unfinished
<1>4. Real(S, x, q) /\ Received(S, x, q) /\ Validated(S, x, q) /\ Addressed(x, q)
    BY <1>1 DEF Protocol, SameTransfers, Real, Received, Validated, Addressed
<1>5. Kept(S, x, q, live \cup {c}) /\ Over(S, x, q, live \cup {c})
    BY <1>1, <1>3 DEF Protocol, SameTransfers, Kept, Over
<1>6. Remembered(S, x, q)
  <2>1. ASSUME NEW t \in Transactions, NEW i \in 1 .. Len(S[x[t].from]), IsTo(S[x[t].from][i], t),
               x[t].from \in Connections
        PROVE  x[t].pc # "none"
    BY <2>1 DEF Protocol, Sane, MessageOK, IsTo
  <2>2. ASSUME NEW t \in Transactions, HasTo(S[x[t].from], t)
        PROVE  x[t].to # c
    BY <1>2, <2>1, <2>2 DEF HasTo, AllTransfers, TransferStates
  <2> QED BY <2>2 DEF Protocol, SameTransfers, Remembered
<1> QED BY <1>4, <1>5, <1>6 DEF Protocol

\* The last step of handleClose()
LEMMA Part ==
    ASSUME NEW S, NEW x, NEW p, NEW live, NEW st, Protocol(S, x, p, live, st),
           NEW c, \A t \in Transactions : <<c, t>> \in p.mPendingTransactions => ~Known(p, t),
           NEW q, SameTransfers(p, q), q.mUsingBuffers = p.mUsingBuffers,
           q.mConnectionIds = p.mConnectionIds \ {c}
    PROVE  Protocol(S, x, q, live, st)
<1>1. \A t : Known(q, t) <=> Known(p, t)
    BY DEF SameTransfers, Known
<1>2. \A t \in Transactions : Known(p, t) => x[t].to # c
    BY DEF Protocol, Real
<1>3. Real(S, x, q) /\ Received(S, x, q) /\ Validated(S, x, q) /\ Addressed(x, q)
    BY <1>1, <1>2 DEF Protocol, SameTransfers, Real, Received, Validated, Addressed
<1>4. Kept(S, x, q, live) /\ Over(S, x, q, live) /\ Remembered(S, x, q)
    BY <1>1 DEF Protocol, SameTransfers, Kept, Over, Remembered
<1> QED BY <1>3, <1>4 DEF Protocol

\* handleClose() ends a transaction of the connection.
LEMMA EndLeft ==
    ASSUME NEW S, NEW x, NEW p \in Pools, NEW live, NEW st, Protocol(S, x, p, live, st),
           NEW c, c \notin live, S[c] = <<>>, st[c] # "up",
           NEW t \in Transactions, Known(p, t), x[t].to = c,
           NEW q, q.mTransactions = [p.mTransactions EXCEPT ![t] = NoTransaction],
           q.mPendingTransactions = p.mPendingTransactions,
           q.mCompletedTransactions = p.mCompletedTransactions \cup
                    IF p.mTransactions[t].mSenderValidated THEN {} ELSE {t},
           q.mUsingBuffers = p.mUsingBuffers, q.mConnectionIds = p.mConnectionIds
    PROVE  Protocol(S, x, q, live, st)
<1>1. /\ \A s \in Transactions : s # t => q.mTransactions[s] = p.mTransactions[s]
      /\ q.mTransactions[t] = NoTransaction
    BY DEF Pools
<1>2. /\ \A s \in Transactions : s # t => (Known(q, s) <=> Known(p, s))
      /\ ~Known(q, t)
    BY <1>1 DEF Known, NoTransaction
<1>3. p.mCompletedTransactions \subseteq q.mCompletedTransactions
      /\ q.mCompletedTransactions \subseteq p.mCompletedTransactions \cup {t}
    OBVIOUS
<1>4. ~Interest(S, x, live, t) /\ x[t].pc # "none"
    BY DEF Interest, Protocol, Real, Unfinished
<1>5. x[t].pc \notin Receiving /\ ~HasResult(S[x[t].to], t)
    BY DEF Protocol, Here, HasResult
<1>6. Real(S, x, q) /\ Received(S, x, q) /\ Validated(S, x, q)
    BY <1>1, <1>2, <1>5 DEF Protocol, Real, Received, Validated
<1>7. Kept(S, x, q, live)
    BY <1>2, <1>4 DEF Protocol, Kept
<1>8. Over(S, x, q, live) /\ Remembered(S, x, q) /\ Addressed(x, q)
    BY <1>3, <1>4 DEF Protocol, Over, Remembered, Addressed
<1> QED BY <1>6, <1>7, <1>8 DEF Protocol

-----------------------------------------------------------------------------
(* and when the pool reads a message.                                      *)

\* What the pool has not read stays as it was.
LEMMA ReadTransfers ==
    ASSUME NEW S \in AllStreams, NEW S2, NEW c, NEW m, WasRead(S, S2, c, m),
           NEW x \in AllTransfers, NEW t \in Transactions
    PROVE  /\ x[t].from \in Connections /\ x[t].to \in Connections /\ x[t].b \in BufferIds
           /\ HasTo(S2[x[t].from], t) => HasTo(S[x[t].from], t)
           /\ HasFrom(S2[x[t].to], t) => HasFrom(S[x[t].to], t)
           /\ ~IsFrom(m, t) => (HasFrom(S2[x[t].to], t) <=> HasFrom(S[x[t].to], t))
           /\ ~IsResult(m, t) => (HasResult(S2[x[t].to], t) <=> HasResult(S[x[t].to], t))
           /\ ~IsResult(m, t) => (Unfinished(S2, x, t) <=> Unfinished(S, x, t))
           /\ HasResult(S2[x[t].to], t) => HasResult(S[x[t].to], t)
<1>1. x[t].from \in Connections /\ x[t].to \in Connections /\ x[t].b \in BufferIds
    BY DEF AllTransfers, TransferStates
<1> QED BY <1>1 DEF WasRead, Unfinished

\* A release, or a message that the pool does not care about.
LEMMA ReadNeutral ==
    ASSUME NEW S \in AllStreams, NEW x \in AllTransfers,
           NEW p, NEW live, NEW st, Protocol(S, x, p, live, st),
           NEW c \in Connections, NEW S2, NEW m, WasRead(S, S2, c, m), m.newStatus \in Neutral,
           NEW q, SameTransfers(p, q), q.mConnectionIds = p.mConnectionIds,
           \A d \in Connections, b \in BufferIds :
                <<d, b>> \in p.mUsingBuffers /\ ~(d = c /\ Releases(m, b)) => <<d, b>> \in q.mUsingBuffers
    PROVE  Protocol(S2, x, q, live, st)
<1>1. \A t : ~IsTo(m, t) /\ ~IsFrom(m, t) /\ ~IsResult(m, t)
    BY NeutralMessage
<1>2. \A b : ~Grants(m, b)
    BY NeutralMessage
<1>3. \A t : Known(q, t) <=> Known(p, t)
    BY DEF SameTransfers, Known
<1>4. \A t \in Transactions :
        /\ HasTo(S2[x[t].from], t) => HasTo(S[x[t].from], t)
        /\ HasFrom(S2[x[t].to], t) <=> HasFrom(S[x[t].to], t)
        /\ HasResult(S2[x[t].to], t) <=> HasResult(S[x[t].to], t)
        /\ Unfinished(S2, x, t) <=> Unfinished(S, x, t)
        /\ Interest(S2, x, live, t) <=> Interest(S, x, live, t)
    BY <1>1, ReadTransfers DEF Interest
<1>5. Sane(S2, x) /\ InOrder(S2)
    BY DEF Protocol, WasRead
<1>6. Open(S2, x)
    BY <1>4 DEF Protocol, Open
<1>7. Real(S2, x, q) /\ Received(S2, x, q) /\ Addressed(x, q)
    BY <1>3, <1>4 DEF Protocol, SameTransfers, Real, Received, Addressed
<1>8. Validated(S2, x, q) /\ Remembered(S2, x, q) /\ Over(S2, x, q, live)
    BY <1>3, <1>4 DEF Protocol, SameTransfers, Validated, Remembered, Over
<1>9. Kept(S2, x, q, live)
  <2>1. ASSUME NEW t \in Transactions, Interest(S2, x, live, t), ~Known(q, t)
        PROVE  GrantedTo(q.mUsingBuffers, x[t].from, S2[x[t].from], x[t].b, t)
    <3>1. GrantedTo(p.mUsingBuffers, x[t].from, S[x[t].from], x[t].b, t)
      BY <1>3, <1>4, <2>1 DEF Protocol, Kept
    <3>2. x[t].from \in Connections /\ x[t].b \in BufferIds
      BY ReadTransfers
    <3> QED BY <1>1, <1>2, <3>1, <3>2 DEF WasRead
  <2> QED BY <2>1 DEF Kept
<1> QED BY <1>5, <1>6, <1>7, <1>8, <1>9 DEF Protocol

\* A TRANSFER_TO that is at the head, and nowhere else, is granted if the sender is a user.
LEMMA HeadGranted ==
    ASSUME NEW s \in Seq(Messages), s # <<>>, NEW t, ~HasTo(Tail(s), t),
           NEW U, NEW c, NEW b, GrantedTo(U, c, s, b, t)
    PROVE  <<c, b>> \in U
<1>1. PICK i \in 1 .. Len(s) : IsTo(s[i], t) /\ Granted(U, c, s, b, i)
    BY DEF GrantedTo
<1>2. /\ Len(Tail(s)) = Len(s) - 1 /\ Len(s) \in Nat \ {0}
      /\ \A k \in 1 .. Len(s) - 1 : Tail(s)[k] = s[k + 1]
    BY TailItems
<1>3. i = 1
  <2>1. i # 1 => i - 1 \in 1 .. Len(Tail(s)) /\ Tail(s)[i - 1] = s[i]
    BY <1>2
  <2> QED BY <1>1, <2>1 DEF HasTo
<1>4. \A k \in 1 .. i - 1 : FALSE
    BY <1>3
<1> QED BY <1>1, <1>4 DEF Granted

\* The pool handles TRANSFER_TO, before or after the messages of the receiver.
LEMMA ReadTransferTo ==
    ASSUME NEW S \in AllStreams, NEW x \in AllTransfers,
           NEW p \in Pools, NEW live \in SUBSET p.mConnectionIds, NEW st, Protocol(S, x, p, live, st),
           NEW c \in Connections, S[c] # <<>>, NEW S2, S2 = [S EXCEPT ![c] = Tail(S[c])],
           NEW m, m = Head(S[c]), WasRead(S, S2, c, m), m.newStatus = "TRANSFER_TO",
           NEW q, q.mUsingBuffers = p.mUsingBuffers, q.mConnectionIds = p.mConnectionIds,
           ToOutcome(p, q, c, m.transactionId, m.bufferId, m.targetConnectionId)
    PROVE  Protocol(S2, x, q, live, st)
<1> DEFINE t == m.transactionId
           b == m.bufferId
           target == m.targetConnectionId
<1>1. MessageOK(x, c, m) /\ Sane(S2, x) /\ InOrder(S2) /\ \A i \in 1 .. Len(S2[c]) : PairOK(m, S2[c][i])
    BY DEF Protocol, WasRead
<1>2. /\ t \in Transactions /\ x[t].pc # "none" /\ x[t].from = c /\ x[t].to = target /\ x[t].b = b
    BY <1>1 DEF MessageOK
<1>3. ~HasTo(S2[c], t) /\ HasTo(S[c], t) /\ IsTo(m, t)
  <2>1. \A i \in 1 .. Len(S2[c]) : ~IsTo(S2[c][i], t)
    BY <1>1 DEF PairOK, IsTo
  <2>2. IsTo(m, t)
    BY DEF IsTo
  <2> QED BY <2>1, <2>2 DEF HasTo, WasRead
<1>4. \A s : ~IsFrom(m, s) /\ ~IsResult(m, s) /\ (IsTo(m, s) => s = t)
    BY DEF IsFrom, IsResult, IsTo, Results
<1>5. \A v : ~Grants(m, v) /\ ~Releases(m, v)
    BY DEF Grants, Releases
<1>6. \A s \in Transactions :
        /\ HasTo(S2[x[s].from], s) => HasTo(S[x[s].from], s)
        /\ HasFrom(S2[x[s].to], s) <=> HasFrom(S[x[s].to], s)
        /\ HasResult(S2[x[s].to], s) <=> HasResult(S[x[s].to], s)
        /\ Unfinished(S2, x, s) <=> Unfinished(S, x, s)
        /\ Interest(S2, x, live, s) <=> Interest(S, x, live, s)
  <2> TAKE s \in Transactions
  <2>1. ~IsFrom(m, s) /\ ~IsResult(m, s)
    BY <1>4
  <2> HIDE DEF t, b, target
  <2>2. /\ HasTo(S2[x[s].from], s) => HasTo(S[x[s].from], s)
        /\ HasFrom(S2[x[s].to], s) <=> HasFrom(S[x[s].to], s)
        /\ HasResult(S2[x[s].to], s) <=> HasResult(S[x[s].to], s)
        /\ Unfinished(S2, x, s) <=> Unfinished(S, x, s)
    <3>1. /\ HasTo(S2[x[s].from], s) => HasTo(S[x[s].from], s)
          /\ ~IsFrom(m, s) => (HasFrom(S2[x[s].to], s) <=> HasFrom(S[x[s].to], s))
          /\ ~IsResult(m, s) => (HasResult(S2[x[s].to], s) <=> HasResult(S[x[s].to], s))
          /\ ~IsResult(m, s) => (Unfinished(S2, x, s) <=> Unfinished(S, x, s))
      BY ReadTransfers, ZenonT(60)
    <3> QED BY <2>1, <3>1
  <2> QED BY <2>2 DEF Interest
<1>7. /\ ToOutcome(p, q, c, t, b, target)
      /\ p.mTransactions \in [Transactions -> TransactionStates]
    BY DEF Pools
<1> HIDE DEF t, b, target
<1>8. /\ \A s \in Transactions : s # t => q.mTransactions[s] = p.mTransactions[s]
      /\ p.mPendingTransactions \subseteq q.mPendingTransactions
      /\ q.mCompletedTransactions \subseteq p.mCompletedTransactions
      /\ p.mCompletedTransactions \subseteq q.mCompletedTransactions \cup {t}
    BY <1>2, <1>7 DEF ToOutcome, SameTransfers
<1>9. \A s \in Transactions : s # t => (Known(q, s) <=> Known(p, s))
    BY <1>8 DEF Known
<1>10. ASSUME Known(p, t)
       PROVE  /\ Known(q, t) /\ q.mTransactions[t].mBufferId = p.mTransactions[t].mBufferId
              /\ q.mTransactions[t].mReceiver = p.mTransactions[t].mReceiver
    BY <1>2, <1>7, <1>10 DEF ToOutcome, SameTransfers, Known
<1>11. ASSUME ~Known(p, t), Known(q, t)
       PROVE  /\ q.mTransactions[t].mBufferId = b /\ q.mTransactions[t].mReceiver = target
              /\ <<target, t>> \in q.mPendingTransactions /\ target \in p.mConnectionIds
              /\ t \notin p.mCompletedTransactions
    BY <1>2, <1>7, <1>11 DEF ToOutcome, SameTransfers, Known
<1>12. ASSUME ~Known(q, t), t \notin p.mCompletedTransactions, <<c, b>> \in p.mUsingBuffers
       PROVE  target \notin p.mConnectionIds
    BY <1>2, <1>7, <1>12 DEF ToOutcome, SameTransfers, Known
<1>13. Open(S2, x)
    BY <1>6 DEF Protocol, Open
<1>14. Real(S2, x, q)
  <2>1. ASSUME NEW s \in Transactions, Known(q, s), s # t
        PROVE  /\ Unfinished(S2, x, s)
               /\ q.mTransactions[s].mBufferId = x[s].b /\ q.mTransactions[s].mReceiver = x[s].to
               /\ x[s].to \in q.mConnectionIds /\ <<x[s].to, s>> \in q.mPendingTransactions
    BY <1>6, <1>8, <1>9, <2>1 DEF Protocol, Real
  <2>2. ASSUME Known(q, t)
        PROVE  /\ Unfinished(S2, x, t)
               /\ q.mTransactions[t].mBufferId = x[t].b /\ q.mTransactions[t].mReceiver = x[t].to
               /\ x[t].to \in q.mConnectionIds /\ <<x[t].to, t>> \in q.mPendingTransactions
    <3>1. CASE Known(p, t)
      BY <1>2, <1>6, <1>8, <1>10, <3>1 DEF Protocol, Real
    <3>2. CASE ~Known(p, t)
      <4>1. Unfinished(S, x, t)
        BY <1>2, <1>3, <1>11, <2>2, <3>2 DEF Protocol, Remembered
      <4> QED BY <1>2, <1>6, <1>11, <2>2, <3>2, <4>1
    <3> QED BY <3>1, <3>2
  <2> QED BY <2>1, <2>2 DEF Real
<1>15. Kept(S2, x, q, live)
  <2>1. ASSUME NEW s \in Transactions, Interest(S2, x, live, s), ~Known(q, s)
        PROVE  GrantedTo(q.mUsingBuffers, x[s].from, S2[x[s].from], x[s].b, s)
    <3>1. ~Known(p, s)
      BY <1>9, <1>10, <2>1
    <3>2. GrantedTo(p.mUsingBuffers, x[s].from, S[x[s].from], x[s].b, s)
      BY <1>6, <2>1, <3>1 DEF Protocol, Kept
    <3>3. x[s].from \in Connections
      BY ReadTransfers
    <3>4. CASE s # t
      BY <1>4, <1>5, <3>2, <3>3, <3>4 DEF WasRead
    <3>5. CASE s = t
      <4>1. S[c] \in Seq(Messages) /\ S2[c] = Tail(S[c])
        BY DEF AllStreams
      <4>2. <<c, b>> \in p.mUsingBuffers
        BY <1>2, <1>3, <3>2, <3>5, <4>1, HeadGranted
      <4>3. t \notin p.mCompletedTransactions
        BY <1>2, <1>6, <2>1, <3>5 DEF Protocol, Over
      <4>4. target \in p.mConnectionIds
        BY <1>2, <2>1, <3>5 DEF Interest
      <4> QED BY <1>12, <2>1, <3>5, <4>2, <4>3, <4>4
    <3> QED BY <3>4, <3>5
  <2> QED BY <2>1 DEF Kept
<1>16. Received(S2, x, q)
    BY <1>6, <1>9, <1>10 DEF Protocol, Received
<1>17. Validated(S2, x, q)
    BY <1>2, <1>3, <1>6, <1>8, <1>9 DEF Protocol, Validated
<1>18. Remembered(S2, x, q)
    BY <1>2, <1>3, <1>6, <1>8 DEF Protocol, Remembered
<1>19. Over(S2, x, q, live)
    BY <1>6, <1>8 DEF Protocol, Over
<1>20. Addressed(x, q)
  <2>1. q.mPendingTransactions \subseteq p.mPendingTransactions \cup {<<target, t>>}
    BY <1>7 DEF ToOutcome, SameTransfers
  <2> QED BY <1>2, <2>1 DEF Protocol, Addressed
<1> QED BY <1>1, <1>13, <1>14, <1>15, <1>16, <1>17, <1>18, <1>19, <1>20 DEF Protocol

\* The pool handles TRANSFER_FROM, before or after TRANSFER_TO.
LEMMA ReadTransferFrom ==
    ASSUME NEW S \in AllStreams, NEW x \in AllTransfers,
           NEW p \in Pools, NEW live, NEW st, Protocol(S, x, p, live, st),
           NEW c \in p.mConnectionIds, NEW S2, NEW m, WasRead(S, S2, c, m),
           m.newStatus = "TRANSFER_FROM",
           NEW q, q.mUsingBuffers = p.mUsingBuffers, q.mConnectionIds = p.mConnectionIds,
           q.mCompletedTransactions = p.mCompletedTransactions,
           FromOutcome(p, q, c, m.transactionId, m.bufferId)
    PROVE  Protocol(S2, x, q, live, st)
<1> DEFINE t == m.transactionId
           b == m.bufferId
<1>0. c \in Connections
    BY DEF Pools
<1>1. MessageOK(x, c, m) /\ Sane(S2, x) /\ InOrder(S2)
    BY DEF Protocol, WasRead
<1>2. /\ t \in Transactions /\ x[t].to = c /\ x[t].b = b
    BY <1>1 DEF MessageOK
<1>3. HasFrom(S[c], t)
  <2>1. IsFrom(m, t)
    BY DEF IsFrom
  <2> QED BY <1>0, <2>1 DEF WasRead
<1>4. \A s : ~IsTo(m, s) /\ ~IsResult(m, s) /\ (IsFrom(m, s) => s = t)
    BY DEF IsFrom, IsResult, IsTo, Results
<1>5. \A v : ~Grants(m, v) /\ ~Releases(m, v)
    BY DEF Grants, Releases
<1>6. /\ FromOutcome(p, q, c, t, b)
      /\ p.mTransactions \in [Transactions -> TransactionStates]
    BY DEF Pools
<1> HIDE DEF t, b
<1>7. \A s \in Transactions :
        /\ HasTo(S2[x[s].from], s) => HasTo(S[x[s].from], s)
        /\ HasFrom(S2[x[s].to], s) => HasFrom(S[x[s].to], s)
        /\ s # t => (HasFrom(S2[x[s].to], s) <=> HasFrom(S[x[s].to], s))
        /\ HasResult(S2[x[s].to], s) <=> HasResult(S[x[s].to], s)
        /\ Unfinished(S2, x, s) <=> Unfinished(S, x, s)
        /\ Interest(S2, x, live, s) <=> Interest(S, x, live, s)
  <2> TAKE s \in Transactions
  <2>1. ~IsTo(m, s) /\ ~IsResult(m, s) /\ (IsFrom(m, s) => s = t)
    BY <1>4
  <2> QED BY <2>1, ReadTransfers DEF Interest
<1>8. /\ \A s \in Transactions : s # t => q.mTransactions[s] = p.mTransactions[s]
      /\ p.mPendingTransactions \subseteq q.mPendingTransactions
    BY <1>2, <1>6 DEF FromOutcome, SameTransfers
<1>9. \A s \in Transactions : s # t => (Known(q, s) <=> Known(p, s))
    BY <1>8 DEF Known
<1>10. Known(q, t)
    BY <1>2, <1>6 DEF FromOutcome, SameTransfers, Known
<1>11. ASSUME Known(p, t)
       PROVE  /\ q.mTransactions[t].mBufferId = p.mTransactions[t].mBufferId
              /\ q.mTransactions[t].mReceiver = p.mTransactions[t].mReceiver
              /\ q.mTransactions[t].mSenderValidated = p.mTransactions[t].mSenderValidated
    BY <1>2, <1>6, <1>11 DEF FromOutcome, SameTransfers
<1>12. ASSUME ~Known(p, t)
       PROVE  /\ q.mTransactions[t].mBufferId = b /\ q.mTransactions[t].mReceiver = c
              /\ ~q.mTransactions[t].mSenderValidated /\ <<c, t>> \in q.mPendingTransactions
    BY <1>2, <1>6, <1>12 DEF FromOutcome
<1>13. Open(S2, x)
    BY <1>7 DEF Protocol, Open
<1>14. Real(S2, x, q)
  <2>1. ASSUME NEW s \in Transactions, Known(q, s), s # t
        PROVE  /\ Unfinished(S2, x, s)
               /\ q.mTransactions[s].mBufferId = x[s].b /\ q.mTransactions[s].mReceiver = x[s].to
               /\ x[s].to \in q.mConnectionIds /\ <<x[s].to, s>> \in q.mPendingTransactions
    BY <1>7, <1>8, <1>9, <2>1 DEF Protocol, Real
  <2>2. /\ Unfinished(S2, x, t)
        /\ q.mTransactions[t].mBufferId = x[t].b /\ q.mTransactions[t].mReceiver = x[t].to
        /\ x[t].to \in q.mConnectionIds /\ <<x[t].to, t>> \in q.mPendingTransactions
    <3>1. CASE Known(p, t)
      BY <1>2, <1>7, <1>8, <1>11, <3>1 DEF Protocol, Real
    <3>2. CASE ~Known(p, t)
      <4>1. Unfinished(S, x, t)
        BY <1>2, <1>3 DEF Protocol, Open
      <4> QED BY <1>2, <1>7, <1>12, <3>2, <4>1
    <3> QED BY <3>1, <3>2
  <2> QED BY <2>1, <2>2 DEF Real
<1>15. Kept(S2, x, q, live)
  <2>1. ASSUME NEW s \in Transactions, Interest(S2, x, live, s), ~Known(q, s)
        PROVE  GrantedTo(q.mUsingBuffers, x[s].from, S2[x[s].from], x[s].b, s)
    <3>1. GrantedTo(p.mUsingBuffers, x[s].from, S[x[s].from], x[s].b, s)
      BY <1>7, <1>9, <1>10, <2>1 DEF Protocol, Kept
    <3>2. x[s].from \in Connections
      BY ReadTransfers
    <3> QED BY <1>4, <1>5, <3>1, <3>2 DEF WasRead
  <2> QED BY <2>1 DEF Kept
<1>16. Received(S2, x, q)
    BY <1>7, <1>9, <1>10 DEF Protocol, Received
<1>17. Validated(S2, x, q)
  <2>1. ASSUME NEW s \in Transactions, Known(q, s), q.mTransactions[s].mSenderValidated
        PROVE  Known(p, s) /\ p.mTransactions[s].mSenderValidated
    BY <1>8, <1>9, <1>11, <1>12, <2>1
  <2> QED BY <1>7, <2>1 DEF Protocol, Validated
<1>18. Remembered(S2, x, q) /\ Over(S2, x, q, live)
    BY <1>7 DEF Protocol, Remembered, Over
<1>19. Addressed(x, q)
  <2>1. q.mPendingTransactions \subseteq p.mPendingTransactions \cup {<<c, t>>}
    BY <1>6 DEF FromOutcome, SameTransfers
  <2>2. x[t].pc # "none"
    BY <1>2, <1>3 DEF Protocol, Open, Unfinished
  <2> QED BY <1>2, <2>1, <2>2 DEF Protocol, Addressed
<1> QED BY <1>1, <1>13, <1>14, <1>15, <1>16, <1>17, <1>18, <1>19 DEF Protocol

\* When the pool reads the end of a transfer, it knows of it.
KnownResult(S2, x, p, c, m, t) ==
    /\ t \in Transactions /\ x[t].to = c /\ x[t].b = m.bufferId /\ x[t].pc = "done"
    /\ Known(p, t) /\ <<c, t>> \in p.mPendingTransactions
    /\ p.mTransactions[t].mBufferId = m.bufferId /\ p.mTransactions[t].mReceiver = c
    /\ ~HasResult(S2[c], t)

\* handleTransferResult() finds the transaction that it is about.
LEMMA ResultKnown ==
    ASSUME NEW S \in AllStreams, NEW x \in AllTransfers,
           NEW p, NEW live, NEW st, Protocol(S, x, p, live, st),
           NEW c \in Connections, NEW S2, NEW m, WasRead(S, S2, c, m), m.newStatus \in Results
    PROVE  KnownResult(S2, x, p, c, m, m.transactionId)
<1> DEFINE t == m.transactionId
<1>1. MessageOK(x, c, m) /\ InOrder(S2) /\ \A i \in 1 .. Len(S2[c]) : PairOK(m, S2[c][i])
    BY DEF Protocol, WasRead
<1>2. /\ t \in Transactions /\ x[t].to = c /\ x[t].b = m.bufferId /\ x[t].pc = "done"
    BY <1>1 DEF MessageOK
<1>3. IsResult(m, t) /\ ~IsFrom(m, t)
    BY DEF IsResult, IsFrom, Results
<1>4. ~HasResult(S2[c], t) /\ ~HasFrom(S2[c], t)
  <2>1. \A i \in 1 .. Len(S2[c]) : ~IsResult(S2[c][i], t) /\ ~IsFrom(S2[c][i], t)
    BY <1>1 DEF PairOK, IsResult, IsFrom
  <2> QED BY <2>1 DEF HasResult, HasFrom
<1> HIDE DEF t
<1>5. HasResult(S[c], t) /\ ~HasFrom(S[c], t)
    BY <1>3, <1>4 DEF WasRead
<1>6. Known(p, t)
    BY <1>2, <1>5 DEF Protocol, Received
<1>7. <<c, t>> \in p.mPendingTransactions /\ p.mTransactions[t].mBufferId = m.bufferId
      /\ p.mTransactions[t].mReceiver = c
    BY <1>2, <1>6 DEF Protocol, Real
<1> QED BY <1>2, <1>4, <1>6, <1>7 DEF t, KnownResult

\* The pool handles the end of a transfer.
LEMMA ReadTransferResult ==
    ASSUME NEW S \in AllStreams, NEW x \in AllTransfers,
           NEW p \in Pools, NEW live, NEW st, Protocol(S, x, p, live, st),
           NEW c \in Connections, NEW S2, NEW m, WasRead(S, S2, c, m), m.newStatus \in Results,
           NEW t, t = m.transactionId,
           NEW q, q.mConnectionIds = p.mConnectionIds,
           p.mUsingBuffers \subseteq q.mUsingBuffers,
           m.newStatus = "TRANSFER_OK" => <<c, m.bufferId>> \in q.mUsingBuffers,
           q.mTransactions = [p.mTransactions EXCEPT ![t] = NoTransaction],
           q.mPendingTransactions = p.mPendingTransactions \ {<<c, t>>},
           q.mCompletedTransactions = p.mCompletedTransactions \cup
                    IF p.mTransactions[t].mSenderValidated THEN {} ELSE {t}
    PROVE  Protocol(S2, x, q, live, st)
<1>1. Sane(S2, x) /\ InOrder(S2)
    BY DEF Protocol, WasRead
<1>2. /\ t \in Transactions /\ x[t].to = c /\ x[t].pc = "done" /\ Known(p, t)
      /\ ~HasResult(S2[c], t)
  <2>1. KnownResult(S2, x, p, c, m, m.transactionId)
    BY ResultKnown
  <2> QED BY <2>1 DEF KnownResult
<1>3. ~Unfinished(S2, x, t)
    BY <1>2 DEF Unfinished
<1>4. \A s : ~IsTo(m, s) /\ ~IsFrom(m, s) /\ (IsResult(m, s) => s = t)
    BY DEF IsFrom, IsResult, IsTo, Results
<1>5. \A v : (Grants(m, v) => <<c, v>> \in q.mUsingBuffers) /\ ~Releases(m, v)
    BY DEF Grants, Releases, Results
<1>6. \A s \in Transactions :
        /\ HasTo(S2[x[s].from], s) => HasTo(S[x[s].from], s)
        /\ HasFrom(S2[x[s].to], s) <=> HasFrom(S[x[s].to], s)
        /\ s # t => /\ HasResult(S2[x[s].to], s) <=> HasResult(S[x[s].to], s)
                    /\ Unfinished(S2, x, s) <=> Unfinished(S, x, s)
                    /\ Interest(S2, x, live, s) <=> Interest(S, x, live, s)
  <2> TAKE s \in Transactions
  <2>1. ~IsFrom(m, s) /\ (IsResult(m, s) => s = t)
    BY <1>4
  <2> QED BY <2>1, ReadTransfers DEF Interest
<1>7. /\ \A s \in Transactions : s # t => q.mTransactions[s] = p.mTransactions[s]
      /\ q.mTransactions[t] = NoTransaction
    BY <1>2 DEF Pools
<1>8. /\ \A s \in Transactions : s # t => (Known(q, s) <=> Known(p, s))
      /\ ~Known(q, t)
    BY <1>7 DEF Known, NoTransaction
<1>9. /\ p.mCompletedTransactions \subseteq q.mCompletedTransactions
      /\ q.mCompletedTransactions \subseteq p.mCompletedTransactions \cup {t}
      /\ ~p.mTransactions[t].mSenderValidated => t \in q.mCompletedTransactions
    OBVIOUS
<1>10. \A s, d : s # t /\ <<d, s>> \in p.mPendingTransactions => <<d, s>> \in q.mPendingTransactions
    OBVIOUS
<1>11. Open(S2, x)
  <2>1. ~HasFrom(S[c], t)
    <3>1. \A i \in 1 .. Len(S2[c]) : PairOK(m, S2[c][i])
      BY DEF Protocol, WasRead
    <3>2. \A i \in 1 .. Len(S2[c]) : ~IsFrom(S2[c][i], t)
      BY <3>1 DEF PairOK, IsFrom
    <3>3. ~HasFrom(S2[c], t)
      BY <3>2 DEF HasFrom
    <3> QED BY <1>4, <3>3 DEF WasRead
  <2> QED BY <1>2, <1>6, <2>1 DEF Protocol, Open
<1>12. Real(S2, x, q)
    BY <1>6, <1>7, <1>8, <1>10 DEF Protocol, Real
<1>13. Kept(S2, x, q, live)
  <2>1. ASSUME NEW s \in Transactions, Interest(S2, x, live, s), ~Known(q, s)
        PROVE  GrantedTo(q.mUsingBuffers, x[s].from, S2[x[s].from], x[s].b, s)
    <3>0. s # t
      BY <1>3, <2>1 DEF Interest
    <3>1. GrantedTo(p.mUsingBuffers, x[s].from, S[x[s].from], x[s].b, s)
      BY <1>6, <1>8, <2>1, <3>0 DEF Protocol, Kept
    <3>2. x[s].from \in Connections
      BY ReadTransfers
    <3>3. (<<x[s].from, x[s].b>> \in p.mUsingBuffers /\ ~(x[s].from = c /\ Releases(m, x[s].b)))
            \/ (x[s].from = c /\ Grants(m, x[s].b)) => <<x[s].from, x[s].b>> \in q.mUsingBuffers
      BY <1>5
    <3> QED BY <1>4, <3>1, <3>2, <3>3 DEF WasRead
  <2> QED BY <2>1 DEF Kept
<1>14. Received(S2, x, q)
    BY <1>2, <1>6, <1>8 DEF Protocol, Received, Receiving
<1>15. Validated(S2, x, q)
    BY <1>6, <1>7, <1>8 DEF Protocol, Validated
<1>16. Remembered(S2, x, q)
  <2>1. HasTo(S2[x[t].from], t) => t \in q.mCompletedTransactions
    BY <1>2, <1>6, <1>9 DEF Protocol, Validated
  <2> QED BY <1>6, <1>9, <2>1 DEF Protocol, Remembered
<1>17. Over(S2, x, q, live)
  <2>1. ~Interest(S2, x, live, t) /\ x[t].pc # "none"
    BY <1>2, <1>3 DEF Interest
  <2> QED BY <1>6, <1>9, <2>1 DEF Protocol, Over
<1>18. Addressed(x, q)
    BY DEF Protocol, Addressed
<1> QED BY <1>1, <1>11, <1>12, <1>13, <1>14, <1>15, <1>16, <1>17, <1>18 DEF Protocol

-----------------------------------------------------------------------------
(* What is in transfer or in use is not free.                              *)

\* A set of transactions has a least element.
LEMMA FirstTransaction ==
    ASSUME NEW T, T \subseteq Transactions, T # {}
    PROVE  \E t \in T : \A s \in T : ~(s < t)
<1> DEFINE R == {y \in Nat \X Nat : y[1] < y[2]}
<1>1. IsWellFoundedOn(R, Nat)
    BY NatLessThanWellFounded DEF OpToRel
<1>2. T \subseteq Nat
    BY TransactionsAssumption
<1>3. \E t \in T : \A s \in T : ~(<<s, t>> \in R)
    BY <1>1, <1>2, WFMin
<1>4. PICK t \in T : \A s \in T : ~(<<s, t>> \in R)
    BY <1>3
<1>5. \A s \in T : s < t => <<s, t>> \in R
    BY <1>2
<1> QED BY <1>4, <1>5

\* Who is granted a buffer before message j uses it, or is the receiver of a transfer that
\* is not finished and, if message j sends the buffer on, began earlier.
LEMMA GrantSource ==
    ASSUME NEW S \in AllStreams, NEW x \in AllTransfers, NEW p, NEW live, NEW st,
           Protocol(S, x, p, live, st), \A d \in Connections : S[d] # <<>> => d \in live,
           NEW c \in Connections, NEW b, NEW j \in 1 .. Len(S[c]) + 1,
           Granted(p.mUsingBuffers, c, S[c], b, j)
    PROVE  \/ <<c, b>> \in p.mUsingBuffers
           \/ \E s \in Transactions :
                /\ Interest(S, x, live, s) /\ x[s].b = b
                /\ j <= Len(S[c]) /\ S[c][j].newStatus = "TRANSFER_TO" => s < S[c][j].transactionId
<1>1. SUFFICES ASSUME <<c, b>> \notin p.mUsingBuffers
               PROVE  \E s \in Transactions :
                        /\ Interest(S, x, live, s) /\ x[s].b = b
                        /\ j <= Len(S[c]) /\ S[c][j].newStatus = "TRANSFER_TO" => s < S[c][j].transactionId
    OBVIOUS
<1>2. Len(S[c]) \in Nat
    BY DEF AllStreams
<1>3. PICK i \in 1 .. j - 1 : Grants(S[c][i], b)
    BY <1>1 DEF Granted
<1>4. i \in 1 .. Len(S[c]) /\ i < j
    BY <1>2
<1> DEFINE s == S[c][i].transactionId
<1>5. MessageOK(x, c, S[c][i])
    BY <1>4 DEF Protocol, Sane
<1>6. s \in Transactions /\ x[s].pc = "done" /\ x[s].to = c /\ x[s].b = b /\ IsResult(S[c][i], s)
    BY <1>3, <1>5 DEF MessageOK, Grants, Results, IsResult
<1>7. HasResult(S[c], s)
    BY <1>4, <1>6 DEF HasResult
<1>8. S[c] # <<>>
    BY <1>4
<1>9. Interest(S, x, live, s)
    BY <1>6, <1>7, <1>8 DEF Interest, Unfinished
<1>10. ASSUME j <= Len(S[c]), S[c][j].newStatus = "TRANSFER_TO" PROVE s < S[c][j].transactionId
  <2>1. j \in 1 .. Len(S[c])
    BY <1>2, <1>10
  <2>2. PairOK(S[c][i], S[c][j])
    BY <1>4, <2>1 DEF Protocol, InOrder
  <2> QED BY <1>3, <1>10, <2>2 DEF PairOK, Grants
<1> QED BY <1>6, <1>9, <1>10

\* The buffer of a transfer that is not finished is not free.
LEMMA InterestProtected ==
    ASSUME NEW S \in AllStreams, NEW x \in AllTransfers, NEW p, NEW live, NEW st,
           Protocol(S, x, p, live, st), \A d \in Connections : S[d] # <<>> => d \in live,
           Consistent(p)
    PROVE  \A t \in Transactions : Interest(S, x, live, t) => x[t].b \in p.mBuffers \ p.mFreeBuffers
<1> DEFINE T == {t \in Transactions : Interest(S, x, live, t) /\ x[t].b \notin p.mBuffers \ p.mFreeBuffers}
<1>1. SUFFICES ASSUME T # {} PROVE FALSE
    OBVIOUS
<1>2. T \subseteq Transactions
    OBVIOUS
<1>3. PICK t \in T : \A s \in T : ~(s < t)
  <2> HIDE DEF T
  <2> QED BY <1>1, <1>2, FirstTransaction
<1>4. x[t].from \in Connections /\ x[t].b \in BufferIds
    BY DEF AllTransfers, TransferStates
<1>5. ~Known(p, t)
    BY <1>4, BusyNotFree DEF Protocol, Real
<1>6. GrantedTo(p.mUsingBuffers, x[t].from, S[x[t].from], x[t].b, t)
    BY <1>5 DEF Protocol, Kept
<1> DEFINE c == x[t].from
           b == x[t].b
<1>7. PICK i \in 1 .. Len(S[c]) : IsTo(S[c][i], t) /\ Granted(p.mUsingBuffers, c, S[c], b, i)
    BY <1>6 DEF GrantedTo
<1>8. Len(S[c]) \in Nat /\ i \in 1 .. Len(S[c]) + 1 /\ i <= Len(S[c])
    BY <1>4 DEF AllStreams
<1> HIDE DEF T, c, b
<1>9. <<c, b>> \notin p.mUsingBuffers
    BY <1>3, <1>4, BusyNotFree DEF T, c, b
<1>10. PICK s \in Transactions :
            /\ Interest(S, x, live, s) /\ x[s].b = b
            /\ i <= Len(S[c]) /\ S[c][i].newStatus = "TRANSFER_TO" => s < S[c][i].transactionId
  <2>1. c \in Connections
    BY <1>4 DEF c
  <2> QED BY <1>7, <1>8, <1>9, <2>1, GrantSource
<1>11. s < t
    BY <1>7, <1>8, <1>10 DEF IsTo
<1>12. s \in T
    BY <1>3, <1>10 DEF T, b
<1> QED BY <1>3, <1>11, <1>12

\* and so is a buffer that a connection says that it holds.
LEMMA GrantedProtected ==
    ASSUME NEW S \in AllStreams, NEW x \in AllTransfers, NEW p, NEW live, NEW st,
           Protocol(S, x, p, live, st), \A d \in Connections : S[d] # <<>> => d \in live,
           Consistent(p),
           NEW c \in Connections, NEW b \in BufferIds, NEW j \in 1 .. Len(S[c]) + 1,
           Granted(p.mUsingBuffers, c, S[c], b, j)
    PROVE  b \in p.mBuffers \ p.mFreeBuffers
<1>1. CASE <<c, b>> \in p.mUsingBuffers
    BY <1>1, BusyNotFree
<1>2. CASE <<c, b>> \notin p.mUsingBuffers
  <2>1. \E s \in Transactions : Interest(S, x, live, s) /\ x[s].b = b
    BY <1>2, GrantSource
  <2> QED BY <2>1, InterestProtected
<1> QED BY <1>1, <1>2

-----------------------------------------------------------------------------
(* The steps of a client on its own object.                                *)

\* The messages of postBufferRelease().
LEMMA NotUsedItems ==
    ASSUME NEW ids \in Seq(BufferIds)
    PROVE  /\ NotUsed(ids) \in Seq(Messages) /\ Len(NotUsed(ids)) = Len(ids)
           /\ \A i \in 1 .. Len(ids) : NotUsed(ids)[i] = Message("NOT_USED", ids[i], 0, 0)
<1>1. DOMAIN ids = 1 .. Len(ids) /\ Len(ids) \in Nat /\ \A i \in 1 .. Len(ids) : ids[i] \in BufferIds
    OBVIOUS
<1>2. \A i \in 1 .. Len(ids) : Message("NOT_USED", ids[i], 0, 0) \in Messages
    BY <1>1 DEF Message, Messages, Statuses, BufferIds
<1>3. NotUsed(ids) = [i \in 1 .. Len(ids) |-> Message("NOT_USED", ids[i], 0, 0)]
    BY <1>1 DEF NotUsed
<1> QED BY <1>1, <1>2, <1>3

\* postBufferRelease() posts as many releases as the queue has room for.
LEMMA ReleaseObject ==
    ASSUME NEW z \in Objects, Room(z) >= 0, NEW r, r = PostBufferRelease(z)
    PROVE  \E n \in 0 .. Len(z.cl.mReleasingIds) :
            /\ n <= Room(z) /\ (n = Room(z) \/ n = Len(z.cl.mReleasingIds))
            /\ r = [z EXCEPT !.mail = z.mail \o NotUsed(SubSeq(z.cl.mReleasingIds, 1, n)),
                             !.cl = [z.cl EXCEPT
                                !.mReleasingIds = SubSeq(z.cl.mReleasingIds, n + 1, Len(z.cl.mReleasingIds)),
                                !.mReleasedIds = z.cl.mReleasedIds \cup ToSet(SubSeq(z.cl.mReleasingIds, 1, n))]]
<1> DEFINE ids == z.cl.mReleasingIds
           n == IF Room(z) < Len(ids) THEN Room(z) ELSE Len(ids)
<1>1. ids \in Seq(BufferIds) /\ Len(ids) \in Nat /\ Room(z) \in Int
    BY QueueAssumption DEF Objects, Clients, Room
<1>2. n \in 0 .. Len(ids) /\ n <= Room(z) /\ (n = Room(z) \/ n = Len(ids))
    BY <1>1
<1>3. r = [z EXCEPT !.mail = z.mail \o NotUsed(SubSeq(ids, 1, n)),
                    !.cl = [z.cl EXCEPT !.mReleasingIds = SubSeq(ids, n + 1, Len(ids)),
                                        !.mReleasedIds = z.cl.mReleasedIds \cup ToSet(SubSeq(ids, 1, n))]]
  <2>1. r = [z EXCEPT !.mail = @ \o NotUsed(SubSeq(ids, 1, n)),
                  !.cl.mReleasingIds = SubSeq(ids, n + 1, Len(ids)),
                  !.cl.mReleasedIds = @ \cup ToSet(SubSeq(ids, 1, n))]
    BY DEF PostBufferRelease
  <2> HIDE DEF n, ids
  <2> QED BY <2>1 DEF Objects, Clients
<1> QED BY <1>2, <1>3

\* A list of ids cut in two.
LEMMA Parts ==
    ASSUME NEW ids \in Seq(BufferIds), NEW n \in 0 .. Len(ids)
    PROVE  /\ SubSeq(ids, 1, n) \in Seq(BufferIds) /\ Len(SubSeq(ids, 1, n)) = n
           /\ \A i \in 1 .. n : SubSeq(ids, 1, n)[i] = ids[i]
           /\ SubSeq(ids, n + 1, Len(ids)) \in Seq(BufferIds)
           /\ Len(SubSeq(ids, n + 1, Len(ids))) = Len(ids) - n
           /\ \A i \in 1 .. Len(ids) - n : SubSeq(ids, n + 1, Len(ids))[i] = ids[n + i]
           /\ ToSet(SubSeq(ids, 1, n)) = {ids[i] : i \in 1 .. n}
<1>1. Len(ids) \in Nat /\ \A i \in 1 .. Len(ids) : ids[i] \in BufferIds
    OBVIOUS
<1>2. /\ SubSeq(ids, 1, n) \in Seq(BufferIds) /\ Len(SubSeq(ids, 1, n)) = n
      /\ \A i \in 1 .. n : SubSeq(ids, 1, n)[i] = ids[i]
    BY <1>1
<1>3. /\ SubSeq(ids, n + 1, Len(ids)) \in Seq(BufferIds)
      /\ Len(SubSeq(ids, n + 1, Len(ids))) = Len(ids) - n
      /\ \A i \in 1 .. Len(ids) - n : SubSeq(ids, n + 1, Len(ids))[i] = ids[n + i]
    BY <1>1
<1>4. ToSet(SubSeq(ids, 1, n)) = {ids[i] : i \in 1 .. n}
  <2> DEFINE s == SubSeq(ids, 1, n)
  <2>1. DOMAIN s = 1 .. n /\ \A i \in 1 .. n : s[i] = ids[i]
    BY <1>1, <1>2
  <2> HIDE DEF s
  <2>2. ToSet(s) = {s[i] : i \in DOMAIN s}
    BY DEF ToSet
  <2> QED BY <2>1, <2>2 DEF s
<1> QED BY <1>2, <1>3, <1>4

\* The items of two sequences of messages, one after the other.
LEMMA ConcatItems ==
    ASSUME NEW s \in Seq(Messages), NEW t \in Seq(Messages)
    PROVE  /\ s \o t \in Seq(Messages) /\ Len(s \o t) = Len(s) + Len(t)
           /\ Len(s) \in Nat /\ Len(t) \in Nat
           /\ \A i \in 1 .. Len(s) : (s \o t)[i] = s[i]
           /\ \A i \in 1 .. Len(t) : (s \o t)[Len(s) + i] = t[i]
OBVIOUS

\* Releases that are posted stay where they are in the stream.
LEMMA SplitStream ==
    ASSUME NEW m \in Seq(Messages), NEW ids \in Seq(BufferIds), NEW n \in 0 .. Len(ids)
    PROVE  (m \o NotUsed(SubSeq(ids, 1, n))) \o NotUsed(SubSeq(ids, n + 1, Len(ids))) = m \o NotUsed(ids)
<1> DEFINE a == SubSeq(ids, 1, n)
           b == SubSeq(ids, n + 1, Len(ids))
<1>1. /\ a \in Seq(BufferIds) /\ Len(a) = n /\ (\A i \in 1 .. n : a[i] = ids[i])
      /\ b \in Seq(BufferIds) /\ Len(b) = Len(ids) - n /\ (\A i \in 1 .. Len(ids) - n : b[i] = ids[n + i])
      /\ Len(ids) \in Nat
    BY Parts
<1> HIDE DEF a, b
<1> DEFINE A == NotUsed(a)
           B == NotUsed(b)
           C == NotUsed(ids)
<1>2. /\ A \in Seq(Messages) /\ Len(A) = Len(a)
      /\ \A i \in 1 .. Len(a) : A[i] = Message("NOT_USED", a[i], 0, 0)
    BY <1>1, NotUsedItems
<1>3. /\ B \in Seq(Messages) /\ Len(B) = Len(b)
      /\ \A i \in 1 .. Len(b) : B[i] = Message("NOT_USED", b[i], 0, 0)
    BY <1>1, NotUsedItems
<1>4. /\ C \in Seq(Messages) /\ Len(C) = Len(ids)
      /\ \A i \in 1 .. Len(ids) : C[i] = Message("NOT_USED", ids[i], 0, 0)
    BY NotUsedItems
<1> HIDE DEF A, B, C
<1>5. \A i \in 1 .. n : A[i] = C[i]
  <2> TAKE i \in 1 .. n
  <2>1. i \in 1 .. Len(ids) /\ i \in 1 .. Len(a) /\ a[i] = ids[i]
    BY <1>1
  <2> QED BY <1>2, <1>4, <2>1
<1>6. \A i \in 1 .. Len(ids) - n : B[i] = C[n + i]
  <2> TAKE i \in 1 .. Len(ids) - n
  <2>1. n + i \in 1 .. Len(ids) /\ i \in 1 .. Len(b)
    BY <1>1
  <2>2. b[i] = ids[n + i]
    BY <1>1
  <2> QED BY <1>3, <1>4, <2>1, <2>2
<1> DEFINE mA == m \o A
           l == mA \o B
           r == m \o C
<1>7. /\ mA \in Seq(Messages) /\ Len(mA) = Len(m) + Len(A) /\ Len(m) \in Nat
      /\ (\A i \in 1 .. Len(m) : mA[i] = m[i])
      /\ \A i \in 1 .. Len(A) : mA[Len(m) + i] = A[i]
    BY <1>2, ConcatItems
<1>8. /\ r \in Seq(Messages) /\ Len(r) = Len(m) + Len(C)
      /\ (\A i \in 1 .. Len(m) : r[i] = m[i])
      /\ \A i \in 1 .. Len(C) : r[Len(m) + i] = C[i]
    BY <1>4, ConcatItems
<1> HIDE DEF mA, r
<1>9. /\ l \in Seq(Messages) /\ Len(l) = Len(mA) + Len(B)
      /\ (\A i \in 1 .. Len(mA) : l[i] = mA[i])
      /\ \A i \in 1 .. Len(B) : l[Len(mA) + i] = B[i]
    BY <1>3, <1>7, ConcatItems
<1> HIDE DEF l
<1>10. Len(l) = Len(r)
    BY <1>1, <1>2, <1>3, <1>4, <1>7, <1>8, <1>9
<1>11. ASSUME NEW i \in 1 .. Len(r) PROVE l[i] = r[i]
  <2>1. CASE i <= Len(m)
    <3>1. i \in 1 .. Len(m) /\ i \in 1 .. Len(mA)
      BY <1>1, <1>2, <1>7, <2>1
    <3> QED BY <3>1, <1>7, <1>8, <1>9
  <2>2. CASE i > Len(m) /\ i <= Len(m) + n
    <3> DEFINE k == i - Len(m)
    <3>1. /\ k \in 1 .. n /\ i = Len(m) + k /\ i \in 1 .. Len(mA) /\ k \in 1 .. Len(A)
          /\ k \in 1 .. Len(C)
      BY <1>1, <1>2, <1>4, <1>7, <2>2
    <3> HIDE DEF k
    <3> QED BY <3>1, <1>5, <1>7, <1>8, <1>9
  <2>3. CASE i > Len(m) + n
    <3> DEFINE k == i - (Len(m) + n)
    <3>1. /\ k \in 1 .. Len(ids) - n /\ i = Len(mA) + k /\ k \in 1 .. Len(B)
          /\ n + k \in 1 .. Len(C) /\ i = Len(m) + (n + k)
      BY <1>1, <1>2, <1>3, <1>4, <1>7, <1>8, <2>3
    <3> HIDE DEF k
    <3> QED BY <3>1, <1>6, <1>8, <1>9
  <2> QED BY <2>1, <2>2, <2>3, <1>1, <1>7, <1>8
<1>12. l = r
  <2>1. l = [i \in 1 .. Len(l) |-> l[i]]
    BY <1>9
  <2>2. r = [i \in 1 .. Len(r) |-> r[i]]
    BY <1>8
  <2> QED BY <1>10, <1>11, <2>1, <2>2
<1> QED BY <1>12 DEF l, r, mA, A, B, C, a, b

\* What a client has is the same, and what its cache has.
SameHeld(k, l) ==
    /\ l.state = k.state /\ l.refs = k.refs /\ l.dying = k.dying
    /\ l.mCreating = k.mCreating /\ l.locked = k.locked

SameRest(k, l) ==
    /\ SameHeld(k, l) /\ l.mBuffers = k.mBuffers /\ l.hasCache = k.hasCache
    /\ l.mInvalidateId = k.mInvalidateId /\ l.mInvalidateAck = k.mInvalidateAck

\* The object is one, has the same place in the queue, and does not exceed it.
Valid(z, r) ==
    r \in Objects /\ r.taken = z.taken /\ Room(r) >= 0 /\ Len(z.mail) <= Len(r.mail)

\* Releases that are posted move from mReleasingIds to mReleasedIds.
LEMMA ReleasedCache ==
    ASSUME NEW k \in Clients, NEW un, Cache(k, un), NEW n \in 0 .. Len(k.mReleasingIds),
           NEW l \in Clients, SameRest(k, l),
           l.mReleasingIds = SubSeq(k.mReleasingIds, n + 1, Len(k.mReleasingIds)),
           l.mReleasedIds = k.mReleasedIds \cup ToSet(SubSeq(k.mReleasingIds, 1, n))
    PROVE  Cache(l, un) /\ ReleasingSet(l) \subseteq ReleasingSet(k)
<1> DEFINE ids == k.mReleasingIds
           rest == l.mReleasingIds
<1>1. ids \in Seq(BufferIds) /\ Len(ids) \in Nat /\ \A i \in 1 .. Len(ids) : ids[i] \in BufferIds
    BY DEF Clients
<1>2. /\ Len(rest) = Len(ids) - n /\ (\A i \in 1 .. Len(ids) - n : rest[i] = ids[n + i])
      /\ l.mReleasedIds = k.mReleasedIds \cup {ids[i] : i \in 1 .. n}
  <2> DEFINE f == SubSeq(ids, 1, n)
             g == SubSeq(ids, n + 1, Len(ids))
  <2>1. /\ Len(g) = Len(ids) - n /\ (\A i \in 1 .. Len(ids) - n : g[i] = ids[n + i])
        /\ ToSet(f) = {ids[i] : i \in 1 .. n}
    BY <1>1, Parts
  <2>2. rest = g /\ l.mReleasedIds = k.mReleasedIds \cup ToSet(f)
    OBVIOUS
  <2> HIDE DEF f, g, ids, rest
  <2> QED BY <2>1, <2>2
<1>3. \A i \in 1 .. Len(rest) : n + i \in 1 .. Len(ids) /\ n + i \notin 1 .. n /\ rest[i] = ids[n + i]
    BY <1>1, <1>2, SMTT(30)
<1>4. \A i \in 1 .. n : i \in 1 .. Len(ids)
    BY <1>1
<1>5. NoRepeat(ids) /\ ReleasingSet(k) = {ids[i] : i \in 1 .. Len(ids)}
      /\ ReleasingSet(l) = {rest[i] : i \in 1 .. Len(rest)}
    BY DEF Cache, ReleasingSet
<1> HIDE DEF ids, rest
<1>6. NoRepeat(rest)
  <2>1. ASSUME NEW i \in 1 .. Len(rest), NEW j \in 1 .. Len(rest), rest[i] = rest[j] PROVE i = j
    <3>1. n + i = n + j
      BY <1>3, <1>5, <2>1 DEF NoRepeat
    <3> QED BY <3>1, <1>1, <1>2
  <2> QED BY <2>1 DEF NoRepeat
<1>7. ReleasingSet(l) \subseteq ReleasingSet(k)
    BY <1>3, <1>5
<1>8. \A b \in ReleasingSet(l) : b \in l.mReleasedIds => b \in k.mReleasedIds
  <2>1. ASSUME NEW i \in 1 .. Len(rest), NEW j \in 1 .. n PROVE rest[i] # ids[j]
    BY <1>3, <1>4, <1>5, <2>1 DEF NoRepeat
  <2> QED BY <1>2, <1>5, <2>1
<1>9. \A b \in l.mReleasedIds : b \in k.mReleasedIds \/ b \in ReleasingSet(k)
    BY <1>2, <1>4, <1>5
<1>10. k.mReleasedIds \subseteq l.mReleasedIds
    BY <1>2
<1> QED BY <1>6, <1>7, <1>8, <1>9, <1>10 DEF Cache, SameRest, SameHeld, rest

\* The outcome of postBufferRelease().
ReleaseDone(z, r) ==
    /\ Valid(z, r) /\ r.inv = z.inv /\ SameRest(z.cl, r.cl) /\ Stream(r) = Stream(z)
    /\ Room(r) = 0 \/ r.cl.mReleasingIds = <<>>
    /\ Fits(z) => Room(r) >= 1 /\ r.cl.mReleasingIds = <<>>
    /\ ReleasingSet(r.cl) \subseteq ReleasingSet(z.cl)
    /\ \A un : Cache(z.cl, un) => Cache(r.cl, un)

\* postBufferRelease() changes nothing in what the connection says.
LEMMA ReleaseFields ==
    ASSUME NEW z \in Objects, Room(z) >= 0, NoRepeat(z.cl.mReleasingIds),
           NEW r, r = PostBufferRelease(z)
    PROVE  ReleaseDone(z, r)
<1> DEFINE ids == z.cl.mReleasingIds
<1>1. PICK n \in 0 .. Len(ids) :
            /\ n <= Room(z) /\ (n = Room(z) \/ n = Len(ids))
            /\ r = [z EXCEPT !.mail = z.mail \o NotUsed(SubSeq(ids, 1, n)),
                             !.cl = [z.cl EXCEPT
                                !.mReleasingIds = SubSeq(ids, n + 1, Len(ids)),
                                !.mReleasedIds = z.cl.mReleasedIds \cup ToSet(SubSeq(ids, 1, n))]]
    BY ReleaseObject
<1> DEFINE first == SubSeq(ids, 1, n)
           rest == SubSeq(ids, n + 1, Len(ids))
           said == NotUsed(first)
           gone == ToSet(first)
           m == z.mail \o said
<1>2. /\ ids \in Seq(BufferIds) /\ Len(ids) \in Nat /\ z.mail \in Seq(Messages)
      /\ z.cl \in Clients /\ z.taken \in Nat /\ Len(z.mail) \in Nat
    BY DEF Objects, Clients
<1>3. /\ first \in Seq(BufferIds) /\ Len(first) = n
      /\ rest \in Seq(BufferIds) /\ Len(rest) = Len(ids) - n /\ gone = {ids[i] : i \in 1 .. n}
    BY <1>2, Parts
<1>4. gone \subseteq BufferIds
    BY <1>2, <1>3
<1>5. said \in Seq(Messages) /\ Len(said) = n
    BY <1>3, NotUsedItems
<1> HIDE DEF said
<1>6. m \in Seq(Messages) /\ Len(m) = Len(z.mail) + n
    BY <1>2, <1>5, ConcatItems
<1>7. m \o NotUsed(rest) = z.mail \o NotUsed(ids)
    BY <1>2, SplitStream DEF said
<1> HIDE DEF m, gone, rest
<1> DEFINE cl == [z.cl EXCEPT !.mReleasingIds = rest, !.mReleasedIds = z.cl.mReleasedIds \cup gone]
<1>8. /\ cl \in Clients /\ SameRest(z.cl, cl) /\ cl.mReleasingIds = rest
      /\ cl.mReleasedIds = z.cl.mReleasedIds \cup gone
    BY <1>2, <1>3, <1>4 DEF Clients, SameRest, SameHeld
<1>9. r = [z EXCEPT !.mail = m, !.cl = cl]
    BY <1>1 DEF m, gone, rest, said
<1> HIDE DEF cl
<1>10. r \in Objects /\ r.mail = m /\ r.cl = cl /\ r.taken = z.taken /\ r.inv = z.inv
    BY <1>6, <1>8, <1>9 DEF Objects
<1>11. Room(z) = QueueSize - (Len(z.mail) - z.taken) /\ Room(r) = QueueSize - (Len(m) - z.taken)
    BY <1>10 DEF Room
<1>12. Room(r) = Room(z) - n
    BY <1>2, <1>6, <1>11, QueueAssumption
<1>13. Room(z) \in Int
    BY <1>2, <1>11, QueueAssumption
<1>14. Valid(z, r)
  <2>1. Room(r) >= 0
    BY <1>1, <1>12, <1>13
  <2>2. Len(z.mail) <= Len(r.mail)
    <3>1. Len(r.mail) = Len(z.mail) + n /\ Len(z.mail) \in Nat
      BY <1>2, <1>6, <1>10
    <3>2. n \in Nat
      BY <1>2
    <3> QED BY <3>1, <3>2
  <2> QED BY <1>10, <2>1, <2>2 DEF Valid
<1>15. Stream(r) = Stream(z)
    BY <1>7, <1>8, <1>10 DEF Stream
<1>16. rest = <<>> <=> n = Len(ids)
    BY <1>2, <1>3
<1>17. Room(r) = 0 \/ r.cl.mReleasingIds = <<>>
    BY <1>1, <1>8, <1>10, <1>12, <1>13, <1>16
<1>18. ASSUME Fits(z) PROVE Room(r) >= 1 /\ r.cl.mReleasingIds = <<>>
  <2>1. Room(z) >= Len(ids) + 1
    BY <1>18 DEF Fits
  <2>2. n = Len(ids)
    BY <2>1, <1>1, <1>2, <1>13
  <2> QED BY <2>1, <2>2, <1>2, <1>8, <1>10, <1>12, <1>13, <1>16
<1>19. ASSUME NEW un, Cache(z.cl, un) PROVE Cache(cl, un)
    BY <1>2, <1>8, <1>19, ReleasedCache DEF rest, gone
<1>20. ReleasingSet(cl) \subseteq ReleasingSet(z.cl)
  <2>1. /\ cl.mReleasingIds = rest /\ Len(rest) = Len(ids) - n
        /\ \A i \in 1 .. Len(ids) - n : rest[i] = ids[n + i]
    BY <1>2, <1>8, Parts DEF rest
  <2>2. \A i \in 1 .. Len(rest) : n + i \in 1 .. Len(ids) /\ rest[i] = ids[n + i]
    BY <1>2, <2>1
  <2> QED BY <2>1, <2>2 DEF ReleasingSet
<1> QED BY <1>8, <1>10, <1>14, <1>15, <1>17, <1>18, <1>19, <1>20 DEF ReleaseDone

\* A message is written to the queue when all releases are posted.
LEMMA AppendObject ==
    ASSUME NEW r \in Objects, r.cl.mReleasingIds = <<>>, Room(r) >= 1, NEW m \in Messages,
           NEW q, q = [r EXCEPT !.mail = Append(r.mail, m)]
    PROVE  /\ q \in Objects /\ q.cl = r.cl /\ q.taken = r.taken /\ q.inv = r.inv /\ Room(q) >= 0
           /\ Stream(q) = Append(Stream(r), m) /\ Len(q.mail) = Len(r.mail) + 1 /\ Len(r.mail) \in Nat
<1>1. r.mail \in Seq(Messages) /\ r.taken \in Nat /\ Len(r.mail) \in Nat
    BY DEF Objects
<1>2. Append(r.mail, m) \in Seq(Messages) /\ Len(Append(r.mail, m)) = Len(r.mail) + 1
    BY <1>1, AppendItems
<1> DEFINE k == Append(r.mail, m)
<1>3. k \in Seq(Messages) /\ Len(k) = Len(r.mail) + 1 /\ q = [r EXCEPT !.mail = k]
    BY <1>2
<1> HIDE DEF k
<1>4. /\ q \in Objects /\ q.cl = r.cl /\ q.taken = r.taken /\ q.inv = r.inv /\ q.mail = k
    BY <1>3 DEF Objects
<1>5. Room(q) >= 0
    BY <1>1, <1>3, <1>4, QueueAssumption DEF Room
<1>6. NotUsed(<<>>) = <<>>
    BY DEF NotUsed
<1>7. ASSUME NEW s \in Seq(Messages) PROVE s \o <<>> = s
    BY <1>7
<1>8. Stream(q) = k /\ Stream(r) = r.mail
    BY <1>1, <1>3, <1>4, <1>6, <1>7, ZenonT(30) DEF Stream
<1> QED BY <1>1, <1>3, <1>4, <1>5, <1>8 DEF k

\* The outcome of postStatus().
StatusPosted(z, q, m) ==
    /\ Valid(z, q) /\ q.inv = z.inv /\ SameRest(z.cl, q.cl) /\ Stream(q) = Append(Stream(z), m)
    /\ \A un : Cache(z.cl, un) => Cache(q.cl, un)

\* Releases go before the message that is posted.
LEMMA StatusFields ==
    ASSUME NEW z \in Objects, Room(z) >= 0, NoRepeat(z.cl.mReleasingIds), Fits(z),
           NEW m \in Messages, NEW q, q = PostStatus(z, m)
    PROVE  StatusPosted(z, q, m)
<1> DEFINE r == PostBufferRelease(z)
<1>1. q = [r EXCEPT !.mail = Append(r.mail, m)]
    BY DEF PostStatus
<1>2. ReleaseDone(z, r)
    BY ReleaseFields
<1> HIDE DEF r
<1>3. /\ Valid(z, r) /\ r.inv = z.inv /\ SameRest(z.cl, r.cl) /\ Stream(r) = Stream(z)
      /\ Room(r) >= 1 /\ r.cl.mReleasingIds = <<>> /\ \A un : Cache(z.cl, un) => Cache(r.cl, un)
    BY <1>2 DEF ReleaseDone
<1>4. r \in Objects /\ r.taken = z.taken /\ Len(z.mail) <= Len(r.mail) /\ Len(z.mail) \in Nat
    BY <1>3 DEF Valid, Objects
<1>5. /\ q \in Objects /\ q.cl = r.cl /\ q.taken = r.taken /\ q.inv = r.inv /\ Room(q) >= 0
      /\ Stream(q) = Append(Stream(r), m) /\ Len(q.mail) = Len(r.mail) + 1 /\ Len(r.mail) \in Nat
    BY <1>1, <1>3, <1>4, AppendObject
<1> QED BY <1>3, <1>4, <1>5 DEF StatusPosted, Valid

\* The acknowledgement of syncReleased().
AckOf(q) == Message("INVALIDATION_ACK", q.cl.mInvalidateId, 0, 0)

\* The outcome of syncReleased(): an invalidation may be read and acknowledged.
Synced(z, q, id) ==
    /\ Valid(z, q) /\ q.inv = <<>> /\ SameHeld(z.cl, q.cl)
    /\ Stream(q) = Stream(z) \/ Stream(q) = Append(Stream(z), AckOf(q))
    /\ q.cl.mReleasedIds = {} /\ ReleasingSet(q.cl) \subseteq ReleasingSet(z.cl)
    /\ q.cl.mInvalidateId \in {z.cl.mInvalidateId, IF z.inv = <<>> THEN id ELSE Last(z.inv).id}
    /\ q.cl.mInvalidateId >= z.cl.mInvalidateId
    /\ \A un : Cache(z.cl, un) => Cache(q.cl, un)

\* The last invalidation of a list.
LEMMA LastItem ==
    ASSUME NEW s \in Seq(Invalidations), s # <<>>
    PROVE  Last(s) \in Invalidations /\ Last(s).id \in Nat
<1>1. s[Len(s)] \in Invalidations
    OBVIOUS
<1> QED BY <1>1 DEF Last, Invalidations

\* syncReleased() has that outcome.
LEMMA SyncFields ==
    ASSUME NEW z \in Objects, Room(z) >= 0, NoRepeat(z.cl.mReleasingIds), NEW id \in Nat,
           NEW q, q = SyncReleased(z, id)
    PROVE  Synced(z, q, id)
<1> DEFINE r == PostBufferRelease(z)
           cache == r.cl.hasCache \ r.cl.mReleasedIds
           N(b) == \E i \in DOMAIN z.inv : IsBufferInRange(z.inv[i].from, z.inv[i].to, b)
           last == IF z.inv = <<>> THEN id ELSE Last(z.inv).id
           later == last > r.cl.mInvalidateId
           ack == IF later THEN z.inv = <<>> ELSE r.cl.mInvalidateAck
           bufs == {b \in r.cl.mBuffers : b \in cache \/ ~N(b)}
           mid == IF later THEN last ELSE r.cl.mInvalidateId
           s == [r EXCEPT !.cl = [r.cl EXCEPT !.hasCache = cache, !.mReleasedIds = {}, !.mBuffers = bufs,
                                              !.mInvalidateId = mid, !.mInvalidateAck = ack],
                          !.inv = <<>>]
<1>1. ReleaseDone(z, r)
    BY ReleaseFields
<1>2. /\ r \in Objects /\ r.taken = z.taken /\ Room(r) >= 0
      /\ r.inv = z.inv /\ SameRest(z.cl, r.cl) /\ Stream(r) = Stream(z)
      /\ Room(r) = 0 \/ r.cl.mReleasingIds = <<>>
      /\ ReleasingSet(r.cl) \subseteq ReleasingSet(z.cl)
      /\ Len(z.mail) <= Len(r.mail) /\ Len(z.mail) \in Nat
      /\ \A un : Cache(z.cl, un) => Cache(r.cl, un)
    BY <1>1 DEF ReleaseDone, Valid, Objects
<1>3. q = IF ack \/ Room(s) = 0 THEN s
          ELSE [s EXCEPT !.mail = Append(@, Message("INVALIDATION_ACK", s.cl.mInvalidateId, 0, 0)),
                         !.cl.mInvalidateAck = TRUE]
  <2> DEFINE s1 == [r EXCEPT !.cl.hasCache = cache, !.cl.mReleasedIds = {}, !.inv = <<>>,
                       !.cl.mBuffers = {b \in @ : b \in cache \/ ~N(b)},
                       !.cl.mInvalidateId = IF later THEN last ELSE @, !.cl.mInvalidateAck = ack]
  <2>1. q = IF ack \/ Room(s1) = 0 THEN s1
            ELSE [s1 EXCEPT !.mail = Append(@, Message("INVALIDATION_ACK", s1.cl.mInvalidateId, 0, 0)),
                            !.cl.mInvalidateAck = TRUE]
    BY DEF SyncReleased
  <2> HIDE DEF r, cache, N, last, ack, later
  <2>2. s1 = s
    BY <1>2 DEF Objects, Clients
  <2> HIDE DEF s, s1
  <2> QED BY <2>1, <2>2
<1>4. r.cl \in Clients /\ r.cl.mInvalidateId \in Nat /\ r.cl.mInvalidateAck \in BOOLEAN /\ z.inv \in Seq(Invalidations)
    BY <1>2 DEF Objects, Clients
<1>5. last \in Nat
    BY <1>4, LastItem
<1>6. ack \in BOOLEAN
    BY <1>4
<1>7. /\ mid \in Nat /\ mid \in {r.cl.mInvalidateId, last} /\ mid >= r.cl.mInvalidateId
    BY <1>4, <1>5
<1>8. cache \in SUBSET BufferIds /\ bufs \in SUBSET BufferIds
    BY <1>4 DEF Clients
<1>9. cache \subseteq r.cl.hasCache /\ (r.cl.hasCache \subseteq r.cl.mBuffers => cache \subseteq bufs)
    OBVIOUS
<1>10. cache = r.cl.hasCache \ r.cl.mReleasedIds
    OBVIOUS
<1> HIDE DEF r, cache, last, ack, mid, bufs
<1> DEFINE cl == [r.cl EXCEPT !.hasCache = cache, !.mReleasedIds = {}, !.mBuffers = bufs,
                              !.mInvalidateId = mid, !.mInvalidateAck = ack]
<1>11. /\ cl \in Clients /\ SameHeld(r.cl, cl) /\ cl.mReleasingIds = r.cl.mReleasingIds
       /\ cl.mReleasedIds = {} /\ cl.mInvalidateId = mid /\ cl.hasCache = cache /\ cl.mBuffers = bufs
    BY <1>4, <1>6, <1>7, <1>8 DEF Clients, SameHeld
<1>12. s = [r EXCEPT !.cl = cl, !.inv = <<>>]
    OBVIOUS
<1> HIDE DEF cl, s
<1>13. s \in Objects /\ s.cl = cl /\ s.inv = <<>> /\ s.taken = r.taken /\ s.mail = r.mail
  <2>1. <<>> \in Seq(Invalidations)
    OBVIOUS
  <2> QED BY <1>2, <1>11, <1>12, <2>1 DEF Objects
<1>14. Room(s) = Room(r) /\ Stream(s) = Stream(r) /\ ReleasingSet(s.cl) = ReleasingSet(r.cl)
    BY <1>11, <1>13 DEF Room, Stream, ReleasingSet
<1>15. ASSUME NEW un, Cache(z.cl, un) PROVE Cache(cl, un)
  <2>1. Cache(r.cl, un)
    BY <1>2, <1>15
  <2>2. ReleasingSet(cl) = ReleasingSet(r.cl)
    BY <1>11 DEF ReleasingSet
  <2> QED BY <2>1, <2>2, <1>9, <1>10, <1>11 DEF Cache, SameHeld
<1>16. SameHeld(z.cl, cl) /\ mid \in {z.cl.mInvalidateId, last} /\ mid >= z.cl.mInvalidateId
    BY <1>2, <1>7, <1>11 DEF SameRest, SameHeld
<1>17. CASE q = s
    BY <1>2, <1>11, <1>13, <1>14, <1>15, <1>16, <1>17 DEF Synced, Valid, last
<1>18. CASE q # s
  <2>1. /\ Room(s) # 0
        /\ q = [s EXCEPT !.mail = Append(@, Message("INVALIDATION_ACK", s.cl.mInvalidateId, 0, 0)),
                         !.cl.mInvalidateAck = TRUE]
    BY <1>3, <1>18
  <2> DEFINE m == Message("INVALIDATION_ACK", mid, 0, 0)
             cl2 == [cl EXCEPT !.mInvalidateAck = TRUE]
             s2 == [s EXCEPT !.cl = cl2]
  <2>2. m \in Messages
    BY <1>7 DEF Message, Messages, Statuses
  <2>3. /\ cl2 \in Clients /\ SameHeld(cl, cl2) /\ cl2.mReleasingIds = cl.mReleasingIds
        /\ cl2.mReleasedIds = {} /\ cl2.mInvalidateId = mid /\ cl2.hasCache = cache /\ cl2.mBuffers = bufs
    BY <1>11 DEF Clients, SameHeld
  <2>4. q = [s2 EXCEPT !.mail = Append(s2.mail, m)]
    <3> HIDE DEF m
    <3>1. q = [s EXCEPT !.mail = Append(@, m), !.cl.mInvalidateAck = TRUE]
      BY <2>1, <1>11, <1>13 DEF m
    <3> QED BY <3>1, <1>13 DEF Objects, Clients
  <2> HIDE DEF cl2, m
  <2>5. s2 \in Objects /\ s2.cl = cl2 /\ s2.inv = <<>> /\ s2.taken = r.taken /\ s2.mail = r.mail
    BY <1>13, <2>3 DEF Objects
  <2> HIDE DEF s2
  <2>6. Room(s2) = Room(r) /\ Stream(s2) = Stream(r) /\ ReleasingSet(cl2) = ReleasingSet(r.cl)
    BY <1>11, <2>3, <2>5 DEF Room, Stream, ReleasingSet
  <2>7. Room(r) \in Int
    BY <1>2, QueueAssumption DEF Objects, Room
  <2>8. Room(s2) >= 1 /\ s2.cl.mReleasingIds = <<>>
    BY <1>2, <1>11, <1>14, <2>1, <2>3, <2>5, <2>6, <2>7
  <2>9. /\ q \in Objects /\ q.cl = s2.cl /\ q.taken = s2.taken /\ q.inv = s2.inv /\ Room(q) >= 0
        /\ Stream(q) = Append(Stream(s2), m) /\ Len(q.mail) = Len(s2.mail) + 1 /\ Len(s2.mail) \in Nat
    BY <2>2, <2>4, <2>5, <2>8, AppendObject
  <2>10. \A un : Cache(cl, un) => Cache(cl2, un)
    <3>1. ReleasingSet(cl2) = ReleasingSet(cl)
      BY <2>3 DEF ReleasingSet
    <3> QED BY <3>1, <1>11, <2>3 DEF Cache, SameHeld
  <2>11. m = AckOf(q) /\ q.cl.mInvalidateId = mid
    BY <2>3, <2>5, <2>9 DEF m, AckOf
  <2>12. SameHeld(z.cl, q.cl)
    BY <1>16, <2>3, <2>5, <2>9 DEF SameHeld
  <2>13. Valid(z, q) /\ q.inv = <<>>
    BY <1>2, <2>5, <2>9 DEF Valid
  <2>14. Stream(q) = Append(Stream(z), AckOf(q)) /\ q.cl.mReleasedIds = {}
         /\ ReleasingSet(q.cl) \subseteq ReleasingSet(z.cl)
    BY <1>2, <2>3, <2>5, <2>6, <2>9, <2>11
  <2>15. \A un : Cache(z.cl, un) => Cache(q.cl, un)
    BY <1>15, <2>5, <2>9, <2>10
  <2> QED BY <1>16, <2>11, <2>12, <2>13, <2>14, <2>15 DEF Synced, last
<1> QED BY <1>17, <1>18

\* More buffers may be unused.
LEMMA CacheMore ==
    ASSUME NEW k, NEW un, Cache(k, un), NEW un2, un \subseteq un2
    PROVE  Cache(k, un2)
BY DEF Cache

\* evictCaches() drops cache entries of buffers without a reference.
LEMMA EvictFields ==
    ASSUME NEW z \in Objects, Room(z) >= 0, NoRepeat(z.cl.mReleasingIds), NEW id \in Nat,
           NEW expired, NEW q, q = EvictCaches(SyncReleased(z, id), expired)
    PROVE  Synced(z, q, id)
<1> DEFINE s == SyncReleased(z, id)
<1>1. Synced(z, s, id) /\ q = EvictCaches(s, expired)
    BY SyncFields
<1> HIDE DEF s
<1>2. s \in Objects
    BY <1>1 DEF Synced, Valid
<1> DEFINE cl == [s.cl EXCEPT !.mBuffers = s.cl.mBuffers \ (expired \ s.cl.hasCache)]
<1>3. q = [s EXCEPT !.cl = cl]
    BY <1>1, <1>2 DEF EvictCaches, Objects
<1>4. /\ cl \in Clients /\ SameHeld(s.cl, cl) /\ cl.hasCache = s.cl.hasCache
      /\ cl.mBuffers = s.cl.mBuffers \ (expired \ s.cl.hasCache)
      /\ cl.mReleasingIds = s.cl.mReleasingIds /\ cl.mReleasedIds = s.cl.mReleasedIds
      /\ cl.mInvalidateId = s.cl.mInvalidateId
    BY <1>2 DEF Objects, Clients, SameHeld
<1> HIDE DEF cl
<1>5. q \in Objects /\ q.cl = cl /\ q.taken = s.taken /\ q.mail = s.mail /\ q.inv = s.inv
    BY <1>2, <1>3, <1>4 DEF Objects
<1>6. Room(q) = Room(s) /\ Stream(q) = Stream(s) /\ ReleasingSet(q.cl) = ReleasingSet(s.cl)
    BY <1>4, <1>5 DEF Room, Stream, ReleasingSet
<1>7. AckOf(q) = AckOf(s)
    BY <1>4, <1>5 DEF AckOf
<1>8. \A un : Cache(s.cl, un) => Cache(q.cl, un)
    BY <1>4, <1>5, <1>6 DEF Cache, SameHeld
<1>9. SameHeld(z.cl, q.cl)
    BY <1>1, <1>4, <1>5 DEF Synced, SameHeld
<1> QED BY <1>1, <1>4, <1>5, <1>6, <1>7, <1>8, <1>9 DEF Synced, Valid

\* The object keeps its queues and the releases that are to be posted.
SameQueue(z, q) ==
    /\ Valid(z, q) /\ q.inv = z.inv /\ Stream(q) = Stream(z) /\ q.mail = z.mail
    /\ q.cl.mReleasingIds = z.cl.mReleasingIds /\ q.cl.mReleasedIds = z.cl.mReleasedIds
    /\ q.cl.state = z.cl.state /\ q.cl.locked = z.cl.locked
    /\ q.cl.mInvalidateId = z.cl.mInvalidateId

\* A change of the caches of a client.
LEMMA ChangeClient ==
    ASSUME NEW z \in Objects, Room(z) >= 0, NEW k \in Clients,
           k.mReleasingIds = z.cl.mReleasingIds, k.mReleasedIds = z.cl.mReleasedIds,
           k.state = z.cl.state, k.locked = z.cl.locked, k.mInvalidateId = z.cl.mInvalidateId,
           NEW q, q = [z EXCEPT !.cl = k]
    PROVE  SameQueue(z, q) /\ q.cl = k
<1>1. q \in Objects /\ q.cl = k /\ q.taken = z.taken /\ q.mail = z.mail /\ q.inv = z.inv
    BY DEF Objects
<1>2. Room(q) = Room(z) /\ Stream(q) = Stream(z)
    BY <1>1 DEF Room, Stream
<1> QED BY <1>1, <1>2 DEF SameQueue, Valid

\* createCache() makes the first reference to a buffer.
LEMMA CreateFields ==
    ASSUME NEW z \in Objects, Room(z) >= 0, NEW b \in BufferIds, NEW q, q = CreateCache(z, b)
    PROVE  /\ SameQueue(z, q) /\ q.cl.dying = z.cl.dying
           /\ q.cl.refs = [z.cl.refs EXCEPT ![b] = 1]
           /\ \A un, un2 :
                /\ Cache(z.cl, un) /\ un \ {b} \subseteq un2 /\ b \notin z.cl.dying
                /\ b \notin ReleasingSet(z.cl) /\ b \notin z.cl.mReleasedIds
                => Cache(q.cl, un2)
<1> DEFINE f == [z.cl.refs EXCEPT ![b] = 1]
<1>1. z.cl \in Clients /\ z.cl.refs \in [BufferIds -> Int]
    BY DEF Objects, Clients
<1>2. f \in [BufferIds -> Int] /\ f[b] = 1 /\ \A d \in BufferIds : d # b => f[d] = z.cl.refs[d]
    BY <1>1
<1> DEFINE k == [z.cl EXCEPT !.mBuffers = z.cl.mBuffers \cup {b}, !.hasCache = z.cl.hasCache \cup {b},
                             !.refs = f]
<1>3. q = [z EXCEPT !.cl = k]
    BY <1>1 DEF CreateCache, Objects, Clients
<1> HIDE DEF f
<1>4. /\ k \in Clients /\ k.mBuffers = z.cl.mBuffers \cup {b} /\ k.hasCache = z.cl.hasCache \cup {b}
      /\ k.refs = f /\ k.dying = z.cl.dying
      /\ k.mReleasingIds = z.cl.mReleasingIds /\ k.mReleasedIds = z.cl.mReleasedIds
      /\ k.state = z.cl.state /\ k.locked = z.cl.locked /\ k.mInvalidateId = z.cl.mInvalidateId
    BY <1>1, <1>2 DEF Clients
<1> HIDE DEF k
<1>5. SameQueue(z, q) /\ q.cl = k
    BY <1>3, <1>4, ChangeClient
<1>6. ASSUME NEW un, NEW un2, Cache(z.cl, un), un \ {b} \subseteq un2, b \notin z.cl.dying,
             b \notin ReleasingSet(z.cl), b \notin z.cl.mReleasedIds
      PROVE  Cache(k, un2)
  <2>1. ReleasingSet(k) = ReleasingSet(z.cl)
    BY <1>4 DEF ReleasingSet
  <2>2. k.hasCache \subseteq k.mBuffers /\ NoRepeat(k.mReleasingIds)
    BY <1>4, <1>6 DEF Cache
  <2>3. ASSUME NEW d \in BufferIds, d # b
        PROVE  /\ k.refs[d] > 0 => d \in k.hasCache
               /\ d \in k.dying =>
                    d \in k.hasCache /\ k.refs[d] = 0 /\ d \notin ReleasingSet(k) /\ d \notin k.mReleasedIds
               /\ d \in ReleasingSet(k) \/ d \in k.mReleasedIds => k.refs[d] = 0
               /\ d \in ReleasingSet(k) => (d \in k.hasCache /\ d \notin k.mReleasedIds) \/ d \in un2
               /\ d \in k.mReleasedIds => d \in k.hasCache \/ d \in un2
    BY <1>2, <1>4, <1>6, <2>1, <2>3 DEF Cache
  <2>4. b \in k.hasCache /\ b \notin k.dying /\ b \notin ReleasingSet(k) /\ b \notin k.mReleasedIds
    BY <1>4, <1>6, <2>1
  <2> QED BY <2>2, <2>3, <2>4 DEF Cache
<1> QED BY <1>4, <1>5, <1>6 DEF f

\* The last reference that goes leaves work for the deleter.
LEMMA LoseFields ==
    ASSUME NEW z \in Objects, Room(z) >= 0, NEW b \in BufferIds, z.cl.refs[b] > 0,
           NEW q, q = LoseRef(z, b)
    PROVE  /\ SameQueue(z, q)
           /\ q.cl.refs = [z.cl.refs EXCEPT ![b] = z.cl.refs[b] - 1]
           /\ q.cl.dying = z.cl.dying \cup IF z.cl.refs[b] = 1 THEN {b} ELSE {}
           /\ \A un, un2 : Cache(z.cl, un) /\ un \subseteq un2 => Cache(q.cl, un2)
<1> DEFINE f == [z.cl.refs EXCEPT ![b] = z.cl.refs[b] - 1]
           dead == z.cl.dying \cup IF z.cl.refs[b] = 1 THEN {b} ELSE {}
           k == [z.cl EXCEPT !.refs = f, !.dying = dead]
<1>1. z.cl \in Clients /\ z.cl.refs \in [BufferIds -> Int] /\ z.cl.refs[b] \in Int
    BY DEF Objects, Clients
<1>2. f \in [BufferIds -> Int] /\ f[b] = z.cl.refs[b] - 1 /\ \A d \in BufferIds : d # b => f[d] = z.cl.refs[d]
    BY <1>1
<1>3. dead \in SUBSET BufferIds
    BY <1>1 DEF Clients
<1>4. q = [z EXCEPT !.cl = k]
  <2>1. dead = IF z.cl.refs[b] = 1 THEN z.cl.dying \cup {b} ELSE z.cl.dying
    OBVIOUS
  <2> HIDE DEF dead
  <2> QED BY <1>1, <2>1 DEF LoseRef, Objects, Clients
<1> HIDE DEF f, dead
<1>5. /\ k \in Clients /\ k.mBuffers = z.cl.mBuffers /\ k.hasCache = z.cl.hasCache
      /\ k.refs = f /\ k.dying = dead
      /\ k.mReleasingIds = z.cl.mReleasingIds /\ k.mReleasedIds = z.cl.mReleasedIds
      /\ k.state = z.cl.state /\ k.locked = z.cl.locked /\ k.mInvalidateId = z.cl.mInvalidateId
    BY <1>1, <1>2, <1>3 DEF Clients
<1> HIDE DEF k
<1>6. SameQueue(z, q) /\ q.cl = k
    BY <1>4, <1>5, ChangeClient
<1>7. ASSUME NEW un, NEW un2, Cache(z.cl, un), un \subseteq un2 PROVE Cache(k, un2)
  <2>1. ReleasingSet(k) = ReleasingSet(z.cl)
    BY <1>5 DEF ReleasingSet
  <2>2. k.hasCache \subseteq k.mBuffers /\ NoRepeat(k.mReleasingIds)
    BY <1>5, <1>7 DEF Cache
  <2>3. b \in k.hasCache /\ b \notin ReleasingSet(k) /\ b \notin k.mReleasedIds
    BY <1>1, <1>5, <1>7, <2>1 DEF Cache
  <2>4. b \in k.dying => k.refs[b] = 0
    BY <1>1, <1>2, <1>5, <1>7 DEF Cache, dead
  <2>5. ASSUME NEW d \in BufferIds, d # b
        PROVE  /\ k.refs[d] > 0 => d \in k.hasCache
               /\ d \in k.dying =>
                    d \in k.hasCache /\ k.refs[d] = 0 /\ d \notin ReleasingSet(k) /\ d \notin k.mReleasedIds
               /\ d \in ReleasingSet(k) \/ d \in k.mReleasedIds => k.refs[d] = 0
               /\ d \in ReleasingSet(k) => (d \in k.hasCache /\ d \notin k.mReleasedIds) \/ d \in un2
               /\ d \in k.mReleasedIds => d \in k.hasCache \/ d \in un2
    <3>1. k.refs[d] = z.cl.refs[d] /\ (d \in k.dying <=> d \in z.cl.dying)
      BY <1>2, <1>5, <2>5 DEF dead
    <3> QED BY <3>1, <1>5, <1>7, <2>1 DEF Cache
  <2> QED BY <2>2, <2>3, <2>4, <2>5 DEF Cache
<1> QED BY <1>5, <1>6, <1>7 DEF f, dead

\* The outcome of the release of a buffer.
Deleted(z, q, b) ==
    /\ Valid(z, q) /\ q.inv = z.inv /\ SameRest(z.cl, q.cl)
    /\ Stream(q) = Append(Stream(z), Message("NOT_USED", b, 0, 0))
    /\ \A un : /\ Cache(z.cl, un) /\ b \notin z.cl.dying
               /\ (b \in z.cl.hasCache /\ b \notin z.cl.mReleasedIds) \/ b \in un
               => Cache(q.cl, un)

\* postRelease() has that outcome.
LEMMA PostReleaseFields ==
    ASSUME NEW z \in Objects, Room(z) >= 0, NEW b \in BufferIds, z.cl.refs[b] = 0,
           NoRepeat(z.cl.mReleasingIds), b \notin ReleasingSet(z.cl), NEW q, q = PostRelease(z, b)
    PROVE  Deleted(z, q, b)
<1> DEFINE ids == z.cl.mReleasingIds
           more == Append(ids, b)
           k == [z.cl EXCEPT !.mReleasingIds = more]
           y == [z EXCEPT !.cl = k]
<1>1. z.cl \in Clients /\ ids \in Seq(BufferIds) /\ z.mail \in Seq(Messages) /\ Len(ids) \in Nat
    BY DEF Objects, Clients
<1>2. /\ more \in Seq(BufferIds) /\ Len(more) = Len(ids) + 1
      /\ (\A i \in 1 .. Len(ids) : more[i] = ids[i]) /\ more[Len(ids) + 1] = b
    BY <1>1
<1>3. q = PostBufferRelease(y)
    BY <1>1 DEF PostRelease, Objects, Clients
<1> HIDE DEF more
<1>4. /\ k \in Clients /\ SameRest(z.cl, k) /\ k.mReleasingIds = more /\ k.mReleasedIds = z.cl.mReleasedIds
    BY <1>1, <1>2 DEF Clients, SameRest, SameHeld
<1> HIDE DEF k
<1>5. y \in Objects /\ y.cl = k /\ y.taken = z.taken /\ y.mail = z.mail /\ y.inv = z.inv
    BY <1>4 DEF Objects
<1> HIDE DEF y
<1>6. Room(y) >= 0
    BY <1>5 DEF Room
<1>7. \A i \in 1 .. Len(more) : i \in 1 .. Len(ids) \/ i = Len(ids) + 1
    BY <1>1, <1>2
<1>8. NoRepeat(more)
  <2>1. \A i \in 1 .. Len(ids) : ids[i] # b
    BY DEF ReleasingSet
  <2>2. ASSUME NEW i \in 1 .. Len(more), NEW j \in 1 .. Len(more), more[i] = more[j] PROVE i = j
    <3>1. CASE i = Len(ids) + 1 /\ j = Len(ids) + 1
      BY <3>1
    <3>2. CASE i \in 1 .. Len(ids) /\ j = Len(ids) + 1
      BY <1>2, <2>1, <2>2, <3>2
    <3>3. CASE i = Len(ids) + 1 /\ j \in 1 .. Len(ids)
      BY <1>2, <2>1, <2>2, <3>3
    <3>4. CASE i \in 1 .. Len(ids) /\ j \in 1 .. Len(ids)
      BY <1>2, <2>2, <3>4 DEF NoRepeat
    <3> QED BY <1>7, <3>1, <3>2, <3>3, <3>4
  <2> QED BY <2>2 DEF NoRepeat
<1>9. ReleasingSet(k) = ReleasingSet(z.cl) \cup {b}
  <2>1. \A i \in 1 .. Len(ids) : i \in 1 .. Len(more)
    BY <1>1, <1>2
  <2>2. Len(ids) + 1 \in 1 .. Len(more)
    BY <1>1, <1>2
  <2> QED BY <1>2, <1>4, <1>7, <2>1, <2>2, SMTT(30) DEF ReleasingSet
<1>10. Stream(y) = Append(Stream(z), Message("NOT_USED", b, 0, 0))
  <2> DEFINE A == NotUsed(ids)
             B == NotUsed(more)
             m == Message("NOT_USED", b, 0, 0)
             l == z.mail \o B
             s == z.mail \o A
             r == Append(s, m)
  <2>1. A \in Seq(Messages) /\ Len(A) = Len(ids) /\ \A i \in 1 .. Len(ids) : A[i] = Message("NOT_USED", ids[i], 0, 0)
    BY <1>1, NotUsedItems
  <2>2. B \in Seq(Messages) /\ Len(B) = Len(more) /\ \A i \in 1 .. Len(more) : B[i] = Message("NOT_USED", more[i], 0, 0)
    BY <1>2, NotUsedItems
  <2>3. m \in Messages
    BY DEF Message, Messages, Statuses, BufferIds
  <2> HIDE DEF A, B
  <2>4. B[Len(ids) + 1] = m /\ \A i \in 1 .. Len(ids) : B[i] = A[i]
    <3>1. Len(ids) + 1 \in 1 .. Len(more) /\ \A i \in 1 .. Len(ids) : i \in 1 .. Len(more)
      BY <1>1, <1>2
    <3> QED BY <1>2, <2>1, <2>2, <3>1
  <2> HIDE DEF m
  <2>5. /\ s \in Seq(Messages) /\ Len(s) = Len(z.mail) + Len(A) /\ Len(z.mail) \in Nat
        /\ (\A i \in 1 .. Len(z.mail) : s[i] = z.mail[i])
        /\ \A i \in 1 .. Len(A) : s[Len(z.mail) + i] = A[i]
    BY <1>1, <2>1, ConcatItems
  <2>6. /\ l \in Seq(Messages) /\ Len(l) = Len(z.mail) + Len(B)
        /\ (\A i \in 1 .. Len(z.mail) : l[i] = z.mail[i])
        /\ \A i \in 1 .. Len(B) : l[Len(z.mail) + i] = B[i]
    BY <1>1, <2>2, ConcatItems
  <2> HIDE DEF s, l
  <2>7. /\ r \in Seq(Messages) /\ Len(r) = Len(s) + 1
        /\ (\A i \in 1 .. Len(s) : r[i] = s[i]) /\ r[Len(s) + 1] = m
    BY <2>3, <2>5, AppendItems
  <2> HIDE DEF r
  <2> DEFINE n == Len(ids)
             h == Len(z.mail)
  <2>12. n \in Nat /\ h \in Nat /\ Len(A) = n
    BY <1>1, <2>1, <2>5
  <2>13. Len(B) = n + 1
    BY <1>2, <2>2
  <2>14. Len(s) = h + n
    BY <2>5, <2>12
  <2>15. Len(l) = h + (n + 1)
    BY <2>6, <2>13
  <2>16. Len(r) = (h + n) + 1
    BY <2>7, <2>14
  <2> HIDE DEF n, h
  <2>8. Len(l) = Len(r)
    BY <2>12, <2>15, <2>16
  <2>9. ASSUME NEW i \in 1 .. Len(r) PROVE l[i] = r[i]
    <3>1. CASE i <= h
      <4>1. i \in 1 .. h /\ i \in 1 .. Len(s)
        BY <2>9, <2>12, <2>14, <2>16, <3>1
      <4> QED BY <4>1, <2>5, <2>6, <2>7 DEF h
    <3>2. CASE i > h /\ i <= h + n
      <4> DEFINE j == i - h
      <4>1. j \in 1 .. n /\ j \in 1 .. Len(A) /\ j \in 1 .. Len(B) /\ i = h + j /\ i \in 1 .. Len(s)
        BY <2>9, <2>12, <2>13, <2>14, <2>16, <3>2
      <4> HIDE DEF j
      <4> QED BY <4>1, <2>4, <2>5, <2>6, <2>7 DEF n, h
    <3>3. CASE i > h + n
      <4>1. i = h + (n + 1) /\ n + 1 \in 1 .. Len(B) /\ i = Len(s) + 1
        BY <2>9, <2>12, <2>13, <2>14, <2>16, <3>3
      <4> QED BY <4>1, <2>4, <2>6, <2>7 DEF n, h
    <3> QED BY <3>1, <3>2, <3>3, <2>9, <2>12, <2>16
  <2>10. l = [i \in 1 .. Len(l) |-> l[i]] /\ r = [i \in 1 .. Len(r) |-> r[i]]
    BY <2>6, <2>7
  <2>11. l = r
    BY <2>8, <2>9, <2>10
  <2> QED BY <2>11, <1>4, <1>5 DEF l, r, s, A, B, m, Stream
<1>11. ReleaseDone(y, q)
    BY <1>3, <1>4, <1>5, <1>6, <1>8, ReleaseFields
<1>12. /\ Valid(y, q) /\ q.inv = y.inv /\ SameRest(y.cl, q.cl) /\ Stream(q) = Stream(y)
       /\ \A un : Cache(y.cl, un) => Cache(q.cl, un)
    BY <1>11 DEF ReleaseDone
<1>13. ASSUME NEW un, Cache(z.cl, un), b \notin z.cl.dying,
              (b \in z.cl.hasCache /\ b \notin z.cl.mReleasedIds) \/ b \in un
       PROVE  Cache(k, un)
  <2>1. k.hasCache \subseteq k.mBuffers /\ NoRepeat(k.mReleasingIds)
    BY <1>4, <1>8, <1>13 DEF Cache, SameRest
  <2>2. ASSUME NEW d \in BufferIds
        PROVE  /\ k.refs[d] > 0 => d \in k.hasCache
               /\ d \in k.dying =>
                    d \in k.hasCache /\ k.refs[d] = 0 /\ d \notin ReleasingSet(k) /\ d \notin k.mReleasedIds
               /\ d \in ReleasingSet(k) \/ d \in k.mReleasedIds => k.refs[d] = 0
               /\ d \in ReleasingSet(k) => (d \in k.hasCache /\ d \notin k.mReleasedIds) \/ d \in un
               /\ d \in k.mReleasedIds => d \in k.hasCache \/ d \in un
    BY <1>4, <1>9, <1>13 DEF Cache, SameRest, SameHeld
  <2> QED BY <2>1, <2>2 DEF Cache
<1>14. SameRest(z.cl, q.cl)
    BY <1>4, <1>5, <1>12 DEF SameRest, SameHeld
<1> QED BY <1>5, <1>10, <1>12, <1>13, <1>14 DEF Deleted, Valid

-----------------------------------------------------------------------------
(* What clients hold.                                                      *)

\* The transfers of a buffer that receive() has got are finitely many.
LEMMA GotCount ==
    ASSUME NEW x, NEW c, NEW b
    PROVE  IsFiniteSet(Got(x, c, b)) /\ Cardinality(Got(x, c, b)) \in Nat
<1>1. Got(x, c, b) \in SUBSET Transactions
    BY DEF Got
<1>2. IsFiniteSet(Got(x, c, b))
    BY <1>1, FS_Subset, TransactionsAssumption
<1> QED BY <1>2, FS_CardinalityType

\* The references and the caches of a client are the same.
SameRefs(k, l) ==
    l.refs = k.refs /\ l.dying = k.dying /\ (l.state # "gone" => k.state # "gone")

SameCache(k, l) ==
    /\ SameRefs(k, l) /\ l.mBuffers = k.mBuffers /\ l.hasCache = k.hasCache
    /\ l.mReleasingIds = k.mReleasingIds /\ l.mReleasedIds = k.mReleasedIds

\* A step of the pool: what connections hold stays, in so far as it matters.
LEMMA PoolFrame ==
    ASSUME NEW C, NEW S, NEW U, NEW x, NEW un, NEW al, Holdings(C, S, U, x, un, al),
           NEW C2, NEW S2, NEW U2, NEW x2, NEW un2, un \subseteq un2,
           \A c \in Connections : SameCache(C[c], C2[c]),
           \A c \in Connections, b \in BufferIds : C[c].state = "gone" => C[c].refs[b] = 0,
           \A c \in Connections, b \in BufferIds : C[c].state # "gone" =>
                (Holds(U2, c, S2[c], b) <=> Holds(U, c, S[c], b)),
           \A c \in Connections, b \in BufferIds : Got(x2, c, b) = Got(x, c, b),
           \A b \in BufferIds : Abandoned(x, Local, b) => Abandoned(x2, Local, b),
           C[Local].state # "gone", Local \in Connections,
           \A b \in BufferIds : \A i \in 1 .. Len(S2[Local]) : Releases(S2[Local][i], b) =>
                \E j \in 1 .. Len(S[Local]) :
                    /\ Releases(S[Local][j], b)
                    /\ Granted(U, Local, S[Local], b, j) => Granted(U2, Local, S2[Local], b, i),
           \A b \in al : b \in BufferIds /\ (<<Local, b>> \in U => <<Local, b>> \in U2)
    PROVE  Holdings(C2, S2, U2, x2, un2, al)
<1>1. ASSUME NEW c \in Connections
      PROVE  Cache(C2[c], OfLocal(c, un2)) /\ Holding(C2[c], c, S2[c], U2, x2, OfLocal(c, al))
  <2>1. /\ Cache(C[c], OfLocal(c, un)) /\ Holding(C[c], c, S[c], U, x, OfLocal(c, al))
        /\ SameCache(C[c], C2[c])
    BY DEF Holdings
  <2>2. Cache(C[c], OfLocal(c, un2))
    BY <2>1, CacheMore DEF OfLocal
  <2>3. ReleasingSet(C2[c]) = ReleasingSet(C[c])
    BY <2>1 DEF SameCache, ReleasingSet
  <2>4. Cache(C2[c], OfLocal(c, un2))
    BY <2>1, <2>2, <2>3 DEF Cache, SameCache, SameRefs
  <2>5. ASSUME NEW b \in BufferIds
        PROVE  /\ Cardinality(Got(x2, c, b)) <= C2[c].refs[b]
               /\ C2[c].refs[b] > Cardinality(Got(x2, c, b)) => Holds(U2, c, S2[c], b)
               /\ C2[c].state # "gone" /\ Holds(U2, c, S2[c], b) =>
                    C2[c].refs[b] > 0 \/ b \in C2[c].dying \/ b \in OfLocal(c, al)
    <3>1. /\ Cardinality(Got(x, c, b)) <= C[c].refs[b]
          /\ C[c].refs[b] > Cardinality(Got(x, c, b)) => Holds(U, c, S[c], b)
          /\ C[c].state # "gone" /\ Holds(U, c, S[c], b) =>
                C[c].refs[b] > 0 \/ b \in C[c].dying \/ b \in OfLocal(c, al)
      BY <2>1 DEF Holding
    <3>2. C2[c].refs[b] = C[c].refs[b] /\ C2[c].dying = C[c].dying
          /\ (C2[c].state # "gone" => C[c].state # "gone") /\ Got(x2, c, b) = Got(x, c, b)
      BY <2>1 DEF SameCache, SameRefs
    <3>3. CASE C[c].state = "gone"
      <4>1. C[c].refs[b] = 0 /\ Cardinality(Got(x, c, b)) \in Nat
        BY <3>3, GotCount
      <4>2. ~(C[c].refs[b] > Cardinality(Got(x, c, b)))
        BY <4>1
      <4> QED BY <3>1, <3>2, <3>3, <4>2
    <3>4. CASE C[c].state # "gone"
      BY <3>1, <3>2, <3>4
    <3> QED BY <3>3, <3>4
  <2> QED BY <2>4, <2>5 DEF Holding
<1>2. Honest(C[Local], S[Local], U, x) /\ Fresh(C[Local], S[Local], U, al, un) /\ SameCache(C[Local], C2[Local])
    BY DEF Holdings
<1>3. Honest(C2[Local], S2[Local], U2, x2)
  <2>1. ASSUME NEW b \in BufferIds, NEW i \in 1 .. Len(S2[Local]), Releases(S2[Local][i], b)
        PROVE  Granted(U2, Local, S2[Local], b, i) \/ Abandoned(x2, Local, b)
    <3>1. PICK j \in 1 .. Len(S[Local]) :
                /\ Releases(S[Local][j], b)
                /\ Granted(U, Local, S[Local], b, j) => Granted(U2, Local, S2[Local], b, i)
      BY <2>1
    <3> QED BY <1>2, <3>1 DEF Honest
  <2>2. ASSUME NEW b \in BufferIds, b \in C2[Local].dying
        PROVE  Holds(U2, Local, S2[Local], b) \/ Abandoned(x2, Local, b)
    BY <1>2, <2>2 DEF Honest, SameCache, SameRefs
  <2> QED BY <2>1, <2>2 DEF Honest
<1>4. Fresh(C2[Local], S2[Local], U2, al, un2)
    BY <1>2 DEF Fresh, SameCache, SameRefs
<1> QED BY <1>1, <1>3, <1>4 DEF Holdings

\* The pool reads a message: what the connection holds then is what it held.
LEMMA ReadFrame ==
    ASSUME NEW C, NEW S \in AllStreams, NEW U, NEW x, NEW un, NEW al, Holdings(C, S, U, x, un, al),
           NEW U2, NEW un2, un \subseteq un2, al \subseteq BufferIds,
           NEW c \in Connections, S[c] # <<>>, NEW S2, S2 = [S EXCEPT ![c] = Tail(S[c])],
           \A d \in Connections, b \in BufferIds :
                <<d, b>> \in U2 <=> (<<d, b>> \in U /\ ~(d = c /\ Releases(Head(S[c]), b)))
                                    \/ (d = c /\ Grants(Head(S[c]), b)),
           \A d \in Connections, b \in BufferIds : C[d].state = "gone" => C[d].refs[b] = 0,
           C[Local].state # "gone", Local \in Connections
    PROVE  Holdings(C, S2, U2, x, un2, al)
<1>1. S[c] \in Seq(Messages) /\ S2[c] = Tail(S[c]) /\ \A d \in Connections : d # c => S2[d] = S[d]
    BY DEF AllStreams
<1>2. ASSUME NEW d \in Connections, NEW b \in BufferIds
      PROVE  Holds(U2, d, S2[d], b) <=> Holds(U, d, S[d], b)
  <2>1. CASE d = c
    <3>1. <<c, b>> \in U2 <=> (<<c, b>> \in U /\ ~Releases(Head(S[c]), b)) \/ Grants(Head(S[c]), b)
      BY <2>1
    <3>2. Holds(U2, c, Tail(S[c]), b) <=> Holds(U, c, S[c], b)
      BY <1>1, <3>1, TailGranted
    <3> QED BY <1>1, <2>1, <3>2
  <2>2. CASE d # c
    <3>1. (<<d, b>> \in U2 <=> <<d, b>> \in U) /\ S2[d] = S[d]
      BY <1>1, <2>2
    <3> QED BY <3>1 DEF Holds, Granted
  <2> QED BY <2>1, <2>2
<1>3. ASSUME NEW b \in BufferIds, NEW i \in 1 .. Len(S2[Local]), Releases(S2[Local][i], b)
      PROVE  \E j \in 1 .. Len(S[Local]) :
                    /\ Releases(S[Local][j], b)
                    /\ Granted(U, Local, S[Local], b, j) => Granted(U2, Local, S2[Local], b, i)
  <2>1. CASE c # Local
    <3>1. (<<Local, b>> \in U2 <=> <<Local, b>> \in U) /\ S2[Local] = S[Local]
      BY <1>1, <2>1
    <3>2. Granted(U, Local, S[Local], b, i) => Granted(U2, Local, S2[Local], b, i)
      BY <3>1 DEF Granted
    <3> QED BY <1>3, <3>1, <3>2
  <2>2. CASE c = Local
    <3>1. /\ Len(S2[c]) = Len(S[c]) - 1 /\ (\A k \in 1 .. Len(S[c]) - 1 : S2[c][k] = S[c][k + 1])
          /\ Len(S[c]) \in Nat
      <4>1. PICK s : s = S[c]
        OBVIOUS
      <4>2. s \in Seq(Messages) /\ s # <<>> /\ S2[c] = Tail(s)
        BY <1>1, <4>1
      <4>3. Len(Tail(s)) = Len(s) - 1 /\ (\A k \in 1 .. Len(s) - 1 : Tail(s)[k] = s[k + 1]) /\ Len(s) \in Nat
        BY <4>2, TailItems
      <4> QED BY <4>1, <4>2, <4>3
    <3>2. i + 1 \in 1 .. Len(S[c]) /\ i + 1 \in 2 .. Len(S[c]) + 1 /\ S2[c][i] = S[c][i + 1] /\ (i + 1) - 1 = i
      BY <1>3, <2>2, <3>1
    <3>3. <<c, b>> \in U2 <=> (<<c, b>> \in U /\ ~Releases(Head(S[c]), b)) \/ Grants(Head(S[c]), b)
      OBVIOUS
    <3>4. \A j \in 2 .. Len(S[c]) + 1 : Granted(U, c, S[c], b, j) => Granted(U2, c, Tail(S[c]), b, j - 1)
      BY <1>1, <3>3, TailGranted
    <3>5. Granted(U, c, S[c], b, i + 1) => Granted(U2, c, S2[c], b, i)
      BY <1>1, <3>2, <3>4
    <3> QED BY <1>3, <2>2, <3>2, <3>5
  <2> QED BY <2>1, <2>2
<1>4. ASSUME NEW b \in al, <<Local, b>> \in U PROVE <<Local, b>> \in U2
  <2>1. b \in BufferIds
    OBVIOUS
  <2>2. CASE c # Local
    BY <1>4, <2>1, <2>2
  <2>3. CASE c = Local
    <3>1. \A i \in 1 .. Len(S[Local]) : ~Releases(S[Local][i], b)
      BY DEF Holdings, Fresh
    <3>2. Head(S[c]) = S[c][1] /\ 1 \in 1 .. Len(S[c])
      BY <1>1, TailItems
    <3> QED BY <1>4, <2>1, <2>3, <3>1, <3>2
  <2> QED BY <2>2, <2>3
<1>5. \A d \in Connections : SameCache(C[d], C[d])
    BY DEF SameCache, SameRefs
<1>6. \A b \in al : b \in BufferIds /\ (<<Local, b>> \in U => <<Local, b>> \in U2)
    BY <1>4
<1> QED BY <1>2, <1>3, <1>5, <1>6, PoolFrame

\* A step of client c leaves the others alone, and of the buffers that were unused takes
\* at most one into use that allocate() has for the local client.
Others(C, S, x, un, C2, S2, x2, un2, c) ==
    /\ c \in Connections
    /\ \A d \in Connections : d # c => C2[d] = C[d] /\ S2[d] = S[d]
    /\ c # Local => un \subseteq un2
    /\ \A d \in Connections, b \in BufferIds : d # c => Got(x2, d, b) = Got(x, d, b)
    /\ \A b \in BufferIds : Abandoned(x, Local, b) => Abandoned(x2, Local, b)

\* What is to be shown of a step of client c: the rest of Holdings follows.
LEMMA ClientFrame ==
    ASSUME NEW C, NEW S, NEW U, NEW x, NEW un, NEW al, Holdings(C, S, U, x, un, al),
           NEW C2, NEW S2, NEW x2, NEW un2, NEW al2, NEW c, Others(C, S, x, un, C2, S2, x2, un2, c),
           c # Local => al2 = al,
           Cache(C2[c], OfLocal(c, un2)), Holding(C2[c], c, S2[c], U, x2, OfLocal(c, al2)),
           c = Local => Honest(C2[c], S2[c], U, x2) /\ Fresh(C2[c], S2[c], U, al2, un2)
    PROVE  Holdings(C2, S2, U, x2, un2, al2)
<1>1. ASSUME NEW d \in Connections, d # c
      PROVE  Cache(C2[d], OfLocal(d, un2)) /\ Holding(C2[d], d, S2[d], U, x2, OfLocal(d, al2))
  <2>1. /\ Cache(C[d], OfLocal(d, un)) /\ Holding(C[d], d, S[d], U, x, OfLocal(d, al))
    BY DEF Holdings
  <2>2. OfLocal(d, un) \subseteq OfLocal(d, un2) /\ OfLocal(d, al) = OfLocal(d, al2)
    BY <1>1 DEF OfLocal, Others
  <2>3. Cache(C[d], OfLocal(d, un2))
    BY <2>1, <2>2, CacheMore
  <2>4. Holding(C[d], d, S[d], U, x2, OfLocal(d, al2))
    BY <1>1, <2>1, <2>2 DEF Holding, Others
  <2> QED BY <1>1, <2>3, <2>4 DEF Others
<1>2. ASSUME c # Local
      PROVE  Honest(C2[Local], S2[Local], U, x2) /\ Fresh(C2[Local], S2[Local], U, al2, un2)
  <2>1. /\ Honest(C[Local], S[Local], U, x) /\ Fresh(C[Local], S[Local], U, al, un)
        /\ C2[Local] = C[Local] /\ S2[Local] = S[Local] /\ un \subseteq un2 /\ al2 = al
    BY <1>2, ConnectionsAssumption DEF Holdings, Others
  <2>2. Honest(C[Local], S[Local], U, x2)
    BY <2>1 DEF Honest, Others
  <2>3. Fresh(C[Local], S[Local], U, al, un2)
    BY <2>1 DEF Fresh
  <2> QED BY <2>1, <2>2, <2>3
<1>3. c = Local => Honest(C2[Local], S2[Local], U, x2) /\ Fresh(C2[Local], S2[Local], U, al2, un2)
    OBVIOUS
<1> QED BY <1>1, <1>2, <1>3 DEF Holdings

\* A client says something that is neither a release nor the end of a transfer.
Quiet(c, s, s2) ==
    /\ s \in Seq(Messages) /\ s2 \in Seq(Messages)
    /\ \A U, b : Holds(U, c, s2, b) <=> Holds(U, c, s, b)
    /\ \A U, b : \A i \in 1 .. Len(s2) : Releases(s2[i], b) =>
            /\ i \in 1 .. Len(s) /\ Releases(s[i], b)
            /\ Granted(U, c, s, b, i) => Granted(U, c, s2, b, i)

\* To say nothing is Quiet,
LEMMA QuietSame ==
    ASSUME NEW c, NEW s \in Seq(Messages)
    PROVE  Quiet(c, s, s)
BY DEF Quiet

\* so is a message that is neither a release nor TRANSFER_OK,
LEMMA QuietAppend ==
    ASSUME NEW c, NEW s \in Seq(Messages), NEW m \in Messages, m.newStatus \notin {"NOT_USED", "TRANSFER_OK"}
    PROVE  Quiet(c, s, Append(s, m))
<1>1. \A b : ~Releases(m, b) /\ ~Grants(m, b)
    BY DEF Releases, Grants
<1> DEFINE r == Append(s, m)
<1>2. /\ r \in Seq(Messages) /\ Len(r) = Len(s) + 1 /\ (\A i \in 1 .. Len(s) : r[i] = s[i])
      /\ r[Len(s) + 1] = m /\ Len(s) \in Nat
    BY AppendItems
<1>3. ASSUME NEW U, NEW b
      PROVE  /\ \A j \in 1 .. Len(s) + 1 : Granted(U, c, s, b, j) <=> Granted(U, c, r, b, j)
             /\ Holds(U, c, r, b) <=> (Holds(U, c, s, b) /\ ~Releases(m, b)) \/ Grants(m, b)
    BY AppendGranted
<1> HIDE DEF r
<1>4. \A i \in 1 .. Len(r) : i \in 1 .. Len(s) \/ i = Len(s) + 1
    BY <1>2
<1>5. \A i \in 1 .. Len(s) : i \in 1 .. Len(s) + 1
    BY <1>2
<1>6. \A U, b : Holds(U, c, r, b) <=> Holds(U, c, s, b)
    BY <1>1, <1>3
<1>7. ASSUME NEW U, NEW b, NEW i \in 1 .. Len(r), Releases(r[i], b)
      PROVE  /\ i \in 1 .. Len(s) /\ Releases(s[i], b)
             /\ Granted(U, c, s, b, i) => Granted(U, c, r, b, i)
  <2>1. i \in 1 .. Len(s)
    BY <1>1, <1>2, <1>4, <1>7
  <2> QED BY <1>2, <1>3, <1>5, <1>7, <2>1
<1> QED BY <1>2, <1>6, <1>7 DEF Quiet, r

\* and so are two of them.
LEMMA QuietTwice ==
    ASSUME NEW c, NEW s, NEW s1, NEW s2, Quiet(c, s, s1), Quiet(c, s1, s2)
    PROVE  Quiet(c, s, s2)
<1>1. s \in Seq(Messages) /\ s2 \in Seq(Messages) /\ \A U, b : Holds(U, c, s2, b) <=> Holds(U, c, s, b)
    BY DEF Quiet
<1>2. ASSUME NEW U, NEW b, NEW i \in 1 .. Len(s2), Releases(s2[i], b)
      PROVE  /\ i \in 1 .. Len(s) /\ Releases(s[i], b)
             /\ Granted(U, c, s, b, i) => Granted(U, c, s2, b, i)
  <2>1. i \in 1 .. Len(s1) /\ Releases(s1[i], b) /\ (Granted(U, c, s1, b, i) => Granted(U, c, s2, b, i))
    BY <1>2 DEF Quiet
  <2>2. i \in 1 .. Len(s) /\ Releases(s[i], b) /\ (Granted(U, c, s, b, i) => Granted(U, c, s1, b, i))
    BY <2>1 DEF Quiet
  <2> QED BY <2>1, <2>2
<1> QED BY <1>1, <1>2 DEF Quiet

\* The local client remains honest.
LEMMA QuietLocal ==
    ASSUME NEW C, NEW S, NEW U, NEW x, NEW un, NEW al, Holdings(C, S, U, x, un, al),
           NEW k, NEW s, NEW x2, NEW un2, un \subseteq un2, Quiet(Local, S[Local], s),
           k.dying = C[Local].dying,
           \A b \in BufferIds : Abandoned(x, Local, b) => Abandoned(x2, Local, b)
    PROVE  Honest(k, s, U, x2) /\ Fresh(k, s, U, al, un2)
<1>1. Honest(C[Local], S[Local], U, x) /\ Fresh(C[Local], S[Local], U, al, un)
    BY DEF Holdings
<1>2. Honest(k, s, U, x2)
    BY <1>1 DEF Honest, Quiet
<1>3. Fresh(k, s, U, al, un2)
    BY <1>1 DEF Fresh, Quiet
<1> QED BY <1>2, <1>3

\* A quiet step in which no reference comes or goes.
LEMMA QuietStep ==
    ASSUME NEW C, NEW S, NEW U, NEW x, NEW un, NEW al, Holdings(C, S, U, x, un, al),
           NEW C2, NEW S2, NEW x2, NEW un2, NEW c, Others(C, S, x, un, C2, S2, x2, un2, c),
           un \subseteq un2,
           Quiet(c, S[c], S2[c]), SameRefs(C[c], C2[c]), Cache(C2[c], OfLocal(c, un)),
           \A b \in BufferIds : Got(x2, c, b) = Got(x, c, b)
    PROVE  Holdings(C2, S2, U, x2, un2, al)
<1>1. Cache(C2[c], OfLocal(c, un2))
    BY CacheMore DEF OfLocal, Others
<1>2. Holding(C2[c], c, S2[c], U, x2, OfLocal(c, al))
  <2>1. Holding(C[c], c, S[c], U, x, OfLocal(c, al))
    BY DEF Holdings, Others
  <2> QED BY <2>1 DEF Holding, Quiet, SameRefs
<1>3. ASSUME c = Local PROVE Honest(C2[c], S2[c], U, x2) /\ Fresh(C2[c], S2[c], U, al, un2)
  <2>1. Quiet(Local, S[Local], S2[c]) /\ C2[c].dying = C[Local].dying
    BY <1>3 DEF SameRefs
  <2> QED BY <2>1, QuietLocal DEF Others
<1> QED BY <1>1, <1>2, <1>3, ClientFrame

\* receive() gets a reference.
LEMMA GainStep ==
    ASSUME NEW C, NEW S, NEW U, NEW x, NEW un, NEW al, Holdings(C, S, U, x, un, al),
           NEW C2, NEW S2, NEW x2, NEW un2, NEW c, Others(C, S, x, un, C2, S2, x2, un2, c),
           un \subseteq un2,
           Quiet(c, S[c], S2[c]), Cache(C2[c], OfLocal(c, un)),
           NEW b \in BufferIds, C[c].refs \in [BufferIds -> Int],
           C2[c].refs = [C[c].refs EXCEPT ![b] = C[c].refs[b] + 1], C2[c].dying = C[c].dying,
           C2[c].state = C[c].state,
           \A d \in BufferIds : d # b => Got(x2, c, d) = Got(x, c, d),
           NEW t, t \notin Got(x, c, b), Got(x2, c, b) = Got(x, c, b) \cup {t}
    PROVE  Holdings(C2, S2, U, x2, un2, al)
<1>1. Cache(C2[c], OfLocal(c, un2))
    BY CacheMore DEF OfLocal, Others
<1>2. IsFiniteSet(Got(x, c, b)) /\ Cardinality(Got(x, c, b)) \in Nat
    BY GotCount
<1>3. Cardinality(Got(x2, c, b)) = Cardinality(Got(x, c, b)) + 1
    BY <1>2, FS_AddElement
<1>4. Holding(C2[c], c, S2[c], U, x2, OfLocal(c, al))
  <2>1. Holding(C[c], c, S[c], U, x, OfLocal(c, al))
    BY DEF Holdings, Others
  <2>2. ASSUME NEW d \in BufferIds, d # b
        PROVE  /\ Cardinality(Got(x2, c, d)) <= C2[c].refs[d]
               /\ C2[c].refs[d] > Cardinality(Got(x2, c, d)) => Holds(U, c, S2[c], d)
               /\ C2[c].state # "gone" /\ Holds(U, c, S2[c], d) =>
                    C2[c].refs[d] > 0 \/ d \in C2[c].dying \/ d \in OfLocal(c, al)
    <3>1. C2[c].refs[d] = C[c].refs[d] /\ Got(x2, c, d) = Got(x, c, d)
      BY <2>2
    <3>2. Holds(U, c, S2[c], d) <=> Holds(U, c, S[c], d)
      BY DEF Quiet
    <3> QED BY <2>1, <3>1, <3>2 DEF Holding
  <2>3. C2[c].refs[b] = C[c].refs[b] + 1 /\ C[c].refs[b] \in Int
    OBVIOUS
  <2>4. /\ Cardinality(Got(x, c, b)) <= C[c].refs[b]
        /\ C[c].refs[b] > Cardinality(Got(x, c, b)) => Holds(U, c, S2[c], b)
    BY <2>1 DEF Holding, Quiet
  <2>5. /\ Cardinality(Got(x2, c, b)) <= C2[c].refs[b] /\ C2[c].refs[b] > 0
        /\ C2[c].refs[b] > Cardinality(Got(x2, c, b)) => Holds(U, c, S2[c], b)
    BY <1>2, <1>3, <2>3, <2>4
  <2> QED BY <2>2, <2>5 DEF Holding
<1>5. ASSUME c = Local PROVE Honest(C2[c], S2[c], U, x2) /\ Fresh(C2[c], S2[c], U, al, un2)
  <2>1. Quiet(Local, S[Local], S2[c]) /\ C2[c].dying = C[Local].dying
    BY <1>5
  <2> QED BY <2>1, QuietLocal DEF Others
<1> QED BY <1>1, <1>4, <1>5, ClientFrame

\* The end of a transfer is posted: the reference passes to the application.
Given(C, S, x, C2, S2, x2, c, b, m, t) ==
    /\ S[c] \in Seq(Messages) /\ m \in Messages /\ S2[c] = Append(S[c], m)
    /\ b \in BufferIds /\ m.newStatus = "TRANSFER_OK" /\ m.bufferId = b
    /\ SameRefs(C[c], C2[c]) /\ C[c].refs \in [BufferIds -> Int]
    /\ \A d \in BufferIds : d # b => Got(x2, c, d) = Got(x, c, d)
    /\ t \in Got(x, c, b) /\ Got(x2, c, b) = Got(x, c, b) \ {t}

\* A client says TRANSFER_OK.
LEMMA GrantStep ==
    ASSUME NEW C, NEW S, NEW U, NEW x, NEW un, NEW al, Holdings(C, S, U, x, un, al),
           NEW C2, NEW S2, NEW x2, NEW un2, NEW c, Others(C, S, x, un, C2, S2, x2, un2, c),
           un \subseteq un2, Cache(C2[c], OfLocal(c, un)),
           NEW b, NEW m, NEW t, Given(C, S, x, C2, S2, x2, c, b, m, t)
    PROVE  Holdings(C2, S2, U, x2, un2, al)
<1> USE DEF Given
<1>1. Cache(C2[c], OfLocal(c, un2))
    BY CacheMore DEF OfLocal, Others
<1>2. IsFiniteSet(Got(x, c, b)) /\ Cardinality(Got(x, c, b)) \in Nat
    BY GotCount
<1>3. Cardinality(Got(x2, c, b)) = Cardinality(Got(x, c, b)) - 1
    BY <1>2, FS_RemoveElement, ZenonT(30)
<1>4. Cardinality(Got(x2, c, b)) \in Nat
    BY GotCount
<1>5. \A d : ~Releases(m, d) /\ (Grants(m, d) <=> d = b)
    BY DEF Releases, Grants
<1>6. ASSUME NEW d
      PROVE  /\ \A j \in 1 .. Len(S[c]) + 1 : Granted(U, c, S[c], d, j) <=> Granted(U, c, S2[c], d, j)
             /\ Holds(U, c, S2[c], d) <=> (Holds(U, c, S[c], d) /\ ~Releases(m, d)) \/ Grants(m, d)
    BY AppendGranted
<1>7. Holding(C[c], c, S[c], U, x, OfLocal(c, al))
    BY DEF Holdings, Others
<1>8. C2[c].refs = C[c].refs /\ C2[c].dying = C[c].dying /\ (C2[c].state # "gone" => C[c].state # "gone")
    BY DEF SameRefs
<1>9. C[c].refs[b] > 0
  <2>1. Cardinality(Got(x, c, b)) <= C[c].refs[b] /\ C[c].refs[b] \in Int
    BY <1>7 DEF Holding
  <2> QED BY <1>2, <1>3, <1>4, <2>1
<1>10. Holding(C2[c], c, S2[c], U, x2, OfLocal(c, al))
  <2>1. ASSUME NEW d \in BufferIds, d # b
        PROVE  /\ Cardinality(Got(x2, c, d)) <= C2[c].refs[d]
               /\ C2[c].refs[d] > Cardinality(Got(x2, c, d)) => Holds(U, c, S2[c], d)
               /\ C2[c].state # "gone" /\ Holds(U, c, S2[c], d) =>
                    C2[c].refs[d] > 0 \/ d \in C2[c].dying \/ d \in OfLocal(c, al)
    <3>1. Holds(U, c, S2[c], d) <=> Holds(U, c, S[c], d)
      BY <1>5, <1>6, <2>1
    <3> QED BY <1>7, <1>8, <2>1, <3>1 DEF Holding
  <2>2. Cardinality(Got(x2, c, b)) <= C2[c].refs[b]
    <3>1. Cardinality(Got(x, c, b)) <= C[c].refs[b] /\ C[c].refs[b] \in Int
      BY <1>7 DEF Holding
    <3> QED BY <1>2, <1>3, <1>8, <3>1
  <2>3. Holds(U, c, S2[c], b)
    BY <1>5, <1>6
  <2> QED BY <1>8, <1>9, <2>1, <2>2, <2>3 DEF Holding
<1>11. ASSUME c = Local PROVE Honest(C2[c], S2[c], U, x2) /\ Fresh(C2[c], S2[c], U, al, un2)
  <2>1. Honest(C[c], S[c], U, x) /\ Fresh(C[c], S[c], U, al, un)
    BY <1>11 DEF Holdings
  <2>2. /\ Len(S2[c]) = Len(S[c]) + 1 /\ (\A i \in 1 .. Len(S[c]) : S2[c][i] = S[c][i])
        /\ S2[c][Len(S[c]) + 1] = m /\ Len(S[c]) \in Nat
    BY AppendItems
  <2>3. \A i \in 1 .. Len(S2[c]) : i \in 1 .. Len(S[c]) \/ i = Len(S[c]) + 1
    BY <2>2
  <2>4. \A i \in 1 .. Len(S[c]) : i \in 1 .. Len(S[c]) + 1
    BY <2>2
  <2>5. ASSUME NEW d, NEW i \in 1 .. Len(S2[c]), Releases(S2[c][i], d)
        PROVE  i \in 1 .. Len(S[c]) /\ Releases(S[c][i], d) /\ (Granted(U, c, S[c], d, i) => Granted(U, c, S2[c], d, i))
    BY <1>5, <1>6, <2>2, <2>3, <2>4, <2>5
  <2>6. \A d : Holds(U, c, S[c], d) => Holds(U, c, S2[c], d)
    BY <1>5, <1>6
  <2>7. Honest(C2[c], S2[c], U, x2)
    BY <1>8, <1>11, <2>1, <2>5, <2>6 DEF Honest, Others
  <2>8. Fresh(C2[c], S2[c], U, al, un2)
    BY <1>8, <2>1, <2>5 DEF Fresh, Others
  <2> QED BY <2>7, <2>8
<1> QED BY <1>1, <1>10, <1>11, ClientFrame

\* A reference goes; if it was the last, the deleter has work to do.
LEMMA LoseStep ==
    ASSUME NEW C, NEW S, NEW U, NEW x, NEW un, NEW al, Holdings(C, S, U, x, un, al),
           NEW C2, NEW S2, NEW x2, NEW un2, NEW c, Others(C, S, x, un, C2, S2, x2, un2, c),
           un \subseteq un2, S2[c] = S[c], Cache(C2[c], OfLocal(c, un)),
           NEW b \in BufferIds, b \notin al, C[c].refs \in [BufferIds -> Int], C[c].refs[b] > 0,
           C2[c].refs = [C[c].refs EXCEPT ![b] = C[c].refs[b] - 1],
           C2[c].dying = C[c].dying \cup IF C[c].refs[b] = 1 THEN {b} ELSE {},
           C2[c].state = C[c].state,
           \A d \in BufferIds : d # b => Got(x2, c, d) = Got(x, c, d),
           Cardinality(Got(x2, c, b)) <= C[c].refs[b] - 1,
           C[c].refs[b] - 1 > Cardinality(Got(x2, c, b)) => C[c].refs[b] > Cardinality(Got(x, c, b)),
           c = Local => Holds(U, c, S[c], b) \/ Abandoned(x2, Local, b)
    PROVE  Holdings(C2, S2, U, x2, un2, al)
<1>1. Cache(C2[c], OfLocal(c, un2))
    BY CacheMore DEF OfLocal
<1>2. /\ C2[c].refs[b] = C[c].refs[b] - 1 /\ C[c].refs[b] \in Int
      /\ \A d \in BufferIds : d # b => C2[c].refs[d] = C[c].refs[d]
    OBVIOUS
<1>3. /\ \A d : d # b => (d \in C2[c].dying <=> d \in C[c].dying)
      /\ C[c].refs[b] = 1 => b \in C2[c].dying
    OBVIOUS
<1>4. C2[c].refs[b] > 0 \/ b \in C2[c].dying
    BY <1>2, <1>3
<1>5. Holding(C[c], c, S[c], U, x, OfLocal(c, al))
    BY DEF Holdings, Others
<1>6. Holding(C2[c], c, S2[c], U, x2, OfLocal(c, al))
  <2>1. ASSUME NEW d \in BufferIds, d # b
        PROVE  /\ Cardinality(Got(x2, c, d)) <= C2[c].refs[d]
               /\ C2[c].refs[d] > Cardinality(Got(x2, c, d)) => Holds(U, c, S2[c], d)
               /\ C2[c].state # "gone" /\ Holds(U, c, S2[c], d) =>
                    C2[c].refs[d] > 0 \/ d \in C2[c].dying \/ d \in OfLocal(c, al)
    BY <1>2, <1>3, <1>5, <2>1 DEF Holding
  <2>2. C2[c].refs[b] > Cardinality(Got(x2, c, b)) => Holds(U, c, S2[c], b)
    BY <1>2, <1>5 DEF Holding
  <2>3. Cardinality(Got(x2, c, b)) <= C2[c].refs[b]
    BY <1>2
  <2> QED BY <1>4, <2>1, <2>2, <2>3 DEF Holding
<1>7. ASSUME c = Local PROVE Honest(C2[c], S2[c], U, x2) /\ Fresh(C2[c], S2[c], U, al, un2)
  <2>1. Honest(C[c], S[c], U, x) /\ Fresh(C[c], S[c], U, al, un)
    BY <1>7 DEF Holdings
  <2>2. ASSUME NEW d \in BufferIds
        PROVE  /\ \A i \in 1 .. Len(S2[c]) : Releases(S2[c][i], d) =>
                    Granted(U, Local, S2[c], d, i) \/ Abandoned(x2, Local, d)
               /\ d \in C2[c].dying => Holds(U, Local, S2[c], d) \/ Abandoned(x2, Local, d)
    <3>1. Abandoned(x, Local, d) => Abandoned(x2, Local, d)
      BY DEF Others
    <3>2. CASE d = b
      BY <1>7, <2>1, <3>1, <3>2 DEF Honest
    <3>3. CASE d # b
      BY <1>3, <1>7, <2>1, <3>1, <3>3 DEF Honest
    <3> QED BY <3>2, <3>3
  <2>3. Honest(C2[c], S2[c], U, x2)
    BY <2>2 DEF Honest
  <2>4. \A d \in al : d \notin C2[c].dying
    BY <1>3, <2>1 DEF Fresh
  <2>5. Fresh(C2[c], S2[c], U, al, un2)
    BY <2>1, <2>4 DEF Fresh
  <2> QED BY <2>3, <2>5
<1> QED BY <1>1, <1>6, <1>7, ClientFrame

\* A reference of client c to b goes.
Loses(C, S, U, x, C2, x2, c, b) ==
    /\ C[c].refs \in [BufferIds -> Int] /\ C[c].refs[b] > 0
    /\ C2[c].refs = [C[c].refs EXCEPT ![b] = C[c].refs[b] - 1]
    /\ C2[c].dying = C[c].dying \cup IF C[c].refs[b] = 1 THEN {b} ELSE {}
    /\ C2[c].state = C[c].state
    /\ \A d \in BufferIds : d # b => Got(x2, c, d) = Got(x, c, d)
    /\ Cardinality(Got(x2, c, b)) <= C[c].refs[b] - 1
    /\ C[c].refs[b] - 1 > Cardinality(Got(x2, c, b)) => C[c].refs[b] > Cardinality(Got(x, c, b))
    /\ c = Local => Holds(U, c, S[c], b) \/ Abandoned(x2, Local, b)

\* The same with the facts about the reference under one name.
LEMMA LoseHoldings ==
    ASSUME NEW C, NEW S, NEW U, NEW x, NEW un, NEW al, Holdings(C, S, U, x, un, al),
           NEW C2, NEW S2, NEW x2, NEW un2, NEW c, Others(C, S, x, un, C2, S2, x2, un2, c),
           un \subseteq un2, S2[c] = S[c], Cache(C2[c], OfLocal(c, un)),
           NEW b \in BufferIds, b \notin al, Loses(C, S, U, x, C2, x2, c, b)
    PROVE  Holdings(C2, S2, U, x2, un2, al)
    BY LoseStep DEF Loses

\* A buffer that has no reference is released.
LEMMA ReleaseStep ==
    ASSUME NEW C, NEW S, NEW U, NEW x, NEW un, NEW al, Holdings(C, S, U, x, un, al),
           NEW C2, NEW S2, NEW un2, NEW al2, NEW c, Others(C, S, x, un, C2, S2, x, un2, c),
           un \subseteq un2, S[c] \in Seq(Messages), Cache(C2[c], OfLocal(c, un)),
           NEW b \in BufferIds, C[c].refs[b] = 0, C2[c].refs = C[c].refs,
           C2[c].dying = C[c].dying \ {b}, C2[c].state = C[c].state,
           NEW m \in Messages, m.newStatus = "NOT_USED", m.bufferId = b, S2[c] = Append(S[c], m),
           c # Local => al2 = al, c = Local => al2 = al \ {b},
           c = Local => Holds(U, c, S[c], b) \/ Abandoned(x, Local, b)
    PROVE  Holdings(C2, S2, U, x, un2, al2)
<1>1. Cache(C2[c], OfLocal(c, un2))
    BY CacheMore DEF OfLocal
<1>2. \A d : ~Grants(m, d) /\ (Releases(m, d) <=> d = b)
    BY DEF Releases, Grants
<1>3. ASSUME NEW d
      PROVE  /\ \A j \in 1 .. Len(S[c]) + 1 : Granted(U, c, S[c], d, j) <=> Granted(U, c, S2[c], d, j)
             /\ Holds(U, c, S2[c], d) <=> (Holds(U, c, S[c], d) /\ ~Releases(m, d)) \/ Grants(m, d)
    BY AppendGranted
<1>4. Holding(C[c], c, S[c], U, x, OfLocal(c, al))
    BY DEF Holdings, Others
<1>5. Holding(C2[c], c, S2[c], U, x, OfLocal(c, al2))
  <2>1. ASSUME NEW d \in BufferIds, d # b
        PROVE  /\ Cardinality(Got(x, c, d)) <= C2[c].refs[d]
               /\ C2[c].refs[d] > Cardinality(Got(x, c, d)) => Holds(U, c, S2[c], d)
               /\ C2[c].state # "gone" /\ Holds(U, c, S2[c], d) =>
                    C2[c].refs[d] > 0 \/ d \in C2[c].dying \/ d \in OfLocal(c, al2)
    <3>1. Holds(U, c, S2[c], d) <=> Holds(U, c, S[c], d)
      BY <1>2, <1>3, <2>1
    <3>2. (d \in C2[c].dying <=> d \in C[c].dying) /\ (d \in OfLocal(c, al2) <=> d \in OfLocal(c, al))
      BY <2>1 DEF OfLocal
    <3> QED BY <1>4, <3>1, <3>2 DEF Holding
  <2>2. Cardinality(Got(x, c, b)) <= C2[c].refs[b] /\ ~(C2[c].refs[b] > Cardinality(Got(x, c, b)))
    <3>1. Cardinality(Got(x, c, b)) \in Nat /\ Cardinality(Got(x, c, b)) <= C[c].refs[b]
      BY <1>4, GotCount DEF Holding
    <3> QED BY <3>1
  <2>3. ~Holds(U, c, S2[c], b)
    BY <1>2, <1>3
  <2> QED BY <2>1, <2>2, <2>3 DEF Holding
<1>6. ASSUME c = Local PROVE Honest(C2[c], S2[c], U, x) /\ Fresh(C2[c], S2[c], U, al2, un2)
  <2>1. Honest(C[c], S[c], U, x) /\ Fresh(C[c], S[c], U, al, un)
    BY <1>6 DEF Holdings
  <2>2. /\ Len(S2[c]) = Len(S[c]) + 1 /\ (\A i \in 1 .. Len(S[c]) : S2[c][i] = S[c][i])
        /\ S2[c][Len(S[c]) + 1] = m /\ Len(S[c]) \in Nat
    BY AppendItems
  <2>3. \A i \in 1 .. Len(S2[c]) : i \in 1 .. Len(S[c]) + 1 /\ (i \in 1 .. Len(S[c]) \/ i = Len(S[c]) + 1)
    BY <2>2
  <2>4. ASSUME NEW d \in BufferIds, NEW i \in 1 .. Len(S2[c]), Releases(S2[c][i], d)
        PROVE  Granted(U, Local, S2[c], d, i) \/ Abandoned(x, Local, d)
    <3>1. CASE i \in 1 .. Len(S[c])
      BY <1>3, <1>6, <2>1, <2>2, <2>3, <2>4, <3>1 DEF Honest
    <3>2. CASE i = Len(S[c]) + 1
      <4>1. d = b
        BY <1>2, <2>2, <2>4, <3>2
      <4>2. Granted(U, c, S[c], d, i) => Granted(U, c, S2[c], d, i)
        BY <1>3, <2>3
      <4> QED BY <1>6, <3>2, <4>1, <4>2 DEF Holds
    <3> QED BY <2>3, <3>1, <3>2
  <2>5. ASSUME NEW d \in BufferIds, d \in C2[c].dying
        PROVE  Holds(U, Local, S2[c], d) \/ Abandoned(x, Local, d)
    <3>1. d # b /\ d \in C[c].dying
      BY <2>5
    <3>2. Holds(U, c, S2[c], d) <=> Holds(U, c, S[c], d)
      BY <1>2, <1>3, <3>1
    <3> QED BY <1>6, <2>1, <3>1, <3>2 DEF Honest
  <2>6. ASSUME NEW d \in al2
        PROVE  /\ d \in un2 /\ <<Local, d>> \in U /\ d \notin C2[c].dying
               /\ \A i \in 1 .. Len(S2[c]) : ~Releases(S2[c][i], d)
    <3>1. d \in al /\ d # b
      BY <1>6
    <3>2. /\ d \in un /\ <<Local, d>> \in U /\ d \notin C[c].dying
          /\ \A i \in 1 .. Len(S[c]) : ~Releases(S[c][i], d)
      BY <2>1, <3>1 DEF Fresh
    <3>3. ~Releases(m, d)
      BY <1>2, <3>1
    <3> QED BY <2>2, <2>3, <3>2, <3>3
  <2>7. Honest(C2[c], S2[c], U, x)
    BY <2>4, <2>5 DEF Honest
  <2>8. Fresh(C2[c], S2[c], U, al2, un2)
    BY <2>6 DEF Fresh
  <2> QED BY <2>7, <2>8
<1> QED BY <1>1, <1>5, <1>6, ClientFrame

\* allocate() hands its buffer to the application.
LEMMA AllocateStep ==
    ASSUME NEW C, NEW S, NEW U, NEW x, NEW un, NEW al, Holdings(C, S, U, x, un, al),
           NEW C2, NEW S2, NEW un2, Others(C, S, x, un, C2, S2, x, un2, Local),
           S[Local] \in Seq(Messages), Quiet(Local, S[Local], S2[Local]), Cache(C2[Local], un2),
           NEW b \in BufferIds, al = {b}, C[Local].refs[b] = 0, C[Local].refs \in [BufferIds -> Int],
           C2[Local].refs = [C[Local].refs EXCEPT ![b] = 1],
           C2[Local].dying = C[Local].dying, C2[Local].state = C[Local].state
    PROVE  Holdings(C2, S2, U, x, un2, {})
<1>1. Cache(C2[Local], OfLocal(Local, un2))
    BY DEF OfLocal
<1>2. /\ Holding(C[Local], Local, S[Local], U, x, al) /\ Fresh(C[Local], S[Local], U, al, un)
    BY ConnectionsAssumption DEF Holdings, OfLocal
<1>3. Holds(U, Local, S[Local], b)
  <2>1. <<Local, b>> \in U /\ \A i \in 1 .. Len(S[Local]) : ~Releases(S[Local][i], b)
    BY <1>2 DEF Fresh
  <2>2. Len(S[Local]) \in Nat
    OBVIOUS
  <2> QED BY <2>1, <2>2 DEF Holds, Granted
<1>4. C2[Local].refs[b] = 1 /\ \A d \in BufferIds : d # b => C2[Local].refs[d] = C[Local].refs[d]
    OBVIOUS
<1>5. Holding(C2[Local], Local, S2[Local], U, x, {})
  <2>1. ASSUME NEW d \in BufferIds, d # b
        PROVE  /\ Cardinality(Got(x, Local, d)) <= C2[Local].refs[d]
               /\ C2[Local].refs[d] > Cardinality(Got(x, Local, d)) => Holds(U, Local, S2[Local], d)
               /\ C2[Local].state # "gone" /\ Holds(U, Local, S2[Local], d) =>
                    C2[Local].refs[d] > 0 \/ d \in C2[Local].dying \/ d \in {}
    <3>1. Holds(U, Local, S2[Local], d) <=> Holds(U, Local, S[Local], d)
      BY DEF Quiet
    <3> QED BY <1>2, <1>4, <2>1, <3>1 DEF Holding
  <2>2. Cardinality(Got(x, Local, b)) <= C2[Local].refs[b]
    <3>1. Cardinality(Got(x, Local, b)) \in Nat /\ Cardinality(Got(x, Local, b)) <= C[Local].refs[b]
      BY <1>2, GotCount DEF Holding
    <3> QED BY <1>4, <3>1
  <2>3. Holds(U, Local, S2[Local], b)
    BY <1>3 DEF Quiet
  <2>4. C2[Local].refs[b] > 0
    BY <1>4
  <2> QED BY <2>1, <2>2, <2>3, <2>4 DEF Holding
<1>6. Honest(C2[Local], S2[Local], U, x)
    BY QuietLocal
<1>7. Fresh(C2[Local], S2[Local], U, {}, un2)
    BY DEF Fresh
<1>8. OfLocal(Local, {}) = {}
    BY DEF OfLocal
<1> QED BY <1>1, <1>5, <1>6, <1>7, <1>8, ClientFrame

\* A remote client goes.
LEMMA GoneStep ==
    ASSUME NEW C, NEW S, NEW U, NEW x, NEW un, NEW al, Holdings(C, S, U, x, un, al),
           NEW C2, NEW S2, NEW x2, NEW un2, NEW c, c # Local, Others(C, S, x, un, C2, S2, x2, un2, c),
           C2[c] = InitClient("gone"), \A b \in BufferIds : Got(x2, c, b) = {}
    PROVE  Holdings(C2, S2, U, x2, un2, al)
<1>1. /\ C2[c].state = "gone" /\ C2[c].refs = [b \in BufferIds |-> 0] /\ C2[c].dying = {}
      /\ C2[c].mReleasingIds = <<>> /\ C2[c].mReleasedIds = {} /\ C2[c].hasCache = {}
    BY DEF InitClient
<1>2. ReleasingSet(C2[c]) = {} /\ NoRepeat(C2[c].mReleasingIds)
    BY <1>1 DEF ReleasingSet, NoRepeat
<1>3. Cache(C2[c], OfLocal(c, un2))
    BY <1>1, <1>2 DEF Cache
<1>4. Cardinality({}) = 0
    BY FS_EmptySet
<1>5. Holding(C2[c], c, S2[c], U, x2, OfLocal(c, al))
  <2>1. ASSUME NEW b \in BufferIds
        PROVE  /\ Cardinality(Got(x2, c, b)) <= C2[c].refs[b]
               /\ ~(C2[c].refs[b] > Cardinality(Got(x2, c, b))) /\ ~(C2[c].state # "gone")
    <3>1. Got(x2, c, b) = {} /\ C2[c].refs[b] = 0
      BY <1>1
    <3>2. Cardinality(Got(x2, c, b)) = 0
      BY <1>4, <3>1
    <3> QED BY <1>1, <3>1, <3>2
  <2> QED BY <2>1 DEF Holding
<1> QED BY <1>3, <1>5, ClientFrame

-----------------------------------------------------------------------------
(* References and allocate().                                              *)

\* What the connections that say something, and those that are up, have in common.
Awake(S, live, st) ==
    \A d \in Connections : (S[d] # <<>> => d \in live) /\ (st[d] = "up" => d \in live)

\* A buffer that receive() has got is not free.
LEMMA GotProtected ==
    ASSUME NEW S \in AllStreams, NEW x \in AllTransfers, NEW p, NEW live, NEW st,
           Protocol(S, x, p, live, st), Awake(S, live, st), Consistent(p),
           NEW c \in Connections, NEW b, Got(x, c, b) # {}
    PROVE  b \in p.mBuffers \ p.mFreeBuffers
<1>1. PICK t \in Transactions : x[t].pc = "got" /\ x[t].to = c /\ x[t].b = b
    BY DEF Got
<1>2. st[c] = "up"
    BY <1>1 DEF Protocol, Here, Receiving
<1>3. Interest(S, x, live, t)
    BY <1>1, <1>2 DEF Interest, Unfinished, Awake
<1>4. \A d \in Connections : S[d] # <<>> => d \in live
    BY DEF Awake
<1> QED BY <1>1, <1>3, <1>4, InterestProtected

\* A buffer that a client has a reference to is not free.
LEMMA ReferenceProtected ==
    ASSUME NEW S \in AllStreams, NEW x \in AllTransfers, NEW p, NEW live, NEW st,
           Protocol(S, x, p, live, st), Awake(S, live, st), Consistent(p),
           NEW C, NEW un, NEW al, Holdings(C, S, p.mUsingBuffers, x, un, al),
           NEW c \in Connections, NEW b \in BufferIds, C[c].refs[b] \in Int, C[c].refs[b] > 0
    PROVE  b \in p.mBuffers \ p.mFreeBuffers
<1>1. CASE Got(x, c, b) # {}
    BY <1>1, GotProtected
<1>2. CASE Got(x, c, b) = {}
  <2>1. Cardinality(Got(x, c, b)) = 0
    BY <1>2, FS_EmptySet
  <2>2. Holding(C[c], c, S[c], p.mUsingBuffers, x, OfLocal(c, al))
    BY DEF Holdings
  <2>3. Holds(p.mUsingBuffers, c, S[c], b)
    BY <2>1, <2>2 DEF Holding
  <2>4. Len(S[c]) + 1 \in 1 .. Len(S[c]) + 1
    BY DEF AllStreams
  <2>5. \A d \in Connections : S[d] # <<>> => d \in live
    BY DEF Awake
  <2> QED BY <2>3, <2>4, <2>5, GrantedProtected DEF Holds
<1> QED BY <1>1, <1>2

\* A buffer that is free, or is not there, has not been heard of.
LEMMA FreeUnheard ==
    ASSUME NEW S \in AllStreams, NEW x \in AllTransfers, NEW p, NEW live, NEW st,
           Protocol(S, x, p, live, st), Awake(S, live, st), Consistent(p), Local \in live,
           NEW C, NEW un, NEW al, Holdings(C, S, p.mUsingBuffers, x, un, al),
           NEW b \in BufferIds, b \notin p.mBuffers \ p.mFreeBuffers,
           \A c \in Connections : C[c].refs[b] \in Int
    PROVE  /\ b \in Unused(C, S, x, live) /\ b \notin C[Local].dying
           /\ \A i \in 1 .. Len(S[Local]) : ~Releases(S[Local][i], b)
<1>1. \A d \in Connections : S[d] # <<>> => d \in live
    BY DEF Awake
<1>2. \A t \in Transactions : Interest(S, x, live, t) => x[t].b # b
    BY <1>1, InterestProtected
<1>3. ASSUME NEW c \in Connections PROVE C[c].refs[b] = 0
  <2>1. C[c].refs[b] \in Int /\ ~(C[c].refs[b] > 0)
    BY ReferenceProtected
  <2>2. Holding(C[c], c, S[c], p.mUsingBuffers, x, OfLocal(c, al))
    BY DEF Holdings
  <2>3. Cardinality(Got(x, c, b)) <= C[c].refs[b] /\ Cardinality(Got(x, c, b)) \in Nat
    BY <2>2, GotCount DEF Holding
  <2> QED BY <2>1, <2>3
<1>4. ~Abandoned(x, Local, b)
  <2>1. SUFFICES ASSUME NEW t \in Transactions, x[t].pc = "abandoned" /\ x[t].to = Local /\ x[t].b = b
                 PROVE  FALSE
    BY DEF Abandoned
  <2>2. Interest(S, x, live, t)
    BY <2>1 DEF Interest, Unfinished
  <2> QED BY <1>2, <2>1, <2>2
<1>5. \A j \in 1 .. Len(S[Local]) + 1 : ~Granted(p.mUsingBuffers, Local, S[Local], b, j)
    BY <1>1, GrantedProtected, ConnectionsAssumption
<1>6. Honest(C[Local], S[Local], p.mUsingBuffers, x)
    BY DEF Holdings
<1>7. Len(S[Local]) \in Nat
    BY ConnectionsAssumption DEF AllStreams
<1>8. ~Holds(p.mUsingBuffers, Local, S[Local], b)
    BY <1>5, <1>7 DEF Holds
<1>9. \A i \in 1 .. Len(S[Local]) : i \in 1 .. Len(S[Local]) + 1
    BY <1>7
<1> QED BY <1>2, <1>3, <1>4, <1>5, <1>6, <1>8, <1>9 DEF Unused, Honest

\* allocate() gets a buffer.
LEMMA TakenStep ==
    ASSUME NEW C, NEW S \in AllStreams, NEW U, NEW x, NEW un, Holdings(C, S, U, x, un, {}),
           NEW b \in BufferIds, NEW U2, U2 = U \cup {<<Local, b>>}, NEW un2, un \subseteq un2, b \in un2,
           b \notin C[Local].dying, \A i \in 1 .. Len(S[Local]) : ~Releases(S[Local][i], b)
    PROVE  Holdings(C, S, U2, x, un2, {b})
<1>1. ASSUME NEW c, NEW d, <<c, d>> # <<Local, b>>, NEW s, NEW j
      PROVE  Granted(U2, c, s, d, j) <=> Granted(U, c, s, d, j)
    BY <1>1 DEF Granted
<1>2. ASSUME NEW c, NEW d, NEW s, NEW j, Granted(U, c, s, d, j)
      PROVE  Granted(U2, c, s, d, j)
    BY <1>2 DEF Granted
<1>3. ASSUME NEW c \in Connections
      PROVE  Cache(C[c], OfLocal(c, un2)) /\ Holding(C[c], c, S[c], U2, x, OfLocal(c, {b}))
  <2>1. Cache(C[c], OfLocal(c, un)) /\ Holding(C[c], c, S[c], U, x, OfLocal(c, {}))
    BY DEF Holdings
  <2>2. Cache(C[c], OfLocal(c, un2))
    BY <2>1, CacheMore DEF OfLocal
  <2>3. ASSUME NEW d \in BufferIds
        PROVE  /\ Cardinality(Got(x, c, d)) <= C[c].refs[d]
               /\ C[c].refs[d] > Cardinality(Got(x, c, d)) => Holds(U2, c, S[c], d)
               /\ C[c].state # "gone" /\ Holds(U2, c, S[c], d) =>
                    C[c].refs[d] > 0 \/ d \in C[c].dying \/ d \in OfLocal(c, {b})
    <3>1. CASE c = Local /\ d = b
      BY <1>2, <2>1, <3>1 DEF Holding, Holds, OfLocal
    <3>2. CASE ~(c = Local /\ d = b)
      <4>1. <<c, d>> # <<Local, b>>
        BY <3>2
      <4>2. Holds(U2, c, S[c], d) <=> Holds(U, c, S[c], d)
        BY <1>1, <4>1 DEF Holds
      <4> QED BY <2>1, <4>2 DEF Holding, OfLocal
    <3> QED BY <3>1, <3>2
  <2> QED BY <2>2, <2>3 DEF Holding
<1>4. Honest(C[Local], S[Local], U2, x)
    BY <1>2 DEF Holdings, Honest, Holds
<1>5. Fresh(C[Local], S[Local], U2, {b}, un2)
    BY DEF Fresh
<1> QED BY <1>3, <1>4, <1>5 DEF Holdings
=============================================================================
