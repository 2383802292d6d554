--------------------------- MODULE BufferPoolInv ----------------------------
(***************************************************************************)
(* The inductive invariant of BufferPool: what the pool, the queues, the   *)
(* transfers and the clients have in common in every reachable state.      *)
(*                                                                         *)
(* A stream is what a connection says: the messages in its queue, then the *)
(* releases in mReleasingIds.  The pool lags behind the streams, and the   *)
(* invariant says what it will have learnt when it has read them.          *)
(***************************************************************************)
EXTENDS BufferPool

-----------------------------------------------------------------------------
(* The pool by itself.                                                     *)

\* The types of the records of the pool: Invalidation::Pending, Invalidation messages,
\* TransactionStatus, and the pool itself.
PendingRanges == [from : BufferIds, to : BufferIds, left : Int]
Invalidations == [id : Nat, from : BufferIds, to : BufferIds]

TransactionStates ==
    [mBufferId : BufferIds, mReceiver : Connections,
     mStatus : {"none", "TRANSFER_TO", "TRANSFER_FROM", "TRANSFER_FETCH"},
     mSenderValidated : BOOLEAN]

Pools ==
    [mBuffers : SUBSET BufferIds, mInvalidated : SUBSET BufferIds, mFreeBuffers : SUBSET BufferIds,
     mOwnerCount : [BufferIds -> Int], mTransactionCount : [BufferIds -> Int],
     mUsingBuffers : SUBSET (Connections \X BufferIds),
     mUsingConnections : SUBSET (BufferIds \X Connections),
     mTransactions : [Transactions -> TransactionStates],
     mPendingTransactions : SUBSET (Connections \X Transactions),
     mCompletedTransactions : SUBSET Transactions,
     mConnectionIds : SUBSET Connections, mSeq : BufferIds, mStartSeq : BufferIds,
     mPendings : SUBSET PendingRanges, mInvalidationId : Nat, mAcks : [Connections -> Nat],
     posted : Seq(Invalidations), registered : BOOLEAN, allocations : Nat, crashed : BOOLEAN]

\* Who uses b, the transactions of b, and the buffers that an invalidation waits for.
Owners(p, b) == {c \in Connections : <<c, b>> \in p.mUsingBuffers}
Transfers(p, b) == {t \in Transactions : Known(p, t) /\ p.mTransactions[t].mBufferId = b}
InRange(p, y) == {b \in p.mBuffers : IsBufferInRange(y.from, y.to, b)}

\* mOwnerCount and mTransactionCount count what the maps hold.
Counts(p) ==
    \A b \in BufferIds :
        /\ p.mOwnerCount[b] = Cardinality(Owners(p, b))
        /\ p.mTransactionCount[b] = Cardinality(Transfers(p, b))

\* Free buffers are those that nobody uses or transfers, X aside.
FreeUnless(p, X) ==
    \A b \in p.mBuffers \ X :
        b \in p.mFreeBuffers <=> p.mOwnerCount[b] = 0 /\ p.mTransactionCount[b] = 0

\* What the maps name exists, and mUsingConnections is the inverse of mUsingBuffers.
Named(p) ==
    /\ p.mUsingBuffers \subseteq p.mConnectionIds \X p.mBuffers
    /\ \A c \in Connections, b \in BufferIds :
        <<b, c>> \in p.mUsingConnections <=> <<c, b>> \in p.mUsingBuffers
    /\ \A t \in Transactions : Known(p, t) => p.mTransactions[t].mBufferId \in p.mBuffers
    /\ p.mFreeBuffers \subseteq p.mBuffers
    /\ p.mInvalidated \subseteq p.mBuffers \ p.mFreeBuffers

\* The ids given out so far are a range that has not wrapped onto itself, and those given
\* out before the last flush are invalidated.
Ids(p) ==
    /\ p.allocations <= MaxAllocations /\ Off(p.mSeq) = p.allocations
    /\ Off(p.mStartSeq) <= p.allocations
    /\ \A b \in p.mBuffers :
        Off(b) < p.allocations /\ (b \in p.mInvalidated <=> Off(b) < Off(p.mStartSeq))

\* A pending invalidation waits for the buffers that are left of its range.
Ranges(p) ==
    /\ IsFiniteSet(p.mPendings)
    /\ \A y \in p.mPendings :
        /\ Off(y.from) < Off(y.to) /\ Off(y.to) <= p.allocations
        /\ y.left = Cardinality(InRange(p, y))
        /\ InRange(p, y) \subseteq p.mInvalidated

\* The pool agrees with itself.
Consistent(p) ==
    /\ p \in Pools /\ ~p.crashed
    /\ Counts(p) /\ FreeUnless(p, {}) /\ Named(p) /\ Ids(p) /\ Ranges(p)

-----------------------------------------------------------------------------
(* What the connections say in their queues.                               *)

\* The messages, and which of them concern transfer t.
Results == {"TRANSFER_OK", "TRANSFER_ERROR"}

Statuses == {"NOT_USED", "TRANSFER_TO", "TRANSFER_FROM", "TRANSFER_TIMEOUT", "INVALIDATION_ACK"}
            \cup Results

Messages ==
    [newStatus : Statuses, bufferId : Nat, transactionId : Nat, targetConnectionId : Nat]
IsTo(m, t) == m.newStatus = "TRANSFER_TO" /\ m.transactionId = t
IsFrom(m, t) == m.newStatus = "TRANSFER_FROM" /\ m.transactionId = t
IsResult(m, t) == m.newStatus \in Results /\ m.transactionId = t
HasTo(s, t) == \E i \in 1 .. Len(s) : IsTo(s[i], t)
HasFrom(s, t) == \E i \in 1 .. Len(s) : IsFrom(s[i], t)
HasResult(s, t) == \E i \in 1 .. Len(s) : IsResult(s[i], t)

\* NOT_USED ends the use of b.
Releases(m, b) == m.newStatus = "NOT_USED" /\ m.bufferId = b

\* TRANSFER_OK makes the receiver a user of b.
Grants(m, b) == m.newStatus = "TRANSFER_OK" /\ m.bufferId = b

\* Connection c is a user of b before message j of s, according to U and to s.
Granted(U, c, s, b, j) ==
    \/ <<c, b>> \in U /\ \A i \in 1 .. j - 1 : ~Releases(s[i], b)
    \/ \E i \in 1 .. j - 1 : Grants(s[i], b) /\ \A k \in i + 1 .. j - 1 : ~Releases(s[k], b)

\* Connection c is a user of b after all of s.
Holds(U, c, s, b) == Granted(U, c, s, b, Len(s) + 1)

\* The sender of t is a user of b at its TRANSFER_TO.
GrantedTo(U, c, s, b, t) == \E i \in 1 .. Len(s) : IsTo(s[i], t) /\ Granted(U, c, s, b, i)

-----------------------------------------------------------------------------
(* The protocol of transfers.                                              *)

\* What all connections say, and the states of transfers.
AllStreams == [Connections -> Seq(Messages)]
Receiving == {"receive", "fetch", "fetched", "unfetched", "got", "failed"}

TransferStates ==
    [pc : {"none", "sent", "done", "abandoned"} \cup Receiving, b : BufferIds,
     from : Connections, to : Connections]
AllTransfers == [Transactions -> TransferStates]

\* A transfer that has begun and whose end the pool has not handled.
Unfinished(S, x, t) == x[t].pc # "none" /\ (x[t].pc = "done" => HasResult(S[x[t].to], t))

\* An unfinished transfer to a connection that is not closed.
Interest(S, x, live, t) == Unfinished(S, x, t) /\ x[t].to \in live

\* A message of connection c is about a transfer of c.
MessageOK(x, c, m) ==
    /\ m.newStatus = "TRANSFER_TO" =>
        /\ m.transactionId \in Transactions /\ x[m.transactionId].pc # "none"
        /\ x[m.transactionId].from = c /\ x[m.transactionId].to = m.targetConnectionId
        /\ x[m.transactionId].b = m.bufferId
    /\ m.newStatus = "TRANSFER_FROM" =>
        /\ m.transactionId \in Transactions /\ x[m.transactionId].pc \notin {"none", "sent"}
        /\ x[m.transactionId].to = c /\ x[m.transactionId].b = m.bufferId
    /\ m.newStatus \in Results =>
        /\ m.transactionId \in Transactions /\ x[m.transactionId].pc = "done"
        /\ x[m.transactionId].to = c /\ x[m.transactionId].b = m.bufferId
    /\ m.newStatus = "NOT_USED" => m.bufferId \in BufferIds

\* m may come before n in a queue: nothing is said twice, a receiver begins before it
\* ends, and who is given a buffer sends it on in a later transfer.
PairOK(m, n) ==
    /\ m.newStatus = "TRANSFER_TO" /\ n.newStatus = "TRANSFER_TO" => m.transactionId # n.transactionId
    /\ m.newStatus = "TRANSFER_FROM" /\ n.newStatus = "TRANSFER_FROM" => m.transactionId # n.transactionId
    /\ m.newStatus \in Results /\ n.newStatus \in Results \cup {"TRANSFER_FROM"} =>
            m.transactionId # n.transactionId
    /\ m.newStatus = "TRANSFER_OK" /\ n.newStatus = "TRANSFER_TO" => m.transactionId < n.transactionId

\* Every queue has messages about transfers of its connection, in an order that clients keep.
Sane(S, x) == \A c \in Connections : \A i \in 1 .. Len(S[c]) : MessageOK(x, c, S[c][i])
InOrder(S) == \A c \in Connections : \A i, j \in 1 .. Len(S[c]) : i < j => PairOK(S[c][i], S[c][j])

\* A receiver that says that it begins has not ended before.
Open(S, x) == \A t \in Transactions : HasFrom(S[x[t].to], t) => Unfinished(S, x, t)

\* Transfers begin in order, and go to connections that have been there.
Begun(x, st) ==
    /\ \A s, t \in Transactions : x[t].pc # "none" /\ s < t => x[s].pc # "none"
    /\ \A t \in Transactions : x[t].pc # "none" => st[x[t].to] # "new"

\* A connection that is in receive() is up.
Here(x, st) == \A t \in Transactions : x[t].pc \in Receiving => st[x[t].to] = "up"

\* A transaction of the pool is a transfer that is not finished.
Real(S, x, p) == \A t \in Transactions : Known(p, t) =>
    /\ Unfinished(S, x, t)
    /\ p.mTransactions[t].mBufferId = x[t].b /\ p.mTransactions[t].mReceiver = x[t].to
    /\ x[t].to \in p.mConnectionIds /\ <<x[t].to, t>> \in p.mPendingTransactions

\* A transfer is known, or will be since the sender has the buffer when it is to be read.
Kept(S, x, p, live) == \A t \in Transactions : Interest(S, x, live, t) =>
    Known(p, t) \/ GrantedTo(p.mUsingBuffers, x[t].from, S[x[t].from], x[t].b, t)

\* or since the receiver says so before it ends.
Received(S, x, p) == \A t \in Transactions :
    x[t].pc \in Receiving \/ HasResult(S[x[t].to], t) => Known(p, t) \/ HasFrom(S[x[t].to], t)

\* A sender is validated by its TRANSFER_TO, which comes once.
Validated(S, x, p) == \A t \in Transactions :
    Known(p, t) /\ p.mTransactions[t].mSenderValidated => ~HasTo(S[x[t].from], t)

\* A TRANSFER_TO that comes after the end is remembered.
Remembered(S, x, p) == \A t \in Transactions :
    HasTo(S[x[t].from], t) /\ ~Unfinished(S, x, t) /\ x[t].to \in p.mConnectionIds =>
        t \in p.mCompletedTransactions

\* A transaction that the pool remembers as completed is over.
Over(S, x, p, live) == \A t \in Transactions : t \in p.mCompletedTransactions =>
    x[t].pc # "none" /\ ~Interest(S, x, live, t)

\* A transaction that the pool expects an end of is one of the receiver.
Addressed(x, p) == \A d \in Connections, t \in Transactions :
    <<d, t>> \in p.mPendingTransactions => x[t].to = d /\ x[t].pc # "none"

\* The queues S, the transfers x and the pool p agree on every transfer.
Protocol(S, x, p, live, st) ==
    /\ Sane(S, x) /\ InOrder(S) /\ Open(S, x) /\ Begun(x, st) /\ Here(x, st)
    /\ Addressed(x, p) /\ Real(S, x, p) /\ Kept(S, x, p, live) /\ Received(S, x, p)
    /\ Validated(S, x, p) /\ Remembered(S, x, p) /\ Over(S, x, p, live)

-----------------------------------------------------------------------------
(* The clients.                                                            *)

\* The BufferPoolClients, with their ends of the queues.
Clients ==
    [state : {"new", "up", "gone"}, mBuffers : SUBSET BufferIds, hasCache : SUBSET BufferIds,
     mCreating : BOOLEAN, locked : BOOLEAN, refs : [BufferIds -> Int], dying : SUBSET BufferIds,
     mReleasingIds : Seq(BufferIds), mReleasedIds : SUBSET BufferIds,
     mInvalidateId : Nat, mInvalidateAck : BOOLEAN]
Objects == [cl : Clients, mail : Seq(Messages), taken : Nat, inv : Seq(Invalidations)]

\* What a connection says: its messages, and the releases that it has still to post.
Stream(z) == z.mail \o NotUsed(z.cl.mReleasingIds)

\* The buffers of mReleasingIds, each of them once.
ReleasingSet(cl) == {cl.mReleasingIds[i] : i \in 1 .. Len(cl.mReleasingIds)}
NoRepeat(s) == \A i, j \in 1 .. Len(s) : s[i] = s[j] => i = j

\* A client agrees with itself: what it uses is cached, what it has released it does not
\* use, except for the buffers of "un", which nobody uses.
Cache(cl, un) ==
    /\ cl.hasCache \subseteq cl.mBuffers /\ NoRepeat(cl.mReleasingIds)
    /\ \A b \in BufferIds :
        /\ cl.refs[b] > 0 => b \in cl.hasCache
        /\ b \in cl.dying =>
            b \in cl.hasCache /\ cl.refs[b] = 0 /\ b \notin ReleasingSet(cl) /\ b \notin cl.mReleasedIds
        /\ b \in ReleasingSet(cl) \/ b \in cl.mReleasedIds => cl.refs[b] = 0
        /\ b \in ReleasingSet(cl) => (b \in cl.hasCache /\ b \notin cl.mReleasedIds) \/ b \in un
        /\ b \in cl.mReleasedIds => b \in cl.hasCache \/ b \in un

\* The transfers of which receive() has the reference.
Got(x, c, b) == {t \in Transactions : x[t].pc = "got" /\ x[t].to = c /\ x[t].b = b}

\* Transfers that receive() has given up.
Abandoned(x, c, b) == \E t \in Transactions : x[t].pc = "abandoned" /\ x[t].to = c /\ x[t].b = b

\* Buffers that nobody uses and nobody sends.
Unused(C, S, x, live) ==
    {b \in BufferIds : /\ \A c \in Connections : C[c].refs[b] = 0
                       /\ \A t \in Transactions : Interest(S, x, live, t) => x[t].b # b}

\* X, if c is the local connection.
OfLocal(c, X) == IF c = Local THEN X ELSE {}

\* References of the application are held, and what is held has a reference, or a deleter
\* or allocate() is at it.
Holding(k, c, s, U, x, al) ==
    \A b \in BufferIds :
        /\ Cardinality(Got(x, c, b)) <= k.refs[b]
        /\ k.refs[b] > Cardinality(Got(x, c, b)) => Holds(U, c, s, b)
        /\ k.state # "gone" /\ Holds(U, c, s, b) => k.refs[b] > 0 \/ b \in k.dying \/ b \in al

\* The local client releases what it holds, or what a transfer that it gave up has left.
Honest(k, s, U, x) ==
    \A b \in BufferIds :
        /\ \A i \in 1 .. Len(s) : Releases(s[i], b) => Granted(U, Local, s, b, i) \/ Abandoned(x, Local, b)
        /\ b \in k.dying => Holds(U, Local, s, b) \/ Abandoned(x, Local, b)

\* The buffer of allocate() is not used, and has not been released.
Fresh(k, s, U, al, un) ==
    \A b \in al :
        /\ b \in un /\ <<Local, b>> \in U /\ b \notin k.dying
        /\ \A i \in 1 .. Len(s) : ~Releases(s[i], b)

\* What the clients have agrees with what their queues and the pool say that they hold.
Holdings(C, S, U, x, un, al) ==
    /\ \A c \in Connections :
        Cache(C[c], OfLocal(c, un)) /\ Holding(C[c], c, S[c], U, x, OfLocal(c, al))
    /\ Honest(C[Local], S[Local], U, x) /\ Fresh(C[Local], S[Local], U, al, un)

-----------------------------------------------------------------------------
(* Invalidations.                                                          *)

\* The invalidations of a connection: it has not read those that it is to be told of.
Notified(p, c, k, i, om, s) ==
    /\ p.mAcks[c] <= p.mInvalidationId /\ k.mInvalidateId <= p.mInvalidationId
    /\ i # <<>> =>
        /\ k.state = "up" /\ k.mInvalidateId < Last(i).id /\ Last(i).id <= p.mInvalidationId
        /\ p.registered \/ \E y \in om : y[1] = c
        /\ p.mAcks[c] < p.mInvalidationId \/ \E y \in om : y[1] = c
    /\ \A j \in 1 .. Len(s) : s[j].newStatus = "INVALIDATION_ACK" =>
        /\ s[j].bufferId <= p.mInvalidationId
        /\ k.state = "up" => s[j].bufferId <= k.mInvalidateId

-----------------------------------------------------------------------------
(* The state.                                                              *)

\* What the connections say now.
Streams == [c \in Connections |-> Stream(Own(c))]

\* close() of c has read the queues; a connection matters up to then.
Closing(c) == Running("close") /\ op.arg = c /\ Handled
Live == {c \in pool.mConnectionIds : ~Closing(c)}

\* The states of the clients, the buffer of allocate(), and the unused buffers.
St == [c \in Connections |-> client[c].state]
Al == IF alloc.pc = "got" THEN {alloc.b} ELSE {}
Un == Unused(client, Streams, tx, Live)

\* The calls of the pool, and those that may wait.
Calls == [fn : {"none", "connect", "close", "allocate", "fetch", "cleanUp", "flush",
                "handleInvalidateAck"}, arg : Nat]
Waiting == {"close", "fetch", "cleanUp", "flush"}

CallOK(k) ==
    /\ k.fn \in {"connect", "close"} => k.arg \in Connections
    /\ k.fn = "fetch" => k.arg \in Transactions

\* The types of the variables.
TypeOK ==
    /\ op \in Calls /\ CallOK(op) /\ unread \in SUBSET pool.mConnectionIds
    /\ calls \in SUBSET Calls /\ \A k \in calls : CallOK(k) /\ k.fn \in Waiting
    /\ mail \in [Connections -> Seq(Messages)] /\ taken \in [Connections -> Nat]
    /\ \A c \in Connections : taken[c] <= Len(mail[c]) /\ Room(Own(c)) >= 0
    /\ inv \in [Connections -> Seq(Invalidations)] /\ onMessage \in SUBSET (Connections \X Nat)
    /\ client \in [Connections -> Clients] /\ tx \in AllTransfers
    /\ alloc \in [pc : {"idle", "asking", "got"}, b : BufferIds]

\* Connections that are not up, and the calls that open and close them.
Connected(c) ==
    LET state == client[c].state IN
    /\ c \notin pool.mConnectionIds => Streams[c] = <<>>
    /\ state = "up" => c \in pool.mConnectionIds
    /\ state = "new" => Streams[c] = <<>>
    /\ state = "new" /\ c \in pool.mConnectionIds => op = Call("connect", c)
    /\ op = Call("connect", c) => state = "new" /\ c \in pool.mConnectionIds
    /\ state = "gone" /\ c \in pool.mConnectionIds => Call("close", c) \in calls \/ op = Call("close", c)
    /\ Call("close", c) \in calls \/ op = Call("close", c) => state = "gone"
    /\ state # "up" => client[c] = InitClient(state)
    /\ op = Call("close", c) /\ c \notin unread => taken[c] = Len(mail[c])

\* Calls and connections come in order.
Order ==
    /\ client[Local].state = "up" /\ \A c \in Connections : Connected(c)
    /\ Running("none") => Handled
    /\ Running("allocate") => alloc.pc = "idle"

\* Invalidations reach the connections.
Notices ==
    /\ pool.mPendings # {} => pool.registered
    /\ \A c \in Connections : Notified(pool, c, client[c], inv[c], onMessage, Streams[c])
    /\ \A y \in onMessage : y[2] <= pool.mInvalidationId

\* The inductive invariant.
Inv ==
    /\ TypeOK /\ Consistent(pool) /\ pool.posted = <<>> /\ Order /\ Notices
    /\ Protocol(Streams, tx, pool, Live, St)
    /\ Holdings(client, Streams, pool.mUsingBuffers, tx, Un, Al)
=============================================================================
