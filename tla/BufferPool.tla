----------------------------- MODULE BufferPool -----------------------------
(***************************************************************************)
(* The buffer pool of media/bufferpool/2.0: an Accessor that owns buffers, *)
(* and clients, one of them in the same process, that hold references to   *)
(* buffers and hand them on to each other.                                 *)
(*                                                                         *)
(* Clients tell the pool what they do over message queues, one per         *)
(* connection, that the pool reads whenever it is called.  A transfer is   *)
(* a transaction: the sender posts TRANSFER_TO, the receiver TRANSFER_FROM *)
(* and TRANSFER_OK or TRANSFER_ERROR, in queues of their own, so that the  *)
(* pool may read them in another order than they were posted.              *)
(*                                                                         *)
(* A method of the pool runs under its mutex: Lock, a step for every queue *)
(* that it reads, a step for every message that it handles, and the action *)
(* that completes the call.  Clients may take steps between these.  A      *)
(* client takes a step for each time that it holds a lock, except that     *)
(* syncReleased(), which takes one twice, is one step with its caller.     *)
(***************************************************************************)
EXTENDS Integers, SequencesExt, FiniteSetsExt

CONSTANTS
    Connections,        \* ids, in the order in which the pool reads their queues
    Local,              \* the connection of the process of the pool
    Transactions,       \* ids of transfers, in the order in which they begin
    SYNC_BUFFERID,      \* the end of the range of buffer ids
    FirstId,            \* mSeq at the start
    MaxAllocations,     \* how many buffers the allocator makes
    MaxCalls,           \* how many calls of postSend() and flush() there are
    QueueSize,          \* kNumElementsInQueue
    SyncLevel           \* kMinElementsToSyncInQueue

ASSUME ConnectionsAssumption ==
    Connections \subseteq Nat /\ IsFiniteSet(Connections) /\ Local \in Connections
ASSUME TransactionsAssumption == Transactions \subseteq Nat /\ IsFiniteSet(Transactions)
ASSUME IdsAssumption ==
    /\ SYNC_BUFFERID \in Nat /\ FirstId \in 0 .. SYNC_BUFFERID - 1
    /\ MaxAllocations \in 0 .. SYNC_BUFFERID - 1    \* no id comes twice
    /\ MaxCalls \in Nat
ASSUME QueueAssumption == QueueSize \in Nat \ {0} /\ SyncLevel \in Nat

VARIABLES
    pool,       \* the BufferPool of the Accessor
    op,         \* the call that has the mutex
    unread,     \* the connections whose queues it has still to read
    mail,       \* the status messages of each connection that are not handled
    taken,      \* how many of them, the first ones, are no longer in the queue
    calls,      \* the calls that wait for the mutex
    inv,        \* the invalidations that each connection has not read
    onMessage,  \* the calls of observers that have not arrived: connection and id
    client,     \* each BufferPoolClient
    tx,         \* each transfer, from the call of postSend() to the end of receive()
    alloc,      \* where the local client is in allocate()
    called      \* how many calls of postSend() and flush() there have been

vars == <<pool, op, unread, mail, taken, calls, inv, onMessage, client, tx, alloc, called>>

poolVars == <<pool, op, unread, taken>>

BufferIds == 0 .. SYNC_BUFFERID - 1

\* A call of the pool; the argument is a connection or a transaction.
Call(fn, arg) == [fn |-> fn, arg |-> arg]
NoCall == Call("none", 0)

\* BufferStatusMessage; the id of an invalidation is sent as bufferId.
Message(newStatus, bufferId, transactionId, targetConnectionId) ==
    [newStatus |-> newStatus, bufferId |-> bufferId,
     transactionId |-> transactionId, targetConnectionId |-> targetConnectionId]

\* TransactionStatus; "none": there is no such transaction.
NoTransaction ==
    [mBufferId |-> FirstId, mReceiver |-> Local, mStatus |-> "none", mSenderValidated |-> FALSE]

\* "crashed": a message named a buffer that is not in mBuffers, and end() was used.
\* "registered": the Accessor is on the list of the invalidator thread.
\* "posted": the invalidations that a handler has posted.
InitPool ==
    [mBuffers |-> {}, mInvalidated |-> {}, mFreeBuffers |-> {},
     mOwnerCount |-> [b \in BufferIds |-> 0], mTransactionCount |-> [b \in BufferIds |-> 0],
     mUsingBuffers |-> {}, mUsingConnections |-> {},
     mTransactions |-> [t \in Transactions |-> NoTransaction],
     mPendingTransactions |-> {}, mCompletedTransactions |-> {},
     mConnectionIds |-> {Local}, mSeq |-> FirstId, mStartSeq |-> FirstId,
     mPendings |-> {}, mInvalidationId |-> 0, mAcks |-> [c \in Connections |-> 0],
     posted |-> <<>>, registered |-> FALSE, allocations |-> 0, crashed |-> FALSE]

\* "refs" counts the references to the BufferPoolData of a buffer; "dying" are buffers
\* whose last reference is gone and whose deleter has not posted the release.
InitClient(state) ==
    [state |-> state, mBuffers |-> {}, hasCache |-> {}, mCreating |-> FALSE, locked |-> FALSE,
     refs |-> [b \in BufferIds |-> 0], dying |-> {}, mReleasingIds |-> <<>>, mReleasedIds |-> {},
     mInvalidateId |-> 0, mInvalidateAck |-> TRUE]

Init ==
    /\ pool = InitPool /\ op = NoCall /\ unread = {} /\ calls = {} /\ onMessage = {}
    /\ mail = [c \in Connections |-> <<>>] /\ taken = [c \in Connections |-> 0]
    /\ inv = [c \in Connections |-> <<>>]
    /\ client = [c \in Connections |-> InitClient(IF c = Local THEN "up" ELSE "new")]
    /\ tx = [t \in Transactions |-> [pc |-> "none", b |-> FirstId, from |-> Local, to |-> Local]]
    /\ alloc = [pc |-> "idle", b |-> FirstId] /\ called = 0

-----------------------------------------------------------------------------
(* The pool: what it makes of status messages.                             *)

\* Mutant of IsBufferInRange: a range that wraps is empty.
IsBufferInRangeUnwrapped(from, to, b) == from <= b /\ b < to

IsBufferInRange(from, to, b) == IF from < to THEN from <= b /\ b < to ELSE from <= b \/ b < to

\* A buffer of an invalidated range is gone; the last one announces the invalidation,
\* with an id of its own.
OnBufferInvalidated(p, b) ==
    LET counted == {IF IsBufferInRange(x.from, x.to, b) THEN [x EXCEPT !.left = @ - 1] ELSE x :
                        x \in p.mPendings}
        over == SetToSeq({x \in counted : x.left = 0})
    IN  [p EXCEPT !.mPendings = {x \in counted : x.left # 0},
                  !.mInvalidationId = @ + Len(over),
                  !.posted = [i \in 1 .. Len(over) |->
                    [id |-> p.mInvalidationId + i, from |-> over[i].from, to |-> over[i].to]]]

EraseBuffers(p, bs) ==
    [p EXCEPT !.mBuffers = @ \ bs, !.mFreeBuffers = @ \ bs, !.mInvalidated = @ \ bs]

\* A buffer without owner and transaction can be recycled, or goes.
FreeIfUnused(p, b) ==
    IF p.mOwnerCount[b] # 0 \/ p.mTransactionCount[b] # 0 THEN p
    ELSE IF b \notin p.mInvalidated THEN [p EXCEPT !.mFreeBuffers = @ \cup {b}]
    ELSE OnBufferInvalidated(EraseBuffers(p, {b}), b)

\* A look at mBuffers without a look at what it finds.
Deref(p, b) == [p EXCEPT !.crashed = @ \/ b \notin p.mBuffers]

HandleOwnBuffer(p, c, b) ==
    LET used == [p EXCEPT !.mUsingBuffers = @ \cup {<<c, b>>},
                          !.mUsingConnections = @ \cup {<<b, c>>}]
    IN  IF <<c, b>> \in p.mUsingBuffers THEN used
        ELSE [Deref(used, b) EXCEPT !.mOwnerCount[b] = @ + 1]

\* The connection no longer uses the buffer.
Leave(p, c, b) ==
    FreeIfUnused([Deref(p, b) EXCEPT !.mUsingBuffers = @ \ {<<c, b>>},
                                     !.mUsingConnections = @ \ {<<b, c>>},
                                     !.mOwnerCount[b] = @ - 1], b)

HandleReleaseBuffer(p, c, b) ==
    IF <<c, b>> \in p.mUsingBuffers THEN Leave(p, c, b)
    ELSE [p EXCEPT !.mUsingConnections = @ \ {<<b, c>>}]

Known(p, t) == p.mTransactions[t].mStatus # "none"

NewTransaction(p, t, b, receiver, status) ==
    [p EXCEPT !.mTransactions[t] = [mBufferId |-> b, mReceiver |-> receiver, mStatus |-> status,
                                    mSenderValidated |-> status = "TRANSFER_TO"],
              !.mPendingTransactions = @ \cup {<<receiver, t>>},
              !.mTransactionCount[b] = @ + 1]

HandleTransferTo(p, c, t, b, target) ==
    IF t \in p.mCompletedTransactions THEN [p EXCEPT !.mCompletedTransactions = @ \ {t}]
    ELSE IF b \notin p.mBuffers \/ <<c, b>> \notin p.mUsingBuffers THEN p
    ELSE IF Known(p, t) THEN [p EXCEPT !.mTransactions[t].mSenderValidated = TRUE]
    ELSE IF target \notin p.mConnectionIds THEN p
    ELSE NewTransaction(p, t, b, target, "TRANSFER_TO")

HandleTransferFrom(p, c, t, b) ==
    IF ~Known(p, t) THEN NewTransaction(Deref(p, b), t, b, c, "TRANSFER_FROM")
    ELSE IF p.mTransactions[t].mReceiver # c THEN p
    ELSE [p EXCEPT !.mTransactions[t].mStatus = "TRANSFER_FROM"]

\* The transaction ends; it is remembered if its TRANSFER_TO is still to come.
EndTransaction(p, t, b) ==
    FreeIfUnused([Deref(p, b) EXCEPT
        !.mTransactions[t] = NoTransaction, !.mTransactionCount[b] = @ - 1,
        !.mCompletedTransactions = @ \cup IF p.mTransactions[t].mSenderValidated THEN {} ELSE {t}], b)

\* Mutant of HandleTransferResult: the transaction ends before the receiver owns.
HandleTransferResultEarly(p, c, t, b, ok) ==
    IF ~Known(p, t) \/ <<c, t>> \notin p.mPendingTransactions THEN p
    ELSE LET done == EndTransaction([p EXCEPT !.mPendingTransactions = @ \ {<<c, t>>}], t, b)
         IN  IF ok THEN HandleOwnBuffer(done, c, b) ELSE done

HandleTransferResult(p, c, t, b, ok) ==
    IF ~Known(p, t) \/ <<c, t>> \notin p.mPendingTransactions THEN p
    ELSE LET q == [p EXCEPT !.mPendingTransactions = @ \ {<<c, t>>}]
         IN  EndTransaction(IF ok THEN HandleOwnBuffer(q, c, b) ELSE q, t, b)

OnAck(p, c, id) ==
    IF c \in p.mConnectionIds /\ id > p.mAcks[c] THEN [p EXCEPT !.mAcks[c] = id] ELSE p

-----------------------------------------------------------------------------
(* The pool: its methods.                                                  *)

Running(fn) == op.fn = fn

\* processStatusMessages() has returned.
Handled == unread = {} /\ \A c \in Connections : taken[c] = 0

Up(c) == client[c].state = "up"

\* A handler leaves p behind; what it has posted is in the queue of every listener.
Becomes(p) ==
    /\ pool' = [p EXCEPT !.posted = <<>>]
    /\ inv' = [c \in Connections |-> IF Up(c) THEN inv[c] \o p.posted ELSE <<>>]

Return == op' = NoCall /\ UNCHANGED <<unread, mail, taken>>

\* A call begins; connect() puts the connection on the lists before it reads the queues.
Lock(call) ==
    /\ Running("none") /\ op' = call /\ calls' = calls \ {call}
    /\ pool' = IF call.fn = "connect"
               THEN [pool EXCEPT !.mConnectionIds = @ \cup {call.arg},
                                 !.mAcks[call.arg] = pool.mInvalidationId]
               ELSE pool
    /\ unread' = pool'.mConnectionIds
    /\ UNCHANGED <<mail, taken, inv, onMessage, client, tx, alloc, called>>

\* getBufferStatusChanges(), one queue after the other
ReadQueue(c) ==
    /\ c \in unread /\ \A d \in unread : c <= d
    /\ unread' = unread \ {c} /\ taken' = [taken EXCEPT ![c] = Len(mail[c])]
    /\ UNCHANGED <<pool, op, mail, calls, inv, onMessage, client, tx, alloc, called>>

ProcessStatusMessage(c, m) ==
    \/ m.newStatus = "NOT_USED" /\ Becomes(HandleReleaseBuffer(pool, c, m.bufferId))
    \/ /\ m.newStatus = "TRANSFER_TO"
       /\ Becomes(HandleTransferTo(pool, c, m.transactionId, m.bufferId, m.targetConnectionId))
    \/ /\ m.newStatus = "TRANSFER_FROM"
       /\ Becomes(HandleTransferFrom(pool, c, m.transactionId, m.bufferId))
    \/ /\ m.newStatus \in {"TRANSFER_OK", "TRANSFER_ERROR"}
       /\ Becomes(HandleTransferResult(pool, c, m.transactionId, m.bufferId,
                                       m.newStatus = "TRANSFER_OK"))
    \/ m.newStatus = "INVALIDATION_ACK" /\ Becomes(OnAck(pool, c, m.bufferId))
    \/ m.newStatus = "TRANSFER_TIMEOUT" /\ Becomes(pool)

HandleMessage(c) ==
    /\ unread = {} /\ taken[c] > 0 /\ \A d \in Connections : d < c => taken[d] = 0
    /\ ProcessStatusMessage(c, Head(mail[c]))
    /\ mail' = [mail EXCEPT ![c] = Tail(@)] /\ taken' = [taken EXCEPT ![c] = @ - 1]
    /\ UNCHANGED <<op, unread, calls, onMessage, client, tx, alloc, called>>

\* cleanUp(): free buffers are evicted, in the order of their ids, until there are few;
\* none if the last time is not long ago, all for clearCache
Evictions(p) ==
    {bs \in SUBSET p.mFreeBuffers : \A b \in bs, kept \in p.mFreeBuffers \ bs : b < kept}

CleanedUp(p) == \E bs \in Evictions(p) : Becomes(EraseBuffers(p, bs))

\* connect() of a remote client returns, and its listener starts with an empty queue.
Connect ==
    /\ Running("connect") /\ Handled
    /\ CleanedUp(pool) /\ Return
    /\ client' = [client EXCEPT ![op.arg].state = "up",
                                ![op.arg].mInvalidateId = pool.mAcks[op.arg]]
    /\ UNCHANGED <<calls, onMessage, tx, alloc, called>>

\* handleClose(): buffers that the connection uses
OwnedBuffers(p, c) == {b \in BufferIds : <<c, b>> \in p.mUsingBuffers}

CloseBuffer(b) ==
    /\ Running("close") /\ Handled
    /\ b \in OwnedBuffers(pool, op.arg) /\ \A d \in OwnedBuffers(pool, op.arg) : b <= d
    /\ Becomes(IF <<b, op.arg>> \in pool.mUsingConnections THEN Leave(pool, op.arg, b)
               ELSE [pool EXCEPT !.mUsingBuffers = @ \ {<<op.arg, b>>}])
    /\ UNCHANGED <<op, unread, mail, taken, calls, onMessage, client, tx, alloc, called>>

\* Mutant of LeftTransactions: transfers to the connection are left.
NoTransactions(p, c) == {}

\* and transactions that it has to receive
LeftTransactions(p, c) ==
    {t \in Transactions : <<c, t>> \in p.mPendingTransactions /\ Known(p, t)}

CloseTransaction(t) ==
    /\ Running("close") /\ Handled /\ OwnedBuffers(pool, op.arg) = {}
    /\ t \in LeftTransactions(pool, op.arg)
    /\ \A s \in LeftTransactions(pool, op.arg) : t <= s
    /\ Becomes(EndTransaction(pool, t, pool.mTransactions[t].mBufferId))
    /\ UNCHANGED <<op, unread, mail, taken, calls, onMessage, client, tx, alloc, called>>

Close ==
    /\ Running("close") /\ Handled
    /\ OwnedBuffers(pool, op.arg) = {} /\ LeftTransactions(pool, op.arg) = {}
    /\ Becomes(EraseBuffers([pool EXCEPT !.mConnectionIds = @ \ {op.arg}], pool.mFreeBuffers))
    /\ op' = NoCall /\ mail' = [mail EXCEPT ![op.arg] = <<>>]
    /\ UNCHANGED <<unread, taken, calls, onMessage, client, tx, alloc, called>>

\* allocate() finds a free buffer with the right parameters
Recycle(b) ==
    /\ Running("allocate") /\ Handled /\ b \in pool.mFreeBuffers
    /\ CleanedUp(HandleOwnBuffer([pool EXCEPT !.mFreeBuffers = @ \ {b}], Local, b))
    /\ alloc' = [pc |-> "got", b |-> b] /\ Return
    /\ UNCHANGED <<calls, onMessage, client, tx, called>>

\* or it does not, and leaves the mutex while it asks the allocator
AskAllocator ==
    /\ Running("allocate") /\ Handled
    /\ alloc' = [alloc EXCEPT !.pc = "asking"] /\ Return
    /\ UNCHANGED <<pool, inv, calls, onMessage, client, tx, called>>

NextId(id) == IF id + 1 = SYNC_BUFFERID THEN 0 ELSE id + 1

AddNewBuffer(p) ==
    [p EXCEPT !.mBuffers = @ \cup {p.mSeq}, !.mSeq = NextId(@), !.allocations = @ + 1]

\* which may fail.
Allocated(ok) ==
    /\ Running("none") /\ alloc.pc = "asking"
    /\ \/ /\ ok /\ pool.allocations < MaxAllocations
          /\ CleanedUp(HandleOwnBuffer(AddNewBuffer(pool), Local, pool.mSeq))
          /\ alloc' = [pc |-> "got", b |-> pool.mSeq]
       \/ ~ok /\ CleanedUp(pool) /\ alloc' = [alloc EXCEPT !.pc = "idle"]
    /\ UNCHANGED <<op, unread, mail, taken, calls, onMessage, client, tx, called>>

\* fetch(), by the receiver of a transfer
Fetch ==
    LET t == op.arg
        x == pool.mTransactions[t]
        ok == /\ Known(pool, t) /\ <<tx[t].to, t>> \in pool.mPendingTransactions
              /\ x.mSenderValidated /\ x.mStatus = "TRANSFER_FROM" /\ x.mBufferId = tx[t].b
        found == ok /\ tx[t].b \in pool.mBuffers
        q == IF ok THEN [pool EXCEPT !.mTransactions[t].mStatus = "TRANSFER_FETCH"] ELSE pool
    IN  /\ Running("fetch") /\ Handled /\ Return
        /\ IF found THEN Becomes(q) ELSE CleanedUp(q)
        /\ tx' = [tx EXCEPT ![t].pc = IF @ # "fetch" THEN @
                                      ELSE IF found THEN "fetched" ELSE "unfetched"]
        /\ UNCHANGED <<calls, onMessage, client, alloc, called>>

CleanUp ==
    /\ Running("cleanUp") /\ Handled /\ CleanedUp(pool) /\ Return
    /\ UNCHANGED <<calls, onMessage, client, tx, alloc, called>>

\* invalidate() and onInvalidationRequest(): free buffers go at once, the others when
\* they are no longer used.  The request takes an id of its own.
Invalidate(p, from, to) ==
    LET range == {b \in BufferIds : IsBufferInRange(from, to, b)}
        q == EraseBuffers(p, p.mFreeBuffers \cap range)
        left == Cardinality(q.mBuffers \cap range)
        id == p.mInvalidationId + 1
        r == [q EXCEPT !.mInvalidated = @ \cup (q.mBuffers \cap range), !.registered = TRUE,
                       !.mInvalidationId = id]
    IN  IF left = 0 THEN [r EXCEPT !.posted = <<[id |-> id, from |-> from, to |-> to]>>]
        ELSE [r EXCEPT !.mPendings = @ \cup {[from |-> from, to |-> to, left |-> left]}]

FlushPool(p) ==
    IF p.mStartSeq = p.mSeq THEN p
    ELSE Invalidate([p EXCEPT !.mStartSeq = p.mSeq], p.mStartSeq, p.mSeq)

Flush ==
    /\ Running("flush") /\ Handled
    /\ Becomes(FlushPool(pool)) /\ Return
    /\ client' = [client EXCEPT ![Local].locked = FALSE]
    /\ UNCHANGED <<calls, onMessage, tx, alloc, called>>

LateConnections(p) == {c \in p.mConnectionIds : p.mAcks[c] # p.mInvalidationId}

\* onHandleAck(): the connections that are called count as caught up.
OnHandleAck(p, registered) ==
    [p EXCEPT !.mAcks = [c \in Connections |-> IF c \in LateConnections(p) THEN p.mInvalidationId
                                               ELSE p.mAcks[c]],
              !.registered = registered]

\* Mutant of HandleInvalidateAck: the Accessor leaves the list at once.
HandleInvalidateAckOnce ==
    /\ Running("handleInvalidateAck") /\ Handled
    /\ Becomes(OnHandleAck(pool, FALSE)) /\ Return
    /\ onMessage' = onMessage \cup {<<c, pool.mInvalidationId>> : c \in LateConnections(pool)}
    /\ UNCHANGED <<calls, client, tx, alloc, called>>

\* handleInvalidateAck(), by the invalidator thread: connections that have not caught up
\* are called, and the Accessor leaves the list when nothing is pending.
HandleInvalidateAck ==
    /\ Running("handleInvalidateAck") /\ Handled
    /\ Becomes(OnHandleAck(pool, pool.mPendings # {})) /\ Return
    /\ onMessage' = onMessage \cup {<<c, pool.mInvalidationId>> : c \in LateConnections(pool)}
    /\ UNCHANGED <<calls, client, tx, alloc, called>>

-----------------------------------------------------------------------------
(* A client: operators on its object and its two queues.                   *)

Own(c) == [cl |-> client[c], mail |-> mail[c], taken |-> taken[c], inv |-> inv[c]]

Room(z) == QueueSize - (Len(z.mail) - z.taken)

NotUsed(ids) == [i \in DOMAIN ids |-> Message("NOT_USED", ids[i], 0, 0)]

\* postBufferRelease() of the status channel: as many as there is room for
PostBufferRelease(z) ==
    LET ids == z.cl.mReleasingIds
        n == IF Room(z) < Len(ids) THEN Room(z) ELSE Len(ids)
    IN  [z EXCEPT !.mail = @ \o NotUsed(SubSeq(ids, 1, n)),
                  !.cl.mReleasingIds = SubSeq(ids, n + 1, Len(ids)),
                  !.cl.mReleasedIds = @ \cup ToSet(SubSeq(ids, 1, n))]

\* postBufferStatusMessage(): releases go first, and all or nothing
Fits(z) == Room(z) >= Len(z.cl.mReleasingIds) + 1

PostStatus(z, msg) ==
    IF ~Fits(z) THEN z
    ELSE LET r == PostBufferRelease(z) IN [r EXCEPT !.mail = Append(@, msg)]

\* syncReleased(): releases are posted and noted, invalidations read and acknowledged
SyncReleased(z, messageId) ==
    LET r == PostBufferRelease(z)
        hasCache == r.cl.hasCache \ r.cl.mReleasedIds
        Named(b) == \E i \in DOMAIN z.inv : IsBufferInRange(z.inv[i].from, z.inv[i].to, b)
        last == IF z.inv = <<>> THEN messageId ELSE Last(z.inv).id
        later == last > r.cl.mInvalidateId
        ack == IF later THEN z.inv = <<>> ELSE r.cl.mInvalidateAck
        s == [r EXCEPT !.cl.hasCache = hasCache, !.cl.mReleasedIds = {}, !.inv = <<>>,
                       !.cl.mBuffers = {b \in @ : b \in hasCache \/ ~Named(b)},
                       !.cl.mInvalidateId = IF later THEN last ELSE @, !.cl.mInvalidateAck = ack]
    IN  IF ack \/ Room(s) = 0 THEN s
        ELSE [s EXCEPT !.mail = Append(@, Message("INVALIDATION_ACK", s.cl.mInvalidateId, 0, 0)),
                       !.cl.mInvalidateAck = TRUE]

\* evictCaches(): entries whose time is over, or all for clearCache, unless referenced
EvictCaches(z, expired) == [z EXCEPT !.cl.mBuffers = @ \ (expired \ z.cl.hasCache)]

\* createCache()
CreateCache(z, b) ==
    [z EXCEPT !.cl.mBuffers = @ \cup {b}, !.cl.hasCache = @ \cup {b}, !.cl.refs[b] = 1]

LoseRef(z, b) ==
    [z EXCEPT !.cl.refs[b] = @ - 1, !.cl.dying = IF z.cl.refs[b] = 1 THEN @ \cup {b} ELSE @]

PostRelease(z, b) == PostBufferRelease([z EXCEPT !.cl.mReleasingIds = Append(@, b)])

NeedsSync(z) == Room(z) + SyncLevel < QueueSize

\* The calls of the pool with which postSend() and receive() end.
Trailing(c, z) == IF c = Local \/ NeedsSync(z) THEN {Call("cleanUp", 0)} ELSE {}

Step(c, z) ==
    /\ client' = [client EXCEPT ![c] = z.cl]
    /\ mail' = [mail EXCEPT ![c] = z.mail]
    /\ inv' = [inv EXCEPT ![c] = z.inv]

CacheFree(c) == Up(c) /\ ~client[c].locked

-----------------------------------------------------------------------------
(* A client: its operations.                                               *)

\* The rest of allocate(): a new entry in the cache, or, if the handle cannot be
\* cloned, a release.
AllocateDone(ok, expired) ==
    /\ alloc.pc = "got" /\ CacheFree(Local)
    /\ LET z == EvictCaches(SyncReleased(Own(Local), 0), expired)
       IN  Step(Local, IF ok THEN CreateCache(z, alloc.b) ELSE PostRelease(Own(Local), alloc.b))
    /\ alloc' = [pc |-> "idle", b |-> FirstId]
    /\ UNCHANGED <<poolVars, calls, onMessage, tx, called>>

\* The references to b that receive() has and the application does not have yet.
InReceive(c, b) ==
    Cardinality({t \in Transactions : tx[t].pc = "got" /\ tx[t].to = c /\ tx[t].b = b})

\* postSend(), to another connection or to one's own; without room in the queue the
\* transfer does not take place
PostSend(t, c, b, r) ==
    /\ called < MaxCalls /\ called' = called + 1
    /\ tx[t].pc = "none" /\ \A s \in Transactions : s < t => tx[s].pc # "none"
    /\ CacheFree(c) /\ client[c].refs[b] > InReceive(c, b)
    /\ client[r].state # "new"
    /\ LET s == SyncReleased(Own(c), 0)
           z == PostStatus(s, Message("TRANSFER_TO", b, t, r))
       IN  /\ Step(c, z)
           /\ tx' = IF Fits(s) THEN [tx EXCEPT ![t] = [pc |-> "sent", b |-> b, from |-> c, to |-> r]]
                    ELSE tx
           /\ calls' = calls \cup Trailing(c, z)
    /\ UNCHANGED <<poolVars, onMessage, alloc>>

\* receive() begins: postReceive(), which gives up when it is too late or, after some
\* tries, when there is no room.
PostReceive(t) ==
    LET c == tx[t].to
    IN  /\ tx[t].pc = "sent" /\ Up(c)
        /\ \/ /\ Fits(Own(c))
              /\ Step(c, PostStatus(Own(c), Message("TRANSFER_FROM", tx[t].b, t, 0)))
              /\ tx' = [tx EXCEPT ![t].pc = "receive"]
           \/ /\ \/ Step(c, PostStatus(Own(c), Message("TRANSFER_TIMEOUT", tx[t].b, t, 0)))
                 \/ ~Fits(Own(c)) /\ UNCHANGED <<client, mail, inv>>
              /\ tx' = [tx EXCEPT ![t].pc = "abandoned"]
        /\ UNCHANGED <<poolVars, calls, onMessage, alloc, called>>

\* The loop of receive(): a reference that is still alive, a cached handle, or a fetch.
LookUp(t, expired) ==
    LET c == tx[t].to
        b == tx[t].b
        z == EvictCaches(SyncReleased(Own(c), 0), expired)
        Goes(pc) == tx' = [tx EXCEPT ![t].pc = pc]
    IN  /\ tx[t].pc = "receive" /\ CacheFree(c)
        /\ \/ /\ b \in z.cl.hasCache /\ z.cl.refs[b] > 0
              /\ Step(c, [z EXCEPT !.cl.refs[b] = @ + 1]) /\ Goes("got") /\ UNCHANGED calls
           \/ /\ b \in z.cl.mBuffers \ z.cl.hasCache
              /\ Step(c, CreateCache(z, b)) /\ Goes("got") /\ UNCHANGED calls
           \/ /\ b \notin z.cl.mBuffers /\ ~z.cl.mCreating
              /\ Step(c, [z EXCEPT !.cl.mCreating = TRUE]) /\ Goes("fetch")
              /\ calls' = calls \cup {Call("fetch", t)}
           \/ /\ \/ b \in z.cl.hasCache /\ z.cl.refs[b] = 0
                 \/ b \notin z.cl.mBuffers /\ z.cl.mCreating
              /\ Step(c, z) /\ UNCHANGED <<tx, calls>>
        /\ UNCHANGED <<poolVars, onMessage, alloc, called>>

\* The fetch has returned; the handle may not be clonable.
FetchDone(t, ok) ==
    LET c == tx[t].to
        z == [Own(c) EXCEPT !.cl.mCreating = FALSE]
        made == ok /\ tx[t].pc = "fetched" /\ tx[t].b \notin z.cl.mBuffers
    IN  /\ tx[t].pc \in {"fetched", "unfetched"} /\ CacheFree(c)
        /\ Step(c, IF made THEN CreateCache(z, tx[t].b) ELSE z)
        /\ tx' = [tx EXCEPT ![t].pc = IF made THEN "got" ELSE "failed"]
        /\ UNCHANGED <<poolVars, calls, onMessage, alloc, called>>

\* receive() ends: postReceiveResult(), once; without room the reference is dropped.
PostReceiveResult(t) ==
    LET c == tx[t].to
        posted == Fits(Own(c))
        z == PostStatus(Own(c), Message(IF tx[t].pc = "got" THEN "TRANSFER_OK" ELSE "TRANSFER_ERROR",
                                    tx[t].b, t, 0))
    IN  /\ tx[t].pc \in {"got", "failed"} /\ Up(c)
        /\ Step(c, IF tx[t].pc = "got" /\ ~posted THEN LoseRef(z, tx[t].b) ELSE z)
        /\ tx' = [tx EXCEPT ![t].pc = IF posted THEN "done" ELSE "abandoned"]
        /\ calls' = calls \cup Trailing(c, z)
        /\ UNCHANGED <<poolVars, onMessage, alloc, called>>

\* The application drops a reference; if it was the last, the deleter posts a release.
Drop(c, b) ==
    /\ Up(c) /\ client[c].refs[b] > InReceive(c, b)
    /\ Step(c, LoseRef(Own(c), b))
    /\ UNCHANGED <<poolVars, calls, onMessage, tx, alloc, called>>

Deleter(c, b) ==
    /\ Up(c) /\ b \in client[c].dying
    /\ Step(c, PostRelease([Own(c) EXCEPT !.cl.dying = @ \ {b}], b))
    /\ UNCHANGED <<poolVars, calls, onMessage, tx, alloc, called>>

FlushCall ==
    /\ called < MaxCalls /\ called' = called + 1
    /\ CacheFree(Local) /\ \E expired \in SUBSET client[Local].mBuffers :
            Step(Local, [EvictCaches(SyncReleased(Own(Local), 0), expired) EXCEPT !.cl.locked = TRUE])
    /\ calls' = calls \cup {Call("flush", 0)}
    /\ UNCHANGED <<poolVars, onMessage, tx, alloc>>

\* isActive(), called now and then by ClientManager::cleanUp()
IsActive(c, expired) ==
    /\ CacheFree(c)
    /\ Step(c, EvictCaches(SyncReleased(Own(c), 0), expired))
    /\ calls' = calls \cup IF c = Local THEN {Call("cleanUp", 0)} ELSE {}
    /\ UNCHANGED <<poolVars, onMessage, tx, alloc, called>>

ReceiveInvalidation(c, id) ==
    /\ CacheFree(c) /\ <<c, id>> \in onMessage
    /\ Step(c, SyncReleased(Own(c), id))
    /\ onMessage' = onMessage \ {<<c, id>>}
    /\ UNCHANGED <<poolVars, calls, tx, alloc, called>>

\* A remote client closes its connection or dies; its queue is left behind.
Disconnect(c) ==
    /\ c # Local /\ Up(c)
    /\ client' = [client EXCEPT ![c] = InitClient("gone")]
    /\ tx' = [t \in Transactions |-> IF tx[t].to = c /\ tx[t].pc \notin {"none", "done"}
                                     THEN [tx[t] EXCEPT !.pc = "abandoned"] ELSE tx[t]]
    /\ onMessage' = {x \in onMessage : x[1] # c}
    /\ calls' = calls \cup {Call("close", c)}
    /\ inv' = [inv EXCEPT ![c] = <<>>]
    /\ UNCHANGED <<poolVars, mail, alloc, called>>

\* connect() and allocate() do nothing before they have the mutex.
PoolNext ==
    \/ \E call \in calls : Lock(call)
    \/ \E c \in Connections : client[c].state = "new" /\ Lock(Call("connect", c))
    \/ alloc.pc = "idle" /\ Lock(Call("allocate", 0))
    \/ pool.registered /\ Lock(Call("handleInvalidateAck", 0))
    \/ \E c \in Connections : ReadQueue(c) \/ HandleMessage(c)
    \/ Connect \/ Close \/ AskAllocator \/ Fetch \/ CleanUp \/ Flush \/ HandleInvalidateAck
    \/ \E b \in BufferIds : CloseBuffer(b) \/ Recycle(b)
    \/ \E t \in Transactions : CloseTransaction(t)
    \/ \E ok \in BOOLEAN : Allocated(ok)

ClientNext ==
    \/ FlushCall
    \/ \E ok \in BOOLEAN, expired \in SUBSET client[Local].mBuffers : AllocateDone(ok, expired)
    \/ \E c \in Connections :
        \/ Disconnect(c)
        \/ \E b \in BufferIds : Drop(c, b) \/ Deleter(c, b)
        \/ \E b \in BufferIds, r \in Connections, t \in Transactions : PostSend(t, c, b, r)
        \/ \E expired \in SUBSET client[c].mBuffers : IsActive(c, expired)
        \/ \E x \in onMessage : x[1] = c /\ ReceiveInvalidation(c, x[2])
    \/ \E t \in Transactions : PostReceive(t) \/ PostReceiveResult(t)
    \/ \E t \in Transactions : \E expired \in SUBSET client[tx[t].to].mBuffers : LookUp(t, expired)
    \/ \E t \in Transactions, ok \in BOOLEAN : FetchDone(t, ok)

Next == PoolNext \/ ClientNext

Spec == Init /\ [][Next]_vars

-----------------------------------------------------------------------------
(* Properties.                                                             *)

\* The buffers that a client uses, or that are on their way to one.
InUse(b) ==
    \/ \E c \in Connections : client[c].refs[b] > 0
    \/ alloc.pc = "got" /\ alloc.b = b
    \/ \E t \in Transactions :
        /\ tx[t].b = b /\ Up(tx[t].to)
        /\ tx[t].pc \in {"sent", "receive", "fetch", "fetched", "got"}

\* A buffer is not recycled, evicted or invalidated away while a connected client has it, or
\* between the return of postSend() and the end of receive(), in whatever order the pool
\* reads the messages of sender and receiver, and however far it lags behind them.
NoReuseInUse ==
    \A b \in BufferIds : InUse(b) => b \in pool.mBuffers \ pool.mFreeBuffers

\* How many ids after the first one b is, when ids wrap around at SYNC_BUFFERID.
Off(b) == IF b >= FirstId THEN b - FirstId ELSE b - FirstId + SYNC_BUFFERID

\* The bookkeeping of the pool agrees with itself: counts with sets, one map with its
\* inverse, free with unused; a pending invalidation waits for as many buffers as there
\* are in its range, and the buffers that are invalidated are those made before the last
\* flush, also where the ids wrap; and no message names a buffer that is not there, which
\* the handlers do not check ("TODO: is it feasible to check ownership here?").
PoolConsistent ==
    /\ ~pool.crashed
    /\ \A b \in pool.mBuffers :
        /\ pool.mOwnerCount[b] = Cardinality({c \in Connections : <<c, b>> \in pool.mUsingBuffers})
        /\ pool.mTransactionCount[b] =
            Cardinality({t \in Transactions : Known(pool, t) /\ pool.mTransactions[t].mBufferId = b})
        /\ b \in pool.mFreeBuffers <=> pool.mOwnerCount[b] = 0 /\ pool.mTransactionCount[b] = 0
    /\ pool.mUsingConnections = {<<x[2], x[1]>> : x \in pool.mUsingBuffers}
    /\ \A t \in Transactions : Known(pool, t) =>
        /\ pool.mTransactions[t].mBufferId \in pool.mBuffers
        /\ pool.mTransactions[t].mReceiver \in pool.mConnectionIds
    /\ pool.mInvalidated \cap pool.mFreeBuffers = {}
    /\ \A x \in pool.mPendings :
        x.left = Cardinality({b \in pool.mBuffers : Off(x.from) <= Off(b) /\ Off(b) < Off(x.to)})
    /\ \A b \in pool.mBuffers : b \in pool.mInvalidated <=> Off(b) < Off(pool.mStartSeq)

\* When the pool has read everything, a buffer that is not free is in use, about to be
\* released, or in a transfer that its receiver has given up without a word and that ends
\* with the connection of the receiver ("TRANSFER_TIMEOUT: TODO").
NoLeak ==
    Running("none") /\ calls = {} /\ (\A c \in Connections : mail[c] = <<>>) =>
        \A b \in pool.mBuffers \ pool.mFreeBuffers :
            \/ InUse(b)
            \/ \E c \in Connections : b \in client[c].dying \cup ToSet(client[c].mReleasingIds)
            \/ \E t \in Transactions :
                /\ tx[t].b = b /\ Up(tx[t].to)
                /\ tx[t].pc \in {"unfetched", "failed", "abandoned"}

\* A client that has not read an invalidation is told: the invalidator thread has the
\* Accessor on its list, or a call of the observer is on its way.
InvalidationComes ==
    Running("none") => \A c \in Connections :
        Up(c) /\ inv[c] # <<>> => pool.registered \/ \E x \in onMessage : x[1] = c
=============================================================================
