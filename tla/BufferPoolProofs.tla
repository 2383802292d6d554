-------------------------- MODULE BufferPoolProofs --------------------------
(***************************************************************************)
(* Every step of BufferPool preserves the invariant of BufferPoolInv, and  *)
(* the properties of BufferPool follow from it.                            *)
(***************************************************************************)
EXTENDS BufferPoolLemmas

-----------------------------------------------------------------------------
(* Invalidations and streams.                                              *)

\* Notified stays true when something else is said,
LEMMA NotifiedAppend ==
    ASSUME NEW p, NEW c, NEW k, NEW i, NEW om, NEW s \in Seq(Messages), Notified(p, c, k, i, om, s),
           NEW m \in Messages, m.newStatus # "INVALIDATION_ACK"
    PROVE  Notified(p, c, k, i, om, Append(s, m))
<1> DEFINE r == Append(s, m)
<1>1. /\ Len(r) = Len(s) + 1 /\ (\A j \in 1 .. Len(s) : r[j] = s[j])
      /\ r[Len(s) + 1] = m /\ Len(s) \in Nat
    BY AppendItems
<1> HIDE DEF r
<1>2. \A j \in 1 .. Len(r) : j \in 1 .. Len(s) \/ j = Len(s) + 1
    BY <1>1
<1>3. ASSUME NEW j \in 1 .. Len(r), r[j].newStatus = "INVALIDATION_ACK"
      PROVE  r[j].bufferId <= p.mInvalidationId /\ (k.state = "up" => r[j].bufferId <= k.mInvalidateId)
    BY <1>1, <1>2, <1>3 DEF Notified
<1> QED BY <1>3 DEF Notified, r

\* when the client changes in other ways,
LEMMA NotifiedSame ==
    ASSUME NEW p, NEW c, NEW k, NEW i, NEW om, NEW s, Notified(p, c, k, i, om, s),
           NEW l, l.state = k.state, l.mInvalidateId = k.mInvalidateId
    PROVE  Notified(p, c, l, i, om, s)
BY DEF Notified

\* and after syncReleased().
LEMMA NotifiedSync ==
    ASSUME NEW z \in Objects, NEW q, NEW id \in Nat, Synced(z, q, id), z.cl.state = "up",
           NEW p \in Pools, NEW c, NEW om, Notified(p, c, z.cl, z.inv, om, Stream(z)),
           id <= p.mInvalidationId, NEW om2, Stream(z) \in Seq(Messages)
    PROVE  Notified(p, c, q.cl, q.inv, om2, Stream(q)) /\ Stream(q) \in Seq(Messages)
<1>1. /\ q \in Objects /\ q.inv = <<>> /\ SameHeld(z.cl, q.cl)
      /\ Stream(q) = Stream(z) \/ Stream(q) = Append(Stream(z), AckOf(q))
      /\ q.cl.mInvalidateId \in {z.cl.mInvalidateId, IF z.inv = <<>> THEN id ELSE Last(z.inv).id}
      /\ q.cl.mInvalidateId >= z.cl.mInvalidateId
    BY DEF Synced, Valid
<1>2. q.cl.mInvalidateId <= p.mInvalidationId
    BY <1>1 DEF Notified
<1>3. z.cl.mInvalidateId \in Nat /\ q.cl.mInvalidateId \in Nat /\ p.mInvalidationId \in Nat
    BY <1>1 DEF Objects, Clients, Pools
<1>4. ASSUME NEW j \in 1 .. Len(Stream(z)), Stream(z)[j].newStatus = "INVALIDATION_ACK"
      PROVE  Stream(z)[j].bufferId <= p.mInvalidationId /\ Stream(z)[j].bufferId <= q.cl.mInvalidateId
  <2>1. Stream(z)[j].bufferId <= p.mInvalidationId /\ Stream(z)[j].bufferId <= z.cl.mInvalidateId
    BY <1>4 DEF Notified
  <2>2. Stream(z)[j].bufferId \in Nat
    <3>1. Stream(z)[j] \in Messages
      OBVIOUS
    <3> QED BY <3>1 DEF Messages
  <2> QED BY <1>1, <1>3, <2>1, <2>2
<1>5. p.mAcks[c] <= p.mInvalidationId
    BY DEF Notified
<1>6. CASE Stream(q) = Stream(z)
    BY <1>1, <1>2, <1>4, <1>5, <1>6 DEF Notified
<1>7. CASE Stream(q) = Append(Stream(z), AckOf(q))
  <2> DEFINE s == Stream(z)
             m == AckOf(q)
             r == Append(s, m)
  <2>1. m \in Messages /\ m.bufferId = q.cl.mInvalidateId
    BY <1>3 DEF AckOf, Message, Messages, Statuses
  <2>2. /\ r \in Seq(Messages) /\ Len(r) = Len(s) + 1 /\ (\A j \in 1 .. Len(s) : r[j] = s[j])
        /\ r[Len(s) + 1] = m /\ Len(s) \in Nat
    BY <2>1, AppendItems
  <2>3. Stream(q) = r
    BY <1>7
  <2> HIDE DEF m, r
  <2>4. \A j \in 1 .. Len(r) : j \in 1 .. Len(s) \/ j = Len(s) + 1
    BY <2>2
  <2>5. m.bufferId <= p.mInvalidationId /\ m.bufferId <= q.cl.mInvalidateId
    BY <1>2, <1>3, <2>1
  <2>6. ASSUME NEW j \in 1 .. Len(r), r[j].newStatus = "INVALIDATION_ACK"
        PROVE  r[j].bufferId <= p.mInvalidationId /\ r[j].bufferId <= q.cl.mInvalidateId
    BY <1>4, <2>2, <2>4, <2>5, <2>6
  <2> QED BY <1>1, <1>2, <1>5, <2>2, <2>3, <2>6 DEF Notified
<1> QED BY <1>1, <1>6, <1>7

\* A stream is a sequence of messages.
LEMMA StreamType ==
    ASSUME NEW z \in Objects
    PROVE  Stream(z) \in Seq(Messages)
<1>1. z.mail \in Seq(Messages) /\ z.cl.mReleasingIds \in Seq(BufferIds)
    BY DEF Objects, Clients
<1>2. NotUsed(z.cl.mReleasingIds) \in Seq(Messages)
    BY <1>1, NotUsedItems
<1> QED BY <1>1, <1>2, ConcatItems DEF Stream

\* The object of a connection that a step of its client works on.
LEMMA OwnType ==
    ASSUME TypeOK, NEW c \in Connections
    PROVE  /\ Own(c) \in Objects /\ Own(c).cl = client[c] /\ Own(c).mail = mail[c]
           /\ Own(c).taken = taken[c] /\ Own(c).inv = inv[c] /\ Room(Own(c)) >= 0
           /\ Streams[c] = Stream(Own(c)) /\ Stream(Own(c)) \in Seq(Messages)
<1>1. Own(c) \in Objects
    BY DEF TypeOK, Own, Objects
<1> QED BY <1>1, StreamType DEF TypeOK, Own, Streams

\* The streams have their type.
LEMMA StreamsType ==
    ASSUME TypeOK
    PROVE  Streams \in AllStreams
BY OwnType DEF Streams, AllStreams

\* The first message of a stream, and how it ends.
LEMMA StreamHead ==
    ASSUME NEW z \in Objects
    PROVE  /\ z.mail # <<>> => Stream(z) # <<>> /\ Head(Stream(z)) = Head(z.mail)
           /\ z.mail = <<>> /\ z.cl.mReleasingIds = <<>> => Stream(z) = <<>>
           /\ Stream(z) = <<>> => z.mail = <<>>
<1>1. z.mail \in Seq(Messages) /\ z.cl.mReleasingIds \in Seq(BufferIds)
    BY DEF Objects, Clients
<1> DEFINE A == NotUsed(z.cl.mReleasingIds)
<1>2. A \in Seq(Messages) /\ Len(A) = Len(z.cl.mReleasingIds)
    BY <1>1, NotUsedItems
<1>3. Stream(z) = z.mail \o A
    BY DEF Stream
<1> HIDE DEF A
<1>7. /\ z.mail \o A \in Seq(Messages) /\ Len(z.mail \o A) = Len(z.mail) + Len(A)
      /\ Len(z.mail) \in Nat /\ Len(A) \in Nat
      /\ \A i \in 1 .. Len(z.mail) : (z.mail \o A)[i] = z.mail[i]
    BY <1>1, <1>2, ConcatItems
<1>4. /\ Stream(z) \in Seq(Messages) /\ Len(Stream(z)) = Len(z.mail) + Len(A)
      /\ Len(z.mail) \in Nat /\ Len(A) \in Nat
      /\ \A i \in 1 .. Len(z.mail) : Stream(z)[i] = z.mail[i]
    BY <1>3, <1>7
<1>5. ASSUME z.mail # <<>> PROVE Stream(z) # <<>> /\ Head(Stream(z)) = Head(z.mail)
  <2>1. Len(z.mail) >= 1 /\ Head(z.mail) = z.mail[1]
    BY <1>1, <1>5
  <2>2. Stream(z) # <<>> /\ Stream(z)[1] = z.mail[1]
    BY <1>4, <2>1
  <2> QED BY <1>4, <2>1, <2>2
<1>6. ASSUME z.mail = <<>>, z.cl.mReleasingIds = <<>> PROVE Stream(z) = <<>>
    BY <1>2, <1>4, <1>6
<1> QED BY <1>5, <1>6

\* A stream after the pool has read a message.
LEMMA StreamTail ==
    ASSUME NEW z \in Objects, z.mail # <<>>, NEW q, q.mail = Tail(z.mail), q.cl = z.cl
    PROVE  Stream(q) = Tail(Stream(z))
<1>1. z.mail \in Seq(Messages) /\ z.cl.mReleasingIds \in Seq(BufferIds)
    BY DEF Objects, Clients
<1> DEFINE A == NotUsed(z.cl.mReleasingIds)
           m == z.mail
<1>2. A \in Seq(Messages) /\ m \in Seq(Messages) /\ m # <<>>
    BY <1>1, NotUsedItems
<1>3. Stream(z) = m \o A /\ Stream(q) = Tail(m) \o A
    BY DEF Stream
<1> HIDE DEF A, m
<1> DEFINE n == Tail(m)
           l == n \o A
           s == m \o A
           r == Tail(s)
<1>4. n \in Seq(Messages) /\ Len(n) = Len(m) - 1 /\ (\A i \in 1 .. Len(m) - 1 : n[i] = m[i + 1]) /\ Len(m) \in Nat \ {0}
    BY <1>2, TailItems
<1> HIDE DEF n
<1>5. /\ l \in Seq(Messages) /\ Len(l) = Len(n) + Len(A) /\ Len(A) \in Nat
      /\ (\A i \in 1 .. Len(n) : l[i] = n[i]) /\ \A i \in 1 .. Len(A) : l[Len(n) + i] = A[i]
    BY <1>2, <1>4, ConcatItems
<1>6. /\ s \in Seq(Messages) /\ Len(s) = Len(m) + Len(A)
      /\ (\A i \in 1 .. Len(m) : s[i] = m[i]) /\ \A i \in 1 .. Len(A) : s[Len(m) + i] = A[i]
    BY <1>2, ConcatItems
<1> HIDE DEF l, s
<1>7. s # <<>>
    BY <1>4, <1>5, <1>6
<1>8. r \in Seq(Messages) /\ Len(r) = Len(s) - 1 /\ \A i \in 1 .. Len(s) - 1 : r[i] = s[i + 1]
    BY <1>6, <1>7, TailItems
<1> HIDE DEF r
<1>9. Len(l) = Len(r)
    BY <1>4, <1>5, <1>6, <1>8
<1>10. ASSUME NEW i \in 1 .. Len(l) PROVE l[i] = r[i]
  <2>1. r[i] = s[i + 1]
    BY <1>4, <1>5, <1>6, <1>8, <1>9
  <2>2. CASE i <= Len(n)
    <3>1. i \in 1 .. Len(n) /\ i \in 1 .. Len(m) - 1 /\ i + 1 \in 1 .. Len(m)
      BY <1>4, <2>2
    <3> QED BY <1>4, <1>5, <1>6, <2>1, <3>1
  <2>3. CASE i > Len(n)
    <3> DEFINE j == i - Len(n)
    <3>1. j \in 1 .. Len(A) /\ i = Len(n) + j /\ i + 1 = Len(m) + j
      BY <1>4, <1>5, <2>3
    <3> HIDE DEF j
    <3> QED BY <1>5, <1>6, <2>1, <3>1
  <2> QED BY <1>4, <1>5, <2>2, <2>3
<1>11. l = [i \in 1 .. Len(l) |-> l[i]] /\ r = [i \in 1 .. Len(r) |-> r[i]]
    BY <1>5, <1>8
<1>12. l = r
    BY <1>9, <1>10, <1>11
<1> QED BY <1>3, <1>12 DEF l, r, s, n

-----------------------------------------------------------------------------
(* The steps of the clients.                                               *)

\* What the invariant says about the clients and the connections that are not closed.
Basics ==
    /\ Streams \in AllStreams /\ tx \in AllTransfers /\ pool \in Pools
    /\ Live \in SUBSET pool.mConnectionIds /\ Local \in Live /\ Awake(Streams, Live, St)
    /\ \A c \in Connections, b \in BufferIds : client[c].refs[b] \in Int
    /\ \A c \in Connections, b \in BufferIds : client[c].state = "gone" => client[c].refs[b] = 0

\* The invariant says so.
LEMMA BasicsHold ==
    ASSUME Inv
    PROVE  Basics
<1>1. TypeOK /\ Order /\ pool \in Pools /\ Local \in Connections
    BY ConnectionsAssumption DEF Inv, Consistent
<1>2. Streams \in AllStreams
    BY <1>1, StreamsType
<1>3. ASSUME NEW d \in Connections, Streams[d] # <<>> PROVE d \in Live
  <2>1. d \in pool.mConnectionIds
    BY <1>1, <1>3 DEF Order, Connected
  <2>2. ASSUME Closing(d) PROVE FALSE
    <3>1. op = Call("close", d)
      BY <1>1, <2>2 DEF Closing, TypeOK, Calls, Call, Running
    <3>2. d \notin unread /\ taken[d] = 0
      BY <2>2 DEF Closing, Handled
    <3>3. client[d].state = "gone" /\ client[d] = InitClient("gone") /\ Len(mail[d]) = 0
      BY <1>1, <3>1, <3>2 DEF Order, Connected
    <3>4. mail[d] = <<>> /\ client[d].mReleasingIds = <<>>
      BY <1>1, <3>3 DEF InitClient, TypeOK
    <3>5. Own(d) \in Objects /\ Own(d).mail = <<>> /\ Own(d).cl.mReleasingIds = <<>> /\ Streams[d] = Stream(Own(d))
      BY <1>1, <3>4, OwnType
    <3> QED BY <1>3, <3>5, StreamHead
  <2> QED BY <2>1, <2>2 DEF Live
<1>4. ASSUME NEW d \in Connections, St[d] = "up" PROVE d \in Live
  <2>1. client[d].state = "up"
    BY <1>4 DEF St
  <2>2. d \in pool.mConnectionIds
    BY <1>1, <2>1 DEF Order, Connected
  <2>3. ASSUME Closing(d) PROVE FALSE
    <3>1. op = Call("close", d)
      BY <1>1, <2>3 DEF Closing, TypeOK, Calls, Call, Running
    <3> QED BY <1>1, <2>1, <3>1 DEF Order, Connected
  <2> QED BY <2>2, <2>3 DEF Live
<1>5. St[Local] = "up"
    BY <1>1 DEF St, Order
<1>6. client \in [Connections -> Clients] /\ tx \in AllTransfers
    BY <1>1 DEF TypeOK
<1>7. ASSUME NEW c \in Connections, NEW b \in BufferIds
      PROVE client[c].refs[b] \in Int /\ (client[c].state = "gone" => client[c].refs[b] = 0)
  <2>1. client[c].refs[b] \in Int
    BY <1>6 DEF Clients
  <2>2. ASSUME client[c].state = "gone" PROVE client[c].refs[b] = 0
    <3>1. client[c] = InitClient("gone")
      BY <1>1, <2>2 DEF Order, Connected
    <3> QED BY <3>1 DEF InitClient
  <2> QED BY <2>1, <2>2
<1>8. Awake(Streams, Live, St) /\ Local \in Live
    BY <1>1, <1>3, <1>4, <1>5 DEF Awake
<1>9. Live \in SUBSET pool.mConnectionIds
    BY DEF Live
<1> QED BY <1>1, <1>2, <1>6, <1>7, <1>8, <1>9 DEF Basics

\* and about a client that is up.
LEMMA UpFacts ==
    ASSUME Inv, NEW c \in Connections, Up(c)
    PROVE  /\ Own(c) \in Objects /\ Room(Own(c)) >= 0 /\ NoRepeat(Own(c).cl.mReleasingIds)
           /\ Own(c).cl = client[c] /\ Own(c).cl.state = "up"
           /\ Stream(Own(c)) \in Seq(Messages) /\ Streams[c] = Stream(Own(c))
           /\ Notified(pool, c, Own(c).cl, Own(c).inv, onMessage, Stream(Own(c)))
           /\ Cache(Own(c).cl, OfLocal(c, Un)) /\ client[c].refs \in [BufferIds -> Int]
           /\ Protocol(Streams, tx, pool, Live, St)
           /\ Holdings(client, Streams, pool.mUsingBuffers, tx, Un, Al)
           /\ c \in Live /\ c \in pool.mConnectionIds
<1>1. TypeOK /\ Protocol(Streams, tx, pool, Live, St) /\ Notices
      /\ Holdings(client, Streams, pool.mUsingBuffers, tx, Un, Al)
    BY DEF Inv
<1>2. Basics
    BY BasicsHold
<1>3. /\ Own(c) \in Objects /\ Room(Own(c)) >= 0 /\ Own(c).cl = client[c] /\ Own(c).inv = inv[c]
      /\ Stream(Own(c)) \in Seq(Messages) /\ Streams[c] = Stream(Own(c))
    BY <1>1, OwnType
<1>4. Cache(client[c], OfLocal(c, Un))
    BY <1>1 DEF Holdings
<1>5. Notified(pool, c, client[c], inv[c], onMessage, Streams[c])
    BY <1>1 DEF Notices
<1>6. client[c].refs \in [BufferIds -> Int]
    BY <1>1 DEF TypeOK, Clients
<1>7. NoRepeat(client[c].mReleasingIds)
    BY <1>4 DEF Cache
<1>8. c \in Live /\ c \in pool.mConnectionIds
    BY <1>2 DEF Basics, Awake, St, Up
<1> QED BY <1>1, <1>3, <1>4, <1>5, <1>6, <1>7, <1>8 DEF Up

\* A step of a client that is up.
ClientsWith(c, z) == [client EXCEPT ![c] = z.cl]

\* The streams after it; it may add calls, and go on with allocate().
StreamsWith(c, z) == [Streams EXCEPT ![c] = Stream(z)]

MoreCalls ==
    calls' \subseteq Calls /\ calls \subseteq calls' /\ \A k \in calls' \ calls :
        CallOK(k) /\ k.fn \in {"fetch", "cleanUp", "flush"}

AllocSteps ==
    /\ alloc' \in [pc : {"idle", "asking", "got"}, b : BufferIds]
    /\ alloc.pc = "idle" => alloc'.pc = "idle"

LessNotices(c) ==
    /\ onMessage' \subseteq onMessage
    /\ \A y \in onMessage \ onMessage' : y[1] = c

\* A step of client c changes what is its own.
LEMMA StepParts ==
    ASSUME Inv, NEW c \in Connections, Up(c), NEW z, Valid(Own(c), z), Step(c, z),
           UNCHANGED poolVars
    PROVE  /\ client' = ClientsWith(c, z) /\ Streams' = StreamsWith(c, z)
           /\ client'[c] = z.cl /\ \A d \in Connections : d # c => client'[d] = client[d] /\ Streams'[d] = Streams[d]
           /\ Streams'[c] = Stream(z) /\ Streams' \in AllStreams /\ inv'[c] = z.inv
           /\ \A d \in Connections : d # c => inv'[d] = inv[d] /\ mail'[d] = mail[d]
           /\ mail'[c] = z.mail
           /\ Live' = Live
<1>1. TypeOK /\ Basics
    BY BasicsHold DEF Inv
<1>2. client \in [Connections -> Clients] /\ mail \in [Connections -> Seq(Messages)] /\ taken' = taken
      /\ inv \in [Connections -> Seq(Invalidations)]
    BY <1>1 DEF TypeOK, poolVars
<1>3. /\ client' = [client EXCEPT ![c] = z.cl] /\ mail' = [mail EXCEPT ![c] = z.mail]
      /\ inv' = [inv EXCEPT ![c] = z.inv]
    BY DEF Step
<1>4. /\ client'[c] = z.cl /\ mail'[c] = z.mail /\ inv'[c] = z.inv
      /\ \A d \in Connections : d # c => client'[d] = client[d] /\ inv'[d] = inv[d] /\ mail'[d] = mail[d]
    BY <1>2, <1>3
<1>5. Streams' = [d \in Connections |-> Stream(Own(d))']
    BY DEF Streams
<1>6. \A d \in Connections : Stream(Own(d))' = mail'[d] \o NotUsed(client'[d].mReleasingIds)
    BY DEF Stream, Own, NotUsed, Message
<1>7. \A d \in Connections : Streams[d] = mail[d] \o NotUsed(client[d].mReleasingIds)
    BY DEF Stream, Own, Streams
<1>8. Streams'[c] = Stream(z)
    BY <1>4, <1>5, <1>6 DEF Stream
<1>9. \A d \in Connections : d # c => Streams'[d] = Streams[d]
    BY <1>4, <1>5, <1>6, <1>7
<1>10. Streams = [d \in Connections |-> Streams[d]] /\ Streams' = [d \in Connections |-> Streams'[d]]
    BY DEF Streams
<1>11. Streams' = StreamsWith(c, z)
    BY <1>8, <1>9, <1>10 DEF StreamsWith
<1>12. Streams' \in AllStreams
  <2>1. Stream(z) \in Seq(Messages)
    BY StreamType DEF Valid
  <2>2. Streams \in AllStreams
    BY <1>1 DEF Basics
  <2> QED BY <1>11, <2>1, <2>2 DEF AllStreams, StreamsWith
<1>13. Live' = Live
    BY DEF Live, Closing, Running, Handled, poolVars
<1> QED BY <1>3, <1>4, <1>8, <1>9, <1>11, <1>12, <1>13 DEF ClientsWith

\* What is to be shown of it: the rest of the invariant follows.
LEMMA ClientStep ==
    ASSUME Inv, NEW c \in Connections, Up(c), NEW z, Valid(Own(c), z), z.cl.state = "up", Step(c, z),
           UNCHANGED poolVars, MoreCalls, AllocSteps, LessNotices(c), tx' \in AllTransfers,
           Notified(pool, c, z.cl, z.inv, onMessage', Stream(z)),
           Protocol(Streams', tx', pool, Live, St),
           Holdings(client', Streams', pool.mUsingBuffers, tx', Unused(client', Streams', tx', Live), Al')
    PROVE  Inv'
<1>1. TypeOK /\ Order /\ Notices /\ Consistent(pool) /\ pool.posted = <<>>
    BY DEF Inv
<1>2. /\ client' = ClientsWith(c, z) /\ Streams' = StreamsWith(c, z)
      /\ client'[c] = z.cl
      /\ \A d \in Connections : d # c => client'[d] = client[d] /\ Streams'[d] = Streams[d]
      /\ Streams'[c] = Stream(z) /\ Streams' \in AllStreams /\ inv'[c] = z.inv
      /\ \A d \in Connections : d # c => inv'[d] = inv[d] /\ mail'[d] = mail[d]
      /\ mail'[c] = z.mail /\ Live' = Live
    BY StepParts
<1>3. pool' = pool /\ op' = op /\ unread' = unread /\ taken' = taken
    BY DEF poolVars
<1>4. z \in Objects /\ z.taken = taken[c] /\ Room(z) >= 0
    BY DEF Valid, Own
<1>5. TypeOK'
  <2>1. op' \in Calls /\ CallOK(op)' /\ unread' \in SUBSET pool'.mConnectionIds
    BY <1>1, <1>3 DEF TypeOK, CallOK
  <2>2. calls' \in SUBSET Calls /\ (\A k \in calls' : CallOK(k) /\ k.fn \in Waiting)
    BY <1>1 DEF MoreCalls, TypeOK, Waiting
  <2>3. mail' \in [Connections -> Seq(Messages)] /\ client' \in [Connections -> Clients]
        /\ inv' \in [Connections -> Seq(Invalidations)]
    <3>1. z.mail \in Seq(Messages) /\ z.cl \in Clients /\ z.inv \in Seq(Invalidations)
      BY <1>4 DEF Objects
    <3> QED BY <1>1, <3>1 DEF Step, TypeOK
  <2>4. ASSUME NEW d \in Connections PROVE taken'[d] <= Len(mail'[d]) /\ Room(Own(d))' >= 0
    <3>1. Room(Own(d))' = QueueSize - (Len(mail'[d]) - taken'[d]) /\ Room(Own(d)) = QueueSize - (Len(mail[d]) - taken[d])
      BY DEF Room, Own
    <3>2. CASE d # c
      BY <1>1, <1>2, <1>3, <3>1, <3>2 DEF TypeOK
    <3>3. CASE d = c
      <4>1. Room(z) = QueueSize - (Len(mail'[d]) - taken'[d])
        BY <1>2, <1>3, <1>4, <3>3 DEF Room
      <4>2. taken'[d] <= Len(mail'[d])
        <5>1. taken[c] <= Len(mail[c]) /\ taken[c] \in Nat /\ Len(mail[c]) \in Nat /\ Len(z.mail) \in Nat
          BY <1>1, <1>4 DEF TypeOK, Objects
        <5>2. Len(mail[c]) <= Len(z.mail)
          BY DEF Valid, Own
        <5> QED BY <1>2, <1>3, <3>3, <5>1, <5>2
      <4> QED BY <1>4, <3>1, <4>1, <4>2
    <3> QED BY <3>2, <3>3
  <2>5. taken' \in [Connections -> Nat] /\ onMessage' \in SUBSET (Connections \X Nat)
        /\ alloc' \in [pc : {"idle", "asking", "got"}, b : BufferIds]
    BY <1>1, <1>3 DEF TypeOK, LessNotices, AllocSteps
  <2>6. tx' \in AllTransfers
    OBVIOUS
  <2> QED BY <2>1, <2>2, <2>3, <2>4, <2>5, <2>6 DEF TypeOK, CallOK
<1>6. Order'
  <2>1. ASSUME NEW d \in Connections PROVE Connected(d)'
    <3>1. Connected(d)
      BY <1>1 DEF Order
    <3>2. client'[d].state = client[d].state /\ (d # c => client'[d] = client[d] /\ Streams'[d] = Streams[d] /\ mail'[d] = mail[d])
      BY <1>2 DEF Up
    <3>3. Call("close", d) \in calls' <=> Call("close", d) \in calls
      BY DEF MoreCalls, Call
    <3>4. CASE d # c
      BY <1>3, <3>1, <3>2, <3>3, <3>4 DEF Connected
    <3>5. CASE d = c
      BY <1>3, <3>1, <3>2, <3>3, <3>5 DEF Connected, Up
    <3> QED BY <3>4, <3>5
  <2>2. client'[Local].state = "up"
    BY <1>1, <1>2, ConnectionsAssumption DEF Order
  <2>3. (Running("none") => Handled)' /\ (Running("allocate") => alloc.pc = "idle")'
    BY <1>1, <1>3 DEF Order, Running, Handled, AllocSteps
  <2> QED BY <2>1, <2>2, <2>3 DEF Order
<1>7. Notices'
  <2>1. ASSUME NEW d \in Connections
        PROVE  Notified(pool, d, client'[d], inv'[d], onMessage', Streams'[d])
    <3>1. CASE d = c
      BY <1>2, <3>1
    <3>2. CASE d # c
      <4>1. Notified(pool, d, client[d], inv[d], onMessage, Streams[d])
        BY <1>1 DEF Notices
      <4>2. (\E y \in onMessage : y[1] = d) => (\E y \in onMessage' : y[1] = d)
        BY <3>2 DEF LessNotices
      <4>3. client'[d] = client[d] /\ inv'[d] = inv[d] /\ Streams'[d] = Streams[d]
        BY <1>2, <3>2
      <4>4. Notified(pool, d, client[d], inv[d], onMessage', Streams[d])
        BY <4>1, <4>2 DEF Notified
      <4> QED BY <4>3, <4>4
    <3> QED BY <3>1, <3>2
  <2>2. \A y \in onMessage' : y[2] <= pool.mInvalidationId
    BY <1>1 DEF Notices, LessNotices
  <2>3. pool.mPendings # {} => pool.registered
    BY <1>1 DEF Notices
  <2> QED BY <1>3, <2>1, <2>2, <2>3 DEF Notices, Notified
<1>8. St' = St
  <2>1. \A d \in Connections : client'[d].state = client[d].state
    BY <1>2 DEF Up
  <2> QED BY <2>1 DEF St
<1>9. Protocol(Streams', tx', pool', Live', St')
    BY <1>2, <1>3, <1>8
<1>10. Un' = Unused(client', Streams', tx', Live')
    BY DEF Un
<1>11. Holdings(client', Streams', pool'.mUsingBuffers, tx', Un', Al')
    BY <1>2, <1>3, <1>10
<1> QED BY <1>1, <1>3, <1>5, <1>6, <1>7, <1>9, <1>11 DEF Inv

\* What is unused stays so.
LEMMA UnusedMore ==
    ASSUME NEW C, NEW S, NEW x, NEW live, NEW C2, NEW S2, NEW x2,
           \A d \in Connections, b \in Unused(C, S, x, live) : C2[d].refs[b] = C[d].refs[b],
           \A t \in Transactions : Interest(S2, x2, live, t) =>
                (Interest(S, x, live, t) /\ x2[t].b = x[t].b) \/ x2[t].b \notin Unused(C, S, x, live)
    PROVE  Unused(C, S, x, live) \subseteq Unused(C2, S2, x2, live)
BY DEF Unused

\* syncReleased() says nothing about transfers, nor about what is held.
Unsaid(c, q) ==
    /\ StreamsWith(c, q) \in AllStreams /\ StreamsWith(c, q)[c] = Stream(q)
    /\ \A d \in Connections : d # c => StreamsWith(c, q)[d] = Streams[d]
    /\ Protocol(StreamsWith(c, q), tx, pool, Live, St)
    /\ Quiet(c, Streams[c], Stream(q))
    /\ \A d \in Connections : \A t : HasResult(StreamsWith(c, q)[d], t) <=> HasResult(Streams[d], t)
    /\ Cache(q.cl, OfLocal(c, Un))
    /\ q \in Objects /\ q.inv = <<>> /\ Room(q) >= 0 /\ SameHeld(client[c], q.cl)
    /\ NoRepeat(q.cl.mReleasingIds) /\ ReleasingSet(q.cl) \subseteq ReleasingSet(client[c])
    /\ q.cl.mReleasedIds = {}

\* So the protocol and the cache stay right.
LEMMA SyncSaid ==
    ASSUME Inv, NEW c \in Connections, Up(c), NEW id \in Nat, id <= pool.mInvalidationId,
           NEW q, Synced(Own(c), q, id)
    PROVE  Unsaid(c, q) /\ \A om : Notified(pool, c, q.cl, q.inv, om, Stream(q))
<1>1. /\ Own(c) \in Objects /\ Room(Own(c)) >= 0 /\ Own(c).cl = client[c] /\ Own(c).cl.state = "up"
      /\ Stream(Own(c)) \in Seq(Messages) /\ Streams[c] = Stream(Own(c))
      /\ Notified(pool, c, Own(c).cl, Own(c).inv, onMessage, Stream(Own(c)))
      /\ Cache(Own(c).cl, OfLocal(c, Un)) /\ Protocol(Streams, tx, pool, Live, St)
    BY UpFacts
<1>2. Streams \in AllStreams /\ tx \in AllTransfers /\ pool \in Pools
    BY BasicsHold DEF Basics
<1>3. ASSUME NEW om PROVE Notified(pool, c, q.cl, q.inv, om, Stream(q)) /\ Stream(q) \in Seq(Messages)
    BY <1>1, <1>2, NotifiedSync
<1>4. /\ q \in Objects /\ Room(q) >= 0 /\ q.inv = <<>> /\ SameHeld(client[c], q.cl)
      /\ Stream(q) = Stream(Own(c)) \/ Stream(q) = Append(Stream(Own(c)), AckOf(q))
      /\ Cache(q.cl, OfLocal(c, Un)) /\ ReleasingSet(q.cl) \subseteq ReleasingSet(client[c])
      /\ q.cl.mReleasedIds = {}
    BY <1>1 DEF Synced, Valid
<1>5. NoRepeat(q.cl.mReleasingIds)
    BY <1>4 DEF Cache
<1>6. AckOf(q) \in Messages /\ AckOf(q).newStatus = "INVALIDATION_ACK"
  <2>1. q.cl.mInvalidateId \in Nat
    BY <1>4 DEF Objects, Clients
  <2> QED BY <2>1 DEF AckOf, Message, Messages, Statuses
<1> DEFINE S2 == StreamsWith(c, q)
<1>7. S2[c] = Stream(q) /\ \A d \in Connections : d # c => S2[d] = Streams[d]
    BY <1>2 DEF StreamsWith, AllStreams
<1>8. CASE Stream(q) = Stream(Own(c))
  <2>1. S2 = Streams
    BY <1>1, <1>2, <1>8 DEF StreamsWith, AllStreams
  <2>2. Quiet(c, Streams[c], Stream(q))
    BY <1>1, <1>8, QuietSame
  <2> QED BY <1>1, <1>2, <1>3, <1>4, <1>5, <1>7, <2>1, <2>2 DEF Unsaid
<1>9. CASE Stream(q) = Append(Stream(Own(c)), AckOf(q))
  <2> DEFINE m == AckOf(q)
  <2>1. S2 = [Streams EXCEPT ![c] = Append(Streams[c], m)] /\ m \in Messages /\ m.newStatus = "INVALIDATION_ACK"
    BY <1>1, <1>6, <1>9 DEF StreamsWith
  <2>2. Quiet(c, Streams[c], Stream(q))
    BY <1>1, <1>6, <1>9, QuietAppend
  <2> HIDE DEF m, S2
  <2>3. m.newStatus \in Neutral /\ m.newStatus # "NOT_USED"
    BY <2>1 DEF Neutral
  <2>4. Protocol(S2, tx, pool, Live, St)
    BY <1>1, <1>2, <2>1, <2>3, PostNeutral
  <2>5. Posted(Streams, S2, c, m)
    BY <1>2, <2>1, PostStream
  <2>6. \A t : ~IsResult(m, t)
    BY <2>1 DEF IsResult, Results
  <2>7. S2 \in AllStreams /\ \A d \in Connections : \A t : HasResult(S2[d], t) <=> HasResult(Streams[d], t)
    BY <2>5, <2>6 DEF Posted
  <2> QED BY <1>3, <1>4, <1>5, <1>7, <2>2, <2>4, <2>7 DEF Unsaid, S2
<1> QED BY <1>4, <1>8, <1>9

\* The steps in which a client does no more than that.
LEMMA SyncStep ==
    ASSUME Inv, NEW c \in Connections, Up(c), NEW id \in Nat, id <= pool.mInvalidationId,
           NEW q, Synced(Own(c), q, id), NEW z, Valid(Own(c), z), z.inv = q.inv, Stream(z) = Stream(q),
           NEW l \in BOOLEAN, z.cl = [q.cl EXCEPT !.locked = l],
           Step(c, z), UNCHANGED poolVars, UNCHANGED tx, UNCHANGED alloc, MoreCalls, LessNotices(c)
    PROVE  Inv'
<1>1. Unsaid(c, q) /\ Notified(pool, c, q.cl, q.inv, onMessage', Stream(q))
    BY SyncSaid
<1>2. /\ client' = ClientsWith(c, z) /\ Streams' = StreamsWith(c, z) /\ client'[c] = z.cl
      /\ \A d \in Connections : d # c => client'[d] = client[d] /\ Streams'[d] = Streams[d]
      /\ Streams'[c] = Stream(z) /\ Streams' \in AllStreams /\ Live' = Live
    BY StepParts
<1>3. Streams' = StreamsWith(c, q)
    BY <1>2 DEF StreamsWith
<1>4. /\ z.cl.state = q.cl.state /\ z.cl.refs = q.cl.refs /\ z.cl.dying = q.cl.dying
      /\ z.cl.mInvalidateId = q.cl.mInvalidateId /\ z.cl.mBuffers = q.cl.mBuffers
      /\ z.cl.hasCache = q.cl.hasCache /\ z.cl.mReleasingIds = q.cl.mReleasingIds
      /\ z.cl.mReleasedIds = q.cl.mReleasedIds
  <2>1. q.cl \in Clients
    BY <1>1 DEF Unsaid, Objects
  <2> QED BY <2>1 DEF Clients
<1>5. Cache(z.cl, OfLocal(c, Un))
  <2>1. Cache(q.cl, OfLocal(c, Un))
    BY <1>1 DEF Unsaid
  <2>2. ReleasingSet(z.cl) = ReleasingSet(q.cl)
    BY <1>4 DEF ReleasingSet
  <2> QED BY <1>4, <2>1, <2>2 DEF Cache
<1>6. SameHeld(client[c], q.cl) /\ client[c].state = "up"
    BY <1>1 DEF Unsaid, Up
<1>7. z.cl.state = "up" /\ z.cl.refs = client[c].refs /\ z.cl.dying = client[c].dying
    BY <1>4, <1>6 DEF SameHeld
<1>8. Notified(pool, c, z.cl, z.inv, onMessage', Stream(z))
    BY <1>1, <1>4, NotifiedSame
<1>9. tx' = tx /\ Al' = Al
    BY DEF Al
<1> DEFINE un2 == Unused(client', Streams', tx, Live)
<1>10. Un \subseteq un2
  <2>1. \A d \in Connections : client'[d].refs = client[d].refs
    BY <1>2, <1>7
  <2>2. tx \in AllTransfers
    BY BasicsHold DEF Basics
  <2>3. \A t \in Transactions : tx[t].to \in Connections
    BY <2>2 DEF AllTransfers, TransferStates
  <2>4. \A d \in Connections : \A t : HasResult(Streams'[d], t) <=> HasResult(Streams[d], t)
    BY <1>1, <1>3 DEF Unsaid
  <2>5. \A t \in Transactions : Interest(Streams', tx, Live, t) => Interest(Streams, tx, Live, t)
    BY <2>3, <2>4 DEF Interest, Unfinished
  <2> QED BY <2>1, <2>5, UnusedMore DEF Un
<1> HIDE DEF un2
<1>11. Others(client, Streams, tx, Un, client', Streams', tx, un2, c)
    BY <1>2, <1>10 DEF Others
<1>12. Holdings(client, Streams, pool.mUsingBuffers, tx, Un, Al)
    BY DEF Inv
<1>13. Quiet(c, Streams[c], Streams'[c])
    BY <1>1, <1>2 DEF Unsaid
<1>14. SameRefs(client[c], client'[c]) /\ Cache(client'[c], OfLocal(c, Un))
    BY <1>2, <1>5, <1>6, <1>7 DEF SameRefs
<1>15. Holdings(client', Streams', pool.mUsingBuffers, tx, un2, Al)
    BY <1>10, <1>11, <1>12, <1>13, <1>14, QuietStep
<1>16. AllocSteps /\ tx \in AllTransfers
    BY BasicsHold DEF AllocSteps, Inv, TypeOK, Basics
<1>17. Protocol(Streams', tx, pool, Live, St)
    BY <1>1, <1>3 DEF Unsaid
<1> QED BY <1>7, <1>8, <1>9, <1>15, <1>16, <1>17, ClientStep DEF un2

\* A client with the lock as it was.
LEMMA SameLocked ==
    ASSUME NEW k \in Clients
    PROVE  k.locked \in BOOLEAN /\ k = [k EXCEPT !.locked = k.locked]
BY DEF Clients

\* A step that is syncReleased() and nothing else.
LEMMA SyncOnly ==
    ASSUME Inv, NEW c \in Connections, Up(c), NEW id \in Nat, id <= pool.mInvalidationId,
           NEW q, Synced(Own(c), q, id), Step(c, q),
           UNCHANGED poolVars, UNCHANGED tx, UNCHANGED alloc, MoreCalls, LessNotices(c)
    PROVE  Inv'
<1>1. Valid(Own(c), q) /\ q.cl \in Clients
    BY DEF Synced, Valid, Objects
<1>2. q.cl.locked \in BOOLEAN /\ q.cl = [q.cl EXCEPT !.locked = q.cl.locked]
    BY <1>1, SameLocked
<1> QED BY <1>1, <1>2, SyncStep

\* The calls that follow evictCaches() are of cleanUp().
LEMMA TrailingCalls ==
    ASSUME NEW c, NEW z
    PROVE  \A k \in Trailing(c, z) : k \in Calls /\ CallOK(k) /\ k.fn = "cleanUp"
BY DEF Trailing, Calls, Call, CallOK

\* isActive() preserves the invariant.
LEMMA IsActiveStep ==
    ASSUME Inv, NEW c \in Connections, NEW expired, IsActive(c, expired)
    PROVE  Inv'
<1> DEFINE q == EvictCaches(SyncReleased(Own(c), 0), expired)
<1>1. Up(c) /\ Step(c, q) /\ UNCHANGED poolVars /\ UNCHANGED <<onMessage, tx, alloc>>
    BY DEF IsActive, CacheFree
<1>2. Own(c) \in Objects /\ Room(Own(c)) >= 0 /\ NoRepeat(Own(c).cl.mReleasingIds)
    BY <1>1, UpFacts
<1>3. Synced(Own(c), q, 0)
    BY <1>2, EvictFields
<1>4. MoreCalls /\ LessNotices(c)
  <2>1. calls' = calls \cup IF c = Local THEN {Call("cleanUp", 0)} ELSE {}
    BY DEF IsActive
  <2>2. calls \subseteq Calls
    BY DEF Inv, TypeOK
  <2> QED BY <1>1, <2>1, <2>2 DEF MoreCalls, LessNotices, Calls, Call, CallOK
<1>5. 0 \in Nat /\ 0 <= pool.mInvalidationId
    BY BasicsHold DEF Basics, Pools
<1> HIDE DEF q
<1> QED BY <1>1, <1>3, <1>4, <1>5, SyncOnly

\* receiveInvalidation() preserves the invariant.
LEMMA ReceiveInvalidationStep ==
    ASSUME Inv, NEW c \in Connections, NEW id, ReceiveInvalidation(c, id)
    PROVE  Inv'
<1> DEFINE q == SyncReleased(Own(c), id)
<1>1. Up(c) /\ <<c, id>> \in onMessage /\ Step(c, q) /\ UNCHANGED poolVars /\ UNCHANGED <<calls, tx, alloc>>
    BY DEF ReceiveInvalidation, CacheFree
<1>2. Own(c) \in Objects /\ Room(Own(c)) >= 0 /\ NoRepeat(Own(c).cl.mReleasingIds)
    BY <1>1, UpFacts
<1>3. onMessage \in SUBSET (Connections \X Nat) /\ (\A y \in onMessage : y[2] <= pool.mInvalidationId)
    BY DEF Inv, TypeOK, Notices
<1>4. id \in Nat /\ id <= pool.mInvalidationId
    BY <1>1, <1>3
<1>5. Synced(Own(c), q, id)
    BY <1>2, <1>4, SyncFields
<1>6. MoreCalls /\ LessNotices(c)
  <2>1. onMessage' = onMessage \ {<<c, id>>}
    BY DEF ReceiveInvalidation
  <2>2. calls \subseteq Calls
    BY DEF Inv, TypeOK
  <2> QED BY <1>1, <2>1, <2>2 DEF MoreCalls, LessNotices
<1> HIDE DEF q
<1> QED BY <1>1, <1>4, <1>5, <1>6, SyncOnly

\* A client asks for flush().
LEMMA FlushCallStep ==
    ASSUME Inv, FlushCall
    PROVE  Inv'
<1>1. PICK expired \in SUBSET client[Local].mBuffers :
        Step(Local, [EvictCaches(SyncReleased(Own(Local), 0), expired) EXCEPT !.cl.locked = TRUE])
    BY DEF FlushCall
<1> DEFINE q == EvictCaches(SyncReleased(Own(Local), 0), expired)
           z == [q EXCEPT !.cl.locked = TRUE]
           k == [q.cl EXCEPT !.locked = TRUE]
<1>2. Up(Local) /\ Step(Local, z) /\ UNCHANGED poolVars /\ UNCHANGED <<onMessage, tx, alloc>>
      /\ Local \in Connections
    BY <1>1, ConnectionsAssumption DEF FlushCall, CacheFree
<1>3. Own(Local) \in Objects /\ Room(Own(Local)) >= 0 /\ NoRepeat(Own(Local).cl.mReleasingIds)
    BY <1>2, UpFacts
<1>4. Synced(Own(Local), q, 0)
    BY <1>3, EvictFields
<1>5. MoreCalls /\ LessNotices(Local)
  <2>1. calls' = calls \cup {Call("flush", 0)}
    BY DEF FlushCall
  <2>2. calls \subseteq Calls
    BY DEF Inv, TypeOK
  <2> QED BY <1>2, <2>1, <2>2 DEF MoreCalls, LessNotices, Calls, Call, CallOK
<1>6. 0 \in Nat /\ 0 <= pool.mInvalidationId
    BY BasicsHold DEF Basics, Pools
<1> HIDE DEF q
<1>7. Valid(Own(Local), q) /\ q \in Objects /\ q.cl \in Clients
    BY <1>4 DEF Synced, Valid, Objects
<1>8. k \in Clients /\ k.mReleasingIds = q.cl.mReleasingIds
    BY <1>7 DEF Clients
<1>9. z = [q EXCEPT !.cl = k]
    BY <1>7 DEF Objects
<1> HIDE DEF k, z
<1>10. /\ z \in Objects /\ z.cl = k /\ z.mail = q.mail /\ z.taken = q.taken /\ z.inv = q.inv
    BY <1>7, <1>8, <1>9 DEF Objects
<1>11. Valid(Own(Local), z) /\ Stream(z) = Stream(q)
    BY <1>7, <1>8, <1>10 DEF Valid, Room, Stream
<1>12. z.cl = [q.cl EXCEPT !.locked = TRUE]
    BY <1>10 DEF k
<1> QED BY <1>2, <1>4, <1>5, <1>6, <1>10, <1>11, <1>12, SyncStep

\* What is unused stays so when no reference comes and no transfer begins.
LEMMA UnusedSame ==
    ASSUME NEW C, NEW S, NEW x \in AllTransfers, NEW live, NEW C2, NEW S2,
           \A d \in Connections, b \in BufferIds : C[d].refs[b] = 0 => C2[d].refs[b] = 0,
           \A d \in Connections : \A t : HasResult(S2[d], t) => HasResult(S[d], t)
    PROVE  Unused(C, S, x, live) \subseteq Unused(C2, S2, x, live)
<1>1. \A t \in Transactions : x[t].to \in Connections
    BY DEF AllTransfers, TransferStates
<1>2. \A t \in Transactions : Interest(S2, x, live, t) => Interest(S, x, live, t)
    BY <1>1 DEF Interest, Unfinished
<1> QED BY <1>2 DEF Unused

\* The application drops a reference.
LEMMA DropStep ==
    ASSUME Inv, NEW c \in Connections, NEW b \in BufferIds, Drop(c, b)
    PROVE  Inv'
<1> DEFINE z == LoseRef(Own(c), b)
           U == pool.mUsingBuffers
<1>1. /\ Up(c) /\ Step(c, z) /\ UNCHANGED poolVars /\ UNCHANGED <<calls, onMessage, tx, alloc>>
      /\ client[c].refs[b] > Cardinality(Got(tx, c, b))
    BY DEF Drop, InReceive, Got
<1>2. /\ Own(c) \in Objects /\ Room(Own(c)) >= 0 /\ Own(c).cl = client[c] /\ Own(c).cl.state = "up"
      /\ Streams[c] = Stream(Own(c))
      /\ Notified(pool, c, Own(c).cl, Own(c).inv, onMessage, Stream(Own(c)))
      /\ Cache(Own(c).cl, OfLocal(c, Un)) /\ client[c].refs \in [BufferIds -> Int]
      /\ Protocol(Streams, tx, pool, Live, St) /\ Holdings(client, Streams, U, tx, Un, Al)
    BY <1>1, UpFacts
<1>3. Cardinality(Got(tx, c, b)) \in Nat
    BY GotCount
<1>4. client[c].refs[b] > 0 /\ client[c].refs[b] \in Int
    BY <1>1, <1>2, <1>3
<1>5. /\ SameQueue(Own(c), z)
      /\ z.cl.refs = [client[c].refs EXCEPT ![b] = client[c].refs[b] - 1]
      /\ z.cl.dying = client[c].dying \cup IF client[c].refs[b] = 1 THEN {b} ELSE {}
      /\ Cache(z.cl, OfLocal(c, Un))
    BY <1>2, <1>4, LoseFields
<1> HIDE DEF z
<1>6. /\ Valid(Own(c), z) /\ z.inv = Own(c).inv /\ Stream(z) = Stream(Own(c))
      /\ z.cl.state = "up" /\ z.cl.mInvalidateId = Own(c).cl.mInvalidateId
    BY <1>2, <1>5 DEF SameQueue
<1>7. /\ client'[c] = z.cl /\ Streams'[c] = Stream(z) /\ Live' = Live
      /\ \A d \in Connections : d # c => client'[d] = client[d] /\ Streams'[d] = Streams[d]
    BY <1>1, <1>6, StepParts
<1>8. Streams' = Streams
    BY <1>2, <1>6, <1>7 DEF Streams
<1>9. tx' = tx /\ Al' = Al /\ tx \in AllTransfers
    BY <1>1, BasicsHold DEF Al, Basics
<1> DEFINE un2 == Unused(client', Streams', tx, Live)
<1>10. Un \subseteq un2
  <2>1. ASSUME NEW d \in Connections, NEW e \in Un PROVE client'[d].refs[e] = client[d].refs[e]
    <3>1. e \in BufferIds /\ client[c].refs[e] = 0
      BY DEF Un, Unused
    <3>2. e # b
      BY <1>4, <3>1
    <3> QED BY <1>2, <1>5, <1>7, <3>1, <3>2
  <2>2. \A d \in Connections, e \in Unused(client, Streams, tx, Live) : client'[d].refs[e] = client[d].refs[e]
    BY <2>1 DEF Un
  <2> QED BY <1>8, <2>2, UnusedMore DEF Un
<1> HIDE DEF un2
<1>11. Others(client, Streams, tx, Un, client', Streams', tx, un2, c)
    BY <1>7, <1>10 DEF Others
<1>12. b \notin Al
  <2>1. \A e \in Al : e \in Un
    BY <1>2 DEF Holdings, Fresh
  <2> QED BY <1>4, <2>1 DEF Un, Unused
<1>13. Holds(U, c, Streams[c], b)
    BY <1>1, <1>2 DEF Holdings, Holding
<1>14. Cardinality(Got(tx, c, b)) <= client[c].refs[b] - 1
    BY <1>1, <1>3, <1>4
<1>15. Holdings(client', Streams', U, tx, un2, Al)
  <2>1. /\ client'[c].refs = [client[c].refs EXCEPT ![b] = client[c].refs[b] - 1]
        /\ client'[c].dying = client[c].dying \cup IF client[c].refs[b] = 1 THEN {b} ELSE {}
        /\ Cache(client'[c], OfLocal(c, Un)) /\ client'[c].state = client[c].state
    BY <1>1, <1>5, <1>6, <1>7 DEF Up
  <2> QED BY <1>1, <1>2, <1>4, <1>8, <1>10, <1>11, <1>12, <1>13, <1>14, <2>1, LoseStep
<1>16. Notified(pool, c, z.cl, z.inv, onMessage', Stream(z))
    BY <1>1, <1>2, <1>6, NotifiedSame
<1>17. MoreCalls /\ LessNotices(c) /\ AllocSteps
    BY <1>1 DEF MoreCalls, LessNotices, AllocSteps, Inv, TypeOK
<1>18. Protocol(Streams', tx, pool, Live, St)
    BY <1>2, <1>8
<1> QED BY <1>1, <1>6, <1>9, <1>15, <1>16, <1>17, <1>18, ClientStep DEF un2

\* A client that says that it releases b.
LEMMA ReleaseSaid ==
    ASSUME Inv, NEW c \in Connections, Up(c), NEW b \in BufferIds, client[c].refs[b] = 0,
           NEW z, Valid(Own(c), z), z.inv = Own(c).inv, z.cl.state = "up",
           z.cl.mInvalidateId = client[c].mInvalidateId,
           Stream(z) = Append(Stream(Own(c)), Message("NOT_USED", b, 0, 0)), Cache(z.cl, OfLocal(c, Un)),
           z.cl.refs = client[c].refs, z.cl.dying = client[c].dying \ {b},
           Step(c, z), UNCHANGED poolVars, UNCHANGED <<calls, onMessage, tx>>, AllocSteps,
           c # Local => Al' = Al, c = Local => Al' = Al \ {b},
           c = Local => Holds(pool.mUsingBuffers, c, Streams[c], b) \/ Abandoned(tx, Local, b)
    PROVE  Inv'
<1> DEFINE U == pool.mUsingBuffers
           m == Message("NOT_USED", b, 0, 0)
<1>1. m \in Messages /\ m.newStatus = "NOT_USED" /\ m.bufferId = b
    BY DEF Message, Messages, Statuses, BufferIds
<1>2. /\ Own(c) \in Objects /\ Own(c).cl = client[c] /\ Streams[c] = Stream(Own(c))
      /\ Stream(Own(c)) \in Seq(Messages)
      /\ Notified(pool, c, Own(c).cl, Own(c).inv, onMessage, Stream(Own(c)))
      /\ Protocol(Streams, tx, pool, Live, St) /\ Holdings(client, Streams, U, tx, Un, Al)
    BY UpFacts
<1>3. Streams \in AllStreams /\ tx \in AllTransfers
    BY BasicsHold DEF Basics
<1>4. /\ client'[c] = z.cl /\ Streams'[c] = Stream(z) /\ Live' = Live /\ Streams' = StreamsWith(c, z)
      /\ \A d \in Connections : d # c => client'[d] = client[d] /\ Streams'[d] = Streams[d]
    BY StepParts
<1>5. Streams' = [Streams EXCEPT ![c] = Append(Streams[c], m)]
    BY <1>2, <1>4 DEF StreamsWith
<1> HIDE DEF m
<1>6. m.newStatus \in Neutral
    BY <1>1 DEF Neutral
<1>7. Protocol(Streams', tx, pool, Live, St)
    BY <1>1, <1>2, <1>3, <1>5, <1>6, PostNeutral
<1>8. Posted(Streams, Streams', c, m)
    BY <1>1, <1>3, <1>5, PostStream
<1>9. \A t : ~IsResult(m, t)
    BY <1>6, NeutralMessage
<1>10. \A d \in Connections : \A t : HasResult(Streams'[d], t) => HasResult(Streams[d], t)
    BY <1>8, <1>9 DEF Posted
<1> DEFINE un2 == Unused(client', Streams', tx, Live)
<1>11. Un \subseteq un2
  <2>1. \A d \in Connections : client'[d].refs = client[d].refs
    BY <1>4
  <2> QED BY <1>3, <1>10, <2>1, UnusedSame DEF Un
<1> HIDE DEF un2
<1>12. Others(client, Streams, tx, Un, client', Streams', tx, un2, c)
    BY <1>4, <1>11 DEF Others
<1>13. /\ client'[c].refs = client[c].refs /\ client'[c].dying = client[c].dying \ {b}
       /\ client'[c].state = client[c].state /\ Cache(client'[c], OfLocal(c, Un))
       /\ Streams'[c] = Append(Streams[c], m)
    BY <1>2, <1>4 DEF Up, m
<1>14. Holdings(client', Streams', U, tx, un2, Al')
  <2>1. PICK al2 : al2 = Al'
    OBVIOUS
  <2>2. PICK C2, S2 : C2 = client' /\ S2 = Streams'
    OBVIOUS
  <2>3. /\ Holdings(client, Streams, U, tx, Un, Al) /\ Others(client, Streams, tx, Un, C2, S2, tx, un2, c)
        /\ Un \subseteq un2 /\ Streams[c] \in Seq(Messages) /\ Cache(C2[c], OfLocal(c, Un))
        /\ client[c].refs[b] = 0 /\ C2[c].refs = client[c].refs
        /\ C2[c].dying = client[c].dying \ {b} /\ C2[c].state = client[c].state
        /\ S2[c] = Append(Streams[c], m)
    BY <1>2, <1>11, <1>12, <1>13, <2>2
  <2>4. /\ c # Local => al2 = Al
        /\ c = Local => al2 = Al \ {b}
        /\ c = Local => Holds(U, c, Streams[c], b) \/ Abandoned(tx, Local, b)
    BY <2>1
  <2>5. Holdings(C2, S2, U, tx, un2, al2)
    BY <1>1, <2>3, <2>4, ReleaseStep
  <2> QED BY <2>1, <2>2, <2>5
<1>15. Notified(pool, c, z.cl, z.inv, onMessage', Stream(z))
  <2>1. m.newStatus # "INVALIDATION_ACK"
    BY <1>1
  <2>2. Notified(pool, c, Own(c).cl, Own(c).inv, onMessage, Append(Stream(Own(c)), m))
    BY <1>1, <1>2, <2>1, NotifiedAppend
  <2>3. z.cl.state = Own(c).cl.state /\ z.cl.mInvalidateId = Own(c).cl.mInvalidateId
    BY <1>2 DEF Up
  <2> QED BY <2>2, <2>3, NotifiedSame DEF m
<1>16. MoreCalls /\ LessNotices(c)
    BY DEF MoreCalls, LessNotices, Inv, TypeOK
<1> QED BY <1>3, <1>7, <1>14, <1>15, <1>16, ClientStep DEF un2

\* The deleter of a BufferPoolData posts the release.
LEMMA DeleterStep ==
    ASSUME Inv, NEW c \in Connections, NEW b \in BufferIds, Deleter(c, b)
    PROVE  Inv'
<1> DEFINE y == [Own(c) EXCEPT !.cl.dying = @ \ {b}]
           k == [client[c] EXCEPT !.dying = client[c].dying \ {b}]
           z == PostRelease(y, b)
<1>1. /\ Up(c) /\ Step(c, z) /\ UNCHANGED poolVars /\ UNCHANGED <<calls, onMessage, tx, alloc>>
      /\ b \in client[c].dying
    BY DEF Deleter
<1>2. /\ Own(c) \in Objects /\ Room(Own(c)) >= 0 /\ Own(c).cl = client[c] /\ Own(c).cl.state = "up"
      /\ NoRepeat(Own(c).cl.mReleasingIds)
      /\ Cache(Own(c).cl, OfLocal(c, Un)) /\ Holdings(client, Streams, pool.mUsingBuffers, tx, Un, Al)
    BY <1>1, UpFacts
<1>3. client[c] \in Clients
    BY <1>2 DEF Objects
<1>4. /\ k \in Clients /\ k.mReleasingIds = client[c].mReleasingIds /\ k.mReleasedIds = client[c].mReleasedIds
      /\ k.state = client[c].state /\ k.locked = client[c].locked /\ k.mInvalidateId = client[c].mInvalidateId
      /\ k.refs = client[c].refs /\ k.dying = client[c].dying \ {b} /\ k.hasCache = client[c].hasCache
      /\ k.mBuffers = client[c].mBuffers
    BY <1>3 DEF Clients
<1>5. y = [Own(c) EXCEPT !.cl = k]
    BY <1>2, <1>3 DEF Objects, Clients
<1> HIDE DEF k, y
<1>6. SameQueue(Own(c), y) /\ y.cl = k
    BY <1>2, <1>4, <1>5, ChangeClient
<1>7. /\ y \in Objects /\ Room(y) >= 0 /\ y.taken = Own(c).taken /\ Len(y.mail) = Len(Own(c).mail)
      /\ y.inv = Own(c).inv /\ Stream(y) = Stream(Own(c))
    BY <1>6 DEF SameQueue, Valid
<1>8. /\ b \in client[c].hasCache /\ client[c].refs[b] = 0 /\ b \notin ReleasingSet(client[c])
      /\ b \notin client[c].mReleasedIds
    BY <1>1, <1>2 DEF Cache
<1>9. ReleasingSet(k) = ReleasingSet(client[c])
    BY <1>4 DEF ReleasingSet
<1>10. Cache(k, OfLocal(c, Un))
    BY <1>2, <1>4, <1>9 DEF Cache
<1>11. Deleted(y, z, b)
    BY <1>2, <1>4, <1>6, <1>7, <1>8, <1>9, PostReleaseFields
<1> HIDE DEF z
<1>12. /\ Valid(y, z) /\ z.inv = y.inv /\ SameRest(k, z.cl)
       /\ Stream(z) = Append(Stream(Own(c)), Message("NOT_USED", b, 0, 0)) /\ Cache(z.cl, OfLocal(c, Un))
    BY <1>4, <1>6, <1>7, <1>8, <1>10, <1>11 DEF Deleted
<1>13. /\ z.cl.refs = client[c].refs /\ z.cl.dying = client[c].dying \ {b} /\ z.cl.state = "up"
       /\ z.cl.mInvalidateId = client[c].mInvalidateId
    BY <1>2, <1>4, <1>12 DEF SameRest, SameHeld
<1>14. Valid(Own(c), z) /\ z.inv = Own(c).inv
    BY <1>7, <1>12 DEF Valid
<1>15. Al' = Al /\ AllocSteps
    BY <1>1 DEF Al, AllocSteps, Inv, TypeOK
<1>16. c = Local => Al \ {b} = Al /\ (Holds(pool.mUsingBuffers, c, Streams[c], b) \/ Abandoned(tx, Local, b))
    BY <1>1, <1>2 DEF Holdings, Fresh, Honest
<1> QED BY <1>1, <1>8, <1>12, <1>13, <1>14, <1>15, <1>16, ReleaseSaid

\* A step in which a client gets and loses no reference.
LEMMA TalkStep ==
    ASSUME Inv, NEW c \in Connections, Up(c), NEW z, Valid(Own(c), z), z.cl.state = "up",
           z.cl.refs = client[c].refs, z.cl.dying = client[c].dying, Cache(z.cl, OfLocal(c, Un)),
           Quiet(c, Streams[c], Stream(z)), Notified(pool, c, z.cl, z.inv, onMessage, Stream(z)),
           Step(c, z), UNCHANGED poolVars, UNCHANGED <<onMessage, alloc>>, MoreCalls,
           tx' \in AllTransfers, Protocol(Streams', tx', pool, Live, St),
           \A d \in Connections, b \in BufferIds : Got(tx', d, b) = Got(tx, d, b),
           \A b \in BufferIds : Abandoned(tx, Local, b) => Abandoned(tx', Local, b),
           \A t \in Transactions : Interest(Streams', tx', Live, t) =>
                (Interest(Streams, tx, Live, t) /\ tx'[t].b = tx[t].b) \/ tx'[t].b \notin Un
    PROVE  Inv'
<1>1. /\ client'[c] = z.cl /\ Streams'[c] = Stream(z) /\ Live' = Live
      /\ \A d \in Connections : d # c => client'[d] = client[d] /\ Streams'[d] = Streams[d]
    BY StepParts
<1> DEFINE un2 == Unused(client', Streams', tx', Live)
<1>2. Un \subseteq un2
  <2>1. \A d \in Connections : client'[d].refs = client[d].refs
    BY <1>1
  <2> QED BY <2>1, UnusedMore DEF Un
<1> HIDE DEF un2
<1>3. Others(client, Streams, tx, Un, client', Streams', tx', un2, c)
    BY <1>1, <1>2 DEF Others
<1>4. Holdings(client, Streams, pool.mUsingBuffers, tx, Un, Al)
    BY DEF Inv
<1>5. SameRefs(client[c], client'[c]) /\ Cache(client'[c], OfLocal(c, Un)) /\ Quiet(c, Streams[c], Streams'[c])
    BY <1>1 DEF SameRefs, Up
<1>6. Holdings(client', Streams', pool.mUsingBuffers, tx', un2, Al)
  <2>1. PICK C2, S2, x2 : C2 = client' /\ S2 = Streams' /\ x2 = tx'
    OBVIOUS
  <2>2. /\ Others(client, Streams, tx, Un, C2, S2, x2, un2, c)
        /\ SameRefs(client[c], C2[c]) /\ Cache(C2[c], OfLocal(c, Un)) /\ Quiet(c, Streams[c], S2[c])
        /\ \A b \in BufferIds : Got(x2, c, b) = Got(tx, c, b)
    BY <1>3, <1>5, <2>1
  <2>3. Holdings(C2, S2, pool.mUsingBuffers, x2, un2, Al)
    BY <1>2, <1>4, <2>2, QuietStep
  <2> QED BY <2>1, <2>3
<1>7. Al' = Al /\ AllocSteps /\ LessNotices(c)
    BY DEF Al, AllocSteps, LessNotices, Inv, TypeOK
<1>8. Notified(pool, c, z.cl, z.inv, onMessage', Stream(z))
    OBVIOUS
<1> QED BY <1>6, <1>7, <1>8, ClientStep DEF un2

\* A transfer goes to another place, and the rest of it and the others stay.
Places == {"none", "sent", "done", "abandoned"} \cup Receiving

\* Transfer t goes to pc.
Moved(x, x2, t, pc) ==
    /\ x2 \in AllTransfers /\ x2[t].pc = pc /\ x2[t].b = x[t].b /\ x2[t].from = x[t].from /\ x2[t].to = x[t].to
    /\ \A s \in Transactions : s # t => x2[s] = x[s]

\* An assignment to pc is such a move.
LEMMA PcMoved ==
    ASSUME NEW x \in AllTransfers, NEW t \in Transactions, NEW pc \in Places,
           NEW x2, x2 = [x EXCEPT ![t].pc = pc]
    PROVE  Moved(x, x2, t, pc)
<1> DEFINE y == [x[t] EXCEPT !.pc = pc]
<1>1. x[t] \in TransferStates
    BY DEF AllTransfers
<1>2. y \in TransferStates /\ y.pc = pc /\ y.b = x[t].b /\ y.from = x[t].from /\ y.to = x[t].to
    BY <1>1 DEF TransferStates, Places
<1>3. x2 = [x EXCEPT ![t] = y]
    OBVIOUS
<1> HIDE DEF y
<1>4. x2 \in AllTransfers /\ x2[t] = y /\ \A s \in Transactions : s # t => x2[s] = x[s]
    BY <1>2, <1>3 DEF AllTransfers
<1> QED BY <1>2, <1>4 DEF Moved

\* The transfers that receive() has got stay the same,
LEMMA MovedGot ==
    ASSUME NEW x, NEW x2, NEW t, NEW pc, Moved(x, x2, t, pc), x[t].pc # "got", pc # "got"
    PROVE  \A d, b : Got(x2, d, b) = Got(x, d, b)
BY DEF Moved, Got

\* and those that were given up.
LEMMA MovedAbandoned ==
    ASSUME NEW x, NEW x2, NEW t, NEW pc, Moved(x, x2, t, pc), x[t].pc # "abandoned"
    PROVE  \A b : Abandoned(x, Local, b) => Abandoned(x2, Local, b)
BY DEF Moved, Abandoned

\* A step in which the object of c stays the same.
LEMMA Unstepped ==
    ASSUME TypeOK, NEW c \in Connections, UNCHANGED <<client, mail, inv>>
    PROVE  Step(c, Own(c))
<1>1. /\ client' = client /\ mail' = mail /\ inv' = inv
      /\ client \in [Connections -> Clients] /\ mail \in [Connections -> Seq(Messages)]
      /\ inv \in [Connections -> Seq(Invalidations)]
    BY DEF TypeOK
<1>2. Own(c).cl = client[c] /\ Own(c).mail = mail[c] /\ Own(c).inv = inv[c]
    BY DEF Own
<1> QED BY <1>1, <1>2 DEF Step

\* A client posts a message, and nothing else.
LEMMA SayFacts ==
    ASSUME Inv, NEW c \in Connections, Up(c), Fits(Own(c)), NEW m \in Messages,
           m.newStatus # "INVALIDATION_ACK", NEW z, z = PostStatus(Own(c), m), Step(c, z), UNCHANGED poolVars
    PROVE  /\ Valid(Own(c), z) /\ z.inv = Own(c).inv /\ SameRest(client[c], z.cl)
           /\ z.cl.state = "up" /\ z.cl.refs = client[c].refs /\ z.cl.dying = client[c].dying
           /\ Cache(z.cl, OfLocal(c, Un))
           /\ Notified(pool, c, z.cl, z.inv, onMessage, Stream(z))
           /\ Streams' = [Streams EXCEPT ![c] = Append(Streams[c], m)] /\ Streams' \in AllStreams
           /\ Stream(z) = Append(Streams[c], m) /\ Streams[c] \in Seq(Messages)
           /\ Posted(Streams, Streams', c, m)
<1>1. /\ Own(c) \in Objects /\ Room(Own(c)) >= 0 /\ Own(c).cl = client[c] /\ Own(c).cl.state = "up"
      /\ NoRepeat(Own(c).cl.mReleasingIds)
      /\ Stream(Own(c)) \in Seq(Messages) /\ Streams[c] = Stream(Own(c))
      /\ Notified(pool, c, Own(c).cl, Own(c).inv, onMessage, Stream(Own(c)))
      /\ Cache(Own(c).cl, OfLocal(c, Un))
    BY UpFacts
<1>2. StatusPosted(Own(c), z, m)
    BY <1>1, StatusFields
<1>3. /\ Valid(Own(c), z) /\ z.inv = Own(c).inv /\ SameRest(client[c], z.cl)
      /\ Stream(z) = Append(Streams[c], m) /\ Cache(z.cl, OfLocal(c, Un))
    BY <1>1, <1>2 DEF StatusPosted
<1>4. /\ z.cl.state = "up" /\ z.cl.refs = client[c].refs /\ z.cl.dying = client[c].dying
      /\ z.cl.mInvalidateId = client[c].mInvalidateId
    BY <1>1, <1>3 DEF SameRest, SameHeld
<1>5. Streams' = StreamsWith(c, z) /\ Streams' \in AllStreams
    BY <1>3, StepParts
<1>6. Streams' = [Streams EXCEPT ![c] = Append(Streams[c], m)]
    BY <1>3, <1>5 DEF StreamsWith
<1>7. Streams \in AllStreams
    BY BasicsHold DEF Basics
<1>8. Posted(Streams, Streams', c, m)
    BY <1>6, <1>7, PostStream
<1>9. Notified(pool, c, client[c], z.inv, onMessage, Stream(z))
    BY <1>1, <1>3, NotifiedAppend
<1>10. Notified(pool, c, z.cl, z.inv, onMessage, Stream(z))
    BY <1>1, <1>4, <1>9, NotifiedSame
<1> QED BY <1>1, <1>3, <1>4, <1>5, <1>6, <1>8, <1>10

\* A client gives a transfer up, or goes on with it, and says nothing that matters.
LEMMA GiveUpStep ==
    ASSUME Inv, NEW c \in Connections, Up(c), NEW t \in Transactions, tx[t].to = c,
           NEW pc, \/ tx[t].pc \in {"sent"} \cup (Receiving \ {"got"}) /\ pc = "abandoned"
                   \/ tx[t].pc \in Receiving \ {"got"} /\ pc \in Receiving \ {"got"},
           Moved(tx, tx', t, pc),
           NEW z, Valid(Own(c), z), z.cl.state = "up", z.cl.refs = client[c].refs,
           z.cl.dying = client[c].dying, Cache(z.cl, OfLocal(c, Un)),
           Quiet(c, Streams[c], Stream(z)), Notified(pool, c, z.cl, z.inv, onMessage, Stream(z)),
           Protocol(Streams', tx, pool, Live, St),
           \A d \in Connections : \A s : HasResult(Streams'[d], s) <=> HasResult(Streams[d], s),
           Step(c, z), UNCHANGED poolVars, UNCHANGED <<onMessage, alloc>>, MoreCalls
    PROVE  Inv'
<1>1. tx \in AllTransfers
    BY BasicsHold DEF Basics
<1>2. pc \in Places /\ pc # "got" /\ tx[t].pc # "got" /\ tx[t].pc # "abandoned"
    BY DEF Receiving, Places
<1>3. Moved(tx, tx', t, pc)
    OBVIOUS
<1>4. (\A d, b : Got(tx', d, b) = Got(tx, d, b)) /\ \A b : Abandoned(tx, Local, b) => Abandoned(tx', Local, b)
    BY <1>2, <1>3, MovedGot, MovedAbandoned
<1>8. tx' \in AllTransfers
    BY <1>3 DEF Moved
<1>5. Streams' \in AllStreams
    BY StepParts
<1>6. Protocol(Streams', tx', pool, Live, St)
  <2>1. \A s \in Transactions :
                \/ tx'[s] = tx[s]
                \/ /\ tx'[s].b = tx[s].b /\ tx'[s].from = tx[s].from /\ tx'[s].to = tx[s].to
                   /\ \/ tx[s].pc \in Receiving \cup {"sent"} /\ tx'[s].pc = "abandoned"
                      \/ tx[s].pc \in Receiving /\ tx'[s].pc \in Receiving
    BY <1>3 DEF Moved
  <2> QED BY <1>1, <1>5, <1>8, <2>1, MoveOn
<1>7. ASSUME NEW s \in Transactions, Interest(Streams', tx', Live, s)
      PROVE  Interest(Streams, tx, Live, s) /\ tx'[s].b = tx[s].b
  <2>1. tx[s].to \in Connections
    BY <1>1 DEF AllTransfers, TransferStates
  <2>2. CASE s = t
    BY <1>2, <1>3, <1>7, <2>1, <2>2 DEF Interest, Unfinished, Receiving, Moved
  <2>3. CASE s # t
    BY <1>3, <1>7, <2>1, <2>3 DEF Interest, Unfinished, Moved
  <2> QED BY <2>2, <2>3
<1> QED BY <1>4, <1>6, <1>7, <1>8, TalkStep

\* A client says nothing.
LEMMA SilentFacts ==
    ASSUME Inv, NEW c \in Connections, Up(c), NEW z, z = Own(c), Step(c, z), UNCHANGED poolVars
    PROVE  /\ Valid(Own(c), z) /\ z.cl.state = "up" /\ z.cl.refs = client[c].refs
           /\ z.cl.dying = client[c].dying /\ Cache(z.cl, OfLocal(c, Un))
           /\ Quiet(c, Streams[c], Stream(z)) /\ Notified(pool, c, z.cl, z.inv, onMessage, Stream(z))
           /\ Streams' = Streams /\ Protocol(Streams', tx, pool, Live, St)
<1>1. /\ Own(c) \in Objects /\ Room(Own(c)) >= 0 /\ Own(c).cl = client[c] /\ Own(c).cl.state = "up"
      /\ Stream(Own(c)) \in Seq(Messages) /\ Streams[c] = Stream(Own(c))
      /\ Notified(pool, c, Own(c).cl, Own(c).inv, onMessage, Stream(Own(c)))
      /\ Cache(Own(c).cl, OfLocal(c, Un)) /\ Protocol(Streams, tx, pool, Live, St)
    BY UpFacts
<1>2. Valid(Own(c), Own(c))
    BY <1>1 DEF Valid, Objects
<1>3. Quiet(c, Streams[c], Stream(z))
    BY <1>1, QuietSame
<1>4. Streams' = StreamsWith(c, z)
    BY <1>2, StepParts
<1>5. Streams' = Streams
    BY <1>1, <1>4 DEF StreamsWith, Streams
<1> QED BY <1>1, <1>2, <1>3, <1>5

\* A transfer is given up.
LEMMA AbandonMoved ==
    ASSUME TypeOK, NEW t \in Transactions, tx' = [tx EXCEPT ![t].pc = "abandoned"]
    PROVE  Moved(tx, tx', t, "abandoned")
<1> DEFINE pc == "abandoned"
<1>1. pc \in Places /\ tx' = [tx EXCEPT ![t].pc = pc] /\ tx \in AllTransfers
    BY DEF Places, TypeOK
<1> HIDE DEF pc
<1>2. Moved(tx, tx', t, pc)
    BY <1>1, PcMoved
<1> QED BY <1>2 DEF pc

\* postReceive() preserves the invariant.
LEMMA PostReceiveStep ==
    ASSUME Inv, NEW t \in Transactions, PostReceive(t)
    PROVE  Inv'
<1> DEFINE c == tx[t].to
<1>1. tx \in AllTransfers /\ Streams \in AllStreams
    BY BasicsHold DEF Basics
<1>2. c \in Connections /\ tx[t].b \in BufferIds /\ t \in Nat /\ tx[t].b \in Nat
    BY <1>1, TransactionsAssumption DEF AllTransfers, TransferStates, BufferIds
<1>3. /\ tx[t].pc = "sent" /\ Up(c) /\ UNCHANGED poolVars /\ UNCHANGED <<calls, onMessage, alloc>>
    BY DEF PostReceive
<1>4. MoreCalls
    BY <1>3 DEF MoreCalls, Inv, TypeOK
<1>5. Protocol(Streams, tx, pool, Live, St) /\ St[c] = "up"
    BY <1>2, <1>3 DEF Inv, St, Up
<1>6. CASE /\ Fits(Own(c)) /\ Step(c, PostStatus(Own(c), Message("TRANSFER_FROM", tx[t].b, t, 0)))
           /\ tx' = [tx EXCEPT ![t].pc = "receive"]
  <2> DEFINE m == Message("TRANSFER_FROM", tx[t].b, t, 0)
             z == PostStatus(Own(c), m)
  <2>1. m \in Messages /\ m.newStatus = "TRANSFER_FROM"
    BY <1>2 DEF Message, Messages, Statuses
  <2>2. Step(c, z) /\ Fits(Own(c))
    BY <1>6
  <2> HIDE DEF c
  <2>3. /\ Valid(Own(c), z) /\ z.cl.state = "up" /\ z.cl.refs = client[c].refs /\ z.cl.dying = client[c].dying
        /\ Cache(z.cl, OfLocal(c, Un))
        /\ Notified(pool, c, z.cl, z.inv, onMessage, Stream(z))
        /\ Streams' = [Streams EXCEPT ![c] = Append(Streams[c], m)]
        /\ Stream(z) = Append(Streams[c], m) /\ Streams[c] \in Seq(Messages)
        /\ Posted(Streams, Streams', c, m)
    <3> HIDE DEF m
    <3>1. m.newStatus # "INVALIDATION_ACK"
      BY <2>1
    <3> QED BY <1>2, <1>3, <2>1, <2>2, <3>1, SayFacts
  <2> HIDE DEF z
  <2>4. Moved(tx, tx', t, "receive")
    <3> DEFINE pc == "receive"
    <3>1. pc \in Places /\ tx' = [tx EXCEPT ![t].pc = pc]
      BY <1>6 DEF Places, Receiving
    <3> HIDE DEF pc
    <3>2. Moved(tx, tx', t, pc)
      BY <1>1, <3>1, PcMoved
    <3> QED BY <3>2 DEF pc
  <2>5. (\A d, b : Got(tx', d, b) = Got(tx, d, b)) /\ \A b : Abandoned(tx, Local, b) => Abandoned(tx', Local, b)
    BY <1>3, <2>4, MovedGot, MovedAbandoned
  <2>6. Protocol(Streams', tx', pool, Live, St)
    <3>1. tx'[t].pc = "receive" /\ tx'[t].b = tx[t].b /\ tx'[t].from = tx[t].from /\ tx'[t].to = tx[t].to
      BY <2>4 DEF Moved
    <3>3. tx' \in AllTransfers /\ \A s \in Transactions : s # t => tx'[s] = tx[s]
      BY <2>4 DEF Moved
    <3>2. c = tx[t].to
      BY DEF c
    <3> QED BY <1>1, <1>3, <1>5, <2>3, <3>1, <3>2, <3>3, BeginReceipt
  <2> HIDE DEF m
  <2>7. Quiet(c, Streams[c], Stream(z))
    BY <2>1, <2>3, QuietAppend
  <2>8. ASSUME NEW s \in Transactions, Interest(Streams', tx', Live, s)
        PROVE  Interest(Streams, tx, Live, s) /\ tx'[s].b = tx[s].b
    <3>1. tx[s].to \in Connections /\ ~IsResult(m, s)
      BY <1>1, <2>1 DEF AllTransfers, TransferStates, IsResult, Results
    <3>2. HasResult(Streams'[tx[s].to], s) <=> HasResult(Streams[tx[s].to], s)
      BY <2>3, <3>1 DEF Posted
    <3>3. CASE s = t
      BY <1>3, <2>4, <2>8, <3>3 DEF Interest, Unfinished, Moved
    <3>4. CASE s # t
      BY <2>4, <2>8, <3>2, <3>4 DEF Interest, Unfinished, Moved
    <3> QED BY <3>3, <3>4
  <2>9. tx' \in AllTransfers
    BY <2>4 DEF Moved
  <2> QED BY <1>2, <1>3, <1>4, <2>2, <2>3, <2>5, <2>6, <2>7, <2>8, <2>9, TalkStep
<1>7. CASE /\ Step(c, PostStatus(Own(c), Message("TRANSFER_TIMEOUT", tx[t].b, t, 0))) /\ Fits(Own(c))
           /\ tx' = [tx EXCEPT ![t].pc = "abandoned"]
  <2> DEFINE m == Message("TRANSFER_TIMEOUT", tx[t].b, t, 0)
             z == PostStatus(Own(c), m)
  <2>1. m \in Messages /\ m.newStatus = "TRANSFER_TIMEOUT"
    BY <1>2 DEF Message, Messages, Statuses
  <2>2. Step(c, z) /\ Fits(Own(c))
    BY <1>7
  <2> HIDE DEF c, m
  <2>3. m.newStatus # "INVALIDATION_ACK" /\ m.newStatus \in Neutral /\ m.newStatus # "NOT_USED"
    BY <2>1 DEF Neutral
  <2>4. /\ Valid(Own(c), z) /\ z.cl.state = "up" /\ z.cl.refs = client[c].refs /\ z.cl.dying = client[c].dying
        /\ Cache(z.cl, OfLocal(c, Un))
        /\ Notified(pool, c, z.cl, z.inv, onMessage, Stream(z))
        /\ Streams' = [Streams EXCEPT ![c] = Append(Streams[c], m)]
        /\ Stream(z) = Append(Streams[c], m) /\ Streams[c] \in Seq(Messages)
        /\ Posted(Streams, Streams', c, m)
    BY <1>2, <1>3, <2>1, <2>2, <2>3, SayFacts
  <2> HIDE DEF z
  <2>5. Quiet(c, Streams[c], Stream(z))
    BY <2>1, <2>4, QuietAppend
  <2>6. Protocol(Streams', tx, pool, Live, St)
    BY <1>1, <1>2, <1>5, <2>1, <2>3, <2>4, PostNeutral
  <2>7. \A d \in Connections : \A s : HasResult(Streams'[d], s) <=> HasResult(Streams[d], s)
    <3>1. \A s : ~IsResult(m, s)
      BY <2>3, NeutralMessage
    <3> QED BY <2>4, <3>1 DEF Posted
  <2>8. c = tx[t].to
    BY DEF c
  <2>9. Moved(tx, tx', t, "abandoned")
    BY <1>7, AbandonMoved DEF Inv
  <2> QED BY <1>2, <1>3, <1>4, <2>2, <2>4, <2>5, <2>6, <2>7, <2>8, <2>9, GiveUpStep
<1>8. CASE ~Fits(Own(c)) /\ tx' = [tx EXCEPT ![t].pc = "abandoned"]
  <2>1. Step(c, Own(c))
    <3>1. TypeOK
      BY DEF Inv
    <3>2. \/ Step(c, PostStatus(Own(c), Message("TRANSFER_TIMEOUT", tx[t].b, t, 0)))
          \/ UNCHANGED <<client, mail, inv>>
      BY <1>8 DEF PostReceive
    <3> QED BY <1>2, <1>8, <3>1, <3>2, Unstepped DEF PostStatus
  <2> DEFINE z == Own(c)
  <2> HIDE DEF c
  <2>2. /\ Valid(Own(c), z) /\ z.cl.state = "up" /\ z.cl.refs = client[c].refs
        /\ z.cl.dying = client[c].dying /\ Cache(z.cl, OfLocal(c, Un))
        /\ Quiet(c, Streams[c], Stream(z)) /\ Notified(pool, c, z.cl, z.inv, onMessage, Stream(z))
        /\ Streams' = Streams /\ Protocol(Streams', tx, pool, Live, St)
    BY <1>2, <1>3, <2>1, SilentFacts
  <2>3. c = tx[t].to
    BY DEF c
  <2>4. Moved(tx, tx', t, "abandoned")
    BY <1>8, AbandonMoved DEF Inv
  <2> QED BY <1>2, <1>3, <1>4, <2>1, <2>2, <2>3, <2>4, GiveUpStep
<1> QED BY <1>6, <1>7, <1>8 DEF PostReceive

\* The end of a transfer is said: what that makes of the transfers.
LEMMA EndedFacts ==
    ASSUME Inv, NEW t \in Transactions, tx[t].pc \in {"got", "failed"}, NEW c, c = tx[t].to, Up(c),
           Fits(Own(c)), NEW status \in Results, NEW z,
           z = PostStatus(Own(c), Message(status, tx[t].b, t, 0)), Step(c, z), UNCHANGED poolVars,
           Moved(tx, tx', t, "done")
    PROVE  /\ c \in Connections /\ tx' \in AllTransfers
           /\ Valid(Own(c), z) /\ z.cl.state = "up" /\ z.cl.refs = client[c].refs
           /\ z.cl.dying = client[c].dying /\ Cache(z.cl, OfLocal(c, Un))
           /\ Notified(pool, c, z.cl, z.inv, onMessage, Stream(z))
           /\ Stream(z) = Append(Streams[c], Message(status, tx[t].b, t, 0))
           /\ Streams[c] \in Seq(Messages) /\ Message(status, tx[t].b, t, 0) \in Messages
           /\ Protocol(Streams', tx', pool, Live, St)
           /\ \A s \in Transactions : Interest(Streams', tx', Live, s) =>
                Interest(Streams, tx, Live, s) /\ tx'[s].b = tx[s].b
           /\ \A b \in BufferIds : Abandoned(tx, Local, b) => Abandoned(tx', Local, b)
<1> DEFINE m == Message(status, tx[t].b, t, 0)
<1>1. tx \in AllTransfers /\ Streams \in AllStreams
    BY BasicsHold DEF Basics
<1>2. c \in Connections /\ tx[t].b \in BufferIds /\ t \in Nat /\ tx[t].b \in Nat
    BY <1>1, TransactionsAssumption DEF AllTransfers, TransferStates, BufferIds
<1>3. m \in Messages /\ m.newStatus = status /\ m.transactionId = t
    BY <1>2 DEF Message, Messages, Statuses
<1>4. m.newStatus # "INVALIDATION_ACK"
    BY <1>3 DEF Results
<1> HIDE DEF m
<1>5. /\ Valid(Own(c), z) /\ z.cl.state = "up" /\ z.cl.refs = client[c].refs /\ z.cl.dying = client[c].dying
      /\ Cache(z.cl, OfLocal(c, Un))
      /\ Notified(pool, c, z.cl, z.inv, onMessage, Stream(z))
      /\ Streams' = [Streams EXCEPT ![c] = Append(Streams[c], m)]
      /\ Stream(z) = Append(Streams[c], m) /\ Streams[c] \in Seq(Messages)
      /\ Posted(Streams, Streams', c, m)
  <2>1. z = PostStatus(Own(c), m)
    BY DEF m
  <2> QED BY <1>2, <1>3, <1>4, <2>1, SayFacts
<1>6. /\ tx' \in AllTransfers /\ tx'[t].pc = "done" /\ tx'[t].b = tx[t].b /\ tx'[t].from = tx[t].from
      /\ tx'[t].to = tx[t].to /\ \A s \in Transactions : s # t => tx'[s] = tx[s]
    BY DEF Moved
<1>7. Protocol(Streams', tx', pool, Live, St)
  <2>1. Protocol(Streams, tx, pool, Live, St) /\ tx[t].pc \in Receiving
    BY DEF Inv, Receiving
  <2>2. Streams' = [Streams EXCEPT ![c] = Append(Streams[c], Message(status, tx[t].b, t, 0))]
    BY <1>5 DEF m
  <2> QED BY <1>1, <1>6, <2>1, <2>2, EndReceipt
<1>8. ASSUME NEW s \in Transactions, Interest(Streams', tx', Live, s)
      PROVE  Interest(Streams, tx, Live, s) /\ tx'[s].b = tx[s].b
  <2>1. tx[s].to \in Connections
    BY <1>1 DEF AllTransfers, TransferStates
  <2>2. CASE s = t
    BY <1>6, <1>8, <2>2 DEF Interest, Unfinished
  <2>3. CASE s # t
    <3>1. ~IsResult(m, s)
      BY <1>3, <2>3 DEF IsResult
    <3>2. HasResult(Streams'[tx[s].to], s) <=> HasResult(Streams[tx[s].to], s)
      BY <1>5, <2>1, <3>1 DEF Posted
    <3> QED BY <1>6, <1>8, <2>3, <3>2 DEF Interest, Unfinished
  <2> QED BY <2>2, <2>3
<1>9. \A b : Abandoned(tx, Local, b) => Abandoned(tx', Local, b)
    BY MovedAbandoned
<1> QED BY <1>2, <1>3, <1>5, <1>6, <1>7, <1>8, <1>9 DEF m

\* A transfer is done.
LEMMA DoneMoved ==
    ASSUME TypeOK, NEW t \in Transactions, tx' = [tx EXCEPT ![t].pc = "done"]
    PROVE  Moved(tx, tx', t, "done")
<1> DEFINE pc == "done"
<1>1. pc \in Places /\ tx' = [tx EXCEPT ![t].pc = pc] /\ tx \in AllTransfers
    BY DEF Places, TypeOK
<1> HIDE DEF pc
<1>2. Moved(tx, tx', t, pc)
    BY <1>1, PcMoved
<1> QED BY <1>2 DEF pc

\* receive() succeeds.
LEMMA GotPostedStep ==
    ASSUME Inv, NEW t \in Transactions, tx[t].pc = "got", NEW c, c = tx[t].to, Up(c), Fits(Own(c)), NEW z,
           z = PostStatus(Own(c), Message("TRANSFER_OK", tx[t].b, t, 0)), Step(c, z), UNCHANGED poolVars,
           Moved(tx, tx', t, "done"), UNCHANGED <<onMessage, alloc>>, MoreCalls
    PROVE  Inv'
<1> DEFINE b == tx[t].b
           m == Message("TRANSFER_OK", b, t, 0)
           U == pool.mUsingBuffers
<1>1. tx \in AllTransfers
    BY BasicsHold DEF Basics
<1>2. /\ c \in Connections /\ tx' \in AllTransfers
      /\ Valid(Own(c), z) /\ z.cl.state = "up" /\ z.cl.refs = client[c].refs
      /\ z.cl.dying = client[c].dying /\ Cache(z.cl, OfLocal(c, Un))
      /\ Notified(pool, c, z.cl, z.inv, onMessage, Stream(z))
      /\ Stream(z) = Append(Streams[c], m) /\ Streams[c] \in Seq(Messages) /\ m \in Messages
      /\ Protocol(Streams', tx', pool, Live, St)
      /\ \A s \in Transactions : Interest(Streams', tx', Live, s) =>
                Interest(Streams, tx, Live, s) /\ tx'[s].b = tx[s].b
      /\ \A e \in BufferIds : Abandoned(tx, Local, e) => Abandoned(tx', Local, e)
  <2> DEFINE status == "TRANSFER_OK"
  <2>1. status \in Results /\ z = PostStatus(Own(c), Message(status, tx[t].b, t, 0))
        /\ m = Message(status, tx[t].b, t, 0) /\ tx[t].pc \in {"got", "failed"}
    BY DEF Results
  <2> HIDE DEF status, m
  <2> QED BY <2>1, EndedFacts
<1>3. b \in BufferIds /\ m.newStatus = "TRANSFER_OK" /\ m.bufferId = b
    BY <1>1 DEF AllTransfers, TransferStates, Message
<1>4. /\ client'[c] = z.cl /\ Streams'[c] = Stream(z) /\ Live' = Live
      /\ \A d \in Connections : d # c => client'[d] = client[d] /\ Streams'[d] = Streams[d]
    BY <1>2, StepParts
<1>5. t \in Got(tx, c, b) /\ Got(tx', c, b) = Got(tx, c, b) \ {t}
    BY DEF Got, Moved
<1>6. \A d \in Connections, e \in BufferIds : d # c \/ e # b => Got(tx', d, e) = Got(tx, d, e)
    BY DEF Got, Moved
<1> HIDE DEF b, m
<1> DEFINE un2 == Unused(client', Streams', tx', Live)
<1>7. Un \subseteq un2
  <2>1. \A d \in Connections : client'[d].refs = client[d].refs
    BY <1>2, <1>4
  <2> QED BY <1>2, <2>1, UnusedMore DEF Un
<1> HIDE DEF un2
<1>8. Others(client, Streams, tx, Un, client', Streams', tx', un2, c)
    BY <1>2, <1>4, <1>6, <1>7 DEF Others
<1>9. Holdings(client, Streams, U, tx, Un, Al) /\ client[c].refs \in [BufferIds -> Int]
    BY <1>2, UpFacts
<1>10. Holdings(client', Streams', U, tx', un2, Al)
  <2>1. PICK C2, S2, x2 : C2 = client' /\ S2 = Streams' /\ x2 = tx'
    OBVIOUS
  <2>2. /\ Others(client, Streams, tx, Un, C2, S2, x2, un2, c) /\ S2[c] = Append(Streams[c], m)
        /\ SameRefs(client[c], C2[c]) /\ Cache(C2[c], OfLocal(c, Un))
        /\ \A d \in BufferIds : d # b => Got(x2, c, d) = Got(tx, c, d)
        /\ Got(x2, c, b) = Got(tx, c, b) \ {t}
    BY <1>2, <1>4, <1>5, <1>6, <1>8, <2>1 DEF SameRefs, Up
  <2>4. Streams[c] \in Seq(Messages) /\ m \in Messages /\ t \in Got(tx, c, b)
    BY <1>2, <1>5
  <2>5. Given(client, Streams, tx, C2, S2, x2, c, b, m, t)
    BY <1>3, <1>9, <2>2, <2>4 DEF Given
  <2>3. Holdings(C2, S2, U, x2, un2, Al)
    BY <1>7, <1>9, <2>2, <2>5, GrantStep
  <2> QED BY <2>1, <2>3
<1>11. Al' = Al /\ AllocSteps /\ LessNotices(c) /\ onMessage' = onMessage
    BY DEF Al, AllocSteps, LessNotices, Inv, TypeOK
<1> QED BY <1>2, <1>10, <1>11, ClientStep DEF un2

\* or cannot say so, and drops the reference.
LEMMA GotUnpostedStep ==
    ASSUME Inv, NEW t \in Transactions, tx[t].pc = "got", NEW c, c = tx[t].to, Up(c),
           NEW z, z = LoseRef(Own(c), tx[t].b), Step(c, z), UNCHANGED poolVars,
           Moved(tx, tx', t, "abandoned"), UNCHANGED <<onMessage, alloc>>, MoreCalls
    PROVE  Inv'
<1> DEFINE b == tx[t].b
           U == pool.mUsingBuffers
<1>1. tx \in AllTransfers /\ Streams \in AllStreams
    BY BasicsHold DEF Basics
<1>2. b \in BufferIds /\ c \in Connections
    BY <1>1 DEF AllTransfers, TransferStates
<1>3. /\ Own(c) \in Objects /\ Room(Own(c)) >= 0 /\ Own(c).cl = client[c] /\ Own(c).cl.state = "up"
      /\ Streams[c] = Stream(Own(c))
      /\ Notified(pool, c, Own(c).cl, Own(c).inv, onMessage, Stream(Own(c)))
      /\ Cache(Own(c).cl, OfLocal(c, Un)) /\ client[c].refs \in [BufferIds -> Int]
      /\ Protocol(Streams, tx, pool, Live, St) /\ Holdings(client, Streams, U, tx, Un, Al)
    BY <1>2, UpFacts
<1>4. t \in Got(tx, c, b) /\ Got(tx', c, b) = Got(tx, c, b) \ {t}
      /\ (\A d \in Connections, e \in BufferIds : d # c \/ e # b => Got(tx', d, e) = Got(tx, d, e))
      /\ (c = Local => Abandoned(tx', Local, b))
    BY DEF Got, Moved, Abandoned
<1> DEFINE n == Cardinality(Got(tx, c, b))
           n2 == Cardinality(Got(tx', c, b))
<1>5. n \in Nat /\ n2 = n - 1
  <2>1. IsFiniteSet(Got(tx, c, b)) /\ n \in Nat
    BY GotCount
  <2>2. PICK X : X = Got(tx, c, b)
    OBVIOUS
  <2>3. IsFiniteSet(X) /\ t \in X
    BY <1>4, <2>1, <2>2
  <2>4. Cardinality(X \ {t}) = Cardinality(X) - 1
    BY <2>3, FS_RemoveElement
  <2> QED BY <1>4, <2>1, <2>2, <2>4
<1>6. n <= client[c].refs[b] /\ client[c].refs[b] \in Int
    BY <1>2, <1>3 DEF Holdings, Holding
<1>7. n >= 1
  <2>1. n2 \in Nat
    BY GotCount
  <2> QED BY <1>5, <2>1
<1> HIDE DEF n, n2
<1>8. client[c].refs[b] > 0 /\ n2 <= client[c].refs[b] - 1
      /\ (client[c].refs[b] - 1 > n2 => client[c].refs[b] > n)
    BY <1>5, <1>6, <1>7
<1>9. /\ SameQueue(Own(c), z)
      /\ z.cl.refs = [client[c].refs EXCEPT ![b] = client[c].refs[b] - 1]
      /\ z.cl.dying = client[c].dying \cup IF client[c].refs[b] = 1 THEN {b} ELSE {}
      /\ Cache(z.cl, OfLocal(c, Un))
  <2>1. PICK y : y = Own(c)
    OBVIOUS
  <2>2. /\ y \in Objects /\ Room(y) >= 0 /\ b \in BufferIds /\ y.cl.refs[b] > 0 /\ z = LoseRef(y, b)
        /\ y.cl = client[c] /\ Cache(y.cl, OfLocal(c, Un))
    BY <1>2, <1>3, <1>8, <2>1
  <2>3. /\ SameQueue(y, z) /\ z.cl.refs = [y.cl.refs EXCEPT ![b] = y.cl.refs[b] - 1]
        /\ z.cl.dying = y.cl.dying \cup IF y.cl.refs[b] = 1 THEN {b} ELSE {}
        /\ \A un, un2 : Cache(y.cl, un) /\ un \subseteq un2 => Cache(z.cl, un2)
    <3> HIDE DEF b
    <3> QED BY <2>2, LoseFields, SMTT(30)
  <2>4. Cache(z.cl, OfLocal(c, Un))
    BY <2>2, <2>3
  <2> QED BY <2>1, <2>2, <2>3, <2>4
<1> HIDE DEF b
<1>10. /\ Valid(Own(c), z) /\ z.inv = Own(c).inv /\ Stream(z) = Stream(Own(c))
       /\ z.cl.state = "up" /\ z.cl.mInvalidateId = Own(c).cl.mInvalidateId
    BY <1>3, <1>9 DEF SameQueue
<1>11. /\ client'[c] = z.cl /\ Streams'[c] = Stream(z) /\ Live' = Live
       /\ \A d \in Connections : d # c => client'[d] = client[d] /\ Streams'[d] = Streams[d]
    BY <1>2, <1>10, StepParts
<1>12. Streams' = Streams
    BY <1>3, <1>10, <1>11 DEF Streams
<1>13. /\ tx' \in AllTransfers
       /\ \A s \in Transactions : tx'[s] = tx[s] \/ (/\ s = t /\ tx'[s].b = tx[s].b /\ tx'[s].from = tx[s].from
                                                     /\ tx'[s].to = tx[s].to /\ tx'[s].pc = "abandoned")
    BY DEF Moved
<1>14. Protocol(Streams', tx', pool, Live, St)
  <2>1. \A s \in Transactions :
                \/ tx'[s] = tx[s]
                \/ /\ tx'[s].b = tx[s].b /\ tx'[s].from = tx[s].from /\ tx'[s].to = tx[s].to
                   /\ \/ tx[s].pc \in Receiving \cup {"sent"} /\ tx'[s].pc = "abandoned"
                      \/ tx[s].pc \in Receiving /\ tx'[s].pc \in Receiving
    BY <1>13 DEF Receiving
  <2> QED BY <1>1, <1>3, <1>12, <1>13, <2>1, MoveOn
<1> DEFINE un2 == Unused(client', Streams', tx', Live)
<1>15. Un \subseteq un2
  <2>1. ASSUME NEW d \in Connections, NEW e \in Un PROVE client'[d].refs[e] = client[d].refs[e]
    <3>1. e \in BufferIds /\ client[c].refs[e] = 0
      BY <1>2 DEF Un, Unused
    <3>2. e # b
      BY <1>8, <3>1
    <3> QED BY <1>3, <1>9, <1>11, <3>1, <3>2
  <2>2. \A d \in Connections, e \in Unused(client, Streams, tx, Live) : client'[d].refs[e] = client[d].refs[e]
    BY <2>1 DEF Un
  <2>3. \A s \in Transactions : Interest(Streams', tx', Live, s) =>
            Interest(Streams, tx, Live, s) /\ tx'[s].b = tx[s].b
    BY <1>12, <1>13 DEF Interest, Unfinished
  <2> QED BY <2>2, <2>3, UnusedMore DEF Un
<1> HIDE DEF un2
<1>16. Others(client, Streams, tx, Un, client', Streams', tx', un2, c)
  <2>1. \A e : Abandoned(tx, Local, e) => Abandoned(tx', Local, e)
    BY MovedAbandoned
  <2> QED BY <1>2, <1>4, <1>11, <1>15, <2>1 DEF Others
<1>17. b \notin Al
  <2>1. \A e \in Al : e \in Un
    BY <1>3 DEF Holdings, Fresh
  <2> QED BY <1>2, <1>8, <2>1 DEF Un, Unused
<1>18. Holdings(client', Streams', U, tx', un2, Al)
  <2>1. PICK C2, S2, x2 : C2 = client' /\ S2 = Streams' /\ x2 = tx'
    OBVIOUS
  <2>2. /\ C2[c].refs = [client[c].refs EXCEPT ![b] = client[c].refs[b] - 1]
        /\ C2[c].dying = client[c].dying \cup IF client[c].refs[b] = 1 THEN {b} ELSE {}
        /\ Cache(C2[c], OfLocal(c, Un)) /\ C2[c].state = client[c].state
        /\ S2[c] = Streams[c] /\ Others(client, Streams, tx, Un, C2, S2, x2, un2, c)
    BY <1>9, <1>10, <1>11, <1>12, <1>16, <2>1 DEF Up
  <2>3. /\ (\A d \in BufferIds : d # b => Got(x2, c, d) = Got(tx, c, d))
        /\ Cardinality(Got(x2, c, b)) <= client[c].refs[b] - 1
        /\ (client[c].refs[b] - 1 > Cardinality(Got(x2, c, b)) => client[c].refs[b] > Cardinality(Got(tx, c, b)))
        /\ (c = Local => Holds(U, c, Streams[c], b) \/ Abandoned(x2, Local, b))
    BY <1>2, <1>4, <1>8, <2>1 DEF n, n2
  <2>4. Loses(client, Streams, U, tx, C2, x2, c, b)
    BY <1>3, <1>8, <2>2, <2>3 DEF Loses
  <2>5. Holdings(C2, S2, U, x2, un2, Al)
    BY <1>2, <1>3, <1>15, <1>17, <2>2, <2>4, LoseHoldings
  <2> QED BY <2>1, <2>5
<1>19. Notified(pool, c, z.cl, z.inv, onMessage', Stream(z))
    BY <1>3, <1>10, NotifiedSame
<1>20. Al' = Al /\ AllocSteps /\ LessNotices(c)
    BY DEF Al, AllocSteps, LessNotices, Inv, TypeOK
<1> QED BY <1>2, <1>10, <1>13, <1>14, <1>18, <1>19, <1>20, ClientStep DEF un2

\* postReceiveResult() preserves the invariant.
LEMMA PostReceiveResultStep ==
    ASSUME Inv, NEW t \in Transactions, PostReceiveResult(t)
    PROVE  Inv'
<1> DEFINE c == tx[t].to
           b == tx[t].b
           got == tx[t].pc = "got"
           status == IF got THEN "TRANSFER_OK" ELSE "TRANSFER_ERROR"
           z == PostStatus(Own(c), Message(status, b, t, 0))
<1>1. tx \in AllTransfers /\ TypeOK
    BY BasicsHold DEF Basics, Inv
<1>2. c \in Connections /\ b \in BufferIds
    BY <1>1 DEF AllTransfers, TransferStates
<1>3. /\ tx[t].pc \in {"got", "failed"} /\ Up(c) /\ UNCHANGED poolVars /\ UNCHANGED <<onMessage, alloc>>
      /\ Step(c, IF got /\ ~Fits(Own(c)) THEN LoseRef(z, b) ELSE z)
      /\ tx' = [tx EXCEPT ![t].pc = IF Fits(Own(c)) THEN "done" ELSE "abandoned"]
      /\ calls' = calls \cup Trailing(c, z)
    BY DEF PostReceiveResult
<1>4. MoreCalls
  <2>1. calls \subseteq Calls
    BY <1>1 DEF TypeOK
  <2> HIDE DEF z
  <2> QED BY <1>3, <2>1, TrailingCalls DEF MoreCalls
<1>5. CASE Fits(Own(c))
  <2>1. Moved(tx, tx', t, "done") /\ Step(c, z)
    BY <1>1, <1>3, <1>5, DoneMoved
  <2>2. CASE got
    <3>1. z = PostStatus(Own(c), Message("TRANSFER_OK", tx[t].b, t, 0)) /\ tx[t].pc = "got" /\ c = tx[t].to
      BY <2>2
    <3> HIDE DEF z, c
    <3> QED BY <1>3, <1>4, <1>5, <2>1, <3>1, GotPostedStep
  <2>3. CASE ~got
    <3> DEFINE m == Message("TRANSFER_ERROR", b, t, 0)
               st == "TRANSFER_ERROR"
    <3>1. z = PostStatus(Own(c), Message(st, tx[t].b, t, 0)) /\ m = Message(st, tx[t].b, t, 0)
          /\ tx[t].pc = "failed" /\ c = tx[t].to /\ st \in Results /\ tx[t].pc \in {"got", "failed"}
          /\ m.newStatus \notin {"NOT_USED", "TRANSFER_OK"}
      BY <1>3, <2>3 DEF Results, Message
    <3> HIDE DEF z, m, c, st
    <3>5. Up(c) /\ UNCHANGED poolVars /\ Fits(Own(c)) /\ Step(c, z) /\ Moved(tx, tx', t, "done")
      BY <1>3, <1>5, <2>1
    <3>6. z = PostStatus(Own(c), Message(st, tx[t].b, t, 0)) /\ st \in Results /\ c = tx[t].to
          /\ tx[t].pc \in {"got", "failed"} /\ m = Message(st, tx[t].b, t, 0)
      BY <3>1
    <3>2. /\ tx' \in AllTransfers
          /\ Valid(Own(c), z) /\ z.cl.state = "up" /\ z.cl.refs = client[c].refs
          /\ z.cl.dying = client[c].dying /\ Cache(z.cl, OfLocal(c, Un))
          /\ Notified(pool, c, z.cl, z.inv, onMessage, Stream(z))
          /\ Stream(z) = Append(Streams[c], m) /\ Streams[c] \in Seq(Messages) /\ m \in Messages
          /\ Protocol(Streams', tx', pool, Live, St)
          /\ \A s \in Transactions : Interest(Streams', tx', Live, s) =>
                Interest(Streams, tx, Live, s) /\ tx'[s].b = tx[s].b
          /\ \A e \in BufferIds : Abandoned(tx, Local, e) => Abandoned(tx', Local, e)
      BY <3>5, <3>6, EndedFacts
    <3>3. Quiet(c, Streams[c], Stream(z))
      BY <3>1, <3>2, QuietAppend
    <3>4. \A d, e : Got(tx', d, e) = Got(tx, d, e)
      BY <2>1, <3>1, MovedGot
    <3> QED BY <1>2, <1>3, <1>4, <2>1, <3>2, <3>3, <3>4, TalkStep
  <2> QED BY <2>2, <2>3
<1>6. CASE ~Fits(Own(c))
  <2>1. Moved(tx, tx', t, "abandoned") /\ z = Own(c)
    BY <1>1, <1>3, <1>6, AbandonMoved DEF PostStatus
  <2>2. CASE got
    <3>1. Step(c, LoseRef(Own(c), tx[t].b)) /\ tx[t].pc = "got" /\ c = tx[t].to
      BY <1>3, <1>6, <2>1, <2>2
    <3> HIDE DEF c
    <3> QED BY <1>3, <1>4, <2>1, <3>1, GotUnpostedStep
  <2>3. CASE ~got
    <3>1. Step(c, z) /\ tx[t].pc = "failed" /\ c = tx[t].to
      BY <1>3, <2>3
    <3> HIDE DEF z, c
    <3>2. /\ Valid(Own(c), z) /\ z.cl.state = "up" /\ z.cl.refs = client[c].refs
          /\ z.cl.dying = client[c].dying /\ Cache(z.cl, OfLocal(c, Un))
          /\ Quiet(c, Streams[c], Stream(z)) /\ Notified(pool, c, z.cl, z.inv, onMessage, Stream(z))
          /\ Streams' = Streams /\ Protocol(Streams', tx, pool, Live, St)
      BY <1>2, <1>3, <2>1, <3>1, SilentFacts
    <3>3. tx[t].pc \in Receiving \ {"got"}
      BY <3>1 DEF Receiving
    <3> QED BY <1>2, <1>3, <1>4, <2>1, <3>1, <3>2, <3>3, GiveUpStep
  <2> QED BY <2>2, <2>3
<1> QED BY <1>5, <1>6

\* postSend() preserves the invariant.
LEMMA PostSendStep ==
    ASSUME Inv, NEW t \in Transactions, NEW c \in Connections, NEW b \in BufferIds, NEW r \in Connections,
           PostSend(t, c, b, r)
    PROVE  Inv'
<1> DEFINE s == SyncReleased(Own(c), 0)
           m == Message("TRANSFER_TO", b, t, r)
           z == PostStatus(s, m)
           U == pool.mUsingBuffers
<1>1. /\ tx[t].pc = "none" /\ (\A u \in Transactions : u < t => tx[u].pc # "none")
      /\ Up(c) /\ client[c].refs[b] > Cardinality(Got(tx, c, b))
      /\ client[r].state # "new" /\ Step(c, z)
      /\ tx' = (IF Fits(s) THEN [tx EXCEPT ![t] = [pc |-> "sent", b |-> b, from |-> c, to |-> r]] ELSE tx)
      /\ calls' = calls \cup Trailing(c, z)
      /\ UNCHANGED poolVars /\ UNCHANGED <<onMessage, alloc>>
    BY DEF PostSend, CacheFree, InReceive, Got
<1>2. /\ Own(c) \in Objects /\ Room(Own(c)) >= 0 /\ NoRepeat(Own(c).cl.mReleasingIds)
      /\ Holdings(client, Streams, U, tx, Un, Al)
    BY <1>1, UpFacts
<1>3. 0 \in Nat /\ 0 <= pool.mInvalidationId /\ tx \in AllTransfers /\ Streams \in AllStreams
    BY BasicsHold DEF Basics, Pools
<1>4. Synced(Own(c), s, 0)
    BY <1>2, <1>3, SyncFields
<1>5. MoreCalls /\ LessNotices(c)
  <2>1. calls \subseteq Calls
    BY DEF Inv, TypeOK
  <2> HIDE DEF z
  <2> QED BY <1>1, <2>1, TrailingCalls DEF MoreCalls, LessNotices
<1> HIDE DEF s
<1>6. CASE ~Fits(s)
  <2>1. z = s /\ tx' = tx
    BY <1>1, <1>6 DEF PostStatus
  <2> HIDE DEF z
  <2> QED BY <1>1, <1>3, <1>4, <1>5, <2>1, SyncOnly
<1>7. CASE Fits(s)
  <2>1. Unsaid(c, s) /\ Notified(pool, c, s.cl, s.inv, onMessage, Stream(s))
    BY <1>1, <1>3, <1>4, SyncSaid
  <2> DEFINE S1 == StreamsWith(c, s)
  <2>2. /\ S1 \in AllStreams /\ S1[c] = Stream(s) /\ (\A d \in Connections : d # c => S1[d] = Streams[d])
        /\ Protocol(S1, tx, pool, Live, St) /\ Quiet(c, Streams[c], Stream(s))
        /\ (\A d \in Connections : \A u : HasResult(S1[d], u) <=> HasResult(Streams[d], u))
        /\ Cache(s.cl, OfLocal(c, Un)) /\ s \in Objects /\ Room(s) >= 0 /\ SameHeld(client[c], s.cl)
        /\ NoRepeat(s.cl.mReleasingIds)
    BY <2>1 DEF Unsaid
  <2>3. m \in Messages /\ m.newStatus = "TRANSFER_TO"
    BY ConnectionsAssumption, TransactionsAssumption DEF Message, Messages, Statuses, BufferIds
  <2> HIDE DEF m, S1
  <2>4. StatusPosted(s, z, m)
    BY <1>7, <2>2, <2>3, StatusFields
  <2> HIDE DEF z
  <2>5. /\ Valid(s, z) /\ z.inv = s.inv /\ SameRest(s.cl, z.cl) /\ Stream(z) = Append(Stream(s), m)
        /\ Cache(z.cl, OfLocal(c, Un))
    BY <2>2, <2>4 DEF StatusPosted
  <2>6. Valid(Own(c), z)
    <3>1. Valid(Own(c), s)
      BY <1>4 DEF Synced
    <3>2. Len(Own(c).mail) \in Nat /\ Len(s.mail) \in Nat /\ Len(z.mail) \in Nat
      BY <1>2, <2>2, <2>5 DEF Valid, Objects
    <3> QED BY <2>5, <3>1, <3>2 DEF Valid
  <2>7. /\ z.cl.state = "up" /\ z.cl.refs = client[c].refs /\ z.cl.dying = client[c].dying
        /\ z.cl.mInvalidateId = s.cl.mInvalidateId /\ z.cl.state = s.cl.state
    BY <1>1, <2>2, <2>5 DEF SameRest, SameHeld, Up
  <2>8. Stream(s) \in Seq(Messages)
    BY <2>2, StreamType
  <2>9. Quiet(c, Streams[c], Stream(z))
    <3>1. Quiet(c, Stream(s), Stream(z))
      BY <2>3, <2>5, <2>8, QuietAppend
    <3> QED BY <2>2, <3>1, QuietTwice
  <2>10. Notified(pool, c, z.cl, z.inv, onMessage, Stream(z))
    <3>1. m.newStatus # "INVALIDATION_ACK"
      BY <2>3
    <3>2. Notified(pool, c, s.cl, s.inv, onMessage, Stream(z))
      BY <2>1, <2>3, <2>5, <2>8, <3>1, NotifiedAppend
    <3> QED BY <2>5, <2>7, <3>2, NotifiedSame
  <2>11. Streams' = [S1 EXCEPT ![c] = Append(S1[c], m)]
    <3>1. Streams' = StreamsWith(c, z)
      BY <1>1, <2>6, StepParts
    <3>2. S1 = [Streams EXCEPT ![c] = Stream(s)] /\ Streams' = [Streams EXCEPT ![c] = Append(Stream(s), m)]
      BY <2>5, <3>1 DEF StreamsWith, S1
    <3> QED BY <1>3, <2>2, <3>2 DEF AllStreams
  <2>12. tx' = [tx EXCEPT ![t] = [pc |-> "sent", b |-> b, from |-> c, to |-> r]]
    BY <1>1, <1>7
  <2>13. Holds(U, c, S1[c], b)
    <3>1. Holds(U, c, Streams[c], b)
      BY <1>1, <1>2 DEF Holdings, Holding
    <3> QED BY <2>2, <3>1 DEF Quiet
  <2>14. Protocol(Streams', tx', pool, Live, St)
    <3>1. Streams' = [S1 EXCEPT ![c] = Append(S1[c], Message("TRANSFER_TO", b, t, r))]
      BY <2>11 DEF m
    <3>2. St[r] # "new"
      BY <1>1 DEF St
    <3> QED BY <1>1, <1>3, <2>2, <2>12, <2>13, <3>1, <3>2, BeginTransfer
  <2>15. /\ tx' \in AllTransfers /\ tx'[t].pc = "sent" /\ tx'[t].b = b
         /\ \A u \in Transactions : u # t => tx'[u] = tx[u]
    <3> DEFINE y == [pc |-> "sent", b |-> b, from |-> c, to |-> r]
    <3>1. y \in TransferStates /\ y.pc = "sent" /\ y.b = b /\ tx' = [tx EXCEPT ![t] = y]
      BY <2>12 DEF TransferStates
    <3> HIDE DEF y
    <3> QED BY <1>3, <3>1 DEF AllTransfers
  <2>16. (\A d, e : Got(tx', d, e) = Got(tx, d, e))
         /\ \A e : Abandoned(tx, Local, e) => Abandoned(tx', Local, e)
    BY <1>1, <2>15 DEF Got, Abandoned
  <2>17. Posted(S1, Streams', c, m)
    BY <2>2, <2>3, <2>11, PostStream
  <2>18. ASSUME NEW u \in Transactions, Interest(Streams', tx', Live, u)
         PROVE  (Interest(Streams, tx, Live, u) /\ tx'[u].b = tx[u].b) \/ tx'[u].b \notin Un
    <3>1. CASE u = t
      <4>1. Cardinality(Got(tx, c, b)) \in Nat
        BY GotCount
      <4>2. client[c].refs[b] # 0
        BY <1>1, <4>1
      <4> QED BY <2>15, <3>1, <4>2 DEF Un, Unused
    <3>2. CASE u # t
      <4>1. tx[u].to \in Connections /\ ~IsResult(m, u)
        BY <1>3, <2>3 DEF AllTransfers, TransferStates, IsResult, Results
      <4>2. HasResult(Streams'[tx[u].to], u) <=> HasResult(Streams[tx[u].to], u)
        BY <2>2, <2>17, <4>1 DEF Posted
      <4> QED BY <2>15, <2>18, <3>2, <4>2 DEF Interest, Unfinished
    <3> QED BY <3>1, <3>2
  <2> QED BY <1>1, <1>5, <2>5, <2>6, <2>7, <2>9, <2>10, <2>14, <2>15, <2>16, <2>18, TalkStep, ZenonT(30)
<1> QED BY <1>6, <1>7

\* receive() gets a reference to b.
Gets(C, x, C2, x2, c, b, t) ==
    /\ b \in BufferIds /\ C[c].refs \in [BufferIds -> Int]
    /\ C2[c].refs = [C[c].refs EXCEPT ![b] = C[c].refs[b] + 1] /\ C2[c].dying = C[c].dying
    /\ C2[c].state = C[c].state
    /\ \A d \in BufferIds : d # b => Got(x2, c, d) = Got(x, c, d)
    /\ t \notin Got(x, c, b) /\ Got(x2, c, b) = Got(x, c, b) \cup {t}

\* The reference belongs to the transfer.
LEMMA GetHoldings ==
    ASSUME NEW C, NEW S, NEW U, NEW x, NEW un, NEW al, Holdings(C, S, U, x, un, al),
           NEW C2, NEW S2, NEW x2, NEW un2, NEW c, Others(C, S, x, un, C2, S2, x2, un2, c),
           un \subseteq un2, Quiet(c, S[c], S2[c]), Cache(C2[c], OfLocal(c, un)),
           NEW b, NEW t, Gets(C, x, C2, x2, c, b, t)
    PROVE  Holdings(C2, S2, U, x2, un2, al)
BY GainStep DEF Gets

\* receive() gets a reference.
LEMMA GetStep ==
    ASSUME Inv, NEW t \in Transactions, NEW c, c = tx[t].to, Up(c), NEW b, b = tx[t].b,
           tx[t].pc \in Receiving \ {"got"}, Moved(tx, tx', t, "got"),
           NEW z, Valid(Own(c), z), z.cl.state = "up", z.cl.dying = client[c].dying,
           z.cl.refs = [client[c].refs EXCEPT ![b] = client[c].refs[b] + 1],
           Cache(z.cl, OfLocal(c, Un)), Quiet(c, Streams[c], Stream(z)),
           Notified(pool, c, z.cl, z.inv, onMessage, Stream(z)), Protocol(Streams', tx, pool, Live, St),
           \A d \in Connections : \A s : HasResult(Streams'[d], s) <=> HasResult(Streams[d], s),
           Step(c, z), UNCHANGED poolVars, UNCHANGED <<onMessage, alloc>>, MoreCalls
    PROVE  Inv'
<1>1. tx \in AllTransfers
    BY BasicsHold DEF Basics
<1>2. c \in Connections /\ b \in BufferIds /\ t \in Transactions
    BY <1>1 DEF AllTransfers, TransferStates
<1>3. client[c].refs \in [BufferIds -> Int] /\ c \in Live /\ Holdings(client, Streams, pool.mUsingBuffers, tx, Un, Al)
    BY <1>2, UpFacts
<1>4. /\ client'[c] = z.cl /\ Streams'[c] = Stream(z) /\ Live' = Live /\ Streams' \in AllStreams
      /\ \A d \in Connections : d # c => client'[d] = client[d] /\ Streams'[d] = Streams[d]
    BY <1>2, StepParts
<1>5. /\ tx' \in AllTransfers /\ tx'[t].pc = "got" /\ tx'[t].b = tx[t].b /\ tx'[t].from = tx[t].from
      /\ tx'[t].to = tx[t].to /\ \A s \in Transactions : s # t => tx'[s] = tx[s]
    BY DEF Moved
<1>6. Protocol(Streams', tx', pool, Live, St)
  <2>1. \A s \in Transactions :
                \/ tx'[s] = tx[s]
                \/ /\ tx'[s].b = tx[s].b /\ tx'[s].from = tx[s].from /\ tx'[s].to = tx[s].to
                   /\ \/ tx[s].pc \in Receiving \cup {"sent"} /\ tx'[s].pc = "abandoned"
                      \/ tx[s].pc \in Receiving /\ tx'[s].pc \in Receiving
    BY <1>5 DEF Receiving
  <2> QED BY <1>1, <1>4, <1>5, <2>1, MoveOn
<1>7. b \notin Un
  <2>1. Interest(Streams, tx, Live, t)
    BY <1>3 DEF Interest, Unfinished, Receiving
  <2> QED BY <2>1 DEF Un, Unused
<1> DEFINE un2 == Unused(client', Streams', tx', Live)
<1>8. Un \subseteq un2
  <2>1. ASSUME NEW d \in Connections, NEW e \in Un PROVE client'[d].refs[e] = client[d].refs[e]
    <3>1. e \in BufferIds /\ e # b
      BY <1>7 DEF Un, Unused
    <3> QED BY <1>3, <1>4, <3>1
  <2>2. \A d \in Connections, e \in Unused(client, Streams, tx, Live) : client'[d].refs[e] = client[d].refs[e]
    BY <2>1 DEF Un
  <2>3. \A s \in Transactions : tx[s].to \in Connections
    BY <1>1 DEF AllTransfers, TransferStates
  <2>4. \A s \in Transactions : Interest(Streams', tx', Live, s) =>
            Interest(Streams, tx, Live, s) /\ tx'[s].b = tx[s].b
    BY <1>5, <2>3 DEF Interest, Unfinished, Receiving
  <2> QED BY <2>2, <2>4, UnusedMore DEF Un
<1> HIDE DEF un2
<1>9. /\ t \notin Got(tx, c, b) /\ Got(tx', c, b) = Got(tx, c, b) \cup {t}
      /\ \A d \in Connections, e \in BufferIds : d # c \/ e # b => Got(tx', d, e) = Got(tx, d, e)
    BY <1>5 DEF Got
<1>10. Others(client, Streams, tx, Un, client', Streams', tx', un2, c)
  <2>1. \A e : Abandoned(tx, Local, e) => Abandoned(tx', Local, e)
    BY MovedAbandoned DEF Receiving
  <2> QED BY <1>2, <1>4, <1>8, <1>9, <2>1 DEF Others
<1>11. Holdings(client', Streams', pool.mUsingBuffers, tx', un2, Al)
  <2>1. PICK C2, S2, x2 : C2 = client' /\ S2 = Streams' /\ x2 = tx'
    OBVIOUS
  <2>2. /\ Others(client, Streams, tx, Un, C2, S2, x2, un2, c) /\ Quiet(c, Streams[c], S2[c])
        /\ Cache(C2[c], OfLocal(c, Un)) /\ C2[c] = z.cl
    BY <1>4, <1>10, <2>1
  <2>3. Gets(client, tx, C2, x2, c, b, t)
    BY <1>2, <1>3, <1>9, <2>1, <2>2 DEF Gets, Up
  <2>4. Holdings(C2, S2, pool.mUsingBuffers, x2, un2, Al)
    BY <1>3, <1>8, <2>2, <2>3, GetHoldings
  <2> QED BY <2>1, <2>4
<1>12. Al' = Al /\ AllocSteps /\ LessNotices(c) /\ onMessage' = onMessage
    BY DEF Al, AllocSteps, LessNotices, Inv, TypeOK
<1> QED BY <1>2, <1>5, <1>6, <1>11, <1>12, ClientStep DEF un2

\* A buffer that is wanted is not among those that were released.
LEMMA Wanted ==
    ASSUME Inv, NEW t \in Transactions, NEW c, c = tx[t].to, Up(c), NEW b, b = tx[t].b,
           tx[t].pc \in Receiving
    PROVE  /\ c \in Connections /\ b \in BufferIds /\ b \notin OfLocal(c, Un)
           /\ client[c].refs[b] \in Nat /\ client[c].refs \in [BufferIds -> Int]
<1>1. tx \in AllTransfers
    BY BasicsHold DEF Basics
<1>2. c \in Connections /\ b \in BufferIds
    BY <1>1 DEF AllTransfers, TransferStates
<1>3. client[c].refs \in [BufferIds -> Int] /\ c \in Live /\ Holdings(client, Streams, pool.mUsingBuffers, tx, Un, Al)
    BY <1>2, UpFacts
<1>4. b \notin Un
  <2>1. Interest(Streams, tx, Live, t)
    BY <1>3 DEF Interest, Unfinished, Receiving
  <2> QED BY <2>1 DEF Un, Unused
<1>5. Cardinality(Got(tx, c, b)) \in Nat /\ Cardinality(Got(tx, c, b)) <= client[c].refs[b]
    BY <1>2, <1>3, GotCount DEF Holdings, Holding
<1>6. client[c].refs[b] \in Int
    BY <1>2, <1>3
<1> QED BY <1>2, <1>3, <1>4, <1>5, <1>6 DEF OfLocal

\* createCache() for it
LEMMA CreateWanted ==
    ASSUME NEW z \in Objects, Room(z) >= 0, NEW b \in BufferIds, NEW un, Cache(z.cl, un), b \notin un,
           b \notin z.cl.hasCache, z.cl.refs[b] \in Nat, NEW q, q = CreateCache(z, b)
    PROVE  /\ SameQueue(z, q) /\ q.cl.dying = z.cl.dying /\ Cache(q.cl, un)
           /\ q.cl.refs = [z.cl.refs EXCEPT ![b] = z.cl.refs[b] + 1]
<1>1. /\ SameQueue(z, q) /\ q.cl.dying = z.cl.dying /\ q.cl.refs = [z.cl.refs EXCEPT ![b] = 1]
      /\ \A v, v2 : (/\ Cache(z.cl, v) /\ v \ {b} \subseteq v2 /\ b \notin z.cl.dying
                     /\ b \notin ReleasingSet(z.cl) /\ b \notin z.cl.mReleasedIds) => Cache(q.cl, v2)
    BY CreateFields
<1>2. b \notin z.cl.dying /\ b \notin ReleasingSet(z.cl) /\ b \notin z.cl.mReleasedIds /\ ~(z.cl.refs[b] > 0)
    BY DEF Cache
<1>3. z.cl.refs[b] + 1 = 1
    BY <1>2
<1>4. Cache(q.cl, un)
    BY <1>1, <1>2
<1> QED BY <1>1, <1>3, <1>4

\* A transfer has its reference.
LEMMA GotMoved ==
    ASSUME TypeOK, NEW t \in Transactions, tx' = [tx EXCEPT ![t].pc = "got"]
    PROVE  Moved(tx, tx', t, "got")
<1> DEFINE pc == "got"
<1>1. pc \in Places /\ tx' = [tx EXCEPT ![t].pc = pc] /\ tx \in AllTransfers
    BY DEF Places, TypeOK, Receiving
<1> HIDE DEF pc
<1>2. Moved(tx, tx', t, pc)
    BY <1>1, PcMoved
<1> QED BY <1>2 DEF pc

\* What holds of an object after syncReleased() and a change of the client's cache.
After(c, z, q) ==
    /\ Valid(Own(c), q) /\ q.inv = z.inv /\ Stream(q) = Stream(z) /\ q.cl.state = "up"
    /\ q.cl.dying = client[c].dying /\ Cache(q.cl, OfLocal(c, Un))
    /\ Quiet(c, Streams[c], Stream(q)) /\ Notified(pool, c, q.cl, q.inv, onMessage, Stream(q))

\* A change that leaves the queues alone has that outcome,
LEMMA AfterFacts ==
    ASSUME Inv, NEW c \in Connections, Up(c), NEW z, Synced(Own(c), z, 0),
           NEW q, SameQueue(z, q), q.cl.dying = z.cl.dying, Cache(q.cl, OfLocal(c, Un))
    PROVE  After(c, z, q)
<1>1. 0 \in Nat /\ 0 <= pool.mInvalidationId
    BY BasicsHold DEF Basics, Pools
<1>2. Unsaid(c, z) /\ Notified(pool, c, z.cl, z.inv, onMessage, Stream(z))
    BY <1>1, SyncSaid
<1>3. SameHeld(client[c], z.cl) /\ Quiet(c, Streams[c], Stream(z)) /\ z \in Objects
    BY <1>2 DEF Unsaid
<1>4. Valid(z, q) /\ q.inv = z.inv /\ Stream(q) = Stream(z) /\ q.cl.state = z.cl.state
      /\ q.cl.mInvalidateId = z.cl.mInvalidateId
    BY DEF SameQueue
<1>5. Valid(Own(c), q)
  <2>1. Valid(Own(c), z) /\ Own(c) \in Objects
    BY UpFacts DEF Synced
  <2>2. Len(Own(c).mail) \in Nat /\ Len(z.mail) \in Nat /\ Len(q.mail) \in Nat
    BY <1>3, <1>4, <2>1 DEF Valid, Objects
  <2> QED BY <1>4, <2>1, <2>2 DEF Valid
<1>6. Notified(pool, c, q.cl, q.inv, onMessage, Stream(q))
    BY <1>2, <1>4, NotifiedSame
<1> QED BY <1>3, <1>4, <1>5, <1>6 DEF After, SameHeld, Up

\* and says nothing about transfers.
LEMMA AfterStep ==
    ASSUME Inv, NEW c \in Connections, Up(c), NEW z, Synced(Own(c), z, 0), NEW q, After(c, z, q),
           Step(c, q), UNCHANGED poolVars
    PROVE  /\ Protocol(Streams', tx, pool, Live, St)
           /\ \A d \in Connections : \A s : HasResult(Streams'[d], s) <=> HasResult(Streams[d], s)
<1>1. 0 \in Nat /\ 0 <= pool.mInvalidationId
    BY BasicsHold DEF Basics, Pools
<1>2. Unsaid(c, z)
    BY <1>1, SyncSaid
<1>3. Streams' = StreamsWith(c, q)
    BY StepParts DEF After
<1>4. Streams' = StreamsWith(c, z)
    BY <1>3 DEF After, StreamsWith
<1> QED BY <1>2, <1>4 DEF Unsaid

\* The look into the cache of receive() preserves the invariant.
LEMMA LookUpStep ==
    ASSUME Inv, NEW t \in Transactions, NEW expired, LookUp(t, expired)
    PROVE  Inv'
<1> DEFINE c == tx[t].to
           b == tx[t].b
           z == EvictCaches(SyncReleased(Own(c), 0), expired)
<1>1. tx[t].pc = "receive" /\ Up(c) /\ UNCHANGED poolVars /\ UNCHANGED <<onMessage, alloc>>
    BY DEF LookUp, CacheFree
<1>2. /\ c \in Connections /\ b \in BufferIds /\ b \notin OfLocal(c, Un)
      /\ client[c].refs[b] \in Nat /\ client[c].refs \in [BufferIds -> Int]
    BY <1>1, Wanted DEF Receiving
<1>3. /\ Own(c) \in Objects /\ Room(Own(c)) >= 0 /\ NoRepeat(Own(c).cl.mReleasingIds)
    BY <1>1, <1>2, UpFacts
<1>4. Synced(Own(c), z, 0)
    BY <1>3, EvictFields
<1>5. 0 \in Nat /\ 0 <= pool.mInvalidationId /\ TypeOK /\ calls \subseteq Calls /\ tx \in AllTransfers
  <2>1. 0 \in Nat /\ 0 <= pool.mInvalidationId /\ tx \in AllTransfers
    BY BasicsHold DEF Basics, Pools
  <2>2. TypeOK
    BY DEF Inv
  <2>3. calls \subseteq Calls
    BY <2>2 DEF TypeOK
  <2> QED BY <2>1, <2>2, <2>3
<1> DEFINE Goes(pc) == tx' = [tx EXCEPT ![t].pc = pc]
<1>6. \/ /\ b \in z.cl.hasCache /\ z.cl.refs[b] > 0
         /\ Step(c, [z EXCEPT !.cl.refs[b] = @ + 1]) /\ Goes("got") /\ UNCHANGED calls
      \/ /\ b \in z.cl.mBuffers \ z.cl.hasCache
         /\ Step(c, CreateCache(z, b)) /\ Goes("got") /\ UNCHANGED calls
      \/ /\ Step(c, [z EXCEPT !.cl.mCreating = TRUE]) /\ Goes("fetch")
         /\ calls' = calls \cup {Call("fetch", t)}
      \/ Step(c, z) /\ UNCHANGED <<tx, calls>>
    BY DEF LookUp
<1> HIDE DEF z
<1>7. Unsaid(c, z)
    BY <1>1, <1>2, <1>4, <1>5, SyncSaid
<1>8. /\ Cache(z.cl, OfLocal(c, Un)) /\ z \in Objects /\ Room(z) >= 0 /\ SameHeld(client[c], z.cl)
      /\ z.cl \in Clients /\ z.cl.refs = client[c].refs /\ z.cl.dying = client[c].dying
    BY <1>7 DEF Unsaid, SameHeld, Objects
<1>9. c = tx[t].to /\ b = tx[t].b
    OBVIOUS
<1>10. UNCHANGED calls => MoreCalls
    BY <1>5 DEF MoreCalls
<1> HIDE DEF c, b
<1>11. ASSUME NEW q, SameQueue(z, q), q.cl.dying = z.cl.dying, Cache(q.cl, OfLocal(c, Un)),
              q.cl.refs = [client[c].refs EXCEPT ![b] = client[c].refs[b] + 1],
              Step(c, q), Moved(tx, tx', t, "got"), MoreCalls
       PROVE  Inv'
  <2>1. After(c, z, q)
    BY <1>1, <1>2, <1>4, <1>11, AfterFacts
  <2>2. /\ Protocol(Streams', tx, pool, Live, St)
        /\ \A d \in Connections : \A s : HasResult(Streams'[d], s) <=> HasResult(Streams[d], s)
    BY <1>1, <1>2, <1>4, <1>11, <2>1, AfterStep
  <2>3. /\ Valid(Own(c), q) /\ q.cl.state = "up" /\ q.cl.dying = client[c].dying
        /\ Quiet(c, Streams[c], Stream(q)) /\ Notified(pool, c, q.cl, q.inv, onMessage, Stream(q))
    BY <2>1 DEF After
  <2>4. tx[t].pc \in Receiving \ {"got"}
    BY <1>1 DEF Receiving
  <2> QED BY <1>1, <1>9, <1>11, <2>2, <2>3, <2>4, GetStep
<1>12. CASE /\ b \in z.cl.hasCache /\ z.cl.refs[b] > 0
            /\ Step(c, [z EXCEPT !.cl.refs[b] = @ + 1]) /\ Goes("got") /\ UNCHANGED calls
  <2> DEFINE q == [z EXCEPT !.cl.refs[b] = @ + 1]
             f == [client[c].refs EXCEPT ![b] = client[c].refs[b] + 1]
             k == [z.cl EXCEPT !.refs = f]
  <2>1. f \in [BufferIds -> Int] /\ f[b] = client[c].refs[b] + 1 /\ \A e \in BufferIds : e # b => f[e] = client[c].refs[e]
    BY <1>2
  <2>2. q = [z EXCEPT !.cl = k]
    BY <1>8 DEF Objects, Clients
  <2>3. Step(c, q)
    BY <1>12
  <2> HIDE DEF f, q
  <2>4. /\ k \in Clients /\ k.mReleasingIds = z.cl.mReleasingIds /\ k.mReleasedIds = z.cl.mReleasedIds
        /\ k.state = z.cl.state /\ k.locked = z.cl.locked /\ k.mInvalidateId = z.cl.mInvalidateId
        /\ k.refs = f /\ k.dying = z.cl.dying /\ k.hasCache = z.cl.hasCache /\ k.mBuffers = z.cl.mBuffers
    BY <1>8, <2>1 DEF Clients
  <2> HIDE DEF k
  <2>5. SameQueue(z, q) /\ q.cl = k
    BY <1>8, <2>2, <2>4, ChangeClient
  <2>6. ReleasingSet(k) = ReleasingSet(z.cl)
    BY <2>4 DEF ReleasingSet
  <2>7. Cache(k, OfLocal(c, Un))
    <3>1. Cache(z.cl, OfLocal(c, Un)) /\ b \in z.cl.hasCache /\ z.cl.refs[b] > 0
      BY <1>8, <1>12
    <3>2. b \notin z.cl.dying /\ b \notin ReleasingSet(z.cl) /\ b \notin z.cl.mReleasedIds
      BY <1>2, <3>1 DEF Cache
    <3>3. \A e \in BufferIds : e # b => k.refs[e] = z.cl.refs[e]
      BY <1>8, <2>1, <2>4
    <3> QED BY <2>4, <2>6, <3>1, <3>2, <3>3 DEF Cache
  <2>8. Moved(tx, tx', t, "got") /\ MoreCalls
    BY <1>5, <1>10, <1>12, GotMoved
  <2>9. q.cl.refs = [client[c].refs EXCEPT ![b] = client[c].refs[b] + 1] /\ q.cl.dying = z.cl.dying
    BY <2>4, <2>5 DEF f
  <2> QED BY <1>11, <2>3, <2>5, <2>7, <2>8, <2>9
<1>13. CASE /\ b \in z.cl.mBuffers \ z.cl.hasCache
            /\ Step(c, CreateCache(z, b)) /\ Goes("got") /\ UNCHANGED calls
  <2> DEFINE q == CreateCache(z, b)
  <2>1. z.cl.refs[b] \in Nat /\ b \notin z.cl.hasCache
    BY <1>2, <1>8, <1>13
  <2>2. /\ SameQueue(z, q) /\ q.cl.dying = z.cl.dying /\ Cache(q.cl, OfLocal(c, Un))
        /\ q.cl.refs = [z.cl.refs EXCEPT ![b] = z.cl.refs[b] + 1]
    BY <1>2, <1>8, <2>1, CreateWanted
  <2>3. Step(c, q)
    BY <1>13
  <2> HIDE DEF q
  <2>4. Moved(tx, tx', t, "got") /\ MoreCalls
    BY <1>5, <1>10, <1>13, GotMoved
  <2>5. q.cl.refs = [client[c].refs EXCEPT ![b] = client[c].refs[b] + 1]
    BY <1>8, <2>2
  <2> QED BY <1>11, <2>2, <2>3, <2>4, <2>5
<1>14. CASE /\ Step(c, [z EXCEPT !.cl.mCreating = TRUE]) /\ Goes("fetch")
            /\ calls' = calls \cup {Call("fetch", t)}
  <2> DEFINE q == [z EXCEPT !.cl.mCreating = TRUE]
             k == [z.cl EXCEPT !.mCreating = TRUE]
  <2>1. q = [z EXCEPT !.cl = k]
    BY <1>8 DEF Objects, Clients
  <2>2. Step(c, q)
    BY <1>14
  <2> HIDE DEF q
  <2>3. /\ k \in Clients /\ k.mReleasingIds = z.cl.mReleasingIds /\ k.mReleasedIds = z.cl.mReleasedIds
        /\ k.state = z.cl.state /\ k.locked = z.cl.locked /\ k.mInvalidateId = z.cl.mInvalidateId
        /\ k.refs = z.cl.refs /\ k.dying = z.cl.dying /\ k.hasCache = z.cl.hasCache /\ k.mBuffers = z.cl.mBuffers
    BY <1>8 DEF Clients
  <2> HIDE DEF k
  <2>4. SameQueue(z, q) /\ q.cl = k
    BY <1>8, <2>1, <2>3, ChangeClient
  <2>5. ReleasingSet(k) = ReleasingSet(z.cl)
    BY <2>3 DEF ReleasingSet
  <2>6. Cache(q.cl, OfLocal(c, Un))
    BY <1>8, <2>3, <2>4, <2>5 DEF Cache
  <2>7. After(c, z, q)
    BY <1>1, <1>2, <1>4, <2>3, <2>4, <2>6, AfterFacts
  <2>8. /\ Protocol(Streams', tx, pool, Live, St)
        /\ \A d \in Connections : \A s : HasResult(Streams'[d], s) <=> HasResult(Streams[d], s)
    BY <1>1, <1>2, <1>4, <2>2, <2>7, AfterStep
  <2>9. MoreCalls
    <3>1. Call("fetch", t) \in Calls /\ CallOK(Call("fetch", t)) /\ Call("fetch", t).fn = "fetch"
      BY TransactionsAssumption DEF Call, Calls, CallOK
    <3> QED BY <1>5, <1>14, <3>1 DEF MoreCalls
  <2>10. Moved(tx, tx', t, "fetch")
    <3> DEFINE pc == "fetch"
    <3>1. pc \in Places /\ tx' = [tx EXCEPT ![t].pc = pc]
      BY <1>14 DEF Places, Receiving
    <3> HIDE DEF pc
    <3>2. Moved(tx, tx', t, pc)
      BY <1>5, <3>1, PcMoved
    <3> QED BY <3>2 DEF pc
  <2>11. tx[t].pc \in Receiving \ {"got"} /\ "fetch" \in Receiving \ {"got"}
    BY <1>1 DEF Receiving
  <2>12. /\ Valid(Own(c), q) /\ q.cl.state = "up" /\ q.cl.dying = client[c].dying
         /\ Quiet(c, Streams[c], Stream(q)) /\ Notified(pool, c, q.cl, q.inv, onMessage, Stream(q))
         /\ q.cl.refs = client[c].refs
    BY <1>8, <2>3, <2>4, <2>7 DEF After
  <2> QED BY <1>1, <1>2, <1>9, <2>2, <2>6, <2>8, <2>9, <2>10, <2>11, <2>12, GiveUpStep
<1>15. CASE Step(c, z) /\ UNCHANGED <<tx, calls>>
  <2>1. MoreCalls /\ LessNotices(c)
    BY <1>1, <1>10, <1>15 DEF LessNotices
  <2> QED BY <1>1, <1>2, <1>4, <1>5, <1>15, <2>1, SyncOnly
<1> QED BY <1>6, <1>12, <1>13, <1>14, <1>15

\* A client changes its cache and says nothing.
LEMMA StillFacts ==
    ASSUME Inv, NEW c \in Connections, Up(c), NEW z, Valid(Own(c), z), z.inv = Own(c).inv,
           Stream(z) = Stream(Own(c)), z.cl.state = client[c].state,
           z.cl.mInvalidateId = client[c].mInvalidateId, Step(c, z), UNCHANGED poolVars
    PROVE  /\ z.cl.state = "up" /\ Streams' = Streams /\ Protocol(Streams', tx, pool, Live, St)
           /\ Quiet(c, Streams[c], Stream(z)) /\ Notified(pool, c, z.cl, z.inv, onMessage, Stream(z))
           /\ \A d \in Connections : \A s : HasResult(Streams'[d], s) <=> HasResult(Streams[d], s)
<1>1. /\ Own(c) \in Objects /\ Own(c).cl = client[c] /\ Own(c).cl.state = "up"
      /\ Stream(Own(c)) \in Seq(Messages) /\ Streams[c] = Stream(Own(c))
      /\ Notified(pool, c, Own(c).cl, Own(c).inv, onMessage, Stream(Own(c)))
      /\ Protocol(Streams, tx, pool, Live, St)
    BY UpFacts
<1>2. Quiet(c, Streams[c], Stream(z))
    BY <1>1, QuietSame
<1>3. Streams' = StreamsWith(c, z)
    BY StepParts
<1>4. Streams' = Streams
    BY <1>1, <1>3 DEF StreamsWith, Streams
<1>5. Notified(pool, c, z.cl, z.inv, onMessage, Stream(z))
    BY <1>1, NotifiedSame
<1> QED BY <1>1, <1>2, <1>4, <1>5

\* The return of fetch() preserves the invariant.
LEMMA FetchDoneStep ==
    ASSUME Inv, NEW t \in Transactions, NEW ok \in BOOLEAN, FetchDone(t, ok)
    PROVE  Inv'
<1> DEFINE c == tx[t].to
           b == tx[t].b
           z == [Own(c) EXCEPT !.cl.mCreating = FALSE]
           k == [client[c] EXCEPT !.mCreating = FALSE]
           made == ok /\ tx[t].pc = "fetched" /\ tx[t].b \notin z.cl.mBuffers
<1>1. /\ tx[t].pc \in {"fetched", "unfetched"} /\ Up(c) /\ UNCHANGED poolVars
      /\ UNCHANGED <<onMessage, alloc>> /\ UNCHANGED calls
    BY DEF FetchDone, CacheFree
<1>2. /\ Step(c, IF made THEN CreateCache(z, b) ELSE z)
      /\ tx' = [tx EXCEPT ![t].pc = IF made THEN "got" ELSE "failed"]
    BY DEF FetchDone
<1>3. tx[t].pc \in Receiving \ {"got"} /\ tx[t].pc \in Receiving
    BY <1>1 DEF Receiving
<1>4. /\ c \in Connections /\ b \in BufferIds /\ b \notin OfLocal(c, Un)
      /\ client[c].refs[b] \in Nat /\ client[c].refs \in [BufferIds -> Int]
    BY <1>1, <1>3, Wanted
<1>5. TypeOK /\ calls \subseteq Calls /\ tx \in AllTransfers
  <2>1. TypeOK
    BY DEF Inv
  <2> QED BY <2>1 DEF TypeOK
<1>6. /\ Own(c) \in Objects /\ Room(Own(c)) >= 0 /\ Own(c).cl = client[c]
      /\ Cache(Own(c).cl, OfLocal(c, Un)) /\ client[c] \in Clients
    BY <1>1, <1>4, UpFacts DEF Objects
<1>7. z = [Own(c) EXCEPT !.cl = k]
    BY <1>6 DEF Objects, Clients
<1>8. /\ k \in Clients /\ k.mReleasingIds = client[c].mReleasingIds /\ k.mReleasedIds = client[c].mReleasedIds
      /\ k.state = client[c].state /\ k.locked = client[c].locked /\ k.mInvalidateId = client[c].mInvalidateId
      /\ k.refs = client[c].refs /\ k.dying = client[c].dying /\ k.hasCache = client[c].hasCache
      /\ k.mBuffers = client[c].mBuffers
    BY <1>6 DEF Clients
<1> HIDE DEF k, z
<1>9. SameQueue(Own(c), z) /\ z.cl = k
    BY <1>6, <1>7, <1>8, ChangeClient
<1>10. ReleasingSet(k) = ReleasingSet(client[c])
    BY <1>8 DEF ReleasingSet
<1>11. Cache(z.cl, OfLocal(c, Un))
    BY <1>6, <1>8, <1>9, <1>10 DEF Cache
<1>12. z \in Objects /\ Room(z) >= 0 /\ Valid(Own(c), z) /\ z.inv = Own(c).inv /\ Stream(z) = Stream(Own(c))
    BY <1>9 DEF SameQueue, Valid
<1>13. MoreCalls
    BY <1>1, <1>5 DEF MoreCalls
<1>14. CASE made
  <2> DEFINE q == CreateCache(z, b)
  <2>1. Step(c, q) /\ tx' = [tx EXCEPT ![t].pc = "got"]
    BY <1>2, <1>14
  <2>2. Moved(tx, tx', t, "got")
    BY <1>5, <2>1, GotMoved
  <2>3. b \notin z.cl.hasCache /\ z.cl.refs[b] \in Nat
    BY <1>4, <1>8, <1>9, <1>11, <1>14 DEF Cache
  <2>4. /\ SameQueue(z, q) /\ q.cl.dying = z.cl.dying /\ Cache(q.cl, OfLocal(c, Un))
        /\ q.cl.refs = [z.cl.refs EXCEPT ![b] = z.cl.refs[b] + 1]
    BY <1>4, <1>11, <1>12, <2>3, CreateWanted, SMTT(30)
  <2> HIDE DEF q
  <2>5. /\ Valid(z, q) /\ q.inv = z.inv /\ Stream(q) = Stream(z) /\ q.cl.state = z.cl.state
        /\ q.cl.mInvalidateId = z.cl.mInvalidateId
    BY <2>4 DEF SameQueue
  <2>6. Valid(Own(c), q)
    <3>1. Len(Own(c).mail) \in Nat /\ Len(z.mail) \in Nat /\ Len(q.mail) \in Nat
      BY <1>6, <1>12, <2>5 DEF Valid, Objects
    <3> QED BY <1>12, <2>5, <3>1 DEF Valid
  <2>7. /\ q.cl.state = "up" /\ Protocol(Streams', tx, pool, Live, St)
        /\ Quiet(c, Streams[c], Stream(q)) /\ Notified(pool, c, q.cl, q.inv, onMessage, Stream(q))
        /\ \A d \in Connections : \A s : HasResult(Streams'[d], s) <=> HasResult(Streams[d], s)
    BY <1>1, <1>4, <1>8, <1>9, <1>12, <2>1, <2>5, <2>6, StillFacts
  <2>8. q.cl.refs = [client[c].refs EXCEPT ![b] = client[c].refs[b] + 1] /\ q.cl.dying = client[c].dying
    BY <1>8, <1>9, <2>4
  <2>9. c = tx[t].to /\ b = tx[t].b
    OBVIOUS
  <2> HIDE DEF c, b
  <2>10. /\ Up(c) /\ UNCHANGED poolVars /\ UNCHANGED <<onMessage, alloc>>
         /\ tx[t].pc \in Receiving \ {"got"} /\ Step(c, q) /\ Cache(q.cl, OfLocal(c, Un))
    BY <1>1, <1>3, <2>1, <2>4
  <2> QED BY <1>13, <2>2, <2>6, <2>7, <2>8, <2>9, <2>10, GetStep
<1>15. CASE ~made
  <2> DEFINE pc == "failed"
  <2>1. Step(c, z) /\ tx' = [tx EXCEPT ![t].pc = pc]
    BY <1>2, <1>15
  <2>2. pc \in Places /\ pc \in Receiving \ {"got"}
    BY DEF Places, Receiving
  <2> HIDE DEF pc
  <2>3. Moved(tx, tx', t, pc)
    BY <1>5, <2>1, <2>2, PcMoved
  <2>4. /\ z.cl.state = "up" /\ Protocol(Streams', tx, pool, Live, St)
        /\ Quiet(c, Streams[c], Stream(z)) /\ Notified(pool, c, z.cl, z.inv, onMessage, Stream(z))
        /\ \A d \in Connections : \A s : HasResult(Streams'[d], s) <=> HasResult(Streams[d], s)
    BY <1>1, <1>4, <1>8, <1>9, <1>12, <2>1, StillFacts
  <2>5. z.cl.refs = client[c].refs /\ z.cl.dying = client[c].dying
    BY <1>8, <1>9
  <2>6. tx[t].to = c
    OBVIOUS
  <2> HIDE DEF c
  <2> QED BY <1>1, <1>3, <1>4, <1>11, <1>12, <1>13, <2>1, <2>2, <2>3, <2>4, <2>5, <2>6, GiveUpStep
<1> QED BY <1>14, <1>15

\* What a client has still to release is part of what it says.
LEMMA ReleasingHeard ==
    ASSUME NEW z \in Objects, NEW b \in ReleasingSet(z.cl)
    PROVE  \E i \in 1 .. Len(Stream(z)) : Releases(Stream(z)[i], b)
<1> DEFINE ids == z.cl.mReleasingIds
<1>1. ids \in Seq(BufferIds) /\ z.mail \in Seq(Messages)
    BY DEF Objects, Clients
<1>2. PICK i \in 1 .. Len(ids) : b = ids[i]
    BY DEF ReleasingSet
<1> HIDE DEF ids
<1>3. /\ NotUsed(ids) \in Seq(Messages) /\ Len(NotUsed(ids)) = Len(ids)
      /\ NotUsed(ids)[i] = Message("NOT_USED", ids[i], 0, 0)
    BY <1>1, <1>2, NotUsedItems
<1>4. Releases(NotUsed(ids)[i], b)
    BY <1>2, <1>3 DEF Releases, Message
<1> DEFINE n == NotUsed(ids)
           m == z.mail
<1>5. n \in Seq(Messages) /\ m \in Seq(Messages) /\ i \in 1 .. Len(n)
    BY <1>1, <1>2, <1>3
<1> HIDE DEF n, m
<1>6. /\ Len(m \o n) = Len(m) + Len(n) /\ Len(m) \in Nat /\ Len(n) \in Nat /\ (m \o n)[Len(m) + i] = n[i]
    BY <1>5, ConcatItems
<1>7. Len(m) + i \in 1 .. Len(m \o n)
    BY <1>5, <1>6
<1>8. Stream(z) = m \o n
    BY DEF Stream, m, n, ids
<1> QED BY <1>4, <1>6, <1>7, <1>8 DEF n

\* The buffer that allocate() has for the application is new to it.
LEMMA AllocatedFacts ==
    ASSUME Inv, alloc.pc = "got", NEW b, b = alloc.b
    PROVE  /\ b \in BufferIds /\ b \in Un /\ <<Local, b>> \in pool.mUsingBuffers
           /\ b \notin client[Local].dying /\ b \notin ReleasingSet(client[Local])
           /\ client[Local].refs[b] = 0 /\ Al = {b}
           /\ Holds(pool.mUsingBuffers, Local, Streams[Local], b)
<1>1. TypeOK /\ Holdings(client, Streams, pool.mUsingBuffers, tx, Un, Al)
    BY DEF Inv
<1>2. b \in BufferIds /\ Al = {b}
    BY <1>1 DEF TypeOK, Al
<1>3. Fresh(client[Local], Streams[Local], pool.mUsingBuffers, Al, Un)
    BY <1>1 DEF Holdings
<1>4. /\ b \in Un /\ <<Local, b>> \in pool.mUsingBuffers /\ b \notin client[Local].dying
      /\ \A i \in 1 .. Len(Streams[Local]) : ~Releases(Streams[Local][i], b)
    BY <1>2, <1>3 DEF Fresh
<1>5. client[Local].refs[b] = 0
    BY <1>4, ConnectionsAssumption DEF Un, Unused
<1>6. Own(Local) \in Objects /\ Own(Local).cl = client[Local] /\ Streams[Local] = Stream(Own(Local))
      /\ Stream(Own(Local)) \in Seq(Messages)
    BY <1>1, OwnType, ConnectionsAssumption
<1>7. b \notin ReleasingSet(client[Local])
    BY <1>4, <1>6, ReleasingHeard
<1>8. Holds(pool.mUsingBuffers, Local, Streams[Local], b)
  <2>1. Len(Streams[Local]) \in Nat
    BY <1>6
  <2>2. 1 .. (Len(Streams[Local]) + 1) - 1 = 1 .. Len(Streams[Local])
    BY <2>1
  <2> QED BY <1>4, <2>2 DEF Holds, Granted
<1> QED BY <1>2, <1>4, <1>5, <1>7, <1>8

\* createCache() for it
LEMMA CreateAllocated ==
    ASSUME Inv, Up(Local), NEW b \in BufferIds, alloc.pc = "got", b = alloc.b,
           NEW z, Synced(Own(Local), z, 0), NEW q, q = CreateCache(z, b),
           Step(Local, q), UNCHANGED poolVars, UNCHANGED <<calls, onMessage, tx>>,
           alloc' = [pc |-> "idle", b |-> FirstId]
    PROVE  Inv'
<1>1. /\ b \in Un /\ b \notin client[Local].dying /\ b \notin ReleasingSet(client[Local])
      /\ client[Local].refs[b] = 0 /\ Al = {b}
    BY AllocatedFacts
<1>2. 0 \in Nat /\ 0 <= pool.mInvalidationId /\ Local \in Connections
    BY BasicsHold, ConnectionsAssumption DEF Basics, Pools
<1>3. Unsaid(Local, z) /\ Notified(pool, Local, z.cl, z.inv, onMessage, Stream(z))
    BY <1>2, SyncSaid
<1>4. /\ Cache(z.cl, OfLocal(Local, Un)) /\ z \in Objects /\ Room(z) >= 0 /\ SameHeld(client[Local], z.cl)
      /\ ReleasingSet(z.cl) \subseteq ReleasingSet(client[Local]) /\ z.cl.mReleasedIds = {}
      /\ Quiet(Local, Streams[Local], Stream(z))
    BY <1>3 DEF Unsaid
<1>5. z.cl.refs = client[Local].refs /\ z.cl.dying = client[Local].dying /\ z.cl.state = client[Local].state
    BY <1>4 DEF SameHeld
<1>6. /\ SameQueue(z, q) /\ q.cl.dying = z.cl.dying /\ q.cl.refs = [z.cl.refs EXCEPT ![b] = 1]
      /\ \A un, un2 : /\ Cache(z.cl, un) /\ un \ {b} \subseteq un2 /\ b \notin z.cl.dying
                      /\ b \notin ReleasingSet(z.cl) /\ b \notin z.cl.mReleasedIds
                      => Cache(q.cl, un2)
    BY <1>4, CreateFields
<1>7. \A un2 : Un \ {b} \subseteq un2 => Cache(q.cl, un2)
  <2>1. Cache(z.cl, Un) /\ b \notin z.cl.dying /\ b \notin ReleasingSet(z.cl) /\ b \notin z.cl.mReleasedIds
    BY <1>1, <1>4, <1>5 DEF OfLocal
  <2> QED BY <1>6, <2>1
<1>8. /\ Valid(z, q) /\ q.inv = z.inv /\ Stream(q) = Stream(z) /\ q.cl.state = z.cl.state
      /\ q.cl.mInvalidateId = z.cl.mInvalidateId
    BY <1>6 DEF SameQueue
<1>9. Valid(Own(Local), q)
  <2>1. Valid(Own(Local), z) /\ Own(Local) \in Objects
    BY <1>2, UpFacts DEF Synced
  <2>2. Len(Own(Local).mail) \in Nat /\ Len(z.mail) \in Nat /\ Len(q.mail) \in Nat
    BY <1>4, <1>8, <2>1 DEF Valid, Objects
  <2> QED BY <1>8, <2>1, <2>2 DEF Valid
<1>10. /\ client'[Local] = q.cl /\ Streams'[Local] = Stream(q) /\ Streams' = StreamsWith(Local, q) /\ Live' = Live
       /\ \A d \in Connections : d # Local => client'[d] = client[d] /\ Streams'[d] = Streams[d]
    BY <1>2, <1>9, StepParts
<1>11. Streams' = StreamsWith(Local, z)
    BY <1>8, <1>10 DEF StreamsWith
<1>12. /\ Protocol(Streams', tx, pool, Live, St)
       /\ \A d \in Connections : \A t : HasResult(Streams'[d], t) <=> HasResult(Streams[d], t)
    BY <1>3, <1>11 DEF Unsaid
<1>13. Notified(pool, Local, q.cl, q.inv, onMessage', Stream(q)) /\ q.cl.state = "up"
  <2>1. Notified(pool, Local, q.cl, q.inv, onMessage, Stream(q))
    BY <1>3, <1>8, NotifiedSame
  <2> QED BY <1>5, <1>8, <2>1 DEF Up
<1>14. PICK C2, S2 : C2 = client' /\ S2 = Streams'
    OBVIOUS
<1> DEFINE un2 == Unused(C2, S2, tx, Live)
<1>15. tx \in AllTransfers /\ client[Local].refs \in [BufferIds -> Int] /\ Streams[Local] \in Seq(Messages)
       /\ Holdings(client, Streams, pool.mUsingBuffers, tx, Un, Al)
    BY <1>2, BasicsHold, UpFacts DEF Basics
<1>16. Un \ {b} \subseteq un2
  <2>1. \A d \in Connections, e \in BufferIds : e # b /\ client[d].refs[e] = 0 => C2[d].refs[e] = 0
    <3>1. C2[Local].refs = [client[Local].refs EXCEPT ![b] = 1]
      BY <1>5, <1>6, <1>10, <1>14
    <3>2. \A e \in BufferIds : e # b => C2[Local].refs[e] = client[Local].refs[e]
      BY <1>15, <3>1
    <3>3. \A d \in Connections : d # Local => C2[d] = client[d]
      BY <1>10, <1>14
    <3> QED BY <3>2, <3>3
  <2>2. \A t \in Transactions : Interest(S2, tx, Live, t) => Interest(Streams, tx, Live, t)
    BY <1>12, <1>14, <1>15 DEF Interest, Unfinished, AllTransfers, TransferStates
  <2> QED BY <2>1, <2>2 DEF Un, Unused
<1>17. Cache(C2[Local], un2)
    BY <1>7, <1>10, <1>14, <1>16
<1>18. Others(client, Streams, tx, Un, C2, S2, tx, un2, Local)
    BY <1>2, <1>10, <1>14 DEF Others
<1> HIDE DEF un2
<1>19. /\ C2[Local].refs = [client[Local].refs EXCEPT ![b] = 1] /\ C2[Local].dying = client[Local].dying
       /\ C2[Local].state = client[Local].state /\ Quiet(Local, Streams[Local], S2[Local])
    BY <1>4, <1>5, <1>6, <1>8, <1>10, <1>14
<1>20. Holdings(C2, S2, pool.mUsingBuffers, tx, un2, {})
    BY <1>1, <1>15, <1>17, <1>18, <1>19, AllocateStep
<1>21. Al' = {}
    BY DEF Al
<1>22. Holdings(client', Streams', pool.mUsingBuffers, tx', Unused(client', Streams', tx', Live), Al')
    BY <1>14, <1>20, <1>21 DEF un2
<1>23. MoreCalls /\ AllocSteps /\ LessNotices(Local)
  <2>1. calls \subseteq Calls
    BY DEF Inv, TypeOK
  <2> QED BY <2>1, IdsAssumption DEF MoreCalls, AllocSteps, LessNotices, BufferIds
<1>24. tx' \in AllTransfers /\ Protocol(Streams', tx', pool, Live, St)
    BY <1>12, <1>15
<1> QED BY <1>2, <1>9, <1>13, <1>22, <1>23, <1>24, ClientStep

\* The return of allocate() preserves the invariant.
LEMMA AllocateDoneStep ==
    ASSUME Inv, NEW ok \in BOOLEAN, NEW expired, AllocateDone(ok, expired)
    PROVE  Inv'
<1> DEFINE b == alloc.b
           z == EvictCaches(SyncReleased(Own(Local), 0), expired)
           q == PostRelease(Own(Local), b)
<1>1. /\ alloc.pc = "got" /\ Up(Local) /\ UNCHANGED poolVars /\ UNCHANGED <<calls, onMessage, tx>>
      /\ alloc' = [pc |-> "idle", b |-> FirstId]
    BY DEF AllocateDone, CacheFree
<1>2. Step(Local, IF ok THEN CreateCache(z, b) ELSE q)
    BY DEF AllocateDone
<1>3. /\ b \in BufferIds /\ b \in Un /\ b \notin client[Local].dying /\ b \notin ReleasingSet(client[Local])
      /\ client[Local].refs[b] = 0 /\ Al = {b} /\ Holds(pool.mUsingBuffers, Local, Streams[Local], b)
    BY <1>1, AllocatedFacts
<1>4. /\ Own(Local) \in Objects /\ Room(Own(Local)) >= 0 /\ NoRepeat(Own(Local).cl.mReleasingIds)
      /\ Own(Local).cl = client[Local] /\ Own(Local).cl.state = "up" /\ Cache(Own(Local).cl, OfLocal(Local, Un))
      /\ Local \in Connections
    BY <1>1, UpFacts, ConnectionsAssumption
<1>5. CASE ok
  <2>1. Synced(Own(Local), z, 0)
    BY <1>4, EvictFields
  <2>2. Step(Local, CreateCache(z, b))
    BY <1>2, <1>5
  <2> HIDE DEF z
  <2> QED BY <1>1, <1>3, <2>1, <2>2, CreateAllocated
<1>6. CASE ~ok
  <2>1. Step(Local, q)
    BY <1>2, <1>6
  <2>2. Deleted(Own(Local), q, b)
    BY <1>3, <1>4, PostReleaseFields
  <2> HIDE DEF q, b
  <2>3. /\ Valid(Own(Local), q) /\ q.inv = Own(Local).inv /\ SameRest(client[Local], q.cl)
        /\ Stream(q) = Append(Stream(Own(Local)), Message("NOT_USED", b, 0, 0))
        /\ Cache(q.cl, OfLocal(Local, Un))
    BY <1>3, <1>4, <2>2 DEF Deleted, OfLocal
  <2>4. /\ q.cl.state = "up" /\ q.cl.mInvalidateId = client[Local].mInvalidateId
        /\ q.cl.refs = client[Local].refs /\ q.cl.dying = client[Local].dying \ {b}
    BY <1>3, <1>4, <2>3 DEF SameRest, SameHeld
  <2>5. AllocSteps /\ Al' = Al \ {b}
    BY <1>1, <1>3, IdsAssumption DEF AllocSteps, Al, BufferIds
  <2> QED BY <1>1, <1>3, <1>4, <2>1, <2>3, <2>4, <2>5, ReleaseSaid
<1> QED BY <1>5, <1>6

\* A stream is the messages in the queue, and then releases.
LEMMA StreamEnd ==
    ASSUME NEW z \in Objects
    PROVE  /\ Stream(z) \in Seq(Messages) /\ z.mail \in Seq(Messages)
           /\ Len(z.mail) \in Nat /\ Len(z.mail) <= Len(Stream(z))
           /\ \A i \in 1 .. Len(z.mail) : z.mail[i] = Stream(z)[i]
           /\ \A i \in Len(z.mail) + 1 .. Len(Stream(z)) : Stream(z)[i].newStatus = "NOT_USED"
           /\ z.cl.mReleasingIds = <<>> => Stream(z) = z.mail
<1> DEFINE ids == z.cl.mReleasingIds
           A == NotUsed(ids)
           m == z.mail
           s == m \o A
<1>1. m \in Seq(Messages) /\ ids \in Seq(BufferIds)
    BY DEF Objects, Clients
<1> HIDE DEF ids
<1>2. /\ A \in Seq(Messages) /\ Len(A) = Len(ids)
      /\ \A i \in 1 .. Len(ids) : A[i] = Message("NOT_USED", ids[i], 0, 0)
    BY <1>1, NotUsedItems
<1> HIDE DEF A, m
<1>3. /\ s \in Seq(Messages) /\ Len(s) = Len(m) + Len(A) /\ Len(m) \in Nat /\ Len(A) \in Nat
      /\ (\A i \in 1 .. Len(m) : s[i] = m[i]) /\ \A i \in 1 .. Len(A) : s[Len(m) + i] = A[i]
    BY <1>1, <1>2, ConcatItems
<1> HIDE DEF s
<1>4. ASSUME NEW i \in Len(m) + 1 .. Len(s) PROVE s[i].newStatus = "NOT_USED"
  <2> DEFINE j == i - Len(m)
  <2>1. j \in 1 .. Len(A) /\ i = Len(m) + j
    BY <1>3
  <2> HIDE DEF j
  <2>2. s[i] = Message("NOT_USED", ids[j], 0, 0)
    BY <1>2, <1>3, <2>1
  <2> QED BY <2>2 DEF Message
<1>5. ASSUME ids = <<>> PROVE s = m
  <2>1. Len(A) = 0
    BY <1>2, <1>5
  <2>2. Len(s) = Len(m) /\ \A i \in 1 .. Len(m) : s[i] = m[i]
    BY <1>3, <2>1
  <2>3. s = [i \in 1 .. Len(s) |-> s[i]] /\ m = [i \in 1 .. Len(m) |-> m[i]]
    BY <1>1, <1>3
  <2> QED BY <2>2, <2>3
<1>6. Stream(z) = s /\ z.mail = m /\ z.cl.mReleasingIds = ids
    BY DEF Stream, s, A, m, ids
<1> QED BY <1>1, <1>3, <1>4, <1>5, <1>6

\* A client that has nothing.
LEMMA InitClientType ==
    ASSUME NEW state \in {"new", "up", "gone"}
    PROVE  /\ InitClient(state) \in Clients /\ InitClient(state).state = state
           /\ InitClient(state).mReleasingIds = <<>> /\ InitClient(state).mInvalidateId = 0
           /\ \A b \in BufferIds : InitClient(state).refs[b] = 0
    BY DEF InitClient, Clients

\* The transfers to a connection that is lost are given up.
LeftAlone(x, x2, c) ==
    /\ x2 \in AllTransfers
    /\ \A t \in Transactions :
        /\ x2[t].b = x[t].b /\ x2[t].from = x[t].from /\ x2[t].to = x[t].to
        /\ \/ x2[t] = x[t] /\ (x[t].to = c => x[t].pc \in {"none", "done", "abandoned"})
           \/ x[t].to = c /\ x[t].pc \notin {"none", "done", "abandoned"} /\ x2[t].pc = "abandoned"

\* The assignment of Disconnect() does that.
LEMMA AllAbandoned ==
    ASSUME NEW x \in AllTransfers, NEW c, NEW x2,
           x2 = [t \in Transactions |-> IF x[t].to = c /\ x[t].pc \notin {"none", "done"}
                                        THEN [x[t] EXCEPT !.pc = "abandoned"] ELSE x[t]]
    PROVE  LeftAlone(x, x2, c)
<1>1. ASSUME NEW t \in Transactions
      PROVE  /\ x2[t] \in TransferStates
             /\ x2[t].b = x[t].b /\ x2[t].from = x[t].from /\ x2[t].to = x[t].to
             /\ \/ x2[t] = x[t] /\ (x[t].to = c => x[t].pc \in {"none", "done", "abandoned"})
                \/ x[t].to = c /\ x[t].pc \notin {"none", "done", "abandoned"} /\ x2[t].pc = "abandoned"
  <2>1. x[t] \in TransferStates
    BY DEF AllTransfers
  <2>2. CASE x[t].to = c /\ x[t].pc \notin {"none", "done"}
    <3>1. x2[t] = [x[t] EXCEPT !.pc = "abandoned"]
      BY <2>2
    <3>2. x[t].pc = "abandoned" => x2[t] = x[t]
      BY <2>1, <3>1 DEF TransferStates
    <3> QED BY <2>1, <2>2, <3>1, <3>2 DEF TransferStates
  <2>3. CASE ~(x[t].to = c /\ x[t].pc \notin {"none", "done"})
    <3>1. x2[t] = x[t]
      BY <2>3
    <3> QED BY <2>1, <2>3, <3>1
  <2> QED BY <2>2, <2>3
<1>2. x2 \in AllTransfers
    BY <1>1 DEF AllTransfers
<1> QED BY <1>1, <1>2 DEF LeftAlone

\* Other connections do not see it.
LEMMA LeftAloneFacts ==
    ASSUME NEW x \in AllTransfers, NEW c, NEW x2, LeftAlone(x, x2, c)
    PROVE  /\ \A d, b : d # c => Got(x2, d, b) = Got(x, d, b)
           /\ \A b : Got(x2, c, b) = {}
           /\ \A b : Abandoned(x, Local, b) => Abandoned(x2, Local, b)
           /\ \A t \in Transactions :
                \/ x2[t] = x[t]
                \/ /\ x2[t].b = x[t].b /\ x2[t].from = x[t].from /\ x2[t].to = x[t].to
                   /\ x[t].pc \in Receiving \cup {"sent"} /\ x2[t].pc = "abandoned"
           /\ \A t \in Transactions : x2[t].pc \in Receiving => x2[t] = x[t] /\ x[t].to # c
<1>1. \A t \in Transactions : x[t].pc \in {"none", "sent", "done", "abandoned"} \cup Receiving
    BY DEF AllTransfers, TransferStates
<1>2. /\ \A d, b : d # c => Got(x2, d, b) = Got(x, d, b)
      /\ \A b : Got(x2, c, b) = {}
    BY DEF LeftAlone, Got
<1>3. \A b : Abandoned(x, Local, b) => Abandoned(x2, Local, b)
    BY DEF LeftAlone, Abandoned
<1>4. ASSUME NEW t \in Transactions
      PROVE  /\ \/ x2[t] = x[t]
                \/ /\ x2[t].b = x[t].b /\ x2[t].from = x[t].from /\ x2[t].to = x[t].to
                   /\ x[t].pc \in Receiving \cup {"sent"} /\ x2[t].pc = "abandoned"
             /\ x2[t].pc \in Receiving => x2[t] = x[t] /\ x[t].to # c
    BY <1>1 DEF LeftAlone, Receiving
<1> QED BY <1>2, <1>3, <1>4

\* The death of a remote client preserves the invariant.
LEMMA DisconnectStep ==
    ASSUME Inv, NEW c \in Connections, Disconnect(c)
    PROVE  Inv'
<1> DEFINE gone == InitClient("gone")
<1>1. /\ c # Local /\ Up(c) /\ client' = [client EXCEPT ![c] = gone]
      /\ onMessage' = {y \in onMessage : y[1] # c} /\ calls' = calls \cup {Call("close", c)}
      /\ inv' = [inv EXCEPT ![c] = <<>>] /\ mail' = mail /\ alloc' = alloc
      /\ pool' = pool /\ op' = op /\ unread' = unread /\ taken' = taken
    BY DEF Disconnect, poolVars
<1>2. LeftAlone(tx, tx', c) /\ tx \in AllTransfers
  <2>1. tx \in AllTransfers
    BY BasicsHold DEF Basics
  <2>2. tx' = [t \in Transactions |-> IF tx[t].to = c /\ tx[t].pc \notin {"none", "done"}
                                      THEN [tx[t] EXCEPT !.pc = "abandoned"] ELSE tx[t]]
    BY DEF Disconnect
  <2> QED BY <2>1, <2>2, AllAbandoned
<1>3. TypeOK /\ Order /\ Notices /\ Consistent(pool) /\ pool.posted = <<>>
    BY DEF Inv
<1>4. /\ gone \in Clients /\ gone.state = "gone" /\ gone.mReleasingIds = <<>> /\ gone.mInvalidateId = 0
      /\ \A b \in BufferIds : gone.refs[b] = 0
    BY InitClientType
<1> HIDE DEF gone
<1>5. /\ client \in [Connections -> Clients] /\ inv \in [Connections -> Seq(Invalidations)]
      /\ mail \in [Connections -> Seq(Messages)]
    BY <1>3 DEF TypeOK
<1>6. /\ client'[c] = gone /\ inv'[c] = <<>>
      /\ \A d \in Connections : d # c => client'[d] = client[d] /\ inv'[d] = inv[d]
      /\ client' \in [Connections -> Clients] /\ inv' \in [Connections -> Seq(Invalidations)]
    BY <1>1, <1>4, <1>5
<1>7. TypeOK'
  <2>1. op' \in Calls /\ CallOK(op)' /\ unread' \in SUBSET pool'.mConnectionIds
    BY <1>1, <1>3 DEF TypeOK, CallOK
  <2>2. calls' \in SUBSET Calls /\ (\A k \in calls' : CallOK(k) /\ k.fn \in Waiting)
    <3>1. Call("close", c) \in Calls /\ CallOK(Call("close", c)) /\ Call("close", c).fn \in Waiting
      BY ConnectionsAssumption DEF Call, Calls, CallOK, Waiting
    <3> QED BY <1>1, <1>3, <3>1 DEF TypeOK
  <2>3. \A d \in Connections : taken'[d] <= Len(mail'[d]) /\ Room(Own(d))' >= 0
    BY <1>1, <1>3 DEF TypeOK, Room, Own
  <2>4. /\ taken' \in [Connections -> Nat] /\ onMessage' \in SUBSET (Connections \X Nat)
        /\ alloc' \in [pc : {"idle", "asking", "got"}, b : BufferIds] /\ tx' \in AllTransfers
        /\ mail' \in [Connections -> Seq(Messages)]
    BY <1>1, <1>2, <1>3 DEF TypeOK, LeftAlone
  <2> QED BY <1>6, <2>1, <2>2, <2>3, <2>4 DEF TypeOK, CallOK
<1>8. /\ Own(c) \in Objects /\ Own(c).mail = mail[c] /\ Streams[c] = Stream(Own(c))
    BY <1>3, OwnType
<1>9. /\ mail[c] \in Seq(Messages) /\ Len(mail[c]) <= Len(Streams[c]) /\ Len(mail[c]) \in Nat
      /\ Len(Streams[c]) \in Nat
      /\ \A i \in 1 .. Len(mail[c]) : mail[c][i] = Streams[c][i]
      /\ \A i \in Len(mail[c]) + 1 .. Len(Streams[c]) : Streams[c][i].newStatus = "NOT_USED"
    BY <1>8, StreamEnd
<1>10. Streams' = [Streams EXCEPT ![c] = mail[c]]
  <2>1. PICK z : z = Own(c)'
    OBVIOUS
  <2>2. z = [cl |-> gone, mail |-> mail[c], taken |-> taken[c], inv |-> <<>>]
    BY <1>1, <1>6, <2>1 DEF Own
  <2>3. z \in Objects /\ z.cl.mReleasingIds = <<>> /\ z.mail = mail[c]
    BY <1>3, <1>4, <1>9, <2>2 DEF Objects, TypeOK
  <2>4. Stream(z) = mail[c]
    BY <2>3, StreamEnd
  <2>5. Streams'[c] = Stream(z)
    BY <2>1 DEF Streams
  <2>6. \A d \in Connections : d # c => Streams'[d] = Streams[d]
    BY <1>1, <1>6 DEF Streams, Own
  <2> QED BY <2>4, <2>5, <2>6 DEF Streams
<1>11. Live' = Live /\ (\A d \in Connections : St'[d] = IF d = c THEN "gone" ELSE St[d])
    BY <1>1, <1>4, <1>6 DEF Live, Closing, Running, Handled, St
<1>12. PICK S2, x2, C2, st2 : S2 = Streams' /\ x2 = tx' /\ C2 = client' /\ st2 = St'
    OBVIOUS
<1>13. Streams \in AllStreams /\ Protocol(Streams, tx, pool, Live, St)
    BY BasicsHold DEF Inv, Basics
<1>14. S2 = [Streams EXCEPT ![c] = mail[c]] /\ LeftAlone(tx, x2, c) /\ x2 \in AllTransfers
    BY <1>2, <1>10, <1>12 DEF LeftAlone
<1>15. S2 \in AllStreams /\ Protocol(S2, tx, pool, Live, St)
    BY <1>2, <1>9, <1>13, <1>14, CutStream, ZenonT(30)
<1>16. /\ \A d, b : d # c => Got(x2, d, b) = Got(tx, d, b)
       /\ \A b : Got(x2, c, b) = {}
       /\ \A b : Abandoned(tx, Local, b) => Abandoned(x2, Local, b)
       /\ \A t \in Transactions :
            \/ x2[t] = tx[t]
            \/ /\ x2[t].b = tx[t].b /\ x2[t].from = tx[t].from /\ x2[t].to = tx[t].to
               /\ tx[t].pc \in Receiving \cup {"sent"} /\ x2[t].pc = "abandoned"
       /\ \A t \in Transactions : x2[t].pc \in Receiving => x2[t] = tx[t] /\ tx[t].to # c
    BY <1>2, <1>14, LeftAloneFacts
<1>17. Protocol(S2, x2, pool, Live, St)
    BY <1>2, <1>14, <1>15, <1>16, MoveOn
<1>18. Protocol(S2, x2, pool, Live, st2)
  <2>1. \A d \in Connections : St[d] # "new" => st2[d] # "new"
    BY <1>11, <1>12
  <2>2. ASSUME NEW t \in Transactions, x2[t].pc \in Receiving PROVE st2[x2[t].to] = "up"
    <3>1. St[x2[t].to] = "up" /\ x2[t].to # c
      BY <1>16, <1>17, <2>2 DEF Protocol, Here
    <3>2. x2[t].to \in Connections
      BY <1>14 DEF AllTransfers, TransferStates
    <3> QED BY <1>11, <1>12, <3>1, <3>2
  <2> QED BY <1>14, <1>17, <2>1, <2>2, OtherStates
<1> DEFINE un2 == Unused(C2, S2, x2, Live)
<1>19. Un \subseteq un2
  <2>1. \A d \in Connections, b \in BufferIds : client[d].refs[b] = 0 => C2[d].refs[b] = 0
    BY <1>4, <1>6, <1>12
  <2>2. ASSUME NEW t \in Transactions, Interest(S2, x2, Live, t) PROVE Interest(Streams, tx, Live, t) /\ x2[t].b = tx[t].b
    <3>1. x2[t].b = tx[t].b /\ x2[t].to = tx[t].to /\ tx[t].to \in Connections
      BY <1>2, <1>14 DEF LeftAlone, AllTransfers, TransferStates
    <3>2. \A d \in Connections : d # c => S2[d] = Streams[d]
      BY <1>13, <1>14 DEF AllStreams
    <3>3. HasResult(S2[c], t) => HasResult(Streams[c], t)
      <4>1. S2[c] = mail[c]
        BY <1>13, <1>14 DEF AllStreams
      <4>2. \A i \in 1 .. Len(mail[c]) : i \in 1 .. Len(Streams[c])
        BY <1>9
      <4> QED BY <1>9, <4>1, <4>2 DEF HasResult
    <3>4. x2[t].pc # "none" /\ (x2[t].pc = "done" => HasResult(S2[x2[t].to], t)) /\ x2[t].to \in Live
      BY <2>2 DEF Interest, Unfinished
    <3>5. tx[t].pc # "none" /\ (tx[t].pc = "done" => x2[t].pc = "done")
      BY <1>16, <3>4 DEF Receiving
    <3> QED BY <3>1, <3>2, <3>3, <3>4, <3>5 DEF Interest, Unfinished
  <2> QED BY <2>1, <2>2 DEF Un, Unused
<1>20. Others(client, Streams, tx, Un, C2, S2, x2, un2, c)
  <2>1. \A d \in Connections : d # c => C2[d] = client[d] /\ S2[d] = Streams[d]
    BY <1>6, <1>12, <1>13, <1>14 DEF AllStreams
  <2> QED BY <1>16, <1>19, <2>1 DEF Others
<1> HIDE DEF un2
<1>21. Holdings(C2, S2, pool.mUsingBuffers, x2, un2, Al)
  <2>1. Holdings(client, Streams, pool.mUsingBuffers, tx, Un, Al)
    BY DEF Inv
  <2>2. C2[c] = InitClient("gone")
    BY <1>6, <1>12 DEF gone
  <2> QED BY <1>1, <1>16, <1>20, <2>1, <2>2, GoneStep
<1>22. Order'
  <2>1. ASSUME NEW d \in Connections PROVE Connected(d)'
    <3>1. Connected(d)
      BY <1>3 DEF Order
    <3>2. CASE d # c
      <4>1. Call("close", d) \in calls' <=> Call("close", d) \in calls
        BY <1>1, <3>2 DEF Call
      <4>2. client'[d] = client[d] /\ Streams'[d] = Streams[d]
        BY <1>6, <1>10, <1>13, <3>2 DEF AllStreams
      <4> QED BY <1>1, <3>1, <4>1, <4>2 DEF Connected
    <3>3. CASE d = c
      <4>1. c \in pool.mConnectionIds /\ op # Call("connect", c) /\ op # Call("close", c)
        BY <1>1, <3>1, <3>3 DEF Connected, Up
      <4>2. Call("close", c) \in calls'
        BY <1>1
      <4>3. client'[c] = InitClient("gone") /\ client'[c].state = "gone"
        BY <1>4, <1>6 DEF gone
      <4> QED BY <1>1, <3>3, <4>1, <4>2, <4>3 DEF Connected
    <3> QED BY <3>2, <3>3
  <2>2. client'[Local].state = "up"
    BY <1>1, <1>3, <1>6, ConnectionsAssumption DEF Order
  <2>3. (Running("none") => Handled)' /\ (Running("allocate") => alloc.pc = "idle")'
    BY <1>1, <1>3 DEF Order, Running, Handled
  <2> QED BY <2>1, <2>2, <2>3 DEF Order
<1>23. Notices'
  <2>1. ASSUME NEW d \in Connections
        PROVE  Notified(pool, d, client'[d], inv'[d], onMessage', Streams'[d])
    <3>1. Notified(pool, d, client[d], inv[d], onMessage, Streams[d])
      BY <1>3 DEF Notices
    <3>2. CASE d # c
      <4>1. (\E y \in onMessage : y[1] = d) => (\E y \in onMessage' : y[1] = d)
        BY <1>1, <3>2
      <4>2. client'[d] = client[d] /\ inv'[d] = inv[d] /\ Streams'[d] = Streams[d]
        BY <1>6, <1>10, <1>13, <3>2 DEF AllStreams
      <4>3. Notified(pool, d, client[d], inv[d], onMessage', Streams[d])
        BY <3>1, <4>1 DEF Notified
      <4> QED BY <4>2, <4>3
    <3>3. CASE d = c
      <4>1. Streams'[c] = mail[c]
        BY <1>10, <1>13 DEF AllStreams
      <4>2. \A j \in 1 .. Len(mail[c]) : mail[c][j].newStatus = "INVALIDATION_ACK" =>
                mail[c][j].bufferId <= pool.mInvalidationId
        BY <1>9, <3>1, <3>3 DEF Notified
      <4>3. 0 <= pool.mInvalidationId /\ pool.mAcks[c] <= pool.mInvalidationId
        BY <1>3, <3>1, <3>3 DEF Notified, Consistent, Pools
      <4>4. Notified(pool, c, gone, <<>>, onMessage', mail[c])
        BY <1>4, <4>2, <4>3 DEF Notified
      <4> QED BY <1>6, <3>3, <4>1, <4>4
    <3> QED BY <3>2, <3>3
  <2>2. \A y \in onMessage' : y[2] <= pool.mInvalidationId
    BY <1>1, <1>3 DEF Notices
  <2>3. pool.mPendings # {} => pool.registered
    BY <1>3 DEF Notices
  <2> QED BY <1>1, <2>1, <2>2, <2>3 DEF Notices, Notified
<1>24. Protocol(Streams', tx', pool', Live', St')
    BY <1>1, <1>11, <1>12, <1>18
<1>25. Holdings(client', Streams', pool'.mUsingBuffers, tx', Un', Al')
  <2>1. Un' = Unused(client', Streams', tx', Live')
    BY DEF Un
  <2>2. Al' = Al
    BY <1>1 DEF Al
  <2> QED BY <1>1, <1>11, <1>12, <1>21, <2>1, <2>2 DEF un2
<1> QED BY <1>1, <1>3, <1>7, <1>22, <1>23, <1>24, <1>25 DEF Inv

-----------------------------------------------------------------------------
(* The calls of the pool.                                                  *)

\* A pool that waits to invalidate is on the list, and the invalidations that are read.
Listed(p) == p.mPendings # {} => p.registered
Read(k, i, q) == IF k.state = "up" THEN i \o q.posted ELSE <<>>

\* Invalidations that are posted are newer than those that a connection has read.
LEMMA PostedNotified ==
    ASSUME NEW p \in Pools, NEW q \in Pools, InvalidationStep(p, q), Listed(p),
           NEW c \in Connections, NEW k \in Clients, NEW i \in Seq(Invalidations), NEW om,
           NEW s \in Seq(Messages),
           Notified(p, c, k, i, om, s), NEW i2, i2 = Read(k, i, q)
    PROVE  Notified(q, c, k, i2, om, s) /\ i2 \in Seq(Invalidations)
<1>1. /\ q.mAcks = p.mAcks /\ (p.registered => q.registered) /\ q.mInvalidationId >= p.mInvalidationId
      /\ p.mInvalidationId \in Nat /\ q.mInvalidationId \in Nat /\ p.mAcks[c] \in Nat
      /\ k.mInvalidateId \in Nat /\ q.posted \in Seq(Invalidations)
    BY DEF InvalidationStep, Pools, Clients
<1>2. p.mAcks[c] <= p.mInvalidationId /\ k.mInvalidateId <= p.mInvalidationId
    BY DEF Notified
<1>3. \A j \in 1 .. Len(s) : s[j].newStatus = "INVALIDATION_ACK" =>
        /\ s[j].bufferId <= p.mInvalidationId
        /\ k.state = "up" => s[j].bufferId <= k.mInvalidateId
    BY DEF Notified
<1>4. i2 \in Seq(Invalidations)
    BY <1>1 DEF Read
<1>5. ASSUME i2 # <<>>
      PROVE  /\ k.state = "up" /\ k.mInvalidateId < Last(i2).id /\ Last(i2).id <= q.mInvalidationId
             /\ q.registered \/ \E y \in om : y[1] = c
             /\ q.mAcks[c] < q.mInvalidationId \/ \E y \in om : y[1] = c
  <2>1. k.state = "up" /\ i2 = i \o q.posted
    BY <1>5 DEF Read
  <2>2. CASE q.posted = <<>>
    <3>1. i2 = i
      BY <2>1, <2>2
    <3>2. Last(i) \in Invalidations /\ Last(i).id \in Nat
      BY <1>5, <3>1, LastItem
    <3>3. /\ k.mInvalidateId < Last(i).id /\ Last(i).id <= p.mInvalidationId
          /\ p.registered \/ \E y \in om : y[1] = c
          /\ p.mAcks[c] < p.mInvalidationId \/ \E y \in om : y[1] = c
      BY <1>5, <3>1 DEF Notified
    <3> QED BY <1>1, <2>1, <3>1, <3>2, <3>3
  <2>3. CASE q.posted # <<>>
    <3> DEFINE n == Len(q.posted)
               e == q.posted[n]
    <3>1. n \in Nat /\ n >= 1 /\ n \in 1 .. n
      BY <1>1, <2>3
    <3>2. Len(i2) = Len(i) + n /\ i2[Len(i) + n] = e /\ Len(i) \in Nat
      BY <1>1, <2>1, <3>1
    <3>3. Last(i2) = e
      BY <3>2 DEF Last
    <3>4. p.mInvalidationId < e.id /\ e.id <= q.mInvalidationId
      BY <3>1 DEF InvalidationStep
    <3>5. e.id \in Nat
      <4>1. \A j \in 1 .. Len(q.posted) : q.posted[j] \in Invalidations
        BY <1>1
      <4>2. e \in Invalidations
        BY <3>1, <4>1
      <4> HIDE DEF e
      <4> QED BY <4>2 DEF Invalidations
    <3>6. q.registered
      BY <2>3 DEF InvalidationStep, Listed
    <3> HIDE DEF e, n
    <3> QED BY <1>1, <1>2, <2>1, <3>3, <3>4, <3>5, <3>6
  <2> QED BY <2>2, <2>3
<1>6. \A j \in 1 .. Len(s) : s[j].newStatus = "INVALIDATION_ACK" => s[j].bufferId <= q.mInvalidationId
  <2> SUFFICES ASSUME NEW j \in 1 .. Len(s), s[j].newStatus = "INVALIDATION_ACK" PROVE s[j].bufferId <= q.mInvalidationId
    OBVIOUS
  <2>1. s[j].bufferId <= p.mInvalidationId
    BY <1>3
  <2>2. s[j] \in Messages
    OBVIOUS
  <2>3. s[j].bufferId \in Nat
    BY <2>2 DEF Messages
  <2> QED BY <1>1, <2>1, <2>3
<1>7. q.mAcks[c] <= q.mInvalidationId /\ k.mInvalidateId <= q.mInvalidationId
    BY <1>1, <1>2
<1> QED BY <1>3, <1>4, <1>5, <1>6, <1>7 DEF Notified

\* What a handler leaves behind.
LEMMA BecomesFacts ==
    ASSUME Inv, NEW p, Consistent(p), InvalidationStep(pool, p), Becomes(p)
    PROVE  /\ Consistent(pool') /\ pool'.posted = <<>> /\ SameProtocol(p, pool')
           /\ SameBuffers(p, pool') /\ (pool'.mPendings # {} => pool'.registered)
           /\ inv' \in [Connections -> Seq(Invalidations)]
           /\ \A c \in Connections : Notified(pool', c, client[c], inv'[c], onMessage, Streams[c])
           /\ \A y \in onMessage : y[2] <= pool'.mInvalidationId
<1>1. TypeOK /\ Notices /\ Consistent(pool) /\ pool \in Pools /\ p \in Pools
    BY DEF Inv, Consistent
<1>2. pool' = [p EXCEPT !.posted = <<>>]
      /\ inv' = [c \in Connections |-> IF Up(c) THEN inv[c] \o p.posted ELSE <<>>]
    BY DEF Becomes
<1>3. PICK q : q = pool'
    OBVIOUS
<1>4. /\ q \in Pools /\ q.posted = <<>>
      /\ SameBuffers(p, q) /\ SameUse(p, q) /\ SameTransfers(p, q)
      /\ q.mPendings = p.mPendings /\ q.mInvalidationId = p.mInvalidationId
      /\ q.mAcks = p.mAcks /\ q.registered = p.registered
      /\ q.mConnectionIds = p.mConnectionIds /\ Consistent(q)
    BY <1>1, <1>2, <1>3, ResetPosted
<1>5. SameProtocol(p, q)
    BY <1>4 DEF SameProtocol, SameUse
<1>6. pool.mPendings # {} => pool.registered
    BY <1>1 DEF Notices
<1>7. q.mPendings # {} => q.registered
    BY <1>4, <1>6 DEF InvalidationStep
<1>8. ASSUME NEW c \in Connections
      PROVE  inv'[c] \in Seq(Invalidations) /\ Notified(q, c, client[c], inv'[c], onMessage, Streams[c])
  <2>1. Notified(pool, c, client[c], inv[c], onMessage, Streams[c])
    BY <1>1 DEF Notices
  <2>2. client[c] \in Clients /\ inv[c] \in Seq(Invalidations)
    BY <1>1 DEF TypeOK
  <2>3. Streams[c] \in Seq(Messages)
    BY <1>1, StreamsType DEF AllStreams
  <2>4. PICK i2 : i2 = inv'[c]
    OBVIOUS
  <2>5. i2 = IF client[c].state = "up" THEN inv[c] \o p.posted ELSE <<>>
    BY <1>2, <2>4 DEF Up
  <2>6. Notified(p, c, client[c], i2, onMessage, Streams[c]) /\ i2 \in Seq(Invalidations)
    <3> DEFINE k == client[c]
               i == inv[c]
               s == Streams[c]
    <3>1. pool \in Pools /\ p \in Pools
      BY <1>1
    <3>2. k \in Clients /\ i \in Seq(Invalidations) /\ s \in Seq(Messages)
      BY <2>2, <2>3
    <3>3. Notified(pool, c, k, i, onMessage, s) /\ i2 = Read(k, i, p) /\ Listed(pool)
      BY <1>6, <2>1, <2>5 DEF Read, Listed
    <3> HIDE DEF k, i, s
    <3>4. Notified(p, c, k, i2, onMessage, s) /\ i2 \in Seq(Invalidations)
      BY <3>1, <3>2, <3>3, PostedNotified
    <3> QED BY <3>4 DEF k, s
  <2>7. Notified(q, c, client[c], i2, onMessage, Streams[c])
    BY <1>4, <2>6 DEF Notified
  <2> QED BY <2>4, <2>6, <2>7
<1>9. inv' \in [Connections -> Seq(Invalidations)]
    BY <1>2, <1>8
<1>10. \A y \in onMessage : y[2] <= q.mInvalidationId
  <2>1. \A y \in onMessage : y[2] <= pool.mInvalidationId /\ y[2] \in Nat
    BY <1>1 DEF Notices, TypeOK
  <2>2. pool.mInvalidationId \in Nat /\ p.mInvalidationId \in Nat /\ p.mInvalidationId >= pool.mInvalidationId
    BY <1>1 DEF Pools, InvalidationStep
  <2> QED BY <1>4, <2>1, <2>2
<1> QED BY <1>3, <1>4, <1>5, <1>7, <1>8, <1>9, <1>10

\* A call returns, or one that is not running takes a step.
LEMMA ReturnFrame ==
    ASSUME Inv, ~Running("close"), op'.fn = "none", UNCHANGED <<unread, mail, taken>>,
           pool'.mConnectionIds = pool.mConnectionIds,
           \A d \in Connections : client'[d].mReleasingIds = client[d].mReleasingIds
    PROVE  Streams' = Streams /\ Live' = Live /\ Live = pool.mConnectionIds
<1>1. Live = pool.mConnectionIds
    BY DEF Live, Closing
<1>2. Live' = pool'.mConnectionIds
    BY DEF Live, Closing, Running
<1>3. \A d \in Connections : Stream(Own(d))' = Stream(Own(d))
    BY DEF Stream, Own
<1> QED BY <1>1, <1>2, <1>3 DEF Streams

\* The clients are as they were, except for what the pool does not depend on.
SameClients ==
    /\ client' \in [Connections -> Clients]
    /\ \A d \in Connections :
        /\ SameCache(client[d], client'[d]) /\ client'[d].state = client[d].state
        /\ client'[d].mInvalidateId = client[d].mInvalidateId
        /\ client[d].state # "up" => client'[d] = client[d]

\* What is to be shown of a call that returns: the rest of the invariant follows.
LEMMA ReturnStep ==
    ASSUME Inv, op.fn \notin {"close", "connect"}, Handled, op'.fn = "none", op' \in Calls,
           UNCHANGED <<unread, mail, taken, calls>>,
           Consistent(pool'), pool'.posted = <<>>, pool'.mConnectionIds = pool.mConnectionIds,
           pool'.mPendings # {} => pool'.registered, inv' \in [Connections -> Seq(Invalidations)],
           \A c \in Connections : Notified(pool', c, client[c], inv'[c], onMessage', Streams[c]),
           \A y \in onMessage' : y[2] <= pool'.mInvalidationId,
           onMessage' \in SUBSET (Connections \X Nat), SameClients, tx' \in AllTransfers,
           alloc' \in [pc : {"idle", "asking", "got"}, b : BufferIds],
           Protocol(Streams, tx', pool', Live, St),
           Holdings(client', Streams, pool'.mUsingBuffers, tx', Unused(client', Streams, tx', Live), Al')
    PROVE  Inv'
<1>1. TypeOK /\ Order
    BY DEF Inv
<1>2. Streams' = Streams /\ Live' = Live
    BY ReturnFrame DEF Running, SameClients, SameCache
<1>3. \A d \in Connections : client'[d].state = client[d].state
    BY DEF SameClients
<1>4. TypeOK'
  <2>1. op' \in Calls /\ CallOK(op)'
    BY DEF CallOK
  <2>2. unread' \in SUBSET pool'.mConnectionIds
    BY <1>1 DEF TypeOK
  <2>3. calls' \in SUBSET Calls /\ \A k \in calls' : CallOK(k) /\ k.fn \in Waiting
    BY <1>1 DEF TypeOK
  <2>4. \A d \in Connections : taken'[d] <= Len(mail'[d]) /\ Room(Own(d))' >= 0
    BY <1>1 DEF TypeOK, Room, Own
  <2>5. taken' \in [Connections -> Nat] /\ mail' \in [Connections -> Seq(Messages)]
    BY <1>1 DEF TypeOK
  <2> QED BY <2>1, <2>2, <2>3, <2>4, <2>5 DEF TypeOK, CallOK, SameClients
<1>5. Order'
  <2>1. ASSUME NEW d \in Connections PROVE Connected(d)'
    <3>1. Connected(d)
      BY <1>1 DEF Order
    <3>2. op' # Call("close", d) /\ op' # Call("connect", d) /\ op # Call("close", d) /\ op # Call("connect", d)
      BY DEF Call
    <3>3. client[d].state # "up" => client'[d] = client[d]
      BY DEF SameClients
    <3> QED BY <1>2, <1>3, <3>1, <3>2, <3>3 DEF Connected
  <2>2. client'[Local].state = "up"
    BY <1>1, <1>3, ConnectionsAssumption DEF Order
  <2>3. (Running("none") => Handled)' /\ (Running("allocate") => alloc.pc = "idle")'
    BY DEF Running, Handled
  <2> QED BY <2>1, <2>2, <2>3 DEF Order
<1>6. Notices'
  <2>1. ASSUME NEW d \in Connections
        PROVE  Notified(pool', d, client'[d], inv'[d], onMessage', Streams'[d])
    <3>1. PICK q, k, i, om : q = pool' /\ k = client'[d] /\ i = inv'[d] /\ om = onMessage'
      OBVIOUS
    <3>2. Notified(q, d, client[d], i, om, Streams[d])
      BY <3>1
    <3>3. k.state = client[d].state /\ k.mInvalidateId = client[d].mInvalidateId
      BY <3>1 DEF SameClients
    <3>4. Notified(q, d, k, i, om, Streams[d])
      BY <3>2, <3>3, NotifiedSame
    <3> QED BY <1>2, <3>1, <3>4
  <2> QED BY <2>1 DEF Notices
<1>7. St' = St
    BY <1>3 DEF St
<1>8. Protocol(Streams', tx', pool', Live', St')
    BY <1>2, <1>7
<1>9. Un' = Unused(client', Streams', tx', Live')
    BY DEF Un
<1>10. Holdings(client', Streams', pool'.mUsingBuffers, tx', Un', Al')
    BY <1>2, <1>9
<1> QED BY <1>4, <1>5, <1>6, <1>8, <1>10 DEF Inv

\* A step of the pool in which the users of buffers stay the same.
LEMMA SameHoldings ==
    ASSUME Inv, SameClients, NEW x2 \in AllTransfers,
           \A d \in Connections, b \in BufferIds : Got(x2, d, b) = Got(tx, d, b),
           \A b \in BufferIds : Abandoned(tx, Local, b) => Abandoned(x2, Local, b),
           \A t \in Transactions : Interest(Streams, x2, Live, t) =>
                Interest(Streams, tx, Live, t) /\ x2[t].b = tx[t].b
    PROVE  Holdings(client', Streams, pool.mUsingBuffers, x2, Unused(client', Streams, x2, Live), Al)
<1>1. PICK C2 : C2 = client'
    OBVIOUS
<1>2. \A c \in Connections : SameCache(client[c], C2[c])
    BY <1>1 DEF SameClients
<1> DEFINE un2 == Unused(C2, Streams, x2, Live)
           U == pool.mUsingBuffers
<1>3. Un \subseteq un2
  <2>1. \A c \in Connections : C2[c].refs = client[c].refs
    BY <1>2 DEF SameCache, SameRefs
  <2> QED BY <2>1 DEF Un, Unused
<1>4. Holdings(client, Streams, U, tx, Un, Al) /\ TypeOK
    BY DEF Inv
<1>5. \A c \in Connections, b \in BufferIds : client[c].state = "gone" => client[c].refs[b] = 0
    BY BasicsHold DEF Basics
<1>6. client[Local].state # "gone" /\ Local \in Connections
    BY ConnectionsAssumption DEF Inv, Order
<1>7. \A b \in Al : b \in BufferIds
    BY <1>4 DEF Al, TypeOK
<1>8. \A b \in BufferIds : \A i \in 1 .. Len(Streams[Local]) : Releases(Streams[Local][i], b) =>
        \E j \in 1 .. Len(Streams[Local]) :
            /\ Releases(Streams[Local][j], b)
            /\ Granted(U, Local, Streams[Local], b, j) => Granted(U, Local, Streams[Local], b, i)
    OBVIOUS
<1> HIDE DEF un2, U
<1>9. Holdings(C2, Streams, U, x2, un2, Al)
    BY <1>2, <1>3, <1>4, <1>5, <1>6, <1>7, <1>8, PoolFrame
<1> QED BY <1>1, <1>9 DEF un2, U

\* A call returns, and the users of buffers stay the same.
LEMMA QuietReturn ==
    ASSUME Inv, op.fn \notin {"close", "connect"}, Handled, op'.fn = "none", op' \in Calls,
           UNCHANGED <<unread, mail, taken, calls>>, UNCHANGED onMessage,
           NEW p, Consistent(p), InvalidationStep(pool, p), Becomes(p),
           p.mUsingBuffers = pool.mUsingBuffers, p.mConnectionIds = pool.mConnectionIds,
           SameClients, tx' \in AllTransfers, Protocol(Streams, tx', p, Live, St),
           \A d \in Connections, b \in BufferIds : Got(tx', d, b) = Got(tx, d, b),
           \A b \in BufferIds : Abandoned(tx, Local, b) => Abandoned(tx', Local, b),
           \A t \in Transactions : Interest(Streams, tx', Live, t) =>
                Interest(Streams, tx, Live, t) /\ tx'[t].b = tx[t].b,
           alloc' \in [pc : {"idle", "asking", "got"}, b : BufferIds], Al' = Al
    PROVE  Inv'
<1>1. /\ Consistent(pool') /\ pool'.posted = <<>> /\ SameProtocol(p, pool')
      /\ (pool'.mPendings # {} => pool'.registered)
      /\ inv' \in [Connections -> Seq(Invalidations)]
      /\ \A c \in Connections : Notified(pool', c, client[c], inv'[c], onMessage, Streams[c])
      /\ \A y \in onMessage : y[2] <= pool'.mInvalidationId
    BY BecomesFacts
<1>2. pool'.mUsingBuffers = pool.mUsingBuffers /\ pool'.mConnectionIds = pool.mConnectionIds
    BY <1>1 DEF SameProtocol
<1>3. PICK x2, q : x2 = tx' /\ q = pool'
    OBVIOUS
<1>4. Protocol(Streams, x2, q, Live, St)
  <2>1. Streams \in AllStreams
    BY BasicsHold DEF Basics
  <2>2. SameProtocol(p, q) /\ Protocol(Streams, x2, p, Live, St) /\ x2 \in AllTransfers
    BY <1>1, <1>3
  <2> QED BY <2>1, <2>2, SameUsers
<1>5. Holdings(client', Streams, pool.mUsingBuffers, x2, Unused(client', Streams, x2, Live), Al)
  <2>1. /\ x2 \in AllTransfers
        /\ \A d \in Connections, b \in BufferIds : Got(x2, d, b) = Got(tx, d, b)
        /\ \A b \in BufferIds : Abandoned(tx, Local, b) => Abandoned(x2, Local, b)
        /\ \A t \in Transactions : Interest(Streams, x2, Live, t) =>
                Interest(Streams, tx, Live, t) /\ x2[t].b = tx[t].b
    BY <1>3
  <2> QED BY <2>1, SameHoldings
<1>6. /\ Protocol(Streams, tx', pool', Live, St)
      /\ Holdings(client', Streams, pool'.mUsingBuffers, tx', Unused(client', Streams, tx', Live), Al')
    BY <1>2, <1>3, <1>4, <1>5
<1>7. /\ onMessage' \in SUBSET (Connections \X Nat)
      /\ \A c \in Connections : Notified(pool', c, client[c], inv'[c], onMessage', Streams[c])
      /\ \A y \in onMessage' : y[2] <= pool'.mInvalidationId
    BY <1>1 DEF Inv, TypeOK
<1> QED BY <1>1, <1>2, <1>6, <1>7, ReturnStep

\* cleanUp()
LEMMA EvictFacts ==
    ASSUME Inv, NEW q, Consistent(q), SameInvalidation(pool, q), CleanedUp(q)
    PROVE  \E p : /\ Consistent(p) /\ SameProtocol(q, p) /\ InvalidationStep(pool, p) /\ Becomes(p)
                  /\ p.mBuffers \subseteq q.mBuffers
<1>1. PICK bs \in Evictions(q) : Becomes(EraseBuffers(q, bs))
    BY DEF CleanedUp
<1> DEFINE p == EraseBuffers(q, bs)
<1>2. Consistent(p) /\ SameProtocol(q, p) /\ SameInvalidation(q, p)
    BY EvictConsistent
<1>3. p.mBuffers \subseteq q.mBuffers
  <2>1. q \in Pools /\ bs \in SUBSET BufferIds
    BY <1>1 DEF Evictions, Consistent, Pools
  <2> QED BY <2>1, EraseBuffersFields
<1> HIDE DEF p
<1>4. SameInvalidation(pool, p)
    BY <1>2 DEF SameInvalidation
<1>5. pool \in Pools /\ pool.posted = <<>>
    BY DEF Inv, Consistent
<1>6. InvalidationStep(pool, p)
    BY <1>4, <1>5, NoInvalidation
<1>7. Becomes(p)
    BY <1>1 DEF p
<1> QED BY <1>2, <1>3, <1>6, <1>7

\* Clients that do not change.
LEMMA UnchangedClients ==
    ASSUME Inv, UNCHANGED client
    PROVE  SameClients
<1>1. client \in [Connections -> Clients]
    BY DEF Inv, TypeOK
<1> QED BY <1>1 DEF SameClients, SameCache, SameRefs

\* No call is a call.
LEMMA NoCallType == NoCall \in Calls /\ NoCall.fn = "none"
    BY DEF NoCall, Call, Calls

\* A call after which the transfers are as they were.
LEMMA PlainReturn ==
    ASSUME Inv, op.fn \notin {"close", "connect"}, Handled, op'.fn = "none", op' \in Calls,
           UNCHANGED <<unread, mail, taken, calls>>, UNCHANGED onMessage, UNCHANGED tx,
           NEW p, Consistent(p), InvalidationStep(pool, p), Becomes(p), SameProtocol(pool, p),
           SameClients, alloc' \in [pc : {"idle", "asking", "got"}, b : BufferIds], Al' = Al
    PROVE  Inv'
<1>1. Streams \in AllStreams /\ tx \in AllTransfers /\ Protocol(Streams, tx, pool, Live, St)
    BY BasicsHold DEF Inv, Basics
<1>2. Protocol(Streams, tx, p, Live, St)
    BY <1>1, SameUsers
<1>3. p.mUsingBuffers = pool.mUsingBuffers /\ p.mConnectionIds = pool.mConnectionIds
    BY DEF SameProtocol
<1>4. tx' = tx
    OBVIOUS
<1>5. /\ tx' \in AllTransfers /\ Protocol(Streams, tx', p, Live, St)
      /\ \A d \in Connections, b \in BufferIds : Got(tx', d, b) = Got(tx, d, b)
      /\ \A b \in BufferIds : Abandoned(tx, Local, b) => Abandoned(tx', Local, b)
      /\ \A t \in Transactions : Interest(Streams, tx', Live, t) =>
                Interest(Streams, tx, Live, t) /\ tx'[t].b = tx[t].b
    BY <1>1, <1>2, <1>4
<1> QED BY <1>3, <1>5, QuietReturn

\* cleanUp() preserves the invariant.
LEMMA CleanUpStep ==
    ASSUME Inv, CleanUp
    PROVE  Inv'
<1>1. /\ op.fn = "cleanUp" /\ Handled /\ CleanedUp(pool) /\ op' = NoCall /\ UNCHANGED <<unread, mail, taken, calls>>
      /\ UNCHANGED onMessage /\ UNCHANGED client /\ UNCHANGED tx /\ alloc' = alloc
    BY DEF CleanUp, Running, Return
<1>2. Consistent(pool) /\ TypeOK
    BY DEF Inv
<1>3. SameInvalidation(pool, pool)
    BY DEF SameInvalidation
<1>4. PICK p : Consistent(p) /\ SameProtocol(pool, p) /\ InvalidationStep(pool, p) /\ Becomes(p)
    BY <1>1, <1>2, <1>3, EvictFacts
<1>5. alloc' \in [pc : {"idle", "asking", "got"}, b : BufferIds] /\ Al' = Al
    BY <1>1, <1>2 DEF TypeOK, Al
<1>6. op.fn \notin {"close", "connect"} /\ op'.fn = "none" /\ op' \in Calls /\ SameClients
    BY <1>1, NoCallType, UnchangedClients
<1> QED BY <1>1, <1>4, <1>5, <1>6, PlainReturn

\* A step that leaves the pool alone.
LEMMA StillBecomes ==
    ASSUME Inv, UNCHANGED <<pool, inv>>
    PROVE  Becomes(pool) /\ InvalidationStep(pool, pool) /\ SameProtocol(pool, pool)
<1>1. pool \in Pools /\ pool.posted = <<>>
    BY DEF Inv, Consistent
<1>2. pool = [pool EXCEPT !.posted = <<>>]
    BY <1>1 DEF Pools
<1>3. ASSUME NEW c \in Connections PROVE inv[c] = IF Up(c) THEN inv[c] \o pool.posted ELSE <<>>
  <2>1. inv[c] \in Seq(Invalidations)
    BY DEF Inv, TypeOK
  <2>2. Notified(pool, c, client[c], inv[c], onMessage, Streams[c])
    BY DEF Inv, Notices
  <2>3. ~Up(c) => inv[c] = <<>>
    BY <2>2 DEF Notified, Up
  <2>4. inv[c] \o <<>> = inv[c]
    BY <2>1
  <2> QED BY <1>1, <2>3, <2>4
<1>4. inv = [c \in Connections |-> inv[c]]
    BY DEF Inv, TypeOK
<1>5. Becomes(pool)
    BY <1>2, <1>3, <1>4 DEF Becomes
<1>6. InvalidationStep(pool, pool)
    BY <1>1, NoInvalidation DEF SameInvalidation
<1> QED BY <1>5, <1>6 DEF SameProtocol, SameTransfers

\* allocate() asks the allocator, and gives the mutex back.
LEMMA AskAllocatorStep ==
    ASSUME Inv, AskAllocator
    PROVE  Inv'
<1>1. /\ op.fn = "allocate" /\ Handled /\ op' = NoCall /\ UNCHANGED <<unread, mail, taken, calls>>
      /\ UNCHANGED onMessage /\ UNCHANGED client /\ UNCHANGED tx /\ alloc' = [alloc EXCEPT !.pc = "asking"]
      /\ UNCHANGED <<pool, inv>>
    BY DEF AskAllocator, Running, Return
<1>2. Consistent(pool) /\ TypeOK /\ alloc.pc = "idle"
    BY <1>1 DEF Inv, Order, Running
<1>3. Becomes(pool) /\ InvalidationStep(pool, pool) /\ SameProtocol(pool, pool)
    BY <1>1, StillBecomes
<1>4. alloc' \in [pc : {"idle", "asking", "got"}, b : BufferIds] /\ Al' = Al
    BY <1>1, <1>2 DEF TypeOK, Al
<1>5. op.fn \notin {"close", "connect"} /\ op'.fn = "none" /\ op' \in Calls /\ SameClients
    BY <1>1, NoCallType, UnchangedClients
<1> QED BY <1>1, <1>2, <1>3, <1>4, <1>5, PlainReturn

\* A buffer could not be allocated.
LEMMA UnallocatedStep ==
    ASSUME Inv, Running("none"), alloc.pc = "asking", CleanedUp(pool), alloc' = [alloc EXCEPT !.pc = "idle"],
           UNCHANGED <<op, unread, mail, taken, calls, onMessage, client, tx>>
    PROVE  Inv'
<1>1. op.fn = "none" /\ Handled /\ op' = op
    BY DEF Running, Inv, Order
<1>2. Consistent(pool) /\ TypeOK
    BY DEF Inv
<1>3. SameInvalidation(pool, pool)
    BY DEF SameInvalidation
<1>4. PICK p : Consistent(p) /\ SameProtocol(pool, p) /\ InvalidationStep(pool, p) /\ Becomes(p)
    BY <1>2, <1>3, EvictFacts
<1>5. alloc' \in [pc : {"idle", "asking", "got"}, b : BufferIds] /\ Al' = Al
    BY <1>2 DEF TypeOK, Al
<1>6. op.fn \notin {"close", "connect"} /\ op'.fn = "none" /\ op' \in Calls
    BY <1>1, <1>2 DEF TypeOK
<1>7. SameClients /\ UNCHANGED <<unread, mail, taken, calls>> /\ UNCHANGED onMessage /\ UNCHANGED tx
    BY UnchangedClients
<1> QED BY <1>1, <1>4, <1>5, <1>6, <1>7, PlainReturn

\* flush() preserves the invariant.
LEMMA FlushStep ==
    ASSUME Inv, Flush
    PROVE  Inv'
<1>1. /\ op.fn = "flush" /\ Handled /\ op' = NoCall /\ UNCHANGED <<unread, mail, taken, calls>>
      /\ UNCHANGED onMessage /\ UNCHANGED tx /\ alloc' = alloc /\ Becomes(FlushPool(pool))
      /\ client' = [client EXCEPT ![Local].locked = FALSE]
    BY DEF Flush, Running, Return
<1>2. Consistent(pool) /\ TypeOK /\ pool.posted = <<>> /\ client[Local].state = "up"
    BY DEF Inv, Order
<1>3. PICK p : p = FlushPool(pool)
    OBVIOUS
<1>4. Consistent(p) /\ SameProtocol(pool, p) /\ InvalidationStep(pool, p) /\ Becomes(p)
    BY <1>1, <1>2, <1>3, FlushConsistent
<1>5. alloc' \in [pc : {"idle", "asking", "got"}, b : BufferIds] /\ Al' = Al
    BY <1>1, <1>2 DEF TypeOK, Al
<1>6. op.fn \notin {"close", "connect"} /\ op'.fn = "none" /\ op' \in Calls
    BY <1>1, NoCallType
<1>7. SameClients
  <2>1. client \in [Connections -> Clients] /\ Local \in Connections
    BY <1>2, ConnectionsAssumption DEF TypeOK
  <2>2. client' = [client EXCEPT ![Local] = [client[Local] EXCEPT !.locked = FALSE]]
    BY <1>1, <2>1
  <2> DEFINE k == [client[Local] EXCEPT !.locked = FALSE]
  <2>3. client[Local] \in Clients
    BY <2>1
  <2>4. k \in Clients /\ SameCache(client[Local], k) /\ k.state = client[Local].state
        /\ k.mInvalidateId = client[Local].mInvalidateId
    BY <2>3 DEF Clients, SameCache, SameRefs
  <2> HIDE DEF k
  <2>5. client' \in [Connections -> Clients] /\ client'[Local] = k
        /\ \A d \in Connections : d # Local => client'[d] = client[d]
    BY <2>1, <2>2, <2>4 DEF k
  <2>6. \A d \in Connections : d # Local => SameCache(client[d], client'[d])
    BY <2>5 DEF SameCache, SameRefs
  <2> QED BY <1>2, <2>4, <2>5, <2>6 DEF SameClients
<1> QED BY <1>1, <1>4, <1>5, <1>6, <1>7, PlainReturn

\* The protocol does not depend on how far a transaction is.
LEMMA SameKnown ==
    ASSUME NEW S \in AllStreams, NEW x \in AllTransfers,
           NEW p, NEW live, NEW st, Protocol(S, x, p, live, st), NEW q,
           q.mUsingBuffers = p.mUsingBuffers, q.mConnectionIds = p.mConnectionIds,
           q.mPendingTransactions = p.mPendingTransactions,
           q.mCompletedTransactions = p.mCompletedTransactions,
           \A t \in Transactions :
                /\ Known(q, t) <=> Known(p, t)
                /\ q.mTransactions[t].mBufferId = p.mTransactions[t].mBufferId
                /\ q.mTransactions[t].mReceiver = p.mTransactions[t].mReceiver
                /\ q.mTransactions[t].mSenderValidated = p.mTransactions[t].mSenderValidated
    PROVE  Protocol(S, x, q, live, st)
<1>1. Real(S, x, q) /\ Addressed(x, q)
    BY DEF Protocol, Real, Addressed
<1>2. Kept(S, x, q, live) /\ Received(S, x, q)
    BY DEF Protocol, Kept, Received
<1>3. Validated(S, x, q)
    BY DEF Protocol, Validated
<1>4. Remembered(S, x, q) /\ Over(S, x, q, live)
    BY DEF Protocol, Remembered, Over
<1> QED BY <1>1, <1>2, <1>3, <1>4 DEF Protocol

\* fetch(): what it makes of the pool
LEMMA FetchPool ==
    ASSUME Inv, NEW t \in Transactions, NEW ok, ok \in BOOLEAN, ok => Known(pool, t), NEW q,
           q = IF ok THEN [pool EXCEPT !.mTransactions[t].mStatus = "TRANSFER_FETCH"] ELSE pool
    PROVE  /\ Consistent(q) /\ SameInvalidation(pool, q) /\ Protocol(Streams, tx, q, Live, St)
           /\ q.mUsingBuffers = pool.mUsingBuffers /\ q.mConnectionIds = pool.mConnectionIds
<1>1. /\ Consistent(pool) /\ pool \in Pools /\ Streams \in AllStreams /\ tx \in AllTransfers
      /\ Protocol(Streams, tx, pool, Live, St)
    BY BasicsHold DEF Inv, Consistent, Basics
<1>2. CASE ~ok
    BY <1>1, <1>2 DEF SameInvalidation
<1>3. CASE ok
  <2> DEFINE y == [pool.mTransactions[t] EXCEPT !.mStatus = "TRANSFER_FETCH"]
  <2>1. pool.mTransactions \in [Transactions -> TransactionStates] /\ pool.mTransactions[t] \in TransactionStates
    BY <1>1 DEF Pools
  <2>2. /\ y \in TransactionStates /\ y.mStatus # "none" /\ y.mBufferId = pool.mTransactions[t].mBufferId
        /\ y.mReceiver = pool.mTransactions[t].mReceiver
        /\ y.mSenderValidated = pool.mTransactions[t].mSenderValidated
    BY <2>1 DEF TransactionStates
  <2>3. q = [pool EXCEPT !.mTransactions = [pool.mTransactions EXCEPT ![t] = y]]
    BY <1>1, <1>3, <2>1 DEF Pools
  <2> HIDE DEF y
  <2>4. Known(pool, t)
    BY <1>3
  <2>5. /\ Consistent(q)
        /\ q.mTransactions = [pool.mTransactions EXCEPT ![t] = y]
        /\ q.mPendingTransactions = pool.mPendingTransactions
        /\ q.mCompletedTransactions = pool.mCompletedTransactions
        /\ q.mUsingBuffers = pool.mUsingBuffers /\ q.mConnectionIds = pool.mConnectionIds
        /\ SameInvalidation(pool, q)
    BY <1>1, <2>2, <2>3, <2>4, ChangeConsistent
  <2>6. ASSUME NEW s \in Transactions
        PROVE  /\ Known(q, s) <=> Known(pool, s)
               /\ q.mTransactions[s].mBufferId = pool.mTransactions[s].mBufferId
               /\ q.mTransactions[s].mReceiver = pool.mTransactions[s].mReceiver
               /\ q.mTransactions[s].mSenderValidated = pool.mTransactions[s].mSenderValidated
    <3>1. CASE s = t
      <4>1. q.mTransactions[t] = y
        BY <2>1, <2>5
      <4> QED BY <2>2, <2>4, <3>1, <4>1 DEF Known
    <3>2. CASE s # t
      <4>1. q.mTransactions[s] = pool.mTransactions[s]
        BY <2>1, <2>5, <3>2
      <4> QED BY <4>1 DEF Known
    <3> QED BY <3>1, <3>2
  <2>7. Protocol(Streams, tx, q, Live, St)
    BY <1>1, <2>5, <2>6, SameKnown, ZenonT(30)
  <2> QED BY <2>5, <2>7
<1> QED BY <1>2, <1>3

\* What fetch() makes of the transfer, unless it has been given up.
Fetched(x, t, found) ==
    [x EXCEPT ![t].pc = IF @ # "fetch" THEN @ ELSE IF found THEN "fetched" ELSE "unfetched"]

\* The protocol allows it.
LEMMA FetchMoved ==
    ASSUME Inv, NEW p, Protocol(Streams, tx, p, Live, St), NEW t \in Transactions, NEW x2, NEW found \in BOOLEAN,
           x2 = Fetched(tx, t, found)
    PROVE  /\ x2 \in AllTransfers /\ Protocol(Streams, x2, p, Live, St)
           /\ \A d \in Connections, b \in BufferIds : Got(x2, d, b) = Got(tx, d, b)
           /\ \A b \in BufferIds : Abandoned(tx, Local, b) => Abandoned(x2, Local, b)
           /\ \A s \in Transactions : Interest(Streams, x2, Live, s) =>
                Interest(Streams, tx, Live, s) /\ x2[s].b = tx[s].b
<1>1. Streams \in AllStreams /\ tx \in AllTransfers
    BY BasicsHold DEF Basics
<1>2. tx[t] \in TransferStates
    BY <1>1 DEF AllTransfers
<1>3. CASE tx[t].pc # "fetch"
  <2>1. x2 = tx
    BY <1>1, <1>2, <1>3 DEF Fetched, AllTransfers, TransferStates
  <2> QED BY <1>1, <2>1
<1>4. CASE tx[t].pc = "fetch"
  <2> DEFINE pc == IF found THEN "fetched" ELSE "unfetched"
  <2>1. x2 = [tx EXCEPT ![t].pc = pc]
    BY <1>1, <1>4 DEF Fetched, AllTransfers
  <2>2. pc \in Places /\ pc \in Receiving \ {"got"} /\ pc # "done"
    BY DEF Places, Receiving
  <2> HIDE DEF pc
  <2>3. Moved(tx, x2, t, pc)
    BY <1>1, <2>1, <2>2, PcMoved
  <2>4. /\ x2 \in AllTransfers /\ x2[t].pc = pc /\ x2[t].b = tx[t].b /\ x2[t].from = tx[t].from
        /\ x2[t].to = tx[t].to /\ \A s \in Transactions : s # t => x2[s] = tx[s]
    BY <2>3 DEF Moved
  <2>5. Protocol(Streams, x2, p, Live, St)
    <3>1. tx[t].pc \in Receiving
      BY <1>4 DEF Receiving
    <3>2. \A s \in Transactions :
            \/ x2[s] = tx[s]
            \/ /\ x2[s].b = tx[s].b /\ x2[s].from = tx[s].from /\ x2[s].to = tx[s].to
               /\ \/ tx[s].pc \in Receiving \cup {"sent"} /\ x2[s].pc = "abandoned"
                  \/ tx[s].pc \in Receiving /\ x2[s].pc \in Receiving
      BY <2>2, <2>4, <3>1
    <3> QED BY <1>1, <2>4, <3>2, MoveOn
  <2>6. /\ \A d, b : Got(x2, d, b) = Got(tx, d, b)
        /\ \A b : Abandoned(tx, Local, b) => Abandoned(x2, Local, b)
    <3>1. tx[t].pc # "got" /\ pc # "got" /\ tx[t].pc # "abandoned"
      BY <1>4, <2>2
    <3>2. \A d, b : Got(x2, d, b) = Got(tx, d, b)
      BY <2>3, <3>1, MovedGot
    <3>3. \A b : Abandoned(tx, Local, b) => Abandoned(x2, Local, b)
      BY <2>3, <3>1, MovedAbandoned
    <3> QED BY <3>2, <3>3
  <2>7. \A s \in Transactions : Interest(Streams, x2, Live, s) =>
                Interest(Streams, tx, Live, s) /\ x2[s].b = tx[s].b
    BY <1>4, <2>4 DEF Interest, Unfinished
  <2> QED BY <2>4, <2>5, <2>6, <2>7
<1> QED BY <1>3, <1>4

\* fetch() preserves the invariant.
LEMMA FetchStep ==
    ASSUME Inv, Fetch
    PROVE  Inv'
<1> DEFINE t == op.arg
           x == pool.mTransactions[t]
           ok == /\ Known(pool, t) /\ <<tx[t].to, t>> \in pool.mPendingTransactions
                 /\ x.mSenderValidated /\ x.mStatus = "TRANSFER_FROM" /\ x.mBufferId = tx[t].b
           found == ok /\ tx[t].b \in pool.mBuffers
           q == IF ok THEN [pool EXCEPT !.mTransactions[t].mStatus = "TRANSFER_FETCH"] ELSE pool
<1>1. /\ op.fn = "fetch" /\ Handled /\ op' = NoCall /\ UNCHANGED <<unread, mail, taken, calls>>
      /\ UNCHANGED onMessage /\ UNCHANGED client /\ UNCHANGED alloc
    BY DEF Fetch, Running, Return
<1>2. IF found THEN Becomes(q) ELSE CleanedUp(q)
    BY DEF Fetch
<1>3. tx' = [tx EXCEPT ![t].pc = IF @ # "fetch" THEN @ ELSE IF found THEN "fetched" ELSE "unfetched"]
    BY DEF Fetch
<1>4. TypeOK
    BY DEF Inv
<1>5. t \in Transactions
    BY <1>1, <1>4 DEF TypeOK, CallOK
<1>6. ok => Known(pool, t)
    OBVIOUS
<1>7. PICK o, f \in BOOLEAN : (o <=> ok) /\ (f <=> found)
    OBVIOUS
<1>8. /\ q = IF o THEN [pool EXCEPT !.mTransactions[t].mStatus = "TRANSFER_FETCH"] ELSE pool
      /\ o => Known(pool, t)
      /\ (f /\ Becomes(q)) \/ CleanedUp(q)
      /\ tx' = [tx EXCEPT ![t].pc = IF @ # "fetch" THEN @ ELSE IF f THEN "fetched" ELSE "unfetched"]
    BY <1>2, <1>3, <1>6, <1>7
<1> HIDE DEF q, t, ok, found
<1>9. /\ Consistent(q) /\ SameInvalidation(pool, q) /\ Protocol(Streams, tx, q, Live, St)
      /\ q.mUsingBuffers = pool.mUsingBuffers /\ q.mConnectionIds = pool.mConnectionIds
    BY <1>5, <1>7, <1>8, FetchPool
<1>10. PICK p : Consistent(p) /\ SameProtocol(q, p) /\ InvalidationStep(pool, p) /\ Becomes(p)
  <2>1. CASE CleanedUp(q)
    BY <1>9, <2>1, EvictFacts
  <2>2. CASE Becomes(q)
    <3>1. pool \in Pools /\ pool.posted = <<>>
      BY DEF Inv, Consistent
    <3>2. InvalidationStep(pool, q)
      BY <1>9, <3>1, NoInvalidation
    <3>3. SameProtocol(q, q)
      BY DEF SameProtocol, SameTransfers
    <3> QED BY <1>9, <2>2, <3>2, <3>3
  <2> QED BY <1>8, <2>1, <2>2
<1>11. Protocol(Streams, tx, p, Live, St)
  <2>1. Streams \in AllStreams /\ tx \in AllTransfers
    BY BasicsHold DEF Basics
  <2> QED BY <1>9, <1>10, <2>1, SameUsers
<1>12. PICK x2 : x2 = tx'
    OBVIOUS
<1>13. /\ x2 \in AllTransfers /\ Protocol(Streams, x2, p, Live, St)
       /\ \A d \in Connections, b \in BufferIds : Got(x2, d, b) = Got(tx, d, b)
       /\ \A b \in BufferIds : Abandoned(tx, Local, b) => Abandoned(x2, Local, b)
       /\ \A s \in Transactions : Interest(Streams, x2, Live, s) =>
            Interest(Streams, tx, Live, s) /\ x2[s].b = tx[s].b
  <2>1. x2 = Fetched(tx, t, f)
    BY <1>8, <1>12 DEF Fetched
  <2> QED BY <1>5, <1>7, <1>11, <2>1, FetchMoved
<1>14. /\ tx' \in AllTransfers /\ Protocol(Streams, tx', p, Live, St)
       /\ \A d \in Connections, b \in BufferIds : Got(tx', d, b) = Got(tx, d, b)
       /\ \A b \in BufferIds : Abandoned(tx, Local, b) => Abandoned(tx', Local, b)
       /\ \A s \in Transactions : Interest(Streams, tx', Live, s) =>
            Interest(Streams, tx, Live, s) /\ tx'[s].b = tx[s].b
    BY <1>12, <1>13
<1>15. p.mUsingBuffers = pool.mUsingBuffers /\ p.mConnectionIds = pool.mConnectionIds
    BY <1>9, <1>10 DEF SameProtocol
<1>16. alloc' \in [pc : {"idle", "asking", "got"}, b : BufferIds] /\ Al' = Al
    BY <1>1, <1>4 DEF TypeOK, Al
<1>17. op.fn \notin {"close", "connect"} /\ op'.fn = "none" /\ op' \in Calls /\ SameClients
    BY <1>1, NoCallType, UnchangedClients
<1> QED BY <1>1, <1>10, <1>14, <1>15, <1>16, <1>17, QuietReturn

\* The pool acknowledges for a connection, or is told by it.
LEMMA AckBecomes ==
    ASSUME Inv, NEW acks \in [Connections -> Nat], NEW r \in BOOLEAN, NEW q,
           q = Acked(pool, acks, r), Becomes(q)
    PROVE  /\ Consistent(pool') /\ pool'.posted = <<>> /\ SameProtocol(pool, pool')
           /\ pool'.mAcks = acks /\ pool'.registered = r /\ pool'.mPendings = pool.mPendings
           /\ pool'.mInvalidationId = pool.mInvalidationId /\ inv' = inv
<1>1. Consistent(pool) /\ pool.posted = <<>> /\ TypeOK
    BY DEF Inv
<1>2. /\ Consistent(q) /\ SameProtocol(pool, q)
      /\ q.mAcks = acks /\ q.registered = r /\ q.mPendings = pool.mPendings
      /\ q.mInvalidationId = pool.mInvalidationId /\ q.posted = pool.posted
    BY <1>1, AckConsistent
<1>3. PICK p : p = pool'
    OBVIOUS
<1>4. p = [q EXCEPT !.posted = <<>>] /\ inv' = [c \in Connections |-> IF Up(c) THEN inv[c] \o <<>> ELSE <<>>]
  <2>1. p = [q EXCEPT !.posted = <<>>] /\ inv' = [c \in Connections |-> IF Up(c) THEN inv[c] \o q.posted ELSE <<>>]
    BY <1>3 DEF Becomes
  <2>2. q.posted = <<>>
    BY <1>1, <1>2
  <2> QED BY <2>1, <2>2
<1>5. q \in Pools
    BY <1>2 DEF Consistent
<1>6. /\ p.posted = <<>> /\ Consistent(p) /\ SameUse(q, p) /\ SameTransfers(q, p)
      /\ p.mPendings = q.mPendings /\ p.mInvalidationId = q.mInvalidationId
      /\ p.mAcks = q.mAcks /\ p.registered = q.registered /\ p.mConnectionIds = q.mConnectionIds
    BY <1>2, <1>4, <1>5, ResetPosted
<1>7. SameProtocol(pool, p)
    BY <1>2, <1>6 DEF SameProtocol, SameUse, SameTransfers
<1>8. ASSUME NEW c \in Connections PROVE inv[c] = IF Up(c) THEN inv[c] \o <<>> ELSE <<>>
  <2>1. inv[c] \in Seq(Invalidations)
    BY <1>1 DEF TypeOK
  <2>2. Notified(pool, c, client[c], inv[c], onMessage, Streams[c])
    BY DEF Inv, Notices
  <2>3. ~Up(c) => inv[c] = <<>>
    BY <2>2 DEF Notified, Up
  <2>4. inv[c] \o <<>> = inv[c]
    BY <2>1
  <2> QED BY <2>3, <2>4
<1>9. inv = [c \in Connections |-> inv[c]]
    BY <1>1 DEF TypeOK
<1>10. inv' = inv
    BY <1>4, <1>8, <1>9
<1> QED BY <1>2, <1>3, <1>6, <1>7, <1>10

\* handleInvalidateAck() preserves the invariant.
LEMMA HandleInvalidateAckStep ==
    ASSUME Inv, HandleInvalidateAck
    PROVE  Inv'
<1> DEFINE id == pool.mInvalidationId
           late == LateConnections(pool)
           acks == [c \in Connections |-> IF c \in late THEN id ELSE pool.mAcks[c]]
           r == pool.mPendings # {}
           q == Acked(pool, acks, r)
<1>1. /\ op.fn = "handleInvalidateAck" /\ Handled /\ op' = NoCall /\ UNCHANGED <<unread, mail, taken, calls>>
      /\ UNCHANGED client /\ UNCHANGED tx /\ UNCHANGED alloc
      /\ onMessage' = onMessage \cup {<<c, id>> : c \in late}
    BY DEF HandleInvalidateAck, Running, Return
<1>2. Becomes(q)
    BY DEF HandleInvalidateAck, OnHandleAck, Acked
<1>3. TypeOK /\ Notices /\ pool \in Pools
    BY DEF Inv, Consistent
<1>4. id \in Nat /\ pool.mAcks \in [Connections -> Nat] /\ late \subseteq Connections
    BY <1>3 DEF Pools, LateConnections
<1>5. acks \in [Connections -> Nat] /\ r \in BOOLEAN
    BY <1>4
<1>6. \A c \in Connections : acks[c] = IF c \in late THEN id ELSE pool.mAcks[c]
    OBVIOUS
<1> HIDE DEF acks
<1>7. /\ Consistent(pool') /\ pool'.posted = <<>> /\ SameProtocol(pool, pool')
      /\ pool'.mAcks = acks /\ pool'.registered = r /\ pool'.mPendings = pool.mPendings
      /\ pool'.mInvalidationId = id /\ inv' = inv
    BY <1>2, <1>5, AckBecomes
<1>8. onMessage' \in SUBSET (Connections \X Nat) /\ \A y \in onMessage' : y[2] <= pool'.mInvalidationId
    BY <1>1, <1>3, <1>4, <1>7 DEF TypeOK, Notices
<1>9. ASSUME NEW c \in Connections PROVE Notified(pool', c, client[c], inv'[c], onMessage', Streams[c])
  <2>1. Notified(pool, c, client[c], inv[c], onMessage, Streams[c])
    BY <1>3 DEF Notices
  <2>2. acks[c] <= id
    BY <1>4, <1>6, <2>1 DEF Notified
  <2>3. ASSUME inv[c] # <<>> PROVE \E y \in onMessage' : y[1] = c
    <3>1. client[c].state = "up" /\ (pool.mAcks[c] < id \/ \E y \in onMessage : y[1] = c)
      BY <2>1, <2>3 DEF Notified
    <3>2. c \in pool.mConnectionIds
      BY <3>1 DEF Inv, Order, Connected
    <3>3. CASE pool.mAcks[c] < id
      <4>1. c \in late
        BY <1>4, <3>2, <3>3 DEF LateConnections
      <4>2. <<c, id>> \in onMessage'
        BY <1>1, <4>1
      <4> QED BY <4>2
    <3>4. CASE \E y \in onMessage : y[1] = c
      BY <1>1, <3>4
    <3> QED BY <3>1, <3>3, <3>4
  <2> QED BY <1>7, <2>1, <2>2, <2>3 DEF Notified
<1>10. pool'.mPendings # {} => pool'.registered
    BY <1>7
<1>11. SameClients
    BY <1>1, UnchangedClients
<1>12. /\ tx' = tx /\ Streams \in AllStreams /\ tx \in AllTransfers /\ Protocol(Streams, tx, pool, Live, St)
    BY <1>1, BasicsHold DEF Basics, Inv
<1>13. Protocol(Streams, tx', pool', Live, St)
  <2>1. PICK p : p = pool'
    OBVIOUS
  <2>2. Protocol(Streams, tx, p, Live, St)
    BY <1>7, <1>12, <2>1, SameUsers
  <2> QED BY <1>12, <2>1, <2>2
<1>14. Holdings(client', Streams, pool.mUsingBuffers, tx, Unused(client', Streams, tx, Live), Al)
    BY <1>11, <1>12, SameHoldings
<1>15. alloc' \in [pc : {"idle", "asking", "got"}, b : BufferIds] /\ Al' = Al
    BY <1>1, <1>3 DEF TypeOK, Al
<1>16. pool'.mUsingBuffers = pool.mUsingBuffers /\ pool'.mConnectionIds = pool.mConnectionIds
    BY <1>7 DEF SameProtocol
<1>17. /\ tx' \in AllTransfers
       /\ Holdings(client', Streams, pool'.mUsingBuffers, tx', Unused(client', Streams, tx', Live), Al')
    BY <1>12, <1>14, <1>15, <1>16
<1>18. op.fn \notin {"close", "connect"} /\ op'.fn = "none" /\ op' \in Calls
    BY <1>1, NoCallType
<1>19. inv' \in [Connections -> Seq(Invalidations)]
    BY <1>3, <1>7 DEF TypeOK
<1>20. Consistent(pool') /\ pool'.posted = <<>> /\ Handled /\ UNCHANGED <<unread, mail, taken, calls>>
    BY <1>1, <1>7
<1>21. alloc' \in [pc : {"idle", "asking", "got"}, b : BufferIds]
    BY <1>15
<1> QED BY <1>8, <1>9, <1>10, <1>11, <1>13, <1>16, <1>17, <1>18, <1>19, <1>20, <1>21, ReturnStep

\* allocate() gets a buffer that nobody has.
LEMMA TakenReturn ==
    ASSUME Inv, op.fn \notin {"close", "connect"}, Handled, op'.fn = "none", op' \in Calls,
           UNCHANGED <<unread, mail, taken, calls>>, UNCHANGED onMessage, UNCHANGED tx, UNCHANGED client,
           alloc.pc # "got", NEW b \in BufferIds, alloc' = [pc |-> "got", b |-> b],
           b \notin pool.mBuffers \ pool.mFreeBuffers,
           NEW q, Consistent(q), SameInvalidation(pool, q), CleanedUp(q),
           q.mUsingBuffers = pool.mUsingBuffers \cup {<<Local, b>>},
           SameTransfers(pool, q), q.mConnectionIds = pool.mConnectionIds
    PROVE  Inv'
<1>1. PICK p : Consistent(p) /\ SameProtocol(q, p) /\ InvalidationStep(pool, p) /\ Becomes(p)
    BY EvictFacts
<1>2. /\ Consistent(pool') /\ pool'.posted = <<>> /\ SameProtocol(p, pool')
      /\ (pool'.mPendings # {} => pool'.registered)
      /\ inv' \in [Connections -> Seq(Invalidations)]
      /\ \A c \in Connections : Notified(pool', c, client[c], inv'[c], onMessage, Streams[c])
      /\ \A y \in onMessage : y[2] <= pool'.mInvalidationId
    BY <1>1, BecomesFacts
<1>3. PICK r : r = pool'
    OBVIOUS
<1>4. /\ r.mUsingBuffers = pool.mUsingBuffers \cup {<<Local, b>>} /\ r.mConnectionIds = pool.mConnectionIds
      /\ SameTransfers(pool, r)
    BY <1>1, <1>2, <1>3 DEF SameProtocol, SameTransfers
<1>5. /\ Streams \in AllStreams /\ tx \in AllTransfers /\ Awake(Streams, Live, St) /\ Local \in Live
      /\ \A c \in Connections : client[c].refs[b] \in Int
    BY BasicsHold DEF Basics
<1>6. /\ Protocol(Streams, tx, pool, Live, St) /\ Consistent(pool) /\ TypeOK
      /\ Holdings(client, Streams, pool.mUsingBuffers, tx, Un, Al)
    BY DEF Inv
<1>7. /\ b \in Un /\ b \notin client[Local].dying
      /\ \A i \in 1 .. Len(Streams[Local]) : ~Releases(Streams[Local][i], b)
  <2>1. /\ b \in Unused(client, Streams, tx, Live) /\ b \notin client[Local].dying
        /\ \A i \in 1 .. Len(Streams[Local]) : ~Releases(Streams[Local][i], b)
    BY <1>5, <1>6, FreeUnheard
  <2> QED BY <2>1 DEF Un
<1>8. Al = {} /\ Al' = {b}
    BY DEF Al
<1>9. Holdings(client, Streams, r.mUsingBuffers, tx, Un, {b})
  <2>1. Holdings(client, Streams, pool.mUsingBuffers, tx, Un, {}) /\ Un \subseteq Un
    BY <1>6, <1>8
  <2> QED BY <1>4, <1>5, <1>7, <2>1, TakenStep
<1>10. Protocol(Streams, tx, r, Live, St)
    BY <1>4, <1>5, <1>6, ChangeUsers
<1>11. /\ tx' \in AllTransfers /\ Protocol(Streams, tx', pool', Live, St)
       /\ Holdings(client', Streams, pool'.mUsingBuffers, tx', Unused(client', Streams, tx', Live), Al')
  <2>1. client' = client /\ tx' = tx
    OBVIOUS
  <2> QED BY <1>3, <1>5, <1>8, <1>9, <1>10, <2>1 DEF Un
<1>12. /\ onMessage' \in SUBSET (Connections \X Nat)
       /\ \A c \in Connections : Notified(pool', c, client[c], inv'[c], onMessage', Streams[c])
       /\ \A y \in onMessage' : y[2] <= pool'.mInvalidationId
    BY <1>2, <1>6 DEF TypeOK
<1>13. alloc' \in [pc : {"idle", "asking", "got"}, b : BufferIds] /\ SameClients
    BY UnchangedClients
<1>14. pool'.mConnectionIds = pool.mConnectionIds
    BY <1>3, <1>4
<1>15. /\ Consistent(pool') /\ pool'.posted = <<>> /\ (pool'.mPendings # {} => pool'.registered)
       /\ inv' \in [Connections -> Seq(Invalidations)]
    BY <1>2
<1> QED BY <1>11, <1>12, <1>13, <1>14, <1>15, ReturnStep

\* allocate() recycles a free buffer.
LEMMA RecycleStep ==
    ASSUME Inv, NEW b \in BufferIds, Recycle(b)
    PROVE  Inv'
<1> DEFINE o == [pool EXCEPT !.mFreeBuffers = @ \ {b}]
           q == HandleOwnBuffer(o, Local, b)
<1>1. /\ op.fn = "allocate" /\ Handled /\ op' = NoCall /\ UNCHANGED <<unread, mail, taken, calls>>
      /\ UNCHANGED onMessage /\ UNCHANGED client /\ UNCHANGED tx /\ alloc' = [pc |-> "got", b |-> b]
      /\ b \in pool.mFreeBuffers /\ CleanedUp(q)
    BY DEF Recycle, Running, Return
<1>2. Consistent(pool) /\ alloc.pc # "got" /\ Local \in pool.mConnectionIds
  <2>1. alloc.pc = "idle"
    BY <1>1 DEF Inv, Order, Running
  <2>2. Local \in pool.mConnectionIds
    BY BasicsHold DEF Basics
  <2> QED BY <2>1, <2>2 DEF Inv
<1>3. /\ Almost(o, b) /\ SameUse(pool, o) /\ SameTransfers(pool, o) /\ SameInvalidation(pool, o)
      /\ o.mConnectionIds = pool.mConnectionIds
    BY <1>1, <1>2, TakeFree
<1> HIDE DEF o
<1>4. Local \in o.mConnectionIds
    BY <1>2, <1>3
<1>5. /\ Consistent(q) /\ q.mUsingBuffers = o.mUsingBuffers \cup {<<Local, b>>}
      /\ SameTransfers(o, q) /\ SameInvalidation(o, q) /\ q.mConnectionIds = o.mConnectionIds
    BY <1>3, <1>4, OwnAlmost
<1> HIDE DEF q
<1>6. /\ q.mUsingBuffers = pool.mUsingBuffers \cup {<<Local, b>>} /\ SameTransfers(pool, q)
      /\ SameInvalidation(pool, q) /\ q.mConnectionIds = pool.mConnectionIds
    BY <1>3, <1>5 DEF SameUse, SameTransfers, SameInvalidation
<1>7. op.fn \notin {"close", "connect"} /\ op'.fn = "none" /\ op' \in Calls
    BY <1>1, NoCallType
<1>8. b \notin pool.mBuffers \ pool.mFreeBuffers /\ Consistent(q) /\ CleanedUp(q)
    BY <1>1, <1>5
<1> QED BY <1>1, <1>2, <1>6, <1>7, <1>8, TakenReturn

\* allocate() gets a new buffer, or none.
LEMMA AllocatedStep ==
    ASSUME Inv, NEW ok \in BOOLEAN, Allocated(ok)
    PROVE  Inv'
<1> DEFINE b == pool.mSeq
           o == AddNewBuffer(pool)
           q == HandleOwnBuffer(o, Local, b)
<1>1. /\ Running("none") /\ alloc.pc = "asking" /\ op' = op /\ UNCHANGED <<unread, mail, taken, calls>>
      /\ UNCHANGED onMessage /\ UNCHANGED client /\ UNCHANGED tx
    BY DEF Allocated
<1>2. CASE CleanedUp(pool) /\ alloc' = [alloc EXCEPT !.pc = "idle"]
    BY <1>1, <1>2, UnallocatedStep
<1>3. CASE /\ pool.allocations < MaxAllocations /\ CleanedUp(q)
           /\ alloc' = [pc |-> "got", b |-> b]
  <2>1. Consistent(pool) /\ TypeOK /\ Handled /\ Local \in pool.mConnectionIds
    BY <1>1, BasicsHold DEF Inv, Order, Basics
  <2>2. /\ b \in BufferIds /\ b \notin pool.mBuffers
        /\ Almost(o, b) /\ SameUse(pool, o) /\ SameTransfers(pool, o) /\ SameInvalidation(pool, o)
        /\ o.mConnectionIds = pool.mConnectionIds
    BY <1>3, <2>1, NewId
  <2> HIDE DEF o, b
  <2>3. Local \in o.mConnectionIds
    BY <2>1, <2>2
  <2>4. /\ Consistent(q) /\ q.mUsingBuffers = o.mUsingBuffers \cup {<<Local, b>>}
        /\ SameTransfers(o, q) /\ SameInvalidation(o, q) /\ q.mConnectionIds = o.mConnectionIds
    BY <2>2, <2>3, OwnAlmost
  <2> HIDE DEF q
  <2>5. /\ q.mUsingBuffers = pool.mUsingBuffers \cup {<<Local, b>>} /\ SameTransfers(pool, q)
        /\ SameInvalidation(pool, q) /\ q.mConnectionIds = pool.mConnectionIds
    BY <2>2, <2>4 DEF SameUse, SameTransfers, SameInvalidation
  <2>6. op.fn \notin {"close", "connect"} /\ op'.fn = "none" /\ op' \in Calls
    BY <1>1, <2>1 DEF Running, TypeOK
  <2>7. /\ b \notin pool.mBuffers \ pool.mFreeBuffers /\ CleanedUp(q) /\ alloc.pc # "got"
        /\ alloc' = [pc |-> "got", b |-> b] /\ b \in BufferIds /\ Handled /\ Consistent(q)
    BY <1>1, <1>3, <2>1, <2>2, <2>4
  <2> QED BY <1>1, <2>5, <2>6, <2>7, TakenReturn
<1> QED BY <1>2, <1>3 DEF Allocated

-----------------------------------------------------------------------------
(* The messages that the pool handles.                                     *)

\* The first message of a queue that the pool has taken, and what follows it.
Popped(c) ==
    /\ taken[c] > 0 /\ mail' = [mail EXCEPT ![c] = Tail(@)] /\ taken' = [taken EXCEPT ![c] = @ - 1]
    /\ UNCHANGED client

\* There is such a message while the pool reads.
LEMMA PoppedFacts ==
    ASSUME Inv, NEW c \in Connections, taken[c] > 0
    PROVE  /\ mail[c] # <<>> /\ Streams[c] # <<>> /\ Head(Streams[c]) = Head(mail[c])
           /\ c \in Live /\ c \in pool.mConnectionIds /\ Live = pool.mConnectionIds /\ op.fn # "none"
           /\ Streams \in AllStreams /\ Streams[c] \in Seq(Messages)
<1>1. TypeOK /\ Order
    BY DEF Inv
<1>2. mail[c] \in Seq(Messages) /\ taken[c] \in Nat /\ taken[c] <= Len(mail[c])
    BY <1>1 DEF TypeOK
<1>3. mail[c] # <<>>
    BY <1>2
<1>4. Own(c) \in Objects /\ Own(c).mail = mail[c] /\ Streams[c] = Stream(Own(c)) /\ Stream(Own(c)) \in Seq(Messages)
    BY <1>1, OwnType
<1>5. Streams[c] # <<>> /\ Head(Streams[c]) = Head(mail[c])
    BY <1>3, <1>4, StreamHead
<1>6. ~Handled
    BY <1>2 DEF Handled
<1>7. Live = pool.mConnectionIds /\ op.fn # "none"
    BY <1>1, <1>6 DEF Live, Closing, Order, Running
<1>8. Streams \in AllStreams /\ Awake(Streams, Live, St)
    BY BasicsHold DEF Basics
<1>9. c \in Live
    BY <1>5, <1>8 DEF Awake
<1> QED BY <1>3, <1>4, <1>5, <1>7, <1>8, <1>9

\* The streams after it.
LEMMA PoppedStream ==
    ASSUME Inv, NEW c \in Connections, Popped(c)
    PROVE  Streams' = [Streams EXCEPT ![c] = Tail(Streams[c])]
<1>1. TypeOK /\ mail[c] # <<>>
    BY PoppedFacts DEF Inv, Popped
<1>2. \A d \in Connections : Own(d) \in Objects /\ Own(d).mail = mail[d] /\ Own(d).cl = client[d]
    BY <1>1, OwnType
<1>3. mail \in [Connections -> Seq(Messages)] /\ client' = client
    BY <1>1 DEF TypeOK, Popped
<1>4. mail'[c] = Tail(mail[c]) /\ \A d \in Connections : d # c => mail'[d] = mail[d]
    BY <1>3 DEF Popped
<1>5. ASSUME NEW d \in Connections PROVE Own(d)'.mail = mail'[d] /\ Own(d)'.cl = client[d]
    BY <1>3 DEF Own
<1>6. ASSUME NEW d \in Connections, d # c PROVE Stream(Own(d))' = Stream(Own(d))
    BY <1>2, <1>4, <1>5, <1>6 DEF Stream
<1>7. Stream(Own(c))' = Tail(Stream(Own(c)))
  <2>1. PICK q : q = Own(c)'
    OBVIOUS
  <2>2. q.mail = Tail(Own(c).mail) /\ q.cl = Own(c).cl /\ Own(c) \in Objects /\ Own(c).mail # <<>>
    BY <1>1, <1>2, <1>4, <1>5, <2>1
  <2>3. Stream(q) = Tail(Stream(Own(c)))
    BY <2>2, StreamTail
  <2>4. Stream(Own(c))' = Stream(Own(c)')
    BY DEF Stream, Own
  <2> QED BY <2>1, <2>3, <2>4
<1> QED BY <1>6, <1>7 DEF Streams

\* The connection is told as before.
LEMMA NotifiedTail ==
    ASSUME NEW p, NEW c, NEW k, NEW i, NEW om, NEW s \in Seq(Messages), s # <<>>, Notified(p, c, k, i, om, s)
    PROVE  Notified(p, c, k, i, om, Tail(s))
<1>1. Tail(s) \in Seq(Messages) /\ Len(Tail(s)) = Len(s) - 1 /\ Len(s) \in Nat \ {0}
    BY TailItems
<1>2. \A j \in 1 .. Len(Tail(s)) : Tail(s)[j] = s[j + 1] /\ j + 1 \in 1 .. Len(s)
    BY <1>1, TailItems
<1> QED BY <1>1, <1>2 DEF Notified

\* The pool handles a message, with all that belongs to it.
LEMMA PoppedStep ==
    ASSUME Inv, NEW c \in Connections, unread = {}, Popped(c),
           UNCHANGED <<op, unread, calls, onMessage, tx, alloc>>,
           Consistent(pool'), pool'.posted = <<>>, pool'.mConnectionIds = pool.mConnectionIds,
           pool'.mPendings # {} => pool'.registered, inv' \in [Connections -> Seq(Invalidations)],
           \A d \in Connections : Notified(pool', d, client[d], inv'[d], onMessage, Streams[d]),
           \A y \in onMessage : y[2] <= pool'.mInvalidationId,
           Protocol(Streams', tx, pool', Live, St),
           \A d \in Connections, b \in BufferIds :
                <<d, b>> \in pool'.mUsingBuffers <=>
                    (<<d, b>> \in pool.mUsingBuffers /\ ~(d = c /\ Releases(Head(Streams[c]), b)))
                    \/ (d = c /\ Grants(Head(Streams[c]), b))
    PROVE  Inv'
<1>1. TypeOK /\ Order
    BY DEF Inv
<1>2. /\ mail[c] # <<>> /\ Streams[c] # <<>> /\ c \in pool.mConnectionIds /\ Live = pool.mConnectionIds
      /\ op.fn # "none" /\ Streams \in AllStreams /\ Streams[c] \in Seq(Messages)
    BY PoppedFacts DEF Popped
<1>3. Streams' = [Streams EXCEPT ![c] = Tail(Streams[c])]
    BY PoppedStream
<1>4. client' = client /\ St' = St /\ tx' = tx /\ Al' = Al
    BY DEF Popped, St, Al
<1>5. Live' \subseteq Live
    BY <1>2 DEF Live
<1>6. /\ mail' \in [Connections -> Seq(Messages)] /\ taken' \in [Connections -> Nat]
      /\ \A d \in Connections : d # c => mail'[d] = mail[d] /\ taken'[d] = taken[d]
      /\ mail'[c] \in Seq(Messages) /\ taken'[c] = taken[c] - 1 /\ Len(mail'[c]) = Len(mail[c]) - 1
      /\ Len(mail[c]) \in Nat \ {0} /\ taken[c] \in Nat \ {0}
  <2>1. mail \in [Connections -> Seq(Messages)] /\ taken \in [Connections -> Nat]
    BY <1>1 DEF TypeOK
  <2>2. Tail(mail[c]) \in Seq(Messages) /\ Len(Tail(mail[c])) = Len(mail[c]) - 1 /\ Len(mail[c]) \in Nat \ {0}
    BY <1>2, <2>1, TailItems
  <2> QED BY <2>1, <2>2 DEF Popped
<1>7. TypeOK'
  <2>1. \A d \in Connections : taken[d] <= Len(mail[d]) /\ QueueSize - (Len(mail[d]) - taken[d]) >= 0
    BY <1>1 DEF TypeOK, Room, Own
  <2>2. ASSUME NEW d \in Connections
        PROVE  taken'[d] <= Len(mail'[d]) /\ QueueSize - (Len(mail'[d]) - taken'[d]) >= 0
    <3>1. CASE d = c
      BY <1>6, <2>1, <3>1, QueueAssumption
    <3>2. CASE d # c
      BY <1>6, <2>1, <3>2
    <3> QED BY <3>1, <3>2
  <2>3. \A d \in Connections : taken'[d] <= Len(mail'[d]) /\ Room(Own(d))' >= 0
    BY <2>2 DEF Room, Own
  <2> QED BY <1>1, <1>4, <1>6, <2>3 DEF TypeOK, CallOK
<1>8. Order'
  <2>1. ASSUME NEW d \in Connections PROVE Connected(d)'
    <3>1. Connected(d)
      BY <1>1 DEF Order
    <3>2. CASE d = c
      BY <1>2, <1>4, <1>6, <3>1, <3>2 DEF Connected
    <3>3. CASE d # c
      <4>1. Streams'[d] = Streams[d] /\ mail'[d] = mail[d] /\ taken'[d] = taken[d]
        BY <1>2, <1>3, <1>6, <3>3 DEF AllStreams
      <4> QED BY <1>4, <3>1, <4>1 DEF Connected
    <3> QED BY <3>2, <3>3
  <2>2. (Running("none") => Handled)' /\ (Running("allocate") => alloc.pc = "idle")'
    BY <1>1, <1>2 DEF Running, Order
  <2> QED BY <1>1, <1>4, <2>1, <2>2 DEF Order
<1>9. Notices'
  <2>1. ASSUME NEW d \in Connections
        PROVE  Notified(pool', d, client'[d], inv'[d], onMessage', Streams'[d])
    <3>1. PICK q, i, om, s : q = pool' /\ i = inv'[d] /\ om = onMessage' /\ s = Streams'[d]
      OBVIOUS
    <3>2. Notified(q, d, client[d], i, om, Streams[d])
      BY <3>1
    <3>3. s = Streams[d] \/ (d = c /\ s = Tail(Streams[d]))
      BY <1>2, <1>3, <3>1 DEF AllStreams
    <3>4. Notified(q, d, client[d], i, om, s)
      BY <1>2, <3>2, <3>3, NotifiedTail
    <3> QED BY <1>4, <3>1, <3>4
  <2> QED BY <2>1 DEF Notices
<1>10. PICK S2, r, live2, U2 : S2 = Streams' /\ r = pool' /\ live2 = Live' /\ U2 = pool'.mUsingBuffers
    OBVIOUS
<1>11. Protocol(S2, tx, r, live2, St)
    BY <1>5, <1>10, LessLive
<1>12. Un \subseteq Unused(client, S2, tx, live2)
  <2>1. WasRead(Streams, S2, c, Head(Streams[c]))
    BY <1>2, <1>3, <1>10, ReadStream
  <2>2. \A d \in Connections : \A t : HasResult(S2[d], t) => HasResult(Streams[d], t)
    BY <2>1 DEF WasRead
  <2>3. tx \in AllTransfers
    BY <1>1 DEF TypeOK
  <2>4. ASSUME NEW t \in Transactions, Interest(S2, tx, live2, t) PROVE Interest(Streams, tx, Live, t)
    <3>1. tx[t].to \in Connections
      BY <2>3 DEF AllTransfers, TransferStates
    <3> QED BY <1>5, <1>10, <2>2, <2>4, <3>1 DEF Interest, Unfinished
  <2> QED BY <2>4 DEF Un, Unused
<1>13. Holdings(client, S2, U2, tx, Unused(client, S2, tx, live2), Al)
  <2>1. Holdings(client, Streams, pool.mUsingBuffers, tx, Un, Al)
    BY DEF Inv
  <2>2. Al \subseteq BufferIds /\ client[Local].state # "gone" /\ Local \in Connections
    BY <1>1, ConnectionsAssumption DEF Al, TypeOK, Order
  <2>3. \A d \in Connections, b \in BufferIds : client[d].state = "gone" => client[d].refs[b] = 0
    BY BasicsHold DEF Basics
  <2>4. S2 = [Streams EXCEPT ![c] = Tail(Streams[c])]
    BY <1>3, <1>10
  <2>5. \A d \in Connections, b \in BufferIds :
                <<d, b>> \in U2 <=>
                    (<<d, b>> \in pool.mUsingBuffers /\ ~(d = c /\ Releases(Head(Streams[c]), b)))
                    \/ (d = c /\ Grants(Head(Streams[c]), b))
    BY <1>10
  <2> QED BY <1>2, <1>12, <2>1, <2>2, <2>3, <2>4, <2>5, ReadFrame, ZenonT(30)
<1>14. Protocol(Streams', tx', pool', Live', St')
    BY <1>4, <1>10, <1>11
<1>15. Holdings(client', Streams', pool'.mUsingBuffers, tx', Un', Al')
    BY <1>4, <1>10, <1>13 DEF Un
<1> QED BY <1>7, <1>8, <1>9, <1>14, <1>15 DEF Inv

\* What the pool knows of the message that it handles.
LEMMA HeadFacts ==
    ASSUME Inv, NEW c \in Connections, Popped(c), NEW m, m = Head(mail[c])
    PROVE  /\ m = Head(Streams[c]) /\ WasRead(Streams, Streams', c, m) /\ m \in Messages /\ MessageOK(tx, c, m)
           /\ Streams' = [Streams EXCEPT ![c] = Tail(Streams[c])] /\ Streams[c] # <<>> /\ Streams \in AllStreams
           /\ Protocol(Streams, tx, pool, Live, St) /\ tx \in AllTransfers
           /\ Consistent(pool) /\ pool \in Pools /\ pool.posted = <<>>
           /\ c \in pool.mConnectionIds /\ Live \in SUBSET pool.mConnectionIds
           /\ Awake(Streams, Live, St)
<1>1. /\ Streams[c] # <<>> /\ m = Head(Streams[c]) /\ c \in pool.mConnectionIds /\ Streams \in AllStreams
      /\ Live = pool.mConnectionIds
    BY PoppedFacts DEF Popped
<1>2. Streams' = [Streams EXCEPT ![c] = Tail(Streams[c])]
    BY PoppedStream
<1>3. PICK S2 : S2 = Streams'
    OBVIOUS
<1>4. WasRead(Streams, S2, c, m)
    BY <1>1, <1>2, <1>3, ReadStream
<1>5. Protocol(Streams, tx, pool, Live, St) /\ Consistent(pool) /\ pool.posted = <<>> /\ tx \in AllTransfers
    BY DEF Inv, TypeOK
<1>6. m \in Messages /\ MessageOK(tx, c, m)
    BY <1>4, <1>5 DEF WasRead, Protocol
<1>7. Awake(Streams, Live, St) /\ pool \in Pools
    BY BasicsHold DEF Basics
<1> QED BY <1>1, <1>2, <1>3, <1>4, <1>5, <1>6, <1>7

\* The users of buffers after the message m of connection c.
UsersAfter(p, q, c, m) ==
    \A d \in Connections, b \in BufferIds :
        <<d, b>> \in q.mUsingBuffers <=>
            (<<d, b>> \in p.mUsingBuffers /\ ~(d = c /\ Releases(m, b))) \/ (d = c /\ Grants(m, b))

\* What is to be shown of a handler: the rest of the invariant follows.
LEMMA SaidStep ==
    ASSUME Inv, NEW c \in Connections, unread = {}, Popped(c),
           UNCHANGED <<op, unread, calls, onMessage, tx, alloc>>,
           NEW p, Consistent(p), InvalidationStep(pool, p), Becomes(p),
           p.mConnectionIds = pool.mConnectionIds,
           Protocol(Streams', tx, p, Live, St), UsersAfter(pool, p, c, Head(Streams[c]))
    PROVE  Inv'
<1>1. /\ Consistent(pool') /\ pool'.posted = <<>> /\ SameProtocol(p, pool')
      /\ (pool'.mPendings # {} => pool'.registered)
      /\ inv' \in [Connections -> Seq(Invalidations)]
      /\ \A d \in Connections : Notified(pool', d, client[d], inv'[d], onMessage, Streams[d])
      /\ \A y \in onMessage : y[2] <= pool'.mInvalidationId
    BY BecomesFacts
<1>2. pool'.mConnectionIds = pool.mConnectionIds /\ pool'.mUsingBuffers = p.mUsingBuffers
    BY <1>1 DEF SameProtocol
<1>3. Protocol(Streams', tx, pool', Live, St)
  <2>1. PICK r, S2 : r = pool' /\ S2 = Streams'
    OBVIOUS
  <2>2. WasRead(Streams, S2, c, Head(mail[c])) /\ tx \in AllTransfers
    BY <2>1, HeadFacts
  <2>3. S2 \in AllStreams
    BY <2>2 DEF WasRead
  <2>4. Protocol(S2, tx, r, Live, St)
    BY <1>1, <2>1, <2>2, <2>3, SameUsers
  <2> QED BY <2>1, <2>4
<1>4. \A d \in Connections, b \in BufferIds :
                <<d, b>> \in pool'.mUsingBuffers <=>
                    (<<d, b>> \in pool.mUsingBuffers /\ ~(d = c /\ Releases(Head(Streams[c]), b)))
                    \/ (d = c /\ Grants(Head(Streams[c]), b))
    BY <1>2 DEF UsersAfter
<1> QED BY <1>1, <1>2, <1>3, <1>4, PoppedStep

\* Most messages change no user.
LEMMA SameUsersAfter ==
    ASSUME NEW p, NEW q, q.mUsingBuffers = p.mUsingBuffers, NEW c, NEW m,
           m.newStatus \notin {"NOT_USED", "TRANSFER_OK"}
    PROVE  UsersAfter(p, q, c, m)
    BY DEF UsersAfter, Releases, Grants

\* NOT_USED is handled.
LEMMA ReadNotUsed ==
    ASSUME Inv, NEW c \in Connections, unread = {}, Popped(c),
           UNCHANGED <<op, unread, calls, onMessage, tx, alloc>>,
           NEW m, m = Head(mail[c]), m.newStatus = "NOT_USED",
           Becomes(HandleReleaseBuffer(pool, c, m.bufferId))
    PROVE  Inv'
<1>1. /\ m = Head(Streams[c]) /\ WasRead(Streams, Streams', c, m) /\ MessageOK(tx, c, m)
      /\ Streams \in AllStreams /\ tx \in AllTransfers
      /\ Protocol(Streams, tx, pool, Live, St) /\ Consistent(pool) /\ pool \in Pools /\ pool.posted = <<>>
    BY HeadFacts
<1>2. PICK b : b = m.bufferId
    OBVIOUS
<1>3. b \in BufferIds
    BY <1>1, <1>2 DEF MessageOK
<1>4. PICK p : p = HandleReleaseBuffer(pool, c, b)
    OBVIOUS
<1>5. /\ Consistent(p) /\ p.mUsingBuffers = pool.mUsingBuffers \ {<<c, b>>}
      /\ SameTransfers(pool, p) /\ p.mConnectionIds = pool.mConnectionIds
      /\ InvalidationStep(pool, p)
    BY <1>1, <1>3, <1>4, ReleaseConsistent
<1>6. Becomes(p)
    BY <1>2, <1>4
<1>7. \A d : Releases(m, d) <=> d = b
    BY <1>2 DEF Releases
<1>8. UsersAfter(pool, p, c, m)
    BY <1>5, <1>7 DEF UsersAfter, Grants
<1>9. Protocol(Streams', tx, p, Live, St)
  <2>1. PICK S2 : S2 = Streams'
    OBVIOUS
  <2>2. WasRead(Streams, S2, c, m) /\ m.newStatus \in Neutral
    BY <1>1, <2>1 DEF Neutral
  <2>3. \A d \in Connections, e \in BufferIds :
            <<d, e>> \in pool.mUsingBuffers /\ ~(d = c /\ Releases(m, e)) => <<d, e>> \in p.mUsingBuffers
    BY <1>5, <1>7
  <2>4. Protocol(S2, tx, p, Live, St)
    BY <1>1, <1>5, <2>2, <2>3, ReadNeutral
  <2> QED BY <2>1, <2>4
<1> QED BY <1>1, <1>5, <1>6, <1>8, <1>9, SaidStep

\* TRANSFER_TO is handled.
LEMMA ReadTo ==
    ASSUME Inv, NEW c \in Connections, unread = {}, Popped(c),
           UNCHANGED <<op, unread, calls, onMessage, tx, alloc>>,
           NEW m, m = Head(mail[c]), m.newStatus = "TRANSFER_TO",
           Becomes(HandleTransferTo(pool, c, m.transactionId, m.bufferId, m.targetConnectionId))
    PROVE  Inv'
<1>1. /\ m = Head(Streams[c]) /\ WasRead(Streams, Streams', c, m) /\ MessageOK(tx, c, m)
      /\ Streams' = [Streams EXCEPT ![c] = Tail(Streams[c])] /\ Streams[c] # <<>>
      /\ Streams \in AllStreams /\ tx \in AllTransfers
      /\ Protocol(Streams, tx, pool, Live, St) /\ Consistent(pool) /\ pool \in Pools /\ pool.posted = <<>>
      /\ Live \in SUBSET pool.mConnectionIds
    BY HeadFacts
<1>2. PICK t, b, r : t = m.transactionId /\ b = m.bufferId /\ r = m.targetConnectionId
    OBVIOUS
<1>3. t \in Transactions /\ b \in BufferIds /\ r \in Connections
  <2>1. t \in Transactions /\ tx[t].to = r /\ tx[t].b = b
    BY <1>1, <1>2 DEF MessageOK
  <2> QED BY <1>1, <2>1 DEF AllTransfers, TransferStates
<1>4. PICK p : p = HandleTransferTo(pool, c, t, b, r)
    OBVIOUS
<1>5. /\ Consistent(p) /\ SameInvalidation(pool, p)
      /\ p.mUsingBuffers = pool.mUsingBuffers /\ p.mConnectionIds = pool.mConnectionIds
      /\ ToOutcome(pool, p, c, t, b, r)
    BY <1>1, <1>3, <1>4, TransferToConsistent
<1>6. Becomes(p) /\ InvalidationStep(pool, p)
    BY <1>1, <1>2, <1>4, <1>5, NoInvalidation
<1>7. UsersAfter(pool, p, c, m)
    BY <1>5, SameUsersAfter
<1>8. Protocol(Streams', tx, p, Live, St)
  <2>1. PICK S2 : S2 = Streams'
    OBVIOUS
  <2>2. WasRead(Streams, S2, c, m) /\ S2 = [Streams EXCEPT ![c] = Tail(Streams[c])]
    BY <1>1, <2>1
  <2>3. ToOutcome(pool, p, c, m.transactionId, m.bufferId, m.targetConnectionId)
    BY <1>2, <1>5
  <2>4. Protocol(S2, tx, p, Live, St)
    BY <1>1, <1>5, <2>2, <2>3, ReadTransferTo
  <2> QED BY <2>1, <2>4
<1> QED BY <1>1, <1>5, <1>6, <1>7, <1>8, SaidStep

\* TRANSFER_FROM is handled.
LEMMA ReadFrom ==
    ASSUME Inv, NEW c \in Connections, unread = {}, Popped(c),
           UNCHANGED <<op, unread, calls, onMessage, tx, alloc>>,
           NEW m, m = Head(mail[c]), m.newStatus = "TRANSFER_FROM",
           Becomes(HandleTransferFrom(pool, c, m.transactionId, m.bufferId))
    PROVE  Inv'
<1>1. /\ m = Head(Streams[c]) /\ WasRead(Streams, Streams', c, m) /\ MessageOK(tx, c, m)
      /\ Streams \in AllStreams /\ tx \in AllTransfers
      /\ Protocol(Streams, tx, pool, Live, St) /\ Consistent(pool) /\ pool \in Pools /\ pool.posted = <<>>
      /\ c \in pool.mConnectionIds /\ Awake(Streams, Live, St)
    BY HeadFacts
<1>2. PICK t, b : t = m.transactionId /\ b = m.bufferId
    OBVIOUS
<1>3. t \in Transactions /\ tx[t].to = c /\ tx[t].b = b
    BY <1>1, <1>2 DEF MessageOK
<1>4. b \in BufferIds
    BY <1>1, <1>3 DEF AllTransfers, TransferStates
<1>5. b \in pool.mBuffers \ pool.mFreeBuffers
  <2>1. HasFrom(Streams[c], t)
    BY <1>1, <1>2 DEF WasRead, IsFrom
  <2>2. Unfinished(Streams, tx, t)
    BY <1>1, <1>3, <2>1 DEF Protocol, Open
  <2>3. c \in Live
    BY PoppedFacts DEF Popped
  <2>4. Interest(Streams, tx, Live, t)
    BY <1>3, <2>2, <2>3 DEF Interest
  <2>5. \A d \in Connections : Streams[d] # <<>> => d \in Live
    BY <1>1 DEF Awake
  <2>6. \A s \in Transactions : Interest(Streams, tx, Live, s) => tx[s].b \in pool.mBuffers \ pool.mFreeBuffers
    BY <1>1, <2>5, InterestProtected
  <2> QED BY <1>3, <2>4, <2>6
<1>6. PICK p : p = HandleTransferFrom(pool, c, t, b)
    OBVIOUS
<1>7. /\ Consistent(p) /\ SameInvalidation(pool, p)
      /\ p.mUsingBuffers = pool.mUsingBuffers /\ p.mConnectionIds = pool.mConnectionIds
      /\ p.mCompletedTransactions = pool.mCompletedTransactions
      /\ FromOutcome(pool, p, c, t, b)
    BY <1>1, <1>3, <1>4, <1>5, <1>6, TransferFromConsistent
<1>8. Becomes(p) /\ InvalidationStep(pool, p)
    BY <1>1, <1>2, <1>6, <1>7, NoInvalidation
<1>9. UsersAfter(pool, p, c, m)
    BY <1>7, SameUsersAfter
<1>10. Protocol(Streams', tx, p, Live, St)
  <2>1. PICK S2 : S2 = Streams'
    OBVIOUS
  <2>2. WasRead(Streams, S2, c, m)
    BY <1>1, <2>1
  <2>3. FromOutcome(pool, p, c, m.transactionId, m.bufferId)
    BY <1>2, <1>7
  <2>4. Protocol(S2, tx, p, Live, St)
    BY <1>1, <1>7, <2>2, <2>3, ReadTransferFrom
  <2> QED BY <2>1, <2>4
<1> QED BY <1>1, <1>7, <1>8, <1>9, <1>10, SaidStep

\* TRANSFER_OK or TRANSFER_ERROR is handled.
LEMMA ReadResult ==
    ASSUME Inv, NEW c \in Connections, unread = {}, Popped(c),
           UNCHANGED <<op, unread, calls, onMessage, tx, alloc>>,
           NEW m, m = Head(mail[c]), m.newStatus \in Results,
           Becomes(HandleTransferResult(pool, c, m.transactionId, m.bufferId, m.newStatus = "TRANSFER_OK"))
    PROVE  Inv'
<1>1. /\ m = Head(Streams[c]) /\ WasRead(Streams, Streams', c, m) /\ MessageOK(tx, c, m)
      /\ Streams \in AllStreams /\ tx \in AllTransfers
      /\ Protocol(Streams, tx, pool, Live, St) /\ Consistent(pool) /\ pool \in Pools /\ pool.posted = <<>>
      /\ c \in pool.mConnectionIds
    BY HeadFacts
<1>2. PICK t, b, ok, S2 : t = m.transactionId /\ b = m.bufferId /\ ok = (m.newStatus = "TRANSFER_OK")
                          /\ S2 = Streams'
    OBVIOUS
<1>3. ok \in BOOLEAN /\ (ok <=> m.newStatus = "TRANSFER_OK")
    BY <1>2
<1>4. WasRead(Streams, S2, c, m)
    BY <1>1, <1>2
<1>5. KnownResult(S2, tx, pool, c, m, m.transactionId)
    BY <1>1, <1>4, ResultKnown
<1>6. /\ t \in Transactions /\ tx[t].b = b /\ Known(pool, t) /\ <<c, t>> \in pool.mPendingTransactions
      /\ pool.mTransactions[t].mBufferId = b
    BY <1>2, <1>5 DEF KnownResult
<1>7. b \in BufferIds
    BY <1>1, <1>6 DEF AllTransfers, TransferStates
<1>8. PICK p : p = HandleTransferResult(pool, c, t, b, ok)
    OBVIOUS
<1>9. /\ Consistent(p) /\ InvalidationStep(pool, p)
      /\ p.mUsingBuffers = pool.mUsingBuffers \cup IF ok THEN {<<c, b>>} ELSE {}
      /\ p.mConnectionIds = pool.mConnectionIds
      /\ p.mTransactions = [pool.mTransactions EXCEPT ![t] = NoTransaction]
      /\ p.mPendingTransactions = pool.mPendingTransactions \ {<<c, t>>}
      /\ p.mCompletedTransactions = pool.mCompletedTransactions \cup
                    IF pool.mTransactions[t].mSenderValidated THEN {} ELSE {t}
    BY <1>1, <1>3, <1>6, <1>7, <1>8, TransferResultConsistent
<1>10. Becomes(p)
    BY <1>2, <1>8
<1>11. UsersAfter(pool, p, c, m)
  <2>1. \A d : ~Releases(m, d)
    BY DEF Releases, Results
  <2>2. \A d : Grants(m, d) <=> ok /\ d = b
    BY <1>2, <1>3 DEF Grants
  <2>3. \A d, e : <<d, e>> \in p.mUsingBuffers <=> <<d, e>> \in pool.mUsingBuffers \/ (ok /\ d = c /\ e = b)
    BY <1>9
  <2> QED BY <2>1, <2>2, <2>3 DEF UsersAfter
<1>12. Protocol(S2, tx, p, Live, St)
  <2>1. pool.mUsingBuffers \subseteq p.mUsingBuffers
    BY <1>9
  <2>2. m.newStatus = "TRANSFER_OK" => <<c, m.bufferId>> \in p.mUsingBuffers
    BY <1>2, <1>3, <1>9
  <2>3. t = m.transactionId
    BY <1>2
  <2> QED BY <1>1, <1>4, <1>9, <2>1, <2>2, <2>3, ReadTransferResult
<1>13. Protocol(Streams', tx, p, Live, St)
    BY <1>2, <1>12
<1> QED BY <1>1, <1>9, <1>10, <1>11, <1>13, SaidStep

\* A message that changes nothing.
LEMMA ReadNothing ==
    ASSUME Inv, NEW c \in Connections, unread = {}, Popped(c),
           UNCHANGED <<op, unread, calls, onMessage, tx, alloc>>,
           NEW m, m = Head(mail[c]), m.newStatus \in {"TRANSFER_TIMEOUT", "INVALIDATION_ACK"}, Becomes(pool)
    PROVE  Inv'
<1>1. /\ m = Head(Streams[c]) /\ WasRead(Streams, Streams', c, m)
      /\ Streams \in AllStreams /\ tx \in AllTransfers
      /\ Protocol(Streams, tx, pool, Live, St) /\ Consistent(pool) /\ pool \in Pools /\ pool.posted = <<>>
    BY HeadFacts
<1>2. SameInvalidation(pool, pool) /\ SameTransfers(pool, pool)
    BY DEF SameInvalidation, SameTransfers
<1>3. InvalidationStep(pool, pool)
    BY <1>1, <1>2, NoInvalidation
<1>4. UsersAfter(pool, pool, c, m)
    BY SameUsersAfter
<1>5. Protocol(Streams', tx, pool, Live, St)
  <2>1. PICK S2 : S2 = Streams'
    OBVIOUS
  <2>2. WasRead(Streams, S2, c, m) /\ m.newStatus \in Neutral
    BY <1>1, <2>1 DEF Neutral
  <2>3. Protocol(S2, tx, pool, Live, St)
    BY <1>1, <1>2, <2>2, ReadNeutral
  <2> QED BY <2>1, <2>3
<1> QED BY <1>1, <1>3, <1>4, <1>5, SaidStep

\* onAck()
LEMMA ReadAck ==
    ASSUME Inv, NEW c \in Connections, unread = {}, Popped(c),
           UNCHANGED <<op, unread, calls, onMessage, tx, alloc>>,
           NEW m, m = Head(mail[c]), m.newStatus = "INVALIDATION_ACK",
           m.bufferId > pool.mAcks[c], Becomes([pool EXCEPT !.mAcks[c] = m.bufferId])
    PROVE  Inv'
<1>1. /\ m = Head(Streams[c]) /\ WasRead(Streams, Streams', c, m) /\ m \in Messages
      /\ Streams \in AllStreams /\ Streams[c] # <<>> /\ tx \in AllTransfers
      /\ Protocol(Streams, tx, pool, Live, St) /\ pool \in Pools
    BY HeadFacts
<1>2. PICK id : id = m.bufferId
    OBVIOUS
<1>3. id \in Nat
    BY <1>1, <1>2 DEF Messages
<1> DEFINE acks == [pool.mAcks EXCEPT ![c] = id]
<1>4. pool.mAcks \in [Connections -> Nat] /\ pool.registered \in BOOLEAN /\ pool.mInvalidationId \in Nat
    BY <1>1 DEF Pools
<1>5. acks \in [Connections -> Nat] /\ acks[c] = id /\ \A d \in Connections : d # c => acks[d] = pool.mAcks[d]
    BY <1>3, <1>4
<1>6. [pool EXCEPT !.mAcks[c] = id] = Acked(pool, acks, pool.registered)
    BY <1>1 DEF Acked, Pools
<1> HIDE DEF acks
<1>7. PICK q : q = Acked(pool, acks, pool.registered)
    OBVIOUS
<1>8. Becomes(q)
    BY <1>2, <1>6, <1>7
<1>9. /\ Consistent(pool') /\ pool'.posted = <<>> /\ SameProtocol(pool, pool')
      /\ pool'.mAcks = acks /\ pool'.registered = pool.registered /\ pool'.mPendings = pool.mPendings
      /\ pool'.mInvalidationId = pool.mInvalidationId /\ inv' = inv
    BY <1>4, <1>5, <1>7, <1>8, AckBecomes
<1>10. TypeOK /\ Notices
    BY DEF Inv
<1>11. ASSUME NEW d \in Connections PROVE Notified(pool', d, client[d], inv'[d], onMessage, Streams[d])
  <2>1. Notified(pool, d, client[d], inv[d], onMessage, Streams[d])
    BY <1>10 DEF Notices
  <2>2. CASE d # c
    BY <1>5, <1>9, <2>1, <2>2 DEF Notified
  <2>3. CASE d = c
    <3>1. Streams[c] \in Seq(Messages) /\ 1 \in 1 .. Len(Streams[c]) /\ m = Streams[c][1]
      BY <1>1, TailItems DEF AllStreams
    <3>2. id <= pool.mInvalidationId /\ (client[c].state = "up" => id <= client[c].mInvalidateId)
      BY <1>2, <2>1, <2>3, <3>1 DEF Notified
    <3>3. ASSUME inv[c] # <<>> PROVE id < pool.mInvalidationId
      <4>1. /\ client[c].state = "up" /\ client[c].mInvalidateId < Last(inv[c]).id
            /\ Last(inv[c]).id <= pool.mInvalidationId
        BY <2>1, <2>3, <3>3 DEF Notified
      <4>2. Last(inv[c]).id \in Nat /\ client[c].mInvalidateId \in Nat
        BY <1>10, <3>3, LastItem DEF TypeOK, Clients
      <4> QED BY <1>3, <1>4, <3>2, <4>1, <4>2
    <3> QED BY <1>5, <1>9, <2>1, <2>3, <3>2, <3>3 DEF Notified
  <2> QED BY <2>2, <2>3
<1>12. /\ pool'.mConnectionIds = pool.mConnectionIds /\ pool'.mUsingBuffers = pool.mUsingBuffers
       /\ SameTransfers(pool, pool')
    BY <1>9 DEF SameProtocol
<1>13. Protocol(Streams', tx, pool', Live, St)
  <2>1. PICK S2, r : S2 = Streams' /\ r = pool'
    OBVIOUS
  <2>2. WasRead(Streams, S2, c, m) /\ m.newStatus \in Neutral
    BY <1>1, <2>1 DEF Neutral
  <2>3. SameTransfers(pool, r) /\ r.mConnectionIds = pool.mConnectionIds /\ r.mUsingBuffers = pool.mUsingBuffers
    BY <1>12, <2>1
  <2>4. Protocol(S2, tx, r, Live, St)
    BY <1>1, <2>2, <2>3, ReadNeutral
  <2> QED BY <2>1, <2>4
<1>14. \A d \in Connections, b \in BufferIds :
                <<d, b>> \in pool'.mUsingBuffers <=>
                    (<<d, b>> \in pool.mUsingBuffers /\ ~(d = c /\ Releases(Head(Streams[c]), b)))
                    \/ (d = c /\ Grants(Head(Streams[c]), b))
    BY <1>1, <1>12 DEF Releases, Grants
<1>15. inv' \in [Connections -> Seq(Invalidations)] /\ (pool'.mPendings # {} => pool'.registered)
       /\ \A y \in onMessage : y[2] <= pool'.mInvalidationId
    BY <1>9, <1>10 DEF TypeOK, Notices
<1> QED BY <1>9, <1>11, <1>12, <1>13, <1>14, <1>15, PoppedStep

\* processStatusMessages() handles a message and preserves the invariant.
LEMMA HandleMessageStep ==
    ASSUME Inv, NEW c \in Connections, HandleMessage(c)
    PROVE  Inv'
<1>1. PICK m : m = Head(mail[c])
    OBVIOUS
<1>2. unread = {} /\ Popped(c) /\ UNCHANGED <<op, unread, calls, onMessage, tx, alloc>>
    BY DEF HandleMessage, Popped
<1>3. ProcessStatusMessage(c, m)
    BY <1>1 DEF HandleMessage
<1>4. CASE m.newStatus = "NOT_USED" /\ Becomes(HandleReleaseBuffer(pool, c, m.bufferId))
    BY <1>1, <1>2, <1>4, ReadNotUsed
<1>5. CASE /\ m.newStatus = "TRANSFER_TO"
           /\ Becomes(HandleTransferTo(pool, c, m.transactionId, m.bufferId, m.targetConnectionId))
    BY <1>1, <1>2, <1>5, ReadTo
<1>6. CASE /\ m.newStatus = "TRANSFER_FROM"
           /\ Becomes(HandleTransferFrom(pool, c, m.transactionId, m.bufferId))
    BY <1>1, <1>2, <1>6, ReadFrom
<1>7. CASE /\ m.newStatus \in {"TRANSFER_OK", "TRANSFER_ERROR"}
           /\ Becomes(HandleTransferResult(pool, c, m.transactionId, m.bufferId, m.newStatus = "TRANSFER_OK"))
    BY <1>1, <1>2, <1>7, ReadResult DEF Results
<1>8. CASE m.newStatus = "INVALIDATION_ACK" /\ Becomes(OnAck(pool, c, m.bufferId))
  <2>1. CASE c \in pool.mConnectionIds /\ m.bufferId > pool.mAcks[c]
    <3>1. Becomes([pool EXCEPT !.mAcks[c] = m.bufferId])
      BY <1>8, <2>1 DEF OnAck
    <3> QED BY <1>1, <1>2, <1>8, <2>1, <3>1, ReadAck
  <2>2. CASE ~(c \in pool.mConnectionIds /\ m.bufferId > pool.mAcks[c])
    <3>1. Becomes(pool) /\ m.newStatus \in {"TRANSFER_TIMEOUT", "INVALIDATION_ACK"}
      BY <1>8, <2>2 DEF OnAck
    <3> QED BY <1>1, <1>2, <3>1, ReadNothing
  <2> QED BY <2>1, <2>2
<1>9. CASE m.newStatus = "TRANSFER_TIMEOUT" /\ Becomes(pool)
    BY <1>1, <1>2, <1>9, ReadNothing
<1> QED BY <1>3, <1>4, <1>5, <1>6, <1>7, <1>8, <1>9 DEF ProcessStatusMessage

-----------------------------------------------------------------------------
(* The mutex is taken, queues are read, connections come and go.           *)

\* Fewer connections matter, the pool and the clients are as they were.
LEMMA FewerLive ==
    ASSUME Inv, NEW live2, live2 \subseteq Live
    PROVE  /\ Protocol(Streams, tx, pool, live2, St)
           /\ Holdings(client, Streams, pool.mUsingBuffers, tx, Unused(client, Streams, tx, live2), Al)
<1>1. /\ Protocol(Streams, tx, pool, Live, St) /\ TypeOK /\ Order
      /\ Holdings(client, Streams, pool.mUsingBuffers, tx, Un, Al)
    BY DEF Inv
<1>2. Protocol(Streams, tx, pool, live2, St)
    BY <1>1, LessLive
<1>3. Un \subseteq Unused(client, Streams, tx, live2)
    BY DEF Un, Unused, Interest
<1>4. \A c \in Connections : SameCache(client[c], client[c])
    BY DEF SameCache, SameRefs
<1>5. \A c \in Connections, b \in BufferIds : client[c].state = "gone" => client[c].refs[b] = 0
    BY BasicsHold DEF Basics
<1>6. client[Local].state # "gone" /\ Local \in Connections
    BY <1>1, ConnectionsAssumption DEF Order
<1>7. \A b \in Al : b \in BufferIds
    BY <1>1 DEF Al, TypeOK
<1> QED BY <1>1, <1>2, <1>3, <1>4, <1>5, <1>6, <1>7, PoolFrame

\* Streams depend on the clients and on the queues.
LEMMA SameStreams ==
    ASSUME UNCHANGED <<client, mail>>
    PROVE  Streams' = Streams
<1>1. ASSUME NEW d \in Connections PROVE Stream(Own(d))' = Stream(Own(d))
    BY DEF Stream, Own
<1> QED BY <1>1 DEF Streams

\* getBufferStatusChanges() reads a queue and preserves the invariant.
LEMMA ReadQueueStep ==
    ASSUME Inv, NEW c \in Connections, ReadQueue(c)
    PROVE  Inv'
<1>1. /\ c \in unread /\ unread' = unread \ {c} /\ taken' = [taken EXCEPT ![c] = Len(mail[c])]
      /\ UNCHANGED <<pool, op, mail, calls, inv, onMessage, client, tx, alloc>>
    BY DEF ReadQueue
<1>2. TypeOK /\ Order /\ Notices /\ Consistent(pool) /\ pool.posted = <<>>
    BY DEF Inv
<1>3. Streams' = Streams
    BY <1>1, SameStreams
<1>4. ~Handled
    BY <1>1 DEF Handled
<1>5. Live = pool.mConnectionIds /\ op.fn # "none"
    BY <1>2, <1>4 DEF Live, Closing, Order, Running
<1>6. Live' \subseteq Live
    BY <1>1, <1>5 DEF Live
<1>7. /\ mail \in [Connections -> Seq(Messages)] /\ taken \in [Connections -> Nat]
      /\ Len(mail[c]) \in Nat
    BY <1>2 DEF TypeOK
<1>8. /\ taken' \in [Connections -> Nat] /\ taken'[c] = Len(mail[c])
      /\ \A d \in Connections : d # c => taken'[d] = taken[d]
    BY <1>1, <1>7
<1>9. TypeOK'
  <2>1. ASSUME NEW d \in Connections PROVE taken'[d] <= Len(mail'[d]) /\ Room(Own(d))' >= 0
    <3>1. CASE d = c
      <4>1. taken'[d] <= Len(mail[d]) /\ QueueSize - (Len(mail[d]) - taken'[d]) >= 0
        BY <1>7, <1>8, <3>1, QueueAssumption
      <4> QED BY <1>1, <4>1 DEF Room, Own
    <3>2. CASE d # c
      <4>1. taken[d] <= Len(mail[d]) /\ QueueSize - (Len(mail[d]) - taken[d]) >= 0
        BY <1>2 DEF TypeOK, Room, Own
      <4> QED BY <1>1, <1>8, <3>2, <4>1 DEF Room, Own
    <3> QED BY <3>1, <3>2
  <2> QED BY <1>1, <1>2, <1>8, <2>1 DEF TypeOK, CallOK
<1>10. Order'
  <2>1. ASSUME NEW d \in Connections PROVE Connected(d)'
    <3>1. Connected(d)
      BY <1>2 DEF Order
    <3>2. CASE d = c
      BY <1>1, <1>3, <1>8, <3>1, <3>2 DEF Connected
    <3>3. CASE d # c
      BY <1>1, <1>3, <1>8, <3>1, <3>3 DEF Connected
    <3> QED BY <3>2, <3>3
  <2>2. (Running("none") => Handled)' /\ (Running("allocate") => alloc.pc = "idle")'
    BY <1>1, <1>2, <1>5 DEF Running, Order
  <2> QED BY <1>1, <1>2, <2>1, <2>2 DEF Order
<1>11. Notices'
    BY <1>1, <1>2, <1>3 DEF Notices
<1>12. St' = St /\ Al' = Al
    BY <1>1 DEF St, Al
<1>13. PICK live2 : live2 = Live'
    OBVIOUS
<1>14. /\ Protocol(Streams, tx, pool, live2, St)
       /\ Holdings(client, Streams, pool.mUsingBuffers, tx, Unused(client, Streams, tx, live2), Al)
    BY <1>6, <1>13, FewerLive
<1>15. Protocol(Streams', tx', pool', Live', St')
    BY <1>1, <1>3, <1>12, <1>13, <1>14
<1>16. Holdings(client', Streams', pool'.mUsingBuffers, tx', Un', Al')
    BY <1>1, <1>3, <1>12, <1>13, <1>14 DEF Un
<1>17. Consistent(pool') /\ pool'.posted = <<>>
    BY <1>1, <1>2
<1> QED BY <1>9, <1>10, <1>11, <1>15, <1>16, <1>17 DEF Inv

\* The call that may begin.
Ready(call) ==
    /\ call \in Calls /\ CallOK(call) /\ call.fn # "none"
    /\ call.fn = "close" => call \in calls
    /\ call.fn = "allocate" => alloc.pc = "idle"
    /\ call.fn = "connect" => client[call.arg].state = "new"

\* The pool when a call begins.
LEMMA LockPool ==
    ASSUME Inv, NEW call, Ready(call), Lock(call)
    PROVE  /\ Consistent(pool') /\ pool'.posted = <<>>
           /\ pool'.mConnectionIds = pool.mConnectionIds \cup IF call.fn = "connect" THEN {call.arg} ELSE {}
           /\ pool'.mUsingBuffers = pool.mUsingBuffers /\ pool'.mPendings = pool.mPendings
           /\ pool'.registered = pool.registered /\ pool'.mInvalidationId = pool.mInvalidationId
           /\ \A d \in Connections : Notified(pool', d, client[d], inv[d], onMessage, Streams[d])
           /\ Protocol(Streams, tx, pool', pool'.mConnectionIds, St)
           /\ Unused(client, Streams, tx, pool'.mConnectionIds) = Un
<1>1. /\ op.fn = "none" /\ TypeOK /\ Notices /\ Consistent(pool) /\ pool \in Pools /\ pool.posted = <<>>
      /\ tx \in AllTransfers /\ Protocol(Streams, tx, pool, Live, St)
    BY DEF Inv, Lock, Running, Consistent, TypeOK
<1>2. Live = pool.mConnectionIds
    BY <1>1 DEF Live, Closing, Running
<1>3. CASE call.fn # "connect"
  <2>1. pool' = pool
    BY <1>3 DEF Lock
  <2> QED BY <1>1, <1>2, <1>3, <2>1 DEF Notices, Un
<1>4. CASE call.fn = "connect"
  <2>1. PICK c, q : c = call.arg /\ q = Joined(pool, c)
    OBVIOUS
  <2>2. c \in Connections /\ client[c].state = "new" /\ pool' = q
    BY <1>4, <2>1 DEF Ready, CallOK, Lock, Joined
  <2>3. /\ Consistent(q) /\ q.mUsingBuffers = pool.mUsingBuffers /\ SameTransfers(pool, q)
        /\ q.mConnectionIds = pool.mConnectionIds \cup {c}
        /\ q.mAcks = [pool.mAcks EXCEPT ![c] = pool.mInvalidationId]
        /\ q.registered = pool.registered /\ q.mPendings = pool.mPendings
        /\ q.mInvalidationId = pool.mInvalidationId /\ q.posted = pool.posted
    <3>1. c \in Connections /\ Consistent(pool) /\ q = Joined(pool, c)
      BY <1>1, <2>1, <2>2
    <3> QED BY <3>1, ConnectConsistent
  <2>4. St[c] = "new"
    BY <2>2 DEF St
  <2>5. Protocol(Streams, tx, q, Live \cup {c}, St)
    BY <1>1, <2>3, <2>4, Join
  <2>6. ASSUME NEW d \in Connections PROVE Notified(q, d, client[d], inv[d], onMessage, Streams[d])
    <3>1. Notified(pool, d, client[d], inv[d], onMessage, Streams[d])
      BY <1>1 DEF Notices
    <3>2. pool.mAcks \in [Connections -> Nat] /\ pool.mInvalidationId \in Nat
      BY <1>1 DEF Pools
    <3>3. q.mAcks[d] = IF d = c THEN pool.mInvalidationId ELSE pool.mAcks[d]
      BY <2>3, <3>2
    <3>4. d = c => inv[d] = <<>>
      BY <2>2, <3>1 DEF Notified
    <3> QED BY <2>3, <3>1, <3>2, <3>3, <3>4 DEF Notified
  <2>7. Unused(client, Streams, tx, Live \cup {c}) = Un
    <3>1. ASSUME NEW t \in Transactions PROVE Interest(Streams, tx, Live \cup {c}, t) <=> Interest(Streams, tx, Live, t)
      <4>1. tx[t].pc # "none" => tx[t].to # c
        BY <1>1, <2>4 DEF Protocol, Begun
      <4> QED BY <4>1 DEF Interest, Unfinished
    <3> QED BY <3>1 DEF Un, Unused
  <2> QED BY <1>1, <1>2, <1>4, <2>1, <2>2, <2>3, <2>5, <2>6, <2>7
<1> QED BY <1>3, <1>4

\* A call takes the mutex.
LEMMA LockStep ==
    ASSUME Inv, NEW call, Ready(call), Lock(call)
    PROVE  Inv'
<1>1. /\ op.fn = "none" /\ op' = call /\ calls' = calls \ {call} /\ unread' = pool'.mConnectionIds
      /\ UNCHANGED <<mail, taken, inv, onMessage, client, tx, alloc>>
    BY DEF Lock, Running
<1>2. TypeOK /\ Order /\ Notices
    BY DEF Inv
<1>3. /\ Consistent(pool') /\ pool'.posted = <<>>
      /\ pool'.mConnectionIds = pool.mConnectionIds \cup IF call.fn = "connect" THEN {call.arg} ELSE {}
      /\ pool'.mUsingBuffers = pool.mUsingBuffers /\ pool'.mPendings = pool.mPendings
      /\ pool'.registered = pool.registered /\ pool'.mInvalidationId = pool.mInvalidationId
      /\ \A d \in Connections : Notified(pool', d, client[d], inv[d], onMessage, Streams[d])
      /\ Protocol(Streams, tx, pool', pool'.mConnectionIds, St)
      /\ Unused(client, Streams, tx, pool'.mConnectionIds) = Un
    BY LockPool
<1>4. Streams' = Streams /\ St' = St /\ Al' = Al
    BY <1>1, SameStreams DEF St, Al
<1>5. Local \in Live /\ Live \subseteq pool.mConnectionIds
    BY BasicsHold DEF Basics
<1>6. ~Handled' /\ Live' = pool'.mConnectionIds
    BY <1>1, <1>3, <1>5 DEF Handled, Live, Closing
<1>7. TypeOK'
  <2>1. op' \in Calls /\ CallOK(op)'
    BY <1>1 DEF Ready, CallOK
  <2>2. \A d \in Connections : taken'[d] <= Len(mail'[d]) /\ Room(Own(d))' >= 0
    BY <1>1, <1>2 DEF TypeOK, Room, Own
  <2> QED BY <1>1, <1>2, <2>1, <2>2 DEF TypeOK, CallOK
<1>8. Order'
  <2>1. ASSUME NEW d \in Connections PROVE Connected(d)'
    <3>1. Connected(d)
      BY <1>2 DEF Order
    <3>2. op # Call("connect", d) /\ op # Call("close", d)
      BY <1>1 DEF Call
    <3>3. call = Call("connect", d) <=> call.fn = "connect" /\ call.arg = d
      BY DEF Call, Ready, Calls
    <3>4. call = Call("close", d) => call \in calls
      BY DEF Call, Ready
    <3>5. d \in pool'.mConnectionIds <=> d \in pool.mConnectionIds \/ call = Call("connect", d)
      BY <1>3, <3>3
    <3>6. call = Call("connect", d) => client[d].state = "new"
      BY <3>3 DEF Ready
    <3>7. ASSUME d \notin unread' PROVE taken'[d] = Len(mail'[d])
      <4>1. Streams[d] = <<>>
        BY <1>1, <3>1, <3>5, <3>7 DEF Connected
      <4>2. Own(d) \in Objects /\ Own(d).mail = mail[d] /\ Streams[d] = Stream(Own(d))
        BY <1>2, OwnType
      <4>3. mail[d] = <<>>
        BY <4>1, <4>2, StreamHead
      <4>4. taken[d] \in Nat /\ taken[d] <= Len(mail[d])
        BY <1>2 DEF TypeOK
      <4> QED BY <1>1, <4>3, <4>4
    <3>8. client' = client /\ op' = call /\ calls' = calls \ {call}
      BY <1>1
    <3>9. Call("close", d) \in calls \/ op = Call("close", d) <=> Call("close", d) \in calls' \/ op' = Call("close", d)
      BY <3>2, <3>4, <3>8
    <3> QED BY <1>4, <3>1, <3>2, <3>5, <3>6, <3>7, <3>8, <3>9 DEF Connected
  <2>2. (Running("none") => Handled)' /\ (Running("allocate") => alloc.pc = "idle")'
    BY <1>1 DEF Running, Ready
  <2> QED BY <1>1, <1>2, <2>1, <2>2 DEF Order
<1>9. Notices'
    BY <1>1, <1>2, <1>3, <1>4 DEF Notices
<1>10. Protocol(Streams', tx', pool', Live', St')
    BY <1>1, <1>3, <1>4, <1>6
<1>11. Holdings(client, Streams, pool.mUsingBuffers, tx, Un, Al)
    BY DEF Inv
<1>12. Un' = Un
    BY <1>1, <1>3, <1>4, <1>6 DEF Un
<1>13. Holdings(client', Streams', pool'.mUsingBuffers, tx', Un', Al')
    BY <1>1, <1>3, <1>4, <1>11, <1>12
<1> QED BY <1>3, <1>7, <1>8, <1>9, <1>10, <1>13 DEF Inv

\* The client of a connection that is made.
Started(C, c, id) == [C EXCEPT ![c].state = "up", ![c].mInvalidateId = id]

\* It has nothing.
LEMMA ConnectedClient ==
    ASSUME NEW C \in [Connections -> Clients], NEW c \in Connections, NEW id \in Nat,
           NEW C2, C2 = Started(C, c, id)
    PROVE  /\ C2 \in [Connections -> Clients] /\ C2[c].state = "up" /\ C2[c].mInvalidateId = id
           /\ \A d \in Connections : d # c => C2[d] = C[d]
           /\ C[c].state # "gone" => SameCache(C[c], C2[c])
<1>1. PICK k : k = C[c]
    OBVIOUS
<1>2. k \in Clients
    BY <1>1
<1> DEFINE l == [k EXCEPT !.state = "up"]
           m == [l EXCEPT !.mInvalidateId = id]
<1>3. C2 = [C EXCEPT ![c] = m]
    BY <1>1 DEF Started
<1>4. l \in Clients /\ l.state = "up"
    BY <1>2 DEF Clients
<1>5. /\ l.refs = k.refs /\ l.dying = k.dying /\ l.mBuffers = k.mBuffers /\ l.hasCache = k.hasCache
      /\ l.mReleasingIds = k.mReleasingIds /\ l.mReleasedIds = k.mReleasedIds
    BY <1>2 DEF Clients
<1> HIDE DEF l
<1>6. m \in Clients /\ m.state = l.state /\ m.mInvalidateId = id
    BY <1>4 DEF Clients
<1>7. /\ m.refs = l.refs /\ m.dying = l.dying /\ m.mBuffers = l.mBuffers /\ m.hasCache = l.hasCache
      /\ m.mReleasingIds = l.mReleasingIds /\ m.mReleasedIds = l.mReleasedIds
    BY <1>4 DEF Clients
<1> HIDE DEF m
<1>8. C2 \in [Connections -> Clients] /\ C2[c] = m /\ \A d \in Connections : d # c => C2[d] = C[d]
    BY <1>3, <1>6
<1>9. k.state # "gone" => SameCache(k, m)
    BY <1>5, <1>7 DEF SameCache, SameRefs
<1> QED BY <1>1, <1>4, <1>6, <1>8, <1>9

\* The ids of invalidations grow.
LEMMA BecomesIds ==
    ASSUME NEW p \in Pools, InvalidationStep(pool, p), Becomes(p)
    PROVE  pool'.mInvalidationId >= pool.mInvalidationId
<1>1. PICK q : q = [p EXCEPT !.posted = <<>>]
    OBVIOUS
<1>2. q.mInvalidationId = p.mInvalidationId
    BY <1>1, ResetPosted
<1> QED BY <1>1, <1>2 DEF Becomes, InvalidationStep

\* connect() preserves the invariant.
LEMMA ConnectStep ==
    ASSUME Inv, Connect
    PROVE  Inv'
<1>1. /\ op.fn = "connect" /\ Handled /\ CleanedUp(pool) /\ op' = NoCall
      /\ UNCHANGED <<unread, mail, taken>> /\ UNCHANGED <<calls, onMessage, tx, alloc>>
    BY DEF Connect, Running, Return
<1>2. PICK c, id, C2 : c = op.arg /\ id = pool.mAcks[c] /\ C2 = client'
    OBVIOUS
<1>3. C2 = Started(client, c, id)
    BY <1>2 DEF Connect, Started
<1>4. TypeOK /\ Order /\ Notices /\ Consistent(pool) /\ pool \in Pools /\ tx \in AllTransfers
    BY DEF Inv, Consistent, TypeOK
<1>5. c \in Connections /\ op = Call("connect", c)
    BY <1>1, <1>2, <1>4 DEF TypeOK, CallOK, Calls, Call
<1>6. client[c].state = "new" /\ c \in pool.mConnectionIds /\ Streams[c] = <<>> /\ Call("close", c) \notin calls
    BY <1>4, <1>5 DEF Order, Connected
<1>7. id \in Nat /\ pool.mInvalidationId \in Nat /\ id <= pool.mInvalidationId
    BY <1>2, <1>4, <1>5 DEF Pools, Notices, Notified
<1>8. client \in [Connections -> Clients]
    BY <1>4 DEF TypeOK
<1>9. /\ C2 \in [Connections -> Clients] /\ C2[c].state = "up" /\ C2[c].mInvalidateId = id
      /\ \A d \in Connections : d # c => C2[d] = client[d]
      /\ SameCache(client[c], C2[c])
  <2>1. PICK C : C = client
    OBVIOUS
  <2>2. /\ C \in [Connections -> Clients] /\ C[c].state # "gone" /\ c \in Connections /\ id \in Nat
        /\ C2 = Started(C, c, id)
    BY <1>3, <1>5, <1>6, <1>7, <1>8, <2>1
  <2>3. /\ C2 \in [Connections -> Clients] /\ C2[c].state = "up" /\ C2[c].mInvalidateId = id
        /\ \A d \in Connections : d # c => C2[d] = C[d]
        /\ SameCache(C[c], C2[c])
    BY <2>2, ConnectedClient
  <2> QED BY <2>1, <2>3
<1>10. \A d \in Connections : SameCache(client[d], C2[d])
    BY <1>9 DEF SameCache, SameRefs
<1>11. SameInvalidation(pool, pool)
    BY DEF SameInvalidation
<1>12. PICK p : Consistent(p) /\ SameProtocol(pool, p) /\ InvalidationStep(pool, p) /\ Becomes(p)
    BY <1>1, <1>4, <1>11, EvictFacts
<1>13. /\ Consistent(pool') /\ pool'.posted = <<>> /\ SameProtocol(p, pool')
       /\ (pool'.mPendings # {} => pool'.registered)
       /\ inv' \in [Connections -> Seq(Invalidations)]
       /\ \A d \in Connections : Notified(pool', d, client[d], inv'[d], onMessage, Streams[d])
       /\ \A y \in onMessage : y[2] <= pool'.mInvalidationId
    BY <1>12, BecomesFacts
<1>14. /\ pool'.mUsingBuffers = pool.mUsingBuffers /\ pool'.mConnectionIds = pool.mConnectionIds
       /\ SameProtocol(pool, pool')
    BY <1>12, <1>13 DEF SameProtocol, SameTransfers
<1>15. Streams' = Streams /\ Live' = Live
    BY <1>1, <1>2, <1>10, <1>14, ReturnFrame, NoCallType DEF Running, SameCache
<1>16. TypeOK'
  <2>1. op' \in Calls /\ CallOK(op)'
    BY <1>1, NoCallType DEF CallOK
  <2>2. \A d \in Connections : taken'[d] <= Len(mail'[d]) /\ Room(Own(d))' >= 0
    BY <1>1, <1>4 DEF TypeOK, Room, Own
  <2>3. unread' \in SUBSET pool'.mConnectionIds
    BY <1>1, <1>4, <1>14 DEF TypeOK
  <2>4. client' \in [Connections -> Clients] /\ inv' \in [Connections -> Seq(Invalidations)]
    BY <1>2, <1>9, <1>13
  <2> QED BY <1>1, <1>4, <2>1, <2>2, <2>3, <2>4 DEF TypeOK, CallOK
<1>17. Order'
  <2>1. ASSUME NEW d \in Connections PROVE Connected(d)'
    <3>1. Connected(d)
      BY <1>4 DEF Order
    <3>2. op' # Call("close", d) /\ op' # Call("connect", d) /\ op # Call("close", d)
      BY <1>1, NoCallType DEF Call
    <3>3. CASE d = c
      BY <1>1, <1>2, <1>6, <1>9, <1>14, <3>2, <3>3 DEF Connected
    <3>4. CASE d # c
      <4>1. op # Call("connect", d)
        BY <1>2, <3>4 DEF Call
      <4>2. client'[d] = client[d]
        BY <1>2, <1>9, <3>4
      <4> QED BY <1>1, <1>14, <1>15, <3>1, <3>2, <4>1, <4>2 DEF Connected
    <3> QED BY <3>3, <3>4
  <2>2. client'[Local].state = "up"
    BY <1>2, <1>4, <1>9, ConnectionsAssumption DEF Order
  <2>3. (Running("none") => Handled)' /\ (Running("allocate") => alloc.pc = "idle")'
    BY <1>1, NoCallType DEF Running, Handled
  <2> QED BY <2>1, <2>2, <2>3 DEF Order
<1>18. Notices'
  <2>1. ASSUME NEW d \in Connections
        PROVE  Notified(pool', d, client'[d], inv'[d], onMessage', Streams'[d])
    <3>1. Notified(pool', d, client[d], inv'[d], onMessage, Streams[d])
      BY <1>13
    <3>2. CASE d # c
      BY <1>1, <1>2, <1>9, <1>15, <3>1, <3>2
    <3>3. CASE d = c
      <4>1. p \in Pools
        BY <1>12 DEF Consistent
      <4>2. pool'.mInvalidationId >= pool.mInvalidationId /\ pool'.mInvalidationId \in Nat
        BY <1>12, <1>13, <4>1, BecomesIds DEF Consistent, Pools
      <4>3. client'[c].mInvalidateId <= pool'.mInvalidationId
        BY <1>2, <1>7, <1>9, <4>2
      <4>4. inv'[c] = <<>>
        BY <1>5, <1>6, <1>12 DEF Becomes, Up
      <4>5. Streams'[c] = <<>>
        BY <1>6, <1>15
      <4>6. pool'.mAcks[c] <= pool'.mInvalidationId
        BY <3>1, <3>3 DEF Notified
      <4> QED BY <3>3, <4>3, <4>4, <4>5, <4>6 DEF Notified
    <3> QED BY <3>2, <3>3
  <2> QED BY <1>1, <1>13, <2>1 DEF Notices
<1>19. PICK r, st2 : r = pool' /\ st2 = St'
    OBVIOUS
<1>20. Protocol(Streams, tx, r, Live, st2)
  <2>1. Streams \in AllStreams /\ Protocol(Streams, tx, pool, Live, St) /\ SameProtocol(pool, r)
    BY <1>14, <1>19, BasicsHold DEF Basics, Inv
  <2>2. Protocol(Streams, tx, r, Live, St)
    BY <1>4, <2>1, SameUsers
  <2>3. \A d \in Connections : st2[d] = IF d = c THEN "up" ELSE St[d]
    BY <1>2, <1>9, <1>19 DEF St
  <2>4. \A t \in Transactions : tx[t].pc \in Receiving => st2[tx[t].to] = "up"
    <3>1. \A t \in Transactions : tx[t].to \in Connections /\ (tx[t].pc \in Receiving => St[tx[t].to] = "up")
      BY <1>4, <2>1 DEF AllTransfers, TransferStates, Protocol, Here
    <3> QED BY <2>3, <3>1
  <2>5. \A d \in Connections : St[d] # "new" => st2[d] # "new"
    BY <2>3
  <2> QED BY <1>4, <2>2, <2>4, <2>5, OtherStates
<1>21. Holdings(C2, Streams, pool.mUsingBuffers, tx, Unused(C2, Streams, tx, Live), Al)
  <2>1. Holdings(client, Streams, pool.mUsingBuffers, tx, Un, Al)
    BY DEF Inv
  <2>2. Un \subseteq Unused(C2, Streams, tx, Live)
    BY <1>10 DEF Un, Unused, SameCache, SameRefs
  <2>3. \A d \in Connections, b \in BufferIds : client[d].state = "gone" => client[d].refs[b] = 0
    BY BasicsHold DEF Basics
  <2>4. client[Local].state # "gone" /\ Local \in Connections
    BY <1>4, ConnectionsAssumption DEF Order
  <2>5. \A b \in Al : b \in BufferIds
    BY <1>4 DEF Al, TypeOK
  <2> QED BY <1>10, <2>1, <2>2, <2>3, <2>4, <2>5, PoolFrame
<1>22. Protocol(Streams', tx', pool', Live', St')
    BY <1>1, <1>15, <1>19, <1>20
<1>23. Holdings(client', Streams', pool'.mUsingBuffers, tx', Un', Al')
    BY <1>1, <1>2, <1>14, <1>15, <1>21 DEF Un, Al
<1> QED BY <1>13, <1>16, <1>17, <1>18, <1>22, <1>23 DEF Inv

\* close() has read the queues.
LEMMA ClosingFacts ==
    ASSUME Inv, op.fn = "close", Handled, NEW c, c = op.arg
    PROVE  /\ c \in Connections /\ op = Call("close", c) /\ client[c].state = "gone" /\ St[c] = "gone"
           /\ c # Local /\ c \notin Live /\ Live = pool.mConnectionIds \ {c}
           /\ Streams[c] = <<>> /\ mail[c] = <<>>
<1>1. TypeOK /\ Order
    BY DEF Inv
<1>2. c \in Connections /\ op = Call("close", c)
    BY <1>1 DEF TypeOK, CallOK, Calls, Call
<1>3. client[c].state = "gone" /\ c # Local
    BY <1>1, <1>2 DEF Order, Connected
<1>4. c \notin Live /\ Live = pool.mConnectionIds \ {c}
    BY DEF Live, Closing, Running
<1>5. Streams[c] = <<>>
    BY <1>2, <1>4, BasicsHold DEF Basics, Awake
<1>6. Own(c) \in Objects /\ Own(c).mail = mail[c] /\ Streams[c] = Stream(Own(c))
    BY <1>1, <1>2, OwnType
<1>7. mail[c] = <<>>
    BY <1>5, <1>6, StreamHead
<1> QED BY <1>2, <1>3, <1>4, <1>5, <1>7 DEF St

\* What the other connections use.
UsersStay(U, U2, c) == \A d \in Connections, b \in BufferIds : d # c => (<<d, b>> \in U <=> <<d, b>> \in U2)

\* What a connection is granted depends on what it uses.
LEMMA SameGranted ==
    ASSUME NEW U, NEW U2, NEW c, NEW b, <<c, b>> \in U <=> <<c, b>> \in U2
    PROVE  \A s, j : Granted(U, c, s, b, j) <=> Granted(U2, c, s, b, j)
    BY DEF Granted

\* The connection that is closed has nothing.
LEMMA ClosedHoldings ==
    ASSUME Inv, NEW c \in Connections, client[c].state = "gone", c # Local,
           NEW U2, UsersStay(pool.mUsingBuffers, U2, c)
    PROVE  Holdings(client, Streams, U2, tx, Un, Al)
<1>1. Holdings(client, Streams, pool.mUsingBuffers, tx, Un, Al) /\ TypeOK /\ Order
    BY DEF Inv
<1>2. PICK U : U = pool.mUsingBuffers
    OBVIOUS
<1>3. ASSUME NEW d \in Connections, d # c, NEW b \in BufferIds
      PROVE  /\ \A s, j : Granted(U, d, s, b, j) <=> Granted(U2, d, s, b, j)
             /\ \A s : Holds(U, d, s, b) <=> Holds(U2, d, s, b)
             /\ <<d, b>> \in U <=> <<d, b>> \in U2
  <2>1. <<d, b>> \in U <=> <<d, b>> \in U2
    BY <1>2, <1>3 DEF UsersStay
  <2>2. \A s, j : Granted(U, d, s, b, j) <=> Granted(U2, d, s, b, j)
    BY <2>1, SameGranted
  <2> QED BY <2>1, <2>2 DEF Holds
<1>4. \A d \in Connections : SameCache(client[d], client[d])
    BY DEF SameCache, SameRefs
<1>5. \A d \in Connections, b \in BufferIds : client[d].state = "gone" => client[d].refs[b] = 0
    BY BasicsHold DEF Basics
<1>6. client[Local].state # "gone" /\ Local \in Connections
    BY <1>1, ConnectionsAssumption DEF Order
<1>7. \A b \in Al : b \in BufferIds
    BY <1>1 DEF Al, TypeOK
<1>8. \A d \in Connections, b \in BufferIds : client[d].state # "gone" =>
            (Holds(U2, d, Streams[d], b) <=> Holds(U, d, Streams[d], b))
    BY <1>3
<1>9. \A b \in BufferIds : \A i \in 1 .. Len(Streams[Local]) : Releases(Streams[Local][i], b) =>
            \E j \in 1 .. Len(Streams[Local]) :
                /\ Releases(Streams[Local][j], b)
                /\ Granted(U, Local, Streams[Local], b, j) => Granted(U2, Local, Streams[Local], b, i)
    BY <1>3, <1>6
<1>10. \A b \in Al : b \in BufferIds /\ (<<Local, b>> \in U => <<Local, b>> \in U2)
    BY <1>3, <1>6, <1>7
<1>11. Holdings(client, Streams, U, tx, Un, Al)
    BY <1>1, <1>2
<1> QED BY <1>4, <1>5, <1>6, <1>8, <1>9, <1>10, <1>11, PoolFrame

\* A step of close() in which the connection stays on the lists.
LEMMA ClosingStep ==
    ASSUME Inv, op.fn = "close", Handled,
           UNCHANGED <<op, unread, mail, taken, calls, onMessage, client, tx, alloc>>,
           NEW p, Consistent(p), InvalidationStep(pool, p), Becomes(p),
           p.mConnectionIds = pool.mConnectionIds, Protocol(Streams, tx, p, Live, St),
           UsersStay(pool.mUsingBuffers, p.mUsingBuffers, op.arg)
    PROVE  Inv'
<1>1. TypeOK /\ Order
    BY DEF Inv
<1>2. /\ Consistent(pool') /\ pool'.posted = <<>> /\ SameProtocol(p, pool')
      /\ (pool'.mPendings # {} => pool'.registered)
      /\ inv' \in [Connections -> Seq(Invalidations)]
      /\ \A d \in Connections : Notified(pool', d, client[d], inv'[d], onMessage, Streams[d])
      /\ \A y \in onMessage : y[2] <= pool'.mInvalidationId
    BY BecomesFacts
<1>3. pool'.mConnectionIds = pool.mConnectionIds /\ pool'.mUsingBuffers = p.mUsingBuffers
    BY <1>2 DEF SameProtocol
<1>4. Streams' = Streams /\ St' = St /\ Al' = Al
    BY SameStreams DEF St, Al
<1>5. Live' = Live
    BY <1>3 DEF Live, Closing, Running, Handled
<1>6. TypeOK'
  <2>1. \A d \in Connections : taken'[d] <= Len(mail'[d]) /\ Room(Own(d))' >= 0
    BY <1>1 DEF TypeOK, Room, Own
  <2> QED BY <1>1, <1>2, <1>3, <2>1 DEF TypeOK, CallOK
<1>7. Order'
  <2>1. ASSUME NEW d \in Connections PROVE Connected(d)'
    <3>1. Connected(d)
      BY <1>1 DEF Order
    <3> QED BY <1>3, <1>4, <3>1 DEF Connected
  <2>2. (Running("none") => Handled)' /\ (Running("allocate") => alloc.pc = "idle")'
    BY DEF Running
  <2> QED BY <1>1, <2>1, <2>2 DEF Order
<1>8. Notices'
    BY <1>2, <1>4 DEF Notices
<1>9. PICK r : r = pool'
    OBVIOUS
<1>10. Protocol(Streams, tx, r, Live, St)
  <2>1. Streams \in AllStreams /\ tx \in AllTransfers /\ SameProtocol(p, r)
    BY <1>2, <1>9, BasicsHold DEF Basics
  <2> QED BY <2>1, SameUsers
<1>11. Holdings(client, Streams, p.mUsingBuffers, tx, Un, Al)
  <2>1. PICK c : c = op.arg
    OBVIOUS
  <2>2. c \in Connections /\ client[c].state = "gone" /\ c # Local
    BY <2>1, ClosingFacts
  <2> QED BY <2>1, <2>2, ClosedHoldings
<1>12. Protocol(Streams', tx', pool', Live', St')
    BY <1>4, <1>5, <1>9, <1>10
<1>13. Un' = Un
    BY <1>4, <1>5 DEF Un
<1>14. Holdings(client', Streams', pool'.mUsingBuffers, tx', Un', Al')
    BY <1>3, <1>4, <1>11, <1>13
<1> QED BY <1>2, <1>6, <1>7, <1>8, <1>12, <1>14 DEF Inv

\* handleClose() takes a buffer from the connection.
LEMMA CloseBufferStep ==
    ASSUME Inv, NEW b \in BufferIds, CloseBuffer(b)
    PROVE  Inv'
<1>1. /\ op.fn = "close" /\ Handled /\ UNCHANGED <<op, unread, mail, taken, calls, onMessage, client, tx, alloc>>
    BY DEF CloseBuffer, Running
<1>2. PICK c : c = op.arg
    OBVIOUS
<1>3. c \in Connections /\ Streams[c] = <<>>
    BY <1>1, <1>2, ClosingFacts
<1>4. /\ Consistent(pool) /\ pool.posted = <<>> /\ Protocol(Streams, tx, pool, Live, St)
      /\ Streams \in AllStreams /\ tx \in AllTransfers
    BY BasicsHold DEF Inv, Basics
<1>5. <<c, b>> \in pool.mUsingBuffers
    BY <1>2 DEF CloseBuffer, OwnedBuffers
<1>6. <<b, c>> \in pool.mUsingConnections
    BY <1>3, <1>4, <1>5 DEF Consistent, Named
<1>7. PICK p : p = Leave(pool, c, b)
    OBVIOUS
<1>8. Becomes(p)
    BY <1>2, <1>6, <1>7 DEF CloseBuffer
<1>9. /\ Consistent(p) /\ p.mUsingBuffers = pool.mUsingBuffers \ {<<c, b>>}
      /\ SameTransfers(pool, p) /\ p.mConnectionIds = pool.mConnectionIds
      /\ InvalidationStep(pool, p)
    BY <1>3, <1>4, <1>5, <1>7, LeaveConsistent
<1>10. Protocol(Streams, tx, p, Live, St)
  <2>1. \A d \in Connections, e \in BufferIds :
            Streams[d] # <<>> /\ <<d, e>> \in pool.mUsingBuffers => <<d, e>> \in p.mUsingBuffers
    BY <1>3, <1>9
  <2> QED BY <1>4, <1>9, <2>1, ChangeUsers
<1>11. UsersStay(pool.mUsingBuffers, p.mUsingBuffers, op.arg)
    BY <1>2, <1>9 DEF UsersStay
<1> QED BY <1>1, <1>8, <1>9, <1>10, <1>11, ClosingStep

\* handleClose() ends a transaction of the connection.
LEMMA CloseTransactionStep ==
    ASSUME Inv, NEW t \in Transactions, CloseTransaction(t)
    PROVE  Inv'
<1>1. /\ op.fn = "close" /\ Handled /\ UNCHANGED <<op, unread, mail, taken, calls, onMessage, client, tx, alloc>>
    BY DEF CloseTransaction, Running
<1>2. PICK c, b : c = op.arg /\ b = pool.mTransactions[t].mBufferId
    OBVIOUS
<1>3. c \in Connections /\ Streams[c] = <<>> /\ c \notin Live /\ St[c] # "up"
  <2>1. c \in Connections /\ Streams[c] = <<>> /\ c \notin Live /\ St[c] = "gone"
    BY <1>1, <1>2, ClosingFacts
  <2> QED BY <2>1
<1>4. /\ Consistent(pool) /\ pool \in Pools /\ pool.posted = <<>> /\ Protocol(Streams, tx, pool, Live, St)
    BY BasicsHold DEF Inv, Basics
<1>5. Known(pool, t) /\ <<c, t>> \in pool.mPendingTransactions
    BY <1>2 DEF CloseTransaction, LeftTransactions
<1>6. tx[t].to = c
    BY <1>3, <1>4, <1>5 DEF Protocol, Addressed
<1>7. b \in BufferIds
    BY <1>2, <1>4 DEF Pools, TransactionStates
<1>8. Almost(pool, b)
    BY <1>2, <1>4, <1>5, <1>7, BusyNotFree
<1>9. PICK p : p = EndTransaction(pool, t, b)
    OBVIOUS
<1>10. /\ Consistent(p)
       /\ p.mUsingBuffers = pool.mUsingBuffers
       /\ p.mTransactions = [pool.mTransactions EXCEPT ![t] = NoTransaction]
       /\ p.mPendingTransactions = pool.mPendingTransactions
       /\ p.mCompletedTransactions = pool.mCompletedTransactions \cup
                IF pool.mTransactions[t].mSenderValidated THEN {} ELSE {t}
       /\ p.mConnectionIds = pool.mConnectionIds
       /\ InvalidationStep(pool, p)
    BY <1>2, <1>4, <1>5, <1>8, <1>9, EndConsistent
<1>11. Becomes(p)
    BY <1>2, <1>9 DEF CloseTransaction
<1>12. Protocol(Streams, tx, p, Live, St)
    BY <1>3, <1>4, <1>5, <1>6, <1>10, EndLeft
<1>13. UsersStay(pool.mUsingBuffers, p.mUsingBuffers, op.arg)
    BY <1>10 DEF UsersStay
<1> QED BY <1>1, <1>10, <1>11, <1>12, <1>13, ClosingStep

\* close() preserves the invariant.
LEMMA CloseStep ==
    ASSUME Inv, Close
    PROVE  Inv'
<1>1. /\ op.fn = "close" /\ Handled /\ op' = NoCall
      /\ UNCHANGED <<unread, taken, calls, onMessage, client, tx, alloc>>
    BY DEF Close, Running
<1>2. PICK c : c = op.arg
    OBVIOUS
<1>3. /\ c \in Connections /\ op = Call("close", c) /\ client[c].state = "gone"
      /\ Live = pool.mConnectionIds \ {c} /\ Streams[c] = <<>> /\ mail[c] = <<>>
    BY <1>1, <1>2, ClosingFacts
<1>4. TypeOK /\ Order /\ Consistent(pool) /\ pool.posted = <<>> /\ Protocol(Streams, tx, pool, Live, St)
    BY DEF Inv
<1>5. mail' = mail
  <2>1. mail \in [Connections -> Seq(Messages)] /\ mail' = [mail EXCEPT ![c] = <<>>]
    BY <1>2, <1>4 DEF TypeOK, Close
  <2> QED BY <1>3, <2>1
<1>6. PICK p : p = EraseBuffers([pool EXCEPT !.mConnectionIds = @ \ {c}], pool.mFreeBuffers)
    OBVIOUS
<1>7. Becomes(p) /\ OwnedBuffers(pool, c) = {} /\ LeftTransactions(pool, c) = {}
    BY <1>2, <1>6 DEF Close
<1>8. /\ Consistent(p) /\ p.mUsingBuffers = pool.mUsingBuffers /\ SameTransfers(pool, p)
      /\ p.mConnectionIds = pool.mConnectionIds \ {c} /\ SameInvalidation(pool, p)
    BY <1>3, <1>4, <1>6, <1>7, CloseConsistent
<1>9. InvalidationStep(pool, p)
    BY <1>4, <1>8, NoInvalidation DEF Consistent
<1>10. /\ Consistent(pool') /\ pool'.posted = <<>> /\ SameProtocol(p, pool')
       /\ (pool'.mPendings # {} => pool'.registered)
       /\ inv' \in [Connections -> Seq(Invalidations)]
       /\ \A d \in Connections : Notified(pool', d, client[d], inv'[d], onMessage, Streams[d])
       /\ \A y \in onMessage : y[2] <= pool'.mInvalidationId
    BY <1>7, <1>8, <1>9, BecomesFacts
<1>11. pool'.mConnectionIds = pool.mConnectionIds \ {c} /\ pool'.mUsingBuffers = pool.mUsingBuffers
    BY <1>8, <1>10 DEF SameProtocol
<1>12. Streams' = Streams /\ St' = St /\ Al' = Al
    BY <1>1, <1>5, SameStreams DEF St, Al
<1>13. Live' = Live
    BY <1>1, <1>3, <1>11, NoCallType DEF Live, Closing, Running
<1>14. TypeOK'
  <2>1. \A d \in Connections : taken'[d] <= Len(mail'[d]) /\ Room(Own(d))' >= 0
    BY <1>1, <1>4, <1>5 DEF TypeOK, Room, Own
  <2>2. op' \in Calls /\ CallOK(op)'
    BY <1>1, NoCallType DEF CallOK
  <2>3. unread' \in SUBSET pool'.mConnectionIds
    BY <1>1 DEF Handled
  <2> QED BY <1>1, <1>4, <1>5, <1>10, <2>1, <2>2, <2>3 DEF TypeOK, CallOK
<1>15. Order'
  <2>1. ASSUME NEW d \in Connections PROVE Connected(d)'
    <3>1. Connected(d)
      BY <1>4 DEF Order
    <3>2. op' # Call("close", d) /\ op' # Call("connect", d) /\ op # Call("connect", d)
      BY <1>1, NoCallType DEF Call
    <3>3. CASE d = c
      BY <1>1, <1>3, <1>11, <1>12, <3>1, <3>2, <3>3 DEF Connected
    <3>4. CASE d # c
      <4>1. op # Call("close", d)
        BY <1>2, <3>4 DEF Call
      <4>2. d \in pool'.mConnectionIds <=> d \in pool.mConnectionIds
        BY <1>11, <3>4
      <4> QED BY <1>1, <1>12, <3>1, <3>2, <4>1, <4>2 DEF Connected
    <3> QED BY <3>3, <3>4
  <2>2. (Running("none") => Handled)' /\ (Running("allocate") => alloc.pc = "idle")'
    BY <1>1, NoCallType DEF Running, Handled
  <2> QED BY <1>1, <1>4, <2>1, <2>2 DEF Order
<1>16. Notices'
    BY <1>1, <1>10, <1>12 DEF Notices
<1>17. PICK r : r = pool'
    OBVIOUS
<1>18. Protocol(Streams, tx, r, Live, St)
  <2>1. Streams \in AllStreams /\ tx \in AllTransfers /\ SameProtocol(p, r)
    BY <1>10, <1>17, BasicsHold DEF Basics
  <2>2. \A t \in Transactions : <<c, t>> \in pool.mPendingTransactions => ~Known(pool, t)
    BY <1>7 DEF LeftTransactions
  <2>3. Protocol(Streams, tx, p, Live, St)
    BY <1>4, <1>8, <2>2, Part
  <2> QED BY <2>1, <2>3, SameUsers
<1>19. Protocol(Streams', tx', pool', Live', St')
    BY <1>1, <1>12, <1>13, <1>17, <1>18
<1>20. Un' = Un /\ Holdings(client, Streams, pool.mUsingBuffers, tx, Un, Al)
    BY <1>1, <1>12, <1>13 DEF Un, Inv
<1>21. Holdings(client', Streams', pool'.mUsingBuffers, tx', Un', Al')
    BY <1>1, <1>11, <1>12, <1>20
<1> QED BY <1>10, <1>14, <1>15, <1>16, <1>19, <1>21 DEF Inv

-----------------------------------------------------------------------------
(* The initial state.                                                      *)

\* The pool at the start.
LEMMA InitPoolConsistent == Consistent(InitPool) /\ InitPool \in Pools
<1>1. /\ FirstId \in BufferIds /\ SYNC_BUFFERID \in Nat /\ Local \in Connections
      /\ NoTransaction \in TransactionStates /\ NoTransaction.mStatus = "none"
    BY IdsAssumption, ConnectionsAssumption, NoTransactionType DEF BufferIds
<1>2. PICK p : p = InitPool
    OBVIOUS
<1>3. p \in Pools
  <2>1. <<>> \in Seq(Invalidations)
    OBVIOUS
  <2> QED BY <1>1, <1>2, <2>1 DEF InitPool, Pools
<1>4. /\ p.mBuffers = {} /\ p.mInvalidated = {} /\ p.mFreeBuffers = {} /\ p.mUsingBuffers = {}
      /\ p.mUsingConnections = {} /\ p.mPendings = {} /\ ~p.crashed /\ p.allocations = 0
      /\ p.mSeq = FirstId /\ p.mStartSeq = FirstId
    BY <1>2 DEF InitPool
<1>5. \A t \in Transactions : ~Known(p, t)
    BY <1>1, <1>2 DEF InitPool, Known
<1>6. \A b \in BufferIds : p.mOwnerCount[b] = 0 /\ p.mTransactionCount[b] = 0
    BY <1>2 DEF InitPool
<1>7. \A b : Owners(p, b) = {} /\ Transfers(p, b) = {}
    BY <1>4, <1>5 DEF Owners, Transfers
<1>8. Counts(p)
    BY <1>6, <1>7, FS_EmptySet DEF Counts
<1>9. FreeUnless(p, {}) /\ Named(p)
    BY <1>4, <1>5 DEF FreeUnless, Named
<1>10. Ids(p)
    BY <1>1, <1>4, IdsAssumption DEF Ids, Off, BufferIds
<1>11. Ranges(p)
    BY <1>4, FS_EmptySet DEF Ranges
<1> QED BY <1>2, <1>3, <1>4, <1>8, <1>9, <1>10, <1>11 DEF Consistent

\* A client at the start.
LEMMA EmptyClient ==
    ASSUME NEW state \in {"new", "up", "gone"}, NEW k, k = InitClient(state)
    PROVE  /\ k.hasCache = {} /\ k.mBuffers = {} /\ k.dying = {} /\ k.mReleasingIds = <<>> /\ k.mReleasedIds = {}
           /\ \A b \in BufferIds : k.refs[b] = 0
    BY DEF InitClient

\* Everything at the start.
InitParts ==
    /\ TypeOK /\ \A c \in Connections : Streams[c] = <<>>
    /\ \A t \in Transactions : tx[t].pc = "none"
    /\ \A c \in Connections : client[c] = InitClient(client[c].state) /\ client[c].state = (IF c = Local THEN "up" ELSE "new")
    /\ pool = InitPool /\ Al = {}

\* The initial state has these parts,
LEMMA InitTypes ==
    ASSUME Init
    PROVE  InitParts
<1>1. FirstId \in BufferIds /\ Local \in Connections /\ QueueSize \in Nat
    BY IdsAssumption, ConnectionsAssumption, QueueAssumption DEF BufferIds
<1>2. \A c \in Connections : client[c] = InitClient(IF c = Local THEN "up" ELSE "new")
    BY DEF Init
<1>3. ASSUME NEW c \in Connections
      PROVE  /\ client[c] \in Clients /\ client[c].state = (IF c = Local THEN "up" ELSE "new")
             /\ client[c].mReleasingIds = <<>> /\ client[c] = InitClient(client[c].state)
  <2>1. PICK state : state = IF c = Local THEN "up" ELSE "new"
    OBVIOUS
  <2>2. state \in {"new", "up", "gone"} /\ client[c] = InitClient(state)
    BY <1>2, <2>1
  <2>3. InitClient(state) \in Clients /\ InitClient(state).state = state /\ InitClient(state).mReleasingIds = <<>>
    BY <2>2, InitClientType
  <2> QED BY <2>1, <2>2, <2>3
<1>4. client \in [Connections -> Clients]
    BY <1>3 DEF Init
<1>5. tx \in AllTransfers /\ \A t \in Transactions : tx[t].pc = "none"
    BY <1>1 DEF Init, AllTransfers, TransferStates
<1>6. /\ mail \in [Connections -> Seq(Messages)] /\ taken \in [Connections -> Nat]
      /\ inv \in [Connections -> Seq(Invalidations)]
      /\ \A c \in Connections : mail[c] = <<>> /\ taken[c] = 0
    BY DEF Init
<1>7. \A c \in Connections : taken[c] <= Len(mail[c]) /\ Room(Own(c)) >= 0
    BY <1>1, <1>6 DEF Room, Own
<1>8. op \in Calls /\ CallOK(op)
    BY NoCallType DEF Init, CallOK
<1>9. alloc \in [pc : {"idle", "asking", "got"}, b : BufferIds] /\ Al = {}
    BY <1>1 DEF Init, Al
<1>10. TypeOK
    BY <1>4, <1>5, <1>6, <1>7, <1>8, <1>9 DEF TypeOK, Init
<1>11. ASSUME NEW c \in Connections PROVE Streams[c] = <<>>
  <2>1. Own(c) \in Objects /\ Own(c).cl = client[c] /\ Own(c).mail = mail[c] /\ Streams[c] = Stream(Own(c))
    BY <1>10, OwnType
  <2> QED BY <1>3, <1>6, <2>1, StreamHead
<1> QED BY <1>3, <1>5, <1>9, <1>10, <1>11 DEF InitParts, Init

\* and the invariant holds in it.
LEMMA InitInv ==
    ASSUME Init
    PROVE  Inv
<1>1. InitParts
    BY InitTypes
<1>2. /\ TypeOK /\ pool = InitPool /\ Al = {} /\ Consistent(pool) /\ pool.posted = <<>>
      /\ \A t \in Transactions : tx[t].pc = "none"
    BY <1>1, InitPoolConsistent DEF InitParts, InitPool
<1>3. /\ pool.mConnectionIds = {Local} /\ pool.mUsingBuffers = {} /\ pool.mPendings = {}
      /\ pool.mPendingTransactions = {} /\ pool.mCompletedTransactions = {} /\ pool.mInvalidationId = 0
      /\ \A c \in Connections : pool.mAcks[c] = 0
    BY <1>2 DEF InitPool
<1>4. \A t \in Transactions : ~Known(pool, t)
    BY <1>2, NoTransactionType DEF InitPool, Known
<1>5. \A c \in Connections : Streams[c] = <<>> /\ Len(Streams[c]) = 0
  <2>1. Len(<<>>) = 0
    OBVIOUS
  <2> QED BY <1>1, <2>1 DEF InitParts
<1>6. \A c \in Connections : client[c].state = (IF c = Local THEN "up" ELSE "new") /\ client[c] = InitClient(client[c].state)
    BY <1>1 DEF InitParts
<1>7. op = NoCall /\ op.fn = "none" /\ calls = {} /\ onMessage = {} /\ unread = {}
    BY NoCallType DEF Init
<1>8. Local \in Connections /\ \A c \in Connections : taken[c] = 0 /\ inv[c] = <<>>
    BY ConnectionsAssumption DEF Init
<1>9. Order
  <2>1. ASSUME NEW c \in Connections PROVE Connected(c)
    <3>1. op # Call("close", c) /\ op # Call("connect", c)
      BY <1>7 DEF Call
    <3>2. client[c].state \in {"up", "new"} /\ (client[c].state = "up" <=> c = Local)
      BY <1>6
    <3> QED BY <1>3, <1>5, <1>6, <1>7, <3>1, <3>2 DEF Connected
  <2>2. Handled /\ op.fn # "allocate"
    BY <1>7, <1>8 DEF Handled
  <2> QED BY <1>6, <1>8, <2>1, <2>2 DEF Order, Running
<1>10. Notices
  <2>1. ASSUME NEW c \in Connections PROVE client[c].mInvalidateId = 0
    <3>1. client[c].state \in {"new", "up", "gone"}
      BY <1>6
    <3> QED BY <1>6, <3>1, InitClientType
  <2>2. ASSUME NEW c \in Connections PROVE Notified(pool, c, client[c], inv[c], onMessage, Streams[c])
    BY <1>3, <1>5, <1>8, <2>1 DEF Notified
  <2> QED BY <1>3, <1>7, <2>2 DEF Notices
<1>11. tx \in AllTransfers
    BY <1>2 DEF TypeOK
<1>12. \A c \in Connections : \A t : ~HasTo(Streams[c], t) /\ ~HasFrom(Streams[c], t) /\ ~HasResult(Streams[c], t)
    BY <1>5 DEF HasTo, HasFrom, HasResult
<1>13. Protocol(Streams, tx, pool, Live, St)
  <2>1. Sane(Streams, tx) /\ InOrder(Streams)
    BY <1>5 DEF Sane, InOrder
  <2>2. \A t \in Transactions : ~Unfinished(Streams, tx, t) /\ ~Interest(Streams, tx, Live, t)
    BY <1>2 DEF Unfinished, Interest
  <2>3. \A t \in Transactions : tx[t].to \in Connections /\ tx[t].from \in Connections
    BY <1>11 DEF AllTransfers, TransferStates
  <2>4. Open(Streams, tx) /\ Begun(tx, St) /\ Here(tx, St)
    BY <1>2, <1>12, <2>3 DEF Open, Begun, Here, Receiving
  <2>5. Addressed(tx, pool) /\ Real(Streams, tx, pool) /\ Kept(Streams, tx, pool, Live)
    BY <1>3, <1>4, <2>2 DEF Addressed, Real, Kept
  <2>6. Received(Streams, tx, pool) /\ Validated(Streams, tx, pool) /\ Remembered(Streams, tx, pool)
    BY <1>2, <1>4, <1>12, <2>3 DEF Received, Validated, Remembered, Receiving
  <2>7. Over(Streams, tx, pool, Live)
    BY <1>3 DEF Over
  <2> QED BY <2>1, <2>4, <2>5, <2>6, <2>7 DEF Protocol
<1>14. Holdings(client, Streams, pool.mUsingBuffers, tx, Un, Al)
  <2>1. ASSUME NEW c \in Connections
        PROVE  /\ client[c].hasCache = {} /\ client[c].mBuffers = {} /\ client[c].dying = {}
               /\ client[c].mReleasingIds = <<>> /\ client[c].mReleasedIds = {}
               /\ \A b \in BufferIds : client[c].refs[b] = 0
    <3>1. client[c].state \in {"new", "up", "gone"} /\ client[c] = InitClient(client[c].state)
      BY <1>6
    <3> QED BY <3>1, EmptyClient
  <2>2. ASSUME NEW c \in Connections, NEW un PROVE Cache(client[c], un)
    <3>1. Len(client[c].mReleasingIds) = 0
      BY <2>1
    <3>2. ReleasingSet(client[c]) = {} /\ NoRepeat(client[c].mReleasingIds)
      BY <3>1 DEF ReleasingSet, NoRepeat
    <3> QED BY <2>1, <3>2 DEF Cache
  <2>3. \A c, b : Got(tx, c, b) = {}
    BY <1>2 DEF Got
  <2>4. \A c \in Connections, b \in BufferIds : ~Holds(pool.mUsingBuffers, c, Streams[c], b)
    BY <1>3, <1>5 DEF Holds, Granted
  <2>5. ASSUME NEW c \in Connections, NEW al PROVE Holding(client[c], c, Streams[c], pool.mUsingBuffers, tx, al)
    <3>1. ASSUME NEW b \in BufferIds
          PROVE  /\ Cardinality(Got(tx, c, b)) <= client[c].refs[b]
                 /\ ~(client[c].refs[b] > Cardinality(Got(tx, c, b)))
                 /\ ~Holds(pool.mUsingBuffers, c, Streams[c], b)
      <4>1. Got(tx, c, b) = {} /\ Cardinality({}) = 0
        BY <2>3, FS_EmptySet
      <4>2. Cardinality(Got(tx, c, b)) = 0
        BY <4>1
      <4> QED BY <2>1, <2>4, <4>2
    <3> QED BY <3>1 DEF Holding
  <2>6. Honest(client[Local], Streams[Local], pool.mUsingBuffers, tx)
    BY <1>5, <1>8, <2>1 DEF Honest
  <2>7. Fresh(client[Local], Streams[Local], pool.mUsingBuffers, Al, Un)
    BY <1>2 DEF Fresh
  <2> QED BY <2>2, <2>5, <2>6, <2>7 DEF Holdings
<1> QED BY <1>2, <1>9, <1>10, <1>13, <1>14 DEF Inv

-----------------------------------------------------------------------------
(* All steps, and the theorems.                                            *)

\* The calls that may begin.
LEMMA LockCases ==
    ASSUME Inv, NEW call, Lock(call),
           \/ call \in calls
           \/ \E c \in Connections : client[c].state = "new" /\ call = Call("connect", c)
           \/ alloc.pc = "idle" /\ call = Call("allocate", 0)
           \/ call = Call("handleInvalidateAck", 0)
    PROVE  Inv'
<1>1. calls \in SUBSET Calls /\ \A k \in calls : CallOK(k) /\ k.fn \in Waiting
    BY DEF Inv, TypeOK
<1>2. Connections \subseteq Nat
    BY ConnectionsAssumption
<1>3. CASE call \in calls
  <2>1. Ready(call)
    BY <1>1, <1>3 DEF Ready, Waiting
  <2> QED BY <2>1, LockStep
<1>4. ASSUME NEW c \in Connections, client[c].state = "new", call = Call("connect", c) PROVE Inv'
  <2>1. call \in Calls /\ call.fn = "connect" /\ call.arg = c
    BY <1>2, <1>4 DEF Call, Calls
  <2>2. Ready(call)
    BY <1>4, <2>1 DEF Ready, CallOK
  <2> QED BY <2>2, LockStep
<1>5. CASE alloc.pc = "idle" /\ call = Call("allocate", 0)
  <2>1. call \in Calls /\ call.fn = "allocate"
    BY <1>5 DEF Call, Calls
  <2>2. Ready(call)
    BY <1>5, <2>1 DEF Ready, CallOK
  <2> QED BY <2>2, LockStep
<1>6. CASE call = Call("handleInvalidateAck", 0)
  <2>1. call \in Calls /\ call.fn = "handleInvalidateAck"
    BY <1>6 DEF Call, Calls
  <2>2. Ready(call)
    BY <2>1 DEF Ready, CallOK
  <2> QED BY <2>2, LockStep
<1> QED BY <1>3, <1>4, <1>5, <1>6

\* Every step of the pool preserves the invariant.
LEMMA PoolSteps ==
    ASSUME Inv, PoolNext
    PROVE  Inv'
<1>1. ASSUME NEW call \in calls, Lock(call) PROVE Inv'
    BY <1>1, LockCases
<1>2. ASSUME NEW c \in Connections, client[c].state = "new", Lock(Call("connect", c)) PROVE Inv'
  <2>1. PICK call : call = Call("connect", c)
    OBVIOUS
  <2>2. Lock(call)
    BY <1>2, <2>1
  <2> QED BY <1>2, <2>1, <2>2, LockCases
<1>3. ASSUME alloc.pc = "idle", Lock(Call("allocate", 0)) PROVE Inv'
  <2>1. PICK call : call = Call("allocate", 0)
    OBVIOUS
  <2>2. Lock(call)
    BY <1>3, <2>1
  <2> QED BY <1>3, <2>1, <2>2, LockCases
<1>4. ASSUME Lock(Call("handleInvalidateAck", 0)) PROVE Inv'
  <2>1. PICK call : call = Call("handleInvalidateAck", 0)
    OBVIOUS
  <2>2. Lock(call)
    BY <1>4, <2>1
  <2> QED BY <2>1, <2>2, LockCases
<1>5. ASSUME NEW c \in Connections, ReadQueue(c) \/ HandleMessage(c) PROVE Inv'
    BY <1>5, ReadQueueStep, HandleMessageStep
<1>6. CASE Connect \/ Close \/ AskAllocator \/ Fetch \/ CleanUp \/ Flush \/ HandleInvalidateAck
    BY <1>6, ConnectStep, CloseStep, AskAllocatorStep, FetchStep, CleanUpStep, FlushStep,
       HandleInvalidateAckStep
<1>7. ASSUME NEW b \in BufferIds, CloseBuffer(b) \/ Recycle(b) PROVE Inv'
    BY <1>7, CloseBufferStep, RecycleStep
<1>8. ASSUME NEW t \in Transactions, CloseTransaction(t) PROVE Inv'
    BY <1>8, CloseTransactionStep
<1>9. ASSUME NEW ok \in BOOLEAN, Allocated(ok) PROVE Inv'
    BY <1>9, AllocatedStep
<1> QED BY <1>1, <1>2, <1>3, <1>4, <1>5, <1>6, <1>7, <1>8, <1>9 DEF PoolNext

\* Every step of a client preserves the invariant.
LEMMA ClientSteps ==
    ASSUME Inv, ClientNext
    PROVE  Inv'
<1>1. CASE FlushCall
    BY <1>1, FlushCallStep
<1>2. ASSUME NEW ok \in BOOLEAN, NEW expired, AllocateDone(ok, expired) PROVE Inv'
    BY <1>2, AllocateDoneStep
<1>3. ASSUME NEW c \in Connections, Disconnect(c) PROVE Inv'
    BY <1>3, DisconnectStep
<1>4. ASSUME NEW c \in Connections, NEW b \in BufferIds, Drop(c, b) \/ Deleter(c, b) PROVE Inv'
    BY <1>4, DropStep, DeleterStep
<1>5. ASSUME NEW c \in Connections, NEW b \in BufferIds, NEW r \in Connections, NEW t \in Transactions,
             PostSend(t, c, b, r)
      PROVE  Inv'
    BY <1>5, PostSendStep
<1>6. ASSUME NEW c \in Connections, NEW expired, IsActive(c, expired) PROVE Inv'
    BY <1>6, IsActiveStep
<1>7. ASSUME NEW c \in Connections, NEW x \in onMessage, ReceiveInvalidation(c, x[2]) PROVE Inv'
    BY <1>7, ReceiveInvalidationStep
<1>8. ASSUME NEW t \in Transactions, PostReceive(t) \/ PostReceiveResult(t) PROVE Inv'
    BY <1>8, PostReceiveStep, PostReceiveResultStep
<1>9. ASSUME NEW t \in Transactions, NEW expired, LookUp(t, expired) PROVE Inv'
    BY <1>9, LookUpStep
<1>10. ASSUME NEW t \in Transactions, NEW ok \in BOOLEAN, FetchDone(t, ok) PROVE Inv'
    BY <1>10, FetchDoneStep
<1> QED BY <1>1, <1>2, <1>3, <1>4, <1>5, <1>6, <1>7, <1>8, <1>9, <1>10 DEF ClientNext

\* The invariant is about the variables.
LEMMA InvStutter ==
    ASSUME Inv, UNCHANGED vars
    PROVE  Inv'
<1>1. UNCHANGED <<pool, op, unread, mail, taken, calls, inv, onMessage, client, tx, alloc>>
    BY DEF vars
<1>2. /\ pool' = pool /\ op' = op /\ unread' = unread /\ mail' = mail /\ taken' = taken /\ calls' = calls
      /\ inv' = inv /\ onMessage' = onMessage /\ client' = client /\ tx' = tx /\ alloc' = alloc
    BY <1>1
<1>3. \A c : Own(c)' = Own(c)
    BY <1>2 DEF Own
<1>4. Streams' = Streams /\ Live' = Live /\ St' = St /\ Al' = Al
    BY <1>2, <1>3 DEF Streams, Live, Closing, Running, Handled, St, Al
<1>5. Un' = Un
    BY <1>2, <1>4 DEF Un
<1>6. TypeOK'
    BY <1>2, <1>3 DEF Inv, TypeOK
<1>7. Order'
    BY <1>2, <1>4 DEF Inv, Order, Connected, Running, Handled
<1>8. Notices'
    BY <1>2, <1>4 DEF Inv, Notices
<1> QED BY <1>2, <1>4, <1>5, <1>6, <1>7, <1>8 DEF Inv

\* The inductive invariant of the buffer pool holds in every state: the pool agrees with
\* itself (AccessorImpl.cpp), and the status messages that it has not read, the transfers
\* of the clients and the references that the clients have agree with it, however the
\* steps of the pool and of the clients interleave.
THEOREM InvHolds == Spec => []Inv
<1>1. Init => Inv
    BY InitInv
<1>2. Inv /\ [Next]_vars => Inv'
    BY PoolSteps, ClientSteps, InvStutter DEF Next
<1> QED BY <1>1, <1>2, PTL DEF Spec

\* The maps, counts and the free list of AccessorImpl agree in every state, and no handler
\* of a status message uses a buffer that is not there, for any number of connections,
\* buffers and transfers.
THEOREM PoolConsistentHolds == Spec => []PoolConsistent
<1>1. ASSUME Inv PROVE PoolConsistent
  <2>1. /\ pool \in Pools /\ ~pool.crashed /\ Counts(pool) /\ FreeUnless(pool, {}) /\ Named(pool)
        /\ Ids(pool) /\ Ranges(pool) /\ Real(Streams, tx, pool)
    BY <1>1 DEF Inv, Consistent, Protocol
  <2>2. pool.mBuffers \subseteq BufferIds
    BY <2>1 DEF Pools
  <2>3. ASSUME NEW b \in pool.mBuffers
        PROVE  /\ pool.mOwnerCount[b] = Cardinality({c \in Connections : <<c, b>> \in pool.mUsingBuffers})
               /\ pool.mTransactionCount[b] =
                    Cardinality({t \in Transactions : Known(pool, t) /\ pool.mTransactions[t].mBufferId = b})
               /\ b \in pool.mFreeBuffers <=> pool.mOwnerCount[b] = 0 /\ pool.mTransactionCount[b] = 0
    <3>1. b \in BufferIds
      BY <2>2
    <3>2. pool.mOwnerCount[b] = Cardinality(Owners(pool, b)) /\ pool.mTransactionCount[b] = Cardinality(Transfers(pool, b))
      BY <2>1, <3>1 DEF Counts
    <3>3. b \in pool.mFreeBuffers <=> pool.mOwnerCount[b] = 0 /\ pool.mTransactionCount[b] = 0
      BY <2>1 DEF FreeUnless
    <3> QED BY <3>2, <3>3 DEF Owners, Transfers
  <2>4. pool.mUsingConnections = {<<x[2], x[1]>> : x \in pool.mUsingBuffers}
    <3>1. /\ pool.mUsingConnections \subseteq BufferIds \X Connections
          /\ pool.mUsingBuffers \subseteq Connections \X BufferIds
      BY <2>1 DEF Pools
    <3>2. \A c \in Connections, b \in BufferIds :
            <<b, c>> \in pool.mUsingConnections <=> <<c, b>> \in pool.mUsingBuffers
      BY <2>1 DEF Named
    <3>3. ASSUME NEW y \in pool.mUsingConnections PROVE y \in {<<x[2], x[1]>> : x \in pool.mUsingBuffers}
      <4>1. PICK b \in BufferIds, c \in Connections : y = <<b, c>>
        BY <3>1
      <4>2. <<c, b>> \in pool.mUsingBuffers
        BY <3>2, <4>1
      <4>3. y = <<(<<c, b>>)[2], (<<c, b>>)[1]>>
        BY <4>1
      <4> QED BY <4>2, <4>3
    <3>4. ASSUME NEW x \in pool.mUsingBuffers PROVE <<x[2], x[1]>> \in pool.mUsingConnections
      <4>1. PICK c \in Connections, b \in BufferIds : x = <<c, b>>
        BY <3>1
      <4>2. <<b, c>> \in pool.mUsingConnections
        BY <3>2, <4>1
      <4>3. x[2] = b /\ x[1] = c
        BY <4>1
      <4> QED BY <4>2, <4>3
    <3> QED BY <3>3, <3>4
  <2>5. \A t \in Transactions : Known(pool, t) =>
            /\ pool.mTransactions[t].mBufferId \in pool.mBuffers
            /\ pool.mTransactions[t].mReceiver \in pool.mConnectionIds
    BY <2>1 DEF Named, Real
  <2>6. pool.mInvalidated \cap pool.mFreeBuffers = {}
    BY <2>1 DEF Named
  <2>7. ASSUME NEW x \in pool.mPendings
        PROVE  x.left = Cardinality({b \in pool.mBuffers : Off(x.from) <= Off(b) /\ Off(b) < Off(x.to)})
    <3>1. x.from \in BufferIds /\ x.to \in BufferIds
      BY <2>1 DEF Pools, PendingRanges
    <3>2. Off(x.from) < Off(x.to) /\ x.left = Cardinality(InRange(pool, x))
      BY <2>1 DEF Ranges
    <3>3. ASSUME NEW b \in pool.mBuffers
          PROVE  IsBufferInRange(x.from, x.to, b) <=> Off(x.from) <= Off(b) /\ Off(b) < Off(x.to)
      <4>1. b \in BufferIds
        BY <2>2
      <4> QED BY <3>1, <3>2, <4>1, IdsAssumption DEF IsBufferInRange, Off, BufferIds
    <3> QED BY <3>2, <3>3 DEF InRange
  <2>8. \A b \in pool.mBuffers : b \in pool.mInvalidated <=> Off(b) < Off(pool.mStartSeq)
    BY <2>1 DEF Ids
  <2> QED BY <2>1, <2>3, <2>4, <2>5, <2>6, <2>7, <2>8 DEF PoolConsistent
<1> QED BY <1>1, InvHolds, PTL

\* allocate(), cleanUp(), flush() and close() never recycle or erase a buffer that a client
\* holds, that allocate() has for its caller, or that is between postSend() and the end of
\* receive(): the pool knows a user of it or a transaction, or will not read a release
\* before the message that makes one known.
THEOREM NoReuseInUseHolds == Spec => []NoReuseInUse
<1>1. ASSUME Inv PROVE NoReuseInUse
  <2>1. Basics
    BY <1>1, BasicsHold
  <2>2. /\ Streams \in AllStreams /\ tx \in AllTransfers /\ Awake(Streams, Live, St)
        /\ \A c \in Connections, b \in BufferIds : client[c].refs[b] \in Int
    BY <2>1 DEF Basics
  <2>3. /\ Protocol(Streams, tx, pool, Live, St) /\ Consistent(pool)
        /\ Holdings(client, Streams, pool.mUsingBuffers, tx, Un, Al)
    BY <1>1 DEF Inv
  <2>4. \A d \in Connections : (Streams[d] # <<>> => d \in Live) /\ (Up(d) => d \in Live)
    BY <2>2 DEF Awake, St, Up
  <2>5. ASSUME NEW b \in BufferIds, InUse(b) PROVE b \in pool.mBuffers \ pool.mFreeBuffers
    <3>1. ASSUME NEW c \in Connections, client[c].refs[b] > 0 PROVE b \in pool.mBuffers \ pool.mFreeBuffers
      BY <2>2, <2>3, <3>1, ReferenceProtected
    <3>2. CASE alloc.pc = "got" /\ alloc.b = b
      <4>1. <<Local, b>> \in pool.mUsingBuffers /\ Local \in Connections
        BY <1>1, <3>2, AllocatedFacts, ConnectionsAssumption
      <4> QED BY <2>3, <4>1, BusyNotFree
    <3>3. ASSUME NEW t \in Transactions, tx[t].b = b, Up(tx[t].to),
                 tx[t].pc \in {"sent", "receive", "fetch", "fetched", "got"}
          PROVE  b \in pool.mBuffers \ pool.mFreeBuffers
      <4>1. tx[t].to \in Connections
        BY <2>2 DEF AllTransfers, TransferStates
      <4>2. Interest(Streams, tx, Live, t)
        BY <2>4, <3>3, <4>1 DEF Interest, Unfinished
      <4>3. \A d \in Connections : Streams[d] # <<>> => d \in Live
        BY <2>4
      <4> QED BY <2>2, <2>3, <3>3, <4>2, <4>3, InterestProtected
    <3> QED BY <2>5, <3>1, <3>2, <3>3 DEF InUse
  <2> QED BY <2>5 DEF NoReuseInUse
<1> QED BY <1>1, InvHolds, PTL

\* When a queue is empty, what its connection still says are the releases that it has to post.
LEMMA OnlyReleases ==
    ASSUME NEW z \in Objects, z.mail = <<>>, NEW i \in 1 .. Len(Stream(z))
    PROVE  Stream(z)[i].newStatus = "NOT_USED" /\ Stream(z)[i].bufferId \in ToSet(z.cl.mReleasingIds)
<1>1. PICK ids : ids = z.cl.mReleasingIds
    OBVIOUS
<1>2. ids \in Seq(BufferIds)
    BY <1>1 DEF Objects, Clients
<1>3. /\ NotUsed(ids) \in Seq(Messages) /\ Len(NotUsed(ids)) = Len(ids)
      /\ \A j \in 1 .. Len(ids) : NotUsed(ids)[j] = Message("NOT_USED", ids[j], 0, 0)
    BY <1>2, NotUsedItems
<1>4. Stream(z) = NotUsed(ids)
    BY <1>1, <1>3 DEF Stream
<1>5. i \in 1 .. Len(ids) /\ i \in DOMAIN ids /\ Stream(z)[i] = Message("NOT_USED", ids[i], 0, 0)
    BY <1>2, <1>3, <1>4
<1>6. ids[i] \in ToSet(ids)
    BY <1>5 DEF ToSet
<1> QED BY <1>1, <1>5, <1>6 DEF Message

\* When the pool has read all messages and no call waits, a buffer that is not free is used,
\* about to be released, or in a transfer that its receiver has given up without posting
\* TRANSFER_ERROR.
THEOREM NoLeakHolds == Spec => []NoLeak
<1>1. ASSUME Inv PROVE NoLeak
  <2> SUFFICES ASSUME Running("none"), calls = {}, \A c \in Connections : mail[c] = <<>>,
                      NEW b \in pool.mBuffers \ pool.mFreeBuffers
               PROVE  \/ InUse(b)
                      \/ \E c \in Connections : b \in client[c].dying \cup ToSet(client[c].mReleasingIds)
                      \/ \E t \in Transactions :
                            /\ tx[t].b = b /\ Up(tx[t].to)
                            /\ tx[t].pc \in {"unfetched", "failed", "abandoned"}
    BY DEF NoLeak
  <2>1. /\ TypeOK /\ Consistent(pool) /\ Order /\ Real(Streams, tx, pool) /\ tx \in AllTransfers
        /\ Holdings(client, Streams, pool.mUsingBuffers, tx, Un, Al)
    BY <1>1 DEF Inv, Protocol, TypeOK
  <2>2. /\ pool \in Pools /\ Counts(pool) /\ FreeUnless(pool, {})
        /\ pool.mUsingBuffers \subseteq pool.mConnectionIds \X pool.mBuffers
    BY <2>1 DEF Consistent, Named
  <2>3. b \in BufferIds /\ pool.mConnectionIds \subseteq Connections
    BY <2>2 DEF Pools
  <2>4. ASSUME NEW c \in pool.mConnectionIds PROVE Up(c)
    <3>1. c \in Connections /\ client[c].state \in {"new", "up", "gone"}
      BY <2>1, <2>3 DEF TypeOK, Clients
    <3>2. op # Call("connect", c) /\ op # Call("close", c)
      BY DEF Running, Call
    <3>3. Connected(c)
      BY <2>1, <3>1 DEF Order
    <3> QED BY <3>1, <3>2, <3>3 DEF Connected, Up
  <2>5. ASSUME NEW c \in Connections, NEW i \in 1 .. Len(Streams[c])
        PROVE  Streams[c][i].newStatus = "NOT_USED" /\ Streams[c][i].bufferId \in ToSet(client[c].mReleasingIds)
    <3>1. PICK z : z = Own(c)
      OBVIOUS
    <3>2. z \in Objects /\ z.mail = <<>> /\ z.cl = client[c] /\ Streams[c] = Stream(z)
      BY <2>1, <3>1, OwnType
    <3>3. i \in 1 .. Len(Stream(z))
      BY <3>2
    <3>4. Stream(z)[i].newStatus = "NOT_USED" /\ Stream(z)[i].bufferId \in ToSet(z.cl.mReleasingIds)
      BY <3>2, <3>3, OnlyReleases
    <3> QED BY <3>2, <3>4
  <2>6. Owners(pool, b) # {} \/ Transfers(pool, b) # {}
    <3>1. Cardinality(Owners(pool, b)) # 0 \/ Cardinality(Transfers(pool, b)) # 0
      BY <2>2, <2>3 DEF Counts, FreeUnless
    <3> QED BY <3>1, FS_EmptySet
  <2>7. ASSUME NEW c \in Owners(pool, b)
        PROVE  InUse(b) \/ b \in client[c].dying \cup ToSet(client[c].mReleasingIds)
    <3>1. c \in Connections /\ <<c, b>> \in pool.mUsingBuffers /\ c \in pool.mConnectionIds
      BY <2>2, <2>7 DEF Owners
    <3>2. Up(c)
      BY <2>4, <3>1
    <3>3. CASE b \notin ToSet(client[c].mReleasingIds)
      <4>1. \A i \in 1 .. Len(Streams[c]) : ~Releases(Streams[c][i], b)
        BY <2>5, <3>1, <3>3 DEF Releases
      <4>2. Len(Streams[c]) \in Nat
        <5>1. Streams[c] \in Seq(Messages)
          BY <2>1, <3>1, OwnType
        <5> QED BY <5>1
      <4>3. Holds(pool.mUsingBuffers, c, Streams[c], b)
        BY <3>1, <4>1, <4>2 DEF Holds, Granted
      <4>4. Holding(client[c], c, Streams[c], pool.mUsingBuffers, tx, OfLocal(c, Al))
        BY <2>1, <3>1 DEF Holdings
      <4>5. client[c].refs[b] > 0 \/ b \in client[c].dying \/ b \in OfLocal(c, Al)
        BY <2>3, <3>2, <4>3, <4>4 DEF Holding, Up
      <4>6. b \in OfLocal(c, Al) => alloc.pc = "got" /\ alloc.b = b
        BY DEF OfLocal, Al
      <4> QED BY <3>1, <4>5, <4>6 DEF InUse
    <3> QED BY <3>3
  <2>8. ASSUME NEW t \in Transfers(pool, b)
        PROVE  /\ t \in Transactions /\ tx[t].b = b /\ Up(tx[t].to)
               /\ tx[t].pc \in {"sent", "abandoned"} \cup Receiving
    <3>1. t \in Transactions /\ Known(pool, t) /\ pool.mTransactions[t].mBufferId = b
      BY <2>8 DEF Transfers
    <3>2. Unfinished(Streams, tx, t) /\ tx[t].b = b /\ tx[t].to \in pool.mConnectionIds
      BY <2>1, <3>1 DEF Real
    <3>3. tx[t].to \in Connections /\ tx[t].pc \in {"none", "sent", "done", "abandoned"} \cup Receiving
      BY <2>1, <3>1 DEF AllTransfers, TransferStates
    <3>4. ~HasResult(Streams[tx[t].to], t)
      BY <2>5, <3>3 DEF HasResult, IsResult, Results
    <3> QED BY <2>4, <3>1, <3>2, <3>3, <3>4 DEF Unfinished
  <2>9. CASE Owners(pool, b) # {}
    <3>1. PICK c \in Owners(pool, b) : TRUE
      BY <2>9
    <3>2. c \in Connections
      BY <3>1 DEF Owners
    <3> QED BY <2>7, <3>1, <3>2
  <2>10. CASE Transfers(pool, b) # {}
    <3>1. PICK t \in Transfers(pool, b) : TRUE
      BY <2>10
    <3>2. /\ t \in Transactions /\ tx[t].b = b /\ Up(tx[t].to)
          /\ tx[t].pc \in {"sent", "abandoned"} \cup Receiving
      BY <2>8, <3>1
    <3> QED BY <3>2 DEF InUse, Receiving
  <2> QED BY <2>6, <2>9, <2>10
<1> QED BY <1>1, InvHolds, PTL

\* A client that has an invalidation to read will be told to: the Accessor stays on the list
\* of the invalidator thread until onHandleAck() has called the observers of all
\* connections that have not acknowledged it.
THEOREM InvalidationComesHolds == Spec => []InvalidationComes
<1>1. ASSUME Inv PROVE InvalidationComes
  <2>1. \A c \in Connections : Notified(pool, c, client[c], inv[c], onMessage, Streams[c])
    BY <1>1 DEF Inv, Notices
  <2> QED BY <2>1 DEF InvalidationComes, Notified
<1> QED BY <1>1, InvHolds, PTL
=============================================================================
