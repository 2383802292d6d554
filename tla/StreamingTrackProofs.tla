------------------------ MODULE StreamingTrackProofs ------------------------
(***************************************************************************)
(* The ring of a streaming track is a queue of frames for every size of    *)
(* the buffer and of the counters, as long as no obtainBuffer() of the     *)
(* mixer is torn: no frame that is to be read is overwritten, stops and    *)
(* flushes are respected, and no proxy is shut down.                       *)
(***************************************************************************)
EXTENDS StreamingTrack, TLAPS

\* The counter d frames on from c.
Ahead(c, d) == (c + d) % Wrap

\* The counter at a position.  It does not change when frames are written.
Counter(p) == Ahead(mRear, p - written)

filled == SubOverflow(mRear, mFront)
lastFlush == Max(flushes)

\* The mixer is between two loads of obtainBuffer().
Obtaining == spc \in {"flush", "stop", "rear", "last"}

\* What is in the ring: the frames that were released, and room for those that the
\* client has obtained.
Ring ==
    /\ filled \in 0 .. mFrameCount - cUnreleased /\ filled <= written
    /\ Slot(mRear) + cUnreleased <= mFrameCountP2
    /\ written + cUnreleased <= MaxFrames
    /\ playing <= filled
    /\ \A p \in read .. written - 1 : buffer[Slot(Counter(p))] = p

\* A flush is pending at its position in the ring, or the mixer is past it.  One that
\* comes after the load of mFlush is at the end of the ring.
Flushes ==
    /\ lastFlush \in flushes /\ flushSeen \in flushes /\ lastFlush <= written
    /\ \A f \in flushes : f <= lastFlush
    /\ IF mFlush = sFlush THEN lastFlush <= read
       ELSE /\ UpperBits(sFlush) < UpperBits(mFlush)
            /\ Masked(mFlush) = Masked(Counter(lastFlush))
            /\ read + playing <= lastFlush
    /\ spc = "flush" => /\ UpperBits(sFlush) < UpperBits(flush)
                        /\ Masked(flush) = Masked(Counter(flushSeen))
                        /\ read <= flushSeen
    /\ spc \in {"stop", "rear", "last"} => sFlush = flush
    /\ spc \in {"stop", "rear", "last", "hold"} => flushSeen <= read
    /\ Obtaining => \/ flush = mFlush /\ flushSeen = lastFlush
                    \/ UpperBits(flush) < UpperBits(mFlush)
    /\ spc \in {"flush", "stop", "rear"} /\ ~onlyReady /\ flush # mFlush => lastFlush = written

\* A stop is in force at its position in the ring, or a start has lifted it.
Stops ==
    /\ IF limit = NoLimit THEN mStop = mStopLast
       ELSE /\ UpperBits(mStopLast) < UpperBits(mStop)
            /\ Masked(mStop) = Masked(Counter(limit))
            /\ read + playing <= limit /\ lastFlush <= limit /\ limit <= written
    /\ limitSeen \in {NoLimit, limit}
    /\ StopHolds
    /\ UpperBits(mFlush) + (IF cpc = "flush" THEN OverflowBit ELSE 0) <= UpperBits(mStop)
    /\ cpc = "flush" => limit = written

\* What getRear() makes of the rear at p and of the stop that it has loaded is before
\* every stop and flush that it has missed.
Loaded(p) ==
    /\ flush # mFlush => p <= lastFlush
    /\ IF stop = mStop THEN limit # NoLimit => limit <= p
       ELSE /\ UpperBits(stop) < UpperBits(mStop)
            /\ limit # NoLimit /\ p <= limit
            /\ IF stop = mStopLast THEN limitSeen = NoLimit
               ELSE \E q \in read .. p : Masked(stop) = Masked(Counter(q)) /\ q <= limitSeen

\* What getRear() has loaded.  That of framesReady() is not used.
Loads ==
    /\ ~active => spc = "idle"
    /\ spc = "rear" => onlyReady \/ Loaded(written)
    /\ spc = "last" => \E p \in read .. written : rear = Counter(p) /\ (onlyReady \/ Loaded(p))

\* The state of a track of which no obtainBuffer() was torn.
Sound == TypeOK /\ NeverShutDown /\ Ring /\ Flushes /\ Stops /\ Loads

\* What a torn obtainBuffer() leaves: the types, and bounds on what the client writes.
Typed ==
    /\ TypeOK /\ written + cUnreleased <= MaxFrames
    /\ lastFlush \in flushes /\ lastFlush <= written /\ \A f \in flushes : f <= lastFlush

\* The inductive invariant.
IInv == Typed /\ (torn \/ Sound)

-----------------------------------------------------------------------------
(* Remainders.                                                             *)

Mod(a, n) == a % n

\* A number is n times the quotient and the remainder.
LEMMA DivLemma ==
    ASSUME NEW a \in Int, NEW n \in Int, n > 0
    PROVE  a = n * (a \div n) + (a % n) /\ a \div n \in Int /\ a % n \in Int
OBVIOUS

\* A number is a multiple of n and its remainder.
LEMMA QuotientLemma ==
    ASSUME NEW a \in Int, NEW n \in Int, n > 0
    PROVE  Mod(a, n) \in 0 .. n - 1 /\ \E q \in Int : a = n * q + Mod(a, n)
<1>1. a % n \in 0 .. n - 1
  OBVIOUS
<1>2. a = n * (a \div n) + (a % n) /\ a \div n \in Int
  OBVIOUS
<1> QED BY <1>1, <1>2 DEF Mod

\* The remainder is unique.
LEMMA RemainderLemma ==
    ASSUME NEW a \in Int, NEW n \in Int, n > 0, NEW r \in 0 .. n - 1, NEW q \in Int, a = n * q + r
    PROVE  Mod(a, n) = r
BY DEF Mod

\* A difference by a multiple of n.
Multiple(d, n) == \E q \in Int : d = n * q

\* Numbers that differ by a multiple of n have the same remainder, and conversely.
LEMMA CongruenceLemma ==
    ASSUME NEW a \in Int, NEW b \in Int, NEW n \in Int, n > 0
    PROVE  Mod(a, n) = Mod(b, n) <=> Multiple(a - b, n)
<1>1. PICK p \in Int : a = n * p + Mod(a, n)
  BY QuotientLemma
<1>2. PICK q \in Int : b = n * q + Mod(b, n)
  BY QuotientLemma
<1>3. Mod(a, n) \in Int /\ Mod(b, n) \in 0 .. n - 1
  BY QuotientLemma
<1>4. ASSUME Mod(a, n) = Mod(b, n) PROVE Multiple(a - b, n)
  <2>1. p - q \in Int /\ a - b = n * (p - q)
    BY <1>1, <1>2, <1>3, <1>4
  <2> QED BY <2>1 DEF Multiple
<1>5. ASSUME Multiple(a - b, n) PROVE Mod(a, n) = Mod(b, n)
  <2>1. PICK k \in Int : a - b = n * k
    BY <1>5 DEF Multiple
  <2>2. k + q \in Int /\ a = n * (k + q) + Mod(b, n)
    BY <1>2, <1>3, <2>1
  <2> QED BY <1>3, <2>2, RemainderLemma
<1> QED BY <1>4, <1>5

\* A term may be replaced by its remainder.
LEMMA ModPlus ==
    ASSUME NEW a \in Int, NEW b \in Int, NEW n \in Int, n > 0
    PROVE  Mod(Mod(a, n) + b, n) = Mod(a + b, n)
<1>1. PICK p \in Int : a = n * p + Mod(a, n)
  BY QuotientLemma
<1>2. Mod(a, n) \in Int
  BY QuotientLemma
<1>3. (a + b) - (Mod(a, n) + b) = n * p
  BY <1>1, <1>2
<1>4. Multiple((a + b) - (Mod(a, n) + b), n)
  BY <1>3 DEF Multiple
<1>5. a + b \in Int /\ Mod(a, n) + b \in Int
  BY <1>2
<1>6. Mod(a + b, n) = Mod(Mod(a, n) + b, n)
  BY <1>4, <1>5, CongruenceLemma
<1> QED BY <1>6

\* A remainder by a multiple of n has the same remainder by n.
LEMMA ModMod ==
    ASSUME NEW a \in Int, NEW n \in Int, n > 0, NEW k \in Int, k > 0
    PROVE  Mod(Mod(a, n * k), n) = Mod(a, n)
<1>1. n * k \in Int /\ n * k > 0
  OBVIOUS
<1> DEFINE m == n * k
<1>2. m \in Int /\ m > 0
  BY <1>1
<1> HIDE DEF m
<1>3. PICK p \in Int : a = m * p + Mod(a, m)
  BY <1>2, QuotientLemma
<1>4. Mod(a, m) \in Int
  BY <1>2, QuotientLemma
<1>5. (n * k) * p = n * (k * p) /\ k * p \in Int
  OBVIOUS
<1>6. m * p = n * (k * p)
  BY <1>5 DEF m
<1>7. a - Mod(a, m) = n * (k * p)
  BY <1>2, <1>3, <1>4, <1>5, <1>6
<1>8. Multiple(a - Mod(a, m), n)
  BY <1>5, <1>7 DEF Multiple
<1>9. Mod(a, n) = Mod(Mod(a, m), n)
  BY <1>4, <1>8, CongruenceLemma
<1> QED BY <1>9 DEF m

\* Numbers of the same remainder that are less than n apart are equal.
LEMMA ModSame ==
    ASSUME NEW a \in Int, NEW b \in Int, NEW n \in Int, n > 0, Mod(a, n) = Mod(b, n),
           a - b < n, b - a < n
    PROVE  a = b
<1>1. PICK k \in Int : a - b = n * k
  BY CongruenceLemma DEF Multiple
<1>2. k = 0
  BY <1>1
<1> QED BY <1>1, <1>2

\* Remainders of numbers near 0 .. n - 1.
LEMMA ModNear ==
    ASSUME NEW a \in Int, NEW n \in Int, n > 0
    PROVE  /\ 0 <= a /\ a < n => Mod(a, n) = a
           /\ n <= a /\ a < 2 * n => Mod(a, n) = a - n
           /\ -n <= a /\ a < 0 => Mod(a, n) = a + n
<1>1. 0 <= a /\ a < n => Mod(a, n) = a
  BY DEF Mod
<1>2. n <= a /\ a < 2 * n => Mod(a, n) = a - n
  BY DEF Mod
<1>3. -n <= a /\ a < 0 => Mod(a, n) = a + n
  BY DEF Mod
<1> QED BY <1>1, <1>2, <1>3

-----------------------------------------------------------------------------
(* Counters.                                                               *)

Half == Wrap \div 2

\* The sizes of the ring, of the masks and of the counters divide each other.
LEMMA SizesLemma ==
    /\ mFrameCount \in Int /\ mFrameCount >= 1
    /\ mFrameCountP2 \in Int /\ mFrameCountP2 >= mFrameCount
    /\ OverflowBit \in Int /\ OverflowBit = 2 * mFrameCountP2
    /\ Wrap \in Int /\ Half \in Int /\ Wrap = 2 * Half /\ Half >= 2 * OverflowBit
    /\ \E k \in Int : k > 0 /\ Wrap = mFrameCountP2 * k
    /\ \E k \in Int : k > 0 /\ Wrap = OverflowBit * k
<1>1. /\ mFrameCount \in Int /\ mFrameCount >= 1
      /\ mFrameCountP2 \in Int /\ mFrameCountP2 >= mFrameCount
      /\ Wrap \in Int /\ Wrap > 0
  BY SizesAssumption
<1>2. OverflowBit \in Int /\ OverflowBit = 2 * mFrameCountP2
  BY <1>1 DEF OverflowBit
<1> DEFINE n == 8 * mFrameCountP2
<1>3. n \in Int /\ n > 0
  BY <1>1
<1>4. Mod(Wrap, n) = 0
  BY SizesAssumption DEF Mod
<1> HIDE DEF n
<1>5. PICK k \in Int : Wrap = n * k + Mod(Wrap, n)
  BY <1>1, <1>3, QuotientLemma
<1>6. Wrap = n * k
  BY <1>3, <1>4, <1>5
<1>7. k > 0
  BY <1>1, <1>3, <1>6
<1>8. Wrap = (8 * mFrameCountP2) * k
  BY <1>6 DEF n
<1>9. Wrap = mFrameCountP2 * (8 * k) /\ 8 * k \in Int /\ 8 * k > 0
  BY <1>1, <1>7, <1>8
<1>10. Wrap = OverflowBit * (4 * k) /\ 4 * k \in Int /\ 4 * k > 0
  BY <1>1, <1>2, <1>7, <1>8
<1>11. mFrameCountP2 * k \in Int /\ mFrameCountP2 * k >= mFrameCountP2
  BY <1>1, <1>7
<1>12. Wrap = 8 * (mFrameCountP2 * k)
  BY <1>1, <1>8
<1>13. Half = 4 * (mFrameCountP2 * k)
  BY <1>11, <1>12 DEF Half
<1> QED BY <1>1, <1>2, <1>9, <1>10, <1>11, <1>12, <1>13

\* Going on from a counter, by any number of frames.
LEMMA AheadLemma ==
    ASSUME NEW c \in Int, NEW d \in Int
    PROVE  /\ Ahead(c, d) \in Counters /\ Ahead(c, d) \in Int
           /\ \A e \in Int : Ahead(Ahead(c, d), e) = Ahead(c, d + e)
           /\ c \in Counters => Ahead(c, 0) = c
<1>1. /\ \A a, b : Ahead(a, b) = Mod(a + b, Wrap)
      /\ Wrap \in Int /\ Wrap > 0 /\ c + d \in Int
  BY SizesLemma DEF Ahead, Mod
<1>2. Ahead(c, d) \in 0 .. Wrap - 1
  BY <1>1, QuotientLemma
<1>3. ASSUME NEW e \in Int PROVE Ahead(Ahead(c, d), e) = Ahead(c, d + e)
  <2>1. c + d \in Int /\ (c + d) + e = c + (d + e)
    OBVIOUS
  <2>2. Mod(Mod(c + d, Wrap) + e, Wrap) = Mod((c + d) + e, Wrap)
    BY <1>1, ModPlus
  <2> QED BY <1>1, <2>1, <2>2
<1>4. c \in Counters => Ahead(c, 0) = c
  BY <1>1, SizesLemma, ModNear DEF Counters
<1> QED BY <1>2, <1>3, <1>4, SizesLemma DEF Counters

\* The signed difference of two counters, and of counters less than half a turn apart.
LEMMA DifferenceLemma ==
    ASSUME NEW a \in Counters, NEW b \in Counters
    PROVE  /\ SubOverflow(a, b) \in Int
           /\ a = Ahead(b, SubOverflow(a, b)) /\ b = Ahead(a, -SubOverflow(a, b))
           /\ \A d \in Int : a = Ahead(b, d) /\ -Half <= d /\ d < Half => SubOverflow(a, b) = d
<1>1. /\ a \in Int /\ b \in Int /\ a >= 0 /\ a < Wrap /\ b >= 0 /\ b < Wrap
      /\ Wrap \in Int /\ Wrap > 0 /\ Half \in Int /\ Wrap = 2 * Half
  BY SizesLemma DEF Counters
<1> DEFINE x == (a - b) + Half
<1>2. x \in Int /\ a - b \in Int
  BY <1>1
<1>3. SubOverflow(a, b) = Mod(x, Wrap) - Half
  BY <1>1 DEF SubOverflow, Mod, Half
<1>4. Mod(x, Wrap) \in 0 .. Wrap - 1 /\ \E q \in Int : x = Wrap * q + Mod(x, Wrap)
  BY <1>1, <1>2, QuotientLemma
<1>5. PICK q \in Int : x = Wrap * q + Mod(x, Wrap)
  BY <1>4
<1> HIDE DEF x
<1> DEFINE s == SubOverflow(a, b)
<1>6. s \in Int /\ s = Mod(x, Wrap) - Half
  BY <1>1, <1>3, <1>4
<1> HIDE DEF s
<1>7. (a - b) - s = Wrap * q
  BY <1>1, <1>2, <1>4, <1>5, <1>6 DEF x
<1>8. a - (b + s) = Wrap * q /\ b - (a + (-s)) = Wrap * (-q) /\ -q \in Int /\ b + s \in Int /\ a + (-s) \in Int
  BY <1>1, <1>6, <1>7
<1>9. Mod(a, Wrap) = Mod(b + s, Wrap)
  BY <1>1, <1>8, CongruenceLemma DEF Multiple
<1>10. Mod(b, Wrap) = Mod(a + (-s), Wrap)
  <2>1. Multiple(b - (a + (-s)), Wrap)
    BY <1>8 DEF Multiple
  <2> QED BY <1>1, <1>8, <2>1, CongruenceLemma
<1>11. Mod(a, Wrap) = a /\ Mod(b, Wrap) = b
  BY <1>1, ModNear
<1>12. a = Ahead(b, s) /\ b = Ahead(a, -s)
  BY <1>9, <1>10, <1>11 DEF Ahead, Mod
<1>13. ASSUME NEW d \in Int, a = Ahead(b, d), -Half <= d, d < Half PROVE s = d
  <2>1. Mod(b + d, Wrap) = Mod(b + s, Wrap)
    BY <1>12, <1>13 DEF Ahead, Mod
  <2>2. (b + d) - (b + s) < Wrap /\ (b + s) - (b + d) < Wrap
    BY <1>1, <1>4, <1>6, <1>13
  <2>3. b + d = b + s
    BY <1>1, <1>8, <2>1, <2>2, ModSame
  <2> QED BY <1>1, <1>6, <2>3
<1> QED BY <1>6, <1>12, <1>13 DEF s

\* The place of a counter in the ring, and its lower bits, depend on the number of
\* frames gone on and not on the turns of the counter.
LEMMA PlaceLemma ==
    ASSUME NEW c \in Int, NEW d \in Int
    PROVE  /\ Slot(Ahead(c, d)) = Mod(c + d, mFrameCountP2)
           /\ Masked(Ahead(c, d)) = Mod(c + d, OverflowBit)
<1>1. Ahead(c, d) = Mod(c + d, Wrap) /\ c + d \in Int
  BY DEF Ahead, Mod
<1>2. ASSUME NEW n \in Int, n > 0, \E k \in Int : k > 0 /\ Wrap = n * k
      PROVE  Mod(Ahead(c, d), n) = Mod(c + d, n)
  <2>1. PICK k \in Int : k > 0 /\ Wrap = n * k
    BY <1>2
  <2>2. Mod(Mod(c + d, n * k), n) = Mod(c + d, n)
    BY <1>1, <1>2, <2>1, ModMod
  <2> QED BY <1>1, <2>1, <2>2
<1>3. Mod(Ahead(c, d), mFrameCountP2) = Mod(c + d, mFrameCountP2)
  BY <1>2, SizesLemma
<1>4. Mod(Ahead(c, d), OverflowBit) = Mod(c + d, OverflowBit)
  BY <1>2, SizesLemma
<1> QED BY <1>3, <1>4 DEF Slot, Masked, Mod

\* Slots of the ring.
LEMMA SlotLemma ==
    ASSUME NEW c \in Counters
    PROVE  /\ Slot(c) \in 0 .. mFrameCountP2 - 1
           /\ \A d \in Int : /\ Slot(Ahead(c, d)) \in 0 .. mFrameCountP2 - 1
                             /\ Slot(c + d) = Slot(Ahead(c, d))
           /\ \A d \in Nat : /\ Slot(c) + d < mFrameCountP2 => Slot(Ahead(c, d)) = Slot(c) + d
                             /\ Slot(c) + d = mFrameCountP2 => Slot(Ahead(c, d)) = 0
           /\ \A d, e \in Int : /\ Slot(Ahead(c, d)) = Slot(Ahead(c, e))
                                /\ d - e < mFrameCountP2 /\ e - d < mFrameCountP2
                                => d = e
<1> DEFINE n == mFrameCountP2
<1>1. n \in Int /\ n > 0 /\ c \in Int
  BY SizesLemma DEF Counters
<1>2. \A x : Slot(x) = Mod(x, n)
  BY DEF Slot, Mod
<1>3. Slot(c) \in 0 .. n - 1
  BY <1>1, <1>2, QuotientLemma
<1>4. \A d \in Int : c + d \in Int /\ Slot(Ahead(c, d)) = Mod(c + d, n)
  BY <1>1, PlaceLemma
<1>5. \A d \in Int : Slot(Ahead(c, d)) \in 0 .. n - 1 /\ Slot(c + d) = Slot(Ahead(c, d))
  BY <1>1, <1>2, <1>4, QuotientLemma
<1> HIDE DEF n
<1>6. ASSUME NEW d \in Nat, Slot(c) + d <= n
      PROVE  /\ Slot(c) + d < n => Slot(Ahead(c, d)) = Slot(c) + d
             /\ Slot(c) + d = n => Slot(Ahead(c, d)) = 0
  <2>1. Mod(Mod(c, n) + d, n) = Mod(c + d, n)
    BY <1>1, ModPlus
  <2>2. Slot(Ahead(c, d)) = Mod(Slot(c) + d, n)
    BY <1>2, <1>4, <2>1
  <2>3. Slot(c) + d \in Int /\ Slot(c) + d >= 0
    BY <1>1, <1>3
  <2>4. /\ Slot(c) + d < n => Mod(Slot(c) + d, n) = Slot(c) + d
        /\ Slot(c) + d = n => Mod(Slot(c) + d, n) = (Slot(c) + d) - n
    BY <1>1, <2>3, ModNear
  <2> QED BY <1>1, <2>2, <2>3, <2>4
<1>7. ASSUME NEW d \in Int, NEW e \in Int, Slot(Ahead(c, d)) = Slot(Ahead(c, e)), d - e < n, e - d < n
      PROVE  d = e
  <2>1. Mod(c + d, n) = Mod(c + e, n) /\ c + d \in Int /\ c + e \in Int
    BY <1>4, <1>7
  <2>2. (c + d) - (c + e) < n /\ (c + e) - (c + d) < n
    BY <1>1, <1>7
  <2>3. c + d = c + e
    BY <1>1, <2>1, <2>2, ModSame
  <2> QED BY <1>1, <2>3
<1>8. \A d \in Nat : Slot(c) + d < n \/ Slot(c) + d = n => Slot(c) + d <= n
  BY <1>1, <1>3
<1> QED BY <1>3, <1>5, <1>6, <1>7, <1>8 DEF n

\* A counter, a flush or a stop: upper bits that are a multiple of the overflow bit, and
\* lower bits.
LEMMA UpperLemma ==
    ASSUME NEW c \in Counters
    PROVE  /\ Masked(c) \in 0 .. OverflowBit - 1
           /\ UpperBits(c) \in Int /\ UpperBits(c) >= 0 /\ UpperBits(c) + OverflowBit <= Wrap
           /\ c = UpperBits(c) + Masked(c)
           /\ \A m \in 0 .. OverflowBit - 1 :
                 /\ UpperBits(c) + m \in Counters
                 /\ UpperBits(UpperBits(c) + m) = UpperBits(c) /\ Masked(UpperBits(c) + m) = m
           /\ \A x \in Counters : UpperBits(x) < UpperBits(c) => UpperBits(x) + OverflowBit <= UpperBits(c)
           /\ UpperBits(c) + OverflowBit < Wrap =>
                 \A m \in 0 .. OverflowBit - 1 :
                    /\ UpperBits(c) + OverflowBit + m \in Counters
                    /\ UpperBits(UpperBits(c) + OverflowBit + m) = UpperBits(c) + OverflowBit
                    /\ Masked(UpperBits(c) + OverflowBit + m) = m
<1> DEFINE n == OverflowBit
<1>1. n \in Int /\ n > 0 /\ \E k \in Int : k > 0 /\ Wrap = n * k
  BY SizesLemma
<1>2. \A x : Masked(x) = Mod(x, n) /\ UpperBits(x) = x - Mod(x, n)
  BY DEF Masked, UpperBits, Mod
<1> HIDE DEF n
<1>3. PICK k \in Int : k > 0 /\ Wrap = n * k
  BY <1>1
<1>4. ASSUME NEW x \in Counters
      PROVE  \E q \in Int : /\ UpperBits(x) = n * q /\ q >= 0 /\ q < k
                            /\ x \in Int /\ Masked(x) \in 0 .. n - 1 /\ x = n * q + Masked(x)
  <2>1. x \in Int /\ x >= 0 /\ x < n * k
    BY <1>3, SizesLemma DEF Counters
  <2>2. Mod(x, n) \in 0 .. n - 1 /\ \E q \in Int : x = n * q + Mod(x, n)
    BY <1>1, <2>1, QuotientLemma
  <2>3. PICK q \in Int : x = n * q + Mod(x, n)
    BY <2>2
  <2>4. n * q \in Int /\ n * q > -n /\ n * q < n * k
    BY <1>1, <2>1, <2>2, <2>3
  <2>5. q >= 0
    BY <1>1, <2>4
  <2>6. q < k
    BY <1>1, <2>4
  <2>7. UpperBits(x) = n * q /\ Masked(x) = Mod(x, n)
    BY <1>1, <1>2, <2>1, <2>2, <2>3, <2>4
  <2>8. /\ UpperBits(x) = n * q /\ q >= 0 /\ q < k
        /\ x \in Int /\ Masked(x) \in 0 .. n - 1 /\ x = n * q + Masked(x)
    BY <2>1, <2>2, <2>3, <2>5, <2>6, <2>7
  <2> QED BY <2>8, Zenon
<1>5. PICK q \in Int : /\ UpperBits(c) = n * q /\ q >= 0 /\ q < k
                       /\ c \in Int /\ Masked(c) \in 0 .. n - 1 /\ c = n * q + Masked(c)
  BY <1>4
<1>6. ASSUME NEW p \in Int, p >= 0, p < k, NEW m \in 0 .. n - 1
      PROVE  n * p + m \in Counters /\ UpperBits(n * p + m) = n * p /\ Masked(n * p + m) = m
  <2>1. n * p \in Int /\ n * p >= 0 /\ m \in Int
    BY <1>1, <1>6
  <2>2. n * p + n <= n * k
    <3>1. n * p + n = n * (p + 1) /\ p + 1 <= k
      BY <1>1, <1>6
    <3>2. n * (p + 1) <= n * k
      BY <1>1, <3>1
    <3> QED BY <3>1, <3>2
  <2>3. n * p + m \in Int /\ n * p + m >= 0 /\ n * p + m < Wrap
    BY <1>1, <1>3, <1>6, <2>1, <2>2
  <2>4. Mod(n * p + m, n) = m
    BY <1>1, <1>6, <2>3, RemainderLemma
  <2> QED BY <1>2, <2>1, <2>3, <2>4, SizesLemma DEF Counters
<1>7. UpperBits(c) \in Int /\ UpperBits(c) >= 0 /\ UpperBits(c) + n <= Wrap
  <2>1. n * q + n = n * (q + 1) /\ q + 1 <= k /\ n * q \in Int /\ n * q >= 0
    BY <1>1, <1>5
  <2>2. n * (q + 1) <= n * k
    BY <1>1, <2>1
  <2> QED BY <1>3, <1>5, <2>1, <2>2
<1>8. ASSUME NEW x \in Counters, UpperBits(x) < UpperBits(c) PROVE UpperBits(x) + n <= UpperBits(c)
  <2>1. PICK p \in Int : UpperBits(x) = n * p
    BY <1>4
  <2>2. p < q
    BY <1>1, <1>5, <1>8, <2>1
  <2>3. n * p + n = n * (p + 1) /\ p + 1 <= q
    BY <1>1, <2>2
  <2>4. n * (p + 1) <= n * q
    BY <1>1, <2>3
  <2> QED BY <1>5, <2>1, <2>3, <2>4
<1>9. ASSUME UpperBits(c) + n < Wrap, NEW m \in 0 .. n - 1
      PROVE  /\ UpperBits(c) + n + m \in Counters
             /\ UpperBits(UpperBits(c) + n + m) = UpperBits(c) + n
             /\ Masked(UpperBits(c) + n + m) = m
  <2>1. n * (q + 1) = UpperBits(c) + n /\ q + 1 \in Int /\ q + 1 >= 0
    BY <1>1, <1>5
  <2>2. q + 1 < k
    BY <1>1, <1>3, <1>9, <2>1
  <2> QED BY <1>6, <2>1, <2>2
<1> QED BY <1>5, <1>6, <1>7, <1>8, <1>9 DEF n

\* The upper bits of a counter over the lower bits of one that is near it.
LEMMA RebaseLemma ==
    ASSUME NEW c \in Counters, NEW d \in Int, -OverflowBit < d, d < OverflowBit,
           NEW r, r = UpperBits(c) + Masked(Ahead(c, d))
    PROVE  /\ r \in Counters
           /\ \/ r = Ahead(c, d)
              \/ d > 0 /\ r = Ahead(c, d - OverflowBit)
              \/ d < 0 /\ r = Ahead(c, d + OverflowBit)
<1> DEFINE n == OverflowBit
           m == Masked(c)
<1>1. n \in Int /\ n > 0 /\ -n < d /\ d < n
  BY SizesLemma
<1>2. /\ c \in Int /\ m \in 0 .. n - 1 /\ UpperBits(c) \in Int /\ c = UpperBits(c) + m
      /\ \A x \in 0 .. n - 1 : UpperBits(c) + x \in Counters
  BY UpperLemma, SizesLemma DEF Counters
<1>3. Masked(Ahead(c, d)) = Mod(c + d, n) /\ m = Mod(c, n)
  BY <1>2, PlaceLemma DEF Masked, Mod
<1> HIDE DEF n, m
<1>4. Masked(Ahead(c, d)) = Mod(m + d, n) /\ Mod(m + d, n) \in 0 .. n - 1
  BY <1>1, <1>2, <1>3, ModPlus, QuotientLemma
<1>5. r \in Counters
  BY <1>2, <1>4 DEF n
<1>6. \A e \in Int : r = c + e => r = Ahead(c, e)
  <2>1. ASSUME NEW e \in Int, r = c + e PROVE r = Ahead(c, e)
    <3>1. Mod(c + e, Wrap) = c + e
      BY <1>2, <1>5, <2>1, SizesLemma, ModNear DEF Counters
    <3> QED BY <2>1, <3>1 DEF Ahead, Mod
  <2> QED BY <2>1
<1>7. CASE 0 <= m + d /\ m + d < n
  <2>1. Mod(m + d, n) = m + d
    BY <1>1, <1>2, <1>7, ModNear
  <2>2. r = c + d
    BY <1>1, <1>2, <1>4, <2>1
  <2> QED BY <1>5, <1>6, <2>2
<1>8. CASE m + d >= n
  <2>1. Mod(m + d, n) = (m + d) - n
    BY <1>1, <1>2, <1>8, ModNear
  <2>2. r = c + (d - n) /\ d - n \in Int /\ d > 0
    BY <1>1, <1>2, <1>4, <1>8, <2>1
  <2> QED BY <1>5, <1>6, <2>2 DEF n
<1>9. CASE m + d < 0
  <2>1. Mod(m + d, n) = (m + d) + n
    BY <1>1, <1>2, <1>9, ModNear
  <2>2. r = c + (d + n) /\ d + n \in Int /\ d < 0
    BY <1>1, <1>2, <1>4, <1>9, <2>1
  <2> QED BY <1>5, <1>6, <2>2 DEF n
<1> QED BY <1>1, <1>2, <1>7, <1>8, <1>9

\* flushBufferIfNeeded() moves mFront to the position that the flush stands for.
LEMMA NewFrontLemma ==
    ASSUME NEW front \in Counters, NEW f \in Counters, NEW fill \in 0 .. mFrameCount,
           NEW d \in 0 .. fill, Masked(f) = Masked(Ahead(front, d))
    PROVE  NewFront(front, Ahead(front, fill), f) = Ahead(front, d)
<1> DEFINE n == OverflowBit
           rebased == UpperBits(front) + Masked(f)
           r == Ahead(front, fill)
<1>1. /\ n \in Int /\ n > 0 /\ mFrameCount \in Int /\ 2 * mFrameCount <= n /\ mFrameCount >= 1
      /\ Half \in Int /\ Half >= 2 * n
  BY SizesLemma
<1>2. d \in Int /\ fill \in Int /\ front \in Int /\ 0 <= d /\ d <= fill /\ fill <= mFrameCount
  BY <1>1, SizesLemma DEF Counters
<1>3. r \in Counters /\ Ahead(front, d) \in Counters
  BY <1>2, AheadLemma
<1>4. ASSUME NEW x \in Counters, NEW e \in Int, x = Ahead(front, e), -n <= e, e <= fill
      PROVE  SubOverflow(r, x) = fill - e
  <2>1. r = Ahead(x, fill - e) /\ fill - e \in Int
    <3>1. Ahead(Ahead(front, e), fill - e) = Ahead(front, e + (fill - e)) /\ e + (fill - e) = fill
      BY <1>2, <1>4, AheadLemma
    <3> QED BY <1>2, <1>4, <3>1
  <2>2. -Half <= fill - e /\ fill - e < Half
    BY <1>1, <1>2, <1>4
  <2> QED BY <1>3, <1>4, <2>1, <2>2, DifferenceLemma
<1>5. SubOverflow(r, Ahead(front, d)) = fill - d
  <2>1. -n <= d /\ d <= fill
    BY <1>1, <1>2
  <2> HIDE DEF n, r
  <2> QED BY <1>2, <1>3, <1>4, <2>1
<1>6. rebased \in Counters /\ (rebased = Ahead(front, d) \/ rebased = Ahead(front, d - n))
  BY <1>1, <1>2, RebaseLemma
<1>7. CASE rebased = Ahead(front, d)
  <2>1. ~(SubOverflow(r, rebased) >= OverflowBit) /\ InRange(SubOverflow(r, rebased))
    BY <1>1, <1>2, <1>5, <1>7 DEF InRange
  <2> QED BY <1>7, <2>1 DEF NewFront
<1>8. CASE rebased = Ahead(front, d - n)
  <2>1. d - n \in Int /\ -n <= d - n /\ d - n <= fill
    BY <1>1, <1>2
  <2>2. SubOverflow(r, rebased) = fill - (d - n)
    BY <1>4, <1>6, <1>8, <2>1
  <2>3. SubOverflow(r, rebased) >= OverflowBit
    BY <1>1, <1>2, <2>2
  <2>4. (rebased + OverflowBit) % Wrap = Ahead(front, d)
    <3>1. Ahead(Ahead(front, d - n), n) = Ahead(front, (d - n) + n) /\ (d - n) + n = d
      BY <1>1, <1>2, <2>1, AheadLemma
    <3> QED BY <1>8, <3>1 DEF Ahead
  <2>5. InRange(SubOverflow(r, Ahead(front, d)))
    BY <1>1, <1>2, <1>5 DEF InRange
  <2> QED BY <2>3, <2>4, <2>5 DEF NewFront
<1> QED BY <1>6, <1>7, <1>8

\* getRear() stops at the position of a stop that is in force, and elsewhere at mRear.
LEMMA GetRearLemma ==
    ASSUME NEW front \in Counters, NEW st \in Counters, NEW last \in Counters,
           NEW e \in 0 .. mFrameCount, NEW d \in 0 .. e,
           st # last => Masked(st) = Masked(Ahead(front, d))
    PROVE  GetRear(st, Ahead(front, e), last, front) = IF st # last THEN Ahead(front, d) ELSE Ahead(front, e)
<1> DEFINE n == OverflowBit
           r == Ahead(front, e)
           rebased == UpperBits(r) + Masked(st)
<1>1. /\ n \in Int /\ n > 0 /\ mFrameCount \in Int /\ 2 * mFrameCount <= n /\ mFrameCount >= 1
      /\ Half \in Int /\ Half >= 2 * n
  BY SizesLemma
<1>2. d \in Int /\ e \in Int /\ front \in Int /\ 0 <= d /\ d <= e /\ e <= mFrameCount /\ d - e \in Int
  BY <1>1, SizesLemma DEF Counters
<1>3. r \in Counters /\ Ahead(front, d) \in Counters
  BY <1>2, AheadLemma
<1>4. \A x \in Int : Ahead(r, x) = Ahead(front, e + x)
  BY <1>2, AheadLemma
<1>5. CASE st # last
  <2>1. SubOverflow(Ahead(front, d), front) = d /\ InRange(d)
    <3>1. -Half <= d /\ d < Half /\ InRange(d)
      BY <1>1, <1>2 DEF InRange
    <3> QED BY <1>2, <1>3, <3>1, DifferenceLemma
  <2>2. Ahead(r, d - e) = Ahead(front, d)
    <3>1. e + (d - e) = d
      BY <1>2
    <3> QED BY <1>2, <1>4, <3>1
  <2>3. rebased \in Counters /\ (rebased = Ahead(front, d) \/ rebased = Ahead(r, (d - e) + n))
    <3>1. -n < d - e /\ d - e < n /\ ~(d - e > 0)
      BY <1>1, <1>2
    <3>2. rebased = UpperBits(r) + Masked(Ahead(r, d - e))
      BY <1>5, <2>2
    <3> QED BY <1>2, <1>3, <2>2, <3>1, <3>2, RebaseLemma
  <2>4. CASE rebased = Ahead(front, d)
    <3>1. ~(SubOverflow(rebased, front) >= OverflowBit) /\ InRange(SubOverflow(rebased, front))
      BY <1>1, <1>2, <2>1, <2>4
    <3> QED BY <1>5, <2>4, <3>1 DEF GetRear
  <2>5. CASE rebased = Ahead(r, (d - e) + n)
    <3>1. e + ((d - e) + n) = d + n /\ d + n \in Int /\ -Half <= d + n /\ d + n < Half /\ (d - e) + n \in Int
      BY <1>1, <1>2
    <3>2. rebased = Ahead(front, d + n)
      BY <1>4, <2>5, <3>1
    <3>3. SubOverflow(rebased, front) = d + n
      BY <2>3, <3>1, <3>2, DifferenceLemma
    <3>4. SubOverflow(rebased, front) >= OverflowBit
      BY <1>1, <1>2, <3>3
    <3>5. (rebased - OverflowBit) % Wrap = Ahead(front, d)
      <4>1. Ahead(Ahead(front, d + n), -n) = Ahead(front, (d + n) + (-n)) /\ (d + n) + (-n) = d /\ -n \in Int
        BY <1>1, <1>2, <3>1, AheadLemma
      <4>2. rebased \in Int
        BY <2>3, SizesLemma DEF Counters
      <4>3. rebased - OverflowBit = rebased + (-n)
        BY <1>1, <4>2
      <4> QED BY <3>2, <4>1, <4>3 DEF Ahead
    <3> QED BY <1>5, <2>1, <3>4, <3>5 DEF GetRear
  <2> QED BY <1>5, <2>3, <2>4, <2>5
<1>6. CASE st = last
  BY <1>6 DEF GetRear
<1> QED BY <1>5, <1>6

\* getRear() never returns a counter out of range, unless mRear itself is.
LEMMA GetRearInRangeLemma ==
    ASSUME NEW st, NEW r, NEW last, NEW front, InRange(SubOverflow(r, front))
    PROVE  InRange(SubOverflow(GetRear(st, r, last, front), front))
BY DEF GetRear

\* The value that a stop or flush stores: a new one, while the counter in the upper bits
\* has room, and at the place of mRear.
LEMMA SignalLemma ==
    ASSUME NEW x \in Counters, mRear \in Counters, UpperBits(x) + OverflowBit < Wrap
    PROVE  /\ Signal(x) \in Counters /\ UpperBits(Signal(x)) = UpperBits(x) + OverflowBit
           /\ Masked(Signal(x)) = Masked(mRear)
<1> DEFINE n == OverflowBit
           m == Masked(mRear)
<1>1. n \in Int /\ n > 0 /\ m \in 0 .. n - 1 /\ UpperBits(x) \in Int /\ UpperBits(x) >= 0
  BY SizesLemma, UpperLemma
<1>2. Mod(UpperBits(x) + n, Wrap) = UpperBits(x) + n
  BY <1>1, SizesLemma, ModNear
<1>3. Signal(x) = UpperBits(x) + n + m
  BY <1>2 DEF Signal, Mod
<1> QED BY <1>3, UpperLemma

\* The bound on the signals keeps the counter in the upper bits from its wrap.
LEMMA RoomLemma ==
    ASSUME NEW x \in Counters, x \div OverflowBit < MaxSignals
    PROVE  UpperBits(x) + OverflowBit < Wrap
<1> DEFINE n == OverflowBit
<1>1. n \in Int /\ n > 0 /\ x \in Int /\ \E k \in Int : k > 0 /\ Wrap = n * k
  BY SizesLemma DEF Counters
<1>2. MaxSignals \in Int /\ MaxSignals <= (Wrap \div n) - 1
  <2>1. MaxSignals \in 0 .. (Wrap \div n) - 1
    BY BoundsAssumption DEF OverflowBit
  <2>2. Wrap \div n \in Int
    BY <1>1, SizesLemma
  <2> QED BY <2>1, <2>2
<1>3. UpperBits(x) = x - (x % n)
  BY Zenon DEF UpperBits, Masked, n
<1> HIDE DEF n
<1>4. PICK k \in Int : k > 0 /\ Wrap = n * k
  BY <1>1
<1> DEFINE q == x \div n
<1>5. x = n * q + (x % n) /\ q \in Int /\ x % n \in Int
  BY <1>1, DivLemma, Zenon
<1>6. UpperBits(x) = n * q
  BY <1>1, <1>3, <1>5
<1>7. Wrap \div n = k
  <2>1. Mod(Wrap, n) = 0
    BY <1>1, <1>4, RemainderLemma
  <2>2. Wrap = n * (Wrap \div n) + (Wrap % n) /\ Wrap \div n \in Int
    <3>1. Wrap \in Int
      BY SizesLemma
    <3> QED BY <1>1, <3>1, DivLemma, Zenon
  <2>3. n * (Wrap \div n) = n * k
    BY <1>1, <1>4, <2>1, <2>2 DEF Mod
  <2> QED BY <1>1, <2>2, <2>3
<1>8. q < MaxSignals
  BY DEF n
<1> HIDE DEF q
<1>9. q + 1 < k
  BY <1>2, <1>4, <1>5, <1>7, <1>8
<1>10. n * (q + 1) < n * k /\ n * (q + 1) = n * q + n
  BY <1>1, <1>5, <1>9
<1> QED BY <1>4, <1>6, <1>10 DEF n

-----------------------------------------------------------------------------
(* Least and greatest elements.                                            *)

\* The greatest element.
LEMMA MaxLemma ==
    ASSUME NEW S, NEW m \in S, S \subseteq Int, \A x \in S : x <= m
    PROVE  Max(S) = m
<1>1. \A y \in S : (\A x \in S : y >= x) => y = m
  BY SMT
<1>2. \A x \in S : m >= x
  BY SMT
<1> QED BY <1>1, <1>2 DEF Max

\* The least element.
LEMMA MinLemma ==
    ASSUME NEW S, NEW m \in S, S \subseteq Int, \A x \in S : m <= x
    PROVE  Min(S) = m
<1>1. \A y \in S : (\A x \in S : y <= x) => y = m
  BY SMT
<1> QED BY <1>1 DEF Min

\* A contiguous part is in what there is, and in what is left to the end of the buffer.
LEMMA PartLemma ==
    ASSUME NEW c \in Counters, NEW avail \in Nat, NEW ask \in Nat \ {0}
    PROVE  /\ Part1(c, avail, ask) \in 0 .. avail
           /\ Slot(c) + Part1(c, avail, ask) <= mFrameCountP2
<1> DEFINE a == mFrameCountP2 - Slot(c)
           S == {a, avail, ask}
<1>1. a \in Int /\ a >= 1 /\ Slot(c) \in Int /\ mFrameCountP2 \in Int
  BY SlotLemma, SizesLemma
<1>2. \E m \in S : \A x \in S : m <= x
  <2>1. CASE a <= avail /\ a <= ask
    BY <1>1, <2>1
  <2>2. CASE avail <= a /\ avail <= ask
    BY <1>1, <2>2
  <2>3. CASE ask <= a /\ ask <= avail
    BY <1>1, <2>3
  <2> QED BY <1>1, <2>1, <2>2, <2>3
<1>3. PICK m \in S : \A x \in S : m <= x
  BY <1>2
<1>4. Part1(c, avail, ask) = m
  <2>1. S \subseteq Int
    BY <1>1
  <2>2. Part1(c, avail, ask) = Min(S)
    BY DEF Part1
  <2> HIDE DEF S
  <2> QED BY <1>3, <2>1, <2>2, MinLemma
<1>5. m \in Int /\ m >= 0 /\ m <= avail /\ m <= a
  BY <1>1, <1>3
<1> QED BY <1>1, <1>4, <1>5

\* The client writes up to the size that the application has set.
LEMMA AvailLemma ==
    ASSUME mBufferSizeInFrames \in 1 .. mFrameCount, NEW fill \in 0 .. mFrameCount
    PROVE  ClientAvail(fill) \in 0 .. mFrameCount - fill
<1> DEFINE b == mBufferSizeInFrames - fill
           S == {0, b}
<1>1. b \in Int /\ b <= mFrameCount - fill /\ mFrameCount - fill \in Nat
  BY SizesLemma
<1> HIDE DEF b
<1>2. CASE b <= 0
  <2>1. Max(S) = 0
    BY <1>1, <1>2, MaxLemma
  <2> QED BY <1>1, <2>1 DEF ClientAvail, b
<1>3. CASE b > 0
  <2>1. Max(S) = b
    BY <1>1, <1>3, MaxLemma
  <2>2. ClientAvail(fill) = b
    BY <2>1 DEF ClientAvail, b
  <2> QED BY <1>1, <1>3, <2>2
<1> QED BY <1>1, <1>2, <1>3

\* The clipped size is a size of the buffer.
LEMMA ClippedLemma ==
    ASSUME NEW size \in 1 .. mFrameCount + 1
    PROVE  ClippedSize(size) \in 1 .. mFrameCount
<1>1. mFrameCount \in Int /\ mFrameCount >= 1 /\ MinimumSize \in Int /\ MinimumSize >= 1
  BY SizesLemma, SizesAssumption
<1>2. Min({size, mFrameCount}) \in 1 .. mFrameCount
  <2>1. CASE size <= mFrameCount
    <3>1. Min({size, mFrameCount}) = size
      BY <1>1, <2>1, MinLemma
    <3> QED BY <1>1, <2>1, <3>1
  <2>2. CASE size > mFrameCount
    <3>1. Min({size, mFrameCount}) = mFrameCount
      BY <1>1, <2>2, MinLemma
    <3> QED BY <1>1, <3>1
  <2> QED BY <1>1, <2>1, <2>2
<1> DEFINE m == Min({size, mFrameCount})
<1>3. m \in 1 .. mFrameCount
  BY <1>2
<1> HIDE DEF m
<1>4. CASE mFrameCount < MinimumSize
  BY <1>1, <1>4 DEF ClippedSize
<1>5. CASE MinimumSize <= mFrameCount
  <2>1. Max({MinimumSize, m}) \in {MinimumSize, m}
    <3>1. CASE m <= MinimumSize
      <4>1. Max({MinimumSize, m}) = MinimumSize
        BY <1>1, <1>3, <3>1, MaxLemma
      <4> QED BY <4>1
    <3>2. CASE m > MinimumSize
      <4>1. Max({MinimumSize, m}) = m
        BY <1>1, <1>3, <3>2, MaxLemma
      <4> QED BY <4>1
    <3> QED BY <1>1, <1>3, <3>1, <3>2
  <2>2. ClippedSize(size) \in {MinimumSize, m}
    BY <1>1, <1>5, <2>1 DEF ClippedSize, m
  <2> QED BY <1>1, <1>3, <1>5, <2>2
<1> QED BY <1>1, <1>4, <1>5

-----------------------------------------------------------------------------
(* Positions.                                                              *)

\* The end of the ring that is fill frames before the other.
LEMMA FillLemma ==
    ASSUME NEW r \in Counters, NEW w \in Int, NEW p \in Int, p <= w, w - p <= mFrameCount
    PROVE  SubOverflow(r, Ahead(r, p - w)) = w - p
<1> DEFINE d == p - w
           e == w - p
<1>1. r \in Int /\ d \in Int /\ e \in Int /\ d + e = 0
  BY SizesLemma DEF Counters
<1>2. -Half <= e /\ e < Half
  BY SizesLemma
<1> HIDE DEF d, e
<1>3. Ahead(r, d) \in Counters /\ Ahead(Ahead(r, d), e) = Ahead(r, d + e) /\ Ahead(r, 0) = r
  BY <1>1, AheadLemma
<1>4. r = Ahead(Ahead(r, d), e)
  BY <1>1, <1>3
<1>5. SubOverflow(r, Ahead(r, d)) = e
  BY <1>1, <1>2, <1>3, <1>4, DifferenceLemma, Zenon
<1> QED BY <1>5 DEF d, e

\* The counters at positions are counters, as far apart as the positions.
LEMMA CounterLemma ==
    ASSUME mRear \in Counters, written \in Int, NEW p \in Int
    PROVE  Counter(p) \in Counters /\ \A e \in Int : Ahead(Counter(p), e) = Counter(p + e)
<1> DEFINE d == p - written
<1>1. d \in Int /\ \A e \in Int : d + e = (p + e) - written
  OBVIOUS
<1>2. Counter(p) = Ahead(mRear, d) /\ \A e \in Int : Counter(p + e) = Ahead(mRear, d + e)
  BY <1>1 DEF Counter
<1>3. mRear \in Int
  BY SizesLemma DEF Counters
<1> HIDE DEF d
<1>4. Ahead(mRear, d) \in Counters /\ \A e \in Int : Ahead(Ahead(mRear, d), e) = Ahead(mRear, d + e)
  BY <1>1, <1>3, AheadLemma
<1> QED BY <1>2, <1>4

\* The positions in a state of the invariant.
Located ==
    /\ mFrameCount \in Int /\ MaxFrames \in Int /\ NoLimit \in Int /\ NoLimit = MaxFrames + 1
    /\ written \in Int /\ written <= MaxFrames
    /\ read \in Int /\ 0 <= read /\ read <= written
    /\ filled = written - read /\ written - read <= mFrameCount - cUnreleased
    /\ written - read <= mFrameCount
    /\ cUnreleased \in Int /\ 0 <= cUnreleased
    /\ playing \in Int /\ 0 <= playing /\ read + playing <= written
    /\ lastFlush \in Int /\ lastFlush <= written /\ flushSeen \in Int /\ flushSeen <= lastFlush
    /\ limit \in Int /\ limitSeen \in Int
    /\ mFront = Counter(read) /\ mRear = Counter(written)

\* The counters at the ends of the ring.
LEMMA LocatedLemma ==
    ASSUME Sound PROVE Located
<1>1. /\ mFrameCount \in Int /\ MaxFrames \in Int /\ NoLimit \in Int /\ NoLimit = MaxFrames + 1
      /\ mFrameCountP2 \in Int
  BY SizesLemma, BoundsAssumption DEF NoLimit
<1>2. /\ mFront \in Counters /\ mRear \in Counters /\ written \in Int /\ written <= MaxFrames
      /\ cUnreleased \in Int /\ 0 <= cUnreleased /\ sUnreleased \in Int /\ 0 <= sUnreleased
      /\ limit \in Int /\ limitSeen \in Int /\ flushSeen \in Int /\ flushes \subseteq Int
  BY <1>1 DEF Sound, TypeOK, Positions
<1>3. /\ filled \in 0 .. mFrameCount - cUnreleased /\ filled <= written /\ playing <= filled
      /\ lastFlush \in flushes /\ lastFlush <= written /\ flushSeen <= lastFlush
  BY DEF Sound, Ring, Flushes
<1>4. filled \in Int /\ 0 <= filled /\ filled <= mFrameCount - cUnreleased
  BY <1>1, <1>2, <1>3
<1>5. read = written - filled
  BY DEF read, filled
<1>6. playing \in Int /\ 0 <= playing
  BY <1>2 DEF playing
<1>7. mRear \in Int
  BY <1>2, SizesLemma DEF Counters
<1>8. mFront = Counter(read)
  <2>1. mFront = Ahead(mRear, -filled) /\ read - written = -filled
    BY <1>2, <1>4, <1>5, DifferenceLemma DEF filled
  <2> QED BY <2>1 DEF Counter
<1>9. mRear = Counter(written)
  <2>1. written - written = 0
    BY <1>2
  <2> QED BY <1>2, <1>7, <2>1, AheadLemma DEF Counter
<1>10. /\ read \in Int /\ 0 <= read /\ read <= written /\ filled = written - read
       /\ written - read <= mFrameCount - cUnreleased /\ written - read <= mFrameCount
       /\ read + playing <= written
  BY <1>1, <1>2, <1>3, <1>4, <1>5, <1>6
<1> QED BY <1>1, <1>2, <1>3, <1>6, <1>8, <1>9, <1>10 DEF Located

\* Nothing is written, and the mixer goes on to a position p.
LEMMA FrontLemma ==
    ASSUME Sound, UNCHANGED <<mRear, buffer, written, cUnreleased>>,
           NEW p \in Int, read <= p, p <= written, mFront' = Counter(p)
    PROVE  /\ read' = p /\ \A x \in Int : Counter(x)' = Counter(x)
           /\ playing' <= written - p => Ring'
<1>0. Located
  BY LocatedLemma
<1>1. mRear \in Counters
  BY DEF Sound, TypeOK
<1>2. \A x : Counter(x)' = Counter(x)
  BY DEF Counter
<1>3. SubOverflow(mRear, Counter(p)) = written - p
  <2>1. written - p <= mFrameCount /\ written \in Int
    BY <1>0 DEF Located
  <2> QED BY <1>1, <2>1, FillLemma DEF Counter
<1>4. filled' = written - p
  BY <1>3 DEF filled
<1>5. read' = p
  <2>1. read' = written - filled'
    BY DEF read, filled
  <2> QED BY <1>0, <1>4, <2>1 DEF Located
<1>6. ASSUME playing' <= written - p PROVE Ring'
  <2>1. filled' \in 0 .. mFrameCount - cUnreleased /\ filled' <= written
    BY <1>0, <1>4 DEF Located
  <2>2. Slot(mRear) + cUnreleased <= mFrameCountP2 /\ written + cUnreleased <= MaxFrames
    BY DEF Sound, Ring
  <2>3. \A x \in p .. written - 1 : buffer[Slot(Counter(x))] = x
    BY <1>0 DEF Sound, Ring, Located
  <2> QED BY <1>2, <1>4, <1>5, <1>6, <2>1, <2>2, <2>3 DEF Ring
<1> QED BY <1>2, <1>5, <1>6

\* Nothing is written or read.
LEMMA StillLemma ==
    ASSUME Sound, UNCHANGED <<mFront, mRear, buffer, written, cUnreleased>>
    PROVE  /\ read' = read /\ \A x \in Int : Counter(x)' = Counter(x)
           /\ playing' <= written - read => Ring'
<1>1. read \in Int /\ read <= read /\ read <= written /\ mFront' = Counter(read)
  BY LocatedLemma DEF Located
<1> QED BY <1>1, FrontLemma

\* flushBufferIfNeeded(), for a flush at the position p.
LEMMA FlushLemma ==
    ASSUME Sound, NEW f \in Counters, NEW p \in Int, read <= p, p <= written,
           Masked(f) = Masked(Counter(p))
    PROVE  NewFront(mFront, mRear, f) = Counter(p) /\ Counter(p) \in Counters
<1> DEFINE fill == written - read
           d == p - read
<1>1. Located
  BY LocatedLemma
<1>2. mFront \in Counters /\ mRear \in Counters /\ written \in Int /\ read \in Int
  BY <1>1 DEF Sound, TypeOK, Located
<1>3. fill \in 0 .. mFrameCount /\ d \in 0 .. fill /\ read + fill = written /\ read + d = p
  BY <1>1 DEF Located
<1>4. fill \in Int /\ d \in Int
  BY <1>2
<1> HIDE DEF fill, d
<1>5. Ahead(Counter(read), fill) = Counter(written) /\ Ahead(Counter(read), d) = Counter(p)
  BY <1>2, <1>3, <1>4, CounterLemma
<1>6. Ahead(mFront, fill) = mRear /\ Ahead(mFront, d) = Counter(p)
  BY <1>1, <1>5 DEF Located
<1> QED BY <1>2, <1>3, <1>6, NewFrontLemma, CounterLemma

\* getRear(), for a stop at the position g and mRear at the position e.
LEMMA RearLemma ==
    ASSUME Sound, NEW st \in Counters, NEW last \in Counters, NEW e \in Int, NEW g \in Int,
           read <= g, g <= e, e <= written,
           st # last => Masked(st) = Masked(Counter(g)), st = last => g = e
    PROVE  SubOverflow(GetRear(st, Counter(e), last, mFront), mFront) = g - read
<1> DEFINE x == e - read
           d == g - read
<1>1. Located
  BY LocatedLemma
<1>2. mFront \in Counters /\ mRear \in Counters /\ written \in Int /\ read \in Int
  BY <1>1 DEF Sound, TypeOK, Located
<1>3. x \in 0 .. mFrameCount /\ d \in 0 .. x /\ read + x = e /\ read + d = g
  BY <1>1 DEF Located
<1>4. x \in Int /\ d \in Int /\ -Half <= d /\ d < Half /\ (st = last => d = x)
  BY <1>1, SizesLemma DEF Located
<1> HIDE DEF x, d
<1>5. Ahead(Counter(read), x) = Counter(e) /\ Ahead(Counter(read), d) = Counter(g)
  BY <1>2, <1>3, <1>4, CounterLemma
<1>6. Ahead(mFront, x) = Counter(e) /\ Ahead(mFront, d) = Counter(g) /\ Counter(g) \in Counters
  BY <1>1, <1>2, <1>5, CounterLemma DEF Located
<1>7. GetRear(st, Counter(e), last, mFront) = Ahead(mFront, d)
  BY <1>2, <1>3, <1>4, <1>6, GetRearLemma
<1>8. SubOverflow(Counter(g), mFront) = d
  BY <1>2, <1>4, <1>6, DifferenceLemma, ZenonT(30)
<1> QED BY <1>6, <1>7, <1>8 DEF d

\* A step of the abstract queue of frames.
FifoStep == [Fifo!FifoNext]_<<written, read, playing, flushes>>

\* Nothing that the queue tells apart changes.
LEMMA FifoStillLemma ==
    ASSUME UNCHANGED <<written, read, playing, flushes>> PROVE FifoStep
BY DEF FifoStep

\* The read position moves to a flush, or is there already.
LEMMA FifoDiscardLemma ==
    ASSUME UNCHANGED <<written, playing, flushes>>, playing = 0, read \in Int, NEW f \in flushes,
           f \in Int, read <= f, read' = f
    PROVE  FifoStep
<1>1. CASE f = read
  BY <1>1 DEF FifoStep
<1>2. CASE f > read
  <2>1. Fifo!Discard
    BY <1>2 DEF Fifo!Discard
  <2> QED BY <2>1 DEF FifoStep, Fifo!FifoNext
<1> QED BY <1>1, <1>2

\* Frames of the ring are handed out, or given back.
LEMMA FifoObtainLemma ==
    ASSUME UNCHANGED <<written, read, flushes>>, playing' \in 0 .. written - read
    PROVE  FifoStep
<1>1. Fifo!Obtain
  BY DEF Fifo!Obtain
<1> QED BY <1>1 DEF FifoStep, Fifo!FifoNext

-----------------------------------------------------------------------------
(* The mixer thread.                                                       *)

\* The load of mFlush: what is seen is the last flush.
LEMMA SLoadFlushLemma ==
    ASSUME Sound, SLoadFlush PROVE Sound' /\ FifoStep
<1>0. Located
  BY LocatedLemma
<1>1. TypeOK'
  <2>1. Max(flushes) \in Positions
    BY DEF Sound, TypeOK, Flushes, lastFlush
  <2> QED BY <2>1 DEF Sound, TypeOK, SLoadFlush, cblkVars, clientVars
<1>2. NeverShutDown'
  BY DEF Sound, NeverShutDown, SLoadFlush, clientVars
<1>3. UNCHANGED <<mFront, mRear, buffer, written, cUnreleased>>
  BY DEF SLoadFlush, cblkVars, clientVars
<1>4. playing = 0 /\ playing' = 0
  BY DEF SLoadFlush, playing
<1>5. read' = read /\ (\A x \in Int : Counter(x)' = Counter(x)) /\ Ring'
  BY <1>0, <1>3, <1>4, StillLemma DEF Located
<1>6. UNCHANGED <<lastFlush, flushes>> /\ flushSeen' = lastFlush
  BY DEF SLoadFlush, lastFlush
<1>7. Flushes'
  <2>1. /\ spc' \in {"stop", "idle", "flush"} /\ flush' = mFlush
        /\ spc' = "stop" => mFlush = sFlush
        /\ spc' = "flush" => mFlush # sFlush
        /\ UNCHANGED <<mFlush, sFlush, written>>
    BY DEF SLoadFlush, cblkVars
  <2> QED BY <1>0, <1>4, <1>5, <1>6, <2>1 DEF Sound, Flushes, Located, Obtaining
<1>8. Stops'
  BY <1>0, <1>4, <1>5, <1>6 DEF Sound, Stops, StopHolds, Located, SLoadFlush, cblkVars, clientVars
<1>9. Loads'
  <2>1. spc' \in {"stop", "idle", "flush"} /\ active
    BY DEF SLoadFlush
  <2> QED BY <2>1 DEF Loads, SLoadFlush
<1>10. FifoStep
  <2>1. UNCHANGED <<written, read, playing, flushes>>
    BY <1>3, <1>4, <1>5, <1>6
  <2> QED BY <2>1, FifoStillLemma
<1> QED BY <1>1, <1>2, <1>5, <1>7, <1>8, <1>9, <1>10 DEF Sound

\* The flush that was loaded is acknowledged: mFront goes to its position, which no later
\* flush can have passed.
LEMMA SFlushBufferLemma ==
    ASSUME Sound, SFlushBuffer PROVE Sound' /\ FifoStep
<1>0. Located
  BY LocatedLemma
<1>1. /\ UNCHANGED <<mRear, buffer, written, cUnreleased>>
      /\ UNCHANGED <<lastFlush, flushes, flushSeen, NoLimit>>
  BY DEF SFlushBuffer, clientVars, historyVars, lastFlush, NoLimit
<1>2. /\ Masked(flush) = Masked(Counter(flushSeen)) /\ read <= flushSeen
      /\ mFront \in Counters /\ flush \in Counters
  BY DEF Sound, TypeOK, Flushes, SFlushBuffer
<1>3. mFront' = Counter(flushSeen) /\ mFront' \in Counters
  <2>1. flushSeen \in Int /\ flushSeen <= written
    BY <1>0 DEF Located
  <2>2. NewFront(mFront, mRear, flush) = Counter(flushSeen) /\ Counter(flushSeen) \in Counters
    BY <1>2, <2>1, FlushLemma
  <2> QED BY <2>2 DEF SFlushBuffer
<1>4. playing' = 0
  BY DEF SFlushBuffer, playing
<1>5. read' = flushSeen /\ (\A x \in Int : Counter(x)' = Counter(x)) /\ Ring'
  <2>1. flushSeen \in Int /\ flushSeen <= written /\ playing' <= written - flushSeen
    BY <1>0, <1>4 DEF Located
  <2> QED BY <1>1, <1>2, <1>3, <2>1, FrontLemma
<1>6. TypeOK'
  BY <1>3 DEF Sound, TypeOK, SFlushBuffer, clientVars, historyVars
<1>7. NeverShutDown'
  BY DEF Sound, NeverShutDown, SFlushBuffer, clientVars
<1>8. Flushes'
  <2>1. /\ spc = "flush" /\ spc' = "stop" /\ sFlush' = flush
        /\ UNCHANGED <<mFlush, flush, written, onlyReady>>
    BY DEF SFlushBuffer, historyVars
  <2>2. UpperBits(mFlush) \in Int /\ UpperBits(flush) \in Int /\ UpperBits(sFlush) \in Int
    BY UpperLemma DEF Sound, TypeOK
  <2> QED BY <1>0, <1>1, <1>4, <1>5, <2>1, <2>2 DEF Sound, Flushes, Located, Obtaining
<1>9. Stops'
  <2>1. spc' = "stop" /\ UNCHANGED <<mFlush, mStop, mStopLast, limit, limitSeen, cpc, written>>
    BY DEF SFlushBuffer, clientVars, historyVars
  <2> QED BY <1>0, <1>1, <1>4, <1>5, <2>1 DEF Sound, Stops, StopHolds, Located
<1>10. Loads'
  BY DEF Sound, Loads, SFlushBuffer
<1>11. FifoStep
  <2>1. playing = 0 /\ flushSeen \in flushes
    BY DEF SFlushBuffer, playing, Sound, Flushes
  <2> QED BY <1>0, <1>1, <1>2, <1>4, <1>5, <2>1, FifoDiscardLemma DEF Located
<1> QED BY <1>5, <1>6, <1>7, <1>8, <1>9, <1>10, <1>11 DEF Sound

\* The load of mStop.
LEMMA SLoadStopLemma ==
    ASSUME Sound, SLoadStop PROVE Sound' /\ FifoStep
<1>0. Located
  BY LocatedLemma
<1>1. TypeOK'
  BY DEF Sound, TypeOK, SLoadStop, cblkVars, clientVars, historyVars
<1>2. NeverShutDown'
  BY DEF Sound, NeverShutDown, SLoadStop, clientVars
<1>3. /\ UNCHANGED <<mFront, mRear, buffer, written, cUnreleased>>
      /\ UNCHANGED <<lastFlush, flushes, flushSeen, NoLimit>>
  BY DEF SLoadStop, cblkVars, clientVars, historyVars, lastFlush, NoLimit
<1>4. playing = 0 /\ playing' = 0
  BY DEF SLoadStop, playing
<1>5. read' = read /\ (\A x \in Int : Counter(x)' = Counter(x)) /\ Ring'
  BY <1>0, <1>3, <1>4, StillLemma DEF Located
<1>6. Flushes'
  BY <1>0, <1>3, <1>4, <1>5 DEF Sound, Flushes, Located, Obtaining, SLoadStop, cblkVars
<1>7. Stops'
  BY <1>0, <1>3, <1>4, <1>5
  DEF Sound, Stops, StopHolds, Located, SLoadStop, cblkVars, clientVars, historyVars
<1>8. Loads'
  <2>1. /\ spc = "stop" /\ spc' = "rear" /\ stop' = mStop
        /\ UNCHANGED <<active, mStop, mFlush, flush, onlyReady, limit>>
    BY DEF SLoadStop, cblkVars, historyVars
  <2>2. ~onlyReady => (flush # mFlush => written <= lastFlush) /\ (limit # NoLimit => limit <= written)
    BY <1>0, <2>1 DEF Sound, Flushes, Stops, Located
  <2>3. ~onlyReady => Loaded(written)'
    BY <1>3, <2>1, <2>2 DEF Loaded
  <2> QED BY <2>1, <2>3 DEF Sound, Loads
<1>9. FifoStep
  <2>1. UNCHANGED <<written, read, playing, flushes>>
    BY <1>3, <1>4, <1>5
  <2> QED BY <2>1, FifoStillLemma
<1> QED BY <1>1, <1>2, <1>5, <1>6, <1>7, <1>8, <1>9 DEF Sound

\* The load of mRear, at or after the position of the stop.
LEMMA SLoadRearLemma ==
    ASSUME Sound, SLoadRear PROVE Sound' /\ FifoStep
<1>0. Located
  BY LocatedLemma
<1>1. TypeOK'
  BY DEF Sound, TypeOK, SLoadRear, cblkVars, clientVars, historyVars
<1>2. NeverShutDown'
  BY DEF Sound, NeverShutDown, SLoadRear, clientVars
<1>3. /\ UNCHANGED <<mFront, mRear, buffer, written, cUnreleased>>
      /\ UNCHANGED <<lastFlush, flushes, flushSeen, NoLimit>>
  BY DEF SLoadRear, cblkVars, clientVars, historyVars, lastFlush, NoLimit
<1>4. playing = 0 /\ playing' = 0
  BY DEF SLoadRear, playing
<1>5. read' = read /\ (\A x \in Int : Counter(x)' = Counter(x)) /\ Ring'
  BY <1>0, <1>3, <1>4, StillLemma DEF Located
<1>6. Flushes'
  BY <1>0, <1>3, <1>4, <1>5 DEF Sound, Flushes, Located, Obtaining, SLoadRear, cblkVars
<1>7. Stops'
  BY <1>0, <1>3, <1>4, <1>5
  DEF Sound, Stops, StopHolds, Located, SLoadRear, cblkVars, clientVars, historyVars
<1>8. Loads'
  <2>1. /\ spc = "rear" /\ spc' = "last" /\ rear' = mRear
        /\ UNCHANGED <<active, stop, mStop, mStopLast, mFlush, flush, onlyReady, limit, limitSeen>>
    BY DEF SLoadRear, cblkVars, historyVars
  <2>2. onlyReady \/ Loaded(written)
    BY <2>1 DEF Sound, Loads
  <2>3. \A q \in read .. written : q \in Int
    BY <1>0 DEF Located
  <2>4. onlyReady' \/ Loaded(written)'
    BY <1>3, <1>5, <2>1, <2>2, <2>3 DEF Loaded
  <2>5. written \in read .. written /\ rear' = Counter(written)'
    <3>1. Counter(written)' = Ahead(mRear, written - written) /\ Counter(written) = Ahead(mRear, written - written)
      BY <1>3 DEF Counter
    <3> QED BY <1>0, <2>1, <3>1 DEF Located
  <2> QED BY <1>3, <1>5, <2>1, <2>4, <2>5 DEF Sound, Loads
<1>9. FifoStep
  <2>1. UNCHANGED <<written, read, playing, flushes>>
    BY <1>3, <1>4, <1>5
  <2> QED BY <2>1, FifoStillLemma
<1> QED BY <1>1, <1>2, <1>5, <1>6, <1>7, <1>8, <1>9 DEF Sound

\* The chunk that is handed out ends at the stop that was loaded or at the rear that was
\* loaded, and no later stop is before either.
LEMMA SObtainLemma ==
    ASSUME Sound, NEW ask \in 1 .. mFrameCount, SObtain(ask) PROVE Sound' /\ FifoStep
<1>0. Located
  BY LocatedLemma
<1>1. /\ spc = "last" /\ UNCHANGED <<mFront, mRear, buffer, written, cUnreleased>>
      /\ UNCHANGED <<mFlush, mStop, mStopLast, sFlush, limit, limitSeen, cpc, active, cShutdown>>
      /\ UNCHANGED <<lastFlush, flushes, flushSeen, NoLimit>>
  BY DEF SObtain, cblkVars, clientVars, historyVars, lastFlush, NoLimit
<1>2. /\ stop \in Counters /\ mStopLast \in Counters /\ mStop \in Counters /\ mFront \in Counters
      /\ ask \in Nat \ {0} /\ sUnreleased \in 0 .. mFrameCount
      /\ UpperBits(mStop) \in Int /\ UpperBits(mStopLast) \in Int
  <2>1. /\ stop \in Counters /\ mStopLast \in Counters /\ mStop \in Counters /\ mFront \in Counters
        /\ sUnreleased \in 0 .. mFrameCount
    BY DEF Sound, TypeOK
  <2>2. ask \in Nat \ {0}
    BY SizesLemma
  <2> QED BY <2>1, <2>2, UpperLemma
<1>3. PICK e \in read .. written : rear = Counter(e) /\ (onlyReady \/ Loaded(e))
  BY <1>1 DEF Sound, Loads
<1>4. e \in Int /\ read <= e /\ e <= written
  BY <1>0, <1>3 DEF Located
<1> DEFINE got == SubOverflow(GetRear(stop, rear, mStopLast, mFront), mFront)
\* What getRear() returns is in range, and for obtainBuffer() the counter at a position
\* that the limits allow.
<1>5. InRange(got)
  <2>1. SubOverflow(Counter(e), mFront) = e - read
    <3>1. GetRear(mStopLast, Counter(e), mStopLast, mFront) = Counter(e)
      BY DEF GetRear
    <3>2. SubOverflow(GetRear(mStopLast, Counter(e), mStopLast, mFront), mFront) = e - read
      BY <1>0, <1>2, <1>4, RearLemma DEF Located
    <3> QED BY <3>1, <3>2
  <2>2. InRange(e - read)
    BY <1>0, <1>4 DEF InRange, Located
  <2> QED BY <1>3, <2>1, <2>2, GetRearInRangeLemma
<1>6. ASSUME ~onlyReady
      PROVE  \E g \in Int : /\ read <= g /\ g <= written /\ g <= limitSeen
                            /\ limit # NoLimit => g <= limit
                            /\ flush # mFlush => g <= lastFlush
                            /\ got = g - read
  <2>1. Loaded(e)
    BY <1>3, <1>6
  <2>2. (limitSeen = NoLimit \/ limitSeen = limit) /\ (flush # mFlush => e <= lastFlush)
    BY <2>1 DEF Sound, Stops, Loaded
  <2>4. CASE stop = mStop /\ limit = NoLimit
    <3>1. stop = mStopLast
      BY <2>4 DEF Sound, Stops
    <3>2. got = e - read
      BY <1>0, <1>2, <1>3, <1>4, <3>1, RearLemma DEF Located
    <3> QED BY <1>0, <1>4, <2>2, <2>4, <3>2 DEF Located
  <2>5. CASE stop = mStop /\ limit # NoLimit
    <3>1. /\ UpperBits(mStopLast) < UpperBits(mStop) /\ Masked(mStop) = Masked(Counter(limit))
          /\ read + playing <= limit /\ limit <= written
      BY <2>5 DEF Sound, Stops
    <3>2. stop # mStopLast
      BY <1>2, <2>5, <3>1
    <3>3. limit \in Int /\ read <= limit /\ limit <= e
      BY <1>0, <2>1, <2>5, <3>1 DEF Located, Loaded
    <3>4. got = limit - read
      BY <1>2, <1>3, <1>4, <2>5, <3>1, <3>2, <3>3, RearLemma
    <3> QED BY <1>0, <1>4, <2>2, <3>1, <3>3, <3>4 DEF Located
  <2>6. CASE stop # mStop
    <3>1. /\ limit # NoLimit /\ e <= limit
          /\ IF stop = mStopLast THEN limitSeen = NoLimit
             ELSE \E q \in read .. e : Masked(stop) = Masked(Counter(q)) /\ q <= limitSeen
      BY <2>1, <2>6 DEF Loaded
    <3>3. CASE stop = mStopLast
      <4>1. got = e - read
        BY <1>0, <1>2, <1>3, <1>4, <3>3, RearLemma DEF Located
      <4> QED BY <1>0, <1>4, <2>2, <3>1, <3>3, <4>1 DEF Located
    <3>4. CASE stop # mStopLast
      <4>1. PICK q \in read .. e : Masked(stop) = Masked(Counter(q)) /\ q <= limitSeen
        BY <3>1, <3>4
      <4>2. q \in Int /\ read <= q /\ q <= e /\ q <= written
        BY <1>0, <1>4, <4>1 DEF Located
      <4>3. got = q - read
        BY <1>2, <1>3, <1>4, <3>4, <4>1, <4>2, RearLemma
      <4> QED BY <1>0, <1>4, <2>2, <3>1, <4>1, <4>2, <4>3 DEF Located
    <3> QED BY <3>3, <3>4
  <2> QED BY <2>4, <2>5, <2>6
<1> DEFINE part1 == Part1(mFront, got, ask)
<1>7. /\ sUnreleased' = IF onlyReady THEN sUnreleased ELSE part1
      /\ spc' = IF ~onlyReady /\ part1 > 0 THEN "hold" ELSE "idle"
      /\ UNCHANGED sShutdown
  BY <1>5 DEF SObtain
<1> HIDE DEF got
<1>17. got \in Nat /\ got <= mFrameCount
  BY <1>0, <1>5 DEF InRange, Located
<1>18. part1 \in Int /\ 0 <= part1 /\ part1 <= got
  <2>1. part1 \in 0 .. got
    BY <1>2, <1>17, PartLemma
  <2> QED BY <1>17, <2>1
<1> HIDE DEF part1
<1>8. /\ spc' \in {"hold", "idle"} /\ (spc' = "hold" => sUnreleased' = part1 /\ ~onlyReady)
      /\ sUnreleased' \in 0 .. mFrameCount
  <2>1. part1 \in 0 .. mFrameCount
    BY <1>0, <1>17, <1>18 DEF Located
  <2> QED BY <1>2, <1>7, <2>1
<1>9. PICK held \in Int : /\ playing = 0 /\ playing' = held /\ 0 <= held /\ read + held <= written
                          /\ limit # NoLimit => read + held <= limit
                          /\ flush # mFlush => read + held <= lastFlush
                          /\ spc' = "hold" => read + held <= limitSeen
  <2>1. CASE spc' = "idle"
    <3>1. playing = 0 /\ playing' = 0
      BY <1>1, <2>1 DEF playing
    <3>2. read + 0 <= written /\ (limit # NoLimit => read + 0 <= limit)
      BY <1>0, <3>1 DEF Located, Sound, Stops
    <3>3. flush # mFlush => read + 0 <= lastFlush
      BY <1>0, <1>1, <3>1 DEF Located, Sound, Flushes
    <3> QED BY <2>1, <3>1, <3>2, <3>3
  <2>2. CASE spc' = "hold"
    <3>1. playing = 0 /\ playing' = part1 /\ ~onlyReady
      BY <1>1, <1>8, <2>2 DEF playing
    <3>2. PICK g \in Int : /\ read <= g /\ g <= written /\ g <= limitSeen
                           /\ limit # NoLimit => g <= limit
                           /\ flush # mFlush => g <= lastFlush
                           /\ got = g - read
      BY <1>6, <3>1
    <3>3. read + part1 <= g
      BY <1>0, <1>18, <3>2 DEF Located
    <3> QED BY <1>0, <1>18, <3>1, <3>2, <3>3 DEF Located
  <2> QED BY <1>8, <2>1, <2>2
<1>10. read' = read /\ (\A x \in Int : Counter(x)' = Counter(x)) /\ Ring'
  <2>1. held <= written - read
    BY <1>0, <1>9 DEF Located
  <2> QED BY <1>1, <1>9, <2>1, StillLemma
<1>11. TypeOK'
  <2>1. flush' = 0 /\ stop' = 0 /\ rear' = 0 /\ 0 \in Counters /\ onlyReady' = FALSE
    BY SizesLemma DEF SObtain, Counters
  <2>2. sShutdown' = sShutdown
    BY <1>7
  <2> QED BY <1>1, <1>8, <2>1, <2>2 DEF Sound, TypeOK, SObtain, cblkVars, clientVars, historyVars
<1>12. NeverShutDown'
  BY <1>1, <1>7 DEF Sound, NeverShutDown
<1>13. Flushes'
  BY <1>0, <1>1, <1>8, <1>9, <1>10 DEF Sound, Flushes, Located, Obtaining
<1>14. Stops'
  BY <1>0, <1>1, <1>8, <1>9, <1>10 DEF Sound, Stops, StopHolds, Located
<1>15. Loads'
  BY <1>1, <1>8 DEF Sound, Loads
<1>16. FifoStep
  <2>1. held \in 0 .. written - read
    BY <1>0, <1>9 DEF Located
  <2> QED BY <1>1, <1>9, <1>10, <2>1, FifoObtainLemma
<1> QED BY <1>10, <1>11, <1>12, <1>13, <1>14, <1>15, <1>16 DEF Sound

\* The mixer is done with frames of its chunk.
LEMMA SReleaseLemma ==
    ASSUME Sound, NEW k \in 0 .. mFrameCount, SRelease(k) PROVE Sound' /\ FifoStep
<1>0. Located
  BY LocatedLemma
<1>1. /\ spc = "hold" /\ k <= sUnreleased /\ sUnreleased' = sUnreleased - k
      /\ mFront' = (mFront + k) % Wrap
      /\ UNCHANGED <<mRear, buffer, written, cUnreleased>>
      /\ UNCHANGED <<mFlush, mStop, mStopLast, sFlush, limit, limitSeen, cpc, active, cShutdown>>
      /\ UNCHANGED <<lastFlush, flushes, flushSeen, NoLimit, sShutdown>>
  BY DEF SRelease, clientVars, historyVars, lastFlush, NoLimit
<1>2. spc' \in {"hold", "idle"} /\ k \in Int /\ 0 <= k /\ sUnreleased \in 0 .. mFrameCount
  BY <1>0 DEF SRelease, Sound, TypeOK, Located
<1>3. playing = sUnreleased /\ sUnreleased \in Int
  BY <1>0, <1>1, <1>2 DEF playing, Located
<1> DEFINE p == read + k
<1>4. p \in Int /\ read <= p /\ p <= written
  BY <1>0, <1>1, <1>2, <1>3 DEF Located
<1>5. PICK held \in Int : playing' = held /\ 0 <= held /\ p + held <= read + playing
  <2>1. playing' = 0 \/ playing' = sUnreleased - k
    BY <1>1, <1>2 DEF playing
  <2>2. /\ sUnreleased - k \in Int /\ 0 <= sUnreleased - k
        /\ p + (sUnreleased - k) <= read + playing /\ p + 0 <= read + playing
    BY <1>0, <1>1, <1>2, <1>3 DEF Located
  <2> QED BY <2>1, <2>2
<1>6. mFront' = Counter(p) /\ mFront' \in Counters
  <2>1. mRear \in Counters /\ written \in Int /\ read \in Int
    BY <1>0 DEF Sound, TypeOK, Located
  <2>2. Ahead(Counter(read), k) = Counter(read + k) /\ Counter(p) \in Counters
    BY <1>2, <1>4, <2>1, CounterLemma
  <2> QED BY <1>0, <1>1, <2>2 DEF Located, Ahead
<1> HIDE DEF p
<1>7. read' = p /\ (\A x \in Int : Counter(x)' = Counter(x)) /\ Ring'
  <2>1. held <= written - p
    BY <1>0, <1>4, <1>5 DEF Located
  <2> QED BY <1>1, <1>4, <1>5, <1>6, <2>1, FrontLemma
<1>8. TypeOK'
  <2>1. sUnreleased' \in 0 .. mFrameCount
    BY <1>0, <1>1, <1>2, <1>3 DEF Located
  <2> QED BY <1>2, <1>6, <2>1 DEF Sound, TypeOK, SRelease, clientVars, historyVars
<1>9. NeverShutDown'
  BY <1>1 DEF Sound, NeverShutDown
<1>10. Flushes'
  BY <1>0, <1>1, <1>2, <1>4, <1>5, <1>7 DEF Sound, Flushes, Located, Obtaining
<1>11. Stops'
  BY <1>0, <1>1, <1>2, <1>4, <1>5, <1>7 DEF Sound, Stops, StopHolds, Located
<1>12. Loads'
  BY <1>1, <1>2 DEF Sound, Loads
<1>13. FifoStep
  <2>1. CASE k = 0
    <3>1. p = read /\ held \in 0 .. written - read
      BY <1>0, <1>2, <1>4, <1>5, <2>1 DEF Located, p
    <3> QED BY <1>1, <1>5, <1>7, <3>1, FifoObtainLemma
  <2>2. CASE k > 0
    <3>1. p \in read + 1 .. read + playing /\ playing - (p - read) = sUnreleased - k
      BY <1>0, <1>1, <1>2, <1>3, <2>2 DEF Located, p
    <3>2. playing' = 0 \/ playing' = sUnreleased - k
      BY <1>1, <1>2 DEF playing
    <3>3. Fifo!Play
      BY <1>1, <1>7, <3>1, <3>2 DEF Fifo!Play
    <3> QED BY <3>3 DEF FifoStep, Fifo!FifoNext
  <2> QED BY <1>2, <2>1, <2>2
<1> QED BY <1>7, <1>8, <1>9, <1>10, <1>11, <1>12, <1>13 DEF Sound

\* The track leaves mActiveTracks, between two calls of obtainBuffer().
LEMMA SDeactivateLemma ==
    ASSUME Sound, NEW underrun \in BOOLEAN, SDeactivate(underrun) PROVE Sound' /\ FifoStep
<1>0. Located
  BY LocatedLemma
<1>1. /\ spc = "idle" /\ UNCHANGED <<mFront, mRear, buffer, written, cUnreleased>>
      /\ UNCHANGED <<mFlush, mStop, mStopLast, sFlush, limit, limitSeen, cpc, cShutdown>>
      /\ UNCHANGED <<lastFlush, flushes, flushSeen, NoLimit, sShutdown, spc>>
  BY DEF SDeactivate, serverVars, clientVars, historyVars, lastFlush, NoLimit
<1>2. playing = 0 /\ playing' = 0
  BY <1>1 DEF playing
<1>3. read' = read /\ (\A x \in Int : Counter(x)' = Counter(x)) /\ Ring'
  BY <1>0, <1>1, <1>2, StillLemma DEF Located
<1>4. TypeOK'
  <2>1. disabled' \in BOOLEAN /\ active' \in BOOLEAN
    BY Zenon DEF SDeactivate
  <2> QED BY <2>1 DEF Sound, TypeOK, SDeactivate, serverVars, clientVars, historyVars
<1>5. NeverShutDown'
  BY <1>1 DEF Sound, NeverShutDown
<1>6. Flushes'
  BY <1>0, <1>1, <1>2, <1>3 DEF Sound, Flushes, Located, Obtaining
<1>7. Stops'
  BY <1>0, <1>1, <1>2, <1>3 DEF Sound, Stops, StopHolds, Located
<1>8. Loads'
  BY <1>1 DEF Sound, Loads
<1>9. FifoStep
  <2>1. UNCHANGED <<written, read, playing, flushes>>
    BY <1>1, <1>2, <1>3
  <2> QED BY <2>1, FifoStillLemma
<1> QED BY <1>3, <1>4, <1>5, <1>6, <1>7, <1>8, <1>9 DEF Sound

-----------------------------------------------------------------------------
(* The client.                                                             *)

\* Where a pending flush is, mFront goes.
LEMMA PendingLemma ==
    ASSUME Sound, mFlush # sFlush
    PROVE  /\ NewFront(mFront, mRear, mFlush) = Counter(lastFlush) /\ Counter(lastFlush) \in Counters
           /\ read <= lastFlush /\ lastFlush <= written
<1>1. Located
  BY LocatedLemma
<1>2. mFlush \in Counters /\ Masked(mFlush) = Masked(Counter(lastFlush)) /\ read + playing <= lastFlush
  BY DEF Sound, TypeOK, Flushes
<1>3. read <= lastFlush /\ lastFlush <= written /\ lastFlush \in Int
  BY <1>1, <1>2 DEF Located
<1> QED BY <1>2, <1>3, FlushLemma

\* Track::start(), whoever calls it.
LEMMA TrackStartLemma ==
    ASSUME Sound, NEW accepted \in BOOLEAN, TrackStart(accepted), cpc # "flush", cpc' # "flush",
           UNCHANGED <<mRear, mFlush, mStop, buffer, spc, onlyReady, flush, stop, rear>>,
           UNCHANGED <<sUnreleased, flushSeen, cUnreleased, mBufferSizeInFrames, cShutdown>>,
           UNCHANGED <<written, flushes>>,
           disabled' \in BOOLEAN, mState' \in {"STOPPED", "ACTIVE", "PAUSED", "FLUSHED"},
           cpc' \in {"idle", "restart", "flush", "binder"}
    PROVE  (torn' \/ Sound') /\ FifoStep
<1>0. Located
  BY LocatedLemma
<1>1. /\ UNCHANGED <<lastFlush, NoLimit, playing>> /\ active' = accepted
      /\ accepted => mStopLast' = mStop /\ limit' = NoLimit /\ limitSeen' = NoLimit
      /\ ~accepted => ~active /\ UNCHANGED <<mStopLast, limit, limitSeen>>
  BY DEF TrackStart, lastFlush, NoLimit, playing
<1>2. mStop \in Counters /\ mRear \in Counters /\ mFlush \in Counters /\ sFlush \in Counters /\ mFront \in Counters
  BY DEF Sound, TypeOK
\* The mixer goes on to p, which is past the last flush if the flush is acknowledged.
<1>3. \E p \in Int : /\ read <= p /\ p <= written /\ mFront' = Counter(p) /\ mFront' \in Counters
                     /\ p = read \/ (p = lastFlush /\ ~active)
                     /\ IF active THEN p = read /\ sFlush' = sFlush
                                  ELSE lastFlush <= p /\ sFlush' = mFlush
  <2>1. CASE active
    <3>1. mFront' = mFront /\ sFlush' = sFlush
      BY <2>1 DEF TrackStart
    <3>2. read \in Int /\ read <= read /\ read <= written /\ mFront = Counter(read)
      BY <1>0 DEF Located
    <3> QED BY <1>2, <2>1, <3>1, <3>2
  <2>2. CASE ~active
    <3>1. /\ mFront' = IF mFlush = sFlush THEN mFront ELSE NewFront(mFront, mRear, mFlush)
          /\ sFlush' = mFlush
      BY <2>2 DEF TrackStart, Sound, NeverShutDown
    <3>2. CASE mFlush = sFlush
      <4>1. lastFlush <= read
        BY <3>2 DEF Sound, Flushes
      <4>2. read \in Int /\ read <= read /\ read <= written /\ mFront = Counter(read)
        BY <1>0 DEF Located
      <4> QED BY <1>2, <2>2, <3>1, <3>2, <4>1, <4>2
    <3>3. CASE mFlush # sFlush
      <4>1. lastFlush \in Int /\ lastFlush <= lastFlush
        BY <1>0 DEF Located
      <4> QED BY <2>2, <3>1, <3>3, <4>1, PendingLemma
    <3> QED BY <3>2, <3>3
  <2> QED BY <2>1, <2>2
<1>4. PICK p \in Int : /\ read <= p /\ p <= written /\ mFront' = Counter(p) /\ mFront' \in Counters
                       /\ p = read \/ (p = lastFlush /\ ~active)
                       /\ IF active THEN p = read /\ sFlush' = sFlush
                                    ELSE lastFlush <= p /\ sFlush' = mFlush
  BY <1>3
<1>5. ~active => spc = "idle" /\ playing = 0
  BY DEF Sound, Loads, playing
<1>6. read' = p /\ (\A x \in Int : Counter(x)' = Counter(x)) /\ Ring'
  <2>1. playing' <= written - p
    <3>1. playing <= written - p
      BY <1>0, <1>4, <1>5 DEF Located
    <3> QED BY <1>1, <3>1
  <2> QED BY <1>4, <2>1, FrontLemma
<1>7. sShutdown' = FALSE
  <2>1. CASE active
    BY <2>1 DEF TrackStart, Sound, NeverShutDown
  <2>2. CASE ~active
    <3>1. SubOverflow(mRear, Counter(p)) = written - p
      BY <1>0, <1>2, <1>4, FillLemma DEF Located, Counter
    <3>2. InRange(written - p)
      BY <1>0, <1>4 DEF Located, InRange
    <3>4. sShutdown' = ~InRange(SubOverflow(GetRear(mStop, mRear, mStopLast', mFront'), mFront'))
      BY <2>2 DEF TrackStart, Sound, NeverShutDown
    <3> QED BY <1>4, <3>1, <3>2, <3>4, GetRearInRangeLemma
  <2> QED BY <2>1, <2>2
<1>8. TypeOK'
  <2>1. sFlush' \in Counters /\ mStopLast' \in Counters
    BY <1>1, <1>2, <1>4 DEF Sound, TypeOK
  <2>2. limit' \in Positions /\ limitSeen' \in Positions
    BY <1>0, <1>1 DEF Located, Positions, Sound, TypeOK
  <2>3. torn' \in BOOLEAN
    BY Zenon DEF TrackStart
  <2> QED BY <1>1, <1>2, <1>4, <1>7, <2>1, <2>2, <2>3 DEF Sound, TypeOK
<1>9. NeverShutDown'
  BY <1>7 DEF Sound, NeverShutDown
<1>10. Flushes'
  <2>1. CASE active
    <3>1. read' = read /\ sFlush' = sFlush
      BY <1>4, <1>6, <2>1
    <3> QED BY <1>0, <1>1, <1>6, <3>1 DEF Sound, Flushes, Located, Obtaining
  <2>2. CASE ~active
    <3>1. read' = p /\ sFlush' = mFlush /\ lastFlush <= p /\ spc = "idle"
      BY <1>4, <1>5, <1>6, <2>2
    <3> QED BY <1>0, <1>1, <1>6, <3>1 DEF Sound, Flushes, Located, Obtaining
  <2> QED BY <2>1, <2>2
<1>11. Stops'
  <2>1. CASE accepted
    <3>1. read' + playing' <= NoLimit
      <4>1. p + playing <= NoLimit
        BY <1>0, <1>4, <1>5 DEF Located
      <4> QED BY <1>1, <1>6, <4>1
    <3> QED BY <1>1, <2>1, <3>1 DEF Sound, Stops, StopHolds
  <2>2. CASE ~accepted
    <3>1. limit # NoLimit => p + playing <= limit
      BY <1>0, <1>1, <1>4, <1>5, <2>2 DEF Sound, Stops, Located
    <3> QED BY <1>0, <1>1, <1>5, <1>6, <2>2, <3>1 DEF Sound, Stops, StopHolds, Located
  <2> QED BY <2>1, <2>2
<1>12. ASSUME ~torn' PROVE Loads'
  <2>1. CASE spc = "idle"
    BY <2>1 DEF Loads
  <2>2. CASE spc # "idle"
    <3>1. active /\ accepted /\ p = read
      BY <1>1, <1>4, <1>5, <2>2
    <3>2. spc \in {"rear", "last"} => onlyReady \/ (flush = mFlush /\ stop = mStop)
      BY <1>12 DEF TrackStart, Missed
    <3>3. spc \in {"rear", "last"} => onlyReady \/ \A x : Loaded(x)'
      BY <1>1, <3>1, <3>2 DEF Loaded
    <3> QED BY <1>0, <1>1, <1>6, <3>1, <3>3 DEF Sound, Loads, Located
  <2> QED BY <2>1, <2>2
<1>13. FifoStep
  <2>1. lastFlush \in flushes
    BY DEF Sound, Flushes
  <2>2. CASE p = read
    <3>1. UNCHANGED <<written, read, playing, flushes>>
      BY <1>1, <1>6, <2>2
    <3> QED BY <3>1, FifoStillLemma
  <2>3. CASE p = lastFlush /\ ~active
    BY <1>0, <1>1, <1>4, <1>5, <1>6, <2>1, <2>3, FifoDiscardLemma DEF Located
  <2> QED BY <1>4, <2>2, <2>3
<1> QED BY <1>6, <1>8, <1>9, <1>10, <1>11, <1>12, <1>13 DEF Sound

\* A step that leaves the ring, the signals and the mixer alone.
LEMMA QuietLemma ==
    ASSUME Sound, cpc # "flush", cpc' # "flush",
           UNCHANGED <<mFront, mRear, mFlush, mStop, buffer, cUnreleased, cShutdown, active, serverVars>>,
           UNCHANGED historyVars,
           disabled' \in BOOLEAN, mState' \in {"STOPPED", "ACTIVE", "PAUSED", "FLUSHED"},
           cpc' \in {"idle", "restart", "flush", "binder"}, mBufferSizeInFrames' \in 1 .. mFrameCount
    PROVE  Sound' /\ FifoStep
<1>0. Located
  BY LocatedLemma
<1>1. /\ UNCHANGED <<lastFlush, NoLimit, playing, flushes, limit, limitSeen, written>>
      /\ UNCHANGED <<sFlush, mStopLast, sShutdown, spc, onlyReady, flush, stop, rear, flushSeen>>
  BY DEF lastFlush, NoLimit, playing, serverVars, historyVars
<1>2. read' = read /\ (\A x \in Int : Counter(x)' = Counter(x)) /\ Ring'
  <2>1. playing' <= written - read
    <3>1. playing <= written - read
      BY <1>0 DEF Located
    <3> QED BY <1>1, <3>1
  <2> QED BY <1>1, <2>1, StillLemma
<1>3. TypeOK'
  BY DEF Sound, TypeOK, serverVars, historyVars
<1>4. NeverShutDown'
  BY <1>1 DEF Sound, NeverShutDown
<1>5. Flushes'
  BY <1>0, <1>1, <1>2 DEF Sound, Flushes, Located, Obtaining
<1>6. Stops'
  BY <1>0, <1>1, <1>2 DEF Sound, Stops, StopHolds, Located
<1>7. Loads'
  <2>1. \A x \in read .. written : x \in Int /\ \A q \in read .. x : q \in Int
    BY <1>0 DEF Located
  <2>2. written \in read .. written
    BY <1>0 DEF Located
  <2>3. \A x \in read .. written : Loaded(x) => Loaded(x)'
    BY <1>1, <1>2, <2>1 DEF Loaded
  <2> QED BY <1>1, <1>2, <2>1, <2>2, <2>3 DEF Sound, Loads
<1>8. FifoStep
  <2>1. UNCHANGED <<written, read, playing, flushes>>
    BY <1>1, <1>2
  <2> QED BY <2>1, FifoStillLemma
<1> QED BY <1>2, <1>3, <1>4, <1>5, <1>6, <1>7, <1>8 DEF Sound

\* restartIfDisabled(), with or without a call of start.
LEMMA CRestartLemma ==
    ASSUME Sound, NEW accepted \in BOOLEAN, CRestartIfDisabled(accepted)
    PROVE  (torn' \/ Sound') /\ FifoStep
<1>1. /\ cpc # "flush" /\ cpc' # "flush" /\ cpc' \in {"idle", "restart", "flush", "binder"}
      /\ disabled' \in BOOLEAN
  BY DEF CRestartIfDisabled
<1>2. mState' \in {"STOPPED", "ACTIVE", "PAUSED", "FLUSHED"} /\ mBufferSizeInFrames' \in 1 .. mFrameCount
  BY DEF CRestartIfDisabled, Sound, TypeOK
<1>3. CASE mState = "ACTIVE"
  <2>1. TrackStart(accepted)
    BY <1>3 DEF CRestartIfDisabled
  <2>2. UNCHANGED <<mRear, mFlush, mStop, buffer, spc, onlyReady, flush, stop, rear>>
    BY DEF CRestartIfDisabled
  <2>3. /\ UNCHANGED <<sUnreleased, flushSeen, cUnreleased, mBufferSizeInFrames, cShutdown>>
        /\ UNCHANGED <<written, flushes>>
    BY DEF CRestartIfDisabled
  <2> QED BY <1>1, <1>2, <2>1, <2>2, <2>3, TrackStartLemma
<1>4. CASE mState # "ACTIVE"
  <2>1. UNCHANGED <<mFront, mRear, mFlush, mStop, buffer, cUnreleased, cShutdown, active, serverVars>>
    BY <1>4 DEF CRestartIfDisabled, serverVars
  <2>2. UNCHANGED historyVars
    BY <1>4 DEF CRestartIfDisabled, historyVars
  <2> QED BY <1>1, <1>2, <2>1, <2>2, QuietLemma
<1> QED BY <1>3, <1>4

\* AudioTrack::start(), accepted or not.
LEMMA CStartLemma ==
    ASSUME Sound, NEW accepted \in BOOLEAN, CStart(accepted)
    PROVE  (torn' \/ Sound') /\ FifoStep
<1>1. /\ cpc # "flush" /\ cpc' # "flush" /\ cpc' \in {"idle", "restart", "flush", "binder"}
      /\ disabled' \in BOOLEAN /\ TrackStart(accepted)
  BY DEF CStart
<1>2. mState' \in {"STOPPED", "ACTIVE", "PAUSED", "FLUSHED"}
  BY DEF CStart, Sound, TypeOK
<1>3. /\ UNCHANGED <<mRear, mFlush, mStop, buffer, spc, onlyReady, flush, stop, rear>>
      /\ UNCHANGED <<sUnreleased, flushSeen, cUnreleased, mBufferSizeInFrames, cShutdown>>
      /\ UNCHANGED <<written, flushes>>
  BY DEF CStart
<1> QED BY <1>1, <1>2, <1>3, TrackStartLemma

\* setBufferSizeInFrames().
LEMMA CSetBufferSizeLemma ==
    ASSUME Sound, NEW size \in 1 .. mFrameCount + 1, CSetBufferSize(size) PROVE Sound' /\ FifoStep
<1>1. /\ cpc # "flush" /\ cpc' # "flush" /\ cpc' \in {"idle", "restart", "flush", "binder"}
      /\ disabled' \in BOOLEAN
  BY DEF CSetBufferSize, cblkVars, Sound, TypeOK
<1>2. mState' \in {"STOPPED", "ACTIVE", "PAUSED", "FLUSHED"} /\ mBufferSizeInFrames' \in 1 .. mFrameCount
  BY ClippedLemma DEF CSetBufferSize, Sound, TypeOK
<1>3. /\ UNCHANGED <<mFront, mRear, mFlush, mStop, buffer, cUnreleased, cShutdown, active, serverVars>>
      /\ UNCHANGED historyVars
  BY DEF CSetBufferSize, cblkVars
<1> QED BY <1>1, <1>2, <1>3, QuietLemma

\* AudioTrack::pause().
LEMMA CPauseLemma ==
    ASSUME Sound, CPause PROVE Sound' /\ FifoStep
<1>1. /\ cpc # "flush" /\ cpc' # "flush" /\ cpc' \in {"idle", "restart", "flush", "binder"}
      /\ disabled' \in BOOLEAN
  BY DEF CPause, cblkVars, Sound, TypeOK
<1>2. mState' \in {"STOPPED", "ACTIVE", "PAUSED", "FLUSHED"} /\ mBufferSizeInFrames' \in 1 .. mFrameCount
  BY DEF CPause, Sound, TypeOK
<1>3. /\ UNCHANGED <<mFront, mRear, mFlush, mStop, buffer, cUnreleased, cShutdown, active, serverVars>>
      /\ UNCHANGED historyVars
  BY DEF CPause, cblkVars
<1> QED BY <1>1, <1>2, <1>3, QuietLemma

\* sendStreamingFlushStop(), for a stop or a flush.
LEMMA SendStopLemma ==
    ASSUME Sound, SendStop, cpc = "idle", cpc' \in {"idle", "flush"},
           mState' \in {"STOPPED", "ACTIVE", "PAUSED", "FLUSHED"}
    PROVE  Sound' /\ FifoStep
<1>0. Located
  BY LocatedLemma
<1>1. /\ UNCHANGED <<mFront, mRear, mFlush, buffer, cUnreleased, cShutdown, active, written, flushes>>
      /\ UNCHANGED <<sFlush, mStopLast, sShutdown, spc, onlyReady, flush, stop, rear, flushSeen>>
      /\ UNCHANGED <<lastFlush, NoLimit, playing>>
      /\ limit' = written /\ limitSeen' = (IF limitSeen = NoLimit THEN NoLimit ELSE written)
  BY DEF SendStop, lastFlush, NoLimit, playing, serverVars
<1>2. mStop \in Counters /\ mStopLast \in Counters /\ mFlush \in Counters /\ mRear \in Counters
  BY DEF Sound, TypeOK
<1>3. /\ mStop' \in Counters /\ UpperBits(mStop') = UpperBits(mStop) + OverflowBit
      /\ Masked(mStop') = Masked(mRear)
  BY <1>2, RoomLemma, SignalLemma DEF SendStop
<1>4. /\ UpperBits(mStop) \in Int /\ UpperBits(mStopLast) \in Int /\ UpperBits(mFlush) \in Int
      /\ OverflowBit \in Int /\ OverflowBit > 0 /\ OverflowBit' = OverflowBit
  BY <1>2, UpperLemma, SizesLemma DEF OverflowBit
<1>5. read' = read /\ (\A x \in Int : Counter(x)' = Counter(x)) /\ Ring'
  <2>1. playing' <= written - read
    <3>1. playing <= written - read
      BY <1>0 DEF Located
    <3> QED BY <1>1, <3>1
  <2> QED BY <1>1, <2>1, StillLemma
<1>6. limit # NoLimit => read <= limit /\ limit <= written
  BY <1>0 DEF Sound, Stops, Located
<1>7. TypeOK'
  <2>1. limit' \in Positions /\ limitSeen' \in Positions
    BY <1>0, <1>1, SMTT(30) DEF Located, Positions, Sound, TypeOK
  <2> QED BY <1>1, <1>3, <2>1 DEF Sound, TypeOK, SendStop, serverVars
<1>8. NeverShutDown'
  BY <1>1 DEF Sound, NeverShutDown
<1>9. Flushes'
  BY <1>0, <1>1, <1>5 DEF Sound, Flushes, Located, Obtaining
<1>10. Stops'
  <2>1. UpperBits(mStopLast) < UpperBits(mStop')
    <3>1. UpperBits(mStopLast) <= UpperBits(mStop)
      BY <1>4 DEF Sound, Stops
    <3> QED BY <1>3, <1>4, <3>1
  <2>2. limit' # NoLimit' /\ Masked(mStop') = Masked(Counter(written))
    BY <1>0, <1>1, <1>3 DEF Located
  <2>3. UpperBits(mFlush) + (IF cpc' = "flush" THEN OverflowBit ELSE 0) <= UpperBits(mStop')
    <3>1. UpperBits(mFlush) <= UpperBits(mStop)
      BY <1>4 DEF Sound, Stops
    <3> QED BY <1>3, <1>4, <3>1
  <2>4. spc' = "hold" => read + playing <= limitSeen'
    BY <1>0, <1>1 DEF Located
  <2> QED BY <1>0, <1>1, <1>4, <1>5, <2>1, <2>2, <2>3, <2>4 DEF Stops, StopHolds, Located
<1>11. Loads'
  <2>1. ASSUME NEW p \in read .. written, Loaded(p) PROVE Loaded(p)'
    <3>1. p \in Int /\ p <= limit' /\ limit' # NoLimit /\ \A q \in read .. p : q \in Int /\ q <= limitSeen'
      BY <1>0, <1>1, <2>1 DEF Located
    <3>3. IF stop = mStopLast THEN limitSeen' = NoLimit
          ELSE \E q \in read .. p : Masked(stop) = Masked(Counter(q)) /\ q <= limitSeen'
      <4>1. limitSeen = NoLimit \/ limitSeen = limit
        BY DEF Sound, Stops
      <4>2. CASE stop = mStop /\ limit = NoLimit
        BY <1>1, <4>1, <4>2 DEF Sound, Stops
      <4>3. CASE stop = mStop /\ limit # NoLimit
        <5>1. limit \in read .. p
          BY <1>0, <1>6, <2>1, <4>3 DEF Located, Loaded
        <5>2. UpperBits(mStopLast) < UpperBits(mStop) /\ Masked(mStop) = Masked(Counter(limit))
          BY <4>3 DEF Sound, Stops
        <5>3. stop # mStopLast
          BY <1>4, <4>3, <5>2
        <5> QED BY <3>1, <4>3, <5>1, <5>2, <5>3
      <4>4. CASE stop # mStop
        <5>1. IF stop = mStopLast THEN limitSeen = NoLimit
              ELSE \E q \in read .. p : Masked(stop) = Masked(Counter(q)) /\ q <= limitSeen
          BY <2>1, <4>4 DEF Loaded
        <5> QED BY <1>1, <3>1, <5>1
      <4> QED BY <4>2, <4>3, <4>4
    <3>4. UpperBits(stop) < UpperBits(mStop')
      <4>1. UpperBits(stop) <= UpperBits(mStop) /\ UpperBits(stop) \in Int
        <5>1. stop \in Counters
          BY DEF Sound, TypeOK
        <5>2. UpperBits(stop) \in Int
          BY <5>1, UpperLemma
        <5>3. stop = mStop \/ UpperBits(stop) < UpperBits(mStop)
          BY <2>1 DEF Loaded
        <5> QED BY <1>4, <5>2, <5>3
      <4> QED BY <1>3, <1>4, <4>1
    <3>5. flush' # mFlush' => p <= lastFlush'
      BY <1>1, <2>1 DEF Loaded
    <3>6. stop # mStop'
      BY <1>3, <1>4, <3>4
    <3> QED BY <1>1, <1>5, <3>1, <3>3, <3>4, <3>5, <3>6 DEF Loaded
  <2>2. \A p \in read .. written : p \in Int
    BY <1>0 DEF Located
  <2>3. written \in read .. written
    BY <1>0 DEF Located
  <2> QED BY <1>1, <1>5, <2>1, <2>2, <2>3 DEF Sound, Loads
<1>12. FifoStep
  <2>1. UNCHANGED <<written, read, playing, flushes>>
    BY <1>1, <1>5
  <2> QED BY <2>1, FifoStillLemma
<1> QED BY <1>5, <1>7, <1>8, <1>9, <1>10, <1>11, <1>12 DEF Sound

\* The store of mFlush, at the position of the stop that the same flush has stored.
LEMMA CFlushFlushLemma ==
    ASSUME Sound, CFlushFlush PROVE Sound' /\ FifoStep
<1>0. Located
  BY LocatedLemma
<1>1. /\ UNCHANGED <<mFront, mRear, mStop, buffer, cUnreleased, cShutdown, active, written, limit, limitSeen>>
      /\ UNCHANGED <<sFlush, mStopLast, sShutdown, spc, onlyReady, flush, stop, rear, flushSeen>>
      /\ UNCHANGED <<NoLimit, playing>> /\ cpc = "flush" /\ cpc' = "binder"
      /\ flushes' = flushes \cup {written}
  BY DEF CFlushFlush, NoLimit, playing, serverVars
<1>2. mStop \in Counters /\ mFlush \in Counters /\ mRear \in Counters /\ sFlush \in Counters /\ flush \in Counters
  BY DEF Sound, TypeOK
<1>3. /\ UpperBits(mStop) \in Int /\ UpperBits(mFlush) \in Int /\ UpperBits(sFlush) \in Int
      /\ UpperBits(flush) \in Int /\ UpperBits(mStop) + OverflowBit <= Wrap
      /\ OverflowBit \in Int /\ OverflowBit > 0 /\ OverflowBit' = OverflowBit /\ Wrap \in Int
  BY <1>2, UpperLemma, SizesLemma DEF OverflowBit
<1>4. UpperBits(mFlush) + OverflowBit <= UpperBits(mStop) /\ limit = written
  BY <1>1 DEF Sound, Stops
<1>5. UpperBits(mFlush) + OverflowBit < Wrap
  BY <1>3, <1>4
<1>6. /\ mFlush' \in Counters /\ UpperBits(mFlush') = UpperBits(mFlush) + OverflowBit
      /\ Masked(mFlush') = Masked(mRear)
  BY <1>2, <1>5, SignalLemma DEF CFlushFlush
<1>7. read' = read /\ (\A x \in Int : Counter(x)' = Counter(x)) /\ Ring'
  <2>1. playing' <= written - read
    <3>1. playing <= written - read
      BY <1>0 DEF Located
    <3> QED BY <1>1, <3>1
  <2> QED BY <1>1, <2>1, StillLemma
<1>8. flushes \subseteq Int /\ \A f \in flushes : f <= written
  <2>1. flushes \subseteq Int /\ lastFlush \in Int /\ lastFlush <= written
    BY <1>0 DEF Sound, TypeOK, Positions, Located
  <2>2. \A f \in flushes : f <= lastFlush
    BY DEF Sound, Flushes
  <2> QED BY <1>0, <2>1, <2>2 DEF Located
<1>9. lastFlush' = written /\ lastFlush' \in flushes'
  <2>1. flushes' \subseteq Int /\ written \in flushes' /\ \A f \in flushes' : f <= written
    BY <1>0, <1>1, <1>8 DEF Located
  <2>2. Max(flushes') = written
    BY <2>1, MaxLemma
  <2> QED BY <2>1, <2>2 DEF lastFlush
<1>10. TypeOK'
  <2>1. flushes' \subseteq Positions
    <3>1. written \in Positions
      BY <1>0 DEF Positions, Located
    <3>2. flushes \subseteq Positions
      BY DEF Sound, TypeOK
    <3> QED BY <1>1, <3>1, <3>2
  <2> QED BY <1>1, <1>6, <2>1 DEF Sound, TypeOK, CFlushFlush, serverVars
<1>11. NeverShutDown'
  BY <1>1 DEF Sound, NeverShutDown
<1>12. Flushes'
  <2>1. UpperBits(sFlush) < UpperBits(mFlush')
    <3>1. UpperBits(sFlush) <= UpperBits(mFlush)
      BY <1>3 DEF Sound, Flushes
    <3> QED BY <1>3, <1>6, <3>1
  <2>2. mFlush' # sFlush'
    BY <1>1, <1>3, <2>1
  <2>3. Masked(mFlush') = Masked(Counter(written)) /\ read + playing <= written
    BY <1>0, <1>6 DEF Located
  <2>4. Obtaining => UpperBits(flush) < UpperBits(mFlush')
    <3>1. Obtaining => UpperBits(flush) <= UpperBits(mFlush)
      BY <1>3 DEF Sound, Flushes
    <3> QED BY <1>3, <1>6, <3>1
  <2>5. /\ flushSeen' \in flushes' /\ \A f \in flushes' : f <= lastFlush'
    BY <1>0, <1>1, <1>8, <1>9 DEF Sound, Flushes, Located
  <2>6. Obtaining' = Obtaining
    BY <1>1 DEF Obtaining
  <2>7. /\ spc = "flush" => /\ UpperBits(sFlush) < UpperBits(flush)
                            /\ Masked(flush) = Masked(Counter(flushSeen))
                            /\ read <= flushSeen
        /\ spc \in {"stop", "rear", "last"} => sFlush = flush
        /\ spc \in {"stop", "rear", "last", "hold"} => flushSeen <= read
    BY DEF Sound, Flushes
  <2> QED BY <1>0, <1>1, <1>7, <1>9, <2>1, <2>2, <2>3, <2>4, <2>5, <2>6, <2>7 DEF Flushes, Located
<1>13. Stops'
  <2>1. UpperBits(mFlush') <= UpperBits(mStop)
    BY <1>4, <1>6
  <2> QED BY <1>0, <1>1, <1>3, <1>4, <1>6, <1>7, <1>9, <2>1 DEF Sound, Stops, StopHolds, Located
<1>14. Loads'
  <2>1. \A x \in read .. written : x \in Int /\ x <= written /\ \A q \in read .. x : q \in Int
    BY <1>0 DEF Located
  <2>2. written \in read .. written
    BY <1>0 DEF Located
  <2>3. \A x \in read .. written : Loaded(x) => Loaded(x)'
    BY <1>1, <1>7, <1>9, <2>1 DEF Loaded
  <2> QED BY <1>1, <1>7, <2>1, <2>2, <2>3 DEF Sound, Loads
<1>15. FifoStep
  <2>1. Fifo!Flush
    BY <1>1, <1>7 DEF Fifo!Flush
  <2> QED BY <2>1 DEF FifoStep, Fifo!FifoNext
<1> QED BY <1>7, <1>10, <1>11, <1>12, <1>13, <1>14, <1>15 DEF Sound

\* Track::flush(): the pending flush is acknowledged if the track is not active.
LEMMA CFlushBinderLemma ==
    ASSUME Sound, CFlushBinder PROVE Sound' /\ FifoStep
<1>0. Located
  BY LocatedLemma
<1>1. /\ UNCHANGED <<mRear, mFlush, mStop, buffer, cUnreleased, cShutdown, active, written, limit, limitSeen>>
      /\ UNCHANGED <<mStopLast, sShutdown, spc, onlyReady, flush, stop, rear, flushSeen, flushes>>
      /\ UNCHANGED <<NoLimit, playing, lastFlush>> /\ cpc = "binder" /\ cpc' = "idle"
  BY DEF CFlushBinder, NoLimit, playing, lastFlush, historyVars
<1>2. CASE active \/ mFlush = sFlush
  <2>1. UNCHANGED <<mFront, sFlush>>
    BY <1>2 DEF CFlushBinder
  <2>2. UNCHANGED <<mFront, mRear, mFlush, mStop, buffer, cUnreleased, cShutdown, active, serverVars>>
    BY <2>1 DEF CFlushBinder, serverVars
  <2>3. UNCHANGED historyVars
    BY DEF CFlushBinder
  <2>4. /\ disabled' \in BOOLEAN /\ mState' \in {"STOPPED", "ACTIVE", "PAUSED", "FLUSHED"}
        /\ mBufferSizeInFrames' \in 1 .. mFrameCount
    BY DEF CFlushBinder, Sound, TypeOK
  <2> QED BY <1>1, <2>2, <2>3, <2>4, QuietLemma
<1>3. CASE ~active /\ mFlush # sFlush
  <2>1. /\ mFront' = Counter(lastFlush) /\ mFront' \in Counters /\ sFlush' = mFlush
        /\ read <= lastFlush /\ lastFlush <= written /\ lastFlush \in Int
    BY <1>0, <1>3, PendingLemma DEF CFlushBinder, Located
  <2>2. spc = "idle" /\ playing = 0
    BY <1>3 DEF Sound, Loads, playing
  <2>3. read' = lastFlush /\ (\A x \in Int : Counter(x)' = Counter(x)) /\ Ring'
    <3>1. playing' <= written - lastFlush
      <4>1. 0 <= written - lastFlush
        BY <1>0, <2>1 DEF Located
      <4> QED BY <1>1, <2>2, <4>1
    <3> QED BY <1>1, <2>1, <3>1, FrontLemma
  <2>4. TypeOK'
    BY <1>1, <2>1 DEF Sound, TypeOK, CFlushBinder, historyVars
  <2>5. NeverShutDown'
    BY <1>1 DEF Sound, NeverShutDown
  <2>6. Flushes'
    BY <1>0, <1>1, <2>1, <2>2, <2>3 DEF Sound, Flushes, Located, Obtaining
  <2>7. Stops'
    BY <1>0, <1>1, <2>1, <2>2, <2>3 DEF Sound, Stops, StopHolds, Located
  <2>8. Loads'
    BY <1>1, <2>2 DEF Sound, Loads
  <2>9. FifoStep
    <3>1. lastFlush \in flushes
      BY DEF Sound, Flushes
    <3> QED BY <1>0, <1>1, <2>1, <2>2, <2>3, <3>1, FifoDiscardLemma DEF Located
  <2> QED BY <2>3, <2>4, <2>5, <2>6, <2>7, <2>8, <2>9 DEF Sound
<1> QED BY <1>2, <1>3

\* The part of the ring that the client has, or may get, is not one that is to be read.
LEMMA ApartLemma ==
    ASSUME Sound, NEW n \in Nat, written - read + n <= mFrameCount, Slot(mRear) + n <= mFrameCountP2,
           NEW p \in read .. written - 1
    PROVE  /\ Slot(Counter(p)) \in 0 .. mFrameCountP2 - 1
           /\ Slot(Counter(p)) \notin Slot(mRear) .. Slot(mRear) + n - 1
<1>0. Located
  BY LocatedLemma
<1>1. mRear \in Counters /\ p \in Int /\ read <= p /\ p < written
  BY <1>0 DEF Sound, TypeOK, Located
<1> DEFINE d == p - written
<1>2. d \in Int /\ d < 0 /\ -d + n <= mFrameCount
  BY <1>0, <1>1 DEF Located
<1>3. Counter(p) = Ahead(mRear, d)
  BY DEF Counter
<1> HIDE DEF d
<1>4. Slot(mRear) \in 0 .. mFrameCountP2 - 1 /\ Slot(Ahead(mRear, d)) \in 0 .. mFrameCountP2 - 1
  BY <1>1, <1>2, SlotLemma
<1>5. ASSUME NEW s \in Slot(mRear) .. Slot(mRear) + n - 1, Slot(Ahead(mRear, d)) = s PROVE FALSE
  <2> DEFINE j == s - Slot(mRear)
  <2>1. j \in Nat /\ j < n /\ Slot(mRear) + j = s /\ Slot(mRear) + j < mFrameCountP2
    BY <1>4, <1>5, SizesLemma
  <2> HIDE DEF j
  <2>2. Slot(Ahead(mRear, j)) = Slot(mRear) + j
    BY <1>1, <2>1, SlotLemma
  <2>3. j \in Int /\ d - j < mFrameCountP2 /\ j - d < mFrameCountP2
    BY <1>2, <2>1, SizesLemma
  <2>4. Slot(Ahead(mRear, d)) = Slot(Ahead(mRear, j))
    BY <1>5, <2>1, <2>2
  <2>5. d = j
    BY <1>1, <1>2, <2>3, <2>4, SlotLemma
  <2> QED BY <1>2, <2>1, <2>5
<1> QED BY <1>3, <1>4, <1>5

\* The client is given slots that hold nothing to be read.
LEMMA CObtainLemma ==
    ASSUME Sound, NEW ask \in 1 .. mFrameCount, CObtain(ask) PROVE Sound' /\ FifoStep
<1>0. Located
  BY LocatedLemma
<1>1. /\ UNCHANGED <<mFront, mRear, mFlush, mStop, active, written, limit, limitSeen, cpc>>
      /\ UNCHANGED <<sFlush, mStopLast, sShutdown, spc, onlyReady, flush, stop, rear, flushSeen, flushes>>
      /\ UNCHANGED <<NoLimit, playing, lastFlush, filled, read>>
      /\ \A x : Counter(x)' = Counter(x)
  BY DEF CObtain, NoLimit, playing, lastFlush, filled, read, Counter, serverVars, historyVars
<1>2. mRear \in Counters /\ mBufferSizeInFrames \in 1 .. mFrameCount
  BY DEF Sound, TypeOK
<1>3. filled \in 0 .. mFrameCount /\ InRange(filled) /\ filled = written - read
  BY <1>0 DEF Located, InRange
<1> DEFINE avail == ClientAvail(filled)
           part1 == Part1(mRear, avail, ask)
<1>4. avail \in 0 .. mFrameCount - filled
  BY <1>2, <1>3, AvailLemma
<1>5. avail \in Nat /\ ask \in Nat \ {0} /\ avail <= mFrameCount - filled
  BY <1>0, <1>3, <1>4, SizesLemma DEF Located
<1>6. /\ part1 > 0 /\ written + part1 <= MaxFrames /\ cUnreleased' = part1
      /\ buffer' = [s \in DOMAIN buffer |->
                      IF s \in Slot(mRear) .. Slot(mRear) + part1 - 1 THEN Dirty ELSE buffer[s]]
      /\ UNCHANGED cShutdown
  BY <1>3 DEF CObtain, filled
<1> HIDE DEF avail
<1>7. part1 \in 0 .. avail /\ Slot(mRear) + part1 <= mFrameCountP2
  BY <1>2, <1>5, PartLemma
<1> HIDE DEF part1
<1>8. part1 \in Nat /\ written - read + part1 <= mFrameCount /\ part1 <= mFrameCount
  BY <1>0, <1>3, <1>5, <1>7 DEF Located
<1>9. Ring'
  <2>1. filled \in 0 .. mFrameCount - part1
    BY <1>0, <1>3, <1>8 DEF Located
  <2>2. \A p \in read .. written - 1 : buffer'[Slot(Counter(p))] = p
    <3>1. ASSUME NEW p \in read .. written - 1 PROVE buffer'[Slot(Counter(p))] = p
      <4>1. /\ Slot(Counter(p)) \in 0 .. mFrameCountP2 - 1
            /\ Slot(Counter(p)) \notin Slot(mRear) .. Slot(mRear) + part1 - 1
        BY <1>7, <1>8, ApartLemma
      <4>2. DOMAIN buffer = 0 .. mFrameCountP2 - 1
        BY DEF Sound, TypeOK
      <4>3. buffer[Slot(Counter(p))] = p
        BY DEF Sound, Ring
      <4> QED BY <1>6, <4>1, <4>2, <4>3
    <3> QED BY <3>1
  <2>3. filled <= written /\ playing <= filled
    BY DEF Sound, Ring
  <2> QED BY <1>1, <1>6, <1>7, <2>1, <2>2, <2>3 DEF Ring
<1>10. TypeOK'
  <2>1. buffer' \in [0 .. mFrameCountP2 - 1 -> {Dirty} \cup 0 .. MaxFrames]
    <3>1. buffer \in [0 .. mFrameCountP2 - 1 -> {Dirty} \cup 0 .. MaxFrames]
      BY DEF Sound, TypeOK
    <3> QED BY <1>6, <3>1
  <2>2. cUnreleased' \in 0 .. mFrameCount /\ cShutdown' \in BOOLEAN
    BY <1>0, <1>6, <1>8 DEF Located, Sound, TypeOK
  <2> QED BY <1>1, <2>1, <2>2 DEF Sound, TypeOK, CObtain, serverVars, historyVars
<1>11. NeverShutDown'
  BY <1>1, <1>6 DEF Sound, NeverShutDown
<1>12. Flushes'
  BY <1>0, <1>1 DEF Sound, Flushes, Located, Obtaining
<1>13. Stops'
  BY <1>0, <1>1 DEF Sound, Stops, StopHolds, Located
<1>14. Loads'
  BY <1>0, <1>1 DEF Sound, Loads, Loaded, Located
<1>15. FifoStep
  <2>1. UNCHANGED <<written, read, playing, flushes>>
    BY <1>1
  <2> QED BY <2>1, FifoStillLemma
<1> QED BY <1>9, <1>10, <1>11, <1>12, <1>13, <1>14, <1>15 DEF Sound

\* The frames that are released are behind those that are to be read.
LEMMA CReleaseLemma ==
    ASSUME Sound, NEW k \in 1 .. mFrameCount, CRelease(k) PROVE (torn' \/ Sound') /\ FifoStep
<1>0. Located
  BY LocatedLemma
<1>1. /\ UNCHANGED <<mFront, mFlush, mStop, active, limit, limitSeen, cShutdown>>
      /\ UNCHANGED <<sFlush, mStopLast, sShutdown, spc, onlyReady, flush, stop, rear, flushSeen, flushes>>
      /\ UNCHANGED <<NoLimit, playing, lastFlush>> /\ cpc # "flush" /\ cpc' \in {"idle", "restart"}
      /\ k <= cUnreleased /\ cUnreleased' = cUnreleased - k /\ written' = written + k
      /\ mRear' = Ahead(mRear, k)
  BY DEF CRelease, NoLimit, playing, lastFlush, serverVars, Ahead
<1>2. mRear \in Counters /\ mRear' \in Counters /\ mRear \in Int /\ k \in Int /\ k >= 1 /\ k \in Nat
  <2>1. mRear \in Counters /\ mRear \in Int /\ k \in Int /\ k >= 1
    BY SizesLemma DEF Sound, TypeOK, Counters
  <2> QED BY <1>1, <2>1, AheadLemma
<1>3. Slot(mRear) + cUnreleased <= mFrameCountP2 /\ written + cUnreleased <= MaxFrames
  BY DEF Sound, Ring
<1>4. \A p \in Int : Counter(p)' = Counter(p)
  <2>1. ASSUME NEW p \in Int PROVE Counter(p)' = Counter(p)
    <3> DEFINE d == p - (written + k)
    <3>1. d \in Int /\ k + d = p - written
      BY <1>0, <1>2 DEF Located
    <3>2. Counter(p)' = Ahead(Ahead(mRear, k), d) /\ Counter(p) = Ahead(mRear, k + d)
      BY <1>1, <3>1 DEF Counter
    <3> HIDE DEF d
    <3> QED BY <1>2, <3>1, <3>2, AheadLemma
  <2> QED BY <2>1
<1>5. filled' = (written + k) - read /\ read' = read
  <2>1. mFront' = Ahead(mRear', read - (written + k))
    <3>1. \A x \in Int : Counter(x)' = Ahead(mRear', x - written')
      BY DEF Counter
    <3>2. mFront' = Counter(read) /\ read \in Int
      BY <1>0, <1>1 DEF Located
    <3> QED BY <1>1, <1>4, <3>1, <3>2
  <2>2. written + k \in Int /\ read \in Int /\ read <= written + k /\ (written + k) - read <= mFrameCount
    BY <1>0, <1>1, <1>2 DEF Located
  <2>3. SubOverflow(mRear', mFront') = (written + k) - read
    BY <1>2, <2>1, <2>2, FillLemma
  <2>4. filled' = (written + k) - read
    BY <2>3 DEF filled
  <2>5. read' = (written + k) - ((written + k) - read)
    BY <1>1, <2>3 DEF read
  <2>6. (written + k) - ((written + k) - read) = read
    BY <2>2
  <2> QED BY <2>4, <2>5, <2>6
<1>6. Slot(mRear) \in 0 .. mFrameCountP2 - 1 /\ Slot(mRear) + k <= mFrameCountP2 /\ mFrameCountP2 \in Int
  BY <1>0, <1>1, <1>2, <1>3, SlotLemma, SizesLemma DEF Located
<1>7. Ring'
  <2>1. filled' \in 0 .. mFrameCount - cUnreleased'
    <3>1. (written + k) - read \in 0 .. mFrameCount - (cUnreleased - k)
      BY <1>0, <1>1, <1>2 DEF Located
    <3> QED BY <1>1, <1>5, <3>1
  <2>2. filled' <= written'
    <3>1. (written + k) - read <= written + k
      BY <1>0, <1>2 DEF Located
    <3> QED BY <1>1, <1>5, <3>1
  <2>3. Slot(mRear') + cUnreleased' <= mFrameCountP2
    <3>1. CASE Slot(mRear) + k < mFrameCountP2
      <4>1. Slot(mRear') = Slot(mRear) + k
        BY <1>1, <1>2, <3>1, SlotLemma
      <4>2. (Slot(mRear) + k) + (cUnreleased - k) <= mFrameCountP2
        BY <1>0, <1>2, <1>3, <1>6 DEF Located
      <4> QED BY <1>1, <4>1, <4>2
    <3>2. CASE Slot(mRear) + k = mFrameCountP2
      <4>1. Slot(mRear') = 0
        BY <1>1, <1>2, <3>2, SlotLemma
      <4>2. 0 + (cUnreleased - k) <= mFrameCountP2
        BY <1>0, <1>2, <1>3, <1>6, <3>2 DEF Located
      <4> QED BY <1>1, <4>1, <4>2
    <3> QED BY <1>2, <1>6, <3>1, <3>2
  <2>4. written' + cUnreleased' <= MaxFrames
    <3>1. (written + k) + (cUnreleased - k) <= MaxFrames
      BY <1>0, <1>2, <1>3 DEF Located
    <3> QED BY <1>1, <3>1
  <2>5. playing' <= filled'
    <3>1. playing <= (written + k) - read
      BY <1>0, <1>2 DEF Located
    <3> QED BY <1>1, <1>5, <3>1
  <2>6. ASSUME NEW p \in Int, read <= p, p < written + k PROVE buffer'[Slot(Counter(p))] = p
    <3>1. /\ DOMAIN buffer = 0 .. mFrameCountP2 - 1
          /\ buffer' = [s \in DOMAIN buffer |->
                          IF s \in Slot(mRear) .. Slot(mRear) + k - 1
                            THEN written + (s - Slot(mRear)) ELSE buffer[s]]
      BY DEF CRelease, Sound, TypeOK
    <3>2. CASE p < written
      <4>1. p \in read .. written - 1 /\ written - read + k <= mFrameCount
        BY <1>0, <1>1, <1>2, <2>6, <3>2 DEF Located
      <4>2. /\ Slot(Counter(p)) \in 0 .. mFrameCountP2 - 1
            /\ Slot(Counter(p)) \notin Slot(mRear) .. Slot(mRear) + k - 1
        BY <1>2, <1>6, <4>1, ApartLemma
      <4>3. buffer[Slot(Counter(p))] = p
        BY <4>1 DEF Sound, Ring
      <4> QED BY <3>1, <4>2, <4>3
    <3>3. CASE written <= p
      <4> DEFINE j == p - written
      <4>1. j \in Nat /\ j < k /\ Slot(mRear) + j < mFrameCountP2 /\ written + j = p
        BY <1>0, <1>2, <1>6, <2>6, <3>3 DEF Located
      <4>2. Counter(p) = Ahead(mRear, j)
        BY DEF Counter
      <4> HIDE DEF j
      <4>3. Slot(Counter(p)) = Slot(mRear) + j
        BY <1>2, <4>1, <4>2, SlotLemma
      <4>4. /\ Slot(mRear) + j \in 0 .. mFrameCountP2 - 1
            /\ Slot(mRear) + j \in Slot(mRear) .. Slot(mRear) + k - 1
            /\ written + ((Slot(mRear) + j) - Slot(mRear)) = p
        BY <1>0, <1>2, <1>6, <4>1 DEF Located
      <4> QED BY <3>1, <4>3, <4>4
    <3> QED BY <1>0, <2>6, <3>2, <3>3 DEF Located
  <2>7. \A p \in read' .. written' - 1 : buffer'[Slot(Counter(p)')] = p
    <3>1. \A p \in read .. (written + k) - 1 : p \in Int /\ read <= p /\ p < written + k
      BY <1>0, <1>2 DEF Located
    <3>2. \A p \in read .. (written + k) - 1 : buffer'[Slot(Counter(p)')] = p
      BY <1>4, <2>6, <3>1
    <3> QED BY <1>1, <1>5, <3>2
  <2> QED BY <2>1, <2>2, <2>3, <2>4, <2>5, <2>7 DEF Ring
<1>8. TypeOK'
  <2>1. buffer' \in [0 .. mFrameCountP2 - 1 -> {Dirty} \cup 0 .. MaxFrames]
    <3>1. buffer \in [0 .. mFrameCountP2 - 1 -> {Dirty} \cup 0 .. MaxFrames]
      BY DEF Sound, TypeOK
    <3>2. \A s \in Slot(mRear) .. Slot(mRear) + k - 1 : written + (s - Slot(mRear)) \in 0 .. MaxFrames
      BY <1>0, <1>1, <1>2, <1>3, <1>6 DEF Located
    <3>3. buffer' = [s \in DOMAIN buffer |->
                      IF s \in Slot(mRear) .. Slot(mRear) + k - 1
                        THEN written + (s - Slot(mRear)) ELSE buffer[s]]
      BY DEF CRelease
    <3> QED BY <3>1, <3>2, <3>3
  <2>2. cUnreleased - k \in 0 .. mFrameCount /\ written + k \in 0 .. MaxFrames
    BY <1>0, <1>1, <1>2, <1>3 DEF Located
  <2>3. torn' \in BOOLEAN
    BY Zenon DEF CRelease
  <2> QED BY <1>1, <1>2, <2>1, <2>2, <2>3 DEF Sound, TypeOK, CRelease, serverVars
<1>9. NeverShutDown'
  BY <1>1 DEF Sound, NeverShutDown
\* If the mixer is between two loads, it has missed nothing.
<1>10. ASSUME ~torn' PROVE /\ spc \in {"flush", "stop", "rear"} => onlyReady \/ flush = mFlush
                           /\ spc = "rear" => onlyReady \/ stop = mStop
  BY <1>10 DEF CRelease, Missed
<1>11. ASSUME ~torn' PROVE Flushes'
  <2>1. lastFlush <= written'
    <3>1. lastFlush <= written + k
      BY <1>0, <1>2 DEF Located
    <3> QED BY <1>1, <3>1
  <2>2. Obtaining' = Obtaining
    BY <1>1 DEF Obtaining
  <2> QED BY <1>0, <1>1, <1>4, <1>5, <1>10, <1>11, <2>1, <2>2 DEF Sound, Flushes, Located
<1>12. Stops'
  <2>1. limit # NoLimit => limit <= written'
    <3>1. limit # NoLimit => limit <= written + k
      BY <1>0, <1>2 DEF Sound, Stops, Located
    <3> QED BY <1>1, <3>1
  <2> QED BY <1>0, <1>1, <1>4, <1>5, <2>1 DEF Sound, Stops, StopHolds, Located
<1>13. ASSUME ~torn' PROVE Loads'
  <2>1. \A p \in read .. written : /\ p \in Int /\ p \in read .. written + k
                                   /\ \A q \in read .. p : q \in Int
    BY <1>0, <1>2 DEF Located
  <2>2. \A p \in read .. written : Loaded(p) => Loaded(p)'
    BY <1>1, <1>4, <1>5, <2>1 DEF Loaded
  <2>3. spc = "rear" => onlyReady \/ Loaded(written)'
    <3>1. limit # NoLimit => limit <= written + k
      BY <1>0, <1>2 DEF Sound, Stops, Located
    <3>2. spc = "rear" => onlyReady \/ (flush = mFlush /\ stop = mStop)
      BY <1>10, <1>13
    <3> QED BY <1>1, <3>1, <3>2 DEF Loaded
  <2>4. ~active => spc = "idle"
    BY DEF Sound, Loads
  <2>5. spc = "last" => \E p \in read .. written : rear = Counter(p) /\ (onlyReady \/ Loaded(p))
    BY DEF Sound, Loads
  <2> QED BY <1>1, <1>4, <1>5, <2>1, <2>2, <2>3, <2>4, <2>5 DEF Loads
<1>14. FifoStep
  <2>1. written + k \in written + 1 .. read + mFrameCount
    BY <1>0, <1>1, <1>2 DEF Located
  <2>2. Fifo!Write
    BY <1>1, <1>5, <2>1 DEF Fifo!Write
  <2> QED BY <2>2 DEF FifoStep, Fifo!FifoNext
<1> QED BY <1>7, <1>8, <1>9, <1>11, <1>12, <1>13, <1>14 DEF Sound

-----------------------------------------------------------------------------
(* What holds of a torn track too.                                         *)

\* The counter that flushBufferIfNeeded() stores.
LEMMA NewFrontTypeLemma ==
    ASSUME NEW front \in Counters, NEW r \in Counters, NEW f \in Counters
    PROVE  NewFront(front, r, f) \in Counters
<1> DEFINE rebased == UpperBits(front) + Masked(f)
<1>1. rebased \in Counters /\ OverflowBit \in Int
  BY UpperLemma, SizesLemma
<1>2. rebased \in Int
  BY <1>1, SizesLemma DEF Counters
<1>3. (rebased + OverflowBit) % Wrap \in Counters
  BY <1>1, <1>2, AheadLemma DEF Ahead
<1> QED BY <1>1, <1>3 DEF NewFront

\* The counter that a stop or flush stores, also where the upper bits wrap.
LEMMA SignalTypeLemma ==
    ASSUME NEW x \in Counters, mRear \in Counters PROVE Signal(x) \in Counters
<1>1. /\ UpperBits(x) \in Int /\ UpperBits(x) >= 0 /\ UpperBits(x) + OverflowBit <= Wrap
      /\ OverflowBit \in Int /\ OverflowBit > 0 /\ Wrap \in Int /\ OverflowBit <= Wrap
  BY UpperLemma, SizesLemma
<1>2. CASE UpperBits(x) + OverflowBit < Wrap
  BY <1>2, SignalLemma
<1>3. CASE UpperBits(x) + OverflowBit = Wrap
  <2>1. Mod(UpperBits(x) + OverflowBit, Wrap) = (UpperBits(x) + OverflowBit) - Wrap
    BY <1>1, <1>3, ModNear
  <2>2. Masked(mRear) \in 0 .. OverflowBit - 1
    BY UpperLemma
  <2>3. Signal(x) = 0 + Masked(mRear)
    BY <1>1, <1>3, <2>1 DEF Signal, Mod
  <2> QED BY <1>1, <2>2, <2>3 DEF Counters
<1> QED BY <1>1, <1>2, <1>3

\* Every step keeps the types and the bounds on what the client writes.
LEMMA TypedLemma ==
    ASSUME Typed, [Next]_vars PROVE Typed'
<1>0. /\ TypeOK /\ written + cUnreleased <= MaxFrames /\ lastFlush \in flushes /\ lastFlush <= written
      /\ \A f \in flushes : f <= lastFlush
  BY DEF Typed
<1>1. /\ mFrameCount \in Int /\ mFrameCount >= 1 /\ MaxFrames \in Int /\ MaxFrames >= 0
      /\ mFrameCountP2 \in Int /\ mFrameCountP2 >= 1 /\ NoLimit = MaxFrames + 1
      /\ 0 \in Counters /\ NoLimit \in Positions
  BY SizesLemma, BoundsAssumption DEF NoLimit, Counters, Positions
<1>2. /\ mFront \in Counters /\ mRear \in Counters /\ mFlush \in Counters /\ mStop \in Counters
      /\ flush \in Counters /\ sFlush \in Counters /\ mStopLast \in Counters
      /\ written \in Int /\ 0 <= written /\ written <= MaxFrames /\ written \in Positions
      /\ cUnreleased \in Int /\ 0 <= cUnreleased /\ cUnreleased <= mFrameCount
      /\ sUnreleased \in Int /\ 0 <= sUnreleased /\ sUnreleased <= mFrameCount
      /\ flushes \subseteq Positions /\ flushes \subseteq Int
      /\ mBufferSizeInFrames \in 1 .. mFrameCount
      /\ buffer \in [0 .. mFrameCountP2 - 1 -> {Dirty} \cup 0 .. MaxFrames]
  BY <1>0, <1>1 DEF TypeOK, Positions
<1>3. ASSUME UNCHANGED <<written, cUnreleased, flushes>>, TypeOK' PROVE Typed'
  BY <1>0, <1>3 DEF Typed, lastFlush
<1>4. mFront \in Int /\ mRear \in Int
  BY <1>2, SizesLemma DEF Counters
<1>5. CASE SLoadFlush
  <2>1. UNCHANGED <<written, cUnreleased, flushes>>
    BY <1>5 DEF SLoadFlush, clientVars
  <2>2. Max(flushes) \in Positions
    BY <1>0, <1>2 DEF lastFlush
  <2>3. TypeOK'
    BY <1>0, <1>5, <2>2 DEF TypeOK, SLoadFlush, cblkVars, clientVars
  <2> QED BY <1>3, <2>1, <2>3
<1>6. CASE SFlushBuffer
  <2>1. UNCHANGED <<written, cUnreleased, flushes>>
    BY <1>6 DEF SFlushBuffer, clientVars, historyVars
  <2>2. mFront' \in Counters
    BY <1>2, <1>6, NewFrontTypeLemma DEF SFlushBuffer
  <2>3. TypeOK'
    BY <1>0, <1>6, <2>2 DEF TypeOK, SFlushBuffer, clientVars, historyVars
  <2> QED BY <1>3, <2>1, <2>3
<1>7. CASE SLoadStop \/ SLoadRear
  <2>1. UNCHANGED <<written, cUnreleased, flushes>>
    BY <1>7 DEF SLoadStop, SLoadRear, clientVars, historyVars
  <2>2. TypeOK'
    BY <1>0, <1>7 DEF TypeOK, SLoadStop, SLoadRear, cblkVars, clientVars, historyVars
  <2> QED BY <1>3, <2>1, <2>2
<1>8. ASSUME NEW ask \in 1 .. mFrameCount, SObtain(ask) PROVE Typed'
  <2>1. UNCHANGED <<written, cUnreleased, flushes>>
    BY <1>8 DEF SObtain, clientVars, historyVars
  <2> DEFINE got == SubOverflow(GetRear(stop, rear, mStopLast, mFront), mFront)
             part1 == Part1(mFront, got, ask)
  <2>2. /\ ~InRange(got) => sShutdown' = TRUE /\ sUnreleased' \in {0, sUnreleased} /\ spc' = "idle"
        /\ InRange(got) => /\ sUnreleased' \in {sUnreleased, part1} /\ spc' \in {"hold", "idle"}
                           /\ sShutdown' = sShutdown
    BY <1>8 DEF SObtain
  <2>3. InRange(got) => part1 \in 0 .. mFrameCount
    <3> HIDE DEF got
    <3>1. ask \in Nat \ {0}
      BY <1>1
    <3>2. InRange(got) => got \in Nat /\ got <= mFrameCount
      BY <1>1 DEF InRange
    <3>3. InRange(got) => part1 \in 0 .. got
      BY <1>2, <3>1, <3>2, PartLemma
    <3> QED BY <1>1, <3>2, <3>3
  <2> HIDE DEF got, part1
  <2>4. sUnreleased' \in 0 .. mFrameCount /\ spc' \in {"hold", "idle"} /\ sShutdown' \in BOOLEAN
    <3>1. sShutdown \in BOOLEAN /\ 0 \in 0 .. mFrameCount /\ sUnreleased \in 0 .. mFrameCount
      BY <1>0, <1>1 DEF TypeOK
    <3>2. CASE InRange(got)
      BY <2>2, <2>3, <3>1, <3>2
    <3>3. CASE ~InRange(got)
      BY <2>2, <3>1, <3>3
    <3> QED BY <3>2, <3>3
  <2>5. TypeOK'
    BY <1>0, <1>1, <1>8, <2>4 DEF TypeOK, SObtain, cblkVars, clientVars, historyVars
  <2> QED BY <1>3, <2>1, <2>5
<1>9. ASSUME NEW k \in 0 .. mFrameCount, SRelease(k) PROVE Typed'
  <2>1. UNCHANGED <<written, cUnreleased, flushes>>
    BY <1>9 DEF SRelease, clientVars, historyVars
  <2>2. mFront' \in Counters
    <3>1. k \in Int /\ mFront' = Ahead(mFront, k)
      BY <1>1, <1>9 DEF SRelease, Ahead
    <3> QED BY <1>4, <3>1, AheadLemma
  <2>3. sUnreleased' \in 0 .. mFrameCount /\ spc' \in {"hold", "idle"}
    BY <1>1, <1>2, <1>9 DEF SRelease
  <2>4. TypeOK'
    BY <1>0, <1>9, <2>2, <2>3 DEF TypeOK, SRelease, clientVars, historyVars
  <2> QED BY <1>3, <2>1, <2>4
<1>10. ASSUME NEW underrun \in BOOLEAN, SDeactivate(underrun) PROVE Typed'
  <2>1. UNCHANGED <<written, cUnreleased, flushes>>
    BY <1>10 DEF SDeactivate, clientVars, historyVars
  <2>2. disabled' \in BOOLEAN /\ active' \in BOOLEAN
    BY <1>10, Zenon DEF SDeactivate
  <2>3. TypeOK'
    BY <1>0, <1>10, <2>2 DEF TypeOK, SDeactivate, serverVars, clientVars, historyVars
  <2> QED BY <1>3, <2>1, <2>3
<1>11. ASSUME NEW accepted \in BOOLEAN, TrackStart(accepted)
       PROVE  /\ active' \in BOOLEAN /\ mStopLast' \in Counters /\ mFront' \in Counters
              /\ sFlush' \in Counters /\ sShutdown' \in BOOLEAN /\ torn' \in BOOLEAN
              /\ limit' \in Positions /\ limitSeen' \in Positions
  <2>1. active' \in BOOLEAN /\ torn' \in BOOLEAN
    BY <1>11, Zenon DEF TrackStart
  <2>2. limit' \in Positions /\ limitSeen' \in Positions /\ mStopLast' \in Counters
    BY <1>0, <1>1, <1>2, <1>11 DEF TrackStart, TypeOK
  <2>3. sShutdown' \in BOOLEAN
    <3>1. \/ sShutdown' = sShutdown
          \/ sShutdown' = ~InRange(SubOverflow(GetRear(mStop, mRear, mStopLast', mFront'), mFront'))
      BY <1>11 DEF TrackStart
    <3>2. sShutdown \in BOOLEAN
      BY <1>0 DEF TypeOK
    <3> QED BY <3>1, <3>2, Zenon
  <2>4. mFront' \in Counters /\ sFlush' \in Counters
    <3>1. mFront' \in {mFront, NewFront(mFront, mRear, mFlush)} /\ sFlush' \in {sFlush, mFlush}
      BY <1>11 DEF TrackStart
    <3> QED BY <1>2, <3>1, NewFrontTypeLemma
  <2> QED BY <2>1, <2>2, <2>3, <2>4
<1>12. ASSUME NEW accepted \in BOOLEAN, CRestartIfDisabled(accepted) PROVE Typed'
  <2>1. UNCHANGED <<written, cUnreleased, flushes>>
    BY <1>12 DEF CRestartIfDisabled
  <2>2. TypeOK'
    <3>1. CASE mState = "ACTIVE"
      BY <1>0, <1>11, <1>12, <3>1 DEF TypeOK, CRestartIfDisabled
    <3>2. CASE mState # "ACTIVE"
      BY <1>0, <1>12, <3>2 DEF TypeOK, CRestartIfDisabled
    <3> QED BY <3>1, <3>2
  <2> QED BY <1>3, <2>1, <2>2
<1>13. ASSUME NEW accepted \in BOOLEAN, CStart(accepted) PROVE Typed'
  <2>1. UNCHANGED <<written, cUnreleased, flushes>>
    BY <1>13 DEF CStart
  <2>2. TypeOK'
    BY <1>0, <1>11, <1>13 DEF TypeOK, CStart
  <2> QED BY <1>3, <2>1, <2>2
<1>14. ASSUME NEW ask \in 1 .. mFrameCount, CObtain(ask) PROVE Typed'
  <2> DEFINE fill == SubOverflow(mRear, mFront)
             part1 == Part1(mRear, ClientAvail(fill), ask)
  <2>1. /\ ~InRange(fill) => cShutdown' = TRUE /\ cUnreleased' = 0 /\ UNCHANGED buffer
        /\ InRange(fill) => /\ written + part1 <= MaxFrames /\ cUnreleased' = part1
                            /\ buffer' = [s \in DOMAIN buffer |->
                                            IF s \in Slot(mRear) .. Slot(mRear) + part1 - 1
                                              THEN Dirty ELSE buffer[s]]
                            /\ UNCHANGED cShutdown
        /\ UNCHANGED <<written, flushes>>
    BY <1>14 DEF CObtain, historyVars
  <2>2. InRange(fill) => part1 \in 0 .. mFrameCount
    <3> DEFINE avail == ClientAvail(fill)
    <3>1. ask \in Nat \ {0}
      BY <1>1
    <3>2. InRange(fill) => fill \in 0 .. mFrameCount /\ avail \in 0 .. mFrameCount - fill
      BY <1>2, AvailLemma DEF InRange
    <3> HIDE DEF avail, fill
    <3>3. InRange(fill) => avail \in Nat /\ avail <= mFrameCount
      BY <1>1, <3>2
    <3>4. InRange(fill) => Part1(mRear, avail, ask) \in 0 .. avail
      BY <1>2, <3>1, <3>3, PartLemma
    <3>5. InRange(fill) => Part1(mRear, avail, ask) \in 0 .. mFrameCount
      BY <1>1, <3>3, <3>4
    <3> QED BY <3>5 DEF avail
  <2> HIDE DEF fill, part1
  <2>3. /\ cUnreleased' \in 0 .. mFrameCount /\ written' + cUnreleased' <= MaxFrames
        /\ cShutdown' \in BOOLEAN
    <3>1. cShutdown \in BOOLEAN
      BY <1>0 DEF TypeOK
    <3>2. CASE InRange(fill)
      BY <1>0, <1>1, <1>2, <2>1, <2>2, <3>1, <3>2
    <3>3. CASE ~InRange(fill)
      BY <1>0, <1>1, <1>2, <2>1, <3>3
    <3> QED BY <3>2, <3>3
  <2>4. buffer' \in [0 .. mFrameCountP2 - 1 -> {Dirty} \cup 0 .. MaxFrames]
    BY <1>2, <2>1
  <2>5. TypeOK'
    BY <1>0, <1>14, <2>3, <2>4 DEF TypeOK, CObtain, serverVars, historyVars
  <2> QED BY <1>0, <2>1, <2>3, <2>5 DEF Typed, lastFlush
<1>15. ASSUME NEW k \in 1 .. mFrameCount, CRelease(k) PROVE Typed'
  <2>1. /\ k \in Int /\ k >= 1 /\ k <= cUnreleased /\ cUnreleased' = cUnreleased - k
        /\ written' = written + k /\ UNCHANGED flushes /\ torn' \in BOOLEAN
        /\ cpc' \in {"idle", "restart", "flush", "binder"}
    <3>1. torn' \in BOOLEAN
      BY <1>15, Zenon DEF CRelease
    <3> QED BY <1>1, <1>15, <3>1 DEF CRelease
  <2>2. mRear' \in Counters
    BY <1>4, <1>15, <2>1, AheadLemma DEF CRelease, Ahead
  <2>3. Slot(mRear) \in Int
    BY <1>1, <1>2, SlotLemma
  <2>4. buffer' \in [0 .. mFrameCountP2 - 1 -> {Dirty} \cup 0 .. MaxFrames]
    <3>1. \A s \in Slot(mRear) .. Slot(mRear) + k - 1 : written + (s - Slot(mRear)) \in 0 .. MaxFrames
      BY <1>0, <1>1, <1>2, <2>1, <2>3
    <3>2. buffer' = [s \in DOMAIN buffer |->
                      IF s \in Slot(mRear) .. Slot(mRear) + k - 1
                        THEN written + (s - Slot(mRear)) ELSE buffer[s]]
      BY <1>15 DEF CRelease
    <3> QED BY <1>2, <3>1, <3>2
  <2>5. /\ cUnreleased' \in 0 .. mFrameCount /\ written' \in 0 .. MaxFrames
        /\ written' + cUnreleased' <= MaxFrames /\ lastFlush <= written'
    BY <1>0, <1>1, <1>2, <2>1
  <2>6. TypeOK'
    BY <1>0, <1>15, <2>1, <2>2, <2>4, <2>5 DEF TypeOK, CRelease, serverVars
  <2> QED BY <1>0, <2>1, <2>5, <2>6 DEF Typed, lastFlush
<1>16. ASSUME NEW size \in 1 .. mFrameCount + 1, CSetBufferSize(size) PROVE Typed'
  <2>1. UNCHANGED <<written, cUnreleased, flushes>>
    BY <1>16 DEF CSetBufferSize, historyVars
  <2>2. TypeOK'
    BY <1>0, <1>16, ClippedLemma DEF TypeOK, CSetBufferSize, cblkVars, serverVars, historyVars
  <2> QED BY <1>3, <2>1, <2>2
<1>17. CASE CPause
  <2>1. UNCHANGED <<written, cUnreleased, flushes>>
    BY <1>17 DEF CPause, historyVars
  <2>2. TypeOK'
    BY <1>0, <1>17 DEF TypeOK, CPause, cblkVars, serverVars, historyVars
  <2> QED BY <1>3, <2>1, <2>2
<1>18. CASE CStop \/ CFlushStop
  <2>1. UNCHANGED <<written, cUnreleased, flushes>> /\ SendStop
    BY <1>18 DEF CStop, CFlushStop, SendStop
  <2>2. mStop' \in Counters /\ limit' \in Positions /\ limitSeen' \in Positions
    BY <1>1, <1>2, <2>1, SignalTypeLemma DEF SendStop
  <2>3. TypeOK'
    BY <1>0, <1>18, <2>2 DEF TypeOK, CStop, CFlushStop, SendStop, serverVars
  <2> QED BY <1>3, <2>1, <2>3
<1>19. CASE CFlushFlush
  <2>1. UNCHANGED <<written, cUnreleased>> /\ flushes' = flushes \cup {written} /\ mFlush' \in Counters
    BY <1>2, <1>19, SignalTypeLemma DEF CFlushFlush
  <2>2. flushes' \subseteq Int /\ written \in flushes' /\ \A f \in flushes' : f <= written
    BY <1>0, <1>2, <2>1
  <2>3. lastFlush' = written
    BY <2>2, MaxLemma DEF lastFlush
  <2>4. flushes' \subseteq Positions
    BY <1>2, <2>1
  <2>5. TypeOK'
    BY <1>0, <1>19, <2>1, <2>4 DEF TypeOK, CFlushFlush, serverVars
  <2> QED BY <1>0, <1>2, <2>1, <2>2, <2>3, <2>5 DEF Typed
<1>20. CASE CFlushBinder
  <2>1. UNCHANGED <<written, cUnreleased, flushes>>
    BY <1>20 DEF CFlushBinder, historyVars
  <2>2. mFront' \in Counters /\ sFlush' \in Counters
    <3>1. mFront' \in {mFront, NewFront(mFront, mRear, mFlush)} /\ sFlush' \in {sFlush, mFlush}
      BY <1>20 DEF CFlushBinder
    <3> QED BY <1>2, <3>1, NewFrontTypeLemma
  <2>3. TypeOK'
    BY <1>0, <1>20, <2>2 DEF TypeOK, CFlushBinder, historyVars
  <2> QED BY <1>3, <2>1, <2>3
<1>21. CASE UNCHANGED vars
  <2>1. UNCHANGED <<written, cUnreleased, flushes>>
    BY <1>21 DEF vars, clientVars, historyVars
  <2>2. TypeOK'
    BY <1>0, <1>21 DEF TypeOK, vars, cblkVars, serverVars, clientVars, historyVars
  <2> QED BY <1>3, <2>1, <2>2
<1> QED
  BY <1>5, <1>6, <1>7, <1>8, <1>9, <1>10, <1>12, <1>13, <1>14, <1>15, <1>16, <1>17, <1>18, <1>19,
     <1>20, <1>21 DEF Next, Mixer, Client

-----------------------------------------------------------------------------
(* The theorems.                                                           *)

\* An empty ring, wherever the counters stand.
LEMMA InitLemma ==
    ASSUME Init PROVE Sound /\ torn = FALSE
<1>1. /\ mFrameCount \in Int /\ mFrameCount >= 1 /\ MaxFrames \in Int /\ MaxFrames >= 0
      /\ Wrap \in Int /\ Wrap > 0 /\ mFrameCountP2 \in Int /\ mFrameCountP2 >= 1
  BY SizesLemma, BoundsAssumption
<1>2. /\ mRear \in Counters /\ mFront = mRear /\ written = 0 /\ cUnreleased = 0 /\ flushes = {0}
      /\ mFlush = 0 /\ sFlush = 0 /\ mStop = 0 /\ mStopLast = 0 /\ flushSeen = 0 /\ spc = "idle"
      /\ limit = NoLimit /\ limitSeen = NoLimit /\ cpc = "idle"
  BY SizesAssumption DEF Init, Counters
<1>3. TypeOK
  <2>1. 0 \in Counters /\ 0 \in Positions /\ NoLimit \in Positions
    BY <1>1 DEF Counters, Positions, NoLimit
  <2>2. buffer \in [0 .. mFrameCountP2 - 1 -> {Dirty} \cup 0 .. MaxFrames]
    BY DEF Init
  <2>3. mBufferSizeInFrames \in 1 .. mFrameCount /\ 0 \in 0 .. mFrameCount /\ 0 \in 0 .. MaxFrames
    BY <1>1 DEF Init
  <2> QED BY <1>2, <2>1, <2>2, <2>3 DEF Init, TypeOK
<1>4. filled = 0 /\ read = 0 /\ playing = 0
  <2>1. mRear \in Int /\ 0 - 0 = 0 /\ 0 \in Int /\ 0 <= 0
    BY <1>1, <1>2 DEF Counters
  <2>2. Ahead(mRear, 0) = mRear
    BY <1>2, <2>1, AheadLemma
  <2>3. SubOverflow(mRear, mRear) = 0
    <3>1. -Half <= 0 /\ 0 < Half
      BY SizesLemma
    <3> QED BY <1>2, <2>1, <2>2, <3>1, DifferenceLemma
  <2> QED BY <1>2, <2>3 DEF filled, read, playing
<1>5. lastFlush = 0
  BY <1>2, MaxLemma DEF lastFlush
<1>6. NeverShutDown
  BY DEF Init, NeverShutDown
<1>7. Ring
  BY <1>1, <1>2, <1>4, SlotLemma DEF Ring
<1>8. Flushes
  BY <1>2, <1>4, <1>5 DEF Flushes, Obtaining
<1>9. Stops
  <2>1. UpperBits(0) + 0 <= UpperBits(0)
    <3>1. UpperBits(0) \in Int
      BY <1>1, UpperLemma DEF Counters
    <3> QED BY <3>1
  <2> QED BY <1>2, <2>1 DEF Stops, StopHolds
<1>10. Loads
  BY <1>2 DEF Loads
<1> QED BY <1>3, <1>6, <1>7, <1>8, <1>9, <1>10 DEF Sound, Init

\* A step from a sound state is a step of the queue of frames, and leads to a sound state
\* unless it tears an obtainBuffer().
LEMMA SoundLemma ==
    ASSUME Sound, [Next]_vars PROVE (torn' \/ Sound') /\ FifoStep
<1>1. CASE SLoadFlush
  BY <1>1, SLoadFlushLemma
<1>2. CASE SFlushBuffer
  BY <1>2, SFlushBufferLemma
<1>3. CASE SLoadStop
  BY <1>3, SLoadStopLemma
<1>4. CASE SLoadRear
  BY <1>4, SLoadRearLemma
<1>5. CASE \E ask \in 1 .. mFrameCount : SObtain(ask)
  BY <1>5, SObtainLemma
<1>6. CASE \E k \in 0 .. mFrameCount : SRelease(k)
  BY <1>6, SReleaseLemma
<1>7. CASE \E underrun \in BOOLEAN : SDeactivate(underrun)
  BY <1>7, SDeactivateLemma
<1>8. CASE \E ask \in 1 .. mFrameCount : CObtain(ask)
  BY <1>8, CObtainLemma
<1>9. CASE \E k \in 1 .. mFrameCount : CRelease(k)
  BY <1>9, CReleaseLemma
<1>10. CASE \E accepted \in BOOLEAN : CRestartIfDisabled(accepted)
  BY <1>10, CRestartLemma
<1>11. CASE \E size \in 1 .. mFrameCount + 1 : CSetBufferSize(size)
  BY <1>11, CSetBufferSizeLemma
<1>12. CASE \E accepted \in BOOLEAN : CStart(accepted)
  BY <1>12, CStartLemma
<1>13. CASE CPause
  BY <1>13, CPauseLemma
<1>14. CASE CStop
  BY <1>14, SendStopLemma DEF CStop
<1>15. CASE CFlushStop
  BY <1>15, SendStopLemma DEF CFlushStop
<1>16. CASE CFlushFlush
  BY <1>16, CFlushFlushLemma
<1>17. CASE CFlushBinder
  BY <1>17, CFlushBinderLemma
<1>18. CASE UNCHANGED vars
  <2>1. /\ UNCHANGED <<mFront, mRear, mFlush, mStop, disabled, buffer, mState, cpc, cUnreleased>>
        /\ UNCHANGED <<mBufferSizeInFrames, cShutdown, active, sFlush, mStopLast, sShutdown, spc>>
        /\ UNCHANGED <<onlyReady, flush, stop, rear, sUnreleased, written, flushes, limit>>
        /\ UNCHANGED <<flushSeen, limitSeen, torn>>
    BY <1>18 DEF vars, cblkVars, serverVars, clientVars, historyVars
  <2>2. Sound'
    BY <2>1 DEF Sound, TypeOK, NeverShutDown, Ring, Flushes, Stops, Loads, Loaded, filled, lastFlush,
                Obtaining, playing, read, Counter, StopHolds
  <2>3. UNCHANGED <<written, read, playing, flushes>>
    BY <2>1 DEF read, playing
  <2> QED BY <2>2, <2>3, FifoStillLemma
<1> QED
  BY <1>1, <1>2, <1>3, <1>4, <1>5, <1>6, <1>7, <1>8, <1>9, <1>10, <1>11, <1>12, <1>13, <1>14,
     <1>15, <1>16, <1>17, <1>18 DEF Next, Mixer, Client

\* A torn obtainBuffer() is remembered.
LEMMA TornLemma ==
    ASSUME torn \in BOOLEAN, [Next]_vars
    PROVE  torn' \in BOOLEAN /\ (torn => torn')
<1>1. CASE UNCHANGED torn
  BY <1>1
<1>2. ASSUME NEW accepted \in BOOLEAN, TrackStart(accepted) PROVE torn' = (torn \/ Missed)
  BY <1>2 DEF TrackStart
<1>3. ASSUME NEW accepted \in BOOLEAN, CRestartIfDisabled(accepted) \/ CStart(accepted)
      PROVE  torn' = torn \/ torn' = (torn \/ Missed)
  <2>1. UNCHANGED torn \/ TrackStart(accepted)
    BY <1>3, Zenon DEF CRestartIfDisabled, CStart
  <2> QED BY <1>2, <2>1
<1>4. ASSUME NEW k \in 1 .. mFrameCount, CRelease(k) PROVE torn' = (torn \/ (Missed /\ spc # "last"))
  BY <1>4 DEF CRelease
<1>5. CASE Mixer
  BY <1>1, <1>5 DEF Mixer, SLoadFlush, SFlushBuffer, SLoadStop, SLoadRear, SObtain, SRelease,
                    SDeactivate, historyVars
<1>6. CASE Client
  <2>1. CASE \E ask \in 1 .. mFrameCount : CObtain(ask)
    BY <1>1, <2>1 DEF CObtain, historyVars
  <2>2. CASE \E k \in 1 .. mFrameCount : CRelease(k)
    BY <1>4, <2>2, Zenon
  <2>3. CASE \E accepted \in BOOLEAN : CRestartIfDisabled(accepted) \/ CStart(accepted)
    BY <1>1, <1>3, <2>3, Zenon
  <2>4. CASE \E size \in 1 .. mFrameCount + 1 : CSetBufferSize(size)
    BY <1>1, <2>4 DEF CSetBufferSize, historyVars
  <2>5. CASE CPause \/ CStop \/ CFlushStop \/ CFlushFlush \/ CFlushBinder
    BY <1>1, <2>5 DEF CPause, CStop, CFlushStop, CFlushFlush, CFlushBinder, SendStop, historyVars
  <2> QED BY <1>6, <2>1, <2>2, <2>3, <2>4, <2>5 DEF Client
<1>7. CASE UNCHANGED vars
  BY <1>1, <1>7 DEF vars, historyVars
<1> QED BY <1>5, <1>6, <1>7 DEF Next

\* Every step keeps the invariant and, until an obtainBuffer() is torn, is a step of the
\* queue of frames.
LEMMA NextLemma ==
    ASSUME IInv, [Next]_vars PROVE IInv' /\ (torn \/ FifoStep)
<1>1. Typed /\ torn \in BOOLEAN /\ (torn \/ Sound)
  BY DEF IInv, Typed, TypeOK
<1>2. torn' \in BOOLEAN /\ (torn => torn')
  BY <1>1, TornLemma
<1>3. Sound => (torn' \/ Sound') /\ FifoStep
  BY SoundLemma
<1>4. Typed'
  BY <1>1, TypedLemma
<1>5. IInv'
  BY <1>1, <1>2, <1>3, <1>4, Zenon DEF IInv
<1> QED BY <1>1, <1>3, <1>5

\* The invariant: the types and bounds always, and, unless an obtainBuffer() was torn, the
\* counters enclose the frames that are to be read, a signal that is pending is at its
\* place in the ring, and what obtainBuffer() has loaded is before every signal that it
\* has missed.
THEOREM Invariance == Spec => []IInv
<1>1. ASSUME Init PROVE IInv
  <2>1. Sound
    BY <1>1, InitLemma
  <2>2. Typed
    BY <2>1 DEF Sound, Ring, Flushes, Typed
  <2> QED BY <2>1, <2>2 DEF IInv
<1>2. IInv /\ [Next]_vars => IInv'
  BY NextLemma
<1> QED BY <1>1, <1>2, PTL DEF Spec

\* Only a torn obtainBuffer() can end a track by the overfull check of obtainBuffer(),
\* framesReady() or start(), whatever the sizes of the buffer and of the counters:
\* SoundUnlessTorn.
THEOREM NoShutdown == Spec => []SoundUnlessTorn
<1>1. IInv => SoundUnlessTorn
  BY DEF IInv, Sound, SoundUnlessTorn
<1> QED BY <1>1, Invariance, PTL

\* No frame between mFront and mRear is overwritten or skipped, unless an obtainBuffer()
\* was torn: UnreadFramesIntact.
THEOREM Intact == Spec => []UnreadFramesIntact
<1>1. ASSUME Sound PROVE UnreadFramesIntact
  <2>0. Located
    BY <1>1, LocatedLemma
  <2>1. SubOverflow(mRear, mFront) = written - read
    BY <2>0 DEF Located, filled
  <2>2. mFront \in Counters /\ mRear \in Counters /\ written \in Int /\ read \in Int
    BY <1>1, <2>0 DEF Sound, TypeOK, Located
  <2>3. ASSUME NEW n \in 0 .. (written - read) - 1 PROVE FrameAt(n) = read + n
    <3>1. n \in Int /\ read + n \in read .. written - 1 /\ read + n \in Int
      BY <2>2, <2>3
    <3>2. Slot(mFront + n) = Slot(Ahead(mFront, n))
      BY <2>2, <3>1, SlotLemma
    <3>3. Ahead(mFront, n) = Counter(read + n)
      BY <2>0, <2>2, <3>1, CounterLemma DEF Located
    <3>4. buffer[Slot(Counter(read + n))] = read + n
      BY <1>1, <3>1 DEF Sound, Ring
    <3> QED BY <3>2, <3>3, <3>4 DEF FrameAt
  <2> QED BY <2>1, <2>3 DEF UnreadFramesIntact
<1>2. IInv => UnreadFramesIntact
  BY <1>1 DEF IInv, UnreadFramesIntact
<1> QED BY <1>2, Invariance, PTL

\* What the mixer holds was released by the client, and is past every flush that was
\* stored when obtainBuffer() began, unless one was torn: ChunkIsCurrent.
THEOREM Current == Spec => []ChunkIsCurrent
<1>1. ASSUME Sound PROVE ChunkIsCurrent
  <2>0. Located
    BY <1>1, LocatedLemma
  <2>1. spc = "hold" => flushSeen <= read
    BY <1>1 DEF Sound, Flushes
  <2> QED BY <2>0, <2>1 DEF Located, ChunkIsCurrent
<1>2. IInv => ChunkIsCurrent
  BY <1>1 DEF IInv, ChunkIsCurrent
<1> QED BY <1>2, Invariance, PTL

\* The mixer does not read past a stop or flush that was complete when obtainBuffer()
\* began, until a start, unless an obtainBuffer() was torn: StopHoldsUnlessTorn.
THEOREM StopIsKept == Spec => []StopHoldsUnlessTorn
<1>1. IInv => StopHoldsUnlessTorn
  BY DEF IInv, Sound, Stops, StopHoldsUnlessTorn
<1> QED BY <1>1, Invariance, PTL

\* Until an obtainBuffer() is torn, the ring, its control block and the two proxies
\* implement the queue of frames: frames are handed out in order, each once, and a flush
\* discards exactly what was written before it: ImplementsFifo.
THEOREM Refinement == Spec => ImplementsFifo
<1>1. Init => Fifo!FifoInit
  <2>1. Init => written = 0 /\ flushes = {0} /\ playing = 0 /\ Located
    BY InitLemma, LocatedLemma DEF Init, playing
  <2>2. ASSUME written = 0, Located PROVE read = 0
    BY <2>2 DEF Located
  <2> QED BY <2>1, <2>2 DEF Fifo!FifoInit
<1>2. IInv /\ [Next]_vars => [torn \/ Fifo!FifoNext]_(Fifo!fifoVars)
  BY NextLemma DEF FifoStep, Fifo!fifoVars
<1> QED BY <1>1, <1>2, Invariance, PTL DEF Spec, ImplementsFifo
=============================================================================
