------------------------- MODULE StaticTrackProofs -------------------------
(***************************************************************************)
(* The server of a static track never meets a setting that it would have   *)
(* to refuse, and its count of the frames left is exact, whatever the size *)
(* of the buffer, the loops and positions that are set, and when; and what *)
(* the client shows before its settings have taken effect is what the      *)
(* server makes of them.                                                   *)
(***************************************************************************)
EXTENDS StaticTrack, TLAPS

\* A loop count whose frames can be counted.
CountOK(count) == count >= -1 /\ INT64_MAX > count * mFrameCount + mFrameCount

ValidState(s) ==
    LoopOK(s) /\ CountOK(s.mLoopCount) /\ s.mPosition <= mFrameCount

ValidItem(item) ==
    /\ item.kind = "loop" => LoopOK(item.loop) /\ CountOK(item.loop.mLoopCount)
    /\ item.kind = "position" => item.position <= mFrameCount
    /\ item.kind \in {"create", "start"} => CountOK(item.shown.mLoopCount)

ValidItems == {item \in TodoItems : ValidItem(item)}

\* Whatever is on its way from the application to the server and back is valid.
AllValid ==
    /\ ValidState(pushed) /\ ValidState(polled) /\ ValidState(state) /\ ValidState(server)
    /\ CountOK(posLoop.mLoopCount) /\ CountOK(mPosLoop.mLoopCount)
    /\ todo \in Seq(ValidItems)

\* How the acknowledgement and the published position follow the settings.
QueueOrder ==
    /\ acked <= polledAs /\ polledAs <= sequence
    /\ polledAs = sequence => polled = pushed
    /\ cpc = "idle" => pushed = state
    /\ IF spc = "polled" THEN acked < polledAs ELSE acked = polledAs
    /\ spc \in {"publish", "done"} => ~acted
    /\ spc \notin {"polled", "publish"} => posLoop.asOf = polledAs

\* b has the loop of a, or a later one; a loop that is over stays over.
LoopSince(a, b) ==
    /\ a.mLoopSequence <= b.mLoopSequence
    /\ a.mLoopSequence = b.mLoopSequence =>
          a.mLoopEnd = b.mLoopEnd /\ (a.mLoopCount # 0 => b.mLoopCount # 0)

\* Items to be done that set and restore no loop.
LooplessItems ==
    {item \in TodoItems :
        /\ item.kind = "loop" => item.loop.mLoopCount = 0
        /\ item.kind \in {"create", "start"} => item.shown.mLoopCount = 0}

\* A loop that the client shows comes from one that it has set, and that one from
\* the loop that AudioTrack keeps in order to restore it.
LoopOrigin ==
    /\ LoopSince(server, polled) /\ LoopSince(polled, pushed) /\ LoopSince(pushed, state)
    /\ spc # "polled" => server.mLoopSequence = polled.mLoopSequence
    /\ spc \notin {"polled", "publish"} /\ posLoop.mLoopCount # 0 => polled.mLoopCount # 0
    /\ mPosLoop.mLoopCount # 0 => state.mLoopCount # 0
    /\ mLoop.mLoopCount = 0 =>
          /\ todo \in Seq(LooplessItems)
          /\ state.mLoopCount = 0 \/ (todo # <<>> /\ Head(todo).kind = "loop")

\* The inductive invariant.
IInv == TypeOK /\ AllValid /\ QueueOrder /\ LoopOrigin /\ NoStalePosition /\ ServerSound

-----------------------------------------------------------------------------
(* The operators.                                                          *)

\* Counts that are below a good one are good, and so are no loop and an endless one.
LEMMA CountLemma ==
    /\ CountOK(-1) /\ CountOK(0)
    /\ \A c \in Int : CountOK(c) /\ c > 0 => CountOK(c - 1)
<1>1. CountOK(-1) /\ CountOK(0)
  BY FramesAssumption DEF CountOK
<1>2. ASSUME NEW c \in Int, CountOK(c), c > 0 PROVE CountOK(c - 1)
  <2>1. (c - 1) * mFrameCount = c * mFrameCount - mFrameCount
    BY FramesAssumption
  <2>2. c * mFrameCount \in Int
    BY FramesAssumption
  <2> QED BY <1>2, <2>1, <2>2, FramesAssumption DEF CountOK
<1> QED BY <1>1, <1>2

\* The frames left in a state, as FramesLeft has it for the server's.
Left(s) ==
    CASE s.mLoopCount = -1 -> INT64_MAX
      [] s.mLoopCount = 0 -> mFrameCount - s.mPosition
      [] s.mLoopCount > 0 -> (s.mLoopEnd - s.mPosition)
             + (s.mLoopCount - 1) * (s.mLoopEnd - s.mLoopStart)
             + (mFrameCount - s.mLoopStart)

\* The formula of the code for the frames ready counts the frames left.
LEMMA ReadyIsLeft ==
    ASSUME NEW s \in StaticAudioTrackState, s.mLoopCount >= -1
    PROVE  FramesReady(s) = Left(s)
<1> DEFINE c == s.mLoopCount
           d == s.mLoopEnd - s.mLoopStart
<1>1. c \in Int /\ d \in Int /\ s.mPosition \in Int /\ s.mLoopEnd \in Int /\ s.mLoopStart \in Int
  BY DEF StaticAudioTrackState
<1>2. (c - 1) * d = c * d - d /\ c * d \in Int
  BY <1>1
<1>3. CASE c > 0
  BY <1>1, <1>2, <1>3, FramesAssumption DEF FramesReady, Left
<1>4. CASE c = 0
  BY <1>4 DEF FramesReady, Left
<1>5. CASE c = -1
  BY <1>5 DEF FramesReady, Left
<1> QED BY <1>1, <1>3, <1>4, <1>5

\* The position of a state is before the end of its loop.
Within(s) == s.mLoopCount # 0 => LoopOK(s) /\ s.mPosition < s.mLoopEnd

\* Frames that are left in a good state: at least those up to the end of the loop
\* or of the buffer, and fewer than INT64_MAX unless the loop is endless.
LEMMA LeftBounds ==
    ASSUME NEW s \in StaticAudioTrackState, ValidState(s), Within(s)
    PROVE  /\ Left(s) \in 0 .. INT64_MAX
           /\ s.mLoopCount # -1 => Left(s) < INT64_MAX
           /\ s.mLoopCount # 0 => s.mLoopEnd - s.mPosition <= Left(s)
           /\ s.mLoopCount = 0 => Left(s) = mFrameCount - s.mPosition
           /\ s.mLoopCount = -1 => Left(s) = INT64_MAX
<1> DEFINE c == s.mLoopCount
           d == s.mLoopEnd - s.mLoopStart
<1>1. c \in Int /\ d \in Int /\ s.mPosition \in Nat /\ s.mLoopEnd \in Nat /\ s.mLoopStart \in Nat
  BY DEF StaticAudioTrackState
<1> HIDE DEF c, d
<1>2. c >= -1 /\ s.mPosition <= mFrameCount
  BY DEF ValidState, CountOK, c
<1>3. CASE c > 0
  <2>1. 0 < d /\ d <= mFrameCount /\ s.mPosition < s.mLoopEnd /\ s.mLoopEnd <= mFrameCount
        /\ d = s.mLoopEnd - s.mLoopStart
    BY <1>1, <1>3, FramesAssumption DEF Within, LoopOK, c, d
  <2>2. (c - 1) * d >= 0 /\ (c - 1) * d \in Int /\ (c - 1) * d = c * d - d /\ c * d \in Int
    BY <1>1, <1>3, <2>1
  <2>3. c * d <= c * mFrameCount /\ c * mFrameCount \in Int
    BY <1>1, <1>3, <2>1, FramesAssumption
  <2>4. c * mFrameCount + mFrameCount < INT64_MAX
    BY DEF ValidState, CountOK, c
  <2>5. Left(s) = (s.mLoopEnd - s.mPosition) + (c - 1) * d + (mFrameCount - s.mLoopStart)
    BY <1>3, <1>1 DEF Left, c, d
  <2> HIDE DEF c, d
  <2> QED BY <1>1, <1>2, <1>3, <2>1, <2>2, <2>3, <2>4, <2>5, FramesAssumption DEF c
<1>4. CASE c = 0
  BY <1>1, <1>2, <1>4, FramesAssumption DEF Left, c
<1>5. CASE c = -1
  <2>1. Left(s) = INT64_MAX
    BY <1>5 DEF Left, c
  <2>2. s.mLoopEnd <= mFrameCount
    BY <1>5 DEF Within, LoopOK, c
  <2> QED BY <1>1, <1>2, <1>5, <2>1, <2>2, FramesAssumption DEF c
<1> QED BY <1>1, <1>2, <1>3, <1>4, <1>5

\* What updateStateWithLoop() makes of good states.
LEMMA WithLoopLemma ==
    ASSUME NEW a \in StaticAudioTrackState, NEW b \in StaticAudioTrackState,
           ValidState(a), Within(a), ValidState(b)
    PROVE  /\ WithLoop(a, b) \in StaticAudioTrackState
           /\ ValidState(WithLoop(a, b)) /\ Within(WithLoop(a, b))
           /\ WithLoop(a, b).mLoopSequence = b.mLoopSequence
           /\ LoopSince(a, b) => LoopSince(WithLoop(a, b), b)
<1>1. CASE a.mLoopSequence = b.mLoopSequence
  BY <1>1 DEF WithLoop, LoopSince
<1>2. CASE a.mLoopSequence # b.mLoopSequence
  <2> DEFINE p == IF b.mLoopCount # 0 /\ a.mPosition >= b.mLoopEnd THEN b.mLoopStart
                                                                   ELSE a.mPosition
             r == WithLoop(a, b)
  <2>1. p \in Nat /\ p <= mFrameCount /\ (b.mLoopCount # 0 => p < b.mLoopEnd)
    BY FramesAssumption DEF StaticAudioTrackState, ValidState, LoopOK
  <2>2. r = [b EXCEPT !.mPosition = p, !.mPositionSequence = a.mPositionSequence]
    BY <1>2 DEF WithLoop
  <2> HIDE DEF p
  <2>3. /\ r \in StaticAudioTrackState /\ r.mPosition = p
        /\ r.mLoopSequence = b.mLoopSequence /\ r.mLoopCount = b.mLoopCount
        /\ r.mLoopStart = b.mLoopStart /\ r.mLoopEnd = b.mLoopEnd
    BY <2>1, <2>2 DEF StaticAudioTrackState
  <2> HIDE DEF r
  <2>4. LoopSince(r, b)
    BY <2>3 DEF LoopSince, StaticAudioTrackState
  <2> QED BY <2>1, <2>3, <2>4 DEF ValidState, Within, LoopOK, r
<1> QED BY <1>1, <1>2

\* What updateStateWithPosition() makes of them.
LEMMA WithPositionLemma ==
    ASSUME NEW a \in StaticAudioTrackState, NEW b \in StaticAudioTrackState,
           ValidState(a), Within(a), ValidState(b)
    PROVE  /\ WithPosition(a, b) \in StaticAudioTrackState
           /\ ValidState(WithPosition(a, b)) /\ Within(WithPosition(a, b))
           /\ WithPosition(a, b).mLoopSequence = a.mLoopSequence
           /\ WithPosition(a, b).mLoopEnd = a.mLoopEnd
           /\ WithPosition(a, b).mLoopCount # 0 => a.mLoopCount # 0
<1>1. CASE a.mPositionSequence = b.mPositionSequence
  BY <1>1 DEF WithPosition
<1>2. CASE a.mPositionSequence # b.mPositionSequence
  <2> DEFINE c == IF b.mPosition >= a.mLoopEnd THEN 0 ELSE a.mLoopCount
             r == WithPosition(a, b)
  <2>1. c \in Int /\ CountOK(c) /\ (c # 0 => c = a.mLoopCount /\ b.mPosition < a.mLoopEnd)
    BY CountLemma DEF StaticAudioTrackState, ValidState
  <2>2. r = [a EXCEPT !.mLoopCount = c, !.mPosition = b.mPosition,
                      !.mPositionSequence = b.mPositionSequence]
    BY <1>2 DEF WithPosition
  <2> HIDE DEF c
  <2>3. /\ r \in StaticAudioTrackState /\ r.mPosition = b.mPosition
        /\ r.mLoopSequence = a.mLoopSequence /\ r.mLoopCount = c
        /\ r.mLoopStart = a.mLoopStart /\ r.mLoopEnd = a.mLoopEnd
    BY <2>1, <2>2 DEF StaticAudioTrackState
  <2> HIDE DEF r
  <2> QED BY <2>1, <2>3 DEF ValidState, Within, LoopOK, r
<1> QED BY <1>1, <1>2

\* Settings that are good by themselves are good in whatever state they are
\* adopted, and whichever of the two comes first.
LEMMA AdoptedLemma ==
    ASSUME NEW a \in StaticAudioTrackState, NEW b \in StaticAudioTrackState,
           ValidState(a), Within(a), ValidState(b)
    PROVE  /\ Adopted(a, b) \in StaticAudioTrackState
           /\ ValidState(Adopted(a, b)) /\ Within(Adopted(a, b))
           /\ Adopted(a, b).mLoopSequence = b.mLoopSequence
           /\ LoopSince(a, b) => LoopSince(Adopted(a, b), b)
<1>1. CASE b.mLoopSequence < b.mPositionSequence
  <2> DEFINE l == WithLoop(a, b)
  <2>1. /\ l \in StaticAudioTrackState /\ ValidState(l) /\ Within(l)
        /\ l.mLoopSequence = b.mLoopSequence
        /\ LoopSince(a, b) => LoopSince(l, b)
    BY WithLoopLemma
  <2>2. Adopted(a, b) = WithPosition(l, b)
    BY <1>1 DEF Adopted
  <2> HIDE DEF l
  <2>3. LoopSince(l, b) => LoopSince(WithPosition(l, b), b)
    BY <2>1, WithPositionLemma DEF LoopSince
  <2> QED BY <2>1, <2>2, <2>3, WithPositionLemma
<1>2. CASE ~(b.mLoopSequence < b.mPositionSequence)
  <2> DEFINE l == WithPosition(a, b)
  <2>1. /\ l \in StaticAudioTrackState /\ ValidState(l) /\ Within(l)
        /\ l.mLoopSequence = a.mLoopSequence /\ l.mLoopEnd = a.mLoopEnd
        /\ l.mLoopCount # 0 => a.mLoopCount # 0
    BY WithPositionLemma
  <2>2. Adopted(a, b) = WithLoop(l, b)
    BY <1>2 DEF Adopted
  <2>3. LoopSince(a, b) => LoopSince(l, b)
    BY <2>1 DEF LoopSince
  <2> HIDE DEF l
  <2> QED BY <2>1, <2>2, <2>3, WithLoopLemma
<1> QED BY <1>1, <1>2

\* LoopSince is reflexive and transitive.
LEMMA LoopSinceReflexive ==
    ASSUME NEW a \in StaticAudioTrackState
    PROVE  LoopSince(a, a)
BY DEF LoopSince, StaticAudioTrackState

\* A loop since a loop since a is one since a.
LEMMA LoopSinceTransitive ==
    ASSUME NEW a \in StaticAudioTrackState, NEW b \in StaticAudioTrackState,
           NEW c \in StaticAudioTrackState, LoopSince(a, b), LoopSince(b, c)
    PROVE  LoopSince(a, c)
BY DEF LoopSince, StaticAudioTrackState

\* What releaseBuffer() makes of a good state when n of the frames up to its end
\* were played: a good state with n frames fewer left.
LEMMA AdvancedLemma ==
    ASSUME server \in StaticAudioTrackState, ValidState(server), Within(server),
           NEW n \in Nat, server.mPosition + n <= End
    PROVE  LET after == Advanced(server.mPosition + n) IN
           /\ after \in StaticAudioTrackState
           /\ ValidState(after) /\ Within(after)
           /\ after.mLoopSequence = server.mLoopSequence /\ after.mLoopEnd = server.mLoopEnd
           /\ after.mLoopCount # 0 => server.mLoopCount # 0
           /\ Left(after) = IF Left(server) = INT64_MAX THEN INT64_MAX ELSE Left(server) - n
<1> DEFINE moved == server.mPosition + n
           after == Advanced(moved)
           c == server.mLoopCount
           d == server.mLoopEnd - server.mLoopStart
<1>1. c \in Int /\ server.mPosition \in Nat /\ server.mLoopEnd \in Nat /\ server.mLoopStart \in Nat
      /\ c >= -1 /\ moved \in Nat /\ d \in Int
  BY DEF StaticAudioTrackState, ValidState, CountOK
<1>2. moved <= mFrameCount
  BY <1>1, FramesAssumption DEF End, Within, LoopOK
<1>3. CASE c # 0 /\ moved = server.mLoopEnd
  <2> DEFINE fewer == IF c = -1 THEN -1 ELSE c - 1
  <2>1. after = [server EXCEPT !.mPosition = server.mLoopStart, !.mLoopCount = fewer]
    BY <1>3 DEF Advanced
  <2>2. fewer \in Int /\ CountOK(fewer)
    <3>1. CASE c = -1
      BY <3>1, CountLemma
    <3>2. CASE c > 0
      <4>1. CountOK(c)
        BY DEF ValidState
      <4> HIDE DEF c
      <4> QED BY <1>1, <3>2, <4>1, CountLemma
    <3> QED BY <1>1, <1>3, <3>1, <3>2
  <2> HIDE DEF fewer
  <2>3. /\ after \in StaticAudioTrackState
        /\ after.mLoopSequence = server.mLoopSequence
        /\ after.mLoopCount = fewer
        /\ after.mPosition = server.mLoopStart
        /\ after.mLoopStart = server.mLoopStart /\ after.mLoopEnd = server.mLoopEnd
    BY <1>1, <2>1, <2>2 DEF StaticAudioTrackState
  <2> HIDE DEF after
  <2>4. ValidState(after) /\ Within(after)
    <3>1. /\ server.mLoopStart < server.mLoopEnd /\ server.mLoopEnd <= mFrameCount
          /\ server.mLoopEnd - server.mLoopStart >= MIN_LOOP
      BY <1>3 DEF Within, LoopOK
    <3>2. server.mLoopStart <= mFrameCount /\ fewer >= -1
      BY <1>1, <2>2, <3>1, FramesAssumption DEF CountOK
    <3> QED BY <2>2, <2>3, <3>1, <3>2 DEF ValidState, Within, LoopOK
  <2>5. Left(after) = IF Left(server) = INT64_MAX THEN INT64_MAX ELSE Left(server) - n
    <3>1. CASE c = -1
      BY <2>3, <3>1 DEF Left, fewer
    <3>2. CASE c > 0
      <4>1. Left(server) # INT64_MAX
        BY <1>1, <3>2, LeftBounds
      <4>2. (c - 1) * d \in Int /\ (c - 2) * d = (c - 1) * d - d
        BY <1>1
      <4>3. Left(server) = (server.mLoopEnd - server.mPosition) + (c - 1) * d
                              + (mFrameCount - server.mLoopStart)
        BY <1>1, <3>2 DEF Left
      <4>4. after.mLoopCount = c - 1
        BY <1>1, <2>3, <3>2 DEF fewer
      <4>5. CASE c = 1
        <5>1. (c - 1) * d = 0 /\ after.mLoopCount = 0
          BY <1>1, <4>4, <4>5
        <5>2. Left(after) = mFrameCount - server.mLoopStart
          BY <5>1, <2>3 DEF Left
        <5>3. Left(server) = (server.mLoopEnd - server.mPosition) + (mFrameCount - server.mLoopStart)
          BY <1>1, <4>3, <5>1, FramesAssumption
        <5> QED BY <1>1, <1>3, <4>1, <5>2, <5>3, FramesAssumption
      <4>6. CASE c > 1
        <5>1. Left(after) = (server.mLoopEnd - server.mLoopStart) + (c - 2) * d
                               + (mFrameCount - server.mLoopStart)
          BY <1>1, <2>3, <4>4, <4>6 DEF Left
        <5>2. d = server.mLoopEnd - server.mLoopStart
          OBVIOUS
        <5> HIDE DEF c, d
        <5> QED BY <1>1, <1>3, <4>1, <4>2, <4>3, <5>1, <5>2, FramesAssumption
      <4> QED BY <1>1, <3>2, <4>5, <4>6
    <3>3. c = -1 \/ c > 0
      <4> HIDE DEF c, d, moved
      <4> QED BY <1>1, <1>3
    <3> QED BY <3>1, <3>2, <3>3
  <2> QED BY <1>3, <2>3, <2>4, <2>5 DEF after
<1>4. CASE ~(c # 0 /\ moved = server.mLoopEnd)
  <2>1. after = [server EXCEPT !.mPosition = moved]
    BY <1>2, <1>4 DEF Advanced
  <2>2. /\ after \in StaticAudioTrackState
        /\ after.mLoopSequence = server.mLoopSequence
        /\ after.mLoopCount = c
        /\ after.mPosition = moved
        /\ after.mLoopStart = server.mLoopStart /\ after.mLoopEnd = server.mLoopEnd
    BY <1>1, <2>1 DEF StaticAudioTrackState
  <2> HIDE DEF after
  <2>3. ValidState(after) /\ Within(after)
    BY <1>1, <1>2, <1>4, <2>2, FramesAssumption DEF ValidState, Within, LoopOK, End
  <2>4. Left(after) = IF Left(server) = INT64_MAX THEN INT64_MAX ELSE Left(server) - n
    <3>1. CASE c = -1
      BY <2>2, <3>1 DEF Left
    <3>2. CASE c = 0
      <4>1. Left(server) = mFrameCount - server.mPosition /\ Left(after) = mFrameCount - moved
        BY <2>2, <3>2 DEF Left
      <4>2. Left(server) # INT64_MAX
        BY <1>1, <3>2, LeftBounds
      <4> QED BY <1>1, <4>1, <4>2, FramesAssumption
    <3>3. CASE c > 0
      <4>1. Left(server) # INT64_MAX
        BY <1>1, <3>3, LeftBounds
      <4>2. (c - 1) * d \in Int
        BY <1>1
      <4>3. Left(server) = (server.mLoopEnd - server.mPosition) + (c - 1) * d
                              + (mFrameCount - server.mLoopStart)
        BY <1>1, <3>3 DEF Left
      <4>4. Left(after) = (server.mLoopEnd - moved) + (c - 1) * d
                             + (mFrameCount - server.mLoopStart)
        BY <1>1, <2>2, <3>3 DEF Left
      <4> HIDE DEF c, d
      <4> QED BY <1>1, <4>1, <4>2, <4>3, <4>4, FramesAssumption
    <3> QED BY <1>1, <3>1, <3>2, <3>3
  <2> QED BY <1>3, <2>2, <2>3, <2>4 DEF after
<1> QED BY <1>3, <1>4

-----------------------------------------------------------------------------
(* The steps that compute something.                                       *)

\* Whatever getBufferPositionAndLoopCount() returns is as of the last setting, and
\* a loop that it tells of is one that the client has set.
LEMMA GotLemma ==
    ASSUME TypeOK, AllValid, QueueOrder, LoopOrigin, NoStalePosition, cpc = "idle",
           NEW got \in getBufferPositionAndLoopCount
    PROVE  /\ got.isNew \in BOOLEAN /\ got.mPosLoop \in PosLoops
           /\ CountOK(got.mPosLoop.mLoopCount) /\ got.mPosLoop.asOf = sequence
           /\ got.mPosLoop.mLoopCount # 0 => state.mLoopCount # 0
<1>1. got.isNew \in BOOLEAN /\ got.mPosLoop \in {mPosLoop, posLoop}
  BY DEF getBufferPositionAndLoopCount
<1>2. CASE SSQ_DONE /\ isNew /\ got = [mPosLoop |-> posLoop, isNew |-> FALSE]
  <2>1. got.mPosLoop = posLoop
    BY <1>2
  <2>2. acked = sequence /\ acted
    BY <1>2 DEF SSQ_DONE
  <2>3. polledAs = sequence /\ spc \notin {"polled", "publish"}
    BY <2>2 DEF TypeOK, QueueOrder
  <2>4. polled = state /\ posLoop.asOf = sequence
    BY <2>3 DEF QueueOrder
  <2> QED BY <1>1, <2>1, <2>3, <2>4 DEF TypeOK, AllValid, LoopOrigin
<1>3. CASE got = [mPosLoop |-> mPosLoop, isNew |-> isNew]
  BY <1>1, <1>3 DEF TypeOK, AllValid, LoopOrigin, NoStalePosition
<1> QED BY <1>2, <1>3 DEF getBufferPositionAndLoopCount

\* What setLoop() and setBufferPosition() make of the proxy's state and of the
\* position that is shown from now on.
LEMMA PrepareLemma ==
    ASSUME IInv, Prepare
    PROVE  /\ state' \in StaticAudioTrackState /\ ValidState(state') /\ LoopSince(state, state')
           /\ mPosLoop' \in PosLoops /\ CountOK(mPosLoop'.mLoopCount)
           /\ mPosLoop'.asOf = sequence + 2
           /\ mPosLoop'.mLoopCount # 0 => state'.mLoopCount # 0
           /\ isNew' \in BOOLEAN
           /\ state'.mLoopCount = IF Head(todo).kind = "loop" THEN Head(todo).loop.mLoopCount
                                                              ELSE state.mLoopCount
<1> USE DEF IInv
<1>1. Head(todo) \in ValidItems
  BY DEF Prepare, AllValid
<1>2. cpc = "idle" /\ state \in StaticAudioTrackState /\ sequence + 2 \in Nat
  BY DEF Prepare, TypeOK
<1>3. CASE Head(todo).kind = "loop"
  <2> DEFINE l == Head(todo).loop
             n == incrementSequence(state.mLoopSequence, state.mPositionSequence)
  <2>1. /\ l.mLoopStart \in Nat /\ l.mLoopEnd \in Nat /\ l.mLoopCount \in Int
        /\ LoopOK(l) /\ CountOK(l.mLoopCount)
    BY <1>1, <1>3 DEF ValidItems, TodoItems, ValidItem
  <2>2. setLoop(l)
    BY <1>3 DEF Prepare
  <2>3. n \in Nat /\ n > state.mLoopSequence
    BY <1>2 DEF incrementSequence, StaticAudioTrackState
  <2> HIDE DEF l, n
  <2>4. state' = [state EXCEPT !.mLoopStart = l.mLoopStart, !.mLoopEnd = l.mLoopEnd,
                               !.mLoopCount = l.mLoopCount, !.mLoopSequence = n]
    BY <2>2 DEF setLoop, n
  <2>5. /\ state' \in StaticAudioTrackState
        /\ state'.mLoopCount = l.mLoopCount /\ state'.mLoopStart = l.mLoopStart
        /\ state'.mLoopEnd = l.mLoopEnd /\ state'.mLoopSequence = n
        /\ state'.mPosition = state.mPosition
    BY <1>2, <2>1, <2>3, <2>4 DEF StaticAudioTrackState
  <2>6. ValidState(state') /\ LoopSince(state, state')
    BY <1>2, <2>1, <2>3, <2>5 DEF ValidState, LoopOK, LoopSince, AllValid, StaticAudioTrackState
  <2>7. PICK got \in getBufferPositionAndLoopCount :
            /\ isNew' = got.isNew
            /\ mPosLoop' = [mBufferPosition |->
                                IF l.mLoopCount # 0 /\ got.mPosLoop.mBufferPosition >= l.mLoopEnd
                                THEN l.mLoopStart ELSE got.mPosLoop.mBufferPosition,
                            mLoopCount |-> l.mLoopCount, asOf |-> sequence + 2]
    BY <2>2 DEF setLoop
  <2>8. got.isNew \in BOOLEAN /\ got.mPosLoop \in PosLoops
    BY <1>2, GotLemma
  <2>9. l.mLoopCount # 0 => l.mLoopStart \in 0 .. mFrameCount
    BY <2>1, FramesAssumption DEF LoopOK
  <2> QED BY <1>2, <1>3, <2>1, <2>5, <2>6, <2>7, <2>8, <2>9 DEF PosLoops, l
<1>4. CASE Head(todo).kind # "loop"
  <2> DEFINE p == Head(todo).position
             n == incrementSequence(state.mPositionSequence, state.mLoopSequence)
  <2>1. p \in Nat /\ p <= mFrameCount
    BY <1>1, <1>4 DEF ValidItems, TodoItems, ValidItem, Prepare
  <2>2. setBufferPosition(p)
    BY <1>4 DEF Prepare
  <2>3. n \in Nat
    BY <1>2 DEF incrementSequence, StaticAudioTrackState
  <2> HIDE DEF p, n
  <2>4. state' = [state EXCEPT !.mPosition = p, !.mPositionSequence = n]
    BY <2>2 DEF setBufferPosition, n
  <2>5. /\ state' \in StaticAudioTrackState
        /\ state'.mLoopCount = state.mLoopCount /\ state'.mLoopStart = state.mLoopStart
        /\ state'.mLoopEnd = state.mLoopEnd /\ state'.mLoopSequence = state.mLoopSequence
        /\ state'.mPosition = p
    BY <1>2, <2>1, <2>3, <2>4 DEF StaticAudioTrackState
  <2>6. ValidState(state') /\ LoopSince(state, state')
    BY <1>2, <2>1, <2>5 DEF ValidState, LoopOK, LoopSince, AllValid, StaticAudioTrackState
  <2>7. PICK got \in IF state.mLoopCount > 0 THEN getBufferPositionAndLoopCount
                     ELSE {[mPosLoop |-> mPosLoop, isNew |-> isNew]} :
            /\ isNew' = got.isNew
            /\ mPosLoop' = [mBufferPosition |-> p,
                            mLoopCount |-> IF p >= state.mLoopEnd THEN 0
                                                                  ELSE got.mPosLoop.mLoopCount,
                            asOf |-> sequence + 2]
    BY <2>2 DEF setBufferPosition
  <2>8. /\ got.isNew \in BOOLEAN /\ got.mPosLoop \in PosLoops
        /\ CountOK(got.mPosLoop.mLoopCount)
        /\ got.mPosLoop.mLoopCount # 0 => state.mLoopCount # 0
    <3>1. CASE got \in getBufferPositionAndLoopCount
      BY <1>2, <3>1, GotLemma
    <3>2. CASE got = [mPosLoop |-> mPosLoop, isNew |-> isNew]
      BY <3>2 DEF TypeOK, AllValid, LoopOrigin
    <3> QED BY <2>7, <3>1, <3>2
  <2> QED BY <1>2, <1>4, <2>1, <2>5, <2>6, <2>7, <2>8, CountLemma, FramesAssumption DEF PosLoops
<1> QED BY <1>3, <1>4

\* The loops that the application sets are valid.
LEMMA LoopsValid ==
    ASSUME NEW l \in Loops \cup {NoLoop}
    PROVE  /\ l \in [mLoopStart : Nat, mLoopEnd : Nat, mLoopCount : Int]
           /\ LoopOK(l) /\ CountOK(l.mLoopCount)
<1>1. CASE l \in Loops
  BY <1>1, FramesAssumption DEF LoopOK, CountOK
<1>2. CASE l = NoLoop
  BY <1>2, CountLemma DEF NoLoop, LoopOK
<1> QED BY <1>1, <1>2

\* Settings of a single loop or position are items to be done.
LEMMA SettingsValid ==
    /\ \A l \in [mLoopStart : Nat, mLoopEnd : Nat, mLoopCount : Int] :
           LoopOK(l) /\ CountOK(l.mLoopCount) => LoopSetting(l) \in ValidItems
    /\ \A p \in 0 .. mFrameCount : PositionSetting(p) \in ValidItems
BY FramesAssumption DEF LoopSetting, PositionSetting, ValidItems, TodoItems, ValidItem

\* What is kept for a re-creation.
LEMMA CreationTypes ==
    ASSUME NEW item \in TodoItems, item.kind \in {"create", "start"}
    PROVE  /\ item \in [kind : {"create", "start"}, shown : PosLoops, retries : Nat \ {0},
                        previous : States]
           /\ item.shown \in PosLoops /\ item.retries \in Nat \ {0} /\ item.previous \in States
BY DEF TodoItems

\* A re-creation that has come to the start is the same one,
LEMMA SameStarted ==
    ASSUME NEW item \in TodoItems, item.kind \in {"create", "start"}
    PROVE  /\ [item EXCEPT !.kind = "start"] \in TodoItems
           /\ [item EXCEPT !.kind = "start"].kind = "start"
           /\ [item EXCEPT !.kind = "start"].shown = item.shown
BY CreationTypes DEF TodoItems

\* and so is one that is tried again.
LEMMA SameAgain ==
    ASSUME NEW item \in TodoItems, item.kind \in {"create", "start"}, item.retries > 1
    PROVE  /\ [item EXCEPT !.kind = "create", !.retries = item.retries - 1] \in TodoItems
           /\ [item EXCEPT !.kind = "create", !.retries = item.retries - 1].kind = "create"
           /\ [item EXCEPT !.kind = "create", !.retries = item.retries - 1].shown = item.shown
<1>1. item \in [kind : {"create", "start"}, shown : PosLoops, retries : Nat \ {0},
                previous : States]
  BY CreationTypes
<1>2. item.retries - 1 \in Nat \ {0}
  BY <1>1
<1> QED BY <1>1, <1>2 DEF TodoItems

\* What restoreTrack_l() keeps is valid.
LEMMA RestoreLemma ==
    ASSUME IInv, NEW starts \in BOOLEAN, Restore(starts)
    PROVE  /\ todo' \in Seq(ValidItems) /\ todo' # <<>> /\ Head(todo').kind = "create"
           /\ mLoop.mLoopCount = 0 => todo' \in Seq(LooplessItems) /\ state.mLoopCount = 0
           /\ mPosLoop' \in PosLoops /\ CountOK(mPosLoop'.mLoopCount)
           /\ mPosLoop'.asOf = sequence /\ isNew' \in BOOLEAN
           /\ mPosLoop'.mLoopCount # 0 => state.mLoopCount # 0
<1> USE DEF IInv
<1>1. cpc = "idle" /\ todo = <<>>
  BY DEF Restore, MayCall
<1>2. PICK got \in getBufferPositionAndLoopCount :
          /\ isNew' = got.isNew /\ mPosLoop' = got.mPosLoop
          /\ todo' = <<[kind |-> "create", shown |-> got.mPosLoop,
                        retries |-> INITIAL_RETRIES, previous |-> mState]>>
  BY DEF Restore
<1>3. /\ got.mPosLoop \in PosLoops /\ CountOK(got.mPosLoop.mLoopCount)
      /\ got.mPosLoop.asOf = sequence /\ got.isNew \in BOOLEAN
      /\ got.mPosLoop.mLoopCount # 0 => state.mLoopCount # 0
  BY <1>1, GotLemma
<1>4. mLoop.mLoopCount = 0 => state.mLoopCount = 0
  BY <1>1 DEF LoopOrigin
<1> DEFINE item == [kind |-> "create", shown |-> got.mPosLoop,
                    retries |-> INITIAL_RETRIES, previous |-> mState]
<1>5. item \in TodoItems
  BY <1>3, FramesAssumption DEF TodoItems, TypeOK
<1>6. item.kind = "create" /\ item.shown = got.mPosLoop
  OBVIOUS
<1> HIDE DEF item
<1>7. item \in ValidItems /\ (mLoop.mLoopCount = 0 => item \in LooplessItems)
  BY <1>3, <1>4, <1>5, <1>6 DEF ValidItems, ValidItem, LooplessItems
<1>8. todo' = <<item>>
  BY <1>2 DEF item
<1> QED BY <1>2, <1>3, <1>4, <1>6, <1>7, <1>8

\* What restoreTrack_l() sets is valid, though it combines the loop that AudioTrack
\* keeps with the count that the proxy showed: one of them is only there with the
\* other.
LEMMA CreateLemma ==
    ASSUME IInv, Create
    PROVE  /\ todo' \in Seq(ValidItems)
           /\ mLoop.mLoopCount = 0 => todo' \in Seq(LooplessItems)
           /\ saved' \in Seq(PosLoops)
<1> USE DEF IInv
<1> DEFINE item == Head(todo)
           shown == item.shown
           starts == IF mState = "ACTIVE" THEN <<[item EXCEPT !.kind = "start"]>> ELSE <<>>
<1>1. /\ item \in ValidItems /\ item \in TodoItems /\ item.kind = "create"
      /\ mLoop.mLoopCount = 0 => item \in LooplessItems
  <2>1. todo # <<>> /\ item.kind = "create"
    BY DEF Create
  <2> QED BY <2>1 DEF AllValid, LoopOrigin, ValidItems
<1>2. saved' = <<shown>> /\ todo' = Restoration(shown) \o starts
  BY DEF Create
<1> HIDE DEF item
<1>3. /\ shown \in PosLoops /\ CountOK(shown.mLoopCount)
      /\ shown.mLoopCount # 0 => mLoop.mLoopCount # 0
  BY <1>1, CreationTypes DEF ValidItems, ValidItem, LooplessItems
<1>4. starts \in Seq(ValidItems) /\ (mLoop.mLoopCount = 0 => starts \in Seq(LooplessItems))
  <2> DEFINE again == [item EXCEPT !.kind = "start"]
  <2>1. again \in TodoItems /\ again.kind = "start" /\ again.shown = shown
    BY <1>1, SameStarted
  <2> HIDE DEF again, shown
  <2>2. again \in ValidItems /\ (mLoop.mLoopCount = 0 => again \in LooplessItems)
    BY <1>3, <2>1 DEF ValidItems, ValidItem, LooplessItems
  <2> QED BY <2>2 DEF again
<1> HIDE DEF starts, shown
<1> DEFINE c == shown.mLoopCount
           p == shown.mBufferPosition
<1>5. PositionSetting(p) \in ValidItems /\ PositionSetting(p) \in LooplessItems
  <2>1. p \in 0 .. mFrameCount /\ p \in Nat
    BY <1>3, FramesAssumption DEF PosLoops
  <2>2. PositionSetting(p) \in TodoItems /\ PositionSetting(p).kind = "position"
    BY <2>1 DEF PositionSetting, TodoItems
  <2> QED BY <2>1, <2>2, SettingsValid DEF LooplessItems
<1>6. /\ Restoration(shown) \in Seq(ValidItems)
      /\ mLoop.mLoopCount = 0 => Restoration(shown) \in Seq(LooplessItems)
  <2>1. CASE c = 0
    <3>1. Restoration(shown) = <<PositionSetting(p)>>
      BY <2>1 DEF Restoration
    <3> QED BY <1>5, <3>1
  <2>2. CASE c # 0
    <3> DEFINE l == [mLoop EXCEPT !.mLoopCount = c]
    <3>1. /\ mLoop \in [mLoopStart : Nat, mLoopEnd : Nat, mLoopCount : Int] /\ LoopOK(mLoop)
      BY LoopsValid DEF TypeOK
    <3>2. c \in Int /\ c >= -1
      BY <1>3 DEF PosLoops, CountOK
    <3>3. /\ l \in [mLoopStart : Nat, mLoopEnd : Nat, mLoopCount : Int]
          /\ LoopOK(l) /\ l.mLoopCount = c
      BY <1>3, <2>2, <3>1, <3>2 DEF LoopOK
    <3>4. Restoration(shown) = <<LoopSetting(l), PositionSetting(p)>>
      BY <2>2 DEF Restoration
    <3>5. LoopSetting(l) \in ValidItems
      BY <1>3, <3>3, SettingsValid
    <3> QED BY <1>3, <1>5, <2>2, <3>4, <3>5
  <2> QED BY <2>1, <2>2
<1>7. saved' \in Seq(PosLoops)
  BY <1>2, <1>3
<1> QED BY <1>2, <1>4, <1>6, <1>7

\* What is tried again is valid.
LEMMA RetryLemma ==
    ASSUME IInv, Retry
    PROVE  /\ todo' \in Seq(ValidItems)
           /\ mLoop.mLoopCount = 0 => todo' \in Seq(LooplessItems) /\ state.mLoopCount = 0
           /\ mState' \in States /\ mFlags' \subseteq {"CBLK_INVALID"}
<1> USE DEF IInv
<1> DEFINE item == Head(todo)
           again == [item EXCEPT !.kind = "create", !.retries = item.retries - 1]
<1>1. todo # <<>> /\ item.kind \in {"create", "start"}
  BY DEF Retry
<1>2. /\ item \in ValidItems /\ item \in TodoItems
      /\ mLoop.mLoopCount = 0 => item \in LooplessItems /\ state.mLoopCount = 0
  BY <1>1 DEF AllValid, LoopOrigin, ValidItems
<1>3. \/ todo' = <<again>> /\ item.retries > 1 /\ UNCHANGED <<mFlags, mState>>
      \/ /\ todo' = <<>> /\ mState' = item.previous
         /\ mFlags' = mFlags \cup {"CBLK_INVALID"}
  BY DEF Retry
<1> HIDE DEF item
<1>4. item.retries \in Nat \ {0} /\ item.previous \in States
  BY <1>1, <1>2, CreationTypes
<1>5. CASE todo' = <<again>> /\ item.retries > 1 /\ UNCHANGED <<mFlags, mState>>
  <2>2. again \in TodoItems /\ again.kind = "create" /\ again.shown = item.shown
    BY <1>1, <1>2, <1>5, SameAgain
  <2> HIDE DEF again
  <2>3. again \in ValidItems /\ (mLoop.mLoopCount = 0 => again \in LooplessItems)
    BY <1>1, <1>2, <2>2 DEF ValidItems, ValidItem, LooplessItems
  <2> QED BY <1>2, <1>5, <2>3 DEF TypeOK
<1>6. CASE /\ todo' = <<>> /\ mState' = item.previous
           /\ mFlags' = mFlags \cup {"CBLK_INVALID"}
  BY <1>2, <1>4, <1>6 DEF TypeOK
<1> QED BY <1>3, <1>5, <1>6

\* The settings are never refused, and the frames ready are counted right.
LEMMA AdoptLemma ==
    ASSUME IInv, Adopt
    PROVE  /\ server' \in StaticAudioTrackState /\ ValidState(server') /\ Within(server')
           /\ server'.mLoopSequence = polled.mLoopSequence
           /\ LoopSince(server', polled)
           /\ mFramesReady' = Left(server') /\ mFramesReady' \in 0 .. INT64_MAX
           /\ spc' = "publish" /\ mIsShutdown' = mIsShutdown
<1> USE DEF IInv
<1>1. ~Invalid(server, polled)
  <2>1. polled.mPosition \in Nat /\ polled.mPosition <= mFrameCount /\ LoopOK(polled)
    BY DEF AllValid, ValidState, TypeOK, StaticAudioTrackState
  <2>2. WithLoop(server, polled) \in StaticAudioTrackState /\ ValidState(WithLoop(server, polled))
    BY WithLoopLemma DEF TypeOK, AllValid, ServerSound, WithinLoop, Within
  <2>3. WithLoop(server, polled).mPosition \in Nat /\ WithLoop(server, polled).mPosition <= mFrameCount
    BY <2>2 DEF ValidState, StaticAudioTrackState
  <2> QED BY <2>1, <2>3, FramesAssumption DEF Invalid
<1>2. /\ server' = Adopted(server, polled) /\ mFramesReady' = FramesReady(server')
      /\ spc' = "publish" /\ mIsShutdown' = mIsShutdown
  BY <1>1 DEF Adopt
<1>3. /\ server \in StaticAudioTrackState /\ polled \in StaticAudioTrackState
      /\ ValidState(server) /\ ValidState(polled) /\ Within(server) /\ LoopSince(server, polled)
  BY DEF TypeOK, AllValid, LoopOrigin, ServerSound, WithinLoop, Within
<1>4. /\ server' \in StaticAudioTrackState /\ ValidState(server') /\ Within(server')
      /\ server'.mLoopSequence = polled.mLoopSequence
      /\ LoopSince(server', polled)
  BY <1>2, <1>3, AdoptedLemma
<1>5. server'.mLoopCount >= -1
  BY <1>4 DEF ValidState, CountOK
<1>6. mFramesReady' = Left(server')
  BY <1>2, <1>4, <1>5, ReadyIsLeft
<1> QED BY <1>2, <1>4, <1>6, LeftBounds

\* Playing n frames of those obtained takes n from the frames ready.
LEMMA ReleaseLemma ==
    ASSUME IInv, NEW n \in 1 .. mFrameCount, Release(n)
    PROVE  /\ server' \in StaticAudioTrackState /\ ValidState(server') /\ Within(server')
           /\ server'.mLoopSequence = server.mLoopSequence /\ server'.mLoopEnd = server.mLoopEnd
           /\ server'.mLoopCount # 0 => server.mLoopCount # 0
           /\ mFramesReady' = Left(server') /\ mFramesReady' \in 0 .. INT64_MAX
           /\ mUnreleased' \in 0 .. mFrameCount
<1> USE DEF IInv
<1>1. /\ server \in StaticAudioTrackState /\ ValidState(server) /\ Within(server)
      /\ mFramesReady = Left(server)
  BY DEF TypeOK, AllValid, ServerSound, WithinLoop, Within, FramesReadyExact, FramesLeft, Left
<1>2. /\ mUnreleased \in 0 .. mFrameCount /\ n <= mUnreleased /\ n \in Nat
      /\ server.mPosition + mUnreleased <= End
  BY DEF TypeOK, Release, ServerSound, FramesReadyExact
<1>3. server.mPosition \in Nat /\ End \in Nat
  BY <1>1, FramesAssumption DEF StaticAudioTrackState, End
<1>4. server.mPosition + n <= End
  BY <1>2, <1>3, FramesAssumption
<1>5. server' = Advanced(server.mPosition + n)
  BY DEF Release
<1>6. mFramesReady' = IF mFramesReady = INT64_MAX THEN INT64_MAX ELSE mFramesReady - n
  BY DEF Release
<1>7. mUnreleased' \in 0 .. mFrameCount
  BY <1>2, FramesAssumption DEF Release
<1>8. /\ server' \in StaticAudioTrackState /\ ValidState(server') /\ Within(server')
      /\ server'.mLoopSequence = server.mLoopSequence /\ server'.mLoopEnd = server.mLoopEnd
      /\ server'.mLoopCount # 0 => server.mLoopCount # 0
      /\ Left(server') = IF Left(server) = INT64_MAX THEN INT64_MAX ELSE Left(server) - n
  BY <1>1, <1>2, <1>4, <1>5, AdvancedLemma
<1> QED BY <1>1, <1>6, <1>7, <1>8, LeftBounds

\* What is published is a position in the buffer.
LEMMA PublishedLemma ==
    ASSUME NEW s \in StaticAudioTrackState, ValidState(s), NEW as \in Nat
    PROVE  /\ Published(s, as) \in PosLoops /\ CountOK(Published(s, as).mLoopCount)
           /\ Published(s, as).asOf = as /\ Published(s, as).mLoopCount = s.mLoopCount
<1>1. s.mPosition \in 0 .. mFrameCount /\ s.mLoopCount \in Int
  BY FramesAssumption DEF StaticAudioTrackState, ValidState
<1> QED BY <1>1 DEF Published, PosLoops, ValidState

\* A new track starts out valid.
LEMMA ZeroLemma ==
    /\ ZeroState \in StaticAudioTrackState /\ ValidState(ZeroState) /\ Within(ZeroState)
    /\ ZeroState.mLoopCount = 0 /\ ZeroState.mLoopSequence = 0 /\ Left(ZeroState) = mFrameCount
    /\ ZeroPosLoop \in PosLoops /\ ZeroPosLoop.mLoopCount = 0 /\ ZeroPosLoop.asOf = 0
    /\ mFrameCount \in 0 .. INT64_MAX
<1>1. /\ ZeroState \in StaticAudioTrackState /\ ZeroState.mPosition = 0
      /\ ZeroState.mLoopCount = 0 /\ ZeroState.mLoopSequence = 0
  BY DEF ZeroState, StaticAudioTrackState
<1>2. ValidState(ZeroState) /\ Within(ZeroState) /\ Left(ZeroState) = mFrameCount
  BY <1>1, CountLemma, FramesAssumption DEF ValidState, Within, LoopOK, Left
<1> QED BY <1>1, <1>2, FramesAssumption DEF ZeroPosLoop, PosLoops

-----------------------------------------------------------------------------
(* The invariant is kept.                                                  *)

\* The numbers of the settings stay in order: a position is published for the
\* settings that were adopted last, and the acknowledgement comes after it.
LEMMA OrderStep ==
    ASSUME IInv, [Next]_vars
    PROVE  QueueOrder'
<1> USE DEF IInv, TypeOK, QueueOrder, MayCall
<1>1. CASE Prepare
  BY <1>1 DEF Prepare, settingsQueue, appVars, trackVars, serverVars, bufferVars
<1>2. CASE Push
  BY <1>2 DEF Push, Settings!Write, posLoopQueue, appVars, trackVars, serverVars, bufferVars
<1>3. CASE Restart
  BY <1>3 DEF Restart, TrackStart, settingsQueue, posLoopQueue, appVars, bufferVars, history
<1>4. CASE GetBufferPosition
  BY <1>4 DEF GetBufferPosition, settingsQueue, appVars, trackVars, serverVars, bufferVars
<1>5. CASE Start
  BY <1>5 DEF Start, TrackStart, TrackStartRejected, trackVars, settingsQueue, posLoopQueue, clientVars, bufferVars,
     history
<1>6. CASE Pause
  BY <1>6 DEF Pause, settingsQueue, posLoopQueue, clientVars, serverVars, bufferVars,
     history
<1>7. CASE Stop
  BY <1>7 DEF Stop, settingsQueue, posLoopQueue, serverVars, bufferVars, history
<1>8. ASSUME NEW starts \in BOOLEAN, Restore(starts) PROVE QueueOrder'
  BY <1>8 DEF Restore, settingsQueue, trackVars, serverVars, bufferVars
<1>9. ASSUME NEW l \in Loops, SetLoop(l) PROVE QueueOrder'
  BY <1>9 DEF SetLoop, settingsQueue, posLoopQueue, trackVars, serverVars, bufferVars,
     history
<1>10. ASSUME NEW p \in Positions, SetPosition(p) PROVE QueueOrder'
  BY <1>10 DEF SetPosition, settingsQueue, posLoopQueue, appVars, trackVars, serverVars,
     bufferVars, history
<1>11. CASE PollPosition
  BY <1>11 DEF PollPosition, Settings!Read, posLoopQueue, appVars, clientVars, trackVars,
     bufferVars, history
<1>12. CASE PollNothing \/ Started \/ PrepareMix \/ PrepareNoMix
  <2>1. spc \in {"idle", "ready"} /\ spc' \in {"idle", "ready"}
    BY <1>12 DEF PollNothing, Started, PrepareMix, PrepareNoMix, Polls
  <2>2. UNCHANGED <<settingsQueue, posLoopQueue, clientVars>>
    BY <1>12 DEF PollNothing, Started, PrepareMix, PrepareNoMix, clientVars
  <2> QED BY <2>1, <2>2 DEF settingsQueue, posLoopQueue, clientVars
<1>13. CASE Adopt
  <2>1. acked' = polledAs /\ ~acted' /\ spc' = "publish"
    BY <1>13, AdoptLemma DEF Adopt, Settings!Acknowledge
  <2> QED BY <1>13, <2>1 DEF Adopt, Settings!Acknowledge, posLoopQueue, appVars, clientVars
<1>14. CASE Publish
  BY <1>14, PublishedLemma DEF Publish, settingsQueue, appVars, clientVars, trackVars,
     bufferVars, history, AllValid
<1>15. CASE ObserverDone
  BY <1>15 DEF ObserverDone, Settings!Act, posLoopQueue, appVars, clientVars, trackVars,
     bufferVars, history
<1>16. ASSUME NEW n \in 1 .. mFrameCount, Obtain(n) PROVE QueueOrder'
  BY <1>16 DEF Obtain, settingsQueue, posLoopQueue, appVars, clientVars, trackVars, history
<1>17. ASSUME NEW n \in 1 .. mFrameCount, Release(n) PROVE QueueOrder'
  BY <1>17, PublishedLemma, ReleaseLemma DEF Release, settingsQueue, appVars, clientVars,
     trackVars
<1>18. CASE UNCHANGED vars
  BY <1>18 DEF vars, settingsQueue, posLoopQueue, appVars, clientVars, trackVars,
     serverVars, bufferVars, history
<1>19. CASE Create
  BY <1>19, ZeroLemma DEF Create, Fresh
<1>20. CASE Retry
  BY <1>20 DEF Retry, TrackStartRejected, settingsQueue, posLoopQueue, trackVars,
     serverVars, bufferVars, history
<1> QED BY <1>1, <1>2, <1>3, <1>4, <1>5, <1>6, <1>7, <1>8, <1>9, <1>10, <1>11, <1>12, <1>13,
        <1>14, <1>15, <1>16, <1>17, <1>18, <1>19, <1>20 DEF Next, Client, Server, InCall

\* The position that is shown stays as of the last setting.
LEMMA FreshnessStep ==
    ASSUME IInv, [Next]_vars
    PROVE  NoStalePosition'
<1> USE DEF IInv, TypeOK, NoStalePosition, MayCall
<1>1. CASE Prepare
  BY <1>1, PrepareLemma DEF Prepare, settingsQueue, appVars, trackVars, serverVars,
     bufferVars
<1>2. CASE Push
  BY <1>2 DEF Push, Settings!Write, posLoopQueue, appVars, trackVars, serverVars, bufferVars
<1>3. CASE Restart
  BY <1>3 DEF Restart, TrackStart, settingsQueue, posLoopQueue, appVars, bufferVars, history
<1>4. CASE GetBufferPosition
  BY <1>4, GotLemma DEF GetBufferPosition, settingsQueue, appVars, trackVars, serverVars,
     bufferVars
<1>5. CASE Start
  BY <1>5 DEF Start, TrackStart, TrackStartRejected, trackVars, settingsQueue, posLoopQueue, clientVars, bufferVars,
     history
<1>6. CASE Pause
  BY <1>6 DEF Pause, settingsQueue, posLoopQueue, clientVars, serverVars, bufferVars,
     history
<1>7. CASE Stop
  BY <1>7 DEF Stop, settingsQueue, posLoopQueue, serverVars, bufferVars, history
<1>8. ASSUME NEW starts \in BOOLEAN, Restore(starts) PROVE NoStalePosition'
  BY <1>8, RestoreLemma DEF Restore, settingsQueue, trackVars, serverVars, bufferVars
<1>9. ASSUME NEW l \in Loops, SetLoop(l) PROVE NoStalePosition'
  BY <1>9 DEF SetLoop, settingsQueue, posLoopQueue, trackVars, serverVars, bufferVars,
     history
<1>10. ASSUME NEW p \in Positions, SetPosition(p) PROVE NoStalePosition'
  BY <1>10 DEF SetPosition, settingsQueue, posLoopQueue, appVars, trackVars, serverVars,
     bufferVars, history
<1>11. CASE PollPosition
  BY <1>11 DEF PollPosition, Settings!Read, posLoopQueue, appVars, clientVars, trackVars,
     bufferVars, history
<1>12. CASE PollNothing \/ Started \/ PrepareMix \/ PrepareNoMix
  BY <1>12 DEF PollNothing, Started, PrepareMix, PrepareNoMix, settingsQueue, posLoopQueue,
     appVars, clientVars, trackVars, bufferVars, history
<1>13. CASE Adopt
  BY <1>13 DEF Adopt, Settings!Acknowledge, posLoopQueue, appVars, clientVars, trackVars,
     history
<1>14. CASE Publish
  BY <1>14 DEF Publish, settingsQueue, appVars, clientVars, trackVars, bufferVars, history
<1>15. CASE ObserverDone
  BY <1>15 DEF ObserverDone, Settings!Act, posLoopQueue, appVars, clientVars, trackVars,
     bufferVars, history
<1>16. ASSUME NEW n \in 1 .. mFrameCount, Obtain(n) PROVE NoStalePosition'
  BY <1>16 DEF Obtain, settingsQueue, posLoopQueue, appVars, clientVars, trackVars, history
<1>17. ASSUME NEW n \in 1 .. mFrameCount, Release(n) PROVE NoStalePosition'
  BY <1>17 DEF Release, settingsQueue, appVars, clientVars, trackVars
<1>18. CASE UNCHANGED vars
  BY <1>18 DEF vars, settingsQueue, posLoopQueue, appVars, clientVars, trackVars,
     serverVars, bufferVars, history
<1>19. CASE Create
  BY <1>19, ZeroLemma DEF Create, Fresh
<1>20. CASE Retry
  BY <1>20 DEF Retry, TrackStartRejected, settingsQueue, posLoopQueue, trackVars,
     serverVars, bufferVars, history
<1> QED BY <1>1, <1>2, <1>3, <1>4, <1>5, <1>6, <1>7, <1>8, <1>9, <1>10, <1>11, <1>12, <1>13,
        <1>14, <1>15, <1>16, <1>17, <1>18, <1>19, <1>20 DEF Next, Client, Server, InCall

\* Everything under way stays valid.
LEMMA ValidStep ==
    ASSUME IInv, [Next]_vars
    PROVE  AllValid'
<1> USE DEF IInv, AllValid
<1>1. CASE Prepare
  BY <1>1, PrepareLemma DEF Prepare, settingsQueue, appVars, trackVars, serverVars,
     bufferVars, TypeOK
<1>2. CASE Push
  BY <1>2 DEF Push, Settings!Write, posLoopQueue, appVars, trackVars, serverVars, bufferVars
<1>3. CASE Restart
  BY <1>3 DEF Restart, TrackStart, settingsQueue, posLoopQueue, appVars, bufferVars, history
<1>4. CASE GetBufferPosition
  BY <1>4, GotLemma DEF GetBufferPosition, settingsQueue, appVars, trackVars, serverVars,
     bufferVars, MayCall
<1>5. CASE Start
  BY <1>5 DEF Start, TrackStart, TrackStartRejected, trackVars, settingsQueue, posLoopQueue, clientVars, bufferVars,
     history
<1>6. CASE Pause
  BY <1>6 DEF Pause, settingsQueue, posLoopQueue, clientVars, serverVars, bufferVars,
     history
<1>7. CASE Stop
  <2>1. LoopSetting(NoLoop) \in ValidItems /\ PositionSetting(0) \in ValidItems
    BY LoopsValid, SettingsValid, FramesAssumption
  <2>2. todo' \in Seq(ValidItems)
    BY <1>7, <2>1 DEF Stop
  <2> QED BY <1>7, <2>2 DEF Stop, settingsQueue, posLoopQueue, serverVars, bufferVars, history
<1>8. ASSUME NEW starts \in BOOLEAN, Restore(starts) PROVE AllValid'
  BY <1>8, RestoreLemma DEF Restore, settingsQueue, trackVars, serverVars, bufferVars
<1>9. ASSUME NEW l \in Loops, SetLoop(l) PROVE AllValid'
  <2>1. LoopSetting(l) \in ValidItems
    BY LoopsValid, SettingsValid
  <2>2. todo' \in Seq(ValidItems)
    BY <1>9, <2>1 DEF SetLoop
  <2> QED BY <1>9, <2>2
          DEF SetLoop, settingsQueue, posLoopQueue, trackVars, serverVars, bufferVars, history
<1>10. ASSUME NEW p \in Positions, SetPosition(p) PROVE AllValid'
  <2>1. PositionSetting(p) \in ValidItems
    BY SettingsValid, FramesAssumption
  <2>2. todo' \in Seq(ValidItems)
    BY <1>10, <2>1 DEF SetPosition
  <2> QED BY <1>10, <2>2
          DEF SetPosition, settingsQueue, posLoopQueue, appVars, trackVars, serverVars, bufferVars, history
<1>11. CASE PollPosition
  BY <1>11 DEF PollPosition, Settings!Read, posLoopQueue, appVars, clientVars, trackVars,
     bufferVars, history
<1>12. CASE PollNothing \/ Started \/ PrepareMix \/ PrepareNoMix
  BY <1>12 DEF PollNothing, Started, PrepareMix, PrepareNoMix, settingsQueue, posLoopQueue,
     appVars, clientVars, trackVars, bufferVars, history
<1>13. CASE Adopt
  BY <1>13, AdoptLemma DEF Adopt, Settings!Acknowledge, posLoopQueue, appVars, clientVars,
     trackVars, history
<1>14. CASE Publish
  BY <1>14, PublishedLemma DEF Publish, settingsQueue, appVars, clientVars, trackVars,
     bufferVars, history, TypeOK
<1>15. CASE ObserverDone
  BY <1>15 DEF ObserverDone, Settings!Act, posLoopQueue, appVars, clientVars, trackVars,
     bufferVars, history
<1>16. ASSUME NEW n \in 1 .. mFrameCount, Obtain(n) PROVE AllValid'
  BY <1>16 DEF Obtain, settingsQueue, posLoopQueue, appVars, clientVars, trackVars, history
<1>17. ASSUME NEW n \in 1 .. mFrameCount, Release(n) PROVE AllValid'
  BY <1>17, ReleaseLemma, PublishedLemma DEF Release, settingsQueue, appVars, clientVars,
     trackVars, TypeOK
<1>18. CASE UNCHANGED vars
  BY <1>18 DEF vars, settingsQueue, posLoopQueue, appVars, clientVars, trackVars,
     serverVars, bufferVars, history
<1>19. CASE Create
  BY <1>19, CreateLemma, ZeroLemma, CountLemma DEF Create, Fresh
<1>20. CASE Retry
  BY <1>20, RetryLemma DEF Retry, TrackStartRejected, settingsQueue, posLoopQueue, trackVars,
     serverVars, bufferVars, history
<1> QED BY <1>1, <1>2, <1>3, <1>4, <1>5, <1>6, <1>7, <1>8, <1>9, <1>10, <1>11, <1>12, <1>13,
        <1>14, <1>15, <1>16, <1>17, <1>18, <1>19, <1>20 DEF Next, Client, Server, InCall

\* The loop that AudioTrack restores stays the origin of the one that is shown.
LEMMA OriginStep ==
    ASSUME IInv, [Next]_vars
    PROVE  LoopOrigin'
<1> USE DEF IInv, LoopOrigin
<1>1. CASE Prepare
  <2>1. pushed = state /\ LoopSince(state, state')
    BY <1>1, PrepareLemma DEF Prepare, QueueOrder
  <2>2. mLoop.mLoopCount = 0 => todo' \in Seq(LooplessItems) /\ state'.mLoopCount = 0
    <3>1. mLoop.mLoopCount = 0 => Head(todo) \in LooplessItems /\ Tail(todo) \in Seq(LooplessItems)
      BY <1>1 DEF Prepare
    <3> QED BY <1>1, <3>1, PrepareLemma DEF Prepare, LooplessItems
  <2> QED BY <1>1, <2>1, <2>2, PrepareLemma DEF Prepare, settingsQueue, appVars, serverVars, bufferVars
<1>2. CASE Push
  <2>1. LoopSince(polled, state) /\ LoopSince(state, state)
    BY LoopSinceTransitive, LoopSinceReflexive DEF TypeOK
  <2> QED BY <1>2, <2>1
          DEF Push, Settings!Write, posLoopQueue, appVars, trackVars, serverVars, bufferVars
<1>3. CASE Restart
  <2>1. mLoop.mLoopCount = 0 => todo' \in Seq(LooplessItems) /\ state.mLoopCount = 0
    BY <1>3 DEF Restart
  <2> QED BY <1>3, <2>1
          DEF Restart, TrackStart, settingsQueue, posLoopQueue, appVars, bufferVars, history
<1>4. CASE GetBufferPosition
  BY <1>4, GotLemma DEF GetBufferPosition, settingsQueue, appVars, trackVars, serverVars,
     bufferVars, MayCall
<1>5. CASE Start
  BY <1>5 DEF Start, TrackStart, TrackStartRejected, trackVars, settingsQueue, posLoopQueue, clientVars, bufferVars,
     history
<1>6. CASE Pause
  BY <1>6 DEF Pause, settingsQueue, posLoopQueue, clientVars, serverVars, bufferVars,
     history
<1>7. CASE Stop
  <2>1. LoopSetting(NoLoop) \in LooplessItems /\ PositionSetting(0) \in LooplessItems
    BY DEF LoopSetting, PositionSetting, NoLoop, LooplessItems, TodoItems
  <2>2. todo' \in Seq(LooplessItems) /\ todo' # <<>> /\ Head(todo').kind = "loop"
    BY <1>7, <2>1 DEF Stop, LoopSetting
  <2> QED BY <1>7, <2>2 DEF Stop, settingsQueue, posLoopQueue, serverVars, bufferVars, history
<1>8. ASSUME NEW starts \in BOOLEAN, Restore(starts) PROVE LoopOrigin'
  BY <1>8, RestoreLemma DEF Restore, settingsQueue, trackVars, serverVars, bufferVars
<1>9. ASSUME NEW l \in Loops, SetLoop(l) PROVE LoopOrigin'
  <2>1. todo' # <<>> /\ Head(todo').kind = "loop"
    BY <1>9 DEF SetLoop, LoopSetting
  <2>2. l.mLoopCount = 0 => todo' \in Seq(LooplessItems)
    <3>1. l.mLoopCount = 0 => LoopSetting(l) \in LooplessItems
      BY LoopsValid DEF LoopSetting, LooplessItems, TodoItems
    <3> QED BY <1>9, <3>1 DEF SetLoop
  <2> QED BY <1>9, <2>1, <2>2
          DEF SetLoop, settingsQueue, posLoopQueue, trackVars, serverVars, bufferVars, history
<1>10. ASSUME NEW p \in Positions, SetPosition(p) PROVE LoopOrigin'
  <2>1. mLoop.mLoopCount = 0 => todo' \in Seq(LooplessItems) /\ state.mLoopCount = 0
    <3>1. p \in Nat
      BY FramesAssumption
    <3>2. PositionSetting(p) \in LooplessItems
      BY <3>1 DEF PositionSetting, LooplessItems, TodoItems
    <3> QED BY <1>10, <3>2 DEF SetPosition, MayCall
  <2> QED BY <1>10, <2>1
          DEF SetPosition, settingsQueue, posLoopQueue, appVars, trackVars, serverVars, bufferVars, history
<1>11. CASE PollPosition
  <2>1. LoopSince(server, pushed) /\ LoopSince(pushed, pushed)
    BY LoopSinceTransitive, LoopSinceReflexive DEF TypeOK
  <2> QED BY <1>11, <2>1
          DEF PollPosition, Settings!Read, posLoopQueue, appVars, clientVars, trackVars, bufferVars, history
<1>12. CASE PollNothing \/ Started \/ PrepareMix \/ PrepareNoMix
  <2>1. spc \in {"idle", "ready"} /\ spc' \in {"idle", "ready"}
    BY <1>12 DEF PollNothing, Started, PrepareMix, PrepareNoMix, Polls
  <2>2. UNCHANGED <<settingsQueue, posLoopQueue, clientVars, mLoop, server>>
    BY <1>12 DEF PollNothing, Started, PrepareMix, PrepareNoMix, clientVars, appVars, bufferVars
  <2> QED BY <2>1, <2>2 DEF settingsQueue, posLoopQueue, clientVars
<1>13. CASE Adopt
  BY <1>13, AdoptLemma
     DEF Adopt, Settings!Acknowledge, posLoopQueue, appVars, clientVars, trackVars, history
<1>14. CASE Publish
  <2>1. posLoop'.mLoopCount = server.mLoopCount
    BY <1>14 DEF Publish, Published
  <2>2. server.mLoopCount # 0 => polled.mLoopCount # 0
    BY <1>14 DEF Publish, LoopSince
  <2> QED BY <1>14, <2>1, <2>2
          DEF Publish, settingsQueue, appVars, clientVars, trackVars, bufferVars, history
<1>15. CASE ObserverDone
  BY <1>15 DEF ObserverDone, Settings!Act, posLoopQueue, appVars, clientVars, trackVars,
     bufferVars, history
<1>16. ASSUME NEW n \in 1 .. mFrameCount, Obtain(n) PROVE LoopOrigin'
  BY <1>16 DEF Obtain, settingsQueue, posLoopQueue, appVars, clientVars, trackVars, history
<1>17. ASSUME NEW n \in 1 .. mFrameCount, Release(n) PROVE LoopOrigin'
  <2>1. posLoop'.mLoopCount = server'.mLoopCount
    BY <1>17 DEF Release, Published
  <2>2. spc = "held"
    BY <1>17 DEF Release
  <2>3. LoopSince(server', polled) /\ (server'.mLoopCount # 0 => polled.mLoopCount # 0)
    BY <1>17, <2>2, ReleaseLemma DEF LoopSince
  <2> QED BY <1>17, <2>1, <2>2, <2>3, ReleaseLemma
          DEF Release, settingsQueue, appVars, clientVars, trackVars
<1>18. CASE UNCHANGED vars
  BY <1>18 DEF vars, settingsQueue, posLoopQueue, appVars, clientVars, trackVars,
     serverVars, bufferVars, history
<1>19. CASE Create
  <2>1. LoopSince(ZeroState, ZeroState)
    BY ZeroLemma DEF LoopSince
  <2> QED BY <1>19, <2>1, ZeroLemma, CreateLemma DEF Create, Fresh
<1>20. CASE Retry
  BY <1>20, RetryLemma DEF Retry, TrackStartRejected, settingsQueue, posLoopQueue, trackVars,
     serverVars, bufferVars, history
<1> QED BY <1>1, <1>2, <1>3, <1>4, <1>5, <1>6, <1>7, <1>8, <1>9, <1>10, <1>11, <1>12, <1>13,
        <1>14, <1>15, <1>16, <1>17, <1>18, <1>19, <1>20 DEF Next, Client, Server, InCall

\* The server stays sound.
LEMMA SoundStep ==
    ASSUME IInv, [Next]_vars
    PROVE  ServerSound'
<1> USE DEF IInv, ServerSound, WithinLoop, FramesReadyExact, FramesLeft, End
<1>1. CASE Prepare
  BY <1>1 DEF Prepare, settingsQueue, appVars, trackVars, serverVars, bufferVars
<1>2. CASE Push
  BY <1>2 DEF Push, Settings!Write, posLoopQueue, appVars, trackVars, serverVars, bufferVars
<1>3. CASE Restart
  BY <1>3 DEF Restart, TrackStart, settingsQueue, posLoopQueue, appVars, bufferVars, history
<1>4. CASE GetBufferPosition
  BY <1>4 DEF GetBufferPosition, settingsQueue, appVars, trackVars, serverVars, bufferVars
<1>5. CASE Start
  <2>1. UNCHANGED <<server, mFramesReady, mUnreleased, mIsShutdown, spc>>
    BY <1>5 DEF Start, TrackStart, TrackStartRejected, bufferVars
  <2> QED BY <2>1
<1>6. CASE Pause
  BY <1>6 DEF Pause, settingsQueue, posLoopQueue, clientVars, serverVars, bufferVars,
     history
<1>7. CASE Stop
  BY <1>7 DEF Stop, settingsQueue, posLoopQueue, serverVars, bufferVars, history
<1>8. ASSUME NEW starts \in BOOLEAN, Restore(starts) PROVE ServerSound'
  BY <1>8 DEF Restore, settingsQueue, trackVars, serverVars, bufferVars
<1>9. ASSUME NEW l \in Loops, SetLoop(l) PROVE ServerSound'
  BY <1>9 DEF SetLoop, settingsQueue, posLoopQueue, trackVars, serverVars, bufferVars,
     history
<1>10. ASSUME NEW p \in Positions, SetPosition(p) PROVE ServerSound'
  BY <1>10 DEF SetPosition, settingsQueue, posLoopQueue, appVars, trackVars, serverVars,
     bufferVars, history
<1>11. CASE PollPosition
  BY <1>11 DEF PollPosition, Settings!Read, posLoopQueue, appVars, clientVars, trackVars,
     bufferVars, history
<1>12. CASE PollNothing \/ Started \/ PrepareMix \/ PrepareNoMix
  <2>1. spc' # "held" /\ UNCHANGED <<server, mFramesReady, mUnreleased, mIsShutdown>>
    BY <1>12 DEF PollNothing, Started, PrepareMix, PrepareNoMix, bufferVars
  <2> QED BY <2>1
<1>13. CASE Adopt
  <2>1. /\ Within(server') /\ mFramesReady' = Left(server')
        /\ spc' = "publish" /\ mIsShutdown' = mIsShutdown
    BY <1>13, AdoptLemma
  <2> QED BY <2>1 DEF Within, Left
<1>14. CASE Publish
  BY <1>14 DEF Publish, settingsQueue, appVars, clientVars, trackVars, bufferVars, history
<1>15. CASE ObserverDone
  BY <1>15 DEF ObserverDone, Settings!Act, posLoopQueue, appVars, clientVars, trackVars,
     bufferVars, history
<1>16. ASSUME NEW n \in 1 .. mFrameCount, Obtain(n) PROVE ServerSound'
  <2>1. UNCHANGED <<server, mFramesReady, mIsShutdown>>
    BY <1>16 DEF Obtain
  <2>2. /\ server \in StaticAudioTrackState /\ ValidState(server) /\ Within(server)
        /\ mFramesReady = Left(server)
    BY DEF TypeOK, AllValid, Within, Left
  <2>3. server.mPosition \in Nat /\ server.mPosition <= mFrameCount /\ End \in Nat
    BY <2>2, FramesAssumption DEF StaticAudioTrackState, ValidState
  <2>4. mUnreleased' \in Nat /\ (mUnreleased' # 0 => server.mPosition + mUnreleased' <= End)
    BY <1>16, <2>3 DEF Obtain
  <2>5. spc' = "held" => mUnreleased' # 0
    BY <1>16 DEF Obtain
  <2>6. Left(server) \in Int /\ End - server.mPosition <= Left(server)
    BY <2>2, <2>3, LeftBounds
  <2>7. ASSUME spc' = "held"
        PROVE  mUnreleased' <= mFramesReady /\ server.mPosition + mUnreleased' <= End
    <3> HIDE DEF End, IInv
    <3>1. server.mPosition + mUnreleased' <= End
      BY <2>4, <2>5, <2>7
    <3>2. mUnreleased' <= Left(server)
      BY <2>3, <2>4, <2>6, <3>1
    <3> QED BY <2>2, <3>1, <3>2
  <2> QED BY <2>1, <2>7 DEF End
<1>17. ASSUME NEW n \in 1 .. mFrameCount, Release(n) PROVE ServerSound'
  <2>1. Within(server') /\ mFramesReady' = Left(server')
    BY <1>17, ReleaseLemma
  <2>2. spc' = "idle" /\ mIsShutdown' = mIsShutdown
    BY <1>17 DEF Release
  <2> QED BY <2>1, <2>2 DEF Within, Left
<1>18. CASE UNCHANGED vars
  BY <1>18 DEF vars, settingsQueue, posLoopQueue, appVars, clientVars, trackVars,
     serverVars, bufferVars, history
<1>19. CASE Create
  <2>1. server' = ZeroState /\ mFramesReady' = mFrameCount /\ spc' = "idle" /\ ~mIsShutdown'
    BY <1>19 DEF Create, Fresh
  <2> QED BY <2>1, ZeroLemma DEF Left
<1>20. CASE Retry
  <2>1. UNCHANGED <<server, mFramesReady, mUnreleased, mIsShutdown, spc>>
    BY <1>20 DEF Retry, TrackStartRejected, serverVars, bufferVars
  <2> QED BY <2>1
<1> QED BY <1>1, <1>2, <1>3, <1>4, <1>5, <1>6, <1>7, <1>8, <1>9, <1>10, <1>11, <1>12, <1>13,
        <1>14, <1>15, <1>16, <1>17, <1>18, <1>19, <1>20 DEF Next, Client, Server, InCall

\* Types are kept.
LEMMA TypeStep ==
    ASSUME IInv, [Next]_vars
    PROVE  TypeOK'
<1> USE DEF IInv, TypeOK, States
<1>1. CASE Prepare
  <2>1. diverged' \in BOOLEAN
    BY <1>1 DEF Prepare, setLoop, setBufferPosition, Remember
  <2>2. todo' \in Seq(TodoItems)
    BY <1>1 DEF Prepare
  <2> QED BY <1>1, <2>1, <2>2, PrepareLemma
          DEF Prepare, settingsQueue, appVars, trackVars, serverVars, bufferVars
<1>2. CASE Push
  BY <1>2 DEF Push, Settings!Write, posLoopQueue, appVars, trackVars, serverVars, bufferVars
<1>3. CASE Restart
  BY <1>3 DEF Restart, TrackStart, settingsQueue, posLoopQueue, appVars, bufferVars, history
<1>4. CASE GetBufferPosition
  BY <1>4, GotLemma DEF GetBufferPosition, settingsQueue, appVars, trackVars, serverVars,
     bufferVars, MayCall, Remember
<1>5. CASE Start
  BY <1>5 DEF Start, TrackStart, TrackStartRejected, trackVars, settingsQueue, posLoopQueue, clientVars, bufferVars,
     history
<1>6. CASE Pause
  BY <1>6 DEF Pause, settingsQueue, posLoopQueue, clientVars, serverVars, bufferVars,
     history
<1>7. CASE Stop
  <2>1. LoopSetting(NoLoop) \in TodoItems /\ PositionSetting(0) \in TodoItems
    BY DEF LoopSetting, PositionSetting, NoLoop, TodoItems
  <2>2. todo' \in Seq(TodoItems)
    BY <1>7, <2>1 DEF Stop
  <2> QED BY <1>7, <2>2 DEF Stop, settingsQueue, posLoopQueue, serverVars, bufferVars, history
<1>8. ASSUME NEW starts \in BOOLEAN, Restore(starts) PROVE TypeOK'
  <2>1. todo' \in Seq(TodoItems) /\ mPosLoop' \in PosLoops /\ isNew' \in BOOLEAN
    <3>1. /\ todo' \in Seq(ValidItems) /\ ValidItems \subseteq TodoItems
          /\ mPosLoop' \in PosLoops /\ isNew' \in BOOLEAN
      <4> HIDE DEF IInv, TypeOK
      <4> QED BY <1>8, RestoreLemma DEF ValidItems
    <3> QED BY <3>1
  <2>2. mState' \in States /\ restores' \in Nat /\ diverged' \in BOOLEAN
    BY <1>8 DEF Restore, Remember, States
  <2> QED BY <1>8, <2>1, <2>2
          DEF Restore, settingsQueue, trackVars, serverVars, bufferVars
<1>9. ASSUME NEW l \in Loops, SetLoop(l) PROVE TypeOK'
  BY <1>9, SettingsValid, LoopsValid DEF SetLoop, settingsQueue, posLoopQueue, trackVars,
     serverVars, bufferVars, history, ValidItems
<1>10. ASSUME NEW p \in Positions, SetPosition(p) PROVE TypeOK'
  BY <1>10, SettingsValid, FramesAssumption DEF SetPosition, settingsQueue, posLoopQueue,
     appVars, trackVars, serverVars, bufferVars, history, ValidItems
<1>11. CASE PollPosition
  BY <1>11 DEF PollPosition, Settings!Read, posLoopQueue, appVars, clientVars, trackVars,
     bufferVars, history
<1>12. CASE PollNothing \/ Started \/ PrepareMix \/ PrepareNoMix
  BY <1>12 DEF PollNothing, Started, PrepareMix, PrepareNoMix, settingsQueue, posLoopQueue,
     appVars, clientVars, trackVars, bufferVars, history
<1>13. CASE Adopt
  BY <1>13, AdoptLemma DEF Adopt, Settings!Acknowledge, posLoopQueue, appVars, clientVars,
     trackVars, history
<1>14. CASE Publish
  BY <1>14, PublishedLemma DEF Publish, settingsQueue, appVars, clientVars, trackVars,
     bufferVars, history, AllValid
<1>15. CASE ObserverDone
  BY <1>15 DEF ObserverDone, Settings!Act, posLoopQueue, appVars, clientVars, trackVars,
     bufferVars, history
<1>16. ASSUME NEW n \in 1 .. mFrameCount, Obtain(n) PROVE TypeOK'
  <2>1. server.mPosition \in Nat /\ End \in 0 .. mFrameCount
    BY FramesAssumption
       DEF StaticAudioTrackState, End, ServerSound, WithinLoop, LoopOK
  <2>2. mUnreleased' \in 0 .. mFrameCount
    <3> DEFINE avail == IF server.mPosition < End THEN End - server.mPosition ELSE 0
    <3>1. mUnreleased' = IF avail < n THEN avail ELSE n
      BY <1>16 DEF Obtain
    <3>2. avail \in 0 .. mFrameCount
      <4> HIDE DEF IInv
      <4> QED BY <2>1, FramesAssumption
    <3> HIDE DEF avail, IInv
    <3> QED BY <3>1, <3>2
  <2> QED BY <1>16, <2>2 DEF Obtain, settingsQueue, posLoopQueue, appVars, clientVars, trackVars, history
<1>17. ASSUME NEW n \in 1 .. mFrameCount, Release(n) PROVE TypeOK'
  <2>1. /\ server' \in StaticAudioTrackState /\ mFramesReady' \in 0 .. INT64_MAX
        /\ mUnreleased' \in 0 .. mFrameCount /\ ValidState(server')
    BY <1>17, ReleaseLemma
  <2>2. posLoop' \in PosLoops
    BY <1>17, <2>1, PublishedLemma DEF Release
  <2> QED BY <1>17, <2>1, <2>2 DEF Release, settingsQueue, appVars, clientVars, trackVars
<1>18. CASE UNCHANGED vars
  BY <1>18 DEF vars, settingsQueue, posLoopQueue, appVars, clientVars, trackVars,
     serverVars, bufferVars, history
<1>19. CASE Create
  <2>1. todo' \in Seq(TodoItems) /\ saved' \in Seq(PosLoops)
    BY <1>19, CreateLemma DEF ValidItems
  <2>2. {acted, isNew, serving, mIsShutdown, diverged}' \subseteq BOOLEAN
    BY <1>19 DEF Create, Fresh
  <2>3. mUnreleased' \in 0 .. mFrameCount
    BY <1>19, FramesAssumption DEF Create, Fresh
  <2> QED BY <1>19, <2>1, <2>2, <2>3, ZeroLemma DEF Create, Fresh
<1>20. CASE Retry
  <2>1. todo' \in Seq(TodoItems)
    BY <1>20, RetryLemma DEF ValidItems
  <2>2. tstate' = tstate /\ phase' \in {"start", "prepare", "mix"}
    BY <1>20 DEF Retry, TrackStartRejected, trackVars, serverVars
  <2> QED BY <1>20, <2>1, <2>2, RetryLemma DEF Retry, TrackStartRejected, settingsQueue, posLoopQueue, trackVars,
     serverVars, bufferVars, history
<1> QED BY <1>1, <1>2, <1>3, <1>4, <1>5, <1>6, <1>7, <1>8, <1>9, <1>10, <1>11, <1>12, <1>13,
        <1>14, <1>15, <1>16, <1>17, <1>18, <1>19, <1>20 DEF Next, Client, Server, InCall

\* Whatever settings are made, replaced, adopted and restored: the settings on
\* their way are valid, in order, and come from what AudioTrack has checked.
THEOREM Invariance == Spec => []IInv
<1>1. Init => IInv
  <2> SUFFICES ASSUME Init PROVE IInv
    OBVIOUS
  <2> USE DEF Init, Settings!RegisterInit
  <2>1. TypeOK
    <3>1. {acted, isNew, serving, mIsShutdown, diverged} \subseteq BOOLEAN
      BY Zenon
    <3>2. 0 \in 0 .. mFrameCount
      BY FramesAssumption
    <3> QED BY <3>1, <3>2, ZeroLemma DEF TypeOK, States
  <2>2. AllValid
    BY ZeroLemma, CountLemma DEF AllValid
  <2>3. QueueOrder
    BY ZeroLemma DEF QueueOrder
  <2>4. LoopOrigin
    BY ZeroLemma, LoopSinceReflexive DEF LoopOrigin
  <2>5. NoStalePosition
    BY ZeroLemma DEF NoStalePosition
  <2>6. ServerSound
    BY ZeroLemma DEF ServerSound, WithinLoop, FramesReadyExact, FramesLeft, Within, Left
  <2> QED BY <2>1, <2>2, <2>3, <2>4, <2>5, <2>6 DEF IInv
<1>2. IInv /\ [Next]_vars => IInv'
  <2> SUFFICES ASSUME IInv, [Next]_vars PROVE IInv'
    OBVIOUS
  <2> QED BY TypeStep, ValidStep, OrderStep, OriginStep, FreshnessStep, SoundStep DEF IInv
<1> QED BY <1>1, <1>2, PTL DEF Spec

\* StaticAudioTrackServerProxy never shuts its client down, plays to the end of
\* the loop exactly, and its count of frames ready is what is left to play: no
\* assertion of obtainBuffer() and releaseBuffer() fails, for every buffer size,
\* every loop and position within it and every order of the two sides' steps.
THEOREM Soundness == Spec => []ServerSound
BY Invariance, PTL DEF IInv

\* The position that the client is shown is never one from before its last
\* setting ("The client side getters will read a cached version of the position
\* and loop variables until the setting takes effect", AudioTrackShared.h).
THEOREM Freshness == Spec => []NoStalePosition
BY Invariance, PTL DEF IInv

-----------------------------------------------------------------------------
(* What the client shows before its settings have taken effect is what the *)
(* server makes of them.                                                   *)

\* A position that is shown or published tells of a state.
TellsOf(shown, s) == shown.mBufferPosition = s.mPosition /\ shown.mLoopCount = s.mLoopCount

\* The server has adopted what it has polled, and published where it is then.
ServerTells ==
    /\ spc # "polled" => server.mPositionSequence = polled.mPositionSequence
    /\ spc \notin {"polled", "publish"} => TellsOf(posLoop, server)

\* A setting that is about to be pushed is one of a loop or of a position, it is
\* the later one of the two, and if nothing diverged it replaces none of its kind.
OneSetting ==
    cpc = "push" =>
        \/ /\ state.mLoopSequence > state.mPositionSequence
           /\ state.mPositionSequence = pushed.mPositionSequence
           /\ state.mPosition = pushed.mPosition
           /\ ~diverged => pushed.mLoopSequence = polled.mLoopSequence
        \/ /\ state.mPositionSequence > state.mLoopSequence
           /\ state.mLoopSequence = pushed.mLoopSequence
           /\ state.mLoopStart = pushed.mLoopStart /\ state.mLoopEnd = pushed.mLoopEnd
           /\ state.mLoopCount = pushed.mLoopCount
           /\ ~diverged => pushed.mPositionSequence = polled.mPositionSequence

\* The state of the server once it has adopted all settings made so far.
Foreseen == Adopted(Adopted(server, polled), state)

Predicted == ~diverged => TellsOf(mPosLoop, Foreseen)

IllusionInv == ServerTells /\ OneSetting /\ Predicted

-----------------------------------------------------------------------------
(* How settings compose when they are adopted.                             *)

\* The settings that were adopted are recorded by their numbers.
LEMMA AdoptedSequences ==
    ASSUME NEW a \in StaticAudioTrackState, NEW b \in StaticAudioTrackState
    PROVE  /\ Adopted(a, b) \in StaticAudioTrackState
           /\ Adopted(a, b).mLoopSequence = b.mLoopSequence
           /\ Adopted(a, b).mPositionSequence = b.mPositionSequence
<1>1. \A x \in StaticAudioTrackState :
          /\ WithLoop(x, b) \in StaticAudioTrackState
          /\ WithLoop(x, b).mLoopSequence = b.mLoopSequence
          /\ WithLoop(x, b).mPositionSequence = x.mPositionSequence
  BY DEF WithLoop, StaticAudioTrackState
<1>2. \A x \in StaticAudioTrackState :
          /\ WithPosition(x, b) \in StaticAudioTrackState
          /\ WithPosition(x, b).mLoopSequence = x.mLoopSequence
          /\ WithPosition(x, b).mPositionSequence = b.mPositionSequence
  <2> SUFFICES ASSUME NEW x \in StaticAudioTrackState,
                      x.mPositionSequence # b.mPositionSequence
               PROVE  /\ WithPosition(x, b) \in StaticAudioTrackState
                      /\ WithPosition(x, b).mLoopSequence = x.mLoopSequence
                      /\ WithPosition(x, b).mPositionSequence = b.mPositionSequence
    BY DEF WithPosition
  <2> DEFINE c == IF b.mPosition >= x.mLoopEnd THEN 0 ELSE x.mLoopCount
  <2>1. c \in Int
    BY DEF StaticAudioTrackState
  <2>2. WithPosition(x, b) = [x EXCEPT !.mLoopCount = c, !.mPosition = b.mPosition,
                                       !.mPositionSequence = b.mPositionSequence]
    BY DEF WithPosition
  <2> HIDE DEF c
  <2> QED BY <2>1, <2>2 DEF StaticAudioTrackState
<1> QED BY <1>1, <1>2 DEF Adopted

\* Settings that were adopted before change nothing.
LEMMA AdoptedAgain ==
    ASSUME NEW a, NEW b, a.mLoopSequence = b.mLoopSequence,
           a.mPositionSequence = b.mPositionSequence
    PROVE  Adopted(a, b) = a
BY DEF Adopted, WithLoop, WithPosition

\* A loop that was set last is adopted last, if it does not replace one.
LEMMA LoopComposes ==
    ASSUME NEW q \in StaticAudioTrackState, NEW s \in StaticAudioTrackState,
           NEW t \in StaticAudioTrackState,
           q.mLoopSequence = s.mLoopSequence,
           t.mPositionSequence = s.mPositionSequence, t.mPosition = s.mPosition,
           t.mLoopSequence > t.mPositionSequence
    PROVE  /\ Adopted(q, t) = WithLoop(Adopted(q, s), t)
           /\ Adopted(Adopted(q, s), t) = Adopted(q, t)
<1>1. Adopted(q, s) = WithPosition(q, s)
  <2>1. WithLoop(q, s) = q
    BY DEF WithLoop
  <2>2. WithPosition(q, s).mLoopSequence = s.mLoopSequence
    BY DEF WithPosition, StaticAudioTrackState
  <2>3. WithLoop(WithPosition(q, s), s) = WithPosition(q, s)
    BY <2>2 DEF WithLoop
  <2> QED BY <2>1, <2>3 DEF Adopted
<1>2. ~(t.mLoopSequence < t.mPositionSequence)
  BY DEF StaticAudioTrackState
<1>3. \A x : Adopted(x, t) = WithLoop(WithPosition(x, t), t)
  BY <1>2 DEF Adopted
<1>4. WithPosition(q, t) = WithPosition(q, s)
  BY DEF WithPosition
<1>5. Adopted(q, s).mPositionSequence = t.mPositionSequence
  BY AdoptedSequences
<1>6. WithPosition(Adopted(q, s), t) = Adopted(q, s)
  BY <1>5 DEF WithPosition
<1> QED BY <1>1, <1>3, <1>4, <1>6

\* A position that was set last is adopted last, if it does not replace one.
LEMMA PositionComposes ==
    ASSUME NEW q \in StaticAudioTrackState, NEW s \in StaticAudioTrackState,
           NEW t \in StaticAudioTrackState,
           q.mPositionSequence = s.mPositionSequence,
           t.mLoopSequence = s.mLoopSequence, t.mLoopStart = s.mLoopStart,
           t.mLoopEnd = s.mLoopEnd, t.mLoopCount = s.mLoopCount,
           t.mPositionSequence > t.mLoopSequence
    PROVE  /\ Adopted(q, t) = WithPosition(Adopted(q, s), t)
           /\ Adopted(Adopted(q, s), t) = Adopted(q, t)
<1>1. Adopted(q, s) = WithLoop(q, s)
  <2>1. WithPosition(q, s) = q
    BY DEF WithPosition
  <2>2. WithLoop(q, s).mPositionSequence = s.mPositionSequence
    BY DEF WithLoop, StaticAudioTrackState
  <2>3. WithPosition(WithLoop(q, s), s) = WithLoop(q, s)
    BY <2>2 DEF WithPosition
  <2> QED BY <2>1, <2>3 DEF Adopted
<1>2. t.mLoopSequence < t.mPositionSequence
  BY DEF StaticAudioTrackState
<1>3. \A x : Adopted(x, t) = WithPosition(WithLoop(x, t), t)
  BY <1>2 DEF Adopted
<1>4. WithLoop(q, t) = WithLoop(q, s)
  <2> DEFINE p == IF s.mLoopCount # 0 /\ q.mPosition >= s.mLoopEnd THEN s.mLoopStart ELSE q.mPosition
  <2>1. [s EXCEPT !.mPosition = p, !.mPositionSequence = q.mPositionSequence]
            = [t EXCEPT !.mPosition = p, !.mPositionSequence = q.mPositionSequence]
    BY DEF StaticAudioTrackState
  <2> QED BY <2>1 DEF WithLoop
<1>5. Adopted(q, s).mLoopSequence = t.mLoopSequence
  BY AdoptedSequences
<1>6. WithLoop(Adopted(q, s), t) = Adopted(q, s)
  BY <1>5 DEF WithLoop
<1> QED BY <1>1, <1>3, <1>4, <1>6

-----------------------------------------------------------------------------
(* The steps.                                                              *)

\* When the server and what it has polled are in step, it has adopted it.
LEMMA InStep ==
    ASSUME IInv, ServerTells, spc # "polled"
    PROVE  Adopted(server, polled) = server
BY AdoptedAgain DEF IInv, LoopOrigin, ServerTells

\* Facts about the state that is foreseen.
LEMMA ForeseenLemma ==
    ASSUME IInv
    PROVE  /\ Adopted(server, polled) \in StaticAudioTrackState
           /\ Adopted(server, polled).mLoopSequence = polled.mLoopSequence
           /\ Adopted(server, polled).mPositionSequence = polled.mPositionSequence
           /\ Foreseen \in StaticAudioTrackState
           /\ Foreseen.mLoopSequence = state.mLoopSequence
           /\ Foreseen.mPositionSequence = state.mPositionSequence
           /\ Foreseen.mLoopEnd = state.mLoopEnd
<1> DEFINE q == Adopted(server, polled)
<1>1. {server, polled, pushed, state} \subseteq StaticAudioTrackState
  BY DEF IInv, TypeOK
<1>2. /\ ValidState(server) /\ ValidState(polled) /\ ValidState(state) /\ Within(server)
      /\ LoopSince(server, polled) /\ LoopSince(polled, pushed) /\ LoopSince(pushed, state)
  BY DEF IInv, AllValid, ServerSound, WithinLoop, Within, LoopOrigin
<1>3. /\ q \in StaticAudioTrackState /\ ValidState(q) /\ Within(q) /\ LoopSince(q, polled)
      /\ q.mLoopSequence = polled.mLoopSequence
      /\ q.mPositionSequence = polled.mPositionSequence
  BY <1>1, <1>2, AdoptedLemma, AdoptedSequences
<1> HIDE DEF q
<1>4. LoopSince(q, state)
  BY <1>1, <1>2, <1>3, LoopSinceTransitive
<1>5. /\ Adopted(q, state) \in StaticAudioTrackState
      /\ Adopted(q, state).mLoopSequence = state.mLoopSequence
      /\ Adopted(q, state).mPositionSequence = state.mPositionSequence
      /\ LoopSince(Adopted(q, state), state)
  BY <1>1, <1>2, <1>3, <1>4, AdoptedLemma, AdoptedSequences
<1> QED BY <1>3, <1>5 DEF Foreseen, q, LoopSince

\* A position that the client reads, and one that it has kept while nothing
\* diverged, tell of the state that is foreseen.
LEMMA GotTells ==
    ASSUME IInv, IllusionInv, cpc = "idle", NEW got,
           got \in getBufferPositionAndLoopCount \cup {[mPosLoop |-> mPosLoop, isNew |-> isNew]},
           ~(diverged /\ isNew = got.isNew)
    PROVE  TellsOf(got.mPosLoop, Foreseen)
<1>1. CASE SSQ_DONE /\ isNew /\ got = [mPosLoop |-> posLoop, isNew |-> FALSE]
  <2>1. got.mPosLoop = posLoop
    BY <1>1
  <2>2. acked = sequence /\ acted
    BY <1>1 DEF SSQ_DONE
  <2>3. polledAs = sequence /\ spc \notin {"polled", "publish"}
    BY <2>2 DEF IInv, TypeOK, QueueOrder
  <2>4. polled = state
    BY <2>3 DEF IInv, QueueOrder
  <2>5. Adopted(server, polled) = server
    BY <2>3, InStep DEF IllusionInv
  <2>6. Foreseen = server
    BY <2>4, <2>5 DEF Foreseen
  <2> QED BY <2>1, <2>3, <2>6 DEF IllusionInv, ServerTells
<1>2. CASE got = [mPosLoop |-> mPosLoop, isNew |-> isNew]
  BY <1>2 DEF IllusionInv, Predicted
<1> QED BY <1>1, <1>2 DEF getBufferPositionAndLoopCount

\* A loop or a position that is set is shown at once as the server will have it.
LEMMA PrepareIllusion ==
    ASSUME IInv, IllusionInv, Prepare
    PROVE  OneSetting' /\ Predicted'
<1>1. /\ cpc = "idle" /\ cpc' = "push" /\ pushed = state
      /\ UNCHANGED <<server, polled, pushed>>
  BY DEF Prepare, settingsQueue, serverVars, bufferVars, IInv, QueueOrder
<1>2. /\ state \in StaticAudioTrackState /\ state' \in StaticAudioTrackState
      /\ polled \in StaticAudioTrackState
  BY PrepareLemma DEF IInv, TypeOK
<1> DEFINE q == Adopted(server, polled)
<1>3. /\ q \in StaticAudioTrackState
      /\ q.mLoopSequence = polled.mLoopSequence
      /\ q.mPositionSequence = polled.mPositionSequence
      /\ Foreseen = Adopted(q, state) /\ Foreseen' = Adopted(q, state')
      /\ Foreseen \in StaticAudioTrackState
      /\ Foreseen.mLoopSequence = state.mLoopSequence
      /\ Foreseen.mPositionSequence = state.mPositionSequence
      /\ Foreseen.mLoopEnd = state.mLoopEnd
  BY <1>1, ForeseenLemma DEF Foreseen
<1> HIDE DEF q
<1>4. CASE Head(todo).kind = "loop"
  <2> DEFINE l == Head(todo).loop
             n == incrementSequence(state.mLoopSequence, state.mPositionSequence)
  <2>1. l.mLoopStart \in Nat /\ l.mLoopEnd \in Nat /\ l.mLoopCount \in Int
    <3>1. Head(todo) \in TodoItems
      BY DEF Prepare, IInv, TypeOK
    <3> QED BY <1>4, <3>1 DEF TodoItems
  <2>2. setLoop(l)
    BY <1>4 DEF Prepare
  <2>3. n \in Nat /\ n > state.mLoopSequence /\ n > state.mPositionSequence
    BY <1>2 DEF incrementSequence, StaticAudioTrackState
  <2> HIDE DEF l, n
  <2>4. state' = [state EXCEPT !.mLoopStart = l.mLoopStart, !.mLoopEnd = l.mLoopEnd,
                               !.mLoopCount = l.mLoopCount, !.mLoopSequence = n]
    BY <2>2 DEF setLoop, n
  <2>5. /\ state'.mLoopCount = l.mLoopCount /\ state'.mLoopStart = l.mLoopStart
        /\ state'.mLoopEnd = l.mLoopEnd /\ state'.mLoopSequence = n
        /\ state'.mPosition = state.mPosition
        /\ state'.mPositionSequence = state.mPositionSequence
    BY <1>2, <2>4 DEF StaticAudioTrackState
  <2>6. diverged' = ((diverged /\ isNew = isNew') \/ pushed.mLoopSequence # polled.mLoopSequence)
    BY <2>2 DEF setLoop, Remember
  <2>7. OneSetting'
    BY <1>1, <2>3, <2>5, <2>6 DEF OneSetting
  <2>8. ASSUME ~diverged' PROVE TellsOf(mPosLoop', Foreseen')
    <3>1. PICK got \in getBufferPositionAndLoopCount :
              /\ isNew' = got.isNew
              /\ mPosLoop' = [mBufferPosition |->
                                  IF l.mLoopCount # 0 /\ got.mPosLoop.mBufferPosition >= l.mLoopEnd
                                  THEN l.mLoopStart ELSE got.mPosLoop.mBufferPosition,
                              mLoopCount |-> l.mLoopCount, asOf |-> sequence + 2]
      BY <2>2 DEF setLoop
    <3>2. pushed.mLoopSequence = polled.mLoopSequence /\ ~(diverged /\ isNew = got.isNew)
      BY <2>6, <2>8, <3>1
    <3>3. TellsOf(got.mPosLoop, Foreseen)
      BY <1>1, <3>2, GotTells
    <3>4. Foreseen' = WithLoop(Foreseen, state')
      BY <1>1, <1>2, <1>3, <2>3, <2>5, <3>2, LoopComposes
    <3>5. Foreseen.mLoopSequence # state'.mLoopSequence
      BY <1>2, <1>3, <2>3, <2>5 DEF StaticAudioTrackState
    <3>6. /\ Foreseen'.mPosition =
                IF l.mLoopCount # 0 /\ Foreseen.mPosition >= l.mLoopEnd THEN l.mLoopStart
                                                                        ELSE Foreseen.mPosition
          /\ Foreseen'.mLoopCount = l.mLoopCount
      BY <1>2, <2>5, <3>4, <3>5 DEF WithLoop, StaticAudioTrackState
    <3> QED BY <3>1, <3>3, <3>6 DEF TellsOf
  <2> QED BY <2>7, <2>8 DEF Predicted
<1>5. CASE Head(todo).kind # "loop"
  <2> DEFINE p == Head(todo).position
             n == incrementSequence(state.mPositionSequence, state.mLoopSequence)
  <2>1. setBufferPosition(p)
    BY <1>5 DEF Prepare
  <2>2. n \in Nat /\ n > state.mLoopSequence /\ n > state.mPositionSequence
    BY <1>2 DEF incrementSequence, StaticAudioTrackState
  <2> HIDE DEF p, n
  <2>3. state' = [state EXCEPT !.mPosition = p, !.mPositionSequence = n]
    BY <2>1 DEF setBufferPosition, n
  <2>4. /\ state'.mLoopCount = state.mLoopCount /\ state'.mLoopStart = state.mLoopStart
        /\ state'.mLoopEnd = state.mLoopEnd /\ state'.mLoopSequence = state.mLoopSequence
        /\ state'.mPosition = p /\ state'.mPositionSequence = n
    BY <1>2, <2>3 DEF StaticAudioTrackState
  <2>5. diverged' = ((diverged /\ isNew = isNew')
                        \/ pushed.mPositionSequence # polled.mPositionSequence)
    BY <2>1 DEF setBufferPosition, Remember
  <2>6. OneSetting'
    BY <1>1, <2>2, <2>4, <2>5 DEF OneSetting
  <2>7. ASSUME ~diverged' PROVE TellsOf(mPosLoop', Foreseen')
    <3>1. PICK got \in IF state.mLoopCount > 0 THEN getBufferPositionAndLoopCount
                       ELSE {[mPosLoop |-> mPosLoop, isNew |-> isNew]} :
              /\ isNew' = got.isNew
              /\ mPosLoop' = [mBufferPosition |-> p,
                              mLoopCount |-> IF p >= state.mLoopEnd THEN 0
                                                                    ELSE got.mPosLoop.mLoopCount,
                              asOf |-> sequence + 2]
      BY <2>1 DEF setBufferPosition
    <3>2. /\ pushed.mPositionSequence = polled.mPositionSequence
          /\ ~(diverged /\ isNew = got.isNew)
      BY <2>5, <2>7, <3>1
    <3>3. TellsOf(got.mPosLoop, Foreseen)
      BY <1>1, <3>1, <3>2, GotTells
    <3>4. Foreseen' = WithPosition(Foreseen, state')
      BY <1>1, <1>2, <1>3, <2>2, <2>4, <3>2, PositionComposes
    <3>5. Foreseen.mPositionSequence # state'.mPositionSequence
      BY <1>2, <1>3, <2>2, <2>4 DEF StaticAudioTrackState
    <3>6. /\ Foreseen'.mPosition = p
          /\ Foreseen'.mLoopCount = IF p >= state.mLoopEnd THEN 0 ELSE Foreseen.mLoopCount
      BY <1>2, <1>3, <2>4, <3>4, <3>5 DEF WithPosition, StaticAudioTrackState
    <3> QED BY <3>1, <3>3, <3>6 DEF TellsOf
  <2> QED BY <2>6, <2>7 DEF Predicted
<1> QED BY <1>4, <1>5

\* The illusion is kept up by every step.  Polling changes nothing about what is
\* foreseen, although it may come between a setting and its push.
LEMMA IllusionStep ==
    ASSUME IInv, IllusionInv, [Next]_vars
    PROVE  IllusionInv'
<1> USE DEF IllusionInv
<1>1. CASE UNCHANGED <<server, polled, pushed, state, mPosLoop, posLoop, spc, cpc, diverged>>
  BY <1>1 DEF ServerTells, OneSetting, Predicted, Foreseen, TellsOf
<1>2. CASE UNCHANGED <<server, polled, pushed, state, mPosLoop, posLoop, cpc, diverged>>
           /\ spc \notin {"polled", "publish"} /\ spc' \notin {"polled", "publish"}
  BY <1>2 DEF ServerTells, OneSetting, Predicted, Foreseen, TellsOf
<1>3. CASE Prepare
  <2>1. ServerTells'
    BY <1>3 DEF Prepare, settingsQueue, serverVars, bufferVars, ServerTells, TellsOf
  <2> QED BY <1>3, <2>1, PrepareIllusion
<1>4. CASE Push
  <2>1. cpc' = "idle" /\ UNCHANGED <<server, polled, state, mPosLoop, posLoop, spc, diverged>>
    BY <1>4 DEF Push, Settings!Write, posLoopQueue, serverVars, bufferVars
  <2> QED BY <2>1 DEF ServerTells, OneSetting, Predicted, Foreseen, TellsOf
<1>5. CASE GetBufferPosition \/ \E starts \in BOOLEAN : Restore(starts)
  <2>1. /\ cpc = "idle" /\ cpc' = "idle"
        /\ UNCHANGED <<server, polled, pushed, state, posLoop, spc>>
    BY <1>5 DEF GetBufferPosition, Restore, MayCall, settingsQueue, serverVars, bufferVars
  <2>2. PICK got \in getBufferPositionAndLoopCount :
            isNew' = got.isNew /\ mPosLoop' = got.mPosLoop
    BY <1>5 DEF GetBufferPosition, Restore
  <2>3. ~diverged' => ~(diverged /\ isNew = got.isNew)
    BY <1>5, <2>2 DEF GetBufferPosition, Restore, Remember
  <2>4. ~diverged' => TellsOf(got.mPosLoop, Foreseen)
    BY <2>1, <2>3, GotTells
  <2>5. Foreseen' = Foreseen
    BY <2>1 DEF Foreseen
  <2>6. Predicted'
    BY <2>2, <2>4, <2>5 DEF Predicted
  <2> QED BY <2>1, <2>6 DEF ServerTells, OneSetting, TellsOf
<1>6. CASE Create
  <2>1. /\ server' = ZeroState /\ polled' = ZeroState /\ state' = ZeroState
        /\ mPosLoop' = ZeroPosLoop /\ posLoop' = ZeroPosLoop /\ cpc' = "idle"
    BY <1>6 DEF Create, Fresh
  <2>2. Adopted(ZeroState, ZeroState) = ZeroState
    BY AdoptedAgain
  <2>3. Foreseen' = ZeroState
    BY <2>1, <2>2 DEF Foreseen
  <2>4. TellsOf(ZeroPosLoop, ZeroState)
    BY DEF TellsOf, ZeroPosLoop, ZeroState
  <2> QED BY <2>1, <2>3, <2>4 DEF ServerTells, OneSetting, Predicted
<1>7. CASE PollPosition
  <2>1. /\ spc = "idle" /\ spc' = "polled" /\ polled' = pushed
        /\ UNCHANGED <<server, pushed, state, mPosLoop, cpc, diverged>>
    BY <1>7 DEF PollPosition, Polls, Settings!Read, clientVars, bufferVars, history
  <2>2. /\ server \in StaticAudioTrackState /\ pushed \in StaticAudioTrackState
        /\ state \in StaticAudioTrackState /\ cpc \in {"idle", "push"}
    BY DEF IInv, TypeOK
  <2>3. /\ Adopted(server, polled) = server
        /\ server.mLoopSequence = polled.mLoopSequence
        /\ server.mPositionSequence = polled.mPositionSequence
    BY <2>1, InStep DEF IInv, LoopOrigin, ServerTells
  <2>4. Foreseen = Adopted(server, state) /\ Foreseen' = Adopted(Adopted(server, pushed), state)
    BY <2>1, <2>3 DEF Foreseen
  <2>5. ~diverged => Foreseen' = Foreseen
    <3>1. CASE cpc = "idle"
      <4>1. pushed = state
        BY <3>1 DEF IInv, QueueOrder
      <4> QED BY <2>2, <2>4, <4>1, AdoptedSequences, AdoptedAgain
    <3>2. CASE cpc = "push"
      BY <2>2, <2>3, <2>4, <3>2, LoopComposes, PositionComposes DEF OneSetting
    <3> QED BY <2>2, <3>1, <3>2
  <2>6. Predicted'
    BY <2>1, <2>5 DEF Predicted
  <2> QED BY <2>1, <2>6 DEF ServerTells, OneSetting
<1>8. CASE Adopt
  <2>1. /\ server' = Adopted(server, polled) /\ spc' = "publish"
        /\ UNCHANGED <<polled, pushed, state, mPosLoop, cpc, diverged>>
    <3>1. spc' = "publish"
      BY <1>8, AdoptLemma
    <3> QED BY <1>8, <3>1 DEF Adopt, Settings!Acknowledge, clientVars, history
  <2>2. server'.mPositionSequence = polled.mPositionSequence
    BY <2>1, ForeseenLemma
  <2>3. Adopted(server', polled') = Adopted(server, polled)
    BY <2>1, ForeseenLemma, AdoptedAgain
  <2>4. Foreseen' = Foreseen
    BY <2>1, <2>3 DEF Foreseen
  <2> QED BY <2>1, <2>2, <2>4 DEF ServerTells, OneSetting, Predicted
<1>9. CASE Publish
  <2>1. /\ spc = "publish" /\ spc' = "done" /\ posLoop' = Published(server, polledAs)
        /\ UNCHANGED <<server, polled, pushed, state, mPosLoop, cpc, diverged>>
    BY <1>9 DEF Publish, settingsQueue, clientVars, bufferVars, history
  <2>2. TellsOf(posLoop', server)
    BY <2>1 DEF TellsOf, Published
  <2>3. Foreseen' = Foreseen
    BY <2>1 DEF Foreseen
  <2> QED BY <2>1, <2>2, <2>3 DEF ServerTells, OneSetting, Predicted
<1>10. ASSUME NEW n \in 1 .. mFrameCount, Release(n) PROVE IllusionInv'
  <2>1. /\ spc = "held" /\ spc' = "idle" /\ diverged' = TRUE
        /\ posLoop' = Published(server', polledAs)
        /\ UNCHANGED <<polled, pushed, state, cpc>>
    BY <1>10 DEF Release, settingsQueue, clientVars
  <2>2. TellsOf(posLoop', server')
    BY <2>1 DEF TellsOf, Published
  <2>3. server'.mPositionSequence = server.mPositionSequence
    BY <1>10 DEF Release, Advanced, IInv, TypeOK, StaticAudioTrackState
  <2> QED BY <2>1, <2>2, <2>3 DEF ServerTells, OneSetting, Predicted
<1>11. CASE Restart \/ Retry \/ Start \/ Pause \/ Stop
  BY <1>1, <1>11 DEF Restart, Retry, Start, Pause, Stop, TrackStart, TrackStartRejected, settingsQueue, posLoopQueue,
     clientVars, serverVars, bufferVars, history
<1>12. ASSUME NEW l \in Loops, SetLoop(l) PROVE IllusionInv'
  BY <1>1, <1>12 DEF SetLoop, settingsQueue, posLoopQueue, serverVars, bufferVars, history
<1>13. ASSUME NEW p \in Positions, SetPosition(p) PROVE IllusionInv'
  BY <1>1, <1>13 DEF SetPosition, settingsQueue, posLoopQueue, serverVars, bufferVars, history
<1>14. CASE PollNothing \/ Started \/ PrepareMix \/ PrepareNoMix
  BY <1>2, <1>14 DEF PollNothing, Polls, Started, PrepareMix, PrepareNoMix, settingsQueue,
     posLoopQueue, clientVars, bufferVars, history
<1>15. CASE ObserverDone
  BY <1>2, <1>15 DEF ObserverDone, Settings!Act, posLoopQueue, clientVars, bufferVars, history
<1>16. ASSUME NEW n \in 1 .. mFrameCount, Obtain(n) PROVE IllusionInv'
  BY <1>2, <1>16 DEF Obtain, settingsQueue, posLoopQueue, clientVars, history
<1>17. CASE UNCHANGED vars
  BY <1>1, <1>17 DEF vars, settingsQueue, posLoopQueue, clientVars, serverVars, bufferVars, history
<1> QED BY <1>3, <1>4, <1>5, <1>6, <1>7, <1>8, <1>9, <1>10, <1>11, <1>12, <1>13, <1>14, <1>15,
        <1>16, <1>17 DEF Next, Client, Server, InCall

\* At first nothing is set and nothing has diverged.
LEMMA InitIllusion ==
    ASSUME Init
    PROVE  IllusionInv
<1>1. /\ server = ZeroState /\ polled = ZeroState /\ state = ZeroState /\ cpc = "idle"
      /\ mPosLoop = ZeroPosLoop /\ posLoop = ZeroPosLoop
  BY DEF Init, Settings!RegisterInit
<1>2. Foreseen = ZeroState
  BY <1>1, AdoptedAgain DEF Foreseen
<1>3. TellsOf(ZeroPosLoop, ZeroState)
  BY DEF TellsOf, ZeroPosLoop, ZeroState
<1> QED BY <1>1, <1>2, <1>3 DEF IllusionInv, ServerTells, OneSetting, Predicted

\* The setters of StaticAudioTrackClientProxy foretell the server: as long as no
\* frames are played and no setting is replaced unread, the position and loop count
\* that they show are those the server comes to when it adopts all settings.
THEOREM Illusion == Spec => []IllusionKept
<1>1. Init => IllusionInv
  BY InitIllusion
<1>2. IInv /\ IllusionInv /\ [Next]_vars => IllusionInv'
  BY IllusionStep
<1>3. IInv /\ IllusionInv => IllusionKept
  <2> SUFFICES ASSUME IInv, IllusionInv, spc = "publish", polledAs = sequence, cpc = "idle",
                      ~diverged
               PROVE  TellsOf(mPosLoop, server)
    BY DEF IllusionKept, TellsOf
  <2>1. polled = state
    BY DEF IInv, QueueOrder
  <2>2. Adopted(server, polled) = server
    BY InStep DEF IllusionInv
  <2> QED BY <2>1, <2>2 DEF IllusionInv, Predicted, Foreseen
<1> QED BY <1>1, <1>2, <1>3, Invariance, PTL DEF Spec

-----------------------------------------------------------------------------
(* Restoration.                                                            *)

\* A position that is shown within a loop is within the loop that was set.
ShownInLoop == mPosLoop.mLoopCount # 0 => mPosLoop.mBufferPosition < state.mLoopEnd

\* Items whose loop, if they set one, ends where AudioTrack's does, and whose
\* position, if they restore one within a loop, is before that end.
ItemsOf(loop) ==
    {item \in TodoItems :
        /\ item.kind = "loop" /\ item.loop.mLoopCount # 0 => item.loop.mLoopEnd = loop.mLoopEnd
        /\ item.kind \in {"create", "start"} /\ item.shown.mLoopCount # 0
              => item.shown.mBufferPosition < loop.mLoopEnd}

\* The loop that AudioTrack keeps ends where the proxy's does.
KeptLoop ==
    /\ todo \in Seq(ItemsOf(mLoop))
    /\ state.mLoopCount # 0 /\ (todo = <<>> \/ Head(todo).kind # "loop")
          => mLoop.mLoopEnd = state.mLoopEnd

OnlyStarts(items) == \A i \in DOMAIN items : items[i].kind = "start"

\* The position is next, and then nothing but perhaps start().
PositionNext(items, shown) ==
    /\ items # <<>> /\ Head(items) = PositionSetting(shown.mBufferPosition)
    /\ OnlyStarts(Tail(items))

\* How far a restoration is: nothing is set yet, the loop is, or both are.
RestoresBoth(shown) ==
    /\ cpc = "idle" /\ mPosLoop = ZeroPosLoop /\ state = ZeroState
    /\ IF shown.mLoopCount = 0 THEN PositionNext(todo, shown)
       ELSE /\ todo # <<>> /\ PositionNext(Tail(todo), shown)
            /\ Head(todo).kind = "loop"
            /\ Head(todo).loop.mLoopCount = shown.mLoopCount
            /\ shown.mBufferPosition < Head(todo).loop.mLoopEnd
RestoresPosition(shown) ==
    /\ PositionNext(todo, shown)
    /\ shown.mLoopCount # 0 /\ mPosLoop.mLoopCount = shown.mLoopCount
    /\ shown.mBufferPosition < state.mLoopEnd
RestoresNothing(shown) ==
    /\ cpc = "push" /\ OnlyStarts(todo)
    /\ mPosLoop.mBufferPosition = shown.mBufferPosition
    /\ mPosLoop.mLoopCount = shown.mLoopCount

\* While a track is restored its server does not look at it.
Restoring ==
    saved # <<>> =>
        /\ ~serving /\ phase = "prepare" /\ spc = "idle" /\ ~acted
        /\ \/ RestoresBoth(saved[1])
           \/ RestoresPosition(saved[1])
           \/ RestoresNothing(saved[1])

RestoreInv == ShownInLoop /\ KeptLoop /\ Restoring

\* What setLoop() and setBufferPosition() do, field by field.
LEMMA PrepareFields ==
    ASSUME IInv, Prepare
    PROVE  /\ cpc = "idle" /\ cpc' = "push" /\ todo' = Tail(todo) /\ todo # <<>>
           /\ Head(todo) \in TodoItems /\ Head(todo).kind \in {"loop", "position"}
           /\ Head(todo).kind = "loop" =>
                 /\ state'.mLoopEnd = Head(todo).loop.mLoopEnd
                 /\ state'.mLoopCount = Head(todo).loop.mLoopCount
                 /\ mPosLoop'.mLoopCount = Head(todo).loop.mLoopCount
                 /\ mPosLoop'.mLoopCount # 0 => mPosLoop'.mBufferPosition < state'.mLoopEnd
           /\ Head(todo).kind # "loop" =>
                 /\ state'.mLoopEnd = state.mLoopEnd /\ state'.mLoopCount = state.mLoopCount
                 /\ mPosLoop'.mBufferPosition = Head(todo).position
                 /\ \E got \in getBufferPositionAndLoopCount
                                  \cup {[mPosLoop |-> mPosLoop, isNew |-> isNew]} :
                       mPosLoop'.mLoopCount = IF Head(todo).position >= state.mLoopEnd THEN 0
                                              ELSE got.mPosLoop.mLoopCount
<1>1. /\ cpc = "idle" /\ cpc' = "push" /\ todo' = Tail(todo) /\ todo # <<>>
      /\ Head(todo).kind \in {"loop", "position"}
  BY DEF Prepare
<1>2. Head(todo) \in ValidItems /\ state \in StaticAudioTrackState
  BY <1>1 DEF IInv, AllValid, TypeOK
<1>3. Head(todo) \in TodoItems /\ Head(todo).kind \in {"loop", "position"}
  BY <1>1, <1>2 DEF ValidItems, TodoItems
<1>4. CASE Head(todo).kind = "loop"
  <2> DEFINE l == Head(todo).loop
  <2>1. l.mLoopStart \in Nat /\ l.mLoopEnd \in Nat /\ l.mLoopCount \in Int /\ LoopOK(l)
    BY <1>2, <1>4 DEF ValidItems, TodoItems, ValidItem
  <2>2. setLoop(l)
    BY <1>4 DEF Prepare
  <2> HIDE DEF l
  <2>3. state'.mLoopEnd = l.mLoopEnd /\ state'.mLoopCount = l.mLoopCount
    BY <1>2, <2>2 DEF setLoop, StaticAudioTrackState
  <2>4. PICK got \in getBufferPositionAndLoopCount :
            mPosLoop' = [mBufferPosition |->
                             IF l.mLoopCount # 0 /\ got.mPosLoop.mBufferPosition >= l.mLoopEnd
                             THEN l.mLoopStart ELSE got.mPosLoop.mBufferPosition,
                         mLoopCount |-> l.mLoopCount, asOf |-> sequence + 2]
    BY <2>2 DEF setLoop
  <2>5. got.mPosLoop.mBufferPosition \in Int
    BY <1>1, GotLemma DEF IInv, PosLoops
  <2>6. l.mLoopCount # 0 => mPosLoop'.mBufferPosition < l.mLoopEnd
    BY <2>1, <2>4, <2>5 DEF LoopOK
  <2> QED BY <1>1, <1>3, <1>4, <2>3, <2>4, <2>6 DEF l
<1>5. CASE Head(todo).kind # "loop"
  <2> DEFINE p == Head(todo).position
  <2>1. setBufferPosition(p)
    BY <1>5 DEF Prepare
  <2> HIDE DEF p
  <2>2. state'.mLoopEnd = state.mLoopEnd /\ state'.mLoopCount = state.mLoopCount
    BY <1>2, <2>1 DEF setBufferPosition, StaticAudioTrackState
  <2>3. \E got \in IF state.mLoopCount > 0 THEN getBufferPositionAndLoopCount
                   ELSE {[mPosLoop |-> mPosLoop, isNew |-> isNew]} :
            mPosLoop' = [mBufferPosition |-> p,
                         mLoopCount |-> IF p >= state.mLoopEnd THEN 0
                                                               ELSE got.mPosLoop.mLoopCount,
                         asOf |-> sequence + 2]
    BY <2>1 DEF setBufferPosition
  <2> QED BY <1>1, <1>3, <1>5, <2>2, <2>3 DEF p
<1> QED BY <1>4, <1>5

\* A position that the client reads within a loop is within the loop that was set.
LEMMA GotInLoop ==
    ASSUME IInv, IllusionInv, ShownInLoop, cpc = "idle",
           NEW got \in getBufferPositionAndLoopCount, got.mPosLoop.mLoopCount # 0
    PROVE  got.mPosLoop.mBufferPosition < state.mLoopEnd
<1>1. CASE SSQ_DONE /\ isNew /\ got = [mPosLoop |-> posLoop, isNew |-> FALSE]
  <2>1. got.mPosLoop = posLoop /\ acked = sequence /\ acted
    BY <1>1 DEF SSQ_DONE
  <2>2. polledAs = sequence /\ spc \notin {"polled", "publish"}
    BY <2>1 DEF IInv, TypeOK, QueueOrder
  <2>3. polled = state /\ TellsOf(posLoop, server)
    BY <2>2 DEF IInv, QueueOrder, IllusionInv, ServerTells
  <2>4. server.mLoopEnd = state.mLoopEnd
    BY <2>2, <2>3 DEF IInv, LoopOrigin, LoopSince
  <2>5. server.mPosition < server.mLoopEnd
    BY <2>1, <2>3 DEF TellsOf, IInv, ServerSound, WithinLoop
  <2> QED BY <2>1, <2>3, <2>4, <2>5 DEF TellsOf
<1>2. CASE got = [mPosLoop |-> mPosLoop, isNew |-> isNew]
  BY <1>2 DEF ShownInLoop
<1> QED BY <1>1, <1>2 DEF getBufferPositionAndLoopCount

\* Positions stay within the loop they are shown with.
LEMMA ShownInLoopStep ==
    ASSUME IInv, IllusionInv, ShownInLoop, [Next]_vars
    PROVE  ShownInLoop'
<1>1. CASE UNCHANGED <<mPosLoop, state>>
  BY <1>1 DEF ShownInLoop
<1>2. CASE Prepare
  <2>1. CASE Head(todo).kind = "loop"
    BY <1>2, <2>1, PrepareFields DEF ShownInLoop
  <2>2. CASE Head(todo).kind # "loop"
    <3>1. Head(todo).position \in Nat /\ state.mLoopEnd \in Nat
      BY <1>2, <2>2, PrepareFields DEF TodoItems, IInv, TypeOK, StaticAudioTrackState
    <3> QED BY <1>2, <2>2, <3>1, PrepareFields DEF ShownInLoop
  <2> QED BY <2>1, <2>2
<1>3. CASE GetBufferPosition \/ \E starts \in BOOLEAN : Restore(starts)
  BY <1>3, GotInLoop DEF GetBufferPosition, Restore, MayCall, ShownInLoop
<1>4. CASE Create
  BY <1>4, ZeroLemma DEF Create, Fresh, ShownInLoop
<1>5. CASE Push \/ Restart \/ Retry \/ Start \/ Pause \/ Stop
  BY <1>1, <1>5 DEF Push, Restart, Retry, Start, Pause, Stop, clientVars
<1>6. ASSUME NEW l \in Loops, SetLoop(l) PROVE ShownInLoop'
  BY <1>1, <1>6 DEF SetLoop
<1>7. ASSUME NEW p \in Positions, SetPosition(p) PROVE ShownInLoop'
  BY <1>1, <1>7 DEF SetPosition
<1>8. CASE Server
  BY <1>1, <1>8 DEF Server, PollPosition, PollNothing, Adopt, Publish, ObserverDone, Started,
     PrepareMix, PrepareNoMix, Obtain, Release, clientVars
<1>9. CASE UNCHANGED vars
  BY <1>1, <1>9 DEF vars, clientVars
<1> QED BY <1>2, <1>3, <1>4, <1>5, <1>6, <1>7, <1>8, <1>9 DEF Next, Client, InCall

\* What restoreTrack_l() is about to set: the loop that AudioTrack keeps, with the
\* count that was shown, and the position that was shown, which is within that loop.
LEMMA CreateShape ==
    ASSUME IInv, RestoreInv, Create
    PROVE  /\ todo' \in Seq(ItemsOf(mLoop)) /\ mLoop' = mLoop
           /\ saved' # <<>> /\ RestoresBoth(saved[1])'
<1> DEFINE item == Head(todo)
           shown == item.shown
           starts == IF mState = "ACTIVE" THEN <<[item EXCEPT !.kind = "start"]>> ELSE <<>>
           position == PositionSetting(shown.mBufferPosition)
           loop == LoopSetting([mLoop EXCEPT !.mLoopCount = shown.mLoopCount])
<1>1. /\ cpc' = "idle" /\ mLoop' = mLoop /\ mPosLoop' = ZeroPosLoop /\ state' = ZeroState
      /\ todo # <<>> /\ item.kind = "create"
      /\ saved' = <<shown>> /\ todo' = Restoration(shown) \o starts
  BY DEF Create, Fresh
<1>2. item \in ItemsOf(mLoop) /\ item \in TodoItems
  BY <1>1 DEF RestoreInv, KeptLoop, ItemsOf
<1> HIDE DEF item
<1>3. /\ shown \in PosLoops
      /\ shown.mLoopCount # 0 => shown.mBufferPosition < mLoop.mLoopEnd
  BY <1>1, <1>2, CreationTypes DEF ItemsOf
<1>4. starts \in Seq(ItemsOf(mLoop)) /\ OnlyStarts(starts)
  <2> DEFINE again == [item EXCEPT !.kind = "start"]
  <2>1. again \in TodoItems /\ again.kind = "start" /\ again.shown = shown
    BY <1>1, <1>2, SameStarted
  <2> HIDE DEF again, shown
  <2>2. again \in ItemsOf(mLoop)
    BY <1>3, <2>1 DEF ItemsOf
  <2>3. starts = <<>> \/ starts = <<again>>
    BY DEF again
  <2> HIDE DEF starts
  <2>4. CASE starts = <<>>
    BY <2>4 DEF OnlyStarts
  <2>5. CASE starts = <<again>>
    <3>1. starts \in Seq(ItemsOf(mLoop))
      BY <2>2, <2>5
    <3>2. DOMAIN starts = {1} /\ starts[1] = again
      BY <2>5
    <3> QED BY <2>1, <3>1, <3>2 DEF OnlyStarts
  <2> QED BY <2>3, <2>4, <2>5
<1> HIDE DEF shown
<1>5. position \in ItemsOf(mLoop)
  <2>1. shown.mBufferPosition \in Nat
    BY <1>3, FramesAssumption DEF PosLoops
  <2> QED BY <2>1 DEF PositionSetting, ItemsOf, TodoItems
<1>6. CASE shown.mLoopCount = 0
  <2>1. todo' = <<position>> \o starts
    BY <1>1, <1>6 DEF Restoration
  <2> HIDE DEF starts, position
  <2>2. /\ todo' \in Seq(ItemsOf(mLoop)) /\ todo' # <<>> /\ Head(todo') = position
        /\ Tail(todo') = starts
    BY <1>4, <1>5, <2>1
  <2>3. PositionNext(todo', shown)
    BY <1>4, <2>2 DEF PositionNext, position
  <2> QED BY <1>1, <1>2, <1>6, <2>2, <2>3 DEF RestoresBoth
<1>7. CASE shown.mLoopCount # 0
  <2>1. todo' = <<loop, position>> \o starts
    BY <1>1, <1>7 DEF Restoration
  <2>2. mLoop \in [mLoopStart : Nat, mLoopEnd : Nat, mLoopCount : Int]
    BY LoopsValid DEF IInv, TypeOK
  <2>3. /\ loop \in TodoItems /\ loop.kind = "loop" /\ loop.loop.mLoopEnd = mLoop.mLoopEnd
        /\ loop.loop.mLoopCount = shown.mLoopCount
    BY <1>3, <2>2 DEF LoopSetting, TodoItems, PosLoops
  <2>4. loop \in ItemsOf(mLoop)
    BY <2>3 DEF ItemsOf
  <2>5. shown.mBufferPosition < loop.loop.mLoopEnd
    BY <1>3, <1>7, <2>3
  <2> HIDE DEF starts, position, loop
  <2>6. /\ todo' \in Seq(ItemsOf(mLoop)) /\ todo' # <<>> /\ Head(todo') = loop
        /\ Tail(todo') = <<position>> \o starts
    BY <1>4, <1>5, <2>1, <2>4
  <2>7. Tail(todo') # <<>> /\ Head(Tail(todo')) = position /\ Tail(Tail(todo')) = starts
    <3> DEFINE rest == <<position>> \o starts
    <3>1. rest # <<>> /\ Head(rest) = position /\ Tail(rest) = starts
      BY <1>4, <1>5
    <3> QED BY <2>6, <3>1
  <2>8. PositionNext(Tail(todo'), shown)
    BY <1>4, <2>7 DEF PositionNext, position
  <2> QED BY <1>1, <1>2, <1>7, <2>3, <2>5, <2>6, <2>8 DEF RestoresBoth
<1> QED BY <1>6, <1>7

\* AudioTrack's loop and the proxy's stay the same loop, once it is set.
LEMMA KeptLoopStep ==
    ASSUME IInv, IllusionInv, RestoreInv, [Next]_vars
    PROVE  KeptLoop'
<1> USE DEF RestoreInv
<1>1. CASE UNCHANGED <<todo, mLoop, state>>
  BY <1>1 DEF KeptLoop, ItemsOf
<1>2. CASE Prepare
  <2>1. mLoop' = mLoop /\ todo' = Tail(todo) /\ todo # <<>>
    BY <1>2 DEF Prepare, appVars
  <2>2. Head(todo) \in ItemsOf(mLoop) /\ Tail(todo) \in Seq(ItemsOf(mLoop))
    BY <2>1 DEF KeptLoop
  <2>3. state'.mLoopCount # 0 => mLoop.mLoopEnd = state'.mLoopEnd
    BY <1>2, <2>1, <2>2, PrepareFields DEF KeptLoop, ItemsOf
  <2> QED BY <2>1, <2>2, <2>3 DEF KeptLoop, ItemsOf
<1>3. CASE Restart
  <2>1. /\ mLoop' = mLoop /\ todo' = Tail(todo) /\ todo # <<>> /\ Head(todo).kind = "start"
        /\ state' = state
    BY <1>3 DEF Restart, appVars
  <2>2. Tail(todo) \in Seq(ItemsOf(mLoop))
    BY <2>1 DEF KeptLoop
  <2> QED BY <2>1, <2>2 DEF KeptLoop, ItemsOf
<1>4. CASE Stop
  <2>1. LoopSetting(NoLoop) \in ItemsOf(mLoop) /\ PositionSetting(0) \in ItemsOf(mLoop)
    BY DEF LoopSetting, PositionSetting, NoLoop, ItemsOf, TodoItems
  <2>2. todo' \in Seq(ItemsOf(mLoop)) /\ todo' # <<>> /\ Head(todo').kind = "loop"
    BY <1>4, <2>1 DEF Stop, LoopSetting
  <2> QED BY <1>4, <2>2 DEF Stop, KeptLoop, ItemsOf
<1>5. CASE Create
  <2>1. state'.mLoopCount = 0
    BY <1>5, ZeroLemma DEF Create, Fresh
  <2> QED BY <1>5, <2>1, CreateShape DEF KeptLoop, ItemsOf
<1>11. ASSUME NEW starts \in BOOLEAN, Restore(starts) PROVE KeptLoop'
  <2>1. cpc = "idle" /\ todo = <<>> /\ UNCHANGED <<mLoop, state>>
    BY <1>11 DEF Restore, MayCall
  <2>2. PICK got \in getBufferPositionAndLoopCount :
            todo' = <<[kind |-> "create", shown |-> got.mPosLoop,
                       retries |-> INITIAL_RETRIES, previous |-> mState]>>
    BY <1>11 DEF Restore
  <2>3. /\ got.mPosLoop \in PosLoops
        /\ got.mPosLoop.mLoopCount # 0 => state.mLoopCount # 0
        /\ got.mPosLoop.mLoopCount # 0 => got.mPosLoop.mBufferPosition < state.mLoopEnd
    BY <2>1, GotLemma, GotInLoop DEF IInv
  <2>4. state.mLoopCount # 0 => mLoop.mLoopEnd = state.mLoopEnd
    BY <2>1 DEF KeptLoop
  <2> DEFINE item == [kind |-> "create", shown |-> got.mPosLoop,
                      retries |-> INITIAL_RETRIES, previous |-> mState]
  <2>5. item \in TodoItems
    BY <2>3, FramesAssumption DEF TodoItems, IInv, TypeOK
  <2>6. item.kind = "create" /\ item.shown = got.mPosLoop
    OBVIOUS
  <2> HIDE DEF item
  <2>7. item \in ItemsOf(mLoop)
    BY <2>3, <2>4, <2>5, <2>6 DEF ItemsOf
  <2>8. todo' = <<item>>
    BY <2>2 DEF item
  <2>9. todo' \in Seq(ItemsOf(mLoop))
    BY <2>7, <2>8
  <2> QED BY <2>1, <2>4, <2>9 DEF KeptLoop, ItemsOf
<1>12. CASE Retry
  <2> DEFINE item == Head(todo)
             again == [item EXCEPT !.kind = "create", !.retries = item.retries - 1]
  <2>1. /\ todo # <<>> /\ item.kind \in {"create", "start"} /\ UNCHANGED <<mLoop, state>>
        /\ todo' = <<>> \/ (todo' = <<again>> /\ item.retries > 1)
    BY <1>12 DEF Retry
  <2>2. /\ item \in ItemsOf(mLoop) /\ item \in TodoItems
        /\ state.mLoopCount # 0 => mLoop.mLoopEnd = state.mLoopEnd
    BY <2>1 DEF KeptLoop, ItemsOf
  <2> HIDE DEF item
  <2>3. item.retries > 1 => again \in ItemsOf(mLoop)
    <3> SUFFICES ASSUME item.retries > 1 PROVE again \in ItemsOf(mLoop)
      OBVIOUS
    <3>2. again \in TodoItems /\ again.kind = "create" /\ again.shown = item.shown
      BY <2>1, <2>2, SameAgain
    <3> HIDE DEF again
    <3> QED BY <2>1, <2>2, <3>2 DEF ItemsOf
  <2> HIDE DEF again
  <2>4. todo' \in Seq(ItemsOf(mLoop))
    <3>1. CASE todo' = <<>>
      BY <3>1
    <3>2. CASE todo' = <<again>> /\ item.retries > 1
      <4> HIDE DEF RestoreInv
      <4>1. again \in ItemsOf(mLoop)
        BY <2>3, <3>2
      <4> QED BY <3>2, <4>1
    <3> QED BY <2>1, <3>1, <3>2
  <2> QED BY <2>1, <2>2, <2>4 DEF KeptLoop, ItemsOf
<1>6. ASSUME NEW l \in Loops, SetLoop(l) PROVE KeptLoop'
  <2>1. LoopSetting(l) \in ItemsOf(l)
    BY LoopsValid DEF LoopSetting, ItemsOf, TodoItems
  <2>2. todo' \in Seq(ItemsOf(l)) /\ todo' # <<>> /\ Head(todo').kind = "loop"
    BY <1>6, <2>1 DEF SetLoop, LoopSetting
  <2> QED BY <1>6, <2>2 DEF SetLoop, KeptLoop, ItemsOf
<1>7. ASSUME NEW p \in Positions, SetPosition(p) PROVE KeptLoop'
  <2>1. p \in Nat
    BY FramesAssumption
  <2>2. PositionSetting(p) \in ItemsOf(mLoop)
    BY <2>1 DEF PositionSetting, ItemsOf, TodoItems
  <2>3. todo' \in Seq(ItemsOf(mLoop)) /\ todo = <<>>
    BY <1>7, <2>2 DEF SetPosition, MayCall
  <2> QED BY <1>7, <2>3 DEF SetPosition, appVars, KeptLoop, ItemsOf
<1>8. CASE Push \/ GetBufferPosition \/ Start \/ Pause
  BY <1>1, <1>8 DEF Push, GetBufferPosition, Start, Pause, appVars, clientVars
<1>9. CASE Server
  BY <1>1, <1>9 DEF Server, PollPosition, PollNothing, Adopt, Publish, ObserverDone, Started,
     PrepareMix, PrepareNoMix, Obtain, Release, appVars, clientVars
<1>10. CASE UNCHANGED vars
  BY <1>1, <1>10 DEF vars, appVars, clientVars
<1> QED BY <1>2, <1>3, <1>4, <1>5, <1>6, <1>7, <1>8, <1>9, <1>10, <1>11, <1>12
        DEF Next, Client, InCall

\* No call of AudioTrack can come in between: its lock is held.
LEMMA RestoringHoldsLock ==
    ASSUME Restoring, saved # <<>>
    PROVE  /\ ~(cpc = "idle" /\ todo = <<>>)
           /\ ~(cpc = "idle" /\ todo # <<>> /\ Head(todo).kind \in {"create", "start"})
<1>1. CASE RestoresBoth(saved[1])
  BY <1>1 DEF RestoresBoth, PositionNext, PositionSetting
<1>2. CASE RestoresPosition(saved[1])
  BY <1>2 DEF RestoresPosition, PositionNext, PositionSetting
<1>3. CASE RestoresNothing(saved[1])
  BY <1>3 DEF RestoresNothing
<1> QED BY <1>1, <1>2, <1>3 DEF Restoring

\* The loop is prepared, and then the position.
LEMMA RestoringPrepare ==
    ASSUME IInv, Restoring, saved # <<>>, Prepare
    PROVE  RestoresPosition(saved[1])' \/ RestoresNothing(saved[1])'
<1> DEFINE shown == saved[1]
<1>1. /\ saved' = saved /\ shown \in PosLoops /\ shown.mBufferPosition \in Nat
      /\ state.mLoopEnd \in Nat
  <2>1. saved \in Seq(PosLoops)
    BY DEF IInv, TypeOK
  <2>2. shown \in PosLoops
    BY <2>1
  <2>3. saved' = saved
    BY DEF Prepare
  <2>4. state.mLoopEnd \in Nat
    BY DEF IInv, TypeOK, StaticAudioTrackState
  <2> HIDE DEF shown
  <2> QED BY <2>2, <2>3, <2>4, FramesAssumption DEF PosLoops
<1>2. /\ cpc = "idle" /\ cpc' = "push" /\ todo' = Tail(todo)
  BY PrepareFields
<1> HIDE DEF shown
<1>3. CASE RestoresBoth(shown) /\ shown.mLoopCount = 0
  <2>1. Head(todo) = PositionSetting(shown.mBufferPosition) /\ OnlyStarts(todo')
    BY <1>2, <1>3 DEF RestoresBoth, PositionNext
  <2>2. state.mLoopEnd = 0
    BY <1>3, ZeroLemma DEF RestoresBoth, ZeroState
  <2>3. Head(todo).kind # "loop" /\ Head(todo).position = shown.mBufferPosition
    BY <2>1 DEF PositionSetting
  <2>4. mPosLoop'.mBufferPosition = shown.mBufferPosition /\ mPosLoop'.mLoopCount = 0
    BY <1>1, <2>2, <2>3, PrepareFields
  <2> QED BY <1>1, <1>2, <1>3, <2>1, <2>4 DEF RestoresNothing, shown
<1>4. CASE RestoresBoth(shown) /\ shown.mLoopCount # 0
  <2>1. /\ Head(todo).kind = "loop" /\ Head(todo).loop.mLoopCount = shown.mLoopCount
        /\ shown.mBufferPosition < Head(todo).loop.mLoopEnd
        /\ PositionNext(todo', shown)
    BY <1>2, <1>4 DEF RestoresBoth
  <2>2. state'.mLoopEnd = Head(todo).loop.mLoopEnd /\ mPosLoop'.mLoopCount = shown.mLoopCount
    BY <2>1, PrepareFields
  <2> QED BY <1>1, <1>4, <2>1, <2>2 DEF RestoresPosition, shown
<1>5. CASE RestoresPosition(shown)
  <2>1. Head(todo) = PositionSetting(shown.mBufferPosition) /\ OnlyStarts(todo')
    BY <1>2, <1>5 DEF RestoresPosition, PositionNext
  <2>2. Head(todo).kind # "loop" /\ Head(todo).position = shown.mBufferPosition
    BY <2>1 DEF PositionSetting
  <2>3. ~(shown.mBufferPosition >= state.mLoopEnd)
    BY <1>1, <1>5 DEF RestoresPosition
  <2>4. \A got \in getBufferPositionAndLoopCount \cup {[mPosLoop |-> mPosLoop, isNew |-> isNew]} :
            got.mPosLoop = mPosLoop
    BY DEF getBufferPositionAndLoopCount, SSQ_DONE, Restoring
  <2>5. /\ mPosLoop'.mBufferPosition = shown.mBufferPosition
        /\ mPosLoop'.mLoopCount = mPosLoop.mLoopCount
    BY <2>2, <2>3, <2>4, PrepareFields
  <2> QED BY <1>1, <1>2, <1>5, <2>1, <2>5 DEF RestoresPosition, RestoresNothing, shown
<1>6. CASE RestoresNothing(shown)
  BY <1>2, <1>6 DEF RestoresNothing
<1> QED BY <1>3, <1>4, <1>5, <1>6 DEF Restoring, shown

\* As long as the position is to be set, a push is not the last one.
LEMMA PositionLeft ==
    ASSUME IInv, RestoresPosition(saved[1]), Push
    PROVE  saved' = saved
<1>1. Head(todo) = todo[1] /\ 1 \in DOMAIN todo
  BY DEF RestoresPosition, PositionNext, IInv, TypeOK
<1>2. todo[1].kind # "start"
  BY <1>1 DEF RestoresPosition, PositionNext, PositionSetting
<1> QED BY <1>1, <1>2 DEF Push

\* A restoration goes on without the server.
LEMMA RestoringStep ==
    ASSUME IInv, IllusionInv, RestoreInv, [Next]_vars
    PROVE  Restoring'
<1> USE DEF RestoreInv
<1>1. CASE Create
  <2>1. saved' # <<>> /\ RestoresBoth(saved[1])'
    BY <1>1, CreateShape
  <2> QED BY <1>1, <2>1 DEF Create, Fresh, Restoring
<1>2. CASE saved = <<>> /\ ~Create
  <2>1. saved' = <<>>
    BY <1>2 DEF Next, Client, Server, InCall, Prepare, Push, Restart, Retry, GetBufferPosition,
       Start, Restore, Pause, Stop, SetLoop, SetPosition, PollPosition, PollNothing, Adopt, Publish,
       ObserverDone, Started, PrepareMix, PrepareNoMix, Obtain, Release, history, vars
  <2> QED BY <2>1 DEF Restoring
<1>3. CASE saved # <<>> /\ Prepare
  BY <1>3, RestoringPrepare DEF Restoring, Prepare, settingsQueue, trackVars, serverVars
<1>4. CASE saved # <<>> /\ Push
  <2>1. UNCHANGED <<todo, state, mPosLoop, serving, phase, spc, acted>>
    BY <1>4 DEF Push, Settings!Write, trackVars, serverVars
  <2>2. CASE RestoresPosition(saved[1])
    <3>1. saved' = saved
      BY <1>4, <2>2, PositionLeft
    <3> QED BY <1>4, <2>1, <2>2, <3>1 DEF Restoring, RestoresPosition, PositionNext, OnlyStarts
  <2>3. CASE RestoresNothing(saved[1])
    BY <1>4, <2>3 DEF Push, RestoresNothing, OnlyStarts, Restoring
  <2> QED BY <1>4, <2>2, <2>3 DEF Restoring, RestoresBoth, Push
<1>5. CASE saved # <<>> /\ (Restart \/ Retry \/ GetBufferPosition \/ Start \/ Pause \/ Stop
              \/ \E starts \in BOOLEAN : Restore(starts))
  BY <1>5, RestoringHoldsLock DEF Restart, Retry, Restore, GetBufferPosition, Start, Pause, Stop, MayCall
<1>6. ASSUME saved # <<>>, NEW l \in Loops, SetLoop(l) PROVE FALSE
  BY <1>6, RestoringHoldsLock DEF SetLoop, MayCall
<1>7. ASSUME saved # <<>>, NEW p \in Positions, SetPosition(p) PROVE FALSE
  BY <1>7, RestoringHoldsLock DEF SetPosition, MayCall
<1>8. CASE saved # <<>> /\ Server
  BY <1>8 DEF Restoring, Server, Polls, PollPosition, PollNothing, Adopt, Publish, ObserverDone,
     Started, PrepareMix, PrepareNoMix, Obtain, Release
<1>9. CASE UNCHANGED vars
  BY <1>9 DEF vars, clientVars, settingsQueue, trackVars, serverVars, history, Restoring,
     RestoresBoth, RestoresPosition, RestoresNothing, PositionNext, OnlyStarts
<1> QED BY <1>1, <1>2, <1>3, <1>4, <1>5, <1>6, <1>7, <1>8, <1>9 DEF Next, Client, InCall

\* restoreTrack_l() brings back what it has saved: when the last setting of a
\* re-created track is pushed, its client shows the position and the loop count
\* that it showed before, whichever loop was running and however far it was.
THEOREM Restored == Spec => RestoredAsShown
<1>1. Init => IllusionInv
  BY InitIllusion
<1>2. Init => RestoreInv
  <2> SUFFICES ASSUME Init PROVE RestoreInv
    OBVIOUS
  <2>1. /\ state = ZeroState /\ mPosLoop = ZeroPosLoop /\ todo = <<>> /\ saved = <<>>
    BY DEF Init
  <2>2. todo \in Seq(ItemsOf(mLoop))
    BY <2>1
  <2> QED BY <2>1, <2>2, ZeroLemma DEF RestoreInv, ShownInLoop, KeptLoop, Restoring
<1>3. IInv /\ IllusionInv /\ [Next]_vars => IllusionInv'
  BY IllusionStep
<1>4. IInv /\ IllusionInv /\ RestoreInv /\ [Next]_vars => RestoreInv'
  BY ShownInLoopStep, KeptLoopStep, RestoringStep DEF RestoreInv
<1>5. ASSUME IInv, RestoreInv, [Next]_vars, saved # <<>>, saved' = <<>>
      PROVE  /\ mPosLoop.mBufferPosition = saved[1].mBufferPosition
             /\ mPosLoop.mLoopCount = saved[1].mLoopCount
  <2>1. Push
    <3>1. ~Create
      BY <1>5 DEF Create
    <3> QED BY <1>5, <3>1 DEF Next, Client, Server, InCall, Prepare, Restart, Retry,
            GetBufferPosition, Start, Restore, Pause, Stop, SetLoop, SetPosition, PollPosition, PollNothing, Adopt, Publish,
            ObserverDone, Started, PrepareMix, PrepareNoMix, Obtain, Release, history, vars
  <2>2. ~RestoresPosition(saved[1])
    BY <1>5, <2>1, PositionLeft
  <2> QED BY <1>5, <2>1, <2>2 DEF Push, RestoreInv, Restoring, RestoresBoth, RestoresNothing
<1>6. IInv /\ RestoreInv /\ [Next]_vars => [saved # <<>> /\ saved' = <<>> =>
           /\ mPosLoop.mBufferPosition = saved[1].mBufferPosition
           /\ mPosLoop.mLoopCount = saved[1].mLoopCount]_vars
  BY <1>5
<1> QED BY <1>1, <1>2, <1>3, <1>4, <1>6, Invariance, PTL DEF Spec, RestoredAsShown
=============================================================================
