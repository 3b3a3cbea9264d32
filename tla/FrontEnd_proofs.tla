------------------------- MODULE FrontEnd_proofs -------------------------
(***************************************************************************)
(* FrontEnd frames an utterance correctly for every window size and shift, *)
(* every way of cutting it into blocks and every output capacity.          *)
(***************************************************************************)
EXTENDS FrontEnd, FrameRing_proofs

\* The strengthening that is inductive: the types and what the properties say
\* together.
Inv == TypeOK /\ FramesIgnoreBlocks /\ OverflowIsNextFrame /\ TailReachesEnd

\* A call sees the utterance from the first sample of the next frame on.
LEMMA SourceIsStream ==
  ASSUME Inv, in_utt, NEW j \in Nat
  PROVE  Source(j) = nframes * FrameShift + j
<1>1. nframes * FrameShift \in Nat
  BY FrameAssumption DEF Inv, TypeOK
<1>2. QED
  BY <1>1 DEF Inv, TypeOK, OverflowIsNextFrame, Source, Places

\* The overflow buffer a call leaves holds the start of the frame after the
\* ones it wrote.
LEMMA BufferHoldsNextFrame ==
  ASSUME Inv, in_utt, NEW n \in Nat, NEW cap \in Nat,
         NEW k, k = Written(num_overflow_samps, n, cap)
  PROVE  /\ BufferAfter(n, k) \in [Places -> Samples]
         /\ \A j \in 0 .. OverflowAfter(num_overflow_samps, n, k) - 1 :
              BufferAfter(n, k)[j] = (nframes + k) * FrameShift + j
<1> DEFINE ov  == num_overflow_samps
           ov2 == OverflowAfter(ov, n, k)
           b   == nframes * FrameShift
           p   == k * FrameShift
<1> USE FrameAssumption
<1>1. /\ ov \in 0 .. FrameSize /\ fed \in Nat /\ nframes \in Nat
      /\ overflow_samps \in [Places -> Samples]
  BY DEF Inv, TypeOK
<1>2. k \in Nat /\ ov2 \in 0 .. FrameSize
  BY <1>1, CallCounts
<1>3. b \in Nat /\ p \in Nat /\ (nframes + k) * FrameShift = b + p /\ (k = 0 => p = 0)
  BY <1>1, <1>2
<1>4. k > 0 => ReadPast(ov, k) = FrameSize - ov + p - FrameShift
  BY <1>1, <1>2 DEF ReadPast
<1>5. StillBuffered(ov, k) = ov - p
  BY DEF StillBuffered
<1>6. n + ov < FrameSize => k = 0
  BY <1>1 DEF Written, FrameCount, Smaller
<1>7. fed = b + ov
  BY DEF Inv, OverflowIsNextFrame
<1>8. \A j \in Places : overflow_samps[j] \in Samples
  BY <1>1
<1>9. \A j \in 0 .. ov - 1 : overflow_samps[j] = b + j
  BY DEF Inv, OverflowIsNextFrame
<1>10. \A j \in Nat : Source(j) = b + j
  BY SourceIsStream
<1> DEFINE Goal == /\ BufferAfter(n, k) \in [Places -> Samples]
                   /\ \A j \in 0 .. ov2 - 1 : BufferAfter(n, k)[j] = b + p + j
<1>11. ASSUME n + ov < FrameSize PROVE Goal
  <2>1. BufferAfter(n, k) =
          [j \in Places |-> IF j < ov + n THEN Source(j) ELSE overflow_samps[j]]
    BY <1>11 DEF BufferAfter
  <2>2. ov2 = ov + n /\ p = 0
    BY <1>3, <1>6, <1>11 DEF OverflowAfter
  <2> HIDE DEF ov2, b, p, ov
  <2>3. \A j \in Places : j \in Nat /\ Source(j) \in Samples
    BY <1>3, <1>10 DEF Places, Samples
  <2>4. BufferAfter(n, k) \in [Places -> Samples]
    BY <1>8, <2>1, <2>3
  <2>5. \A j \in 0 .. ov2 - 1 : j \in Places /\ j \in Nat /\ j < ov + n
    BY <1>1, <1>2, <2>2 DEF Places
  <2>6. \A j \in 0 .. ov2 - 1 : BufferAfter(n, k)[j] = Source(j)
    BY <2>1, <2>5
  <2>7. \A j \in 0 .. ov2 - 1 : Source(j) = b + p + j
    BY <1>3, <1>10, <2>2, <2>5
  <2>8. QED
    BY <2>4, <2>6, <2>7
<1>12. ASSUME ~(n + ov < FrameSize), k = 0 PROVE Goal
  <2>1. BufferAfter(n, k) = overflow_samps
    BY <1>12 DEF BufferAfter
  <2>2. ov2 = ov /\ p = 0
    BY <1>3, <1>12 DEF OverflowAfter
  <2> HIDE DEF ov2, b, p
  <2>3. QED
    BY <1>1, <1>3, <1>9, <2>1, <2>2
<1> DEFINE filled == [j \in Places |-> IF ov > 0 THEN Source(j) ELSE overflow_samps[j]]
<1>13. \A j \in Places : filled[j] \in Samples /\ (ov > 0 => filled[j] = b + j)
  BY <1>3, <1>8, <1>10 DEF Places, Samples
<1>14. ASSUME ~(n + ov < FrameSize), k # 0, StillBuffered(ov, k) <= 0 PROVE Goal
  <2>1. BufferAfter(n, k) =
          [j \in Places |->
             IF j < ov2 THEN fed + ReadPast(ov, k) - (FrameSize - FrameShift) + j
             ELSE filled[j]]
    BY <1>14 DEF BufferAfter
  <2> HIDE DEF ov2, b, p, ov, filled
  <2>2. \A j \in Nat : fed + ReadPast(ov, k) - (FrameSize - FrameShift) + j = b + p + j
    BY <1>1, <1>2, <1>3, <1>4, <1>7, <1>14
  <2>3. \A j \in Places : j \in Nat /\ b + p + j \in Samples
    BY <1>3 DEF Places, Samples
  <2>4. BufferAfter(n, k) \in [Places -> Samples]
    BY <1>13, <2>1, <2>2, <2>3
  <2>5. \A j \in 0 .. ov2 - 1 : j \in Places /\ j \in Nat /\ j < ov2
    BY <1>2 DEF Places
  <2>6. QED
    BY <2>1, <2>2, <2>4, <2>5
<1>15. ASSUME ~(n + ov < FrameSize), k # 0, ~(StillBuffered(ov, k) <= 0) PROVE Goal
  <2> DEFINE kept == StillBuffered(ov, k)
  <2>1. BufferAfter(n, k) =
          [j \in Places |->
             IF j < kept THEN filled[j + (ov - kept)]
             ELSE IF j < ov2 THEN fed + (j - kept)
             ELSE filled[j]]
    BY <1>15 DEF BufferAfter
  <2> HIDE DEF ov2, b, p, ov, filled, kept
  <2>2. kept = ov - p /\ kept > 0
    BY <1>1, <1>3, <1>5, <1>15 DEF kept
  <2>3. \A j \in Places : j < kept => j + (ov - kept) \in Places
                                   /\ filled[j + (ov - kept)] = b + p + j
    BY <1>1, <1>3, <1>13, <2>2 DEF Places
  <2>4. \A j \in Places : fed + (j - kept) = b + p + j /\ b + p + j \in Samples
    BY <1>1, <1>3, <1>7, <2>2 DEF Places, Samples
  <2>5. BufferAfter(n, k) \in [Places -> Samples]
    BY <1>13, <2>1, <2>3, <2>4
  <2>6. \A j \in 0 .. ov2 - 1 : j \in Places /\ j < ov2
    BY <1>2 DEF Places
  <2>7. QED
    BY <2>1, <2>3, <2>4, <2>5, <2>6
<1>16. QED
  BY <1>3, <1>11, <1>12, <1>14, <1>15

\* The frames a call writes are the ideal ones, and it leaves the prior of the
\* frame after them.
LEMMA CallWritesIdealFrames ==
  ASSUME Inv, in_utt, NEW n \in Nat, NEW cap \in Nat,
         NEW k, k = Written(num_overflow_samps, n, cap)
  PROVE  /\ \A i \in 0 .. k - 1 : FrameAt(i) = IdealFrame(nframes + i)
         /\ k > 0 => Source(k * FrameShift - 1) = Before((nframes + k) * FrameShift)
<1> DEFINE b == nframes * FrameShift
<1> USE FrameAssumption
<1>1. nframes \in Nat /\ b \in Nat /\ pre_emphasis_prior = Before(b)
  BY DEF Inv, TypeOK, OverflowIsNextFrame
<1>2. k \in Nat
  BY CallCounts DEF Inv, TypeOK
<1>3. \A j \in Nat : Source(j) = b + j
  BY SourceIsStream
<1>4. \A i \in Nat : /\ i * FrameShift \in Nat
                     /\ (nframes + i) * FrameShift = b + i * FrameShift
                     /\ i > 0 => i * FrameShift > 0
  BY <1>1
<1> HIDE DEF b
<1>5. ASSUME NEW i \in 0 .. k - 1 PROVE FrameAt(i) = IdealFrame(nframes + i)
  <2>1. i \in Nat
    BY <1>2
  <2>2. \A j \in Places : Source(i * FrameShift + j) = (nframes + i) * FrameShift + j
    BY <1>1, <1>3, <1>4, <2>1 DEF Places
  <2>3. [j \in Places |-> Source(i * FrameShift + j)]
          = [j \in Places |-> (nframes + i) * FrameShift + j]
    BY <2>2
  <2>4. CASE i = 0
    <3>1. nframes + i = nframes
      BY <1>1, <2>4
    <3>2. Before((nframes + i) * FrameShift) = pre_emphasis_prior
      BY <1>1, <3>1 DEF b
    <3>3. QED
      BY <2>3, <2>4, <3>2 DEF FrameAt, IdealFrame
  <2>5. CASE i # 0
    <3>1. Source(i * FrameShift - 1) = Before((nframes + i) * FrameShift)
      BY <1>1, <1>3, <1>4, <2>1, <2>5 DEF Before
    <3>2. QED
      BY <2>3, <2>5, <3>1 DEF FrameAt, IdealFrame
  <2>6. QED
    BY <2>4, <2>5
<1>6. ASSUME k > 0 PROVE Source(k * FrameShift - 1) = Before((nframes + k) * FrameShift)
  <2> DEFINE p == k * FrameShift
  <2>1. p \in Nat /\ p > 0 /\ (nframes + k) * FrameShift = b + p
    BY <1>2, <1>4, <1>6
  <2> HIDE DEF p
  <2>2. Source(p - 1) = b + (p - 1)
    BY <1>3, <2>1
  <2>3. QED
    BY <1>1, <2>1, <2>2 DEF Before, p
<1>7. QED
  BY <1>5, <1>6

\* The frames of an utterance given whole are of the type of a frame.
LEMMA IdealFrameType ==
  ASSUME NEW i \in Nat
  PROVE  IdealFrame(i) \in Frames
<1>1. i * FrameShift \in Nat
  BY FrameAssumption
<1>2. QED
  BY <1>1 DEF IdealFrame, Frames, Samples, Before, Places, Zero

\* Before the first utterance nothing is buffered.
LEMMA InitInv == Init => Inv
<1> SUFFICES ASSUME Init PROVE Inv
  OBVIOUS
<1> USE FrameAssumption
<1>1. Zero \in Samples /\ NoTail \in [len : 0 .. FrameSize, samps : [Places -> Samples],
                                     prior : Samples]
  BY DEF Samples, NoTail
<1>2. frames \in [0 .. nframes - 1 -> Frames]
  <2>1. nframes = 0 /\ 0 .. nframes - 1 = {} /\ frames = [i \in {} |-> NoTail]
    BY DEF Init
  <2>2. QED
    BY <2>1
<1>3. TypeOK
  <2>1. overflow_samps \in [Places -> Samples] /\ pre_emphasis_prior \in Samples
    BY <1>1 DEF Init
  <2>2. num_overflow_samps \in 0 .. FrameSize /\ fed \in Nat /\ nframes \in Nat
    BY DEF Init
  <2>3. QED
    BY <1>1, <1>2, <2>1, <2>2 DEF Init, TypeOK
<1>4. FramesIgnoreBlocks
  BY DEF Init, FramesIgnoreBlocks
<1>5. OverflowIsNextFrame
  BY DEF Init, OverflowIsNextFrame
<1>6. TailReachesEnd
  BY DEF Init, TailReachesEnd, NoTail
<1>7. QED
  BY <1>3, <1>4, <1>5, <1>6 DEF Inv

\* fe_process_frames_int16 leaves in the overflow buffer what the next frame
\* needs, and what it wrote is what the whole utterance gives.
LEMMA ProcessFramesInv ==
  ASSUME Inv, NEW n \in Nat, NEW cap \in Nat, ProcessFrames(n, cap)
  PROVE  Inv'
<1> DEFINE k  == Written(num_overflow_samps, n, cap)
           t  == Taken(num_overflow_samps, n, k)
           ov2 == OverflowAfter(num_overflow_samps, n, k)
<1> USE FrameAssumption
<1>1. /\ num_overflow_samps \in 0 .. FrameSize /\ fed \in Nat /\ nframes \in Nat
      /\ fed = nframes * FrameShift + num_overflow_samps
  BY DEF Inv, TypeOK, OverflowIsNextFrame, ProcessFrames
<1>2. /\ k \in Nat /\ t \in 0 .. n /\ ov2 \in 0 .. FrameSize
      /\ t + num_overflow_samps = ov2 + k * FrameShift
  BY <1>1, CallCounts
<1>3. /\ num_overflow_samps' = ov2
      /\ overflow_samps' = BufferAfter(n, k)
      /\ pre_emphasis_prior' = IF k = 0 THEN pre_emphasis_prior
                               ELSE Source(k * FrameShift - 1)
      /\ fed' = fed + t
      /\ nframes' = nframes + k
      /\ frames' = [i \in 0 .. nframes + k - 1 |->
                      IF i < nframes THEN frames[i] ELSE FrameAt(i - nframes)]
      /\ in_utt /\ in_utt' /\ tail' = tail
  BY DEF ProcessFrames
<1>4. /\ BufferAfter(n, k) \in [Places -> Samples]
      /\ \A j \in 0 .. ov2 - 1 : BufferAfter(n, k)[j] = (nframes + k) * FrameShift + j
  BY <1>3, BufferHoldsNextFrame
<1>5. /\ \A i \in 0 .. k - 1 : FrameAt(i) = IdealFrame(nframes + i)
      /\ k > 0 => Source(k * FrameShift - 1) = Before((nframes + k) * FrameShift)
  BY <1>3, CallWritesIdealFrames
<1> HIDE DEF k, t, ov2
<1>6. (nframes + k) * FrameShift = nframes * FrameShift + k * FrameShift
      /\ nframes * FrameShift \in Nat /\ k * FrameShift \in Nat
  BY <1>1, <1>2
<1>7. pre_emphasis_prior' = Before((nframes + k) * FrameShift)
  <2>1. CASE k = 0
    BY <1>1, <1>3, <2>1 DEF Inv, OverflowIsNextFrame
  <2>2. CASE k # 0
    BY <1>2, <1>3, <1>5, <2>2
  <2>3. QED
    BY <2>1, <2>2
<1>8. \A i \in 0 .. nframes + k - 1 : frames'[i] = IdealFrame(i)
  <2> SUFFICES ASSUME NEW i \in 0 .. nframes + k - 1 PROVE frames'[i] = IdealFrame(i)
    OBVIOUS
  <2>1. CASE i < nframes
    BY <1>1, <1>2, <1>3, <2>1 DEF Inv, FramesIgnoreBlocks
  <2>2. CASE ~(i < nframes)
    <3>1. i - nframes \in 0 .. k - 1 /\ nframes + (i - nframes) = i
      BY <1>1, <1>2, <2>2
    <3>2. QED
      BY <1>3, <1>5, <2>2, <3>1
  <2>3. QED
    BY <2>1, <2>2
<1>9. nframes' = nframes + k /\ nframes' \in Nat
  BY <1>1, <1>2, <1>3
<1>10. TypeOK'
  <2>1. frames' \in [0 .. nframes' - 1 -> Frames]
    <3> DEFINE S == 0 .. nframes + k - 1
    <3>1. \A i \in S : i \in Nat
      BY <1>1, <1>2
    <3>2. \A i \in S : frames'[i] \in Frames
      BY <1>8, <3>1, IdealFrameType
    <3>3. frames' = [i \in S |-> frames'[i]]
      BY <1>3
    <3>4. 0 .. nframes' - 1 = S
      BY <1>1, <1>2, <1>9
    <3> HIDE DEF S
    <3>5. QED
      BY <3>2, <3>3, <3>4
  <2>2. pre_emphasis_prior' \in Samples
    BY <1>6, <1>7 DEF Before, Samples, Zero
  <2>3. QED
    BY <1>1, <1>2, <1>3, <1>4, <2>1, <2>2 DEF TypeOK, Inv
<1>11. FramesIgnoreBlocks'
  <2>1. nframes' - 1 = nframes + k - 1
    BY <1>1, <1>2, <1>9
  <2>2. ASSUME NEW i \in 0 .. nframes' - 1 PROVE frames'[i] = IdealFrame(i)
    <3>1. i \in 0 .. nframes + k - 1
      BY <2>1
    <3>2. QED
      BY <1>8, <3>1
  <2>3. QED
    BY <2>2 DEF FramesIgnoreBlocks
<1>12. OverflowIsNextFrame'
  BY <1>1, <1>2, <1>3, <1>4, <1>6, <1>7 DEF OverflowIsNextFrame, Before, Zero
<1>13. TailReachesEnd'
  BY <1>3 DEF TailReachesEnd, Inv, TypeOK
<1>14. QED
  BY <1>10, <1>11, <1>12, <1>13 DEF Inv

\* fe_start_utt begins with an empty overflow buffer.
LEMMA StartUttInv ==
  ASSUME Inv, StartUtt
  PROVE  Inv'
BY FrameAssumption
   DEF StartUtt, Inv, TypeOK, FramesIgnoreBlocks, OverflowIsNextFrame, TailReachesEnd,
       NoTail, Places, Samples, Zero, Frames, Before

\* fe_end_utt writes what the overflow buffer holds.
LEMMA EndUttInv ==
  ASSUME Inv, EndUtt
  PROVE  Inv'
<1> USE FrameAssumption
<1>1. /\ num_overflow_samps' = 0 /\ in_utt /\ ~in_utt' /\ overflow_samps' = overflow_samps
      /\ fed' = fed /\ nframes' = nframes /\ frames' = frames /\ in_utt' \in BOOLEAN
  BY DEF EndUtt
<1>2. \A j \in Places : overflow_samps[j] \in Samples
  BY DEF Inv, TypeOK
<1>3. FrameShift - 1 \in Places
        /\ (num_overflow_samps > 0 => num_overflow_samps - 1 \in Places)
  BY DEF Inv, TypeOK, Places
<1>4. Zero \in Samples
  BY DEF Samples
<1>5. CASE num_overflow_samps > 0
  <2>1. tail' = [len |-> num_overflow_samps,
                 samps |-> [j \in Places |-> IF j < num_overflow_samps
                                            THEN overflow_samps[j] ELSE Zero],
                 prior |-> pre_emphasis_prior]
    BY <1>5 DEF EndUtt
  <2>2. pre_emphasis_prior' \in Samples
    BY <1>2, <1>3, <1>5 DEF EndUtt
  <2>3. TypeOK'
    BY <1>1, <1>2, <1>4, <2>1, <2>2 DEF Inv, TypeOK
  <2>4. TailReachesEnd'
    <3>1. \A j \in 0 .. num_overflow_samps - 1 :
            j \in Places /\ j < num_overflow_samps
            /\ overflow_samps[j] = nframes * FrameShift + j
      BY <1>1 DEF Inv, TypeOK, OverflowIsNextFrame, Places
    <3>2. \A j \in 0 .. num_overflow_samps - 1 :
            tail'.samps[j] = nframes * FrameShift + j
      BY <2>1, <3>1
    <3>3. tail'.len = num_overflow_samps /\ tail'.prior = pre_emphasis_prior
      BY <2>1
    <3>4. QED
      BY <1>1, <3>2, <3>3 DEF Inv, OverflowIsNextFrame, TailReachesEnd, Before, Zero
  <2>5. QED
    BY <1>1, <2>3, <2>4
       DEF Inv, FramesIgnoreBlocks, OverflowIsNextFrame, IdealFrame, Before, Places, Zero
<1>6. CASE ~(num_overflow_samps > 0)
  <2>1. tail' = tail /\ pre_emphasis_prior' = pre_emphasis_prior
    BY <1>6 DEF EndUtt
  <2>2. TypeOK'
    BY <1>1, <1>2, <2>1 DEF Inv, TypeOK
  <2>3. FramesIgnoreBlocks' /\ OverflowIsNextFrame'
    BY <1>1 DEF Inv, FramesIgnoreBlocks, OverflowIsNextFrame
  <2>4. TailReachesEnd'
    BY <1>1, <1>6, <2>1 DEF Inv, TypeOK, OverflowIsNextFrame, TailReachesEnd
  <2>5. QED
    BY <2>2, <2>3, <2>4 DEF Inv
<1>7. QED
  BY <1>5, <1>6

\* The invariant speaks of the state only.
LEMMA StutterInv == Inv /\ UNCHANGED vars => Inv'
BY DEF Inv, TypeOK, FramesIgnoreBlocks, OverflowIsNextFrame, TailReachesEnd, IdealFrame,
       Before, Places, Zero, Samples, Frames, vars, buffer

\* The invariant is inductive.
LEMMA NextInv == Inv /\ [Next]_vars => Inv'
<1> SUFFICES ASSUME Inv, [Next]_vars PROVE Inv'
  OBVIOUS
<1>1. CASE StartUtt
  BY <1>1, StartUttInv
<1>2. ASSUME NEW n \in 0 .. MaxSamples - fed, NEW cap \in 0 .. MaxFrames,
             ProcessFrames(n, cap)
      PROVE  Inv'
  <2>1. n \in Nat /\ cap \in Nat
    BY BoundsAssumption DEF Inv, TypeOK
  <2>2. QED
    BY <1>2, <2>1, ProcessFramesInv
<1>3. CASE EndUtt
  BY <1>3, EndUttInv
<1>4. CASE UNCHANGED vars
  BY <1>4, StutterInv
<1>5. QED
  BY <1>1, <1>2, <1>3, <1>4 DEF Next

\* The state of the front end has its types: in particular the overflow buffer
\* never holds more than a frame, the size it is allocated with.
THEOREM TypeCorrect == Spec => []TypeOK
<1>1. Inv => TypeOK
  BY DEF Inv
<1>2. QED
  BY <1>1, InitInv, NextInv, PTL DEF Spec

\* Frame i of an utterance is the same whatever blocks the utterance arrives in.
THEOREM ChunkingInvisible == Spec => []FramesIgnoreBlocks
<1>1. Inv => FramesIgnoreBlocks
  BY DEF Inv
<1>2. QED
  BY <1>1, InitInv, NextInv, PTL DEF Spec

\* The overflow buffer holds the samples of the next frame, and nothing else, and
\* the frame written at the end of an utterance reaches its last sample.
THEOREM NoSampleLost == Spec => []NothingLost
<1>1. Inv => NothingLost
  BY DEF Inv, NothingLost
<1>2. QED
  BY <1>1, InitInv, NextInv, PTL DEF Spec

\* A call stops with samples unread only when its output is full, and one that has
\* samples and room for a frame advances.
THEOREM CallsProgress == Spec => []CallsAdvance
<1>1. Inv => CallsAdvance
  <2> SUFFICES ASSUME Inv, in_utt,
                      NEW n \in 0 .. MaxSamples, NEW cap \in 0 .. MaxFrames
               PROVE  LET k == Written(num_overflow_samps, n, cap)
                          t == Taken(num_overflow_samps, n, k)
                      IN /\ k <= cap /\ t <= n /\ (t < n => k = cap)
                         /\ n > 0 /\ cap > 0 => k > 0 \/ t > 0
    BY DEF CallsAdvance
  <2>1. n \in Nat /\ cap \in Nat
    BY BoundsAssumption
  <2>2. num_overflow_samps \in 0 .. FrameSize
    BY DEF Inv, TypeOK
  <2>3. QED
    BY <2>1, <2>2, CallCounts
<1>2. QED
  BY <1>1, InitInv, NextInv, PTL DEF Spec
============================================================================
