----------------------------- MODULE FrontEnd -----------------------------
(***************************************************************************)
(* The acoustic front end's framing (src/fe/fe_interface.c): a caller      *)
(* hands over the samples of an utterance in blocks of any size, with room *)
(* for any number of frames, and offers again what a call left unread.     *)
(* A sample is its index in the utterance; Zero is a cleared one.  What a  *)
(* frame is computed from - the samples in fe->spch and the pre-emphasis   *)
(* prior - is kept, the signal processing is not.                          *)
(***************************************************************************)
EXTENDS FrameCounts

CONSTANTS MaxSamples,   \* bound: samples of an utterance
          MaxFrames     \* bound: rows of the output buffer of a call

ASSUME BoundsAssumption == MaxSamples \in Nat /\ MaxFrames \in Nat

VARIABLES
  num_overflow_samps,
  overflow_samps,       \* what each place of the overflow buffer holds
  pre_emphasis_prior,   \* the sample before the next frame
  in_utt,               \* between fe_start_utt and fe_end_utt
  fed,                  \* samples taken since fe_start_utt
  nframes,              \* frames written since fe_start_utt
  frames,               \* history: what each of them was computed from
  tail                  \* history: the frame fe_end_utt wrote

buffer == <<num_overflow_samps, overflow_samps, pre_emphasis_prior>>
vars == <<buffer, in_utt, fed, nframes, frames, tail>>

Zero == -1
Places == 0 .. FrameSize - 1
NoTail == [len |-> 0, samps |-> [i \in Places |-> Zero], prior |-> Zero]

\* The j-th sample a call sees: the overflow buffer, then the input.
Source(j) == IF j < num_overflow_samps THEN overflow_samps[j]
             ELSE fed + (j - num_overflow_samps)

\* Mutant of FrameAt: the first frame of a call has no sample before it.
FrameAtStart(i) ==
  [samps |-> [j \in Places |-> Source(i * FrameShift + j)],
   prior |-> IF i = 0 THEN Zero ELSE Source(i * FrameShift - 1)]

\* fe->spch for the i-th frame of a call (read whole, then shifted i times)
\* and the prior fe_spch_to_frame left when it wrote the frame before.
FrameAt(i) ==
  [samps |-> [j \in Places |-> Source(i * FrameShift + j)],
   prior |-> IF i = 0 THEN pre_emphasis_prior ELSE Source(i * FrameShift - 1)]

\* The overflow buffer when a call that wrote k frames of n samples returns.
BufferAfter(n, k) ==
  LET ov     == num_overflow_samps
      kept   == StillBuffered(ov, k)
      filled == [j \in Places |-> IF ov > 0 THEN Source(j) ELSE overflow_samps[j]]
      appended == [j \in Places |-> IF j < ov + n THEN Source(j) ELSE overflow_samps[j]]
      past   == [j \in Places |->
                   IF j < OverflowAfter(ov, n, k)
                   THEN fed + ReadPast(ov, k) - (FrameSize - FrameShift) + j
                   ELSE filled[j]]
      moved  == [j \in Places |->
                   IF j < kept THEN filled[j + (ov - kept)]
                   ELSE IF j < OverflowAfter(ov, n, k) THEN fed + (j - kept)
                   ELSE filled[j]]
  IN IF n + ov < FrameSize THEN appended
     ELSE IF k = 0 THEN overflow_samps
     ELSE IF kept <= 0 THEN past
     ELSE moved

---------------------------------------------------------------------------

Init ==
  /\ num_overflow_samps = 0
  /\ overflow_samps = [i \in Places |-> Zero]
  /\ pre_emphasis_prior = Zero
  /\ in_utt = FALSE
  /\ fed = 0
  /\ nframes = 0
  /\ frames = [i \in {} |-> NoTail]
  /\ tail = NoTail

\* fe_start_utt.
StartUtt ==
  /\ num_overflow_samps' = 0
  /\ overflow_samps' = [i \in Places |-> Zero]
  /\ pre_emphasis_prior' = Zero
  /\ in_utt' = TRUE
  /\ fed' = 0
  /\ nframes' = 0
  /\ frames' = [i \in {} |-> NoTail]
  /\ tail' = NoTail

\* fe_process_frames_int16 on n samples with room for cap frames.
ProcessFrames(n, cap) ==
  LET k == Written(num_overflow_samps, n, cap)
      t == Taken(num_overflow_samps, n, k)
  IN /\ in_utt
     /\ num_overflow_samps' = OverflowAfter(num_overflow_samps, n, k)
     /\ overflow_samps' = BufferAfter(n, k)
     /\ pre_emphasis_prior' = IF k = 0 THEN pre_emphasis_prior
                              ELSE Source(k * FrameShift - 1)
     /\ fed' = fed + t
     /\ nframes' = nframes + k
     /\ frames' = [i \in 0 .. nframes + k - 1 |->
                     IF i < nframes THEN frames[i] ELSE FrameAt(i - nframes)]
     /\ UNCHANGED <<in_utt, tail>>

\* fe_end_utt: one short frame of whatever is left.
EndUtt ==
  /\ in_utt
  /\ IF num_overflow_samps > 0
     THEN /\ tail' = [len |-> num_overflow_samps,
                      samps |-> [j \in Places |->
                                   IF j < num_overflow_samps
                                   THEN overflow_samps[j] ELSE Zero],
                      prior |-> pre_emphasis_prior]
          /\ pre_emphasis_prior' =
               IF num_overflow_samps >= FrameShift
               THEN overflow_samps[FrameShift - 1]
               ELSE overflow_samps[num_overflow_samps - 1]
     ELSE UNCHANGED <<tail, pre_emphasis_prior>>
  /\ num_overflow_samps' = 0
  /\ in_utt' = FALSE
  /\ UNCHANGED <<overflow_samps, fed, nframes, frames>>

Next ==
  \/ StartUtt
  \/ \E n \in 0 .. MaxSamples - fed, cap \in 0 .. MaxFrames : ProcessFrames(n, cap)
  \/ EndUtt

Spec == Init /\ [][Next]_vars

---------------------------------------------------------------------------

Samples == {Zero} \cup Nat
Frames == [samps : [Places -> Samples], prior : Samples]

\* The types of the front end's state.
TypeOK ==
  /\ num_overflow_samps \in 0 .. FrameSize
  /\ overflow_samps \in [Places -> Samples]
  /\ pre_emphasis_prior \in Samples
  /\ in_utt \in BOOLEAN
  /\ fed \in Nat
  /\ nframes \in Nat
  /\ frames \in [0 .. nframes - 1 -> Frames]
  /\ tail \in [len : 0 .. FrameSize, samps : [Places -> Samples], prior : Samples]

\* What frame i of an utterance is when the whole utterance is one block.
Before(x) == IF x = 0 THEN Zero ELSE x - 1
IdealFrame(i) == [samps |-> [j \in Places |-> i * FrameShift + j],
                  prior |-> Before(i * FrameShift)]

\* Whatever the sizes of the blocks, of the output buffers and of the blocks
\* offered again, frame i is computed from samples i * FrameShift onwards and
\* from the sample before them: cutting an utterance into blocks is invisible.
FramesIgnoreBlocks == \A i \in 0 .. nframes - 1 : frames[i] = IdealFrame(i)

\* Between calls the overflow buffer holds, in order, exactly the samples
\* taken that the next frame needs: none is lost, repeated or stale.
OverflowIsNextFrame ==
  in_utt => /\ fed = nframes * FrameShift + num_overflow_samps
            /\ \A j \in 0 .. num_overflow_samps - 1 :
                 overflow_samps[j] = nframes * FrameShift + j
            /\ pre_emphasis_prior = Before(nframes * FrameShift)

\* The frame fe_end_utt writes, if it writes one, continues the last one and
\* reaches the last sample taken: every sample of the utterance is in a frame.
TailReachesEnd ==
  IF in_utt THEN tail.len = 0
  ELSE /\ fed = nframes * FrameShift + tail.len
       /\ \A j \in 0 .. tail.len - 1 : tail.samps[j] = nframes * FrameShift + j
       /\ tail.len > 0 => tail.prior = Before(nframes * FrameShift)

\* Every sample of the utterance is in a frame, or in the overflow buffer until
\* its frame comes.
NothingLost == OverflowIsNextFrame /\ TailReachesEnd

\* A call leaves samples unread only when it filled the output buffer, never
\* takes or writes more than it may, and with samples and room takes a sample or
\* writes a frame: acmod_process_raw relies on it, and a caller that loops while
\* samples are left terminates.
CallsAdvance ==
  in_utt => \A n \in 0 .. MaxSamples, cap \in 0 .. MaxFrames :
              LET k == Written(num_overflow_samps, n, cap)
                  t == Taken(num_overflow_samps, n, k)
              IN /\ k <= cap /\ t <= n /\ (t < n => k = cap)
                 /\ n > 0 /\ cap > 0 => k > 0 \/ t > 0
============================================================================
