---------------------------- MODULE FrameCounts ----------------------------
(***************************************************************************)
(* The arithmetic of fe_process_frames_int16 (src/fe/fe_interface.c): how  *)
(* many frames a call writes, how many samples it takes and how many it    *)
(* keeps in the overflow buffer, as functions of                           *)
(*   ov   fe->num_overflow_samps on entry,                                 *)
(*   n    *inout_nsamps, the samples offered,                              *)
(*   cap  *inout_nframes, the rows of the output buffer.                   *)
(* FrontEnd gives the samples a content; Acmod needs only the counts.      *)
(***************************************************************************)
EXTENDS Integers

CONSTANTS FrameSize,   \* fe->frame_size, samples in an analysis window
          FrameShift   \* fe->frame_shift, samples between two windows

\* fe_parse_general_params asserts the first bound and rejects a
\* configuration that breaks the second.
ASSUME FrameAssumption == /\ FrameShift \in Nat \ {0, 1}
                          /\ FrameSize \in Nat
                          /\ FrameSize >= FrameShift

Smaller(a, b) == IF a < b THEN a ELSE b
Larger(a, b)  == IF a > b THEN a ELSE b

\* Mutant of FrameCount: a window that is just complete is not enough.
FrameCountStrict(ov, n) ==
  IF n + ov <= FrameSize THEN 0
  ELSE 1 + ((n + ov - FrameSize) \div FrameShift)

\* Frames the samples in hand are enough for.
FrameCount(ov, n) ==
  IF n + ov < FrameSize THEN 0
  ELSE 1 + ((n + ov - FrameSize) \div FrameShift)

\* Frames a call writes (frame_count, then outidx).
Written(ov, n, cap) == Smaller(FrameCount(ov, n), cap)

\* *inout_spch - orig_spch when the frame loop is over, k > 0 frames written.
ReadPast(ov, k) == (FrameSize - ov) + (k - 1) * FrameShift

\* num_overflow_samps when the frame loop is over: what the next frame still
\* needs from the old overflow buffer (it is no longer lowered once <= 0).
StillBuffered(ov, k) == ov - k * FrameShift

\* Samples past the last one read that are saved when nothing of the old
\* overflow buffer is needed.
SavedPast(ov, n, k) == Smaller(n - ReadPast(ov, k), FrameShift)

\* Mutant of Appended: the whole block, without regard to the buffer's size.
AppendedWhole(ov, n, k) == n

\* Input samples appended to what is still needed of the old overflow buffer.
Appended(ov, n, k) == Smaller(n, FrameSize - StillBuffered(ov, k))

\* Mutant of OverflowAfter: a block too short for a frame replaces what was kept.
OverflowAfterShort(ov, n, k) ==
  IF n + ov < FrameSize THEN n
  ELSE IF k = 0 THEN ov
  ELSE IF StillBuffered(ov, k) <= 0
  THEN Smaller(FrameSize - FrameShift, ReadPast(ov, k)) + SavedPast(ov, n, k)
  ELSE StillBuffered(ov, k) + Appended(ov, n, k)

\* num_overflow_samps when the call returns, k frames written.
OverflowAfter(ov, n, k) ==
  IF n + ov < FrameSize THEN ov + n
  ELSE IF k = 0 THEN ov
  ELSE IF StillBuffered(ov, k) <= 0
  THEN Smaller(FrameSize - FrameShift, ReadPast(ov, k)) + SavedPast(ov, n, k)
  ELSE StillBuffered(ov, k) + Appended(ov, n, k)

\* Input samples the call has taken when it returns, k frames written.
Taken(ov, n, k) ==
  IF n + ov < FrameSize THEN n
  ELSE IF k = 0 THEN 0
  ELSE IF StillBuffered(ov, k) <= 0
  THEN ReadPast(ov, k) + SavedPast(ov, n, k)
  ELSE Larger(Appended(ov, n, k), ReadPast(ov, k))
============================================================================
