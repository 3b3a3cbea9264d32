-------------------------- MODULE FrameRing_proofs --------------------------
(***************************************************************************)
(* Lemmas for the components that count frames and keep them in a ring.    *)
(* The arithmetic of fe_process_frames_int16, for every window size and    *)
(* shift: no sample is lost or counted twice (CallCounts), the frames left *)
(* for later are those not written (FramesLeft), and with windows that     *)
(* overlap something is always kept for the next (OverflowStays).          *)
(* What feat_s2mfc2feat_live does to a buffer that holds a stretch of the  *)
(* utterance around its current position, for every size of the buffer and *)
(* of the window: Windowed says what the buffer holds.  Positions are      *)
(* taken relative to the current one, so that the buffer's ends do not     *)
(* matter any more once Around is understood.                              *)
(***************************************************************************)
EXTENDS FrameCounts, LiveRing, TLAPS

\* What a call does to the counts: the arithmetic of fe_process_frames_int16.
LEMMA CallCounts ==
  ASSUME NEW ov \in 0 .. FrameSize, NEW n \in Nat, NEW cap \in Nat
  PROVE  LET k == Written(ov, n, cap)
         IN /\ k \in Nat
            /\ k <= cap
            /\ Taken(ov, n, k) \in 0 .. n
            /\ OverflowAfter(ov, n, k) \in 0 .. FrameSize
            /\ Taken(ov, n, k) + ov = OverflowAfter(ov, n, k) + k * FrameShift
            /\ k > 0 => (k - 1) * FrameShift + FrameSize <= n + ov
            /\ Taken(ov, n, k) < n => k = cap
            /\ n > 0 /\ cap > 0 => Taken(ov, n, k) > 0 \/ k > 0
<1> DEFINE k == Written(ov, n, cap)
<1> USE FrameAssumption
<1>1. k \in Nat /\ k <= cap
  BY DEF Written, FrameCount, Smaller
<1>2. k > 0 => (k - 1) * FrameShift + FrameSize <= n + ov
  <2>1. CASE n + ov < FrameSize
    BY <2>1 DEF Written, FrameCount, Smaller
  <2>2. CASE n + ov >= FrameSize
    <3> DEFINE x == n + ov - FrameSize
    <3>1. x \in Nat /\ x \div FrameShift \in Nat /\ (x \div FrameShift) * FrameShift <= x
      BY <2>2
    <3>2. FrameCount(ov, n) = 1 + (x \div FrameShift)
      BY <2>2 DEF FrameCount
    <3> HIDE DEF x
    <3>3. k - 1 <= x \div FrameShift
      BY <3>1, <3>2 DEF Written, Smaller
    <3>4. k > 0 => (k - 1) * FrameShift <= (x \div FrameShift) * FrameShift
      BY <1>1, <3>1, <3>3
    <3>5. QED
      BY <1>1, <3>1, <3>4 DEF x
  <2>3. QED
    BY <2>1, <2>2
<1>3. k < cap => n + ov < FrameSize + k * FrameShift
  <2>1. CASE n + ov < FrameSize
    BY <2>1, <1>1
  <2>2. CASE n + ov >= FrameSize
    <3> DEFINE x == n + ov - FrameSize
    <3>1. x \in Nat /\ x \div FrameShift \in Nat /\ x < ((x \div FrameShift) + 1) * FrameShift
      BY <2>2
    <3>2. FrameCount(ov, n) = 1 + (x \div FrameShift)
      BY <2>2 DEF FrameCount
    <3>3. k < cap => k = 1 + (x \div FrameShift)
      BY <3>1, <3>2 DEF Written, Smaller
    <3>4. QED
      BY <3>1, <3>3
  <2>3. QED
    BY <2>1, <2>2
<1>4. k = 0 => n + ov < FrameSize \/ cap = 0
  BY <1>1, <1>3
<1>5. k > 0 => k * FrameShift \in Nat /\ (k - 1) * FrameShift = k * FrameShift - FrameShift
                /\ k * FrameShift >= FrameShift
  BY <1>1
<1> DEFINE p == k * FrameShift
<1>6. k > 0 => ReadPast(ov, k) = FrameSize - ov + p - FrameShift
  BY <1>5 DEF ReadPast
<1>7. StillBuffered(ov, k) = ov - p
  BY DEF StillBuffered
<1>8. p \in Nat /\ (k > 0 => p >= FrameShift)
  BY <1>1, <1>5
<1>9. k > 0 => p - FrameShift + FrameSize <= n + ov
  BY <1>2, <1>5
<1>10. k = 0 => p = 0
  BY <1>1
<1>11. k < cap => n + ov < FrameSize + p
  BY <1>3
<1> DEFINE Conserved == /\ Taken(ov, n, k) \in 0 .. n
                        /\ OverflowAfter(ov, n, k) \in 0 .. FrameSize
                        /\ Taken(ov, n, k) + ov = OverflowAfter(ov, n, k) + p
                        /\ Taken(ov, n, k) < n => k = cap
                        /\ n > 0 /\ cap > 0 => Taken(ov, n, k) > 0 \/ k > 0
<1> HIDE DEF k, p
<1>12. ASSUME n + ov < FrameSize \/ k = 0 PROVE Conserved
  <2>1. k = 0
    BY <1>1, <1>8, <1>9, <1>12
  <2>2. QED
    BY <1>1, <1>4, <1>10, <1>12, <2>1 DEF Taken, OverflowAfter
<1>13. ASSUME ~(n + ov < FrameSize), k > 0, StillBuffered(ov, k) <= 0 PROVE Conserved
  BY <1>1, <1>6, <1>7, <1>8, <1>9, <1>11, <1>13
     DEF Taken, OverflowAfter, SavedPast, Smaller
<1>14. ASSUME ~(n + ov < FrameSize), k > 0, ~(StillBuffered(ov, k) <= 0) PROVE Conserved
  BY <1>1, <1>6, <1>7, <1>8, <1>9, <1>11, <1>14
     DEF Taken, OverflowAfter, Appended, Smaller, Larger
<1>15. Conserved
  BY <1>1, <1>12, <1>13, <1>14
<1>16. QED
  BY <1>1, <1>2, <1>15 DEF k, p

\* What a call leaves is not enough for more frames than it had to write.
LEMMA FramesLeft ==
  ASSUME NEW ov \in 0 .. FrameSize, NEW n \in Nat, NEW cap \in Nat,
         NEW k, k = Written(ov, n, cap), NEW m \in Nat, FrameCount(ov, n) <= m
  PROVE  k + FrameCount(OverflowAfter(ov, n, k), n - Taken(ov, n, k)) <= m
<1> USE FrameAssumption
<1>1. PICK ov2, left : ov2 = OverflowAfter(ov, n, k) /\ left = n - Taken(ov, n, k)
  OBVIOUS
<1>2. PICK p : p = k * FrameShift
  OBVIOUS
<1>3. k \in Nat /\ p \in Nat /\ ov2 \in 0 .. FrameSize /\ left \in 0 .. n
      /\ left + ov2 = n + ov - p
  <2>1. /\ k \in Nat /\ Taken(ov, n, k) \in 0 .. n /\ OverflowAfter(ov, n, k) \in 0 .. FrameSize
        /\ Taken(ov, n, k) + ov = OverflowAfter(ov, n, k) + k * FrameShift
    BY CallCounts
  <2>2. p \in Nat
    BY <1>2, <2>1
  <2>3. QED
    BY <1>1, <1>2, <2>1, <2>2
<1>4. k <= FrameCount(ov, n) /\ FrameCount(ov, n) \in Nat
  BY <1>3 DEF Written, Smaller, FrameCount
<1>5. CASE left + ov2 < FrameSize
  <2>1. FrameCount(ov2, left) = 0
    BY <1>5 DEF FrameCount
  <2>2. QED
    BY <1>1, <1>3, <1>4, <2>1
<1>6. CASE ~(left + ov2 < FrameSize)
  <2>1. PICK x \in Nat : x = left + ov2 - FrameSize
    BY <1>3, <1>6
  <2>2. PICK j \in Nat : j = x \div FrameShift
    BY <2>1
  <2>3. j * FrameShift \in Nat /\ j * FrameShift <= x
    BY <2>1, <2>2
  <2>4. FrameCount(ov2, left) = 1 + j
    BY <1>6, <2>1, <2>2 DEF FrameCount
  <2>5. (k + j) * FrameShift = p + j * FrameShift
    <3>1. PICK i \in Nat : i = k
      BY <1>3
    <3>2. (i + j) * FrameShift = i * FrameShift + j * FrameShift
      BY <2>2
    <3>3. QED
      BY <1>2, <3>1, <3>2
  <2>6. (k + j) * FrameShift <= x + p /\ x + p = n + ov - FrameSize
    BY <1>3, <2>1, <2>3, <2>5
  <2>7. PICK y \in Nat : y = n + ov - FrameSize
    BY <1>3, <2>1, <2>6
  <2>8. PICK q \in Nat : q = y \div FrameShift
    BY <2>7
  <2>9. k + j <= q
    <3>1. y < (q + 1) * FrameShift
      BY <2>7, <2>8
    <3>2. PICK e \in Nat : e = k + j
      BY <1>3, <2>2
    <3>3. e * FrameShift <= y
      BY <2>6, <2>7, <3>2
    <3>4. e >= q + 1 => e * FrameShift >= (q + 1) * FrameShift
      BY <2>8, <3>2
    <3>5. ~(e >= q + 1)
      <4>1. e * FrameShift \in Int /\ (q + 1) * FrameShift \in Int
        BY <2>8, <3>2
      <4>2. QED
        BY <2>7, <3>1, <3>3, <3>4, <4>1
    <3>6. QED
      BY <2>8, <3>2, <3>5
  <2>10. FrameCount(ov, n) = 1 + q
    <3>1. ~(n + ov < FrameSize)
      BY <2>7
    <3>2. QED
      BY <2>7, <2>8, <3>1 DEF FrameCount
  <2>11. QED
    BY <1>1, <1>3, <2>2, <2>4, <2>8, <2>9, <2>10
<1>7. QED
  BY <1>5, <1>6

\* Once there was a frame the overflow buffer is not empty.
LEMMA OverflowStays ==
  ASSUME FrameSize > FrameShift, NEW ov \in 0 .. FrameSize, NEW n \in Nat, NEW cap \in Nat,
         NEW k, k = Written(ov, n, cap), ov > 0 \/ k > 0
  PROVE  OverflowAfter(ov, n, k) > 0
<1> USE FrameAssumption
<1>1. PICK p : p = k * FrameShift
  OBVIOUS
<1>2. /\ k \in Nat /\ p \in Nat /\ OverflowAfter(ov, n, k) \in 0 .. FrameSize
      /\ k > 0 => p - FrameShift + FrameSize <= n + ov
  <2>1. k > 0 => (k - 1) * FrameShift + FrameSize <= n + ov
    BY CallCounts
  <2>2. k \in Nat /\ OverflowAfter(ov, n, k) \in 0 .. FrameSize
    BY CallCounts
  <2>3. p \in Nat /\ (k - 1) * FrameShift = p - FrameShift
    BY <1>1, <2>2
  <2>4. QED
    BY <2>1, <2>2, <2>3
<1>3. ReadPast(ov, k) = FrameSize - ov + p - FrameShift
  <2>1. (k - 1) * FrameShift = p - FrameShift
    BY <1>1, <1>2
  <2>2. QED
    BY <1>2, <2>1 DEF ReadPast
<1>4. StillBuffered(ov, k) = ov - p
  BY <1>1 DEF StillBuffered
<1>5. CASE k = 0
  BY <1>2, <1>5 DEF OverflowAfter
<1>6. CASE k > 0 /\ n + ov < FrameSize
  BY <1>2, <1>6 DEF OverflowAfter
<1>7. CASE k > 0 /\ ~(n + ov < FrameSize) /\ StillBuffered(ov, k) <= 0
  BY <1>2, <1>3, <1>4, <1>7 DEF OverflowAfter, SavedPast, Smaller
<1>8. CASE k > 0 /\ ~(n + ov < FrameSize) /\ ~(StillBuffered(ov, k) <= 0)
  BY <1>2, <1>4, <1>8 DEF OverflowAfter, Appended, Smaller
<1>9. QED
  BY <1>2, <1>4, <1>5, <1>6, <1>7, <1>8

---------------------------------------------------------------------------

\* The slot d places from slot c.
Around(c, d) == (c + d) % L

\* Positions that run over one end of the buffer come in at the other.
LEMMA Modulo ==
  /\ \A x \in 0 .. L - 1 : x % L = x
  /\ \A x \in L .. 2 * L - 1 : x % L = x - L
  /\ \A x \in -L .. -1 : x % L = x + L
<1>1. L \in Nat \ {0}
  BY LiveAssumption
<1>2. ASSUME NEW x \in 0 .. L - 1 PROVE x % L = x
  BY <1>1
<1>3. ASSUME NEW x \in L .. 2 * L - 1 PROVE x % L = x - L
  BY <1>1
<1>4. ASSUME NEW x \in -L .. -1 PROVE x % L = x + L
  BY <1>1
<1>5. QED
  BY <1>2, <1>3, <1>4

LEMMA AroundIs ==
  ASSUME NEW c \in Slots, NEW d \in -L .. L
  PROVE  /\ Around(c, d) \in Slots
         /\ Around(c, d) = IF c + d < 0 THEN c + d + L
                           ELSE IF c + d < L THEN c + d ELSE c + d - L
<1>1. L \in Nat \ {0} /\ c \in 0 .. L - 1
  BY LiveAssumption DEF Slots
<1>2. Around(c, d) = IF c + d < 0 THEN c + d + L
                     ELSE IF c + d < L THEN c + d ELSE c + d - L
  <2>1. CASE c + d < 0
    <3>1. c + d \in -L .. -1
      BY <1>1, <2>1
    <3>2. QED
      BY <2>1, <3>1, Modulo DEF Around
  <2>2. CASE c + d \in 0 .. L - 1
    BY <1>1, <2>2, Modulo DEF Around
  <2>3. CASE c + d \in L .. 2 * L - 1
    BY <1>1, <2>3, Modulo DEF Around
  <2>4. QED
    BY <1>1, <2>1, <2>2, <2>3
<1>3. QED
  BY <1>1, <1>2 DEF Slots

\* Places add up.
LEMMA AroundAround ==
  ASSUME NEW c \in Slots, NEW a \in 0 .. L, NEW d \in -L .. L, a + d \in -L .. L
  PROVE  Around(Around(c, a), d) = Around(c, a + d)
<1>1. L \in Nat \ {0} /\ c \in 0 .. L - 1 /\ a \in -L .. L
  BY LiveAssumption DEF Slots
<1>2. PICK e : e = Around(c, a)
  OBVIOUS
<1>3. e \in Slots /\ e = IF c + a < L THEN c + a ELSE c + a - L
  BY <1>1, <1>2, AroundIs
<1>4. Around(e, d) = IF e + d < 0 THEN e + d + L
                     ELSE IF e + d < L THEN e + d ELSE e + d - L
  BY <1>3, AroundIs
<1>5. PICK f \in Int : f = a + d
  BY <1>1
<1>6. Around(c, f) = IF c + f < 0 THEN c + f + L
                     ELSE IF c + f < L THEN c + f ELSE c + f - L
  BY <1>5, AroundIs
<1>7. Around(e, d) = Around(c, f)
  BY <1>1, <1>3, <1>4, <1>5, <1>6
<1>8. QED
  BY <1>2, <1>5, <1>7

\* How far the slot d places from c is behind the one a places from it.
LEMMA Distance ==
  ASSUME NEW c \in Slots, NEW a \in 0 .. L, NEW d \in -L .. L, d - a \in -L .. L - 1
  PROVE  (Around(c, d) - Around(c, a)) % L = IF d >= a THEN d - a ELSE d - a + L
<1>1. L \in Nat \ {0} /\ c \in 0 .. L - 1 /\ a \in -L .. L
  BY LiveAssumption DEF Slots
<1>2. PICK e, f : e = Around(c, a) /\ f = Around(c, d)
  OBVIOUS
<1>3. /\ e \in 0 .. L - 1 /\ f \in 0 .. L - 1
      /\ e = IF c + a < L THEN c + a ELSE c + a - L
      /\ f = IF c + d < 0 THEN c + d + L ELSE IF c + d < L THEN c + d ELSE c + d - L
  <2>1. e \in Slots /\ e = IF c + a < L THEN c + a ELSE c + a - L
    BY <1>1, <1>2, AroundIs
  <2>2. f \in Slots /\ f = IF c + d < 0 THEN c + d + L
                           ELSE IF c + d < L THEN c + d ELSE c + d - L
    BY <1>2, AroundIs
  <2>3. QED
    BY <2>1, <2>2 DEF Slots
<1>4. (f - e) % L = IF f - e >= 0 THEN f - e ELSE f - e + L
  <2>1. CASE f - e >= 0
    <3>1. f - e \in 0 .. L - 1
      BY <1>1, <1>3, <2>1
    <3>2. QED
      BY <2>1, <3>1, Modulo
  <2>2. CASE f - e < 0
    <3>1. f - e \in -L .. -1
      BY <1>1, <1>3, <2>2
    <3>2. QED
      BY <1>1, <1>3, <2>2, <3>1, Modulo
  <2>3. QED
    BY <1>1, <1>3, <2>1, <2>2
<1>5. (IF f - e >= 0 THEN f - e ELSE f - e + L) = IF d >= a THEN d - a ELSE d - a + L
  BY <1>1, <1>3
<1>6. QED
  BY <1>2, <1>4, <1>5

\* After s was copied a places from c, of the L places that end with it the last hold s and
\* the others what they held.
LEMMA CopiedAt ==
  ASSUME NEW buf \in [Slots -> Nat], NEW c \in Slots, NEW s \in Seq(Nat),
         NEW a \in 0 .. L, NEW d \in -L .. L - 1,
         a + Len(s) - L <= d, d < a + Len(s), Len(s) <= L
  PROVE  Copied(buf, Around(c, a), s)[Around(c, d)] =
           IF d >= a THEN s[d - a + 1] ELSE buf[Around(c, d)]
<1>1. L \in Nat \ {0} /\ Len(s) \in Nat /\ a \in Nat /\ d \in Int
  BY LiveAssumption
<1>2. Around(c, d) \in Slots
  BY <1>1, AroundIs
<1>3. d \in -L .. L /\ d - a \in -L .. L - 1
  BY <1>1
<1>4. PICK i : i = Around(c, d)
  OBVIOUS
<1>5. (i - Around(c, a)) % L = IF d >= a THEN d - a ELSE d - a + L
  BY <1>3, <1>4, Distance
<1>6. Copied(buf, Around(c, a), s)[i] =
        IF (i - Around(c, a)) % L < Len(s) THEN s[((i - Around(c, a)) % L) + 1] ELSE buf[i]
  BY <1>2, <1>4 DEF Copied
<1>7. CASE d >= a
  BY <1>1, <1>4, <1>5, <1>6, <1>7
<1>8. CASE d < a
  <2>1. ~(d - a + L < Len(s)) /\ ~(d >= a)
    BY <1>1, <1>8
  <2>2. QED
    BY <1>4, <1>5, <1>6, <2>1
<1>9. QED
  BY <1>1, <1>7, <1>8

LEMMA CopiedType ==
  ASSUME NEW buf \in [Slots -> Nat], NEW pos \in Slots, NEW s \in Seq(Nat)
  PROVE  Copied(buf, pos, s) \in [Slots -> Nat]
<1>1. ASSUME NEW i \in Slots
      PROVE  (IF (i - pos) % L < Len(s) THEN s[((i - pos) % L) + 1] ELSE buf[i]) \in Nat
  <2>1. (i - pos) % L \in 0 .. L - 1
    BY LiveAssumption DEF Slots
  <2>2. (i - pos) % L < Len(s) => ((i - pos) % L) + 1 \in 1 .. Len(s)
    BY <2>1
  <2>3. QED
    BY <2>2
<1>2. QED
  BY <1>1 DEF Copied

---------------------------------------------------------------------------

\* The buffer holds the cepstra around position c, where the feature after the first o is
\* computed: those from the window before it to hi places behind it, of an utterance whose
\* ends are padded, its last cepstrum being the last.
Windowed(buf, c, o, hi, last) ==
  \A d \in -Win .. hi : buf[Around(c, d)] = Clamp(o + 1 + d, 1, last)

\* More rows behind the others, up to those around the feature after.
LEMMA Extends ==
  ASSUME NEW buf \in [Slots -> Nat], NEW c \in Slots, NEW o \in Nat, NEW p \in Nat,
         NEW fed \in Nat, NEW last \in Nat, Windowed(buf, c, o, p - 1, fed),
         \A d \in -Win .. p - 1 : Clamp(o + 1 + d, 1, fed) = Clamp(o + 1 + d, 1, last),
         NEW s \in Seq(Nat), \A i \in 1 .. Len(s) : s[i] = Clamp(o + p + i, 1, last),
         Win + p + Len(s) <= L
  PROVE  Windowed(Copied(buf, Around(c, p), s), c, o, p + Len(s) - 1, last)
<1>1. Win \in Nat /\ L \in Nat \ {0} /\ Len(s) \in Nat
  BY LiveAssumption
<1>2. PICK k \in Nat : k = Len(s)
  BY <1>1
<1>3. ASSUME NEW d \in -Win .. p + k - 1
      PROVE  Copied(buf, Around(c, p), s)[Around(c, d)] = Clamp(o + 1 + d, 1, last)
  <2>1. /\ p \in 0 .. L /\ d \in -L .. L - 1 /\ p + Len(s) - L <= d /\ d < p + Len(s)
        /\ Len(s) <= L
    BY <1>1, <1>2
  <2>2. Copied(buf, Around(c, p), s)[Around(c, d)] =
          IF d >= p THEN s[d - p + 1] ELSE buf[Around(c, d)]
    BY <2>1, CopiedAt
  <2>3. CASE d >= p
    <3>1. d - p + 1 \in 1 .. Len(s) /\ o + p + (d - p + 1) = o + 1 + d
      BY <1>2, <2>3
    <3>2. s[d - p + 1] = Clamp(o + p + (d - p + 1), 1, last)
      BY <3>1
    <3>3. QED
      BY <2>2, <2>3, <3>1, <3>2
  <2>4. CASE d < p
    <3>1. d \in -Win .. p - 1 /\ ~(d >= p)
      BY <1>1, <2>4
    <3>2. buf[Around(c, d)] = Clamp(o + 1 + d, 1, fed)
      BY <3>1 DEF Windowed
    <3>3. QED
      BY <2>2, <3>1, <3>2
  <2>5. QED
    BY <1>1, <2>3, <2>4
<1>4. QED
  BY <1>2, <1>3 DEF Windowed

\* More cepstra.
LEMMA Appends ==
  ASSUME NEW buf \in [Slots -> Nat], NEW c \in Slots, NEW o \in Nat, NEW p \in Nat,
         NEW fed \in Nat, o + p = fed, Windowed(buf, c, o, p - 1, fed),
         NEW s \in Seq(Nat), \A i \in 1 .. Len(s) : s[i] = fed + i, Win + p + Len(s) <= L
  PROVE  Windowed(Copied(buf, Around(c, p), s), c, o, p + Len(s) - 1, fed + Len(s))
<1>1. Win \in Nat /\ L \in Nat \ {0}
  BY LiveAssumption
<1>2. PICK last \in Nat : last = fed + Len(s)
  OBVIOUS
<1>3. ASSUME NEW d \in -Win .. p - 1
      PROVE  Clamp(o + 1 + d, 1, fed) = Clamp(o + 1 + d, 1, last)
  BY <1>1, <1>2 DEF Clamp
<1>4. ASSUME NEW i \in 1 .. Len(s) PROVE s[i] = Clamp(o + p + i, 1, last)
  <2>1. s[i] = fed + i /\ Len(s) \in Nat
    OBVIOUS
  <2>2. o + p + i = fed + i /\ fed + i \in 1 .. last
    BY <1>2, <2>1
  <2>3. QED
    BY <2>1, <2>2 DEF Clamp
<1>5. QED
  BY <1>2, <1>3, <1>4, Extends, ZenonT(30)

\* The last cepstrum, a window of times, behind the others.
LEMMA Pads ==
  ASSUME NEW buf \in [Slots -> Nat], NEW c \in Slots, NEW o \in Nat, NEW q \in Nat,
         NEW last \in Nat \ {0}, o + q = last, Windowed(buf, c, o, q - 1, last),
         Win + q + Win <= L
  PROVE  Windowed(Copied(buf, Around(c, q), Repeated(last, Win)), c, o, q + Win - 1, last)
<1>1. Win \in Nat /\ L \in Nat \ {0}
  BY LiveAssumption
<1>2. PICK s : s = Repeated(last, Win)
  OBVIOUS
<1>3. s \in Seq(Nat) /\ Len(s) = Win
  BY <1>1, <1>2 DEF Repeated
<1>4. ASSUME NEW i \in 1 .. Len(s) PROVE s[i] = Clamp(o + q + i, 1, last)
  BY <1>1, <1>2, <1>3 DEF Repeated, Clamp
<1>5. Windowed(Copied(buf, Around(c, q), s), c, o, q + Len(s) - 1, last)
  BY <1>3, <1>4, Extends
<1>6. QED
  BY <1>2, <1>3, <1>5

\* The first cepstrum, a window of times, before the first.
LEMMA Leads ==
  ASSUME NEW buf \in [Slots -> Nat], NEW c \in Slots
  PROVE  Windowed(Copied(buf, c, Repeated(1, Win)), Around(c, Win), 0, -1, 0)
<1>1. Win \in Nat /\ L \in Nat \ {0} /\ Win <= L
  BY LiveAssumption
<1>2. PICK s : s = Repeated(1, Win)
  OBVIOUS
<1>3. s \in Seq(Nat) /\ Len(s) = Win /\ \A i \in 1 .. Win : s[i] = 1
  BY <1>1, <1>2 DEF Repeated
<1>4. Around(c, 0) = c
  <2>1. 0 \in -L .. L /\ c \in 0 .. L - 1
    BY <1>1 DEF Slots
  <2>2. QED
    BY <1>1, <2>1, AroundIs
<1>5. ASSUME NEW d \in -Win .. -1
      PROVE  Copied(buf, c, s)[Around(Around(c, Win), d)] = Clamp(0 + 1 + d, 1, 0)
  <2>1. PICK e \in Nat : e = Win + d
    BY <1>1
  <2>2. /\ e \in 0 .. Win - 1 /\ Win \in 0 .. L /\ d \in -L .. L /\ Win + d \in -L .. L
    BY <1>1, <2>1
  <2>3. Around(Around(c, Win), d) = Around(c, e)
    BY <2>1, <2>2, AroundAround
  <2>4. /\ 0 \in 0 .. L /\ e \in -L .. L - 1 /\ 0 + Len(s) - L <= e /\ e < 0 + Len(s)
        /\ Len(s) <= L /\ e >= 0
    BY <1>1, <1>3, <2>2
  <2>5. Copied(buf, Around(c, 0), s)[Around(c, e)] =
          IF e >= 0 THEN s[e - 0 + 1] ELSE buf[Around(c, e)]
    BY <1>3, <2>4, CopiedAt
  <2>6. e - 0 + 1 \in 1 .. Win
    BY <2>2
  <2>7. s[e - 0 + 1] = 1
    BY <1>3, <2>6
  <2>8. Clamp(0 + 1 + d, 1, 0) = 1
    BY DEF Clamp
  <2>9. QED
    BY <1>4, <2>3, <2>4, <2>5, <2>7, <2>8
<1>6. QED
  BY <1>2, <1>5 DEF Windowed

\* The current position moves on with the features computed.
LEMMA Moves ==
  ASSUME NEW buf \in [Slots -> Nat], NEW c \in Slots, NEW o \in Nat, NEW hi \in Int,
         NEW last \in Nat, Windowed(buf, c, o, hi, last), hi <= L - 1,
         NEW r \in 0 .. L
  PROVE  Windowed(buf, Around(c, r), o + r, hi - r, last)
<1>1. Win \in Nat /\ L \in Nat \ {0} /\ Win <= L
  BY LiveAssumption
<1>2. ASSUME NEW d \in -Win .. hi - r
      PROVE  buf[Around(Around(c, r), d)] = Clamp(o + r + 1 + d, 1, last)
  <2>1. PICK e \in Int : e = r + d
    BY <1>1
  <2>2. e \in -Win .. hi /\ d \in -L .. L /\ r + d \in -L .. L
    BY <1>1, <2>1
  <2>3. Around(Around(c, r), d) = Around(c, e)
    BY <2>1, <2>2, AroundAround
  <2>4. buf[Around(c, e)] = Clamp(o + 1 + e, 1, last)
    BY <2>2 DEF Windowed
  <2>5. o + 1 + e = o + r + 1 + d
    BY <1>1, <2>1
  <2>6. QED
    BY <2>3, <2>4, <2>5
<1>3. QED
  BY <1>2 DEF Windowed

\* What batch processing computes of the utterance.
LEMMA IdealIs ==
  ASSUME NEW last \in Nat, NEW u \in 1 .. last
  PROVE  Ideal(last)[u] = [j \in 1 .. 2 * Win + 1 |-> Clamp(u + j - Win - 1, 1, last)]
<1>1. Win \in Nat
  BY LiveAssumption
<1>2. PICK s : s = [i \in 1 .. last |-> i]
  OBVIOUS
<1>3. Len(s) = last /\ \A i \in 1 .. last : s[i] = i
  BY <1>2
<1>4. Ideal(last) = [t \in 1 .. last |->
                       [j \in 1 .. 2 * Win + 1 |-> s[Clamp(t + j - Win - 1, 1, last)]]]
  BY <1>2, <1>3 DEF Ideal, BlockUtt
<1>5. ASSUME NEW j \in 1 .. 2 * Win + 1
      PROVE  s[Clamp(u + j - Win - 1, 1, last)] = Clamp(u + j - Win - 1, 1, last)
  <2>1. Clamp(u + j - Win - 1, 1, last) \in 1 .. last
    BY <1>1 DEF Clamp
  <2>2. QED
    BY <1>3, <2>1
<1>6. QED
  BY <1>4, <1>5

\* The features computed are those of batch processing.
LEMMA Gives ==
  ASSUME NEW buf \in [Slots -> Nat], NEW c \in Slots, NEW o \in Nat, NEW hi \in Int,
         NEW last \in Nat, Windowed(buf, c, o, hi, last), hi <= L - 1,
         NEW r \in Nat, r + Win - 1 <= hi, o + r <= last, NEW t \in 1 .. r
  PROVE  Windows(buf, c, r)[t] = Ideal(last)[o + t]
<1>1. Win \in Nat /\ L \in Nat \ {0}
  BY LiveAssumption
<1>2. Windows(buf, c, r)[t] =
        [j \in 1 .. 2 * Win + 1 |-> buf[(c + t - 1 + j - Win - 1) % L]]
  BY DEF Windows
<1>3. Ideal(last)[o + t] =
        [j \in 1 .. 2 * Win + 1 |-> Clamp(o + t + j - Win - 1, 1, last)]
  <2>1. o + t \in 1 .. last
    OBVIOUS
  <2>2. QED
    BY <2>1, IdealIs
<1>4. ASSUME NEW j \in 1 .. 2 * Win + 1
      PROVE  buf[(c + t - 1 + j - Win - 1) % L] = Clamp(o + t + j - Win - 1, 1, last)
  <2>1. PICK d \in Int : d = t - 1 + j - Win - 1
    BY <1>1
  <2>2. d \in -Win .. hi
    BY <1>1, <2>1
  <2>3. c + t - 1 + j - Win - 1 = c + d /\ o + t + j - Win - 1 = o + 1 + d
    BY <1>1, <2>1 DEF Slots
  <2>4. buf[Around(c, d)] = Clamp(o + 1 + d, 1, last)
    BY <2>2 DEF Windowed
  <2>5. QED
    BY <2>3, <2>4 DEF Around
<1>5. QED
  BY <1>2, <1>3, <1>4

---------------------------------------------------------------------------

Buffers == [cepbuf : [Slots -> Nat], bufpos : Slots, curpos : Slots]
FeatureRows == [1 .. 2 * Win + 1 -> Nat]

\* Features are of cepstra.
LEMMA WindowsType ==
  ASSUME NEW buf \in [Slots -> Nat], NEW c \in Slots, NEW r \in Nat
  PROVE  Windows(buf, c, r) \in Seq(FeatureRows) /\ Len(Windows(buf, c, r)) = r
<1>1. Win \in Nat /\ L \in Nat \ {0}
  BY LiveAssumption
<1>2. ASSUME NEW t \in 1 .. r, NEW j \in 1 .. 2 * Win + 1
      PROVE  buf[(c + t - 1 + j - Win - 1) % L] \in Nat
  <2>1. (c + t - 1 + j - Win - 1) % L \in Slots
    BY <1>1 DEF Slots
  <2>2. QED
    BY <2>1
<1>3. ASSUME NEW t \in 1 .. r
      PROVE  [j \in 1 .. 2 * Win + 1 |-> buf[(c + t - 1 + j - Win - 1) % L]] \in FeatureRows
  BY <1>2 DEF FeatureRows
<1> DEFINE row(t) == [j \in 1 .. 2 * Win + 1 |-> buf[(c + t - 1 + j - Win - 1) % L]]
<1>4. Windows(buf, c, r) = [t \in 1 .. r |-> row(t)]
  BY DEF Windows
<1>5. \A t \in 1 .. r : row(t) \in FeatureRows
  BY <1>3
<1> HIDE DEF row
<1>6. QED
  BY <1>4, <1>5

\* The buffer in the middle of an utterance of which fed cepstra were taken and o features
\* computed: those that do not need what comes.
InStep(live, o, fed) ==
  /\ o = Settled(fed)
  /\ live.bufpos = Around(live.curpos, fed - o)
  /\ Windowed(live.cepbuf, live.curpos, o, fed - o - 1, fed)

\* A buffer with q cepstra from the current one on, of which the last Win are held back: the
\* features before those are computed, and the buffer goes on with the others.
LEMMA BlockGoesOn ==
  ASSUME NEW buf \in [Slots -> Nat], NEW c \in Slots, NEW o \in Nat, NEW q \in Nat,
         NEW last \in Nat, o + q = last, Windowed(buf, c, o, q - 1, last),
         Win + q <= L, o = 0 \/ q >= Win,
         NEW r \in Nat, r = IF q > Win THEN q - Win ELSE 0
  PROVE  InStep([cepbuf |-> buf, bufpos |-> Around(c, q), curpos |-> Around(c, r)],
                o + r, last)
<1>1. Win \in Nat /\ L \in Nat \ {0} /\ r \in 0 .. L /\ r <= q /\ q <= L
  BY LiveAssumption
<1>3. o + r = Settled(last)
  BY <1>1 DEF Settled
<1>4. PICK m \in Nat : m = q - r
  BY <1>1
<1>5. last - (o + r) = m /\ q - 1 - r = m - 1 /\ m \in 0 .. L /\ r + m = q
  BY <1>1, <1>4
<1>6. Around(Around(c, r), m) = Around(c, q)
  <2>1. m \in -L .. L /\ r + m \in -L .. L
    BY <1>1, <1>5
  <2>2. Around(Around(c, r), m) = Around(c, r + m)
    BY <1>1, <2>1, AroundAround
  <2>3. QED
    BY <1>5, <2>2
<1>7. Windowed(buf, Around(c, r), o + r, m - 1, last)
  <2>1. q - 1 \in Int /\ q - 1 <= L - 1
    BY <1>1
  <2>2. Windowed(buf, Around(c, r), o + r, q - 1 - r, last)
    BY <1>1, <2>1, Moves
  <2>3. QED
    BY <1>5, <2>2
<1>8. QED
  BY <1>3, <1>5, <1>6, <1>7 DEF InStep

\* At the end of the utterance its last cepstrum is repeated behind it, and no feature is
\* held back.
LEMMA BlockEnds ==
  ASSUME NEW buf \in [Slots -> Nat], NEW c \in Slots, NEW o \in Nat, NEW q \in Nat,
         NEW last \in Nat \ {0}, o + q = last, Windowed(buf, c, o, q - 1, last),
         Win + q + Win <= L, NEW full,
         full = Copied(buf, Around(c, q), Repeated(buf[(Around(c, q) - 1) % L], Win))
  PROVE  full \in [Slots -> Nat] /\ Windowed(full, c, o, q + Win - 1, last)
<1>1. Win \in Nat /\ L \in Nat \ {0} /\ q \in 0 .. L /\ q \in -L .. L
  BY LiveAssumption
<1>2. Around(c, q) \in Slots
  BY <1>1, AroundIs
<1>3. Repeated(buf[(Around(c, q) - 1) % L], Win) = Repeated(last, Win)
  <2>1. CASE Win = 0
    BY <2>1 DEF Repeated
  <2>2. CASE Win # 0
    <3>1. q - 1 \in -Win .. q - 1 /\ -1 \in -L .. L /\ q + (-1) \in -L .. L
      BY <1>1, <2>2
    <3>2. Around(Around(c, q), -1) = Around(c, q + (-1))
      BY <1>1, <3>1, AroundAround
    <3>3. (Around(c, q) - 1) % L = Around(c, q - 1)
      <4>1. Around(c, q) \in Int
        BY <1>1, <1>2 DEF Slots
      <4>2. Around(c, q) + (-1) = Around(c, q) - 1 /\ q + (-1) = q - 1
        BY <4>1
      <4>3. Around(Around(c, q), -1) = (Around(c, q) + (-1)) % L
        BY DEF Around
      <4>4. QED
        BY <3>2, <4>2, <4>3
    <3>4. buf[Around(c, q - 1)] = Clamp(o + 1 + (q - 1), 1, last)
      BY <3>1 DEF Windowed
    <3>5. Clamp(o + 1 + (q - 1), 1, last) = last
      BY DEF Clamp
    <3>6. QED
      BY <3>3, <3>4, <3>5
  <2>3. QED
    BY <2>1, <2>2
<1>4. full = Copied(buf, Around(c, q), Repeated(last, Win))
  BY <1>3
<1>5. Windowed(full, c, o, q + Win - 1, last)
  BY <1>4, Pads
<1>6. full \in [Slots -> Nat]
  <2>1. Repeated(last, Win) \in Seq(Nat)
    BY <1>1 DEF Repeated
  <2>2. QED
    BY <1>2, <1>4, <2>1, CopiedType
<1>7. QED
  BY <1>5, <1>6

---------------------------------------------------------------------------

\* What is pending is what no feature was computed around.
LEMMA PendingIs ==
  ASSUME NEW live \in Buffers, NEW fed \in Nat, NEW o, InStep(live, o, fed)
  PROVE  Pending(live) = fed - o /\ o \in Nat /\ fed - o \in 0 .. Win
<1>1. Win \in Nat /\ L \in Nat \ {0} /\ Win <= L - 1
  BY LiveAssumption
<1>2. o \in Nat /\ fed - o \in 0 .. Win
  BY <1>1 DEF InStep, Settled
<1>3. PICK c, p : c = live.curpos /\ p = fed - o
  OBVIOUS
<1>4. c \in Slots /\ p \in 0 .. Win /\ c \in 0 .. L - 1
  BY <1>2, <1>3 DEF Buffers, Slots
<1>5. Around(c, 0) = c
  <2>1. 0 \in -L .. L
    BY <1>1
  <2>2. QED
    BY <1>1, <1>4, <2>1, AroundIs
<1>6. (Around(c, p) - Around(c, 0)) % L = IF p >= 0 THEN p - 0 ELSE p - 0 + L
  <2>1. 0 \in 0 .. L /\ p \in -L .. L /\ p - 0 \in -L .. L - 1
    BY <1>1, <1>4
  <2>2. QED
    BY <1>4, <2>1, Distance
<1>7. (Around(c, p) - c) % L = p
  BY <1>1, <1>4, <1>5, <1>6
<1>8. QED
  BY <1>2, <1>3, <1>7 DEF Pending, InStep

\* The features f, that come after o others, are those of an utterance of last cepstra.
Agree(f, o, last) == \A t \in 1 .. Len(f) : f[t] = Ideal(last)[o + t]

\* The next cepstra of an utterance of which fed were taken.
NextOf(s, fed) == \A i \in 1 .. Len(s) : s[i] = fed + i

\* A block of n behind p pending ones that fits leaves room for the window, or does not fit.
LetIn(p, n, end) ==
  LET tail == IF end THEN Win ELSE 0
  IN p + n + tail <= L => p + n + tail <= L - Win

\* An end of utterance is not put off.
EndsNow(live, n, end) == end => Ends(live, n, FALSE, end)

\* A block that is let in leaves room for the window, and takes what it can.
LEMMA ConsumedFits ==
  ASSUME NEW live \in Buffers, NEW p \in 0 .. Win, Pending(live) = p, NEW n \in Nat,
         NEW end \in BOOLEAN, NEW tail, tail = IF end THEN Win ELSE 0,
         LetIn(p, n, end)
  PROVE  /\ Consumed(live, n, FALSE, end) \in 0 .. n
         /\ n > 0 => Consumed(live, n, FALSE, end) > 0
         /\ p + Consumed(live, n, FALSE, end) + tail <= L - Win
<1>1. Win \in Nat /\ L \in Nat /\ L > 4 * Win /\ tail \in 0 .. Win
  BY LiveAssumption
<1>2. PICK k : k = Consumed(live, n, FALSE, end)
  OBVIOUS
<1>3. k = IF p + tail + n > L THEN L - (p + tail) - Win ELSE n
  BY <1>1, <1>2 DEF Consumed, Held
<1>4. k \in 0 .. n /\ (n > 0 => k > 0) /\ p + k + tail <= L - Win
  <2>1. CASE p + tail + n > L
    BY <1>1, <1>3, <2>1
  <2>2. CASE ~(p + tail + n > L)
    <3>1. k = n /\ p + n + tail <= L
      BY <1>1, <1>3, <2>2
    <3>2. QED
      BY <1>1, <3>1 DEF LetIn
  <2>3. QED
    BY <2>1, <2>2
<1>5. QED
  BY <1>2, <1>4

\* What a call gives that is offered n cepstra after o features of fed cepstra.
GoesOn(o, fed, n, end, r) ==
  /\ r.live \in Buffers /\ r.used \in 0 .. n /\ r.feats \in Seq(FeatureRows)
  /\ Agree(r.feats, o, fed + r.used)
  /\ end => r.used = n /\ o + Len(r.feats) = fed + r.used
  /\ ~end => InStep(r.live, o + Len(r.feats), fed + r.used)

\* A call in the middle of an utterance, that does not fill the buffer to its last window and
\* does not put off its end.
LEMMA LiveGoesOn ==
  ASSUME NEW live \in Buffers, NEW fed \in Nat \ {0}, NEW o, InStep(live, o, fed),
         NEW s \in Seq(Nat), NextOf(s, fed), NEW end \in BOOLEAN, LetIn(fed - o, Len(s), end),
         EndsNow(live, Len(s), end)
  PROVE  GoesOn(o, fed, Len(s), end, Live(live, s, FALSE, end))
<1> PICK tail : tail = IF end THEN Win ELSE 0
  OBVIOUS
<1>1. Win \in Nat /\ L \in Nat \ {0} /\ Win <= L - 1 /\ tail \in 0 .. Win /\ Len(s) \in Nat
  BY LiveAssumption
<1>2. PICK p : p = fed - o
  OBVIOUS
<1>3. Pending(live) = p /\ o \in Nat /\ p \in 0 .. Win /\ p \in Nat /\ o + p = fed
  BY <1>1, <1>2, PendingIs
<1>4. PICK c, buf : c = live.curpos /\ buf = live.cepbuf
  OBVIOUS
<1>5. /\ c \in Slots /\ buf \in [Slots -> Nat] /\ live.bufpos = Around(c, p)
      /\ Windowed(buf, c, o, p - 1, fed) /\ live.bufpos \in Slots
  BY <1>2, <1>4 DEF Buffers, InStep
<1>6. PICK k : k = Consumed(live, Len(s), FALSE, end)
  OBVIOUS
<1>7. k \in 0 .. Len(s) /\ p + k + tail <= L - Win
  BY <1>1, <1>2, <1>3, <1>6, ConsumedFits
<1>8. end => k = Len(s)
  BY <1>6 DEF EndsNow, Ends
<1>9. Ends(live, Len(s), FALSE, end) <=> end
  BY DEF EndsNow, Ends
<1>10. PICK q \in Nat, last \in Nat \ {0} : q = p + k /\ last = fed + k
  BY <1>3, <1>7
<1>11. q \in 0 .. L /\ o + q = last /\ Win + q + tail <= L
  BY <1>1, <1>3, <1>7, <1>10
<1>12. PICK out : out = Ready(live, k, FALSE, end)
  OBVIOUS
<1>13. out = IF end THEN q ELSE IF q > Win THEN q - Win ELSE 0
  <2>1. out = IF p + k + tail - Win > 0 THEN p + k + tail - Win ELSE 0
    BY <1>3, <1>12 DEF Ready, Held
  <2>2. QED
    BY <1>1, <1>10, <2>1
<1>14. out \in Nat /\ out \in 0 .. L
  BY <1>1, <1>11, <1>13
<1>15. PICK body : body = Copied(buf, live.bufpos, SubSeq(s, 1, k))
  OBVIOUS
<1>16. body \in [Slots -> Nat] /\ Windowed(body, c, o, q - 1, last)
  <2>1. PICK u : u = SubSeq(s, 1, k)
    OBVIOUS
  <2>2. u \in Seq(Nat) /\ Len(u) = k
    BY <1>7, <2>1
  <2>3. \A i \in 1 .. Len(u) : u[i] = fed + i
    BY <1>7, <2>1, <2>2 DEF NextOf
  <2>4. Win + p + Len(u) <= L
    BY <1>1, <1>3, <1>7, <2>2
  <2>5. Windowed(Copied(buf, Around(c, p), u), c, o, p + Len(u) - 1, fed + Len(u))
    BY <1>3, <1>5, <2>2, <2>3, <2>4, Appends
  <2>6. Windowed(body, c, o, q - 1, last)
    <3>1. body = Copied(buf, Around(c, p), u)
      BY <1>5, <1>15, <2>1
    <3>2. p + Len(u) - 1 = q - 1 /\ fed + Len(u) = last
      BY <1>3, <1>7, <1>10, <2>2
    <3>3. QED
      BY <2>5, <3>1, <3>2, Zenon
  <2>7. QED
    BY <1>5, <1>15, <2>1, <2>2, <2>6, CopiedType
<1>17. PICK stop : stop = Around(c, q)
  OBVIOUS
<1>18. stop \in Slots /\ (live.bufpos + 0 + k) % L = stop /\ (live.bufpos + 0) % L = live.bufpos
       /\ (c + 0) % L = c
  <2>1. p \in 0 .. L /\ k \in -L .. L /\ p + k \in -L .. L /\ q \in -L .. L
    BY <1>1, <1>3, <1>7, <1>10, <1>11
  <2>2. Around(Around(c, p), k) = Around(c, p + k)
    BY <1>5, <2>1, AroundAround
  <2>3. live.bufpos \in 0 .. L - 1 /\ c \in 0 .. L - 1
    BY <1>5 DEF Slots
  <2>4. live.bufpos + 0 = live.bufpos /\ c + 0 = c
    BY <2>3
  <2>5. live.bufpos % L = live.bufpos /\ c % L = c
    BY <2>3, Modulo
  <2>6. QED
    BY <1>5, <1>10, <1>17, <2>1, <2>2, <2>4, <2>5, AroundIs DEF Around
<1>19. PICK full : full = IF end THEN Copied(body, stop, Repeated(body[(stop - 1) % L], Win))
                          ELSE body
  OBVIOUS
<1>20. PICK r : r = Live(live, s, FALSE, end)
  OBVIOUS
<1>21. r = LiveBlock(live, s, k, out, FALSE, end)
  <2>1. r = LiveBlock(live, s, Consumed(live, Len(s), FALSE, end),
                      Ready(live, Consumed(live, Len(s), FALSE, end), FALSE, end),
                      FALSE, Ends(live, Len(s), FALSE, end))
    BY <1>20 DEF Live
  <2>2. Ends(live, Len(s), FALSE, end) = end
    BY <1>9 DEF Ends
  <2>3. QED
    BY <1>6, <1>12, <2>1, <2>2
<1>22. Copied(buf, live.bufpos, <<>>) = buf
  <2>1. ASSUME NEW i \in Slots PROVE ~((i - live.bufpos) % L < Len(<<>>))
    <3>1. (i - live.bufpos) % L \in 0 .. L - 1
      BY <1>1, <1>5 DEF Slots
    <3>2. QED
      BY <1>1, <3>1
  <2>2. Copied(buf, live.bufpos, <<>>) = [i \in Slots |-> buf[i]]
    BY <2>1 DEF Copied
  <2>3. QED
    BY <1>5, <2>2
<1>23. /\ r.used = k /\ r.feats = Windows(full, c, out)
       /\ r.live = [cepbuf |-> full, bufpos |-> IF end THEN (stop + Win) % L ELSE stop,
                    curpos |-> Around(c, out)]
  BY <1>4, <1>15, <1>18, <1>19, <1>21, <1>22 DEF LiveBlock, Around
<1>24. CASE end
  <2>8. full \in [Slots -> Nat] /\ Windowed(full, c, o, q + Win - 1, last)
    <3>1. Win + q + Win <= L
      BY <1>11, <1>24
    <3>2. full = Copied(body, Around(c, q), Repeated(body[(Around(c, q) - 1) % L], Win))
      BY <1>17, <1>19, <1>24
    <3>3. QED
      <4>1. o \in Nat /\ c \in Slots /\ body \in [Slots -> Nat] /\ o + q = last
        BY <1>3, <1>5, <1>11, <1>16
      <4>2. Windowed(body, c, o, q - 1, last)
        BY <1>16
      <4>3. QED
        BY <3>1, <3>2, <4>1, <4>2, BlockEnds
  <2>1. ASSUME NEW t \in 1 .. q PROVE Windows(full, c, q)[t] = Ideal(last)[o + t]
    <3>1. PICK hi : hi = q + Win - 1
      OBVIOUS
    <3>2. /\ hi \in Int /\ hi <= L - 1 /\ q + Win - 1 <= hi
          /\ o + q <= last /\ o \in Nat /\ c \in Slots /\ last \in Nat
      BY <1>1, <1>3, <1>5, <1>11, <1>24, <3>1
    <3>3. Windowed(full, c, o, hi, last) /\ full \in [Slots -> Nat]
      BY <2>8, <3>1
    <3>4. QED
      BY <3>2, <3>3, Gives
  <2>2. Windows(full, c, q) \in Seq(FeatureRows) /\ Len(Windows(full, c, q)) = q
    BY <1>5, <2>8, WindowsType
  <2>3. (stop + Win) % L \in Slots /\ Around(c, out) \in Slots
    <3>1. Win \in -L .. L /\ out \in -L .. L
      BY <1>1, <1>14
    <3>2. QED
      BY <1>5, <1>18, <3>1, AroundIs DEF Around
  <2>4. r.live \in Buffers
    BY <1>23, <1>24, <2>8, <2>3 DEF Buffers
  <2>5. out = q /\ k = Len(s)
    BY <1>8, <1>13, <1>24
  <2>6. r.feats = Windows(full, c, q) /\ r.used = k
    BY <1>23, <2>5
  <2>7. Agree(r.feats, o, fed + r.used)
    BY <1>10, <2>1, <2>2, <2>6 DEF Agree
  <2>9. QED
    BY <1>7, <1>10, <1>11, <1>20, <1>24, <2>2, <2>4, <2>5, <2>6, <2>7 DEF GoesOn
<1>25. CASE ~end
  <2>1. out = IF q > Win THEN q - Win ELSE 0
    BY <1>13, <1>25
  <2>2. o = 0 \/ q >= Win
    BY <1>1, <1>2, <1>3, <1>7, <1>10 DEF InStep, Settled
  <2>3. full = body /\ Win + q <= L
    BY <1>1, <1>11, <1>19, <1>25
  <2>4. InStep([cepbuf |-> body, bufpos |-> Around(c, q), curpos |-> Around(c, out)],
               o + out, last)
    <3>1. /\ o \in Nat /\ c \in Slots /\ body \in [Slots -> Nat] /\ o + q = last
          /\ out \in Nat /\ Win + q <= L /\ last \in Nat
      BY <1>3, <1>5, <1>11, <1>14, <1>16, <2>3
    <3>2. Windowed(body, c, o, q - 1, last)
      BY <1>16
    <3>3. QED
      BY <2>1, <2>2, <3>1, <3>2, BlockGoesOn
  <2>10. ASSUME NEW t \in 1 .. out PROVE Windows(body, c, out)[t] = Ideal(last)[o + t]
    <3>1. /\ q - 1 \in Int /\ q - 1 <= L - 1 /\ out + Win - 1 <= q - 1
          /\ o + out <= last /\ o \in Nat /\ c \in Slots /\ last \in Nat
      <4>1. q > Win
        BY <1>1, <1>14, <2>1
      <4>2. QED
        BY <1>1, <1>3, <1>5, <1>11, <2>1, <4>1
    <3>2. QED
      BY <1>14, <1>16, <3>1, Gives
  <2>5. Windows(body, c, out) \in Seq(FeatureRows) /\ Len(Windows(body, c, out)) = out
    BY <1>5, <1>14, <1>16, WindowsType
  <2>6. /\ r.live = [cepbuf |-> body, bufpos |-> stop, curpos |-> Around(c, out)]
        /\ r.feats = Windows(body, c, out) /\ r.used = k
    BY <1>23, <1>25, <2>3
  <2>7. r.live \in Buffers
    <3>1. out \in -L .. L
      BY <1>1, <1>14
    <3>2. Around(c, out) \in Slots
      BY <1>5, <3>1, AroundIs
    <3>3. QED
      BY <1>16, <1>18, <2>6, <3>2 DEF Buffers
  <2>8. InStep(r.live, o + out, last)
    BY <1>17, <2>4, <2>6
  <2>9. Agree(r.feats, o, fed + r.used)
    BY <1>10, <2>5, <2>6, <2>10 DEF Agree
  <2>11. QED
    BY <1>7, <1>10, <1>20, <1>25, <2>5, <2>6, <2>7, <2>8, <2>9 DEF GoesOn
<1>26. QED
  BY <1>24, <1>25

\* A whole utterance in one call is what batch processing takes it for.
LEMMA LiveWhole ==
  ASSUME NEW live \in Buffers, NEW s \in Seq(Nat), NextOf(s, 0), Len(s) > 0
  PROVE  LET r == Live(live, s, TRUE, TRUE)
         IN /\ r.live \in Buffers /\ r.used = Len(s) /\ r.feats \in Seq(FeatureRows)
            /\ Len(r.feats) = Len(s) /\ r.feats = Ideal(Len(s))
<1>1. Win \in Nat /\ L \in Nat \ {0} /\ Win <= L - 1 /\ Len(s) \in Nat
  BY LiveAssumption
<1>2. PICK r : r = Live(live, s, TRUE, TRUE)
  OBVIOUS
<1>3. r = [live |-> BlockPadded(live, s), used |-> Len(s), feats |-> BlockUtt(s)]
  BY <1>2 DEF Live
<1>4. s = [i \in 1 .. Len(s) |-> i]
  BY DEF NextOf
<1>5. r.feats = Ideal(Len(s))
  BY <1>3, <1>4 DEF Ideal
<1>6. r.feats \in Seq(FeatureRows) /\ Len(r.feats) = Len(s)
  <2> DEFINE row(t) == [j \in 1 .. 2 * Win + 1 |-> s[Clamp(t + j - Win - 1, 1, Len(s))]]
  <2>1. r.feats = [t \in 1 .. Len(s) |-> row(t)]
    BY <1>3 DEF BlockUtt
  <2>2. ASSUME NEW t \in 1 .. Len(s), NEW j \in 1 .. 2 * Win + 1
        PROVE  s[Clamp(t + j - Win - 1, 1, Len(s))] \in Nat
    <3>1. Clamp(t + j - Win - 1, 1, Len(s)) \in 1 .. Len(s)
      BY <1>1 DEF Clamp
    <3>2. QED
      BY <3>1
  <2>3. \A t \in 1 .. Len(s) : row(t) \in FeatureRows
    BY <2>2 DEF FeatureRows
  <2> HIDE DEF row
  <2>4. QED
    BY <1>1, <2>1, <2>3
<1>7. r.live \in Buffers
  <2>1. s[1] \in Nat /\ s[Len(s)] \in Nat
    BY <1>1
  <2>2. /\ Repeated(s[1], Win) \in Seq(Nat) /\ Repeated(s[Len(s)], Win) \in Seq(Nat)
        /\ 0 \in Slots /\ Win \in Slots
    BY <1>1, <2>1 DEF Repeated, Slots
  <2>3. live.cepbuf \in [Slots -> Nat]
    BY DEF Buffers
  <2>4. Copied(live.cepbuf, 0, Repeated(s[1], Win)) \in [Slots -> Nat]
    BY <2>2, <2>3, CopiedType
  <2>5. Copied(Copied(live.cepbuf, 0, Repeated(s[1], Win)), Win, Repeated(s[Len(s)], Win))
          \in [Slots -> Nat]
    BY <2>2, <2>4, CopiedType
  <2>6. QED
    BY <1>3, <2>5 DEF BlockPadded, Buffers
<1>8. r.used = Len(s)
  BY <1>3
<1>9. QED
  BY <1>2, <1>5, <1>6, <1>7, <1>8

\* A call with no cepstrum yet computes nothing.
LEMMA LiveNothing ==
  ASSUME NEW live \in Buffers, NEW s \in Seq(Nat), Len(s) = 0, NEW end \in BOOLEAN
  PROVE  LET r == Live(live, s, TRUE, end)
         IN r.live \in Buffers /\ r.used = 0 /\ r.feats = <<>>
<1>1. Win \in Nat /\ L \in Nat \ {0} /\ Win <= L - 1 /\ s = <<>>
  BY LiveAssumption
<1>2. PICK r : r = Live(live, s, TRUE, end)
  OBVIOUS
<1>3. Consumed(live, 0, TRUE, end) = 0
  BY <1>1 DEF Consumed, Held
<1>4. Ready(live, 0, TRUE, end) = 0
  BY <1>1 DEF Ready, Held
<1>5. PICK done : done = Ends(live, 0, TRUE, end)
  OBVIOUS
<1>6. r = LiveBlock(live, s, 0, 0, TRUE, done)
  <2>1. Len(s) = 0 /\ ~(Len(s) > 0)
    BY <1>1
  <2>2. r = LiveBlock(live, s, Consumed(live, Len(s), TRUE, end),
                      Ready(live, Consumed(live, Len(s), TRUE, end), TRUE, end),
                      TRUE, Ends(live, Len(s), TRUE, end))
    BY <1>2, <2>1 DEF Live
  <2>3. QED
    BY <1>3, <1>4, <1>5, <2>1, <2>2
<1>7. PICK c, buf : c = live.curpos /\ buf = live.cepbuf
  OBVIOUS
<1>8. c \in Slots /\ c \in 0 .. L - 1 /\ buf \in [Slots -> Nat] /\ c + 0 = c /\ c % L = c
  BY <1>7, Modulo DEF Buffers, Slots
<1>9. PICK body : body = Copied(Copied(buf, c, <<>>), c, SubSeq(s, 1, 0))
  OBVIOUS
<1>10. body \in [Slots -> Nat]
  <2>1. <<>> \in Seq(Nat) /\ SubSeq(s, 1, 0) \in Seq(Nat)
    OBVIOUS
  <2>2. Copied(buf, c, <<>>) \in [Slots -> Nat]
    BY <1>8, <2>1, CopiedType
  <2>3. QED
    BY <1>8, <1>9, <2>1, <2>2, CopiedType
<1>11. PICK full : full = IF done THEN Copied(body, c, Repeated(body[(c - 1) % L], Win)) ELSE body
  OBVIOUS
<1>12. full \in [Slots -> Nat]
  <2>1. (c - 1) % L \in Slots
    BY <1>1, <1>8 DEF Slots
  <2>2. body[(c - 1) % L] \in Nat
    BY <1>10, <2>1
  <2>3. Repeated(body[(c - 1) % L], Win) \in Seq(Nat)
    BY <1>1, <2>2 DEF Repeated
  <2>4. Copied(body, c, Repeated(body[(c - 1) % L], Win)) \in [Slots -> Nat]
    BY <1>8, <1>10, <2>3, CopiedType
  <2>5. QED
    BY <1>10, <1>11, <2>4
<1>13. /\ r.used = 0 /\ r.feats = Windows(full, c, 0)
       /\ r.live = [cepbuf |-> full, bufpos |-> IF done THEN (c + Win) % L ELSE c, curpos |-> c]
  <2>1. ~(0 > 0) /\ c + 0 + 0 = c
    BY <1>8
  <2>2. QED
    BY <1>6, <1>7, <1>8, <1>9, <1>11, <2>1 DEF LiveBlock
<1>14. (c + Win) % L \in Slots
  BY <1>1, <1>8 DEF Slots
<1>15. r.feats = <<>>
  <2>1. Windows(full, c, 0) \in Seq(FeatureRows) /\ Len(Windows(full, c, 0)) = 0
    BY <1>8, <1>12, WindowsType, SMTT(30)
  <2>2. QED
    BY <1>13, <2>1
<1>16. r.live \in Buffers
  BY <1>8, <1>12, <1>13, <1>14 DEF Buffers
<1>17. QED
  BY <1>2, <1>13, <1>15, <1>16

\* The first cepstra of an utterance; the buffer starts where it was left.
LEMMA LiveBegins ==
  ASSUME NEW live \in Buffers, NEW s \in Seq(Nat), NextOf(s, 0), Len(s) > 0
  PROVE  LET r == Live(live, s, TRUE, FALSE)
         IN /\ r.live \in Buffers /\ r.used \in 1 .. Len(s) /\ r.feats \in Seq(FeatureRows)
            /\ Agree(r.feats, 0, r.used)
            /\ InStep(r.live, Len(r.feats), r.used)
<1>1. Win \in Nat /\ L \in Nat \ {0} /\ L > 4 * Win /\ Len(s) \in Nat \ {0} /\ Win <= L - 1
  BY LiveAssumption
<1>2. PICK k : k = Consumed(live, Len(s), TRUE, FALSE)
  OBVIOUS
<1>3. k \in 1 .. Len(s) /\ Win + k <= L /\ k \in Nat
  <2>1. k = IF Win + Len(s) > L THEN L - Win - Win ELSE Len(s)
    BY <1>1, <1>2 DEF Consumed, Held
  <2>2. QED
    BY <1>1, <2>1
<1>4. PICK out : out = IF k > Win THEN k - Win ELSE 0
  OBVIOUS
<1>5. out \in Nat /\ out \in 0 .. L /\ Ready(live, k, TRUE, FALSE) = out
  BY <1>1, <1>3, <1>4 DEF Ready, Held
<1>6. PICK pos, buf, c : pos = live.curpos /\ buf = live.cepbuf /\ c = Around(pos, Win)
  OBVIOUS
<1>7. pos \in Slots /\ buf \in [Slots -> Nat] /\ c \in Slots
  <2>1. Win \in -L .. L
    BY <1>1
  <2>2. QED
    BY <1>6, <2>1, AroundIs DEF Buffers
<1>8. s[1] = 1
  BY <1>1 DEF NextOf
<1>9. PICK lead : lead = Copied(buf, pos, Repeated(1, Win))
  OBVIOUS
<1>10. lead \in [Slots -> Nat] /\ Windowed(lead, c, 0, -1, 0)
  <2>1. Repeated(1, Win) \in Seq(Nat)
    BY <1>1 DEF Repeated
  <2>2. QED
    BY <1>6, <1>7, <1>9, <2>1, CopiedType, Leads
<1>11. PICK u : u = SubSeq(s, 1, k)
  OBVIOUS
<1>12. u \in Seq(Nat) /\ Len(u) = k /\ \A i \in 1 .. Len(u) : u[i] = 0 + i
  BY <1>3, <1>11 DEF NextOf
<1>13. Around(c, 0) = c
  <2>1. 0 \in -L .. L /\ c \in 0 .. L - 1
    BY <1>1, <1>7 DEF Slots
  <2>2. QED
    BY <1>1, <1>7, <2>1, AroundIs
<1>14. PICK body : body = Copied(lead, c, u)
  OBVIOUS
<1>15. body \in [Slots -> Nat] /\ Windowed(body, c, 0, k - 1, k)
  <2>1. u \in Seq(Nat) /\ Win + 0 + Len(u) <= L
    BY <1>1, <1>3, <1>12
  <2>2. Windowed(lead, c, 0, 0 - 1, 0) /\ 0 + 0 = 0
    BY <1>10
  <2>3. Windowed(Copied(lead, Around(c, 0), u), c, 0, 0 + Len(u) - 1, 0 + Len(u))
    BY <1>7, <1>10, <1>12, <2>1, <2>2, Appends
  <2>4. 0 + Len(u) - 1 = k - 1 /\ 0 + Len(u) = k
    BY <1>3, <1>12
  <2>5. Windowed(body, c, 0, k - 1, k)
    BY <1>13, <1>14, <2>3, <2>4, Zenon
  <2>6. QED
    BY <1>7, <1>10, <1>14, <2>1, <2>5, CopiedType
<1>16. PICK r : r = Live(live, s, TRUE, FALSE)
  OBVIOUS
<1>17. r = LiveBlock(live, s, k, out, TRUE, FALSE)
  <2>1. Ends(live, Len(s), TRUE, FALSE) = FALSE
    BY DEF Ends
  <2>2. QED
    BY <1>2, <1>5, <1>16, <2>1 DEF Live
<1>18. (pos + Win + k) % L = Around(c, k)
  <2>1. Win \in 0 .. L /\ k \in -L .. L /\ Win + k \in -L .. L
    BY <1>1, <1>3
  <2>2. Around(Around(pos, Win), k) = Around(pos, Win + k)
    BY <1>7, <2>1, AroundAround
  <2>3. pos + (Win + k) = pos + Win + k
    BY <1>1, <1>3, <1>7 DEF Slots
  <2>4. QED
    BY <1>6, <2>2, <2>3 DEF Around
<1>19. /\ r.used = k /\ r.feats = Windows(body, c, out)
       /\ r.live = [cepbuf |-> body, bufpos |-> Around(c, k), curpos |-> Around(c, out)]
  <2>1. k > 0 /\ (pos + Win) % L = c /\ (c + out) % L = Around(c, out)
    BY <1>3, <1>6 DEF Around
  <2>2. (IF Win > 0 THEN Repeated(1, Win) ELSE <<>>) = Repeated(1, Win)
    <3>1. CASE Win = 0
      <4>1. Repeated(1, 0) = <<>>
        BY DEF Repeated
      <4>2. QED
        BY <3>1, <4>1
    <3>2. CASE Win > 0
      BY <3>2
    <3>3. QED
      BY <1>1, <3>1, <3>2
  <2>3. LiveBlock(live, s, k, out, TRUE, FALSE)
          = [live |-> [cepbuf |-> body, bufpos |-> Around(c, k), curpos |-> Around(c, out)],
             used |-> k, feats |-> Windows(body, c, out)]
    BY <1>6, <1>8, <1>9, <1>11, <1>14, <1>18, <2>1, <2>2 DEF LiveBlock
  <2>4. r = [live |-> [cepbuf |-> body, bufpos |-> Around(c, k), curpos |-> Around(c, out)],
             used |-> k, feats |-> Windows(body, c, out)]
    BY <1>17, <2>3, Zenon
  <2>5. QED
    BY <2>4
<1>20. r.feats \in Seq(FeatureRows) /\ Len(r.feats) = out
  <2>1. Windows(body, c, out) \in Seq(FeatureRows) /\ Len(Windows(body, c, out)) = out
    BY <1>5, <1>7, <1>15, WindowsType
  <2>2. QED
    BY <1>19, <2>1
<1>21. r.live \in Buffers
  <2>1. k \in -L .. L /\ out \in -L .. L
    BY <1>1, <1>3, <1>5
  <2>2. Around(c, k) \in Slots /\ Around(c, out) \in Slots
    BY <1>7, <2>1, AroundIs
  <2>3. QED
    BY <1>15, <1>19, <2>2 DEF Buffers
<1>22. InStep(r.live, out, k)
  <2>1. 0 + k = k /\ 0 + out = out /\ Win + k <= L
    BY <1>1, <1>3, <1>5
  <2>2. InStep([cepbuf |-> body, bufpos |-> Around(c, k), curpos |-> Around(c, out)], 0 + out, k)
    BY <1>3, <1>4, <1>5, <1>7, <1>15, <2>1, BlockGoesOn
  <2>3. QED
    BY <1>19, <2>1, <2>2
<1>23. Agree(r.feats, 0, k)
  <2>1. PICK o, hi : o = 0 /\ hi = k - 1
    OBVIOUS
  <2>2. /\ o \in Nat /\ hi \in Int /\ hi <= L - 1 /\ o + out <= k
        /\ out > 0 => out + Win - 1 <= hi
    BY <1>1, <1>3, <1>4, <2>1
  <2>3. Windowed(body, c, o, hi, k) /\ body \in [Slots -> Nat]
    BY <1>15, <2>1
  <2>4. ASSUME NEW t \in 1 .. out PROVE Windows(body, c, out)[t] = Ideal(k)[o + t]
    <3>1. out + Win - 1 <= hi
      BY <1>5, <2>2
    <3>2. /\ o \in Nat /\ hi \in Int /\ hi <= L - 1 /\ o + out <= k /\ out \in Nat
          /\ k \in Nat /\ c \in Slots
      BY <1>3, <1>5, <1>7, <2>2
    <3>3. QED
      BY <2>3, <3>1, <3>2, Gives, SMTT(30)
  <2>5. Agree(r.feats, o, k)
    BY <1>19, <1>20, <2>4 DEF Agree
  <2>6. QED
    BY <2>1, <2>5
<1>24. QED
  BY <1>3, <1>16, <1>19, <1>20, <1>21, <1>22, <1>23

\* What a call gives that is offered n cepstra after o features of done cepstra: the buffer
\* it leaves, the u cepstra it takes and the features f.
CallGives(o, done, n, end, buf, u, f) ==
  /\ buf \in Buffers
  /\ u \in 0 .. n
  /\ f \in Seq(FeatureRows)
  /\ Agree(f, o, done + u)
  /\ done + u = 0 => f = <<>>
  /\ end => u = n /\ o + Len(f) = done + u
  /\ ~end /\ done + u > 0 => InStep(buf, o + Len(f), done + u)

\* The cepstra offered next.
LEMMA OfferIs ==
  ASSUME NEW done \in Nat, NEW n \in Nat, NEW s, s = [i \in 1 .. n |-> done + i]
  PROVE  s \in Seq(Nat) /\ Len(s) = n /\ NextOf(s, done)
<1>1. \A i \in 1 .. n : done + i \in Nat
  OBVIOUS
<1>2. s \in Seq(Nat) /\ Len(s) = n
  BY <1>1
<1>3. QED
  BY <1>2 DEF NextOf

\* A feature that was not held back does not depend on what comes.
LEMMA StaysIdeal ==
  ASSUME NEW done \in Nat, NEW k \in Nat, NEW t \in 1 .. Settled(done)
  PROVE  Ideal(done)[t] = Ideal(done + k)[t]
<1>1. Win \in Nat
  BY LiveAssumption
<1>2. t \in Nat /\ t >= 1 /\ t + Win <= done /\ t \in 1 .. done /\ t \in 1 .. done + k
  BY <1>1 DEF Settled
<1>3. PICK last \in Nat : last = done + k
  OBVIOUS
<1>4. /\ Ideal(done)[t] = [j \in 1 .. 2 * Win + 1 |-> Clamp(t + j - Win - 1, 1, done)]
      /\ Ideal(last)[t] = [j \in 1 .. 2 * Win + 1 |-> Clamp(t + j - Win - 1, 1, last)]
  BY <1>2, <1>3, IdealIs
<1>5. ASSUME NEW j \in 1 .. 2 * Win + 1
      PROVE  Clamp(t + j - Win - 1, 1, done) = Clamp(t + j - Win - 1, 1, last)
  BY <1>1, <1>2, <1>3 DEF Clamp
<1>6. QED
  BY <1>3, <1>4, <1>5

---------------------------------------------------------------------------

\* The first call of an utterance that has something to take, or nothing.
LEMMA FirstCall ==
  ASSUME NEW buf \in Buffers, NEW n \in Nat, NEW end \in BOOLEAN,
         NEW s, s = [i \in 1 .. n |-> 0 + i], NEW r, r = Live(buf, s, TRUE, end)
  PROVE  CallGives(0, 0, n, end, r.live, r.used, r.feats)
<1>1. s \in Seq(Nat) /\ Len(s) = n /\ NextOf(s, 0)
  BY OfferIs
<1>2. PICK b, u, f : b = r.live /\ u = r.used /\ f = r.feats
  OBVIOUS
<1>3. CASE n = 0
  <2>1. b \in Buffers /\ u = 0 /\ f = <<>>
    BY <1>1, <1>2, <1>3, LiveNothing
  <2>2. f \in Seq(FeatureRows) /\ Len(f) = 0 /\ u \in 0 .. n /\ 0 + u = 0
    BY <1>3, <2>1
  <2>3. CallGives(0, 0, n, end, b, u, f)
    BY <1>3, <2>1, <2>2 DEF CallGives, Agree
  <2>4. QED
    BY <1>2, <2>3
<1>4. CASE n > 0 /\ end
  <2>1. r = Live(buf, s, TRUE, TRUE)
    BY <1>4
  <2>2. b \in Buffers /\ u = n /\ f \in Seq(FeatureRows) /\ Len(f) = n /\ f = Ideal(n)
    BY <1>1, <1>2, <1>4, <2>1, LiveWhole
  <2>3. 0 + u = n /\ u \in 0 .. n /\ ~(n = 0)
    BY <1>4, <2>2
  <2>4. ASSUME NEW t \in 1 .. Len(f) PROVE f[t] = Ideal(0 + u)[0 + t]
    <3>1. 0 + t = t
      OBVIOUS
    <3>2. QED
      BY <2>2, <2>3, <3>1
  <2>5. CallGives(0, 0, n, end, b, u, f)
    BY <1>4, <2>2, <2>3, <2>4 DEF CallGives, Agree
  <2>6. QED
    BY <1>2, <2>5
<1>5. CASE n > 0 /\ ~end
  <2>1. r = Live(buf, s, TRUE, FALSE)
    BY <1>5
  <2>2. /\ b \in Buffers /\ u \in 1 .. n /\ f \in Seq(FeatureRows)
        /\ Agree(f, 0, u) /\ InStep(b, Len(f), u)
    BY <1>1, <1>2, <1>5, <2>1, LiveBegins
  <2>3. 0 + u = u /\ 0 + Len(f) = Len(f) /\ u \in 0 .. n /\ ~(u = 0)
    BY <2>2
  <2>5. CallGives(0, 0, n, end, b, u, f)
    BY <1>5, <2>2, <2>3 DEF CallGives
  <2>6. QED
    BY <1>2, <2>5
<1>6. QED
  <2>1. n = 0 \/ n > 0
    OBVIOUS
  <2>2. QED
    BY <1>3, <1>4, <1>5, <2>1

\* A later call, away from the two seams.
LEMMA LaterCall ==
  ASSUME NEW buf \in Buffers, NEW done \in Nat \ {0}, NEW o, InStep(buf, o, done),
         NEW n \in Nat, NEW end \in BOOLEAN, NEW s, s = [i \in 1 .. n |-> done + i],
         LetIn(done - o, n, end), EndsNow(buf, n, end),
         NEW r, r = Live(buf, s, FALSE, end)
  PROVE  CallGives(o, done, n, end, r.live, r.used, r.feats)
<1>1. s \in Seq(Nat) /\ Len(s) = n /\ NextOf(s, done)
  BY OfferIs
<1>2. PICK b, u, f : b = r.live /\ u = r.used /\ f = r.feats
  OBVIOUS
<1>3. LetIn(done - o, Len(s), end) /\ EndsNow(buf, Len(s), end)
  BY <1>1
<1>4. GoesOn(o, done, n, end, r)
  BY <1>1, <1>3, LiveGoesOn
<1>5. ~(done + u = 0)
  <2>1. u \in Nat
    <3>1. u \in 0 .. n
      BY <1>2, <1>4 DEF GoesOn
    <3>2. QED
      BY <3>1
  <2>2. QED
    BY <2>1
<1>6. CallGives(o, done, n, end, b, u, f)
  BY <1>2, <1>4, <1>5 DEF CallGives, GoesOn
<1>7. QED
  BY <1>2, <1>6
=============================================================================
