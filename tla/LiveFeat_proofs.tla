---------------------------- MODULE LiveFeat_proofs ----------------------------
(***************************************************************************)
(* The live computation of features agrees with batch processing, for      *)
(* every size of the buffer, of the window, of the blocks and of the       *)
(* utterance, as long as the caller avoids the two seams at the capacity   *)
(* of the buffer (Tolerated = {}).  FeatInv adds to the property what the  *)
(* live buffer holds between two calls: InStep of FrameRing_proofs.         *)
(***************************************************************************)
EXTENDS LiveFeat, FrameRing_proofs

\* The features computed are those of the utterance as far as it is known.
FeatsIdeal == \A t \in 1 .. Len(feats) : feats[t] = Ideal(fed)[t]

\* What holds between two calls: nothing before the first cepstrum, everything after the end,
\* and in the middle a buffer that holds what the next feature needs.
FeatInv ==
  /\ TypeOK
  /\ fed = 0 => feats = <<>>
  /\ ended => Len(feats) = fed
  /\ ~ended /\ fed > 0 => InStep(live, Len(feats), fed)
  /\ FeatsIdeal

---------------------------------------------------------------------------

LEMMA TypesAre ==
  /\ TypeOK => /\ live \in Buffers /\ fed \in Nat /\ ended \in BOOLEAN
               /\ feats \in Seq(FeatureRows)
  /\ live \in Buffers /\ fed \in Nat /\ ended \in BOOLEAN /\ feats \in Seq(FeatureRows) => TypeOK
BY DEF TypeOK, Buffers, FeatureRows, Features, Cepstra

---------------------------------------------------------------------------

\* The caller that lets neither seam happen gives the call what it needs.
LEMMA AnyCall ==
  ASSUME FeatInv, ~ended, NEW n \in Nat, NEW end \in BOOLEAN,
         ~Overwrites(n, end), ~PutsOff(n, end),
         NEW s, s = [i \in 1 .. n |-> fed + i], NEW r, r = Live(live, s, fed = 0, end)
  PROVE  CallGives(Len(feats), fed, n, end, r.live, r.used, r.feats)
<1>1. live \in Buffers /\ fed \in Nat /\ Len(feats) \in Nat
  BY TypesAre DEF FeatInv
<1>2. CASE fed = 0
  <2>1. Len(feats) = 0
    BY <1>2 DEF FeatInv
  <2>2. s = [i \in 1 .. n |-> 0 + i] /\ r = Live(live, s, TRUE, end)
    BY <1>2
  <2>3. CallGives(0, 0, n, end, r.live, r.used, r.feats)
    BY <1>1, <2>2, FirstCall
  <2>4. QED
    BY <1>2, <2>1, <2>3
<1>3. CASE fed # 0
  <2>1. InStep(live, Len(feats), fed)
    BY <1>1, <1>3 DEF FeatInv
  <2>2. r = Live(live, s, FALSE, end)
    BY <1>3
  <2>3. Pending(live) = fed - Len(feats) /\ fed - Len(feats) \in 0 .. Win
    BY <1>1, <2>1, PendingIs
  <2>4. LetIn(fed - Len(feats), n, end)
    <3>1. PICK p \in 0 .. Win : p = fed - Len(feats)
      BY <2>3
    <3>2. PICK tail : tail = IF end THEN Win ELSE 0
      OBVIOUS
    <3>3. tail \in Nat /\ Win \in Nat /\ L \in Nat
      BY <3>2, LiveAssumption
    <3>4. ~(p + n + tail <= L /\ p + n + tail > L - Win)
      BY <1>1, <1>3, <2>3, <3>1, <3>2 DEF Overwrites
    <3>5. p + n + tail <= L => p + n + tail <= L - Win
      BY <3>1, <3>3, <3>4
    <3>6. QED
      BY <3>1, <3>2, <3>5 DEF LetIn
  <2>5. EndsNow(live, n, end)
    <3>1. fed > 0
      BY <1>1, <1>3
    <3>2. end => Ends(live, n, FALSE, end)
      BY <3>1, Zenon DEF PutsOff
    <3>3. QED
      BY <3>2 DEF EndsNow
  <2>6. QED
    BY <1>1, <1>3, <2>1, <2>2, <2>4, <2>5, LaterCall
<1>4. QED
  BY <1>2, <1>3

LEMMA InitFeat == Init => FeatInv
<1> SUFFICES ASSUME Init PROVE FeatInv
  OBVIOUS
<1>1. Win \in Nat /\ L \in Nat \ {0} /\ 0 \in Slots
  BY LiveAssumption DEF Slots
<1>2. EmptyLive \in Buffers
  BY <1>1 DEF EmptyLive, Buffers, Stale
<1>3. <<>> \in Seq(FeatureRows) /\ Len(<<>>) = 0
  OBVIOUS
<1>4. TypeOK
  BY <1>2, <1>3, TypesAre DEF Init
<1>5. QED
  BY <1>3, <1>4 DEF Init, FeatInv, FeatsIdeal

\* The next utterance: the buffer stays where it is, and no feature is computed.
LEMMA StartUttStep == FeatInv /\ StartUtt => FeatInv'
<1> SUFFICES ASSUME FeatInv, StartUtt PROVE FeatInv'
  OBVIOUS
<1>1. live \in Buffers
  BY TypesAre DEF FeatInv
<1>2. live' \in Buffers
  BY <1>1 DEF StartUtt, Forgotten, Buffers, Stale
<1>3. <<>> \in Seq(FeatureRows) /\ Len(<<>>) = 0
  OBVIOUS
<1>4. /\ live' \in Buffers /\ fed' \in Nat /\ ended' \in BOOLEAN
      /\ feats' \in Seq(FeatureRows) /\ fed' = 0 /\ feats' = <<>> /\ ~ended'
  BY <1>2, <1>3 DEF StartUtt
<1>5. TypeOK'
  BY <1>4 DEF TypeOK, Buffers, FeatureRows, Features, Cepstra
<1>6. QED
  BY <1>3, <1>4, <1>5 DEF FeatInv, FeatsIdeal

\* The features computed so far stay those of the utterance when more of it is known, and the
\* new ones come behind them.
LEMMA ProcessStep ==
  ASSUME Tolerated = {}, FeatInv, NEW n \in Blocks, NEW end \in BOOLEAN, Process(n, end)
  PROVE  FeatInv'
<1>1. n \in Nat /\ ~ended /\ ~Overwrites(n, end) /\ ~PutsOff(n, end)
  BY CallerAssumption DEF Process
<1>2. PICK s : s = [i \in 1 .. n |-> fed + i]
  OBVIOUS
<1>3. PICK r : r = Live(live, s, fed = 0, end)
  OBVIOUS
<1>4. /\ live' = r.live /\ fed' = fed + r.used /\ feats' = feats \o r.feats
      /\ ended' = (end /\ r.used = n)
  BY <1>2, <1>3 DEF Process
<1>5. PICK o, u, f : o = Len(feats) /\ u = r.used /\ f = r.feats
  OBVIOUS
<1>6. CallGives(o, fed, n, end, r.live, u, f)
  BY <1>1, <1>2, <1>3, <1>5, AnyCall
<1>7. fed \in Nat /\ feats \in Seq(FeatureRows) /\ o \in Nat
  BY <1>5, TypesAre DEF FeatInv
<1>8. u \in Nat /\ f \in Seq(FeatureRows) /\ r.live \in Buffers /\ Agree(f, o, fed + u)
  BY <1>1, <1>6 DEF CallGives
<1>9. PICK last \in Nat : last = fed + u
  BY <1>7, <1>8
<1>10. /\ feats' \in Seq(FeatureRows) /\ Len(feats') = o + Len(f) /\ fed' = last
       /\ Len(f) \in Nat /\ live' \in Buffers
  BY <1>4, <1>5, <1>7, <1>8, <1>9
<1>11. TypeOK'
  <2>1. ended' \in BOOLEAN
    BY <1>4
  <2>2. QED
    BY <1>10, <2>1 DEF TypeOK, Buffers, FeatureRows, Features, Cepstra
<1>12. ended' <=> end
  BY <1>4, <1>5, <1>6 DEF CallGives
<1>13. fed' = 0 => feats' = <<>>
  <2>1. SUFFICES ASSUME fed' = 0 PROVE feats' = <<>>
    OBVIOUS
  <2>2. fed = 0 /\ fed + u = 0
    BY <1>7, <1>8, <1>9, <1>10, <2>1
  <2>3. feats = <<>> /\ f = <<>>
    BY <1>6, <2>2 DEF FeatInv, CallGives
  <2>4. QED
    BY <1>4, <1>5, <2>3
<1>14. ended' => Len(feats') = fed'
  BY <1>6, <1>9, <1>10, <1>12 DEF CallGives
<1>15. ~ended' /\ fed' > 0 => InStep(live', Len(feats'), fed')
  BY <1>4, <1>6, <1>9, <1>10, <1>12 DEF CallGives
<1>16. FeatsIdeal'
  <2>1. ASSUME NEW t \in 1 .. Len(feats') PROVE feats'[t] = Ideal(last)[t]
    <3>1. CASE t <= o
      <4>1. t \in 1 .. Len(feats) /\ feats'[t] = feats[t]
        BY <1>4, <1>5, <1>7, <1>8, <3>1
      <4>2. feats[t] = Ideal(fed)[t]
        BY <4>1 DEF FeatInv, FeatsIdeal
      <4>3. fed > 0
        BY <1>7, <4>1 DEF FeatInv
      <4>4. o = Settled(fed)
        BY <1>1, <1>5, <4>3 DEF FeatInv, InStep
      <4>5. t \in 1 .. Settled(fed)
        BY <1>5, <4>1, <4>4
      <4>6. Ideal(fed)[t] = Ideal(fed + u)[t]
        BY <1>7, <1>8, <4>5, StaysIdeal
      <4>7. QED
        BY <1>9, <4>1, <4>2, <4>6
    <3>2. CASE t > o
      <4>1. PICK i \in 1 .. Len(f) : t = o + i
        <5>1. t - o \in 1 .. Len(f) /\ t = o + (t - o)
          BY <1>7, <1>10, <3>2
        <5>2. QED
          BY <5>1
      <4>2. feats'[t] = f[i]
        BY <1>4, <1>5, <1>7, <1>8, <4>1
      <4>3. f[i] = Ideal(last)[o + i]
        BY <1>8, <1>9 DEF Agree
      <4>4. QED
        BY <4>1, <4>2, <4>3
    <3>3. QED
      BY <1>7, <3>1, <3>2
  <2>2. QED
    BY <1>10, <2>1 DEF FeatsIdeal
<1>17. QED
  BY <1>11, <1>13, <1>14, <1>15, <1>16 DEF FeatInv

LEMMA FeatInvHolds == ASSUME Tolerated = {} PROVE Spec => []FeatInv
<1>1. FeatInv /\ [Next]_vars => FeatInv'
  <2> SUFFICES ASSUME FeatInv, [Next]_vars PROVE FeatInv'
    OBVIOUS
  <2>1. CASE StartUtt
    BY <2>1, StartUttStep
  <2>2. CASE \E n \in {b \in Blocks : fed + b <= MaxFrames}, end \in BOOLEAN : Process(n, end)
    BY <2>2, ProcessStep
  <2>3. CASE UNCHANGED vars
    BY <2>3 DEF vars, FeatInv, TypeOK, FeatsIdeal
  <2>4. QED
    BY <2>1, <2>2, <2>3 DEF Next
<1>2. QED
  BY <1>1, InitFeat, PTL DEF Spec

\* Whatever the blocks an utterance arrives in, its features are those of batch processing, and
\* no more of them are held back than need what comes.
THEOREM LiveIsBatch == ASSUME Tolerated = {} PROVE Spec => []LiveAgreesWithBatch
<1>1. FeatInv => LiveAgreesWithBatch
  <2> SUFFICES ASSUME FeatInv PROVE LiveAgreesWithBatch
    OBVIOUS
  <2>1. fed \in Nat
    BY TypesAre DEF FeatInv
  <2>2. Len(feats) = IF ended \/ fed = 0 THEN fed ELSE IF fed > Win THEN fed - Win ELSE 0
    <3>1. CASE ended
      BY <3>1 DEF FeatInv
    <3>2. CASE fed = 0
      BY <3>2 DEF FeatInv
    <3>3. CASE ~ended /\ fed # 0
      BY <2>1, <3>3 DEF FeatInv, InStep, Settled
    <3>4. QED
      BY <3>1, <3>2, <3>3
  <2>3. QED
    BY <2>2 DEF FeatInv, FeatsIdeal, LiveAgreesWithBatch
<1>2. QED
  BY <1>1, FeatInvHolds, PTL

---------------------------------------------------------------------------

\* As many features as were asked for.
LEMMA WindowsLen ==
  ASSUME NEW buf, NEW c, NEW r \in Nat PROVE Len(Windows(buf, c, r)) = r
BY DEF Windows

\* A block is not refused whole and gives no more features than it has cepstra, but for the
\* window, whatever the buffer's free space.
LEMMA Contract ==
  ASSUME FeatInv, ~ended, NEW n \in Nat, NEW end \in BOOLEAN,
         NEW s, s = [i \in 1 .. n |-> fed + i], NEW r, r = Live(live, s, fed = 0, end)
  PROVE  Len(r.feats) <= n + Win /\ (n > 0 => r.used > 0)
<1>1. Win \in Nat /\ L \in Nat /\ L > 4 * Win /\ fed \in Nat /\ live \in Buffers
  BY LiveAssumption, TypesAre DEF FeatInv
<1>2. Len(s) = n
  BY <1>1, OfferIs
<1>3. CASE fed = 0 /\ n > 0 /\ end
  <2>1. r = [live |-> BlockPadded(live, s), used |-> n, feats |-> BlockUtt(s)]
    BY <1>2, <1>3 DEF Live
  <2>2. Len(BlockUtt(s)) = n
    BY <1>2 DEF BlockUtt
  <2>3. r.used = n /\ Len(r.feats) = n
    BY <2>1, <2>2
  <2>4. n <= n + Win
    BY <1>1
  <2>5. QED
    BY <1>3, <2>3, <2>4, Zenon
<1>4. CASE ~(fed = 0 /\ n > 0 /\ end)
  <2>1. PICK begin \in BOOLEAN : begin = (fed = 0)
    OBVIOUS
  <2>2. PICK k : k = Consumed(live, n, begin, end)
    OBVIOUS
  <2>3. PICK out : out = Ready(live, k, begin, end)
    OBVIOUS
  <2>4. PICK h : h = Held(live, begin)
    OBVIOUS
  <2>5. h \in 0 .. Win /\ (begin => h = 0)
    <3>1. CASE fed = 0
      <4>1. h = 0
        BY <2>1, <2>4, <3>1, Zenon DEF Held
      <4>2. QED
        BY <1>1, <4>1
    <3>2. CASE fed # 0
      <4>1. Pending(live) \in 0 .. Win
        BY <1>1, <3>2, PendingIs DEF FeatInv
      <4>2. QED
        BY <2>1, <2>4, <3>2, <4>1 DEF Held
    <3>3. QED
      BY <3>1, <3>2
  <2>6. PICK first, tail : /\ first = IF begin /\ n > 0 THEN Win ELSE 0
                           /\ tail = IF end THEN Win ELSE 0
    OBVIOUS
  <2>7. first \in 0 .. Win /\ tail \in 0 .. Win
    BY <1>1, <2>6
  <2>8. k = IF h + first + tail + n > L THEN L - (h + first + tail) - Win ELSE n
    BY <2>2, <2>4, <2>6 DEF Consumed
  <2>9. k \in 0 .. n /\ (n > 0 => k > 0)
    BY <1>1, <2>5, <2>7, <2>8
  <2>10. out = IF h + k + tail - Win > 0 THEN h + k + tail - Win ELSE 0
    BY <2>3, <2>4, <2>6 DEF Ready
  <2>11. out \in Nat /\ out <= n + Win
    BY <1>1, <2>5, <2>7, <2>9, <2>10
  <2>12. PICK done : done = Ends(live, n, begin, end)
    OBVIOUS
  <2>13. r = LiveBlock(live, s, k, out, begin, done)
    BY <1>2, <1>4, <2>1, <2>2, <2>3, <2>12 DEF Live
  <2>14. \E buf, c : r.feats = Windows(buf, c, out)
    BY <2>13 DEF LiveBlock
  <2>15. r.used = k
    BY <2>13 DEF LiveBlock
  <2>16. Len(r.feats) = out
    BY <2>11, <2>14, WindowsLen
  <2>17. QED
    BY <2>9, <2>11, <2>15, <2>16
<1>5. QED
  BY <1>3, <1>4

\* The contract of feat_s2mfc2feat_live with its callers, which allocate the output by it and
\* offer the rest again; of every state in which the seams were avoided until then, at the
\* seams too.
THEOREM ContractKept == ASSUME Tolerated = {} PROVE Spec => []BlockContract
<1>1. FeatInv => BlockContract
  <2> SUFFICES ASSUME FeatInv, ~ended, NEW n \in Blocks, NEW end \in BOOLEAN,
                      NEW r, r = Live(live, [i \in 1 .. n |-> fed + i], fed = 0, end)
               PROVE  Len(r.feats) <= n + Win /\ (n > 0 => r.used > 0)
    BY DEF BlockContract
  <2>1. n \in Nat
    BY CallerAssumption
  <2>2. QED
    BY <2>1, Contract
<1>2. QED
  BY <1>1, FeatInvHolds, PTL
=============================================================================
