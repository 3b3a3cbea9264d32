------------------------------- MODULE Acmod -------------------------------
(***************************************************************************)
(* The feature pipeline of the acoustic model (src/acmod.c): samples go    *)
(* through the front end into a ring of cepstra (mfc_buf), cepstra go      *)
(* through the live buffer of feat_t into a ring of features (feat_buf),   *)
(* and the searches read features from that ring.  Each function of        *)
(* acmod.c is an operator on the acmod_t, a record with the C fields and   *)
(*   ov     fe->num_overflow_samps                                         *)
(*   live   fcb's live buffer (LiveRing)                                   *)
(*   ncep   history: cepstra the front end wrote, or the caller gave       *)
(*   ok     FALSE once an assert failed or a row past a buffer was used:   *)
(*          the program has stopped there                                  *)
(* Log files and senone files are left out.                                *)
(***************************************************************************)
EXTENDS FrameCounts, LiveRing

CONSTANTS PlWindow,   \* the pl_window parameter
          FirstGrow   \* 128 in acmod_set_grow

ASSUME AcmodAssumption == PlWindow \in Nat /\ FirstGrow \in Nat

NMfc  == 2 * Win + 1          \* acmod_reinit_feat: mfc_buf ...
\* Mutant of NFeat: no room for what the lookahead holds back.
NFeatOneWindow == NMfc
NFeat == NMfc + PlWindow      \* ... and feat_buf as allocated

Row(buf, i) == IF i \in DOMAIN buf THEN buf[i] ELSE Stale

NewAcmod ==
  [state |-> "IDLE", ov |-> 0, ncep |-> 0, live |-> EmptyLive,
   n_mfc_alloc |-> NMfc, mfc_buf |-> [i \in 0 .. NMfc - 1 |-> Stale],
   n_mfc_frame |-> 0, mfc_outidx |-> 0,
   grow_feat |-> FALSE, n_feat_alloc |-> NFeat,
   feat_buf |-> [i \in 0 .. NFeat - 1 |-> <<>>],
   n_feat_frame |-> 0, feat_outidx |-> 0, output_frame |-> 0, ok |-> TRUE]

---------------------------------------------------------------------------
(* The feature ring. *)

\* acmod_grow_feat_buf.
Grown(a, nfr) ==
  [a EXCEPT !.n_feat_alloc = nfr,
            !.feat_buf = [i \in 0 .. nfr - 1 |-> IF i \in DOMAIN @ THEN @[i] ELSE <<>>]]

\* Doubling until there is more room than need.
Doubled(alloc, need) ==
  LET size[m \in Nat] == IF m > need THEN m ELSE size[2 * m] IN size[alloc]

\* acmod_set_grow.
SetGrow(a, grow) ==
  LET b == [a EXCEPT !.grow_feat = grow]
  IN IF grow /\ a.n_feat_alloc < FirstGrow THEN Grown(b, FirstGrow) ELSE b

\* Store features from place inptr on; the ring's count is asserted to fit.
Stored(a, feats, inptr) ==
  LET n == a.n_feat_frame + Len(feats)
  IN [a EXCEPT !.feat_buf = [i \in DOMAIN @ |->
                               IF inptr <= i /\ i < inptr + Len(feats)
                               THEN feats[i - inptr + 1] ELSE @[i]],
               !.n_feat_frame = n,
               !.ok = @ /\ inptr + Len(feats) <= a.n_feat_alloc /\ n <= a.n_feat_alloc]

\* acmod_advance, i times: the oldest i features leave the ring.
Advanced(a, i) ==
  [a EXCEPT !.feat_outidx = (@ + i) % a.n_feat_alloc,
            !.n_feat_frame = @ - i,
            !.output_frame = @ + i]

\* acmod_rewind, when it does not refuse.
CanRewind(a) == a.output_frame <= a.n_feat_alloc
\* Mutant of Rewound: the ring is still read from where it was.
RewoundInPlace(a) ==
  [a EXCEPT !.n_feat_frame = a.output_frame + @, !.output_frame = 0]
Rewound(a) ==
  [a EXCEPT !.n_feat_frame = a.output_frame + @, !.feat_outidx = 0, !.output_frame = 0]

\* calc_feat_idx: the place of frame f, unless f has left the ring.
InQueue(a, f) ==
  f >= 0 /\ a.output_frame - f <= a.n_feat_alloc - a.n_feat_frame
\* Mutant of FeatIdx: the oldest feature in the ring, whatever the frame.
FeatIdxOldest(a, f) == a.feat_outidx
FeatIdx(a, f) == (a.feat_outidx + f - a.output_frame) % a.n_feat_alloc

---------------------------------------------------------------------------
(* Cepstra to features. *)

\* The features n cepstra can give at most.
Produces(a, n) ==
  IF a.state = "ENDED" THEN n + Win ELSE IF a.state = "STARTED" THEN n - Win ELSE n

\* nfeat features do not fit; they are made room for, or the cepstra clamped.
TooMany(a, nfeat) == nfeat > a.n_feat_alloc - a.n_feat_frame
MayGrow(a) == a.grow_feat \/ a.state = "ENDED"
Clamped(a, n, nfeat) ==
  IF TooMany(a, nfeat) /\ ~MayGrow(a)
  THEN n - (nfeat - (a.n_feat_alloc - a.n_feat_frame)) ELSE n
Room(a, nfeat) ==
  IF TooMany(a, nfeat) /\ MayGrow(a) THEN Grown(a, a.n_feat_alloc + nfeat) ELSE a

\* Where to start writing, in a ring that when it may grow does not wrap.
EndPlace(a) == a.feat_outidx + a.n_feat_frame
GrownPast(a, nfeat) ==
  IF a.grow_feat THEN Grown(a, Doubled(a.n_feat_alloc, EndPlace(a) + nfeat)) ELSE a
StartPlace(a) == IF a.grow_feat THEN EndPlace(a) ELSE EndPlace(a) % a.n_feat_alloc
Wraps(a, nfeat) == StartPlace(a) + nfeat > a.n_feat_alloc

\* What a call of the live computation made, from place inptr on.  A part of a
\* call is the acmod, the cepstra used and the place for what comes next.
Received(a, r, inptr) == [Stored(a, r.feats, inptr) EXCEPT !.live = r.live]

\* The part up to the end of the ring, with the end of the utterance withheld.
AfterFirst(a, r, inptr, within) ==
  [a |-> [Received(a, r, inptr) EXCEPT !.ok = @ /\ within],
   used |-> r.used, inptr |-> (inptr + Len(r.feats)) % a.n_feat_alloc]
FirstPart(a, cep, ncep, ncep1, begin) ==
  AfterFirst(a, Live(a.live, [i \in 1 .. ncep1 |-> Row(cep, i)], begin, FALSE),
             StartPlace(a), ncep1 <= ncep)

\* The rest, and what acmod_process_cep returns and takes off the caller's count.
AfterLast(part, r, begin) ==
  [a |-> [Received(part.a, r, part.inptr) EXCEPT
            !.state = IF begin THEN "PROCESSING" ELSE @],
   ret |-> part.used + r.used, used |-> part.used + r.used]
LastPart(part, cep, ncep, begin, end) ==
  IF part.a.ok
  THEN AfterLast(part, Live(part.a.live, SubSeq(cep, part.used + 1, ncep), begin, end), begin)
  ELSE [a |-> part.a, ret |-> 0, used |-> 0]

\* acmod_process_cep, not a full utterance, when there is the room there can be.
ProcessWithRoom(a, cep, ncep, nfeat) ==
  LET begin == a.state = "STARTED"
      end   == a.state = "ENDED"
  IN IF Wraps(a, nfeat) /\ end THEN [a |-> a, ret |-> 0, used |-> ncep]
     ELSE LastPart(IF Wraps(a, nfeat)
                   THEN FirstPart(a, cep, ncep, a.n_feat_alloc - StartPlace(a), begin)
                   ELSE [a |-> a, used |-> 0, inptr |-> StartPlace(a)],
                   cep, ncep, begin, end)

\* acmod_process_cep on the rows cep, not a full utterance.
ProcessCep(a, cep) ==
  LET nfeat == Produces(a, Len(cep))
  IN ProcessWithRoom(GrownPast(Room(a, nfeat), nfeat), cep,
                     Clamped(a, Len(cep), nfeat), nfeat)

\* acmod_process_full_cep.
ProcessFullCep(a, cep) ==
  LET n == Len(cep)
      b == IF a.n_feat_alloc < n
           THEN [a EXCEPT !.n_feat_alloc = n, !.feat_buf = [i \in 0 .. n - 1 |-> <<>>],
                          !.n_feat_frame = 0, !.feat_outidx = 0]
           ELSE a
      r == Live(b.live, cep, TRUE, TRUE)
  IN [Stored([b EXCEPT !.n_feat_frame = 0], r.feats, 0) EXCEPT !.live = r.live]

\* acmod_process_mfcbuf, in two parts when the cepstra wrap around.
MfcRows(a, n) == [i \in 1 .. n |-> Row(a.mfc_buf, a.mfc_outidx + i - 1)]
MfcTaken(a, n) == [a EXCEPT !.n_mfc_frame = @ - n,
                            !.mfc_outidx = (@ + n) % a.n_mfc_alloc]
MfcDone(r) == MfcTaken(r.a, r.ret)
MfcLast(a) ==
  IF a.ok /\ a.mfc_outidx + a.n_mfc_frame <= a.n_mfc_alloc
  THEN MfcDone(ProcessCep(a, MfcRows(a, a.n_mfc_frame)))
  ELSE [a EXCEPT !.ok = FALSE]
MfcFirst(a) ==
  MfcDone(ProcessCep([a EXCEPT !.state = IF @ = "ENDED" THEN "PROCESSING" ELSE @],
                     MfcRows(a, a.n_mfc_alloc - a.mfc_outidx)))
ProcessMfcbuf(a) ==
  MfcLast(IF a.mfc_outidx + a.n_mfc_frame > a.n_mfc_alloc
          THEN [MfcFirst(a) EXCEPT !.state = a.state] ELSE a)

---------------------------------------------------------------------------
(* Samples to cepstra. *)

\* fe_process_frames into mfc_buf from row on, at most cap rows; n samples.
FeWrite(a, n, cap, row) ==
  LET k == Written(a.ov, n, cap)
  IN [a |-> [a EXCEPT !.ov = OverflowAfter(a.ov, n, k),
                      !.ncep = @ + k,
                      !.mfc_buf = [i \in DOMAIN @ |-> IF row <= i /\ i < row + k
                                                      THEN a.ncep + 1 + i - row ELSE @[i]],
                      !.n_mfc_frame = @ + k,
                      !.ok = @ /\ row + k <= a.n_mfc_alloc],
      left |-> n - Taken(a.ov, n, k),
      wrote |-> k]

\* Mutant of AppendMfc: the free rows do not wrap.
AppendMfcOnce(a, n) ==
  FeWrite(a, n, a.n_mfc_alloc - a.n_mfc_frame,
          (a.mfc_outidx + a.n_mfc_frame) % a.n_mfc_alloc)

\* acmod_process_raw's loop: append to the ring, in two parts when the free
\* rows wrap around.  A part not filled leaves no sample for another.
AppendRest(r, room) == FeWrite(r.a, r.left, room, 0)
AppendFirst(r, room1, room) == IF r.wrote = room1 THEN AppendRest(r, room - room1) ELSE r
AppendMfc(a, n) ==
  LET room  == a.n_mfc_alloc - a.n_mfc_frame
      inptr == (a.mfc_outidx + a.n_mfc_frame) % a.n_mfc_alloc
      room1 == a.n_mfc_alloc - inptr
  IN IF inptr + room > a.n_mfc_alloc
     THEN AppendFirst(FeWrite(a, n, room1, inptr), room1, room)
     ELSE FeWrite(a, n, room, inptr)

\* Mutant of ProcessRaw: cepstra are turned into features only at the end.
Kept(r) == [a |-> r.a, left |-> r.left]
ProcessRawKept(a, n) == Kept(AppendMfc(a, n))

\* acmod_process_raw, not a full utterance: the acmod, the samples left.
Handed(r) == [a |-> ProcessMfcbuf(r.a), left |-> r.left]
ProcessRaw(a, n) == Handed(IF n > 0 THEN AppendMfc(a, n) ELSE [a |-> a, left |-> 0])

\* fe_end_utt into row: at most one cepstrum.
FeEnd(a, row) ==
  LET k == IF a.ov > 0 THEN 1 ELSE 0
  IN [a EXCEPT !.ov = 0, !.ncep = @ + k,
               !.mfc_buf = IF k = 1 THEN [@ EXCEPT ![row] = a.ncep + 1] ELSE @,
               !.n_mfc_frame = @ + k]

\* acmod_process_full_raw, of the nfr frames that n samples make: the acmod.
FullRawRoom(a, nfr) ==
  LET b == IF a.n_mfc_alloc < nfr + 1
           THEN [a EXCEPT !.n_mfc_alloc = nfr + 1, !.mfc_buf = [i \in 0 .. nfr |-> Stale]]
           ELSE a
  IN [b EXCEPT !.n_mfc_frame = 0, !.mfc_outidx = 0, !.ov = 0]
FullRawEnd(r) == FeEnd(r.a, r.wrote)
FullRawFeats(a) ==
  [ProcessFullCep(a, MfcRows(a, a.n_mfc_frame)) EXCEPT !.n_mfc_frame = 0]
ProcessFullRaw(a, n) ==
  LET nfr == FrameCount(a.ov, n)
  IN FullRawFeats(FullRawEnd(FeWrite(FullRawRoom(a, nfr), n, nfr, 0)))

---------------------------------------------------------------------------
(* Utterances. *)

\* acmod_start_utt.  Cepstra and features left behind belong to the past.
AcmodStartUtt(a) ==
  [a EXCEPT !.state = "STARTED", !.ov = 0, !.ncep = 0, !.live = Forgotten(@),
            !.mfc_buf = [i \in DOMAIN @ |-> Stale],
            !.n_mfc_frame = 0, !.mfc_outidx = 0,
            !.feat_buf = [i \in DOMAIN @ |-> <<>>],
            !.n_feat_frame = 0, !.feat_outidx = 0, !.output_frame = 0]

\* Mutant of AcmodEndUtt: the last cepstra stay in mfc_buf.
AcmodEndUttKept(a) ==
  LET b == [a EXCEPT !.state = "ENDED"]
  IN IF b.n_mfc_frame < b.n_mfc_alloc
     THEN FeEnd(b, (b.mfc_outidx + b.n_mfc_frame) % b.n_mfc_alloc)
     ELSE b

\* acmod_end_utt.
AcmodEndUtt(a) ==
  LET b == [a EXCEPT !.state = "ENDED"]
      e == FeEnd(b, (b.mfc_outidx + b.n_mfc_frame) % b.n_mfc_alloc)
  IN IF b.n_mfc_frame < b.n_mfc_alloc
     THEN IF b.ov > 0 THEN ProcessMfcbuf(e) ELSE e
     ELSE b
============================================================================
