--------------------------- MODULE Decoder_proofs ---------------------------
(***************************************************************************)
(* Theorems about decoding in blocks, for every window, shift, size of the *)
(* live buffer, lookahead and blocks: no assertion of acmod.c fails and no *)
(* row outside its rings is used; the searches keep their distance; the    *)
(* end of an utterance leaves nothing behind; and the main search is       *)
(* served as FrameService says.                                            *)
(*                                                                         *)
(* The first part is about the functions of acmod.c, each for an acmod_t a *)
(* of its types (Sound): what becomes of the cepstra not yet used          *)
(* (MfcHolds), of the features not yet searched and those that may be read *)
(* again (Queued), of a ring that may grow and so must not have wrapped    *)
(* (Straight, Fits), and how many features the given cepstra have become   *)
(* (Start, Middle, Ending).  The second part is about one step of the      *)
(* client each, and the third puts them together: the invariant is Inv.    *)
(*                                                                         *)
(* A record is updated by EXCEPT in the code's order; a lemma named ...    *)
(* Fields says what each field is then, and all others cite it.            *)
(***************************************************************************)
EXTENDS Decoder, FrameRing_proofs, WellFoundedInduction

\* The fields of an acmod_t.
Fields == {"state", "ov", "ncep", "live", "n_mfc_alloc", "mfc_buf", "n_mfc_frame",
           "mfc_outidx", "grow_feat", "n_feat_alloc", "feat_buf", "n_feat_frame",
           "feat_outidx", "output_frame", "ok"}
\* The states of an acmod_t that are used.
States == {"IDLE", "STARTED", "PROCESSING", "ENDED"}

\* An acmod_t whose fields are of their types, with its two rings.
MfcSound(a) ==
  /\ a.n_mfc_alloc \in Nat /\ a.n_mfc_alloc >= NMfc
  /\ a.mfc_buf \in Rows(a.n_mfc_alloc)
  /\ a.n_mfc_frame \in 0 .. a.n_mfc_alloc /\ a.mfc_outidx \in 0 .. a.n_mfc_alloc - 1
  /\ a.ov \in 0 .. FrameSize /\ a.ncep \in Nat
FeatSound(a) ==
  /\ a.n_feat_alloc \in Nat /\ a.n_feat_alloc >= NFeat
  /\ DOMAIN a.feat_buf = 0 .. a.n_feat_alloc - 1
  /\ a.n_feat_frame \in 0 .. a.n_feat_alloc /\ a.feat_outidx \in 0 .. a.n_feat_alloc - 1
  /\ a.output_frame \in Nat
Sound(a) ==
  /\ DOMAIN a = Fields
  /\ a.state \in States /\ a.grow_feat \in BOOLEAN /\ a.ok = TRUE /\ a.live \in Buffers
  /\ MfcSound(a) /\ FeatSound(a)

\* What b has of a.
MfcSame(a, b) ==
  /\ b.n_mfc_alloc = a.n_mfc_alloc /\ b.mfc_buf = a.mfc_buf
  /\ b.n_mfc_frame = a.n_mfc_frame /\ b.mfc_outidx = a.mfc_outidx
  /\ b.ov = a.ov /\ b.ncep = a.ncep
ModeSame(a, b) == b.state = a.state /\ b.grow_feat = a.grow_feat
ReadSame(a, b) == b.feat_outidx = a.feat_outidx /\ b.output_frame = a.output_frame

---------------------------------------------------------------------------
(* The feature ring, its places counted from the one read next. *)

\* The features computed.
Ahead(a) == a.output_frame + a.n_feat_frame

\* The place of the d-th feature after the one read next, or before it.
Place(a, d) == (a.feat_outidx + d) % a.n_feat_alloc

\* The ring holds the features of an utterance of last cepstra that are not yet read,
\* and behind them as many of those read as there is room for.
Queued(a, last) ==
  \A d \in -a.output_frame .. a.n_feat_frame - 1 :
    d >= a.n_feat_frame - a.n_feat_alloc =>
      a.feat_buf[Place(a, d)] = Ideal(last)[a.output_frame + d + 1]

\* Remainders close to zero.
LEMMA RoundIs ==
  ASSUME NEW N \in Nat \ {0}, NEW x \in -N .. 2 * N - 1
  PROVE  x % N = IF x < 0 THEN x + N ELSE IF x < N THEN x ELSE x - N
<1>1. CASE x < 0
  BY <1>1
<1>2. CASE x >= 0 /\ x < N
  BY <1>2
<1>3. CASE x >= N
  BY <1>3
<1>4. QED
  BY <1>1, <1>2, <1>3

\* The sizes the rings are made with.
LEMMA SizesAre == NMfc \in Nat /\ NFeat \in Nat /\ NMfc = 2 * Win + 1 /\ NFeat = NMfc + PlWindow
                  /\ Win \in Nat /\ PlWindow \in Nat /\ L \in Nat /\ L > 4 * Win
BY LiveAssumption, AcmodAssumption DEF NMfc, NFeat

\* A place is one of the ring, and the ring is turned once at most to find it.
LEMMA PlaceIs ==
  ASSUME NEW a, FeatSound(a), NEW d \in -a.n_feat_alloc .. a.n_feat_alloc
  PROVE  /\ Place(a, d) \in 0 .. a.n_feat_alloc - 1
         /\ Place(a, d) = IF a.feat_outidx + d < 0 THEN a.feat_outidx + d + a.n_feat_alloc
                          ELSE IF a.feat_outidx + d < a.n_feat_alloc THEN a.feat_outidx + d
                          ELSE a.feat_outidx + d - a.n_feat_alloc
<1>1. PICK N, c : N = a.n_feat_alloc /\ c = a.feat_outidx
  OBVIOUS
<1>2. N \in Nat \ {0} /\ c \in 0 .. N - 1 /\ d \in -N .. N
  BY <1>1, SizesAre DEF FeatSound
<1>3. PICK x \in -N .. 2 * N - 1 : x = c + d
  BY <1>2
<1>4. x % N = IF x < 0 THEN x + N ELSE IF x < N THEN x ELSE x - N
  BY <1>2, <1>3, RoundIs
<1>5. Place(a, d) = x % N
  BY <1>1, <1>3 DEF Place
<1>6. QED
  BY <1>1, <1>2, <1>3, <1>4, <1>5

---------------------------------------------------------------------------
(* Features are read from the ring. *)

LEMMA AdvancedFields ==
  ASSUME NEW a, DOMAIN a = Fields, NEW i
  PROVE  LET b == Advanced(a, i)
         IN /\ DOMAIN b = Fields /\ MfcSame(a, b) /\ ModeSame(a, b)
            /\ b.ok = a.ok /\ b.live = a.live
            /\ b.n_feat_alloc = a.n_feat_alloc /\ b.feat_buf = a.feat_buf
            /\ b.feat_outidx = Place(a, i)
            /\ b.n_feat_frame = a.n_feat_frame - i
            /\ b.output_frame = a.output_frame + i
BY DEF Fields, Advanced, MfcSame, ModeSame, Place

\* The mfc ring and the mode are sound whatever happens to the features.
LEMMA StillSound ==
  ASSUME NEW a, Sound(a), NEW b, DOMAIN b = Fields, MfcSame(a, b), ModeSame(a, b),
         b.ok = TRUE, b.live \in Buffers, FeatSound(b)
  PROVE  Sound(b)
BY DEF Sound, MfcSame, ModeSame, MfcSound

\* acmod_advance, for i frames: they are read and the rest is as it was.
LEMMA AdvancedIs ==
  ASSUME NEW a, Sound(a), NEW i \in 0 .. a.n_feat_frame, NEW b, b = Advanced(a, i)
  PROVE  /\ Sound(b) /\ MfcSame(a, b) /\ ModeSame(a, b) /\ b.live = a.live
         /\ b.n_feat_alloc = a.n_feat_alloc /\ b.feat_buf = a.feat_buf
         /\ b.n_feat_frame = a.n_feat_frame - i
         /\ b.output_frame = a.output_frame + i
         /\ b.feat_outidx = Place(a, i)
<1>1. /\ DOMAIN b = Fields /\ MfcSame(a, b) /\ ModeSame(a, b)
      /\ b.ok = a.ok /\ b.live = a.live
      /\ b.n_feat_alloc = a.n_feat_alloc /\ b.feat_buf = a.feat_buf
      /\ b.feat_outidx = Place(a, i)
      /\ b.n_feat_frame = a.n_feat_frame - i
      /\ b.output_frame = a.output_frame + i
  BY AdvancedFields DEF Sound
<1>2. FeatSound(a) /\ i \in -a.n_feat_alloc .. a.n_feat_alloc
  BY DEF Sound, FeatSound
<1>3. Place(a, i) \in 0 .. a.n_feat_alloc - 1
  BY <1>2, PlaceIs
<1>4. FeatSound(b)
  BY <1>1, <1>2, <1>3 DEF FeatSound
<1>5. Sound(b)
  BY <1>1, <1>4, StillSound DEF Sound
<1>6. QED
  BY <1>1, <1>5

\* The places from where the ring is read later.
LEMMA AdvancedPlace ==
  ASSUME NEW a, Sound(a), NEW i \in 0 .. a.n_feat_frame, NEW b, b = Advanced(a, i),
         NEW d \in -a.n_feat_alloc .. a.n_feat_alloc,
         i + d \in -a.n_feat_alloc .. a.n_feat_alloc
  PROVE  Place(b, d) = Place(a, i + d)
<1>1. /\ FeatSound(a) /\ FeatSound(b) /\ b.n_feat_alloc = a.n_feat_alloc
      /\ b.feat_outidx = Place(a, i)
  BY AdvancedIs DEF Sound
<1>2. i \in -a.n_feat_alloc .. a.n_feat_alloc
  BY <1>1 DEF FeatSound
<1>3. PICK N, c, e : N = a.n_feat_alloc /\ c = a.feat_outidx /\ e = b.feat_outidx
  OBVIOUS
<1>4. N \in Nat \ {0} /\ c \in 0 .. N - 1 /\ e \in 0 .. N - 1 /\ i \in 0 .. N
  BY <1>1, <1>3, SizesAre DEF FeatSound
<1>5. e = IF c + i < N THEN c + i ELSE c + i - N
  BY <1>1, <1>2, <1>3, <1>4, PlaceIs
<1>6. Place(b, d) = IF e + d < 0 THEN e + d + N ELSE IF e + d < N THEN e + d ELSE e + d - N
  BY <1>1, <1>3, PlaceIs
<1>7. PICK f \in Int : f = i + d
  OBVIOUS
<1>8. Place(a, f) = IF c + f < 0 THEN c + f + N ELSE IF c + f < N THEN c + f ELSE c + f - N
  BY <1>1, <1>3, <1>7, PlaceIs
<1>9. Place(b, d) = Place(a, f)
  BY <1>3, <1>4, <1>5, <1>6, <1>7, <1>8
<1>10. QED
  BY <1>7, <1>9

\* Reading moves the ring on and leaves the rest of it as it is.
LEMMA AdvancedQueued ==
  ASSUME NEW a, Sound(a), NEW i \in 0 .. a.n_feat_frame, NEW b, b = Advanced(a, i),
         NEW last, Queued(a, last)
  PROVE  Queued(b, last) /\ Ahead(b) = Ahead(a)
<1>1. /\ FeatSound(a) /\ FeatSound(b) /\ b.n_feat_alloc = a.n_feat_alloc
      /\ b.feat_buf = a.feat_buf /\ b.n_feat_frame = a.n_feat_frame - i
      /\ b.output_frame = a.output_frame + i
  BY AdvancedIs DEF Sound
<1>2. PICK N, n, o : N = a.n_feat_alloc /\ n = a.n_feat_frame /\ o = a.output_frame
  OBVIOUS
<1>3. N \in Nat /\ n \in 0 .. N /\ o \in Nat /\ i \in 0 .. n
  BY <1>1, <1>2 DEF FeatSound
<1>4. ASSUME NEW d \in -b.output_frame .. b.n_feat_frame - 1, d >= b.n_feat_frame - b.n_feat_alloc
      PROVE  b.feat_buf[Place(b, d)] = Ideal(last)[b.output_frame + d + 1]
  <2>1. PICK e \in Int : e = i + d
    BY <1>3
  <2>2. /\ d \in -N .. N /\ e \in -N .. N /\ e \in -o .. n - 1 /\ e >= n - N
        /\ b.output_frame + d + 1 = o + e + 1
    BY <1>1, <1>2, <1>3, <1>4, <2>1
  <2>3. Place(b, d) = Place(a, e)
    BY <1>2, <2>1, <2>2, AdvancedPlace
  <2>4. a.feat_buf[Place(a, e)] = Ideal(last)[o + e + 1]
    BY <1>2, <2>2 DEF Queued
  <2>5. QED
    BY <1>1, <2>2, <2>3, <2>4
<1>5. QED
  BY <1>1, <1>2, <1>3, <1>4 DEF Queued, Ahead

\* calc_feat_idx finds the feature of a frame that is in the ring.
LEMMA ScoredNow ==
  ASSUME NEW a, Sound(a), NEW last, Queued(a, last),
         NEW e \in -a.output_frame .. a.n_feat_frame - 1, e >= a.n_feat_frame - a.n_feat_alloc,
         NEW f, f = a.output_frame + e
  PROVE  Scored(a, f) = Ideal(last)[f + 1]
<1>1. PICK N, n, o : N = a.n_feat_alloc /\ n = a.n_feat_frame /\ o = a.output_frame
  OBVIOUS
<1>2. N \in Nat /\ n \in 0 .. N /\ o \in Nat /\ a.feat_outidx \in Int
  BY <1>1 DEF Sound, FeatSound
<1>3. InQueue(a, f)
  BY <1>1, <1>2 DEF InQueue
<1>4. FeatIdx(a, f) = Place(a, e)
  <2>1. a.feat_outidx + f - a.output_frame = a.feat_outidx + e
    BY <1>1, <1>2
  <2>2. QED
    BY <2>1 DEF FeatIdx, Place
<1>5. a.feat_buf[Place(a, e)] = Ideal(last)[o + e + 1]
  BY <1>1 DEF Queued
<1>6. f + 1 = o + e + 1
  BY <1>1, <1>2
<1>7. QED
  BY <1>3, <1>4, <1>5, <1>6 DEF Scored

\* And wherever the ring is read in the meantime.
LEMMA ScoredIs ==
  ASSUME NEW a, Sound(a), NEW last, Queued(a, last), NEW j \in 0 .. a.n_feat_frame,
         NEW e \in -a.output_frame .. a.n_feat_frame - 1, e >= a.n_feat_frame - a.n_feat_alloc,
         NEW f, f = a.output_frame + e
  PROVE  Scored(Advanced(a, j), f) = Ideal(last)[f + 1]
<1>1. PICK b : b = Advanced(a, j)
  OBVIOUS
<1>2. /\ Sound(b) /\ Queued(b, last)
      /\ b.n_feat_alloc = a.n_feat_alloc /\ b.n_feat_frame = a.n_feat_frame - j
      /\ b.output_frame = a.output_frame + j
  BY <1>1, AdvancedIs, AdvancedQueued
<1>3. a.n_feat_alloc \in Nat /\ a.n_feat_frame \in Nat /\ a.output_frame \in Nat
  BY DEF Sound, FeatSound
<1>4. PICK d \in Int : d = e - j
  OBVIOUS
<1>5. /\ d \in -b.output_frame .. b.n_feat_frame - 1 /\ d >= b.n_feat_frame - b.n_feat_alloc
      /\ f = b.output_frame + d
  BY <1>2, <1>3, <1>4
<1>6. QED
  BY <1>1, <1>2, <1>5, ScoredNow

---------------------------------------------------------------------------
(* What the searches are shown. *)

\* The first n features of an utterance of last cepstra.
ShowsFirst(seq, n, last) ==
  /\ seq \in Seq(FeatureRows) /\ Len(seq) = n
  /\ \A t \in 1 .. n : seq[t] = Ideal(last)[t]

\* The features the main search has seen when the ring was read up to o.
Lag(o) == IF o < PlWindow THEN 0 ELSE o - PlWindow

\* What the main search is behind on is still in the ring while the rest is read.
Lookback(a) ==
  \/ Ahead(a) <= a.n_feat_alloc
  \/ a.n_feat_frame + PlWindow <= a.n_feat_alloc

\* The features of an utterance are rows.
LEMMA IdealType ==
  ASSUME NEW last \in Nat, NEW u \in 1 .. last
  PROVE  Ideal(last)[u] \in FeatureRows
<1>1. Win \in Nat
  BY LiveAssumption
<1>2. Ideal(last)[u] = [j \in 1 .. 2 * Win + 1 |-> Clamp(u + j - Win - 1, 1, last)]
  BY IdealIs
<1>3. ASSUME NEW j \in 1 .. 2 * Win + 1 PROVE Clamp(u + j - Win - 1, 1, last) \in Nat
  BY <1>1 DEF Clamp
<1>4. QED
  BY <1>2, <1>3 DEF FeatureRows

\* The k features after the first n.
Nexts(n, k, last) == [i \in 1 .. k |-> Ideal(last)[n + i]]

\* They follow what was shown before.
LEMMA NextAre ==
  ASSUME NEW n \in Nat, NEW last \in Nat, NEW k \in Nat, n + k <= last,
         NEW more, more = Nexts(n, k, last)
  PROVE  more \in Seq(FeatureRows) /\ Len(more) = k /\ Agree(more, n, last)
<1>1. ASSUME NEW i \in 1 .. k PROVE Ideal(last)[n + i] \in FeatureRows
  BY IdealType
<1>2. more = [i \in 1 .. k |-> Ideal(last)[n + i]]
  BY DEF Nexts
<1>3. more \in Seq(FeatureRows) /\ Len(more) = k
  BY <1>1, <1>2
<1>4. QED
  BY <1>2, <1>3 DEF Agree

\* Showing what comes next, in order.
LEMMA ShowsMore ==
  ASSUME NEW n \in Nat, NEW last \in Nat, NEW seq, ShowsFirst(seq, n, last),
         NEW more \in Seq(FeatureRows), Agree(more, n, last), NEW k \in Nat, Len(more) = k
  PROVE  ShowsFirst(seq \o more, n + k, last) /\ SubSeq(seq \o more, 1, n) = seq
<1>1. more \in Seq(FeatureRows) /\ Len(more) = k
  OBVIOUS
<1>2. \A i \in 1 .. k : more[i] = Ideal(last)[n + i]
  BY DEF Agree
<1>3. \A t \in 1 .. n : seq[t] = Ideal(last)[t]
  BY DEF ShowsFirst
<1>4. seq \in Seq(FeatureRows) /\ Len(seq) = n
  BY DEF ShowsFirst
<1>5. /\ seq \o more \in Seq(FeatureRows) /\ Len(seq \o more) = n + k
      /\ \A t \in 1 .. n : (seq \o more)[t] = seq[t]
      /\ \A i \in 1 .. k : (seq \o more)[n + i] = more[i]
  BY <1>1, <1>4
<1>6. ASSUME NEW t \in 1 .. n + k PROVE (seq \o more)[t] = Ideal(last)[t]
  <2>1. CASE t <= n
    <3>1. t \in 1 .. n
      BY <2>1
    <3>2. QED
      BY <1>3, <1>5, <3>1
  <2>2. CASE t > n
    <3>1. PICK i \in 1 .. k : t = n + i
      <4>1. t - n \in 1 .. k /\ t = n + (t - n)
        BY <2>2
      <4>2. QED
        BY <4>1
    <3>2. (seq \o more)[t] = more[i]
      BY <1>5, <3>1
    <3>3. QED
      BY <1>2, <3>1, <3>2
  <2>3. t <= n \/ t > n
    OBVIOUS
  <2>4. QED
    BY <2>1, <2>2, <2>3, Zenon
<1>7. SubSeq(seq \o more, 1, n) = seq
  <2>1. /\ SubSeq(seq \o more, 1, n) \in Seq(FeatureRows)
        /\ Len(SubSeq(seq \o more, 1, n)) = n
        /\ \A t \in 1 .. n : SubSeq(seq \o more, 1, n)[t] = (seq \o more)[t]
    BY <1>5
  <2>2. \A t \in 1 .. n : SubSeq(seq \o more, 1, n)[t] = seq[t]
    BY <1>5, <2>1
  <2>3. QED
    BY <1>4, <2>1, <2>2
<1>8. QED
  BY <1>5, <1>6, <1>7 DEF ShowsFirst

\* Every feature in the ring, oldest first.
LEMMA LoopIs ==
  ASSUME NEW a, Sound(a), NEW last \in Nat, Queued(a, last), PlWindow > 0
  PROVE  ShownToLoop(a) = Nexts(a.output_frame, a.n_feat_frame, last)
<1>1. PICK n, o : n = a.n_feat_frame /\ o = a.output_frame
  OBVIOUS
<1>2. n \in 0 .. a.n_feat_alloc /\ o \in Nat /\ a.n_feat_alloc \in Nat
  BY <1>1 DEF Sound, FeatSound
<1>3. ASSUME NEW i \in 1 .. n
      PROVE  Scored(Advanced(a, i - 1), o + i - 1) = Ideal(last)[o + i]
  <2>1. PICK e \in Int : e = i - 1
    BY <1>2
  <2>2. e \in 0 .. n /\ e \in -o .. n - 1 /\ e >= n - a.n_feat_alloc /\ o + i - 1 = o + e
        /\ o + e + 1 = o + i
    BY <1>2, <2>1
  <2>3. Scored(Advanced(a, e), o + e) = Ideal(last)[o + e + 1]
    BY <1>1, <2>2, ScoredIs
  <2>4. QED
    BY <2>1, <2>2, <2>3
<1>4. PlWindow # 0
  BY SizesAre
<1>5. ShownToLoop(a) = [i \in 1 .. n |-> Scored(Advanced(a, i - 1), o + i - 1)]
  BY <1>1, <1>4 DEF ShownToLoop
<1>6. QED
  BY <1>1, <1>3, <1>5 DEF Nexts

\* The same, pl_window features later.
LEMMA MainIs ==
  ASSUME NEW a, Sound(a), NEW last \in Nat, Queued(a, last), Lookback(a)
  PROVE  /\ Lag(Ahead(a)) - Lag(a.output_frame) \in Nat
         /\ ShownToMain(a) = Nexts(Lag(a.output_frame), Lag(Ahead(a)) - Lag(a.output_frame), last)
<1>1. PICK n, o, N : n = a.n_feat_frame /\ o = a.output_frame /\ N = a.n_feat_alloc
  OBVIOUS
<1>2. n \in 0 .. N /\ o \in Nat /\ N \in Nat /\ PlWindow \in Nat
  BY <1>1, SizesAre DEF Sound, FeatSound
<1>3. PICK early : early = IF o < PlWindow THEN Smaller(PlWindow - o, n) ELSE 0
  OBVIOUS
<1>4. early \in 0 .. n
  BY <1>2, <1>3 DEF Smaller
<1>5. PICK g \in Nat : g = Lag(o)
  BY <1>2 DEF Lag
<1>6. Lag(o + n) - g = n - early
  BY <1>2, <1>3, <1>5 DEF Lag, Smaller
<1>7. ASSUME NEW i \in 1 .. n - early
      PROVE  Scored(Advanced(a, early + i - 1), o + early + i - 1 - PlWindow)
               = Ideal(last)[g + i]
  <2>1. PICK j \in Int : j = early + i - 1
    BY <1>4
  <2>2. PICK e \in Int : e = j - PlWindow
    BY <1>2, <2>1
  <2>3. j \in 0 .. n /\ e \in -o .. n - 1 /\ o + e + 1 = g + i
    BY <1>2, <1>3, <1>4, <1>5, <2>1, <2>2 DEF Lag, Smaller
  <2>4. e >= n - N
    <3>1. o + n <= N \/ n + PlWindow <= N
      BY <1>1 DEF Lookback, Ahead
    <3>2. QED
      BY <1>2, <2>2, <2>3, <3>1
  <2>5. Scored(Advanced(a, j), o + e) = Ideal(last)[o + e + 1]
    BY <1>1, <2>3, <2>4, ScoredIs
  <2>6. o + early + i - 1 - PlWindow = o + e
    BY <1>2, <1>4, <2>1, <2>2
  <2>7. QED
    BY <2>1, <2>3, <2>5, <2>6
<1>8. ShownToMain(a) = [i \in 1 .. n - early |->
         Scored(Advanced(a, early + i - 1), o + early + i - 1 - PlWindow)]
  BY <1>1, <1>3 DEF ShownToMain
<1>9. ShownToMain(a) = [i \in 1 .. n - early |-> Ideal(last)[g + i]]
  BY <1>7, <1>8
<1>10. Lag(Ahead(a)) - Lag(a.output_frame) = n - early /\ Lag(a.output_frame) = g
  BY <1>1, <1>5, <1>6 DEF Ahead
<1>11. n - early \in Nat
  BY <1>2, <1>4
<1>12. QED
  BY <1>9, <1>10, <1>11 DEF Nexts

\* What the lookahead held back, of an utterance that was not shorter than the window.
LEMMA HeldBackIs ==
  ASSUME NEW a, Sound(a), NEW last \in Nat, Queued(a, last), a.n_feat_frame = 0,
         a.output_frame \notin 1 .. PlWindow - 1
  PROVE  /\ a.output_frame - Lag(a.output_frame) \in Nat
         /\ HeldBack(a) = Nexts(Lag(a.output_frame), a.output_frame - Lag(a.output_frame), last)
<1>1. PICK o, N : o = a.output_frame /\ N = a.n_feat_alloc
  OBVIOUS
<1>2. o \in Nat /\ N \in Nat /\ PlWindow \in Nat /\ N >= PlWindow
  BY <1>1, SizesAre DEF Sound, FeatSound
<1>3. CASE o < PlWindow
  <2>1. o = 0 /\ Lag(o) = 0
    BY <1>1, <1>2, <1>3 DEF Lag
  <2>2. ~(o >= PlWindow)
    BY <1>2, <1>3
  <2>3. HeldBack(a) = <<>>
    BY <1>1, <2>2 DEF HeldBack
  <2>4. o - Lag(o) = 0
    BY <2>1
  <2>5. [i \in 1 .. 0 |-> Ideal(last)[Lag(o) + i]] = <<>>
    OBVIOUS
  <2>6. QED
    BY <1>1, <2>3, <2>4, <2>5 DEF Nexts
<1>4. CASE ~(o < PlWindow)
  <2>1. PICK g \in Nat : g = o - PlWindow
    BY <1>2, <1>4
  <2>2. Lag(o) = g /\ o - g = PlWindow
    BY <1>2, <1>4, <2>1 DEF Lag
  <2>3. ASSUME NEW i \in 1 .. PlWindow PROVE Scored(a, o - PlWindow + i - 1) = Ideal(last)[g + i]
    <3>1. PICK e \in Int : e = i - 1 - PlWindow
      BY <1>2
    <3>2. e \in -o .. 0 - 1 /\ e >= 0 - N /\ o - PlWindow + i - 1 = o + e /\ o + e + 1 = g + i
      BY <1>2, <1>4, <2>1, <3>1
    <3>3. Scored(a, o + e) = Ideal(last)[o + e + 1]
      BY <1>1, <3>2, ScoredNow
    <3>4. QED
      BY <3>2, <3>3
  <2>4. o >= PlWindow
    BY <1>2, <1>4
  <2>5. HeldBack(a) = [i \in 1 .. PlWindow |-> Scored(a, o - PlWindow + i - 1)]
    BY <1>1, <2>4 DEF HeldBack
  <2>6. HeldBack(a) = [i \in 1 .. PlWindow |-> Ideal(last)[g + i]]
    BY <2>3, <2>5
  <2>7. QED
    BY <1>1, <1>2, <2>2, <2>6 DEF Nexts
<1>5. QED
  BY <1>3, <1>4

\* Everything read is still in the ring, from its first place on.
Fits(a) ==
  /\ Ahead(a) <= a.n_feat_alloc
  /\ a.feat_outidx = IF a.output_frame < a.n_feat_alloc THEN a.output_frame ELSE 0

\* The fields that acmod_rewind sets, and the others.
LEMMA RewoundFields ==
  ASSUME NEW a, DOMAIN a = Fields
  PROVE  LET b == Rewound(a)
         IN /\ DOMAIN b = Fields /\ MfcSame(a, b) /\ ModeSame(a, b)
            /\ b.ok = a.ok /\ b.live = a.live
            /\ b.n_feat_alloc = a.n_feat_alloc /\ b.feat_buf = a.feat_buf
            /\ b.feat_outidx = 0 /\ b.output_frame = 0
            /\ b.n_feat_frame = a.output_frame + a.n_feat_frame
BY DEF Fields, Rewound, MfcSame, ModeSame

\* acmod_rewind: all features are to be read again.
LEMMA RewoundIs ==
  ASSUME NEW a, Sound(a), NEW last, Queued(a, last), Fits(a), a.n_feat_frame = 0,
         NEW b, b = Rewound(a)
  PROVE  /\ CanRewind(a)
         /\ Sound(b) /\ Queued(b, last) /\ MfcSame(a, b) /\ ModeSame(a, b)
         /\ b.n_feat_frame = a.output_frame /\ b.output_frame = 0
<1>1. /\ DOMAIN b = Fields /\ MfcSame(a, b) /\ ModeSame(a, b)
      /\ b.ok = a.ok /\ b.live = a.live
      /\ b.n_feat_alloc = a.n_feat_alloc /\ b.feat_buf = a.feat_buf
      /\ b.feat_outidx = 0 /\ b.output_frame = 0
      /\ b.n_feat_frame = a.output_frame + a.n_feat_frame
  BY RewoundFields DEF Sound
<1>2. PICK o, N : o = a.output_frame /\ N = a.n_feat_alloc
  OBVIOUS
<1>3. o \in 0 .. N /\ N \in Nat \ {0} /\ FeatSound(a)
  BY <1>2, SizesAre DEF Sound, FeatSound, Fits, Ahead
<1>4. CanRewind(a)
  BY <1>2, <1>3 DEF CanRewind
<1>5. b.n_feat_frame = o
  BY <1>1, <1>2, <1>3
<1>6. FeatSound(b)
  BY <1>1, <1>2, <1>3, <1>5 DEF FeatSound
<1>7. Sound(b)
  BY <1>1, <1>6, StillSound DEF Sound
<1>8. ASSUME NEW d \in 0 .. o - 1 PROVE b.feat_buf[Place(b, d)] = Ideal(last)[d + 1]
  <2>1. PICK e \in Int : e = d - o
    BY <1>3
  <2>2. d \in -N .. N /\ e \in -N .. N /\ e \in -o .. 0 - 1 /\ e >= 0 - N /\ o + e + 1 = d + 1
    BY <1>3, <2>1
  <2>3. Place(b, d) = d
    BY <1>1, <1>2, <1>3, <1>6, <2>2, PlaceIs
  <2>4. Place(a, e) = d
    <3>1. a.feat_outidx = IF o < N THEN o ELSE 0
      BY <1>2 DEF Fits
    <3>2. PICK c \in Nat : c = a.feat_outidx
      BY <1>3, <3>1
    <3>3. Place(a, e) = IF c + e < 0 THEN c + e + N ELSE IF c + e < N THEN c + e ELSE c + e - N
      BY <1>2, <1>3, <2>2, <3>2, PlaceIs
    <3>4. QED
      BY <1>3, <2>1, <2>2, <3>1, <3>2, <3>3
  <2>5. a.feat_buf[Place(a, e)] = Ideal(last)[o + e + 1]
    BY <1>2, <2>2 DEF Queued
  <2>6. QED
    BY <1>1, <2>2, <2>3, <2>4, <2>5
<1>9. Queued(b, last)
  <2>1. ASSUME NEW d \in -b.output_frame .. b.n_feat_frame - 1
        PROVE  b.feat_buf[Place(b, d)] = Ideal(last)[b.output_frame + d + 1]
    <3>1. d \in 0 .. o - 1 /\ b.output_frame + d + 1 = d + 1
      BY <1>1, <1>3, <1>5, <2>1
    <3>2. QED
      BY <1>8, <3>1
  <2>2. QED
    BY <2>1 DEF Queued
<1>10. QED
  BY <1>1, <1>2, <1>4, <1>5, <1>7, <1>9

\* There is only one way to have been shown the first n features.
LEMMA ShowsOne ==
  ASSUME NEW x, NEW y, NEW n, NEW last, ShowsFirst(x, n, last), ShowsFirst(y, n, last)
  PROVE  x = y
<1>1. /\ x \in Seq(FeatureRows) /\ y \in Seq(FeatureRows) /\ Len(x) = n /\ Len(y) = n
      /\ \A t \in 1 .. n : x[t] = y[t]
  BY DEF ShowsFirst
<1>2. QED
  BY <1>1

\* The second pass is shown all of them.
LEMMA FlatIs ==
  ASSUME NEW w, Sound(w), NEW last \in Nat, Queued(w, last), w.output_frame = 0,
         w.n_feat_frame <= last
  PROVE  ShowsFirst([i \in 1 .. w.n_feat_frame |-> Scored(Advanced(w, i - 1), i - 1)],
                    w.n_feat_frame, last)
<1>1. PICK n : n = w.n_feat_frame
  OBVIOUS
<1>2. n \in Nat /\ n <= w.n_feat_alloc /\ w.n_feat_alloc \in Nat
  BY <1>1 DEF Sound, FeatSound
<1>3. ASSUME NEW i \in 1 .. n PROVE Scored(Advanced(w, i - 1), i - 1) = Ideal(last)[i]
  <2>1. PICK e \in Int : e = i - 1
    BY <1>2
  <2>2. /\ e \in 0 .. n /\ e \in -w.output_frame .. n - 1 /\ e >= n - w.n_feat_alloc
        /\ e = w.output_frame + e /\ e + 1 = i
    BY <1>2, <2>1
  <2>3. Scored(Advanced(w, e), e) = Ideal(last)[e + 1]
    BY <1>1, <2>2, ScoredIs
  <2>4. QED
    BY <2>1, <2>2, <2>3
<1>4. PICK s : s = [i \in 1 .. n |-> Scored(Advanced(w, i - 1), i - 1)]
  OBVIOUS
<1>5. ASSUME NEW i \in 1 .. n PROVE s[i] = Ideal(last)[i] /\ s[i] \in FeatureRows
  <2>1. i \in 1 .. last
    BY <1>1, <1>2
  <2>2. QED
    BY <1>3, <1>4, <2>1, IdealType
<1>6. s \in Seq(FeatureRows) /\ Len(s) = n
  <2>1. s = [i \in 1 .. n |-> s[i]]
    BY <1>4
  <2>2. QED
    BY <1>2, <1>5, <2>1
<1>7. ShowsFirst(s, n, last)
  BY <1>5, <1>6 DEF ShowsFirst
<1>8. QED
  BY <1>1, <1>4, <1>7

---------------------------------------------------------------------------
(* A ring that may grow. *)

\* A ring that may grow has not wrapped, and there is room behind what it holds.
Straight(a) ==
  a.grow_feat => a.feat_outidx = a.output_frame /\ Ahead(a) < a.n_feat_alloc

\* Everything that the two rings have but their features is as before.
LEMMA GrownFields ==
  ASSUME NEW a, DOMAIN a = Fields, NEW m
  PROVE  LET b == Grown(a, m)
         IN /\ DOMAIN b = Fields /\ MfcSame(a, b) /\ ModeSame(a, b) /\ ReadSame(a, b)
            /\ b.ok = a.ok /\ b.live = a.live /\ b.n_feat_frame = a.n_feat_frame
            /\ b.n_feat_alloc = m
            /\ b.feat_buf = [i \in 0 .. m - 1 |-> IF i \in DOMAIN a.feat_buf THEN a.feat_buf[i] ELSE <<>>]
BY DEF Fields, Grown, MfcSame, ModeSame, ReadSame

\* acmod_grow_feat_buf keeps what is in a ring that has not wrapped.
LEMMA GrownIs ==
  ASSUME NEW a, Sound(a), NEW last, Queued(a, last), a.feat_outidx = a.output_frame,
         Ahead(a) < a.n_feat_alloc, NEW m \in Nat, m >= a.n_feat_alloc,
         NEW b, b = Grown(a, m)
  PROVE  /\ Sound(b) /\ Queued(b, last) /\ MfcSame(a, b) /\ ModeSame(a, b) /\ ReadSame(a, b)
         /\ b.live = a.live /\ b.n_feat_frame = a.n_feat_frame /\ b.n_feat_alloc = m
<1>1. /\ DOMAIN b = Fields /\ MfcSame(a, b) /\ ModeSame(a, b) /\ ReadSame(a, b)
      /\ b.ok = a.ok /\ b.live = a.live /\ b.n_feat_frame = a.n_feat_frame
      /\ b.n_feat_alloc = m
      /\ b.feat_buf = [i \in 0 .. m - 1 |-> IF i \in DOMAIN a.feat_buf THEN a.feat_buf[i] ELSE <<>>]
  BY GrownFields DEF Sound
<1>2. PICK N, n, o : N = a.n_feat_alloc /\ n = a.n_feat_frame /\ o = a.output_frame
  OBVIOUS
<1>3. N \in Nat /\ n \in 0 .. N /\ o \in 0 .. N - 1 /\ FeatSound(a) /\ o + n < N /\ m >= N
      /\ DOMAIN a.feat_buf = 0 .. N - 1
  BY <1>2 DEF Sound, FeatSound, Ahead
<1>4. FeatSound(b)
  <2>1. DOMAIN b.feat_buf = 0 .. m - 1
    BY <1>1
  <2>2. n \in 0 .. m /\ o \in 0 .. m - 1 /\ m >= NFeat
    <3>1. N >= NFeat
      BY <1>2, <1>3 DEF FeatSound
    <3>2. QED
      BY <1>3, <3>1, SizesAre
  <2>3. QED
    BY <1>1, <1>2, <1>3, <2>1, <2>2 DEF FeatSound, ReadSame
<1>5. Sound(b)
  BY <1>1, <1>4, StillSound DEF Sound
<1>6. ASSUME NEW d \in -b.output_frame .. b.n_feat_frame - 1
      PROVE  b.feat_buf[Place(b, d)] = Ideal(last)[b.output_frame + d + 1]
  <2>1. d \in -o .. n - 1 /\ b.output_frame = o /\ b.feat_outidx = o
    BY <1>1, <1>2, <1>6 DEF ReadSame
  <2>2. PICK f \in Int : f = o + d
    BY <1>3, <2>1
  <2>3. /\ f \in 0 .. N - 1 /\ f \in 0 .. m - 1 /\ d >= n - N
        /\ d \in -N .. N /\ d \in -m .. m
    BY <1>3, <2>1, <2>2
  <2>4. Place(a, d) = f
    BY <1>2, <1>3, <2>2, <2>3, PlaceIs
  <2>5. Place(b, d) = f
    BY <1>1, <1>4, <2>1, <2>2, <2>3, PlaceIs
  <2>6. a.feat_buf[f] = Ideal(last)[o + d + 1]
    BY <1>2, <2>1, <2>3, <2>4 DEF Queued
  <2>7. b.feat_buf[f] = a.feat_buf[f]
    BY <1>1, <1>3, <2>3
  <2>8. QED
    BY <2>1, <2>5, <2>6, <2>7
<1>7. Queued(b, last)
  BY <1>6 DEF Queued
<1>8. QED
  BY <1>1, <1>5, <1>7

\* A nonempty set of natural numbers has a least element.
LEMMA Smallest ==
  ASSUME NEW S \in SUBSET Nat, S # {}
  PROVE  \E n \in S : \A m \in S : n <= m
<1>1. PICK R : R = OpToRel(<, Nat)
  OBVIOUS
<1>2. PICK n \in S : \A m \in S : ~(<<m, n>> \in R)
  <2>1. IsWellFoundedOn(R, Nat)
    BY <1>1, NatLessThanWellFounded
  <2>2. QED
    BY <2>1, WFMin
<1>3. ASSUME NEW m \in S PROVE n <= m
  <2>1. ~(m < n)
    BY <1>1, <1>2 DEF OpToRel
  <2>2. QED
    BY <2>1
<1>4. QED
  BY <1>3

\* The sizes that doubling ends with, and one step of the loop.
Doubling(need, size, m) == size[m] = IF m > need THEN m ELSE size[2 * m]
Sizes(need) == CHOOSE size : size = [m \in Nat |-> IF m > need THEN m ELSE size[2 * m]]

\* The loop ends: a function that goes on as the loop does, from every size but zero, made
\* from the greatest sizes down.
LEMMA SizesFrom ==
  ASSUME NEW need \in Nat, NEW j \in 0 .. need
  PROVE  \E size \in [Nat -> Nat] : \A m \in Nat : m > need - j => Doubling(need, size, m)
<1> DEFINE From(i) == \E size \in [Nat -> Nat] : \A m \in Nat : m > need - i => Doubling(need, size, m)
<1> DEFINE S == {i \in 0 .. need : ~From(i)}
<1>1. CASE S = {}
  BY <1>1
<1>2. CASE S # {}
  <2>1. S \in SUBSET Nat
    OBVIOUS
  <2>2. PICK i \in S : \A k \in S : i <= k
    BY <1>2, <2>1, Smallest
  <2>3. i \in 0 .. need /\ ~From(i)
    OBVIOUS
  <2>4. CASE i = 0
    <3>1. PICK size : size = [m \in Nat |-> m]
      OBVIOUS
    <3>2. size \in [Nat -> Nat] /\ \A m \in Nat : m > need - 0 => Doubling(need, size, m)
      BY <3>1 DEF Doubling
    <3>3. QED
      BY <2>3, <2>4, <3>2
  <2>5. CASE i # 0
    <3>1. PICK h \in Nat : h = i - 1
      BY <2>3, <2>5
    <3>2. h \in 0 .. need /\ ~(i <= h)
      BY <2>3, <3>1
    <3>3. From(h)
      BY <2>2, <3>2
    <3>4. PICK g \in [Nat -> Nat] : \A m \in Nat : m > need - h => Doubling(need, g, m)
      BY <3>3
    <3>5. PICK l \in Nat : l = need - h
      BY <3>2
    <3>6. l > 0 /\ l <= need /\ l - 1 = need - i
      BY <2>3, <3>1, <3>2, <3>5
    <3>7. PICK size : size = [g EXCEPT ![l] = g[2 * l]]
      OBVIOUS
    <3>8. /\ size \in [Nat -> Nat] /\ size[l] = g[2 * l]
          /\ \A m \in Nat : m # l => size[m] = g[m]
      BY <3>5, <3>7
    <3>9. ASSUME NEW m \in Nat, m > need - i PROVE Doubling(need, size, m)
      <4>1. 2 * m \in Nat /\ 2 * m # l
        BY <3>6, <3>9
      <4>2. CASE m = l
        <5>1. ~(m > need)
          BY <3>6, <4>2
        <5>2. size[2 * m] = g[2 * m]
          BY <3>8, <4>1
        <5>3. QED
          BY <3>8, <4>2, <5>1, <5>2 DEF Doubling
      <4>3. CASE m # l
        <5>1. m > need - h
          BY <3>5, <3>6, <3>9, <4>3
        <5>2. Doubling(need, g, m)
          BY <3>4, <5>1
        <5>3. size[m] = g[m] /\ size[2 * m] = g[2 * m]
          BY <3>8, <4>1, <4>3
        <5>4. QED
          BY <5>2, <5>3 DEF Doubling
      <4>4. QED
        BY <4>2, <4>3
    <3>10. From(i)
      BY <3>8, <3>9
    <3>11. QED
      BY <2>3, <3>10
  <2>6. QED
    BY <2>4, <2>5
<1>3. QED
  BY <1>1, <1>2

\* So the sizes are what one step of the loop says they are.
LEMMA SizesAreDoubled ==
  ASSUME NEW need \in Int, NEW m \in Nat
  PROVE  Doubling(need, Sizes(need), m)
<1>1. ASSUME NEW size, size = [k \in Nat |-> IF k > need THEN k ELSE size[2 * k]]
      PROVE  Sizes(need) = [k \in Nat |-> IF k > need THEN k ELSE Sizes(need)[2 * k]]
  BY <1>1, Zenon DEF Sizes
<1>2. \E size : size = [k \in Nat |-> IF k > need THEN k ELSE size[2 * k]]
  <2>1. CASE need < 0
    <3>1. PICK size : size = [k \in Nat |-> k]
      OBVIOUS
    <3>2. size = [k \in Nat |-> IF k > need THEN k ELSE size[2 * k]]
      BY <2>1, <3>1
    <3>3. QED
      BY <3>2
  <2>2. CASE need >= 0
    <3>1. need \in Nat /\ need \in 0 .. need
      BY <2>2
    <3>2. PICK size \in [Nat -> Nat] : \A k \in Nat : k > need - need => Doubling(need, size, k)
      BY <3>1, SizesFrom
    <3>3. ASSUME NEW k \in Nat PROVE Doubling(need, size, k)
      <4>1. CASE k = 0
        BY <2>2, <4>1 DEF Doubling
      <4>2. CASE k # 0
        BY <3>2, <4>2
      <4>3. QED
        BY <4>1, <4>2
    <3>4. size = [k \in Nat |-> size[k]]
      OBVIOUS
    <3>5. size = [k \in Nat |-> IF k > need THEN k ELSE size[2 * k]]
      BY <3>3, <3>4 DEF Doubling
    <3>6. QED
      BY <3>5
  <2>3. QED
    BY <2>1, <2>2
<1>3. PICK size : size = [k \in Nat |-> IF k > need THEN k ELSE size[2 * k]]
  BY <1>2
<1>4. Sizes(need) = [k \in Nat |-> IF k > need THEN k ELSE Sizes(need)[2 * k]]
  BY <1>1, <1>3
<1>5. QED
  BY <1>4 DEF Doubling

\* The loop only makes room, and enough of it.
LEMMA DoubledIs ==
  ASSUME NEW alloc \in Nat \ {0}, NEW need \in Int
  PROVE  /\ Doubled(alloc, need) \in Nat
         /\ Doubled(alloc, need) >= alloc /\ Doubled(alloc, need) > need
<1> DEFINE f == Sizes(need)
<1> DEFINE Right(m) == f[m] \in Nat /\ f[m] >= m /\ f[m] > need
<1> DEFINE S == {k \in Nat : \E m \in Nat \ {0} : m + k > need /\ ~Right(m)}
<1>1. \A m \in Nat : Doubling(need, f, m)
  BY SizesAreDoubled
<1> HIDE DEF f
<1>2. S = {}
  <2>1. SUFFICES ASSUME S # {} PROVE FALSE
    OBVIOUS
  <2>2. S \in SUBSET Nat
    OBVIOUS
  <2>3. PICK k \in S : \A h \in S : k <= h
    BY <2>1, <2>2, Smallest
  <2>4. k \in Nat
    OBVIOUS
  <2>5. PICK m \in Nat \ {0} : m + k > need /\ ~Right(m)
    OBVIOUS
  <2>6. CASE m > need
    <3>1. f[m] = m
      BY <1>1, <2>6 DEF Doubling
    <3>2. QED
      BY <2>5, <2>6, <3>1
  <2>7. CASE ~(m > need)
    <3>1. f[m] = f[2 * m]
      BY <1>1, <2>7 DEF Doubling
    <3>2. PICK l \in Nat \ {0} : l = 2 * m
      OBVIOUS
    <3>3. PICK h \in Nat : h = k - 1
      BY <2>4, <2>5, <2>7
    <3>4. l + h > need
      BY <2>4, <2>5, <3>2, <3>3
    <3>5. h \notin S
      <4>1. ~(k <= h)
        BY <2>4, <3>3
      <4> HIDE DEF S
      <4>2. QED
        BY <2>3, <4>1
    <3>6. Right(l)
      BY <3>4, <3>5
    <3>7. Right(m)
      BY <3>1, <3>2, <3>6
    <3>8. QED
      BY <2>5, <3>7
  <2>8. QED
    BY <2>6, <2>7
<1>3. Right(alloc)
  <2>1. PICK k \in Nat : alloc + k > need
    <3>1. CASE need >= 0
      BY <3>1, alloc + need > need
    <3>2. CASE need < 0
      BY <3>2, alloc + 0 > need
    <3>3. QED
      BY <3>1, <3>2
  <2>2. k \notin S
    BY <1>2
  <2>3. QED
    BY <2>1, <2>2
<1>4. Doubled(alloc, need) = f[alloc]
  BY Zenon DEF Doubled, Sizes, f
<1>5. QED
  BY <1>3, <1>4

\* acmod_process_cep makes room for nfeat features more, and keeps what there is.
LEMMA RoomMade ==
  ASSUME NEW a, Sound(a), NEW last, Queued(a, last), a.grow_feat, Straight(a), NEW nfeat \in Int,
         NEW b, b = GrownPast(Room(a, nfeat), nfeat)
  PROVE  /\ Sound(b) /\ Queued(b, last) /\ MfcSame(a, b) /\ ModeSame(a, b) /\ ReadSame(a, b)
         /\ b.live = a.live /\ b.n_feat_frame = a.n_feat_frame
         /\ b.n_feat_alloc >= a.n_feat_alloc /\ Ahead(b) + nfeat < b.n_feat_alloc
         /\ Straight(b)
<1>1. a.feat_outidx = a.output_frame /\ Ahead(a) < a.n_feat_alloc
  BY DEF Straight
<1>2. PICK N, n, o : N = a.n_feat_alloc /\ n = a.n_feat_frame /\ o = a.output_frame
  OBVIOUS
<1>3. N \in Nat /\ n \in 0 .. N /\ o \in Nat /\ o + n < N
  BY <1>1, <1>2 DEF Sound, FeatSound, Ahead
<1>4. PICK c : c = Room(a, nfeat)
  OBVIOUS
<1>5. /\ Sound(c) /\ Queued(c, last) /\ MfcSame(a, c) /\ ModeSame(a, c) /\ ReadSame(a, c)
      /\ c.live = a.live /\ c.n_feat_frame = a.n_feat_frame /\ c.n_feat_alloc >= a.n_feat_alloc
  <2>1. CASE TooMany(a, nfeat)
    <3>1. c = Grown(a, N + nfeat)
      BY <1>2, <1>4, <2>1 DEF Room, MayGrow
    <3>2. nfeat > N - n
      BY <1>2, <2>1 DEF TooMany
    <3>3. PICK m \in Nat : m = N + nfeat
      BY <1>3, <3>2
    <3>4. m >= N
      BY <1>3, <3>2, <3>3
    <3>5. QED
      BY <1>1, <1>2, <3>1, <3>3, <3>4, GrownIs
  <2>2. CASE ~TooMany(a, nfeat)
    <3>1. c = a
      BY <1>4, <2>2 DEF Room
    <3>2. a.n_feat_alloc >= a.n_feat_alloc
      BY <1>2, <1>3
    <3>3. QED
      BY <3>1, <3>2 DEF MfcSame, ModeSame, ReadSame
  <2>3. QED
    BY <2>1, <2>2
<1>6. PICK M : M = c.n_feat_alloc
  OBVIOUS
<1>7. /\ M \in Nat \ {0} /\ M >= N /\ c.feat_outidx = o /\ c.output_frame = o /\ c.n_feat_frame = n
      /\ c.grow_feat /\ Ahead(c) = o + n
  <2>1. M \in Nat /\ M >= N
    BY <1>2, <1>5, <1>6 DEF Sound, FeatSound
  <2>2. QED
    BY <1>1, <1>2, <1>3, <1>5, <2>1 DEF ReadSame, ModeSame, Ahead
<1>8. PICK need \in Int : need = EndPlace(c) + nfeat
  BY <1>3, <1>7 DEF EndPlace
<1>9. need = o + n + nfeat
  BY <1>7, <1>8 DEF EndPlace
<1>10. PICK m \in Nat : m = Doubled(M, need) /\ m >= M /\ m > need
  BY <1>7, DoubledIs
<1>11. b = Grown(c, m)
  BY <1>4, <1>6, <1>7, <1>8, <1>10 DEF GrownPast
<1>12. Ahead(c) < c.n_feat_alloc
  BY <1>3, <1>6, <1>7
<1>13. /\ Sound(b) /\ Queued(b, last) /\ MfcSame(c, b) /\ ModeSame(c, b) /\ ReadSame(c, b)
       /\ b.live = c.live /\ b.n_feat_frame = c.n_feat_frame /\ b.n_feat_alloc = m
  BY <1>5, <1>6, <1>7, <1>10, <1>11, <1>12, GrownIs
<1>14. MfcSame(a, b) /\ ModeSame(a, b) /\ ReadSame(a, b) /\ b.live = a.live
       /\ b.n_feat_frame = a.n_feat_frame
  BY <1>5, <1>13 DEF MfcSame, ModeSame, ReadSame
<1>15. Ahead(b) = o + n /\ b.feat_outidx = o /\ b.output_frame = o
  BY <1>1, <1>2, <1>14 DEF Ahead, ReadSame
<1>16. m >= N /\ o + n + nfeat < m /\ o + n < m
  BY <1>3, <1>7, <1>9, <1>10
<1>17. QED
  BY <1>2, <1>13, <1>14, <1>15, <1>16 DEF Straight

---------------------------------------------------------------------------
(* Features are stored behind those in the ring. *)

\* What b is when r's features were stored in a from place p on.
StoredIn(a, r, p, b) ==
  /\ DOMAIN b = Fields /\ MfcSame(a, b) /\ ModeSame(a, b) /\ ReadSame(a, b)
  /\ b.live = r.live /\ b.n_feat_frame = a.n_feat_frame + Len(r.feats)
  /\ b.n_feat_alloc = a.n_feat_alloc
  /\ b.feat_buf = [i \in DOMAIN a.feat_buf |-> IF p <= i /\ i < p + Len(r.feats)
                                               THEN r.feats[i - p + 1] ELSE a.feat_buf[i]]
  /\ b.ok = TRUE

\* The fields that the storing of features sets, and the others.
LEMMA ReceivedFields ==
  ASSUME NEW a, DOMAIN a = Fields, NEW r, NEW p, a.ok = TRUE,
         p + Len(r.feats) <= a.n_feat_alloc, a.n_feat_frame + Len(r.feats) <= a.n_feat_alloc
  PROVE  StoredIn(a, r, p, Received(a, r, p))
<1>1. (/\ a.ok /\ p + Len(r.feats) <= a.n_feat_alloc
       /\ a.n_feat_frame + Len(r.feats) <= a.n_feat_alloc) = TRUE
  OBVIOUS
<1>2. QED
  BY <1>1, Zenon DEF Fields, Received, Stored, MfcSame, ModeSame, ReadSame, StoredIn

\* Features that fit are stored, and nothing that can still be read is overwritten.
LEMMA ReceivedIs ==
  ASSUME NEW a, Sound(a), NEW last \in Nat, Queued(a, last), NEW more \in Nat,
         \A t \in 1 .. Ahead(a) : Ideal(last)[t] = Ideal(more)[t],
         NEW r, r.live \in Buffers, r.feats \in Seq(FeatureRows), Agree(r.feats, Ahead(a), more),
         NEW p, p = Place(a, a.n_feat_frame), p + Len(r.feats) <= a.n_feat_alloc,
         a.n_feat_frame + Len(r.feats) <= a.n_feat_alloc,
         NEW b, b = Received(a, r, p)
  PROVE  /\ Sound(b) /\ Queued(b, more) /\ MfcSame(a, b) /\ ModeSame(a, b) /\ ReadSame(a, b)
         /\ b.live = r.live /\ b.n_feat_frame = a.n_feat_frame + Len(r.feats)
         /\ b.n_feat_alloc = a.n_feat_alloc
<1>1. PICK f, k : f = r.feats /\ k = Len(r.feats)
  OBVIOUS
<1>2. k \in Nat /\ f \in Seq(FeatureRows)
  BY <1>1
<1>3. /\ DOMAIN b = Fields /\ MfcSame(a, b) /\ ModeSame(a, b) /\ ReadSame(a, b)
      /\ b.live = r.live /\ b.n_feat_frame = a.n_feat_frame + k
      /\ b.n_feat_alloc = a.n_feat_alloc
      /\ b.feat_buf = [i \in DOMAIN a.feat_buf |->
                         IF p <= i /\ i < p + k THEN f[i - p + 1] ELSE a.feat_buf[i]]
      /\ b.ok = TRUE
  <2>1. DOMAIN a = Fields /\ a.ok = TRUE
    BY DEF Sound
  <2>2. StoredIn(a, r, p, b)
    BY <2>1, ReceivedFields
  <2>3. QED
    BY <1>1, <2>2, Zenon DEF StoredIn
<1>4. PICK N, n, o, c : /\ N = a.n_feat_alloc /\ n = a.n_feat_frame /\ o = a.output_frame
                        /\ c = a.feat_outidx
  OBVIOUS
<1>5. /\ N \in Nat \ {0} /\ n \in 0 .. N /\ o \in Nat /\ c \in 0 .. N - 1 /\ FeatSound(a)
      /\ DOMAIN a.feat_buf = 0 .. N - 1
  BY <1>4, SizesAre DEF Sound, FeatSound
<1>6. /\ p \in 0 .. N - 1 /\ p = IF c + n < N THEN c + n ELSE c + n - N
      /\ p + k <= N /\ n + k <= N
  BY <1>1, <1>4, <1>5, PlaceIs, SMTT(30)
<1>8. DOMAIN b.feat_buf = 0 .. N - 1
  BY <1>3, <1>5
<1>9. FeatSound(b)
  <2>1. b.n_feat_alloc = N /\ b.n_feat_frame = n + k /\ b.output_frame = o /\ b.feat_outidx = c
    BY <1>3, <1>4 DEF ReadSame
  <2>2. n + k \in 0 .. N
    BY <1>2, <1>5, <1>6
  <2>3. N >= NFeat
    BY <1>4, <1>5 DEF FeatSound
  <2>4. QED
    BY <1>5, <1>8, <2>1, <2>2, <2>3 DEF FeatSound
<1>10. Sound(b)
  BY <1>3, <1>9, StillSound DEF Sound
<1>11. ASSUME NEW d \in -o .. n + k - 1, d >= n + k - N
       PROVE  b.feat_buf[Place(b, d)] = Ideal(more)[o + d + 1]
  <2>1. d \in -N .. N
    BY <1>2, <1>5, <1>6, <1>11
  <2>2. PICK q : q = Place(a, d)
    OBVIOUS
  <2>3. Place(b, d) = q
    BY <1>3, <2>2 DEF Place, ReadSame
  <2>4. /\ q \in 0 .. N - 1
        /\ q = IF c + d < 0 THEN c + d + N ELSE IF c + d < N THEN c + d ELSE c + d - N
    BY <1>4, <1>5, <2>1, <2>2, PlaceIs
  <2>5. CASE d >= n
    <3>1. PICK i \in 1 .. k : i = d - n + 1
      BY <1>2, <1>5, <1>11, <2>5
    <3>2. q = p + (i - 1) /\ p <= q /\ q < p + k /\ q - p + 1 = i
      BY <1>2, <1>5, <1>6, <2>4, <2>5, <3>1
    <3>3. b.feat_buf[q] = f[i]
      BY <1>3, <1>5, <2>4, <3>2
    <3>4. f[i] = Ideal(more)[o + n + i]
      BY <1>1, <1>4, <3>1 DEF Agree, Ahead
    <3>5. o + n + i = o + d + 1
      BY <1>5, <3>1
    <3>6. QED
      BY <2>3, <3>3, <3>4, <3>5
  <2>6. CASE d < n
    <3>1. ~(p <= q /\ q < p + k)
      BY <1>2, <1>5, <1>6, <1>11, <2>4, <2>6
    <3>2. b.feat_buf[q] = a.feat_buf[q]
      BY <1>3, <1>5, <2>4, <3>1
    <3>3. d \in -o .. n - 1 /\ d >= n - N
      BY <1>2, <1>5, <1>11, <2>6
    <3>4. a.feat_buf[q] = Ideal(last)[o + d + 1]
      BY <1>4, <2>2, <3>3 DEF Queued
    <3>5. o + d + 1 \in 1 .. Ahead(a)
      BY <1>4, <1>5, <3>3, SMTT(30) DEF Ahead
    <3>6. QED
      BY <2>3, <3>2, <3>4, <3>5
  <2>7. QED
    BY <1>5, <1>11, <2>5, <2>6
<1>12. b.n_feat_frame = n + k /\ b.output_frame = o /\ b.n_feat_alloc = N
  BY <1>3, <1>4 DEF ReadSame
<1>13. Queued(b, more)
  <2>1. ASSUME NEW d \in -b.output_frame .. b.n_feat_frame - 1, d >= b.n_feat_frame - b.n_feat_alloc
        PROVE  b.feat_buf[Place(b, d)] = Ideal(more)[b.output_frame + d + 1]
    <3>1. d \in -o .. n + k - 1 /\ d >= n + k - N
      BY <1>2, <1>5, <1>12, <2>1
    <3>2. QED
      BY <1>11, <1>12, <3>1
  <2>2. QED
    BY <2>1 DEF Queued
<1>14. QED
  BY <1>1, <1>3, <1>10, <1>13

---------------------------------------------------------------------------
(* Cepstra to features. *)

\* A call that has the room takes everything it is offered.
LEMMA TakesAll ==
  ASSUME NEW live \in Buffers, NEW s \in Seq(Nat), NEW begin \in BOOLEAN, NEW end \in BOOLEAN,
         ~(begin /\ end), NEW h \in Nat, h = Held(live, begin),
         h + Win + Len(s) <= L
  PROVE  /\ Live(live, s, begin, end).used = Len(s)
         /\ Ends(live, Len(s), begin, end) = end
<1>1. Win \in Nat /\ L \in Nat /\ Len(s) \in Nat
  BY LiveAssumption
<1>2. PICK n \in Nat : n = Len(s)
  BY <1>1
<1>3. Consumed(live, n, begin, end) = n
  BY <1>1, <1>2 DEF Consumed
<1>4. Live(live, s, begin, end) =
        LiveBlock(live, s, n, Ready(live, n, begin, end), begin, Ends(live, n, begin, end))
  BY <1>2, <1>3 DEF Live
<1>5. QED
  BY <1>2, <1>3, <1>4 DEF LiveBlock, Ends

\* The middle of an utterance of which done cepstra were handed to the features.
Middle(a, done) ==
  /\ Sound(a) /\ a.state = "PROCESSING"
  /\ done \in Nat \ {0}
  /\ InStep(a.live, Ahead(a), done)
  /\ Queued(a, done)
  /\ Straight(a)
  /\ Ahead(a) = 0 => a.feat_outidx = 0

\* How many features m cepstra more give.
More(done, m) == Settled(done + m) - Settled(done)

\* Of the first cepstra of an utterance some features wait for later cepstra; after them every
\* cepstrum gives one.
LEMMA MoreIs ==
  ASSUME NEW done \in Nat, NEW m \in Nat
  PROVE  /\ Settled(done) \in Nat /\ Settled(done) <= done /\ More(done, m) \in 0 .. m
         /\ Settled(done + m) = Settled(done) + More(done, m)
         /\ done >= Win => More(done, m) = m
BY LiveAssumption DEF More, Settled

\* The cepstra offered next that some cepstra were already taken of.
LEMMA OfferRest ==
  ASSUME NEW done \in Nat, NEW n \in Nat, NEW cep, cep = [i \in 1 .. n |-> done + i], NEW u \in 0 .. n
  PROVE  SubSeq(cep, u + 1, n) = [i \in 1 .. n - u |-> (done + u) + i]
<1>1. cep \in Seq(Nat) /\ Len(cep) = n
  BY OfferIs
<1>2. PICK s, t : s = SubSeq(cep, u + 1, n) /\ t = [i \in 1 .. n - u |-> (done + u) + i]
  OBVIOUS
<1>3. s \in Seq(Nat) /\ Len(s) = n - u
  BY <1>1, <1>2
<1>4. t \in Seq(Nat) /\ Len(t) = n - u
  BY <1>2
<1>5. ASSUME NEW i \in 1 .. n - u PROVE s[i] = t[i]
  <2>1. s[i] = cep[u + i]
    BY <1>1, <1>2
  <2>2. u + i \in 1 .. n
    OBVIOUS
  <2>3. QED
    BY <1>2, <2>1, <2>2
<1>6. s = t
  BY <1>3, <1>4, <1>5
<1>7. QED
  BY <1>2, <1>6

\* The m cepstra offered in the middle of an utterance, done before them, are taken, and give
\* the features behind the o there are.
MoreTaken(r, o, done, m) ==
  /\ r.live \in Buffers /\ r.used = m /\ r.feats \in Seq(FeatureRows)
  /\ Len(r.feats) = More(done, m) /\ Agree(r.feats, o, done + m)
  /\ InStep(r.live, o + More(done, m), done + m)

\* feat_s2mfc2feat_live in the middle of an utterance, when the live buffer has the room.
LEMMA LiveMiddle ==
  ASSUME NEW buf \in Buffers, NEW done \in Nat \ {0}, NEW o, InStep(buf, o, done),
         NEW m \in Nat, m + 2 * Win <= L, NEW s, s = [i \in 1 .. m |-> done + i],
         NEW r, r = Live(buf, s, FALSE, FALSE)
  PROVE  MoreTaken(r, o, done, m)
<1>1. PICK k \in Nat : k = More(done, m)
  BY MoreIs
<1>2. /\ k \in 0 .. m /\ o = Settled(done) /\ o \in Nat /\ Settled(done + m) = o + k
  BY <1>1, MoreIs DEF InStep
<1>3. Pending(buf) = done - o /\ done - o \in 0 .. Win
  BY PendingIs
<1>4. s \in Seq(Nat) /\ Len(s) = m /\ NextOf(s, done)
  BY OfferIs
<1>5. r.used = m /\ ~Ends(buf, m, FALSE, FALSE)
  <2>1. PICK h \in Nat : h = done - o
    BY <1>3
  <2>2. h = Held(buf, FALSE) /\ h + Win + m <= L
    BY <1>3, <2>1, SizesAre DEF Held
  <2>3. QED
    BY <1>4, <2>1, <2>2, TakesAll
<1>6. CallGives(o, done, m, FALSE, r.live, r.used, r.feats)
  <2>1. LetIn(done - o, m, FALSE) /\ EndsNow(buf, m, FALSE)
    BY <1>3, SizesAre DEF LetIn, EndsNow
  <2>2. QED
    BY <2>1, LaterCall
<1>7. PICK l, f : l = r.live /\ f = r.feats
  OBVIOUS
<1>8. CallGives(o, done, m, FALSE, l, m, f)
  BY <1>5, <1>6, <1>7
<1>9. /\ l \in Buffers /\ f \in Seq(FeatureRows) /\ Agree(f, o, done + m)
      /\ InStep(l, o + Len(f), done + m)
  BY <1>8 DEF CallGives
<1>10. Len(f) = k
  <2>1. o + Len(f) = o + k
    BY <1>2, <1>9 DEF InStep
  <2>2. Len(f) \in Nat
    BY <1>9
  <2>3. QED
    BY <1>2, <2>1, <2>2
<1>11. QED
  BY <1>1, <1>5, <1>7, <1>9, <1>10 DEF MoreTaken

\* A part of acmod_process_cep in the middle of an utterance: the features of the cepstra taken
\* are stored behind the others.
LEMMA PartIs ==
  ASSUME NEW a, NEW done, Middle(a, done), NEW m \in Nat,
         NEW r, MoreTaken(r, Ahead(a), done, m),
         NEW p, p = Place(a, a.n_feat_frame), p + More(done, m) <= a.n_feat_alloc,
         a.n_feat_frame + More(done, m) <= a.n_feat_alloc,
         a.grow_feat => Ahead(a) + More(done, m) < a.n_feat_alloc,
         NEW b, b = Received(a, r, p)
  PROVE  /\ Middle(b, done + m) /\ MfcSame(a, b) /\ ModeSame(a, b) /\ ReadSame(a, b)
         /\ b.n_feat_frame = a.n_feat_frame + More(done, m) /\ b.n_feat_alloc = a.n_feat_alloc
<1>1. /\ Sound(a) /\ a.state = "PROCESSING" /\ done \in Nat \ {0}
      /\ InStep(a.live, Ahead(a), done)
      /\ Queued(a, done) /\ Straight(a)
      /\ (Ahead(a) = 0 => a.feat_outidx = 0)
  BY DEF Middle
<1>2. PICK total \in Nat \ {0} : total = done + m
  BY <1>1
<1>3. ASSUME NEW t \in 1 .. Ahead(a) PROVE Ideal(done)[t] = Ideal(total)[t]
  <2>1. t \in 1 .. Settled(done) /\ done \in Nat
    BY <1>1, <1>3 DEF InStep
  <2>2. Ideal(done)[t] = Ideal(done + m)[t]
    BY <2>1, StaysIdeal
  <2>3. QED
    BY <1>2, <2>2
<1>4. PICK k \in Nat, o \in Nat : k = More(done, m) /\ o = Ahead(a)
  <2>1. More(done, m) \in Nat /\ Ahead(a) \in Nat
    BY <1>1, MoreIs DEF InStep
  <2>2. QED
    BY <2>1
<1>5. /\ r.live \in Buffers /\ r.feats \in Seq(FeatureRows) /\ Agree(r.feats, Ahead(a), total)
      /\ Len(r.feats) = k /\ InStep(r.live, o + k, total)
  BY <1>2, <1>4 DEF MoreTaken
<1>6. /\ Sound(b) /\ Queued(b, total) /\ MfcSame(a, b) /\ ModeSame(a, b) /\ ReadSame(a, b)
      /\ b.live = r.live /\ b.n_feat_frame = a.n_feat_frame + k
      /\ b.n_feat_alloc = a.n_feat_alloc
  <2>1. /\ \A t \in 1 .. Ahead(a) : Ideal(done)[t] = Ideal(total)[t]
        /\ Sound(a) /\ Queued(a, done) /\ done \in Nat /\ total \in Nat
    BY <1>1, <1>3
  <2>2. p + Len(r.feats) <= a.n_feat_alloc /\ a.n_feat_frame + Len(r.feats) <= a.n_feat_alloc
    BY <1>4, <1>5
  <2>3. /\ Sound(b) /\ Queued(b, total) /\ MfcSame(a, b) /\ ModeSame(a, b) /\ ReadSame(a, b)
        /\ b.live = r.live /\ b.n_feat_frame = a.n_feat_frame + Len(r.feats)
        /\ b.n_feat_alloc = a.n_feat_alloc
    BY <1>5, <2>1, <2>2, ReceivedIs
  <2>4. QED
    BY <1>5, <2>3
<1>7. Ahead(b) = o + k
  <2>1. a.output_frame \in Nat /\ a.n_feat_frame \in Nat /\ o = a.output_frame + a.n_feat_frame
    BY <1>1, <1>4 DEF Ahead, Sound, FeatSound
  <2>2. Ahead(b) = a.output_frame + (a.n_feat_frame + k)
    BY <1>6 DEF Ahead, ReadSame
  <2>3. PICK x \in Nat, y \in Nat : x = a.output_frame /\ y = a.n_feat_frame
    BY <2>1
  <2>4. x + (y + k) = (x + y) + k
    OBVIOUS
  <2>5. QED
    BY <2>1, <2>2, <2>3, <2>4
<1>8. b.state = "PROCESSING" /\ b.grow_feat = a.grow_feat
  BY <1>1, <1>6 DEF ModeSame
<1>9. Straight(b)
  BY <1>1, <1>4, <1>6, <1>7, <1>8 DEF Straight, ReadSame
<1>10. Ahead(b) = 0 => b.feat_outidx = 0
  <2>1. o + k = 0 => o = 0
    OBVIOUS
  <2>2. QED
    BY <1>1, <1>4, <1>6, <1>7, <2>1 DEF ReadSame
<1>11. Middle(b, total)
  BY <1>2, <1>5, <1>6, <1>7, <1>8, <1>9, <1>10 DEF Middle
<1>12. QED
  BY <1>2, <1>4, <1>6, <1>11

\* Storing the features of the second part, and of the first, when the assertion holds.
LEMMA AfterLastIs ==
  ASSUME NEW part, NEW r, DOMAIN part.a = Fields
  PROVE  AfterLast(part, r, FALSE) = [a |-> Received(part.a, r, part.inptr),
                                      ret |-> part.used + r.used, used |-> part.used + r.used]
<1>1. PICK b : b = Received(part.a, r, part.inptr)
  OBVIOUS
<1>2. [b EXCEPT !.state = IF FALSE THEN "PROCESSING" ELSE @] = b
  BY <1>1, Zenon DEF Received, Stored
<1>3. QED
  BY <1>1, <1>2 DEF AfterLast

LEMMA AfterFirstIs ==
  ASSUME NEW a, NEW r, NEW p, Received(a, r, p).ok = TRUE
  PROVE  AfterFirst(a, r, p, TRUE) = [a |-> Received(a, r, p), used |-> r.used,
                                      inptr |-> (p + Len(r.feats)) % a.n_feat_alloc]
<1>1. PICK b : b = Received(a, r, p)
  OBVIOUS
<1>2. [b EXCEPT !.ok = @ /\ TRUE] = b
  BY <1>1, Zenon DEF Received, Stored
<1>3. QED
  BY <1>1, <1>2 DEF AfterFirst

\* What acmod_process_cep made of n cepstra in the middle of an utterance.
MiddleGives(a, done, n, pc) ==
  /\ pc.used = n /\ pc.ret = n
  /\ Middle(pc.a, done + n) /\ MfcSame(a, pc.a) /\ ModeSame(a, pc.a) /\ ReadSame(a, pc.a)
  /\ pc.a.n_feat_frame = a.n_feat_frame + More(done, n)

\* Both parts: the ring of one that may grow does not wrap, and the first features of an
\* utterance are at its start.
LEMMA WithRoomMiddle ==
  ASSUME NEW a, NEW done, Middle(a, done), NEW n \in Nat, n + 2 * Win <= L,
         NEW cep, cep = [i \in 1 .. n |-> done + i],
         StartPlace(a) = Place(a, a.n_feat_frame), a.n_feat_frame + n <= a.n_feat_alloc,
         a.grow_feat => Ahead(a) + n < a.n_feat_alloc /\ ~Wraps(a, n),
         NEW pc, pc = ProcessWithRoom(a, cep, n, n)
  PROVE  MiddleGives(a, done, n, pc)
<1>1. /\ Sound(a) /\ FeatSound(a) /\ DOMAIN a = Fields /\ a.live \in Buffers
      /\ a.state = "PROCESSING" /\ done \in Nat \ {0} /\ InStep(a.live, Ahead(a), done)
      /\ (Ahead(a) = 0 => a.feat_outidx = 0)
  BY DEF Middle, Sound
<1>2. PICK N, nf, c, p : /\ N = a.n_feat_alloc /\ nf = a.n_feat_frame /\ c = a.feat_outidx
                         /\ p = StartPlace(a)
  OBVIOUS
<1>3. /\ N \in Nat \ {0} /\ nf \in 0 .. N /\ c \in 0 .. N - 1 /\ p \in 0 .. N - 1 /\ nf + n <= N
      /\ p = IF c + nf < N THEN c + nf ELSE c + nf - N
      /\ p = Place(a, nf)
  <2>1. N \in Nat \ {0} /\ nf \in 0 .. N /\ c \in 0 .. N - 1
    BY <1>1, <1>2, SizesAre DEF FeatSound
  <2>2. nf \in -N .. N
    BY <2>1
  <2>3. QED
    BY <1>1, <1>2, <2>1, <2>2, PlaceIs, SMTT(30)
<1>8. N \in Nat /\ p \in Nat /\ p < N /\ nf \in Nat /\ nf + n <= N
  BY <1>3
<1>4. ~(a.state = "STARTED") /\ ~(a.state = "ENDED")
  BY <1>1
<1>5. CASE ~Wraps(a, n)
  <2>1. PICK part, r : /\ part = [a |-> a, used |-> 0, inptr |-> p]
                       /\ r = Live(a.live, SubSeq(cep, 0 + 1, n), FALSE, FALSE)
    OBVIOUS
  <2>2. part.a = a /\ part.used = 0 /\ part.inptr = p /\ part.a.ok
    BY <1>1, <2>1 DEF Sound
  <2>3. pc = AfterLast(part, r, FALSE)
    <3>1. pc = LastPart(part, cep, n, FALSE, FALSE)
      BY <1>2, <1>4, <1>5, <2>1 DEF ProcessWithRoom
    <3>2. QED
      BY <2>1, <2>2, <3>1 DEF LastPart
  <2>4. MoreTaken(r, Ahead(a), done, n)
    <3>1. SubSeq(cep, 0 + 1, n) = [i \in 1 .. n - 0 |-> (done + 0) + i] /\ done \in Nat
      BY <1>1, OfferRest
    <3>2. n - 0 = n /\ done + 0 = done
      BY <1>1
    <3>3. SubSeq(cep, 0 + 1, n) = [i \in 1 .. n |-> done + i]
      BY <3>1, <3>2
    <3>4. QED
      BY <1>1, <2>1, <3>3, LiveMiddle
  <2>5. PICK b : b = Received(a, r, p)
    OBVIOUS
  <2>6. pc = [a |-> b, ret |-> 0 + r.used, used |-> 0 + r.used]
    BY <1>1, <2>2, <2>3, <2>5, AfterLastIs
  <2>7. /\ Middle(b, done + n) /\ MfcSame(a, b) /\ ModeSame(a, b) /\ ReadSame(a, b)
        /\ b.n_feat_frame = a.n_feat_frame + More(done, n)
    <3>1. PICK k \in 0 .. n : k = More(done, n)
      BY <1>1, MoreIs
    <3>2. p + n <= N
      BY <1>2, <1>3, <1>5 DEF Wraps
    <3>3. p + k <= N /\ nf + k <= N
      BY <1>3, <3>1, <3>2
    <3>4. a.grow_feat => Ahead(a) + k < N
      <4>1. Ahead(a) \in Nat
        BY <1>1, MoreIs DEF InStep
      <4>2. QED
        BY <1>2, <1>3, <3>1, <4>1
    <3>5. /\ p = Place(a, a.n_feat_frame) /\ p + More(done, n) <= a.n_feat_alloc
          /\ a.n_feat_frame + More(done, n) <= a.n_feat_alloc
          /\ a.grow_feat => Ahead(a) + More(done, n) < a.n_feat_alloc
      BY <1>2, <1>3, <3>1, <3>3, <3>4
    <3>6. QED
      BY <2>4, <2>5, <3>5, PartIs
  <2>8. 0 + r.used = n
    BY <2>4 DEF MoreTaken
  <2>9. pc.a = b /\ pc.ret = n /\ pc.used = n
    BY <2>6, <2>8
  <2>10. QED
    BY <2>7, <2>9 DEF MiddleGives
<1>6. CASE Wraps(a, n)
  <2>1. ~a.grow_feat /\ p + n > N
    BY <1>2, <1>6 DEF Wraps
  <2>2. done >= Win
    <3>1. SUFFICES ASSUME ~(done >= Win) PROVE FALSE
      OBVIOUS
    <3>2. Ahead(a) = 0
      BY <1>1, <3>1, SizesAre DEF InStep, Settled
    <3>3. c = 0 /\ nf = 0
      BY <1>1, <1>2, <1>3, <3>2 DEF Ahead, FeatSound
    <3>4. QED
      BY <1>3, <2>1, <3>3
  <2>3. PICK m \in Nat : m = N - p
    BY <1>8
  <2>4. PICK l \in Nat : l = n - m
    BY <1>3, <2>1, <2>3
  <2>5. m \in 1 .. n /\ l \in 1 .. n /\ m + l = n /\ p + m = N /\ m + 2 * Win <= L /\ l + 2 * Win <= L
    BY <1>8, <2>1, <2>3, <2>4, SizesAre
  <2>6. PICK mid \in Nat \ {0} : mid = done + m
    BY <1>1
  <2>7. More(done, m) = m /\ More(mid, l) = l /\ More(done, n) = n
    BY <1>1, <2>2, <2>5, <2>6, MoreIs, SizesAre
  <2>8. PICK r, b : /\ r = Live(a.live, [i \in 1 .. m |-> Row(cep, i)], FALSE, FALSE)
                    /\ b = Received(a, r, p)
    OBVIOUS
  <2>9. MoreTaken(r, Ahead(a), done, m)
    <3>1. [i \in 1 .. m |-> Row(cep, i)] = [i \in 1 .. m |-> done + i]
      <4>1. ASSUME NEW i \in 1 .. m PROVE Row(cep, i) = done + i
        <5>1. i \in 1 .. n
          BY <2>5
        <5>2. i \in DOMAIN cep /\ cep[i] = done + i
          BY <5>1
        <5>3. QED
          BY <5>2 DEF Row
      <4>2. QED
        BY <4>1
    <3>2. QED
      BY <1>1, <2>5, <2>8, <3>1, LiveMiddle
  <2>10. /\ Middle(b, mid) /\ MfcSame(a, b) /\ ModeSame(a, b) /\ ReadSame(a, b)
         /\ b.n_feat_frame = a.n_feat_frame + m /\ b.n_feat_alloc = a.n_feat_alloc
    <3>1. p + m <= N /\ nf + m <= N
      BY <1>8, <2>5
    <3>2. /\ p = Place(a, a.n_feat_frame) /\ p + More(done, m) <= a.n_feat_alloc
          /\ a.n_feat_frame + More(done, m) <= a.n_feat_alloc
      BY <1>2, <1>3, <2>7, <3>1
    <3>5. a.grow_feat => Ahead(a) + More(done, m) < a.n_feat_alloc
      BY <2>1
    <3>6. Middle(a, done) /\ m \in Nat /\ MoreTaken(r, Ahead(a), done, m) /\ b = Received(a, r, p)
      BY <2>8, <2>9
    <3>3. /\ Middle(b, done + m) /\ MfcSame(a, b) /\ ModeSame(a, b) /\ ReadSame(a, b)
          /\ b.n_feat_frame = a.n_feat_frame + More(done, m) /\ b.n_feat_alloc = a.n_feat_alloc
      BY <3>2, <3>5, <3>6, PartIs
    <3>4. QED
      BY <2>6, <2>7, <3>3
  <2>11. /\ r.used = m /\ Len(r.feats) = m
    BY <2>7, <2>9 DEF MoreTaken
  <2>12. b.ok = TRUE /\ DOMAIN b = Fields /\ b.live \in Buffers /\ InStep(b.live, Ahead(b), mid)
    BY <2>10 DEF Middle, Sound
  <2>13. PICK part : part = [a |-> b, used |-> m, inptr |-> 0]
    OBVIOUS
  <2>14. FirstPart(a, cep, n, a.n_feat_alloc - StartPlace(a), FALSE) = part
    <3>1. a.n_feat_alloc - StartPlace(a) = m
      BY <1>2, <2>3
    <3>2. (m <= n) = TRUE
      BY <2>5
    <3>3. FirstPart(a, cep, n, m, FALSE) = AfterFirst(a, r, p, TRUE)
      BY <1>2, <2>8, <3>2 DEF FirstPart
    <3>4. AfterFirst(a, r, p, TRUE) = [a |-> b, used |-> r.used, inptr |-> (p + Len(r.feats)) % a.n_feat_alloc]
      BY <2>8, <2>12, AfterFirstIs
    <3>5. N % N = 0
      BY <1>3
    <3>6. (p + Len(r.feats)) % a.n_feat_alloc = 0
      BY <1>2, <2>5, <2>11, <3>5
    <3>7. QED
      BY <2>11, <2>13, <3>1, <3>3, <3>4, <3>6
  <2>15. PICK q : q = Live(b.live, SubSeq(cep, m + 1, n), FALSE, FALSE)
    OBVIOUS
  <2>16. part.a = b /\ part.used = m /\ part.inptr = 0
    BY <2>13
  <2>17. pc = AfterLast(part, q, FALSE)
    <3>1. pc = LastPart(part, cep, n, FALSE, FALSE)
      BY <1>4, <1>6, <2>14 DEF ProcessWithRoom
    <3>2. QED
      BY <2>12, <2>15, <2>16, <3>1 DEF LastPart
  <2>18. MoreTaken(q, Ahead(b), mid, l)
    <3>1. SubSeq(cep, m + 1, n) = [i \in 1 .. n - m |-> (done + m) + i]
      BY <1>1, <2>5, OfferRest
    <3>2. SubSeq(cep, m + 1, n) = [i \in 1 .. l |-> mid + i]
      BY <2>4, <2>6, <3>1
    <3>3. QED
      BY <2>5, <2>12, <2>15, <3>2, LiveMiddle
  <2>19. PICK e : e = Received(b, q, 0)
    OBVIOUS
  <2>20. Place(b, b.n_feat_frame) = 0
    <3>1. PICK x \in Nat : x = nf + m
      BY <1>3, <2>5
    <3>2. Place(b, b.n_feat_frame) = Place(a, x)
      BY <1>2, <2>10, <3>1 DEF Place, ReadSame
    <3>3. x \in -N .. N
      BY <1>3, <2>5, <3>1
    <3>4. Place(a, x) = IF c + x < 0 THEN c + x + N ELSE IF c + x < N THEN c + x ELSE c + x - N
      BY <1>1, <1>2, <3>3, PlaceIs
    <3>5. c + x = N
      BY <1>3, <2>5, <3>1
    <3>6. QED
      BY <1>3, <3>2, <3>4, <3>5
  <2>21. /\ Middle(e, mid + l) /\ MfcSame(b, e) /\ ModeSame(b, e) /\ ReadSame(b, e)
         /\ e.n_feat_frame = b.n_feat_frame + l
    <3>1. 0 + l <= N /\ b.n_feat_frame + l <= N
      <4>1. nf + m + l = nf + n /\ 0 + l <= N
        BY <1>8, <2>5
      <4>2. b.n_feat_frame = nf + m
        BY <1>2, <2>10
      <4>3. QED
        BY <1>8, <4>1, <4>2
    <3>2. ~b.grow_feat
      BY <2>1, <2>10 DEF ModeSame
    <3>3. QED
      BY <1>2, <2>7, <2>10, <2>18, <2>19, <2>20, <3>1, <3>2, PartIs
  <2>22. pc = [a |-> e, ret |-> m + q.used, used |-> m + q.used]
    BY <2>12, <2>16, <2>17, <2>19, AfterLastIs
  <2>23. m + q.used = n
    BY <2>5, <2>18 DEF MoreTaken
  <2>24. pc.a = e /\ pc.ret = n /\ pc.used = n
    BY <2>22, <2>23
  <2>25. MfcSame(a, e) /\ ModeSame(a, e) /\ ReadSame(a, e)
    BY <2>10, <2>21 DEF MfcSame, ModeSame, ReadSame
  <2>26. e.n_feat_frame = nf + n /\ mid + l = done + n
    <3>1. nf + m + l = nf + n /\ done + m + l = done + n
      BY <1>1, <1>8, <2>5
    <3>2. e.n_feat_frame = nf + m + l
      BY <1>2, <2>10, <2>21
    <3>3. QED
      BY <2>6, <3>1, <3>2
  <2>27. QED
    BY <1>2, <2>7, <2>21, <2>24, <2>25, <2>26 DEF MiddleGives
<1>7. QED
  BY <1>5, <1>6

\* acmod_process_cep in the middle of an utterance, of cepstra that feat_buf has the places for
\* or may be grown for.
LEMMA ProcessMiddle ==
  ASSUME NEW a, NEW done, Middle(a, done), NEW n \in Nat, n + 2 * Win <= L,
         NEW cep, cep = [i \in 1 .. n |-> done + i],
         ~a.grow_feat => a.n_feat_frame + n <= a.n_feat_alloc,
         NEW pc, pc = ProcessCep(a, cep)
  PROVE  MiddleGives(a, done, n, pc)
<1>1. /\ Sound(a) /\ FeatSound(a) /\ a.live \in Buffers /\ a.grow_feat \in BOOLEAN
      /\ a.state = "PROCESSING" /\ done \in Nat \ {0} /\ InStep(a.live, Ahead(a), done)
      /\ Queued(a, done) /\ Straight(a)
      /\ (Ahead(a) = 0 => a.feat_outidx = 0)
  BY DEF Middle, Sound
<1>2. Len(cep) = n
  BY <1>1, OfferIs
<1>3. Produces(a, n) = n
  BY <1>1 DEF Produces
<1>4. PICK b : b = GrownPast(Room(a, n), n)
  OBVIOUS
<1>5. pc = ProcessWithRoom(b, cep, Clamped(a, n, n), n)
  BY <1>2, <1>3, <1>4 DEF ProcessCep
<1>6. PICK N, nf, c, o : /\ N = a.n_feat_alloc /\ nf = a.n_feat_frame /\ c = a.feat_outidx
                         /\ o = a.output_frame
  OBVIOUS
<1>7. N \in Nat \ {0} /\ nf \in 0 .. N /\ c \in 0 .. N - 1 /\ o \in Nat
  BY <1>1, <1>6, SizesAre DEF FeatSound
<1>8. CASE ~a.grow_feat
  <2>1. nf + n <= N /\ ~TooMany(a, n)
    BY <1>6, <1>7, <1>8 DEF TooMany
  <2>2. b = a /\ Clamped(a, n, n) = n
    BY <1>4, <1>8, <2>1 DEF Room, Clamped, GrownPast
  <2>3. StartPlace(a) = Place(a, a.n_feat_frame)
    BY <1>8 DEF StartPlace, EndPlace, Place
  <2>4. a.n_feat_frame + n <= a.n_feat_alloc
    BY <1>6, <2>1
  <2>5. pc = ProcessWithRoom(a, cep, n, n)
    BY <1>5, <2>2
  <2>6. QED
    BY <1>8, <2>3, <2>4, <2>5, WithRoomMiddle
<1>9. CASE a.grow_feat
  <2>1. Clamped(a, n, n) = n
    BY <1>9 DEF Clamped, MayGrow
  <2>2. /\ Sound(b) /\ Queued(b, done) /\ MfcSame(a, b) /\ ModeSame(a, b) /\ ReadSame(a, b)
        /\ b.live = a.live /\ b.n_feat_frame = nf
        /\ b.n_feat_alloc >= a.n_feat_alloc /\ Ahead(b) + n < b.n_feat_alloc
        /\ Straight(b)
    BY <1>1, <1>4, <1>6, <1>9, RoomMade
  <2>3. PICK M : M = b.n_feat_alloc
    OBVIOUS
  <2>4. M \in Nat /\ M >= N
    BY <1>6, <2>2, <2>3 DEF Sound, FeatSound
  <2>5. b.feat_outidx = o /\ b.output_frame = o /\ Ahead(b) = o + nf /\ Ahead(a) = o + nf
    BY <1>1, <1>6, <1>9, <2>2 DEF Straight, ReadSame, Ahead
  <2>6. b.grow_feat /\ b.state = "PROCESSING"
    BY <1>1, <1>9, <2>2 DEF ModeSame
  <2>7. Middle(b, done)
    BY <1>1, <1>6, <2>2, <2>5, <2>6 DEF Middle, ReadSame
  <2>8. o + nf + n < M
    BY <2>2, <2>3, <2>5
  <2>9. StartPlace(b) = o + nf
    BY <2>2, <2>5, <2>6 DEF StartPlace, EndPlace
  <2>10. Place(b, b.n_feat_frame) = o + nf
    <3>1. PICK x \in Nat : x = o + nf
      BY <1>7
    <3>2. x \in 0 .. M - 1 /\ M \in Nat
      BY <1>7, <2>4, <2>8, <3>1
    <3>3. x % M = x
      BY <3>2
    <3>4. Place(b, b.n_feat_frame) = x % M
      BY <2>2, <2>3, <2>5, <3>1 DEF Place
    <3>5. QED
      BY <3>1, <3>3, <3>4
  <2>11. ~Wraps(b, n)
    BY <1>7, <2>3, <2>4, <2>8, <2>9 DEF Wraps
  <2>12. b.n_feat_frame + n <= b.n_feat_alloc
    BY <1>7, <2>2, <2>3, <2>4, <2>8
  <2>13. pc = ProcessWithRoom(b, cep, n, n)
    BY <1>5, <2>1
  <2>14. StartPlace(b) = Place(b, b.n_feat_frame) /\ Ahead(b) + n < b.n_feat_alloc
    BY <2>2, <2>9, <2>10
  <2>15. MiddleGives(b, done, n, pc)
    BY <2>7, <2>11, <2>12, <2>13, <2>14, WithRoomMiddle
  <2>16. QED
    BY <1>6, <2>2, <2>15 DEF MiddleGives, MfcSame, ModeSame, ReadSame
<1>10. QED
  BY <1>1, <1>8, <1>9

---------------------------------------------------------------------------
(* The first cepstra of an utterance. *)

\* b is a with another state.
Restated(a, b, state) ==
  /\ DOMAIN b = Fields /\ MfcSame(a, b) /\ ReadSame(a, b)
  /\ b.state = state /\ b.grow_feat = a.grow_feat
  /\ b.ok = a.ok /\ b.live = a.live
  /\ b.n_feat_alloc = a.n_feat_alloc /\ b.feat_buf = a.feat_buf
  /\ b.n_feat_frame = a.n_feat_frame

LEMMA RestatedFields ==
  ASSUME NEW a, DOMAIN a = Fields, NEW state
  PROVE  Restated(a, [a EXCEPT !.state = state], state)
BY DEF Fields, MfcSame, ReadSame, Restated

\* The state is not seen by the rings.
LEMMA RestatedIs ==
  ASSUME NEW a, Sound(a), NEW state \in States, NEW b, Restated(a, b, state)
  PROVE  /\ Sound(b) /\ Ahead(b) = Ahead(a)
         /\ \A last : Queued(a, last) => Queued(b, last)
<1>1. Sound(b)
  BY DEF Sound, MfcSound, FeatSound, Restated, MfcSame, ReadSame
<1>2. Ahead(b) = Ahead(a)
  BY DEF Ahead, Restated, ReadSame
<1>3. ASSUME NEW last, Queued(a, last) PROVE Queued(b, last)
  BY <1>3 DEF Queued, Restated, ReadSame, Place
<1>4. QED
  BY <1>1, <1>2, <1>3

\* The acmod of an utterance with no data yet.
Start(a) ==
  /\ Sound(a) /\ a.state = "STARTED"
  /\ a.output_frame = 0 /\ a.n_feat_frame = 0 /\ a.feat_outidx = 0

\* The first m cepstra are taken, and give the features that do not take what comes.
LEMMA LiveStart ==
  ASSUME NEW buf \in Buffers, NEW m \in Nat \ {0}, m + 2 * Win <= L,
         NEW s, s = [i \in 1 .. m |-> 0 + i],
         NEW r, r = Live(buf, s, TRUE, FALSE)
  PROVE  /\ r.live \in Buffers /\ r.used = m /\ r.feats \in Seq(FeatureRows)
         /\ Len(r.feats) = Settled(m) /\ Agree(r.feats, 0, m)
         /\ InStep(r.live, Settled(m), m)
<1>1. s \in Seq(Nat) /\ Len(s) = m
  BY OfferIs
<1>2. r.used = m
  <2>1. PICK h \in Nat : h = 0
    OBVIOUS
  <2>2. h = Held(buf, TRUE) /\ h + Win + Len(s) <= L
    BY <1>1, <2>1, SizesAre DEF Held
  <2>3. QED
    BY <1>1, <2>2, TakesAll
<1>3. CallGives(0, 0, m, FALSE, r.live, r.used, r.feats)
  BY FirstCall
<1>4. PICK l, f : l = r.live /\ f = r.feats
  OBVIOUS
<1>5. CallGives(0, 0, m, FALSE, l, m, f)
  BY <1>2, <1>3, <1>4
<1>6. 0 + m = m /\ m > 0
  OBVIOUS
<1>7. l \in Buffers /\ f \in Seq(FeatureRows) /\ Agree(f, 0, m) /\ InStep(l, 0 + Len(f), m)
  BY <1>5, <1>6 DEF CallGives
<1>8. 0 + Len(f) = Len(f)
  BY <1>7
<1>9. Len(f) = Settled(m)
  BY <1>7, <1>8 DEF InStep
<1>10. QED
  BY <1>2, <1>4, <1>7, <1>8, <1>9

\* What acmod_process_cep made of the first n cepstra of an utterance.
StartGives(a, n, pc) ==
  /\ pc.used = n /\ pc.ret = n
  /\ Middle(pc.a, n) /\ MfcSame(a, pc.a) /\ pc.a.grow_feat = a.grow_feat /\ ReadSame(a, pc.a)
  /\ pc.a.n_feat_frame = Settled(n)

\* Storing the features of the first cepstra, when the assertion holds.
LEMMA AfterBeginIs ==
  ASSUME NEW part, NEW r
  PROVE  AfterLast(part, r, TRUE) =
           [a |-> [Received(part.a, r, part.inptr) EXCEPT !.state = "PROCESSING"],
            ret |-> part.used + r.used, used |-> part.used + r.used]
BY Zenon DEF AfterLast

\* The features are stored from the first place on, and the utterance is begun.
LEMMA WithRoomStart ==
  ASSUME NEW a, Start(a), Straight(a), NEW n \in Nat \ {0}, n + 2 * Win <= L,
         NEW cep, cep = [i \in 1 .. n |-> 0 + i], NEW nfeat, nfeat = n - Win,
         StartPlace(a) = 0, nfeat <= a.n_feat_alloc,
         a.grow_feat => nfeat < a.n_feat_alloc,
         NEW pc, pc = ProcessWithRoom(a, cep, n, nfeat)
  PROVE  StartGives(a, n, pc)
<1>1. /\ Sound(a) /\ FeatSound(a) /\ DOMAIN a = Fields /\ a.live \in Buffers /\ a.ok = TRUE
      /\ a.state = "STARTED" /\ a.output_frame = 0 /\ a.n_feat_frame = 0 /\ a.feat_outidx = 0
  BY DEF Start, Sound
<1>2. PICK N \in Nat \ {0} : N = a.n_feat_alloc
  BY <1>1, SizesAre DEF FeatSound
<1>3. ~Wraps(a, nfeat)
  BY <1>2, SizesAre DEF Wraps
<1>4. PICK part, r : /\ part = [a |-> a, used |-> 0, inptr |-> 0]
                     /\ r = Live(a.live, SubSeq(cep, 0 + 1, n), TRUE, FALSE)
  OBVIOUS
<1>5. part.a = a /\ part.used = 0 /\ part.inptr = 0 /\ part.a.ok
  BY <1>1, <1>4
<1>6. pc = AfterLast(part, r, TRUE)
  <2>1. pc = LastPart(part, cep, n, TRUE, FALSE)
    <3>1. a.state = "STARTED" /\ ~(a.state = "ENDED")
      BY <1>1
    <3>2. QED
      BY <1>3, <1>4, <3>1 DEF ProcessWithRoom
  <2>2. QED
    BY <1>4, <1>5, <2>1 DEF LastPart
<1>7. /\ r.live \in Buffers /\ r.used = n /\ r.feats \in Seq(FeatureRows)
      /\ Len(r.feats) = Settled(n) /\ Agree(r.feats, 0, n)
      /\ InStep(r.live, Settled(n), n)
  <2>1. SubSeq(cep, 0 + 1, n) = [i \in 1 .. n - 0 |-> (0 + 0) + i]
    BY OfferRest
  <2>2. n - 0 = n /\ 0 + 0 = 0
    OBVIOUS
  <2>3. SubSeq(cep, 0 + 1, n) = [i \in 1 .. n |-> 0 + i]
    BY <2>1, <2>2
  <2>4. PICK s : s = SubSeq(cep, 0 + 1, n)
    OBVIOUS
  <2>5. s = [i \in 1 .. n |-> 0 + i] /\ r = Live(a.live, s, TRUE, FALSE)
    BY <1>4, <2>3, <2>4
  <2>6. PICK buf \in Buffers : buf = a.live
    BY <1>1
  <2>7. r = Live(buf, s, TRUE, FALSE)
    BY <2>5, <2>6
  <2>8. QED
    BY <2>5, <2>7, LiveStart
<1>8. PICK k \in Nat : k = Settled(n)
  <2>1. Settled(n) \in Nat
    BY MoreIs
  <2>2. QED
    BY <2>1
<1>9. k <= N /\ (a.grow_feat => k < N)
  BY <1>2, <1>8, SizesAre DEF Settled
<1>10. Queued(a, 0) /\ Ahead(a) = 0
  <2>1. -0 .. 0 - 1 = {}
    OBVIOUS
  <2>2. QED
    BY <1>1, <2>1 DEF Queued, Ahead
<1>11. Place(a, a.n_feat_frame) = 0
  <2>1. 0 % N = 0 /\ 0 + 0 = 0
    OBVIOUS
  <2>2. QED
    BY <1>1, <1>2, <2>1 DEF Place
<1>12. PICK b : b = Received(a, r, 0)
  OBVIOUS
<1>13. /\ Sound(b) /\ Queued(b, n) /\ MfcSame(a, b) /\ ModeSame(a, b) /\ ReadSame(a, b)
       /\ b.live = r.live /\ b.n_feat_frame = k
       /\ b.n_feat_alloc = N
  <2>1. /\ \A t \in 1 .. Ahead(a) : Ideal(0)[t] = Ideal(n)[t]
        /\ Agree(r.feats, Ahead(a), n) /\ 0 \in Nat /\ n \in Nat
    BY <1>7, <1>10
  <2>2. 0 + Len(r.feats) <= a.n_feat_alloc /\ a.n_feat_frame + Len(r.feats) <= a.n_feat_alloc
    BY <1>1, <1>2, <1>7, <1>8, <1>9
  <2>3. /\ Sound(b) /\ Queued(b, n) /\ MfcSame(a, b) /\ ModeSame(a, b) /\ ReadSame(a, b)
        /\ b.live = r.live /\ b.n_feat_frame = a.n_feat_frame + Len(r.feats)
        /\ b.n_feat_alloc = a.n_feat_alloc
    BY <1>1, <1>7, <1>10, <1>11, <1>12, <2>1, <2>2, ReceivedIs
  <2>4. QED
    BY <1>1, <1>2, <1>7, <1>8, <2>3
<1>14. PICK e : e = [b EXCEPT !.state = "PROCESSING"]
  OBVIOUS
<1>15. Restated(b, e, "PROCESSING")
  BY <1>13, <1>14, RestatedFields DEF Sound
<1>16. Sound(e) /\ Ahead(e) = Ahead(b) /\ Queued(e, n)
  BY <1>13, <1>15, RestatedIs DEF States
<1>17. /\ e.state = "PROCESSING" /\ MfcSame(a, e) /\ ReadSame(a, e) /\ e.grow_feat = a.grow_feat
       /\ e.live = r.live /\ e.n_feat_frame = k /\ e.n_feat_alloc = N
  BY <1>13, <1>15 DEF Restated, MfcSame, ReadSame, ModeSame
<1>18. Ahead(e) = k /\ e.feat_outidx = 0 /\ e.output_frame = 0
  BY <1>1, <1>17 DEF Ahead, ReadSame
<1>19. Straight(e)
  BY <1>9, <1>17, <1>18 DEF Straight
<1>20. Middle(e, n)
  BY <1>7, <1>8, <1>16, <1>17, <1>18, <1>19 DEF Middle
<1>21. pc.a = e /\ pc.ret = n /\ pc.used = n
  <2>1. pc = [a |-> e, ret |-> 0 + r.used, used |-> 0 + r.used]
    BY <1>5, <1>6, <1>12, <1>14, AfterBeginIs
  <2>2. 0 + r.used = n
    BY <1>7
  <2>3. QED
    BY <2>1, <2>2
<1>22. QED
  BY <1>8, <1>17, <1>20, <1>21 DEF StartGives

\* acmod_process_cep on the first cepstra of an utterance.
LEMMA ProcessStart ==
  ASSUME NEW a, Start(a), NEW n \in Nat \ {0}, n + 2 * Win <= L,
         NEW cep, cep = [i \in 1 .. n |-> 0 + i],
         ~a.grow_feat => n <= a.n_feat_alloc,
         NEW pc, pc = ProcessCep(a, cep)
  PROVE  StartGives(a, n, pc)
<1>1. /\ Sound(a) /\ FeatSound(a) /\ DOMAIN a = Fields /\ a.grow_feat \in BOOLEAN
      /\ a.state = "STARTED" /\ a.output_frame = 0 /\ a.n_feat_frame = 0 /\ a.feat_outidx = 0
  BY DEF Start, Sound
<1>2. Len(cep) = n
  BY OfferIs
<1>3. PICK nfeat \in Int : nfeat = n - Win
  BY SizesAre
<1>4. Produces(a, n) = nfeat
  BY <1>1, <1>3 DEF Produces
<1>5. PICK b : b = GrownPast(Room(a, nfeat), nfeat)
  OBVIOUS
<1>6. pc = ProcessWithRoom(b, cep, Clamped(a, n, nfeat), nfeat)
  BY <1>2, <1>4, <1>5 DEF ProcessCep
<1>7. PICK N \in Nat \ {0} : N = a.n_feat_alloc
  BY <1>1, SizesAre DEF FeatSound
<1>8. Queued(a, 0) /\ Ahead(a) = 0
  <2>1. -0 .. 0 - 1 = {}
    OBVIOUS
  <2>2. QED
    BY <1>1, <2>1 DEF Queued, Ahead
<1>9. Straight(a)
  BY <1>1, <1>7, <1>8 DEF Straight
<1>10. CASE ~a.grow_feat
  <2>1. nfeat <= N
    BY <1>3, <1>7, <1>10, SizesAre
  <2>2. ~TooMany(a, nfeat)
    BY <1>1, <1>7, <2>1 DEF TooMany
  <2>3. b = a /\ Clamped(a, n, nfeat) = n
    BY <1>5, <1>10, <2>2 DEF Room, Clamped, GrownPast
  <2>4. StartPlace(a) = 0
    <3>1. 0 % N = 0 /\ 0 + 0 = 0
      OBVIOUS
    <3>2. QED
      BY <1>1, <1>7, <1>10, <3>1 DEF StartPlace, EndPlace
  <2>5. pc = ProcessWithRoom(a, cep, n, nfeat)
    BY <1>6, <2>3
  <2>6. QED
    BY <1>3, <1>7, <1>9, <1>10, <2>1, <2>4, <2>5, WithRoomStart
<1>11. CASE a.grow_feat
  <2>1. Clamped(a, n, nfeat) = n
    BY <1>11 DEF Clamped, MayGrow
  <2>2. /\ Sound(b) /\ MfcSame(a, b) /\ ModeSame(a, b) /\ ReadSame(a, b)
        /\ b.live = a.live /\ b.n_feat_frame = a.n_feat_frame
        /\ b.n_feat_alloc >= a.n_feat_alloc /\ Ahead(b) + nfeat < b.n_feat_alloc
        /\ Straight(b)
    BY <1>1, <1>5, <1>8, <1>9, <1>11, RoomMade
  <2>3. PICK M \in Nat \ {0} : M = b.n_feat_alloc
    BY <2>2, SizesAre DEF Sound, FeatSound
  <2>4. /\ b.feat_outidx = 0 /\ b.output_frame = 0 /\ b.n_feat_frame = 0
        /\ b.state = "STARTED" /\ b.grow_feat /\ Ahead(b) = 0
    BY <1>1, <1>11, <2>2 DEF ReadSame, ModeSame, Ahead
  <2>5. Start(b)
    BY <2>2, <2>4 DEF Start
  <2>6. nfeat < M
    BY <1>3, <2>2, <2>3, <2>4
  <2>7. StartPlace(b) = 0
    BY <2>4 DEF StartPlace, EndPlace
  <2>8. pc = ProcessWithRoom(b, cep, n, nfeat)
    BY <1>6, <2>1
  <2>9. nfeat <= b.n_feat_alloc /\ nfeat < b.n_feat_alloc
    BY <1>3, <2>3, <2>6
  <2>10. StartGives(b, n, pc)
    BY <1>3, <2>2, <2>5, <2>7, <2>8, <2>9, WithRoomStart
  <2>11. QED
    BY <2>2, <2>10 DEF StartGives, MfcSame, ModeSame, ReadSame
<1>12. QED
  BY <1>1, <1>10, <1>11

---------------------------------------------------------------------------
(* The ring of cepstra is emptied. *)

\* What does not belong to the ring of cepstra is as before.
HeadSame(a, b) ==
  /\ DOMAIN b = Fields
  /\ b.state = a.state /\ b.grow_feat = a.grow_feat /\ b.ok = a.ok /\ b.live = a.live
  /\ b.n_feat_alloc = a.n_feat_alloc /\ b.feat_buf = a.feat_buf
  /\ b.n_feat_frame = a.n_feat_frame
  /\ b.feat_outidx = a.feat_outidx /\ b.output_frame = a.output_frame

\* What is done to the cepstra alone leaves the features as they were.
LEMMA HeadSameIs ==
  ASSUME NEW a, Sound(a), NEW b, HeadSame(a, b), MfcSound(b)
  PROVE  /\ Sound(b) /\ Ahead(b) = Ahead(a)
         /\ \A last : Queued(a, last) => Queued(b, last)
         /\ \A done : Middle(a, done) => Middle(b, done)
         /\ Start(a) => Start(b)
<1>1. Sound(b)
  BY DEF Sound, FeatSound, HeadSame
<1>2. Ahead(b) = Ahead(a)
  BY DEF Ahead, HeadSame
<1>3. ASSUME NEW last, Queued(a, last) PROVE Queued(b, last)
  BY <1>3 DEF Queued, HeadSame, Place
<1>4. ASSUME NEW done, Middle(a, done) PROVE Middle(b, done)
  <2>1. Queued(b, done) /\ Straight(b)
    BY <1>2, <1>3, <1>4 DEF Middle, Straight, HeadSame
  <2>2. QED
    BY <1>1, <1>2, <1>4, <2>1 DEF Middle, HeadSame
<1>5. Start(a) => Start(b)
  BY <1>1 DEF Start, HeadSame
<1>6. QED
  BY <1>1, <1>2, <1>3, <1>4, <1>5

\* The state can be set again.
LEMMA MiddleStays ==
  ASSUME NEW a, NEW done, Middle(a, done), NEW b, Restated(a, b, "PROCESSING")
  PROVE  Middle(b, done)
<1>1. Sound(b) /\ Ahead(b) = Ahead(a) /\ Queued(b, done)
  BY RestatedIs DEF Middle, States
<1>2. Straight(b)
  BY <1>1 DEF Middle, Straight, Restated, ReadSame
<1>3. QED
  BY <1>1, <1>2 DEF Middle, Restated, ReadSame

\* The rows in use hold the cepstra after the first done.
MfcHolds(a, done) ==
  \A i \in 0 .. a.n_mfc_frame - 1 :
    a.mfc_buf[(a.mfc_outidx + i) % a.n_mfc_alloc] = done + i + 1

\* The fields that taking n rows sets, and the others.
LEMMA MfcTakenFields ==
  ASSUME NEW a, DOMAIN a = Fields, NEW n
  PROVE  LET b == MfcTaken(a, n)
         IN /\ HeadSame(a, b)
            /\ b.n_mfc_alloc = a.n_mfc_alloc /\ b.mfc_buf = a.mfc_buf
            /\ b.n_mfc_frame = a.n_mfc_frame - n
            /\ b.mfc_outidx = (a.mfc_outidx + n) % a.n_mfc_alloc
            /\ b.ov = a.ov /\ b.ncep = a.ncep
BY DEF Fields, MfcTaken, HeadSame

\* Taking n rows that are there is sound.
LEMMA MfcTakenIs ==
  ASSUME NEW a, Sound(a), NEW n \in 0 .. a.n_mfc_frame, NEW b, b = MfcTaken(a, n)
  PROVE  /\ Sound(b) /\ HeadSame(a, b)
         /\ b.n_mfc_alloc = a.n_mfc_alloc /\ b.mfc_buf = a.mfc_buf
         /\ b.n_mfc_frame = a.n_mfc_frame - n
         /\ b.mfc_outidx = (a.mfc_outidx + n) % a.n_mfc_alloc
         /\ b.ov = a.ov /\ b.ncep = a.ncep
<1>1. /\ HeadSame(a, b)
      /\ b.n_mfc_alloc = a.n_mfc_alloc /\ b.mfc_buf = a.mfc_buf
      /\ b.n_mfc_frame = a.n_mfc_frame - n
      /\ b.mfc_outidx = (a.mfc_outidx + n) % a.n_mfc_alloc
      /\ b.ov = a.ov /\ b.ncep = a.ncep
  BY MfcTakenFields DEF Sound
<1>2. PICK M, x : M = a.n_mfc_alloc /\ x = a.mfc_outidx + n
  OBVIOUS
<1>3. M \in Nat \ {0} /\ x \in Nat
  BY <1>2, SizesAre DEF Sound, MfcSound
<1>4. x % M \in 0 .. M - 1
  BY <1>3
<1>5. MfcSound(b)
  <2>1. b.n_mfc_frame \in 0 .. b.n_mfc_alloc
    BY <1>1 DEF Sound, MfcSound
  <2>2. QED
    BY <1>1, <1>2, <1>4, <2>1 DEF Sound, MfcSound
<1>6. QED
  BY <1>1, <1>5, HeadSameIs

\* Rows that do not run over the end of the buffer.
LEMMA MfcRowsAre ==
  ASSUME NEW a, Sound(a), NEW done \in Nat, MfcHolds(a, done), NEW n \in 0 .. a.n_mfc_frame,
         a.mfc_outidx + n <= a.n_mfc_alloc
  PROVE  MfcRows(a, n) = [i \in 1 .. n |-> done + i]
<1>1. PICK M, c : M = a.n_mfc_alloc /\ c = a.mfc_outidx
  OBVIOUS
<1>2. /\ M \in Nat \ {0} /\ c \in 0 .. M - 1 /\ n \in Nat /\ c + n <= M
      /\ DOMAIN a.mfc_buf = 0 .. M - 1 /\ a.n_mfc_frame \in Nat
  <2>1. MfcSound(a)
    BY DEF Sound
  <2>2. M \in Nat /\ M >= NMfc /\ c \in 0 .. M - 1 /\ a.n_mfc_frame \in Nat
    BY <1>1, <2>1 DEF MfcSound
  <2>3. M \in Nat \ {0} /\ n \in Nat /\ c + n <= M
    BY <1>1, <2>2, SizesAre
  <2>4. DOMAIN a.mfc_buf = 0 .. M - 1
    BY <1>1, <2>1 DEF MfcSound, Rows
  <2>5. QED
    BY <2>2, <2>3, <2>4
<1>3. ASSUME NEW i \in 1 .. n PROVE Row(a.mfc_buf, c + i - 1) = done + i
  <2>1. PICK j \in Nat : j = i - 1
    BY <1>2
  <2>2. j \in 0 .. a.n_mfc_frame - 1 /\ c + j \in 0 .. M - 1 /\ c + i - 1 = c + j
    BY <1>2, <2>1
  <2>3. a.mfc_buf[(c + j) % M] = done + j + 1
    BY <1>1, <2>2 DEF MfcHolds
  <2>4. (c + j) % M = c + j
    BY <1>2, <2>2
  <2>5. done + j + 1 = done + i
    BY <1>2, <2>1
  <2>6. QED
    BY <1>2, <2>2, <2>3, <2>4, <2>5 DEF Row
<1>4. MfcRows(a, n) = [i \in 1 .. n |-> Row(a.mfc_buf, c + i - 1)]
  BY <1>1 DEF MfcRows
<1>5. QED
  BY <1>3, <1>4

\* What b is when n rows of a's cepstra, after the first done, were made features of.
MfcGives(a, done, n, b) ==
  /\ Middle(b, done + n) /\ b.grow_feat = a.grow_feat /\ ReadSame(a, b)
  /\ b.n_feat_frame = a.n_feat_frame + More(done, n)
  /\ b.n_mfc_alloc = a.n_mfc_alloc /\ b.mfc_buf = a.mfc_buf
  /\ b.n_mfc_frame = a.n_mfc_frame - n
  /\ b.mfc_outidx = (a.mfc_outidx + n) % a.n_mfc_alloc
  /\ b.ov = a.ov /\ b.ncep = a.ncep

\* The rows that acmod_process_cep made features of are taken.
LEMMA MfcDoneIs ==
  ASSUME NEW a, Sound(a), NEW done \in Nat, NEW n \in 0 .. a.n_mfc_frame,
         NEW pc, pc.ret = n, Middle(pc.a, done + n), MfcSame(a, pc.a),
         pc.a.grow_feat = a.grow_feat, ReadSame(a, pc.a),
         pc.a.n_feat_frame = a.n_feat_frame + More(done, n),
         NEW b, b = MfcDone(pc)
  PROVE  MfcGives(a, done, n, b)
<1>1. PICK c : c = pc.a
  OBVIOUS
<1>2. /\ Sound(c) /\ MfcSame(a, c) /\ c.n_mfc_frame = a.n_mfc_frame
      /\ Middle(c, done + n)
  BY <1>1 DEF Middle, MfcSame
<1>3. b = MfcTaken(c, n) /\ n \in 0 .. c.n_mfc_frame
  BY <1>1, <1>2 DEF MfcDone
<1>4. /\ Sound(b) /\ HeadSame(c, b)
      /\ b.n_mfc_alloc = c.n_mfc_alloc /\ b.mfc_buf = c.mfc_buf
      /\ b.n_mfc_frame = c.n_mfc_frame - n
      /\ b.mfc_outidx = (c.mfc_outidx + n) % c.n_mfc_alloc
      /\ b.ov = c.ov /\ b.ncep = c.ncep
  BY <1>2, <1>3, MfcTakenIs
<1>5. Middle(b, done + n)
  BY <1>2, <1>4, HeadSameIs DEF Sound
<1>6. b.grow_feat = c.grow_feat /\ b.n_feat_frame = c.n_feat_frame /\ ReadSame(c, b)
  BY <1>4 DEF HeadSame, ReadSame
<1>7. b.grow_feat = a.grow_feat /\ ReadSame(a, b) /\ b.n_feat_frame = a.n_feat_frame + More(done, n)
  BY <1>1, <1>6 DEF ReadSame
<1>8. QED
  BY <1>2, <1>4, <1>5, <1>7 DEF MfcGives, MfcSame

\* The features of n rows have places or may be grown for.
Takes(a, n) == ~a.grow_feat => a.n_feat_frame + n <= NFeat

\* They then have places in feat_buf itself.
LEMMA TakesIs ==
  ASSUME NEW a, Sound(a), NEW n \in Nat, Takes(a, n)
  PROVE  ~a.grow_feat => a.n_feat_frame + n <= a.n_feat_alloc
<1>1. PICK N, nf : N = a.n_feat_alloc /\ nf = a.n_feat_frame
  OBVIOUS
<1>2. N \in Nat /\ nf \in Nat /\ N >= NFeat /\ NFeat \in Nat
  BY <1>1, SizesAre DEF Sound, FeatSound
<1>3. QED
  BY <1>1, <1>2 DEF Takes

\* The rows up to the end of the buffer, or all of them; of the first of an utterance too.
LEMMA MfcPartIs ==
  ASSUME NEW a, NEW done \in Nat, Middle(a, done), MfcHolds(a, done), NEW n \in 0 .. a.n_mfc_frame,
         a.mfc_outidx + n <= a.n_mfc_alloc, n + 2 * Win <= L, Takes(a, n),
         NEW b, b = MfcDone(ProcessCep(a, MfcRows(a, n)))
  PROVE  MfcGives(a, done, n, b)
<1>1. PICK cep, pc : cep = MfcRows(a, n) /\ pc = ProcessCep(a, cep)
  OBVIOUS
<1>2. Sound(a) /\ done \in Nat
  BY DEF Middle
<1>3. cep = [i \in 1 .. n |-> done + i]
  BY <1>1, <1>2, MfcRowsAre
<1>4. n \in Nat
  BY <1>2 DEF Sound, MfcSound
<1>5. MiddleGives(a, done, n, pc)
  BY <1>1, <1>2, <1>3, <1>4, TakesIs, ProcessMiddle
<1>6. /\ pc.ret = n /\ Middle(pc.a, done + n) /\ MfcSame(a, pc.a)
      /\ pc.a.grow_feat = a.grow_feat /\ ReadSame(a, pc.a)
      /\ pc.a.n_feat_frame = a.n_feat_frame + More(done, n)
  BY <1>5 DEF MiddleGives, ModeSame
<1>7. b = MfcDone(pc)
  BY <1>1
<1>8. QED
  BY <1>2, <1>6, <1>7, MfcDoneIs

\* The same for the first rows of an utterance.
LEMMA MfcStartIs ==
  ASSUME NEW a, Start(a), MfcHolds(a, 0), NEW n \in 1 .. a.n_mfc_frame,
         a.mfc_outidx + n <= a.n_mfc_alloc, n + 2 * Win <= L, Takes(a, n),
         NEW b, b = MfcDone(ProcessCep(a, MfcRows(a, n)))
  PROVE  MfcGives(a, 0, n, b)
<1>1. PICK cep, pc : cep = MfcRows(a, n) /\ pc = ProcessCep(a, cep)
  OBVIOUS
<1>2. Sound(a) /\ a.n_feat_frame = 0
  BY DEF Start
<1>3. n \in Nat \ {0} /\ n \in 0 .. a.n_mfc_frame
  BY <1>2 DEF Sound, MfcSound
<1>4. cep = [i \in 1 .. n |-> 0 + i]
  BY <1>1, <1>2, <1>3, MfcRowsAre
<1>5. ~a.grow_feat => n <= a.n_feat_alloc
  <2>1. 0 + n = n
    BY <1>3
  <2>2. QED
    BY <1>2, <1>3, <2>1, TakesIs
<1>6. StartGives(a, n, pc)
  BY <1>1, <1>3, <1>4, <1>5, ProcessStart
<1>7. More(0, n) = Settled(n) /\ 0 + Settled(n) = Settled(n) /\ 0 + n = n
  <2>1. 0 + n = n /\ Settled(0) = 0 /\ Settled(n) \in Nat
    BY <1>3, SizesAre DEF Settled
  <2>2. QED
    BY <2>1 DEF More
<1>8. /\ pc.ret = n /\ Middle(pc.a, 0 + n) /\ MfcSame(a, pc.a)
      /\ pc.a.grow_feat = a.grow_feat /\ ReadSame(a, pc.a)
      /\ pc.a.n_feat_frame = a.n_feat_frame + More(0, n)
  BY <1>2, <1>6, <1>7 DEF StartGives
<1>9. b = MfcDone(pc)
  BY <1>1
<1>10. QED
  BY <1>2, <1>3, <1>8, <1>9, MfcDoneIs

\* acmod_process_mfcbuf in the middle of an utterance: every row, in two parts when they run
\* over the end of the buffer.
LEMMA ProcessMfcbufIs ==
  ASSUME NEW a, NEW done \in Nat, Middle(a, done), MfcHolds(a, done),
         a.n_mfc_frame + 2 * Win <= L, Takes(a, a.n_mfc_frame),
         NEW b, b = ProcessMfcbuf(a)
  PROVE  /\ Middle(b, done + a.n_mfc_frame) /\ b.grow_feat = a.grow_feat /\ ReadSame(a, b)
         /\ b.n_feat_frame = a.n_feat_frame + More(done, a.n_mfc_frame)
         /\ b.n_mfc_alloc = a.n_mfc_alloc /\ b.n_mfc_frame = 0
         /\ b.ov = a.ov /\ b.ncep = a.ncep
<1>1. Sound(a) /\ MfcSound(a) /\ a.state = "PROCESSING" /\ DOMAIN a = Fields /\ a.ok = TRUE
  BY DEF Middle, Sound
<1>2. PICK M, k, c : M = a.n_mfc_alloc /\ k = a.n_mfc_frame /\ c = a.mfc_outidx
  OBVIOUS
<1>3. M \in Nat \ {0} /\ k \in 0 .. M /\ c \in 0 .. M - 1 /\ k \in Nat /\ k + 2 * Win <= L
  BY <1>1, <1>2, SizesAre DEF MfcSound
<1>4. CASE c + k <= M
  <2>1. b = MfcDone(ProcessCep(a, MfcRows(a, k)))
    <3>1. ~(c + k > M)
      BY <1>3, <1>4
    <3>2. b = MfcLast(a)
      BY <1>2, <3>1 DEF ProcessMfcbuf
    <3>3. QED
      BY <1>1, <1>2, <1>4, <3>2 DEF MfcLast
  <2>2. k \in 0 .. a.n_mfc_frame /\ a.mfc_outidx + k <= a.n_mfc_alloc
    BY <1>2, <1>3, <1>4
  <2>3. MfcGives(a, done, k, b)
    BY <1>2, <1>3, <2>1, <2>2, MfcPartIs
  <2>4. k - k = 0
    BY <1>3
  <2>5. QED
    BY <1>2, <2>3, <2>4 DEF MfcGives
<1>5. CASE ~(c + k <= M)
  <2>1. PICK m \in Nat : m = M - c
    BY <1>3
  <2>2. PICK l \in Nat : l = k - m
    BY <1>3, <1>5, <2>1
  <2>3. /\ m \in 0 .. k /\ m + l = k /\ c + m = M /\ c + k > M /\ l <= M
        /\ m + 2 * Win <= L /\ l + 2 * Win <= L
    BY <1>3, <1>5, <2>1, <2>2, SizesAre
  <2>4. PICK e : e = [a EXCEPT !.state = "PROCESSING"]
    OBVIOUS
  <2>5. e = [a EXCEPT !.state = IF @ = "ENDED" THEN "PROCESSING" ELSE @]
    BY <1>1, <2>4
  <2>6. Restated(a, e, "PROCESSING")
    BY <1>1, <2>4, RestatedFields
  <2>7. Middle(e, done)
    BY <2>6, MiddleStays
  <2>8. MfcHolds(e, done) /\ MfcRows(e, m) = MfcRows(a, m)
    BY <2>6 DEF MfcHolds, MfcRows, Restated, MfcSame
  <2>9. PICK f : f = MfcDone(ProcessCep(e, MfcRows(e, m)))
    OBVIOUS
  <2>10. MfcFirst(a) = f
    <3>1. a.n_mfc_alloc - a.mfc_outidx = m
      BY <1>2, <2>1
    <3>2. QED
      BY <2>5, <2>8, <2>9, <3>1 DEF MfcFirst
  <2>11. /\ e.n_mfc_frame = k /\ e.mfc_outidx = c /\ e.n_mfc_alloc = M
         /\ e.grow_feat = a.grow_feat /\ e.n_feat_frame = a.n_feat_frame /\ ReadSame(a, e)
         /\ e.mfc_buf = a.mfc_buf /\ e.ov = a.ov /\ e.ncep = a.ncep
    BY <1>2, <2>6 DEF Restated, MfcSame
  <2>12. PICK nf \in Nat : nf = a.n_feat_frame
    BY <1>1 DEF Sound, FeatSound
  <2>13. Takes(e, m)
    BY <1>2, <1>3, <2>3, <2>11, <2>12, SizesAre DEF Takes
  <2>14. MfcGives(e, done, m, f)
    <3>1. m \in 0 .. e.n_mfc_frame /\ e.mfc_outidx + m <= e.n_mfc_alloc
      BY <1>3, <2>3, <2>11
    <3>2. QED
      BY <2>3, <2>7, <2>8, <2>9, <2>13, <3>1, MfcPartIs
  <2>15. PICK g : g = [f EXCEPT !.state = a.state]
    OBVIOUS
  <2>16. Restated(f, g, "PROCESSING")
    BY <1>1, <2>14, <2>15, RestatedFields DEF MfcGives, Middle, Sound
  <2>17. PICK mid \in Nat : mid = done + m
    OBVIOUS
  <2>18. Middle(g, mid)
    BY <2>14, <2>16, <2>17, MiddleStays DEF MfcGives
  <2>19. /\ g.n_mfc_frame = l /\ g.mfc_outidx = 0 /\ g.n_mfc_alloc = M
         /\ g.grow_feat = a.grow_feat /\ g.n_feat_frame = nf + More(done, m) /\ ReadSame(a, g)
         /\ g.mfc_buf = a.mfc_buf /\ g.ov = a.ov /\ g.ncep = a.ncep
    <3>1. M % M = 0
      BY <1>3
    <3>2. (c + m) % M = 0
      BY <2>3, <3>1
    <3>3. /\ f.n_mfc_frame = l /\ f.mfc_outidx = 0 /\ f.n_mfc_alloc = M
          /\ f.grow_feat = a.grow_feat /\ f.n_feat_frame = nf + More(done, m) /\ ReadSame(e, f)
          /\ f.mfc_buf = a.mfc_buf /\ f.ov = a.ov /\ f.ncep = a.ncep
      BY <2>2, <2>11, <2>12, <2>14, <3>2 DEF MfcGives
    <3>4. QED
      BY <2>11, <2>16, <3>3 DEF Restated, MfcSame, ReadSame
  <2>20. MfcHolds(g, mid)
    <3>1. ASSUME NEW i \in 0 .. l - 1 PROVE a.mfc_buf[(0 + i) % M] = mid + i + 1
      <4>1. PICK j \in Nat : j = m + i
        BY <2>2
      <4>2. j \in 0 .. k - 1
        BY <1>3, <2>3, <4>1
      <4>3. a.mfc_buf[(c + j) % M] = done + j + 1
        BY <1>2, <4>2 DEF MfcHolds
      <4>4. (c + j) % M = (0 + i) % M
        <5>1. c + j = M + i /\ 0 + i = i /\ i \in 0 .. M - 1
          BY <1>3, <2>3, <3>1, <4>1
        <5>2. (M + i) % M = i /\ i % M = i
          BY <1>3, <5>1
        <5>3. QED
          BY <5>1, <5>2
      <4>5. done + j + 1 = mid + i + 1
        BY <2>17, <4>1
      <4>6. QED
        BY <4>3, <4>4, <4>5
    <3>2. QED
      BY <2>19, <3>1 DEF MfcHolds
  <2>21. b = MfcDone(ProcessCep(g, MfcRows(g, l)))
    <3>1. b = MfcLast(g)
      BY <1>2, <2>3, <2>10, <2>15 DEF ProcessMfcbuf
    <3>2. g.ok = TRUE
      BY <2>18 DEF Middle, Sound
    <3>3. 0 + l <= M
      BY <2>3
    <3>4. QED
      BY <2>19, <3>1, <3>2, <3>3 DEF MfcLast
  <2>22. More(done, m) \in 0 .. m /\ More(mid, l) \in 0 .. l
         /\ More(done, k) = More(done, m) + More(mid, l)
    <3>1. mid + l = done + k
      BY <2>3, <2>17
    <3>2. /\ More(done, m) \in 0 .. m /\ More(mid, l) \in 0 .. l
          /\ More(done, k) = Settled(done + k) - Settled(done)
          /\ More(done, m) = Settled(mid) - Settled(done)
          /\ More(mid, l) = Settled(done + k) - Settled(mid)
      BY <2>17, <3>1, MoreIs DEF More
    <3>3. Settled(done) \in Nat /\ Settled(mid) \in Nat /\ Settled(done + k) \in Nat
      <4>1. \A x \in Nat : Settled(x) \in Nat
        BY SizesAre DEF Settled
      <4>2. done + k \in Nat
        BY <1>3
      <4>3. QED
        BY <4>1, <4>2
    <3>4. QED
      BY <3>2, <3>3
  <2>23. Takes(g, l)
    <3>1. ~a.grow_feat => nf + k <= NFeat
      BY <1>2, <2>12 DEF Takes
    <3>2. ~a.grow_feat => (nf + More(done, m)) + l <= NFeat
      BY <2>3, <2>22, <3>1, SizesAre
    <3>3. QED
      BY <2>19, <3>2 DEF Takes
  <2>24. MfcGives(g, mid, l, b)
    <3>1. l \in 0 .. g.n_mfc_frame /\ g.mfc_outidx + l <= g.n_mfc_alloc
      BY <2>3, <2>19
    <3>2. QED
      BY <2>3, <2>18, <2>20, <2>21, <2>23, <3>1, MfcPartIs
  <2>25. l - l = 0 /\ mid + l = done + k
         /\ (nf + More(done, m)) + More(mid, l) = nf + More(done, k)
    BY <2>3, <2>17, <2>22
  <2>26. QED
    BY <1>2, <2>12, <2>19, <2>24, <2>25 DEF MfcGives, ReadSame
<1>6. QED
  BY <1>4, <1>5

---------------------------------------------------------------------------
(* Samples to cepstra. *)

\* k cepstra were written to the rows from row on.
WroteIn(a, row, k, b) ==
  /\ b.ncep = a.ncep + k
  /\ b.n_mfc_frame = a.n_mfc_frame + k
  /\ b.mfc_buf = [i \in DOMAIN a.mfc_buf |-> IF row <= i /\ i < row + k
                                             THEN a.ncep + 1 + i - row ELSE a.mfc_buf[i]]
  /\ b.n_mfc_alloc = a.n_mfc_alloc /\ b.mfc_outidx = a.mfc_outidx

\* The fields that fe_process_frames sets, and the others.
LEMMA FeWriteFields ==
  ASSUME NEW a, DOMAIN a = Fields, NEW n, NEW cap, NEW row, NEW k, k = Written(a.ov, n, cap),
         a.ok = TRUE, row + k <= a.n_mfc_alloc
  PROVE  LET r == FeWrite(a, n, cap, row)
         IN /\ HeadSame(a, r.a) /\ WroteIn(a, row, k, r.a)
            /\ r.a.ov = OverflowAfter(a.ov, n, k)
            /\ r.left = n - Taken(a.ov, n, k)
            /\ r.wrote = k
<1>1. (/\ a.ok
       /\ row + k <= a.n_mfc_alloc) = TRUE
  OBVIOUS
<1>2. PICK b : b = [a EXCEPT !.ov = OverflowAfter(a.ov, n, k),
                      !.ncep = @ + k,
                      !.mfc_buf = [i \in DOMAIN @ |-> IF row <= i /\ i < row + k
                                                      THEN a.ncep + 1 + i - row ELSE @[i]],
                      !.n_mfc_frame = @ + k,
                      !.ok = @ /\ row + k <= a.n_mfc_alloc]
  OBVIOUS
<1>3. HeadSame(a, b) /\ WroteIn(a, row, k, b) /\ b.ov = OverflowAfter(a.ov, n, k)
  BY <1>1, <1>2, Zenon DEF Fields, HeadSame, WroteIn
<1>4. FeWrite(a, n, cap, row) = [a |-> b, left |-> n - Taken(a.ov, n, k), wrote |-> k]
  BY <1>2, Zenon DEF FeWrite
<1>5. QED
  BY <1>3, <1>4

\* What fe_process_frames did with n samples and cap rows from row on: k cepstra.
FeWrote(a, n, cap, row, k, r) ==
  /\ Sound(r.a) /\ HeadSame(a, r.a) /\ WroteIn(a, row, k, r.a)
  /\ r.wrote = k /\ k \in 0 .. cap /\ r.left \in 0 .. n
  /\ r.a.ov = OverflowAfter(a.ov, n, k) /\ r.left = n - Taken(a.ov, n, k)

\* fe_process_frames into rows that are there.
LEMMA FeWriteIs ==
  ASSUME NEW a, Sound(a), NEW n \in Nat, NEW cap \in Nat, NEW row \in Nat,
         row + cap <= a.n_mfc_alloc, a.n_mfc_frame + cap <= a.n_mfc_alloc,
         NEW r, r = FeWrite(a, n, cap, row), NEW k, k = Written(a.ov, n, cap)
  PROVE  FeWrote(a, n, cap, row, k, r)
<1>1. /\ DOMAIN a = Fields /\ a.ok = TRUE /\ MfcSound(a)
  BY DEF Sound
<1>2. PICK M, f, h : M = a.n_mfc_alloc /\ f = a.n_mfc_frame /\ h = a.ncep
  OBVIOUS
<1>3. /\ M \in Nat /\ f \in Nat /\ h \in Nat /\ M >= NMfc /\ a.ov \in 0 .. FrameSize
      /\ a.mfc_buf \in [0 .. M - 1 -> Nat] /\ row + cap <= M /\ f + cap <= M
  BY <1>1, <1>2 DEF MfcSound, Rows
<1>4. /\ k \in Nat /\ k <= cap /\ Taken(a.ov, n, k) \in 0 .. n
      /\ OverflowAfter(a.ov, n, k) \in 0 .. FrameSize
  BY <1>3, CallCounts
<1>5. row + k <= M /\ f + k <= M
  BY <1>3, <1>4
<1>6. PICK b : b = r.a
  OBVIOUS
<1>7. /\ HeadSame(a, b) /\ WroteIn(a, row, k, b)
      /\ b.ov = OverflowAfter(a.ov, n, k)
      /\ r.left = n - Taken(a.ov, n, k) /\ r.wrote = k
  BY <1>1, <1>2, <1>5, <1>6, FeWriteFields
<1>8. b.mfc_buf \in [0 .. M - 1 -> Nat]
  <2>1. ASSUME NEW i \in 0 .. M - 1
        PROVE  (IF row <= i /\ i < row + k THEN h + 1 + i - row ELSE a.mfc_buf[i]) \in Nat
    BY <1>3, <1>4
  <2>2. b.mfc_buf = [i \in 0 .. M - 1 |-> IF row <= i /\ i < row + k
                                          THEN h + 1 + i - row ELSE a.mfc_buf[i]]
    BY <1>2, <1>3, <1>7 DEF WroteIn
  <2>3. QED
    BY <2>1, <2>2
<1>9. MfcSound(b)
  <2>1. b.n_mfc_alloc = M /\ b.n_mfc_frame = f + k /\ b.ncep = h + k /\ b.mfc_outidx = a.mfc_outidx
    BY <1>2, <1>7 DEF WroteIn
  <2>2. f + k \in 0 .. M /\ h + k \in Nat
    BY <1>3, <1>4, <1>5, SMTT(30)
  <2>3. QED
    BY <1>1, <1>2, <1>3, <1>4, <1>7, <1>8, <2>1, <2>2 DEF MfcSound, Rows
<1>10. Sound(b)
  BY <1>7, <1>9, HeadSameIs
<1>11. QED
  BY <1>4, <1>6, <1>7, <1>10 DEF FeWrote

\* What acmod_process_raw's loop left of n samples: k cepstra more, in order, the samples left not
\* enough for more frames than there were.
AppendGives(a, n, k, r) ==
  /\ Sound(r.a) /\ HeadSame(a, r.a)
  /\ r.a.ncep = a.ncep + k /\ r.a.n_mfc_frame = k /\ MfcHolds(r.a, a.ncep)
  /\ r.a.n_mfc_alloc = a.n_mfc_alloc /\ r.a.mfc_outidx = a.mfc_outidx
  /\ k \in 0 .. a.n_mfc_alloc /\ r.left \in 0 .. n
  /\ \A m \in Nat : FrameCount(a.ov, n) <= m => k + FrameCount(r.a.ov, r.left) <= m
  /\ FrameSize > FrameShift /\ (a.ov > 0 \/ k > 0) => r.a.ov > 0

\* In one part, from the row read next.
LEMMA AppendOnceIs ==
  ASSUME NEW a, Sound(a), a.n_mfc_frame = 0, NEW n \in Nat, NEW cap \in Nat,
         a.mfc_outidx + cap <= a.n_mfc_alloc,
         NEW r, r = FeWrite(a, n, cap, a.mfc_outidx), NEW k, k = Written(a.ov, n, cap)
  PROVE  AppendGives(a, n, k, r) /\ r.wrote = k /\ k \in 0 .. cap
<1>1. PICK M, c, h : M = a.n_mfc_alloc /\ c = a.mfc_outidx /\ h = a.ncep
  OBVIOUS
<1>2. /\ M \in Nat \ {0} /\ c \in 0 .. M - 1 /\ c \in Nat /\ h \in Nat /\ c + cap <= M
      /\ DOMAIN a.mfc_buf = 0 .. M - 1 /\ a.ov \in 0 .. FrameSize
  BY <1>1, SizesAre DEF Sound, MfcSound, Rows
<1>3. a.n_mfc_frame + cap <= a.n_mfc_alloc
  BY <1>1, <1>2
<1>4. PICK b : b = r.a
  OBVIOUS
<1>5. /\ Sound(b) /\ HeadSame(a, b) /\ WroteIn(a, c, k, b)
      /\ r.wrote = k /\ k \in 0 .. cap /\ r.left \in 0 .. n
      /\ b.ov = OverflowAfter(a.ov, n, k) /\ r.left = n - Taken(a.ov, n, k)
  <2>1. c + cap <= a.n_mfc_alloc /\ r = FeWrite(a, n, cap, c) /\ c \in Nat
    BY <1>1, <1>2
  <2>2. /\ Sound(r.a) /\ HeadSame(a, r.a) /\ WroteIn(a, c, k, r.a)
        /\ r.wrote = k /\ k \in 0 .. cap /\ r.left \in 0 .. n
        /\ r.a.ov = OverflowAfter(a.ov, n, k) /\ r.left = n - Taken(a.ov, n, k)
    <3>1. FeWrote(a, n, cap, c, k, r)
      BY <1>3, <2>1, FeWriteIs
    <3>2. QED
      BY <3>1 DEF FeWrote
  <2>3. QED
    BY <1>4, <2>2
<1>6. 0 + k = k /\ k \in Nat /\ k \in 0 .. M
  BY <1>2, <1>5
<1>7. b.n_mfc_frame = k /\ b.n_mfc_alloc = M /\ b.mfc_outidx = c /\ b.ncep = h + k
  BY <1>1, <1>5, <1>6 DEF WroteIn
<1>8. MfcHolds(b, h)
  <2>1. ASSUME NEW i \in 0 .. k - 1 PROVE b.mfc_buf[(c + i) % M] = h + i + 1
    <3>1. PICK j \in Nat : j = c + i
      BY <1>2, <1>5
    <3>2. j \in 0 .. M - 1 /\ c <= j /\ j < c + k /\ h + 1 + j - c = h + i + 1
      BY <1>2, <1>5, <3>1
    <3>3. j % M = j
      <4>1. j \in 0 .. M - 1 /\ M \in Nat \ {0}
        BY <1>2, <3>2
      <4>2. QED
        BY <4>1
    <3>4. b.mfc_buf[j] = h + 1 + j - c
      BY <1>1, <1>2, <1>5, <3>2 DEF WroteIn
    <3>5. QED
      BY <3>1, <3>2, <3>3, <3>4
  <2>2. QED
    BY <1>7, <2>1 DEF MfcHolds
<1>9. ASSUME NEW m \in Nat, FrameCount(a.ov, n) <= m PROVE k + FrameCount(b.ov, r.left) <= m
  BY <1>2, <1>5, <1>9, FramesLeft
<1>10. FrameSize > FrameShift /\ (a.ov > 0 \/ k > 0) => b.ov > 0
  BY <1>2, <1>5, OverflowStays
<1>11. QED
  BY <1>1, <1>4, <1>5, <1>6, <1>7, <1>8, <1>9, <1>10 DEF AppendGives

\* In two parts when the free rows run over the end of the buffer.
LEMMA AppendTwiceIs ==
  ASSUME NEW a, Sound(a), a.n_mfc_frame = 0, NEW n \in Nat,
         NEW c \in Nat \ {0}, c = a.mfc_outidx, NEW M, M = a.n_mfc_alloc,
         NEW r1, r1 = FeWrite(a, n, M - c, c), r1.wrote = M - c,
         NEW r, r = FeWrite(r1.a, r1.left, c, 0)
  PROVE  \E k : AppendGives(a, n, k, r)
<1>1. PICK h : h = a.ncep
  OBVIOUS
<1>2. /\ M \in Nat \ {0} /\ c \in 0 .. M - 1 /\ h \in Nat
      /\ DOMAIN a.mfc_buf = 0 .. M - 1 /\ a.ov \in 0 .. FrameSize
  BY <1>1, SizesAre DEF Sound, MfcSound, Rows
<1>3. PICK k1 \in Nat : k1 = M - c
  BY <1>2
<1>4. /\ AppendGives(a, n, k1, r1) /\ r1.wrote = k1 /\ Written(a.ov, n, k1) = k1
  <2>1. PICK k : k = Written(a.ov, n, k1)
    OBVIOUS
  <2>2. a.mfc_outidx + k1 <= a.n_mfc_alloc /\ r1 = FeWrite(a, n, k1, a.mfc_outidx)
    BY <1>2, <1>3
  <2>3. AppendGives(a, n, k, r1) /\ r1.wrote = k
    BY <2>1, <2>2, AppendOnceIs
  <2>4. QED
    BY <1>3, <2>1, <2>3
<1>5. PICK b, n1 : b = r1.a /\ n1 = r1.left
  OBVIOUS
<1>6. /\ Sound(b) /\ HeadSame(a, b) /\ b.ncep = h + k1 /\ b.n_mfc_frame = k1 /\ MfcHolds(b, h)
      /\ b.n_mfc_alloc = M /\ b.mfc_outidx = c /\ n1 \in 0 .. n
      /\ \A m \in Nat : FrameCount(a.ov, n) <= m => k1 + FrameCount(b.ov, n1) <= m
      /\ FrameSize > FrameShift /\ (a.ov > 0 \/ k1 > 0) => b.ov > 0
  BY <1>1, <1>4, <1>5 DEF AppendGives
<1>7. PICK k2 : k2 = Written(b.ov, n1, c)
  OBVIOUS
<1>8. PICK d, n2 : d = r.a /\ n2 = r.left
  OBVIOUS
<1>9. b.ov \in 0 .. FrameSize /\ n1 \in Nat /\ DOMAIN b.mfc_buf = 0 .. M - 1
  BY <1>6 DEF Sound, MfcSound, Rows
<1>10. /\ Sound(d) /\ HeadSame(b, d) /\ WroteIn(b, 0, k2, d)
       /\ k2 \in 0 .. c /\ n2 \in 0 .. n1
       /\ d.ov = OverflowAfter(b.ov, n1, k2) /\ n2 = n1 - Taken(b.ov, n1, k2)
  <2>1. /\ r = FeWrite(b, n1, c, 0) /\ 0 + c <= b.n_mfc_alloc /\ b.n_mfc_frame + c <= b.n_mfc_alloc
        /\ 0 \in Nat /\ c \in Nat /\ n1 \in Nat
    BY <1>2, <1>3, <1>5, <1>6, <1>9, SMTT(30)
  <2>2. Sound(b) /\ k2 = Written(b.ov, n1, c)
    BY <1>6, <1>7
  <2>3. /\ Sound(r.a) /\ HeadSame(b, r.a) /\ WroteIn(b, 0, k2, r.a)
        /\ k2 \in 0 .. c /\ r.left \in 0 .. n1
        /\ r.a.ov = OverflowAfter(b.ov, n1, k2) /\ r.left = n1 - Taken(b.ov, n1, k2)
    <3>1. PICK row \in Nat, cap \in Nat, m \in Nat : row = 0 /\ cap = c /\ m = n1
      BY <2>1
    <3>2. PICK r2 : r2 = FeWrite(b, m, cap, row)
      OBVIOUS
    <3>3. row + cap <= b.n_mfc_alloc /\ b.n_mfc_frame + cap <= b.n_mfc_alloc /\ r = r2
          /\ k2 = Written(b.ov, m, cap)
      BY <2>1, <2>2, <3>1, <3>2
    <3>4. FeWrote(b, m, cap, row, k2, r2)
      BY <2>2, <3>2, <3>3, FeWriteIs
    <3>5. QED
      BY <3>1, <3>3, <3>4 DEF FeWrote
  <2>4. QED
    BY <1>8, <2>3
<1>11. PICK k \in Nat : k = k1 + k2
  BY <1>10
<1>12. M \in Nat /\ c < M /\ k2 \in Nat /\ k2 <= c /\ k1 + c = M /\ k = k1 + k2
  <2>1. c \in Nat /\ c \in 0 .. M - 1 /\ M \in Nat /\ k2 \in 0 .. c
    BY <1>2, <1>10
  <2>2. QED
    BY <1>3, <1>11, <2>1
<1>13. d.n_mfc_frame = k /\ d.n_mfc_alloc = M /\ d.mfc_outidx = c /\ d.ncep = h + k
  <2>1. h + k1 + k2 = h + k
    BY <1>2, <1>10, <1>11
  <2>2. QED
    BY <1>6, <1>10, <1>11, <2>1 DEF WroteIn
<1>14. k \in 0 .. M /\ n2 \in 0 .. n
  <2>1. k \in 0 .. M
    BY <1>12
  <2>2. n1 \in 0 .. n /\ n2 \in 0 .. n1
    BY <1>6, <1>10
  <2>3. QED
    BY <2>1, <2>2
<1>15. MfcHolds(d, h)
  <2>1. ASSUME NEW i \in 0 .. k - 1 PROVE d.mfc_buf[(c + i) % M] = h + i + 1
    <3>1. CASE i < k1
      <4>1. PICK j \in Nat : j = c + i
        BY <1>2
      <4>2. j \in 0 .. M - 1 /\ ~(j < 0 + k2) /\ i \in 0 .. k1 - 1
        BY <1>12, <3>1, <4>1
      <4>3. j % M = j
        <5>1. j \in 0 .. M - 1 /\ M \in Nat \ {0}
          BY <1>2, <4>2
        <5>2. QED
          BY <5>1
      <4>4. d.mfc_buf[j] = b.mfc_buf[j]
        BY <1>9, <1>10, <4>2 DEF WroteIn
      <4>5. b.mfc_buf[(c + i) % M] = h + i + 1
        BY <1>6, <4>2 DEF MfcHolds
      <4>6. QED
        BY <4>1, <4>3, <4>4, <4>5
    <3>2. CASE ~(i < k1)
      <4>1. PICK j \in Nat : j = i - k1
        BY <1>3, <3>2
      <4>2. j \in 0 .. M - 1 /\ 0 <= j /\ j < 0 + k2 /\ c + i = M + j
            /\ h + k1 + 1 + j - 0 = h + i + 1
        <5>1. h \in Nat
          BY <1>2
        <5>2. QED
          BY <1>12, <3>2, <4>1, <5>1
      <4>3. (M + j) % M = j
        <5>1. j \in 0 .. M - 1 /\ M \in Nat \ {0}
          BY <1>2, <4>2
        <5>2. QED
          BY <5>1
      <4>4. d.mfc_buf[j] = b.ncep + 1 + j - 0
        BY <1>9, <1>10, <4>2 DEF WroteIn
      <4>5. QED
        BY <1>6, <4>2, <4>3, <4>4
    <3>3. QED
      BY <3>1, <3>2
  <2>2. QED
    BY <1>13, <2>1 DEF MfcHolds
<1>16. ASSUME NEW m \in Nat, FrameCount(a.ov, n) <= m PROVE k + FrameCount(d.ov, n2) <= m
  <2>1. FrameCount(b.ov, n1) \in Nat /\ FrameCount(d.ov, n2) \in Nat
    <3>1. d.ov \in 0 .. FrameSize /\ n2 \in Nat
      BY <1>9, <1>10 DEF Sound, MfcSound
    <3>2. \A x \in 0 .. FrameSize, y \in Nat : FrameCount(x, y) \in Nat
      BY FrameAssumption DEF FrameCount
    <3>3. QED
      BY <1>9, <3>1, <3>2
  <2>2. k1 + FrameCount(b.ov, n1) <= m
    BY <1>6, <1>16
  <2>3. PICK l \in Nat : l = m - k1
    BY <2>1, <2>2
  <2>4. FrameCount(b.ov, n1) <= l
    BY <2>1, <2>2, <2>3
  <2>5. c \in Nat /\ n1 \in Nat
    BY <1>9
  <2>6. k2 + FrameCount(d.ov, n2) <= l
    BY <1>7, <1>9, <1>10, <2>4, <2>5, FramesLeft
  <2>7. QED
    BY <1>10, <1>11, <2>1, <2>3, <2>6
<1>17. FrameSize > FrameShift /\ (a.ov > 0 \/ k > 0) => d.ov > 0
  <2>1. SUFFICES ASSUME FrameSize > FrameShift, a.ov > 0 \/ k > 0 PROVE d.ov > 0
    OBVIOUS
  <2>2. k1 > 0 \/ a.ov > 0 \/ k2 > 0
    BY <1>10, <1>11, <2>1
  <2>3. b.ov > 0 \/ k2 > 0
    BY <1>6, <2>1, <2>2
  <2>4. c \in Nat
    OBVIOUS
  <2>5. QED
    BY <1>7, <1>9, <1>10, <2>1, <2>3, <2>4, OverflowStays
<1>18. HeadSame(a, d)
  BY <1>6, <1>10 DEF HeadSame
<1>19. AppendGives(a, n, k, r)
  BY <1>1, <1>8, <1>10, <1>13, <1>14, <1>15, <1>16, <1>17, <1>18 DEF AppendGives
<1>20. QED
  BY <1>19

\* acmod_process_raw's loop: samples enough for a frame give one, at the start of the buffer.
LEMMA AppendMfcIs ==
  ASSUME NEW a, Sound(a), a.n_mfc_frame = 0, NEW n \in Nat, NEW r, r = AppendMfc(a, n)
  PROVE  \E k : /\ AppendGives(a, n, k, r)
                /\ a.mfc_outidx = 0 /\ FrameCount(a.ov, n) > 0 => k > 0
<1>1. PICK M, c : M = a.n_mfc_alloc /\ c = a.mfc_outidx
  OBVIOUS
<1>2. M \in Nat \ {0} /\ c \in 0 .. M - 1 /\ c \in Nat /\ a.ov \in 0 .. FrameSize
  BY <1>1, SizesAre DEF Sound, MfcSound
<1>3. M - 0 = M /\ c + 0 = c /\ c % M = c
  <2>1. c \in 0 .. M - 1 /\ M \in Nat \ {0}
    BY <1>2
  <2>2. QED
    BY <2>1
<1>4. r = IF c + M > M
          THEN AppendFirst(FeWrite(a, n, M - c, c), M - c, M)
          ELSE FeWrite(a, n, M, c)
  BY <1>1, <1>3 DEF AppendMfc
<1>5. CASE c = 0
  <2>1. ~(c + M > M) /\ c + M <= M
    BY <1>2, <1>5
  <2>2. PICK k : k = Written(a.ov, n, M)
    OBVIOUS
  <2>3. AppendGives(a, n, k, r) /\ k \in 0 .. M
    BY <1>1, <1>2, <1>4, <2>1, <2>2, AppendOnceIs
  <2>4. FrameCount(a.ov, n) > 0 => k > 0
    BY <1>2, <2>2 DEF Written, Smaller
  <2>5. QED
    BY <2>3, <2>4
<1>6. CASE c # 0
  <2>1. c + M > M /\ c \in Nat \ {0}
    BY <1>2, <1>6
  <2>2. PICK r1 : r1 = FeWrite(a, n, M - c, c)
    OBVIOUS
  <2>3. r = AppendFirst(r1, M - c, M)
    BY <1>4, <2>1, <2>2
  <2>4. CASE r1.wrote = M - c
    <3>1. M - (M - c) = c
      BY <1>2
    <3>2. r = FeWrite(r1.a, r1.left, c, 0)
      BY <2>3, <2>4, <3>1 DEF AppendFirst, AppendRest
    <3>3. \E k : AppendGives(a, n, k, r)
      BY <1>1, <2>1, <2>2, <2>4, <3>2, AppendTwiceIs
    <3>4. QED
      BY <1>1, <1>6, <3>3
  <2>5. CASE r1.wrote # M - c
    <3>1. r = r1
      BY <2>3, <2>5 DEF AppendFirst
    <3>2. PICK k1 \in Nat : k1 = M - c
      BY <1>2
    <3>3. PICK k : k = Written(a.ov, n, k1)
      OBVIOUS
    <3>4. a.mfc_outidx + k1 <= a.n_mfc_alloc /\ r = FeWrite(a, n, k1, a.mfc_outidx)
      BY <1>1, <1>2, <2>2, <3>1, <3>2
    <3>5. AppendGives(a, n, k, r)
      BY <3>3, <3>4, AppendOnceIs
    <3>6. QED
      BY <1>1, <1>6, <3>5
  <2>6. QED
    BY <2>4, <2>5
<1>7. QED
  BY <1>5, <1>6

\* acmod_process_mfcbuf on the first rows of an utterance, which do not run over the end.
LEMMA MfcbufStartIs ==
  ASSUME NEW a, Start(a), a.mfc_outidx = 0, a.n_mfc_frame > 0, MfcHolds(a, 0),
         a.n_mfc_frame + 2 * Win <= L, Takes(a, a.n_mfc_frame),
         NEW b, b = ProcessMfcbuf(a)
  PROVE  /\ Middle(b, a.n_mfc_frame) /\ b.grow_feat = a.grow_feat /\ ReadSame(a, b)
         /\ b.n_feat_frame = a.n_feat_frame + More(0, a.n_mfc_frame)
         /\ b.n_mfc_alloc = a.n_mfc_alloc /\ b.n_mfc_frame = 0
         /\ b.ov = a.ov /\ b.ncep = a.ncep
<1>1. Sound(a) /\ MfcSound(a) /\ a.ok = TRUE
  BY DEF Start, Sound
<1>2. PICK M, k : M = a.n_mfc_alloc /\ k = a.n_mfc_frame
  OBVIOUS
<1>3. M \in Nat \ {0} /\ k \in 0 .. M /\ k \in 1 .. k
  BY <1>1, <1>2, SizesAre DEF MfcSound
<1>4. ~(0 + k > M) /\ 0 + k <= M /\ 0 + k = k /\ k - k = 0
  BY <1>3
<1>5. b = MfcDone(ProcessCep(a, MfcRows(a, k)))
  BY <1>1, <1>2, <1>4 DEF ProcessMfcbuf, MfcLast
<1>6. MfcGives(a, 0, k, b)
  <2>1. k \in 1 .. a.n_mfc_frame /\ a.mfc_outidx + k <= a.n_mfc_alloc
        /\ k + 2 * Win <= L /\ Takes(a, k)
    BY <1>2, <1>3, <1>4
  <2>2. QED
    BY <1>5, <2>1, MfcStartIs
<1>7. QED
  BY <1>2, <1>4, <1>6 DEF MfcGives

\* What acmod_process_raw makes of n samples: the cepstra they give are features, as far as
\* they can be before the next cepstrum, and none waits in the ring.
RawGives(a, n, w) ==
  /\ Middle(w.a, w.a.ncep) /\ w.a.grow_feat = a.grow_feat /\ ReadSame(a, w.a)
  /\ w.a.n_mfc_frame = 0
  /\ w.a.ncep - a.ncep \in Nat
  /\ w.a.ov > 0
  /\ ~a.grow_feat => w.a.n_feat_frame <= NMfc
  /\ w.left \in 0 .. n
  /\ w.a.n_mfc_alloc > NMfc => FrameCount(w.a.ov, w.left) <= NMfc

\* acmod_process_raw calls acmod_process_mfcbuf last.
LEMMA HandedIs ==
  ASSUME NEW r
  PROVE  Handed(r).a = ProcessMfcbuf(r.a) /\ Handed(r).left = r.left
BY DEF Handed

\* No more cepstra than mfc_buf was made for.
LEMMA AppendFits ==
  ASSUME NEW a, Sound(a), NEW n \in Nat, NEW k, NEW r, AppendGives(a, n, k, r),
         a.n_mfc_alloc > NMfc => FrameCount(a.ov, n) <= NMfc,
         ~a.grow_feat => a.n_feat_frame = 0
  PROVE  /\ k \in Nat /\ k <= NMfc /\ k + 2 * Win <= L /\ Takes(r.a, k)
         /\ a.n_mfc_alloc > NMfc => FrameCount(r.a.ov, r.left) <= NMfc
<1>1. PICK M, f, f2 : M = a.n_mfc_alloc /\ f = FrameCount(a.ov, n) /\ f2 = FrameCount(r.a.ov, r.left)
  OBVIOUS
<1>2. /\ M \in Nat /\ M >= NMfc /\ k \in 0 .. M /\ a.ov \in 0 .. FrameSize
      /\ r.a.ov \in 0 .. FrameSize /\ r.left \in Nat
  BY <1>1 DEF Sound, MfcSound, AppendGives
<1>3. f \in Nat /\ f2 \in Nat
  <2>1. \A x \in 0 .. FrameSize, y \in Nat : FrameCount(x, y) \in Nat
    BY FrameAssumption DEF FrameCount
  <2>2. QED
    BY <1>1, <1>2, <2>1
<1>4. M > NMfc => k + f2 <= NMfc
  <2>1. NMfc \in Nat
    BY SizesAre
  <2>2. QED
    BY <1>1, <1>3, <2>1 DEF AppendGives
<1>5. k \in Nat /\ k <= NMfc /\ (M > NMfc => f2 <= NMfc)
  BY <1>2, <1>3, <1>4, SizesAre
<1>6. k + 2 * Win <= L
  BY <1>5, SizesAre
<1>7. Takes(r.a, k)
  <2>1. 0 + k <= NFeat
    BY <1>5, SizesAre
  <2>2. r.a.grow_feat = a.grow_feat /\ r.a.n_feat_frame = a.n_feat_frame
    BY DEF AppendGives, HeadSame
  <2>3. QED
    BY <2>1, <2>2 DEF Takes
<1>8. QED
  BY <1>1, <1>5, <1>6, <1>7

\* acmod_process_raw in the middle of an utterance.
LEMMA RawMiddle ==
  ASSUME FrameSize > FrameShift,
         NEW a, Middle(a, a.ncep), a.n_mfc_frame = 0, a.ov > 0, NEW n \in Nat \ {0},
         a.n_mfc_alloc > NMfc => FrameCount(a.ov, n) <= NMfc,
         ~a.grow_feat => a.n_feat_frame = 0,
         NEW w, w = ProcessRaw(a, n)
  PROVE  RawGives(a, n, w)
<1>1. Sound(a) /\ n \in Nat /\ a.ncep \in Nat \ {0}
  BY DEF Middle
<1>2. PICK r : r = AppendMfc(a, n)
  OBVIOUS
<1>3. PICK k : AppendGives(a, n, k, r)
  BY <1>1, <1>2, AppendMfcIs
<1>4. /\ k \in Nat /\ k + 2 * Win <= L /\ Takes(r.a, k)
      /\ a.n_mfc_alloc > NMfc => FrameCount(r.a.ov, r.left) <= NMfc
  BY <1>1, <1>3, AppendFits
<1>5. w.a = ProcessMfcbuf(r.a) /\ w.left = r.left
  <2>1. n > 0
    OBVIOUS
  <2>2. QED
    BY <1>2, <2>1, HandedIs DEF ProcessRaw
<1>6. PICK b, h : b = r.a /\ h = a.ncep
  OBVIOUS
<1>7. /\ Sound(b) /\ HeadSame(a, b) /\ b.ncep = h + k /\ b.n_mfc_frame = k /\ MfcHolds(b, h)
      /\ b.n_mfc_alloc = a.n_mfc_alloc /\ r.left \in 0 .. n /\ b.ov > 0
  BY <1>3, <1>6 DEF AppendGives
<1>8. Middle(b, h)
  BY <1>1, <1>6, <1>7, HeadSameIs DEF Sound
<1>9. PICK d : d = ProcessMfcbuf(b)
  OBVIOUS
<1>10. h \in Nat /\ h + k - h = k
  BY <1>1, <1>4, <1>6
<1>11. /\ Middle(d, h + k) /\ d.grow_feat = b.grow_feat /\ ReadSame(b, d)
       /\ d.n_mfc_alloc = b.n_mfc_alloc /\ d.n_mfc_frame = 0
       /\ d.ov = b.ov /\ d.ncep = b.ncep
  BY <1>4, <1>6, <1>7, <1>8, <1>9, <1>10, ProcessMfcbufIs
<1>12. d = w.a
  BY <1>5, <1>6, <1>9
<1>13. d.grow_feat = a.grow_feat /\ ReadSame(a, d)
  BY <1>7, <1>11 DEF HeadSame, ReadSame
<1>14. ~a.grow_feat => d.n_feat_frame <= NMfc
  <2>1. d.n_feat_frame = b.n_feat_frame + More(h, k) /\ b.n_feat_frame = a.n_feat_frame
    BY <1>4, <1>6, <1>7, <1>8, <1>9, <1>10, ProcessMfcbufIs DEF HeadSame
  <2>2. More(h, k) \in 0 .. k /\ k <= NMfc
    BY <1>1, <1>3, <1>4, <1>10, AppendFits, MoreIs
  <2>3. 0 + More(h, k) <= NMfc
    BY <1>4, <2>2, SizesAre
  <2>4. QED
    BY <2>1, <2>3
<1>15. QED
  BY <1>4, <1>5, <1>6, <1>7, <1>10, <1>11, <1>12, <1>13, <1>14 DEF RawGives

\* The first call of acmod_process_raw, on samples for a frame at least.
LEMMA RawStart ==
  ASSUME FrameSize > FrameShift,
         NEW a, Start(a), a.ncep = 0, a.n_mfc_frame = 0, a.mfc_outidx = 0, NEW n \in Nat \ {0},
         FrameCount(a.ov, n) > 0,
         a.n_mfc_alloc > NMfc => FrameCount(a.ov, n) <= NMfc,
         NEW w, w = ProcessRaw(a, n)
  PROVE  RawGives(a, n, w)
<1>1. Sound(a) /\ n \in Nat /\ a.n_feat_frame = 0
  BY DEF Start
<1>2. PICK r : r = AppendMfc(a, n)
  OBVIOUS
<1>3. PICK k : AppendGives(a, n, k, r) /\ k > 0
  BY <1>1, <1>2, AppendMfcIs
<1>4. /\ k \in Nat /\ k + 2 * Win <= L /\ Takes(r.a, k)
      /\ a.n_mfc_alloc > NMfc => FrameCount(r.a.ov, r.left) <= NMfc
  BY <1>1, <1>3, AppendFits
<1>5. w.a = ProcessMfcbuf(r.a) /\ w.left = r.left
  <2>1. n > 0
    OBVIOUS
  <2>2. QED
    BY <1>2, <2>1, HandedIs DEF ProcessRaw
<1>6. PICK b : b = r.a
  OBVIOUS
<1>7. 0 + k = k /\ k - 0 = k
  BY <1>4
<1>8. /\ Sound(b) /\ HeadSame(a, b) /\ b.ncep = k /\ b.n_mfc_frame = k /\ MfcHolds(b, 0)
      /\ b.n_mfc_alloc = a.n_mfc_alloc /\ b.mfc_outidx = 0 /\ r.left \in 0 .. n /\ b.ov > 0
  BY <1>3, <1>6, <1>7 DEF AppendGives
<1>9. Start(b)
  BY <1>1, <1>8, HeadSameIs DEF Sound
<1>10. PICK d : d = ProcessMfcbuf(b)
  OBVIOUS
<1>11. /\ Middle(d, k) /\ d.grow_feat = b.grow_feat /\ ReadSame(b, d)
       /\ d.n_mfc_alloc = b.n_mfc_alloc /\ d.n_mfc_frame = 0
       /\ d.ov = b.ov /\ d.ncep = b.ncep
  BY <1>3, <1>4, <1>6, <1>8, <1>9, <1>10, MfcbufStartIs
<1>12. d = w.a
  BY <1>5, <1>6, <1>10
<1>13. d.grow_feat = a.grow_feat /\ ReadSame(a, d)
  BY <1>8, <1>11 DEF HeadSame, ReadSame
<1>14. d.n_feat_frame <= NMfc
  <2>1. d.n_feat_frame = b.n_feat_frame + More(0, k) /\ b.n_feat_frame = 0
    BY <1>1, <1>3, <1>4, <1>6, <1>8, <1>9, <1>10, MfcbufStartIs DEF HeadSame
  <2>2. More(0, k) \in 0 .. k /\ k <= NMfc
    BY <1>1, <1>3, <1>4, AppendFits, MoreIs
  <2>3. QED
    BY <1>4, <2>1, <2>2, SizesAre
<1>15. QED
  BY <1>4, <1>5, <1>6, <1>7, <1>8, <1>11, <1>12, <1>13, <1>14 DEF RawGives

---------------------------------------------------------------------------
(* The end of an utterance. *)

\* An utterance that ends after the first done cepstra, at least one.
Ending(a, done) ==
  /\ Sound(a) /\ a.state = "ENDED"
  /\ done \in Nat \ {0}
  /\ InStep(a.live, Ahead(a), done)
  /\ Queued(a, done)
  /\ Straight(a)

\* The last cepstrum completes the features.
LastTaken(r, o, done) ==
  /\ r.live \in Buffers /\ r.used = 1 /\ r.feats \in Seq(FeatureRows)
  /\ o + Len(r.feats) = done + 1 /\ Agree(r.feats, o, done + 1)
  /\ o \in Nat /\ Len(r.feats) <= Win + 1

\* The end of an utterance brings Win features at most that were waiting, and one.
LEMMA LastLength ==
  ASSUME NEW f \in Seq(FeatureRows), NEW o \in Nat, NEW done \in Nat, o + Len(f) = done + 1,
         done - o <= Win
  PROVE  Len(f) <= Win + 1
<1>1. PICK k \in Nat : k = Len(f)
  OBVIOUS
<1>2. QED
  BY <1>1, SizesAre

\* feat_s2mfc2feat_live on the last cepstrum.
LEMMA LiveLast ==
  ASSUME NEW buf \in Buffers, NEW done \in Nat \ {0}, NEW o, InStep(buf, o, done),
         NEW s, s = [i \in 1 .. 1 |-> done + i], NEW r, r = Live(buf, s, FALSE, TRUE)
  PROVE  LastTaken(r, o, done)
<1>1. s \in Seq(Nat) /\ Len(s) = 1
  BY OfferIs
<1>2. PICK p : p = done - o
  OBVIOUS
<1>3. Pending(buf) = p /\ o \in Nat /\ p \in 0 .. Win
  BY <1>2, PendingIs
<1>4. LetIn(p, 1, TRUE)
  BY <1>3, SizesAre DEF LetIn
<1>5. EndsNow(buf, 1, TRUE)
  <2>1. Held(buf, FALSE) = p
    BY <1>3 DEF Held
  <2>2. p + Win + Len(s) <= L /\ p \in Nat
    BY <1>1, <1>3, SizesAre
  <2>3. ~(FALSE /\ TRUE) /\ FALSE \in BOOLEAN /\ TRUE \in BOOLEAN
    OBVIOUS
  <2>4. Ends(buf, Len(s), FALSE, TRUE) = TRUE
    BY <1>1, <2>1, <2>2, <2>3, TakesAll
  <2>5. QED
    BY <1>1, <2>4 DEF EndsNow
<1>6. CallGives(o, done, 1, TRUE, r.live, r.used, r.feats)
  BY <1>2, <1>4, <1>5, LaterCall
<1>7. /\ r.live \in Buffers /\ r.used = 1 /\ r.feats \in Seq(FeatureRows)
      /\ o + Len(r.feats) = done + 1 /\ Agree(r.feats, o, done + 1)
  BY <1>6 DEF CallGives
<1>8. PICK f \in Seq(FeatureRows) : f = r.feats
  BY <1>7
<1>9. done - o <= Win /\ done \in Nat /\ o \in Nat /\ o + Len(f) = done + 1
  <2>1. o + Len(f) = done + 1
    BY <1>7, <1>8
  <2>2. done - o <= Win
    BY <1>2, <1>3, SizesAre
  <2>3. QED
    BY <1>3, <2>1, <2>2
<1>10. Len(f) <= Win + 1
  BY <1>9, LastLength
<1>11. QED
  BY <1>3, <1>7, <1>8, <1>10 DEF LastTaken

\* What the last cepstrum leaves of a.
LastGives(a, done, pc) ==
  /\ pc.ret = 1
  /\ Sound(pc.a) /\ Queued(pc.a, done + 1) /\ Ahead(pc.a) = done + 1
  /\ MfcSame(a, pc.a) /\ ModeSame(a, pc.a) /\ ReadSame(a, pc.a)
  /\ Straight(pc.a)
  /\ pc.a.n_feat_frame <= a.n_feat_frame + Win + 1

\* Its features are stored in one part when they do not run over the end.
LEMMA WithRoomLast ==
  ASSUME NEW a, NEW done, Ending(a, done), NEW cep, cep = [i \in 1 .. 1 |-> done + i],
         NEW nfeat, nfeat = 1 + Win, ~Wraps(a, nfeat),
         StartPlace(a) = Place(a, a.n_feat_frame), a.n_feat_frame + nfeat <= a.n_feat_alloc,
         a.grow_feat => Ahead(a) + nfeat < a.n_feat_alloc,
         NEW pc, pc = ProcessWithRoom(a, cep, 1, nfeat)
  PROVE  LastGives(a, done, pc)
<1>1. /\ Sound(a) /\ FeatSound(a) /\ DOMAIN a = Fields /\ a.live \in Buffers /\ a.ok = TRUE
      /\ a.state = "ENDED" /\ done \in Nat \ {0} /\ InStep(a.live, Ahead(a), done)
      /\ Queued(a, done) /\ Straight(a)
  BY DEF Ending, Sound
<1>2. PICK N \in Nat \ {0}, nf \in Nat, o \in Nat, p \in Nat :
        N = a.n_feat_alloc /\ nf = a.n_feat_frame /\ o = a.output_frame /\ p = StartPlace(a)
  <2>1. a.n_feat_frame \in -a.n_feat_alloc .. a.n_feat_alloc
    BY <1>1 DEF FeatSound
  <2>2. StartPlace(a) \in 0 .. a.n_feat_alloc - 1
    BY <1>1, <2>1, PlaceIs
  <2>3. QED
    BY <1>1, <2>2, SizesAre DEF FeatSound
<1>3. PICK part, r : /\ part = [a |-> a, used |-> 0, inptr |-> p]
                     /\ r = Live(a.live, SubSeq(cep, 0 + 1, 1), FALSE, TRUE)
  OBVIOUS
<1>4. part.a = a /\ part.used = 0 /\ part.inptr = p /\ part.a.ok
  BY <1>1, <1>3
<1>5. pc = AfterLast(part, r, FALSE)
  <2>1. pc = LastPart(part, cep, 1, FALSE, TRUE)
    <3>1. ~(a.state = "STARTED") /\ a.state = "ENDED"
      BY <1>1
    <3>2. QED
      BY <1>2, <1>3, <3>1 DEF ProcessWithRoom
  <2>2. QED
    BY <1>3, <1>4, <2>1 DEF LastPart
<1>6. /\ r.live \in Buffers /\ r.used = 1 /\ r.feats \in Seq(FeatureRows)
      /\ Ahead(a) + Len(r.feats) = done + 1 /\ Agree(r.feats, Ahead(a), done + 1)
      /\ Len(r.feats) <= Win + 1
  <2>1. 0 + 1 = 1
    OBVIOUS
  <2>2. SubSeq(cep, 0 + 1, 1) = [i \in 1 .. 1 - 0 |-> (done + 0) + i]
    BY <1>1, OfferRest
  <2>3. 1 - 0 = 1 /\ done + 0 = done
    BY <1>1
  <2>4. PICK s : s = SubSeq(cep, 0 + 1, 1)
    OBVIOUS
  <2>5. s = [i \in 1 .. 1 |-> done + i] /\ r = Live(a.live, s, FALSE, TRUE)
    BY <1>3, <2>2, <2>3, <2>4
  <2>6. PICK buf \in Buffers : buf = a.live
    BY <1>1
  <2>7. PICK d \in Nat \ {0} : d = done
    BY <1>1
  <2>8. PICK e : e = Ahead(a)
    OBVIOUS
  <2>9. r = Live(buf, s, FALSE, TRUE) /\ InStep(buf, e, d) /\ s = [i \in 1 .. 1 |-> d + i]
    BY <1>1, <2>5, <2>6, <2>7, <2>8
  <2>10. LastTaken(r, e, d)
    BY <2>9, LiveLast
  <2>11. QED
    BY <2>7, <2>8, <2>10 DEF LastTaken
<1>7. PICK k \in Nat : k = Len(r.feats)
  BY <1>6
<1>8. k <= 1 + Win /\ nf + k <= N /\ p + k <= N /\ (a.grow_feat => (o + nf) + k < N)
  <2>1. PICK m \in Nat : m = nfeat /\ m = 1 + Win
    BY SizesAre
  <2>2. k <= m /\ nf + m <= N /\ ~(p + m > N) /\ (a.grow_feat => (o + nf) + m < N)
    BY <1>2, <1>6, <1>7, <2>1, SizesAre DEF Wraps, Ahead
  <2>3. k <= m /\ nf + k <= N /\ p + k <= N /\ ((o + nf) + m < N => (o + nf) + k < N)
    BY <2>2
  <2>4. QED
    BY <2>1, <2>2, <2>3
<1>9. PICK b : b = Received(a, r, p)
  OBVIOUS
<1>10. PICK total \in Nat : total = done + 1
  BY <1>1
<1>11. /\ Sound(b) /\ Queued(b, total) /\ MfcSame(a, b) /\ ModeSame(a, b) /\ ReadSame(a, b)
       /\ b.live = r.live /\ b.n_feat_frame = nf + k
       /\ b.n_feat_alloc = N
  <2>1. ASSUME NEW t \in 1 .. Ahead(a) PROVE Ideal(done)[t] = Ideal(total)[t]
    <3>1. t \in 1 .. Settled(done) /\ done \in Nat /\ 1 \in Nat
      BY <1>1, <2>1 DEF InStep
    <3>2. Ideal(done)[t] = Ideal(done + 1)[t]
      BY <3>1, StaysIdeal
    <3>3. QED
      BY <1>10, <3>2
  <2>2. /\ \A t \in 1 .. Ahead(a) : Ideal(done)[t] = Ideal(total)[t]
        /\ Agree(r.feats, Ahead(a), total) /\ done \in Nat /\ total \in Nat
    BY <1>1, <1>6, <1>10, <2>1
  <2>3. /\ p = Place(a, a.n_feat_frame)
        /\ p + Len(r.feats) <= a.n_feat_alloc /\ a.n_feat_frame + Len(r.feats) <= a.n_feat_alloc
    BY <1>2, <1>7, <1>8
  <2>4. r.live \in Buffers /\ r.feats \in Seq(FeatureRows) /\ Sound(a) /\ Queued(a, done)
    BY <1>1, <1>6
  <2>5. /\ Sound(b) /\ Queued(b, total) /\ MfcSame(a, b) /\ ModeSame(a, b) /\ ReadSame(a, b)
        /\ b.live = r.live /\ b.n_feat_frame = a.n_feat_frame + Len(r.feats)
        /\ b.n_feat_alloc = a.n_feat_alloc
    BY <1>9, <2>2, <2>3, <2>4, ReceivedIs
  <2>6. QED
    BY <1>2, <1>7, <2>5
<1>12. Ahead(b) = total
  <2>1. Ahead(b) = o + (nf + k)
    BY <1>2, <1>11 DEF Ahead, ReadSame
  <2>2. (o + nf) + k = done + 1
    BY <1>2, <1>6, <1>7 DEF Ahead
  <2>3. QED
    BY <1>10, <2>1, <2>2
<1>13. Straight(b)
  <2>1. a.grow_feat => a.feat_outidx = a.output_frame
    BY <1>1 DEF Straight
  <2>2. a.grow_feat => total < N
    <3>1. (o + nf) + k = total
      BY <1>2, <1>6, <1>7, <1>10 DEF Ahead
    <3>2. QED
      BY <1>8, <3>1
  <2>3. QED
    BY <1>11, <1>12, <2>1, <2>2 DEF Straight, ReadSame, ModeSame
<1>14. pc.a = b /\ pc.ret = 1
  <2>1. pc = [a |-> b, ret |-> 0 + r.used, used |-> 0 + r.used]
    BY <1>1, <1>4, <1>5, <1>9, AfterLastIs
  <2>2. 0 + r.used = 1
    BY <1>6
  <2>3. QED
    BY <2>1, <2>2
<1>15. b.n_feat_frame <= a.n_feat_frame + Win + 1
  BY <1>2, <1>8, <1>11, SizesAre
<1>16. QED
  BY <1>10, <1>11, <1>12, <1>13, <1>14, <1>15 DEF LastGives

\* acmod_process_cep on the last cepstrum, when its features do not run over the end of a ring
\* that may not grow.
LEMMA ProcessLast ==
  ASSUME NEW a, NEW done, Ending(a, done), NEW cep, cep = [i \in 1 .. 1 |-> done + i],
         ~a.grow_feat => a.n_feat_frame = 0 /\ a.feat_outidx + 1 + Win <= a.n_feat_alloc,
         NEW pc, pc = ProcessCep(a, cep)
  PROVE  LastGives(a, done, pc)
<1>1. /\ Sound(a) /\ FeatSound(a) /\ DOMAIN a = Fields /\ a.grow_feat \in BOOLEAN
      /\ a.state = "ENDED" /\ done \in Nat \ {0}
      /\ Queued(a, done) /\ Straight(a)
  BY DEF Ending, Sound
<1>2. Len(cep) = 1
  BY <1>1, OfferIs
<1>3. PICK nfeat \in Nat : nfeat = 1 + Win
  BY SizesAre
<1>4. Produces(a, 1) = nfeat
  BY <1>1, <1>3 DEF Produces
<1>5. Clamped(a, 1, nfeat) = 1
  BY <1>1 DEF Clamped, MayGrow
<1>6. PICK b : b = GrownPast(Room(a, nfeat), nfeat)
  OBVIOUS
<1>7. pc = ProcessWithRoom(b, cep, 1, nfeat)
  BY <1>2, <1>4, <1>5, <1>6 DEF ProcessCep
<1>8. PICK N \in Nat \ {0}, c \in Nat : N = a.n_feat_alloc /\ c = a.feat_outidx /\ c < N
  BY <1>1, SizesAre DEF FeatSound
<1>9. CASE ~a.grow_feat
  <2>1. nfeat <= N /\ c + nfeat <= N /\ 0 + nfeat <= N
    <3>1. c + 1 + Win <= N
      BY <1>8, <1>9
    <3>2. QED
      BY <1>3, <3>1, SizesAre
  <2>2. ~TooMany(a, nfeat)
    BY <1>8, <1>9, <2>1 DEF TooMany
  <2>3. b = a
    BY <1>6, <1>9, <2>2 DEF Room, GrownPast
  <2>4. StartPlace(a) = c /\ Place(a, a.n_feat_frame) = c
    <3>1. c % N = c
      <4>1. c \in 0 .. N - 1 /\ N \in Nat \ {0}
        BY <1>8
      <4>2. QED
        BY <4>1
    <3>2. c + 0 = c
      OBVIOUS
    <3>3. QED
      BY <1>8, <1>9, <3>1, <3>2 DEF StartPlace, EndPlace, Place
  <2>5. ~Wraps(a, nfeat)
    BY <1>3, <1>8, <2>1, <2>4 DEF Wraps
  <2>6. QED
    BY <1>3, <1>7, <1>8, <1>9, <2>1, <2>3, <2>4, <2>5, WithRoomLast
<1>10. CASE a.grow_feat
  <2>1. /\ Sound(b) /\ Queued(b, done) /\ MfcSame(a, b) /\ ModeSame(a, b) /\ ReadSame(a, b)
        /\ b.live = a.live /\ b.n_feat_frame = a.n_feat_frame
        /\ b.n_feat_alloc >= a.n_feat_alloc /\ Ahead(b) + nfeat < b.n_feat_alloc
        /\ Straight(b)
    <3>1. nfeat \in Int
      OBVIOUS
    <3>2. QED
      BY <1>1, <1>6, <1>10, <3>1, RoomMade
  <2>2. PICK M \in Nat \ {0}, d \in Nat, nf \in Nat :
          M = b.n_feat_alloc /\ d = b.feat_outidx /\ nf = b.n_feat_frame
    BY <2>1, SizesAre DEF Sound, FeatSound
  <2>3. b.state = "ENDED" /\ b.grow_feat /\ b.output_frame = d /\ Ahead(b) = Ahead(a)
    BY <1>1, <1>10, <2>1, <2>2 DEF ModeSame, ReadSame, Ahead, Straight
  <2>4. Ending(b, done)
    BY <1>1, <2>1, <2>3 DEF Ending
  <2>5. (d + nf) + nfeat < M /\ Ahead(b) = d + nf
    BY <2>1, <2>2, <2>3 DEF Ahead
  <2>6. StartPlace(b) = d + nf /\ Place(b, b.n_feat_frame) = d + nf
    <3>1. (d + nf) % M = d + nf
      <4>1. PICK x \in Nat : x = d + nf
        OBVIOUS
      <4>2. x \in 0 .. M - 1 /\ M \in Nat \ {0}
        BY <2>5, <4>1
      <4>3. x % M = x
        BY <4>2
      <4>4. QED
        BY <4>1, <4>3
    <3>2. QED
      BY <2>2, <2>3, <3>1 DEF StartPlace, EndPlace, Place
  <2>7. ~Wraps(b, nfeat)
    BY <2>2, <2>5, <2>6 DEF Wraps
  <2>8. b.n_feat_frame + nfeat <= b.n_feat_alloc
    BY <2>2, <2>5
  <2>9. LastGives(b, done, pc)
    <3>1. Ahead(b) + nfeat < b.n_feat_alloc /\ StartPlace(b) = Place(b, b.n_feat_frame)
      BY <2>1, <2>6
    <3>2. QED
      BY <1>3, <1>7, <2>4, <2>7, <2>8, <3>1, WithRoomLast
  <2>10. QED
    BY <2>1, <2>9 DEF LastGives, MfcSame, ModeSame, ReadSame
<1>11. QED
  BY <1>1, <1>9, <1>10

\* fe_end_utt: the samples left make a cepstrum, if there are any.
FeEnded(a, row, e) ==
  /\ HeadSame(a, e) /\ e.ov = 0
  /\ e.n_mfc_alloc = a.n_mfc_alloc /\ e.mfc_outidx = a.mfc_outidx
  /\ a.ov > 0 => /\ e.ncep = a.ncep + 1 /\ e.n_mfc_frame = a.n_mfc_frame + 1
                 /\ e.mfc_buf = [a.mfc_buf EXCEPT ![row] = a.ncep + 1]
  /\ ~(a.ov > 0) => /\ e.ncep = a.ncep + 0 /\ e.n_mfc_frame = a.n_mfc_frame + 0
                    /\ e.mfc_buf = a.mfc_buf

\* The fields that fe_end_utt sets, and the others.
LEMMA FeEndFields ==
  ASSUME NEW a, DOMAIN a = Fields, NEW row
  PROVE  FeEnded(a, row, FeEnd(a, row))
<1>1. CASE a.ov > 0
  <2>1. 1 = 1
    OBVIOUS
  <2>2. FeEnd(a, row) = [a EXCEPT !.ov = 0, !.ncep = @ + 1,
                           !.mfc_buf = [@ EXCEPT ![row] = a.ncep + 1],
                           !.n_mfc_frame = @ + 1]
    BY <1>1, <2>1, Zenon DEF FeEnd
  <2>3. PICK e : e = [a EXCEPT !.ov = 0, !.ncep = @ + 1,
                           !.mfc_buf = [@ EXCEPT ![row] = a.ncep + 1],
                           !.n_mfc_frame = @ + 1]
    OBVIOUS
  <2>4. /\ HeadSame(a, e) /\ e.ov = 0
        /\ e.n_mfc_alloc = a.n_mfc_alloc /\ e.mfc_outidx = a.mfc_outidx
        /\ e.ncep = a.ncep + 1 /\ e.n_mfc_frame = a.n_mfc_frame + 1
        /\ e.mfc_buf = [a.mfc_buf EXCEPT ![row] = a.ncep + 1]
    BY <2>3, Zenon DEF Fields, HeadSame
  <2>5. QED
    BY <1>1, <2>2, <2>3, <2>4 DEF FeEnded
<1>2. CASE ~(a.ov > 0)
  <2>1. 0 # 1
    OBVIOUS
  <2>2. FeEnd(a, row) = [a EXCEPT !.ov = 0, !.ncep = @ + 0,
                           !.mfc_buf = @,
                           !.n_mfc_frame = @ + 0]
    BY <1>2, <2>1, Zenon DEF FeEnd
  <2>3. PICK e : e = [a EXCEPT !.ov = 0, !.ncep = @ + 0,
                           !.mfc_buf = @,
                           !.n_mfc_frame = @ + 0]
    OBVIOUS
  <2>4. /\ HeadSame(a, e) /\ e.ov = 0
        /\ e.n_mfc_alloc = a.n_mfc_alloc /\ e.mfc_outidx = a.mfc_outidx
        /\ e.ncep = a.ncep + 0 /\ e.n_mfc_frame = a.n_mfc_frame + 0
        /\ e.mfc_buf = a.mfc_buf
    BY <2>3, Zenon DEF Fields, HeadSame
  <2>5. QED
    BY <1>2, <2>2, <2>3, <2>4 DEF FeEnded
<1>3. QED
  BY <1>1, <1>2

\* acmod_end_utt with mfc_buf empty, up to the cepstrum of the leadout.
LEMMA EndsFirst ==
  ASSUME NEW a, Sound(a), a.n_mfc_frame = 0,
         NEW b, b = [a EXCEPT !.state = "ENDED"], NEW e, e = FeEnd(b, a.mfc_outidx)
  PROVE  /\ AcmodEndUtt(a) = IF a.ov > 0 THEN ProcessMfcbuf(e) ELSE e
         /\ Restated(a, b, "ENDED") /\ Sound(b) /\ HeadSame(b, e) /\ Sound(e) /\ e.ov = 0
         /\ e.n_mfc_alloc = a.n_mfc_alloc /\ e.mfc_outidx = a.mfc_outidx
         /\ a.ov > 0 => /\ e.ncep = a.ncep + 1 /\ e.n_mfc_frame = 1
                        /\ e.mfc_buf[a.mfc_outidx] = a.ncep + 1
         /\ a.ov = 0 => e.ncep = a.ncep /\ e.n_mfc_frame = 0
<1>1. Restated(a, b, "ENDED")
  BY RestatedFields DEF Sound
<1>2. Sound(b)
  BY <1>1, RestatedIs DEF States
<1>3. PICK M, c, h : M = a.n_mfc_alloc /\ c = a.mfc_outidx /\ h = a.ncep
  OBVIOUS
<1>4. /\ M \in Nat \ {0} /\ c \in 0 .. M - 1 /\ c \in Nat /\ h \in Nat /\ a.ov \in Nat
      /\ a.mfc_buf \in [0 .. M - 1 -> Nat]
  <2>1. MfcSound(a)
    BY DEF Sound
  <2>2. M \in Nat /\ M >= NMfc /\ c \in 0 .. M - 1 /\ h \in Nat
    BY <1>3, <2>1 DEF MfcSound
  <2>3. M \in Nat \ {0} /\ c \in Nat
    BY <2>2, SizesAre
  <2>4. a.ov \in Nat
    BY <2>1, FrameAssumption DEF MfcSound
  <2>5. a.mfc_buf \in [0 .. M - 1 -> Nat]
    BY <1>3, <2>1 DEF MfcSound, Rows
  <2>6. QED
    BY <2>2, <2>3, <2>4, <2>5
<1>5. /\ b.n_mfc_alloc = M /\ b.n_mfc_frame = 0 /\ b.mfc_outidx = c /\ b.ov = a.ov
      /\ b.ncep = h /\ b.mfc_buf = a.mfc_buf
  BY <1>1, <1>3 DEF Restated, MfcSame
<1>6. /\ HeadSame(b, e) /\ e.ov = 0
      /\ e.n_mfc_alloc = b.n_mfc_alloc /\ e.mfc_outidx = b.mfc_outidx
      /\ b.ov > 0 => /\ e.ncep = b.ncep + 1 /\ e.n_mfc_frame = b.n_mfc_frame + 1
                     /\ e.mfc_buf = [b.mfc_buf EXCEPT ![c] = b.ncep + 1]
      /\ ~(b.ov > 0) => /\ e.ncep = b.ncep + 0 /\ e.n_mfc_frame = b.n_mfc_frame + 0
                        /\ e.mfc_buf = b.mfc_buf
  <2>1. DOMAIN b = Fields /\ e = FeEnd(b, c)
    BY <1>2, <1>3 DEF Sound
  <2>2. FeEnded(b, c, e)
    BY <2>1, FeEndFields
  <2>3. QED
    BY <2>2 DEF FeEnded
<1>7. /\ a.ov > 0 => e.ncep = h + 1 /\ e.n_mfc_frame = 1 /\ e.mfc_buf = [a.mfc_buf EXCEPT ![c] = h + 1]
      /\ a.ov = 0 => e.ncep = h /\ e.n_mfc_frame = 0 /\ e.mfc_buf = a.mfc_buf
  <2>1. 0 + 1 = 1 /\ 0 + 0 = 0 /\ h + 0 = h
    BY <1>4
  <2>2. ASSUME a.ov > 0
        PROVE  e.ncep = h + 1 /\ e.n_mfc_frame = 1 /\ e.mfc_buf = [a.mfc_buf EXCEPT ![c] = h + 1]
    BY <1>5, <1>6, <2>1, <2>2
  <2>3. ASSUME a.ov = 0 PROVE e.ncep = h /\ e.n_mfc_frame = 0 /\ e.mfc_buf = a.mfc_buf
    <3>1. ~(b.ov > 0)
      BY <1>5, <2>3
    <3>2. QED
      BY <1>5, <1>6, <2>1, <3>1
  <2>4. QED
    BY <2>2, <2>3
<1>8. a.ov > 0 \/ a.ov = 0
  BY <1>4
<1>9. MfcSound(e)
  <2>1. e.mfc_buf \in [0 .. M - 1 -> Nat]
    <3>1. h + 1 \in Nat
      BY <1>4
    <3>2. [a.mfc_buf EXCEPT ![c] = h + 1] \in [0 .. M - 1 -> Nat]
      BY <1>4, <3>1
    <3>3. e.mfc_buf = [a.mfc_buf EXCEPT ![c] = h + 1] \/ e.mfc_buf = a.mfc_buf
      BY <1>7, <1>8
    <3>4. QED
      BY <1>4, <3>2, <3>3
  <2>2. e.ncep \in Nat /\ e.n_mfc_frame \in 0 .. M
    BY <1>4, <1>7, <1>8
  <2>3. e.ov \in 0 .. FrameSize
    BY <1>6, FrameAssumption
  <2>4. QED
    BY <1>3, <1>4, <1>5, <1>6, <2>1, <2>2, <2>3 DEF MfcSound, Rows, Sound
<1>10. Sound(e)
  BY <1>2, <1>6, <1>9, HeadSameIs
<1>11. AcmodEndUtt(a) = IF a.ov > 0 THEN ProcessMfcbuf(e) ELSE e
  <2>1. (c + 0) % M = c
    <3>1. c \in 0 .. M - 1 /\ M \in Nat \ {0} /\ c + 0 = c
      BY <1>4
    <3>2. c % M = c
      BY <3>1
    <3>3. QED
      BY <3>1, <3>2
  <2>2. b.n_mfc_frame < b.n_mfc_alloc
    BY <1>4, <1>5
  <2>3. e = FeEnd(b, (b.mfc_outidx + b.n_mfc_frame) % b.n_mfc_alloc)
    BY <1>3, <1>5, <2>1
  <2>4. QED
    BY <1>5, <2>2, <2>3 DEF AcmodEndUtt
<1>12. a.ov > 0 => e.mfc_buf[c] = h + 1
  BY <1>4, <1>7
<1>13. QED
  BY <1>1, <1>2, <1>3, <1>5, <1>6, <1>7, <1>10, <1>11, <1>12

\* acmod_end_utt when no sample is left: the state alone.
LEMMA EndQuiet ==
  ASSUME NEW a, Sound(a), a.n_mfc_frame = 0, a.ov = 0, NEW e, e = AcmodEndUtt(a)
  PROVE  /\ Sound(e) /\ e.state = "ENDED" /\ e.grow_feat = a.grow_feat /\ ReadSame(a, e)
         /\ e.n_mfc_frame = 0 /\ e.ov = 0 /\ e.ncep = a.ncep
         /\ e.n_feat_frame = a.n_feat_frame /\ e.n_feat_alloc = a.n_feat_alloc
         /\ \A last : Queued(a, last) => Queued(e, last)
<1>1. PICK b, f : b = [a EXCEPT !.state = "ENDED"] /\ f = FeEnd(b, a.mfc_outidx)
  OBVIOUS
<1>2. /\ AcmodEndUtt(a) = IF a.ov > 0 THEN ProcessMfcbuf(f) ELSE f
      /\ Restated(a, b, "ENDED") /\ Sound(b) /\ HeadSame(b, f) /\ Sound(f) /\ f.ov = 0
      /\ f.ncep = a.ncep /\ f.n_mfc_frame = 0
  BY <1>1, EndsFirst
<1>3. e = f
  <2>1. ~(0 > 0)
    OBVIOUS
  <2>2. QED
    BY <1>2, <2>1
<1>4. ASSUME NEW last, Queued(a, last) PROVE Queued(f, last)
  <2>1. Queued(b, last)
    BY <1>2, <1>4, RestatedIs DEF States
  <2>2. QED
    BY <1>2, <2>1, HeadSameIs DEF Sound
<1>5. /\ f.state = "ENDED" /\ f.grow_feat = a.grow_feat /\ ReadSame(a, f)
      /\ f.n_feat_frame = a.n_feat_frame /\ f.n_feat_alloc = a.n_feat_alloc
  BY <1>2 DEF Restated, HeadSame, ReadSame
<1>6. QED
  BY <1>2, <1>3, <1>4, <1>5

\* acmod_end_utt with samples left: their cepstrum, and with it all features.
EndGives(a, e) ==
  /\ Sound(e) /\ e.state = "ENDED" /\ e.grow_feat = a.grow_feat /\ ReadSame(a, e)
  /\ e.n_mfc_frame = 0 /\ e.ov = 0 /\ e.ncep = a.ncep + 1
  /\ Queued(e, e.ncep) /\ Ahead(e) = e.ncep
  /\ Straight(e)
  /\ e.n_feat_frame <= a.n_feat_frame + Win + 1

\* Every feature of the utterance is in the ring, or was read from it.
LEMMA EndMiddle ==
  ASSUME NEW a, Middle(a, a.ncep), a.n_mfc_frame = 0, a.ov > 0,
         ~a.grow_feat => a.n_feat_frame = 0 /\ a.feat_outidx + 1 + Win <= a.n_feat_alloc,
         NEW e, e = AcmodEndUtt(a)
  PROVE  EndGives(a, e)
<1>1. Sound(a) /\ a.ncep \in Nat \ {0}
  BY DEF Middle
<1>2. PICK b, f : b = [a EXCEPT !.state = "ENDED"] /\ f = FeEnd(b, a.mfc_outidx)
  OBVIOUS
<1>3. PICK h \in Nat \ {0} : h = a.ncep
  BY <1>1
<1>4. /\ e = ProcessMfcbuf(f)
      /\ Restated(a, b, "ENDED") /\ Sound(b) /\ HeadSame(b, f) /\ Sound(f) /\ f.ov = 0
      /\ f.n_mfc_alloc = a.n_mfc_alloc /\ f.mfc_outidx = a.mfc_outidx
      /\ f.ncep = h + 1 /\ f.n_mfc_frame = 1 /\ f.mfc_buf[a.mfc_outidx] = h + 1
  BY <1>1, <1>2, <1>3, EndsFirst
<1>5. /\ f.state = "ENDED" /\ f.grow_feat = a.grow_feat /\ ReadSame(a, f) /\ f.live = a.live
      /\ f.n_feat_frame = a.n_feat_frame /\ f.n_feat_alloc = a.n_feat_alloc
      /\ f.ok = TRUE
  BY <1>4 DEF Restated, HeadSame, ReadSame, Sound
<1>6. Queued(f, h)
  <2>1. Queued(b, h)
    BY <1>1, <1>3, <1>4, RestatedIs DEF Middle, States
  <2>2. QED
    BY <1>4, <2>1, HeadSameIs DEF Sound
<1>7. Ahead(f) = Ahead(a)
  BY <1>5 DEF Ahead, ReadSame
<1>8. Straight(f)
  BY <1>5, <1>7 DEF Middle, Straight, ReadSame
<1>9. Ending(f, h)
  BY <1>3, <1>4, <1>5, <1>6, <1>7, <1>8 DEF Ending, Middle
<1>10. PICK M \in Nat \ {0}, c \in Nat : M = a.n_mfc_alloc /\ c = a.mfc_outidx /\ c < M
  BY <1>1, SizesAre DEF Sound, MfcSound
<1>11. ~(c + 1 > M) /\ c + 1 <= M
  BY <1>10
<1>12. PICK cep, pc : cep = MfcRows(f, 1) /\ pc = ProcessCep(f, cep)
  OBVIOUS
<1>13. e = MfcDone(pc)
  BY <1>4, <1>5, <1>10, <1>11, <1>12 DEF ProcessMfcbuf, MfcLast
<1>14. cep = [i \in 1 .. 1 |-> h + i]
  <2>1. MfcHolds(f, h)
    <3>1. ASSUME NEW i \in 0 .. 1 - 1 PROVE f.mfc_buf[(c + i) % M] = h + i + 1
      <4>1. i = 0 /\ c + i = c /\ h + i + 1 = h + 1
        BY <1>10
      <4>2. c % M = c
        <5>1. c \in 0 .. M - 1 /\ M \in Nat \ {0}
          BY <1>10
        <5>2. QED
          BY <5>1
      <4>3. QED
        BY <1>4, <1>10, <4>1, <4>2
    <3>2. QED
      BY <1>4, <1>10, <3>1 DEF MfcHolds
  <2>2. PICK n \in 0 .. f.n_mfc_frame : n = 1
    BY <1>4
  <2>3. f.mfc_outidx + n <= f.n_mfc_alloc /\ h \in Nat
    BY <1>4, <1>10, <1>11, <2>2
  <2>4. MfcRows(f, n) = [i \in 1 .. n |-> h + i]
    BY <1>4, <2>1, <2>3, MfcRowsAre
  <2>5. QED
    BY <1>12, <2>2, <2>4
<1>15. LastGives(f, h, pc)
  <2>1. ~f.grow_feat => f.n_feat_frame = 0 /\ f.feat_outidx + 1 + Win <= f.n_feat_alloc
    BY <1>5 DEF ReadSame
  <2>2. QED
    BY <1>9, <1>12, <1>14, <2>1, ProcessLast
<1>16. PICK d : d = pc.a
  OBVIOUS
<1>17. /\ pc.ret = 1
       /\ Sound(d) /\ Queued(d, h + 1) /\ Ahead(d) = h + 1
       /\ MfcSame(f, d) /\ ModeSame(f, d) /\ ReadSame(f, d)
       /\ Straight(d)
       /\ d.n_feat_frame <= f.n_feat_frame + Win + 1
  BY <1>15, <1>16 DEF LastGives
<1>18. e = MfcTaken(d, 1)
  BY <1>13, <1>16, <1>17 DEF MfcDone
<1>19. /\ Sound(e) /\ HeadSame(d, e)
       /\ e.n_mfc_frame = d.n_mfc_frame - 1 /\ e.ov = d.ov /\ e.ncep = d.ncep
  <2>1. d.n_mfc_frame = 1
    BY <1>4, <1>17 DEF MfcSame
  <2>2. 1 \in 0 .. d.n_mfc_frame
    BY <2>1
  <2>3. QED
    BY <1>17, <1>18, <2>2, MfcTakenIs
<1>20. Queued(e, h + 1) /\ Ahead(e) = h + 1
  BY <1>17, <1>19, HeadSameIs DEF Sound
<1>21. Straight(e)
  BY <1>17, <1>19, <1>20 DEF Straight, HeadSame
<1>22. e.n_mfc_frame = 0 /\ e.ov = 0 /\ e.ncep = h + 1
  <2>1. 1 - 1 = 0
    OBVIOUS
  <2>2. QED
    BY <1>4, <1>17, <1>19, <2>1 DEF MfcSame
<1>23. /\ e.state = "ENDED" /\ e.grow_feat = a.grow_feat /\ ReadSame(a, e)
       /\ e.n_feat_frame <= a.n_feat_frame + Win + 1
  BY <1>5, <1>17, <1>19 DEF HeadSame, ReadSame, ModeSame
<1>24. QED
  BY <1>3, <1>19, <1>20, <1>21, <1>22, <1>23 DEF EndGives

---------------------------------------------------------------------------
(* Whole utterances. *)

LEMMA EmptiedFields ==
  ASSUME NEW a, DOMAIN a = Fields
  PROVE  LET b == [a EXCEPT !.n_feat_frame = 0]
         IN /\ DOMAIN b = Fields /\ MfcSame(a, b) /\ ModeSame(a, b) /\ ReadSame(a, b)
            /\ b.ok = a.ok /\ b.live = a.live /\ b.n_feat_frame = 0
            /\ b.n_feat_alloc = a.n_feat_alloc /\ b.feat_buf = a.feat_buf
BY DEF Fields, MfcSame, ModeSame, ReadSame

\* A ring of n empty places.
Remade(a, n, b) ==
  /\ DOMAIN b = Fields /\ MfcSame(a, b) /\ ModeSame(a, b)
  /\ b.ok = a.ok /\ b.live = a.live /\ b.n_feat_frame = 0
  /\ b.n_feat_alloc = n /\ DOMAIN b.feat_buf = 0 .. n - 1
  /\ b.feat_outidx = 0 /\ b.output_frame = a.output_frame

\* The fields that making a ring sets, and the others.
LEMMA RemadeFields ==
  ASSUME NEW a, DOMAIN a = Fields, NEW n
  PROVE  Remade(a, n, [a EXCEPT !.n_feat_alloc = n, !.feat_buf = [i \in 0 .. n - 1 |-> <<>>],
                                !.n_feat_frame = 0, !.feat_outidx = 0])
BY DEF Fields, MfcSame, ModeSame, Remade

\* An utterance of n cepstra made features of at once.
FullGives(a, n, b) ==
  /\ Sound(b) /\ Queued(b, n) /\ MfcSame(a, b) /\ ModeSame(a, b)
  /\ b.output_frame = 0 /\ b.feat_outidx = 0 /\ b.n_feat_frame = n

\* acmod_process_full_cep: as many features as cepstra, from the first place on.
LEMMA FullCepIs ==
  ASSUME NEW a, Sound(a), a.output_frame = 0, a.feat_outidx = 0, NEW n \in Nat \ {0},
         NEW cep, cep = [i \in 1 .. n |-> 0 + i], NEW b, b = ProcessFullCep(a, cep)
  PROVE  FullGives(a, n, b)
<1>1. cep \in Seq(Nat) /\ Len(cep) = n /\ NextOf(cep, 0)
  BY OfferIs
<1>2. PICK N \in Nat \ {0} : N = a.n_feat_alloc
  BY SizesAre DEF Sound, FeatSound
<1>3. PICK c : c = IF N < n
                   THEN [a EXCEPT !.n_feat_alloc = n, !.feat_buf = [i \in 0 .. n - 1 |-> <<>>],
                                  !.n_feat_frame = 0, !.feat_outidx = 0]
                   ELSE a
  OBVIOUS
<1>4. /\ Sound(c) /\ MfcSame(a, c) /\ ModeSame(a, c) /\ c.live = a.live
      /\ c.output_frame = 0 /\ c.feat_outidx = 0 /\ n <= c.n_feat_alloc
  <2>1. CASE ~(N < n)
    <3>1. c = a /\ n <= N
      BY <1>2, <1>3, <2>1
    <3>2. QED
      BY <1>2, <3>1 DEF MfcSame, ModeSame
  <2>2. CASE N < n
    <3>1. c = [a EXCEPT !.n_feat_alloc = n, !.feat_buf = [i \in 0 .. n - 1 |-> <<>>],
                        !.n_feat_frame = 0, !.feat_outidx = 0]
      BY <1>3, <2>2
    <3>2. Remade(a, n, c)
      BY <3>1, RemadeFields DEF Sound
    <3>3. N >= NFeat /\ NFeat \in Nat
      BY <1>2, SizesAre DEF Sound, FeatSound
    <3>4. FeatSound(c)
      BY <1>2, <2>2, <3>2, <3>3 DEF FeatSound, Remade
    <3>5. Sound(c)
      BY <3>2, <3>4, StillSound DEF Sound, Remade
    <3>6. QED
      BY <3>2, <3>5 DEF Remade
  <2>3. QED
    BY <2>1, <2>2
<1>5. PICK d, r : d = [c EXCEPT !.n_feat_frame = 0] /\ r = Live(c.live, cep, TRUE, TRUE)
  OBVIOUS
<1>6. b = Received(d, r, 0)
  BY <1>1, <1>2, <1>3, <1>5 DEF ProcessFullCep, Received
<1>7. /\ DOMAIN d = Fields /\ MfcSame(c, d) /\ ModeSame(c, d) /\ ReadSame(c, d)
      /\ d.ok = c.ok /\ d.live = c.live /\ d.n_feat_frame = 0
      /\ d.n_feat_alloc = c.n_feat_alloc /\ d.feat_buf = c.feat_buf
  BY <1>4, <1>5, EmptiedFields DEF Sound
<1>8. PICK M \in Nat \ {0} : M = c.n_feat_alloc
  BY <1>4, SizesAre DEF Sound, FeatSound
<1>9. Sound(d)
  <2>1. FeatSound(d)
    BY <1>4, <1>7, <1>8 DEF Sound, FeatSound, ReadSame
  <2>2. QED
    BY <1>4, <1>7, <2>1, StillSound DEF Sound
<1>10. d.output_frame = 0 /\ d.feat_outidx = 0
  BY <1>4, <1>7 DEF ReadSame
<1>11. Queued(d, 0) /\ Ahead(d) = 0
  <2>1. -0 .. 0 - 1 = {}
    OBVIOUS
  <2>2. QED
    BY <1>7, <1>10, <2>1 DEF Queued, Ahead
<1>12. Place(d, d.n_feat_frame) = 0
  <2>1. 0 % M = 0 /\ 0 + 0 = 0
    OBVIOUS
  <2>2. QED
    BY <1>7, <1>8, <1>10, <2>1 DEF Place
<1>13. r.live \in Buffers /\ r.feats \in Seq(FeatureRows) /\ Len(r.feats) = n /\ r.feats = Ideal(n)
  <2>1. PICK buf \in Buffers : buf = c.live
    BY <1>4 DEF Sound
  <2>2. r = Live(buf, cep, TRUE, TRUE) /\ Len(cep) > 0
    BY <1>1, <1>5, <2>1
  <2>3. QED
    BY <1>1, <2>2, LiveWhole
<1>14. Agree(r.feats, 0, n)
  BY <1>13 DEF Agree
<1>15. /\ Sound(b) /\ Queued(b, n) /\ MfcSame(d, b) /\ ModeSame(d, b) /\ ReadSame(d, b)
       /\ b.n_feat_frame = d.n_feat_frame + Len(r.feats)
  <2>1. /\ \A t \in 1 .. Ahead(d) : Ideal(0)[t] = Ideal(n)[t]
        /\ Agree(r.feats, Ahead(d), n) /\ 0 \in Nat /\ n \in Nat
    BY <1>11, <1>14
  <2>2. 0 + Len(r.feats) <= d.n_feat_alloc /\ d.n_feat_frame + Len(r.feats) <= d.n_feat_alloc
    BY <1>4, <1>7, <1>8, <1>13
  <2>3. QED
    BY <1>6, <1>9, <1>11, <1>12, <1>13, <2>1, <2>2, ReceivedIs
<1>16. b.n_feat_frame = n
  <2>1. 0 + n = n
    OBVIOUS
  <2>2. QED
    BY <1>7, <1>13, <1>15, <2>1
<1>17. QED
  BY <1>4, <1>7, <1>10, <1>15, <1>16 DEF FullGives, MfcSame, ModeSame, ReadSame

\* mfc_buf is made large enough, and is empty.
RawRoom(a, nfr, b) ==
  /\ HeadSame(a, b) /\ b.ncep = a.ncep
  /\ b.n_mfc_frame = 0 /\ b.mfc_outidx = 0 /\ b.ov = 0
  /\ \/ a.n_mfc_alloc < nfr + 1 /\ b.n_mfc_alloc = nfr + 1 /\ b.mfc_buf = [i \in 0 .. nfr |-> Stale]
     \/ ~(a.n_mfc_alloc < nfr + 1) /\ b.n_mfc_alloc = a.n_mfc_alloc /\ b.mfc_buf = a.mfc_buf

LEMMA RawRoomFields ==
  ASSUME NEW a, DOMAIN a = Fields, NEW nfr
  PROVE  RawRoom(a, nfr, FullRawRoom(a, nfr))
<1>1. CASE a.n_mfc_alloc < nfr + 1
  <2>1. PICK b : b = [a EXCEPT !.n_mfc_alloc = nfr + 1, !.mfc_buf = [i \in 0 .. nfr |-> Stale]]
    OBVIOUS
  <2>2. /\ HeadSame(a, b) /\ b.ncep = a.ncep
        /\ b.n_mfc_alloc = nfr + 1 /\ b.mfc_buf = [i \in 0 .. nfr |-> Stale]
    BY <2>1 DEF Fields, HeadSame
  <2>3. PICK c : c = [b EXCEPT !.n_mfc_frame = 0, !.mfc_outidx = 0, !.ov = 0]
    OBVIOUS
  <2>4. /\ HeadSame(b, c) /\ c.ncep = b.ncep
        /\ c.n_mfc_alloc = b.n_mfc_alloc /\ c.mfc_buf = b.mfc_buf
        /\ c.n_mfc_frame = 0 /\ c.mfc_outidx = 0 /\ c.ov = 0
    BY <2>2, <2>3 DEF Fields, HeadSame
  <2>5. FullRawRoom(a, nfr) = c
    BY <1>1, <2>1, <2>3 DEF FullRawRoom
  <2>6. QED
    BY <1>1, <2>2, <2>4, <2>5 DEF RawRoom, HeadSame
<1>2. CASE ~(a.n_mfc_alloc < nfr + 1)
  <2>1. PICK c : c = [a EXCEPT !.n_mfc_frame = 0, !.mfc_outidx = 0, !.ov = 0]
    OBVIOUS
  <2>2. /\ HeadSame(a, c) /\ c.ncep = a.ncep
        /\ c.n_mfc_alloc = a.n_mfc_alloc /\ c.mfc_buf = a.mfc_buf
        /\ c.n_mfc_frame = 0 /\ c.mfc_outidx = 0 /\ c.ov = 0
    BY <2>1 DEF Fields, HeadSame
  <2>3. FullRawRoom(a, nfr) = c
    BY <1>2, <2>1 DEF FullRawRoom
  <2>4. QED
    BY <1>2, <2>2, <2>3 DEF RawRoom
<1>3. QED
  BY <1>1, <1>2

\* acmod_process_full_raw has a row for every frame and the leadout.
LEMMA RawRoomIs ==
  ASSUME NEW a, Sound(a), NEW nfr \in Nat, NEW b, b = FullRawRoom(a, nfr)
  PROVE  /\ Sound(b) /\ HeadSame(a, b) /\ b.ncep = a.ncep
         /\ b.n_mfc_frame = 0 /\ b.mfc_outidx = 0 /\ b.ov = 0 /\ nfr < b.n_mfc_alloc
<1>1. RawRoom(a, nfr, b)
  BY RawRoomFields DEF Sound
<1>2. PICK M \in Nat : M = a.n_mfc_alloc /\ M >= NMfc
  BY DEF Sound, MfcSound
<1>3. NMfc \in Nat /\ NMfc > 0 /\ 0 \in 0 .. FrameSize /\ Stale \in Nat
  BY SizesAre, FrameAssumption DEF Stale
<1>4. CASE M < nfr + 1 /\ b.n_mfc_alloc = nfr + 1 /\ b.mfc_buf = [i \in 0 .. nfr |-> Stale]
  <2>1. nfr + 1 \in Nat /\ nfr + 1 >= NMfc /\ (nfr + 1) - 1 = nfr /\ 0 \in 0 .. nfr + 1 /\ 0 \in 0 .. nfr
    BY <1>2, <1>3, <1>4
  <2>2. MfcSound(b)
    BY <1>1, <1>3, <1>4, <2>1 DEF MfcSound, RawRoom, Rows, Sound
  <2>3. nfr < b.n_mfc_alloc
    BY <1>4
  <2>4. QED
    BY <1>1, <2>2, <2>3, HeadSameIs DEF RawRoom
<1>5. CASE ~(M < nfr + 1) /\ b.n_mfc_alloc = a.n_mfc_alloc /\ b.mfc_buf = a.mfc_buf
  <2>1. nfr < M /\ 0 \in 0 .. M /\ 0 \in 0 .. M - 1
    BY <1>2, <1>5
  <2>2. MfcSound(b)
    BY <1>1, <1>2, <1>3, <1>5, <2>1 DEF MfcSound, RawRoom, Sound
  <2>3. QED
    BY <1>1, <1>2, <1>5, <2>1, <2>2, HeadSameIs DEF RawRoom
<1>6. QED
  BY <1>1, <1>2, <1>4, <1>5 DEF RawRoom

\* The frames of all samples and the leadout: t cepstra, from the first row on.
RawRows(a, t, e) ==
  /\ Sound(e) /\ HeadSame(a, e) /\ e.ov = 0 /\ e.ncep = t /\ e.n_mfc_frame = t
  /\ e.mfc_outidx = 0 /\ MfcHolds(e, 0)

\* fe_process_frames and fe_end_utt on all samples write them in order.
LEMMA RawRowsAre ==
  ASSUME NEW a, Sound(a), a.ncep = 0, NEW n \in Nat \ {0}, NEW nfr, nfr = FrameCount(0, n),
         NEW e, e = FullRawEnd(FeWrite(FullRawRoom(a, nfr), n, nfr, 0))
  PROVE  \E t \in Nat \ {0} : RawRows(a, t, e)
<1>1. nfr \in Nat
  BY FrameAssumption DEF FrameCount
<1>2. PICK b : b = FullRawRoom(a, nfr)
  OBVIOUS
<1>3. /\ Sound(b) /\ HeadSame(a, b) /\ b.ncep = 0
      /\ b.n_mfc_frame = 0 /\ b.mfc_outidx = 0 /\ b.ov = 0 /\ nfr < b.n_mfc_alloc
  BY <1>1, <1>2, RawRoomIs
<1>4. PICK M \in Nat \ {0} : M = b.n_mfc_alloc /\ nfr < M
  BY <1>1, <1>3, SizesAre DEF Sound, MfcSound
<1>5. Written(0, n, nfr) = nfr
  BY <1>1 DEF Written, Smaller
<1>6. PICK row \in Nat, cap \in Nat : row = 0 /\ cap = nfr
  BY <1>1
<1>7. PICK r : r = FeWrite(b, n, cap, row)
  OBVIOUS
<1>8. FeWrote(b, n, cap, row, cap, r)
  <2>1. row + cap <= b.n_mfc_alloc /\ b.n_mfc_frame + cap <= b.n_mfc_alloc /\ n \in Nat
    BY <1>3, <1>4, <1>6
  <2>2. cap = Written(b.ov, n, cap)
    BY <1>3, <1>5, <1>6
  <2>3. QED
    BY <1>3, <1>7, <2>1, <2>2, FeWriteIs
<1>9. PICK d : d = r.a
  OBVIOUS
<1>10. /\ Sound(d) /\ HeadSame(b, d) /\ WroteIn(b, 0, nfr, d) /\ r.wrote = nfr
       /\ d.ov = OverflowAfter(0, n, nfr)
  BY <1>3, <1>6, <1>8, <1>9 DEF FeWrote
<1>11. /\ d.ncep = nfr /\ d.n_mfc_frame = nfr /\ d.n_mfc_alloc = M /\ d.mfc_outidx = 0
       /\ DOMAIN b.mfc_buf = 0 .. M - 1 /\ DOMAIN d.mfc_buf = 0 .. M - 1
       /\ d.mfc_buf \in [0 .. M - 1 -> Nat]
       /\ \A i \in 0 .. nfr - 1 : d.mfc_buf[i] = i + 1
  <2>1. 0 + nfr = nfr
    BY <1>1
  <2>2. d.ncep = nfr /\ d.n_mfc_frame = nfr /\ d.n_mfc_alloc = M /\ d.mfc_outidx = 0
    BY <1>3, <1>4, <1>10, <2>1 DEF WroteIn
  <2>3. /\ DOMAIN b.mfc_buf = 0 .. M - 1 /\ DOMAIN d.mfc_buf = 0 .. M - 1
        /\ d.mfc_buf \in [0 .. M - 1 -> Nat]
    BY <1>3, <1>4, <1>10, <2>2 DEF Sound, MfcSound, Rows
  <2>4. ASSUME NEW i \in 0 .. nfr - 1 PROVE d.mfc_buf[i] = i + 1
    <3>1. i \in 0 .. M - 1 /\ 0 <= i /\ i < 0 + nfr /\ 0 + 1 + i - 0 = i + 1
      BY <1>1, <1>4
    <3>2. d.mfc_buf[i] = b.ncep + 1 + i - 0
      BY <1>10, <2>3, <3>1 DEF WroteIn
    <3>3. QED
      BY <1>3, <3>1, <3>2
  <2>5. QED
    BY <2>2, <2>3, <2>4
<1>12. e = FeEnd(d, nfr)
  <2>1. r = FeWrite(FullRawRoom(a, nfr), n, nfr, 0)
    BY <1>2, <1>6, <1>7
  <2>2. QED
    BY <1>9, <1>10, <2>1 DEF FullRawEnd
<1>13. FeEnded(d, nfr, e)
  BY <1>10, <1>12, FeEndFields DEF Sound
<1>14. d.ov \in Nat /\ (nfr = 0 => d.ov > 0)
  <2>1. d.ov \in Nat
    BY <1>10, FrameAssumption DEF Sound, MfcSound
  <2>2. ASSUME nfr = 0 PROVE d.ov > 0
    <3>1. n + 0 < FrameSize
      <4>1. ASSUME ~(n + 0 < FrameSize) PROVE FALSE
        <5>1. (n + 0 - FrameSize) \in Nat
          BY <4>1, FrameAssumption
        <5>2. (n + 0 - FrameSize) \div FrameShift \in Nat
          BY <5>1, FrameAssumption
        <5>3. nfr = 1 + ((n + 0 - FrameSize) \div FrameShift)
          BY <4>1 DEF FrameCount
        <5>4. QED
          BY <2>2, <5>2, <5>3
      <4>2. QED
        BY <4>1
    <3>2. d.ov = 0 + n
      BY <1>10, <3>1 DEF OverflowAfter
    <3>3. QED
      BY <3>2
  <2>3. QED
    BY <2>1, <2>2
<1>15. PICK k \in {0, 1} : k = IF d.ov > 0 THEN 1 ELSE 0
  OBVIOUS
<1>16. PICK t \in Nat \ {0} : t = nfr + k
  BY <1>1, <1>14, <1>15
<1>17. e.ncep = t /\ e.n_mfc_frame = t /\ e.n_mfc_alloc = M /\ e.mfc_outidx = 0 /\ e.ov = 0
  BY <1>11, <1>13, <1>15, <1>16 DEF FeEnded
<1>18. /\ e.mfc_buf \in [0 .. M - 1 -> Nat]
       /\ \A i \in 0 .. t - 1 : e.mfc_buf[i] = i + 1
  <2>1. CASE d.ov > 0
    <3>1. e.mfc_buf = [d.mfc_buf EXCEPT ![nfr] = nfr + 1] /\ t = nfr + 1
      BY <1>11, <1>13, <1>15, <1>16, <2>1 DEF FeEnded
    <3>2. nfr \in 0 .. M - 1 /\ nfr + 1 \in Nat
      BY <1>1, <1>4
    <3>3. e.mfc_buf \in [0 .. M - 1 -> Nat]
      BY <1>11, <3>1, <3>2
    <3>4. ASSUME NEW i \in 0 .. t - 1 PROVE e.mfc_buf[i] = i + 1
      <4>1. i = nfr \/ i \in 0 .. nfr - 1
        BY <1>1, <3>1
      <4>2. i \in 0 .. M - 1
        BY <1>1, <1>4, <3>1
      <4>3. QED
        BY <1>11, <3>1, <3>2, <4>1, <4>2
    <3>5. QED
      BY <3>3, <3>4
  <2>2. CASE ~(d.ov > 0)
    <3>1. e.mfc_buf = d.mfc_buf /\ t = nfr
      BY <1>1, <1>13, <1>15, <1>16, <2>2 DEF FeEnded
    <3>2. QED
      BY <1>11, <3>1
  <2>3. QED
    BY <2>1, <2>2
<1>19. t <= M
  BY <1>1, <1>4, <1>15, <1>16
<1>20. HeadSame(d, e)
  BY <1>13 DEF FeEnded
<1>21. Sound(e)
  <2>1. MfcSound(e)
    <3>1. 0 \in 0 .. M - 1 /\ t \in 0 .. M /\ 0 \in 0 .. FrameSize /\ M >= NMfc
      BY <1>3, <1>4, <1>19, FrameAssumption DEF Sound, MfcSound
    <3>2. QED
      BY <1>17, <1>18, <3>1 DEF MfcSound, Rows
  <2>2. QED
    BY <1>10, <1>20, <2>1, HeadSameIs
<1>22. MfcHolds(e, 0)
  <2>1. ASSUME NEW i \in 0 .. t - 1 PROVE e.mfc_buf[(0 + i) % M] = 0 + i + 1
    <3>1. i \in 0 .. M - 1 /\ M \in Nat \ {0}
      BY <1>19
    <3>2. i % M = i
      BY <3>1
    <3>3. 0 + i = i
      BY <3>1
    <3>4. QED
      BY <1>18, <3>2, <3>3
  <2>2. QED
    BY <1>17, <2>1 DEF MfcHolds
<1>23. HeadSame(a, e)
  BY <1>3, <1>10, <1>20 DEF HeadSame
<1>24. RawRows(a, t, e)
  BY <1>17, <1>21, <1>22, <1>23 DEF RawRows
<1>25. QED
  BY <1>24

\* A whole utterance of t cepstra in the pipeline.
FullDone(a, t, b) ==
  /\ Sound(b) /\ Queued(b, t) /\ ModeSame(a, b)
  /\ b.output_frame = 0 /\ b.feat_outidx = 0 /\ b.n_feat_frame = t
  /\ b.n_mfc_frame = 0 /\ b.ov = 0 /\ b.ncep = t

\* The cepstra of a whole utterance are not kept.
LEMMA DroppedFields ==
  ASSUME NEW a, DOMAIN a = Fields
  PROVE  LET b == [a EXCEPT !.n_mfc_frame = 0]
         IN /\ HeadSame(a, b) /\ b.n_mfc_alloc = a.n_mfc_alloc /\ b.mfc_buf = a.mfc_buf
            /\ b.n_mfc_frame = 0 /\ b.mfc_outidx = a.mfc_outidx
            /\ b.ov = a.ov /\ b.ncep = a.ncep
BY DEF Fields, HeadSame

\* acmod_process_full_raw.
LEMMA FullRawIs ==
  ASSUME NEW a, Sound(a), a.ov = 0, a.ncep = 0, a.output_frame = 0, a.feat_outidx = 0,
         NEW n \in Nat \ {0}, NEW b, b = ProcessFullRaw(a, n)
  PROVE  \E t \in Nat \ {0} : FullDone(a, t, b)
<1>1. PICK nfr, e : nfr = FrameCount(0, n)
                    /\ e = FullRawEnd(FeWrite(FullRawRoom(a, nfr), n, nfr, 0))
  OBVIOUS
<1>2. PICK t \in Nat \ {0} : RawRows(a, t, e)
  BY <1>1, RawRowsAre
<1>3. /\ Sound(e) /\ HeadSame(a, e) /\ e.ov = 0 /\ e.ncep = t /\ e.n_mfc_frame = t
      /\ e.mfc_outidx = 0 /\ MfcHolds(e, 0)
  BY <1>2 DEF RawRows
<1>4. b = FullRawFeats(e)
  BY <1>1 DEF ProcessFullRaw
<1>5. PICK cep, d : cep = MfcRows(e, t) /\ d = ProcessFullCep(e, cep)
  OBVIOUS
<1>6. b = [d EXCEPT !.n_mfc_frame = 0]
  BY <1>3, <1>4, <1>5 DEF FullRawFeats
<1>7. cep = [i \in 1 .. t |-> 0 + i]
  <2>1. t \in 0 .. e.n_mfc_frame /\ e.mfc_outidx + t <= e.n_mfc_alloc /\ 0 \in Nat
    BY <1>3 DEF Sound, MfcSound
  <2>2. QED
    BY <1>3, <1>5, <2>1, MfcRowsAre
<1>8. e.output_frame = 0 /\ e.feat_outidx = 0
  BY <1>3 DEF HeadSame
<1>9. FullGives(e, t, d)
  BY <1>3, <1>5, <1>7, <1>8, FullCepIs
<1>10. /\ Sound(d) /\ Queued(d, t) /\ MfcSame(e, d) /\ ModeSame(e, d)
       /\ d.output_frame = 0 /\ d.feat_outidx = 0 /\ d.n_feat_frame = t
  BY <1>9 DEF FullGives
<1>11. /\ HeadSame(d, b) /\ b.n_mfc_alloc = d.n_mfc_alloc /\ b.mfc_buf = d.mfc_buf
       /\ b.n_mfc_frame = 0 /\ b.mfc_outidx = d.mfc_outidx
       /\ b.ov = d.ov /\ b.ncep = d.ncep
  BY <1>6, <1>10, DroppedFields DEF Sound
<1>12. MfcSound(b)
  <2>1. 0 \in 0 .. d.n_mfc_alloc
    BY <1>10 DEF Sound, MfcSound
  <2>2. QED
    BY <1>10, <1>11, <2>1 DEF Sound, MfcSound
<1>13. Sound(b) /\ Queued(b, t)
  BY <1>10, <1>11, <1>12, HeadSameIs
<1>14. b.ov = 0 /\ b.ncep = t
  BY <1>3, <1>10, <1>11 DEF MfcSame
<1>15. ModeSame(a, b) /\ b.output_frame = 0 /\ b.feat_outidx = 0 /\ b.n_feat_frame = t
  BY <1>3, <1>10, <1>11 DEF HeadSame, ModeSame
<1>16. QED
  BY <1>11, <1>13, <1>14, <1>15 DEF FullDone

\* The count of the cepstra given.
Counted(a, n, b) ==
  /\ HeadSame(a, b) /\ b.n_mfc_alloc = a.n_mfc_alloc /\ b.mfc_buf = a.mfc_buf
  /\ b.n_mfc_frame = a.n_mfc_frame /\ b.mfc_outidx = a.mfc_outidx
  /\ b.ov = a.ov /\ b.ncep = n

LEMMA CountedFields ==
  ASSUME NEW a, DOMAIN a = Fields, NEW n
  PROVE  Counted(a, n, [a EXCEPT !.ncep = n])
BY DEF Fields, HeadSame, Counted

\* What the count does not touch.
CountKeeps(a, b) ==
  /\ Sound(b) /\ HeadSame(a, b) /\ Ahead(b) = Ahead(a)
  /\ \A last : Queued(a, last) => Queued(b, last)
  /\ \A done : Middle(a, done) => Middle(b, done)
  /\ Start(a) => Start(b)

LEMMA CountedIs ==
  ASSUME NEW a, Sound(a), NEW n \in Nat, NEW b, Counted(a, n, b)
  PROVE  CountKeeps(a, b)
<1>1. MfcSound(b)
  BY DEF Counted, Sound, MfcSound
<1>2. HeadSame(a, b)
  BY DEF Counted
<1>3. QED
  BY <1>1, <1>2, HeadSameIs DEF CountKeeps

\* acmod_process_full_cep, on all cepstra of an utterance.
LEMMA FullCepDone ==
  ASSUME NEW a, Sound(a), a.ov = 0, a.n_mfc_frame = 0, a.output_frame = 0, a.feat_outidx = 0,
         NEW n \in Nat \ {0}, NEW b,
         b = ProcessFullCep([a EXCEPT !.ncep = n], [i \in 1 .. n |-> i])
  PROVE  FullDone(a, n, b)
<1>1. PICK c : c = [a EXCEPT !.ncep = n]
  OBVIOUS
<1>2. Counted(a, n, c)
  BY <1>1, CountedFields DEF Sound
<1>3. Sound(c) /\ HeadSame(a, c)
  BY <1>2, CountedIs DEF CountKeeps
<1>4. PICK cep : cep = [i \in 1 .. n |-> 0 + i]
  OBVIOUS
<1>5. cep = [i \in 1 .. n |-> i]
  BY <1>4
<1>6. b = ProcessFullCep(c, cep)
  BY <1>1, <1>5
<1>7. c.output_frame = 0 /\ c.feat_outidx = 0
  BY <1>3 DEF HeadSame
<1>8. FullGives(c, n, b)
  BY <1>3, <1>4, <1>6, <1>7, FullCepIs
<1>9. QED
  BY <1>2, <1>3, <1>8 DEF FullDone, FullGives, Counted, HeadSame, MfcSame, ModeSame

---------------------------------------------------------------------------
(* The ring may grow from now on; a new utterance. *)

LEMMA AllowedFields ==
  ASSUME NEW a, DOMAIN a = Fields, NEW grow
  PROVE  LET b == [a EXCEPT !.grow_feat = grow]
         IN /\ DOMAIN b = Fields /\ MfcSame(a, b) /\ ReadSame(a, b)
            /\ b.state = a.state /\ b.grow_feat = grow /\ b.ok = a.ok /\ b.live = a.live
            /\ b.n_feat_alloc = a.n_feat_alloc /\ b.feat_buf = a.feat_buf
            /\ b.n_feat_frame = a.n_feat_frame
BY DEF Fields, MfcSame, ReadSame

\* What acmod_set_grow leaves of a.
Allowed(a, grow, b) ==
  /\ Sound(b) /\ MfcSame(a, b) /\ ReadSame(a, b)
  /\ b.state = a.state /\ b.grow_feat = grow /\ b.live = a.live
  /\ b.n_feat_frame = a.n_feat_frame /\ b.n_feat_alloc >= a.n_feat_alloc
  /\ \A last : Queued(a, last) => Queued(b, last)

\* acmod_set_grow, of a ring that has not wrapped if it may grow from now on.
LEMMA SetGrowIs ==
  ASSUME NEW a, Sound(a), NEW grow \in BOOLEAN,
         grow => a.feat_outidx = a.output_frame /\ Ahead(a) < a.n_feat_alloc,
         NEW b, b = SetGrow(a, grow)
  PROVE  Allowed(a, grow, b)
<1>1. PICK c : c = [a EXCEPT !.grow_feat = grow]
  OBVIOUS
<1>2. /\ DOMAIN c = Fields /\ MfcSame(a, c) /\ ReadSame(a, c)
      /\ c.state = a.state /\ c.grow_feat = grow /\ c.ok = a.ok /\ c.live = a.live
      /\ c.n_feat_alloc = a.n_feat_alloc /\ c.feat_buf = a.feat_buf
      /\ c.n_feat_frame = a.n_feat_frame
  BY <1>1, AllowedFields DEF Sound
<1>3. Sound(c) /\ Ahead(c) = Ahead(a)
  <2>1. MfcSound(c) /\ FeatSound(c)
    BY <1>2 DEF Sound, MfcSound, FeatSound, MfcSame, ReadSame
  <2>2. QED
    BY <1>2, <2>1 DEF Sound, Ahead, ReadSame
<1>4. ASSUME NEW last, Queued(a, last) PROVE Queued(c, last)
  BY <1>2, <1>4 DEF Queued, ReadSame, Place
<1>5. PICK N \in Nat, m \in Nat : N = a.n_feat_alloc /\ m = FirstGrow
  BY AcmodAssumption DEF Sound, FeatSound
<1>6. CASE ~(grow /\ N < m)
  <2>1. b = c
    BY <1>1, <1>5, <1>6 DEF SetGrow
  <2>2. QED
    BY <1>2, <1>3, <1>4, <1>5, <2>1 DEF Allowed
<1>7. CASE grow /\ N < m
  <2>1. b = Grown(c, m)
    BY <1>1, <1>5, <1>7 DEF SetGrow
  <2>2. /\ c.feat_outidx = c.output_frame /\ Ahead(c) < c.n_feat_alloc /\ m >= c.n_feat_alloc
        /\ m >= N
    BY <1>2, <1>3, <1>5, <1>7 DEF ReadSame
  <2>3. ASSUME NEW last, Queued(c, last)
        PROVE  /\ Sound(b) /\ Queued(b, last) /\ MfcSame(c, b) /\ ModeSame(c, b) /\ ReadSame(c, b)
               /\ b.live = c.live /\ b.n_feat_frame = c.n_feat_frame /\ b.n_feat_alloc = m
    BY <1>3, <2>1, <2>2, <2>3, GrownIs
  <2>4. /\ DOMAIN b = Fields /\ MfcSame(c, b) /\ ModeSame(c, b) /\ ReadSame(c, b)
        /\ b.ok = c.ok /\ b.live = c.live /\ b.n_feat_frame = c.n_feat_frame
        /\ b.n_feat_alloc = m
        /\ DOMAIN b.feat_buf = 0 .. m - 1
    <3>1. /\ DOMAIN b = Fields /\ MfcSame(c, b) /\ ModeSame(c, b) /\ ReadSame(c, b)
          /\ b.ok = c.ok /\ b.live = c.live /\ b.n_feat_frame = c.n_feat_frame
          /\ b.n_feat_alloc = m
          /\ b.feat_buf = [i \in 0 .. m - 1 |-> IF i \in DOMAIN c.feat_buf THEN c.feat_buf[i] ELSE <<>>]
      BY <1>3, <2>1, GrownFields DEF Sound
    <3>2. QED
      BY <3>1
  <2>5. Sound(b)
    <3>1. FeatSound(b)
      <4>1. c.n_feat_alloc = N /\ N >= NFeat /\ NFeat \in Nat
            /\ c.n_feat_frame \in 0 .. N /\ c.feat_outidx \in 0 .. N - 1
        BY <1>2, <1>3, <1>5, SizesAre DEF Sound, FeatSound
      <4>2. m >= NFeat /\ c.n_feat_frame \in 0 .. m /\ c.feat_outidx \in 0 .. m - 1
        BY <1>7, <4>1
      <4>3. QED
        BY <1>3, <2>4, <4>2 DEF Sound, FeatSound, ReadSame
    <3>2. QED
      BY <1>3, <2>4, <3>1, StillSound DEF Sound
  <2>6. /\ MfcSame(a, b) /\ ReadSame(a, b)
        /\ b.state = a.state /\ b.grow_feat = grow /\ b.live = a.live
        /\ b.n_feat_frame = a.n_feat_frame /\ b.n_feat_alloc >= a.n_feat_alloc
    BY <1>2, <1>5, <2>2, <2>4 DEF MfcSame, ReadSame, ModeSame
  <2>7. QED
    BY <1>4, <2>3, <2>5, <2>6 DEF Allowed
<1>8. QED
  BY <1>6, <1>7

\* acmod_start_utt.
Begun(a, b) ==
  /\ Start(b) /\ b.grow_feat = a.grow_feat
  /\ b.ov = 0 /\ b.ncep = 0 /\ b.n_mfc_frame = 0 /\ b.mfc_outidx = 0

\* The fields that acmod_start_utt sets, and the others.
LEMMA StartUttFields ==
  ASSUME NEW a, DOMAIN a = Fields
  PROVE  LET b == AcmodStartUtt(a)
         IN /\ DOMAIN b = Fields /\ b.state = "STARTED" /\ b.grow_feat = a.grow_feat
            /\ b.ok = a.ok /\ b.live = Forgotten(a.live)
            /\ b.ov = 0 /\ b.ncep = 0
            /\ b.n_mfc_alloc = a.n_mfc_alloc /\ b.mfc_buf = [i \in DOMAIN a.mfc_buf |-> Stale]
            /\ b.n_mfc_frame = 0 /\ b.mfc_outidx = 0
            /\ b.n_feat_alloc = a.n_feat_alloc /\ b.feat_buf = [i \in DOMAIN a.feat_buf |-> <<>>]
            /\ b.n_feat_frame = 0 /\ b.feat_outidx = 0 /\ b.output_frame = 0
BY DEF Fields, AcmodStartUtt

\* acmod_start_utt leaves nothing of the utterance before to be read.
LEMMA StartUttIs ==
  ASSUME NEW a, Sound(a), NEW b, b = AcmodStartUtt(a)
  PROVE  Begun(a, b)
<1>1. /\ DOMAIN b = Fields /\ b.state = "STARTED" /\ b.grow_feat = a.grow_feat
      /\ b.ok = a.ok /\ b.live = Forgotten(a.live)
      /\ b.ov = 0 /\ b.ncep = 0
      /\ b.n_mfc_alloc = a.n_mfc_alloc /\ b.mfc_buf = [i \in DOMAIN a.mfc_buf |-> Stale]
      /\ b.n_mfc_frame = 0 /\ b.mfc_outidx = 0
      /\ b.n_feat_alloc = a.n_feat_alloc /\ b.feat_buf = [i \in DOMAIN a.feat_buf |-> <<>>]
      /\ b.n_feat_frame = 0 /\ b.feat_outidx = 0 /\ b.output_frame = 0
  BY StartUttFields DEF Sound
<1>2. b.live \in Buffers
  <2>1. PICK live \in Buffers : live = a.live
    BY DEF Sound
  <2>2. Forgotten(live) \in Buffers
    BY DEF Forgotten, Buffers, Stale
  <2>3. QED
    BY <1>1, <2>1, <2>2
<1>3. PICK M \in Nat \ {0}, N \in Nat \ {0} : M = a.n_mfc_alloc /\ N = a.n_feat_alloc
  BY SizesAre DEF Sound, MfcSound, FeatSound
<1>4. MfcSound(b)
  <2>1. DOMAIN a.mfc_buf = 0 .. M - 1 /\ M >= NMfc
    BY <1>3 DEF Sound, MfcSound, Rows
  <2>2. b.mfc_buf \in [0 .. M - 1 -> Nat]
    BY <1>1, <2>1 DEF Stale
  <2>3. 0 \in 0 .. M /\ 0 \in 0 .. M - 1 /\ 0 \in 0 .. FrameSize
    BY FrameAssumption
  <2>4. QED
    BY <1>1, <1>3, <2>1, <2>2, <2>3 DEF MfcSound, Rows
<1>5. FeatSound(b)
  <2>1. DOMAIN a.feat_buf = 0 .. N - 1 /\ N >= NFeat
    BY <1>3 DEF Sound, FeatSound
  <2>2. 0 \in 0 .. N /\ 0 \in 0 .. N - 1
    OBVIOUS
  <2>3. QED
    BY <1>1, <1>3, <2>1, <2>2 DEF FeatSound
<1>6. Sound(b)
  BY <1>1, <1>2, <1>4, <1>5 DEF Sound, States
<1>7. QED
  BY <1>1, <1>6 DEF Begun, Start

\* The acmod_t of a new decoder.
LEMMA NewAcmodIs ==
  /\ Sound(NewAcmod) /\ NewAcmod.state = "IDLE" /\ NewAcmod.n_mfc_frame = 0
  /\ NewAcmod.n_feat_frame = 0 /\ NewAcmod.feat_outidx = 0 /\ NewAcmod.output_frame = 0
  /\ NewAcmod.grow_feat = FALSE
<1>1. PICK a : a = NewAcmod
  OBVIOUS
<1>2. /\ DOMAIN a = Fields /\ a.state = "IDLE" /\ a.ov = 0 /\ a.ncep = 0 /\ a.live = EmptyLive
      /\ a.n_mfc_alloc = NMfc /\ a.mfc_buf = [i \in 0 .. NMfc - 1 |-> Stale]
      /\ a.n_mfc_frame = 0 /\ a.mfc_outidx = 0
      /\ a.grow_feat = FALSE /\ a.n_feat_alloc = NFeat
      /\ a.feat_buf = [i \in 0 .. NFeat - 1 |-> <<>>]
      /\ a.n_feat_frame = 0 /\ a.feat_outidx = 0 /\ a.output_frame = 0 /\ a.ok = TRUE
  BY <1>1 DEF NewAcmod, Fields
<1>3. EmptyLive \in Buffers
  <2>1. 0 \in Slots /\ Stale \in Nat
    BY SizesAre DEF Slots, Stale
  <2>2. QED
    BY <2>1 DEF EmptyLive, Buffers
<1>4. /\ NMfc \in Nat /\ NMfc >= NMfc /\ 0 \in 0 .. NMfc /\ 0 \in 0 .. NMfc - 1
      /\ NFeat \in Nat /\ NFeat >= NFeat /\ 0 \in 0 .. NFeat /\ 0 \in 0 .. NFeat - 1
      /\ 0 \in 0 .. FrameSize
  BY SizesAre, FrameAssumption
<1>5. MfcSound(a)
  <2>1. a.mfc_buf \in [0 .. NMfc - 1 -> Nat]
    BY <1>2 DEF Stale
  <2>2. QED
    BY <1>2, <1>4, <2>1 DEF MfcSound, Rows
<1>6. FeatSound(a)
  BY <1>2, <1>4 DEF FeatSound
<1>7. Sound(a)
  BY <1>2, <1>3, <1>5, <1>6 DEF Sound, States
<1>8. QED
  BY <1>1, <1>2, <1>7

---------------------------------------------------------------------------
(* One pass of ps_search_forward. *)

LEMMA LookbackIs ==
  ASSUME NEW a, Sound(a), a.grow_feat => Straight(a) \/ Fits(a),
         ~a.grow_feat => a.n_feat_frame <= NMfc
  PROVE  Lookback(a)
<1>1. PICK N \in Nat, nf \in Nat : N = a.n_feat_alloc /\ nf = a.n_feat_frame /\ N >= NFeat
  BY DEF Sound, FeatSound
<1>2. a.grow_feat \in BOOLEAN
  BY DEF Sound
<1>3. CASE a.grow_feat
  <2>1. a.output_frame \in Nat
    BY DEF Sound, FeatSound
  <2>2. PICK o \in Nat : o = Ahead(a)
    BY <1>1, <2>1 DEF Ahead
  <2>3. o < N \/ o <= N
    BY <1>1, <1>3, <2>2 DEF Straight, Fits
  <2>4. o <= N
    BY <2>3
  <2>5. QED
    BY <1>1, <2>2, <2>4 DEF Lookback
<1>4. CASE ~a.grow_feat
  <2>1. nf + PlWindow <= N
    BY <1>1, <1>4, SizesAre
  <2>2. QED
    BY <1>1, <2>1 DEF Lookback
<1>5. QED
  BY <1>2, <1>3, <1>4

\* The main search is never ahead.
LEMMA LagIs ==
  ASSUME NEW o \in Nat
  PROVE  Lag(o) \in Nat /\ Lag(o) <= o
BY SizesAre DEF Lag

\* What the phone loop was shown.
LoopKept(seq, o) ==
  IF PlWindow = 0 THEN seq = <<>> ELSE seq \in Seq(FeatureRows) /\ Len(seq) = o

\* What was shown is not taken back.
Goes(mn, mn2) == Len(mn2) >= Len(mn) /\ SubSeq(mn2, 1, Len(mn)) = mn

\* The searches were shown what the ring held, and the ring is empty.
SearchGives(a, last, mn, d, mn2, lp2) ==
  /\ Sound(d) /\ Queued(d, last) /\ MfcSame(a, d) /\ ModeSame(a, d) /\ d.live = a.live
  /\ d.n_feat_frame = 0 /\ d.output_frame = Ahead(a) /\ Ahead(d) = Ahead(a)
  /\ d.n_feat_alloc = a.n_feat_alloc
  /\ ShowsFirst(mn2, Lag(d.output_frame), last) /\ Goes(mn, mn2)
  /\ LoopKept(lp2, d.output_frame)

\* ps_search_forward until the ring is empty: both searches get on as far as they can.
LEMMA SearchIs ==
  ASSUME NEW a, Sound(a), NEW last \in Nat, Queued(a, last), Lookback(a), Ahead(a) <= last,
         NEW mn, ShowsFirst(mn, Lag(a.output_frame), last),
         NEW lp, LoopKept(lp, a.output_frame),
         NEW d, d = Drained(a), NEW mn2, mn2 = mn \o ShownToMain(a),
         NEW lp2, lp2 = lp \o ShownToLoop(a)
  PROVE  SearchGives(a, last, mn, d, mn2, lp2)
<1>1. PICK o \in Nat, n \in Nat, N \in Nat :
        o = a.output_frame /\ n = a.n_feat_frame /\ N = a.n_feat_alloc /\ n <= N
  BY DEF Sound, FeatSound
<1>2. Ahead(a) = o + n /\ o + n \in Nat /\ o + n <= last
  BY <1>1 DEF Ahead
<1>3. n \in 0 .. a.n_feat_frame /\ d = Advanced(a, n)
  BY <1>1 DEF Drained
<1>4. /\ Sound(d) /\ MfcSame(a, d) /\ ModeSame(a, d) /\ d.live = a.live
      /\ d.n_feat_alloc = a.n_feat_alloc
      /\ d.n_feat_frame = a.n_feat_frame - n
      /\ d.output_frame = a.output_frame + n
  BY <1>3, AdvancedIs
<1>5. Queued(d, last) /\ Ahead(d) = Ahead(a)
  BY <1>3, AdvancedQueued
<1>6. d.n_feat_frame = 0 /\ d.output_frame = o + n
  BY <1>1, <1>4
<1>7. PICK l1 \in Nat, k \in Nat : /\ l1 = Lag(o) /\ k = Lag(o + n) - Lag(o)
                                  /\ ShownToMain(a) = Nexts(l1, k, last)
  <2>1. /\ Lag(Ahead(a)) - Lag(a.output_frame) \in Nat
        /\ ShownToMain(a) = Nexts(Lag(a.output_frame), Lag(Ahead(a)) - Lag(a.output_frame), last)
    BY MainIs
  <2>2. Lag(o) \in Nat
    BY LagIs
  <2>3. QED
    BY <1>1, <1>2, <2>1, <2>2
<1>8. l1 + k = Lag(o + n) /\ l1 + k <= last
  <2>1. PICK l2 \in Nat : l2 = Lag(o + n) /\ l2 <= o + n
    BY <1>2, LagIs
  <2>2. k = l2 - l1
    BY <1>7, <2>1
  <2>3. QED
    BY <1>2, <2>1, <2>2
<1>9. ShowsFirst(mn2, l1 + k, last) /\ SubSeq(mn2, 1, l1) = mn
  <2>1. PICK more : more = Nexts(l1, k, last)
    OBVIOUS
  <2>2. mn2 = mn \o more /\ ShowsFirst(mn, l1, last)
    BY <1>1, <1>7, <2>1
  <2>3. more \in Seq(FeatureRows) /\ Len(more) = k /\ Agree(more, l1, last)
    BY <1>8, <2>1, NextAre
  <2>4. ShowsFirst(mn \o more, l1 + k, last) /\ SubSeq(mn \o more, 1, l1) = mn
    BY <2>2, <2>3, ShowsMore
  <2>5. QED
    BY <2>2, <2>4
<1>10. Len(mn) = l1
  BY <1>1, <1>7 DEF ShowsFirst
<1>11. LoopKept(lp2, o + n)
  <2>1. CASE PlWindow = 0
    <3>1. ShownToLoop(a) = <<>> /\ lp = <<>>
      BY <2>1 DEF ShownToLoop, LoopKept
    <3>2. <<>> \o <<>> = <<>>
      OBVIOUS
    <3>3. QED
      BY <2>1, <3>1, <3>2 DEF LoopKept
  <2>2. CASE PlWindow # 0
    <3>1. PlWindow > 0
      BY <2>2, SizesAre
    <3>2. PICK more : more = ShownToLoop(a) /\ more = Nexts(o, n, last)
      BY <1>1, <3>1, LoopIs
    <3>3. more \in Seq(FeatureRows) /\ Len(more) = n
      BY <1>2, <3>2, NextAre
    <3>4. lp \in Seq(FeatureRows) /\ Len(lp) = o
      BY <1>1, <2>2 DEF LoopKept
    <3>5. lp \o more \in Seq(FeatureRows) /\ Len(lp \o more) = o + n
      <4>1. PICK x \in Seq(FeatureRows), y \in Seq(FeatureRows) : x = lp /\ y = more
        BY <3>3, <3>4
      <4>2. x \o y \in Seq(FeatureRows) /\ Len(x \o y) = Len(x) + Len(y)
        OBVIOUS
      <4>3. QED
        BY <3>3, <3>4, <4>1, <4>2
    <3>6. QED
      BY <2>2, <3>2, <3>5 DEF LoopKept
  <2>3. QED
    BY <2>1, <2>2
<1>12. Goes(mn, mn2)
  <2>1. Len(mn2) = l1 + k
    BY <1>9 DEF ShowsFirst
  <2>2. QED
    BY <1>9, <1>10, <2>1 DEF Goes
<1>13. QED
  BY <1>2, <1>4, <1>5, <1>6, <1>8, <1>9, <1>11, <1>12 DEF SearchGives

\* The place read next when the ring is empty.
LEMMA DrainedStraight ==
  ASSUME NEW a, Sound(a), Straight(a), NEW d, d = Drained(a)
  PROVE  Straight(d)
<1>1. PICK o \in Nat, n \in Nat, N \in Nat, c \in Nat :
        /\ o = a.output_frame /\ n = a.n_feat_frame /\ N = a.n_feat_alloc /\ n <= N
        /\ c = a.feat_outidx
  BY DEF Sound, FeatSound
<1>2. /\ d.n_feat_alloc = a.n_feat_alloc /\ ModeSame(a, d)
      /\ d.n_feat_frame = a.n_feat_frame - n /\ d.output_frame = a.output_frame + n
      /\ d.feat_outidx = Place(a, n)
  <2>1. n \in 0 .. a.n_feat_frame /\ d = Advanced(a, n)
    BY <1>1 DEF Drained
  <2>2. QED
    BY <2>1, AdvancedIs
<1>3. SUFFICES ASSUME a.grow_feat PROVE d.feat_outidx = d.output_frame /\ Ahead(d) < d.n_feat_alloc
  BY <1>2 DEF Straight, ModeSame
<1>4. c = o /\ o + n < N
  BY <1>1, <1>3 DEF Straight, Ahead
<1>5. (c + n) % N = o + n
  <2>1. PICK x \in Nat : x = o + n
    OBVIOUS
  <2>2. x \in 0 .. N - 1 /\ N \in Nat \ {0}
    BY <1>1, <1>4, <2>1
  <2>3. x % N = x
    BY <2>2
  <2>4. QED
    BY <1>4, <2>1, <2>3
<1>6. Ahead(d) = (o + n) + (n - n)
  BY <1>1, <1>2 DEF Ahead
<1>7. QED
  BY <1>1, <1>2, <1>4, <1>5, <1>6 DEF Place

\* A ring that keeps everything does so when it was read.
LEMMA DrainedFits ==
  ASSUME NEW a, Sound(a), Fits(a), NEW d, d = Drained(a)
  PROVE  Fits(d)
<1>1. PICK o \in Nat, n \in Nat, N \in Nat \ {0}, c \in Nat :
        /\ o = a.output_frame /\ n = a.n_feat_frame /\ N = a.n_feat_alloc /\ n <= N
        /\ c = a.feat_outidx
  <2>1. /\ a.output_frame \in Nat /\ a.n_feat_alloc \in Nat /\ a.n_feat_alloc >= NFeat
        /\ a.n_feat_frame \in 0 .. a.n_feat_alloc /\ a.feat_outidx \in 0 .. a.n_feat_alloc - 1
    BY DEF Sound, FeatSound
  <2>2. a.n_feat_alloc \in Nat \ {0}
    BY <2>1, SizesAre
  <2>3. QED
    BY <2>1, <2>2
<1>2. /\ d.n_feat_alloc = a.n_feat_alloc
      /\ d.n_feat_frame = a.n_feat_frame - n /\ d.output_frame = a.output_frame + n
      /\ d.feat_outidx = Place(a, n)
  <2>1. n \in 0 .. a.n_feat_frame /\ d = Advanced(a, n)
    BY <1>1 DEF Drained
  <2>2. QED
    BY <2>1, AdvancedIs
<1>3. o + n <= N /\ c = IF o < N THEN o ELSE 0
  BY <1>1 DEF Fits, Ahead
<1>4. PICK x \in Nat : x = c + n
  OBVIOUS
<1>5. x % N = IF o + n < N THEN o + n ELSE 0
  <2>1. CASE o + n < N
    <3>1. x = o + n /\ x \in 0 .. N - 1 /\ N \in Nat \ {0}
      BY <1>3, <1>4, <2>1
    <3>2. x % N = x
      BY <3>1
    <3>3. QED
      BY <2>1, <3>1, <3>2
  <2>2. CASE ~(o + n < N)
    <3>1. x = N \/ x = 0
      BY <1>3, <1>4, <2>2
    <3>2. N % N = 0 /\ 0 % N = 0
      OBVIOUS
    <3>3. QED
      BY <2>2, <3>1, <3>2
  <2>3. QED
    BY <2>1, <2>2
<1>6. Ahead(d) = (o + n) + (n - n) /\ (o + n) + (n - n) = o + n
  BY <1>1, <1>2 DEF Ahead
<1>7. QED
  BY <1>1, <1>2, <1>3, <1>4, <1>5, <1>6 DEF Place, Fits

\* A ring read from its start is read from its start when nothing was ever in it.
LEMMA DrainedStart ==
  ASSUME NEW a, Sound(a), Ahead(a) = 0, a.feat_outidx = 0, NEW d, d = Drained(a)
  PROVE  d.feat_outidx = 0
<1>1. PICK o \in Nat, n \in Nat, N \in Nat \ {0} :
        o = a.output_frame /\ n = a.n_feat_frame /\ N = a.n_feat_alloc
  BY SizesAre DEF Sound, FeatSound
<1>2. n = 0
  BY <1>1 DEF Ahead
<1>3. d.feat_outidx = Place(a, n)
  <2>1. n \in 0 .. a.n_feat_frame /\ d = Advanced(a, n)
    BY <1>1 DEF Drained
  <2>2. QED
    BY <2>1, AdvancedIs
<1>4. 0 % N = 0 /\ 0 + 0 = 0
  OBVIOUS
<1>5. QED
  BY <1>1, <1>2, <1>3, <1>4 DEF Place

---------------------------------------------------------------------------
(* The invariant, of two_pass, am, call.left, call.no_search, fed, main, loop and flat. *)

Runs(a) == a.state \in {"STARTED", "PROCESSING"}

\* The cepstra of the utterance that reached acmod.
Given(a, left, f) == IF f = "cep" THEN a.ncep - left ELSE a.ncep

\* Between two iterations no cepstrum waits, and no feature in a ring that must not grow.
Basic(tp, a, left, ns, f) ==
  /\ Sound(a) /\ tp \in BOOLEAN /\ left \in Nat /\ ns \in BOOLEAN /\ f \in {"raw", "cep", "full"}
  /\ tp => a.grow_feat
  /\ a.n_mfc_frame = 0
  /\ ~a.grow_feat => a.n_feat_frame = 0

\* What is left of the call in progress can be taken.
CallIn(a, left, ns, f) ==
  left > 0 =>
    /\ Runs(a) /\ f \in {"raw", "cep"} /\ (ns => a.grow_feat)
    /\ f = "raw" => /\ a.n_mfc_alloc > NMfc => FrameCount(a.ov, left) <= NMfc
                    /\ a.state = "STARTED" => FrameCount(a.ov, left) > 0
    /\ f = "cep" => /\ left + 2 * Win <= L /\ left <= a.ncep
                    /\ ~a.grow_feat => left <= NMfc

\* Where the utterance is: no data yet, in its middle, or given as a whole.
Waiting(a, given) == Start(a) /\ given = 0 /\ a.ov = 0 /\ a.mfc_outidx = 0
Whole(a) == a.ov = 0 /\ a.ncep = Ahead(a) /\ Fits(a)
PhaseIn(a, left, f) ==
  /\ a.state = "STARTED" /\ f # "full" => Waiting(a, Given(a, left, f))
  /\ a.state = "PROCESSING" => /\ f # "full" /\ Middle(a, Given(a, left, f))
                               /\ f = "raw" => a.ov > 0
                               /\ f = "cep" => a.ov = 0
  /\ a.state = "STARTED" /\ f = "full" => Whole(a)

\* What the searches were shown while it is running.
Looked(a, given, mn, lp) ==
  /\ Queued(a, given)
  /\ ShowsFirst(mn, Lag(a.output_frame), given)
  /\ LoopKept(lp, a.output_frame)
LookedIn(a, left, f, mn, lp) == Runs(a) => Looked(a, Given(a, left, f), mn, lp)

\* And when it has ended.
Over(tp, a, f, mn, fl) ==
  /\ a.n_feat_frame = 0
  /\ a.output_frame = IF f = "cep" THEN Settled(a.ncep) ELSE a.ncep
  /\ ShowsFirst(mn, a.output_frame, a.ncep)
  /\ tp => fl = mn
OverIn(tp, a, f, mn, fl) == a.state = "ENDED" => Over(tp, a, f, mn, fl)

\* The parts together.
DInv(tp, a, left, ns, f, mn, lp, fl) ==
  /\ Basic(tp, a, left, ns, f) /\ CallIn(a, left, ns, f) /\ PhaseIn(a, left, f)
  /\ LookedIn(a, left, f, mn, lp) /\ OverIn(tp, a, f, mn, fl)

\* Before the first feature.
LEMMA NothingShown ==
  ASSUME NEW last
  PROVE  ShowsFirst(<<>>, 0, last) /\ LoopKept(<<>>, 0) /\ Lag(0) = 0
<1>1. <<>> \in Seq(FeatureRows) /\ Len(<<>>) = 0
  OBVIOUS
<1>2. Lag(0) = 0
  BY SizesAre DEF Lag
<1>3. QED
  BY <1>1, <1>2 DEF ShowsFirst, LoopKept

\* Init.
LEMMA InitStep ==
  ASSUME NEW tp \in BOOLEAN, NEW a, a = SetGrow(NewAcmod, tp), NEW mn, NEW lp, NEW fl
  PROVE  DInv(tp, a, 0, FALSE, "raw", mn, lp, fl)
<1>1. PICK b : b = NewAcmod
  OBVIOUS
<1>2. /\ Sound(b) /\ b.state = "IDLE" /\ b.n_mfc_frame = 0
      /\ b.n_feat_frame = 0 /\ b.feat_outidx = 0 /\ b.output_frame = 0
  BY <1>1, NewAcmodIs
<1>3. b.feat_outidx = b.output_frame /\ Ahead(b) < b.n_feat_alloc
  BY <1>2, SizesAre DEF Ahead, Sound, FeatSound
<1>4. Allowed(b, tp, a)
  BY <1>1, <1>2, <1>3, SetGrowIs
<1>5. Sound(a) /\ a.state = "IDLE" /\ a.grow_feat = tp /\ a.n_mfc_frame = 0 /\ a.n_feat_frame = 0
  BY <1>2, <1>4 DEF Allowed, MfcSame
<1>6. Basic(tp, a, 0, FALSE, "raw")
  BY <1>5 DEF Basic
<1>7. ~(0 > 0)
  OBVIOUS
<1>8. QED
  BY <1>5, <1>6, <1>7 DEF DInv, CallIn, PhaseIn, LookedIn, OverIn, Runs

\* StartUtt.
LEMMA StartStep ==
  ASSUME NEW tp, NEW a, NEW ns, NEW f, Basic(tp, a, 0, ns, f),
         NEW b, b = AcmodStartUtt(a), NEW f2 \in {"raw", "cep", "full"}, NEW fl
  PROVE  DInv(tp, b, 0, ns, f2, <<>>, <<>>, fl)
<1>1. Begun(a, b)
  BY StartUttIs DEF Basic
<1>2. /\ Start(b) /\ Sound(b) /\ b.grow_feat = a.grow_feat /\ b.state = "STARTED"
      /\ b.ov = 0 /\ b.ncep = 0 /\ b.n_mfc_frame = 0 /\ b.mfc_outidx = 0
      /\ b.output_frame = 0 /\ b.n_feat_frame = 0 /\ b.feat_outidx = 0
  BY <1>1 DEF Begun, Start
<1>3. Basic(tp, b, 0, ns, f2)
  BY <1>2 DEF Basic
<1>4. Given(b, 0, f2) = 0
  BY <1>2 DEF Given
<1>5. Ahead(b) = 0 /\ b.n_feat_alloc \in Nat
  BY <1>2 DEF Ahead, Sound, FeatSound
<1>6. Fits(b)
  BY <1>2, <1>5 DEF Fits
<1>7. PhaseIn(b, 0, f2)
  BY <1>2, <1>4, <1>5, <1>6 DEF PhaseIn, Waiting, Whole
<1>8. Queued(b, 0)
  <2>1. -b.output_frame .. b.n_feat_frame - 1 = {}
    BY <1>2
  <2>2. QED
    BY <2>1 DEF Queued
<1>9. LookedIn(b, 0, f2, <<>>, <<>>)
  BY <1>2, <1>4, <1>8, NothingShown DEF LookedIn, Looked
<1>10. ~(0 > 0)
  OBVIOUS
<1>11. QED
  BY <1>2, <1>3, <1>7, <1>9, <1>10 DEF DInv, CallIn, OverIn

\* The argument no_search of a call lets the ring grow.
LEMMA NoSearchIs ==
  ASSUME NEW a, Sound(a), ~a.grow_feat => a.n_feat_frame = 0 /\ a.output_frame = 0,
         Ahead(a) = 0 => a.feat_outidx = 0, Straight(a),
         NEW b, b = SetGrow(a, TRUE)
  PROVE  Allowed(a, TRUE, b) /\ Straight(b)
<1>1. PICK o \in Nat, n \in Nat, N \in Nat \ {0} :
        o = a.output_frame /\ n = a.n_feat_frame /\ N = a.n_feat_alloc
  BY SizesAre DEF Sound, FeatSound
<1>2. a.feat_outidx = a.output_frame /\ Ahead(a) < a.n_feat_alloc
  <2>1. CASE a.grow_feat
    BY <2>1 DEF Straight
  <2>2. CASE ~a.grow_feat
    <3>1. o = 0 /\ n = 0
      BY <1>1, <2>2
    <3>2. Ahead(a) = 0
      BY <1>1, <3>1 DEF Ahead
    <3>3. QED
      BY <1>1, <3>1, <3>2
  <2>3. QED
    BY <2>1, <2>2
<1>3. Allowed(a, TRUE, b)
  BY <1>2, SetGrowIs
<1>4. /\ b.feat_outidx = a.feat_outidx /\ b.output_frame = a.output_frame
      /\ b.n_feat_frame = a.n_feat_frame /\ b.n_feat_alloc >= a.n_feat_alloc
      /\ b.n_feat_alloc \in Nat
  BY <1>3 DEF Allowed, ReadSame, Sound, FeatSound
<1>5. PICK M \in Nat : M = b.n_feat_alloc
  BY <1>4
<1>6. o + n < N /\ N <= M
  BY <1>1, <1>2, <1>4, <1>5 DEF Ahead
<1>7. b.feat_outidx = b.output_frame /\ Ahead(b) < b.n_feat_alloc
  <2>1. Ahead(b) = o + n
    BY <1>1, <1>4 DEF Ahead
  <2>2. o + n < M
    BY <1>6
  <2>3. QED
    BY <1>2, <1>4, <1>5, <2>1, <2>2
<1>8. QED
  BY <1>3, <1>7 DEF Straight

\* What no_search changes is not seen in the phase.
LEMMA AllowedMiddle ==
  ASSUME NEW a, NEW done, Middle(a, done), NEW b, Allowed(a, TRUE, b), Straight(b)
  PROVE  Middle(b, done)
<1>1. PICK o \in Nat, n \in Nat : o = a.output_frame /\ n = a.n_feat_frame
  BY DEF Middle, Sound, FeatSound
<1>2. Ahead(b) = Ahead(a)
  BY DEF Allowed, ReadSame, Ahead
<1>3. QED
  BY <1>2 DEF Middle, Allowed, ReadSame

LEMMA AllowedStart ==
  ASSUME NEW a, Start(a), NEW b, Allowed(a, TRUE, b)
  PROVE  Start(b)
BY DEF Start, Allowed, ReadSame

\* The state in which a call is made, made fit for the call: no_search after
\* features were searched is left out of this.
Fit(tp, a, ns, f, mn, lp, b) ==
  /\ b.state = a.state /\ MfcSame(a, b) /\ b.live = a.live
  /\ Basic(tp, b, 0, ns, f) /\ PhaseIn(b, 0, f) /\ LookedIn(b, 0, f, mn, lp)
  /\ ns => b.grow_feat
  /\ b.n_feat_frame = a.n_feat_frame /\ ReadSame(a, b)

\* A call accepted when it may be has room for what it brings.
LEMMA FitIs ==
  ASSUME NEW tp, NEW a, NEW f, NEW mn, NEW lp, NEW ns \in BOOLEAN, NEW ns2,
         Basic(tp, a, 0, ns2, f), PhaseIn(a, 0, f), LookedIn(a, 0, f, mn, lp), Runs(a),
         f = "full" => a.ncep = 0,
         ns /\ ~a.grow_feat => a.output_frame = 0,
         NEW b, b = IF ns THEN SetGrow(a, TRUE) ELSE a
  PROVE  Fit(tp, a, ns, f, mn, lp, b)
<1>1. /\ Sound(a) /\ tp \in BOOLEAN /\ f \in {"raw", "cep", "full"} /\ a.grow_feat \in BOOLEAN
      /\ a.n_mfc_frame = 0 /\ (~a.grow_feat => a.n_feat_frame = 0) /\ (tp => a.grow_feat)
  BY DEF Basic, Sound
<1>2. CASE ~ns
  <2>1. b = a /\ 0 \in Nat
    BY <1>2
  <2>2. Basic(tp, b, 0, ns, f)
    BY <1>1, <2>1 DEF Basic
  <2>3. MfcSame(a, b) /\ ReadSame(a, b)
    BY <2>1 DEF MfcSame, ReadSame
  <2>4. QED
    BY <1>2, <2>1, <2>2, <2>3 DEF Fit
<1>3. CASE ns
  <2>1. b = SetGrow(a, TRUE)
    BY <1>3
  <2>2. PICK given : given = Given(a, 0, f)
    OBVIOUS
  <2>3. a.state \in {"STARTED", "PROCESSING"}
    BY DEF Runs
  <2>4. a.state = "STARTED" => Start(a)
    <3>1. CASE a.state = "STARTED" /\ f # "full"
      BY <3>1 DEF PhaseIn, Waiting
    <3>2. CASE a.state = "STARTED" /\ f = "full"
      <4>1. Fits(a) /\ Ahead(a) = 0
        BY <3>2 DEF PhaseIn, Whole
      <4>2. PICK o \in Nat, n \in Nat : o = a.output_frame /\ n = a.n_feat_frame
        BY <1>1 DEF Sound, FeatSound
      <4>3. o = 0 /\ n = 0
        BY <4>1, <4>2 DEF Ahead
      <4>4. a.feat_outidx = 0
        BY <4>1, <4>2, <4>3 DEF Fits
      <4>5. QED
        BY <1>1, <3>2, <4>2, <4>3, <4>4 DEF Start
    <3>3. QED
      BY <3>1, <3>2
  <2>5. a.state = "PROCESSING" => Middle(a, given)
    BY <2>2 DEF PhaseIn
  <2>6. Straight(a) /\ (Ahead(a) = 0 => a.feat_outidx = 0)
    <3>1. CASE a.state = "STARTED"
      <4>1. a.feat_outidx = 0 /\ a.output_frame = 0 /\ a.n_feat_frame = 0
        BY <2>4, <3>1 DEF Start
      <4>2. PICK N \in Nat \ {0} : N = a.n_feat_alloc
        BY <1>1, SizesAre DEF Sound, FeatSound
      <4>3. Ahead(a) < a.n_feat_alloc
        BY <4>1, <4>2 DEF Ahead
      <4>4. QED
        BY <4>1, <4>3 DEF Straight
    <3>2. CASE a.state = "PROCESSING"
      BY <2>5, <3>2 DEF Middle
    <3>3. QED
      BY <2>3, <3>1, <3>2
  <2>7. ~a.grow_feat => a.n_feat_frame = 0 /\ a.output_frame = 0
    BY <1>1, <1>3
  <2>8. Allowed(a, TRUE, b) /\ Straight(b)
    BY <1>1, <2>1, <2>6, <2>7, NoSearchIs
  <2>9. /\ Sound(b) /\ MfcSame(a, b) /\ ReadSame(a, b)
        /\ b.state = a.state /\ b.grow_feat = TRUE /\ b.live = a.live
        /\ b.n_feat_frame = a.n_feat_frame
        /\ \A last : Queued(a, last) => Queued(b, last)
        /\ b.n_mfc_frame = a.n_mfc_frame /\ b.ncep = a.ncep /\ b.ov = a.ov
        /\ b.mfc_outidx = a.mfc_outidx /\ b.output_frame = a.output_frame
    BY <2>8 DEF Allowed, MfcSame, ReadSame
  <2>10. Basic(tp, b, 0, ns, f)
    BY <1>1, <2>9 DEF Basic
  <2>11. Given(b, 0, f) = given
    BY <2>2, <2>9 DEF Given
  <2>12. a.state = "STARTED" => Start(b)
    BY <2>4, <2>8, AllowedStart
  <2>13. a.state = "PROCESSING" => Middle(b, given)
    BY <2>5, <2>8, AllowedMiddle
  <2>14. a.state = "STARTED" /\ f = "full" => Whole(b)
    <3>1. SUFFICES ASSUME a.state = "STARTED", f = "full" PROVE Whole(b)
      OBVIOUS
    <3>2. /\ a.ncep = 0 /\ a.ov = 0 /\ b.output_frame = 0 /\ b.n_feat_frame = 0
          /\ b.feat_outidx = 0
      BY <2>12, <3>1 DEF PhaseIn, Whole, Start
    <3>3. PICK N \in Nat : N = b.n_feat_alloc
      BY <2>9 DEF Sound, FeatSound
    <3>4. Ahead(b) = 0
      <4>1. PICK x \in Nat, y \in Nat : x = b.output_frame /\ y = b.n_feat_frame
        BY <3>2
      <4>2. x + y = 0
        BY <3>2, <4>1
      <4>3. QED
        BY <4>1, <4>2 DEF Ahead
    <3>5. Fits(b)
      <4>1. 0 <= N
        OBVIOUS
      <4>2. Ahead(b) <= b.n_feat_alloc
        BY <3>3, <3>4, <4>1
      <4>3. b.feat_outidx = IF b.output_frame < b.n_feat_alloc THEN b.output_frame ELSE 0
        BY <3>2
      <4>4. QED
        BY <4>2, <4>3 DEF Fits
    <3>6. QED
      BY <2>9, <3>2, <3>4, <3>5 DEF Whole
  <2>15. PhaseIn(b, 0, f)
    <3>1. a.state = "STARTED" /\ f # "full" => Waiting(b, given)
      BY <2>2, <2>9, <2>12 DEF PhaseIn, Waiting
    <3>2. a.state = "PROCESSING" => /\ f # "full" /\ Middle(b, given)
                                    /\ f = "raw" => b.ov > 0
                                    /\ f = "cep" => b.ov = 0
      BY <2>9, <2>13 DEF PhaseIn
    <3>3. QED
      BY <2>9, <2>11, <2>14, <3>1, <3>2 DEF PhaseIn
  <2>16. LookedIn(b, 0, f, mn, lp)
    <3>1. Looked(a, given, mn, lp)
      BY <2>2 DEF LookedIn
    <3>2. Looked(b, given, mn, lp)
      BY <2>9, <3>1 DEF Looked
    <3>3. QED
      BY <2>11, <3>2 DEF LookedIn
  <2>17. QED
    BY <1>3, <2>9, <2>10, <2>15, <2>16 DEF Fit
<1>4. QED
  BY <1>2, <1>3

\* A call was begun.
Called(tp, a, n, ns, f, mn, lp, fl, ncep, b) ==
  DInv(tp, b, n, ns, f, mn, lp, fl) /\ b.ncep = ncep /\ b.state = a.state

\* CallRaw.
LEMMA CallRawStep ==
  ASSUME NEW tp, NEW a, NEW mn, NEW lp, NEW fl, NEW ns2, NEW ns \in BOOLEAN,
         DInv(tp, a, 0, ns2, "raw", mn, lp, fl), Runs(a),
         ns /\ ~a.grow_feat => a.output_frame = 0,
         NEW n \in Nat,
         a.state = "STARTED" => FrameCount(a.ov, n) # 0,
         a.n_mfc_alloc > NMfc => ~(FrameCount(a.ov, n) > NMfc),
         NEW b, b = IF ns THEN SetGrow(a, TRUE) ELSE a
  PROVE  Called(tp, a, n, ns, "raw", mn, lp, fl, a.ncep, b)
<1>1. Fit(tp, a, ns, "raw", mn, lp, b)
  BY FitIs DEF DInv
<1>2. /\ b.state = a.state /\ MfcSame(a, b) /\ Basic(tp, b, 0, ns, "raw")
      /\ PhaseIn(b, 0, "raw") /\ LookedIn(b, 0, "raw", mn, lp) /\ (ns => b.grow_feat)
      /\ Sound(a) /\ ReadSame(a, b)
  BY <1>1 DEF Fit, DInv, Basic
<1>3. Given(b, n, "raw") = b.ncep /\ Given(b, 0, "raw") = b.ncep
  BY DEF Given
<1>4. Basic(tp, b, n, ns, "raw")
  BY <1>2 DEF Basic
<1>5. PhaseIn(b, n, "raw") /\ LookedIn(b, n, "raw", mn, lp)
  BY <1>2, <1>3 DEF PhaseIn, LookedIn
<1>6. b.ov = a.ov /\ b.n_mfc_alloc = a.n_mfc_alloc
  BY <1>2 DEF MfcSame
<1>7. FrameCount(a.ov, n) \in Nat
  <2>1. PICK ov \in 0 .. FrameSize : ov = a.ov
    BY <1>2 DEF Sound, MfcSound
  <2>2. FrameCount(ov, n) \in Nat
    BY FrameAssumption DEF FrameCount
  <2>3. QED
    BY <2>1, <2>2
<1>8. CallIn(b, n, ns, "raw")
  <2>1. PICK m \in Nat : m = FrameCount(a.ov, n)
    BY <1>7
  <2>2. ASSUME b.n_mfc_alloc > NMfc PROVE m <= NMfc
    <3>1. ~(m > NMfc)
      BY <1>6, <2>1, <2>2
    <3>2. QED
      BY <3>1, SizesAre
  <2>3. b.state = "STARTED" => m > 0
    BY <1>2, <2>1
  <2>4. Runs(b)
    BY <1>2 DEF Runs
  <2>5. QED
    BY <1>2, <1>6, <2>1, <2>2, <2>3, <2>4 DEF CallIn
<1>9. OverIn(tp, b, "raw", mn, fl)
  BY <1>2 DEF OverIn, Runs
<1>10. QED
  BY <1>2, <1>4, <1>5, <1>8, <1>9 DEF Called, DInv, MfcSame

\* CallCep.
LEMMA CallCepStep ==
  ASSUME NEW tp, NEW a, NEW mn, NEW lp, NEW fl, NEW ns2, NEW ns \in BOOLEAN,
         DInv(tp, a, 0, ns2, "cep", mn, lp, fl), Runs(a),
         ns /\ ~a.grow_feat => a.output_frame = 0,
         NEW n \in Nat, n + 2 * Win <= L,
         ~a.grow_feat /\ ~ns => ~(n > NMfc),
         NEW b, b = [IF ns THEN SetGrow(a, TRUE) ELSE a EXCEPT !.ncep = @ + n]
  PROVE  Called(tp, a, n, ns, "cep", mn, lp, fl, a.ncep + n, b)
<1>1. PICK c : c = IF ns THEN SetGrow(a, TRUE) ELSE a
  OBVIOUS
<1>2. Fit(tp, a, ns, "cep", mn, lp, c)
  BY <1>1, FitIs DEF DInv
<1>3. /\ c.state = a.state /\ MfcSame(a, c) /\ Basic(tp, c, 0, ns, "cep")
      /\ PhaseIn(c, 0, "cep") /\ LookedIn(c, 0, "cep", mn, lp) /\ (ns => c.grow_feat)
      /\ c.ncep = a.ncep /\ ReadSame(a, c)
  BY <1>2 DEF Fit, MfcSame
<1>4. Sound(c) /\ DOMAIN c = Fields
  BY <1>3 DEF Basic, Sound
<1>5. PICK k \in Nat : k = c.ncep
  BY <1>4 DEF Sound, MfcSound
<1>6. b = [c EXCEPT !.ncep = k + n]
  BY <1>1, <1>5
<1>7. PICK k2 \in Nat : k2 = k + n
  OBVIOUS
<1>8. Counted(c, k2, b)
  <2>1. b = [c EXCEPT !.ncep = k2]
    BY <1>6, <1>7
  <2>2. Counted(c, k2, [c EXCEPT !.ncep = k2])
    BY <1>4, CountedFields
  <2>3. QED
    BY <2>1, <2>2
<1>9. /\ Sound(b) /\ HeadSame(c, b)
      /\ \A last : Queued(c, last) => Queued(b, last)
      /\ \A done : Middle(c, done) => Middle(b, done)
      /\ Start(c) => Start(b)
  <2>1. CountKeeps(c, b)
    BY <1>4, <1>8, CountedIs
  <2>2. QED
    BY <2>1 DEF CountKeeps
<1>10. /\ b.state = c.state /\ b.grow_feat = c.grow_feat /\ b.n_feat_frame = c.n_feat_frame
       /\ b.output_frame = c.output_frame /\ b.n_mfc_frame = c.n_mfc_frame
       /\ b.ov = c.ov /\ b.mfc_outidx = c.mfc_outidx /\ b.ncep = k2
  BY <1>8, <1>9 DEF Counted, HeadSame
<1>11. Given(b, n, "cep") = k /\ Given(c, 0, "cep") = k
  <2>1. k2 - n = k /\ k - 0 = k
    BY <1>7
  <2>2. QED
    BY <1>5, <1>10, <2>1 DEF Given
<1>12. Basic(tp, b, n, ns, "cep")
  BY <1>3, <1>9, <1>10 DEF Basic
<1>13. PhaseIn(b, n, "cep")
  BY <1>3, <1>9, <1>10, <1>11 DEF PhaseIn, Waiting
<1>14. LookedIn(b, n, "cep", mn, lp)
  BY <1>3, <1>9, <1>10, <1>11 DEF LookedIn, Looked, Runs
<1>15. CallIn(b, n, ns, "cep")
  <2>1. Runs(b)
    BY <1>3, <1>10 DEF Runs
  <2>2. n <= k2
    BY <1>7
  <2>3. ~b.grow_feat => n <= NMfc
    <3>1. ~b.grow_feat => ~ns
      BY <1>3, <1>10
    <3>2. ~ns => c = a
      BY <1>1
    <3>3. SUFFICES ASSUME ~b.grow_feat PROVE n <= NMfc
      OBVIOUS
    <3>4. ~(n > NMfc)
      BY <1>10, <3>1, <3>2, <3>3
    <3>5. QED
      BY <3>4, SizesAre
  <2>4. ns => b.grow_feat
    BY <1>3, <1>10
  <2>5. QED
    BY <1>10, <2>1, <2>2, <2>3, <2>4 DEF CallIn
<1>16. OverIn(tp, b, "cep", mn, fl)
  BY <1>3, <1>10 DEF OverIn, Runs
<1>17. b.ncep = a.ncep + n
  BY <1>3, <1>5, <1>7, <1>10
<1>18. QED
  BY <1>3, <1>10, <1>12, <1>13, <1>14, <1>15, <1>16, <1>17 DEF Called, DInv

---------------------------------------------------------------------------
(* An iteration of the loop of a call. *)

WorkedOf(a, left, f) ==
  IF f = "raw" THEN ProcessRaw(a, left)
  ELSE LET cep == ProcessCep(a, [i \in 1 .. left |-> a.ncep - left + i])
       IN [a |-> cep.a, left |-> left - cep.used]

\* What it makes of a: all that the ring had places for are features.
WorkGives(a, left, f, w) ==
  /\ Middle(w.a, Given(w.a, w.left, f)) /\ w.a.grow_feat = a.grow_feat /\ ReadSame(a, w.a)
  /\ w.a.n_mfc_frame = 0
  /\ f = "raw" => w.a.ov > 0
  /\ f = "cep" => w.a.ov = 0
  /\ ~a.grow_feat => w.a.n_feat_frame <= NMfc
  /\ w.left \in Nat
  /\ w.left > 0 => f = "raw" /\ (w.a.n_mfc_alloc > NMfc => FrameCount(w.a.ov, w.left) <= NMfc)
  /\ Given(w.a, w.left, f) - Given(a, left, f) \in Nat
  /\ w.a.ncep - a.ncep \in Nat

\* ps_process_raw.
LEMMA RawWork ==
  ASSUME FrameSize > FrameShift,
         NEW tp, NEW a, NEW ns, NEW left \in Nat \ {0},
         Basic(tp, a, left, ns, "raw"), CallIn(a, left, ns, "raw"), PhaseIn(a, left, "raw"),
         NEW w, w = ProcessRaw(a, left)
  PROVE  WorkGives(a, left, "raw", w)
<1>1. /\ Sound(a) /\ a.n_mfc_frame = 0 /\ (~a.grow_feat => a.n_feat_frame = 0)
  BY DEF Basic
<1>2. left > 0
  OBVIOUS
<1>3. /\ a.state \in {"STARTED", "PROCESSING"}
      /\ a.n_mfc_alloc > NMfc => FrameCount(a.ov, left) <= NMfc
      /\ a.state = "STARTED" => FrameCount(a.ov, left) > 0
  BY <1>2 DEF CallIn, Runs
<1>4. Given(a, left, "raw") = a.ncep
  BY DEF Given
<1>5. ASSUME a.state = "STARTED" PROVE RawGives(a, left, w)
  <2>1. Start(a) /\ a.ncep = 0 /\ a.ov = 0 /\ a.mfc_outidx = 0
    BY <1>4, <1>5 DEF PhaseIn, Waiting
  <2>2. QED
    BY <1>1, <1>3, <1>5, <2>1, RawStart
<1>6. ASSUME a.state = "PROCESSING" PROVE RawGives(a, left, w)
  <2>1. Middle(a, a.ncep) /\ a.ov > 0
    BY <1>4, <1>6 DEF PhaseIn
  <2>2. QED
    BY <1>1, <1>3, <2>1, RawMiddle
<1>7. RawGives(a, left, w)
  BY <1>3, <1>5, <1>6
<1>8. /\ Middle(w.a, w.a.ncep) /\ w.a.grow_feat = a.grow_feat /\ ReadSame(a, w.a)
      /\ w.a.n_mfc_frame = 0
      /\ w.a.ncep - a.ncep \in Nat
      /\ w.a.ov > 0
      /\ (~a.grow_feat => w.a.n_feat_frame <= NMfc)
      /\ w.left \in 0 .. left
      /\ (w.a.n_mfc_alloc > NMfc => FrameCount(w.a.ov, w.left) <= NMfc)
  BY <1>7 DEF RawGives
<1>9. w.left \in Nat
  BY <1>8
<1>10. Given(w.a, w.left, "raw") = w.a.ncep
  BY DEF Given
<1>11. QED
  BY <1>4, <1>8, <1>9, <1>10 DEF WorkGives

\* ps_process_cep.
LEMMA CepWork ==
  ASSUME NEW tp, NEW a, NEW ns, NEW left \in Nat \ {0},
         Basic(tp, a, left, ns, "cep"), CallIn(a, left, ns, "cep"), PhaseIn(a, left, "cep"),
         NEW pc, pc = ProcessCep(a, [i \in 1 .. left |-> a.ncep - left + i]),
         NEW w, w = [a |-> pc.a, left |-> left - pc.used]
  PROVE  WorkGives(a, left, "cep", w)
<1>1. /\ Sound(a) /\ a.n_mfc_frame = 0 /\ (~a.grow_feat => a.n_feat_frame = 0)
  BY DEF Basic
<1>2. left > 0
  OBVIOUS
<1>3. /\ a.state \in {"STARTED", "PROCESSING"}
      /\ left + 2 * Win <= L /\ left <= a.ncep /\ (~a.grow_feat => left <= NMfc)
  BY <1>2 DEF CallIn, Runs
<1>4. PICK h \in Nat : h = a.ncep
  BY <1>1 DEF Sound, MfcSound
<1>5. PICK done \in Nat : done = h - left
  BY <1>3, <1>4
<1>6. Given(a, left, "cep") = done /\ h = done + left
  BY <1>4, <1>5 DEF Given
<1>7. [i \in 1 .. left |-> a.ncep - left + i] = [i \in 1 .. left |-> done + i]
  BY <1>4, <1>5
<1>8. PICK N \in Nat : N = a.n_feat_alloc /\ N >= NMfc
  BY <1>1, SizesAre DEF Sound, FeatSound
<1>9. ~a.grow_feat => left <= N
  BY <1>3, <1>8, SizesAre
<1>10. a.ov = 0
  BY <1>3, <1>6 DEF PhaseIn, Waiting
<1>11. PICK cep : cep = [i \in 1 .. left |-> done + i] /\ pc = ProcessCep(a, cep)
  BY <1>7
<1>12. /\ pc.used = left
       /\ Middle(pc.a, done + left) /\ MfcSame(a, pc.a) /\ pc.a.grow_feat = a.grow_feat
       /\ ReadSame(a, pc.a)
       /\ ~a.grow_feat => pc.a.n_feat_frame <= NMfc
  <2>1. CASE a.state = "STARTED"
    <3>1. Start(a) /\ done = 0
      BY <1>6, <2>1 DEF PhaseIn, Waiting
    <3>2. cep = [i \in 1 .. left |-> 0 + i]
      BY <1>11, <3>1
    <3>3. StartGives(a, left, pc)
      BY <1>3, <1>8, <1>9, <1>11, <3>1, <3>2, ProcessStart
    <3>4. done + left = left
      BY <3>1
    <3>5. ~a.grow_feat => Settled(left) <= NMfc
      <4>1. Settled(left) \in Nat /\ Settled(left) <= left
        BY SizesAre, LiveAssumption DEF Settled
      <4>2. QED
        BY <1>3, <4>1, SizesAre
    <3>6. QED
      BY <3>3, <3>4, <3>5 DEF StartGives
  <2>2. CASE a.state = "PROCESSING"
    <3>1. Middle(a, done)
      BY <1>6, <2>2 DEF PhaseIn
    <3>2. ~a.grow_feat => a.n_feat_frame + left <= a.n_feat_alloc
      BY <1>1, <1>8, <1>9
    <3>3. MiddleGives(a, done, left, pc)
      BY <1>3, <1>11, <3>1, <3>2, ProcessMiddle
    <3>4. ~a.grow_feat => pc.a.n_feat_frame <= NMfc
      <4>1. PICK m \in 0 .. left : m = More(done, left)
        BY MoreIs
      <4>2. SUFFICES ASSUME ~a.grow_feat PROVE pc.a.n_feat_frame <= NMfc
        OBVIOUS
      <4>3. a.n_feat_frame = 0 /\ pc.a.n_feat_frame = a.n_feat_frame + m /\ left <= NMfc
        BY <1>1, <1>3, <3>3, <4>1, <4>2 DEF MiddleGives
      <4>4. pc.a.n_feat_frame = m
        BY <4>3
      <4>5. QED
        BY <4>3, <4>4, SizesAre
    <3>5. QED
      BY <3>3, <3>4 DEF MiddleGives, ModeSame
  <2>3. QED
    BY <1>3, <2>1, <2>2
<1>13. w.a = pc.a /\ w.left = 0
  BY <1>12
<1>14. pc.a.ncep = h /\ pc.a.n_mfc_frame = 0 /\ pc.a.ov = 0
  BY <1>1, <1>4, <1>10, <1>12 DEF MfcSame
<1>15. Given(w.a, w.left, "cep") = done + left
  BY <1>6, <1>13, <1>14 DEF Given
<1>16. /\ Given(w.a, w.left, "cep") - Given(a, left, "cep") \in Nat
       /\ w.a.ncep - a.ncep \in Nat
  BY <1>4, <1>6, <1>13, <1>14, <1>15
<1>17. w.left \in Nat /\ ~(w.left > 0)
  BY <1>13
<1>18. QED
  BY <1>12, <1>13, <1>14, <1>15, <1>16, <1>17 DEF WorkGives

\* What was shown stays right when more of the utterance comes.
LEMMA ShowsLater ==
  ASSUME NEW last \in Nat, NEW n \in Nat, n <= Settled(last), NEW seq, ShowsFirst(seq, n, last),
         NEW last2 \in Nat, last2 - last \in Nat
  PROVE  ShowsFirst(seq, n, last2)
<1>1. PICK k \in Nat : last2 = last + k
  <2>1. PICK k \in Nat : k = last2 - last
    OBVIOUS
  <2>2. last2 = last + k
    BY <2>1
  <2>3. QED
    BY <2>2
<1>2. Settled(last) \in Nat
  BY SizesAre, LiveAssumption DEF Settled
<1>3. ASSUME NEW t \in 1 .. n PROVE seq[t] = Ideal(last2)[t]
  <2>1. t \in 1 .. Settled(last)
    BY <1>2
  <2>2. Ideal(last)[t] = Ideal(last + k)[t]
    BY <2>1, StaysIdeal
  <2>3. seq[t] = Ideal(last)[t]
    BY DEF ShowsFirst
  <2>4. QED
    BY <1>1, <2>2, <2>3
<1>4. QED
  BY <1>3 DEF ShowsFirst

\* Of an utterance that came in blocks, the main search was shown nothing that may change.
LEMMA LagSettled ==
  ASSUME NEW a, NEW left, NEW f, Sound(a), PhaseIn(a, left, f), Runs(a), f # "full",
         NEW given, given = Given(a, left, f)
  PROVE  /\ given \in Nat /\ Lag(a.output_frame) \in Nat
         /\ Lag(a.output_frame) <= Settled(given) /\ Settled(given) <= given
<1>1. a.state \in {"STARTED", "PROCESSING"}
  BY DEF Runs
<1>2. PICK o \in Nat, n \in Nat : o = a.output_frame /\ n = a.n_feat_frame
  BY DEF Sound, FeatSound
<1>3. PICK l1 \in Nat : l1 = Lag(o) /\ l1 <= o
  BY LagIs
<1>4. CASE a.state = "STARTED"
  <2>1. given = 0 /\ a.output_frame = 0
    BY <1>4 DEF PhaseIn, Waiting, Start
  <2>2. l1 = 0
    BY <1>2, <1>3, <2>1
  <2>3. Settled(0) = 0
    BY LiveAssumption DEF Settled
  <2>4. QED
    BY <1>2, <1>3, <2>1, <2>2, <2>3
<1>5. CASE a.state = "PROCESSING"
  <2>1. Middle(a, given)
    BY <1>5 DEF PhaseIn
  <2>2. PICK s \in Nat : s = Settled(given) /\ Ahead(a) = s /\ s <= given /\ given \in Nat
    BY <2>1, LiveAssumption DEF Middle, InStep, Settled
  <2>3. s = o + n
    BY <1>2, <2>2 DEF Ahead
  <2>4. l1 <= s
    BY <1>3, <2>3
  <2>5. QED
    BY <1>2, <1>3, <2>2, <2>4
<1>6. QED
  BY <1>1, <1>4, <1>5

\* An utterance in its middle satisfies the invariant.
LEMMA MiddleInv ==
  ASSUME NEW tp \in BOOLEAN, NEW a, NEW left \in Nat, NEW ns \in BOOLEAN, NEW f \in {"raw", "cep"},
         NEW given, given = Given(a, left, f), Middle(a, given),
         tp => a.grow_feat, a.n_mfc_frame = 0, ~a.grow_feat => a.n_feat_frame = 0,
         f = "raw" => a.ov > 0, f = "cep" => a.ov = 0,
         ns => a.grow_feat,
         left > 0 => f = "raw" /\ (a.n_mfc_alloc > NMfc => FrameCount(a.ov, left) <= NMfc),
         NEW mn, NEW lp, Looked(a, given, mn, lp), NEW fl
  PROVE  DInv(tp, a, left, ns, f, mn, lp, fl)
<1>1. Sound(a) /\ a.state = "PROCESSING"
  BY DEF Middle
<1>2. Basic(tp, a, left, ns, f)
  BY <1>1 DEF Basic
<1>3. CallIn(a, left, ns, f)
  <2>1. SUFFICES ASSUME left > 0 PROVE CallIn(a, left, ns, f)
    BY DEF CallIn
  <2>2. f = "raw" /\ (a.n_mfc_alloc > NMfc => FrameCount(a.ov, left) <= NMfc)
    BY <2>1
  <2>3. QED
    BY <1>1, <2>2 DEF CallIn, Runs
<1>4. PhaseIn(a, left, f)
  BY <1>1 DEF PhaseIn
<1>5. LookedIn(a, left, f, mn, lp)
  BY DEF LookedIn
<1>6. OverIn(tp, a, f, mn, fl)
  BY <1>1 DEF OverIn
<1>7. QED
  BY <1>2, <1>3, <1>4, <1>5, <1>6 DEF DInv

\* What acmod made of a call, before any search.
LEMMA WorkIs ==
  ASSUME FrameSize > FrameShift,
         NEW tp, NEW a, NEW left \in Nat \ {0}, NEW ns, NEW f,
         Basic(tp, a, left, ns, f), CallIn(a, left, ns, f), PhaseIn(a, left, f),
         NEW w, w = WorkedOf(a, left, f)
  PROVE  f \in {"raw", "cep"} /\ WorkGives(a, left, f, w)
<1>1. f \in {"raw", "cep"} /\ left > 0
  BY DEF CallIn
<1>2. CASE f = "raw"
  <2>1. w = ProcessRaw(a, left)
    BY <1>2 DEF WorkedOf
  <2>2. Basic(tp, a, left, ns, "raw") /\ CallIn(a, left, ns, "raw") /\ PhaseIn(a, left, "raw")
    BY <1>2
  <2>3. WorkGives(a, left, "raw", w)
    BY <2>1, <2>2, RawWork
  <2>4. QED
    BY <1>2, <2>3
<1>3. CASE f = "cep"
  <2>1. PICK pc : pc = ProcessCep(a, [i \in 1 .. left |-> a.ncep - left + i])
    OBVIOUS
  <2>2. w = [a |-> pc.a, left |-> left - pc.used]
    BY <1>3, <2>1 DEF WorkedOf
  <2>3. Basic(tp, a, left, ns, "cep") /\ CallIn(a, left, ns, "cep") /\ PhaseIn(a, left, "cep")
    BY <1>3
  <2>4. WorkGives(a, left, "cep", w)
    BY <2>1, <2>2, <2>3, CepWork
  <2>5. QED
    BY <1>3, <2>4
<1>4. QED
  BY <1>1, <1>2, <1>3

\* Seen from the features acmod made.
WorkedSafely(tp, a, left, ns, f, mn, lp, w) ==
  /\ WorkGives(a, left, f, w) /\ f \in {"raw", "cep"} /\ w.a.ok = TRUE
  /\ Looked(w.a, Given(w.a, w.left, f), mn, lp)
  /\ ns => w.a.grow_feat
  /\ tp => w.a.grow_feat

\* That it satisfies the invariant with nothing shown yet of the new features.
LEMMA WorkLooks ==
  ASSUME FrameSize > FrameShift,
         NEW tp, NEW a, NEW left \in Nat \ {0}, NEW ns, NEW f, NEW mn, NEW lp, NEW fl,
         DInv(tp, a, left, ns, f, mn, lp, fl),
         NEW w, w = WorkedOf(a, left, f)
  PROVE  WorkedSafely(tp, a, left, ns, f, mn, lp, w)
<1>1. Basic(tp, a, left, ns, f) /\ CallIn(a, left, ns, f) /\ PhaseIn(a, left, f)
      /\ LookedIn(a, left, f, mn, lp)
  BY DEF DInv
<1>2. f \in {"raw", "cep"} /\ WorkGives(a, left, f, w)
  BY <1>1, WorkIs
<1>3. Runs(a) /\ (ns => a.grow_feat) /\ (tp => a.grow_feat) /\ Sound(a) /\ f # "full"
  <2>1. left > 0
    OBVIOUS
  <2>2. QED
    BY <1>1, <1>2, <2>1 DEF CallIn, Basic
<1>4. PICK g, g2 : g = Given(a, left, f) /\ g2 = Given(w.a, w.left, f)
  OBVIOUS
<1>5. Looked(a, g, mn, lp)
  BY <1>1, <1>3, <1>4 DEF LookedIn
<1>6. /\ g \in Nat /\ Lag(a.output_frame) \in Nat /\ Lag(a.output_frame) <= Settled(g)
  BY <1>1, <1>3, <1>4, LagSettled
<1>7. /\ Middle(w.a, g2) /\ w.a.grow_feat = a.grow_feat /\ ReadSame(a, w.a) /\ g2 - g \in Nat
  BY <1>2, <1>4 DEF WorkGives
<1>8. g2 \in Nat /\ Queued(w.a, g2) /\ w.a.ok = TRUE
  BY <1>7 DEF Middle, Sound
<1>9. ShowsFirst(mn, Lag(a.output_frame), g2)
  BY <1>5, <1>6, <1>7, <1>8, ShowsLater DEF Looked
<1>10. Looked(w.a, g2, mn, lp)
  BY <1>5, <1>7, <1>8, <1>9 DEF Looked, ReadSame
<1>11. QED
  BY <1>2, <1>3, <1>4, <1>7, <1>8, <1>10 DEF WorkedSafely

\* An iteration that does not search.
LEMMA WorkQuiet ==
  ASSUME NEW tp \in BOOLEAN, NEW a, NEW left, NEW f, NEW mn, NEW lp, NEW fl, NEW w,
         WorkedSafely(tp, a, left, TRUE, f, mn, lp, w)
  PROVE  DInv(tp, w.a, w.left, TRUE, f, mn, lp, fl)
<1>1. PICK b, m, g : b = w.a /\ m = w.left /\ g = Given(w.a, w.left, f)
  OBVIOUS
<1>2. /\ f \in {"raw", "cep"} /\ Looked(b, g, mn, lp) /\ b.grow_feat /\ (tp => b.grow_feat)
      /\ Middle(b, g) /\ b.n_mfc_frame = 0 /\ (f = "raw" => b.ov > 0) /\ (f = "cep" => b.ov = 0)
      /\ m \in Nat
      /\ (m > 0 => f = "raw" /\ (b.n_mfc_alloc > NMfc => FrameCount(b.ov, m) <= NMfc))
  BY <1>1 DEF WorkedSafely, WorkGives
<1>3. g = Given(b, m, f)
  BY <1>1
<1>4. DInv(tp, b, m, TRUE, f, mn, lp, fl)
  BY <1>2, <1>3, MiddleInv
<1>5. QED
  BY <1>1, <1>4

\* One that does.
Searched(tp, w, f, mn, fl, d, mn2, lp2) ==
  /\ DInv(tp, d, w.left, FALSE, f, mn2, lp2, fl) /\ d.ncep = w.a.ncep
  /\ Goes(mn, mn2) /\ d.state = "PROCESSING"

\* And with the searches shown the new features.
LEMMA WorkSearches ==
  ASSUME NEW tp \in BOOLEAN, NEW a, NEW left, NEW f, NEW mn, NEW lp, NEW fl, NEW w,
         WorkedSafely(tp, a, left, FALSE, f, mn, lp, w),
         NEW d, d = Drained(w.a), NEW mn2, mn2 = mn \o ShownToMain(w.a),
         NEW lp2, lp2 = lp \o ShownToLoop(w.a)
  PROVE  Searched(tp, w, f, mn, fl, d, mn2, lp2)
<1>1. PICK b, m, g : b = w.a /\ m = w.left /\ g = Given(w.a, w.left, f)
  OBVIOUS
<1>2. /\ f \in {"raw", "cep"} /\ Looked(b, g, mn, lp) /\ (tp => b.grow_feat)
      /\ Middle(b, g) /\ b.n_mfc_frame = 0 /\ (f = "raw" => b.ov > 0) /\ (f = "cep" => b.ov = 0)
      /\ m \in Nat
      /\ (m > 0 => f = "raw" /\ (b.n_mfc_alloc > NMfc => FrameCount(b.ov, m) <= NMfc))
      /\ (~b.grow_feat => b.n_feat_frame <= NMfc)
  BY <1>1 DEF WorkedSafely, WorkGives
<1>3. /\ Sound(b) /\ b.state = "PROCESSING" /\ g \in Nat /\ Queued(b, g) /\ Straight(b)
      /\ InStep(b.live, Ahead(b), g) /\ (Ahead(b) = 0 => b.feat_outidx = 0) /\ g \in Nat \ {0}
  BY <1>2 DEF Middle
<1>4. Lookback(b)
  BY <1>2, <1>3, LookbackIs
<1>5. Ahead(b) <= g
  BY <1>3, LiveAssumption DEF InStep, Settled
<1>6. d = Drained(b) /\ mn2 = mn \o ShownToMain(b) /\ lp2 = lp \o ShownToLoop(b)
  BY <1>1
<1>7. ShowsFirst(mn, Lag(b.output_frame), g) /\ LoopKept(lp, b.output_frame)
  BY <1>2 DEF Looked
<1>8. SearchGives(b, g, mn, d, mn2, lp2)
  BY <1>3, <1>4, <1>5, <1>6, <1>7, SearchIs
<1>9. /\ Sound(d) /\ Queued(d, g) /\ MfcSame(b, d) /\ ModeSame(b, d) /\ d.live = b.live
      /\ d.n_feat_frame = 0 /\ Ahead(d) = Ahead(b)
      /\ ShowsFirst(mn2, Lag(d.output_frame), g) /\ Goes(mn, mn2)
      /\ LoopKept(lp2, d.output_frame)
  BY <1>8 DEF SearchGives
<1>10. /\ d.state = b.state /\ d.grow_feat = b.grow_feat /\ d.ncep = b.ncep /\ d.ov = b.ov
       /\ d.n_mfc_frame = b.n_mfc_frame /\ d.n_mfc_alloc = b.n_mfc_alloc
  BY <1>9 DEF MfcSame, ModeSame
<1>11. Straight(d)
  BY <1>3, <1>6, DrainedStraight
<1>12. Ahead(d) = 0 => d.feat_outidx = 0
  BY <1>3, <1>6, <1>9, DrainedStart
<1>13. Middle(d, g)
  BY <1>3, <1>9, <1>10, <1>11, <1>12 DEF Middle
<1>14. g = Given(d, m, f)
  BY <1>1, <1>10 DEF Given
<1>15. Looked(d, g, mn2, lp2)
  BY <1>9 DEF Looked
<1>16. DInv(tp, d, m, FALSE, f, mn2, lp2, fl)
  BY <1>2, <1>9, <1>10, <1>13, <1>14, <1>15, MiddleInv
<1>17. QED
  BY <1>1, <1>3, <1>9, <1>10, <1>16 DEF Searched

---------------------------------------------------------------------------
(* A whole utterance in one call. *)

\* An utterance given as a whole, before and after that.
LEMMA WholeInv ==
  ASSUME NEW tp \in BOOLEAN, NEW a, NEW ns \in BOOLEAN,
         Sound(a), a.state = "STARTED", tp => a.grow_feat, a.n_mfc_frame = 0,
         ~a.grow_feat => a.n_feat_frame = 0, Whole(a),
         NEW mn, NEW lp, Looked(a, a.ncep, mn, lp), NEW fl
  PROVE  DInv(tp, a, 0, ns, "full", mn, lp, fl)
<1>1. Basic(tp, a, 0, ns, "full")
  BY DEF Basic
<1>2. ~(0 > 0)
  OBVIOUS
<1>3. CallIn(a, 0, ns, "full")
  BY <1>2 DEF CallIn
<1>4. PhaseIn(a, 0, "full")
  BY DEF PhaseIn
<1>5. Given(a, 0, "full") = a.ncep
  BY DEF Given
<1>6. LookedIn(a, 0, "full", mn, lp)
  BY <1>5 DEF LookedIn
<1>7. OverIn(tp, a, "full", mn, fl)
  BY DEF OverIn
<1>8. QED
  BY <1>1, <1>3, <1>4, <1>6, <1>7 DEF DInv

\* What is known before.
Empty(tp, a, ns, mn, lp) ==
  /\ Sound(a) /\ a.state = "STARTED" /\ (tp => a.grow_feat) /\ (ns => a.grow_feat)
  /\ a.ov = 0 /\ a.ncep = 0 /\ a.n_mfc_frame = 0
  /\ a.output_frame = 0 /\ a.feat_outidx = 0
  /\ ShowsFirst(mn, 0, 0) /\ LoopKept(lp, 0)

\* An utterance without data is empty.
LEMMA FullStart ==
  ASSUME NEW tp, NEW a, NEW mn, NEW lp, NEW fl, NEW ns2, NEW ns \in BOOLEAN,
         DInv(tp, a, 0, ns2, "full", mn, lp, fl), Runs(a), a.ncep = 0,
         NEW c, c = IF ns THEN SetGrow(a, TRUE) ELSE a
  PROVE  Empty(tp, c, ns, mn, lp) /\ c.state = a.state
<1>1. /\ Basic(tp, a, 0, ns2, "full") /\ PhaseIn(a, 0, "full") /\ LookedIn(a, 0, "full", mn, lp)
      /\ Sound(a)
  BY DEF DInv, Basic
<1>2. a.state = "STARTED" /\ Whole(a)
  BY <1>1 DEF PhaseIn, Runs
<1>3. PICK o \in Nat, n \in Nat : o = a.output_frame /\ n = a.n_feat_frame
  BY <1>1 DEF Sound, FeatSound
<1>4. o = 0
  BY <1>2, <1>3 DEF Whole, Ahead
<1>5. Fit(tp, a, ns, "full", mn, lp, c)
  BY <1>1, <1>3, <1>4, FitIs
<1>6. /\ c.state = "STARTED" /\ MfcSame(a, c) /\ ReadSame(a, c) /\ (ns => c.grow_feat)
      /\ Basic(tp, c, 0, ns, "full") /\ PhaseIn(c, 0, "full") /\ LookedIn(c, 0, "full", mn, lp)
  BY <1>2, <1>5 DEF Fit
<1>7. c.ov = 0 /\ c.ncep = 0 /\ c.output_frame = 0
  BY <1>2, <1>3, <1>4, <1>6 DEF MfcSame, ReadSame, Whole
<1>8. Sound(c) /\ (tp => c.grow_feat) /\ c.n_mfc_frame = 0
  BY <1>6 DEF Basic
<1>9. Fits(c)
  BY <1>6 DEF PhaseIn, Whole
<1>10. c.feat_outidx = 0
  BY <1>7, <1>9 DEF Fits
<1>11. ShowsFirst(mn, 0, 0) /\ LoopKept(lp, 0)
  <2>1. Looked(c, 0, mn, lp)
    BY <1>6, <1>7 DEF LookedIn, Runs, Given
  <2>2. QED
    BY <1>7, <2>1, NothingShown DEF Looked
<1>12. QED
  BY <1>2, <1>6, <1>7, <1>8, <1>10, <1>11 DEF Empty

\* Features made of all of it, before any search.
LEMMA FullQuiet ==
  ASSUME NEW tp \in BOOLEAN, NEW c, NEW ns \in BOOLEAN, NEW mn, NEW lp, NEW fl,
         Empty(tp, c, TRUE, mn, lp),
         NEW t \in Nat \ {0}, NEW b, FullDone(c, t, b)
  PROVE  DInv(tp, b, 0, ns, "full", mn, lp, fl)
<1>1. /\ Sound(b) /\ Queued(b, t) /\ b.state = "STARTED" /\ b.grow_feat = c.grow_feat
      /\ b.output_frame = 0 /\ b.feat_outidx = 0 /\ b.n_feat_frame = t
      /\ b.n_mfc_frame = 0 /\ b.ov = 0 /\ b.ncep = t
      /\ c.grow_feat /\ (tp => c.grow_feat)
  BY DEF FullDone, Empty, ModeSame
<1>2. PICK N \in Nat : N = b.n_feat_alloc /\ t <= N
  BY <1>1 DEF Sound, FeatSound
<1>3. Ahead(b) = t
  BY <1>1 DEF Ahead
<1>4. Fits(b)
  BY <1>1, <1>2, <1>3 DEF Fits
<1>5. Whole(b)
  BY <1>1, <1>3, <1>4 DEF Whole
<1>6. ShowsFirst(mn, Lag(b.output_frame), t)
  <2>1. Lag(b.output_frame) = 0
    BY <1>1, NothingShown
  <2>2. \A i \in 1 .. 0 : mn[i] = Ideal(t)[i]
    OBVIOUS
  <2>3. mn \in Seq(FeatureRows) /\ Len(mn) = 0
    BY DEF Empty, ShowsFirst
  <2>4. QED
    BY <2>1, <2>2, <2>3 DEF ShowsFirst
<1>7. Looked(b, b.ncep, mn, lp)
  BY <1>1, <1>6 DEF Looked, Empty
<1>8. QED
  BY <1>1, <1>5, <1>7, WholeInv

\* And with it.
FullSearched(tp, t, ns, mn, fl, d, mn2, lp2) ==
  DInv(tp, d, 0, ns, "full", mn2, lp2, fl) /\ Goes(mn, mn2) /\ d.ncep = t /\ d.state = "STARTED"

LEMMA FullSearches ==
  ASSUME NEW tp \in BOOLEAN, NEW c, NEW ns \in BOOLEAN, NEW mn, NEW lp, NEW fl,
         Empty(tp, c, FALSE, mn, lp),
         NEW t \in Nat \ {0}, NEW b, FullDone(c, t, b),
         NEW d, d = Drained(b), NEW mn2, mn2 = mn \o ShownToMain(b),
         NEW lp2, lp2 = lp \o ShownToLoop(b)
  PROVE  FullSearched(tp, t, ns, mn, fl, d, mn2, lp2)
<1>1. /\ Sound(b) /\ Queued(b, t) /\ b.state = "STARTED" /\ b.grow_feat = c.grow_feat
      /\ b.output_frame = 0 /\ b.feat_outidx = 0 /\ b.n_feat_frame = t
      /\ b.n_mfc_frame = 0 /\ b.ov = 0 /\ b.ncep = t
      /\ (tp => c.grow_feat)
  BY DEF FullDone, Empty, ModeSame
<1>2. PICK N \in Nat : N = b.n_feat_alloc /\ t <= N
  BY <1>1 DEF Sound, FeatSound
<1>3. Ahead(b) = t
  BY <1>1 DEF Ahead
<1>4. Fits(b) /\ Lookback(b)
  BY <1>1, <1>2, <1>3 DEF Fits, Lookback
<1>5. ShowsFirst(mn, Lag(b.output_frame), t) /\ LoopKept(lp, b.output_frame)
  <2>1. Lag(b.output_frame) = 0
    BY <1>1, NothingShown
  <2>2. \A i \in 1 .. 0 : mn[i] = Ideal(t)[i]
    OBVIOUS
  <2>3. mn \in Seq(FeatureRows) /\ Len(mn) = 0 /\ LoopKept(lp, 0)
    BY DEF Empty, ShowsFirst
  <2>4. QED
    BY <1>1, <2>1, <2>2, <2>3 DEF ShowsFirst
<1>6. SearchGives(b, t, mn, d, mn2, lp2)
  <2>1. Ahead(b) <= t /\ t \in Nat
    BY <1>3
  <2>2. QED
    BY <1>1, <1>4, <1>5, <2>1, SearchIs
<1>7. /\ Sound(d) /\ Queued(d, t) /\ MfcSame(b, d) /\ ModeSame(b, d)
      /\ d.n_feat_frame = 0 /\ Ahead(d) = Ahead(b)
      /\ ShowsFirst(mn2, Lag(d.output_frame), t) /\ Goes(mn, mn2)
      /\ LoopKept(lp2, d.output_frame)
  BY <1>6 DEF SearchGives
<1>8. /\ d.state = "STARTED" /\ d.grow_feat = b.grow_feat /\ d.ncep = t /\ d.ov = 0
      /\ d.n_mfc_frame = 0
  BY <1>1, <1>7 DEF MfcSame, ModeSame
<1>9. Fits(d)
  BY <1>1, <1>4, DrainedFits
<1>10. Whole(d)
  BY <1>3, <1>7, <1>8, <1>9 DEF Whole
<1>11. Looked(d, d.ncep, mn2, lp2)
  BY <1>7, <1>8 DEF Looked
<1>12. DInv(tp, d, 0, ns, "full", mn2, lp2, fl)
  BY <1>1, <1>7, <1>8, <1>10, <1>11, WholeInv
<1>13. QED
  BY <1>7, <1>8, <1>12 DEF FullSearched

---------------------------------------------------------------------------
(* The end of an utterance. *)

\* The features there are when all were computed that will be.
Total(f, ncep) == IF f = "cep" THEN Settled(ncep) ELSE ncep

\* What acmod_end_utt left: every feature, and the ring as the searches and the rewind need it.
EndReady(tp, a, f, mn, lp, e) ==
  /\ Sound(e) /\ e.state = "ENDED" /\ (tp => e.grow_feat) /\ e.n_mfc_frame = 0
  /\ e.ncep \in {a.ncep, a.ncep + 1}
  /\ Ahead(e) = Total(f, e.ncep) /\ Ahead(e) <= e.ncep
  /\ e.grow_feat => Straight(e) \/ Fits(e)
  /\ ~e.grow_feat => Lookback(e)
  /\ Looked(e, e.ncep, mn, lp)

\* Nothing is kept of the samples.
LEMMA EndKeeps ==
  ASSUME NEW tp, NEW a, Basic(tp, a, 0, FALSE, "full"), a.ov = 0,
         NEW e, e = AcmodEndUtt(a)
  PROVE  /\ Sound(e) /\ e.state = "ENDED" /\ e.grow_feat = a.grow_feat
         /\ ReadSame(a, e) /\ e.n_mfc_frame = 0 /\ e.ncep = a.ncep
         /\ e.n_feat_frame = a.n_feat_frame /\ e.n_feat_alloc = a.n_feat_alloc
         /\ Ahead(e) = Ahead(a)
         /\ \A last : Queued(a, last) => Queued(e, last)
         /\ Straight(a) => Straight(e)
         /\ Fits(a) => Fits(e)
<1>1. Sound(a) /\ a.n_mfc_frame = 0
  BY DEF Basic
<1>2. /\ Sound(e) /\ e.state = "ENDED" /\ e.grow_feat = a.grow_feat /\ ReadSame(a, e)
      /\ e.n_mfc_frame = 0 /\ e.ov = 0 /\ e.ncep = a.ncep
      /\ e.n_feat_frame = a.n_feat_frame /\ e.n_feat_alloc = a.n_feat_alloc
      /\ \A last : Queued(a, last) => Queued(e, last)
  BY <1>1, EndQuiet
<1>3. Ahead(e) = Ahead(a) /\ e.feat_outidx = a.feat_outidx /\ e.output_frame = a.output_frame
  BY <1>2 DEF ReadSame, Ahead
<1>4. QED
  BY <1>2, <1>3 DEF Straight, Fits

\* acmod_end_utt while data was coming.
LEMMA EndBlocks ==
  ASSUME NEW tp, NEW a, NEW f \in {"raw", "cep"}, NEW mn, NEW lp, NEW given,
         Basic(tp, a, 0, FALSE, f), Middle(a, given), Looked(a, given, mn, lp), a.ncep = given,
         f = "raw" => a.ov > 0, f = "cep" => a.ov = 0,
         ~(/\ ~a.grow_feat /\ a.ov > 0
           /\ ((a.feat_outidx + a.n_feat_frame) % a.n_feat_alloc) + 1 + Win > a.n_feat_alloc),
         Lag(a.output_frame) \in Nat, Lag(a.output_frame) <= Settled(given),
         NEW e, e = AcmodEndUtt(a)
  PROVE  EndReady(tp, a, f, mn, lp, e)
<1>1. /\ Sound(a) /\ (tp => a.grow_feat) /\ a.n_mfc_frame = 0 /\ a.grow_feat \in BOOLEAN
      /\ (~a.grow_feat => a.n_feat_frame = 0)
  BY DEF Basic, Sound
<1>2. Queued(a, given) /\ Straight(a) /\ given \in Nat /\ Ahead(a) = Settled(given)
  BY DEF Middle, InStep
<1>3. Settled(given) <= given
  BY <1>2, LiveAssumption DEF Settled
<1>4. CASE f = "cep"
  <2>1. Basic(tp, a, 0, FALSE, "full") /\ a.ov = 0
    BY <1>4 DEF Basic
  <2>2. /\ Sound(e) /\ e.state = "ENDED" /\ e.grow_feat = a.grow_feat
        /\ ReadSame(a, e) /\ e.n_mfc_frame = 0 /\ e.ncep = a.ncep
        /\ e.n_feat_frame = a.n_feat_frame /\ Ahead(e) = Ahead(a)
        /\ Queued(e, given) /\ Straight(e)
    BY <1>2, <2>1, EndKeeps
  <2>3. Looked(e, given, mn, lp)
    BY <2>2 DEF Looked, ReadSame
  <2>4. ASSUME ~e.grow_feat PROVE Lookback(e)
    <3>1. e.n_feat_frame = 0
      BY <1>1, <2>2, <2>4
    <3>2. 0 <= NMfc
      BY SizesAre
    <3>3. QED
      BY <2>2, <2>4, <3>1, <3>2, LookbackIs
  <2>5. Ahead(e) = Total(f, e.ncep) /\ Ahead(e) <= e.ncep
    BY <1>2, <1>3, <1>4, <2>2 DEF Total
  <2>6. QED
    BY <1>1, <2>2, <2>3, <2>4, <2>5 DEF EndReady
<1>5. CASE f = "raw"
  <2>1. a.ov > 0
    BY <1>5
  <2>2. ~a.grow_feat => a.n_feat_frame = 0 /\ a.feat_outidx + 1 + Win <= a.n_feat_alloc
    <3>1. SUFFICES ASSUME ~a.grow_feat
                   PROVE  a.n_feat_frame = 0 /\ a.feat_outidx + 1 + Win <= a.n_feat_alloc
      OBVIOUS
    <3>2. a.n_feat_frame = 0
      BY <1>1, <3>1
    <3>3. PICK N \in Nat \ {0}, c \in Nat :
             N = a.n_feat_alloc /\ c = a.feat_outidx /\ c \in 0 .. N - 1
      BY <1>1, SizesAre DEF Sound, FeatSound
    <3>4. (c + 0) % N = c
      <4>1. c + 0 = c /\ c % N = c
        BY <3>3
      <4>2. QED
        BY <4>1
    <3>5. ~(c + 1 + Win > N)
      BY <2>1, <3>1, <3>2, <3>3, <3>4
    <3>6. c + 1 + Win <= N
      BY <3>3, <3>5, SizesAre, LiveAssumption
    <3>7. QED
      BY <3>2, <3>3, <3>6
  <2>3. Middle(a, a.ncep)
    OBVIOUS
  <2>4. EndGives(a, e)
    BY <1>1, <2>1, <2>2, <2>3, EndMiddle
  <2>5. /\ Sound(e) /\ e.state = "ENDED" /\ e.grow_feat = a.grow_feat /\ ReadSame(a, e)
        /\ e.n_mfc_frame = 0 /\ e.ncep = given + 1
        /\ Queued(e, e.ncep) /\ Ahead(e) = e.ncep /\ Straight(e)
        /\ e.n_feat_frame <= a.n_feat_frame + Win + 1
    BY <2>4 DEF EndGives
  <2>6. PICK g2 \in Nat : g2 = given + 1 /\ g2 - given \in Nat
    BY <1>2
  <2>7. ShowsFirst(mn, Lag(a.output_frame), g2)
    <3>1. ShowsFirst(mn, Lag(a.output_frame), given)
      BY DEF Looked
    <3>2. QED
      BY <1>2, <2>6, <3>1, ShowsLater
  <2>8. Looked(e, e.ncep, mn, lp)
    BY <2>5, <2>6, <2>7 DEF Looked, ReadSame
  <2>9. ASSUME ~e.grow_feat PROVE Lookback(e)
    <3>1. a.n_feat_frame = 0
      BY <1>1, <2>5, <2>9
    <3>2. PICK nf \in Nat : nf = e.n_feat_frame
      BY <2>5 DEF Sound, FeatSound
    <3>3. nf <= 0 + Win + 1
      BY <2>5, <3>1, <3>2
    <3>4. nf <= NMfc
      BY <3>3, SizesAre, LiveAssumption
    <3>5. QED
      BY <2>5, <2>9, <3>2, <3>4, LookbackIs
  <2>10. Ahead(e) = Total(f, e.ncep) /\ Ahead(e) <= e.ncep
    BY <1>5, <2>5, <2>6 DEF Total
  <2>11. QED
    BY <1>1, <2>5, <2>8, <2>9, <2>10 DEF EndReady
<1>6. QED
  BY <1>4, <1>5

\* And when none came, or all at once.
LEMMA EndWhole ==
  ASSUME NEW tp, NEW a, NEW f \in {"raw", "cep", "full"}, NEW mn, NEW lp,
         Basic(tp, a, 0, FALSE, f), Looked(a, a.ncep, mn, lp), a.ov = 0,
         Fits(a), Ahead(a) = Total(f, a.ncep), Ahead(a) <= a.ncep,
         NEW e, e = AcmodEndUtt(a)
  PROVE  EndReady(tp, a, f, mn, lp, e)
<1>1. Basic(tp, a, 0, FALSE, "full") /\ (tp => a.grow_feat)
  BY DEF Basic
<1>2. /\ Sound(e) /\ e.state = "ENDED" /\ e.grow_feat = a.grow_feat
      /\ ReadSame(a, e) /\ e.n_mfc_frame = 0 /\ e.ncep = a.ncep /\ Ahead(e) = Ahead(a)
      /\ \A last : Queued(a, last) => Queued(e, last)
      /\ Fits(e)
  BY <1>1, EndKeeps
<1>3. Looked(e, e.ncep, mn, lp)
  BY <1>2 DEF Looked, ReadSame
<1>4. Lookback(e)
  BY <1>2 DEF Lookback, Fits
<1>5. QED
  BY <1>1, <1>2, <1>3, <1>4 DEF EndReady

\* acmod_end_utt when its leadout does not run over the end of a ring that may not grow.
LEMMA EndIs ==
  ASSUME NEW tp, NEW a, NEW ns, NEW f, NEW mn, NEW lp, NEW fl,
         DInv(tp, a, 0, ns, f, mn, lp, fl), Runs(a),
         ~(/\ ~a.grow_feat /\ a.ov > 0
           /\ ((a.feat_outidx + a.n_feat_frame) % a.n_feat_alloc) + 1 + Win > a.n_feat_alloc),
         NEW e, e = AcmodEndUtt(a)
  PROVE  EndReady(tp, a, f, mn, lp, e)
<1>1. /\ Basic(tp, a, 0, ns, f) /\ PhaseIn(a, 0, f) /\ LookedIn(a, 0, f, mn, lp)
      /\ f \in {"raw", "cep", "full"} /\ Sound(a)
  BY DEF DInv, Basic
<1>2. Basic(tp, a, 0, FALSE, f)
  BY <1>1 DEF Basic
<1>3. Given(a, 0, f) = a.ncep
  <2>1. PICK k \in Nat : k = a.ncep
    BY <1>1 DEF Sound, MfcSound
  <2>2. k - 0 = k
    OBVIOUS
  <2>3. QED
    BY <2>1, <2>2 DEF Given
<1>4. Looked(a, a.ncep, mn, lp)
  BY <1>1, <1>3 DEF LookedIn
<1>5. a.state \in {"STARTED", "PROCESSING"}
  BY DEF Runs
<1>6. CASE a.state = "PROCESSING"
  <2>1. /\ f \in {"raw", "cep"} /\ f # "full" /\ Middle(a, a.ncep)
        /\ (f = "raw" => a.ov > 0) /\ (f = "cep" => a.ov = 0)
    BY <1>1, <1>3, <1>6 DEF PhaseIn
  <2>2. Lag(a.output_frame) \in Nat /\ Lag(a.output_frame) <= Settled(a.ncep)
    BY <1>1, <1>3, <2>1, LagSettled
  <2>3. QED
    BY <1>2, <1>4, <2>1, <2>2, EndBlocks
<1>7. CASE a.state = "STARTED" /\ f # "full"
  <2>1. /\ a.ncep = 0 /\ a.ov = 0
        /\ a.output_frame = 0 /\ a.n_feat_frame = 0 /\ a.feat_outidx = 0
    BY <1>1, <1>3, <1>7 DEF PhaseIn, Waiting, Start
  <2>2. PICK N \in Nat : N = a.n_feat_alloc
    BY <1>1 DEF Sound, FeatSound
  <2>3. Ahead(a) = 0
    <3>1. PICK x \in Nat, y \in Nat : x = a.output_frame /\ y = a.n_feat_frame
      BY <2>1
    <3>2. x + y = 0
      BY <2>1, <3>1
    <3>3. QED
      BY <3>1, <3>2 DEF Ahead
  <2>4. Fits(a)
    <3>1. 0 <= N
      OBVIOUS
    <3>2. Ahead(a) <= a.n_feat_alloc
      BY <2>2, <2>3, <3>1
    <3>3. a.feat_outidx = IF a.output_frame < a.n_feat_alloc THEN a.output_frame ELSE 0
      BY <2>1
    <3>4. QED
      BY <3>2, <3>3 DEF Fits
  <2>5. Total(f, 0) = 0 /\ 0 <= 0
    BY LiveAssumption DEF Total, Settled
  <2>6. Ahead(a) = Total(f, a.ncep) /\ Ahead(a) <= a.ncep
    BY <2>1, <2>3, <2>5
  <2>7. QED
    BY <1>1, <1>2, <1>4, <2>1, <2>4, <2>6, EndWhole
<1>8. CASE a.state = "STARTED" /\ f = "full"
  <2>1. a.ov = 0 /\ a.ncep = Ahead(a) /\ Fits(a)
    BY <1>1, <1>8 DEF PhaseIn, Whole
  <2>2. PICK k \in Nat : k = a.ncep
    BY <1>1 DEF Sound, MfcSound
  <2>3. Ahead(a) = Total(f, a.ncep) /\ Ahead(a) <= a.ncep
    BY <1>8, <2>1, <2>2 DEF Total
  <2>4. QED
    BY <1>1, <1>2, <1>4, <2>1, <2>3, EndWhole
<1>9. QED
  BY <1>5, <1>6, <1>7, <1>8

\* What was shown twice more is still not taken back.
LEMMA GoesFurther ==
  ASSUME NEW n \in Nat, NEW k \in Nat, NEW last \in Nat, NEW x, NEW y, NEW z, Goes(x, y),
         NEW j \in Nat, Len(x) = j,
         ShowsFirst(y, n, last), ShowsFirst(z, n + k, last), SubSeq(z, 1, n) = y
  PROVE  Goes(x, z)
<1>1. y \in Seq(FeatureRows) /\ z \in Seq(FeatureRows) /\ Len(y) = n /\ Len(z) = n + k
  BY DEF ShowsFirst
<1>2. j <= n /\ SubSeq(y, 1, j) = x
  BY <1>1 DEF Goes
<1>3. SubSeq(z, 1, j) = SubSeq(y, 1, j)
  <2>1. y = SubSeq(z, 1, n)
    OBVIOUS
  <2>2. SubSeq(SubSeq(z, 1, n), 1, j) = SubSeq(z, 1, j)
    <3>1. PICK s \in Seq(FeatureRows) : s = SubSeq(z, 1, n) /\ Len(s) = n
      BY <1>1
    <3>2. /\ SubSeq(s, 1, j) \in Seq(FeatureRows) /\ Len(SubSeq(s, 1, j)) = j
          /\ \A i \in 1 .. j : SubSeq(s, 1, j)[i] = s[i]
      BY <1>2, <3>1
    <3>3. /\ SubSeq(z, 1, j) \in Seq(FeatureRows) /\ Len(SubSeq(z, 1, j)) = j
          /\ \A i \in 1 .. j : SubSeq(z, 1, j)[i] = z[i]
      BY <1>1, <1>2
    <3>4. \A i \in 1 .. j : s[i] = z[i]
      BY <1>1, <1>2, <3>1
    <3>5. \A i \in 1 .. j : SubSeq(s, 1, j)[i] = SubSeq(z, 1, j)[i]
      BY <3>2, <3>3, <3>4
    <3>6. SubSeq(s, 1, j) = SubSeq(z, 1, j)
      BY <3>2, <3>3, <3>5
    <3>7. QED
      BY <3>1, <3>6
  <2>3. QED
    BY <2>1, <2>2
<1>4. QED
  BY <1>1, <1>2, <1>3 DEF Goes

\* The searches at the end: the rest, and what the lookahead held back.
EndShows(tp, e, f, mn, d, mn3) ==
  /\ Sound(d) /\ Queued(d, e.ncep) /\ d.state = "ENDED" /\ (tp => d.grow_feat)
  /\ d.ncep = e.ncep /\ d.n_mfc_frame = 0 /\ d.n_feat_frame = 0
  /\ d.output_frame = Total(f, e.ncep) /\ d.output_frame <= e.ncep
  /\ d.grow_feat => Fits(d)
  /\ ShowsFirst(mn3, d.output_frame, e.ncep) /\ Goes(mn, mn3)

\* They have all been shown what they were to be shown when pl_window is not cut short.
LEMMA EndSearches ==
  ASSUME NEW tp, NEW a, NEW f, NEW mn, NEW lp, NEW e, EndReady(tp, a, f, mn, lp, e),
         NEW d, d = Drained(e), d.output_frame \notin 1 .. PlWindow - 1,
         NEW mn3, mn3 = mn \o ShownToMain(e) \o HeldBack(d)
  PROVE  EndShows(tp, e, f, mn, d, mn3)
<1>1. /\ Sound(e) /\ e.state = "ENDED" /\ (tp => e.grow_feat) /\ e.n_mfc_frame = 0
      /\ Ahead(e) = Total(f, e.ncep) /\ Ahead(e) <= e.ncep
      /\ (e.grow_feat => Straight(e) \/ Fits(e))
      /\ (~e.grow_feat => Lookback(e))
      /\ Looked(e, e.ncep, mn, lp) /\ e.grow_feat \in BOOLEAN
  BY DEF EndReady, Sound
<1>2. PICK g \in Nat : g = e.ncep
  BY <1>1 DEF Sound, MfcSound
<1>3. /\ Queued(e, g) /\ ShowsFirst(mn, Lag(e.output_frame), g) /\ LoopKept(lp, e.output_frame)
      /\ Ahead(e) <= g
  BY <1>1, <1>2 DEF Looked
<1>4. Lookback(e)
  BY <1>1, LookbackIs
<1>5. PICK mn2, lp2 : mn2 = mn \o ShownToMain(e) /\ lp2 = lp \o ShownToLoop(e)
  OBVIOUS
<1>6. SearchGives(e, g, mn, d, mn2, lp2)
  BY <1>1, <1>3, <1>4, <1>5, SearchIs
<1>7. /\ Sound(d) /\ Queued(d, g) /\ MfcSame(e, d) /\ ModeSame(e, d)
      /\ d.n_feat_frame = 0 /\ d.output_frame = Ahead(e)
      /\ ShowsFirst(mn2, Lag(d.output_frame), g) /\ Goes(mn, mn2)
  BY <1>6 DEF SearchGives
<1>8. PICK o \in Nat : o = d.output_frame /\ o <= g
  BY <1>3, <1>7 DEF Sound, FeatSound
<1>9. PICK l1 \in Nat, k \in Nat : l1 = Lag(o) /\ l1 + k = o /\ HeldBack(d) = Nexts(l1, k, g)
  <2>1. /\ d.output_frame - Lag(d.output_frame) \in Nat
        /\ HeldBack(d) = Nexts(Lag(d.output_frame), d.output_frame - Lag(d.output_frame), g)
    BY <1>7, HeldBackIs
  <2>2. Lag(o) \in Nat
    BY LagIs
  <2>3. PICK l1 \in Nat, k \in Nat : l1 = Lag(o) /\ k = o - l1
    BY <1>8, <2>1, <2>2
  <2>4. l1 + k = o
    BY <2>3
  <2>5. QED
    BY <1>8, <2>1, <2>3, <2>4
<1>10. PICK more : more = Nexts(l1, k, g) /\ mn3 = mn2 \o more
  BY <1>5, <1>9
<1>11. more \in Seq(FeatureRows) /\ Len(more) = k /\ Agree(more, l1, g)
  <2>1. l1 + k <= g
    BY <1>8, <1>9
  <2>2. QED
    BY <1>10, <2>1, NextAre
<1>12. ShowsFirst(mn2, l1, g)
  BY <1>7, <1>8, <1>9
<1>13. ShowsFirst(mn3, l1 + k, g) /\ SubSeq(mn3, 1, l1) = mn2
  BY <1>10, <1>11, <1>12, ShowsMore
<1>14. Goes(mn, mn3)
  <2>1. Len(mn) \in Nat
    BY <1>3 DEF ShowsFirst
  <2>2. QED
    BY <1>7, <1>12, <1>13, <2>1, GoesFurther
<1>15. d.grow_feat => Fits(d)
  <2>1. SUFFICES ASSUME d.grow_feat PROVE Fits(d)
    OBVIOUS
  <2>2. e.grow_feat
    BY <1>7, <2>1 DEF ModeSame
  <2>3. CASE Fits(e)
    BY <1>1, <2>3, DrainedFits
  <2>4. CASE Straight(e)
    <3>1. Straight(d)
      BY <1>1, <2>4, DrainedStraight
    <3>2. d.feat_outidx = d.output_frame /\ Ahead(d) < d.n_feat_alloc
      BY <2>1, <3>1 DEF Straight
    <3>3. PICK N \in Nat : N = d.n_feat_alloc
      BY <1>7 DEF Sound, FeatSound
    <3>4. Ahead(d) = o
      BY <1>7, <1>8 DEF Ahead
    <3>5. o < N
      BY <3>2, <3>3, <3>4
    <3>6. QED
      BY <1>8, <3>2, <3>3, <3>4, <3>5 DEF Fits
  <2>5. QED
    BY <1>1, <2>2, <2>3, <2>4
<1>16. d.state = "ENDED" /\ (tp => d.grow_feat) /\ d.ncep = g /\ d.n_mfc_frame = 0
  BY <1>1, <1>2, <1>7 DEF MfcSame, ModeSame
<1>17. QED
  BY <1>1, <1>2, <1>7, <1>8, <1>9, <1>13, <1>14, <1>15, <1>16 DEF EndShows

\* An utterance that has ended satisfies the invariant.
LEMMA EndedInv ==
  ASSUME NEW tp \in BOOLEAN, NEW a, NEW ns \in BOOLEAN, NEW f \in {"raw", "cep", "full"},
         Sound(a), a.state = "ENDED", tp => a.grow_feat, a.n_mfc_frame = 0,
         NEW mn, NEW lp, NEW fl, Over(tp, a, f, mn, fl)
  PROVE  DInv(tp, a, 0, ns, f, mn, lp, fl)
<1>1. a.n_feat_frame = 0
  BY DEF Over
<1>2. Basic(tp, a, 0, ns, f)
  BY <1>1 DEF Basic
<1>3. ~(0 > 0)
  OBVIOUS
<1>4. CallIn(a, 0, ns, f) /\ PhaseIn(a, 0, f) /\ LookedIn(a, 0, f, mn, lp)
  BY <1>3 DEF CallIn, PhaseIn, LookedIn, Runs
<1>5. OverIn(tp, a, f, mn, fl)
  BY DEF OverIn
<1>6. QED
  BY <1>2, <1>4, <1>5 DEF DInv

\* One pass.
LEMMA EndOnePass ==
  ASSUME NEW e, NEW f \in {"raw", "cep", "full"}, NEW mn, NEW d, NEW mn3,
         EndShows(FALSE, e, f, mn, d, mn3), NEW ns \in BOOLEAN, NEW lp, NEW fl
  PROVE  DInv(FALSE, d, 0, ns, f, mn3, lp, fl)
<1>1. /\ Sound(d) /\ d.state = "ENDED" /\ d.ncep = e.ncep
      /\ d.n_mfc_frame = 0 /\ d.n_feat_frame = 0
      /\ d.output_frame = Total(f, e.ncep) /\ ShowsFirst(mn3, d.output_frame, e.ncep)
  BY DEF EndShows
<1>2. Over(FALSE, d, f, mn3, fl)
  BY <1>1 DEF Over, Total
<1>3. QED
  BY <1>1, <1>2, EndedInv

\* What rewinding and the second pass leave.
Rerun(e, f, ns, mn, lp, d, c, fl) ==
  /\ CanRewind(d) /\ c.ncep = e.ncep /\ c.state = "ENDED"
  /\ DInv(TRUE, c, 0, ns, f, mn, lp, fl)

\* Two: the second is shown what the first was.
LEMMA EndTwoPasses ==
  ASSUME NEW e, NEW f \in {"raw", "cep", "full"}, NEW mn, NEW d, NEW mn3,
         EndShows(TRUE, e, f, mn, d, mn3), e.ncep \in Nat, NEW ns \in BOOLEAN, NEW lp,
         NEW w, w = Rewound(d), NEW c, c = Drained(w),
         NEW fl, fl = [i \in 1 .. w.n_feat_frame |-> Scored(Advanced(w, i - 1), i - 1)]
  PROVE  Rerun(e, f, ns, mn3, lp, d, c, fl)
<1>1. /\ Sound(d) /\ Queued(d, e.ncep) /\ d.state = "ENDED" /\ d.ncep = e.ncep /\ d.grow_feat
      /\ d.n_mfc_frame = 0 /\ d.n_feat_frame = 0 /\ Fits(d)
      /\ d.output_frame = Total(f, e.ncep) /\ d.output_frame <= e.ncep
      /\ ShowsFirst(mn3, d.output_frame, e.ncep)
  BY DEF EndShows
<1>2. PICK g \in Nat, o \in Nat : g = e.ncep /\ o = d.output_frame /\ o <= g
  BY <1>1 DEF Sound, FeatSound
<1>3. /\ CanRewind(d)
      /\ Sound(w) /\ Queued(w, g) /\ MfcSame(d, w) /\ ModeSame(d, w)
      /\ w.n_feat_frame = o /\ w.output_frame = 0
  BY <1>1, <1>2, RewoundIs
<1>4. o \in 0 .. w.n_feat_frame /\ c = Advanced(w, o)
  BY <1>3 DEF Drained
<1>5. /\ Sound(c) /\ MfcSame(w, c) /\ ModeSame(w, c)
      /\ c.n_feat_frame = w.n_feat_frame - o
      /\ c.output_frame = w.output_frame + o
  BY <1>3, <1>4, AdvancedIs
<1>6. c.n_feat_frame = 0 /\ c.output_frame = o
  BY <1>3, <1>5
<1>7. c.state = "ENDED" /\ c.grow_feat /\ c.ncep = g /\ c.n_mfc_frame = 0
  BY <1>1, <1>2, <1>3, <1>5 DEF MfcSame, ModeSame
<1>8. ShowsFirst(fl, o, g)
  <2>1. w.n_feat_frame <= g
    BY <1>2, <1>3
  <2>2. ShowsFirst([i \in 1 .. w.n_feat_frame |-> Scored(Advanced(w, i - 1), i - 1)],
                   w.n_feat_frame, g)
    BY <1>3, <2>1, FlatIs
  <2>3. QED
    BY <1>3, <2>2
<1>9. fl = mn3
  BY <1>1, <1>2, <1>8, ShowsOne
<1>10. Over(TRUE, c, f, mn3, fl)
  BY <1>1, <1>2, <1>6, <1>7, <1>9 DEF Over, Total
<1>11. DInv(TRUE, c, 0, ns, f, mn3, lp, fl)
  BY <1>5, <1>7, <1>10, EndedInv
<1>12. QED
  BY <1>2, <1>3, <1>7, <1>11 DEF Rerun

---------------------------------------------------------------------------
(* The specification. *)

\* The uses that the code serves as it should, and utterances of cepstra in blocks; windows
\* that overlap (where they do not, no sample may be left at the end, and acmod_end_utt then
\* computes no leadout), and blocks of cepstra that do not reach the seams of the live buffer.
Served ==
  /\ Tolerated \subseteq {"cep leadout"}
  /\ FrameSize > FrameShift
  /\ \A n \in CepBlocks : n + 2 * Win <= L

\* The inductive invariant of the specification.
Inv ==
  /\ call \in [left : Nat, no_search : BOOLEAN]
  /\ DInv(two_pass, am, call.left, call.no_search, fed, main, loop, flat)

\* What a step does to the utterance, as the main search sees it.
Begins == /\ ~Runs(am) /\ Runs(am') /\ fed' \in {"raw", "cep", "full"}
          /\ am'.ncep = 0 /\ main' = <<>>
Continues == /\ Runs(am) /\ Runs(am') /\ fed' = fed
             /\ am'.ncep - am.ncep \in Nat /\ Goes(main, main')
Finishes == /\ Runs(am) /\ am'.state = "ENDED" /\ fed' = fed
            /\ am'.ncep \in {am.ncep, am.ncep + 1} /\ Goes(main, main')

\* What the code is not served with.
LEMMA NotTolerated ==
  ASSUME Served
  PROVE  /\ ~May("no frame yet") /\ ~May("short utterance") /\ ~May("end at edge")
         /\ ~May("long block") /\ ~May("grow midway") /\ ~May("after end")
         /\ ~May("not started")
BY DEF Served, May

\* Nothing shown, nothing taken back.
LEMMA GoesSame ==
  ASSUME NEW seq \in Seq(FeatureRows)
  PROVE  Goes(seq, seq)
<1>1. Len(seq) \in Nat
  OBVIOUS
<1>2. SubSeq(seq, 1, Len(seq)) = seq
  OBVIOUS
<1>3. QED
  BY <1>1, <1>2 DEF Goes

\* Running is Runs of the acmod_t.
LEMMA RunsIsRunning == Running = Runs(am)
BY DEF Running, Runs

\* What is common to the calls.
LEMMA Accepted ==
  ASSUME Served, Inv, NEW ns \in BOOLEAN, Accepts(ns), ~Idle
  PROVE  /\ call.left = 0 /\ Runs(am)
         /\ ns /\ ~am.grow_feat => am.output_frame = 0
         /\ DInv(two_pass, am, 0, call.no_search, fed, main, loop, flat)
         /\ Goes(main, main) /\ am.ncep - am.ncep \in Nat
<1>1. call.left \in Nat /\ DInv(two_pass, am, call.left, call.no_search, fed, main, loop, flat)
  BY DEF Inv
<1>2. call.left = 0
  <2>1. PICK m \in Nat : m = call.left
    BY <1>1
  <2>2. ~(m > 0)
    BY <2>1 DEF Accepts, Busy
  <2>3. QED
    BY <2>1, <2>2
<1>3. DInv(two_pass, am, 0, call.no_search, fed, main, loop, flat)
  BY <1>1, <1>2
<1>4. Sound(am)
  BY <1>3 DEF DInv, Basic
<1>5. am.state \in States /\ am.state # "IDLE" /\ am.state # "ENDED"
  BY <1>4, NotTolerated DEF Accepts, Idle, Sound
<1>6. Runs(am)
  BY <1>5 DEF Runs, States
<1>7. ns /\ ~am.grow_feat => am.output_frame = 0
  <2>1. am.output_frame \in Nat
    BY <1>4 DEF Sound, FeatSound
  <2>2. ns /\ ~am.grow_feat => ~(am.output_frame > 0)
    BY NotTolerated DEF Accepts
  <2>3. QED
    BY <2>1, <2>2
<1>8. main \in Seq(FeatureRows)
  BY <1>3, <1>6 DEF DInv, LookedIn, Looked, ShowsFirst
<1>9. PICK k \in Nat : k = am.ncep
  BY <1>4 DEF Sound, MfcSound
<1>10. am.ncep - am.ncep \in Nat
  BY <1>9
<1>11. QED
  BY <1>2, <1>3, <1>6, <1>7, <1>8, <1>10, GoesSame

\* The invariant holds in a new decoder.
LEMMA InitInv == ASSUME Served, Init PROVE Inv
<1>1. call.left = 0 /\ call.no_search = FALSE /\ call \in [left : Nat, no_search : BOOLEAN]
  BY DEF Init, NoCall
<1>2. two_pass \in BOOLEAN /\ am = SetGrow(NewAcmod, two_pass) /\ fed = "raw"
  BY NotTolerated DEF Init
<1>3. DInv(two_pass, am, 0, FALSE, "raw", main, loop, flat)
  BY <1>2, InitStep
<1>4. QED
  BY <1>1, <1>2, <1>3 DEF Inv

\* ps_start_utt keeps it.
LEMMA StartUttInv ==
  ASSUME Inv, StartUtt
  PROVE  Inv' /\ Begins
<1>1. /\ call \in [left : Nat, no_search : BOOLEAN]
      /\ DInv(two_pass, am, call.left, call.no_search, fed, main, loop, flat)
  BY DEF Inv
<1>2. /\ am' = AcmodStartUtt(am) /\ main' = <<>> /\ loop' = <<>>
      /\ two_pass' = two_pass /\ call' = call /\ ~(call.left > 0) /\ ~Runs(am)
      /\ fed' \in {"raw", "full"} \cup (IF May("cep leadout") THEN {"cep"} ELSE {})
  BY RunsIsRunning DEF StartUtt, Busy
<1>3. fed' \in {"raw", "cep", "full"}
  BY <1>2
<1>4. call.left = 0
  <2>1. PICK m \in Nat : m = call.left
    BY <1>1
  <2>2. ~(m > 0)
    BY <1>2, <2>1
  <2>3. QED
    BY <2>1, <2>2
<1>5. Basic(two_pass, am, 0, call.no_search, fed)
  BY <1>1, <1>4 DEF DInv
<1>6. PICK b : b = am'
  OBVIOUS
<1>7. DInv(two_pass, b, 0, call.no_search, fed', <<>>, <<>>, flat')
  BY <1>2, <1>3, <1>5, <1>6, StartStep
<1>8. DInv(two_pass, am', 0, call.no_search, fed', main', loop', flat')
  BY <1>2, <1>6, <1>7
<1>9. Inv'
  BY <1>1, <1>2, <1>4, <1>8 DEF Inv
<1>10. Runs(am') /\ am'.ncep = 0
  <2>1. Begun(am, b)
    BY <1>2, <1>5, <1>6, StartUttIs DEF Basic
  <2>2. QED
    BY <1>6, <2>1 DEF Begun, Start, Runs
<1>11. QED
  BY <1>2, <1>3, <1>9, <1>10 DEF Begins

\* The call of ps_process_raw keeps it.
LEMMA CallRawInv ==
  ASSUME Served, Inv, NEW n \in SampleBlocks, NEW ns \in BOOLEAN, CallRaw(n, ns)
  PROVE  Inv' /\ Continues
<1>1. /\ call.left = 0 /\ Runs(am) /\ (ns /\ ~am.grow_feat => am.output_frame = 0)
      /\ DInv(two_pass, am, 0, call.no_search, fed, main, loop, flat) /\ Goes(main, main)
      /\ am.ncep - am.ncep \in Nat
  BY Accepted DEF CallRaw
<1>2. /\ fed = "raw" /\ fed' = fed /\ two_pass' = two_pass
      /\ main' = main /\ loop' = loop /\ flat' = flat
      /\ am' = IF ns THEN SetGrow(am, TRUE) ELSE am
      /\ call' = [left |-> n, no_search |-> ns]
      /\ am.state = "STARTED" => FrameCount(am.ov, n) # 0
      /\ am.n_mfc_alloc > NMfc => ~(FrameCount(am.ov, n) > NMfc)
  BY NotTolerated DEF CallRaw, history
<1>3. n \in Nat
  BY DecoderAssumption
<1>4. DInv(two_pass, am, 0, call.no_search, "raw", main, loop, flat)
  BY <1>1, <1>2
<1>5. PICK b : b = am' /\ b = IF ns THEN SetGrow(am, TRUE) ELSE am
  BY <1>2
<1>6. /\ DInv(two_pass, b, n, ns, "raw", main, loop, flat)
      /\ b.ncep = am.ncep /\ b.state = am.state
  <2>1. Called(two_pass, am, n, ns, "raw", main, loop, flat, am.ncep, b)
    BY <1>1, <1>2, <1>3, <1>4, <1>5, CallRawStep
  <2>2. QED
    BY <2>1 DEF Called
<1>7. call'.left = n /\ call'.no_search = ns /\ call' \in [left : Nat, no_search : BOOLEAN]
  BY <1>2, <1>3
<1>8. Inv'
  BY <1>2, <1>5, <1>6, <1>7 DEF Inv
<1>9. Continues
  BY <1>1, <1>2, <1>5, <1>6 DEF Continues, Runs
<1>10. QED
  BY <1>8, <1>9

\* The call of ps_process_cep keeps it.
LEMMA CallCepInv ==
  ASSUME Served, Inv, NEW n \in CepBlocks, NEW ns \in BOOLEAN, CallCep(n, ns)
  PROVE  Inv' /\ Continues
<1>1. /\ call.left = 0 /\ Runs(am) /\ (ns /\ ~am.grow_feat => am.output_frame = 0)
      /\ DInv(two_pass, am, 0, call.no_search, fed, main, loop, flat) /\ Goes(main, main)
  BY Accepted, NotTolerated DEF CallCep
<1>2. /\ fed = "cep" /\ fed' = fed /\ two_pass' = two_pass
      /\ main' = main /\ loop' = loop /\ flat' = flat
      /\ am' = [IF ns THEN SetGrow(am, TRUE) ELSE am EXCEPT !.ncep = @ + n]
      /\ call' = [left |-> n, no_search |-> ns]
      /\ ~am.grow_feat /\ ~ns => ~(n > NMfc)
  BY NotTolerated DEF CallCep, history
<1>3. n \in Nat /\ n + 2 * Win <= L
  BY DecoderAssumption DEF Served
<1>4. DInv(two_pass, am, 0, call.no_search, "cep", main, loop, flat)
  BY <1>1, <1>2
<1>5. PICK b : b = am' /\ b = [IF ns THEN SetGrow(am, TRUE) ELSE am EXCEPT !.ncep = @ + n]
  BY <1>2
<1>6. /\ DInv(two_pass, b, n, ns, "cep", main, loop, flat)
      /\ b.ncep = am.ncep + n /\ b.state = am.state
  <2>1. Called(two_pass, am, n, ns, "cep", main, loop, flat, am.ncep + n, b)
    BY <1>1, <1>2, <1>3, <1>4, <1>5, CallCepStep, ZenonT(30)
  <2>2. QED
    BY <2>1 DEF Called
<1>7. call'.left = n /\ call'.no_search = ns /\ call' \in [left : Nat, no_search : BOOLEAN]
  BY <1>2, <1>3
<1>8. Inv'
  BY <1>2, <1>5, <1>6, <1>7 DEF Inv
<1>9. am'.ncep - am.ncep \in Nat
  <2>1. PICK k \in Nat : k = am.ncep
    BY <1>4 DEF DInv, Basic, Sound, MfcSound
  <2>2. PICK x \in Nat : x = k + n
    BY <1>3
  <2>3. am'.ncep = x
    BY <1>5, <1>6, <2>1, <2>2
  <2>4. x - k \in Nat
    BY <1>3, <2>2
  <2>5. QED
    BY <2>1, <2>3, <2>4
<1>10. Continues
  BY <1>1, <1>2, <1>5, <1>6, <1>9 DEF Continues, Runs
<1>11. QED
  BY <1>8, <1>10

\* An iteration of the loop of either keeps it, with and without searching.
LEMMA WorkInv ==
  ASSUME Served, Inv, Work
  PROVE  Inv' /\ Continues
<1>1. /\ call \in [left : Nat, no_search : BOOLEAN]
      /\ DInv(two_pass, am, call.left, call.no_search, fed, main, loop, flat)
  BY DEF Inv
<1>2. PICK m \in Nat \ {0}, ns \in BOOLEAN : m = call.left /\ ns = call.no_search
  <2>1. PICK m \in Nat, ns \in BOOLEAN : m = call.left /\ ns = call.no_search
    BY <1>1
  <2>2. m > 0
    BY <2>1 DEF Work, Busy
  <2>3. QED
    BY <2>1, <2>2
<1>3. PICK w : w = Worked /\ w = WorkedOf(am, m, fed)
  BY <1>2 DEF Worked, WorkedOf, WorkedCep
<1>4. /\ call' = [call EXCEPT !.left = w.left]
      /\ fed' = fed /\ flat' = flat /\ two_pass' = two_pass
      /\ IF ns \/ ~w.a.ok
         THEN am' = w.a /\ main' = main /\ loop' = loop
         ELSE /\ am' = Drained(w.a) /\ loop' = loop \o ShownToLoop(w.a)
              /\ main' = main \o ShownToMain(w.a)
  BY <1>2, <1>3 DEF Work, WorkDone, SearchForward
<1>5. DInv(two_pass, am, m, ns, fed, main, loop, flat) /\ FrameSize > FrameShift
  BY <1>1, <1>2 DEF Served
<1>6. WorkedSafely(two_pass, am, m, ns, fed, main, loop, w)
  BY <1>3, <1>5, WorkLooks
<1>7. /\ w.left \in Nat /\ w.a.ok = TRUE /\ w.a.ncep - am.ncep \in Nat
      /\ w.a.state = "PROCESSING"
  BY <1>6 DEF WorkedSafely, WorkGives, Middle
<1>8. two_pass \in BOOLEAN
  BY <1>5 DEF DInv, Basic
<1>9. /\ call'.left = w.left /\ call'.no_search = ns
      /\ call' \in [left : Nat, no_search : BOOLEAN]
  BY <1>1, <1>2, <1>4, <1>7
<1>10. Runs(am) /\ main \in Seq(FeatureRows)
  <2>1. m > 0
    OBVIOUS
  <2>2. Runs(am)
    BY <1>5, <2>1 DEF DInv, CallIn
  <2>3. QED
    BY <1>5, <2>2 DEF DInv, LookedIn, Looked, ShowsFirst
<1>11. CASE ns = TRUE
  <2>1. am' = w.a /\ main' = main /\ loop' = loop
    BY <1>4, <1>11
  <2>2. DInv(two_pass, w.a, w.left, TRUE, fed, main, loop, flat)
    BY <1>6, <1>8, <1>11, WorkQuiet
  <2>3. Inv'
    BY <1>4, <1>9, <1>11, <2>1, <2>2 DEF Inv
  <2>4. Continues
    BY <1>4, <1>7, <1>10, <2>1, GoesSame DEF Continues, Runs
  <2>5. QED
    BY <2>3, <2>4
<1>12. CASE ns = FALSE
  <2>1. /\ am' = Drained(w.a) /\ loop' = loop \o ShownToLoop(w.a)
        /\ main' = main \o ShownToMain(w.a)
    BY <1>4, <1>7, <1>12
  <2>2. PICK d, mn, lp : d = am' /\ mn = main' /\ lp = loop'
    OBVIOUS
  <2>3. WorkedSafely(two_pass, am, m, FALSE, fed, main, loop, w)
    BY <1>6, <1>12
  <2>4. /\ DInv(two_pass, d, w.left, FALSE, fed, mn, lp, flat) /\ d.ncep = w.a.ncep
        /\ Goes(main, mn) /\ d.state = "PROCESSING"
    <3>1. Searched(two_pass, w, fed, main, flat, d, mn, lp)
      BY <1>8, <2>1, <2>2, <2>3, WorkSearches
    <3>2. QED
      BY <3>1 DEF Searched
  <2>5. Inv'
    BY <1>4, <1>9, <1>12, <2>2, <2>4 DEF Inv
  <2>6. Continues
    BY <1>4, <1>7, <1>10, <2>2, <2>4 DEF Continues, Runs
  <2>7. QED
    BY <2>5, <2>6
<1>13. QED
  BY <1>11, <1>12

\* So does a whole utterance in the pipeline, whatever it came as,
LEMMA FullInv ==
  ASSUME Served, Inv, NEW ns \in BOOLEAN, NEW c, Empty(two_pass, c, ns, main, loop),
         NEW t \in Nat \ {0}, NEW b, FullDone(c, t, b), ProcessFull(b, ns), ~Idle
  PROVE  Inv' /\ Continues
<1>1. /\ call.left = 0 /\ Runs(am)
      /\ DInv(two_pass, am, 0, call.no_search, fed, main, loop, flat) /\ Goes(main, main)
  BY Accepted DEF ProcessFull
<1>2. /\ b.ok = TRUE /\ b.ncep = t /\ b.state = "STARTED"
  BY DEF FullDone, Sound, Empty, ModeSame
<1>3. /\ fed = "full" /\ am.ncep = 0
      /\ call' = call /\ fed' = fed /\ flat' = flat /\ two_pass' = two_pass
      /\ IF ns \/ ~b.ok
         THEN am' = b /\ main' = main /\ loop' = loop
         ELSE /\ am' = Drained(b) /\ loop' = loop \o ShownToLoop(b)
              /\ main' = main \o ShownToMain(b)
  BY DEF ProcessFull, SearchForward
<1>4. call \in [left : Nat, no_search : BOOLEAN] /\ call.no_search \in BOOLEAN
  BY DEF Inv
<1>5. two_pass \in BOOLEAN
  BY <1>1 DEF DInv, Basic
<1>6. t - 0 \in Nat
  OBVIOUS
<1>7. CASE ns = TRUE
  <2>1. am' = b /\ main' = main /\ loop' = loop
    BY <1>3, <1>7
  <2>2. Empty(two_pass, c, TRUE, main, loop)
    BY <1>7
  <2>3. DInv(two_pass, b, 0, call.no_search, "full", main, loop, flat)
    BY <1>4, <1>5, <2>2, FullQuiet
  <2>4. Inv'
    BY <1>1, <1>3, <1>4, <2>1, <2>3 DEF Inv
  <2>5. Continues
    BY <1>1, <1>2, <1>3, <1>6, <2>1 DEF Continues, Runs
  <2>6. QED
    BY <2>4, <2>5
<1>8. CASE ns = FALSE
  <2>1. /\ am' = Drained(b) /\ loop' = loop \o ShownToLoop(b)
        /\ main' = main \o ShownToMain(b)
    BY <1>2, <1>3, <1>8
  <2>2. Empty(two_pass, c, FALSE, main, loop)
    BY <1>8
  <2>3. PICK d, mn, lp : d = am' /\ mn = main' /\ lp = loop'
    OBVIOUS
  <2>4. FullSearched(two_pass, t, call.no_search, main, flat, d, mn, lp)
    BY <1>4, <1>5, <2>1, <2>2, <2>3, FullSearches
  <2>5. /\ DInv(two_pass, d, 0, call.no_search, "full", mn, lp, flat) /\ Goes(main, mn)
        /\ d.ncep = t /\ d.state = "STARTED"
    BY <2>4 DEF FullSearched
  <2>6. Inv'
    BY <1>1, <1>3, <1>4, <2>3, <2>5 DEF Inv
  <2>7. Continues
    BY <1>1, <1>3, <1>6, <2>3, <2>5 DEF Continues, Runs
  <2>8. QED
    BY <2>6, <2>7
<1>9. QED
  BY <1>7, <1>8

\* The state a whole utterance is made features in.
LEMMA FullCall ==
  ASSUME Served, Inv, NEW ns \in BOOLEAN, NEW b, ProcessFull(b, ns), ~Idle,
         NEW c, c = IF ns THEN SetGrow(am, TRUE) ELSE am
  PROVE  Empty(two_pass, c, ns, main, loop)
<1>1. /\ Runs(am) /\ DInv(two_pass, am, 0, call.no_search, fed, main, loop, flat)
  BY Accepted DEF ProcessFull
<1>2. fed = "full" /\ am.ncep = 0
  BY DEF ProcessFull
<1>3. DInv(two_pass, am, 0, call.no_search, "full", main, loop, flat)
  BY <1>1, <1>2
<1>4. QED
  BY <1>1, <1>2, <1>3, FullStart

\* as samples:
LEMMA FullRawInv ==
  ASSUME Served, Inv, NEW n \in SampleBlocks, NEW ns \in BOOLEAN, FullRaw(n, ns)
  PROVE  Inv' /\ Continues
<1>1. PICK c, b : c = (IF ns THEN SetGrow(am, TRUE) ELSE am) /\ b = ProcessFullRaw(c, n)
  OBVIOUS
<1>2. n \in Nat \ {0} /\ ProcessFull(b, ns) /\ ~Idle
  <2>1. n > 0 /\ ProcessFull(ProcessFullRaw(IF ns THEN SetGrow(am, TRUE) ELSE am, n), ns) /\ ~Idle
    BY DEF FullRaw
  <2>2. n \in Nat \ {0}
    BY <2>1, DecoderAssumption
  <2>3. b = ProcessFullRaw(IF ns THEN SetGrow(am, TRUE) ELSE am, n)
    BY <1>1
  <2>4. QED
    BY <2>1, <2>2, <2>3
<1>3. Empty(two_pass, c, ns, main, loop)
  BY <1>1, <1>2, FullCall
<1>4. Sound(c) /\ c.ov = 0 /\ c.ncep = 0 /\ c.output_frame = 0 /\ c.feat_outidx = 0
  BY <1>3 DEF Empty
<1>5. PICK t \in Nat \ {0} : FullDone(c, t, b)
  BY <1>1, <1>2, <1>4, FullRawIs
<1>6. QED
  BY <1>2, <1>3, <1>5, FullInv

\* or as cepstra.
LEMMA FullCepInv ==
  ASSUME Served, Inv, NEW n \in CepBlocks, NEW ns \in BOOLEAN, FullCep(n, ns)
  PROVE  Inv' /\ Continues
<1>1. PICK c : c = IF ns THEN SetGrow(am, TRUE) ELSE am
  OBVIOUS
<1>2. PICK b : b = ProcessFullCep([c EXCEPT !.ncep = n], [i \in 1 .. n |-> i])
  OBVIOUS
<1>3. n \in Nat \ {0} /\ ProcessFull(b, ns) /\ ~Idle
  <2>1. ~Idle
    <3>1. Idle => May("not started")
      BY Zenon DEF FullCep
    <3>2. ~May("not started")
      BY NotTolerated, Zenon
    <3>3. QED
      BY <3>1, <3>2
  <2>2. n > 0 /\ ProcessFull(ProcessFullCep([IF ns THEN SetGrow(am, TRUE) ELSE am EXCEPT !.ncep = n],
                                            [i \in 1 .. n |-> i]), ns)
    BY Zenon DEF FullCep
  <2>3. n \in Nat \ {0} /\ ProcessFull(b, ns)
    <3>1. n \in Nat \ {0}
      BY <2>2, DecoderAssumption
    <3>2. b = ProcessFullCep([IF ns THEN SetGrow(am, TRUE) ELSE am EXCEPT !.ncep = n],
                             [i \in 1 .. n |-> i])
      BY <1>1, <1>2, Zenon
    <3>3. QED
      BY <2>2, <3>1, <3>2, Zenon
  <2>4. QED
    BY <2>1, <2>3
<1>4. Empty(two_pass, c, ns, main, loop)
  BY <1>1, <1>3, FullCall
<1>5. /\ Sound(c) /\ c.ov = 0 /\ c.n_mfc_frame = 0 /\ c.output_frame = 0 /\ c.feat_outidx = 0
  BY <1>4 DEF Empty
<1>6. FullDone(c, n, b)
  BY <1>2, <1>3, <1>5, FullCepDone
<1>7. QED
  BY <1>3, <1>4, <1>6, FullInv

\* ps_end_utt keeps it, with one pass and with two.
LEMMA EndUttInv ==
  ASSUME Served, Inv, EndUtt
  PROVE  Inv' /\ Finishes
<1>1. /\ call \in [left : Nat, no_search : BOOLEAN] /\ call.no_search \in BOOLEAN
      /\ DInv(two_pass, am, call.left, call.no_search, fed, main, loop, flat)
  BY DEF Inv
<1>2. PICK e, d : e = AcmodEndUtt(am) /\ d = Drained(e)
  OBVIOUS
<1>3. /\ ~(call.left > 0) /\ Runs(am) /\ ~EdgeAtEnd
      /\ two_pass' = two_pass /\ call' = call /\ fed' = fed
      /\ d.output_frame \notin 1 .. PlWindow - 1
      /\ IF ~e.ok THEN am' = e /\ UNCHANGED history
         ELSE /\ loop' = loop \o ShownToLoop(e)
              /\ main' = main \o ShownToMain(e) \o HeldBack(d)
              /\ IF two_pass /\ CanRewind(d) THEN SecondPass(Rewound(d))
                 ELSE am' = d /\ UNCHANGED flat
  BY <1>2, NotTolerated, RunsIsRunning DEF EndUtt, Busy, DrainedEnd, SearchEnd
<1>4. call.left = 0
  <2>1. PICK m \in Nat : m = call.left
    BY <1>1
  <2>2. ~(m > 0)
    BY <1>3, <2>1
  <2>3. QED
    BY <2>1, <2>2
<1>5. DInv(two_pass, am, 0, call.no_search, fed, main, loop, flat)
  BY <1>1, <1>4
<1>6. two_pass \in BOOLEAN /\ fed \in {"raw", "cep", "full"}
  BY <1>5 DEF DInv, Basic
<1>7. EndReady(two_pass, am, fed, main, loop, e)
  BY <1>2, <1>3, <1>5, EndIs DEF EdgeAtEnd
<1>8. e.ok = TRUE /\ e.ncep \in {am.ncep, am.ncep + 1} /\ e.ncep \in Nat
  BY <1>7 DEF EndReady, Sound, MfcSound
<1>9. /\ loop' = loop \o ShownToLoop(e) /\ main' = main \o ShownToMain(e) \o HeldBack(d)
      /\ IF two_pass /\ CanRewind(d) THEN SecondPass(Rewound(d)) ELSE am' = d /\ UNCHANGED flat
  BY <1>3, <1>8
<1>10. PICK mn : mn = main' /\ mn = main \o ShownToMain(e) \o HeldBack(d)
  BY <1>9
<1>11. EndShows(two_pass, e, fed, main, d, mn)
  BY <1>2, <1>3, <1>7, <1>10, EndSearches
<1>12. Goes(main, mn) /\ d.state = "ENDED" /\ d.ncep = e.ncep
  BY <1>11 DEF EndShows
<1>13. CASE two_pass = FALSE
  <2>1. am' = d
    BY <1>9, <1>13
  <2>2. EndShows(FALSE, e, fed, main, d, mn)
    BY <1>11, <1>13
  <2>3. DInv(FALSE, d, 0, call.no_search, fed, mn, loop', flat')
    BY <1>1, <1>6, <2>2, EndOnePass
  <2>4. Inv'
    BY <1>1, <1>3, <1>4, <1>10, <1>13, <2>1, <2>3 DEF Inv
  <2>5. Finishes
    BY <1>3, <1>8, <1>10, <1>12, <2>1 DEF Finishes
  <2>6. QED
    BY <2>4, <2>5
<1>14. CASE two_pass = TRUE
  <2>1. PICK w, c, fl : /\ w = Rewound(d) /\ c = Drained(w)
                        /\ fl = [i \in 1 .. w.n_feat_frame |-> Scored(Advanced(w, i - 1), i - 1)]
    OBVIOUS
  <2>2. EndShows(TRUE, e, fed, main, d, mn)
    BY <1>11, <1>14
  <2>3. PICK lp : lp = loop'
    OBVIOUS
  <2>4. /\ CanRewind(d) /\ c.ncep = e.ncep /\ c.state = "ENDED"
        /\ DInv(TRUE, c, 0, call.no_search, fed, mn, lp, fl)
    <3>1. Rerun(e, fed, call.no_search, mn, lp, d, c, fl)
      <4>1. PICK ns \in BOOLEAN, f \in {"raw", "cep", "full"} :
              ns = call.no_search /\ f = fed
        BY <1>1, <1>6
      <4>2. PICK seq : EndShows(TRUE, e, f, seq, d, mn) /\ e.ncep \in Nat
        BY <1>8, <2>2, <4>1
      <4>3. w = Rewound(d) /\ c = Drained(w)
        BY <2>1
      <4>4. fl = [i \in 1 .. w.n_feat_frame |-> Scored(Advanced(w, i - 1), i - 1)]
        BY <2>1
      <4>5. Rerun(e, f, ns, mn, lp, d, c, fl)
        BY <4>2, <4>3, <4>4, EndTwoPasses
      <4>6. QED
        BY <4>1, <4>5
    <3>2. QED
      BY <3>1 DEF Rerun
  <2>5. SecondPass(w)
    BY <1>9, <1>14, <2>1, <2>4
  <2>6. am' = c /\ flat' = fl
    BY <2>1, <2>5 DEF SecondPass
  <2>7. Inv'
    BY <1>1, <1>3, <1>4, <1>10, <1>14, <2>3, <2>4, <2>6 DEF Inv
  <2>8. Finishes
    BY <1>3, <1>8, <1>10, <1>12, <2>4, <2>6 DEF Finishes
  <2>9. QED
    BY <2>7, <2>8
<1>15. QED
  BY <1>6, <1>13, <1>14

\* Every step keeps it, and does one of four things to the utterance.
LEMMA NextInv ==
  ASSUME Served, Inv, [Next]_vars
  PROVE  Inv' /\ (UNCHANGED vars \/ Begins \/ Continues \/ Finishes)
<1>1. CASE StartUtt
  BY <1>1, StartUttInv
<1>2. CASE \E n \in SampleBlocks, ns \in BOOLEAN : CallRaw(n, ns)
  BY <1>2, CallRawInv
<1>3. CASE \E n \in CepBlocks, ns \in BOOLEAN : CallCep(n, ns)
  BY <1>3, CallCepInv
<1>4. CASE Work
  BY <1>4, WorkInv
<1>5. CASE \E n \in SampleBlocks, ns \in BOOLEAN : FullRaw(n, ns)
  BY <1>5, FullRawInv
<1>6. CASE \E n \in CepBlocks, ns \in BOOLEAN : FullCep(n, ns)
  BY <1>6, FullCepInv
<1>7. CASE EndUtt
  BY <1>7, EndUttInv
<1>8. CASE UNCHANGED vars
  BY <1>8 DEF vars, Inv
<1>9. QED
  BY <1>1, <1>2, <1>3, <1>4, <1>5, <1>6, <1>7, <1>8 DEF Next

\* The invariant holds in every state.
LEMMA InvHolds == ASSUME Served PROVE Spec => []Inv
<1>1. Init => Inv
  BY InitInv
<1>2. Inv /\ [Next]_vars => Inv'
  BY NextInv
<1>3. QED
  BY <1>1, <1>2, PTL DEF Spec

\* It says that nothing aborts,
LEMMA InvAborts == ASSUME Inv PROVE NeverAborts
<1>1. call.left \in Nat
  BY DEF Inv
<1>2. Sound(am)
  BY DEF Inv, DInv, Basic
<1>3. QED
  BY <1>1, <1>2 DEF NeverAborts, Sound, MfcSound, FeatSound, Buffers, States

\* that the phone loop is ahead by pl_window,
LEMMA InvLooks == ASSUME Inv PROVE LookaheadKept
<1>1. SUFFICES ASSUME Running, PlWindow > 0
               PROVE  /\ Len(loop) = am.output_frame
                      /\ Len(main) = IF Len(loop) < PlWindow THEN 0 ELSE Len(loop) - PlWindow
  BY DEF LookaheadKept
<1>2. PICK given : Looked(am, given, main, loop)
  BY <1>1, RunsIsRunning DEF Inv, DInv, LookedIn
<1>3. PlWindow # 0
  BY <1>1
<1>4. Len(loop) = am.output_frame
  BY <1>2, <1>3 DEF Looked, LoopKept
<1>5. Len(main) = Lag(am.output_frame)
  BY <1>2 DEF Looked, ShowsFirst
<1>6. QED
  BY <1>4, <1>5 DEF Lag

\* and that nothing is left when the utterance has ended.
LEMMA InvLeaves == ASSUME Inv PROVE NothingLeftBehind
<1>1. SUFFICES ASSUME am.state = "ENDED"
               PROVE  /\ am.n_feat_frame = 0 /\ am.n_mfc_frame = 0
                      /\ am.output_frame = IF fed = "cep" THEN Settled(am.ncep) ELSE am.ncep
                      /\ two_pass => flat = main
  BY DEF NothingLeftBehind
<1>2. Over(two_pass, am, fed, main, flat) /\ am.n_mfc_frame = 0
  BY <1>1 DEF Inv, DInv, OverIn, Basic
<1>3. QED
  BY <1>2 DEF Over

\* The acmod_t is of its types in every state, no assertion of acmod.c fails and no row
\* outside its two rings is used, whatever the sizes of the blocks.
THEOREM DecoderNeverAborts == ASSUME Served PROVE Spec => []NeverAborts
<1>1. Inv => NeverAborts
  BY InvAborts
<1>2. QED
  BY <1>1, InvHolds, PTL

\* The phone loop is ahead of the main search by pl_window frames until the utterance ends.
THEOREM LookaheadIsKept == ASSUME Served PROVE Spec => []LookaheadKept
<1>1. Inv => LookaheadKept
  BY InvLooks
<1>2. QED
  BY <1>1, InvHolds, PTL

\* ps_end_utt leaves no cepstrum and no feature behind, and the second pass is shown
\* what the first was.
THEOREM EndLeavesNothing == ASSUME Served PROVE Spec => []NothingLeftBehind
<1>1. Inv => NothingLeftBehind
  BY InvLeaves
<1>2. QED
  BY <1>1, InvHolds, PTL

---------------------------------------------------------------------------
(* What decoding promises a search. *)

LEMMA SameIdeal ==
  ASSUME NEW n
  PROVE  Service!Ideal(n) = Ideal(n) /\ Service!Settled(n) = Settled(n)
BY DEF Service!Ideal, Ideal, Service!BlockUtt, BlockUtt, Service!Clamp, Clamp,
       Service!Settled, Settled

\* Having been shown the first n features is to have their sequence.
LEMMA ShownAre ==
  ASSUME NEW last \in Nat, NEW n \in Nat, n <= last, NEW seq, ShowsFirst(seq, n, last)
  PROVE  Len(seq) = n /\ seq = SubSeq(Ideal(last), 1, n)
<1>1. seq \in Seq(FeatureRows) /\ Len(seq) = n /\ \A t \in 1 .. n : seq[t] = Ideal(last)[t]
  BY DEF ShowsFirst
<1>2. SubSeq(Ideal(last), 1, n) = [t \in 1 .. n |-> Ideal(last)[t]]
  BY DEF Ideal, BlockUtt
<1>3. seq = [t \in 1 .. n |-> seq[t]]
  BY <1>1
<1>4. [t \in 1 .. n |-> seq[t]] = [t \in 1 .. n |-> Ideal(last)[t]]
  BY <1>1
<1>5. QED
  BY <1>1, <1>2, <1>3, <1>4

\* While it is running.
LEMMA ShownNow ==
  ASSUME NEW tp, NEW a, NEW left, NEW ns, NEW f, NEW mn, NEW lp, NEW fl,
         DInv(tp, a, left, ns, f, mn, lp, fl), Runs(a)
  PROVE  /\ Len(mn) \in Nat /\ Len(mn) <= a.ncep /\ a.ncep \in Nat
         /\ mn = SubSeq(Ideal(a.ncep), 1, Len(mn))
<1>1. /\ Basic(tp, a, left, ns, f) /\ CallIn(a, left, ns, f) /\ PhaseIn(a, left, f)
      /\ Sound(a) /\ left \in Nat
  BY DEF DInv, Basic
<1>0. PICK o \in Nat : o = a.output_frame
  BY <1>1 DEF Sound, FeatSound
<1>2. PICK g : /\ g = Given(a, left, f) /\ o = a.output_frame
               /\ ShowsFirst(mn, Lag(o), g)
  <2>1. Looked(a, Given(a, left, f), mn, lp)
    BY DEF DInv, LookedIn
  <2>2. ShowsFirst(mn, Lag(a.output_frame), Given(a, left, f))
    BY <2>1 DEF Looked
  <2>3. QED
    BY <1>0, <2>2
<1>3. PICK h \in Nat : h = a.ncep
  BY <1>1 DEF Sound, MfcSound
<1>4. PICK l1 \in Nat : l1 = Lag(o) /\ l1 <= o
  BY LagIs
<1>5. l1 <= h /\ ShowsFirst(mn, l1, h)
  <2>1. CASE f # "full"
    <3>1. g \in Nat /\ l1 <= Settled(g) /\ Settled(g) <= g /\ Settled(g) \in Nat
      <4>1. g \in Nat /\ Lag(a.output_frame) <= Settled(g) /\ Settled(g) <= g
        BY <1>1, <1>2, <2>1, LagSettled
      <4>2. Settled(g) \in Nat
        BY <4>1, LiveAssumption DEF Settled
      <4>3. QED
        BY <1>2, <1>4, <4>1, <4>2
    <3>2. h - g \in Nat
      <4>1. CASE f = "cep"
        <5>1. PICK m \in Nat : m = left
          BY <1>1
        <5>2. g = h - m
          BY <1>2, <1>3, <4>1, <5>1 DEF Given
        <5>3. h - g = m
          BY <3>1, <5>2
        <5>4. QED
          BY <5>1, <5>3
      <4>2. CASE f # "cep"
        <5>1. g = h
          BY <1>2, <1>3, <4>2 DEF Given
        <5>2. QED
          BY <5>1
      <4>3. QED
        BY <4>1, <4>2
    <3>3. ShowsFirst(mn, l1, h)
      BY <1>2, <1>4, <3>1, <3>2, ShowsLater
    <3>4. l1 <= h
      BY <3>1, <3>2
    <3>5. QED
      BY <3>3, <3>4
  <2>2. CASE f = "full"
    <3>1. a.ncep = Ahead(a)
      BY <1>1, <2>2 DEF PhaseIn, Whole, Runs
    <3>2. PICK n \in Nat : n = a.n_feat_frame
      BY <1>1 DEF Sound, FeatSound
    <3>3. h = o + n
      BY <1>2, <1>3, <3>1, <3>2 DEF Ahead
    <3>4. l1 <= h
      BY <1>4, <3>3
    <3>5. g = h
      BY <1>2, <1>3, <2>2 DEF Given
    <3>6. QED
      BY <1>2, <1>4, <3>4, <3>5
  <2>3. QED
    BY <2>1, <2>2
<1>6. Len(mn) = l1 /\ mn = SubSeq(Ideal(h), 1, l1)
  BY <1>5, ShownAre
<1>7. QED
  BY <1>3, <1>5, <1>6

\* And when it has ended.
LEMMA ShownAtEnd ==
  ASSUME NEW tp, NEW a, NEW left, NEW ns, NEW f, NEW mn, NEW lp, NEW fl,
         DInv(tp, a, left, ns, f, mn, lp, fl), a.state = "ENDED"
  PROVE  /\ a.ncep \in Nat
         /\ mn = SubSeq(Ideal(a.ncep), 1, IF f # "cep" THEN a.ncep ELSE Settled(a.ncep))
<1>1. Sound(a) /\ Over(tp, a, f, mn, fl)
  BY DEF DInv, Basic, OverIn
<1>2. PICK h \in Nat : h = a.ncep
  BY <1>1 DEF Sound, MfcSound
<1>3. PICK o \in Nat : o = IF f # "cep" THEN h ELSE Settled(h)
  BY LiveAssumption DEF Settled
<1>4. o <= h
  BY <1>3, LiveAssumption DEF Settled
<1>5. ShowsFirst(mn, o, h)
  BY <1>1, <1>2, <1>3 DEF Over
<1>6. mn = SubSeq(Ideal(h), 1, o)
  BY <1>4, <1>5, ShownAre
<1>7. QED
  BY <1>2, <1>3, <1>6

\* A new decoder has served nothing.
LEMMA InitService == ASSUME Init PROVE Service!Init
<1>1. am.state = "IDLE" /\ am.ncep = 0
  <2>1. PICK b : b = NewAcmod
    OBVIOUS
  <2>2. /\ Sound(b) /\ b.state = "IDLE" /\ b.feat_outidx = b.output_frame
        /\ b.n_feat_frame = 0 /\ b.output_frame = 0 /\ b.ncep = 0
    BY <2>1, NewAcmodIs DEF NewAcmod
  <2>3. Ahead(b) < b.n_feat_alloc
    BY <2>2, SizesAre DEF Ahead, Sound, FeatSound
  <2>4. two_pass \in BOOLEAN /\ am = SetGrow(b, two_pass)
    BY <2>1 DEF Init
  <2>5. Allowed(b, two_pass, am)
    BY <2>2, <2>3, <2>4, SetGrowIs
  <2>6. QED
    BY <2>2, <2>5 DEF Allowed, MfcSame
<1>2. Running = FALSE
  BY <1>1 DEF Running
<1>3. (fed # "cep") \in BOOLEAN /\ main = <<>>
  BY DEF Init
<1>4. QED
  BY <1>1, <1>2, <1>3 DEF Service!Init

\* A step serves more, begins or ends an utterance, or is not seen by the search.
LEMMA NextService ==
  ASSUME Inv, Inv', UNCHANGED vars \/ Begins \/ Continues \/ Finishes
  PROVE  [Service!Next]_Service!vars
<1>1. /\ DInv(two_pass, am, call.left, call.no_search, fed, main, loop, flat)
      /\ DInv(two_pass', am', call'.left, call'.no_search, fed', main', loop', flat')
  BY DEF Inv
<1>2. PICK tp, a, left, ns, f, mn, lp, fl :
        /\ tp = two_pass' /\ a = am' /\ left = call'.left /\ ns = call'.no_search
        /\ f = fed' /\ mn = main' /\ lp = loop' /\ fl = flat'
        /\ DInv(tp, a, left, ns, f, mn, lp, fl)
  BY <1>1
<1>3. Running = Runs(am) /\ Running' = Runs(am')
  BY DEF Running, Runs
<1>4. CASE UNCHANGED vars
  BY <1>4 DEF vars, Service!vars, Running
<1>5. CASE Begins
  <2>1. Running = FALSE /\ Running' = TRUE
    <3>1. ~Runs(am) /\ Runs(am')
      BY <1>5 DEF Begins, Runs
    <3>2. QED
      BY <1>3, <3>1 DEF Running, Runs
  <2>2. Service!Start
    BY <1>5, <2>1 DEF Service!Start, Begins
  <2>3. QED
    BY <2>2 DEF Service!Next
<1>6. CASE Continues
  <2>1. Runs(a) /\ a.ncep - am.ncep \in Nat /\ Goes(main, mn) /\ f = fed
    BY <1>2, <1>6 DEF Continues
  <2>2. /\ Len(mn) \in Nat /\ Len(mn) <= a.ncep /\ a.ncep \in Nat
        /\ mn = SubSeq(Ideal(a.ncep), 1, Len(mn))
    BY <1>2, <2>1, ShownNow
  <2>3. Running = TRUE /\ Running' = TRUE
    BY <1>3, <1>6 DEF Continues, Running
  <2>4. a.ncep >= am.ncep
    <3>1. PICK k \in Nat : k = am.ncep
      BY <1>1 DEF DInv, Basic, Sound, MfcSound
    <3>2. PICK j \in Nat : j = a.ncep
      BY <2>2
    <3>3. j - k \in Nat
      BY <2>1, <3>1, <3>2
    <3>4. j >= k
      BY <3>3
    <3>5. QED
      BY <3>1, <3>2, <3>4
  <2>5. mn = SubSeq(Service!Ideal(a.ncep), 1, Len(mn))
    BY <2>2, SameIdeal
  <2>6. Len(mn) >= Len(main) /\ SubSeq(mn, 1, Len(main)) = main
    BY <2>1 DEF Goes
  <2>7. Service!Advance
    BY <1>2, <2>1, <2>2, <2>3, <2>4, <2>5, <2>6 DEF Service!Advance
  <2>8. QED
    BY <2>7 DEF Service!Next
<1>7. CASE Finishes
  <2>1. Runs(am) /\ a.state = "ENDED" /\ a.ncep \in {am.ncep, am.ncep + 1} /\ Goes(main, mn)
        /\ f = fed
    BY <1>2, <1>7 DEF Finishes
  <2>2. mn = SubSeq(Ideal(a.ncep), 1, IF f # "cep" THEN a.ncep ELSE Settled(a.ncep))
    BY <1>2, <2>1, ShownAtEnd
  <2>3. Running = TRUE /\ Running' = FALSE
    BY <1>2, <1>3, <2>1 DEF Running, Runs
  <2>4. mn = SubSeq(Service!Ideal(a.ncep), 1,
                    IF f # "cep" THEN a.ncep ELSE Service!Settled(a.ncep))
    BY <2>2, SameIdeal
  <2>5. SubSeq(mn, 1, Len(main)) = main
    BY <2>1 DEF Goes
  <2>6. Service!Finish
    BY <1>2, <2>1, <2>3, <2>4, <2>5 DEF Service!Finish
  <2>7. QED
    BY <2>6 DEF Service!Next
<1>8. QED
  BY <1>4, <1>5, <1>6, <1>7

\* Decoding in blocks, with its rings, implements the service: the main search is shown what
\* batch processing of the utterance would show it, each feature once and in order.
THEOREM MainSearchIsServed == ASSUME Served PROVE Spec => MainIsServed
<1>1. Init => Service!Init
  BY InitService
<1>2. Inv /\ Inv' /\ [Next]_vars => [Service!Next]_Service!vars
  BY NextInv, NextService
<1>3. QED
  BY <1>1, <1>2, InvHolds, PTL DEF Spec, MainIsServed, Service!Spec
=============================================================================
