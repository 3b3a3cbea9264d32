----------------------------- MODULE LiveFeat -----------------------------
(***************************************************************************)
(* A caller of feat_s2mfc2feat_live (src/feat/feat.c, LiveRing): it offers *)
(* the cepstra of an utterance in blocks, says begin until a cepstrum was  *)
(* taken, end with the last block, and offers again what was not taken.    *)
(* One feat_t serves one utterance after the other.                        *)
(***************************************************************************)
EXTENDS LiveRing

CONSTANTS Blocks,      \* sizes of the blocks offered
          MaxFrames,   \* bound: cepstra of an utterance
          Tolerated    \* what the caller lets happen, of Seams

\* Two things go wrong at the capacity of the live buffer, and are kept apart:
\* a block that fits but overwrites the left context of the next feature, and
\* an end of utterance that is put off because the block does not fit.
Seams == {"overwrite", "put off"}

ASSUME CallerAssumption == /\ Blocks \subseteq Nat
                           /\ MaxFrames \in Nat
                           /\ Tolerated \subseteq Seams

VARIABLES
  live,    \* the feat_t's buffer
  fed,     \* cepstra taken in this utterance
  ended,   \* the end of the utterance has been processed
  feats    \* history: the features computed in this utterance

vars == <<live, fed, ended, feats>>

---------------------------------------------------------------------------

Init ==
  /\ live = EmptyLive
  /\ fed = 0
  /\ ended = TRUE
  /\ feats = <<>>

Overwrites(n, end) ==
  LET total == Pending(live) + n + (IF end THEN Win ELSE 0)
  IN fed > 0 /\ total <= L /\ total > L - Win

PutsOff(n, end) == fed > 0 /\ end /\ ~Ends(live, n, FALSE, end)

\* A new utterance with the same feat_t: its state is left as it is.
StartUtt ==
  /\ live' = Forgotten(live)
  /\ fed' = 0
  /\ ended' = FALSE
  /\ feats' = <<>>

Process(n, end) ==
  /\ ~ended
  /\ Overwrites(n, end) => "overwrite" \in Tolerated
  /\ PutsOff(n, end) => "put off" \in Tolerated
  /\ LET r == Live(live, [i \in 1 .. n |-> fed + i], fed = 0, end)
     IN /\ live' = r.live
        /\ fed' = fed + r.used
        /\ feats' = feats \o r.feats
        /\ ended' = (end /\ r.used = n)

Next ==
  \/ StartUtt
  \/ \E n \in {b \in Blocks : fed + b <= MaxFrames}, end \in BOOLEAN : Process(n, end)

Spec == Init /\ [][Next]_vars

---------------------------------------------------------------------------

Cepstra == Nat
Features == [1 .. 2 * Win + 1 -> Cepstra]

\* The types of the live buffer and of what the caller keeps.
TypeOK ==
  /\ live \in [cepbuf : [Slots -> Cepstra], bufpos : Slots, curpos : Slots]
  /\ fed \in Nat
  /\ ended \in BOOLEAN
  /\ feats \in Seq(Features)

\* Feature t is computed from frames t-Win .. t+Win of this utterance, the ends
\* of the utterance padded with its first and last frame, whatever the blocks
\* it arrives in and whatever the circular buffer held before.  Features are held
\* back by the window and no longer, and the end of the utterance flushes every one.
LiveAgreesWithBatch ==
  /\ TypeOK
  /\ Len(feats) = IF ended \/ fed = 0 THEN fed ELSE IF fed > Win THEN fed - Win ELSE 0
  /\ \A t \in 1 .. Len(feats) : feats[t] = Ideal(fed)[t]

\* A block is never refused whole, so that offering the rest again terminates, and
\* the features of a call are "guaranteed to never exceed *inout_ncep +
\* feat_window_size(fcb)", by which callers allocate the output (feat.h:391).
BlockContract ==
  ~ended => \A n \in Blocks, end \in BOOLEAN :
              LET r == Live(live, [i \in 1 .. n |-> fed + i], fed = 0, end)
              IN Len(r.feats) <= n + Win /\ (n > 0 => r.used > 0)

\* "This condition can easily be checked, because *inout_ncep will equal the
\* return value on exit" (feat.h:402): of an end of utterance put off.
PutOffIsVisible ==
  [][\A n \in Blocks :
       Process(n, TRUE) /\ ~ended' => Len(feats') - Len(feats) = fed' - fed]_vars
============================================================================
