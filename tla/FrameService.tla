--------------------------- MODULE FrameService ---------------------------
(***************************************************************************)
(* What decoding promises a search: it is shown the features of the        *)
(* utterance one after the other, each the feature batch processing would  *)
(* compute, and at the end of the utterance it has been shown all of them, *)
(* or, of an utterance that came without its end, all but a window.  How   *)
(* far it lags before that is not promised.                                *)
(***************************************************************************)
EXTENDS LiveRing

VARIABLES
  open,    \* an utterance is being processed
  whole,   \* its end will come with it
  given,   \* cepstra of the utterance so far
  shown    \* the features the search was shown

Init ==
  /\ open = FALSE
  /\ whole \in BOOLEAN
  /\ given = 0
  /\ shown = <<>>

Start ==
  /\ ~open
  /\ open' = TRUE
  /\ whole' \in BOOLEAN
  /\ given' = 0
  /\ shown' = <<>>

\* More of the utterance, or more of it shown: what is shown is not taken back,
\* and has to be what the whole utterance will give.
Advance ==
  /\ open
  /\ open' = TRUE
  /\ whole' = whole
  /\ given' >= given
  /\ Len(shown') >= Len(shown)
  /\ Len(shown') <= given'
  /\ shown' = SubSeq(Ideal(given'), 1, Len(shown'))
  /\ SubSeq(shown', 1, Len(shown)) = shown

\* The end of the utterance, with the cepstrum of the last samples, if any.
Finish ==
  /\ open
  /\ open' = FALSE
  /\ whole' = whole
  /\ given' \in {given, given + 1}
  /\ shown' = SubSeq(Ideal(given'), 1, IF whole THEN given' ELSE Settled(given'))
  /\ SubSeq(shown', 1, Len(shown)) = shown

Next == Start \/ Advance \/ Finish

vars == <<open, whole, given, shown>>
Spec == Init /\ [][Next]_vars
============================================================================
