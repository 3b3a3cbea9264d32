----------------------------- MODULE KwsSearch -----------------------------
(***************************************************************************)
(* Keyphrase spotting (src/kws_search.c, kws_detections.c): a loop of      *)
(* phones gives the score of anything that may have been said, and a chain *)
(* of HMMs for each keyphrase is entered from it in every frame.  Where a  *)
(* chain is left with a score that is not too far behind that of the loop  *)
(* the phrase is detected; of detections of a phrase that overlap the best *)
(* is kept, and those that ended a while ago make the hypothesis.          *)
(* Scores are never renormalised here.  A frame of sound is the score it   *)
(* gives to each senone sequence; those of a phone in the loop are its own.*)
(***************************************************************************)
EXTENDS Hmm, FiniteSets, Functions

CONSTANTS Cases,       \* topologies, beams and keyphrases, see CaseOK
          Sounds,      \* what a frame may be
          CiPhones,    \* the phones of the loop
          KWS_MAX,     \* what is taken off the ratio of a detection
          MaxFrames,   \* bound: frames of an utterance
          MaxUtts,     \* bound: utterances
          Tolerated    \* what the client does, of Hazards

\* Uses that the code accepts and does not serve as it should; each is excluded
\* from the client's behaviour unless Tolerated has it.
Hazards == {"again",            \* another utterance, with phrases begun in the one before
            "reinit midway",    \* ps_add_word or ps_load_dict in mid-utterance
            "skips"}            \* an acoustic model whose states can be skipped, see Skips

\* A sound is no score above zero for each of the senone sequences, of the loop and others.
SoundOK(sound) ==
  /\ CiPhones \subseteq DOMAIN sound
  /\ \A s \in DOMAIN sound : sound[s] \in Int /\ sound[s] <= 0

\* A topology with the beam, the phone loop probability, the delay, and for each keyphrase
\* its threshold and senone sequences; and whether the beam is too wide to prune anything.
CaseOK(c) ==
  /\ c.n \in Nat \ {0} /\ c.delay \in Nat
  /\ DOMAIN c.tp = Inner(c) \X (0 .. c.n) /\ \A t \in DOMAIN c.tp : c.tp[t] \in Int /\ c.tp[t] <= 0
  /\ c.beam \in Int /\ c.beam < 0 /\ c.plp \in Int /\ c.plp <= 0
  /\ DOMAIN c.keyphrases = 1 .. Len(c.keyphrases) /\ Len(c.keyphrases) \in Nat
  /\ \A k \in DOMAIN c.keyphrases :
       /\ c.keyphrases[k].threshold \in Int /\ c.keyphrases[k].threshold <= 0
       /\ \A sound \in Sounds : c.keyphrases[k].ssids \in Seq(DOMAIN sound)

\* A state can be skipped; hmm_vit_eval_5st_lr takes the transitions of a skip even if absent.
Skips(c) == c.n = 5 \/ \E j \in Inner(c), k \in 0 .. c.n : k > j + 1 /\ Present(c.tp[<<j, k>>])

ASSUME KwsAssumption ==
  /\ \A c \in Cases : CaseOK(c)
  /\ WORST_SCORE \in Int /\ WORST_SCORE < 0
  /\ KWS_MAX \in Nat /\ MaxFrames \in Nat /\ MaxUtts \in Nat
  /\ IsFiniteSet(CiPhones) /\ CiPhones # {}
  /\ Sounds # {} /\ \A sound \in Sounds : SoundOK(sound)
  /\ Tolerated \subseteq Hazards

\* A frame costs no more than Loss, so that no score on the way through an HMM comes near
\* the worst in MaxFrames: scores are kept in 32 bits and not renormalised.
Modest(c, Loss) ==
  /\ \A j \in Inner(c) : /\ Present(c.tp[<<j, j>>]) /\ Present(c.tp[<<j, j + 1>>])
                         /\ \A sound \in Sounds : \A s \in DOMAIN sound :
                              sound[s] + c.tp[<<j, j>>] >= -Loss /\ sound[s] + c.tp[<<j, j + 1>>] >= -Loss
  /\ NoScore < WORST_SCORE - Loss /\ WORST_SCORE + MaxFrames * Loss < 0
  /\ \A k \in DOMAIN c.keyphrases : WORST_SCORE + MaxFrames * Loss < c.keyphrases[k].threshold

VARIABLES
  case,
  pl_hmms,     \* the HMM of each phone of the loop
  hmms,        \* the HMMs of each keyphrase
  bestscore,
  frame,
  detect_list, \* the detections, the newest first
  running,     \* between start and finish
  heard,       \* history: the search without a beam, see Heard
  utts         \* history: utterances

vars == <<case, pl_hmms, hmms, bestscore, frame, detect_list, running, heard, utts>>

May(hazard) == hazard \in Tolerated
Phrases == DOMAIN case.keyphrases
Length(k) == Len(case.keyphrases[k].ssids)

\* hmm_is_active of this search.
Active(h) == h.frame > 0

---------------------------------------------------------------------------
(* kws_detections.c. *)

\* Mutant of Competes: only with those that began before.
CompetesLater(det, d) == det.keyphrase = d.keyphrase /\ det.sf < d.sf /\ det.ef > d.sf

\* The detections a new one competes with.
Competes(det, d) == det.keyphrase = d.keyphrase /\ det.sf < d.ef /\ det.ef > d.sf

\* Mutant of Added: it is the newest that is replaced.
AddedToHead(list, d) ==
  IF ~\E i \in DOMAIN list : Competes(list[i], d) THEN <<d>> \o list
  ELSE IF Head(list).prob < d.prob THEN <<d>> \o Tail(list) ELSE list

\* kws_detections_add: the first that it overlaps is replaced if it is worse.
Added(list, d) ==
  LET rivals == {i \in DOMAIN list : Competes(list[i], d)}
  IN IF rivals = {} THEN <<d>> \o list
     ELSE IF list[Min(rivals)].prob < d.prob THEN [list EXCEPT ![Min(rivals)] = d] ELSE list

\* kws_detections_hyp_str; they are put in order of time.
Hypothesis(list) == {d \in Range(list) : d.ef < frame - case.delay}

---------------------------------------------------------------------------
(* kws_search_step. *)

Eval(h, sound, ssid) == VitEval(case, h, [j \in Inner(case) |-> sound[ssid]])

\* kws_search_hmm_eval: the loop, and of the phrases what is active.
LoopEvaluated(sound) == [p \in CiPhones |-> Eval(pl_hmms[p], sound, p)]
PhrasesEvaluated(sound) ==
  [k \in Phrases |-> [i \in DOMAIN hmms[k] |->
     IF Active(hmms[k][i]) THEN Eval(hmms[k][i], sound, case.keyphrases[k].ssids[i]) ELSE hmms[k][i]]]
BestOf(loop, phrases) ==
  Max({WORST_SCORE} \cup {loop[p].best : p \in CiPhones}
      \cup UNION {{h.best : h \in {g \in Range(phrases[k]) : Active(g)}} : k \in Phrases})

\* kws_search_hmm_prune.
Pruned(h, best) == IF Active(h) /\ h.best < best + case.beam THEN Cleared(case) ELSE h

\* kws_search_trans: a phrase is detected, and the detections of the frame one phrase after
\* another.
Spotted(phrases, out, k) ==
  /\ Length(k) > 0 /\ Active(Last(phrases[k]))
  /\ Last(phrases[k]).out - out >= case.keyphrases[k].threshold
Detection(phrases, out, k) ==
  [keyphrase |-> k, sf |-> Last(phrases[k]).outHist, ef |-> frame,
   prob |-> Last(phrases[k]).out - out - KWS_MAX]
Detected(phrases, out) ==
  LET upTo[k \in 0 .. Len(case.keyphrases)] ==
        IF k = 0 THEN detect_list
        ELSE IF Spotted(phrases, out, k) THEN Added(upTo[k - 1], Detection(phrases, out, k))
             ELSE upTo[k - 1]
  IN upTo[Len(case.keyphrases)]

\* Back to all phones of the loop.
LoopEntered(h, out) ==
  IF out + case.plp > h.score[0] THEN Entering(h, out + case.plp, None, frame + 1) ELSE h

\* Mutant of PhraseEntered: a phrase is not entered again before it is over.
PhraseEnteredOnce(chain, out) ==
  [i \in DOMAIN chain |->
     LET h == chain[i]
     IN IF i = 1 THEN IF ~Active(h) THEN Entering(h, out, frame, frame + 1) ELSE h
        ELSE IF Active(chain[i - 1]) /\ (~Active(h) \/ chain[i - 1].out > h.score[0])
             THEN Entering(h, chain[i - 1].out, chain[i - 1].outHist, frame + 1) ELSE h]

\* On in the chain of a phrase, from its end, and into it from the loop.
PhraseEntered(chain, out) ==
  [i \in DOMAIN chain |->
     LET h == chain[i]
     IN IF i = 1 THEN IF out > h.score[0] THEN Entering(h, out, frame, frame + 1) ELSE h
        ELSE IF Active(chain[i - 1]) /\ (~Active(h) \/ chain[i - 1].out > h.score[0])
             THEN Entering(h, chain[i - 1].out, chain[i - 1].outHist, frame + 1) ELSE h]

---------------------------------------------------------------------------
(* The search without a beam, and with a chain of its own for each start of *)
(* a phrase: the best score to each state of each phone of the loop, the    *)
(* best out of the loop in each frame, to each state of each phrase since   *)
(* each frame, and what is to be detected.                                  *)

Silence(c) ==
  [at |-> [p \in CiPhones |-> [j \in Inner(c) |-> IF j = 0 THEN 0 ELSE NoScore]],
   outs |-> <<>>, said |-> [k \in DOMAIN c.keyphrases |-> <<>>], due |-> {}]

Plus(score, more) == IF score = NoScore THEN NoScore ELSE score + more

\* The best arrival in state m, or out of the HMM, from states with scores at.
Reaches(at, m, sen) ==
  Max({NoScore} \cup {Plus(at[j], sen + case.tp[<<j, m>>]) : j \in {i \in Inner(case) : i <= m /\ Present(case.tp[<<i, m>>])}})

\* A chain with scores at, one frame on.
SaidOn(k, chain, sound) ==
  LET sen(i) == sound[case.keyphrases[k].ssids[i]]
      out(i) == Reaches(chain[i], case.n, sen(i))
  IN [i \in DOMAIN chain |-> [j \in Inner(case) |->
        Max({Reaches(chain[i], j, sen(i))} \cup (IF i > 1 /\ j = 0 THEN {out(i - 1)} ELSE {}))]]
SaidOut(k, chain, sound) ==
  Reaches(chain[Length(k)], case.n, sound[case.keyphrases[k].ssids[Length(k)]])

\* A phrase that begins after this frame, where the loop has score out.
Begun(k, out) == [i \in 1 .. Length(k) |-> [j \in Inner(case) |-> IF i = 1 /\ j = 0 THEN out ELSE NoScore]]

Heard(sound) ==
  LET out == Max({Reaches(heard.at[p], case.n, sound[p]) : p \in CiPhones})
      ends(k) == [i \in DOMAIN heard.said[k] |-> SaidOut(k, heard.said[k][i], sound)]
      best(k) == Max({NoScore} \cup Range(ends(k)))
      spots(k) == Length(k) > 0 /\ best(k) # NoScore /\ out # NoScore
                  /\ best(k) - out >= case.keyphrases[k].threshold
  IN [at |-> [p \in CiPhones |-> [j \in Inner(case) |->
                Max({Reaches(heard.at[p], j, sound[p])} \cup (IF j = 0 THEN {Plus(out, case.plp)} ELSE {}))]],
      outs |-> Append(heard.outs, out),
      said |-> [k \in Phrases |->
                  Append([i \in DOMAIN heard.said[k] |-> SaidOn(k, heard.said[k][i], sound)], Begun(k, out))],
      due |-> heard.due \cup
              {[keyphrase |-> k, sfs |-> {i - 1 : i \in {e \in DOMAIN ends(k) : ends(k)[e] = best(k)}},
                ef |-> frame, prob |-> best(k) - out - KWS_MAX] : k \in {l \in Phrases : spots(l)}}]

---------------------------------------------------------------------------

\* kws_search_reinit: HMMs of the loop and of all phrases, cleared.
FreshLoop(c) == [p \in CiPhones |-> Cleared(c)]
FreshPhrases(c) ==
  [k \in DOMAIN c.keyphrases |-> [i \in 1 .. Len(c.keyphrases[k].ssids) |-> Cleared(c)]]

Init ==
  /\ case \in Cases /\ (Skips(case) => May("skips"))
  /\ pl_hmms = FreshLoop(case) /\ hmms = FreshPhrases(case)
  /\ bestscore = 0 /\ frame = 0 /\ detect_list = <<>>
  /\ running = FALSE /\ heard = Silence(case) /\ utts = 0

\* kws_search_start: the phrases are left as they are.
Start ==
  /\ ~running /\ utts < MaxUtts
  /\ (\E k \in Phrases : \E h \in Range(hmms[k]) : Active(h)) => May("again")
  /\ frame' = 0 /\ bestscore' = 0 /\ detect_list' = <<>>
  /\ pl_hmms' = [p \in CiPhones |-> Entering(Cleared(case), 0, None, 0)]
  /\ running' = TRUE /\ heard' = Silence(case) /\ utts' = utts + 1
  /\ UNCHANGED <<case, hmms>>

Step(sound) ==
  LET loop == LoopEvaluated(sound)
      evaluated == PhrasesEvaluated(sound)
      best == BestOf(loop, evaluated)
      phrases == [k \in Phrases |-> [i \in DOMAIN evaluated[k] |-> Pruned(evaluated[k][i], best)]]
      out == Max({WORST_SCORE} \cup {loop[p].out : p \in CiPhones})
  IN /\ running /\ frame < MaxFrames
     /\ bestscore' = best
     /\ IF out <= WORST_SCORE
        THEN pl_hmms' = loop /\ hmms' = phrases /\ UNCHANGED detect_list
        ELSE /\ detect_list' = Detected(phrases, out)
             /\ pl_hmms' = [p \in CiPhones |-> LoopEntered(loop[p], out)]
             /\ hmms' = [k \in Phrases |-> PhraseEntered(phrases[k], out)]
     /\ frame' = frame + 1
     /\ heard' = Heard(sound)
     /\ UNCHANGED <<case, running, utts>>

\* kws_search_finish changes nothing that is modelled.
Finish ==
  /\ running
  /\ running' = FALSE
  /\ UNCHANGED <<case, pl_hmms, hmms, bestscore, frame, detect_list, heard, utts>>

\* kws_search_reinit, with another dictionary or another word in it.
Reinit ==
  /\ running => May("reinit midway")
  /\ pl_hmms' = FreshLoop(case) /\ hmms' = FreshPhrases(case)
  /\ UNCHANGED <<case, bestscore, frame, detect_list, running, heard, utts>>

Next ==
  \/ Start
  \/ \E sound \in Sounds : Step(sound)
  \/ Finish
  \/ Reinit

Spec == Init /\ [][Next]_vars

---------------------------------------------------------------------------

Detections == Range(detect_list)

\* With a beam that prunes nothing, each detection is a time in which a phrase was as good,
\* against the loop, as it says, and that ended then as none better; and nothing is missed:
\* for each such time there is a detection of the phrase at least as good.  A beam makes
\* nothing better.
DetectionsAreDue ==
  /\ \A d \in Detections : \E u \in heard.due :
       /\ u.keyphrase = d.keyphrase /\ u.ef = d.ef
       /\ d.prob < u.prob \/ (d.prob = u.prob /\ d.sf \in u.sfs)
       /\ case.wide => d.prob = u.prob
  /\ case.wide => \A u \in heard.due : \E d \in Detections :
       d.keyphrase = u.keyphrase /\ d.prob >= u.prob

\* A phrase is not detected twice in the same time, though a detection that takes the place
\* of another is compared with no other; so they are in the order of their times.
DetectionsDisjoint ==
  \A i, j \in DOMAIN detect_list :
    i < j /\ detect_list[i].keyphrase = detect_list[j].keyphrase =>
      detect_list[j].ef <= detect_list[i].sf

\* "Delay to wait for best detection score" (config_macro.h): a detection in the hypothesis
\* stays in it until the utterance is over, unless one longer than the delay comes instead.
HypothesisStays ==
  [][running /\ running' =>
       \A d \in Hypothesis(detect_list) :
         d \in Hypothesis(detect_list)' \/
         \E e \in Range(detect_list') : e.ef = frame /\ Competes(d, e) /\ e.ef - e.sf > case.delay]_vars
=============================================================================
