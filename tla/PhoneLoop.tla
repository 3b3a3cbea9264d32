----------------------------- MODULE PhoneLoop -----------------------------
(***************************************************************************)
(* The search of a loop of phones (src/phone_loop_search.c) that runs      *)
(* ahead of the main search: of each phone how far the best path in it was *)
(* behind the best of all, at best in the last frames.  The main search    *)
(* adds this to a score before it compares it with a beam.                 *)
(* A case c has the topology (see Hmm), window (pl_window, 0 where there   *)
(* is no phone loop), weight (pl_weight, a fraction), plbeam, plpbeam,     *)
(* plpip, and origin, the score 0 of the code above WORST_SCORE.  Senones  *)
(* of a phone are its own.                                                 *)
(***************************************************************************)
EXTENDS Hmm

CONSTANT CiPhones   \* the phones, in the order of the model definition

\* phone_loop_search_start.
LoopStarted(c) ==
  LET none == [p \in Range(CiPhones) |-> 0]
  IN [hmms |-> [p \in Range(CiPhones) |-> Entering(Cleared(c), c.origin, None, 0)],
      penalties |-> none, pen_buf |-> [i \in 0 .. c.window - 1 |-> none], pen_buf_ptr |-> 0,
      best_score |-> c.origin]

\* renormalize_hmms and evaluate_hmms.
LoopEvaluated(c, pls, frame_idx, sound) ==
  LET norm == IF pls.best_score + 2 * c.plbeam < WORST_SCORE THEN pls.best_score - c.origin ELSE 0
      active == {p \in Range(CiPhones) : pls.hmms[p].frame >= frame_idx}
      eval(p) == LET h == Normalized(pls.hmms[p], norm)
                 IN IF p \in active THEN VitEval(c, h, [j \in Inner(c) |-> sound[p]]) ELSE h
      hmms == [p \in Range(CiPhones) |-> eval(p)]
  IN [pls EXCEPT !.hmms = hmms, !.best_score = Max({WORST_SCORE} \cup {hmms[p].best : p \in active})]

\* A score not above 0, weighted and cut to an integer.
Weighted(c, score) == -(((-score) * c.weight[1]) \div c.weight[2])

\* Mutant of Stored: the penalties are those of the frames before this one.
StoredLate(c, pls) ==
  [pls EXCEPT
     !.pen_buf[pls.pen_buf_ptr] = [p \in DOMAIN pls.hmms |-> Weighted(c, pls.hmms[p].best - pls.best_score)],
     !.pen_buf_ptr = (@ + 1) % c.window,
     !.penalties = [p \in DOMAIN @ |-> Max({WORST_SCORE - c.origin} \cup {pls.pen_buf[i][p] : i \in DOMAIN pls.pen_buf})]]

\* store_scores: a ring of the last frames, and the best of it for each phone.
Stored(c, pls) ==
  LET buf == [pls.pen_buf EXCEPT ![pls.pen_buf_ptr] =
                [p \in DOMAIN pls.hmms |-> Weighted(c, pls.hmms[p].best - pls.best_score)]]
  IN [pls EXCEPT
        !.pen_buf = buf, !.pen_buf_ptr = (@ + 1) % c.window,
        !.penalties = [p \in DOMAIN @ |-> Max({WORST_SCORE - c.origin} \cup {buf[i][p] : i \in DOMAIN buf})]]

\* hmm_clear_scores.
ClearedScores(h) ==
  [h EXCEPT !.score = [j \in DOMAIN @ |-> WORST_SCORE], !.out = WORST_SCORE, !.best = WORST_SCORE]

\* prune_hmms.
LoopPruned(c, pls, frame_idx) ==
  LET pruned(h) == IF h.frame < frame_idx THEN h
                   ELSE IF h.best > pls.best_score + c.plbeam THEN [h EXCEPT !.frame = frame_idx + 1]
                   ELSE ClearedScores(h)
  IN [pls EXCEPT !.hmms = [p \in DOMAIN @ |-> pruned(@[p])]]

\* phone_transition: out of a phone that stays active, into all phones.
LoopTransitions(c, pls, frame_idx) ==
  LET nf == frame_idx + 1
      entered(h, score) == IF h.frame < frame_idx \/ score > h.score[0] THEN Entering(h, score, None, nf) ELSE h
      leaving(hmms, p) ==
        LET score == hmms[p].out + c.plpip
        IN IF hmms[p].frame = nf /\ score > pls.best_score + c.plpbeam
           THEN [q \in DOMAIN hmms |-> entered(hmms[q], score)] ELSE hmms
  IN [pls EXCEPT !.hmms = FoldLeft(leaving, @, CiPhones)]

\* phone_loop_search_step.
LoopStepped(c, pls, frame_idx, sound) ==
  LET scored == Stored(c, LoopEvaluated(c, pls, frame_idx, sound))
  IN LoopTransitions(c, LoopPruned(c, scored, frame_idx), frame_idx)

---------------------------------------------------------------------------
(* The same without a beam: the best score of a path to each state of each  *)
(* phone, and for each frame how far each phone was behind.                 *)

ReachStarted(c) ==
  [at |-> [p \in Range(CiPhones) |-> [j \in Inner(c) |-> IF j = 0 THEN 0 ELSE NoScore]], behind |-> <<>>]

Reached(c, reach, sound) ==
  LET arrival(p, k) == Max({NoScore} \cup {reach.at[p][j] + sound[p] + c.tp[j, k] :
                              j \in {i \in Inner(c) : i <= k /\ Present(c.tp[i, k]) /\ reach.at[p][i] # NoScore}})
      top(p) == Max({arrival(p, k) : k \in 0 .. c.n})
      out == Max({arrival(p, c.n) : p \in Range(CiPhones)})
      best == Max({top(p) : p \in Range(CiPhones)})
  IN [at |-> [p \in Range(CiPhones) |-> [j \in Inner(c) |->
                IF j = 0 /\ out # NoScore THEN Max({arrival(p, 0), out + c.plpip}) ELSE arrival(p, j)]],
      behind |-> Append(reach.behind, [p \in Range(CiPhones) |-> top(p) - best])]
=============================================================================
