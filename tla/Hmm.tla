-------------------------------- MODULE Hmm --------------------------------
(***************************************************************************)
(* An HMM of a phone and a step of its Viterbi search (src/hmm.c).  A      *)
(* topology c has n emitting states, 0 to n - 1, and tp[j, k] is the score *)
(* of going from state j to k, or out of the HMM for k = n.  An HMM has    *)
(* the scores of its states, with a history each, the best of them, and    *)
(* the last frame in which it is active.  Senones of a multiplex HMM that  *)
(* change with the phone before it, and the evaluations written for        *)
(* multiplex HMMs of three and five states, are left out.                  *)
(***************************************************************************)
EXTENDS Integers, Sequences, FiniteSetsExt, SequencesExt

CONSTANTS WORST_SCORE, TMAT_WORST_SCORE

None == -1
NoScore == -1000000     \* INT_MIN as a score

Inner(c) == 0 .. c.n - 1

Present(t) == t > TMAT_WORST_SCORE
Clipped(score) == IF score < WORST_SCORE THEN WORST_SCORE ELSE score

\* hmm_clear.
Cleared(c) == [score |-> [j \in Inner(c) |-> WORST_SCORE], hist |-> [j \in Inner(c) |-> None],
               out |-> WORST_SCORE, outHist |-> None, best |-> WORST_SCORE, frame |-> None]

\* hmm_enter.
Entering(h, score, hist, nf) == [h EXCEPT !.score[0] = score, !.hist[0] = hist, !.frame = nf]

\* hmm_normalize.
Normalized(h, norm) ==
  LET less(score) == IF score > WORST_SCORE THEN score - norm ELSE score
  IN [h EXCEPT !.score = [j \in DOMAIN h.score |-> less(h.score[j])], !.out = less(@)]

\* hmm_vit_eval_anytopo: the best arrival in state k, where staying has score stay, from
\* the nearest state to the first; of equal ones the nearest, and staying before all.
Arrival(c, st, k, stay) ==
  LET best[i \in 0 .. k] ==
        IF i = 0 THEN [score |-> stay, from |-> k]
        ELSE IF Present(c.tp[<<k - i, k>>]) /\ st[k - i] + c.tp[<<k - i, k>>] > best[i - 1].score
             THEN [score |-> st[k - i] + c.tp[<<k - i, k>>], from |-> k - i] ELSE best[i - 1]
  IN best[k]
EvalAny(c, h, sen) ==
  LET st == [j \in Inner(c) |-> IF j = 0 THEN h.score[0] + sen[0] ELSE Clipped(h.score[j] + sen[j])]
      stay(k) == IF Present(c.tp[<<k, k>>]) THEN st[k] + c.tp[<<k, k>>] ELSE WORST_SCORE
      into == [k \in Inner(c) |-> Arrival(c, st, k, stay(k))]
      out == Arrival(c, st, c.n, WORST_SCORE)
  IN [score |-> [k \in Inner(c) |-> into[k].score],
      hist |-> [k \in Inner(c) |-> h.hist[into[k].from]],
      out |-> out.score, outHist |-> IF out.from = c.n THEN h.outHist ELSE h.hist[out.from],
      best |-> Max({out.score} \cup {into[k].score : k \in Inner(c)}), frame |-> h.frame]

\* hmm_vit_eval_3st_lr.  t2 is the arrival by a skip; that of the final state is left in
\* it where state 2 cannot be skipped to.
Eval3(c, h, sen) ==
  LET s == [j \in Inner(c) |-> h.score[j] + sen[j]]
      leaves == s[1] > WORST_SCORE
      skipOut == IF leaves /\ Present(c.tp[<<1, 3>>]) THEN s[1] + c.tp[<<1, 3>>] ELSE NoScore
      skipIn == IF Present(c.tp[<<0, 2>>]) THEN s[0] + c.tp[<<0, 2>>] ELSE skipOut
      walkOut == s[2] + c.tp[<<2, 3>>]
      out == Clipped(Max({walkOut, skipOut}))
      stay2 == s[2] + c.tp[<<2, 2>>]
      next2 == s[1] + c.tp[<<1, 2>>]
      stay1 == s[1] + c.tp[<<1, 1>>]
      next1 == s[0] + c.tp[<<0, 1>>]
      score == [j \in Inner(c) |-> Clipped(IF j = 2 THEN Max({stay2, next2, skipIn})
                                           ELSE IF j = 1 THEN Max({stay1, next1})
                                           ELSE s[0] + c.tp[<<0, 0>>])]
  IN [score |-> score,
      hist |-> [j \in Inner(c) |->
                  IF j = 2 THEN IF skipIn > Max({stay2, next2}) THEN h.hist[0]
                                ELSE IF stay2 > next2 THEN h.hist[2] ELSE h.hist[1]
                  ELSE IF j = 1 /\ stay1 > next1 THEN h.hist[1] ELSE h.hist[0]],
      out |-> IF leaves THEN out ELSE h.out,
      outHist |-> IF ~leaves THEN h.outHist ELSE IF walkOut > skipOut THEN h.hist[2] ELSE h.hist[1],
      best |-> Max({IF leaves THEN out ELSE WORST_SCORE} \cup {score[j] : j \in Inner(c)}),
      frame |-> h.frame]

\* hmm_vit_eval_5st_lr: of equal arrivals the next state before staying, and a skip only
\* if it is better than both.  Every transition is taken, absent or not, and a state is
\* left as it was while the second before it has not been reached.
Eval5(c, h, sen) ==
  LET s == [j \in Inner(c) |-> h.score[j] + sen[j]]
      going(j, k) == IF j \in Inner(c) THEN s[j] + c.tp[<<j, k>>] ELSE NoScore
      arrival(k) == Max({going(k, k), going(k - 1, k), going(k - 2, k)})
      from(k) == IF going(k - 2, k) > Max({going(k, k), going(k - 1, k)}) THEN k - 2
                 ELSE IF going(k, k) > going(k - 1, k) THEN k ELSE k - 1
      fromOut == IF going(4, 5) > going(3, 5) THEN 4 ELSE 3
      set == {k \in 0 .. 5 : k < 3 \/ s[k - 2] > WORST_SCORE}
  IN [h EXCEPT
        !.score = [k \in Inner(c) |-> IF k \in set THEN Clipped(arrival(k)) ELSE @[k]],
        !.hist = [k \in Inner(c) |-> IF k \in set /\ k > 0 THEN @[from(k)] ELSE @[k]],
        !.out = IF 5 \in set THEN Clipped(arrival(5)) ELSE @,
        !.outHist = IF 5 \in set THEN h.hist[fromOut] ELSE @,
        !.best = Max({WORST_SCORE} \cup {Clipped(arrival(k)) : k \in set})]

\* hmm_vit_eval.
VitEval(c, h, sen) ==
  IF c.n = 5 THEN Eval5(c, h, sen) ELSE IF c.n = 3 THEN Eval3(c, h, sen) ELSE EvalAny(c, h, sen)
=============================================================================
