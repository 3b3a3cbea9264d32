---------------------------- MODULE MCStateAlign ----------------------------
(***************************************************************************)
(* StateAlign of two words: with one state per phone and two phones each,  *)
(* with two and with three states per phone and with skips; and of one     *)
(* word of a phone of five states.                                         *)
(***************************************************************************)
EXTENDS StateAlign

MCTp(n) == [jk \in (0 .. n - 1) \X (0 .. n) |-> IF jk[2] = jk[1] THEN -1 ELSE IF jk[2] = jk[1] + 1 THEN 0 ELSE TMAT_WORST_SCORE]
MCTimes(a, b) == <<[start |-> 0, duration |-> a], [start |-> a, duration |-> b]>>
MCCase(n, word, words, us, frames) ==
  [n |-> n, tp |-> MCTp(n), word |-> word, words |-> words, utts |-> us, frames |-> frames,
   senone |-> [s \in 0 .. n * Cardinality(DOMAIN word) - 1 |-> IF s % 3 = 1 THEN "b" ELSE "a"]]
MCTwo == [p \in 0 .. 1 |-> p + 1]
MCOne == [p \in {0} |-> 1]
MCFour == [p \in 0 .. 3 |-> p \div 2 + 1]
MCThree == [p \in 0 .. 2 |-> IF p = 0 THEN 1 ELSE 2]
MCSkips(c) == [c EXCEPT !.tp = [jk \in DOMAIN c.tp |-> IF jk[2] = jk[1] + 2 THEN -1 ELSE c.tp[jk]]]
MCCases == {MCCase(1, MCThree, MCTimes(0, 0), 2, 4), MCCase(1, MCFour, MCTimes(2, 3), 1, 8),
            MCCase(3, MCTwo, MCTimes(0, 0), 1, 7), MCCase(3, MCTwo, MCTimes(3, 4), 1, 9),
            MCSkips(MCCase(3, MCTwo, MCTimes(0, 0), 1, 7)),
            MCCase(2, MCThree, MCTimes(2, 5), 1, 8),
            MCSkips(MCCase(5, MCOne, <<[start |-> 0, duration |-> 0]>>, 1, 7))}
MCSounds == {[a |-> -1, b |-> -1], [a |-> -3, b |-> -1], [a |-> 0, b |-> -3]}
MCWorst == -30
MCTmatWorst == -20
=============================================================================
