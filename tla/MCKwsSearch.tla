---------------------------- MODULE MCKwsSearch ----------------------------
(* Phrases of one to three phones of two, one of them in another; one to    *)
(* three states an HMM; wide and narrow beams.                              *)
EXTENDS KwsSearch

MCWorst == -1000
MCTmatWorst == -50
MCTp(n) == [t \in (0 .. n - 1) \X (0 .. n) |->
              IF t[1] = t[2] THEN -1 ELSE IF t[2] = t[1] + 1 THEN 0 ELSE MCTmatWorst]
MCPhrase(threshold, ssids) == [threshold |-> threshold, ssids |-> ssids]
MCCase(n, beam, delay, phrases) ==
  [n |-> n, tp |-> MCTp(n), beam |-> beam, plp |-> -1, delay |-> delay, keyphrases |-> phrases,
   wide |-> beam = -100]
MCTwo == <<MCPhrase(-2, <<"a", "b">>), MCPhrase(-1, <<"a", "b", "a">>)>>
MCOne == <<MCPhrase(-4, <<"a", "b">>)>>
MCCases == {MCCase(1, -100, 1, MCTwo), MCCase(1, -2, 2, MCTwo), MCCase(2, -100, 2, MCOne),
            MCCase(1, -100, 1, MCOne), MCCase(3, -4, 1, <<MCPhrase(-2, <<"a">>)>>)}
MCSounds == {[A |-> 0, B |-> -3, a |-> 0, b |-> -3], [A |-> -3, B |-> 0, a |-> -3, b |-> 0],
             [A |-> -1, B |-> -1, a |-> -2, b |-> -2]}
ASSUME \A c \in MCCases : ~Skips(c) /\ Modest(c, 4)
=============================================================================
