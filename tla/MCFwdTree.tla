----------------------------- MODULE MCFwdTree -----------------------------
(* Words of one to four phones that share roots and inner phones, two of    *)
(* them homophones; one and two states an HMM; wide, narrow and histogram   *)
(* beams.                                                                   *)
EXTENDS FwdTree

MCDict == <<"one", "ab", "ab2", "abb", "aba", "abab", "aa", "<s>", "</s>", "sil">>
MCWords == {"one", "ab", "ab2", "abb", "aba", "abab", "aa", "<s>", "</s>", "sil"}
MCPron ==
  [w \in MCWords |-> CASE w = "one" -> <<"A">>
                       [] w \in {"ab", "ab2"} -> <<"A", "B">>
                       [] w = "abb" -> <<"A", "B", "B">>
                       [] w = "aa" -> <<"A", "A">>
                       [] w = "aba" -> <<"A", "B", "A">>
                       [] w = "abab" -> <<"A", "B", "A", "B">>
                       [] OTHER -> <<"S">>]
MCMulti == {"ab", "ab2", "abb", "aba", "abab", "aa"}
MCRcSize == [w \in MCWords |-> IF w \in MCMulti THEN 2 ELSE 0]
MCCiMap == [w \in MCMulti |-> [p \in {"S", "A", "B"} |-> IF p = "S" THEN 1 ELSE 0]]
MCSsid == [t \in {<<"A", "B", "A">>, <<"A", "B", "B">>, <<"B", "A", "B">>} |->
             IF t[3] = "A" THEN "b" ELSE IF t[2] = "A" THEN "a" ELSE "bb"]
MCLastSsid ==
  [w \in MCMulti |-> [rc \in 0 .. 1 |-> IF w \in {"aba", "aa"} THEN IF rc = 0 THEN "a0" ELSE "a1"
                                         ELSE IF rc = 0 THEN "b0" ELSE "b1"]]

\* Frames of silence, of A and of B.
MCHeard(s, a, b) ==
  [ssid \in {"S", "A", "B", "a", "b", "bb", "a0", "a1", "b0", "b1"} |->
     CASE ssid = "S" -> s [] ssid = "A" -> a [] ssid = "B" -> b [] ssid = "a" -> a - 1 [] ssid \in {"b", "bb"} -> b - 1
       [] ssid = "a0" -> a - 1 [] ssid = "a1" -> a [] ssid = "b0" -> b [] ssid = "b1" -> b - 2]
MCSounds == {MCHeard(0, -5, -4), MCHeard(-3, 0, -4), MCHeard(-4, -3, 0)}

MCTmatWorst == -50
MCTp(n) == [t \in (0 .. n - 1) \X (0 .. n) |->
              IF t[1] = t[2] THEN -1 ELSE IF t[2] = t[1] + 1 THEN -2 ELSE IF t = <<0, 2>> THEN -4 ELSE MCTmatWorst]
MCLm == [vw \in MCWords \X MCWords |->
           (IF vw[1] = "</s>" THEN -40 ELSE 0)
           + CASE vw[2] = "one" -> -4 [] vw[2] = "ab" -> -3 [] vw[2] = "ab2" -> -5 [] vw[2] = "aba" -> -2
               [] vw[2] \in {"abab", "abb"} -> -1 [] OTHER -> -6]
MCCase(n, beam, narrow, maxhmmpf, wide, window, weight, plbeam) ==
  [n |-> n, tp |-> MCTp(n), pip |-> -1, nwpen |-> -2, silpen |-> -4, fillpen |-> -4, lm |-> MCLm, origin |-> 93,
   beam |-> beam, pbeam |-> beam, lpbeam |-> narrow, lponlybeam |-> beam, wbeam |-> narrow,
   maxhmmpf |-> maxhmmpf, wide |-> wide,
   window |-> window, weight |-> weight, plbeam |-> plbeam, plpbeam |-> plbeam, plpip |-> -1]
MCNoLoop(n, beam, narrow, maxhmmpf, wide) == MCCase(n, beam, narrow, maxhmmpf, wide, 0, <<1, 1>>, -1)
MCCases ==
  {MCNoLoop(1, -45, -45, -1, TRUE), MCNoLoop(2, -45, -45, -1, TRUE), MCNoLoop(1, -9, -6, -1, FALSE),
   MCNoLoop(2, -9, -7, -1, FALSE), MCNoLoop(1, -12, -8, 6, FALSE), MCNoLoop(1, -12, -8, 1, FALSE),
   MCCase(1, -45, -45, -1, TRUE, 2, <<1, 2>>, -45), MCCase(2, -45, -45, -1, TRUE, 1, <<3, 2>>, -45),
   MCCase(1, -9, -7, -1, FALSE, 2, <<3, 1>>, -5)}
MCCiPhones == <<"S", "A", "B">>
MCScores == 1 .. 100
MCMaxWpf == -1
=============================================================================
