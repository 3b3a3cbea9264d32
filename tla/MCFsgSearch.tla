---------------------------- MODULE MCFsgSearch ----------------------------
(***************************************************************************)
(* Grammars of four states and words of one to three phones for TLC.       *)
(***************************************************************************)
EXTENDS FsgSearch

MCFillers == <<"noise">>
MCPron ==
  [w \in {"<sil>", "noise", "a", "ab", "ab2", "ba", "bab", "bb", "aa"} |->
     CASE w \in {"<sil>", "noise"} -> <<0>> [] w = "a" -> <<1>> [] w = "ab" -> <<1, 2>> [] w = "ab2" -> <<2, 2>>
       [] w = "ba" -> <<2, 1>>
       [] w = "bab" -> <<1, 2, 1>> [] w = "bb" -> <<2, 2>> [] w = "aa" -> <<1, 1>>]
MCAlts == [w \in DOMAIN MCPron |-> IF w = "ab" THEN <<"ab2">> ELSE <<>>]
MCCiSsid == [c \in 0 .. 2 |-> <<"S", "A", "B">>[c + 1]]
\* The senone sequence depends on the phones before A, but not if B comes after it, and on
\* that after B.
MCSsid ==
  [t \in (0 .. 2) \X (0 .. 2) \X (0 .. 2) |->
     CASE t[2] = 0 -> "S" [] t[2] = 1 -> IF t[1] = 2 /\ t[3] # 2 THEN "A2" ELSE "A" [] t[2] = 2 -> IF t[3] = 1 THEN "B1" ELSE "B"]
MCHeard(s, a, b) ==
  [ssid \in {"S", "A", "A2", "B", "B1"} |->
     CASE ssid = "S" -> s [] ssid = "A" -> a [] ssid = "A2" -> a - 1 [] ssid = "B" -> b [] ssid = "B1" -> b - 2]
MCSounds == {MCHeard(0, -4, -5), MCHeard(-3, 0, -4), MCHeard(-4, -3, 0)}

MCWorst == -100000
MCTmatWorst == -50
MCTp(n) == [t \in (0 .. n - 1) \X (0 .. n) |->
              IF t[1] = t[2] THEN -1 ELSE IF t[2] = t[1] + 1 THEN -2 ELSE IF t = <<0, 2>> THEN -4 ELSE MCTmatWorst]

T(from, to, prob, wid) == Trans(from, to, prob, wid)
MCGrammar(trans, nulls, fillers, alts) ==
  [start |-> 0, final |-> 1, trans |-> trans, nulls |-> nulls, fillers |-> fillers, alts |-> alts,
   silprob |-> -3, fillprob |-> -5]
\* Words over two steps, one of them twice; null transitions make a cycle through all states.
Steps == MCGrammar(<<T(0, 2, -1, "ab"), T(2, 1, -1, "a"), T(2, 1, -2, "a"), T(2, 1, -1, "ba")>>,
                   <<T(0, 3, -1, NoWord), T(3, 2, 0, NoWord), T(2, 1, -2, NoWord), T(1, 0, 0, NoWord)>>, FALSE, TRUE)
\* Words that share phones, and a longer one, behind silences.
Shared == MCGrammar(<<T(0, 1, -1, "ab"), T(0, 1, -2, "bab"), T(0, 2, -1, "aa"), T(2, 1, 0, "bb")>>,
                    <<T(2, 1, 0, NoWord)>>, TRUE, FALSE)
\* Two ways into a state for the same words.
Ways == MCGrammar(<<T(0, 2, -1, "a"), T(0, 1, -1, "aa"), T(0, 2, -1, "ba"), T(1, 2, -1, "bb"), T(2, 2, -2, "bb")>>,
                  <<T(1, 2, -1, NoWord), T(2, 1, -1, NoWord)>>, FALSE, FALSE)

\* A word after one that ends in B: the root for silence is not right for B.
Roots == MCGrammar(<<T(0, 2, -1, "ab"), T(2, 1, -1, "aa")>>, <<>>, FALSE, FALSE)

MCCase(grammar, n, beam, pbeam, wbeam, maxhmmpf, wide) ==
  [grammar |-> grammar, n |-> n, tp |-> MCTp(n), wip |-> -1, pip |-> -1,
   beam |-> beam, pbeam |-> pbeam, wbeam |-> wbeam, maxhmmpf |-> maxhmmpf, wide |-> wide]
MCCases ==
  {MCCase(Steps, 1, -90, -90, -90, -1, TRUE), MCCase(Shared, 1, -90, -90, -90, -1, TRUE),
   MCCase(Ways, 1, -90, -90, -90, -1, TRUE), MCCase(Steps, 2, -90, -90, -90, -1, TRUE),
   MCCase(Steps, 1, -8, -7, -6, -1, FALSE), MCCase(Shared, 1, -9, -8, -7, 3, FALSE),
   MCCase(Ways, 1, -10, -9, -8, 4, FALSE), MCCase(Roots, 1, -90, -90, -90, -1, TRUE)}
============================================================================
