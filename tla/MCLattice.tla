----------------------------- MODULE MCLattice -----------------------------
(***************************************************************************)
(* Lattice of five nodes: the start, a word, a filler or a word, a word    *)
(* and the end.  Scores 0 to -2 have weights 3 to 1; the language model    *)
(* prefers some pairs and some triples.                                    *)
(***************************************************************************)
EXTENDS Lattice

MCWord == <<"<s>", "a", "sil", "b", "</s>">>
MCEarlies == {{1}, {1, 2, 3}}
MCWords == {"<s>", "a", "sil", "b", "</s>"}
MCScores == [l \in AllLinks |-> IF l \in {<<1, 3>>, <<2, 4>>, <<4, 5>>} THEN {0, -2} ELSE
                                 IF l = <<1, 2>> THEN {0} ELSE {-1}]
MCWeight == [s \in -2 .. 0 |-> s + 3]
MCBigram == [w \in MCWords \X MCWords |-> IF w \in {<<"b", "a">>, <<"</s>", "<s>">>} THEN -2 ELSE -1]
MCTrigram == [w \in MCWords \X MCWords \X MCWords |->
                IF w[3] = "a" THEN -3 ELSE IF w[2] = "b" THEN -1 ELSE 0]
MCProb == [w \in MCWords \X MCWords |-> IF w[2] = "a" THEN 2 ELSE 1]
=============================================================================
