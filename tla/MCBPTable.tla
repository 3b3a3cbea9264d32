----------------------------- MODULE MCBPTable -----------------------------
(* The backpointer table for TLC: <s> and </s>, a word of two right contexts *)
(* and a filler. *)
EXTENDS BPTable

MCRcSize == [w \in Words |-> IF w = "word" THEN 2 ELSE 0]
============================================================================
