------------------------------ MODULE FsgModel ------------------------------
(***************************************************************************)
(* A grammar as the finite-state search takes it (src/lm/fsg_model.c, and   *)
(* what fsg_search_init adds): word transitions, the null transitions of    *)
(* which the closure is taken when a grammar is read, silences in all       *)
(* states and transitions for other pronunciations.  A transition is a      *)
(* record, that of no word a null transition; scores are logarithms.        *)
(* A grammar as it is written has start, final, trans and nulls, the        *)
(* sequences of its transitions, and whether fillers and alternates are to  *)
(* be added.                                                                *)
(***************************************************************************)
EXTENDS Integers, Sequences, FiniteSetsExt, SequencesExt, Functions

CONSTANTS NStates,
          SilWord,   \* <sil>
          Fillers,   \* the other filler words, as the dictionary has them in order
          Alts       \* the alternates of each word in order

NoWord == ""
States == 0 .. NStates - 1
Trans(from, to, prob, wid) == [from |-> from, to |-> to, prob |-> prob, wid |-> wid]

\* Mutant of TransAdded: a transition that is there already comes once more.
TransAddedTwice(ts, l) == <<l>> \o ts

\* fsg_model_trans_add: of a word between two states once, with the better score.
TransAdded(ts, l) ==
  LET same == {i \in DOMAIN ts : ts[i].from = l.from /\ ts[i].to = l.to /\ ts[i].wid = l.wid}
  IN IF same = {} THEN <<l>> \o ts
     ELSE [ts EXCEPT ![Min(same)].prob = IF @ < l.prob THEN l.prob ELSE @]

\* fsg_model_null_trans_add, of scores ns by pairs of states.
NullAdded(ns, from, to, prob) ==
  IF from = to \/ (<<from, to>> \in DOMAIN ns /\ ns[from, to] >= prob) THEN ns
  ELSE [p \in DOMAIN ns \cup {<<from, to>>} |-> IF p = <<from, to>> THEN prob ELSE ns[p]]

\* fsg_model_null_trans_closure: one after another, and again until nothing changes.
ClosurePass(ns) ==
  FoldSet(LAMBDA t, acc :
            LET on == <<t[1][2], t[2]>>
            IN IF on \in DOMAIN acc THEN NullAdded(acc, t[1][1], t[2], acc[t[1]] + acc[on]) ELSE acc,
          ns, (DOMAIN ns) \X States)

\* Mutant of NullClosure: one pass.
NullClosureOnce(ns) == ClosurePass(ns)

RECURSIVE NullClosure(_)
NullClosure(ns) == IF ClosurePass(ns) = ns THEN ns ELSE NullClosure(ClosurePass(ns))

\* fsg_model_add_silence, for all states.
WithSilence(ts, word, prob) ==
  FoldLeft(LAMBDA acc, i : TransAdded(acc, Trans(i - 1, i - 1, prob, word)), ts, [i \in 1 .. NStates |-> i])

\* fsg_model_add_alt.
WithAlt(ts, word, alt) ==
  LET base == SelectSeq(ts, LAMBDA l : l.wid = word)
  IN [i \in DOMAIN base |-> [base[i] EXCEPT !.wid = alt]] \o ts

\* fsg_model_read, fsg_search_add_silences and fsg_search_add_altpron.
Read(g) ==
  LET closed == NullClosure(FoldLeft(LAMBDA ns, l : NullAdded(ns, l.from, l.to, l.prob), <<>>, g.nulls))
      words == FoldLeft(TransAdded, <<>>, g.trans)
      silences == IF ~g.fillers THEN words
                  ELSE FoldLeft(LAMBDA ts, w : WithSilence(ts, w, g.fillprob),
                                WithSilence(words, SilWord, g.silprob), <<SilWord>> \o Fillers)
      vocab == SetToSeq({l.wid : l \in Range(silences)})
      pairs(w) == [i \in DOMAIN Alts[w] |-> <<w, Alts[w][i]>>]
      alternates == IF ~g.alts THEN silences
                    ELSE FoldLeft(LAMBDA ts, p : WithAlt(ts, p[1], p[2]), silences,
                                  FlattenSeq([i \in DOMAIN vocab |-> pairs(vocab[i])]))
      pairsInOrder == SelectSeq([i \in 1 .. NStates^2 |-> <<(i - 1) \div NStates, (i - 1) % NStates>>],
                                LAMBDA p : p \in DOMAIN closed)
  IN [start |-> g.start, final |-> g.final, words |-> alternates,
      nulls |-> [i \in DOMAIN pairsInOrder |->
                   Trans(pairsInOrder[i][1], pairsInOrder[i][2], closed[pairsInOrder[i]], NoWord)],
      silwords |-> IF g.fillers THEN {SilWord} \cup Range(Fillers) ELSE {}]

\* fsg_model_is_filler.
IsFiller(fsg, w) == w \in fsg.silwords
=============================================================================
