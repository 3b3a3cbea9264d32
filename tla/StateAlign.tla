----------------------------- MODULE StateAlign -----------------------------
(***************************************************************************)
(* Forced alignment (src/state_align_search.c, ps_alignment.c and the HMM  *)
(* evaluation of hmm.c): the phones of a known sequence of words are a     *)
(* chain of HMMs, a Viterbi search goes through the chain frame by frame,  *)
(* and its best path gives every state, phone and word its start and       *)
(* duration.  Words may come with times from an earlier pass, which        *)
(* constrain the search.                                                   *)
(* Phones and states are numbered from 0 along the chain, and a frame of   *)
(* sound is the score it gives to each senone.                             *)
(***************************************************************************)
EXTENDS Hmm, FiniteSets

CONSTANTS Cases,        \* acoustic models with words to align, see CaseOK
          Sounds,       \* what a frame may be, a score for each senone
          Headroom,     \* 0x300000, the distance from WORST_SCORE of a renormalisation
          Tolerated     \* what the client does, of Hazards

\* Uses that the code accepts and does not serve as it should; each is excluded
\* from the client's behaviour unless Tolerated has it.
Hazards == {"again",    \* another utterance through a search already used
            "skips",    \* a best path that skips states
            "half skips", \* three states, a skip to the end but none over the middle
            "no skips", \* five states and an absent transition over one
            "mixed",    \* a word without times, or too short ones, before one with times
            "overrun"}  \* an utterance that goes on after the end of its last word

Never == 1000000        \* INT_MAX as a frame

\* n emitting states per phone, tp the transitions between them and to n, word the word
\* of each phone, senone that of each state, words the times of each word, utts and
\* frames bounds on the utterances and their length.
CaseOK(c) ==
  /\ c.n \in Nat \ {0}
  /\ \A j \in 0 .. c.n - 1 : \A k \in j .. c.n : c.tp[j, k] \in TMAT_WORST_SCORE .. 0
  /\ \A p \in DOMAIN c.word : c.word[p] \in DOMAIN c.words

ASSUME StateAlignAssumption ==
  /\ \A c \in Cases : CaseOK(c)
  /\ WORST_SCORE < TMAT_WORST_SCORE /\ Headroom \in Nat
  /\ \A sound \in Sounds : \A s \in DOMAIN sound : sound[s] <= 0
  /\ Tolerated \subseteq Hazards

VARIABLES
  case,     \* the acoustic model and the words
  al,       \* the alignment: entries of words, phones and states
  hmms,     \* the HMM of each phone
  limits,   \* sf and ef of each phone
  best_score,
  tokens,   \* of each frame, by state: the state before it and the score
  frame,    \* the last frame of the search
  stage,    \* ready, aligning, aligned or failed
  heard,    \* history: the frames of the utterance
  utts      \* history: utterances

search == <<hmms, limits, best_score, tokens, frame>>
vars == <<case, al, search, stage, heard, utts>>

May(hazard) == hazard \in Tolerated
Phones(c) == DOMAIN c.word
States(c) == 0 .. c.n * Cardinality(Phones(c)) - 1
FinalPhone(c) == Cardinality(Phones(c)) - 1

Timed(c, w) == c.words[w].duration >= c.n
Mixed(c) == \E w \in DOMAIN c.words : w > 1 /\ ~Timed(c, w - 1) /\ Timed(c, w)

NoSkips(c) == c.n = 5 /\ \E k \in 2 .. 5 : c.tp[k - 2, k] = TMAT_WORST_SCORE
HalfSkips(c) == c.n = 3 /\ c.tp[1, 3] > TMAT_WORST_SCORE /\ c.tp[0, 2] = TMAT_WORST_SCORE

---------------------------------------------------------------------------
(* The search. *)

\* ps_alignment_populate: phones and states have the times of their word.
Populated(c) ==
  LET entry(w) == [start |-> c.words[w].start, duration |-> c.words[w].duration, score |-> 0]
  IN [word |-> [w \in DOMAIN c.words |-> entry(w)],
      phone |-> [p \in Phones(c) |-> entry(c.word[p])],
      state |-> [s \in States(c) |-> entry(c.word[s \div c.n])]]

\* state_align_search_init: from where on and until where a phone may last.
Limits(c, phones) ==
  [p \in Phones(c) |->
     LET possible == phones[p].duration >= c.n
     IN [sf |-> IF possible THEN phones[p].start ELSE 0,
         ef |-> IF possible THEN phones[p].start + phones[p].duration ELSE Never]]

\* evaluate_hmms: those active in frame f.
Heard(c, hs, f, sound) ==
  LET sen(p) == [j \in Inner(c) |-> sound[c.senone[c.n * p + j]]]
      active == {p \in Phones(c) : hs[p].frame >= f}
      after == [p \in Phones(c) |-> IF p \in active THEN VitEval(c, hs[p], sen(p)) ELSE hs[p]]
  IN [hmms |-> after,
      best |-> Max({after[p].best : p \in active} \cup {WORST_SCORE})]

\* prune_hmms: an active phone goes on into the next frame, its limit permitting.
Pruned(lim, hs, f) ==
  [p \in DOMAIN hs |-> IF hs[p].frame >= f /\ f + 1 <= lim[p].ef
                       THEN [hs[p] EXCEPT !.frame = f + 1] ELSE hs[p]]

\* phone_transition: the phone after p may begin in frame f + 1.
MayEnter(lim, hs, f, p) == hs[p].frame = f + 1 /\ f + 1 >= lim[p + 1].sf

\* Mutant of Entered: the score of the phone entered is not looked at.
EnteredAnyway(lim, hs, f, p) ==
  IF MayEnter(lim, hs, f, p)
  THEN [hs EXCEPT ![p + 1] = Entering(@, hs[p].out, hs[p].outHist, f + 1)] ELSE hs

Entered(lim, hs, f, p) ==
  IF MayEnter(lim, hs, f, p) /\ (hs[p + 1].frame < f \/ hs[p].out > hs[p + 1].score[0])
  THEN [hs EXCEPT ![p + 1] = Entering(@, hs[p].out, hs[p].outHist, f + 1)] ELSE hs

\* Phone by phone: a phone entered is active when the one behind it is looked at.
Transitions(c, lim, hs, f) ==
  FoldLeft(LAMBDA h, i : Entered(lim, h, f, i - 1), hs, [i \in 1 .. FinalPhone(c) |-> i])

\* record_transitions: the tokens of frame f, and the states as predecessors of the next.
TokensOf(c, hs, f) ==
  [s \in States(c) |-> LET h == hs[s \div c.n] IN
     IF h.frame < f THEN [id |-> None, score |-> None]
     ELSE [id |-> h.hist[s % c.n], score |-> h.score[s % c.n]]]
Recorded(c, hs, f) ==
  [p \in Phones(c) |-> IF hs[p].frame < f THEN hs[p]
                       ELSE [hs[p] EXCEPT !.hist = [j \in Inner(c) |-> c.n * p + j]]]

\* state_align_search_finish: back from the last frame; a state gets its times and score
\* when the one before it is met.
Traced(w, f) ==
  LET cur == tokens[f + 1][w.cur]
  IN IF ~w.ok THEN w
     ELSE IF cur.id = None THEN [w EXCEPT !.ok = FALSE]
     ELSE IF cur.id = w.last.id THEN [w EXCEPT !.cur = cur.id]
     ELSE [w EXCEPT !.cur = cur.id, !.last = cur, !.end = f + 1, !.met = @ \cup {w.last.id},
                    !.state[w.last.id] = [start |-> f + 1, duration |-> w.end - (f + 1),
                                          score |-> w.last.score - cur.score]]
Backtrace ==
  LET final == hmms[FinalPhone(case)]
      from == [ok |-> final.outHist # None, cur |-> final.outHist, end |-> frame + 1,
               last |-> [id |-> final.outHist, score |-> final.out], state |-> al.state,
               met |-> {0}]
  IN FoldLeft(LAMBDA w, i : Traced(w, frame - i), from, [i \in 1 .. frame |-> i])

\* Mutant of Summed: on top of the duration there was.
SummedUp(before, children, n) ==
  [start |-> children[n].start,
   duration |-> before.duration + FoldSet(LAMBDA k, sum : sum + children[k].duration, 0, DOMAIN children),
   score |-> FoldSet(LAMBDA k, sum : sum + children[k].score, 0, DOMAIN children)]

\* ps_alignment_propagate: an entry from those of its children, of which n is the first.
Summed(before, children, n) ==
  [start |-> children[n].start,
   duration |-> FoldSet(LAMBDA k, sum : sum + children[k].duration, 0, DOMAIN children),
   score |-> FoldSet(LAMBDA k, sum : sum + children[k].score, 0, DOMAIN children)]
Propagated(c, a) ==
  LET of(entries, ks) == [k \in ks |-> entries[k]]
      phones == [p \in Phones(c) |->
                   Summed(a.phone[p], of(a.state, c.n * p .. c.n * p + c.n - 1), c.n * p)]
      phonesOf(w) == {p \in Phones(c) : c.word[p] = w}
  IN [a EXCEPT !.phone = phones,
               !.word = [w \in DOMAIN a.word |->
                           Summed(a.word[w], of(phones, phonesOf(w)), Min(phonesOf(w)))]]

---------------------------------------------------------------------------

Init ==
  /\ case \in Cases
  /\ Mixed(case) => May("mixed")
  /\ HalfSkips(case) => May("half skips")
  /\ NoSkips(case) => May("no skips")
  /\ al = Populated(case)
  /\ limits = Limits(case, al.phone)
  /\ hmms = [p \in Phones(case) |-> Cleared(case)]
  /\ best_score = 0 /\ tokens = <<>> /\ frame = 0
  /\ stage = "ready" /\ heard = <<>> /\ utts = 0

\* ps_start_utt with a search that ps_set_alignment has just made, from the alignment as
\* it is, or with the one there is: the search then only enters the first phone again.
StartUtt(new) ==
  LET hs == IF new THEN [p \in Phones(case) |-> Cleared(case)] ELSE hmms
  IN /\ stage # "aligning" /\ utts < case.utts
     /\ ~new => May("again")
     /\ hmms' = [hs EXCEPT ![0] = Entering(@, 0, 0, 0)]
     /\ limits' = IF new THEN Limits(case, al.phone) ELSE limits
     /\ best_score' = IF new THEN 0 ELSE best_score
     /\ tokens' = (IF new THEN <<>> ELSE tokens) /\ frame' = (IF new THEN 0 ELSE frame)
     /\ stage' = "aligning" /\ heard' = <<>> /\ utts' = utts + 1
     /\ UNCHANGED <<case, al>>

\* state_align_search_step.
Step(sound) ==
  LET f == Len(heard)
      fresh == IF best_score - Headroom < WORST_SCORE
               THEN [p \in Phones(case) |-> Normalized(hmms[p], best_score)] ELSE hmms
      h == Heard(case, fresh, f, sound)
      after == Transitions(case, limits, Pruned(limits, h.hmms, f), f)
  IN /\ stage = "aligning" /\ f < case.frames
     /\ f >= limits[FinalPhone(case)].ef => May("overrun")
     /\ hmms' = Recorded(case, after, f)
     /\ best_score' = h.best
     /\ tokens' = SubSeq(tokens, 1, f) \o <<TokensOf(case, after, f)>> \o SubSeq(tokens, f + 2, Len(tokens))
     /\ frame' = f
     /\ heard' = Append(heard, sound)
     /\ UNCHANGED <<case, al, limits, stage, utts>>

\* state_align_search_finish.
Finish ==
  LET w == Backtrace
      state == [w.state EXCEPT ![0] = [@ EXCEPT !.start = 0, !.duration = w.end]]
  IN /\ stage = "aligning"
     /\ w.ok /\ w.met # States(case) => May("skips")
     /\ IF w.ok
        THEN /\ stage' = "aligned"
             /\ al' = Propagated(case, [al EXCEPT !.state = state])
        ELSE stage' = "failed" /\ al' = [al EXCEPT !.state = w.state]
     /\ UNCHANGED <<case, search, heard, utts>>

Next ==
  \/ \E new \in BOOLEAN : StartUtt(new)
  \/ \E sound \in Sounds : Step(sound)
  \/ Finish

Spec == Init /\ [][Next]_vars

---------------------------------------------------------------------------
(* What alignment promises.  The reference is the set of all ways through   *)
(* the chain in the frames heard.                                           *)

PhoneOf(s) == s \div case.n
InnerOf(s) == s % case.n
FirstState(s) == InnerOf(s) = 0

\* State t may follow state s in frame f, which is within the times of its phone.
Follows(s, t, f) ==
  LET p == PhoneOf(t)
  IN /\ f < limits[p].ef
     /\ \/ PhoneOf(s) = p /\ t >= s /\ Present(case.tp[InnerOf(s), InnerOf(t)])
        \/ /\ PhoneOf(s) = p - 1 /\ FirstState(t) /\ Present(case.tp[InnerOf(s), case.n])
           /\ limits[p].sf <= f

\* The score of going from s to t, or out of the chain.
Going(s, t) ==
  case.tp[InnerOf(s), IF t = None \/ PhoneOf(t) # PhoneOf(s) THEN case.n ELSE InnerOf(t)]
Ends(s) == PhoneOf(s) = FinalPhone(case) /\ Present(case.tp[InnerOf(s), case.n])

\* Every way through the chain, with its score.
Ways ==
  LET senscr(s, i) == heard[i][case.senone[s]]
      longer(ways, i) ==
        {[path |-> Append(w.path, t),
          score |-> w.score + senscr(Last(w.path), i - 1) + Going(Last(w.path), t)] :
          <<w, t>> \in {wt \in ways \X States(case) : Follows(Last(wt[1].path), wt[2], i - 1)}}
      all == FoldLeft(LAMBDA ways, i : longer(ways, i), {[path |-> <<0>>, score |-> 0]},
                      [i \in 1 .. Len(heard) - 1 |-> i + 1])
  IN IF heard = <<>> THEN {}
     ELSE {[w EXCEPT !.score = @ + senscr(Last(w.path), Len(heard)) + Going(Last(w.path), None)] :
             w \in {v \in all : Ends(Last(v.path))}}

\* The state of each frame in the alignment.
Aligned(i) == {s \in States(case) : al.state[s].start < i /\ i <= al.state[s].start + al.state[s].duration}

\* Entries n to m one after the other, each of a frame at least, from frame start to end.
Tile(entries, n, m, start, end) ==
  /\ \A k \in n .. m : entries[k].duration > 0
  /\ entries[n].start = start
  /\ \A k \in n .. m - 1 : entries[k].start + entries[k].duration = entries[k + 1].start
  /\ entries[m].start + entries[m].duration = end

\* "Segmentations should all be contiguous" (test_word_align.c): words, phones and states
\* each cover the utterance without gap or overlap, and each is covered by its own parts.
AlignmentTiles ==
  stage = "aligned" =>
    /\ Tile(al.word, 1, Len(case.words), 0, Len(heard))
    /\ \A w \in DOMAIN al.word :
         LET ps == {p \in Phones(case) : case.word[p] = w}
         IN Tile(al.phone, Min(ps), Max(ps), al.word[w].start, al.word[w].start + al.word[w].duration)
    /\ \A p \in Phones(case) :
         Tile(al.state, case.n * p, case.n * p + case.n - 1,
              al.phone[p].start, al.phone[p].start + al.phone[p].duration)

\* The alignment is a way through the chain within the times of the phones ("You can set
\* starts and durations for words or phones to constrain the alignment", ps_set_alignment),
\* and none has a better score, through renormalisations; it fails only if there is none.
AlignmentIsBest ==
  /\ stage = "aligned" =>
       \E w \in Ways : /\ \A i \in DOMAIN heard : Aligned(i) = {w.path[i]}
                       /\ \A v \in Ways : v.score <= w.score
  /\ stage = "failed" => Ways = {}

\* "Acoustic score for this segment" (ps_alignment_iter_seg): where no renormalisation
\* comes between, the scores of the words add up to that of the best way.
ScoresAddUp ==
  stage = "aligned" =>
    LET best == Max({w.score : w \in Ways})
    IN best - Headroom >= WORST_SCORE =>
         FoldSet(LAMBDA w, sum : sum + al.word[w].score, 0, DOMAIN al.word) = best
=============================================================================
