------------------------------ MODULE FwdTree ------------------------------
(***************************************************************************)
(* The first pass of the n-gram search (src/ngram_search_fwdtree.c): words *)
(* share a tree of HMMs up to their last phone, a root for each first two  *)
(* phones; last phones have an HMM for each right context, allocated when  *)
(* they are entered and freed when they are pruned; words of one phone     *)
(* have one for good.  Word exits go to the table of BPTable, and what     *)
(* that module leaves free is decided here.                                *)
(* A node of the tree is the sequence of its first two phones and of the   *)
(* senone sequences behind the first phone.  Scores are taken above        *)
(* WORST_SCORE, so that the score 0 of the code is case.origin here.  The  *)
(* search runs case.window frames behind the phone loop.                   *)
(***************************************************************************)
EXTENDS BPTable, Sequences, SequencesExt, Functions

CONSTANTS TMAT_WORST_SCORE,
          Dict,       \* the words, as the dictionary has them in order
          Pron,       \* the phones of each
          SilWord, Sil,   \* the word silence and its phone
          CiMap,      \* rssid->cimap of each word: its right context for a phone
          Ssid,       \* dict2pid_internal: the senone sequence of a phone between two
          LastSsid,   \* rssid->ssid of each word: that of its last phone in a right context
          Cases,      \* topologies, beams and language models, see CaseOK
          Sounds,     \* what a frame may be, the score of each senone sequence
          CiPhones,   \* the phones in order
          NBins,      \* 256, the bins of the histogram
          MaxUtts,    \* bound: utterances
          MaxFirst    \* bound: frames of those but the last

INSTANCE PhoneLoop

Phones == UNION {Range(Pron[w]) : w \in Words}
OnePhone(w) == Len(Pron[w]) = 1
Ordered(ws) == SelectSeq(Dict, LAMBDA w : w \in ws)
InLM == Words \ Fillers

\* single_phone_wid: the words of one phone, first those of the language model.
Singles == Ordered({w \in InLM : OnePhone(w)}) \o Ordered(Fillers)

\* A topology with penalties and beams, the n-gram score lm of a word after a word (which
\* has the word penalty in it), and whether the beams are too wide to prune anything.
CaseOK(c) ==
  /\ c.n \in Nat \ {0}
  /\ \A beam \in {c.beam, c.pbeam, c.lpbeam, c.lponlybeam, c.wbeam} : beam < 0
  /\ c.origin > -2 * c.beam
  /\ c.maxhmmpf # -1 => c.maxhmmpf \in Nat /\ -c.beam >= NBins
  /\ c.window \in Nat /\ c.plbeam < 0 /\ c.plpbeam < 0

ASSUME FwdTreeAssumption ==
  /\ Range(CiPhones) = Phones
  /\ Range(Dict) = Words /\ Len(Dict) = Cardinality(Words)
  /\ \A w \in Words : IF OnePhone(w) THEN RcSize[w] = 0
                      ELSE CiMap[w] \in [Phones -> 0 .. RcSize[w] - 1]
  /\ SilWord \in Fillers /\ \A w \in Fillers \cup {StartWord, FinishWord} : Pron[w] = <<Sil>>
  /\ \A c \in Cases : CaseOK(c)
  /\ MaxWpf = -1 /\ NBins \in Nat \ {0}

VARIABLES
  case,
  tree,          \* root_chan and the channels under it: the HMM of each node
  single,        \* rhmm_1ph: the HMM of each word of one phone
  word_chan,     \* the HMMs of the last phone of other words, by right context
  active_chan_list, active_word_list,  \* for even and for odd frames
  word_active,
  best_score, last_phone_best_score, dynamic_beam,
  n_eval,        \* n_root_chan_eval + n_nonroot_chan_eval of st
  last_ltrans,   \* of each word: the start frame, score and exit of its last transition
  step,          \* what of the frame comes next, one of Steps
  lastphn_cand,  \* the candidates for a last phone
  exits,         \* the calls of save_bp still to be made in the frame
  pls,           \* the phone loop, see PhoneLoop
  heard,         \* the frames it has searched and this search has not
  over,          \* ps_end_utt: there are no more
  taken,         \* history: what was taken off the scores to renormalise them
  flat,          \* history: the search without a tree, see FlatMoved
  reach,         \* history: the phone loop without a beam, see Reached
  utts           \* history: utterances

chans == <<tree, single, word_chan>>
lists == <<active_chan_list, active_word_list, word_active>>
scores == <<best_score, last_phone_best_score, dynamic_beam, n_eval, last_ltrans>>
frameVars == <<step, lastphn_cand, exits>>
loopVars == <<pls, heard, over, reach>>
history == <<taken, flat, utts>>
private == <<case, chans, lists, scores, frameVars, loopVars, history>>
treeVars == <<vars, private>>

Steps == {"mark", "evaluate", "tree", "last phones", "words", "exits"}

Now == frame % 2
Other == (frame + 1) % 2
nf == frame + 1

Up(a, b) == [i \in 1 .. b - a + 1 |-> a + i - 1]
Exits(f) == Up(idx[f], (IF f = frame THEN bpidx ELSE idx[f + 1]) - 1)

---------------------------------------------------------------------------
(* create_search_channels. *)

\* The nodes of word w: its root, and those of its phones but the first and the last.
NodesOf(w) ==
  LET p == Pron[w]
      ssids == [i \in 1 .. Len(p) - 2 |-> Ssid[<<p[i], p[i + 1], p[i + 2]>>]]
  IN [i \in 1 .. Len(p) - 1 |-> <<p[1], p[2]>> \o SubSeq(ssids, 1, i - 1)]
Nodes == UNION {Range(NodesOf(w)) : w \in {v \in InLM : ~OnePhone(v)}}

\* In the order of their first words: next and alt, and penult_phn_wid and homophone_set.
FirstWord(nd) == Min({i \in DOMAIN Dict : ~OnePhone(Dict[i]) /\ nd \in Range(NodesOf(Dict[i]))})
InOrder(nds) == SetToSortSeq(nds, LAMBDA a, b : FirstWord(a) < FirstWord(b))
Roots == InOrder({nd \in Nodes : Len(nd) = 2})
Children(nd) == InOrder({x \in Nodes : Len(x) = Len(nd) + 1 /\ IsPrefix(nd, x)})
Penults(nd) == Ordered({w \in InLM : ~OnePhone(w) /\ Last(NodesOf(w)) = nd})

\* Its phone.
PhoneOf(nd) == Pron[Dict[FirstWord(nd)]][Len(nd) - 1]

\* The senone sequence of a node: a root has that of its phone.
SsidOf(nd) == IF Len(nd) = 2 THEN nd[1] ELSE Last(nd)

---------------------------------------------------------------------------
(* The evaluation of a frame. *)

InTree(nd) == IF Len(nd) = 2 THEN tree[nd].frame = frame ELSE nd \in Range(active_chan_list[Now])
Running(h) == h.frame >= frame

\* renormalize_scores, if the best score has come near the worst.
Norm == IF best_score + 2 * case.beam < WORST_SCORE THEN best_score - case.origin ELSE 0
Eval(h, sound, ssid) == VitEval(case, Normalized(h, Norm), [j \in Inner(case) |-> sound[ssid]])

\* evaluate_channels.
TreeEvaluated(sound) ==
  [nd \in Nodes |-> IF InTree(nd) THEN Eval(tree[nd], sound, SsidOf(nd)) ELSE tree[nd]]
SingleEvaluated(sound) ==
  [w \in DOMAIN single |-> IF Running(single[w]) THEN Eval(single[w], sound, Pron[w][1]) ELSE single[w]]
WordsEvaluated(sound) ==
  [w \in DOMAIN word_chan |->
     IF w \in Range(active_word_list[Now])
     THEN [rc \in DOMAIN word_chan[w] |-> Eval(word_chan[w][rc], sound, LastSsid[w][rc])]
     ELSE word_chan[w]]

\* prune_channels: the beam in which no more than maxhmmpf HMMs of the tree are.
InBins(i) ==
  LET width == (-case.beam) \div NBins
      bin(h) == Min({(best_score - h.best) \div width, NBins - 1})
  IN Cardinality({nd \in Nodes : (Len(nd) = 2 \/ InTree(nd)) /\ bin(tree[nd]) <= i})
Beam ==
  IF case.maxhmmpf = -1 \/ n_eval <= case.maxhmmpf THEN case.beam
  ELSE LET above == {i \in 0 .. NBins - 1 : InBins(i) > case.maxhmmpf}
       IN -(Min(above \cup {NBins}) * ((-case.beam) \div NBins))

---------------------------------------------------------------------------
(* prune_root_chan, prune_nonroot_chan.  p has the tree, the next active    *)
(* list and the candidates for a last phone.                                *)

\* phone_loop_search_score: what a score is to have more than the beam for a phone.
Lookahead(phone) == IF case.window = 0 THEN 0 ELSE pls.penalties[phone]

EnteringChild(p, nd, score, hist) ==
  IF p.tree[nd].frame < frame \/ score > p.tree[nd].score[0]
  THEN [p EXCEPT !.tree[nd] = Entering(@, score, hist, nf),
                 !.next = IF p.tree[nd].frame # nf THEN Append(@, nd) ELSE @]
  ELSE p

\* The transitions out of a node: to its children, and to the last phones of its words.
Leaving(p, nd) ==
  LET h == p.tree[nd]
      score == h.out + case.pip
      children == SelectSeq(Children(nd), LAMBDA x : score + Lookahead(PhoneOf(x)) > best_score + case.pbeam)
      words == SelectSeq(Penults(nd), LAMBDA w : score + Lookahead(Last(Pron[w])) > best_score + case.lpbeam)
      entered == FoldLeft(LAMBDA q, x : EnteringChild(q, x, score, h.outHist), p, children)
  IN [entered EXCEPT !.cands =
        @ \o [i \in DOMAIN words |-> [wid |-> words[i], score |-> score - case.nwpen, bp |-> h.outHist]]]

Retaining(p, nd) ==
  IF p.tree[nd].frame = nf THEN p
  ELSE [p EXCEPT !.tree[nd].frame = nf, !.next = IF Len(nd) = 2 THEN @ ELSE Append(@, nd)]

\* Mutant of Clearing: what falls out of the beam keeps its scores.
ClearingNot(p, nd) == p

\* A pruned channel is cleared unless it has just been entered; roots are cleared later.
Clearing(p, nd) ==
  IF Len(nd) = 2 \/ p.tree[nd].frame = nf THEN p ELSE [p EXCEPT !.tree[nd] = Cleared(case)]

TreePruned(beam) ==
  LET pruned(p, nd) == IF p.tree[nd].best > best_score + beam THEN Leaving(Retaining(p, nd), nd)
                       ELSE Clearing(p, nd)
      roots == SelectSeq(Roots, LAMBDA nd : Running(tree[nd]))
  IN FoldLeft(pruned, [tree |-> tree, next |-> <<>>, cands |-> <<>>], roots \o active_chan_list[Now])

---------------------------------------------------------------------------
(* last_phone_transition and prune_word_chan.                               *)

\* ngram_search_exit_score: of row b, before a phone.
ExitScore(b, phone) ==
  IF table[b].s_idx = -1 THEN table[b].score ELSE stack[table[b].s_idx + CiMap[table[b].wid][phone]]

\* The best of the exits bs before word w, with the language model; score is to be beaten.
BestTransition(tbl, bs, w, trans) ==
  LET score(b) == LET s == ExitScore(b, Pron[w][1])
                  IN IF s > WORST_SCORE THEN s + case.lm[<<tbl[b].real_wid, w>>] ELSE s
  IN FoldLeft(LAMBDA t, b : IF tbl[b].valid /\ score(b) > t.dscr
                            THEN [t EXCEPT !.dscr = score(b), !.bp = b] ELSE t,
              trans, bs)

\* Mutant of Known: a transition is remembered whatever the start frame.
KnownForGood(trans, sf) == trans.sf # None

\* The best transition to a word that starts in frame sf is found once for all candidates.
Known(trans, sf) == trans.sf = sf

\* A candidate with the best transition to it: its score so far begins with the exit that
\* its path in the tree comes from, whatever its language model score.
Candidate(cand) ==
  LET ef == table[cand.bp].frame
      from == ExitScore(cand.bp, Pron[cand.wid][1])
      trans == IF Known(last_ltrans[cand.wid], ef + 1) THEN last_ltrans[cand.wid]
               ELSE BestTransition(table, Exits(ef), cand.wid,
                                   [last_ltrans[cand.wid] EXCEPT !.sf = ef + 1, !.dscr = WORST_SCORE])
  IN [wid |-> cand.wid, score |-> cand.score - from + trans.dscr, bp |-> trans.bp, trans |-> trans]

\* Mutant of WithAllRc: only the right contexts there are.
WithAllRcNot(hs, w) == hs

\* ngram_search_alloc_all_rc.
WithAllRc(hs, w) == [rc \in 0 .. RcSize[w] - 1 |-> IF rc \in DOMAIN hs THEN hs[rc] ELSE Cleared(case)]

\* A word is entered in all right contexts in which the candidate is better.
EnteringWord(q, cand) ==
  LET w == cand.wid
      hs == WithAllRc(q.words[w], w)
      enters == {rc \in DOMAIN hs : hs[rc].frame < frame \/ cand.score > hs[rc].score[0]}
  IN [q EXCEPT
        !.words[w] = [rc \in DOMAIN hs |-> IF rc \in enters THEN Entering(hs[rc], cand.score, cand.bp, nf)
                                           ELSE hs[rc]],
        !.next = IF enters # {} THEN Append(@, w) ELSE @]

\* A call of save_bp.
Leaves(w, rc, h) == [wid |-> w, rc |-> rc, score |-> h.out, path |-> h.outHist]

\* Mutant of PruningWord: a word entered again is put on the list once more.
PruningWordAgain(q, w) ==
  LET hs == q.words[w]
      stays == {rc \in DOMAIN hs : hs[rc].best > last_phone_best_score + case.lponlybeam}
      keeps == stays \cup {rc \in DOMAIN hs : hs[rc].frame = nf}
      leaves == SelectSeq(Up(0, RcSize[w] - 1), LAMBDA rc : rc \in stays /\ hs[rc].out > last_phone_best_score + case.wbeam)
  IN [q EXCEPT
        !.words[w] = [rc \in keeps |-> [hs[rc] EXCEPT !.frame = nf]],
        !.next = IF stays # {} THEN Append(@, w) ELSE @,
        !.exits = @ \o [i \in DOMAIN leaves |-> Leaves(w, leaves[i], hs[leaves[i]])]]

\* The right contexts of a word that stay active or have just been entered; the others
\* are freed.  Those that stay may leave the word.
PruningWord(q, w) ==
  LET hs == q.words[w]
      stays == {rc \in DOMAIN hs : hs[rc].best > last_phone_best_score + case.lponlybeam}
      keeps == stays \cup {rc \in DOMAIN hs : hs[rc].frame = nf}
      leaves == SelectSeq(Up(0, RcSize[w] - 1), LAMBDA rc : rc \in stays /\ hs[rc].out > last_phone_best_score + case.wbeam)
  IN [q EXCEPT
        !.words[w] = [rc \in keeps |-> [hs[rc] EXCEPT !.frame = nf]],
        !.next = IF stays # {} /\ w \notin Range(@) THEN Append(@, w) ELSE @,
        !.exits = @ \o [i \in DOMAIN leaves |-> Leaves(w, leaves[i], hs[leaves[i]])]]

\* Mutant of StayingSingles: within the beam of the tree.
StayingSinglesInBeam ==
  SelectSeq(Singles, LAMBDA w : Running(single[w]) /\ single[w].best > best_score + dynamic_beam)

\* The words of one phone that stay active.
StayingSingles ==
  SelectSeq(Singles, LAMBDA w : Running(single[w]) /\ single[w].best > last_phone_best_score + case.lponlybeam)
LeavingSingles == SelectSeq(StayingSingles, LAMBDA w : single[w].out > last_phone_best_score + case.wbeam)

---------------------------------------------------------------------------
(* word_transition and deactivate_channels.                                 *)

\* bestbp_rc: the best of some exits before a phone, of equal ones the first.
BestBefore(bs, phone) ==
  FoldLeft(LAMBDA t, b : IF ExitScore(b, phone) > t.score THEN [score |-> ExitScore(b, phone), path |-> b] ELSE t,
           [score |-> WORST_SCORE, path |-> NO_BP], bs)

\* Mutant of Began: the score of the HMM entered is not looked at.
BeganAnyway(h, score, path, phone) ==
  IF score + Lookahead(phone) > best_score + dynamic_beam THEN Entering(h, score, path, nf) ELSE h

\* A word begins in an HMM.
Began(h, score, path, phone) ==
  IF score + Lookahead(phone) > best_score + dynamic_beam /\ (h.frame < frame \/ score > h.score[0])
  THEN Entering(h, score, path, nf) ELSE h

\* Mutant of Deactivated: what was pruned keeps its scores.
DeactivatedNot(h) == h

Deactivated(h) == IF h.frame = frame THEN Cleared(case) ELSE h

\* From the exits of the frame other than </s>.
WordExits == SelectSeq(Exits(frame), LAMBDA b : table[b].wid # FinishWord)
RootAfter(nd) ==
  LET from == BestBefore(WordExits, nd[1])
  IN IF WordExits = <<>> THEN tree[nd] ELSE Began(tree[nd], from.score + case.nwpen + case.pip, from.path, nd[1])

\* Mutant of IsNoise: </s> is a word of the language model only.
IsNoiseButFinish(w) == w \in Fillers

\* Silence and the noise words of the dictionary, which </s> is among.
IsNoise(w) == w \in Fillers \cup {FinishWord}

\* They begin after any exits, pruned ones too.
NoiseBegan(h, w) ==
  LET sil == BestBefore(WordExits, Sil)
      pen == IF w = SilWord THEN case.silpen ELSE case.fillpen
  IN Began(h, sil.score + pen + case.pip, sil.path, Pron[w][1])

\* Words of one phone begin after the best transition to them, then as noise.
SingleAfter(w, trans) ==
  LET worded == IF w \in InLM THEN Began(single[w], trans.dscr + case.pip, trans.bp, Pron[w][1]) ELSE single[w]
  IN IF WordExits = <<>> \/ w = StartWord THEN single[w]
     ELSE IF IsNoise(w) THEN NoiseBegan(worded, w) ELSE worded

---------------------------------------------------------------------------
(* History: the same search without a tree, beams or lists.  Each word has  *)
(* a chain of HMMs for each right context, language model scores come with  *)
(* its first phone, nothing is renormalised.  An arrival has its score, and *)
(* the words and frames of the exits it may have come from.                 *)

Nowhere == [score |-> NoScore, from |-> {}]
Plus(a, score) == IF a.score = NoScore THEN a ELSE [a EXCEPT !.score = @ + score]
BestArrivals(as) == LET top == {a \in as : \A b \in as : b.score <= a.score}
             IN IF top = {} THEN Nowhere
                ELSE [score |-> (CHOOSE a \in top : TRUE).score, from |-> UNION {a.from : a \in top}]

Chains == {ch \in Words \X (0 .. NPhones - 1) : ch[2] \in 0 .. Max({RcSize[ch[1]] - 1, 0})}
\* The senone sequence of phone i of a chain.
ChainSsid(ch, i) ==
  LET p == Pron[ch[1]]
  IN IF i = 1 THEN p[1] ELSE IF i = Len(p) THEN LastSsid[ch[1]][ch[2]] ELSE Ssid[<<p[i - 1], p[i], p[i + 1]>>]

FlatEmpty == [ch \in Chains |-> [i \in DOMAIN Pron[ch[1]] |-> [j \in Inner(case) |-> Nowhere]]]
FlatStart == [FlatEmpty EXCEPT ![<<StartWord, 0>>][1][0] = [score |-> case.origin, from |-> {<<BadWid, None>>}]]

\* A frame in all HMMs; state n is the way out.
FlatMoved(sound) ==
  [ch \in Chains |-> [i \in DOMAIN flat[ch] |-> [k \in 0 .. case.n |->
     BestArrivals({Plus(flat[ch][i][j], sound[ChainSsid(ch, i)] + case.tp[j, k]) :
                     j \in {x \in Inner(case) : x <= k /\ Present(case.tp[x, k])}})]]]

\* The exits of the frame.
FlatOut(ch) == flat[ch][Len(flat[ch])][case.n]
FlatExits == {ch \in Chains : FlatOut(ch).score # NoScore}

\* The scores with which word w may follow word v: those of the language model, of silence
\* and of noise.
Penalties(v, w) ==
  (IF w \in InLM THEN {case.lm[<<v, w>>]} ELSE {})
  \cup (IF w = SilWord THEN {case.silpen} ELSE {})
  \cup (IF w \in (Fillers \cup {FinishWord}) \ {SilWord} THEN {case.fillpen} ELSE {})

\* What word w begins with: the exits of the frame before its first phone, but </s>.
FlatBefore(w) ==
  LET before == {ch \in FlatExits : ch[1] # FinishWord
                   /\ ch[2] = IF RcSize[ch[1]] = 0 THEN 0 ELSE CiMap[ch[1]][Pron[w][1]]}
      after(ch) == {[score |-> FlatOut(ch).score + pen, from |-> {<<ch[1], frame>>}] : pen \in Penalties(ch[1], w)}
  IN BestArrivals(UNION {after(ch) : ch \in before})

\* The next frame.
FlatNext ==
  LET entering(ch, i) == IF i > 1 THEN flat[ch][i - 1][case.n]
                         ELSE IF ch[1] = StartWord THEN Nowhere ELSE FlatBefore(ch[1])
  IN [ch \in Chains |-> [i \in DOMAIN flat[ch] |-> [j \in Inner(case) |->
        IF j = 0 THEN BestArrivals({flat[ch][i][0], Plus(entering(ch, i), case.pip)}) ELSE flat[ch][i][j]]]]

---------------------------------------------------------------------------

TreeInit ==
  /\ Init /\ ~two_pass
  /\ case \in Cases
  /\ tree = [nd \in Nodes |-> Cleared(case)]
  /\ single = [w \in Range(Singles) |-> Cleared(case)]
  /\ word_chan = [w \in {v \in Words : ~OnePhone(v)} |-> <<>>]
  /\ active_chan_list = [i \in 0 .. 1 |-> <<>>] /\ active_word_list = [i \in 0 .. 1 |-> <<>>]
  /\ word_active = {}
  /\ best_score = 0 /\ last_phone_best_score = 0 /\ dynamic_beam = 0 /\ n_eval = 0
  /\ last_ltrans = [w \in Words |-> [sf |-> None, dscr |-> WORST_SCORE, bp |-> NO_BP]]
  /\ step = "mark" /\ lastphn_cand = <<>> /\ exits = <<>>
  /\ pls = LoopStarted(case) /\ heard = <<>> /\ over = FALSE /\ reach = ReachStarted(case)
  /\ taken = 0 /\ flat = FlatEmpty /\ utts = 0

\* ngram_fwdtree_start, after phone_loop_search_start.
TreeStart ==
  /\ utts < MaxUtts /\ (phase = "done" => n_frame <= MaxFirst)
  /\ StartUtt
  /\ single' = [w \in DOMAIN single |-> IF w = StartWord THEN Entering(Cleared(case), case.origin, NO_BP, 0)
                                        ELSE Cleared(case)]
  /\ active_chan_list' = [i \in 0 .. 1 |-> <<>>] /\ active_word_list' = [i \in 0 .. 1 |-> <<>>]
  /\ best_score' = case.origin /\ n_eval' = 0
  /\ last_ltrans' = [w \in Words |-> [last_ltrans[w] EXCEPT !.sf = None]]
  /\ utts' = utts + 1
  /\ pls' = LoopStarted(case) /\ heard' = <<>> /\ over' = FALSE /\ reach' = ReachStarted(case)
  /\ taken' = 0 /\ flat' = FlatStart
  /\ UNCHANGED <<case, tree, word_chan, word_active, last_phone_best_score, dynamic_beam, frameVars>>

\* ps_search_forward up to the step of the main search: a frame goes through the phone loop.
LoopStep(sound) ==
  /\ phase = "between" /\ ~over
  /\ Len(heard) <= case.window /\ frame + Len(heard) < MaxFrames
  /\ pls' = IF case.window = 0 THEN pls ELSE LoopStepped(case, pls, frame + Len(heard), sound)
  /\ heard' = Append(heard, sound)
  /\ reach' = IF case.window = 0 THEN reach ELSE Reached(case, reach, sound)
  /\ UNCHANGED <<vars, case, chans, lists, scores, frameVars, over, history>>

\* ps_end_utt up to the frames remaining in the lookahead window.  An utterance shorter than
\* the window is left out: this search sees nothing of it, see Decoder.
EndUtt ==
  /\ phase = "between" /\ ~over
  /\ Len(heard) <= case.window /\ frame + Len(heard) >= case.window
  /\ over' = TRUE
  /\ UNCHANGED <<vars, case, chans, lists, scores, frameVars, pls, heard, reach, history>>

\* Mutant of BeginsFrame: the end of the utterance drops what is in the window.
BeginsFrameNot == Len(heard) > case.window

\* The frames heard reach beyond the window, or are the last ones.
BeginsFrame == Len(heard) > case.window \/ (over /\ heard # <<>>)

\* ngram_fwdtree_search up to the marks.  ListsAreActive: the search never fails, so that
\* a frame that is only marked (FailedFrame) is left out.
TreeBeginFrame ==
  /\ BeginsFrame
  /\ best_score > WORST_SCORE
  /\ BeginFrame
  /\ step' = "evaluate"
  /\ UNCHANGED <<case, chans, lists, scores, lastphn_cand, exits, loopVars, history>>

\* renormalize_scores and evaluate_channels.  What </s> has is not among the best.
Evaluate ==
  /\ step = "evaluate"
  /\ tree' = TreeEvaluated(Head(heard)) /\ single' = SingleEvaluated(Head(heard))
  /\ word_chan' = WordsEvaluated(Head(heard))
  /\ LET roots == {nd \in Nodes : InTree(nd)}
         words == Range(active_word_list[Now])
         singles == {w \in DOMAIN single : Running(single[w])}
     IN /\ last_phone_best_score' =
             Max({WORST_SCORE} \cup {single'[w].best : w \in singles \ {FinishWord}}
                 \cup UNION {{word_chan'[w][rc].best : rc \in DOMAIN word_chan[w]} : w \in words})
        /\ best_score' = Max({last_phone_best_score'} \cup {tree'[nd].best : nd \in roots})
        /\ n_eval' = n_eval + Cardinality(roots) + Cardinality(singles)
                     + FoldSet(LAMBDA w, sum : sum + Cardinality(DOMAIN word_chan[w]), 0, words)
        /\ word_active' = word_active \ words
  /\ step' = "tree"
  /\ heard' = Tail(heard)
  /\ taken' = taken + Norm /\ flat' = FlatMoved(Head(heard))
  /\ UNCHANGED <<vars, case, active_chan_list, active_word_list, dynamic_beam, last_ltrans,
                 lastphn_cand, exits, pls, over, reach, utts>>

\* prune_channels up to prune_nonroot_chan.
PruneTree ==
  LET p == TreePruned(Beam)
  IN /\ step = "tree"
     /\ dynamic_beam' = Beam
     /\ tree' = p.tree /\ lastphn_cand' = p.cands
     /\ active_chan_list' = [active_chan_list EXCEPT ![Other] = p.next]
     /\ step' = "last phones"
     /\ UNCHANGED <<vars, case, single, word_chan, active_word_list, word_active, best_score,
                    last_phone_best_score, n_eval, last_ltrans, exits, loopVars, history>>

LastPhoneTransition ==
  LET found == [i \in DOMAIN lastphn_cand |-> Candidate(lastphn_cand[i])]
      best == Max({last_phone_best_score} \cup {found[i].score : i \in DOMAIN found})
      enters == SelectSeq(found, LAMBDA x : x.score > best + case.lponlybeam)
      entered == FoldLeft(EnteringWord, [words |-> word_chan, next |-> <<>>], enters)
  IN /\ step = "last phones"
     /\ last_ltrans' = [w \in Words |-> IF \E i \in DOMAIN found : found[i].wid = w
                                        THEN (CHOOSE x \in Range(found) : x.wid = w).trans ELSE last_ltrans[w]]
     /\ last_phone_best_score' = best
     /\ word_chan' = entered.words
     /\ active_word_list' = [active_word_list EXCEPT ![Other] = entered.next]
     /\ word_active' = word_active \cup Range(entered.next)
     /\ step' = "words"
     /\ UNCHANGED <<vars, case, tree, single, active_chan_list, best_score, dynamic_beam, n_eval,
                    lastphn_cand, exits, loopVars, history>>

\* prune_word_chan: the exits are saved one by one after it.
PruneWords ==
  LET pruned == FoldLeft(PruningWord, [words |-> word_chan, next |-> active_word_list[Other], exits |-> <<>>],
                         active_word_list[Now])
  IN /\ step = "words"
     /\ word_chan' = pruned.words
     /\ active_word_list' = [active_word_list EXCEPT ![Other] = pruned.next]
     /\ word_active' = word_active \cup Range(pruned.next)
     /\ single' = [w \in DOMAIN single |-> IF w \in Range(StayingSingles) THEN [single[w] EXCEPT !.frame = nf]
                                           ELSE single[w]]
     /\ exits' = pruned.exits \o [i \in DOMAIN LeavingSingles |->
                                    Leaves(LeavingSingles[i], 0, single[LeavingSingles[i]])]
     /\ step' = "exits"
     /\ UNCHANGED <<vars, case, tree, active_chan_list, scores, lastphn_cand, loopVars, history>>

\* A call of ngram_search_save_bp.
Exit ==
  /\ exits # <<>>
  /\ LET e == Head(exits) IN Saved(e.wid, e.rc, e.score, e.path)
  /\ exits' = Tail(exits)
  /\ UNCHANGED <<case, chans, lists, scores, step, lastphn_cand, loopVars, history>>

\* bptable_maxwpf, word_transition, deactivate_channels.
TreeEndFrame ==
  LET ltrans == [w \in Words |->
        IF w \in InLM /\ OnePhone(w) /\ WordExits # <<>>
        THEN BestTransition(table', Exits(frame), w, [last_ltrans[w] EXCEPT !.dscr = -1]) ELSE last_ltrans[w]]
  IN /\ step = "exits" /\ exits = <<>>
     /\ EndFrame
     /\ last_ltrans' = ltrans
     /\ tree' = [nd \in Nodes |-> IF Len(nd) = 2 THEN Deactivated(RootAfter(nd)) ELSE tree[nd]]
     /\ single' = [w \in DOMAIN single |-> Deactivated(SingleAfter(w, ltrans[w]))]
     /\ step' = "mark" /\ flat' = FlatNext
     /\ UNCHANGED <<case, word_chan, lists, best_score, last_phone_best_score, dynamic_beam, n_eval,
                    lastphn_cand, exits, loopVars, taken, utts>>

\* ngram_fwdtree_finish: the channels on the lists of the next frame are cleared and freed.
TreeFinish ==
  /\ over /\ ~BeginsFrame
  /\ Finish
  /\ tree' = [nd \in Nodes |-> IF Len(nd) = 2 \/ nd \in Range(active_chan_list[Now])
                               THEN Cleared(case) ELSE tree[nd]]
  /\ word_chan' = [w \in DOMAIN word_chan |-> IF w \in Range(active_word_list[Now]) THEN <<>> ELSE word_chan[w]]
  /\ word_active' = word_active \ Range(active_word_list[Now])
  /\ UNCHANGED <<case, single, active_chan_list, active_word_list, scores, frameVars, loopVars, history>>

TreeNext ==
  \/ TreeStart
  \/ \E sound \in Sounds : LoopStep(sound)
  \/ EndUtt
  \/ TreeBeginFrame
  \/ Evaluate
  \/ PruneTree
  \/ LastPhoneTransition
  \/ PruneWords
  \/ Exit
  \/ TreeEndFrame
  \/ TreeFinish

TreeSpec == TreeInit /\ [][TreeNext]_treeVars

---------------------------------------------------------------------------

Distinct(seq) == Cardinality(Range(seq)) = Len(seq)
Silent(h) == \A j \in Inner(case) : h.score[j] <= WORST_SCORE

\* What is on a list for a frame has an HMM active in it, and once; all else is cleared or
\* freed (eval_nonroot_chan, eval_word_chan, last_phone_transition, prune_word_chan assert
\* parts of it).  An HMM entered later starts from nothing, in this utterance and the next.
\* Some HMM is left after every frame, whatever the histogram makes of the beam: the search
\* does not fail ("If the best score is equal to or worse than WORST_SCORE, recognition has
\* failed", ngram_fwdtree_search).
ListsAreActive ==
  /\ phase = "between" =>
       /\ best_score > WORST_SCORE
       /\ (\E nd \in Nodes : InTree(nd)) \/ word_active # {} \/ (\E w \in DOMAIN single : Running(single[w]))
       /\ Distinct(active_chan_list[Now])
       /\ Range(active_chan_list[Now]) = {nd \in Nodes : Len(nd) > 2 /\ tree[nd].frame = frame}
       /\ Distinct(active_word_list[Now])
       /\ Range(active_word_list[Now]) = word_active
       /\ word_active = {w \in DOMAIN word_chan : DOMAIN word_chan[w] # {}}
       /\ \A w \in word_active, rc \in 0 .. NPhones - 1 :
            rc \in DOMAIN word_chan[w] => word_chan[w][rc].frame = frame
       /\ \A nd \in Nodes : tree[nd].frame # frame => Silent(tree[nd])
       /\ \A w \in DOMAIN single : single[w].frame # frame => Silent(single[w])
  /\ phase = "done" =>
       /\ \A nd \in Nodes : Silent(tree[nd]) /\ tree[nd].frame = None
       /\ word_active = {} /\ \A w \in DOMAIN word_chan : DOMAIN word_chan[w] = {}

\* save_bp is called for an exit as BPTable has it: from an earlier frame that the word may
\* follow, once for a right context.
ExitsFollow ==
  [][Exit => LET e == Head(exits)
             IN /\ e.wid \in Words /\ e.rc \in 0 .. NPhones - 1 /\ e.score \in Scores
                /\ e.path \in {NO_BP} \cup DOMAIN table
                /\ SaveBp(e.wid, e.rc, e.score, e.path)]_treeVars

\* Without pruning the tree finds the exits that a search of the words one by one finds, with
\* the same scores and from one of the same exits, though words share phones, language model
\* scores come with the last phone, and scores are renormalised; beams find nothing better.
TreeSearchIsFlat ==
  step = "exits" /\ bpidx = idx[frame] =>
    /\ \A e \in Range(exits) :
         LET f == FlatOut(<<e.wid, e.rc>>)
             from == IF e.path = NO_BP THEN <<BadWid, None>> ELSE <<table[e.path].wid, table[e.path].frame>>
         IN e.score + taken < f.score \/ (e.score + taken = f.score /\ from \in f.from)
    /\ case.wide => \A ch \in FlatExits : \E e \in Range(exits) :
         e.wid = ch[1] /\ e.rc = ch[2] /\ e.score + taken = FlatOut(ch).score

\* The phone loop tells of each phone how far the best path in it was behind the best of
\* all, in the best of the last pl_window frames, weighted; those are the frames after the
\* one that the main search prunes, in which the phone would begin.  Fewer frames tell
\* nothing.  Renormalisation does not show, nor does the ring.
PenaltiesLookAhead ==
  LET last == Len(reach.behind)
      window == {last - i : i \in 0 .. case.window - 1}
  IN case.window > 0 =>
       /\ case.wide => \A p \in Phones :
            pls.penalties[p] = IF last < case.window THEN 0
                               ELSE Max({Weighted(case, reach.behind[f][p]) : f \in window})
       /\ \A p \in Phones : pls.penalties[p] <= 0
       /\ \E p \in Phones : pls.penalties[p] = 0
       /\ step \notin {"mark", "evaluate"} /\ ~over => last = frame + 1 + case.window
       /\ phase = "done" => frame = last
=============================================================================
