----------------------------- MODULE FsgSearch -----------------------------
(***************************************************************************)
(* The grammar search (src/fsg_search.c): the HMMs of the lexicon trees of *)
(* the states of a grammar are evaluated frame by frame; those within the  *)
(* beam go on to their successors, leaves into the history, and from the   *)
(* entries of the frame words begin in the trees of the states they reach. *)
(* Scores are never renormalised here, and WORST_SCORE is not reached.     *)
(***************************************************************************)
EXTENDS FsgHistory, Hmm

CONSTANTS Cases,      \* grammars, topologies and beams, see CaseOK
          Sounds,     \* what a frame may be, the score of each senone sequence
          MaxFrames,  \* bound: frames of an utterance
          MaxUtts,    \* bound: utterances
          Tolerated   \* what happens, of Hazards

\* What the code accepts and does not serve as it should.
Hazards == {"one root"}  \* a word whose senone sequences depend on the phone before it
May(hazard) == hazard \in Tolerated

\* A topology with the grammar, penalties and beams, the number of HMMs beyond which these
\* are narrowed, and whether the beams are too wide to prune anything.
CaseOK(c) ==
  /\ c.n \in Nat \ {0}
  /\ \A beam \in {c.beam, c.pbeam, c.wbeam} : beam < 0
  /\ c.maxhmmpf \in Nat \cup {-1}
  /\ c.wide => c.maxhmmpf = -1
  /\ {c.grammar.start, c.grammar.final} \subseteq States
  /\ \A l \in Range(c.grammar.trans) \cup Range(c.grammar.nulls) : {l.from, l.to} \subseteq States /\ l.prob <= 0
  /\ \A l \in Range(c.grammar.trans) : l.wid \in DOMAIN Pron

ASSUME FsgAssumption ==
  /\ NStates \in Nat \ {0} /\ NPhones \in Nat \ {0} /\ Sil \in Phones
  /\ \A w \in DOMAIN Pron : Pron[w] \in Seq(Phones) \ {<<>>}
  /\ \A w \in {SilWord} \cup Range(Fillers) : w \in DOMAIN Pron /\ Len(Pron[w]) = 1 /\ Alts[w] = <<>>
  /\ DOMAIN Alts = DOMAIN Pron
  /\ \A c \in Cases : CaseOK(c)
  /\ MaxFrames \in 0 .. 7 /\ MaxUtts \in Nat
  /\ Tolerated \subseteq Hazards

VARIABLES
  case,
  hmm,            \* the HMM of each node
  pnode_active, pnode_active_next,  \* in the order they are gone through
  bestscore,
  narrowed,       \* beam_factor is 0.9 to this
  entries,        \* the table of the history
  frame_entries,  \* its lists
  bpidx_start,    \* the first entry of the frame
  frame,
  final,          \* the utterance has ended
  phase,          \* "idle", "evaluated", "exits" or "between"
  offered,        \* history: the exits of the frame
  flat,           \* history: the search without a tree, see FlatMoved
  utts            \* history: utterances

search == <<hmm, pnode_active, pnode_active_next, bestscore, narrowed>>
table == <<entries, frame_entries, bpidx_start>>
vars == <<case, search, table, frame, final, phase, offered, flat, utts>>

Fsgs == [c \in Cases |-> Read(c.grammar)]
Lextrees == [c \in Cases |-> Lextree(Fsgs[c], [wip |-> c.wip, pip |-> c.pip])]
fsg == Fsgs[case]
lextree == Lextrees[case]

nf == frame + 1
Root == [link |-> Trans(fsg.start, fsg.start, 0, NoWord), frame |-> -1, score |-> 0, pred |-> NoEntry,
         lc |-> Sil, rc |-> Phones]

---------------------------------------------------------------------------
(* fsg_search_hmm_eval. *)

Evaluated(sound) ==
  [nd \in DOMAIN hmm |->
     IF nd \in Range(pnode_active) THEN VitEval(case, hmm[nd], [j \in Inner(case) |-> sound[SsidOf(nd)]])
     ELSE hmm[nd]]

\* Too many HMMs take a tenth off the beams, few give all of it back.  (The floor, a tenth,
\* is beyond MaxFrames.)
Narrowed(n) == IF case.maxhmmpf # -1 /\ n > case.maxhmmpf THEN narrowed + 1 ELSE 0

\* What has to be reached with a beam.
Within(beam) == bestscore - ((-beam) * 9^narrowed) \div 10^narrowed

---------------------------------------------------------------------------
(* fsg_search_hmm_prune_prop.  p has the HMMs, the next active list and     *)
(* the lists of the history.                                                *)

\* A node is entered in frame f if the score is within the beam and better than its own.
Entered(p, nd, score, hist, f) ==
  IF score > p.thresh /\ score > p.hmm[nd].score[0]
  THEN [p EXCEPT !.hmm[nd] = Entering(@, score, hist, f),
                 !.next = IF p.hmm[nd].frame < f THEN <<nd>> \o @ ELSE @]
  ELSE p

\* Mutant of Retaining: a node that was entered before it is gone through comes on the list twice.
RetainingAgain(p, nd) == [p EXCEPT !.hmm[nd].frame = nf, !.next = <<nd>> \o @]

Retaining(p, nd) ==
  IF p.hmm[nd].frame # frame THEN p ELSE [p EXCEPT !.hmm[nd].frame = nf, !.next = <<nd>> \o @]

\* fsg_search_pnode_trans.
Continuing(p, nd) ==
  LET h == p.hmm[nd]
  IN FoldLeft(LAMBDA q, x : Entered(q, x, h.out + x.prob, h.outHist, nf), p, lextree.succ[nd])

\* fsg_search_pnode_exit: fillers and words of one phone serve all right contexts.
ExitOf(nd, h) ==
  [link |-> nd.link, frame |-> frame, score |-> h.out, pred |-> h.outHist, lc |-> nd.ext,
   rc |-> IF IsFiller(fsg, nd.link.wid) \/ Len(Pron[nd.link.wid]) = 1 THEN Phones ELSE nd.ctxt]
Leaving(p, nd) ==
  LET e == ExitOf(nd, p.hmm[nd])
  IN [p EXCEPT !.lists = Added(@, e), !.exits = @ \cup {e}]

Propagating(p, nd) ==
  IF p.hmm[nd].best < p.thresh THEN p
  ELSE LET kept == Retaining(p, nd)
       IN IF nd.leaf THEN IF p.hmm[nd].out >= Within(case.wbeam) THEN Leaving(kept, nd) ELSE kept
          ELSE IF p.hmm[nd].out >= Within(case.pbeam) THEN Continuing(kept, nd) ELSE kept

---------------------------------------------------------------------------
(* fsg_search_word_trans, and the end of fsg_search_step. *)

\* Mutant of Begins: the left context is not asked for.
BeginsAnyway(nd, e) == nd.ext \in e.rc

\* A root fits an entry: each is in the other's contexts.
Begins(nd, e) == e.lc \in nd.ctxt /\ nd.ext \in e.rc

\* In frame f, from the entries es from the first on.
WordsBegun(p, es, first, f) ==
  LET begun(q, b) ==
        FoldLeft(LAMBDA r, nd : IF Begins(nd, es[b]) THEN Entered(r, nd, es[b].score + nd.prob, b, f) ELSE r,
                 q, lextree.roots[es[b].link.to])
  IN FoldLeft(begun, p, [i \in 1 .. Len(es) + 1 - first |-> first + i - 1])

\* Mutant of Deactivated: what fell out of the beam keeps its scores.
DeactivatedNot(hs) == hs

Deactivated(hs) ==
  [nd \in DOMAIN hs |-> IF nd \in Range(pnode_active) /\ hs[nd].frame = frame THEN Cleared(case) ELSE hs[nd]]

---------------------------------------------------------------------------
(* History: the same search of the grammar as it is written, without trees, *)
(* closure, beams or competing entries.  Each transition has a chain of     *)
(* HMMs for each left context of its first phone and each right context of  *)
(* its last.  An arrival has its score, and the words and frames it may     *)
(* have come from.                                                          *)

Nowhere == [score |-> NoScore, from |-> {}]
Plus(a, score) == IF a.score = NoScore \/ score = NoScore THEN Nowhere ELSE [a EXCEPT !.score = @ + score]
BestArrivals(as) ==
  LET top == {a \in as : \A b \in as : b.score <= a.score}
  IN IF top = {} THEN Nowhere
     ELSE [score |-> (CHOOSE a \in top : TRUE).score, from |-> UNION {a.from : a \in top}]

Links(g) ==
  Range(g.trans)
  \cup (IF g.alts THEN UNION {{[l EXCEPT !.wid = w] : w \in Range(Alts[l.wid])} : l \in Range(g.trans)} ELSE {})
  \cup (IF g.fillers THEN {Trans(s, s, g.silprob, SilWord) : s \in States}
                          \cup {Trans(s, s, g.fillprob, w) : s \in States, w \in Range(Fillers)} ELSE {})

\* The best score of a walk of null transitions from a state to another; a step there is no
\* transition for takes it below NoScore.
Nulls(g) ==
  LET step(s, t) == Max({NoScore} \cup {l.prob : l \in {k \in Range(g.nulls) : k.from = s /\ k.to = t}})
      score(w) == FoldLeft(LAMBDA sum, i : sum + step(w[i], w[i + 1]), 0, [i \in 1 .. Len(w) - 1 |-> i])
      walks(s, t) == {w \in SeqOf(States, NStates) \ {<<>>} : Head(w) = s /\ Last(w) = t}
  IN [p \in States \X States |-> Max({NoScore} \cup {score(w) : w \in walks(p[1], p[2])})]

Onset(l) == IF IsDictFiller(l.wid) THEN Sil ELSE Head(Pron[l.wid])
Coda(l) == IF IsDictFiller(l.wid) THEN Sil ELSE Last(Pron[l.wid])
Single(l) == Len(Pron[l.wid]) = 1

FlatNulls == [c \in Cases |-> Nulls(c.grammar)]

\* The phones before and after a transition.
Lefts(c, l) == {Sil} \cup {Coda(k) : k \in {x \in Links(c.grammar) : FlatNulls[c][x.to, l.from] # NoScore}}
Rights(c, l) == {Sil} \cup {Onset(k) : k \in {x \in Links(c.grammar) : FlatNulls[c][l.to, x.from] # NoScore}}

\* "An independent HMM for each distinct context" (fsg_lextree.h).
Chains(c) ==
  UNION {{[link |-> l, lc |-> lc, rc |-> rc] : lc \in IF IsDictFiller(l.wid) THEN {Sil} ELSE Lefts(c, l),
                                               rc \in IF Single(l) THEN {Sil} ELSE Rights(c, l)} : l \in Links(c.grammar)}
ChainSsid(ch, i) ==
  LET p == Pron[ch.link.wid]
      at(k) == IF k = 0 THEN ch.lc ELSE IF k > Len(p) THEN ch.rc ELSE p[k]
  IN IF IsDictFiller(ch.link.wid) THEN CiSsid[p[1]] ELSE Ssid[at(i - 1), at(i), at(i + 1)]

FlatChains == [c \in Cases |-> Chains(c)]

\* The root that Chain has for a word of several phones is right for all phones before it.
OneRootServes(c) ==
  \A l \in Links(c.grammar) : ~Single(l) =>
    \A lc \in Lefts(c, l) : LET p == Pron[l.wid] IN Ssid[lc, p[1], p[2]] = Ssid[Sil, p[1], p[2]]

\* What leaves a frame: a word to a state, with its last phone and the phones it may go
\* before.
Outs(at, f) ==
  {[to |-> ch.link.to, lc |-> Coda(ch.link), rcs |-> IF Single(ch.link) THEN Phones ELSE {ch.rc},
    score |-> at[ch][Len(Pron[ch.link.wid])][case.n].score,
    id |-> <<ch.link.wid, ch.link.from, ch.link.to, f>>] :
     ch \in {x \in DOMAIN at : at[x][Len(Pron[x.link.wid])][case.n].score # NoScore}}
Origin == {[to |-> fsg.start, lc |-> Sil, rcs |-> Phones, score |-> 0, id |-> <<NoWord, fsg.start, fsg.start, -1>>]}

\* The scores with which a frame, or the utterance, begins: at of the chains, outs of what
\* came before.
Begun(at, outs) ==
  LET follows(ch, o) == (~IsDictFiller(ch.link.wid) => o.lc = ch.lc) /\ Onset(ch.link) \in o.rcs
      before(ch) == BestArrivals({Plus([score |-> o.score, from |-> {o.id}], FlatNulls[case][o.to, ch.link.from]) :
                                    o \in {x \in outs : follows(ch, x)}})
      pen(ch, i) == (IF i = 1 THEN case.wip ELSE 0) + case.pip
                    + (IF i = Len(Pron[ch.link.wid]) THEN ch.link.prob ELSE 0)
      into(ch, i) == IF i = 1 THEN before(ch) ELSE at[ch][i - 1][case.n]
  IN [ch \in DOMAIN at |-> [i \in DOMAIN at[ch] |-> [j \in 0 .. case.n |->
        IF j = 0 THEN BestArrivals({at[ch][i][0], Plus(into(ch, i), pen(ch, i))}) ELSE at[ch][i][j]]]]
Silence(c) == [ch \in FlatChains[c] |-> [i \in DOMAIN Pron[ch.link.wid] |-> [j \in 0 .. c.n |-> Nowhere]]]

\* A frame in all HMMs; state n is the way out.
FlatMoved(sound) ==
  [ch \in DOMAIN flat.at |-> [i \in DOMAIN flat.at[ch] |-> [k \in 0 .. case.n |->
     BestArrivals({Plus(flat.at[ch][i][j], sound[ChainSsid(ch, i)] + case.tp[j, k]) :
                     j \in {x \in Inner(case) : x <= k /\ Present(case.tp[x, k])}})]]]

\* Where an utterance may end after a frame.
FlatEnds(outs) ==
  {[to |-> s, score |-> Max({NoScore} \cup {IF FlatNulls[case][o.to, s] = NoScore THEN NoScore
                                           ELSE o.score + FlatNulls[case][o.to, s] : o \in outs})] : s \in States}

---------------------------------------------------------------------------

NoFlat(c) == [at |-> Silence(c), ends |-> <<>>]

\* fsg_search_reinit.
Fresh(c) == [nd \in AllNodes(Lextrees[c]) |-> Cleared(c)]

Init ==
  /\ case \in Cases /\ (~OneRootServes(case) => May("one root"))
  /\ hmm = Fresh(case) /\ pnode_active = <<>> /\ pnode_active_next = <<>> /\ bestscore = 0 /\ narrowed = 0
  /\ entries = <<>> /\ frame_entries = NoLists /\ bpidx_start = 1
  /\ frame = -1 /\ final = FALSE /\ phase = "idle"
  /\ offered = {} /\ flat = NoFlat(case) /\ utts = 0

\* fsg_search_start: entries of frame -1 do not compete.
Start ==
  LET es == <<Root>> \o Propagated(<<Root>>, 1, fsg.nulls, case.wbeam)
      begun == WordsBegun([hmm |-> hmm, next |-> <<>>, thresh |-> case.beam], es, 1, 0)
  IN /\ phase = "idle" /\ utts < MaxUtts
     /\ entries' = es /\ bpidx_start' = 1
     /\ hmm' = begun.hmm /\ pnode_active' = begun.next
     /\ bestscore' = 0 /\ narrowed' = 0
     /\ frame' = 0 /\ final' = FALSE /\ phase' = "between" /\ offered' = {}
     /\ flat' = [at |-> Begun(Silence(case), Origin), ends |-> <<>>]
     /\ utts' = utts + 1
     /\ UNCHANGED <<case, pnode_active_next, frame_entries>>

\* fsg_search_step, up to the evaluation; with nothing active that leaves all as it is.
Evaluate(sound) ==
  /\ phase = "between" /\ frame < MaxFrames
  /\ bpidx_start' = Len(entries) + 1
  /\ hmm' = Evaluated(sound)
  /\ IF pnode_active = <<>> THEN UNCHANGED <<bestscore, narrowed>>
     ELSE /\ bestscore' = Max({WORST_SCORE} \cup {hmm'[nd].best : nd \in Range(pnode_active)})
          /\ narrowed' = Narrowed(Len(pnode_active))
  /\ flat' = [flat EXCEPT !.at = FlatMoved(sound)]
  /\ phase' = "evaluated"
  /\ UNCHANGED <<case, pnode_active, pnode_active_next, entries, frame_entries, frame, final, offered, utts>>

\* fsg_search_hmm_prune_prop.
Prune ==
  LET p == FoldLeft(Propagating,
                    [hmm |-> hmm, next |-> pnode_active_next, thresh |-> Within(case.beam),
                     lists |-> frame_entries, exits |-> {}],
                    pnode_active)
  IN /\ phase = "evaluated"
     /\ hmm' = p.hmm /\ pnode_active_next' = p.next
     /\ frame_entries' = p.lists /\ offered' = p.exits
     /\ phase' = "exits"
     /\ UNCHANGED <<case, pnode_active, bestscore, narrowed, entries, bpidx_start, frame, final, flat, utts>>

\* Mutant of Survived: they are not taken through null transitions.
SurvivedNot == entries \o Transferred(frame_entries)

\* The table with the survivors of the frame and what null transitions make of them.
Survived == Closed(entries \o Transferred(frame_entries), bpidx_start, fsg.nulls, Within(case.wbeam))

\* The rest of fsg_search_step.
EndFrame ==
  LET begun == WordsBegun([hmm |-> hmm, next |-> pnode_active_next, thresh |-> Within(case.beam)],
                          Survived, bpidx_start, nf)
      outs == Outs(flat.at, frame)
  IN /\ phase = "exits"
     /\ entries' = Survived /\ frame_entries' = NoLists
     /\ hmm' = Deactivated(begun.hmm)
     /\ pnode_active' = begun.next /\ pnode_active_next' = <<>>
     /\ frame' = nf /\ phase' = "between"
     /\ flat' = [at |-> Begun(flat.at, outs), ends |-> Append(flat.ends, FlatEnds(outs))]
     /\ UNCHANGED <<case, bestscore, narrowed, bpidx_start, final, offered, utts>>

\* fsg_search_finish.
Finish ==
  /\ phase = "between"
  /\ hmm' = [nd \in DOMAIN hmm |-> IF nd \in Range(pnode_active) \cup Range(pnode_active_next) THEN Cleared(case)
                                   ELSE hmm[nd]]
  /\ pnode_active' = <<>> /\ pnode_active_next' = <<>>
  /\ final' = TRUE /\ phase' = "idle"
  /\ UNCHANGED <<case, bestscore, narrowed, table, frame, offered, flat, utts>>

\* fsg_search_reinit between utterances, with another dictionary or another word in it; the
\* history is cleared (fsg_history_set_fsg).
Reinit ==
  /\ phase = "idle" /\ entries # <<>>
  /\ hmm' = Fresh(case) /\ entries' = <<>>
  /\ UNCHANGED <<case, pnode_active, pnode_active_next, bestscore, narrowed, frame_entries, bpidx_start,
                 frame, final, phase, offered, flat, utts>>

Next ==
  \/ Start
  \/ \E sound \in Sounds : Evaluate(sound)
  \/ Prune
  \/ EndFrame
  \/ Finish
  \/ Reinit

Spec == Init /\ [][Next]_vars

---------------------------------------------------------------------------

Hypothesis == FindExit(entries, fsg.final, final)

Negative == {s \in Int : s <= 0}
Entry(e) ==
  /\ {e.link.from, e.link.to} \subseteq States
  /\ e.frame \in -1 .. MaxFrames - 1 /\ e.score \in Negative /\ e.pred \in Nat
  /\ e.lc \in Phones /\ e.rc \in SUBSET Phones \ {{}}

\* "an ordered list of entries created in the current frame, terminating in state s,
\* and with left context lc [...] in descending order of path score" (fsg_history.h).
TypeOK ==
  /\ \A b \in DOMAIN entries : Entry(entries[b])
  /\ \A s \in States, lc \in Phones :
       LET list == frame_entries[s][lc] IN
       \A i \in DOMAIN list :
         /\ Entry(list[i]) /\ list[i].link.to = s /\ list[i].lc = lc
         /\ list[i].frame = frame
         /\ i > 1 => list[i - 1].score >= list[i].score
  /\ phase # "exits" => frame_entries = NoLists

\* Of the paths es that arrive in a state with the same last phone, and go on with the same
\* first phone, one as good as the best is found, and no other.
ServesBest(found, es) ==
  \A s \in States, lc \in Phones, rc \in Phones :
    LET arrives(e) == e.link.to = s /\ e.lc = lc /\ rc \in e.rc
        kept == {i \in DOMAIN found : arrives(found[i])}
        scores == {e.score : e \in {x \in es : arrives(x)}}
    IN IF scores = {} THEN kept = {} ELSE \E i \in kept : kept = {i} /\ found[i].score = Max(scores)

\* The entries of the last frame searched: the survivors of its exits, and what null
\* transitions made of them.
OfFrame == SubSeq(entries, bpidx_start, Len(entries))
Survivors == SelectSeq(OfFrame, LAMBDA e : e.link.wid # NoWord)
NullEntries == SelectSeq(OfFrame, LAMBDA e : e.link.wid = NoWord)

\* What null transitions make of some exits of a frame.
ThroughNull(es) ==
  {[link |-> l, score |-> e.score + l.prob, lc |-> e.lc, rc |-> e.rc] :
     <<e, l>> \in {p \in es \X Range(fsg.nulls) :
                     p[1].link.to = p[2].from /\ p[1].score + p[2].prob >= Within(case.wbeam)}}

\* "Only the best scoring one of these needs to be saved, since everything else will be
\* pruned according to the Viterbi algorithm" (fsg_history.h): of the exits that arrive in a
\* state with the same last phone there is one entry for each right context they serve, with
\* the best score, in whatever order they came.  "This pruning is done in two stages": a null
\* transition out of an exit that was pruned is not missed; its target has an entry for the
\* context, as good as the exit would have given.
BestArrivalKept ==
  /\ TypeOK
  /\ phase = "exits" => ServesBest(Transferred(frame_entries), offered)
  /\ phase = "between" /\ frame > 0 =>
       ServesBest(Survivors, offered) /\ ServesBest(NullEntries, ThroughNull(offered))

\* A path is one of the grammar, back to the dummy entry: each entry goes on from the
\* state its predecessor arrived in, a word in an earlier frame and for a context of
\* it, a null transition in the same frame and after a word; the entries of a frame
\* are together (the assertion of fsg_search_word_trans).
PathsFollowGrammar ==
  /\ entries # <<>> => entries[1] = Root
  /\ \A b \in 2 .. Len(entries) :
       LET e == entries[b]
           p == entries[e.pred]
       IN /\ e.pred \in 1 .. b - 1
          /\ p.link.to = e.link.from
          /\ IF e.link.wid = NoWord THEN p.frame = e.frame /\ (p.link.wid = NoWord => e.pred = 1)
             ELSE p.frame < e.frame /\ Onset(e.link) \in p.rc
          /\ entries[b - 1].frame <= e.frame
  /\ phase = "between" => \A b \in bpidx_start .. Len(entries) : entries[b].frame = frame - 1

\* An HMM is active for a frame just if it is on the list for it, and there once (the search
\* asserts parts of it); all others are cleared, in this utterance and the next, so that what
\* begins later begins from nothing.  As long as there is one, one is left.
ActiveAreListed ==
  /\ phase \in {"idle", "between"} =>
       /\ pnode_active_next = <<>>
       /\ Cardinality(Range(pnode_active)) = Len(pnode_active)
       /\ Range(pnode_active) = {nd \in DOMAIN hmm : hmm[nd].frame # None}
       /\ \A nd \in DOMAIN hmm :
            IF nd \in Range(pnode_active) THEN hmm[nd].frame = frame ELSE hmm[nd] = Cleared(case)
  /\ phase = "exits" /\ pnode_active # <<>> => pnode_active_next # <<>>

\* The word an entry comes after, past a null transition.
WordBefore(e) ==
  LET p == entries[e.pred]
      w == IF p.link.wid = NoWord /\ p.pred # NoEntry THEN entries[p.pred] ELSE p
  IN <<w.link.wid, w.link.from, w.link.to, w.frame>>

\* The scores with which an utterance may end after frame f, in the final state once it is over.
FlatScores(f) ==
  {x.score : x \in {y \in flat.ends[f + 1] : y.score # NoScore /\ (final => y.to = fsg.final)}}

\* Without pruning the trees find the exits that a search of the transitions one by one finds,
\* with the same scores and after one of the same words, though words share phones, a longer
\* word has one root for all phones before it (OneRootServes), the closure and the contexts
\* of null transitions are taken beforehand, and of exits that compete one is kept; beams
\* find nothing better.  The hypothesis has the best score with which the utterance may end
\* after the last frame that has exits, and of equal ones it is one in the final state.
SearchIsFlat ==
  /\ phase = "exits" =>
       LET outs == {ch \in DOMAIN flat.at : flat.at[ch][Len(Pron[ch.link.wid])][case.n].score # NoScore}
           of(e) == {ch \in outs : /\ <<ch.link.wid, ch.link.from, ch.link.to>> = <<e.link.wid, e.link.from, e.link.to>>
                                   /\ ~Single(ch.link) => ch.rc \in e.rc}
           out(ch) == flat.at[ch][Len(Pron[ch.link.wid])][case.n]
       IN /\ \A e \in offered : \E ch \in of(e) :
               (~case.wide /\ e.score < out(ch).score) \/ (e.score = out(ch).score /\ WordBefore(e) \in out(ch).from)
          /\ case.wide => \A ch \in outs : \E e \in offered : ch \in of(e) /\ e.score >= out(ch).score
  /\ phase \in {"between", "idle"} /\ entries # <<>> /\ frame > 0 =>
       LET f == Last(entries).frame
       IN /\ Hypothesis # NoEntry /\ f >= 0 =>
               /\ \E x \in FlatScores(f) : entries[Hypothesis].score <= x
               /\ entries[Hypothesis].link.to # fsg.final =>
                    \A b \in Range(LastEntries(entries)) :
                      entries[b].link.to = fsg.final => entries[b].score # entries[Hypothesis].score
          /\ case.wide =>
               /\ \A k \in f + 1 .. frame - 1 : \A x \in flat.ends[k + 1] : x.score = NoScore
               /\ f >= 0 => IF FlatScores(f) = {} THEN Hypothesis = NoEntry
                            ELSE Hypothesis # NoEntry /\ entries[Hypothesis].score = Max(FlatScores(f))
============================================================================
