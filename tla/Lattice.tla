------------------------------ MODULE Lattice ------------------------------
(***************************************************************************)
(* The word lattice (src/ps_lattice.c): a search links nodes into a graph  *)
(* from dag->start to dag->end, and a client walks it, asks for the best   *)
(* path, for posteriors and for alternatives one by one (A* search), and   *)
(* prunes it.  All of these share one queue of links, and one field in     *)
(* every node, info, in which a traversal counts links still to be seen    *)
(* and the A* search keeps its estimates.                                  *)
(* Nodes are numbered in the order of time; a link is the pair of its      *)
(* nodes.  Scores are integers and add up; alpha, beta and norm are        *)
(* weights that multiply, so that logmath_add is a sum.  The score of the  *)
(* word of the end node is left out: it is in every path.                  *)
(***************************************************************************)
EXTENDS Integers, Sequences, FiniteSets, SequencesExt, FiniteSetsExt, Functions

CONSTANTS NNodes,      \* nodes of the search, 1 is dag->start and NNodes dag->end
          Word,        \* node->basewid, a function of the nodes
          Fillers,     \* words that are fillers
          Scores,      \* the values ascr of a link may have, for each pair of nodes
          Weight,      \* the weight of a score
          Bigram, Trigram,  \* ngram_bg_score and ngram_tg_score of a word and those before
          Prob,        \* ngram_ng_prob of a word after a word, a weight
          Beams,       \* thresholds of pruning, in per cent
          MaxPaths,    \* MAX_PATHS
          Earlies,     \* which nodes may be those of the start frame
          MaxLinks,    \* bound: links of a lattice
          Tolerated    \* what the client does, of Hazards

\* Uses that the code accepts and does not serve as it should; each is excluded
\* from the client's behaviour unless Tolerated has it.
Hazards == {"orphans",          \* pruning all entries of a node and not all exits
            "start pruned",     \* pruning all paths
            "shared info"}      \* a traversal and an A* search at the same time

Start == 1
End == NNodes
AllNodes == 1 .. NNodes
AllLinks == {l \in AllNodes \X AllNodes : l[1] < l[2]}
From(l) == l[1]
To(l) == l[2]
NoLink == <<0, 0>>
NoWord == "none"
WORST_SCORE == -1000
Unknown == 1

ASSUME LatticeAssumption ==
  /\ NNodes \in Nat \ {0, 1} /\ MaxPaths \in Nat \ {0} /\ MaxLinks \in Nat
  /\ NoWord \notin Range(Word)
  /\ \A l \in AllLinks : \A s \in Scores[l] : s \in Int /\ s <= 0 /\ Weight[s] \in Nat
  /\ \A early \in Earlies : Start \in early /\ early \subseteq AllNodes \ {End}
  /\ Tolerated \subseteq Hazards

VARIABLES
  dag,      \* nodes, those of the start frame, exits and entries, ascr of each link
  stage,    \* how far the dag is: building, built, bestpath, posterior
  fwd,      \* path_scr, best_prev and alpha of each link, as the last bestpath left them
  norm, beta,
  last,     \* the last link of the best path
  lmset,    \* bestpath was asked for with a language model
  info,     \* node->info: fanin or rem_score
  queue,    \* dag->q_head
  walk,     \* the traversal of the client: none, forward or reverse
  seen,     \* history: the links it was given
  astar,    \* the paths of the A* search, best first, with a language model or not
  results   \* history: what it returned

scores == <<fwd, norm, beta, last, lmset>>
walking == <<queue, walk, seen>>
nbest == <<astar, results>>
vars == <<dag, stage, scores, info, walking, nbest>>

May(hazard) == hazard \in Tolerated
Links(d) == UNION {Range(d.exits[n]) : n \in d.nodes}

---------------------------------------------------------------------------
(* Building.  The lattice of a grammar search may have several words in the start frame;
   its dag->start is then an artificial node, linked to each of them. *)

ArtificialStart(d) == d.early # {Start}

\* Link l may come after link x: ngram_search_lattice goes from the end backwards,
\* fsg_search_lattice along the history, then find_start_node links the artificial start,
\* and find_end_node may link an artificial end.
Order(l) == NNodes * (NNodes - To(l)) + NNodes - From(l)
MayComeAfter(d, l, x) ==
  IF ~ArtificialStart(d) THEN Order(x) <= Order(l)
  ELSE \/ From(x) # Start /\ (From(l) = Start \/ To(x) <= To(l))
       \/ From(x) = Start /\ From(l) = Start /\ To(x) <= To(l)
       \/ From(x) = Start /\ To(l) = End

\* The links of a lattice with an artificial start: epsilons from it to the words of the
\* start frame with exits, and nothing else into these.
LinksOfStart(d, l, score) ==
  IF From(l) = Start THEN To(l) \in d.early /\ d.exits[To(l)] # <<>> /\ score = 0
  ELSE To(l) \notin d.early

\* ps_lattice_link: one link between two nodes, with the best score.
Linked(d, l, score) ==
  IF l \in Range(d.exits[From(l)])
  THEN [d EXCEPT !.ascr[l] = IF score > @ THEN score ELSE @]
  ELSE [d EXCEPT !.exits[From(l)] = <<l>> \o @, !.entries[To(l)] = <<l>> \o @,
                 !.ascr[l] = score]

\* dag_mark_reachable from the end: the nodes from which it is reached, the least set with
\* the end and, with a node, those before it.
EndAndBefore(d, ns) == End \in ns /\ \A n \in ns : \A l \in Range(d.entries[n]) : From(l) \in ns
Reaching(d) == {n \in AllNodes : \A ns \in SUBSET AllNodes : EndAndBefore(d, ns) => n \in ns}

\* The nodes reached from dag->start.
StartAndAfter(d, ns) == Start \in ns /\ \A n \in ns : \A l \in Range(d.exits[n]) : To(l) \in ns
Reached(d) == {n \in AllNodes : \A ns \in SUBSET AllNodes : StartAndAfter(d, ns) => n \in ns}

\* The links of a list that are in a set.
Selected(list, set) ==
  LET upTo[i \in 0 .. Len(list)] ==
        IF i = 0 THEN <<>>
        ELSE IF list[i] \in set THEN Append(upTo[i - 1], list[i]) ELSE upTo[i - 1]
  IN upTo[Len(list)]

\* Mutant of Kept: links that go nowhere stay among the exits of a node.
KeptExits(d, ns) ==
  [d EXCEPT !.nodes = ns,
            !.exits = [n \in AllNodes |-> IF n \notin ns THEN <<>> ELSE d.exits[n]],
            !.entries = [n \in AllNodes |-> IF n \notin ns THEN <<>>
                                            ELSE Selected(d.entries[n], {l \in AllLinks : From(l) \in ns})]]

\* ps_lattice_delete_unreachable: the nodes ns are left, and the links between them.
Kept(d, ns) ==
  [d EXCEPT !.nodes = ns,
            !.exits = [n \in AllNodes |-> IF n \notin ns THEN <<>>
                                          ELSE Selected(d.exits[n], {l \in AllLinks : To(l) \in ns})],
            !.entries = [n \in AllNodes |-> IF n \notin ns THEN <<>>
                                            ELSE Selected(d.entries[n], {l \in AllLinks : From(l) \in ns})]]

---------------------------------------------------------------------------
(* Traversal.  A state of it is a queue, the counts, and the link it gives. *)

Counts(lists) == [n \in AllNodes |-> Len(lists[n])]

\* ps_lattice_traverse_edges and ps_lattice_reverse_edges, before the first link.
Forward(d) == [q |-> d.exits[Start], info |-> Counts(d.entries), link |-> NoLink]
Backward(d) == [q |-> d.entries[End], info |-> Counts(d.exits), link |-> NoLink]

\* A link off the queue and the node behind it: when all links there have been seen the
\* next ones follow, unless it is the goal, which empties the queue.
Pulled(t, n, goal, lists) ==
  LET fanin == t.info[n] - 1
  IN [q |-> IF fanin # 0 THEN Tail(t.q) ELSE IF n = goal THEN <<>> ELSE Tail(t.q) \o lists[n],
      info |-> [t.info EXCEPT ![n] = fanin],
      link |-> Head(t.q)]

\* Mutant of ForwardNext: a node is left with the first link into it.
ForwardEager(d, t) ==
  LET n == To(Head(t.q))
  IN Pulled([t EXCEPT !.info[n] = 1], n, End, d.exits)

\* ps_lattice_traverse_next and ps_lattice_reverse_next, of a queue not empty.
ForwardNext(d, t) == Pulled(t, To(Head(t.q)), End, d.exits)
ReverseNext(d, t) == Pulled(t, From(Head(t.q)), Start, d.entries)

\* A whole traversal: the links in order, and what is left in info.
Further(w, t) == [t |-> t, seen |-> Append(w.seen, t.link)]
OneForward(d, w) == IF w.t.q = <<>> THEN w ELSE Further(w, ForwardNext(d, w.t))
OneReverse(d, w) == IF w.t.q = <<>> THEN w ELSE Further(w, ReverseNext(d, w.t))
AllForward(d) ==
  LET after[i \in 0 .. Cardinality(AllLinks)] ==
        IF i = 0 THEN [t |-> Forward(d), seen |-> <<>>] ELSE OneForward(d, after[i - 1])
  IN after[Cardinality(AllLinks)]
AllReverse(d) ==
  LET after[i \in 0 .. Cardinality(AllLinks)] ==
        IF i = 0 THEN [t |-> Backward(d), seen |-> <<>>] ELSE OneReverse(d, after[i - 1])
  IN after[Cardinality(AllLinks)]

---------------------------------------------------------------------------
(* Words before a link on the best path to it. *)

FillerAt(n) == Word[n] \in Fillers /\ n \notin {Start, End}

\* The last link, back from l by best_prev, that leaves a word.
BackTo(prev, l) ==
  FoldLeft(LAMBDA m, i : IF FillerAt(From(m)) /\ prev[m] # NoLink THEN prev[m] ELSE m,
           l, [i \in AllNodes |-> i])
WordAt(m) == IF FillerAt(From(m)) THEN NoWord ELSE Word[From(m)]

\* The two words before what follows link l: w2 and w3 of ps_lattice_bestpath.
WordsBefore(prev, l) ==
  LET m == BackTo(prev, l)
  IN IF ~FillerAt(To(l)) THEN <<Word[To(l)], WordAt(m)>>
     ELSE <<WordAt(m), IF prev[m] = NoLink THEN NoWord ELSE WordAt(BackTo(prev, prev[m]))>>

\* The language score of word w after w2 and w3.
LMScore(w, w2, w3) == IF w3 = NoWord THEN Bigram[w, w2] ELSE Trigram[w, w2, w3]

\* bprob: the bigram probability of the word that link l leads to.
BProb(lm, prev, l) ==
  LET w == WordAt(BackTo(prev, l))
  IN IF lm /\ ~FillerAt(To(l)) /\ w # NoWord THEN Prob[Word[To(l)], w] ELSE 1

---------------------------------------------------------------------------
(* ps_lattice_bestpath and ps_lattice_posterior. *)

NoScores == [path_scr |-> [l \in AllLinks |-> WORST_SCORE],
             best_prev |-> [l \in AllLinks |-> NoLink], alpha |-> [l \in AllLinks |-> 0]]

\* What the links out of dag->start begin with.
FirstScores(d, lm) ==
  LET first(l) == l \in Range(d.exits[Start])
  IN [path_scr |-> [l \in AllLinks |->
         IF ~first(l) THEN WORST_SCORE
         ELSE d.ascr[l] + (IF lm /\ ~FillerAt(To(l)) THEN Bigram[Word[To(l)], Word[Start]] ELSE 0)],
      best_prev |-> [l \in AllLinks |-> NoLink],
      alpha |-> [l \in AllLinks |-> IF first(l) THEN 1 ELSE 0]]

\* The path score of link x after link l.
ScoreAfter(d, lm, f, l, x) ==
  LET w == WordsBefore(f.best_prev, l)
  IN f.path_scr[l] + d.ascr[x]
     + (IF lm /\ ~FillerAt(To(x)) /\ w[1] # NoWord THEN LMScore(Word[To(x)], w[1], w[2]) ELSE 0)

\* Mutant of Updated: the path is that of the last link looked at.
UpdatedLast(d, lm, f, l) ==
  LET after == Range(d.exits[To(l)])
      alpha == f.alpha[l] * Weight[d.ascr[l]]
  IN [path_scr |-> [x \in AllLinks |-> IF x \notin after THEN f.path_scr[x]
                      ELSE Max({f.path_scr[x], ScoreAfter(d, lm, f, l, x)})],
      best_prev |-> [x \in AllLinks |-> IF x \in after THEN l ELSE f.best_prev[x]],
      alpha |-> [x \in AllLinks |-> IF x = l THEN alpha
                   ELSE IF x \notin after THEN f.alpha[x]
                   ELSE f.alpha[x] + alpha * BProb(lm, f.best_prev, l)]]

\* Link l has been reached: what that means for the links behind it.
Updated(d, lm, f, l) ==
  LET after == Range(d.exits[To(l)])
      better(x) == x \in after /\ ScoreAfter(d, lm, f, l, x) > f.path_scr[x]
      alpha == f.alpha[l] * Weight[d.ascr[l]]
  IN [path_scr |-> [x \in AllLinks |->
                      IF better(x) THEN ScoreAfter(d, lm, f, l, x) ELSE f.path_scr[x]],
      best_prev |-> [x \in AllLinks |-> IF better(x) THEN l ELSE f.best_prev[x]],
      alpha |-> [x \in AllLinks |-> IF x = l THEN alpha
                   ELSE IF x \notin after THEN f.alpha[x]
                   ELSE f.alpha[x] + alpha * BProb(lm, f.best_prev, l)]]

\* The best of the links into the end, the first of equal ones; none if none has a score.
BetterEnd(f, best, l) ==
  IF best = NoLink /\ f.path_scr[l] > WORST_SCORE THEN l
  ELSE IF best # NoLink /\ f.path_scr[l] > f.path_scr[best] THEN l ELSE best
BestEnd(d, f) == FoldLeft(LAMBDA best, l : BetterEnd(f, best, l), NoLink, d.entries[End])

Norm(d, lm, f) ==
  FoldLeft(LAMBDA sum, l : sum + f.alpha[l] * BProb(lm, f.best_prev, l), 0, d.entries[End])

\* Mutant of BetaOf: the score of the link itself, not of the one behind it.
BetaOfSelf(d, lm, f, b, l) ==
  IF To(l) = End THEN BProb(lm, f.best_prev, l)
  ELSE FoldLeft(LAMBDA sum, x : sum + b[x] * BProb(lm, f.best_prev, l) * Weight[d.ascr[l]],
                0, d.exits[To(l)])

\* The beta of link l from those behind it.
BetaOf(d, lm, f, b, l) ==
  IF To(l) = End THEN BProb(lm, f.best_prev, l)
  ELSE FoldLeft(LAMBDA sum, x : sum + b[x] * BProb(lm, f.best_prev, l) * Weight[d.ascr[x]],
                0, d.exits[To(l)])
Betas(d, lm, f, links) ==
  FoldLeft(LAMBDA b, l : [b EXCEPT ![l] = BetaOf(d, lm, f, b, l)],
           [l \in AllLinks |-> 0], links)

---------------------------------------------------------------------------
(* The A* search over paths: a path is its nodes and its score. *)

LastNode(p) == Last(p.nodes)
Total(inf, p) == p.score + inf[LastNode(p)]

\* best_rem_score of every node reached: the best score from it to the end.
Remaining(d, lm) ==
  FoldLeft(LAMBDA rem, i :
             LET n == NNodes + 1 - i
                 after == {rem[To(l)] + d.ascr[l]
                             + (IF lm THEN Bigram[Word[To(l)], Word[n]] ELSE 0) :
                             l \in Range(d.exits[n])}
             IN IF n = End THEN rem ELSE [rem EXCEPT ![n] = Max(after \cup {WORST_SCORE})],
           [n \in AllNodes |-> IF n = End THEN 0 ELSE Unknown], [i \in AllNodes |-> i])

\* Mutant of Inserted: the list is full with one path less.
InsertedShort(inf, paths, p) ==
  LET worse == {i \in 1 .. Len(paths) : Total(inf, paths[i]) < Total(inf, p)}
      i == Min(worse \cup {Len(paths) + 1})
  IN IF i < MaxPaths THEN InsertAt(paths, i, p) ELSE SubSeq(paths, 1, MaxPaths - 1)

\* path_insert: behind the paths that are at least as good; not behind MAX_PATHS, where
\* the list is then cut.
Inserted(inf, paths, p) ==
  LET worse == {i \in 1 .. Len(paths) : Total(inf, paths[i]) < Total(inf, p)}
      i == Min(worse \cup {Len(paths) + 1})
  IN IF i <= MaxPaths THEN InsertAt(paths, i, p) ELSE SubSeq(paths, 1, MaxPaths)

\* Path p goes on over link l.
Longer(d, lm, p, l) ==
  [nodes |-> Append(p.nodes, To(l)),
   score |-> p.score + d.ascr[l]
     + (IF ~lm THEN 0
        ELSE IF Len(p.nodes) = 1 THEN Bigram[Word[To(l)], Word[From(l)]]
        ELSE Trigram[Word[To(l)], Word[From(l)], Word[p.nodes[Len(p.nodes) - 1]]])]

\* path_extend over one link: not to a node from which the end is not reached, and not a
\* path worse than the worst of a full list.
ExtendedBy(d, lm, inf, p, paths, l) ==
  LET longer == Longer(d, lm, p, l)
  IN IF \/ inf[To(l)] <= WORST_SCORE
        \/ Len(paths) >= MaxPaths /\ Total(inf, longer) < Total(inf, Last(paths))
     THEN paths ELSE Inserted(inf, paths, longer)
Extended(d, lm, inf, paths, p) ==
  FoldLeft(LAMBDA ps, l : ExtendedBy(d, lm, inf, p, ps, l), paths, d.exits[LastNode(p)])

\* The loop of ps_astar_next: paths are extended until the best is complete or none is
\* left.
Complete(paths) == paths = <<>> \/ LastNode(Head(paths)) = End
Searched(d, lm, inf, paths) ==
  FoldLeft(LAMBDA ps, i : IF Complete(ps) THEN ps ELSE Extended(d, lm, inf, Tail(ps), Head(ps)),
           paths, [i \in 1 .. 2 ^ NNodes |-> i])

---------------------------------------------------------------------------
(* Pruning. *)

Share(l) == fwd.alpha[l] * beta[l]

\* A link is taken out of both lists it is in, which are turned round by that.
Cut(d, l) ==
  [d EXCEPT !.exits[From(l)] = Reverse(Selected(@, AllLinks \ {l})),
            !.entries[To(l)] = Reverse(Selected(@, AllLinks \ {l}))]

\* Those of some links that are below the beam are taken out, one after the other.
CutBelow(beam, links) ==
  LET after[i \in 0 .. Len(links)] ==
        IF i = 0 THEN dag
        ELSE IF 100 * Share(links[i]) < beam * norm THEN Cut(after[i - 1], links[i])
             ELSE after[i - 1]
  IN after[Len(links)]

\* ps_lattice_posterior_prune: links below the beam go, then the nodes from which the
\* end is not reached any more, of those whose links were looked at.
Pruned(beam) ==
  LET links == AllForward(dag).seen
      cut == CutBelow(beam, links)
      looked == {From(l) : l \in Range(links)}
  IN Kept(cut, Reaching(cut) \cup (dag.nodes \ looked))

---------------------------------------------------------------------------

NoSearch == [on |-> FALSE, lm |-> FALSE, paths |-> <<>>]

Init ==
  /\ \E early \in Earlies :
       dag = [nodes |-> AllNodes, early |-> early, exits |-> [n \in AllNodes |-> <<>>],
              entries |-> [n \in AllNodes |-> <<>>], ascr |-> [l \in AllLinks |-> 0]]
  /\ stage = "building"
  /\ fwd = NoScores /\ norm = 0 /\ beta = [l \in AllLinks |-> 0]
  /\ last = NoLink /\ lmset = FALSE
  /\ info = [n \in AllNodes |-> 0]
  /\ queue = <<>> /\ walk = "none" /\ seen = <<>>
  /\ astar = NoSearch /\ results = <<>>

\* A search links two nodes, in its order.
Link(l, score) ==
  /\ stage = "building"
  /\ \A x \in Links(dag) : MayComeAfter(dag, l, x)
  /\ ArtificialStart(dag) => LinksOfStart(dag, l, score)
  /\ Cardinality(Links(dag) \cup {l}) <= MaxLinks
  /\ dag' = Linked(dag, l, score)
  /\ UNCHANGED <<stage, scores, info, walking, nbest>>

\* The lattice is complete: "All nodes are reached from dag->start already" (or the
\* lattice is given up), and the rest are deleted.  One start node needs no artificial one.
Build ==
  /\ stage = "building"
  /\ ArtificialStart(dag) => Len(dag.exits[Start]) # 1
  /\ Start \in Reaching(dag)
  /\ Reaching(dag) \subseteq Reached(dag)
  /\ dag' = Kept(dag, Reaching(dag))
  /\ stage' = "built"
  /\ UNCHANGED <<scores, info, walking, nbest>>

\* The client's calls.  A traversal writes over the estimates of an A* search, and an
\* A* search over the counts of a traversal.
Built == stage # "building"
MayTraverse == Built /\ (astar.on => May("shared info"))
Traversed(t) == /\ info' = t.info /\ queue' = t.q
                /\ UNCHANGED astar /\ results' = IF astar.on THEN results ELSE <<>>

BestPath(lm) ==
  LET w == AllForward(dag)
      f == FoldLeft(LAMBDA g, l : Updated(dag, lm, g, l), FirstScores(dag, lm), w.seen)
  IN /\ MayTraverse
     /\ fwd' = f /\ last' = BestEnd(dag, f) /\ norm' = Norm(dag, lm, f)
     /\ lmset' = lm
     /\ Traversed(w.t) /\ walk' = "none" /\ seen' = <<>>
     /\ stage' = "bestpath"
     /\ UNCHANGED <<dag, beta>>

\* With the language model that bestpath was asked for with.
Posterior ==
  LET w == AllReverse(dag)
  IN /\ MayTraverse /\ stage = "bestpath"
     /\ beta' = Betas(dag, lmset, fwd, w.seen)
     /\ Traversed(w.t) /\ walk' = "none" /\ seen' = <<>>
     /\ stage' = "posterior"
     /\ UNCHANGED <<dag, fwd, norm, last, lmset>>

\* The client lets go of best path and A* search, whose links and nodes may be freed.
Prune(beam) ==
  LET d == Pruned(beam)
  IN /\ stage = "posterior" /\ ~astar.on
     /\ Start \notin d.nodes => May("start pruned")
     /\ Start \in d.nodes /\ ~(d.nodes \subseteq Reached(d)) => May("orphans")
     /\ dag' = d
     /\ Traversed(AllForward(dag).t) /\ walk' = "none" /\ seen' = <<>>
     /\ stage' = "built"
     /\ fwd' = NoScores /\ norm' = 0 /\ beta' = [l \in AllLinks |-> 0]
     /\ last' = NoLink /\ lmset' = FALSE

\* ps_lattice_traverse_edges, ps_lattice_reverse_edges and their _next.
Give(t) == Traversed(t) /\ seen' = Append(seen, t.link)
WalkStart(direction) ==
  /\ MayTraverse /\ stage = "built"
  /\ walk' = direction
  /\ LET t == IF direction = "forward" THEN ForwardNext(dag, Forward(dag))
              ELSE ReverseNext(dag, Backward(dag))
     IN Traversed(t) /\ seen' = <<t.link>>
  /\ UNCHANGED <<dag, stage, scores>>
WalkNext ==
  /\ walk # "none" /\ queue # <<>>
  /\ LET t == [q |-> queue, info |-> info, link |-> NoLink]
     IN Give(IF walk = "forward" THEN ForwardNext(dag, t) ELSE ReverseNext(dag, t))
  /\ UNCHANGED <<dag, stage, scores, walk>>

\* The paths a search begins with: one from every node of the start frame, in the order
\* of dag->nodes.
FirstPaths(d, inf) ==
  FoldLeft(LAMBDA ps, n : Inserted(inf, ps, [nodes |-> <<n>>, score |-> 0]), <<>>,
           SelectSeq(<<Start>> \o [i \in 1 .. NNodes - 1 |-> NNodes + 1 - i],
                     LAMBDA n : n \in d.nodes \cap d.early))

\* ps_astar_start for the whole utterance, as ps_nbest asks for it: with the language
\* model if the search is an n-gram search.
NBestStart(lm) ==
  /\ stage \in {"built", "posterior"}
  /\ walk # "none" /\ queue # <<>> => May("shared info")
  /\ lm => ~ArtificialStart(dag)
  /\ info' = Remaining(dag, lm)
  /\ astar' = [on |-> TRUE, lm |-> lm, paths |-> FirstPaths(dag, info')]
  /\ results' = <<>>
  /\ queue' = queue /\ walk' = "none" /\ seen' = <<>>
  /\ UNCHANGED <<dag, stage, scores>>

\* ps_astar_next.
NBestNext ==
  /\ astar.on
  /\ LET paths == Searched(dag, astar.lm, info, astar.paths)
     IN IF paths = <<>>
        THEN astar' = [NoSearch EXCEPT !.lm = astar.lm] /\ UNCHANGED results
        ELSE /\ astar' = [astar EXCEPT !.paths = Tail(paths)]
             /\ results' = Append(results, Head(paths))
  /\ UNCHANGED <<dag, stage, scores, info, walking>>

Next ==
  \/ \E l \in AllLinks : \E score \in Scores[l] : Link(l, score)
  \/ Build
  \/ \E lm \in BOOLEAN : BestPath(lm)
  \/ Posterior
  \/ \E beam \in Beams : Prune(beam)
  \/ \E direction \in {"forward", "reverse"} : WalkStart(direction)
  \/ WalkNext
  \/ \E lm \in BOOLEAN : NBestStart(lm)
  \/ NBestNext

Spec == Init /\ [][Next]_vars

---------------------------------------------------------------------------
(* What they promise.  The reference is the set of paths of the lattice. *)

\* The sequences of nodes from one of some to the end, each linked to the next.
PathsFrom(d, first) ==
  LET steps(ns) == {Append(pl[1], To(pl[2])) :
                      pl \in {pl \in ns \X Links(d) : Last(pl[1]) = From(pl[2])}}
      all == FoldLeft(LAMBDA ns, i : ns \cup steps(ns), {<<n>> : n \in first},
                      [i \in AllNodes |-> i])
  IN {p \in all : Last(p) = End}
Paths(d) == PathsFrom(d, {Start})
Alternatives(d) == PathsFrom(d, d.nodes \cap d.early)

LinksOf(p) == [i \in 1 .. Len(p) - 1 |-> <<p[i], p[i + 1]>>]
SumOf(f(_), seq) == FoldLeft(LAMBDA sum, x : sum + f(x), 0, seq)
ProductOf(f(_), seq) == FoldLeft(LAMBDA product, x : product * f(x), 1, seq)

\* The score of a path: its links, and with a language model the trigrams of its words.
WordsOf(p) == LET real == SelectSeq(p, LAMBDA n : ~FillerAt(n))
              IN [i \in DOMAIN real |-> Word[real[i]]]
PathScore(lm, p) ==
  LET w == WordsOf(p)
      trigram(i) == LMScore(w[i], w[i - 1], IF i > 2 THEN w[i - 2] ELSE NoWord)
  IN SumOf(LAMBDA l : dag.ascr[l], LinksOf(p))
     + (IF lm THEN SumOf(trigram, [i \in 1 .. Len(w) - 1 |-> i + 1]) ELSE 0)

\* The path back from a link by best_prev.
Backtrace(l) ==
  LET back == FoldLeft(LAMBDA b, i : IF fwd.best_prev[Head(b)] = NoLink THEN b
                                     ELSE <<fwd.best_prev[Head(b)]>> \o b,
                       <<l>>, [i \in AllNodes |-> i])
  IN [i \in DOMAIN back |-> From(back[i])] \o <<To(l)>>

\* "Verify that the same links are reachable via entries and exits" (test_posterior.c):
\* each link is once in the exits of one node and once in the entries of another, both
\* of the lattice, and every node is on a path, through linking and pruning.
LinksAgree ==
  /\ \A n \in AllNodes :
       /\ \A i, j \in DOMAIN dag.exits[n] : dag.exits[n][i] = dag.exits[n][j] => i = j
       /\ \A i, j \in DOMAIN dag.entries[n] : dag.entries[n][i] = dag.entries[n][j] => i = j
       /\ Range(dag.exits[n]) = {l \in Links(dag) : From(l) = n}
       /\ Range(dag.entries[n]) = {l \in Links(dag) : To(l) = n}
  /\ Built => \A l \in Links(dag) : From(l) \in dag.nodes /\ To(l) \in dag.nodes
  /\ Built => dag.nodes = Reached(dag) \cap Reaching(dag)

\* "Verify that forward iteration is properly ordered" and that both give all links: a
\* client that walks the lattice is given every link once, and none before all the
\* links into the node it leaves, or in reverse out of the node it enters.
WalksComplete ==
  walk # "none" =>
    /\ \A i, j \in DOMAIN seen : seen[i] = seen[j] => i = j
    /\ \A i \in DOMAIN seen :
         {l \in Links(dag) : IF walk = "forward" THEN To(l) = From(seen[i])
                             ELSE From(l) = To(seen[i])} \subseteq Range(SubSeq(seen, 1, i - 1))
    /\ queue = <<>> => Range(seen) = Links(dag)

\* "Find the best score from dag->start to end point of any link": the best path is a
\* path of the lattice with the score it is said to have, words before it looked up
\* across fillers; without a language model, and with one where no filler is in the way,
\* no path is better.
BestPathIsBest ==
  stage \in {"bestpath", "posterior"} =>
    /\ last # NoLink
    /\ Backtrace(last) \in Paths(dag)
    /\ fwd.path_scr[last] = PathScore(lmset, Backtrace(last))
    /\ ~lmset \/ (\A n \in dag.nodes : ~FillerAt(n)) =>
         \A p \in Paths(dag) : PathScore(lmset, p) <= fwd.path_scr[last]

\* "exact trigram scoring" (ps_lattice_bestpath): no path of the lattice is better.
TrigramsExact ==
  stage = "bestpath" => \A p \in Paths(dag) : PathScore(lmset, p) <= fwd.path_scr[last]

\* The weight of a path, each link with its bigram.
PathWeight(p) ==
  ProductOf(LAMBDA l : Weight[dag.ascr[l]] * BProb(lmset, fwd.best_prev, l), LinksOf(p))
WeightOf(ps) == FoldSet(LAMBDA p, sum : sum + PathWeight(p), 0, ps)

\* "Calculate link posterior probabilities on a word graph": alpha times beta of a link
\* is the weight of the paths over it, and norm that of all.
PosteriorsAreShares ==
  stage = "posterior" =>
    /\ norm = WeightOf(Paths(dag))
    /\ \A l \in Links(dag) :
         Share(l) = WeightOf({p \in Paths(dag) : l \in Range(LinksOf(p))})

\* "Find next best hypothesis of A* search" (lattice.h): alternatives are different paths
\* of the lattice with their scores, the first the best of all, none better than one
\* before it; with room for all of them each comes, before the search says it has no more.
\* A path begins at any node of the start frame, so that in the lattice of a grammar the
\* same words come with the artificial start and without: of the words it is not said that
\* they differ, "since often this is not the case" (ps_astar_next).
NBestInOrder ==
  LET Given == {results[i].nodes : i \in DOMAIN results}
  IN /\ \A i, j \in DOMAIN results : i < j =>
          /\ results[i].nodes # results[j].nodes
          /\ ~astar.lm => results[i].score >= results[j].score
     /\ astar.on /\ ~astar.lm => \A i \in DOMAIN results :
          /\ results[i].nodes \in Alternatives(dag)
          /\ results[i].score = PathScore(FALSE, results[i].nodes)
          /\ \A p \in Alternatives(dag) : PathScore(FALSE, p) <= results[1].score
     /\ results # <<>> /\ ~astar.on /\ Cardinality(Alternatives(dag)) <= MaxPaths =>
          Alternatives(dag) \subseteq Given
=============================================================================
