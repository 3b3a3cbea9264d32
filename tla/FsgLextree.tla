----------------------------- MODULE FsgLextree -----------------------------
(***************************************************************************)
(* The lexicon trees of the grammar search (src/fsg_lextree.c): the words  *)
(* that leave a state of the grammar share the HMMs of their phones but    *)
(* the last, which has one for each senone sequence of its right contexts. *)
(* A node is a record of what the search takes from it; words is the path  *)
(* to it, of the first two phones and the senone sequences so far.         *)
(***************************************************************************)
EXTENDS FsgModel

CONSTANTS NPhones,   \* n_ciphone
          Sil,       \* the phone of silence
          Pron,      \* the phones of each word
          CiSsid,    \* the senone sequence of a phone without context
          Ssid       \* of a phone between two

Phones == 0 .. NPhones - 1
NoTrans == Trans(0, 0, 0, NoWord)

IsDictFiller(w) == w = SilWord \/ w \in Range(Fillers)

\* The phones a word shows to the words before and after it.
FirstPhone(fsg, w) == IF IsFiller(fsg, w) THEN Sil ELSE Head(Pron[w])
LastPhone(fsg, w) == IF IsFiller(fsg, w) THEN Sil ELSE Last(Pron[w])

\* Mutant of Contexts: they are not propagated past null transitions.
ContextsHere(fsg) ==
  [lc |-> [s \in States |-> {Sil} \cup {LastPhone(fsg, l.wid) : l \in {k \in Range(fsg.words) : k.to = s}}],
   rc |-> [s \in States |-> {Sil} \cup {FirstPhone(fsg, l.wid) : l \in {k \in Range(fsg.words) : k.from = s}}]]

\* fsg_lextree_lc_rc: the phones before and after each state, one null transition after
\* another.
Contexts(fsg) ==
  LET here == [lc |-> [s \in States |-> {Sil} \cup {LastPhone(fsg, l.wid) : l \in {k \in Range(fsg.words) : k.to = s}}],
               rc |-> [s \in States |-> {Sil} \cup {FirstPhone(fsg, l.wid) : l \in {k \in Range(fsg.words) : k.from = s}}]]
  IN FoldLeft(LAMBDA cs, l : [lc |-> [cs.lc EXCEPT ![l.to] = @ \cup cs.lc[l.from]],
                              rc |-> [cs.rc EXCEPT ![l.from] = @ \cup cs.rc[l.to]]],
              here, fsg.nulls)

---------------------------------------------------------------------------
(* psubtree_add_trans. *)

\* Words of one phone have a node for each senone sequence of their left contexts, fillers
\* one for all.
Singles(l, cs, pen) ==
  LET c == Head(Pron[l.wid])
      node(x, ctxt, ext) == [from |-> l.from, head |-> <<>>, path |-> <<x>>, ctxt |-> ctxt, ext |-> ext,
                             prob |-> l.prob + pen.wip + pen.pip, leaf |-> TRUE, link |-> l]
  IN IF IsDictFiller(l.wid) THEN {node(CiSsid[c], Phones, Sil)}
     ELSE {node(x, {lc \in cs.lc[l.from] : Ssid[lc, c, Sil] = x}, c) : x \in {Ssid[lc, c, Sil] : lc \in cs.lc[l.from]}}

\* The nodes of a longer word up to its last phone.  The node looked for in ssid_pnode_map is
\* that of another sequence when there is none, and so the root has the sequence of the first
\* left context and serves all.
Chain(l, cs, pen) ==
  LET p == Pron[l.wid]
      ssids == [i \in 1 .. Len(p) - 1 |->
                  IF i = 1 THEN Ssid[Min(cs.lc[l.from]), p[1], p[2]] ELSE Ssid[p[i - 1], p[i], p[i + 1]]]
  IN [i \in 1 .. Len(p) - 1 |->
        [from |-> l.from, head |-> <<p[1], p[2]>>, path |-> SubSeq(ssids, 1, i),
         ctxt |-> IF i = 1 THEN cs.lc[l.from] ELSE {}, ext |-> IF i = 1 THEN p[1] ELSE Sil,
         prob |-> IF i = 1 THEN pen.wip + pen.pip ELSE pen.pip, leaf |-> FALSE, link |-> NoTrans]]

\* Mutant of Leaves: the score of the transition is left out.
LeavesFree(l, cs, pen) ==
  LET p == Pron[l.wid]
      x(rc) == Ssid[p[Len(p) - 1], Last(p), rc]
  IN {[from |-> l.from, head |-> <<p[1], p[2]>>, path |-> <<y>>, ctxt |-> {rc \in cs.rc[l.to] : x(rc) = y},
       ext |-> Last(p), prob |-> pen.pip, leaf |-> TRUE, link |-> l] :
        y \in {x(rc) : rc \in cs.rc[l.to]}}

\* Its last phone, for each senone sequence of its right contexts.
Leaves(l, cs, pen) ==
  LET p == Pron[l.wid]
      x(rc) == Ssid[p[Len(p) - 1], Last(p), rc]
  IN {[from |-> l.from, head |-> <<p[1], p[2]>>, path |-> <<y>>, ctxt |-> {rc \in cs.rc[l.to] : x(rc) = y},
       ext |-> Last(p), prob |-> l.prob + pen.pip, leaf |-> TRUE, link |-> l] :
        y \in {x(rc) : rc \in cs.rc[l.to]}}

SsidOf(nd) == Last(nd.path)

\* A word in the trees: its nodes that are not there come first, its leaves last.
TransInTree(t, l, cs, pen) ==
  IF Len(Pron[l.wid]) = 1
  THEN [t EXCEPT !.roots[l.from] = SetToSeq(Singles(l, cs, pen)) \o @]
  ELSE LET ch == Chain(l, cs, pen)
           shared == {i \in DOMAIN ch : ch[i] \in t.nodes}
           under(nds, i) == (IF i + 1 \in DOMAIN ch /\ i + 1 \notin shared THEN <<ch[i + 1]>> ELSE <<>>) \o nds
                            \o IF i = Len(ch) THEN SetToSeq(Leaves(l, cs, pen)) ELSE <<>>
           at(nd) == CHOOSE i \in DOMAIN ch : ch[i] = nd
       IN [roots |-> IF 1 \in shared THEN t.roots ELSE [t.roots EXCEPT ![l.from] = <<ch[1]>> \o @],
           nodes |-> t.nodes \cup Range(ch),
           succ |-> [nd \in t.nodes \cup Range(ch) |->
                       LET old == IF nd \in t.nodes THEN t.succ[nd] ELSE <<>>
                       IN IF nd \in Range(ch) THEN under(old, at(nd)) ELSE old]]

\* fsg_lextree_init: roots by state, nodes that are no leaves, and their successors.
Lextree(fsg, pen) ==
  LET cs == Contexts(fsg)
  IN FoldLeft(LAMBDA t, l : TransInTree(t, l, cs, pen),
              [roots |-> [s \in States |-> <<>>], nodes |-> {}, succ |-> <<>>], fsg.words)

AllNodes(t) == t.nodes \cup UNION {Range(t.roots[s]) : s \in States} \cup UNION {Range(t.succ[nd]) : nd \in t.nodes}
=============================================================================
