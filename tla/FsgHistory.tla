----------------------------- MODULE FsgHistory -----------------------------
(***************************************************************************)
(* The history of the grammar search (src/fsg_history.c, and what          *)
(* fsg_search.c does with it): the word exits of each frame compete in     *)
(* lists, one for a state of the grammar and a last phone, for the right   *)
(* contexts they serve; the survivors, and what null transitions make of   *)
(* them, become entries for good.  An entry is named by its place in the   *)
(* table, from 1; 0 is the code's -1.                                      *)
(***************************************************************************)
EXTENDS FsgLextree, FiniteSets

NoEntry == 0
NoLists == [s \in States |-> [lc \in Phones |-> <<>>]]

---------------------------------------------------------------------------
(* fsg_history_entry_add. *)

\* How many entries of a list are not worse than a score: the new one goes behind.
Ahead(list, score) ==
  Cardinality({i \in DOMAIN list : \A j \in 1 .. i : list[j].score >= score})

\* The contexts left to a new entry behind the first k.
Unserved(list, k, rc) == rc \ UNION {list[i].rc : i \in 1 .. k}

\* Mutant of Serving: an entry left without contexts stays.
ServingNot(list, rc) == [i \in DOMAIN list |-> [list[i] EXCEPT !.rc = @ \ rc]]

\* The worse entries without the contexts a better one serves, and without those
\* that serve none any more.
Serving(list, rc) ==
  SelectSeq([i \in DOMAIN list |-> [list[i] EXCEPT !.rc = @ \ rc]], LAMBDA e : e.rc # {})

InsertedAt(list, e, k) ==
  IF k > 0 /\ e.rc = {} THEN list
  ELSE SubSeq(list, 1, k) \o <<e>> \o Serving(SubSeq(list, k + 1, Len(list)), e.rc)

\* Mutant of Inserted: the entry keeps the contexts better ones serve.
InsertedWhole(list, e) ==
  LET k == Ahead(list, e.score)
      rc == Unserved(list, k, e.rc)
  IN IF rc = {} THEN list ELSE InsertedAt(list, e, k)

Inserted(list, e) ==
  LET k == Ahead(list, e.score)
  IN InsertedAt(list, [e EXCEPT !.rc = Unserved(list, k, @)], k)

Added(lists, e) == [lists EXCEPT ![e.link.to][e.lc] = Inserted(@, e)]

\* fsg_history_end_frame: the lists one after the other.
Transferred(lists) ==
  FlattenSeq([i \in 1 .. NStates * NPhones |->
                lists[(i - 1) \div NPhones][(i - 1) % NPhones]])

---------------------------------------------------------------------------
(* fsg_search_null_prop. *)

\* What link l makes of entry b of the table es.
Through(es, b, l) ==
  [link |-> l, frame |-> es[b].frame, score |-> es[b].score + l.prob, pred |-> b,
   lc |-> es[b].lc, rc |-> es[b].rc]

\* Mutant of Propagated: from all entries of the table.
PropagatedAll(es, first, nulls, thresh) ==
  LET made == [i \in 1 .. Len(es) * Len(nulls) |->
                 Through(es, 1 + (i - 1) \div Len(nulls), nulls[1 + ((i - 1) % Len(nulls))])]
  IN SelectSeq(made, LAMBDA e : es[e.pred].link.to = e.link.from /\ e.score >= thresh)

\* What the null transitions make of the entries from the first on.
Propagated(es, first, nulls, thresh) ==
  LET made == [i \in 1 .. (Len(es) + 1 - first) * Len(nulls) |->
                 Through(es, first + ((i - 1) \div Len(nulls)), nulls[1 + ((i - 1) % Len(nulls))])]
  IN SelectSeq(made, LAMBDA e : es[e.pred].link.to = e.link.from /\ e.score >= thresh)

\* The table es after null_prop and fsg_history_end_frame.
Closed(es, first, nulls, thresh) ==
  es \o Transferred(FoldLeft(Added, NoLists, Propagated(es, first, nulls, thresh)))

---------------------------------------------------------------------------
(* fsg_search_find_exit, for the last frame. *)

\* The entries of the last frame that has any, the last first, down to the dummy.
LastEntries(es) ==
  SelectSeq([i \in 1 .. Len(es) - 1 |-> Len(es) + 1 - i], LAMBDA b : es[b].frame = Last(es).frame)

\* Mutant of Preferred: a hypothesis of another state displaces an equal one.
PreferredLater(es, finalState, final, best, b) ==
  IF /\ es[b].link.to = finalState \/ ~final
     /\ best = NoEntry \/ es[b].score > es[best].score THEN b
  ELSE best

\* The better hypothesis of two; of equal ones the one in the final state, and the
\* earlier of these.
Preferred(es, finalState, final, best, b) ==
  IF best # NoEntry /\ es[b].score = es[best].score /\ es[b].link.to = finalState THEN b
  ELSE IF /\ best = NoEntry \/ es[b].score > es[best].score
          /\ ~final \/ es[b].link.to = finalState THEN b
  ELSE best

FindExit(es, finalState, final) ==
  FoldLeft(LAMBDA best, b : Preferred(es, finalState, final, best, b), NoEntry, LastEntries(es))
=============================================================================
