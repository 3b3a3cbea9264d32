--------------------------- MODULE FwdTree_proofs ---------------------------
(***************************************************************************)
(* Theorems about the backpointer table and the first pass, which fills    *)
(* it.  For every dictionary, table size and beam, the rows of the table   *)
(* are ordered by frame, one for each word of a frame, and every path in   *)
(* it goes back in time to <s>; a row has the best exit of its word; the   *)
(* maxwpf pruning keeps what it should; and what is read at the end of an  *)
(* utterance was written in its last pass.  The tree search uses the table *)
(* as BPTable says, for every topology and language model: what is proved  *)
(* of the table holds in it.                                               *)
(***************************************************************************)
EXTENDS FwdTree, FiniteSetTheorems, TLAPS

Phases == {"idle", "frame", "between", "failed", "done"}

\* What the types leave open: bounds, and what the marks and word_lat_idx are when.
Counts ==
  /\ phase \in Phases /\ pass \in {1, 2}
  /\ table_size \in Nat \ {0} /\ stack_size \in Nat /\ n_alloc \in Nat \ {0}
  /\ stack_size >= NPhones \/ (bss_head = 0 /\ 2 * stack_size >= NPhones)
  /\ pass = 1 => n_frame <= frame
  /\ phase = "frame" => frame < MaxFrames
  /\ DOMAIN idx = IF phase \in {"frame", "done"} THEN 0 .. frame ELSE 0 .. frame - 1

RowsMarked ==
  \A b \in DOMAIN table : table[b].frame \in DOMAIN idx

\* The row of a word in word_lat_idx is its exit of the frame being searched.
LatestExits ==
  /\ \A w \in Words : lat[w] # NO_BP =>
       phase = "frame" /\ table[lat[w]].wid = w /\ table[lat[w]].frame = frame
  /\ phase = "frame" => \A b \in DOMAIN table :
       table[b].frame = frame => lat[table[b].wid] = b

IInv == TypeOK /\ Counts /\ EntriesByFrame /\ RowsMarked /\ LatestExits /\ PathsGoBack

\* A mark leaves room for itself, and the rows in use are before it.
LEMMA MarkKeeps ==
  ASSUME TypeOK, Counts, EntriesByFrame, RowsMarked,
         phase \in {"between", "failed"}, Mark, UNCHANGED <<table, bpidx>>
  PROVE  /\ n_alloc' \in Nat \ {0}
         /\ DOMAIN idx' = 0 .. frame
         /\ \A f \in 0 .. frame : f \in 0 .. n_alloc' - 1 /\ idx'[f] \in 0 .. bpidx
         /\ \A b \in DOMAIN table : \A f \in 0 .. frame :
              idx'[f] <= b <=> f <= table[b].frame
<1>1. frame \in Nat /\ n_alloc \in Nat \ {0} /\ bpidx \in Nat
  BY DEF TypeOK, Counts
<1>2. DOMAIN idx = 0 .. frame - 1
  BY DEF Counts
<1>3. DOMAIN idx' = 0 .. frame
  BY <1>1, <1>2 DEF Mark, Marked
<1>4. \A f \in 0 .. frame : idx'[f] = IF f = frame THEN bpidx ELSE idx[f]
  BY <1>1, <1>2 DEF Mark, Marked
<1>5. frame <= n_alloc
  <2>1. CASE frame = 0
    BY <1>1, <2>1
  <2>2. CASE frame > 0
    <3>1. frame - 1 \in DOMAIN idx
      BY <1>1, <1>2, <2>2
    <3>2. QED BY <1>1, <3>1 DEF TypeOK
  <2>3. QED BY <1>1, <2>1, <2>2
<1>6. n_alloc' \in Nat \ {0} /\ n_alloc' >= n_alloc /\ frame < n_alloc'
  <2>1. n_alloc' = IF frame >= n_alloc THEN 2 * n_alloc ELSE n_alloc
    BY DEF Mark
  <2>2. CASE frame >= n_alloc
    BY <1>1, <1>5, <2>1, <2>2
  <2>3. CASE frame < n_alloc
    BY <1>1, <2>1, <2>3
  <2>4. frame >= n_alloc \/ frame < n_alloc
    BY <1>1
  <2>5. QED BY <2>2, <2>3, <2>4
<1>7. \A f \in 0 .. frame : f \in 0 .. n_alloc' - 1 /\ idx'[f] \in 0 .. bpidx
  <2> SUFFICES ASSUME NEW f \in 0 .. frame
               PROVE  f \in 0 .. n_alloc' - 1 /\ idx'[f] \in 0 .. bpidx
    OBVIOUS
  <2> DEFINE m == n_alloc'
  <2> HIDE DEF m
  <2>0. m \in Nat /\ frame < m
    BY <1>6 DEF m
  <2>1. f \in 0 .. n_alloc' - 1
    <3>1. f \in 0 .. m - 1
      BY <1>1, <2>0
    <3>2. QED BY <3>1 DEF m
  <2>2. CASE f = frame
    BY <1>1, <1>4, <2>1, <2>2
  <2>3. CASE f # frame
    <3>1. f \in DOMAIN idx /\ idx'[f] = idx[f]
      BY <1>1, <1>2, <1>4, <2>3
    <3>2. QED BY <2>1, <3>1 DEF TypeOK
  <2>4. QED BY <2>2, <2>3
<1>8. ASSUME NEW b \in DOMAIN table, NEW f \in 0 .. frame
      PROVE  idx'[f] <= b <=> f <= table[b].frame
  <2>1. b \in 0 .. bpidx - 1 /\ table[b].frame \in 0 .. frame - 1
    BY <1>1, <1>2 DEF TypeOK, RowsMarked
  <2>2. CASE f = frame
    BY <1>1, <1>4, <2>1, <2>2
  <2>3. CASE f # frame
    <3>1. f \in DOMAIN idx /\ idx'[f] = idx[f]
      BY <1>1, <1>2, <1>4, <2>3
    <3>2. QED BY <3>1 DEF EntriesByFrame
  <2>4. QED BY <2>2, <2>3
<1>9. \A b \in DOMAIN table : \A f \in 0 .. frame :
         idx'[f] <= b <=> f <= table[b].frame
  BY <1>8
<1>10. QED BY <1>3, <1>6, <1>7, <1>9

\* An empty table satisfies what is said of rows.
LEMMA EmptyTable ==
  ASSUME table = <<>>
  PROVE  EntriesByFrame /\ RowsMarked /\ PathsGoBack /\ DOMAIN table = {}
BY DEF EntriesByFrame, RowsMarked, PathsGoBack

LEMMA EmptiedTable ==
  ASSUME table' = <<>>
  PROVE  EntriesByFrame' /\ RowsMarked' /\ PathsGoBack' /\ DOMAIN table' = {}
BY DEF EntriesByFrame, RowsMarked, PathsGoBack

\* The invariant holds of a new search.
LEMMA InitInvariant == Init => IInv
<1> SUFFICES ASSUME Init PROVE IInv
  OBVIOUS
<1> USE BPTableAssumption
<1>1. EntriesByFrame /\ RowsMarked /\ PathsGoBack /\ DOMAIN table = {}
  BY EmptyTable DEF Init
<1>2. LatestExits
  BY <1>1 DEF Init, LatestExits, NO_BP
<1>3. LatSize * StackPerEntry \in Nat /\ 2 * (LatSize * StackPerEntry) >= NPhones
  BY SMT
<1>4. Counts
  BY <1>3 DEF Init, Counts, Phases
<1>5. TypeOK
  BY <1>3 DEF Init, TypeOK, NO_BP
<1>6. QED BY <1>1, <1>2, <1>4, <1>5 DEF IInv

\* ---- the changes to a row ----

\* A row that a better exit of its word changes keeps its type, word and frame; its
\* path is the old or the new one.
LEMMA ImprovedRow ==
  ASSUME TypeOK, NEW b \in DOMAIN table, NEW score \in Scores,
         NEW path \in {NO_BP} \cup DOMAIN table,
         table[b].bp \in {NO_BP} \cup DOMAIN table
  PROVE  LET e == Improved(table[b], score, path)
         IN /\ e \in RowType /\ e.wid = table[b].wid /\ e.frame = table[b].frame
            /\ e.bp \in {table[b].bp, path}
<1> USE BPTableAssumption
<1>1. table[b] \in RowType /\ \A p \in DOMAIN table : table[p] \in RowType
  BY DEF TypeOK
<1>2. path \in Nat \cup {NO_BP}
  BY DEF TypeOK, NO_BP
<1>3. RealWid(table[b].wid, table[b].bp) \in Words
  BY <1>1 DEF RealWid, RowType
<1>4. PrevRealWid(table[b].wid, table[b].bp) \in Words \cup {BadWid}
  BY <1>1 DEF PrevRealWid, RowType
<1>5. QED BY <1>1, <1>2, <1>3, <1>4, ZenonT(30) DEF Improved, RowType

\* A further exit of a word changes its row only in score, path and language model
\* state.
LEMMA EnteredAgainKeeps ==
  ASSUME IInv, phase = "frame",
         NEW w \in Words, NEW rc, NEW score \in Scores,
         NEW path \in {NO_BP} \cup DOMAIN table,
         MayFollow(w, path), lat[w] # NO_BP, EnteredAgain(lat[w], rc, score, path),
         UNCHANGED <<idx, n_alloc, n_frame, frame, two_pass, total, pass, phase>>
  PROVE  IInv'
<1> DEFINE b0 == lat[w]
<1>1. /\ b0 \in DOMAIN table /\ table[b0].wid = w /\ table[b0].frame = frame
      /\ DOMAIN table = 0 .. bpidx - 1
  BY DEF IInv, TypeOK, LatestExits
<1>2. table[b0].bp \in {NO_BP} \cup DOMAIN table
  BY <1>1 DEF IInv, PathsGoBack
<1> DEFINE e == Improved(table[b0], score, path)
<1>3. /\ e \in RowType /\ e.wid = w /\ e.frame = frame
      /\ e.bp \in {table[b0].bp, path}
  BY <1>1, <1>2, ImprovedRow DEF IInv
<1>4. table' = [table EXCEPT ![b0] = e]
  BY DEF EnteredAgain
<1> HIDE DEF e
<1>5. /\ DOMAIN table' = DOMAIN table
      /\ \A b \in DOMAIN table : /\ table'[b].wid = table[b].wid
                                 /\ table'[b].frame = table[b].frame
                                 /\ table'[b] \in RowType
                                 /\ b # b0 => table'[b] = table[b]
      /\ table'[b0] = e
  BY <1>1, <1>3, <1>4 DEF IInv, TypeOK
<1>6. UNCHANGED <<bpidx, table_size, stack_size, bss_head, lat>>
  BY DEF EnteredAgain, room
<1>7. score \in Scores \cup {WORST_SCORE}
  OBVIOUS
<1>8. stack' \in [0 .. bss_head - 1 -> Scores \cup {WORST_SCORE}]
  BY <1>7 DEF EnteredAgain, IInv, TypeOK
<1>9. table' \in [0 .. bpidx - 1 -> RowType]
  BY <1>1, <1>4, <1>5
<1>10. TypeOK'
  BY <1>5, <1>6, <1>8, <1>9 DEF IInv, TypeOK
<1>11. Counts'
  BY <1>6 DEF IInv, Counts
<1>12. EntriesByFrame'
  BY <1>5 DEF IInv, EntriesByFrame
<1>13. RowsMarked'
  BY <1>5 DEF IInv, RowsMarked
<1>14. LatestExits'
  <2>1. \A v \in Words : lat[v] # NO_BP => lat[v] \in DOMAIN table
    BY DEF IInv, TypeOK
  <2>2. ASSUME NEW v \in Words, lat[v] # NO_BP
        PROVE  table'[lat[v]].wid = v /\ table'[lat[v]].frame = frame
    BY <1>5, <2>1, <2>2 DEF IInv, LatestExits
  <2>3. ASSUME NEW b \in DOMAIN table, table'[b].frame = frame PROVE lat[table'[b].wid] = b
    BY <1>5, <2>3 DEF IInv, LatestExits
  <2>4. QED BY <1>5, <1>6, <2>2, <2>3 DEF LatestExits
<1>15. PathsGoBack'
  <2> SUFFICES ASSUME NEW b \in DOMAIN table
               PROVE  IF table'[b].bp = NO_BP THEN table'[b].wid = StartWord
                      ELSE /\ table'[b].bp \in DOMAIN table
                           /\ table'[table'[b].bp].frame < table'[b].frame
    BY <1>5 DEF PathsGoBack
  <2>1. CASE b # b0
    BY <1>5, <2>1 DEF IInv, PathsGoBack
  <2>2. CASE b = b0 /\ e.bp = table[b0].bp
    BY <1>1, <1>3, <1>5, <2>2 DEF IInv, PathsGoBack
  <2>3. CASE b = b0 /\ e.bp = path
    <3>1. bpidx \in Nat /\ NO_BP \notin DOMAIN table
      BY <1>1 DEF NO_BP, IInv, TypeOK
    <3>2. IF path = NO_BP THEN w = StartWord
          ELSE path \in DOMAIN table /\ table[path].frame < frame
      BY DEF MayFollow
    <3>3. table'[b].bp = path /\ table'[b].wid = w /\ table'[b].frame = frame
      BY <1>3, <1>5, <2>3
    <3>4. path \in DOMAIN table => table'[path].frame = table[path].frame
      BY <1>5
    <3>5. QED BY <3>1, <3>2, <3>3, <3>4
  <2>4. QED BY <1>3, <2>1, <2>2, <2>3
<1>16. QED BY <1>10, <1>11, <1>12, <1>13, <1>14, <1>15 DEF IInv

\* The first exit of a word in a frame gets a row of its own, past the others.
LEMMA EnteredKeeps ==
  ASSUME IInv, phase = "frame",
         NEW w \in Words, NEW rc \in 0 .. Max({RcSize[w] - 1, 0}), NEW score \in Scores,
         NEW path \in {NO_BP} \cup DOMAIN table,
         MayFollow(w, path), lat[w] = NO_BP, Entered(w, rc, score, path),
         UNCHANGED <<idx, n_alloc, n_frame, frame, two_pass, total, pass, phase>>
  PROVE  IInv'
<1> USE BPTableAssumption
<1>1. /\ bpidx \in Nat /\ table_size \in Nat \ {0} /\ bpidx <= table_size
      /\ bss_head \in Nat /\ stack_size \in Nat /\ bss_head <= stack_size
      /\ frame \in Nat /\ DOMAIN table = 0 .. bpidx - 1
      /\ RcSize[w] \in 0 .. NPhones /\ NPhones \in Nat
  BY DEF IInv, TypeOK, Counts
<1> DEFINE r == Row(w, rc, score, path)
<1>2. r.wid = w /\ r.frame = frame /\ r.bp = path
  BY DEF Row
<1>3. r \in RowType
  <2>1. path \in Nat \cup {NO_BP} /\ \A p \in DOMAIN table : table[p] \in RowType
    BY <1>1 DEF IInv, TypeOK, NO_BP
  <2>2. RealWid(w, path) \in Words /\ PrevRealWid(w, path) \in Words \cup {BadWid}
    BY <2>1 DEF RealWid, PrevRealWid, RowType
  <2>3. QED BY <1>1, <2>1, <2>2 DEF Row, RowType
<1>4. table' = [b \in 0 .. bpidx |-> IF b = bpidx THEN r ELSE table[b]]
  BY DEF Entered
<1> HIDE DEF r
<1>5. bpidx' = bpidx + 1 /\ bss_head' = bss_head + RcSize[w]
      /\ lat' = [lat EXCEPT ![w] = bpidx]
  BY DEF Entered
<1>6. /\ DOMAIN table' = 0 .. bpidx /\ table'[bpidx] = r
      /\ \A b \in DOMAIN table : b # bpidx /\ table'[b] = table[b]
      /\ \A b \in DOMAIN table' : b # bpidx => b \in DOMAIN table
  BY <1>1, <1>4
<1>7. table' \in [0 .. bpidx' - 1 -> RowType]
  <2>1. \A b \in 0 .. bpidx - 1 : table[b] \in RowType
    BY DEF IInv, TypeOK
  <2>2. 0 .. bpidx' - 1 = 0 .. bpidx
    BY <1>1, <1>5
  <2>3. \A b \in 0 .. bpidx : b # bpidx => b \in 0 .. bpidx - 1
    BY <1>1
  <2>4. QED BY <1>3, <1>4, <2>1, <2>2, <2>3
<1>8. table_size' \in Nat \ {0} /\ bpidx' <= table_size'
  <2>1. table_size' = IF bpidx >= table_size THEN 2 * table_size ELSE table_size
    BY DEF Entered, GrownTable
  <2>2. CASE bpidx >= table_size
    BY <1>1, <1>5, <2>1, <2>2
  <2>3. CASE bpidx < table_size
    BY <1>1, <1>5, <2>1, <2>3
  <2>4. QED BY <1>1, <2>2, <2>3
<1>9. stack_size' \in Nat /\ stack_size' >= NPhones /\ bss_head' <= stack_size'
  <2>1. stack_size' = IF bss_head >= stack_size - NPhones THEN 2 * stack_size
                      ELSE stack_size
    BY DEF Entered, GrownStack
  <2>2. CASE bss_head >= stack_size - NPhones
    <3>1. stack_size >= NPhones \/ (bss_head = 0 /\ 2 * stack_size >= NPhones)
      BY DEF IInv, Counts
    <3>2. QED BY <1>1, <1>5, <2>1, <2>2, <3>1
  <2>3. CASE bss_head < stack_size - NPhones
    BY <1>1, <1>5, <2>1, <2>3
  <2>4. QED BY <1>1, <2>2, <2>3
<1>10. stack' \in [0 .. bss_head' - 1 -> Scores \cup {WORST_SCORE}]
  <2>1. \A i \in 0 .. bss_head - 1 : stack[i] \in Scores \cup {WORST_SCORE}
    BY DEF IInv, TypeOK
  <2>2. 0 .. bss_head' - 1 = 0 .. bss_head + RcSize[w] - 1
    BY <1>1, <1>5
  <2>3. stack' = [i \in 0 .. bss_head + RcSize[w] - 1 |->
                    IF i < bss_head THEN stack[i]
                    ELSE IF i = bss_head + rc THEN score ELSE WORST_SCORE]
    BY DEF Entered
  <2>4. \A i \in 0 .. bss_head + RcSize[w] - 1 : i < bss_head => i \in 0 .. bss_head - 1
    BY <1>1
  <2>5. QED BY <2>1, <2>2, <2>3, <2>4
<1>11. lat' \in [Words -> DOMAIN table' \cup {NO_BP}]
  BY <1>1, <1>5, <1>6 DEF IInv, TypeOK
<1>12. \A f \in DOMAIN idx : idx[f] \in 0 .. bpidx'
  BY <1>1, <1>5 DEF IInv, TypeOK
<1>13. TypeOK'
  BY <1>1, <1>5, <1>7, <1>8, <1>9, <1>10, <1>11, <1>12 DEF IInv, TypeOK
<1>14. Counts'
  BY <1>8, <1>9 DEF IInv, Counts
<1>15. RowsMarked'
  <2>1. frame \in DOMAIN idx
    BY <1>1 DEF IInv, Counts
  <2>2. QED BY <1>2, <1>6, <2>1 DEF IInv, RowsMarked
<1>16. \A b \in DOMAIN table : table[b].wid = w => table[b].frame # frame
  BY <1>1, <1>6 DEF IInv, LatestExits, NO_BP
<1>17. EntriesByFrame'
  <2>1. \A f \in DOMAIN idx : idx[f] <= bpidx /\ f <= frame
    BY <1>1 DEF IInv, TypeOK, Counts
  <2>2. ASSUME NEW b \in DOMAIN table'
        PROVE  \A f \in DOMAIN idx : idx[f] <= b <=> f <= table'[b].frame
    <3>1. CASE b = bpidx
      BY <1>2, <1>6, <2>1, <3>1
    <3>2. CASE b # bpidx
      BY <1>6, <3>2 DEF IInv, EntriesByFrame
    <3>3. QED BY <3>1, <3>2
  <2>3. ASSUME NEW b \in DOMAIN table', NEW c \in DOMAIN table', c # b,
               table'[c].frame = table'[b].frame
        PROVE  table'[c].wid # table'[b].wid
    BY <1>2, <1>6, <1>16, <2>3 DEF IInv, EntriesByFrame
  <2>4. QED BY <2>2, <2>3 DEF EntriesByFrame
<1>18. LatestExits'
  <2>1. ASSUME NEW v \in Words, lat'[v] # NO_BP
        PROVE  table'[lat'[v]].wid = v /\ table'[lat'[v]].frame = frame
    <3>1. CASE v = w
      BY <1>2, <1>5, <1>6, <3>1 DEF IInv, TypeOK
    <3>2. CASE v # w
      <4>1. lat'[v] = lat[v] /\ lat[v] \in DOMAIN table
        BY <1>5, <2>1, <3>2 DEF IInv, TypeOK
      <4>2. QED BY <1>6, <2>1, <4>1 DEF IInv, LatestExits
    <3>3. QED BY <3>1, <3>2
  <2>2. ASSUME NEW b \in DOMAIN table', table'[b].frame = frame
        PROVE  lat'[table'[b].wid] = b
    <3>1. CASE b = bpidx
      BY <1>2, <1>5, <1>6, <3>1 DEF IInv, TypeOK
    <3>2. CASE b # bpidx
      <4>1. b \in DOMAIN table /\ table'[b] = table[b] /\ table[b].wid \in Words
        BY <1>6, <3>2 DEF IInv, TypeOK, RowType
      <4>2. table[b].wid # w
        BY <1>16, <2>2, <4>1
      <4>3. QED BY <1>5, <2>2, <4>1, <4>2 DEF IInv, TypeOK, LatestExits
    <3>3. QED BY <3>1, <3>2
  <2>3. QED BY <2>1, <2>2 DEF LatestExits
<1>19. PathsGoBack'
  <2>1. NO_BP \notin DOMAIN table
    BY <1>1 DEF NO_BP
  <2>2. ASSUME NEW b \in DOMAIN table'
        PROVE  IF table'[b].bp = NO_BP THEN table'[b].wid = StartWord
               ELSE /\ table'[b].bp \in DOMAIN table
                    /\ table[table'[b].bp].frame < table'[b].frame
    <3>1. CASE b = bpidx
      <4>1. IF path = NO_BP THEN w = StartWord
            ELSE path \in DOMAIN table /\ table[path].frame < frame
        BY DEF MayFollow
      <4>2. QED BY <1>2, <1>6, <2>1, <3>1, <4>1
    <3>2. CASE b # bpidx
      BY <1>6, <3>2 DEF IInv, PathsGoBack
    <3>3. QED BY <3>1, <3>2
  <2>3. DOMAIN table \subseteq DOMAIN table'
    BY <1>1, <1>6
  <2>4. QED BY <1>6, <2>2, <2>3 DEF PathsGoBack
<1>20. QED BY <1>13, <1>14, <1>15, <1>17, <1>18, <1>19 DEF IInv

\* ---- the steps ----

\* Either way of saving an exit keeps the invariant.
LEMMA SaveBpKeeps ==
  ASSUME IInv, NEW w \in Words, NEW rc \in 0 .. NPhones - 1, NEW score \in Scores,
         NEW path \in {NO_BP} \cup DOMAIN table, SaveBp(w, rc, score, path)
  PROVE  IInv'
<1>1. /\ phase = "frame" /\ MayFollow(w, path) /\ rc \in 0 .. Max({RcSize[w] - 1, 0})
      /\ UNCHANGED <<idx, n_alloc, n_frame, frame, two_pass, total, pass, phase>>
  BY DEF SaveBp, Saved
<1>2. CASE lat[w] = NO_BP
  <2>1. Entered(w, rc, score, path)
    BY <1>2 DEF SaveBp, Saved
  <2>2. QED BY <1>1, <1>2, <2>1, EnteredKeeps
<1>3. CASE lat[w] # NO_BP
  <2>1. EnteredAgain(lat[w], rc, score, path)
    BY <1>3 DEF SaveBp, Saved
  <2>2. QED BY <1>1, <1>3, <2>1, EnteredAgainKeeps
<1>4. QED BY <1>2, <1>3

\* A step that marks the frame and leaves the rows alone keeps what is said of them.
LEMMA MarkedRows ==
  ASSUME IInv, phase \in {"between", "failed"}, Mark,
         UNCHANGED <<table, bpidx, table_size, stack_size, stack, bss_head, lat>>
  PROVE  /\ EntriesByFrame' /\ RowsMarked' /\ PathsGoBack'
         /\ n_alloc' \in Nat \ {0} /\ DOMAIN idx' = 0 .. frame
         /\ \A f \in DOMAIN idx' : f \in 0 .. n_alloc' - 1 /\ idx'[f] \in 0 .. bpidx
         /\ \A w \in Words : lat[w] = NO_BP
         /\ \A b \in DOMAIN table : table[b].frame # frame
<1>1. /\ n_alloc' \in Nat \ {0} /\ DOMAIN idx' = 0 .. frame
      /\ \A f \in 0 .. frame : f \in 0 .. n_alloc' - 1 /\ idx'[f] \in 0 .. bpidx
      /\ \A b \in DOMAIN table : \A f \in 0 .. frame :
           idx'[f] <= b <=> f <= table[b].frame
  BY MarkKeeps DEF IInv
<1>2. frame \in Nat /\ DOMAIN idx = 0 .. frame - 1
  BY DEF IInv, TypeOK, Counts
<1>3. EntriesByFrame'
  BY <1>1 DEF IInv, EntriesByFrame
<1>4. RowsMarked'
  BY <1>1, <1>2 DEF IInv, RowsMarked
<1>5. PathsGoBack'
  BY DEF IInv, PathsGoBack
<1>6. \A w \in Words : lat[w] = NO_BP
  BY DEF IInv, LatestExits
<1>7. \A b \in DOMAIN table : table[b].frame # frame
  BY <1>2 DEF IInv, RowsMarked
<1>8. QED BY <1>1, <1>3, <1>4, <1>5, <1>6, <1>7

LEMMA BeginFrameKeeps ==
  ASSUME IInv, BeginFrame
  PROVE  IInv'
<1> USE BPTableAssumption
<1>1. /\ phase = "between" /\ Mark /\ phase' = "frame"
      /\ UNCHANGED <<table, bpidx, table_size, stack_size, stack, bss_head, lat>>
      /\ UNCHANGED <<n_frame, frame, total, pass>>
  BY DEF BeginFrame, tables, room
<1>2. /\ EntriesByFrame' /\ RowsMarked' /\ PathsGoBack'
      /\ n_alloc' \in Nat \ {0} /\ DOMAIN idx' = 0 .. frame
      /\ \A f \in DOMAIN idx' : f \in 0 .. n_alloc' - 1 /\ idx'[f] \in 0 .. bpidx
      /\ \A w \in Words : lat[w] = NO_BP
      /\ \A b \in DOMAIN table : table[b].frame # frame
  BY <1>1, MarkedRows
<1>3. TypeOK'
  BY <1>1, <1>2 DEF IInv, TypeOK
<1>4. frame < MaxFrames
  BY DEF BeginFrame, IInv, TypeOK
<1>5. Counts'
  BY <1>1, <1>2, <1>4 DEF IInv, Counts, Phases
<1>6. LatestExits'
  BY <1>1, <1>2 DEF LatestExits
<1>7. QED BY <1>2, <1>3, <1>5, <1>6 DEF IInv

LEMMA FailedFrameKeeps ==
  ASSUME IInv, FailedFrame
  PROVE  IInv'
<1> USE BPTableAssumption
<1>1. /\ phase \in {"between", "failed"} /\ Mark /\ phase' = "failed"
      /\ frame' = frame + 1
      /\ UNCHANGED <<table, bpidx, table_size, stack_size, stack, bss_head, lat>>
      /\ UNCHANGED <<n_frame, total, pass>>
  BY DEF FailedFrame, tables, room
<1>2. /\ EntriesByFrame' /\ RowsMarked' /\ PathsGoBack'
      /\ n_alloc' \in Nat \ {0} /\ DOMAIN idx' = 0 .. frame
      /\ \A f \in DOMAIN idx' : f \in 0 .. n_alloc' - 1 /\ idx'[f] \in 0 .. bpidx
      /\ \A w \in Words : lat[w] = NO_BP
  BY <1>1, MarkedRows
<1>3. frame \in Nat /\ n_frame \in Nat /\ total \in 0 .. MaxFrames /\ frame < MaxFrames
  <2>1. /\ frame \in 0 .. MaxFrames /\ n_frame \in 0 .. MaxFrames
        /\ total \in 0 .. MaxFrames
    BY DEF IInv, TypeOK
  <2>2. frame < IF pass = 1 THEN MaxFrames ELSE total
    BY DEF FailedFrame
  <2>3. QED BY <2>1, <2>2
<1>4. TypeOK'
  BY <1>1, <1>2, <1>3 DEF IInv, TypeOK
<1>5. frame' - 1 = frame /\ (pass = 1 => n_frame <= frame')
  BY <1>1, <1>3 DEF IInv, Counts
<1>6. Counts'
  BY <1>1, <1>2, <1>5 DEF IInv, Counts, Phases
<1>7. LatestExits'
  BY <1>1, <1>2 DEF LatestExits
<1>8. QED BY <1>2, <1>4, <1>6, <1>7 DEF IInv

\* The end of a frame only prunes exits and forgets the words' latest ones.
LEMMA EndFrameKeeps ==
  ASSUME IInv, EndFrame
  PROVE  IInv'
<1> USE BPTableAssumption
<1>1. /\ phase = "frame" /\ table' = Limited /\ lat' = Forgotten
      /\ n_frame' = Searched /\ frame' = frame + 1 /\ phase' = "between"
      /\ UNCHANGED <<bpidx, table_size, stack_size, stack, bss_head, idx, n_alloc>>
      /\ UNCHANGED <<total, pass>>
  BY DEF EndFrame, room
<1>2. /\ DOMAIN table' = DOMAIN table
      /\ \A b \in DOMAIN table :
           /\ table'[b] \in RowType /\ table'[b].bp = table[b].bp
           /\ table'[b].wid = table[b].wid /\ table'[b].frame = table[b].frame
  <2> SUFFICES ASSUME NEW b \in DOMAIN table
               PROVE  /\ table'[b] \in RowType /\ table'[b].bp = table[b].bp
                      /\ table'[b].wid = table[b].wid
                      /\ table'[b].frame = table[b].frame
    BY <1>1 DEF Limited
  <2>1. table[b] \in RowType
    BY DEF IInv, TypeOK
  <2>2. table'[b] = table[b]
        \/ table'[b] = [table[b] EXCEPT !.valid = b \in Surviving]
    BY <1>1 DEF Limited
  <2>3. (b \in Surviving) \in BOOLEAN
    OBVIOUS
  <2>4. QED BY <2>1, <2>2, <2>3 DEF RowType
<1>3. table' \in [0 .. bpidx - 1 -> RowType]
  <2>1. DOMAIN table = 0 .. bpidx - 1
    BY DEF IInv, TypeOK
  <2>2. table' = [b \in DOMAIN table' |-> table'[b]]
    BY <1>1 DEF Limited, IInv, TypeOK
  <2>3. QED BY <1>2, <2>1, <2>2
<1>4. \A w \in Words : lat'[w] = NO_BP
  <2>1. SUFFICES ASSUME NEW w \in Words, lat[w] # NO_BP
                 PROVE  \E b \in Current : table[b].wid = w
    BY <1>1 DEF Forgotten
  <2>2. /\ lat[w] \in DOMAIN table /\ table[lat[w]].wid = w
        /\ table[lat[w]].frame = frame
    BY <2>1 DEF IInv, TypeOK, LatestExits
  <2>3. frame \in DOMAIN idx /\ idx[frame] \in Nat /\ frame \in Nat
    <3>1. frame \in Nat /\ DOMAIN idx = 0 .. frame
      BY <1>1 DEF IInv, TypeOK, Counts
    <3>2. frame \in DOMAIN idx
      BY <3>1
    <3>3. idx[frame] \in 0 .. bpidx
      BY <3>2 DEF IInv, TypeOK
    <3>4. QED BY <3>1, <3>2, <3>3
  <2>4. idx[frame] <= lat[w]
    BY <2>2, <2>3 DEF IInv, EntriesByFrame
  <2>5. lat[w] \in Current
    BY <2>2, <2>3, <2>4 DEF Current, IInv, TypeOK
  <2>6. QED BY <2>2, <2>5
<1>5. lat' \in [Words -> DOMAIN table' \cup {NO_BP}]
  <2>1. lat' = [w \in Words |-> lat'[w]]
    BY <1>1 DEF Forgotten
  <2>2. QED BY <1>4, <2>1
<1>6. frame \in Nat /\ n_frame \in Nat /\ frame < MaxFrames
  BY <1>1 DEF IInv, TypeOK, Counts
<1>7. n_frame' \in 0 .. MaxFrames /\ (pass = 1 => n_frame' <= frame')
  <2>1. CASE pass = 1
    BY <1>1, <1>6, <2>1 DEF Searched, IInv, Counts
  <2>2. CASE pass # 1
    BY <1>1, <2>2 DEF Searched, IInv, TypeOK
  <2>3. QED BY <2>1, <2>2
<1>8. TypeOK'
  BY <1>1, <1>2, <1>3, <1>5, <1>6, <1>7 DEF IInv, TypeOK
<1>9. frame' - 1 = frame
  BY <1>1, <1>6
<1>10. Counts'
  BY <1>1, <1>7, <1>9 DEF IInv, Counts, Phases
<1>11. EntriesByFrame'
  BY <1>1, <1>2 DEF IInv, EntriesByFrame
<1>12. RowsMarked'
  BY <1>1, <1>2 DEF IInv, RowsMarked
<1>13. LatestExits'
  BY <1>1, <1>4 DEF LatestExits
<1>14. PathsGoBack'
  BY <1>2 DEF IInv, PathsGoBack
<1>15. QED BY <1>8, <1>10, <1>11, <1>12, <1>13, <1>14 DEF IInv

\* A search that starts over has an empty table.
LEMMA EmptiedKeeps ==
  ASSUME IInv, Emptied, idx' = <<>>, n_alloc' \in Nat \ {0},
         n_frame' \in 0 .. MaxFrames, total' \in 0 .. MaxFrames,
         pass' \in {1, 2}, pass' = 1 => n_frame' = 0, phase' = "between"
  PROVE  IInv'
<1> USE BPTableAssumption
<1>1. EntriesByFrame' /\ RowsMarked' /\ PathsGoBack' /\ DOMAIN table' = {}
  BY EmptiedTable DEF Emptied
<1>2. UNCHANGED <<table_size, stack_size>>
  BY DEF Emptied, room
<1>3. TypeOK'
  BY <1>1, <1>2 DEF Emptied, IInv, TypeOK, Counts
<1>4. Counts'
  BY <1>2 DEF Emptied, IInv, Counts, Phases
<1>5. LatestExits'
  BY <1>1 DEF Emptied, LatestExits
<1>6. QED BY <1>1, <1>3, <1>4, <1>5 DEF IInv

LEMMA FinishKeeps ==
  ASSUME IInv, Finish
  PROVE  IInv'
<1> USE BPTableAssumption
<1>1. phase \in {"between", "failed"} /\ n_frame' = n_frame
  BY DEF Finish
<1>2. CASE pass = 1 /\ two_pass
  <2>1. Emptied /\ idx' = <<>> /\ total' = frame /\ pass' = 2 /\ phase' = "between"
        /\ n_alloc' = IF frame >= n_alloc THEN 2 * n_alloc ELSE n_alloc
    BY <1>2 DEF Finish
  <2>2. n_alloc' \in Nat \ {0}
    BY <2>1 DEF IInv, Counts
  <2>3. n_frame' \in 0 .. MaxFrames /\ total' \in 0 .. MaxFrames
    BY <1>1, <2>1 DEF IInv, TypeOK
  <2>4. QED BY <2>1, <2>2, <2>3, EmptiedKeeps
<1>3. CASE ~(pass = 1 /\ two_pass)
  <2>1. /\ Mark /\ phase' = "done"
        /\ UNCHANGED <<table, bpidx, table_size, stack_size, stack, bss_head, lat>>
        /\ UNCHANGED <<n_frame, frame, total, pass>>
    BY <1>1, <1>3 DEF Finish, tables, room
  <2>2. /\ EntriesByFrame' /\ RowsMarked' /\ PathsGoBack'
        /\ n_alloc' \in Nat \ {0} /\ DOMAIN idx' = 0 .. frame
        /\ \A f \in DOMAIN idx' : f \in 0 .. n_alloc' - 1 /\ idx'[f] \in 0 .. bpidx
        /\ \A w \in Words : lat[w] = NO_BP
    BY <1>1, <2>1, MarkedRows
  <2>3. TypeOK'
    BY <2>1, <2>2 DEF IInv, TypeOK
  <2>4. Counts'
    BY <2>1, <2>2 DEF IInv, Counts, Phases
  <2>5. LatestExits'
    BY <2>1, <2>2 DEF LatestExits
  <2>6. QED BY <2>2, <2>3, <2>4, <2>5 DEF IInv
<1>4. QED BY <1>2, <1>3

\* The invariant is inductive.
LEMMA StepInvariant == IInv /\ [Next]_vars => IInv'
<1> SUFFICES ASSUME IInv, [Next]_vars PROVE IInv'
  OBVIOUS
<1>1. CASE StartUtt
  <2>1. /\ Emptied /\ idx' = <<>> /\ n_alloc' = n_alloc /\ n_frame' = 0
        /\ total' = 0 /\ pass' = 1 /\ phase' = "between"
    BY <1>1 DEF StartUtt
  <2>2. n_alloc' \in Nat \ {0} /\ 0 \in 0 .. MaxFrames
    BY <2>1, BPTableAssumption DEF IInv, Counts
  <2>3. QED BY <2>1, <2>2, EmptiedKeeps
<1>2. CASE BeginFrame
  BY <1>2, BeginFrameKeeps
<1>3. ASSUME NEW w \in Words, NEW rc \in 0 .. NPhones - 1, NEW score \in Scores,
             NEW path \in {NO_BP} \cup DOMAIN table, SaveBp(w, rc, score, path)
      PROVE  IInv'
  BY <1>3, SaveBpKeeps
<1>4. CASE EndFrame
  BY <1>4, EndFrameKeeps
<1>5. CASE FailedFrame
  BY <1>5, FailedFrameKeeps
<1>6. CASE Finish
  BY <1>6, FinishKeeps
<1>7. CASE UNCHANGED vars
  <2>1. UNCHANGED <<table, bpidx, table_size, stack_size, stack, bss_head, lat>>
        /\ UNCHANGED <<idx, n_alloc, n_frame, frame, total, pass, phase>>
    BY <1>7 DEF vars
  <2>2. TypeOK' /\ Counts'
    BY <2>1 DEF IInv, TypeOK, Counts
  <2>3. EntriesByFrame' /\ RowsMarked' /\ PathsGoBack'
    BY <2>1 DEF IInv, EntriesByFrame, RowsMarked, PathsGoBack
  <2>4. LatestExits'
    BY <2>1 DEF IInv, LatestExits
  <2>5. QED BY <2>2, <2>3, <2>4 DEF IInv
<1>8. QED BY <1>1, <1>2, <1>3, <1>4, <1>5, <1>6, <1>7 DEF Next

\* ngram_search.c: the tables are in use within what is allocated for them, whenever
\* they grow and however many utterances there are.
THEOREM TypeCorrect == Spec => []TypeOK
<1>1. IInv => TypeOK
  BY DEF IInv
<1>2. QED BY InitInvariant, StepInvariant, <1>1, PTL DEF Spec

\* ngram_search_save_bp and the marks: the rows between two marks are the exits of
\* one frame, one for each word.
THEOREM RowsOfFrames == Spec => []EntriesByFrame
<1>1. IInv => EntriesByFrame
  BY DEF IInv
<1>2. QED BY InitInvariant, StepInvariant, <1>1, PTL DEF Spec

\* ngram_search_save_bp: every path goes back in time, to <s>; a backtrace
\* (ngram_search_bp_hyp, ngram_search_bp_iter) ends.
THEOREM PathsEnd == Spec => []PathsGoBack
<1>1. IInv => PathsGoBack
  BY DEF IInv
<1>2. QED BY InitInvariant, StepInvariant, <1>1, PTL DEF Spec

---------------------------------------------------------------------------
(* What the rows say: a row has the best exit of its word and the stack the scores of its
   right contexts (BestExitKept); what the maxwpf pruning of a frame keeps
   (WordExitsPruned); and that what is read at the end of an utterance was written in
   this pass (AnswersFromThisPass). *)

\* ---- best and least elements of finite sets ----

\* A nonempty set of natural numbers has a least element.
LEMMA LeastNatural ==
  ASSUME NEW S \in SUBSET Nat, S # {}
  PROVE  /\ Min(S) \in S
         /\ \A n \in S : Min(S) <= n
<1> DEFINE R == StrictSubsetOrdering(Nat)
<1> DEFINE T == {0 .. n : n \in S}
<1>1. IsWellFoundedOn(R, FiniteSubsetsOf(Nat))
  BY FS_StrictSubsetOrderingWellFounded
<1>2. T \subseteq FiniteSubsetsOf(Nat) /\ T # {}
  <2>1. ASSUME NEW n \in S PROVE 0 .. n \in FiniteSubsetsOf(Nat)
    BY FS_Interval, n \in Nat DEF FiniteSubsetsOf
  <2>2. QED BY <2>1
<1>3. PICK t \in T : \A u \in T : ~ (<<u, t>> \in R)
  <2> HIDE DEF R, T
  <2>1. QED BY <1>1, <1>2, WFMin
<1>4. PICK m \in S : t = 0 .. m
  OBVIOUS
<1>5. ASSUME NEW n \in S, n < m PROVE FALSE
  <2>1. /\ 0 .. n \in T /\ 0 .. n \subseteq 0 .. m /\ 0 .. n # 0 .. m
        /\ 0 .. n \subseteq Nat /\ 0 .. m \subseteq Nat
    BY <1>5, m \in Nat, n \in Nat, m \in 0 .. m, m \notin 0 .. n
  <2>2. QED BY <1>3, <1>4, <2>1 DEF StrictSubsetOrdering
<1>6. \E x \in S : \A y \in S : x =< y
  <2>1. \A n \in S : m <= n
    BY <1>5
  <2>2. QED BY <2>1
<1>7. QED BY <1>6 DEF Min

\* Of the members of a nonempty finite set one has the greatest value.
LEMMA GreatestValue ==
  ASSUME NEW S, IsFiniteSet(S), S # {}, NEW f \in [S -> Int]
  PROVE  \E x \in S : \A y \in S : f[y] <= f[x]
<1> DEFINE R == StrictSubsetOrdering(S)
<1> DEFINE Above(x) == {y \in S : f[x] <= f[y]}
<1> DEFINE T == {Above(x) : x \in S}
<1>1. IsWellFoundedOn(R, FiniteSubsetsOf(S))
  BY FS_StrictSubsetOrderingWellFounded
<1>2. T \subseteq FiniteSubsetsOf(S) /\ T # {}
  <2>1. ASSUME NEW x \in S PROVE Above(x) \in FiniteSubsetsOf(S)
    <3>1. Above(x) \in SUBSET S
      OBVIOUS
    <3>2. IsFiniteSet(Above(x))
      BY <3>1, FS_Subset
    <3>3. QED BY <3>1, <3>2 DEF FiniteSubsetsOf
  <2> HIDE DEF Above
  <2>2. QED BY <2>1
<1>3. PICK t \in T : \A u \in T : ~ (<<u, t>> \in R)
  <2> HIDE DEF R, T
  <2>1. QED BY <1>1, <1>2, WFMin
<1>4. PICK x \in S : t = Above(x)
  OBVIOUS
<1>5. ASSUME NEW y \in S, f[x] < f[y] PROVE FALSE
  <2>1. Above(y) \subseteq Above(x)
    BY <1>5
  <2>2. x \in Above(x) /\ x \notin Above(y)
    BY <1>5
  <2>3. Above(y) \in T /\ Above(y) \subseteq S /\ Above(x) \subseteq S
    OBVIOUS
  <2>4. <<Above(y), Above(x)>> \in R
    BY <2>1, <2>2, <2>3 DEF StrictSubsetOrdering
  <2>5. QED BY <1>3, <1>4, <2>3, <2>4
<1>6. \A y \in S : f[y] <= f[x]
  BY <1>5
<1>7. QED BY <1>6

\* A nonempty finite set of integers has a greatest element.
LEMMA GreatestInteger ==
  ASSUME NEW S \in SUBSET Int, IsFiniteSet(S), S # {}
  PROVE  /\ Max(S) \in S
         /\ \A n \in S : n <= Max(S)
<1> DEFINE f == [x \in S |-> x]
<1>1. f \in [S -> Int]
  OBVIOUS
<1>2. PICK x \in S : \A y \in S : f[y] <= f[x]
  <2> HIDE DEF f
  <2>1. QED BY <1>1, GreatestValue
<1>3. \A y \in S : x >= y
  BY <1>2
<1>4. Max(S) \in S /\ \A y \in S : Max(S) >= y
  BY <1>3 DEF Max
<1>5. QED BY <1>4

\* ---- the best exit of a word ----

\* Each call of save_bp has its row.
OffersHaveRows ==
  \A o \in offered :
    /\ o.score \in Scores /\ o.rc \in 0 .. Max({RcSize[o.wid] - 1, 0})
    /\ \E b \in DOMAIN table : table[b].wid = o.wid /\ table[b].frame = o.frame

\* A right context of a word exits once in a frame.
OffersOnce ==
  \A o, p \in offered : o.wid = p.wid /\ o.frame = p.frame /\ o.rc = p.rc => o = p

\* The places on the stack of a row are its own, before those of later rows.
PlacesOwned ==
  \A b \in DOMAIN table :
    /\ IF RcSize[table[b].wid] = 0 THEN table[b].s_idx = -1
       ELSE table[b].s_idx \in Nat /\ table[b].s_idx + RcSize[table[b].wid] <= bss_head
    /\ \A c \in DOMAIN table : b < c /\ table[b].s_idx # -1 /\ table[c].s_idx # -1
         => table[b].s_idx + RcSize[table[b].wid] <= table[c].s_idx

ExitInv == OffersHaveRows /\ OffersOnce /\ PlacesOwned /\ BestExitKept

\* BestExitKept of one row, with what its word was offered in the frame.
HasBestExit(b) ==
  /\ \A o \in Offers(b) : o.score <= table[b].score
  /\ \E o \in Offers(b) : o.score = table[b].score /\ o.path = table[b].bp

\* The stack has what was offered for a right context, and only that.
HasScores(b) ==
  \A rc \in 0 .. RcSize[table[b].wid] - 1 :
    /\ \A o \in Offers(b) : o.rc = rc => stack[table[b].s_idx + rc] = o.score
    /\ (\A o \in Offers(b) : o.rc # rc) => stack[table[b].s_idx + rc] = WORST_SCORE

\* What a successor finds for a context of which there is at most one offer.
LEMMA ScoreOfContext ==
  ASSUME NEW O, NEW rc, NEW x, \A o, p \in O : o.rc = rc /\ p.rc = rc => o = p
  PROVE  x = (IF \E o \in O : o.rc = rc
              THEN (CHOOSE o \in O : o.rc = rc).score ELSE WORST_SCORE)
         <=> /\ \A o \in O : o.rc = rc => x = o.score
             /\ (\A o \in O : o.rc # rc) => x = WORST_SCORE
<1>1. CASE \E o \in O : o.rc = rc
  <2> DEFINE c == CHOOSE o \in O : o.rc = rc
  <2>1. c \in O /\ c.rc = rc
    BY <1>1
  <2>2. \A o \in O : o.rc = rc => o = c
    BY <2>1
  <2> HIDE DEF c
  <2>3. QED BY <1>1, <2>1, <2>2 DEF c
<1>2. CASE \A o \in O : o.rc # rc
  BY <1>2
<1>3. QED BY <1>1, <1>2

\* With one offer for each context, BestExitKept says this of each row.
LEMMA BestExitOfRows ==
  ASSUME OffersOnce
  PROVE  BestExitKept <=> \A b \in DOMAIN table : HasBestExit(b) /\ HasScores(b)
<1>1. \A b, rc : \A o, p \in Offers(b) : o.rc = rc /\ p.rc = rc => o = p
  BY DEF OffersOnce, Offers
<1>2. QED BY <1>1, ScoreOfContext DEF BestExitKept, HasBestExit, HasScores

LEMMA BestExitOfRowsNext ==
  ASSUME OffersOnce', \A b \in DOMAIN table' : (HasBestExit(b) /\ HasScores(b))'
  PROVE  BestExitKept'
<1>1. \A b, rc : \A o, p \in Offers(b)' : o.rc = rc /\ p.rc = rc => o = p
  BY DEF OffersOnce, Offers
<1>2. QED BY <1>1, ScoreOfContext DEF BestExitKept, HasBestExit, HasScores

\* Contexts of a word: 0 of a single phone, 0 .. RcSize[w] - 1 of others.
LEMMA ContextOfWord ==
  ASSUME NEW w \in Words, NEW rc \in 0 .. Max({RcSize[w] - 1, 0}), RcSize[w] # 0
  PROVE  rc \in 0 .. RcSize[w] - 1
<1> DEFINE n == RcSize[w]
<1>1. n \in Nat
  BY BPTableAssumption
<1>2. Max({n - 1, 0}) = n - 1
  <2>1. n - 1 \in {n - 1, 0} /\ \A y \in {n - 1, 0} : n - 1 >= y
    BY <1>1
  <2>2. \A x \in {n - 1, 0} : (\A y \in {n - 1, 0} : x >= y) => x = n - 1
    BY <1>1
  <2> HIDE DEF n
  <2>3. QED BY <2>1, <2>2 DEF Max
<1>3. QED BY <1>2

\* A further exit of a word changes the best of its row only for a better one, and the
\* place of its right context only.
LEMMA EnteredAgainKeepsExits ==
  ASSUME IInv, ExitInv, phase = "frame",
         NEW w \in Words, NEW rc \in 0 .. Max({RcSize[w] - 1, 0}), NEW score \in Scores,
         NEW path \in {NO_BP} \cup DOMAIN table,
         NotYet(w, rc), lat[w] # NO_BP, EnteredAgain(lat[w], rc, score, path),
         offered' = offered \cup {[wid |-> w, frame |-> frame, rc |-> rc,
                                   score |-> score, path |-> path]}
  PROVE  ExitInv'
<1>1. PICK b0 \in DOMAIN table :
        /\ b0 = lat[w] /\ table[b0].wid = w /\ table[b0].frame = frame
        /\ DOMAIN table = 0 .. bpidx - 1 /\ table[b0] \in RowType
  BY DEF IInv, TypeOK, LatestExits
<1>place. PICK s : s = table[b0].s_idx
  OBVIOUS
<1>sizes. \A v \in Words : RcSize[v] \in Nat
  BY BPTableAssumption
<1>2. RcSize[w] \in Nat /\ RcSize[w] > 0 /\ rc \in 0 .. RcSize[w] - 1
      /\ stack[s + rc] = WORST_SCORE
  BY <1>place, <1>sizes, <1>1, ContextOfWord DEF NotYet
<1>3. s \in Nat /\ s + RcSize[w] <= bss_head /\ bss_head \in Nat
      /\ DOMAIN stack = 0 .. bss_head - 1
  BY <1>place, <1>1, <1>2 DEF ExitInv, PlacesOwned, IInv, TypeOK
<1> DEFINE o0 == [wid |-> w, frame |-> frame, rc |-> rc, score |-> score, path |-> path]
           e == Improved(table[b0], score, path)
<1>4. /\ e.wid = w /\ e.frame = frame /\ e.s_idx = s
      /\ e.score = IF table[b0].score >= score THEN table[b0].score ELSE score
      /\ e.bp = IF table[b0].score >= score THEN table[b0].bp ELSE path
  BY <1>place, <1>1 DEF Improved, RowType
<1>5. /\ table' = [table EXCEPT ![b0] = e]
      /\ stack' = [stack EXCEPT ![s + rc] = score]
      /\ UNCHANGED <<bpidx, bss_head>>
  BY <1>place, <1>1, <1>3 DEF EnteredAgain
<1>6. /\ o0.wid = w /\ o0.frame = frame /\ o0.rc = rc /\ o0.score = score
      /\ o0.path = path /\ offered' = offered \cup {o0}
  OBVIOUS
<1> HIDE DEF e, o0
<1>7. /\ DOMAIN table' = DOMAIN table /\ table'[b0] = e
      /\ \A b \in DOMAIN table : b # b0 => table'[b] = table[b]
      /\ \A b \in DOMAIN table : /\ table'[b].wid = table[b].wid
                                 /\ table'[b].frame = table[b].frame
                                 /\ table'[b].s_idx = table[b].s_idx
  BY <1>place, <1>1, <1>4, <1>5
<1>8. \A b \in DOMAIN table : b # b0 => Offers(b)' = Offers(b)
  <2> SUFFICES ASSUME NEW b \in DOMAIN table, b # b0 PROVE Offers(b)' = Offers(b)
    OBVIOUS
  <2>1. ~ (table[b].wid = w /\ table[b].frame = frame)
    BY <1>1 DEF IInv, EntriesByFrame
  <2>2. QED BY <1>6, <1>7, <2>1 DEF Offers
<1>9. Offers(b0)' = Offers(b0) \cup {o0}
  BY <1>1, <1>6, <1>7 DEF Offers
<1>10. \A o \in Offers(b0) : o.rc # rc
  <2>1. ASSUME NEW o \in Offers(b0), o.rc = rc PROVE FALSE
    <3>1. HasScores(b0)
      BY <1>1, BestExitOfRows DEF ExitInv
    <3>2. stack[s + rc] = o.score
      BY <1>place, <1>1, <1>2, <2>1, <3>1 DEF HasScores
    <3>3. o.score \in Scores
      BY DEF Offers, ExitInv, OffersHaveRows
    <3>4. QED BY <1>2, <3>2, <3>3, BPTableAssumption
  <2>2. QED BY <2>1
<1>11. OffersHaveRows'
  <2>1. ASSUME NEW o \in offered
        PROVE  \E b \in DOMAIN table' : table'[b].wid = o.wid /\ table'[b].frame = o.frame
    <3>1. PICK b \in DOMAIN table : table[b].wid = o.wid /\ table[b].frame = o.frame
      BY DEF ExitInv, OffersHaveRows
    <3>2. b \in DOMAIN table' /\ table'[b].wid = o.wid /\ table'[b].frame = o.frame
      BY <1>7, <3>1
    <3>3. QED BY <3>2
  <2>2. table'[b0].wid = o0.wid /\ table'[b0].frame = o0.frame /\ b0 \in DOMAIN table'
    BY <1>1, <1>6, <1>7
  <2>3. QED BY <1>6, <2>1, <2>2 DEF ExitInv, OffersHaveRows
<1>12. OffersOnce'
  <2>1. ASSUME NEW o \in offered, o.wid = w, o.frame = frame, o.rc = rc PROVE FALSE
    BY <1>1, <1>10, <2>1 DEF Offers
  <2>2. QED BY <1>6, <2>1 DEF ExitInv, OffersOnce
<1>13. PlacesOwned'
  BY <1>5, <1>7 DEF ExitInv, PlacesOwned
<1>14. ASSUME NEW b \in DOMAIN table' PROVE (HasBestExit(b) /\ HasScores(b))'
  <2>1. HasBestExit(b) /\ HasScores(b) /\ b \in DOMAIN table
    BY <1>7, BestExitOfRows DEF ExitInv
  <2>2. CASE b = b0
    <3>1. HasBestExit(b)'
      <4>1. table[b0].score \in Nat /\ score \in Nat
        BY <1>1, BPTableAssumption DEF RowType
      <4>2. \A o \in Offers(b0) : o.score \in Nat /\ o.score <= table[b0].score
        BY <2>1, <2>2, BPTableAssumption
        DEF HasBestExit, Offers, ExitInv, OffersHaveRows
      <4>3. CASE table[b0].score >= score
        BY <1>4, <1>6, <1>7, <1>9, <2>1, <2>2, <4>1, <4>2, <4>3 DEF HasBestExit
      <4>4. CASE table[b0].score < score
        BY <1>4, <1>6, <1>7, <1>9, <2>1, <2>2, <4>1, <4>2, <4>4 DEF HasBestExit
      <4>5. QED BY <4>1, <4>3, <4>4
    <3>2. ASSUME NEW c \in 0 .. RcSize[w] - 1
          PROVE  /\ \A o \in Offers(b0)' : o.rc = c => stack'[s + c] = o.score
                 /\ (\A o \in Offers(b0)' : o.rc # c) => stack'[s + c] = WORST_SCORE
      <4>1. CASE c = rc
        <5>1. stack'[s + c] = score
          BY <1>2, <1>3, <1>5, <4>1
        <5>2. QED BY <1>6, <1>9, <1>10, <4>1, <5>1
      <4>2. CASE c # rc
        <5>1. stack'[s + c] = stack[s + c]
          BY <1>2, <1>3, <1>5, <4>2
        <5>2. QED BY <1>place, <1>1, <1>6, <1>9, <2>1, <2>2, <4>2, <5>1 DEF HasScores
      <4>3. QED BY <4>1, <4>2
    <3>3. HasScores(b)'
      BY <1>place, <1>1, <1>7, <2>2, <3>2 DEF HasScores
    <3>4. QED BY <3>1, <3>3
  <2>3. CASE b # b0
    <3>1. HasBestExit(b)'
      BY <1>7, <1>8, <2>1, <2>3 DEF HasBestExit
    <3>2. ASSUME NEW c \in 0 .. RcSize[table[b].wid] - 1
          PROVE  stack'[table[b].s_idx + c] = stack[table[b].s_idx + c]
      <4>1. table[b] \in RowType /\ RcSize[table[b].wid] \in Nat
        BY <1>sizes, <2>1 DEF IInv, TypeOK, RowType
      <4>2. table[b].s_idx \in Nat /\ b \in Int /\ b0 \in Int
        BY <1>1, <2>1, <4>1 DEF ExitInv, PlacesOwned
      <4>3. table[b].s_idx + c # s + rc
        <5>1. CASE b < b0
          <6>1. table[b].s_idx + RcSize[table[b].wid] <= s
            BY <1>place, <1>1, <1>3, <2>1, <4>2, <5>1 DEF ExitInv, PlacesOwned
          <6>2. QED BY <1>2, <1>3, <4>1, <4>2, <6>1, SMTT(30)
        <5>2. CASE b0 < b
          <6>1. s + RcSize[w] <= table[b].s_idx
            BY <1>place, <1>1, <1>3, <2>1, <4>2, <5>2 DEF ExitInv, PlacesOwned
          <6>2. QED BY <1>2, <1>3, <4>1, <4>2, <6>1, SMTT(30)
        <5>3. QED BY <2>3, <4>2, <5>1, <5>2
      <4>4. QED BY <1>5, <4>3
    <3>3. HasScores(b)'
      BY <1>7, <1>8, <2>1, <2>3, <3>2 DEF HasScores
    <3>4. QED BY <3>1, <3>3
  <2>4. QED BY <2>2, <2>3
<1>15. BestExitKept'
  BY <1>12, <1>14, BestExitOfRowsNext
<1>16. QED BY <1>11, <1>12, <1>13, <1>15 DEF ExitInv

\* The first exit of a word in a frame has been offered nothing before, and its row has
\* places past those of the others.
LEMMA EnteredKeepsExits ==
  ASSUME IInv, ExitInv, phase = "frame",
         NEW w \in Words, NEW rc \in 0 .. Max({RcSize[w] - 1, 0}), NEW score \in Scores,
         NEW path \in {NO_BP} \cup DOMAIN table,
         lat[w] = NO_BP, Entered(w, rc, score, path),
         offered' = offered \cup {[wid |-> w, frame |-> frame, rc |-> rc,
                                   score |-> score, path |-> path]}
  PROVE  ExitInv'
<1>1. PICK b0 : b0 = bpidx
  OBVIOUS
<1>2. /\ b0 \in Nat /\ bss_head \in Nat /\ DOMAIN table = 0 .. b0 - 1
      /\ \A v \in Words : RcSize[v] \in Nat
      /\ \A b \in DOMAIN table : table[b] \in RowType
  BY <1>1, BPTableAssumption DEF IInv, TypeOK
<1>3. PICK k : k = RcSize[w] /\ k \in Nat
  BY <1>2
<1> DEFINE r == Row(w, rc, score, path)
           o0 == [wid |-> w, frame |-> frame, rc |-> rc, score |-> score, path |-> path]
<1>4. /\ r.wid = w /\ r.frame = frame /\ r.bp = path /\ r.score = score
      /\ r.s_idx = IF k = 0 THEN -1 ELSE bss_head
  BY <1>3 DEF Row
<1>5. /\ table' = [b \in 0 .. b0 |-> IF b = b0 THEN r ELSE table[b]]
      /\ stack' = [i \in 0 .. bss_head + k - 1 |->
                     IF i < bss_head THEN stack[i]
                     ELSE IF i = bss_head + rc THEN score ELSE WORST_SCORE]
      /\ bss_head' = bss_head + k
  BY <1>1, <1>3 DEF Entered
<1>6. /\ o0.wid = w /\ o0.frame = frame /\ o0.rc = rc /\ o0.score = score
      /\ o0.path = path /\ offered' = offered \cup {o0}
  OBVIOUS
<1> HIDE DEF r, o0
<1>7. /\ DOMAIN table' = DOMAIN table \cup {b0} /\ b0 \notin DOMAIN table
      /\ table'[b0] = r
      /\ \A b \in DOMAIN table : b < b0 /\ table'[b] = table[b]
  BY <1>2, <1>5
<1>8. \A b \in DOMAIN table : ~ (table[b].wid = w /\ table[b].frame = frame)
  BY <1>2, <1>7 DEF IInv, LatestExits, NO_BP
<1>9. \A o \in offered : ~ (o.wid = w /\ o.frame = frame)
  <2>1. ASSUME NEW o \in offered, o.wid = w, o.frame = frame PROVE FALSE
    <3>1. PICK b \in DOMAIN table : table[b].wid = o.wid /\ table[b].frame = o.frame
      BY DEF ExitInv, OffersHaveRows
    <3>2. QED BY <1>8, <2>1, <3>1
  <2>2. QED BY <2>1
<1>10. \A b \in DOMAIN table : Offers(b)' = Offers(b)
  BY <1>6, <1>7, <1>8 DEF Offers
<1>11. Offers(b0)' = {o0}
  BY <1>4, <1>6, <1>7, <1>9 DEF Offers
<1>12. OffersHaveRows'
  <2>1. ASSUME NEW o \in offered
        PROVE  \E b \in DOMAIN table' : table'[b].wid = o.wid /\ table'[b].frame = o.frame
    <3>1. PICK b \in DOMAIN table : table[b].wid = o.wid /\ table[b].frame = o.frame
      BY DEF ExitInv, OffersHaveRows
    <3>2. b \in DOMAIN table' /\ table'[b].wid = o.wid /\ table'[b].frame = o.frame
      BY <1>7, <3>1
    <3>3. QED BY <3>2
  <2>2. table'[b0].wid = o0.wid /\ table'[b0].frame = o0.frame /\ b0 \in DOMAIN table'
    BY <1>4, <1>6, <1>7
  <2>3. QED BY <1>6, <2>1, <2>2 DEF ExitInv, OffersHaveRows
<1>13. OffersOnce'
  BY <1>6, <1>9 DEF ExitInv, OffersOnce
<1>14. PlacesOwned'
  <2>1. ASSUME NEW b \in DOMAIN table, NEW c \in DOMAIN table, b < c,
               table[b].s_idx # -1, table[c].s_idx # -1
        PROVE  table[b].s_idx + RcSize[table[b].wid] <= table[c].s_idx
    BY <2>1 DEF ExitInv, PlacesOwned
  <2>2. ASSUME NEW b \in DOMAIN table
        PROVE  /\ RcSize[table[b].wid] \in Nat
               /\ IF RcSize[table[b].wid] = 0 THEN table[b].s_idx = -1
                  ELSE /\ table[b].s_idx \in Nat
                       /\ table[b].s_idx + RcSize[table[b].wid] <= bss_head
    BY <1>2 DEF ExitInv, PlacesOwned, RowType
  <2>3. ASSUME NEW b \in DOMAIN table'
        PROVE  IF RcSize[table'[b].wid] = 0 THEN table'[b].s_idx = -1
               ELSE /\ table'[b].s_idx \in Nat
                    /\ table'[b].s_idx + RcSize[table'[b].wid] <= bss_head'
    <3>1. CASE b = b0
      <4>1. /\ RcSize[table'[b].wid] = k
            /\ table'[b].s_idx = IF k = 0 THEN -1 ELSE bss_head
        BY <1>3, <1>4, <1>7, <3>1
      <4>2. bss_head \in Nat /\ bss_head + k <= bss_head'
        BY <1>2, <1>3, <1>5
      <4>3. QED BY <4>1, <4>2
    <3>2. CASE b \in DOMAIN table
      <4>1. table'[b] = table[b]
        BY <1>7, <3>2
      <4>2. bss_head <= bss_head' /\ bss_head' \in Nat /\ bss_head \in Nat
        BY <1>2, <1>3, <1>5
      <4>3. CASE RcSize[table[b].wid] = 0
        BY <2>2, <3>2, <4>1, <4>3
      <4>4. CASE RcSize[table[b].wid] # 0
        BY <2>2, <3>2, <4>1, <4>2, <4>4
      <4>5. QED BY <4>3, <4>4
    <3>3. QED BY <1>7, <3>1, <3>2
  <2>4. ASSUME NEW b \in DOMAIN table', NEW c \in DOMAIN table', b < c,
               table'[b].s_idx # -1, table'[c].s_idx # -1
        PROVE  table'[b].s_idx + RcSize[table'[b].wid] <= table'[c].s_idx
    <3>1. b \in DOMAIN table
      BY <1>2, <1>7, <2>4
    <3>2. CASE c = b0
      BY <1>2, <1>4, <1>7, <2>2, <2>4, <3>1, <3>2
    <3>3. CASE c \in DOMAIN table
      BY <1>7, <2>1, <2>4, <3>1, <3>3
    <3>4. QED BY <1>7, <3>2, <3>3
  <2>5. QED BY <2>3, <2>4 DEF PlacesOwned
<1>15. ASSUME NEW b \in DOMAIN table' PROVE (HasBestExit(b) /\ HasScores(b))'
  <2>1. CASE b = b0
    <3>1. HasBestExit(b)'
      BY <1>4, <1>6, <1>7, <1>11, <2>1, BPTableAssumption DEF HasBestExit
    <3>2. ASSUME NEW c \in 0 .. k - 1
          PROVE  stack'[bss_head + c] = IF c = rc THEN score ELSE WORST_SCORE
      <4>1. rc \in Int /\ c \in Int /\ 0 <= c /\ c < k
        BY <1>3
      <4>2. bss_head + c \in 0 .. bss_head + k - 1
        BY <1>2, <1>3, <4>1
      <4>3. bss_head + c = bss_head + rc <=> c = rc
        BY <1>2, <4>1
      <4>4. QED BY <1>2, <1>5, <4>1, <4>2, <4>3
    <3>3. ASSUME NEW c \in 0 .. k - 1
          PROVE  /\ \A o \in Offers(b)' : o.rc = c => stack'[table'[b].s_idx + c] = o.score
                 /\ (\A o \in Offers(b)' : o.rc # c)
                      => stack'[table'[b].s_idx + c] = WORST_SCORE
      <4>1. table'[b].s_idx = bss_head
        BY <1>3, <1>4, <1>7, <2>1
      <4>2. stack'[table'[b].s_idx + c] = IF c = rc THEN score ELSE WORST_SCORE
        BY <3>2, <4>1
      <4>3. Offers(b)' = {o0}
        BY <1>11, <2>1
      <4>4. QED BY <1>6, <4>2, <4>3
    <3>4. HasScores(b)'
      BY <1>3, <1>4, <1>7, <2>1, <3>3 DEF HasScores
    <3>5. QED BY <3>1, <3>4
  <2>2. CASE b \in DOMAIN table
    <3>1. HasBestExit(b) /\ HasScores(b)
      BY <2>2, BestExitOfRows DEF ExitInv
    <3>2. HasBestExit(b)'
      BY <1>7, <1>10, <2>2, <3>1 DEF HasBestExit
    <3>3. ASSUME NEW c \in 0 .. RcSize[table[b].wid] - 1
          PROVE  stack'[table[b].s_idx + c] = stack[table[b].s_idx + c]
      <4>1. table[b] \in RowType /\ RcSize[table[b].wid] \in Nat
        BY <1>2, <2>2 DEF RowType
      <4>2. table[b].s_idx \in Nat /\ table[b].s_idx + RcSize[table[b].wid] <= bss_head
        BY <2>2, <4>1 DEF ExitInv, PlacesOwned
      <4>3. table[b].s_idx + c \in 0 .. bss_head + k - 1 /\ table[b].s_idx + c < bss_head
        <5>1. PICK i : i = table[b].s_idx + c
          OBVIOUS
        <5>2. i \in Nat /\ i < bss_head
          BY <1>2, <4>1, <4>2, <5>1, SMTT(30)
        <5>3. QED BY <1>2, <1>3, <5>1, <5>2
      <4>4. QED BY <1>5, <4>3
    <3>4. HasScores(b)'
      BY <1>7, <1>10, <2>2, <3>1, <3>3 DEF HasScores
    <3>5. QED BY <3>2, <3>4
  <2>3. QED BY <1>7, <2>1, <2>2
<1>16. QED BY <1>12, <1>13, <1>14, <1>15, BestExitOfRowsNext DEF ExitInv

\* Rows that only change in what BestExitKept does not say keep it.
LEMMA SameExits ==
  ASSUME ExitInv, UNCHANGED <<stack, bss_head, offered>>, DOMAIN table' = DOMAIN table,
         \A b \in DOMAIN table :
           /\ table'[b].wid = table[b].wid /\ table'[b].frame = table[b].frame
           /\ table'[b].bp = table[b].bp /\ table'[b].score = table[b].score
           /\ table'[b].s_idx = table[b].s_idx
  PROVE  ExitInv'
<1>1. \A b \in DOMAIN table : Offers(b)' = Offers(b)
  BY DEF Offers
<1>2. OffersHaveRows'
  <2>1. ASSUME NEW o \in offered
        PROVE  \E b \in DOMAIN table' : table'[b].wid = o.wid /\ table'[b].frame = o.frame
    <3>1. PICK b \in DOMAIN table : table[b].wid = o.wid /\ table[b].frame = o.frame
      BY DEF ExitInv, OffersHaveRows
    <3>2. QED BY <3>1
  <2>2. QED BY <2>1 DEF ExitInv, OffersHaveRows
<1>3. OffersOnce'
  BY DEF ExitInv, OffersOnce
<1>4. PlacesOwned'
  BY DEF ExitInv, PlacesOwned
<1>5. \A b \in DOMAIN table' : (HasBestExit(b) /\ HasScores(b))'
  <2>1. \A b \in DOMAIN table : HasBestExit(b) /\ HasScores(b)
    BY BestExitOfRows DEF ExitInv
  <2>2. QED BY <1>1, <2>1 DEF HasBestExit, HasScores
<1>6. QED BY <1>2, <1>3, <1>4, <1>5, BestExitOfRowsNext DEF ExitInv

\* ngram_search_save_bp keeps it.
LEMMA SaveBpKeepsExits ==
  ASSUME IInv, ExitInv, NEW w \in Words, NEW rc \in 0 .. NPhones - 1, NEW score \in Scores,
         NEW path \in {NO_BP} \cup DOMAIN table, SaveBp(w, rc, score, path)
  PROVE  ExitInv'
<1>1. /\ phase = "frame" /\ rc \in 0 .. Max({RcSize[w] - 1, 0}) /\ NotYet(w, rc)
      /\ offered' = offered \cup {[wid |-> w, frame |-> frame, rc |-> rc,
                                   score |-> score, path |-> path]}
  BY DEF SaveBp, Saved
<1>2. CASE lat[w] = NO_BP
  <2>1. Entered(w, rc, score, path)
    BY <1>2 DEF SaveBp, Saved
  <2>2. QED BY <1>1, <1>2, <2>1, EnteredKeepsExits
<1>3. CASE lat[w] # NO_BP
  <2>1. EnteredAgain(lat[w], rc, score, path)
    BY <1>3 DEF SaveBp, Saved
  <2>2. QED BY <1>1, <1>3, <2>1, EnteredAgainKeepsExits
<1>4. QED BY <1>2, <1>3

\* The end of a frame changes which rows are valid, and nothing else of them.
LEMMA LimitedRows ==
  ASSUME IInv, EndFrame
  PROVE  /\ DOMAIN table' = DOMAIN table
         /\ \A b \in DOMAIN table :
              /\ table'[b].wid = table[b].wid /\ table'[b].frame = table[b].frame
              /\ table'[b].bp = table[b].bp /\ table'[b].score = table[b].score
              /\ table'[b].s_idx = table[b].s_idx
              /\ table'[b].valid =
                   IF ~ NoPruning /\ b \in Current THEN b \in Surviving ELSE table[b].valid
<1>1. table' = Limited
  BY DEF EndFrame
<1>2. ASSUME NEW b \in DOMAIN table
      PROVE  /\ table'[b].wid = table[b].wid /\ table'[b].frame = table[b].frame
             /\ table'[b].bp = table[b].bp /\ table'[b].score = table[b].score
             /\ table'[b].s_idx = table[b].s_idx
             /\ table'[b].valid =
                  IF ~ NoPruning /\ b \in Current THEN b \in Surviving ELSE table[b].valid
  <2>1. table[b] \in RowType
    BY DEF IInv, TypeOK
  <2>2. CASE ~ NoPruning /\ b \in Current
    <3>1. table'[b] = [table[b] EXCEPT !.valid = b \in Surviving]
      BY <1>1, <2>2 DEF Limited
    <3>2. PICK v : v = (b \in Surviving)
      OBVIOUS
    <3>3. QED BY <2>1, <2>2, <3>1, <3>2 DEF RowType
  <2>3. CASE ~ (~ NoPruning /\ b \in Current)
    BY <1>1, <2>3 DEF Limited
  <2>4. QED BY <2>2, <2>3
<1>3. DOMAIN table' = DOMAIN table
  BY <1>1 DEF Limited
<1>4. QED BY <1>2, <1>3

\* An empty table has no exits.
LEMMA EmptyExits ==
  ASSUME table = <<>>, offered = {}
  PROVE  ExitInv
<1>1. DOMAIN table = {}
  OBVIOUS
<1>2. QED BY <1>1 DEF ExitInv, OffersHaveRows, OffersOnce, PlacesOwned, BestExitKept

LEMMA EmptiedExits ==
  ASSUME table' = <<>>, offered' = {}
  PROVE  ExitInv'
<1>1. DOMAIN table' = {}
  OBVIOUS
<1>2. QED BY <1>1 DEF ExitInv, OffersHaveRows, OffersOnce, PlacesOwned, BestExitKept

LEMMA StepExits == IInv /\ ExitInv /\ [Next]_vars => ExitInv'
<1> SUFFICES ASSUME IInv, ExitInv, [Next]_vars PROVE ExitInv'
  OBVIOUS
<1>1. ASSUME UNCHANGED <<table, stack, bss_head, offered>> PROVE ExitInv'
  BY <1>1, SameExits
<1>2. ASSUME Emptied PROVE ExitInv'
  BY <1>2, EmptiedExits DEF Emptied
<1>3. CASE StartUtt
  BY <1>2, <1>3 DEF StartUtt
<1>4. CASE BeginFrame
  BY <1>1, <1>4 DEF BeginFrame, tables
<1>5. ASSUME NEW w \in Words, NEW rc \in 0 .. NPhones - 1, NEW score \in Scores,
             NEW path \in {NO_BP} \cup DOMAIN table, SaveBp(w, rc, score, path)
      PROVE  ExitInv'
  BY <1>5, SaveBpKeepsExits
<1>6. CASE EndFrame
  <2>1. UNCHANGED <<stack, bss_head, offered>>
    BY <1>6 DEF EndFrame
  <2>2. QED BY <1>6, <2>1, LimitedRows, SameExits
<1>7. CASE FailedFrame
  BY <1>1, <1>7 DEF FailedFrame, tables
<1>8. CASE Finish
  BY <1>1, <1>2, <1>8 DEF Finish, tables
<1>9. CASE UNCHANGED vars
  BY <1>1, <1>9 DEF vars
<1>10. QED BY <1>3, <1>4, <1>5, <1>6, <1>7, <1>8, <1>9 DEF Next

\* ngram_search_save_bp: a row has the best score a word was offered in its frame and
\* the path of that score, and the stack the score of each right context, whatever
\* order the contexts come in and however many words exit between them.
THEOREM BestExitIsKept == Spec => []BestExitKept
<1>1. Init => ExitInv
  BY EmptyExits DEF Init
<1>2. ExitInv => BestExitKept
  BY DEF ExitInv
<1>3. QED BY InitInvariant, StepInvariant, StepExits, <1>1, <1>2, PTL DEF Spec

\* ---- the word exits a frame keeps ----

\* Worse orders the rows: by score, and rows of equal scores by their number.
LEMMA WorseOrders ==
  ASSUME TypeOK
  PROVE  /\ \A b, c \in DOMAIN table : b # c => Worse(b, c) \/ Worse(c, b)
         /\ \A b, c \in DOMAIN table : ~ (Worse(b, c) /\ Worse(c, b))
         /\ \A b, c, d \in DOMAIN table : Worse(b, c) /\ Worse(c, d) => Worse(b, d)
         /\ \A b \in DOMAIN table : ~ Worse(b, b)
         /\ \A b, c \in DOMAIN table : ~ Worse(c, b) => Score(b) <= Score(c)
<1>1. \A b \in DOMAIN table : b \in Int /\ Score(b) \in Int
  <2> SUFFICES ASSUME NEW b \in DOMAIN table PROVE b \in Int /\ Score(b) \in Int
    OBVIOUS
  <2>1. b \in 0 .. bpidx - 1 /\ bpidx \in Int /\ table[b] \in RowType
    BY DEF TypeOK
  <2>2. table[b].score \in Scores
    BY <2>1 DEF RowType
  <2>3. Scores \subseteq Int
    BY BPTableAssumption
  <2>4. Score(b) \in Int
    BY <2>2, <2>3 DEF Score
  <2>5. b \in Int
    BY <2>1
  <2>6. QED BY <2>4, <2>5
<1>2. QED BY <1>1 DEF Worse

\* The rows with fewer than n better ones among C: n of them at most, none of C when C
\* is empty only, and none that is left out is better than one of them.
LEMMA BestRows ==
  ASSUME TypeOK, NEW C \in SUBSET DOMAIN table, NEW n \in Nat \ {0},
         NEW S, S = {b \in C : Cardinality({c \in C : Worse(b, c)}) < n}
  PROVE  /\ IsFiniteSet(S) /\ Cardinality(S) <= n
         /\ C # {} => S # {}
         /\ \A b \in C \ S, c \in S : Score(b) <= Score(c)
<1> DEFINE Above(b) == {c \in C : Worse(b, c)}
<1>1. IsFiniteSet(C)
  <2>1. DOMAIN table = 0 .. bpidx - 1 /\ bpidx \in Int
    BY DEF TypeOK
  <2>2. IsFiniteSet(DOMAIN table)
    BY <2>1, FS_Interval
  <2>3. QED BY <2>2, FS_Subset
<1>2. \A b : Above(b) \in SUBSET C /\ IsFiniteSet(Above(b))
  <2>1. \A b : Above(b) \in SUBSET C
    OBVIOUS
  <2> HIDE DEF Above
  <2>2. QED BY <1>1, <2>1, FS_Subset
<1>3. \A b : Cardinality(Above(b)) \in Nat
  <2> HIDE DEF Above
  <2>1. QED BY <1>2, FS_CardinalityType
<1>4. S = {b \in C : Cardinality(Above(b)) < n}
  OBVIOUS
<1>5. ASSUME NEW b \in C, NEW c \in C, Worse(b, c)
      PROVE  Above(c) \subseteq Above(b) /\ Cardinality(Above(c)) < Cardinality(Above(b))
  <2>1. Above(c) \subseteq Above(b)
    BY <1>5, WorseOrders
  <2>2. c \in Above(b) /\ c \notin Above(c)
    BY <1>5, WorseOrders
  <2> HIDE DEF Above
  <2>3. Cardinality(Above(c)) <= Cardinality(Above(b))
    BY <1>2, <2>1, FS_Subset
  <2>4. Cardinality(Above(c)) # Cardinality(Above(b))
    BY <1>2, <2>1, <2>2, FS_Subset
  <2>5. QED BY <1>3, <2>1, <2>3, <2>4
<1> HIDE DEF Above
<1>6. IsFiniteSet(S)
  <2>1. S \in SUBSET C
    BY <1>4
  <2>2. QED BY <1>1, <2>1, FS_Subset
<1>7. Cardinality(S) <= n
  <2> DEFINE g == [b \in S |-> Cardinality(Above(b))]
  <2>1. g \in [S -> 0 .. n - 1]
    BY <1>3, <1>4
  <2>2. ASSUME NEW b \in S, NEW c \in S, b # c PROVE g[b] # g[c]
    <3>1. Worse(b, c) \/ Worse(c, b)
      BY <1>4, <2>2, WorseOrders
    <3>2. g[c] < g[b] \/ g[b] < g[c]
      BY <1>4, <1>5, <3>1
    <3>3. QED BY <1>3, <3>2
  <2>3. g \in Injection(S, 0 .. n - 1)
    <3> HIDE DEF g
    <3>1. QED BY <2>1, <2>2 DEF Injection, IsInjective
  <2>4. IsFiniteSet(0 .. n - 1) /\ Cardinality(0 .. n - 1) = n
    BY FS_Interval
  <2>5. Cardinality(S) <= Cardinality(0 .. n - 1)
    <3> HIDE DEF g
    <3>1. QED BY <2>3, <2>4, FS_Injection
  <2>6. QED BY <2>4, <2>5
<1>8. ASSUME C # {} PROVE S # {}
  <2>1. PICK b \in C : Cardinality(Above(b)) = 0
    <3> DEFINE h == [b \in C |-> -Cardinality(Above(b))]
    <3>1. h \in [C -> Int]
      BY <1>3
    <3>2. PICK b \in C : \A c \in C : h[c] <= h[b]
      <4> HIDE DEF h
      <4>1. QED BY <1>1, <1>8, <3>1, GreatestValue
    <3>3. \A c \in C : Cardinality(Above(b)) <= Cardinality(Above(c))
      BY <1>3, <3>2
    <3>4. Above(b) = {}
      <4>1. ASSUME NEW c \in Above(b) PROVE FALSE
        <5>1. c \in C /\ Worse(b, c)
          BY <4>1 DEF Above
        <5>2. QED BY <1>3, <1>5, <3>3, <5>1
      <4>2. QED BY <4>1
    <3>5. QED BY <3>4, FS_EmptySet
  <2>2. Cardinality(Above(b)) < n
    BY <2>1
  <2>3. QED BY <1>4, <2>2
<1>9. ASSUME NEW b \in C \ S, NEW c \in S PROVE Score(b) <= Score(c)
  <2>1. Cardinality(Above(b)) >= n /\ Cardinality(Above(c)) < n
    BY <1>3, <1>4
  <2>2. ~ Worse(c, b)
    BY <1>3, <1>4, <1>5, <2>1
  <2>3. QED BY <1>4, <2>2, WorseOrders
<1>10. QED BY <1>6, <1>7, <1>8, <1>9

\* WordExitsPruned of one frame.
Pruned(f) ==
  LET rows == {b \in DOMAIN table : table[b].frame = f}
      kept == {b \in rows : table[b].valid}
  IN /\ Cardinality(kept) <= MaxWpf
     /\ Cardinality({b \in kept : table[b].wid \in Fillers}) <= 1
     /\ rows # {} => kept # {}
     /\ \A b \in rows \ kept, c \in kept :
          table[b].wid \notin Fillers => Score(b) <= Score(c)

Prunes == pass = 1 /\ MaxWpf # -1 /\ MaxWpf < Cardinality(Words)

LEMMA PrunedFrames == WordExitsPruned <=> (Prunes => \A f \in 0 .. frame - 1 : Pruned(f))
BY DEF WordExitsPruned, Prunes, Pruned

LEMMA PrunedFramesNext ==
  WordExitsPruned' <=> (Prunes' => \A f \in 0 .. frame' - 1 : Pruned(f)')
BY DEF WordExitsPruned, Prunes, Pruned

\* The exits of the frame being searched are those from its mark on.
LEMMA CurrentRows ==
  ASSUME IInv, phase = "frame"
  PROVE  Current = {b \in DOMAIN table : table[b].frame = frame}
<1>1. frame \in DOMAIN idx /\ frame \in Nat /\ DOMAIN idx = 0 .. frame
  BY DEF IInv, TypeOK, Counts
<1>2. idx[frame] \in Nat /\ bpidx \in Int /\ DOMAIN table = 0 .. bpidx - 1
  BY <1>1 DEF IInv, TypeOK, Counts
<1>3. \A b \in DOMAIN table : table[b].frame \in 0 .. frame
  BY <1>1 DEF IInv, RowsMarked
<1>4. \A b \in DOMAIN table : idx[frame] <= b <=> frame <= table[b].frame
  BY <1>1 DEF IInv, EntriesByFrame
<1>5. \A b \in DOMAIN table : b \in Current <=> table[b].frame = frame
  BY <1>1, <1>2, <1>3, <1>4 DEF Current
<1>6. Current \subseteq DOMAIN table
  BY <1>2 DEF Current
<1>7. QED BY <1>5, <1>6

\* The best of some rows is one of them.
LEMMA BestIsOne ==
  ASSUME TypeOK, NEW bs \in SUBSET DOMAIN table, bs # {}
  PROVE  Best(bs) \in bs /\ BestOf(bs) \in bs
<1>1. /\ DOMAIN table = 0 .. bpidx - 1 /\ bpidx \in Int
      /\ \A b \in DOMAIN table : table[b] \in RowType
  BY DEF TypeOK
<1>2. IsFiniteSet(bs)
  <2>1. IsFiniteSet(DOMAIN table)
    BY <1>1, FS_Interval
  <2>2. QED BY <2>1, FS_Subset
<1>3. Scores \subseteq Int
  BY BPTableAssumption
<1>4. \A b \in bs : Score(b) \in Int
  BY <1>1, <1>3 DEF Score, RowType
<1>5. bs \subseteq Nat
  BY <1>1
<1>6. \E x \in bs : \A y \in bs : Score(y) <= Score(x)
  <2> DEFINE f == [b \in bs |-> Score(b)]
  <2>1. f \in [bs -> Int]
    BY <1>4
  <2>2. \E x \in bs : \A y \in bs : f[y] <= f[x]
    <3> HIDE DEF f
    <3>1. QED BY <1>2, <2>1, GreatestValue
  <2>3. QED BY <2>2
<1> DEFINE top == {b \in bs : \A c \in bs : Score(c) <= Score(b)}
<1>7. top # {} /\ top \subseteq Nat /\ top \subseteq bs
  BY <1>5, <1>6
<1>8. Min(top) \in top
  <2> HIDE DEF top
  <2>1. QED BY <1>7, LeastNatural
<1>9. Best(bs) \in bs
  BY <1>7, <1>8 DEF Best
<1>10. CASE FinishExits(bs) # {}
  <2>1. FinishExits(bs) \subseteq bs
    BY DEF FinishExits
  <2>2. Min(FinishExits(bs)) \in FinishExits(bs)
    BY <1>5, <1>10, <2>1, LeastNatural
  <2>3. QED BY <1>9, <1>10, <2>1, <2>2 DEF BestOf
<1>11. QED BY <1>9, <1>10 DEF BestOf

\* bptable_maxwpf: among the candidates is one filler at most, and one exit at least if
\* the frame has any.
LEMMA OneFiller ==
  ASSUME IInv, phase = "frame"
  PROVE  /\ Candidates \subseteq Current /\ Current \ Candidates \subseteq FillerExits
         /\ \E x : Candidates \cap FillerExits \subseteq {x}
         /\ Current # {} => Candidates # {}
<1>1. Candidates \subseteq Current /\ Current \ Candidates \subseteq FillerExits
  BY DEF Candidates
<1>2. CASE FillerExits = {}
  BY <1>1, <1>2 DEF Candidates
<1>3. CASE FillerExits # {}
  <2>1. Best(FillerExits) \in FillerExits
    <3>1. FillerExits \in SUBSET DOMAIN table
      BY CurrentRows DEF FillerExits
    <3>2. QED BY <1>3, <3>1, BestIsOne DEF IInv
  <2>2. Candidates = Current \ (FillerExits \ {Best(FillerExits)})
    BY <1>3 DEF Candidates
  <2>3. FillerExits \subseteq Current
    BY DEF FillerExits
  <2>4. QED BY <1>1, <2>1, <2>2, <2>3
<1>4. QED BY <1>2, <1>3

\* The exits that bptable_maxwpf leaves valid.
LEMMA SurvivingExits ==
  ASSUME IInv, phase = "frame", MaxWpf # -1
  PROVE  /\ Surviving \subseteq Current
         /\ Cardinality(Surviving) <= MaxWpf
         /\ Cardinality(Surviving \cap FillerExits) <= 1
         /\ Current # {} => Surviving # {}
         /\ \A b \in Current \ Surviving, c \in Surviving :
              b \notin FillerExits => Score(b) <= Score(c)
<1>1. MaxWpf \in Nat \ {0}
  BY BPTableAssumption
<1>2. /\ Candidates \subseteq Current /\ Current \ Candidates \subseteq FillerExits
      /\ Current # {} => Candidates # {}
  BY OneFiller
<1>3. PICK x : Candidates \cap FillerExits \subseteq {x}
  BY OneFiller
<1>4. Candidates \in SUBSET DOMAIN table /\ TypeOK
  BY <1>2, CurrentRows DEF IInv
<1>5. Surviving = {b \in Candidates : Cardinality({c \in Candidates : Worse(b, c)}) < MaxWpf}
  BY DEF Surviving
<1>6. /\ Cardinality(Surviving) <= MaxWpf
      /\ Candidates # {} => Surviving # {}
      /\ \A b \in Candidates \ Surviving, c \in Surviving : Score(b) <= Score(c)
  BY <1>1, <1>4, <1>5, BestRows
<1>7. Cardinality(Surviving \cap FillerExits) <= 1
  <2>1. Surviving \cap FillerExits \in SUBSET {x}
    BY <1>3, <1>5
  <2>2. IsFiniteSet({x}) /\ Cardinality({x}) = 1
    BY FS_Singleton
  <2>3. QED BY <2>1, <2>2, FS_Subset
<1>8. QED BY <1>2, <1>5, <1>6, <1>7

\* Rows of frames before the one being searched are not changed by what it does.
LEMMA SamePruned ==
  ASSUME NEW f, NEW D, D = {b \in DOMAIN table : table[b].frame = f},
         D = {b \in DOMAIN table' : table'[b].frame = f},
         \A b \in D : /\ table'[b].wid = table[b].wid /\ table'[b].score = table[b].score
                      /\ table'[b].valid = table[b].valid,
         Pruned(f)
  PROVE  Pruned(f)'
<1>1. {b \in D : table'[b].valid} = {b \in D : table[b].valid}
  OBVIOUS
<1> DEFINE K == {b \in D : table[b].valid}
<1>2. {b \in K : table'[b].wid \in Fillers} = {b \in K : table[b].wid \in Fillers}
  OBVIOUS
<1>3. \A b \in D : Score(b)' = Score(b)
  BY DEF Score
<1>4. /\ Cardinality(K) <= MaxWpf
      /\ Cardinality({b \in K : table[b].wid \in Fillers}) <= 1
      /\ D # {} => K # {}
      /\ \A b \in D \ K, c \in K : table[b].wid \notin Fillers => Score(b) <= Score(c)
  BY DEF Pruned
<1>5. \A b \in D \ K, c \in K : table'[b].wid \notin Fillers => Score(b)' <= Score(c)'
  BY <1>3, <1>4
<1>6. Pruned(f)' <=>
      /\ Cardinality(K) <= MaxWpf
      /\ Cardinality({b \in K : table[b].wid \in Fillers}) <= 1
      /\ D # {} => K # {}
      /\ \A b \in D \ K, c \in K : table'[b].wid \notin Fillers => Score(b)' <= Score(c)'
  BY <1>1, <1>2 DEF Pruned
<1>7. QED BY <1>4, <1>5, <1>6

\* A further exit of a word, or the first one, changes a row of this frame.
LEMMA SaveBpKeepsPruned ==
  ASSUME IInv, WordExitsPruned, NEW w \in Words, NEW rc, NEW score, NEW path,
         SaveBp(w, rc, score, path)
  PROVE  WordExitsPruned'
<1>1. phase = "frame" /\ UNCHANGED <<frame, pass>>
  BY DEF SaveBp, Saved
<1>2. frame \in Nat
  BY DEF IInv, TypeOK
<1> SUFFICES ASSUME Prunes, NEW f \in 0 .. frame - 1, Pruned(f) PROVE Pruned(f)'
  BY <1>1, PrunedFrames, PrunedFramesNext DEF Prunes
<1>3. f # frame
  BY <1>2
<1>4. PICK D : D = {b \in DOMAIN table : table[b].frame = f}
  OBVIOUS
<1>5. CASE lat[w] = NO_BP
  <2>1. table' = [b \in 0 .. bpidx |->
                    IF b = bpidx THEN Row(w, rc, score, path) ELSE table[b]]
    BY <1>5 DEF SaveBp, Saved, Entered
  <2>2. Row(w, rc, score, path).frame = frame
    BY DEF Row
  <2>3. DOMAIN table = 0 .. bpidx - 1 /\ bpidx \in Nat
    BY DEF IInv, TypeOK, Counts
  <2>4. /\ DOMAIN table' = DOMAIN table \cup {bpidx} /\ table'[bpidx].frame = frame
        /\ \A b \in DOMAIN table : b # bpidx /\ table'[b] = table[b]
    BY <2>1, <2>2, <2>3
  <2>5. D = {b \in DOMAIN table' : table'[b].frame = f}
    BY <1>3, <1>4, <2>4
  <2>6. QED BY <1>4, <2>4, <2>5, SamePruned
<1>6. CASE lat[w] # NO_BP
  <2>1. PICK b0 \in DOMAIN table : b0 = lat[w] /\ table[b0].frame = frame
    BY <1>6 DEF IInv, TypeOK, LatestExits
  <2>2. table' = [table EXCEPT ![b0] = Improved(@, score, path)]
    BY <1>6, <2>1 DEF SaveBp, Saved, EnteredAgain
  <2>3. table[b0] \in RowType
    BY <2>1 DEF IInv, TypeOK
  <2>4. Improved(table[b0], score, path).frame = frame
    BY <2>1, <2>3 DEF Improved, RowType
  <2>5. /\ DOMAIN table' = DOMAIN table /\ table'[b0].frame = frame
        /\ \A b \in DOMAIN table : b # b0 => table'[b] = table[b]
    BY <2>1, <2>2, <2>4
  <2>6. D = {b \in DOMAIN table' : table'[b].frame = f}
    BY <1>3, <1>4, <2>1, <2>5
  <2>7. b0 \notin D
    BY <1>3, <1>4, <2>1
  <2>8. QED BY <1>4, <2>5, <2>6, <2>7, SamePruned
<1>7. QED BY <1>5, <1>6

LEMMA EndFramePrunes ==
  ASSUME IInv, WordExitsPruned, EndFrame
  PROVE  WordExitsPruned'
<1>1. phase = "frame" /\ frame' = frame + 1 /\ pass' = pass /\ frame \in Nat
  BY DEF EndFrame, IInv, TypeOK
<1> SUFFICES ASSUME Prunes, NEW f \in 0 .. frame PROVE Pruned(f)'
  BY <1>1, PrunedFramesNext DEF Prunes
<1>2. ~ NoPruning /\ MaxWpf # -1
  BY BPTableAssumption DEF Prunes, NoPruning
<1>3. /\ DOMAIN table' = DOMAIN table
      /\ \A b \in DOMAIN table :
           /\ table'[b].wid = table[b].wid /\ table'[b].frame = table[b].frame
           /\ table'[b].score = table[b].score
           /\ table'[b].valid = IF b \in Current THEN b \in Surviving ELSE table[b].valid
  BY <1>2, LimitedRows
<1>4. Current = {b \in DOMAIN table : table[b].frame = frame}
  BY <1>1, CurrentRows
<1>5. CASE f # frame
  <2>1. Pruned(f)
    BY <1>1, <1>5, PrunedFrames
  <2>2. PICK D : D = {b \in DOMAIN table : table[b].frame = f}
    OBVIOUS
  <2>3. D = {b \in DOMAIN table' : table'[b].frame = f}
    BY <1>3, <2>2
  <2>4. \A b \in D : b \in DOMAIN table /\ b \notin Current
    BY <1>4, <1>5, <2>2
  <2>5. QED BY <1>3, <2>1, <2>2, <2>3, <2>4, SamePruned
<1>6. CASE f = frame
  <2>1. PICK E, S : E = Current /\ S = Surviving
    OBVIOUS
  <2>2. E = {b \in DOMAIN table' : table'[b].frame = f}
    BY <1>3, <1>4, <1>6, <2>1
  <2>3. S \subseteq E
    BY <1>1, <1>2, <2>1, SurvivingExits
  <2>4. S = {b \in E : table'[b].valid}
    BY <1>3, <1>4, <2>1, <2>3
  <2>5. S \cap FillerExits = {b \in S : table'[b].wid \in Fillers}
    BY <1>3, <1>4, <2>1, <2>3 DEF FillerExits
  <2>6. /\ Cardinality(S) <= MaxWpf
        /\ Cardinality({b \in S : table'[b].wid \in Fillers}) <= 1
        /\ E # {} => S # {}
    BY <1>1, <1>2, <2>1, <2>5, SurvivingExits
  <2>7. ASSUME NEW b \in E \ S, NEW c \in S, table'[b].wid \notin Fillers
        PROVE  Score(b)' <= Score(c)'
    <3>1. Score(b)' = Score(b) /\ Score(c)' = Score(c)
      BY <1>3, <1>4, <2>1, <2>3 DEF Score
    <3>2. b \notin FillerExits
      BY <1>3, <1>4, <2>1, <2>7 DEF FillerExits
    <3>3. Score(b) <= Score(c)
      BY <1>1, <1>2, <2>1, <3>2, SurvivingExits
    <3>4. QED BY <3>1, <3>3
  <2>8. Pruned(f)' <=>
        /\ Cardinality(S) <= MaxWpf
        /\ Cardinality({b \in S : table'[b].wid \in Fillers}) <= 1
        /\ E # {} => S # {}
        /\ \A b \in E \ S, c \in S : table'[b].wid \notin Fillers => Score(b)' <= Score(c)'
    BY <2>2, <2>4 DEF Pruned
  <2>9. QED BY <2>6, <2>7, <2>8
<1>7. QED BY <1>5, <1>6

\* A frame that is only marked has no exits.
LEMMA FailedFramePrunes ==
  ASSUME IInv, WordExitsPruned, FailedFrame
  PROVE  WordExitsPruned'
<1>1. /\ frame' = frame + 1 /\ phase \in {"between", "failed"} /\ frame \in Nat
      /\ UNCHANGED <<table, pass>>
  <2>1. frame \in Nat
    BY DEF IInv, TypeOK
  <2>2. QED BY <2>1 DEF FailedFrame, tables
<1> SUFFICES ASSUME Prunes, NEW f \in 0 .. frame PROVE Pruned(f)'
  BY <1>1, PrunedFramesNext DEF Prunes
<1>2. Pruned(f)' <=> Pruned(f)
  BY <1>1 DEF Pruned, Score
<1>3. CASE f # frame
  BY <1>1, <1>2, <1>3, PrunedFrames
<1>4. CASE f = frame
  <2>1. \A b \in DOMAIN table : table[b].frame # f
    BY <1>1, <1>4 DEF IInv, RowsMarked, Counts
  <2>2. {b \in DOMAIN table : table[b].frame = f} = {}
    BY <2>1
  <2>3. Cardinality({}) = 0 /\ MaxWpf \in Nat
    BY FS_EmptySet, BPTableAssumption DEF Prunes
  <2>4. Pruned(f)
    BY <2>2, <2>3 DEF Pruned
  <2>5. QED BY <1>2, <2>4
<1>5. QED BY <1>3, <1>4

LEMMA StepPrunes == IInv /\ WordExitsPruned /\ [Next]_vars => WordExitsPruned'
<1> SUFFICES ASSUME IInv, WordExitsPruned, [Next]_vars PROVE WordExitsPruned'
  OBVIOUS
<1>1. ASSUME UNCHANGED <<table, frame, pass>> PROVE WordExitsPruned'
  BY <1>1 DEF WordExitsPruned, Score
<1>2. ASSUME frame' = 0 PROVE WordExitsPruned'
  <2>1. 0 .. frame' - 1 = {}
    BY <1>2
  <2>2. QED BY <2>1, PrunedFramesNext
<1>3. CASE StartUtt
  BY <1>2, <1>3 DEF StartUtt, Emptied
<1>4. CASE BeginFrame
  BY <1>1, <1>4 DEF BeginFrame, tables
<1>5. ASSUME NEW w \in Words, NEW rc \in 0 .. NPhones - 1, NEW score \in Scores,
             NEW path \in {NO_BP} \cup DOMAIN table, SaveBp(w, rc, score, path)
      PROVE  WordExitsPruned'
  BY <1>5, SaveBpKeepsPruned
<1>6. CASE EndFrame
  BY <1>6, EndFramePrunes
<1>7. CASE FailedFrame
  BY <1>7, FailedFramePrunes
<1>8. CASE Finish
  BY <1>1, <1>2, <1>8 DEF Finish, Emptied, tables
<1>9. CASE UNCHANGED vars
  BY <1>1, <1>9 DEF vars
<1>10. QED BY <1>3, <1>4, <1>5, <1>6, <1>7, <1>8, <1>9 DEF Next

\* bptable_maxwpf: every searched frame keeps at most maxwpf exits, one filler among
\* them, at least one if it has any, and none that is worse than a word it drops.
THEOREM ExitsArePruned == Spec => []WordExitsPruned
<1>1. Init => WordExitsPruned
  <2>1. Init => 0 .. frame - 1 = {}
    BY DEF Init
  <2>2. QED BY <2>1, PrunedFrames
<1>2. QED BY InitInvariant, StepInvariant, StepPrunes, <1>1, PTL DEF Spec

\* ---- what is read from the table ----

\* The second of two passes is run only after one that did not fail.
FirstPassServed == "first pass fails" \notin Tolerated

\* No hypothesis is asked for where find_exit would abort.
RoomServed == "full table" \notin Tolerated

\* How many frames were searched: all of the first pass, and the second searches as
\* many; the rows are of those frames.
FramesCounted ==
  /\ phase = "idle" => table = <<>> /\ n_frame = 0
  /\ pass = 1 /\ phase \in {"frame", "between"} => n_frame = frame
  /\ pass = 1 /\ two_pass => phase \notin {"failed", "done"}
  /\ pass = 2 => n_frame = total /\ frame <= total
  /\ pass = 2 /\ phase = "frame" => frame < total
  /\ pass = 2 /\ phase = "done" => frame = total
  /\ \A b \in DOMAIN table :
       table[b].frame < n_frame \/ (phase = "frame" /\ table[b].frame = frame)

LEMMA InitCounted == Init => FramesCounted
<1> SUFFICES ASSUME Init PROVE FramesCounted
  OBVIOUS
<1>1. DOMAIN table = {}
  BY DEF Init
<1>2. QED BY <1>1 DEF Init, FramesCounted

\* A frame that fails in the first of two passes would leave the second with rows past
\* the frames counted.
LEMMA StepCounted ==
  ASSUME FirstPassServed
  PROVE  IInv /\ FramesCounted /\ [Next]_vars => FramesCounted'
<1> SUFFICES ASSUME IInv, FramesCounted, [Next]_vars PROVE FramesCounted'
  OBVIOUS
<1>0. /\ frame \in Nat /\ n_frame \in Nat /\ total \in Nat /\ phase \in Phases
      /\ pass \in {1, 2} /\ \A b \in DOMAIN table : table[b].frame \in Nat
  BY DEF IInv, TypeOK, Counts, RowType
<1>1. ASSUME Emptied, n_frame' = 0, pass' = 1, phase' = "between" PROVE FramesCounted'
  <2>1. DOMAIN table' = {} /\ frame' = 0
    BY <1>1 DEF Emptied
  <2>2. QED BY <1>1, <2>1 DEF FramesCounted
<1>2. CASE StartUtt
  BY <1>1, <1>2 DEF StartUtt
<1>3. CASE BeginFrame
  <2>1. /\ phase = "between" /\ phase' = "frame" /\ (pass = 2 => frame < total)
        /\ UNCHANGED <<table, n_frame, frame, two_pass, total, pass>>
    BY <1>0, <1>3 DEF BeginFrame, tables
  <2>2. QED BY <1>0, <2>1 DEF FramesCounted
<1>4. ASSUME NEW w \in Words, NEW rc \in 0 .. NPhones - 1, NEW score \in Scores,
             NEW path \in {NO_BP} \cup DOMAIN table, SaveBp(w, rc, score, path)
      PROVE  FramesCounted'
  <2>1. /\ phase = "frame"
        /\ UNCHANGED <<n_frame, frame, two_pass, total, pass, phase>>
    BY <1>4 DEF SaveBp, Saved
  <2>2. \A b \in DOMAIN table' :
          table'[b].frame = frame \/ (b \in DOMAIN table /\ table'[b].frame = table[b].frame)
    <3>1. CASE lat[w] = NO_BP
      <4>1. table' = [b \in 0 .. bpidx |->
                        IF b = bpidx THEN Row(w, rc, score, path) ELSE table[b]]
        BY <1>4, <3>1 DEF SaveBp, Saved, Entered
      <4>2. Row(w, rc, score, path).frame = frame
        BY DEF Row
      <4>3. DOMAIN table = 0 .. bpidx - 1 /\ bpidx \in Nat
        BY DEF IInv, TypeOK, Counts
      <4>4. QED BY <4>1, <4>2, <4>3
    <3>2. CASE lat[w] # NO_BP
      <4>1. PICK b0 \in DOMAIN table : b0 = lat[w] /\ table[b0].frame = frame
        BY <3>2 DEF IInv, TypeOK, LatestExits
      <4>2. table' = [table EXCEPT ![b0] = Improved(@, score, path)]
        BY <1>4, <3>2, <4>1 DEF SaveBp, Saved, EnteredAgain
      <4>3. table[b0] \in RowType
        BY <4>1 DEF IInv, TypeOK
      <4>4. Improved(table[b0], score, path).frame = frame
        BY <4>1, <4>3 DEF Improved, RowType
      <4>5. QED BY <4>1, <4>2, <4>4
    <3>3. QED BY <3>1, <3>2
  <2>3. QED BY <1>0, <2>1, <2>2 DEF FramesCounted
<1>5. CASE EndFrame
  <2>1. /\ phase = "frame" /\ phase' = "between" /\ frame' = frame + 1
        /\ n_frame' = IF pass = 1 THEN n_frame + 1 ELSE n_frame
        /\ UNCHANGED <<two_pass, total, pass>>
    BY <1>5 DEF EndFrame, Searched
  <2>2. DOMAIN table' = DOMAIN table
        /\ \A b \in DOMAIN table : table'[b].frame = table[b].frame
    BY <1>5, LimitedRows
  <2>3. CASE pass = 1
    BY <1>0, <2>1, <2>2, <2>3 DEF FramesCounted
  <2>4. CASE pass = 2
    BY <1>0, <2>1, <2>2, <2>4 DEF FramesCounted
  <2>5. QED BY <1>0, <2>3, <2>4
<1>6. CASE FailedFrame
  <2>1. /\ phase \in {"between", "failed"} /\ phase' = "failed" /\ frame' = frame + 1
        /\ (pass = 2 => frame < total)
        /\ UNCHANGED <<table, n_frame, two_pass, total, pass>>
    <3>1. frame < IF pass = 1 THEN MaxFrames ELSE total
      BY <1>6 DEF FailedFrame
    <3>2. pass = 2 => frame < total
      BY <3>1
    <3>3. QED BY <1>6, <3>2 DEF FailedFrame, tables
  <2>2. ~ (pass = 1 /\ two_pass)
    BY <1>6 DEF FailedFrame, May, FirstPassServed
  <2>3. QED BY <1>0, <2>1, <2>2 DEF FramesCounted
<1>7. CASE Finish
  <2>1. /\ phase \in {"between", "failed"} /\ n_frame' = n_frame /\ two_pass' = two_pass
        /\ (pass = 2 => frame = total)
    BY <1>7 DEF Finish
  <2>2. CASE pass = 1 /\ two_pass
    <3>1. Emptied /\ total' = frame /\ pass' = 2 /\ phase' = "between"
      BY <1>7, <2>2 DEF Finish
    <3>2. DOMAIN table' = {} /\ frame' = 0
      BY <3>1 DEF Emptied
    <3>3. n_frame = frame
      BY <2>1, <2>2 DEF FramesCounted
    <3>4. QED BY <1>0, <2>1, <3>1, <3>2, <3>3 DEF FramesCounted
  <2>3. CASE ~ (pass = 1 /\ two_pass)
    <3>1. phase' = "done" /\ UNCHANGED <<table, frame, total, pass>>
      BY <1>7, <2>3 DEF Finish, tables
    <3>2. QED BY <1>0, <2>1, <2>3, <3>1 DEF FramesCounted
  <2>4. QED BY <2>2, <2>3
<1>8. CASE UNCHANGED vars
  BY <1>8 DEF vars, FramesCounted
<1>9. QED BY <1>2, <1>3, <1>4, <1>5, <1>6, <1>7, <1>8 DEF Next

\* Marks are in order: no frame is marked past a later one.
LEMMA MarksInOrder ==
  ASSUME IInv, NEW f \in DOMAIN idx, NEW g \in DOMAIN idx, f <= g
  PROVE  idx[f] \in Nat /\ idx[g] \in Nat /\ idx[f] <= idx[g] /\ idx[g] <= bpidx
<1>1. /\ idx[f] \in 0 .. bpidx /\ idx[g] \in 0 .. bpidx /\ bpidx \in Nat
      /\ DOMAIN table = 0 .. bpidx - 1
  BY DEF IInv, TypeOK, Counts
<1>2. ASSUME idx[g] < idx[f] PROVE FALSE
  <2>1. PICK b \in DOMAIN table : b = idx[g]
    BY <1>1, <1>2
  <2>2. g <= table[b].frame /\ table[b].frame \in DOMAIN idx
    BY <1>1, <2>1 DEF IInv, EntriesByFrame, RowsMarked
  <2>3. f \in Int /\ g \in Int /\ table[b].frame \in Int
    BY <2>2 DEF IInv, Counts, TypeOK
  <2>4. f <= table[b].frame
    BY <2>2, <2>3
  <2>5. idx[f] <= b
    BY <2>4 DEF IInv, EntriesByFrame
  <2>6. QED BY <1>1, <1>2, <2>1, <2>5
<1>3. QED BY <1>1, <1>2

\* When an answer is read the frames searched are all marked.
LEMMA AnsweredFrames ==
  ASSUME IInv, FramesCounted, Answers
  PROVE  /\ n_frame \in Nat /\ n_frame <= frame /\ frame \in Nat
         /\ 0 .. frame - 1 \subseteq DOMAIN idx
         /\ phase = "done" => DOMAIN idx = 0 .. frame
         /\ \A b \in DOMAIN table : table[b].frame \in Nat /\ table[b].frame < n_frame
<1>1. n_frame \in Nat /\ frame \in Nat /\ pass \in {1, 2}
      /\ \A b \in DOMAIN table : table[b].frame \in Nat
  BY DEF IInv, TypeOK, Counts, RowType
<1>2. n_frame <= frame
  BY <1>1 DEF Answers, IInv, Counts, FramesCounted
<1>3. DOMAIN idx = IF phase = "done" THEN 0 .. frame ELSE 0 .. frame - 1
  BY DEF Answers, IInv, Counts
<1>4. \A b \in DOMAIN table : table[b].frame < n_frame
  BY <1>1 DEF Answers, FramesCounted
<1>5. 0 .. frame - 1 \subseteq DOMAIN idx
  BY <1>1, <1>3
<1>6. QED BY <1>1, <1>2, <1>3, <1>4, <1>5

\* ngram_search_find_exit reads marks of frames that were searched, and what it finds is
\* a row, if those before the mark do not fill the table.
LEMMA FoundExit ==
  ASSUME IInv, FramesCounted, Answers, n_frame > 0, RoomServed,
         NEW f \in -1 .. n_frame - 1
  PROVE  /\ 0 .. LastLooked(f) \subseteq DOMAIN idx
         /\ AnswersExit(f) => FindExit(f) \in DOMAIN table \cup {NO_BP}
<1>1. PICK last : last = LastLooked(f)
  OBVIOUS
<1>2. n_frame \in Nat /\ n_frame <= frame /\ frame \in Nat
      /\ 0 .. frame - 1 \subseteq DOMAIN idx
  BY AnsweredFrames
<1>3. last \in 0 .. n_frame - 1
  BY <1>1, <1>2 DEF LastLooked
<1>4. 0 .. last \subseteq DOMAIN idx /\ last \in DOMAIN idx
  BY <1>2, <1>3
<1>5. CASE FramesLooked(last) = {}
  BY <1>1, <1>4, <1>5 DEF FindExit
<1>6. CASE FramesLooked(last) # {}
  <2>1. FramesLooked(last) \in SUBSET (0 .. last) /\ IsFiniteSet(0 .. last)
    BY <1>3, FS_Interval DEF FramesLooked
  <2>2. IsFiniteSet(FramesLooked(last))
    BY <2>1, FS_Subset
  <2>3. FramesLooked(last) \in SUBSET Int
    BY <1>3, <2>1
  <2>4. PICK m \in FramesLooked(last) : m = Max(FramesLooked(last))
    BY <1>6, <2>2, <2>3, GreatestInteger
  <2>5. m \in 0 .. last /\ m \in DOMAIN idx /\ idx[m] # idx[last]
    BY <1>4, <2>4 DEF FramesLooked
  <2>6. /\ idx[m] \in Nat /\ idx[last] \in Nat /\ idx[m] <= idx[last]
        /\ idx[last] <= bpidx
    BY <1>3, <1>4, <2>5, MarksInOrder
  <2>7. DOMAIN table = 0 .. bpidx - 1 /\ bpidx \in Nat
    BY DEF IInv, TypeOK, Counts
  <2>8. idx[m] \in idx[m] .. idx[last] - 1
        /\ idx[m] .. idx[last] - 1 \in SUBSET DOMAIN table
    BY <2>5, <2>6, <2>7
  <2>9. BestOf(idx[m] .. idx[last] - 1) \in DOMAIN table
    BY <2>8, BestIsOne DEF IInv
  <2>10. FindExit(f) = IF n_frame = 0 \/ FramesLooked(last) = {} THEN NO_BP
                       ELSE IF idx[last] >= table_size THEN Aborted
                       ELSE BestOf(idx[m] .. idx[last] - 1)
    BY <1>1, <2>4 DEF FindExit
  <2>11. AnswersExit(f) => idx[last] < table_size
    BY <1>1 DEF AnswersExit, RoomServed, May
  <2>12. table_size \in Int
    BY DEF IInv, Counts
  <2>13. QED BY <1>1, <1>4, <1>6, <2>6, <2>9, <2>10, <2>11, <2>12
<1>7. QED BY <1>5, <1>6

\* create_dag_nodes and find_end_node look at every exit of the last frame with any.
LEMMA LatticeEnds ==
  ASSUME IInv, FramesCounted, phase = "done", table # <<>>
  PROVE  /\ \A b \in DOMAIN table : table[b].frame < n_frame
         /\ 0 .. n_frame - 1 \subseteq DOMAIN idx
         /\ EndFrames # {} /\ Max(EndFrames) + 1 \in DOMAIN idx
         /\ EndExits(Max(EndFrames)) = LastExits
<1>1. /\ n_frame \in Nat /\ n_frame <= frame /\ frame \in Nat
      /\ DOMAIN idx = 0 .. frame
      /\ \A b \in DOMAIN table : table[b].frame \in Nat /\ table[b].frame < n_frame
  BY AnsweredFrames DEF Answers
<1>2. /\ DOMAIN table = 0 .. bpidx - 1 /\ bpidx \in Nat
      /\ \A f \in DOMAIN idx : idx[f] \in 0 .. bpidx
  BY DEF IInv, TypeOK, Counts
<1>3. \A b \in DOMAIN table : \A f \in 0 .. frame : idx[f] <= b <=> f <= table[b].frame
  BY <1>1 DEF IInv, EntriesByFrame
<1>4. bpidx > 0
  <2>1. CASE bpidx = 0
    <3>1. DOMAIN table = {}
      BY <1>2, <2>1
    <3>2. table = <<>>
      BY <3>1 DEF IInv, TypeOK
    <3>3. QED BY <3>2
  <2>2. QED BY <1>2, <2>1
<1>5. PICK z \in DOMAIN table : z = bpidx - 1
  BY <1>2, <1>4
<1>6. 0 .. n_frame - 1 \subseteq DOMAIN idx
  BY <1>1
<1>7. \A f \in 0 .. frame : idx[f] # bpidx <=> f <= table[z].frame
  <2> SUFFICES ASSUME NEW f \in 0 .. frame
               PROVE  idx[f] # bpidx <=> f <= table[z].frame
    OBVIOUS
  <2>1. idx[f] \in 0 .. bpidx
    BY <1>1, <1>2
  <2>2. idx[f] <= z <=> f <= table[z].frame
    BY <1>3
  <2>3. QED BY <1>2, <1>5, <2>1, <2>2
<1>8. EndFrames = 0 .. table[z].frame
  BY <1>1, <1>5, <1>7 DEF EndFrames
<1>9. PICK m \in Nat : m = table[z].frame /\ m < n_frame
  BY <1>1
<1>10. Max(EndFrames) = m /\ EndFrames # {}
  <2>1. EndFrames # {} /\ m \in EndFrames /\ EndFrames \in SUBSET Int
    BY <1>8, <1>9
  <2>2. IsFiniteSet(EndFrames)
    BY <1>8, <1>9, FS_Interval
  <2>3. Max(EndFrames) \in EndFrames /\ m <= Max(EndFrames)
    BY <2>1, <2>2, GreatestInteger
  <2>4. QED BY <1>8, <1>9, <2>1, <2>3
<1>11. m \in 0 .. frame /\ m + 1 \in 0 .. frame /\ idx[m + 1] = bpidx
  BY <1>1, <1>7, <1>9
<1>12. ASSUME NEW b \in DOMAIN table PROVE table[b].frame <= m
  <2>1. idx[m + 1] > b
    BY <1>2, <1>11
  <2>2. ~ (m + 1 <= table[b].frame)
    BY <1>2, <1>3, <1>11, <2>1
  <2>3. QED BY <1>1, <1>9, <2>2
<1>13. \A b \in DOMAIN table : idx[m] <= b <=> table[b].frame = m
  BY <1>1, <1>3, <1>9, <1>11, <1>12
<1>14. EndExits(m) = {b \in DOMAIN table : table[b].frame = m}
  <2>1. EndExits(m) = idx[m] .. bpidx - 1
    BY <1>11 DEF EndExits
  <2>2. idx[m] \in Nat
    BY <1>1, <1>2, <1>11
  <2>3. EndExits(m) = {b \in DOMAIN table : idx[m] <= b}
    BY <1>2, <2>1, <2>2
  <2>4. QED BY <1>13, <2>3
<1>15. LastExits = {b \in DOMAIN table : table[b].frame = m}
  BY <1>1, <1>9, <1>12 DEF LastExits
<1>16. QED BY <1>1, <1>6, <1>10, <1>11, <1>14, <1>15

\* ngram_search_find_exit, create_dag_nodes and find_end_node, for every utterance in
\* which nothing that is tolerated happens: what they read of the table was written
\* in the pass that is over, no assertion fails unless the rows before the frame asked
\* for fill the table, and the lattice ends in the last exits.
THEOREM AnswersAreOfThisPass ==
  ASSUME Tolerated = {}
  PROVE  Spec => []AnswersFromThisPass
<1>1. FirstPassServed /\ ~ May("lattice midway") /\ RoomServed
  BY DEF RoomServed, FirstPassServed, May
<1>2. IInv /\ FramesCounted => AnswersFromThisPass
  <2> SUFFICES ASSUME IInv, FramesCounted PROVE AnswersFromThisPass
    OBVIOUS
  <2>1. AnswersLattice => phase = "done"
    BY <1>1 DEF AnswersLattice
  <2>2. QED BY <1>1, <2>1, FoundExit, LatticeEnds DEF AnswersFromThisPass
<1>3. IInv /\ FramesCounted /\ [Next]_vars => FramesCounted'
  BY <1>1, StepCounted
<1>4. QED BY InitInvariant, StepInvariant, InitCounted, <1>2, <1>3, PTL DEF Spec

---------------------------------------------------------------------------
(* The first pass. *)

\* Every step of the search is a step of the table, or leaves the table alone.
LEMMA StepIsTableStep ==
  ASSUME [TreeNext]_treeVars,
         Exit => \E w \in Words, rc \in 0 .. NPhones - 1, score \in Scores,
                   path \in {NO_BP} \cup DOMAIN table : SaveBp(w, rc, score, path)
  PROVE  [Next]_vars
<1>1. CASE TreeStart
  BY <1>1 DEF TreeStart, Next
<1>2. CASE TreeBeginFrame
  BY <1>2 DEF TreeBeginFrame, Next
<1>3. CASE Evaluate
  BY <1>3 DEF Evaluate
<1>4. CASE PruneTree
  BY <1>4 DEF PruneTree
<1>5. CASE LastPhoneTransition
  BY <1>5 DEF LastPhoneTransition
<1>6. CASE PruneWords
  BY <1>6 DEF PruneWords
<1>7. CASE Exit
  BY <1>7 DEF Next
<1>8. CASE TreeEndFrame
  BY <1>8 DEF TreeEndFrame, Next
<1>9. CASE TreeFinish
  BY <1>9 DEF TreeFinish, Next
<1>10. CASE \E sound \in Sounds : LoopStep(sound)
  BY <1>10 DEF LoopStep
<1>11. CASE EndUtt
  BY <1>11 DEF EndUtt
<1>12. CASE UNCHANGED treeVars
  BY <1>12 DEF treeVars
<1>13. QED
  BY <1>1, <1>2, <1>3, <1>4, <1>5, <1>6, <1>7, <1>8, <1>9, <1>10, <1>11, <1>12 DEF TreeNext

\* ngram_search_fwdtree.c implements the table of ngram_search.c, if what it calls save_bp
\* with comes from exits that the word may follow (ExitsFollow).
THEOREM TreeImplementsTable == TreeSpec /\ ExitsFollow => Spec
<1>1. TreeInit => Init
  BY DEF TreeInit
<1>2. [TreeNext]_treeVars /\ [Exit => LET e == Head(exits)
             IN /\ e.wid \in Words /\ e.rc \in 0 .. NPhones - 1 /\ e.score \in Scores
                /\ e.path \in {NO_BP} \cup DOMAIN table
                /\ SaveBp(e.wid, e.rc, e.score, e.path)]_treeVars => [Next]_vars
  <2> SUFFICES ASSUME [TreeNext]_treeVars,
                 [Exit => LET e == Head(exits)
             IN /\ e.wid \in Words /\ e.rc \in 0 .. NPhones - 1 /\ e.score \in Scores
                /\ e.path \in {NO_BP} \cup DOMAIN table
                /\ SaveBp(e.wid, e.rc, e.score, e.path)]_treeVars
               PROVE  [Next]_vars
    OBVIOUS
  <2>1. CASE UNCHANGED treeVars
    BY <2>1 DEF treeVars
  <2>2. CASE ~ UNCHANGED treeVars
    BY <2>2, StepIsTableStep
  <2>3. QED BY <2>1, <2>2
<1>3. QED BY <1>1, <1>2, PTL DEF TreeSpec, ExitsFollow, Spec

\* What is proved of the table holds in the first pass: nothing is used beyond what is
\* allocated, rows are ordered by frame, paths end, and the frame keeps the best exit of
\* each word in each context, whatever the order the tree's exits come in.
COROLLARY TreeTableSound ==
  TreeSpec /\ ExitsFollow => [](TypeOK /\ EntriesByFrame /\ PathsGoBack /\ BestExitKept)
BY TreeImplementsTable, TypeCorrect, RowsOfFrames, PathsEnd, BestExitIsKept, PTL

\* Nor is an answer of the first pass taken from rows of another pass, when the caller asks
\* for no lattice in mid-utterance and for no hypothesis where find_exit would abort.
COROLLARY TreeAnswersSound ==
  ASSUME Tolerated = {}
  PROVE  TreeSpec /\ ExitsFollow => []AnswersFromThisPass
<1>1. Spec => []AnswersFromThisPass
  BY AnswersAreOfThisPass
<1>2. QED
  BY <1>1, TreeImplementsTable, PTL
=============================================================================
