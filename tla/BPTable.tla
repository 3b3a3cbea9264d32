------------------------------ MODULE BPTable ------------------------------
(***************************************************************************)
(* The backpointer table of the n-gram search (src/ngram_search.c): the    *)
(* word exits of an utterance, frame by frame, with the scores of each for *)
(* the right contexts of its last phone.  Both passes fill it; hypotheses, *)
(* segmentations and the lattice are read from it.                         *)
(* The Viterbi search over HMMs is left out: which words leave a frame,    *)
(* with which score and from which earlier exit, is a free choice among    *)
(* what word_transition and last_phone_transition allow.  A word stands    *)
(* for its base word, a right context for its place on the score stack.    *)
(* The first pass is fwdtree; fwdflat without it is not modelled.          *)
(***************************************************************************)
EXTENDS Integers, FiniteSets, FiniteSetsExt

CONSTANTS
  Words, StartWord, FinishWord,
  Fillers,      \* silence and noise words: of a single phone, not in the LM
  RcSize,       \* right contexts of the last phone of a word; 0: a single phone
  NPhones,      \* bin_mdef_n_ciphone
  MaxWpf,       \* the maxwpf parameter, -1 for no pruning
  LatSize,      \* the latsize parameter: first size of bp_table
  StackPerEntry, \* 20 in ngram_search_init
  FrameAlloc,   \* 256 in ngram_search_init
  Scores,       \* scores of exits
  MaxFrames,    \* bound: frames of an utterance
  MaxEntries,   \* bound: entries of the table
  Tolerated     \* what happens, of Hazards

NO_BP == -1
BadWid == "none"    \* BAD_S3WID
WORST_SCORE == 0
Aborted == -2       \* an assertion failed

\* What the code accepts and does not serve as it should.
Hazards == {"first pass fails",  \* and the second, which starts again, does not
            "lattice midway",    \* ps_get_lattice before the end of the utterance
            "full table"}        \* a hypothesis when no row of bp_table is left

ASSUME BPTableAssumption ==
  /\ {StartWord, FinishWord} \cup Fillers \subseteq Words
  /\ StartWord # FinishWord /\ Fillers \cap {StartWord, FinishWord} = {}
  /\ BadWid \notin Words
  /\ NPhones \in Nat /\ RcSize \in [Words -> 0 .. NPhones]
  /\ \A w \in Fillers \cup {StartWord} : RcSize[w] = 0
  /\ MaxWpf \in Nat \cup {-1} /\ MaxWpf # 0
  /\ LatSize \in Nat \ {0} /\ FrameAlloc \in Nat \ {0}
  /\ StackPerEntry \in Nat /\ LatSize * StackPerEntry * 2 >= NPhones
  /\ Scores \subseteq Nat \ {WORST_SCORE}
  /\ MaxFrames \in Nat /\ MaxEntries \in Nat
  /\ Tolerated \subseteq Hazards

VARIABLES
  table,       \* bp_table: the rows in use
  bpidx,       \* bpidx: their number
  table_size,  \* bp_table_size
  stack,       \* bscore_stack: the places in use
  bss_head,    \* bss_head: their number
  stack_size,  \* bscore_stack_size
  idx,         \* bp_table_idx: the frames marked in this pass
  n_alloc,     \* n_frame_alloc
  lat,         \* word_lat_idx
  n_frame,     \* n_frame: frames searched
  frame,       \* acmod's output_frame
  two_pass,    \* the configuration: fwdtree and then fwdflat
  total,       \* features of the utterance, once the first pass has ended
  pass,        \* 1: fwdtree; 2: fwdflat after it
  phase,       \* "idle", "frame", "between", "failed" or "done"
  offered      \* history: what save_bp was called with in this pass

vars == <<table, bpidx, table_size, stack, bss_head, stack_size, idx, n_alloc, lat,
          n_frame, frame, two_pass, total, pass, phase, offered>>
room == <<table_size, stack_size>>
tables == <<table, bpidx, room, stack, bss_head, lat, offered>>

May(hazard) == hazard \in Tolerated

\* The exits of a frame, while it is searched.
Current == idx[frame] .. bpidx - 1

---------------------------------------------------------------------------
(* ngram_search_mark_bptable. *)

Marked(n) == [f \in DOMAIN idx \cup {frame} |-> IF f = frame THEN n ELSE idx[f]]

\* Mutant of Mark: the mark is the last row in use.
MarkLast ==
  /\ n_alloc' = IF frame >= n_alloc THEN 2 * n_alloc ELSE n_alloc
  /\ idx' = Marked(Max({bpidx - 1, 0}))

Mark ==
  /\ n_alloc' = IF frame >= n_alloc THEN 2 * n_alloc ELSE n_alloc
  /\ idx' = Marked(bpidx)

(* ngram_search_save_bp. *)

\* The language model state after exit p.
LMState(p) ==
  IF p = NO_BP THEN <<BadWid, BadWid>>
  ELSE <<table[p].prev_real_wid, table[p].real_wid>>

\* set_real_wid for an exit of w after exit p: fillers keep the state.
RealWid(w, p) == IF w \in Fillers /\ p # NO_BP THEN table[p].real_wid ELSE w
PrevRealWid(w, p) ==
  IF p = NO_BP THEN BadWid
  ELSE IF w \in Fillers THEN table[p].prev_real_wid ELSE table[p].real_wid

Row(w, rc, score, path) ==
  [wid |-> w, frame |-> frame, bp |-> path, score |-> score, valid |-> TRUE,
   s_idx |-> IF RcSize[w] = 0 THEN -1 ELSE bss_head,
   real_wid |-> RealWid(w, path), prev_real_wid |-> PrevRealWid(w, path)]

\* Mutant of GrownTable: the table grows when it has overflowed.
GrownTableLate == IF bpidx > table_size THEN 2 * table_size ELSE table_size

\* Room for another row, and for the scores of another word.
GrownTable == IF bpidx >= table_size THEN 2 * table_size ELSE table_size
GrownStack ==
  IF bss_head >= stack_size - NPhones THEN 2 * stack_size ELSE stack_size

\* The first exit of w in the frame.
Entered(w, rc, score, path) ==
  /\ table_size' = GrownTable /\ stack_size' = GrownStack
  /\ table' = [b \in 0 .. bpidx |->
                 IF b = bpidx THEN Row(w, rc, score, path) ELSE table[b]]
  /\ stack' = [i \in 0 .. bss_head + RcSize[w] - 1 |->
                 IF i < bss_head THEN stack[i]
                 ELSE IF i = bss_head + rc THEN score ELSE WORST_SCORE]
  /\ lat' = [lat EXCEPT ![w] = bpidx]
  /\ bpidx' = bpidx + 1 /\ bss_head' = bss_head + RcSize[w]

\* Mutant of Improved: the path of the first exit stays.
ImprovedScoreOnly(e, score, path) ==
  IF e.score >= score THEN e ELSE [e EXCEPT !.score = score]

\* Row e when another right context of its word exits: the best score and its
\* path stay.  The language model state is set before the path is.
Improved(e, score, path) ==
  IF e.score >= score THEN e
  ELSE [e EXCEPT
          !.score = score, !.bp = path,
          !.real_wid = IF LMState(e.bp) = LMState(path) THEN @ ELSE RealWid(e.wid, e.bp),
          !.prev_real_wid = IF LMState(e.bp) = LMState(path) THEN @
                            ELSE PrevRealWid(e.wid, e.bp)]

\* A further exit of the word whose row is b.
EnteredAgain(b, rc, score, path) ==
  /\ table' = [table EXCEPT ![b] = Improved(@, score, path)]
  /\ stack' = IF table[b].s_idx = -1 THEN stack
              ELSE [stack EXCEPT ![table[b].s_idx + rc] = score]
  /\ UNCHANGED <<bpidx, room, bss_head, lat>>

\* word_transition, last_phone_transition: a word follows an unpruned exit.  Silence and
\* the noise words, which </s> is among, follow pruned ones too, but not </s>.
TreeFollows(w, p) ==
  \/ w \notin Fillers \cup {StartWord} /\ table[p].valid
  \/ w \in Fillers \cup {FinishWord} /\ table[p].wid # FinishWord

\* fwdflat_word_transition: any word, <s> as a noise word, follows any exit but </s>.
FlatFollows(p) == table[p].wid # FinishWord

\* The exits a path of w may come from: <s> begins one, others come from an earlier frame.
MayFollow(w, p) ==
  IF p = NO_BP THEN w = StartWord
  ELSE /\ p \in DOMAIN table /\ table[p].frame < frame
       /\ IF pass = 1 THEN TreeFollows(w, p) ELSE FlatFollows(p)

\* The last phone of w leaves with right context rc; each leaves once in a frame.
NotYet(w, rc) ==
  lat[w] # NO_BP => RcSize[w] > 0 /\ stack[table[lat[w]].s_idx + rc] = WORST_SCORE

Saved(w, rc, score, path) ==
  /\ IF lat[w] = NO_BP THEN Entered(w, rc, score, path) ELSE EnteredAgain(lat[w], rc, score, path)
  /\ offered' = offered \cup {[wid |-> w, frame |-> frame, rc |-> rc,
                               score |-> score, path |-> path]}
  /\ UNCHANGED <<idx, n_alloc, n_frame, frame, two_pass, total, pass, phase>>

SaveBp(w, rc, score, path) ==
  /\ phase = "frame"
  /\ rc \in 0 .. Max({RcSize[w] - 1, 0})
  /\ MayFollow(w, path)
  /\ NotYet(w, rc)
  /\ lat[w] = NO_BP => bpidx < MaxEntries
  /\ Saved(w, rc, score, path)

---------------------------------------------------------------------------
(* A frame. *)

Score(b) == table[b].score
\* The best of some exits; of equal ones the first.
Best(bs) == Min({b \in bs : \A c \in bs : Score(c) <= Score(b)})
Worse(b, c) == Score(b) < Score(c) \/ (Score(b) = Score(c) /\ b < c)

FillerExits == {b \in Current : table[b].wid \in Fillers}
\* The exits of the frame without all but the best filler.
Candidates ==
  Current \ (IF FillerExits = {} THEN {} ELSE FillerExits \ {Best(FillerExits)})

\* Mutant of Surviving: each filler counts as a word exit.
SurvivingAll ==
  {b \in Current : Cardinality({c \in Current : Worse(b, c)}) < MaxWpf}

\* bptable_maxwpf: the best filler of the frame, and of the exits with it the best
\* MaxWpf; of equal ones the first is dropped.
Surviving ==
  {b \in Candidates : Cardinality({c \in Candidates : Worse(b, c)}) < MaxWpf}

NoPruning == pass = 2 \/ MaxWpf \in {-1, Cardinality(Words)}

Limited ==
  IF NoPruning THEN table
  ELSE [b \in DOMAIN table |->
          IF b \in Current THEN [table[b] EXCEPT !.valid = b \in Surviving] ELSE table[b]]

\* Mutant of Forgotten: the exits of the frame stay the words' latest ones.
ForgottenNot == lat

\* word_transition, fwdflat_word_transition: the words that left are forgotten.
Forgotten == [w \in Words |-> IF \E b \in Current : table[b].wid = w THEN NO_BP ELSE lat[w]]

\* ngram_fwdtree_search, ngram_fwdflat_search up to the pruning of HMMs.
BeginFrame ==
  /\ phase = "between"
  /\ frame < IF pass = 1 THEN MaxFrames ELSE total
  /\ Mark
  /\ phase' = "frame"
  /\ UNCHANGED <<tables, n_frame, frame, two_pass, total, pass>>

\* Mutant of Searched: both passes count their frames.
SearchedTwice == n_frame + 1

\* The frames searched: only the first pass counts them.
Searched == IF pass = 1 THEN n_frame + 1 ELSE n_frame

\* The rest of the search of a frame, and acmod_advance.
EndFrame ==
  /\ phase = "frame"
  /\ table' = Limited
  /\ lat' = Forgotten
  /\ n_frame' = Searched
  /\ frame' = frame + 1
  /\ phase' = "between"
  /\ UNCHANGED <<bpidx, room, stack, bss_head, idx, n_alloc, two_pass, total, pass, offered>>

\* No HMM is left (best_score is WORST_SCORE): this frame and the rest are only marked.
FailedFrame ==
  /\ phase \in {"between", "failed"} /\ frame > 0
  /\ frame < IF pass = 1 THEN MaxFrames ELSE total
  /\ pass = 1 /\ two_pass => May("first pass fails")
  /\ Mark
  /\ frame' = frame + 1
  /\ phase' = "failed"
  /\ UNCHANGED <<tables, n_frame, two_pass, total, pass>>

---------------------------------------------------------------------------
(* An utterance. *)

\* ngram_fwdtree_start, ngram_fwdflat_start: an empty table.
Emptied ==
  /\ table' = <<>> /\ bpidx' = 0 /\ stack' = <<>> /\ bss_head' = 0 /\ offered' = {}
  /\ lat' = [w \in Words |-> NO_BP]
  /\ frame' = 0
  /\ UNCHANGED room

StartUtt ==
  /\ phase \in {"idle", "done"}
  /\ Emptied
  /\ idx' = <<>>
  /\ n_frame' = 0 /\ total' = 0
  /\ pass' = 1 /\ phase' = "between"
  /\ UNCHANGED <<n_alloc, two_pass>>

\* ngram_search_finish: the mark past the last frame, and in the first of two
\* passes the start of the second.
Finish ==
  /\ phase \in {"between", "failed"}
  /\ pass = 2 => frame = total
  /\ IF pass = 1 /\ two_pass
     THEN /\ Emptied /\ idx' = <<>>
          /\ n_alloc' = IF frame >= n_alloc THEN 2 * n_alloc ELSE n_alloc
          /\ total' = frame /\ pass' = 2 /\ phase' = "between"
     ELSE /\ Mark /\ phase' = "done"
          /\ UNCHANGED <<tables, frame, total, pass>>
  /\ UNCHANGED <<n_frame, two_pass>>

Init ==
  /\ table = <<>> /\ bpidx = 0 /\ stack = <<>> /\ bss_head = 0 /\ offered = {}
  /\ table_size = LatSize /\ stack_size = LatSize * StackPerEntry
  /\ idx = <<>> /\ n_alloc = FrameAlloc
  /\ lat = [w \in Words |-> NO_BP]
  /\ two_pass \in BOOLEAN
  /\ n_frame = 0 /\ frame = 0 /\ total = 0 /\ pass = 1 /\ phase = "idle"

Next ==
  \/ StartUtt
  \/ BeginFrame
  \/ \E w \in Words, rc \in 0 .. NPhones - 1, score \in Scores,
        path \in {NO_BP} \cup DOMAIN table : SaveBp(w, rc, score, path)
  \/ EndFrame
  \/ FailedFrame
  \/ Finish

Spec == Init /\ [][Next]_vars

---------------------------------------------------------------------------
(* What is read from the table. *)

\* </s> if it is among some exits, the best of them otherwise.
FinishExits(bs) == {b \in bs : table[b].wid = FinishWord}
BestOf(bs) == IF FinishExits(bs) # {} THEN Min(FinishExits(bs)) ELSE Best(bs)

\* ngram_search_find_exit for frame f: the frame whose mark ends the exits looked
\* at, the frames before it with exits between, and the exit.  Its assertion is that
\* there is room behind those looked at.
LastLooked(f) == IF f = -1 \/ f >= n_frame THEN n_frame - 1 ELSE f
FramesLooked(last) == {g \in 0 .. last : idx[g] # idx[last]}
FindExit(f) ==
  LET last == LastLooked(f)
  IN IF n_frame = 0 \/ FramesLooked(last) = {} THEN NO_BP
     ELSE IF idx[last] >= table_size THEN Aborted
     ELSE BestOf(idx[Max(FramesLooked(last))] .. idx[last] - 1)

\* The exits of the latest frame that has any.
LastExits == {b \in DOMAIN table : \A c \in DOMAIN table : table[c].frame <= table[b].frame}

\* The times a hypothesis can be asked for, and a lattice.
Answers == \/ phase = "done"
           \/ pass = 1 /\ phase \in {"between", "failed"}
\* A hypothesis up to frame f: not when the rows before that frame fill bp_table.
AnswersExit(f) == Answers /\ (idx[LastLooked(f)] < table_size \/ May("full table"))
AnswersLattice == phase = "done" \/ (Answers /\ May("lattice midway"))

\* find_end_node: the last frame of the lattice with exits from it on, and the exits
\* between its mark and the next.
EndFrames == {f \in 0 .. n_frame - 1 : idx[f] # bpidx}
EndExits(f) == idx[f] .. idx[f + 1] - 1

---------------------------------------------------------------------------

RowType ==
  [wid : Words, frame : Nat, bp : Nat \cup {NO_BP}, score : Scores, valid : BOOLEAN,
   s_idx : Nat \cup {-1}, real_wid : Words, prev_real_wid : Words \cup {BadWid}]

\* The tables are in use up to bpidx and bss_head, within what is allocated.
TypeOK ==
  /\ bpidx \in 0 .. table_size /\ table \in [0 .. bpidx - 1 -> RowType]
  /\ bss_head \in 0 .. stack_size
  /\ stack \in [0 .. bss_head - 1 -> Scores \cup {WORST_SCORE}]
  /\ \A f \in DOMAIN idx : f \in 0 .. n_alloc - 1 /\ idx[f] \in 0 .. bpidx
  /\ lat \in [Words -> DOMAIN table \cup {NO_BP}]
  /\ n_frame \in 0 .. MaxFrames /\ frame \in 0 .. MaxFrames /\ total \in 0 .. MaxFrames

\* "First BPTable entry for each frame": the rows from the mark of a searched frame
\* to the next mark are the exits of that frame, one for each word.
EntriesByFrame ==
  \A b \in DOMAIN table :
    /\ \A f \in DOMAIN idx : idx[f] <= b <=> f <= table[b].frame
    /\ \A c \in DOMAIN table : c # b /\ table[c].frame = table[b].frame
                                => table[c].wid # table[b].wid

\* A path goes back in time through exits, pruned ones too, and begins with <s>, whatever
\* rows were changed after it was recorded: a backtrace ends.
PathsGoBack ==
  \A b \in DOMAIN table :
    IF table[b].bp = NO_BP THEN table[b].wid = StartWord
    ELSE table[b].bp \in DOMAIN table /\ table[table[b].bp].frame < table[b].frame

Offers(b) == {o \in offered : o.wid = table[b].wid /\ o.frame = table[b].frame}

\* "Keep only the best scoring one" (save_bp): of the exits of a word in a frame the
\* row has the best score, with a path of that score. "But do keep track of scores for
\* all right contexts": what a successor finds for a context is what was saved for it,
\* and WORST_SCORE if nothing was.
BestExitKept ==
  \A b \in DOMAIN table :
    /\ \A o \in Offers(b) : o.score <= table[b].score
    /\ \E o \in Offers(b) : o.score = table[b].score /\ o.path = table[b].bp
    /\ \A rc \in 0 .. RcSize[table[b].wid] - 1 :
         stack[table[b].s_idx + rc] =
           IF \E o \in Offers(b) : o.rc = rc
           THEN (CHOOSE o \in Offers(b) : o.rc = rc).score ELSE WORST_SCORE

\* "Maximum number of distinct word exits at each frame" (maxwpf), and one filler: what
\* is pruned is no better than what is kept, and something is kept.
WordExitsPruned ==
  pass = 1 /\ MaxWpf # -1 /\ MaxWpf < Cardinality(Words) =>
    \A f \in 0 .. frame - 1 :
      LET exits == {b \in DOMAIN table : table[b].frame = f}
          kept == {b \in exits : table[b].valid}
      IN /\ Cardinality(kept) <= MaxWpf
         /\ Cardinality({b \in kept : table[b].wid \in Fillers}) <= 1
         /\ exits # {} => kept # {}
         /\ \A b \in exits \ kept, c \in kept :
              table[b].wid \notin Fillers => Score(b) <= Score(c)

\* A language model state as set_real_wid gives it for w after exit p.
StateAfter(w, p) == <<PrevRealWid(w, p), RealWid(w, p)>>

\* "Propagate lm state for fillers, rotate it for words" (set_real_wid): the language
\* model state of an exit is the one of the path it has.
LMStateFollowsPath ==
  \A b \in DOMAIN table : LMState(b) = StateAfter(table[b].wid, table[b].bp)

\* "Find the best word exit for the current frame in the backpointer table"
\* (ngram_search_find_exit): at the end of an utterance, of its last exits.
LastExitIsFound ==
  phase = "done" /\ table # <<>> => FindExit(-1) \in {BestOf(LastExits), Aborted}

\* Every mark ngram_search_find_exit reads was set in this pass, and it finds an exit of
\* this pass or none, and does not abort; the end of a lattice is one of the last exits of
\* the utterance, all of which are looked at, and no exit lies past its frames
\* (create_dag_nodes' assertion).
AnswersFromThisPass ==
  /\ Answers /\ n_frame > 0 =>
       \A f \in -1 .. n_frame - 1 :
         /\ 0 .. LastLooked(f) \subseteq DOMAIN idx
         /\ AnswersExit(f) => FindExit(f) \in DOMAIN table \cup {NO_BP}
  /\ AnswersLattice /\ table # <<>> =>
       /\ \A b \in DOMAIN table : table[b].frame < n_frame
       /\ 0 .. n_frame - 1 \subseteq DOMAIN idx
       /\ EndFrames # {} /\ Max(EndFrames) + 1 \in DOMAIN idx
       /\ EndExits(Max(EndFrames)) = LastExits
============================================================================
