# PocketSphinx in TLA+

A verification development of PocketSphinx (`src/`): the path an utterance
takes from samples through the searches to a lattice, and the endpointer in front
of it, as TLA+ modules that TLC checks on small instances and TLAPS proves
theorems about.

## The system

PocketSphinx is a speech decoder. It is sequential: a client calls functions,
and one object is used by one thread. What is hard about it is state that
lives across calls. An utterance arrives in blocks whose sizes the client
chooses, passes through four buffers of fixed size, each with its own unit,
and must come out as if it had arrived in one piece. Behind the buffers, the
searches keep only what is near the best, share what words have in common, reuse
their memory and renormalise their scores; what they find must be what a search
that does none of this finds.

| Part | Source | State | Operations | Correct when |
|---|---|---|---|---|
| Front end | `fe/fe_interface.c`, `fe_sigproc.c` | overflow buffer, pre-emphasis prior, frame buffer | `fe_start_utt`, `fe_process_frames`, `fe_end_utt` | frames do not depend on the blocks |
| Live features | `feat/feat.c` | circular buffer of 256 cepstra, `bufpos`, `curpos` | `feat_s2mfc2feat_live` | features equal those of batch processing |
| Acoustic model pipeline | `acmod.c` | `mfc_buf`, `feat_buf` (rings), state, counts | `acmod_start_utt`, `_process_raw`, `_process_cep`, `_advance`, `_rewind`, `_score`, `_end_utt` | every feature reaches the search once, in order, and is still there when asked for |
| Decoder | `pocketsphinx.c` | the utterance, `pl_window`, the searches | `ps_start_utt`, `ps_process_raw`, `ps_process_cep`, `ps_end_utt` | the main search is shown the whole utterance |
| Endpointer | `ps_endpointer.c` | ring of frames and speech flags, running count, two clocks | `_process`, `_end_stream`, `_set_timestamp_func` | segments are stretches of the stream, with their times |
| HMM evaluation | `hmm.c` | scores and histories of the states of an HMM | enter, evaluate, normalize, clear | the best path to each state |
| Phone loop | `phone_loop_search.c` | an HMM for each phone, a ring of penalties | start, step | penalties are those of the frames ahead |
| N-gram search | `ngram_search*.c` | backpointer table, lexicon tree, active lists | start, step, finish, hyp | word histories are well founded, lists agree with what is active, sharing changes nothing |
| Grammar search | `fsg_search.c`, `fsg_lextree.c`, `fsg_history.c` | lexicon trees, active lists, history entries, the lists of a frame | start, step, finish, reinit, hyp | the best path through the grammar is found |
| Grammars | `lm/fsg_model.c` | transitions, null transitions, words that are fillers or alternates | add, closure, read | the closure changes no path |
| Keyword search | `kws_search.c`, `kws_detections.c` | an HMM for each phone, a chain for each phrase, detections | start, step, finish, reinit, hyp | what was said is detected, once |
| Alignment | `state_align_search.c`, `ps_alignment.c` | a chain of HMMs, tokens of all frames, entries of words, phones and states | start, step, finish, populate, propagate | the best alignment, without gaps |
| Lattice | `ps_lattice.c` | nodes, links, alphas and betas, a queue | link, traverse, best path, posterior, prune, A* | links lie on paths, answers are exact |
| VAD | `ps_vad.c`, `common_audio/` (vendored) | filter and noise state | `ps_vad_classify` | numeric |
| CMN, AGC | `feat/cmn*.c`, `agc.c` | running means | update, apply | numeric |
| Phone recognition | `allphone_search.c` | an HMM for each triphone, a history | start, step, finish, hyp | the best phone string |
| Acoustic scoring | `s2_semi_mgau.c`, `ptm_mgau.c`, `ms_*.c` | rings of top codewords | `frame_eval` | numeric, rings indexed by frame |
| Dictionary, phones, language models | `dict*.c`, `*mdef.c`, `lm/` | tables | look-up, add | maps agree with each other |
| Containers | `util/hash_table.c`, `heap.c`, `listelem_alloc.c`, ... | chains, heap, free lists | enter, delete, insert, pop | implement a map, a bag, a set |
| Programs, bindings | `programs/`, `cython/`, `gst/` | clients of the above | | |

How they interact: a client (directly, or behind an endpointer) hands samples to
`ps_process_raw`, which loops: `acmod_process_raw` runs the front end into
`mfc_buf`, `acmod_process_mfcbuf` and `acmod_process_cep` run the live feature
computation from there into `feat_buf`, and `ps_search_forward` drains
`feat_buf`, stepping the phone loop on each frame and the main search on the
frame `pl_window` before it, which it reads back from behind the ring's read
position. The penalties of the phone loop go into the beams of the first n-gram
pass. `ps_end_utt` flushes all of this, and a two-pass n-gram search then
rewinds the ring and runs again; what it leaves in its table becomes a lattice.
Every search but the lattice's runs HMMs by `hmm_vit_eval`.

## The modules

- `FrameCounts`: the arithmetic of `fe_process_frames_int16` - frames written,
  samples taken, samples kept - as operators of the overflow, the block and the
  output room. `FrontEnd` and `Acmod` both use it, and so do the proofs about them:
  `FrameRing_proofs` has the lemmas.
- `FrontEnd`: the framing. A sample is its index, so a frame says which samples
  it was made of; the history variable `frames` keeps them. Actions: `StartUtt`,
  `ProcessFrames(n, cap)`, `EndUtt`. `IdealFrame` is the reference definition.
- `FrontEnd_proofs`: theorems about `FrontEnd`.
- `LiveRing`: `feat_s2mfc2feat_live` as a function on a live buffer, with both
  ends of an utterance and the case of a whole one. A feature is the sequence of
  cepstra it was computed from. `Ideal` is batch processing.
- `LiveFeat`: a caller that offers blocks to it, utterance after utterance.
  `FrameRing_proofs` has the lemmas about the buffer, `LiveFeat_proofs` the theorems.
- `Acmod`: every function of `acmod.c` on the way of the data, as an operator on
  a record with the fields of `acmod_t`. `ok` becomes FALSE where an assertion
  of the code fails or a row outside a buffer is used.
- `Decoder`: the client, the `ps_*` functions and what the searches are shown.
  A step `Work` is one iteration of the loop of `ps_process_raw` or
  `ps_process_cep`, so a call is several steps. `Decoder_proofs`: lemmas about the
  functions of `Acmod`, and the theorems.
- `FrameService`: what decoding promises a search, abstractly: the features of
  the utterance, in order, complete at its end; `whole` says whether the end
  itself was told (see `"cep leadout"` below). `Decoder` implements it
  (`MainIsServed`).
- `Endpointer`: the endpointer, with the classifier's answer a free choice and a
  frame represented by the time it starts at. `Endpointer_proofs`: theorems.
- `BPTable`: the backpointer table of the n-gram search: `save_bp`, the marks,
  word-exit pruning, both passes, and what `find_exit`, the backtrace and
  `find_end_node` read. Which words leave a frame, with which score and from
  which earlier exit, is free within what the transitions of the pass allow: in the
  first, words follow unpruned exits (`TreeFollows`); in both, the loop over noise
  words also goes on from pruned exits and enters `</s>`, in the second `<s>` as well
  (`FlatFollows`). Nothing follows `</s>`. `offered` keeps what `save_bp` was called with.
- `Hmm`: an HMM and a step of its Viterbi search, for three, five and other numbers
  of states. A score is an integer above `WORST_SCORE`.
- `PhoneLoop`: the loop of phones that runs ahead, with its ring of penalties, as
  operators on a record; `Reached` is the same without beam, ring and
  renormalisation.
- `FwdTree`: the first pass. It EXTENDS `BPTable` and decides what that module leaves
  free: the tree of HMMs with its active lists, last phones that are allocated and
  freed, words of one phone, candidates, beams and histogram, word transitions. A
  step is a part of `ngram_fwdtree_search` (`TreeBeginFrame`, `Evaluate`, `PruneTree`,
  `LastPhoneTransition`, `PruneWords`, one `Exit` for each call of `save_bp`,
  `TreeEndFrame`). The phone loop runs `case.window` frames ahead of it (`LoopStep`),
  and `EndUtt` lets it catch up. Noise words, `</s>` among them, begin after the best
  silence, with no word of the language model (`NoiseBegan`). `case` is a topology, a language model and a set of
  beams, chosen once. Scores are taken above `WORST_SCORE`; `case.origin` is the
  code's score 0. The history `flat` is a search of the words one by one, without
  tree, beams, candidates and renormalisation.
- `FwdTree_proofs`: theorems about the structure of the table of `BPTable`, its scores,
  pruning and answers; and that `FwdTree` implements it.
- `FsgModel`, `FsgLextree`, `FsgHistory`: the parts of the grammar search, as
  operators. A grammar as it is read: transitions once each, the closure of null
  transitions, silences, alternates. The lexicon trees: contexts of the states, a
  node for each phone that words share, leaves by right context. A node is a record
  of what the search takes from it; its identity is the path of senone sequences to
  it. The history: the exits of a frame that compete in lists by state, last phone
  and right contexts (`fsg_history_entry_add`), their transfer to the table, null
  transitions, and `find_exit`.
- `FsgSearch`: the search itself. A step is a part of `fsg_search_step`: `Evaluate`
  (up to `hmm_eval`), `Prune` (`hmm_prune_prop`), `EndFrame` (the rest). `case` is
  a grammar with a topology and beams, chosen once. Of the histories, `offered` keeps
  the exits of a frame, pruned or not, and `flat` is a search of the grammar as it is
  written: a chain of HMMs for each transition and each phone before and after it, no
  tree, no closure, no beam, no competition. `OneRootServes` says of a case that the one
  root which the tree has for a longer word is right for all phones before it (see
  `"one root"` below). Scores stay above `WORST_SCORE`; the code does not
  renormalise them. The factor of the beams is a power of nine tenths.
- `KwsSearch`: keyphrase spotting: the phone loop of its own, the chain of HMMs of
  each phrase, pruning, transitions, detections that compete, the hypothesis; several
  utterances, and `Reinit` for a new dictionary. The history `heard` is a search
  without a beam that keeps a chain for each phrase and each frame it may have begun
  in; `heard.due` is what it finds.
- `StateAlign`: forced alignment, from the words through the search and the trace
  back to the times of words, phones and states. `case` is an acoustic model with
  words and the times they came with. `Ways` is the set of all ways through the
  chain of states in the frames heard, each frame within the times of the phone it is
  given to.
- `Lattice`: the word lattice: links, removal of what is not reached, traversals in
  both directions step by step, best path, posteriors, pruning by posterior, and the
  A* search, in any order a client may call them. Scores add, weights multiply.
  `Paths` is the set of all paths. A lattice is that of an n-gram search, with one node in
  the start frame, or that of a grammar search, with several and an artificial start linked
  to them (`ArtificialStart`). The A* search begins at every node of the start frame, the
  artificial one too (`FirstPaths`), so that its results are `Alternatives`: in the second
  kind the same words come with the artificial start and without. The language score of
  the first word is left out of the A* search: every path has it.
- `MC*`: the instances; each `.cfg` gives the constants.

Left out of all of them: signal processing, normalisation, feature formulas,
acoustic scores (a frame of sound is the score it gives to each senone), log
files, allocation failure. `FwdTree` leaves out utterances shorter than the
lookahead window and frames for which no score is worth keeping (`BPTable` has
them, as `FailedFrame`). An operator whose comment begins with "Mutant"
is a plausible mistake in the definition that follows; it is there to see that
the properties notice it, and is used by no specification.

## What the code does not serve

The models accept what the code accepts. Where that breaks a promise, the use
is named in a set (`Seams` of `LiveFeat`, `Hazards` of the others) and the client
keeps away from it unless the constant `Tolerated` has it. So the passing runs say
what holds, and under which use. What a use breaks shows when `Tolerated` in a
configuration is given its value. `endpointer` tolerates both of its uses:
properties that one of them breaks speak of streams without it, by the history
`plain`. `decoder` tolerates `"cep leadout"`: the properties say exactly what is
missing.

| Use | What happens | Property violated |
|---|---|---|
| `"overwrite"` | a block that just fits the live buffer overwrites left context (`feat.c:1340`) | `LiveAgreesWithBatch` |
| `"put off"` | a put-off end of utterance is not visible as `feat.h:401` says | `PutOffIsVisible` |
| `"no frame yet"` | a first block shorter than a frame ends `ACMOD_STARTED` (`acmod.c:760`) | `StartedUntilData` |
| `"short utterance"` | fewer frames than `pl_window`: the main search sees none (`pocketsphinx.c:1329`) | `LookaheadIsFlushed` |
| `"end at edge"` | the end of an utterance would wrap in `feat_buf`: last features dropped (`acmod.c:719`) | `NothingLeftBehind` |
| `"cep leadout"` | an utterance of cepstra in blocks gets no leadout: its last window of features is missing (`acmod.c:437`) | `MainIsServed` with `whole` for all |
| `"long block"` | cepstra that fill `feat_buf` overwrite frames the main search is behind on (`acmod.c:697`); as do the cepstra of samples, once a whole utterance before has grown `mfc_buf` (`acmod.c:560`) | `MainIsServed` |
| `"grow midway"` | `no_search` in mid-utterance makes a wrapped ring a growing one (`pocketsphinx.c:1234`) | `MainIsServed` |
| `"after end"` | data after `ps_end_utt` is decoded (`pocketsphinx.c:1229`) | `EndIsFinal` |
| `"not started"` | cepstra before any `ps_start_utt` are decoded: only `ps_process_raw` looks at the state of `acmod` (`pocketsphinx.c:1256`) | `MainIsServed` |
| `"callback"` | with a timestamp function trailing samples are dropped (`ps_endpointer.c:347`), starts are a frame late (line 427) | `AllSpeechReachesEnd`, `SegmentIsStretch` without `plain` |
| `"reuse"` | a second stream through an endpointer has times behind it (`ps_endpointer.c:366`) | `SegmentIsStretch` without `plain` |
| `"first pass fails"` | exits of the second pass past the frames counted: assertion of `create_dag_nodes` (`ngram_search.c:1084`) | `AnswersFromThisPass` |
| `"lattice midway"` | a lattice in mid-utterance reads the mark after the last, not set (`ngram_search.c:1172`) | `AnswersFromThisPass` |
| `"full table"` | rows of the frames that a hypothesis looks at just fill `bp_table`: assertion of `find_exit` (`ngram_search.c:527`); the table grows only with the next exit | `AnswersFromThisPass` |
| `"one root"` | a word of several phones has one root, with the senone sequence of the first phone before it, for all of them (`fsg_lextree.c:523`), where `fsg_lextree.h:78` has "an independent HMM for each distinct context" | `SearchIsFlat` |
| `"again"` (keywords) | a phrase begun in one utterance is detected in the next, with a start frame of the first: its HMMs are not cleared (`kws_search.c:607`) | `DetectionsAreDue` |
| `"reinit midway"` | adding a word in mid-utterance clears the phone loop; nothing is detected until the next (`kws_search.c:513`) | `DetectionsAreDue` |
| `"skips"` (keywords) | states that can be skipped: a later detection may begin earlier, so that it replaces the newest and overlaps an older one (`kws_detections.c:62`) | `DetectionsDisjoint` |
| `"again"` (alignment) | a second utterance through the same search: HMMs are not cleared (`state_align_search.c:45`) | `AlignmentTiles` |
| `"skips"` (alignment) | states that the best path skips keep the times they had (`state_align_search.c:233`) | `AlignmentTiles` |
| `"half skips"` | three states with a skip to the end only: the score of the last state takes it for one of its own (`hmm.c:549`) | `AlignmentIsBest` |
| `"no skips"` | five states evaluate absent transitions too (`hmm.c:222`) | `AlignmentIsBest` |
| `"mixed"` | a word without times, or with times too short, before one with times | `AlignmentIsBest` |
| `"overrun"` | an utterance longer than the times given: one frame past the end of the last word is aligned, with a way that ends before it (`state_align_search.c:98`, `:225`) | `AlignmentIsBest` |
| `"orphans"` | pruning all links into a node and not all out of it leaves a node that is not reached (`ps_lattice.c:1560`) | `LinksAgree` |
| `"start pruned"` | pruning every path removes the start (`ps_lattice.c:1560`) | `LinksAgree` |
| `"shared info"` | a traversal and an A* search share a field of the node (`ps_lattice.c:1736`) | `NBestInOrder` |

One more is no action of a model: a word added to a grammar in mid-utterance frees the
trees that the active lists point into (`pocketsphinx.c:996`). `Reinit` of `FsgSearch` is
for between utterances.

The calls of `Lattice` are those of clients of the library, in some respects narrower than
what it accepts: posteriors are asked for after a best path, with the same language
model; pruning follows posteriors, with no A* search open; a walk begins on a lattice that
is new or pruned; an A* search begins on such a one or after posteriors, over the whole
utterance, with a language model in the lattice of an n-gram search only. Links are made in
the order of the search that makes them (`MayComeAfter`): from the end backwards in
`ngram_search_lattice`, along the history in `fsg_search_lattice`, and then those of an
artificial start and end.

Four properties of the table above are stated in the modules and checked by no run, as
they hold by the guard that excludes the use (`PutOffIsVisible`, `StartedUntilData`,
`LookaheadIsFlushed`, `EndIsFinal`). Two more describe what fails in ordinary use:
`ScoresAddUp` of `StateAlign` (the score of the first state lacks that of its first
frame, `state_align_search.c:253`) and `TrigramsExact` of `Lattice` (a best path over
fillers is not the best of all with trigrams, `ps_lattice.c:1274`).

Seen while reading, and not stated as properties: the histogram of `prune_channels`
compares counts of the whole utterance with `maxhmmpf`, a limit for a frame
(`ngram_search_fwdtree.c:1135`), and its bins are zero wide for a beam narrower than
256, which the next division divides by (line 1141); the best transition of a frame
is looked up among exits that word-exit pruning removed as well; detections are
segments when they end exactly `delay` frames ago, or are listed behind such a one,
but words of the hypothesis only a frame later (`kws_search.c:125`,
`kws_detections.c:94`); the keyword search never renormalises its scores; with windows
as long as their shift (`fe_parse_general_params` accepts them) an utterance may end
with no sample left, and `acmod_end_utt` then computes no leadout (`acmod.c:437`): the
last window of features is not made.

## The runs

Passing:

- `front_end` (`FrameSize` 5, `FrameShift` 2, 30 samples, up to 4 rows): frames
  ignore the blocks (`FramesIgnoreBlocks`), the overflow buffer is what the next
  frame needs and the tail reaches the end (`NothingLost`), samples are left only
  when the output was filled, and a call with samples and room advances
  (`CallsAdvance`). 30 samples are 13 frames; every residue of the block,
  of the overflow and of the shift occurs, and after each call the state depends
  on the position only, as the proofs show for all sizes.
- `live_features` (`L` 9, `Win` 2, blocks up to 12, 17 cepstra): the features
  are those of batch processing and none is withheld longer than the window
  (`LiveAgreesWithBatch`); the documented output bound holds, a block is never
  refused whole (`BlockContract`). The buffer is gone around twice in an utterance
  and starts the next where the last ended.
- `decoder` (rings of 3 and 5 rows, window 1, lookahead 2, up to 9 cepstra):
  blocks of samples, blocks of cepstra that `mfc_buf` could hold, and whole
  utterances of both, with and without `no_search`, and with one or two passes
  (`two_pass`, chosen at the start). No assertion fails (`NeverAborts`),
  `FrameService` is implemented through every wrap of the ring (`MainIsServed`),
  the phone loop keeps its lead (`LookaheadKept`), an ended utterance leaves nothing
  behind and the second pass runs over the features of the first
  (`NothingLeftBehind`), every call returns (`CallsReturn`). `FirstGrow` is 8 for
  128, so that the ring of a two-pass decoder grows twice in an utterance.
- `endpointer` (4 frames of 2 samples, thresholds 2 and 2, 18 samples): with a
  timestamp function that comes and goes and several streams through one endpointer,
  the ring is consistent, never full and never empty in a segment (`RingIsSound`),
  and no frame is returned twice (`SegmentsDisjoint`). In one stream in audio time
  segments are stretches of it, a window late at most, with the right times
  (`SegmentIsStretch`), to the last sample (`AllSpeechReachesEnd`). A stream has
  room for two segments, of any shape.
- `bp_table` (five words: `<s>`, `</s>`, a word of two right contexts, two
  fillers; two scores, 3 frames, 4 rows, pruning to 2): rows in order of frames,
  one per word (`EntriesByFrame`), paths that end (`PathsGoBack`), the best exit
  of a word and the scores of all its contexts (`BestExitKept`),
  pruning that keeps the best (`WordExitsPruned`), hypotheses and lattices from
  marks of this pass and without an assertion that fails (`AnswersFromThisPass`). The
  table starts with one row,
  the stack with two places and the marks with one frame, so that each grows
  twice, the table in the middle of a frame. Four rows are enough for two words
  in one frame after two others, and for a row to be improved from another path. A last
  frame without exits behind a table that is just full occurs too: the hypothesis is then
  not asked for (`"full table"`).
- `first_pass` (ten words of one to four phones that share roots and inner phones,
  two of them homophones; one and two states an HMM; two utterances of up to five
  frames of three sounds; wide, narrow and histogram beams, `maxhmmpf` 6 and 1;
  lookahead of no, one and two frames): the lists are exactly what is active, once
  each, through two utterances, and a search never empties itself (`ListsAreActive`);
  with wide beams the exits of every frame are those of the search without a tree,
  with narrow ones none is better (`TreeSearchIsFlat`); the penalties of a frame are
  those of the frames ahead (`PenaltiesLookAhead`); every call of `save_bp` is one
  that `BPTable` allows (`ExitsFollow`). The language model is a unigram, with a
  strong penalty after `</s>`, so that the best path to a word has the best exit
  whatever follows and the reference is exact; `</s>` is better reached as a noise word
  than as a word of the language model; `origin` 93 makes the scores of a
  long utterance fall below the limit at which they are renormalised.
- `fsg_search` (grammars of up to four states: null transitions in a cycle with an
  alternate; words that share phones, with silences and fillers; two ways into a
  state; one and two states an HMM; beams that prune nothing and beams that prune
  much, with `maxhmmpf` 3 and 4; two utterances of up to five frames of three
  sounds): with wide beams the exits of every frame are those of the search of the
  grammar as written, with their scores and after the same words, and the hypothesis
  has the best score with which the utterance may end, in the final state among equal
  ones; with narrow beams nothing is better (`SearchIsFlat`). In whatever order exits
  come, each state keeps for each last phone and right context the best, and nothing
  is lost by following null transitions from the survivors only (`BestArrivalKept`);
  paths are paths of the grammar (`PathsFollowGrammar`); the lists are exactly what
  is active, once each, all else is cleared, and a search never empties itself
  (`ActiveAreListed`). A further grammar has a word whose root depends on the phone before
  it; it is searched when `"one root"` is tolerated, and violates `SearchIsFlat`. Four states are needed for a null transition that one pass of
  the closure misses, five frames for a word that is best begun behind it.
- `keywords` (phrases of two and three phones, one in the other; one, two and three
  states an HMM; a beam that prunes nothing and one that prunes much; two utterances of up
  to eight frames of three sounds): with the wide beam every time in which a phrase
  is as likely as its threshold asks has a detection at least as good, and each
  detection is such a time; a narrow beam makes nothing better (`DetectionsAreDue`).
  Detections of a phrase are disjoint and in order, though a replacement is compared
  with one rival only (`DetectionsDisjoint`). A word of the hypothesis is taken back
  only for a detection longer than the delay (`HypothesisStays`). Eight frames hold
  two separate detections of the shorter phrase, and replacements of both.
- `alignment` (seven cases: one or two words of one to four phones of one, two,
  three and five states, with and without times, with skips; up to seven frames of three
  sounds; two utterances in one case): the alignment tiles the utterance at all
  three levels (`AlignmentTiles`), is a way through the chain within the times given
  and the best one, and fails only where there is none (`AlignmentIsBest`). The bounds on
  frames of the cases with times are past the end of their last words, where the
  utterances end (`"overrun"`), so that no bound hides what comes behind.
  `WORST_SCORE` is -30 and frames cost up to 3, so that scores are renormalised.
- `lattice` (every lattice of five nodes and up to six links, a start, a word, a
  filler, a word and an end; with the start alone in the start frame, and with an
  artificial start and two nodes beside it; four partial paths): links agree in both directions and
  lie on paths (`LinksAgree`), walks are complete and in order (`WalksComplete`), the
  best path is a path with its score and the best where fillers do not hide a word
  (`BestPathIsBest`), posteriors are shares of the weight of all paths
  (`PosteriorsAreShares`), alternatives come in order, from every node of the start
  frame, and all where the list of partial paths holds as many (`NBestInOrder`). Five nodes
  and six links have up to four paths from the start; with those that begin behind an
  artificial start there are more alternatives than the list has places.

Violations, each of one property, quoted in `PROJECT.json`:

- `bp_lm_state`: when a better right context changes the path of a row, its
  language model state is recomputed before the path is assigned
  (`ngram_search.c:426`), from the path given up (`LMStateFollowsPath`);
- `bp_last_exit`: `find_exit` stops at the mark of the last frame, which is where
  its exits begin, and finds the hypothesis a frame too early
  (`ngram_search.c:514`, `LastExitIsFound`).

Deadlock is not checked where a bound stops the system: in `decoder` (an utterance
that has reached `MaxCeps` in a position from which the client would have to end it
at the edge of the ring), in `first_pass`, `fsg_search` and `alignment` (all utterances over).

Fairness: only `Decoder` has a liveness property. A call of a C function runs
until it returns, so an iteration that would change something is taken
(`WorkIsFair`); nothing is assumed of the client. An iteration that changes
nothing is a loop that never ends, and violates `CallsReturn`.

## The theorems

What is proved holds for every value of the constants that the named assumptions
allow. Each invariant is proved by an inductive one, which is its conjunction with what
a step needs to know besides; each action has a lemma.

`FrontEnd_proofs` proves, for every `FrameSize >= FrameShift > 1` and any
blocks, that `TypeOK`, `FramesIgnoreBlocks`, `NothingLost` and `CallsAdvance` are
invariants. The assumptions are the two checks of
`fe_parse_general_params` (`FrameAssumption`). The inductive invariant is
their conjunction: `FramesIgnoreBlocks` alone is not inductive, because a
frame is made of what the overflow buffer and the prior hold, which is what
`NothingLost` says. In `FrameRing_proofs`, `CallCounts` is the arithmetic of one call (samples
taken plus overflow before is overflow after plus frames times shift),
`SourceIsStream` says that a call then sees consecutive samples,
`BufferHoldsNextFrame` and `CallWritesIdealFrames` follow, and one lemma per
action carries the invariant.

`Endpointer_proofs` proves `TypeOK` and `RingIsSound` for
every window and both thresholds that `ps_endpointer_init` accepts, with and
without timestamp function and re-use. The argument is about one ring:
`GoodQueue(q)` says the count of `q` is the number of its speech frames;
`PushedIsGood` and `PoppedIsGood` say that pushing and popping keep it (by the
arithmetic of positions modulo the window, `RoundIs` and `RingSteps`). A segment
ends when fewer than `end_frames` speech frames are left and pops a frame with
every push, so the ring stays between empty and full. The conjunction is
inductive; that the ring is never full is not by itself, as it needs the type of
`n`, and the end of the ring at the end of a stream needs the count.
`SegmentIsStretch`, `SegmentsDisjoint` and `AllSpeechReachesEnd` are about what
the ring holds. `FramesOrdered` says that its frames are in the order of the stream,
behind the segment and before the sample that comes next; `FramesTimed` and
`SegmentTimed` say, of a `plain` stream, that they are consecutive, and that the two
clocks of the endpointer agree with them. Their conjunction with the ring's
invariant (`TimeInv`) is inductive, and the two action properties follow from it.

`FwdTree_proofs` proves `TypeOK`, `EntriesByFrame` and `PathsGoBack` of `BPTable` for every
dictionary, every first size of the tables and any number of utterances, from
`BPTableAssumption` (a filler and `<s>` have one phone, as the dictionary has
them; the stack, doubled once, has room for all contexts of a word, as the
100000 places of the default `latsize` have). None of the three is
inductive. A row that is improved belongs to this frame only because
`word_lat_idx` points nowhere else (`LatestExits`); that the words' pointers are
all cleared at the end of a frame follows from the marks (`EntriesByFrame`), as
the rows of the frame are those from its mark on; the marks cover exactly the
frames searched (`Counts`), and every row has a marked frame (`RowsMarked`).
One lemma per action carries the conjunction.

It also proves the rest of what `save_bp` and `bptable_maxwpf` promise. `BestExitKept`: a row has the best score offered to its word in the frame,
with the path it came with, and each place of the stack the score offered in its
context; this needs that every offer has a row (`OffersHaveRows`), comes once per
context (`OffersOnce`), and that the stack places of two rows do not overlap
(`PlacesOwned`), which `BestExitKept` does not say. `WordExitsPruned` follows from
the definition of the rows kept; that a best row exists among finitely many is
`GreatestValue`, proved with the well-founded order of finite sets, as induction over
a formula is not to be had. `AnswersFromThisPass` has the hypothesis
`Tolerated = {}`: three uses in the table above break it, `"first pass fails"`,
`"lattice midway"` and `"full table"`. Its invariant says which marks are of this pass
(`MarksInOrder`, `FramesCounted`); that a hypothesis finds a row for the mark it ends with
is what `"full table"` keeps away from.

`FrameRing_proofs` is also about one call of `feat_s2mfc2feat_live`, for every buffer of
more than four windows. `Windowed(buf, c, o, hi, last)` says that the places around
the current one hold the cepstra around the feature after the first `o`, ends
padded. Places are counted from the current one (`Around`), so that the two ends of
the buffer matter in three lemmas only (`AroundIs`, `AroundAround`, `Distance`);
`CopiedAt` then says what copying a block does, `Extends` that the window grows by
it, `Moves` that it moves on with the features computed, and `Gives` that those are
the features of batch processing. `LiveFeat_proofs` composes the calls: `FeatInv`
adds to `LiveAgreesWithBatch` that in the middle of an utterance the buffer is
`InStep`, without which nothing follows about the next call; and that features
once computed are still those of the utterance when more of it is known needs
that they lie a window behind (`StaysIdeal`). `LiveIsBatch` and `ContractKept` have
the hypothesis `Tolerated = {}`: at the two seams the code breaks the first. The
second is of the states of such a caller, but the calls it speaks of are all, at
the seams too.

Of the first pass, `FwdTree_proofs` proves that it implements `BPTable`: the initial state
is one of its initial states, and each step is a step of the table or leaves it
alone; hence what is proved of the table holds in the first pass
(`TreeTableSound`, `TreeAnswersSound`). All have `ExitsFollow` as a hypothesis: that the exits
which the tree search saves may follow the exits they come from is a matter of
histories kept in HMMs over many frames, which `first_pass` checks.

`Decoder_proofs` proves the invariants of the decoder, `DecoderNeverAborts`,
`LookaheadIsKept` and `EndLeavesNothing`, and that it implements `FrameService`
(`MainSearchIsServed`), for every window and shift, size of the live buffer, lookahead,
first size of a ring that grows and set of blocks, and any number of utterances, with
one pass and with two. It composes the other proofs: the samples by
`CallCounts`, the features by the lemmas on the live buffer. The hypothesis is `Served`,
which the run `decoder` satisfies:

- the client keeps away from the uses of the table above, except `"cep leadout"`;
- `FrameSize > FrameShift`: windows overlap, so that there is a sample left at the end
  of an utterance, without which `acmod_end_utt` does not complete the features;
- a block of cepstra leaves the live buffer room for both windows,
  `n + 2 * Win <= L`, the condition under which `LiveRing` is away from its seams.
  `LiveFeat` tolerates longer blocks, as it takes them in parts; for blocks that fit
  `mfc_buf`, `2 * Win + 1` rows, it follows from `LiveAssumption`.

None of the four is inductive. The invariant (`Inv`, of parts named in `DInv`) says:

- `Basic`: the record is of its types (`Sound`); between two iterations `mfc_buf` is
  empty, and so is `feat_buf` unless it may grow;
- `CallIn`: what is left of a call fits what it is given to: `mfc_buf` where that was
  grown by a whole utterance, the live buffer, and a ring that may not grow;
- `PhaseIn`: how far the cepstra given have become features. Before the first, nothing
  is kept (`Waiting`); in the middle, the live buffer is `InStep` and the features are
  a window behind (`Middle`, as in `LiveFeat_proofs`), and a ring that may grow has not
  wrapped and has a place free behind what it holds (`Straight`), because
  `acmod_grow_feat_buf` copies places and not features; a whole utterance has
  all of them at once (`Whole`). A sample is kept from the first frame on, which is what
  the leadout needs;
- `LookedIn`: the ring holds the features not yet read, and behind them those read as
  far as there is room (`Queued`), so that the main search, `pl_window` behind, finds its
  frames; both searches were shown what they should have been;
- `OverIn`: what `NothingLeftBehind` says, and that the main search was shown all.

`Queued` counts places from the one read next, so that reading (`AdvancedQueued`),
storing (`ReceivedIs`) and growing (`GrownIs`) are each a statement about one number
modulo the size; what a ring of `2 * Win + 1 + PlWindow` rows keeps readable is
`Lookback`. Above them are lemmas for each function of `acmod.c`: `PartIs` and
`WithRoomMiddle` for the two parts in which `acmod_process_cep` stores, `ProcessMiddle`,
`ProcessStart` and `ProcessLast` for its three situations, `RawMiddle`, `RawStart`,
`EndMiddle`, `FullRawIs`. For the loop that doubles the size of a ring there is no
induction to cite: that its recursive function exists is proved with the least of
the numbers for which it would not (`SizesFrom`), and what it computes in the same way
(`DoubledIs`). The step of the refinement follows from the invariant on both sides of
the step and one fact about the step itself: the main search is shown more, and nothing
is taken back (`Goes`).

`KwsSearch_proofs` proves that detections of a phrase are disjoint
(`DetectionsAreDisjoint`) and what the hypothesis may take back (`HypothesisIsKept`), for
all phrases, thresholds, beams, delays and sounds, and HMMs of any number of states. A
detection replaces one rival, the newest it overlaps, and is compared with no other; that
it overlaps no other is not in `kws_detections.c` but in the HMMs it comes from. The
invariant (`KwsInv`) follows the start frames through them: along the chain of a phrase,
from its first state to its last, start frames never increase (`Ordered`), because a state
is entered from itself or from the one before, so that the score that wins brings a start
frame between the two (`VitEvalEvolves`, `ChainMoved`, `ChainEntered`); and nothing in a
chain has begun before the last detection of its phrase began (`AllSince`). So a later
detection begins no earlier than one before it, and the only one of its phrase that it can
overlap is the newest (`AddedInOrder`). The hypotheses are that no state can be skipped
(`Tolerated = {}`; with a skip `Ordered` is false, see the table above), and
`Modest`: a frame costs at most `Loss`, and `MaxFrames` of them do not reach the worst
score. The code keeps 32 bits, does not renormalise these scores, and takes a score below
`WORST_SCORE` (-2^29) for none: in an utterance long enough a chain would lose its start
frame. `MCKwsSearch` has `Modest` of its cases as an assumption that TLC evaluates.
`Detected` goes through the phrases by a recursive function; `DetectedIs` shows that it
exists, and that the invariant carries along it, by the least counterexample.

`Lattice_proofs` proves that the links of a lattice stay together (`LinksStayTogether`)
and that every walk over it is complete and in order (`WalksAreComplete`), for lattices
of any number of nodes and links and any order of the client's calls. The hypothesis
`PrunesWithCare` keeps away from the uses `"orphans"` and `"start pruned"` of the table,
which break the first; `"shared info"` breaks neither. The invariant (`LatticeInv`) has two
parts. `Agreeing(dag, E)` says that the lists of the nodes hold the links `E`, each once in
either direction; linking, cutting and removing nodes each change `E` in one way
(`LinkedAgrees`, `CutAgrees`, `KeptAgrees`), and `Trimmed` adds for a built lattice that no
node is a dead end. That this survives pruning needs that the walk inside of
`ps_lattice_posterior_prune` comes to every link (`AllForwardIs`): it sets `reachable` to
false only for nodes it comes to. `Walking` is the invariant of a walk: the links given
or in the queue are exactly those out of nodes into which all links have been given, and
`info` counts the others. It is proved once for a `Network` in which links have a source
and a destination (`WalkBegins`, `WalkGoesOn`, `WalkEnds`), and both directions are
networks (`ForwardNetwork`, `ReverseNetwork`). In the code a walk empties its queue when it
comes to the goal; that nothing is lost by it is `AllAtTheLast`, which would be false with a
dead end. Reachability is the least closed set, as `dag_mark_reachable` computes it, so
that `KeptReaching` and `KeptReached` need no induction.

Only model-checked: `DetectionsAreDue` of `KwsSearch`, everything in `FsgSearch` and
`StateAlign`, the scores and alternatives of `Lattice`, and the lists, scores and
penalties of `FwdTree`. Out of the prover's reach:
`CallsReturn` (liveness under fairness), and what a definition by recursion or folding
over data computes (the best path of a lattice, an alignment, the search without a tree,
the lists that a search goes through HMM by HMM).

## Not modelled, and the plan

In the order of importance, with the module each would be:

1. `SearchSwitch`: several searches, `ps_activate_search` and the change of
   `pl_window` over one ring.
2. The rest of the searches: the HMMs of the second pass (`ngram_search_fwdflat.c`)
   with its word lists; multiplex HMMs; `allphone_search.c`; the lattices built from
   `BPTable` and from the history of the grammar search.
3. `HashTable`, `Heap`, `ListElemAlloc` against a map, a bag and a set of free
   elements.
4. `ModelSet` (the word map of `ngram_model_set.c`) and the expansion of rules in
   `jsgf.c`.
5. When CMN is updated by `acmod`; `ps_process` after an error return.

Theorems planned: that a state of `FsgSearch` keeps the best arrival
(`BestArrivalKept`) as a row of `BPTable` does.

Not planned: generated and vendored code (parsers, VAD, LAPACK), file formats,
signal processing and Gaussian scoring, which are numeric or pure I/O; they are most
of the source by size.
