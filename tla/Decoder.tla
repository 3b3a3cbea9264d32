------------------------------ MODULE Decoder ------------------------------
(***************************************************************************)
(* Decoding one utterance after the other (src/pocketsphinx.c): the client *)
(* starts an utterance, hands over samples or cepstra in blocks and ends   *)
(* it; ps_process_raw and ps_process_cep loop over acmod (Acmod) and show  *)
(* every feature first to the phone loop and, pl_window frames later, to   *)
(* the main search; the end shows what the lookahead held back and may run *)
(* a second pass over the rewound features.                                *)
(* One call is in progress at a time: a step of Work is an iteration of    *)
(* the loop of the call.                                                   *)
(***************************************************************************)
EXTENDS Acmod

CONSTANTS SampleBlocks,  \* sizes of the blocks of samples
          CepBlocks,     \* sizes of the blocks of cepstra
          MaxCeps,       \* bound: cepstra of an utterance
          Tolerated      \* what the client does, of Hazards

\* Uses that the code accepts and does not serve as it should; each is
\* excluded from the client's behaviour unless Tolerated has it.
Hazards == {"no frame yet",     \* a first block of samples shorter than a frame
            "short utterance",  \* fewer frames than the lookahead window
            "end at edge",      \* an end of utterance that wraps in feat_buf
            "long block",       \* more cepstra at once than mfc_buf was made for
            "cep leadout",      \* an utterance of cepstra in blocks
            "grow midway",      \* no_search after frames were searched
            "not started",      \* cepstra before any ps_start_utt
            "after end"}        \* data after ps_end_utt

ASSUME DecoderAssumption ==
  /\ SampleBlocks \subseteq Nat /\ CepBlocks \subseteq Nat
  /\ MaxCeps \in Nat
  /\ Tolerated \subseteq Hazards

VARIABLES
  two_pass, \* the configuration: an n-gram search with fwdtree and fwdflat
  am,     \* the acmod_t
  call,   \* the ps_process_* call in progress, its arguments
  fed,    \* history: "raw", "cep" or "full": how the utterance arrives
  loop,   \* history: the features the phone loop was shown
  main,   \* history: the features the main search was shown
  flat    \* history: the features the second pass was shown

vars == <<two_pass, am, call, fed, loop, main, flat>>
history == <<loop, main, flat>>

NoCall == [left |-> 0, no_search |-> FALSE]
Busy == call.left > 0
Running == am.state \in {"STARTED", "PROCESSING"}
May(hazard) == hazard \in Tolerated

---------------------------------------------------------------------------
(* ps_search_forward: every feature in the ring, oldest first. *)

\* The feature acmod_score finds for frame f; none when f left the ring.
Scored(a, f) == IF InQueue(a, f) THEN a.feat_buf[FeatIdx(a, f)] ELSE <<>>

\* The acmod when all are done; the i-th iteration finds Advanced(a, i - 1).
Drained(a) == Advanced(a, a.n_feat_frame)

ShownToLoop(a) ==
  IF PlWindow = 0 THEN <<>>
  ELSE [i \in 1 .. a.n_feat_frame |->
          Scored(Advanced(a, i - 1), a.output_frame + i - 1)]

\* Mutant of ShownToMain: the main search starts a frame late.
ShownToMainLate(a) ==
  LET early == IF a.output_frame <= PlWindow
               THEN Smaller(PlWindow - a.output_frame + 1, a.n_feat_frame) ELSE 0
  IN [i \in 1 .. a.n_feat_frame - early |->
        Scored(Advanced(a, early + i - 1), a.output_frame + early + i - 1 - PlWindow)]

ShownToMain(a) ==
  LET early == IF a.output_frame < PlWindow
               THEN Smaller(PlWindow - a.output_frame, a.n_feat_frame) ELSE 0
  IN [i \in 1 .. a.n_feat_frame - early |->
        Scored(Advanced(a, early + i - 1), a.output_frame + early + i - 1 - PlWindow)]

SearchForward(a) ==
  /\ am' = Drained(a)
  /\ loop' = loop \o ShownToLoop(a)
  /\ main' = main \o ShownToMain(a)

---------------------------------------------------------------------------

Init ==
  /\ two_pass \in BOOLEAN
  /\ am = SetGrow(NewAcmod, two_pass)
  /\ call = NoCall
  /\ fed \in {"raw"} \cup (IF May("not started") THEN {"cep", "full"} ELSE {})
  /\ loop = <<>> /\ main = <<>> /\ flat = <<>>

\* ps_start_utt.
StartUtt ==
  /\ am.ok /\ ~Busy /\ ~Running
  /\ am' = AcmodStartUtt(am)
  /\ fed' \in {"raw", "full"} \cup (IF May("cep leadout") THEN {"cep"} ELSE {})
  /\ loop' = <<>> /\ main' = <<>> /\ flat' = <<>>
  /\ UNCHANGED <<two_pass, call>>

\* The calls a client may begin; of the two functions only ps_process_raw looks whether
\* an utterance was ever started.
Idle == am.state = "IDLE"
Accepts(no_search) ==
  /\ am.ok /\ ~Busy
  /\ am.state = "ENDED" => May("after end")
  /\ no_search /\ ~am.grow_feat /\ am.output_frame > 0 => May("grow midway")

\* ps_process_raw, up to its loop.
CallRaw(n, no_search) ==
  /\ Accepts(no_search) /\ fed = "raw" /\ ~Idle
  /\ am.state = "STARTED" /\ FrameCount(am.ov, n) = 0 => May("no frame yet")
  /\ am.n_mfc_alloc > NMfc /\ FrameCount(am.ov, n) > NMfc => May("long block")
  /\ am.ncep + FrameCount(am.ov, n) < MaxCeps
  /\ am' = IF no_search THEN SetGrow(am, TRUE) ELSE am
  /\ call' = [left |-> n, no_search |-> no_search]
  /\ UNCHANGED <<two_pass, fed, history>>

\* ps_process_cep, up to its loop.
CallCep(n, no_search) ==
  /\ Accepts(no_search) /\ fed = "cep"
  /\ Idle => May("not started")
  /\ ~am.grow_feat /\ ~no_search /\ n > NMfc => May("long block")
  /\ am.ncep + n <= MaxCeps
  /\ am' = [IF no_search THEN SetGrow(am, TRUE) ELSE am EXCEPT !.ncep = @ + n]
  /\ call' = [left |-> n, no_search |-> no_search]
  /\ UNCHANGED <<two_pass, fed, history>>

\* What acmod makes of what is left of the call: the acmod, and what is left.
WorkedCep(cep) == [a |-> cep.a, left |-> call.left - cep.used]
Worked ==
  IF fed = "raw" THEN ProcessRaw(am, call.left)
  ELSE WorkedCep(ProcessCep(am, [i \in 1 .. call.left |-> am.ncep - call.left + i]))

\* One iteration of the loop of ps_process_raw or ps_process_cep.
WorkDone(w) ==
  /\ call' = [call EXCEPT !.left = w.left]
  /\ IF call.no_search \/ ~w.a.ok
     THEN am' = w.a /\ UNCHANGED <<loop, main>>
     ELSE SearchForward(w.a)
  /\ UNCHANGED <<two_pass, fed, flat>>
Work == am.ok /\ Busy /\ WorkDone(Worked)

\* ps_process_raw or ps_process_cep on a whole utterance.
ProcessFull(a, no_search) ==
  /\ Accepts(no_search) /\ fed = "full"
  /\ am.ncep = 0
  /\ IF no_search \/ ~a.ok
     THEN am' = a /\ UNCHANGED <<loop, main>>
     ELSE SearchForward(a)
  /\ UNCHANGED <<two_pass, call, fed, flat>>

FullRaw(n, no_search) ==
  /\ ~Idle
  /\ n > 0 /\ FrameCount(0, n) < MaxCeps
  /\ ProcessFull(ProcessFullRaw(IF no_search THEN SetGrow(am, TRUE) ELSE am, n),
                 no_search)

FullCep(n, no_search) ==
  /\ Idle => May("not started")
  /\ n > 0 /\ n <= MaxCeps
  /\ ProcessFull(ProcessFullCep([IF no_search THEN SetGrow(am, TRUE) ELSE am
                                   EXCEPT !.ncep = n],
                                [i \in 1 .. n |-> i]), no_search)

\* ps_end_utt: acmod_end_utt, the rest of the features, the lookahead window,
\* and ps_search_finish, which for two_pass rewinds and runs the second pass.
EdgeAtEnd ==
  /\ ~am.grow_feat /\ am.ov > 0
  /\ ((am.feat_outidx + am.n_feat_frame) % am.n_feat_alloc) + 1 + Win > am.n_feat_alloc

HeldBack(d) ==
  IF d.output_frame >= PlWindow
  THEN [i \in 1 .. PlWindow |-> Scored(d, d.output_frame - PlWindow + i - 1)]
  ELSE <<>>

SecondPass(w) ==
  /\ flat' = [i \in 1 .. w.n_feat_frame |-> Scored(Advanced(w, i - 1), i - 1)]
  /\ am' = Drained(w)

\* ps_end_utt when acmod_end_utt left the acmod a, and the searches d.
SearchEnd(a, d) ==
  /\ d.output_frame \in 1 .. PlWindow - 1 => May("short utterance")
  /\ IF ~a.ok THEN am' = a /\ UNCHANGED history
     ELSE /\ loop' = loop \o ShownToLoop(a)
          /\ main' = main \o ShownToMain(a) \o HeldBack(d)
          /\ IF two_pass /\ CanRewind(d) THEN SecondPass(Rewound(d))
             ELSE am' = d /\ UNCHANGED flat
DrainedEnd(a) == SearchEnd(a, Drained(a))

EndUtt ==
  /\ am.ok /\ ~Busy /\ Running
  /\ EdgeAtEnd => May("end at edge")
  /\ DrainedEnd(AcmodEndUtt(am))
  /\ UNCHANGED <<two_pass, call, fed>>

Next ==
  \/ StartUtt
  \/ \E n \in SampleBlocks, no_search \in BOOLEAN : CallRaw(n, no_search)
  \/ \E n \in CepBlocks, no_search \in BOOLEAN : CallCep(n, no_search)
  \/ Work
  \/ \E n \in SampleBlocks, no_search \in BOOLEAN : FullRaw(n, no_search)
  \/ \E n \in CepBlocks, no_search \in BOOLEAN : FullCep(n, no_search)
  \/ EndUtt

\* A call runs until it returns; when to call is up to the client.  This is weak
\* fairness of Work with its enabling condition, that the iteration changes
\* something, written out.
WorkIsFair ==
  <>[](am.ok /\ Busy /\ Worked # [a |-> am, left |-> call.left]) => []<><<Work>>_vars

Spec == Init /\ [][Next]_vars /\ WorkIsFair

---------------------------------------------------------------------------

Rows(n) == [0 .. n - 1 -> Nat]

\* The types and ranges of the acmod's fields; and no assertion of acmod.c fails and
\* no row outside a buffer is used, in particular acmod_process_cep's
\* n_feat_frame <= n_feat_alloc.
NeverAborts ==
  /\ am.ok
  /\ am.state \in {"IDLE", "STARTED", "PROCESSING", "ENDED"}
  /\ am.ov \in 0 .. FrameSize
  /\ am.live \in [cepbuf : [Slots -> Nat], bufpos : Slots, curpos : Slots]
  /\ am.mfc_buf \in Rows(am.n_mfc_alloc)
  /\ am.n_mfc_frame \in 0 .. am.n_mfc_alloc /\ am.mfc_outidx \in 0 .. am.n_mfc_alloc - 1
  /\ DOMAIN am.feat_buf = 0 .. am.n_feat_alloc - 1
  /\ am.n_feat_frame \in 0 .. am.n_feat_alloc
  /\ am.feat_outidx \in 0 .. am.n_feat_alloc - 1
  /\ call.left \in Nat

\* The main search is shown the utterance as batch processing would show it, in whatever
\* blocks it came and wherever the rings wrapped: every feature once, in order, complete
\* when the utterance ends; of one that came in blocks of cepstra, all but the leadout.
Service == INSTANCE FrameService WITH
             open <- Running, whole <- fed # "cep", given <- am.ncep, shown <- main
MainIsServed == Service!Spec

\* The phone loop runs pl_window frames ahead of the main search until the
\* end, so that the penalties of a frame are known when it is searched.
LookaheadKept ==
  Running /\ PlWindow > 0 =>
    /\ Len(loop) = am.output_frame
    /\ Len(main) = IF Len(loop) < PlWindow THEN 0 ELSE Len(loop) - PlWindow

\* "Process whatever's left, and any leadout" (acmod_end_utt): every cepstrum of an ended
\* utterance became a feature and was searched, and none stays behind, but the leadout of
\* cepstra in blocks; the second pass, which rewinds to the first of them, ran over
\* exactly what the first one was shown.
NothingLeftBehind ==
  am.state = "ENDED" => /\ am.n_feat_frame = 0 /\ am.n_mfc_frame = 0
                        /\ am.output_frame = IF fed = "cep" THEN Settled(am.ncep) ELSE am.ncep
                        /\ two_pass => flat = main

\* "Utterance started, no data yet" (acmod.h, ACMOD_STARTED): the state is left
\* with the first cepstrum and not before, as its frame begins the features.
StartedUntilData == am.state = "PROCESSING" => am.ncep > 0

\* "Search any frames remaining in the lookahead window" (ps_end_utt): what the
\* phone loop was shown of an ended utterance, the main search was shown.
LookaheadIsFlushed == am.state = "ENDED" /\ PlWindow > 0 => Len(main) = Len(loop)

\* "utterance is not started. Use start_utt to start it" (ps_process_raw): data
\* after the end of an utterance is refused, and not decoded as part of it.
EndIsFinal == [][am.state = "ENDED" /\ am'.state = "ENDED" => am' = am]_vars

\* A call to ps_process_raw or ps_process_cep returns.
CallsReturn == Busy ~> ~Busy
============================================================================
