----------------------------- MODULE Endpointer -----------------------------
(***************************************************************************)
(* Speech endpointing (src/ps_endpointer.c): the caller hands over frames, *)
(* the voice activity detector says speech or not, a window of frames is   *)
(* kept in a ring, and the frames of a speech segment come out one by one, *)
(* a window late.  The last samples of a stream may be less than a frame.  *)
(* Times count samples.  A frame in the ring is the time it starts at.     *)
(* With a timestamp function the times reported come from the caller's     *)
(* clock, here one that shows the time of the last sample handed over.     *)
(***************************************************************************)
EXTENDS Integers, Sequences, FiniteSets

CONSTANTS Maxlen,        \* ep->maxlen, frames in the window
          StartFrames,   \* ep->start_frames
          EndFrames,     \* ep->end_frames
          FrameSize,     \* ep->frame_size
          MaxTime,       \* bound: samples handed over
          Tolerated      \* what the caller does, of Hazards

\* A timestamp function is set; frames are processed after the end of a stream.
Hazards == {"callback", "reuse"}

\* What ps_endpointer_init requires.
ASSUME EndpointerAssumption ==
  /\ Maxlen \in Nat /\ FrameSize \in Nat \ {0} /\ MaxTime \in Nat
  /\ StartFrames \in 1 .. Maxlen - 1
  /\ EndFrames \in 1 .. Maxlen - 1
  /\ Tolerated \subseteq Hazards

VARIABLES
  queue,                  \* buf, is_speech, pos, n, speech_count, qstart_time
  in_speech,
  last_audio_timestamp,
  timestamp_cb,           \* a timestamp function is set
  speech_start, speech_end,
  plain,                  \* history: one stream so far, and no timestamp function
  stream,                 \* history: samples handed over
  ended,                  \* history: ps_endpointer_end_stream was called
  segment,                \* history: the frames returned of the last segment
  trail                   \* history: the samples returned after them

times == <<last_audio_timestamp, speech_start, speech_end>>
vars == <<queue, in_speech, timestamp_cb, times, plain, stream, ended, segment, trail>>

Slots == 0 .. Maxlen - 1

---------------------------------------------------------------------------
(* The ring. *)

EmptyQueue == [buf |-> [i \in Slots |-> 0], is_speech |-> [i \in Slots |-> FALSE],
               pos |-> 0, n |-> 0, speech_count |-> 0, qstart_time |-> 0]

Full(q) == q.n = Maxlen

\* Steps of a counter that go with a condition.
Step(condition) == IF condition THEN 1 ELSE 0

\* Mutants of Pushed, of a full ring: the count of speech frames still has the
\* frame overwritten; the ring counts one frame too many; the oldest frame is
\* still looked for where the newest was put.
PushedUncounted(q, speech, frame) ==
  LET i == (q.pos + q.n) % Maxlen
  IN [buf |-> [q.buf EXCEPT ![i] = frame],
      is_speech |-> [q.is_speech EXCEPT ![i] = speech],
      pos |-> IF Full(q) THEN (q.pos + 1) % Maxlen ELSE q.pos,
      n |-> IF Full(q) THEN q.n ELSE q.n + 1,
      speech_count |-> q.speech_count + Step(speech),
      qstart_time |-> IF Full(q) THEN q.qstart_time + FrameSize ELSE q.qstart_time]
PushedLonger(q, speech, frame) ==
  LET i == (q.pos + q.n) % Maxlen
  IN [buf |-> [q.buf EXCEPT ![i] = frame],
      is_speech |-> [q.is_speech EXCEPT ![i] = speech],
      pos |-> q.pos,
      n |-> q.n + 1,
      speech_count |-> q.speech_count - Step(Full(q) /\ q.is_speech[i]) + Step(speech),
      qstart_time |-> IF Full(q) THEN q.qstart_time + FrameSize ELSE q.qstart_time]
PushedInPlace(q, speech, frame) ==
  LET i == (q.pos + q.n) % Maxlen
  IN [buf |-> [q.buf EXCEPT ![i] = frame],
      is_speech |-> [q.is_speech EXCEPT ![i] = speech],
      pos |-> q.pos,
      n |-> IF Full(q) THEN q.n ELSE q.n + 1,
      speech_count |-> q.speech_count - Step(Full(q) /\ q.is_speech[i]) + Step(speech),
      qstart_time |-> IF Full(q) THEN q.qstart_time + FrameSize ELSE q.qstart_time]

\* ep_push: a frame goes in, when the ring is full over the oldest one.
Pushed(q, speech, frame) ==
  LET i == (q.pos + q.n) % Maxlen
  IN [buf |-> [q.buf EXCEPT ![i] = frame],
      is_speech |-> [q.is_speech EXCEPT ![i] = speech],
      pos |-> IF Full(q) THEN (q.pos + 1) % Maxlen ELSE q.pos,
      n |-> IF Full(q) THEN q.n ELSE q.n + 1,
      speech_count |-> q.speech_count - Step(Full(q) /\ q.is_speech[i]) + Step(speech),
      qstart_time |-> IF Full(q) THEN q.qstart_time + FrameSize ELSE q.qstart_time]

\* Mutant of Popped: the time of the ring's start stays as it was.
PoppedUntimed(q) ==
  [buf |-> q.buf, is_speech |-> q.is_speech,
   pos |-> (q.pos + 1) % Maxlen, n |-> q.n - 1,
   speech_count |-> q.speech_count - Step(q.is_speech[q.pos]),
   qstart_time |-> q.qstart_time]

\* ep_pop, of a ring that is not empty.
Popped(q) ==
  [buf |-> q.buf, is_speech |-> q.is_speech,
   pos |-> (q.pos + 1) % Maxlen, n |-> q.n - 1,
   speech_count |-> q.speech_count - Step(q.is_speech[q.pos]),
   qstart_time |-> q.qstart_time + FrameSize]

\* The i-th frame of the ring, from 0, and whether it is speech.
At(q, i) == q.buf[(q.pos + i) % Maxlen]
SpeechAt(q, i) == q.is_speech[(q.pos + i) % Maxlen]

\* Mutant of Emptied: the frames are returned and stay in the ring.
EmptiedKept(q, k) ==
  [buf |-> [i \in Slots |-> At(q, i)], is_speech |-> [i \in Slots |-> SpeechAt(q, i)],
   pos |-> 0, n |-> q.n, speech_count |-> q.speech_count,
   qstart_time |-> q.qstart_time]

\* ep_linearize, k times ep_pop, and ep_clear.
Emptied(q, k) ==
  [buf |-> [i \in Slots |-> At(q, i)], is_speech |-> [i \in Slots |-> SpeechAt(q, i)],
   pos |-> k % Maxlen, n |-> 0, speech_count |-> 0,
   qstart_time |-> q.qstart_time + k * FrameSize]

\* Mutant of LeadingSpeech: the last frame of the ring is not looked at.
LeadingSpeechShort(q) ==
  Cardinality({i \in 0 .. q.n - 2 : \A j \in 0 .. i : SpeechAt(q, j)})

\* How many frames of the ring come before the first that is no speech.
LeadingSpeech(q) == Cardinality({i \in 0 .. q.n - 1 : \A j \in 0 .. i : SpeechAt(q, j)})

---------------------------------------------------------------------------

Init ==
  /\ queue = EmptyQueue
  /\ in_speech = FALSE
  /\ timestamp_cb = FALSE
  /\ last_audio_timestamp = 0 /\ speech_start = 0 /\ speech_end = 0
  /\ plain = TRUE /\ stream = 0 /\ ended = FALSE
  /\ segment = <<>> /\ trail = 0

\* ps_endpointer_set_timestamp_func.
SetTimestampFunc(cb) ==
  /\ cb => "callback" \in Tolerated
  /\ timestamp_cb' = cb
  /\ plain' = (plain /\ ~cb)
  /\ UNCHANGED <<queue, in_speech, times, stream, ended, segment, trail>>

\* ps_endpointer_process of a frame that ps_vad_classify finds to be speech or not.
Process(speech) ==
  LET q      == Pushed(queue, speech, stream)
      now    == IF timestamp_cb THEN stream + FrameSize
                ELSE last_audio_timestamp + FrameSize
      starts == ~in_speech /\ q.speech_count > StartFrames
      ends   == in_speech /\ q.speech_count < EndFrames
      out    == Popped(q)
  IN /\ ended => "reuse" \in Tolerated
     /\ stream + FrameSize <= MaxTime
     /\ queue' = IF in_speech \/ starts THEN out ELSE q
     /\ in_speech' = (starts \/ (in_speech /\ ~ends))
     /\ last_audio_timestamp' = last_audio_timestamp + FrameSize
     /\ speech_start' = IF ~starts THEN speech_start
                        ELSE IF timestamp_cb THEN now - (q.n - 1) * FrameSize
                        ELSE q.qstart_time
     /\ speech_end' = IF starts THEN 0
                      ELSE IF ~ends THEN speech_end
                      ELSE IF timestamp_cb THEN now - out.n * FrameSize
                      ELSE out.qstart_time
     /\ stream' = stream + FrameSize
     /\ plain' = (plain /\ ~ended)
     /\ segment' = IF starts THEN <<At(q, 0)>>
                   ELSE IF in_speech THEN Append(segment, At(q, 0)) ELSE segment
     /\ trail' = IF starts THEN 0 ELSE trail
     /\ UNCHANGED <<timestamp_cb, ended>>

\* ps_endpointer_end_stream with the last nsamp samples.
EndStream(nsamp) ==
  LET q      == queue
      m      == LeadingSpeech(q)
      k      == IF m < q.n THEN m + 1 ELSE m
      end    == IF ~timestamp_cb THEN q.qstart_time + m * FrameSize
                ELSE stream + nsamp
                     - (IF m = 0 THEN q.n ELSE q.n - m - 1) * FrameSize
      trails == k = q.n /\ end = Emptied(q, k).qstart_time
  IN /\ ended => "reuse" \in Tolerated
     /\ stream + nsamp <= MaxTime
     /\ stream' = stream + nsamp
     /\ plain' = (plain /\ ~ended)
     /\ ended' = TRUE
     /\ in_speech' = FALSE
     /\ IF in_speech
        THEN /\ queue' = Emptied(q, k)
             /\ last_audio_timestamp' = last_audio_timestamp + (IF trails THEN nsamp ELSE 0)
             /\ speech_end' = IF ~trails THEN end
                              ELSE IF timestamp_cb THEN stream + nsamp
                              ELSE last_audio_timestamp + nsamp
             /\ segment' = segment \o [i \in 1 .. m |-> At(q, i - 1)]
             /\ trail' = IF trails THEN nsamp ELSE 0
        ELSE UNCHANGED <<queue, last_audio_timestamp, speech_end, segment, trail>>
     /\ UNCHANGED <<speech_start, timestamp_cb>>

Next ==
  \/ \E cb \in BOOLEAN : SetTimestampFunc(cb)
  \/ \E speech \in BOOLEAN : Process(speech)
  \/ \E nsamp \in 0 .. FrameSize : EndStream(nsamp)

Spec == Init /\ [][Next]_vars

---------------------------------------------------------------------------

Queues == [buf : [Slots -> Nat], is_speech : [Slots -> BOOLEAN], pos : Slots,
           n : 0 .. Maxlen, speech_count : 0 .. Maxlen, qstart_time : Nat]

\* The types of the endpointer's state.
TypeOK ==
  /\ queue \in Queues
  /\ in_speech \in BOOLEAN /\ timestamp_cb \in BOOLEAN /\ ended \in BOOLEAN
  /\ last_audio_timestamp \in Nat
  /\ speech_start \in Int /\ speech_end \in Int
  /\ stream \in Nat /\ trail \in 0 .. FrameSize
  /\ segment \in Seq(Nat)

\* The slots of the ring that hold a frame, and those that hold speech.
Occupied(q) == {i \in Slots : (i - q.pos) % Maxlen < q.n}
Speech(q) == {i \in Occupied(q) : q.is_speech[i]}

\* The running count of speech frames is the number of speech frames in the
\* ring, through overwriting, popping, linearising and clearing.
CountIsRight == queue.speech_count = Cardinality(Speech(queue))

\* "VAD queue overflow (should not happen)": in a segment the ring is never
\* full, so nothing is overwritten and the last samples of a stream fit into the
\* slot behind the frames; nor is it empty.
NeverOverflows == in_speech => queue.n \in 1 .. Maxlen - 1

\* What decisions are made from is true of the ring: the count of its speech
\* frames, and in a segment a frame to return and room for the next.
RingIsSound == CountIsRight /\ NeverOverflows

\* The frames returned of a segment follow one another in the stream: from the
\* window in which it started to the one in which it ended, none left out, and
\* each at most a window after it was handed over.  "Get the start time of the last
\* speech segment" and its end time: those of the first and the last sample returned.
SegmentIsStretch ==
  plain =>
    /\ \A i \in 2 .. Len(segment) : segment[i] = segment[i - 1] + FrameSize
    /\ in_speech => stream - segment[Len(segment)] <= Maxlen * FrameSize
    /\ segment # <<>> =>
         /\ speech_start = segment[1]
         /\ ~in_speech => speech_end = segment[Len(segment)] + FrameSize + trail

\* A frame is returned once: a segment starts behind the end of the last one.
SegmentsDisjoint ==
  [][~in_speech /\ in_speech' /\ segment # <<>> =>
       segment'[1] >= segment[Len(segment)] + FrameSize]_vars

\* "If we used all the VAD queue, add the trailing samples": a stream that ends
\* in speech is returned to its last sample.
AllSpeechReachesEnd ==
  [][\A nsamp \in 0 .. FrameSize :
       /\ EndStream(nsamp) /\ plain /\ in_speech
       /\ \A i \in 0 .. queue.n - 1 : SpeechAt(queue, i)
       => segment'[Len(segment')] + FrameSize + trail' = stream']_vars
============================================================================
