------------------------- MODULE Endpointer_proofs -------------------------
(***************************************************************************)
(* The ring of Endpointer is consistent for every size of the window, both *)
(* thresholds, both ways of telling the time and any number of streams.    *)
(* The argument is about one ring q: GoodQueue(q) says that its running    *)
(* count is the number of its speech frames, Pushed and Popped keep that,  *)
(* and the threshold of the end of speech keeps a frame in the ring.       *)
(* What the segments are in the stream follows from the frames in the ring *)
(* being in its order, and consecutive where the times are those of the    *)
(* audio.                                                                  *)
(***************************************************************************)
EXTENDS Endpointer, FiniteSetTheorems, TLAPS

\* A position taken round the ring, the slot k places from p, and the places
\* from slot p to slot i.
Round(x) == x % Maxlen
Ahead(p, k) == Round(p + k)
Behind(i, p) == Round(i - p)

\* Positions that run over one end of the ring come in at the other.
LEMMA RoundIs ==
  /\ \A x \in 0 .. 2 * Maxlen - 1 : Round(x) = IF x < Maxlen THEN x ELSE x - Maxlen
  /\ \A x \in -Maxlen .. Maxlen - 1 : Round(x) = IF x >= 0 THEN x ELSE x + Maxlen
<1>1. Maxlen \in Nat \ {0}
  BY EndpointerAssumption
<1>2. ASSUME NEW x \in 0 .. 2 * Maxlen - 1
      PROVE  Round(x) = IF x < Maxlen THEN x ELSE x - Maxlen
  <2>1. CASE x < Maxlen
    BY <1>1, <2>1 DEF Round
  <2>2. CASE x >= Maxlen
    BY <1>1, <2>2 DEF Round
  <2>3. QED
    BY <1>1, <2>1, <2>2
<1>3. ASSUME NEW x \in -Maxlen .. Maxlen - 1
      PROVE  Round(x) = IF x >= 0 THEN x ELSE x + Maxlen
  <2>1. CASE x >= 0
    BY <1>1, <2>1 DEF Round
  <2>2. CASE x < 0
    BY <1>1, <2>2 DEF Round
  <2>3. QED
    BY <1>1, <2>1, <2>2
<1>4. QED
  BY <1>2, <1>3

\* The same for the steps from a slot.
LEMMA RingSteps ==
  ASSUME NEW p \in Slots
  PROVE  /\ \A k \in 0 .. Maxlen :
              Ahead(p, k) = IF p + k < Maxlen THEN p + k ELSE p + k - Maxlen
         /\ \A i \in Slots :
              Behind(i, p) = IF i >= p THEN i - p ELSE i - p + Maxlen
<1>1. Maxlen \in Nat \ {0} /\ p \in 0 .. Maxlen - 1
  BY EndpointerAssumption DEF Slots
<1>2. ASSUME NEW k \in 0 .. Maxlen
      PROVE  Ahead(p, k) = IF p + k < Maxlen THEN p + k ELSE p + k - Maxlen
  BY <1>1, RoundIs DEF Ahead
<1>3. ASSUME NEW i \in Slots
      PROVE  Behind(i, p) = IF i >= p THEN i - p ELSE i - p + Maxlen
  BY <1>1, RoundIs DEF Behind, Slots
<1>4. QED
  BY <1>2, <1>3

\* A ring that counts its speech frames right.
GoodQueue(q) ==
  /\ q \in [buf : [Slots -> Nat], is_speech : [Slots -> BOOLEAN], pos : Slots,
            n : 0 .. Maxlen, speech_count : Int, qstart_time : Nat]
  /\ q.speech_count = Cardinality(Speech(q))

\* The first n numbers are n.
LEMMA PrefixSize ==
  ASSUME NEW n \in Nat
  PROVE  IsFiniteSet(0 .. n - 1) /\ Cardinality(0 .. n - 1) = n
<1> DEFINE last == n - 1
<1>1. 0 \in Int /\ last \in Int
  OBVIOUS
<1> HIDE DEF last
<1>2. /\ IsFiniteSet(0 .. last)
      /\ Cardinality(0 .. last) = IF 0 > last THEN 0 ELSE last - 0 + 1
  BY <1>1, FS_Interval, ZenonT(30)
<1>3. (IF 0 > last THEN 0 ELSE last - 0 + 1) = n
  BY DEF last
<1>4. QED
  BY <1>2, <1>3 DEF last

\* The sets of slots are finite, as Slots is.
LEMMA SpeechIsFinite ==
  ASSUME NEW q
  PROVE  /\ IsFiniteSet(Occupied(q)) /\ IsFiniteSet(Speech(q))
         /\ Cardinality(Speech(q)) \in Nat
         /\ Cardinality(Speech(q)) <= Cardinality(Occupied(q))
<1>1. IsFiniteSet(Slots)
  BY EndpointerAssumption, FS_Interval DEF Slots
<1>2. Occupied(q) \in SUBSET Slots /\ Speech(q) \in SUBSET Occupied(q)
  BY DEF Occupied, Speech
<1>3. IsFiniteSet(Occupied(q))
  BY <1>1, <1>2, FS_Subset
<1>4. QED
  BY <1>2, <1>3, FS_Subset, FS_CardinalityType

\* There are no more speech frames in the ring than frames.
LEMMA CountBound ==
  ASSUME NEW q, GoodQueue(q)
  PROVE  q.speech_count \in 0 .. q.n
<1> DEFINE S == 0 .. q.n - 1
           f == [k \in S |-> Ahead(q.pos, k)]
<1>1. /\ Maxlen \in Nat \ {0} /\ q.pos \in Slots /\ q.pos \in 0 .. Maxlen - 1
      /\ q.n \in 0 .. Maxlen
  BY EndpointerAssumption DEF GoodQueue, Slots
<1>2. ASSUME NEW i \in Occupied(q) PROVE \E k \in S : f[k] = i
  <2>1. i \in Slots /\ i \in 0 .. Maxlen - 1 /\ Behind(i, q.pos) < q.n
    BY <1>2 DEF Occupied, Slots, Behind, Round
  <2>2. Behind(i, q.pos) \in S /\ Ahead(q.pos, Behind(i, q.pos)) = i
    BY <1>1, <2>1, RingSteps
  <2>3. QED
    BY <2>2
<1>3. ASSUME NEW k \in S PROVE f[k] \in Occupied(q)
  <2>1. k < q.n /\ k \in 0 .. Maxlen
    BY <1>1
  <2>2. Ahead(q.pos, k) = IF q.pos + k < Maxlen THEN q.pos + k ELSE q.pos + k - Maxlen
    BY <1>1, <2>1, RingSteps
  <2>3. Ahead(q.pos, k) \in Slots
    BY <1>1, <2>1, <2>2 DEF Slots
  <2>4. Behind(Ahead(q.pos, k), q.pos) = k
    BY <1>1, <2>1, <2>2, <2>3, RingSteps
  <2>5. QED
    BY <2>1, <2>3, <2>4 DEF Occupied, Behind, Round
<1>4. f \in Surjection(S, Occupied(q))
  <2>1. f \in [S -> Occupied(q)]
    BY <1>3
  <2> HIDE DEF f
  <2>2. QED
    BY <1>2, <2>1 DEF Surjection
<1>5. IsFiniteSet(S) /\ Cardinality(S) = q.n
  <2>1. q.n \in Nat
    BY <1>1
  <2>2. QED
    BY <2>1, PrefixSize
<1>6. Cardinality(Occupied(q)) <= q.n
  BY <1>4, <1>5, FS_Surjection
<1>7. Cardinality(Occupied(q)) \in Nat
  BY SpeechIsFinite, FS_CardinalityType
<1>8. QED
  BY <1>1, <1>6, <1>7, SpeechIsFinite DEF GoodQueue

\* Popping takes the oldest slot out of the ring.
LEMMA PoppedIsGood ==
  ASSUME NEW q, GoodQueue(q), q.n > 0
  PROVE  GoodQueue(Popped(q)) /\ Popped(q).n = q.n - 1
<1> DEFINE p == Popped(q)
<1>1. /\ Maxlen \in Nat \ {0} /\ q.pos \in Slots /\ q.pos \in 0 .. Maxlen - 1
      /\ q.n \in 1 .. Maxlen
  BY EndpointerAssumption DEF GoodQueue, Slots
<1>2. /\ p.pos = Ahead(q.pos, 1) /\ p.n = q.n - 1
      /\ p.is_speech = q.is_speech /\ p.buf = q.buf
      /\ p.speech_count = q.speech_count - Step(q.is_speech[q.pos])
      /\ p.qstart_time = q.qstart_time + FrameSize
  BY DEF Popped, GoodQueue, Ahead, Round
<1>3. p.pos \in Slots /\ p.n \in 0 .. Maxlen
  <2>1. p.pos = IF q.pos + 1 < Maxlen THEN q.pos + 1 ELSE q.pos + 1 - Maxlen
    BY <1>1, <1>2, RingSteps
  <2>2. QED
    BY <1>1, <1>2, <2>1 DEF Slots
<1> HIDE DEF p
<1>4. ASSUME NEW i \in Slots
      PROVE  Behind(i, p.pos) < p.n <=> Behind(i, q.pos) < q.n /\ i # q.pos
  <2>1. i \in 0 .. Maxlen - 1
    BY DEF Slots
  <2>2. p.pos = IF q.pos + 1 < Maxlen THEN q.pos + 1 ELSE 0
    BY <1>1, <1>2, RingSteps
  <2>3. /\ Behind(i, p.pos) = IF i >= p.pos THEN i - p.pos ELSE i - p.pos + Maxlen
        /\ Behind(i, q.pos) = IF i >= q.pos THEN i - q.pos ELSE i - q.pos + Maxlen
    BY <1>1, <1>3, RingSteps
  <2>4. QED
    BY <1>1, <1>2, <2>1, <2>2, <2>3
<1>5. Occupied(p) = Occupied(q) \ {q.pos}
  BY <1>4 DEF Occupied, Behind, Round
<1>6. Speech(p) = Speech(q) \ {q.pos}
  BY <1>2, <1>5 DEF Speech
<1>7. q.pos \in Speech(q) <=> q.is_speech[q.pos]
  <2>1. Behind(q.pos, q.pos) = 0
    BY <1>1, RingSteps
  <2>2. QED
    BY <1>1, <2>1 DEF Speech, Occupied, Behind, Round
<1>8. p.speech_count = Cardinality(Speech(p)) /\ p.speech_count \in Int
  <2>1. Cardinality(Speech(p)) = IF q.pos \in Speech(q) THEN Cardinality(Speech(q)) - 1
                                 ELSE Cardinality(Speech(q))
    BY <1>6, SpeechIsFinite, FS_RemoveElement
  <2>2. q.speech_count = Cardinality(Speech(q)) /\ Cardinality(Speech(q)) \in Nat
    BY SpeechIsFinite DEF GoodQueue
  <2>3. QED
    BY <1>2, <1>7, <2>1, <2>2 DEF Step
<1>9. p \in [buf : [Slots -> Nat], is_speech : [Slots -> BOOLEAN], pos : Slots,
            n : 0 .. Maxlen, speech_count : Int, qstart_time : Nat]
  <2>1. p = [buf |-> p.buf, is_speech |-> p.is_speech, pos |-> p.pos, n |-> p.n,
             speech_count |-> p.speech_count, qstart_time |-> p.qstart_time]
    BY DEF p, Popped
  <2>2. /\ p.buf \in [Slots -> Nat] /\ p.is_speech \in [Slots -> BOOLEAN]
        /\ p.qstart_time \in Nat
    BY <1>2, EndpointerAssumption DEF GoodQueue
  <2>3. QED
    BY <1>3, <1>8, <2>1, <2>2
<1>10. QED
  BY <1>2, <1>8, <1>9 DEF GoodQueue, p

\* Pushing puts the slot behind the last one into the ring; when the ring is
\* full, that is the oldest one.
LEMMA PushedIsGood ==
  ASSUME NEW q, GoodQueue(q), NEW speech \in BOOLEAN, NEW frame \in Nat
  PROVE  /\ GoodQueue(Pushed(q, speech, frame))
         /\ Pushed(q, speech, frame).n = IF q.n = Maxlen THEN Maxlen ELSE q.n + 1
<1> DEFINE p == Pushed(q, speech, frame)
           i == Ahead(q.pos, q.n)
<1>1. /\ Maxlen \in Nat \ {0} /\ q.pos \in Slots /\ q.pos \in 0 .. Maxlen - 1
      /\ q.n \in 0 .. Maxlen
  BY EndpointerAssumption DEF GoodQueue, Slots
<1>2. /\ p.pos = IF q.n = Maxlen THEN Ahead(q.pos, 1) ELSE q.pos
      /\ p.n = IF q.n = Maxlen THEN q.n ELSE q.n + 1
      /\ p.is_speech = [q.is_speech EXCEPT ![i] = speech]
      /\ p.buf = [q.buf EXCEPT ![i] = frame]
      /\ p.speech_count = q.speech_count - Step(q.n = Maxlen /\ q.is_speech[i])
                         + Step(speech)
      /\ p.qstart_time = IF q.n = Maxlen THEN q.qstart_time + FrameSize
                         ELSE q.qstart_time
  BY DEF Pushed, Full, Ahead, Round
<1>3. p = [buf |-> p.buf, is_speech |-> p.is_speech, pos |-> p.pos, n |-> p.n,
           speech_count |-> p.speech_count, qstart_time |-> p.qstart_time]
  BY DEF Pushed
<1>4. i = IF q.pos + q.n < Maxlen THEN q.pos + q.n ELSE q.pos + q.n - Maxlen
  BY <1>1, RingSteps
<1>5. i \in Slots
  BY <1>1, <1>4 DEF Slots
<1>6. p.pos \in Slots /\ p.n \in 0 .. Maxlen
  <2>1. Ahead(q.pos, 1) = IF q.pos + 1 < Maxlen THEN q.pos + 1 ELSE q.pos + 1 - Maxlen
    BY <1>1, RingSteps
  <2>2. QED
    BY <1>1, <1>2, <2>1 DEF Slots
<1> HIDE DEF p, i
<1>7. ASSUME NEW j \in Slots
      PROVE  Behind(j, p.pos) < p.n <=> Behind(j, q.pos) < q.n \/ j = i
  <2>1. j \in 0 .. Maxlen - 1
    BY DEF Slots
  <2>2. /\ Behind(j, p.pos) = IF j >= p.pos THEN j - p.pos ELSE j - p.pos + Maxlen
        /\ Behind(j, q.pos) = IF j >= q.pos THEN j - q.pos ELSE j - q.pos + Maxlen
    BY <1>1, <1>6, RingSteps
  <2>3. CASE q.n = Maxlen
    <3>1. p.pos \in 0 .. Maxlen - 1 /\ p.n = Maxlen
      BY <1>2, <1>6, <2>3 DEF Slots
    <3>2. QED
      BY <1>1, <2>1, <2>2, <2>3, <3>1
  <2>4. CASE q.n # Maxlen
    BY <1>1, <1>2, <1>4, <2>1, <2>2, <2>4
  <2>5. QED
    BY <2>3, <2>4
<1>8. Occupied(p) = Occupied(q) \cup {i}
  BY <1>5, <1>7 DEF Occupied, Behind, Round
<1>9. i \in Occupied(q) <=> q.n = Maxlen
  <2>1. Behind(i, q.pos) = IF i >= q.pos THEN i - q.pos ELSE i - q.pos + Maxlen
    BY <1>1, <1>5, RingSteps
  <2>2. Behind(i, q.pos) < q.n <=> q.n = Maxlen
    BY <1>1, <1>4, <2>1
  <2>3. QED
    BY <1>5, <2>2 DEF Occupied, Behind, Round
<1>10. Speech(p) = IF speech THEN Speech(q) \cup {i} ELSE Speech(q) \ {i}
  BY <1>2, <1>5, <1>8 DEF Speech, Occupied, GoodQueue
<1>11. i \in Speech(q) <=> q.n = Maxlen /\ q.is_speech[i]
  BY <1>9 DEF Speech
<1>12. p.speech_count = Cardinality(Speech(p)) /\ p.speech_count \in Int
  <2>1. Cardinality(Speech(p)) =
          IF speech THEN (IF i \in Speech(q) THEN Cardinality(Speech(q))
                          ELSE Cardinality(Speech(q)) + 1)
          ELSE (IF i \in Speech(q) THEN Cardinality(Speech(q)) - 1
                ELSE Cardinality(Speech(q)))
    BY <1>10, SpeechIsFinite, FS_AddElement, FS_RemoveElement, ZenonT(30)
  <2>2. q.speech_count = Cardinality(Speech(q)) /\ Cardinality(Speech(q)) \in Nat
    BY SpeechIsFinite DEF GoodQueue
  <2>3. QED
    BY <1>2, <1>11, <2>1, <2>2 DEF Step
<1>13. /\ p.buf \in [Slots -> Nat] /\ p.is_speech \in [Slots -> BOOLEAN]
       /\ p.qstart_time \in Nat
  <2>1. /\ q.buf \in [Slots -> Nat] /\ q.is_speech \in [Slots -> BOOLEAN]
        /\ q.qstart_time \in Nat
    BY DEF GoodQueue
  <2>2. p.buf \in [Slots -> Nat]
    BY <1>2, <2>1
  <2>3. p.is_speech \in [Slots -> BOOLEAN]
    BY <1>2, <2>1
  <2>4. p.qstart_time \in Nat
    BY <1>2, <2>1, EndpointerAssumption
  <2>5. QED
    BY <2>2, <2>3, <2>4
<1>14. GoodQueue(p)
  BY <1>3, <1>6, <1>12, <1>13 DEF GoodQueue
<1>15. QED
  BY <1>1, <1>2, <1>14 DEF p

---------------------------------------------------------------------------

\* The inductive invariant.
Inv == TypeOK /\ CountIsRight /\ NeverOverflows

\* What the invariant says of the ring.
LEMMA InvOfQueue ==
  TypeOK /\ CountIsRight => GoodQueue(queue)
BY EndpointerAssumption DEF TypeOK, CountIsRight, GoodQueue, Queues

\* A good ring is of the type of the variable.
LEMMA GoodQueueType ==
  ASSUME NEW q, GoodQueue(q)
  PROVE  q \in Queues
<1>1. q.speech_count \in 0 .. q.n /\ q.n \in 0 .. Maxlen
  BY CountBound DEF GoodQueue
<1>2. q.speech_count \in 0 .. Maxlen
  BY <1>1, EndpointerAssumption
<1>3. QED
  BY <1>2 DEF GoodQueue, Queues

\* ps_endpointer_init makes an empty ring with no speech in it.
LEMMA InitInv == Init => Inv
<1> SUFFICES ASSUME Init PROVE Inv
  OBVIOUS
<1>1. Occupied(queue) = {}
  BY EndpointerAssumption DEF Init, EmptyQueue, Occupied, Slots
<1>2. Cardinality(Speech(queue)) = 0
  BY <1>1, FS_EmptySet DEF Speech
<1>3. TypeOK
  <2>1. /\ Maxlen \in Nat \ {0} /\ FrameSize \in Nat
        /\ 0 \in Slots /\ 0 \in 0 .. Maxlen /\ 0 \in 0 .. FrameSize
    BY EndpointerAssumption DEF Slots
  <2>2. EmptyQueue \in Queues
    BY <2>1 DEF EmptyQueue, Queues
  <2>3. segment \in Seq(Nat)
    BY DEF Init
  <2>4. /\ in_speech \in BOOLEAN /\ timestamp_cb \in BOOLEAN /\ ended \in BOOLEAN
    BY DEF Init
  <2>5. QED
    BY <2>1, <2>2, <2>3, <2>4 DEF Init, TypeOK
<1>4. QED
  BY <1>2, <1>3 DEF Inv, CountIsRight, NeverOverflows, Init, EmptyQueue

\* ps_endpointer_process pushes a frame and pops one when in speech: the count
\* follows, and the ring of a segment has a free slot and a frame.
LEMMA ProcessInv ==
  ASSUME Inv, NEW speech \in BOOLEAN, Process(speech)
  PROVE  Inv'
<1> DEFINE q   == Pushed(queue, speech, stream)
           out == Popped(q)
           starts == ~in_speech /\ q.speech_count > StartFrames
<1>1. /\ GoodQueue(queue) /\ stream \in Nat
      /\ in_speech => queue.n \in 1 .. Maxlen - 1
      /\ FrameSize \in Nat /\ Maxlen \in Nat /\ StartFrames \in 1 .. Maxlen - 1
  BY InvOfQueue, EndpointerAssumption DEF Inv, TypeOK, NeverOverflows
<1>2. GoodQueue(q) /\ q.n = IF queue.n = Maxlen THEN Maxlen ELSE queue.n + 1
  BY <1>1, PushedIsGood
<1>3. q.n \in 1 .. Maxlen /\ q.speech_count \in 0 .. q.n
  BY <1>1, <1>2, CountBound DEF GoodQueue
<1>4. GoodQueue(out) /\ out.n = q.n - 1
  BY <1>2, <1>3, PoppedIsGood
<1>5. /\ queue' = IF in_speech \/ starts THEN out ELSE q
      /\ in_speech' => in_speech \/ starts
      /\ in_speech' \in BOOLEAN
  BY DEF Process
<1>6. /\ last_audio_timestamp' \in Nat /\ stream' \in Nat
      /\ timestamp_cb' \in BOOLEAN /\ ended' \in BOOLEAN
      /\ trail' \in 0 .. FrameSize
  BY <1>1 DEF Process, Inv, TypeOK
<1>7. q.n \in Int /\ q.qstart_time \in Nat /\ out.n \in Int /\ out.qstart_time \in Nat
  BY <1>2, <1>4 DEF GoodQueue
<1>8. At(q, 0) \in Nat
  <2>1. q.pos \in Slots /\ q.buf \in [Slots -> Nat] /\ (q.pos + 0) = q.pos
    BY <1>2 DEF GoodQueue, Slots
  <2>2. Ahead(q.pos, 0) = q.pos
    BY <1>1, <2>1, RingSteps DEF Slots
  <2>3. QED
    BY <2>1, <2>2 DEF At, Ahead, Round
<1> HIDE DEF q, out, starts
<1>9. speech_start' \in Int /\ speech_end' \in Int
  BY <1>1, <1>7 DEF Process, Inv, TypeOK, q, out, starts
<1>10. segment' \in Seq(Nat)
  BY <1>8 DEF Process, Inv, TypeOK, q, out, starts
<1>11. GoodQueue(queue')
  BY <1>2, <1>4, <1>5
<1>12. TypeOK'
  BY <1>5, <1>6, <1>9, <1>10, <1>11, GoodQueueType DEF TypeOK
<1>13. CountIsRight'
  BY <1>11 DEF GoodQueue, CountIsRight
<1>14. NeverOverflows'
  <2>1. CASE in_speech
    BY <1>1, <1>2, <1>4, <1>5, <2>1 DEF NeverOverflows
  <2>2. CASE ~in_speech /\ starts
    BY <1>1, <1>3, <1>4, <1>5, <2>2 DEF NeverOverflows, starts
  <2>3. QED
    BY <1>5, <2>1, <2>2 DEF NeverOverflows
<1>15. QED
  BY <1>12, <1>13, <1>14 DEF Inv

\* The leading speech frames are a prefix of the ring.
LEMMA LeadingType ==
  ASSUME NEW q, q.n \in Nat
  PROVE  LeadingSpeech(q) \in 0 .. q.n
<1> DEFINE S == 0 .. q.n - 1
           T == {i \in S : \A j \in 0 .. i : SpeechAt(q, j)}
<1>1. IsFiniteSet(S) /\ Cardinality(S) = q.n
  BY PrefixSize
<1>2. T \in SUBSET S
  OBVIOUS
<1>3. LeadingSpeech(q) = Cardinality(T)
  BY DEF LeadingSpeech
<1> HIDE DEF S, T
<1>4. IsFiniteSet(T) /\ Cardinality(T) <= Cardinality(S)
  BY <1>1, <1>2, FS_Subset
<1>5. Cardinality(T) \in Nat
  BY <1>4, FS_CardinalityType
<1>6. QED
  BY <1>1, <1>3, <1>4, <1>5

\* ps_endpointer_end_stream empties the ring.
LEMMA EndStreamInv ==
  ASSUME Inv, NEW nsamp \in 0 .. FrameSize, EndStream(nsamp)
  PROVE  Inv'
<1> DEFINE q     == queue
           m     == LeadingSpeech(q)
           k     == IF m < q.n THEN m + 1 ELSE m
<1>1. /\ GoodQueue(queue) /\ stream \in Nat /\ last_audio_timestamp \in Nat
      /\ FrameSize \in Nat /\ Maxlen \in Nat \ {0}
      /\ queue.n \in 0 .. Maxlen /\ queue.qstart_time \in Nat /\ queue.pos \in Slots
  BY InvOfQueue, EndpointerAssumption DEF Inv, TypeOK, Queues
<1>2. m \in 0 .. q.n /\ k \in 0 .. q.n
  BY <1>1, LeadingType
<1>3. k * FrameSize \in Nat /\ m * FrameSize \in Nat
  BY <1>1, <1>2
<1>4. /\ ~in_speech' /\ in_speech' \in BOOLEAN /\ ended' \in BOOLEAN
      /\ timestamp_cb' \in BOOLEAN /\ speech_start' \in Int /\ stream' \in Nat
  <2>1. ~in_speech' /\ in_speech' \in BOOLEAN /\ ended' \in BOOLEAN
    BY DEF EndStream
  <2>2. timestamp_cb' \in BOOLEAN /\ speech_start' \in Int
    BY DEF EndStream, Inv, TypeOK
  <2>3. stream' \in Nat
    BY <1>1 DEF EndStream
  <2>4. QED
    BY <2>1, <2>2, <2>3
<1>5. CASE ~in_speech
  <2>1. UNCHANGED <<queue, last_audio_timestamp, speech_end, segment, trail>>
    BY <1>5 DEF EndStream
  <2>2. QED
    BY <1>4, <2>1 DEF Inv, TypeOK, CountIsRight, NeverOverflows
<1>6. CASE in_speech
  <2>1. queue' = Emptied(q, k)
    BY <1>6 DEF EndStream
  <2>2. ASSUME NEW i \in Slots PROVE At(q, i) \in Nat /\ SpeechAt(q, i) \in BOOLEAN
    <3>1. i \in 0 .. Maxlen /\ queue.pos \in 0 .. Maxlen - 1
      BY <1>1 DEF Slots
    <3>2. Ahead(queue.pos, i) \in Slots
      BY <1>1, <3>1, RingSteps, SMTT(30) DEF Slots
    <3>3. QED
      BY <1>1, <3>2 DEF At, SpeechAt, Ahead, Round, GoodQueue
  <2>3. k % Maxlen \in Slots
    BY <1>1, <1>2 DEF Slots
  <2>4. queue' \in Queues /\ queue'.n = 0 /\ queue'.speech_count = 0
    BY <1>1, <1>3, <2>1, <2>2, <2>3 DEF Emptied, Queues
  <2>5. CountIsRight'
    <3>1. Occupied(queue') = {}
      <4>1. queue'.pos \in Slots
        BY <2>4 DEF Queues
      <4>2. ASSUME NEW i \in Slots PROVE ~(Behind(i, queue'.pos) < 0)
        BY <1>1, <4>1, RingSteps DEF Slots
      <4>3. QED
        BY <2>4, <4>2 DEF Occupied, Behind, Round
    <3>2. Speech(queue') = {}
      BY <3>1 DEF Speech
    <3>3. QED
      BY <2>4, <3>2, FS_EmptySet DEF CountIsRight
  <2>6. last_audio_timestamp' \in Nat /\ speech_end' \in Int /\ trail' \in 0 .. FrameSize
    <3>1. last_audio_timestamp' \in {last_audio_timestamp + nsamp, last_audio_timestamp + 0}
      BY <1>6 DEF EndStream
    <3>2. trail' \in {nsamp, 0}
      BY <1>6 DEF EndStream
    <3> DEFINE e == IF ~timestamp_cb THEN q.qstart_time + m * FrameSize
                    ELSE stream + nsamp - (IF m = 0 THEN q.n ELSE q.n - m - 1) * FrameSize
    <3>3. (IF m = 0 THEN q.n ELSE q.n - m - 1) * FrameSize \in Int
      BY <1>1, <1>2
    <3>4. e \in Int
      BY <1>1, <1>3, <3>3
    <3>5. speech_end' \in {e, stream + nsamp, last_audio_timestamp + nsamp}
      BY <1>6 DEF EndStream
    <3> HIDE DEF e
    <3>6. QED
      BY <1>1, <3>1, <3>2, <3>4, <3>5
  <2>7. segment' \in Seq(Nat)
    <3>1. segment' = segment \o [i \in 1 .. m |-> At(q, i - 1)]
      BY <1>6 DEF EndStream
    <3>2. ASSUME NEW i \in 1 .. m PROVE At(q, i - 1) \in Nat
      <4>1. i - 1 \in Slots
        BY <1>1, <1>2 DEF Slots
      <4>2. QED
        BY <2>2, <4>1
    <3> HIDE DEF m
    <3>3. [i \in 1 .. m |-> At(q, i - 1)] \in Seq(Nat)
      BY <1>1, <1>2, <3>2
    <3>4. QED
      BY <3>1, <3>3 DEF Inv, TypeOK
  <2>8. QED
    BY <1>4, <2>4, <2>5, <2>6, <2>7 DEF Inv, TypeOK, NeverOverflows
<1>7. QED
  BY <1>5, <1>6

\* The invariant is inductive.
LEMMA NextInv == Inv /\ [Next]_vars => Inv'
<1> SUFFICES ASSUME Inv, [Next]_vars PROVE Inv'
  OBVIOUS
<1>1. ASSUME NEW cb \in BOOLEAN, SetTimestampFunc(cb) PROVE Inv'
  BY <1>1 DEF SetTimestampFunc, times, Inv, TypeOK, CountIsRight, NeverOverflows
<1>2. ASSUME NEW speech \in BOOLEAN, Process(speech) PROVE Inv'
  BY <1>2, ProcessInv
<1>3. ASSUME NEW nsamp \in 0 .. FrameSize, EndStream(nsamp) PROVE Inv'
  BY <1>3, EndStreamInv
<1>4. CASE UNCHANGED vars
  BY <1>4 DEF vars, times, Inv, TypeOK, CountIsRight, NeverOverflows
<1>5. QED
  BY <1>1, <1>2, <1>3, <1>4 DEF Next

\* The endpointer's state has its types.
THEOREM TypeCorrect == Spec => []TypeOK
<1>1. Inv => TypeOK
  BY DEF Inv
<1>2. QED
  BY <1>1, InitInv, NextInv, PTL DEF Spec

\* The count never drifts from the flags in the ring, and what the code logs as
\* "should not happen" does not: for every window and every pair of thresholds
\* ps_endpointer_init accepts.
THEOREM RingSound == Spec => []RingIsSound
<1>1. Inv => RingIsSound
  BY DEF Inv, RingIsSound
<1>2. QED
  BY <1>1, InitInv, NextInv, PTL DEF Spec

---------------------------------------------------------------------------
(* The frames in the ring and those returned of a segment, in the stream. *)

\* One frame more is one frame's samples more.
LEMMA OneMore ==
  ASSUME NEW k \in Int
  PROVE  /\ k * FrameSize \in Int /\ 0 * FrameSize = 0
         /\ (k + 1) * FrameSize = k * FrameSize + FrameSize
BY EndpointerAssumption

\* More frames are more samples.
LEMMA MoreFrames ==
  ASSUME NEW k \in Nat, NEW l \in Nat, k <= l
  PROVE  k * FrameSize <= l * FrameSize /\ (k < l => k * FrameSize < l * FrameSize)
BY EndpointerAssumption

\* After a push the ring ends with the frame pushed; a full ring has lost its first.
LEMMA AtPushed ==
  ASSUME NEW q, GoodQueue(q), NEW speech \in BOOLEAN, NEW frame \in Nat,
         NEW k \in 0 .. Pushed(q, speech, frame).n - 1
  PROVE  At(Pushed(q, speech, frame), k) =
           IF q.n = Maxlen
           THEN IF k = Maxlen - 1 THEN frame ELSE At(q, k + 1)
           ELSE IF k = q.n THEN frame ELSE At(q, k)
<1> DEFINE p == Pushed(q, speech, frame)
           i == Ahead(q.pos, q.n)
<1>1. /\ Maxlen \in Nat \ {0} /\ q.pos \in Slots /\ q.pos \in 0 .. Maxlen - 1
      /\ q.n \in 0 .. Maxlen /\ q.buf \in [Slots -> Nat]
  BY EndpointerAssumption DEF GoodQueue, Slots
<1>2. /\ p.pos = IF q.n = Maxlen THEN Ahead(q.pos, 1) ELSE q.pos
      /\ p.buf = [q.buf EXCEPT ![i] = frame]
  BY DEF Pushed, Full, Ahead, Round
<1>3. GoodQueue(p) /\ p.n = IF q.n = Maxlen THEN Maxlen ELSE q.n + 1
  BY PushedIsGood
<1>4. p.pos \in Slots /\ p.pos \in 0 .. Maxlen - 1
  BY <1>3 DEF GoodQueue, Slots
<1>5. k \in 0 .. p.n - 1
  OBVIOUS
<1> HIDE DEF p
<1>6. /\ k \in 0 .. Maxlen /\ k + 1 \in 0 .. Maxlen /\ k < p.n
      /\ At(p, k) = p.buf[Ahead(p.pos, k)]
      /\ At(q, k) = q.buf[Ahead(q.pos, k)] /\ At(q, k + 1) = q.buf[Ahead(q.pos, k + 1)]
  BY <1>1, <1>3, <1>5 DEF At, Ahead, Round
<1>7. i = IF q.pos + q.n < Maxlen THEN q.pos + q.n ELSE q.pos + q.n - Maxlen
  BY <1>1, RingSteps
<1>8. /\ Ahead(p.pos, k) = IF p.pos + k < Maxlen THEN p.pos + k ELSE p.pos + k - Maxlen
      /\ Ahead(q.pos, k) = IF q.pos + k < Maxlen THEN q.pos + k ELSE q.pos + k - Maxlen
      /\ Ahead(q.pos, k + 1) = IF q.pos + (k + 1) < Maxlen THEN q.pos + (k + 1)
                               ELSE q.pos + (k + 1) - Maxlen
      /\ Ahead(q.pos, 1) = IF q.pos + 1 < Maxlen THEN q.pos + 1 ELSE q.pos + 1 - Maxlen
  BY <1>1, <1>4, <1>6, RingSteps
<1> HIDE DEF i
<1>9. Ahead(p.pos, k) \in Slots
  BY <1>1, <1>4, <1>6, <1>8, SMTT(30) DEF Slots
<1>10. p.buf[Ahead(p.pos, k)] = IF Ahead(p.pos, k) = i THEN frame
                                ELSE q.buf[Ahead(p.pos, k)]
  BY <1>1, <1>2, <1>9
<1>11. CASE q.n = Maxlen
  <2>1. /\ p.pos = IF q.pos + 1 < Maxlen THEN q.pos + 1 ELSE 0
        /\ i = q.pos /\ k \in 0 .. Maxlen - 1
    BY <1>1, <1>2, <1>3, <1>6, <1>7, <1>8, <1>11
  <2>2. Ahead(p.pos, k) = i <=> k = Maxlen - 1
    <3>1. CASE q.pos + 1 < Maxlen
      <4>1. Ahead(p.pos, k) = IF q.pos + 1 + k < Maxlen THEN q.pos + 1 + k
                              ELSE q.pos + 1 + k - Maxlen
        BY <1>1, <1>8, <2>1, <3>1
      <4>2. QED
        BY <1>1, <2>1, <4>1
    <3>2. CASE ~(q.pos + 1 < Maxlen)
      <4>1. p.pos = 0 /\ q.pos = Maxlen - 1
        BY <1>1, <2>1, <3>2
      <4>2. Ahead(p.pos, k) = k
        BY <1>1, <1>8, <2>1, <4>1
      <4>3. QED
        BY <2>1, <4>1, <4>2
    <3>3. QED
      BY <3>1, <3>2
  <2>3. Ahead(p.pos, k) = Ahead(q.pos, k + 1)
    <3>1. CASE q.pos + 1 < Maxlen
      BY <1>1, <1>8, <2>1, <3>1
    <3>2. CASE ~(q.pos + 1 < Maxlen)
      <4>1. p.pos = 0 /\ q.pos = Maxlen - 1
        BY <1>1, <2>1, <3>2
      <4>2. Ahead(p.pos, k) = k
        BY <1>1, <1>8, <2>1, <4>1
      <4>3. Ahead(q.pos, k + 1) = k
        BY <1>1, <1>8, <2>1, <4>1
      <4>4. QED
        BY <4>2, <4>3
    <3>3. QED
      BY <3>1, <3>2
  <2>4. QED
    BY <1>6, <1>10, <1>11, <2>2, <2>3 DEF p
<1>12. CASE q.n # Maxlen
  <2>1. p.pos = q.pos /\ k \in 0 .. q.n /\ q.n \in 0 .. Maxlen - 1
    BY <1>1, <1>2, <1>3, <1>5, <1>12
  <2>2. Ahead(p.pos, k) = i <=> k = q.n
    BY <1>1, <1>7, <1>8, <2>1
  <2>3. QED
    BY <1>6, <1>10, <1>12, <2>1, <2>2 DEF p
<1>13. QED
  BY <1>11, <1>12

\* After a pop the ring starts with what was its second frame.
LEMMA AtPopped ==
  ASSUME NEW q, GoodQueue(q), NEW k \in 0 .. q.n - 2
  PROVE  At(Popped(q), k) = At(q, k + 1)
<1>1. /\ Maxlen \in Nat \ {0} /\ q.pos \in Slots /\ q.pos \in 0 .. Maxlen - 1
      /\ q.n \in 0 .. Maxlen
  BY EndpointerAssumption DEF GoodQueue, Slots
<1>2. /\ Popped(q).pos = Ahead(q.pos, 1) /\ Popped(q).buf = q.buf
  BY DEF Popped, Ahead, Round
<1>3. k \in 0 .. Maxlen /\ k + 1 \in 0 .. Maxlen
  BY <1>1
<1>4. /\ Ahead(q.pos, 1) = IF q.pos + 1 < Maxlen THEN q.pos + 1 ELSE q.pos + 1 - Maxlen
      /\ Ahead(q.pos, k + 1) = IF q.pos + (k + 1) < Maxlen THEN q.pos + (k + 1)
                               ELSE q.pos + (k + 1) - Maxlen
  BY <1>1, <1>3, RingSteps
<1>5. Ahead(q.pos, 1) \in Slots /\ Ahead(q.pos, 1) \in 0 .. Maxlen - 1
  BY <1>1, <1>4 DEF Slots
<1>6. Ahead(Ahead(q.pos, 1), k) = Ahead(q.pos, k + 1)
  <2>1. Ahead(Ahead(q.pos, 1), k) =
          IF Ahead(q.pos, 1) + k < Maxlen THEN Ahead(q.pos, 1) + k
          ELSE Ahead(q.pos, 1) + k - Maxlen
    BY <1>3, <1>5, RingSteps
  <2>2. QED
    BY <1>1, <1>3, <1>4, <2>1
<1>7. QED
  BY <1>2, <1>6 DEF At, Ahead, Round

\* A frame of the ring is a time.
LEMMA AtType ==
  ASSUME NEW q, GoodQueue(q), NEW k \in 0 .. q.n - 1
  PROVE  At(q, k) \in Nat
<1>1. /\ Maxlen \in Nat \ {0} /\ q.pos \in Slots /\ q.pos \in 0 .. Maxlen - 1
      /\ q.n \in 0 .. Maxlen /\ q.buf \in [Slots -> Nat]
  BY EndpointerAssumption DEF GoodQueue, Slots
<1>2. k \in 0 .. Maxlen
  BY <1>1
<1>3. Ahead(q.pos, k) \in Slots
  BY <1>1, <1>2, RingSteps DEF Slots
<1>4. QED
  BY <1>1, <1>3 DEF At, Ahead, Round

\* The frames of the ring lie in the stream one behind the other, after from and before upto.
Ordered(q, from, upto) ==
  /\ from <= upto
  /\ \A k \in 0 .. q.n - 1 : from <= At(q, k) /\ At(q, k) + FrameSize <= upto
  /\ \A k, l \in 0 .. q.n - 1 : k < l => At(q, k) + FrameSize <= At(q, l)

\* The frames of the ring are the last of the stream, none left out, and its time is that
\* of the first.
Timed(q, upto) ==
  /\ q.qstart_time + q.n * FrameSize = upto
  /\ \A k \in 0 .. q.n - 1 : At(q, k) = q.qstart_time + k * FrameSize

\* The next frame of the stream goes behind the others.
LEMMA OrderedPushed ==
  ASSUME NEW q, GoodQueue(q), NEW speech \in BOOLEAN, NEW from \in Int, NEW frame \in Nat,
         Ordered(q, from, frame)
  PROVE  Ordered(Pushed(q, speech, frame), from, frame + FrameSize)
<1> DEFINE p == Pushed(q, speech, frame)
<1>1. /\ Maxlen \in Nat \ {0} /\ q.n \in 0 .. Maxlen /\ FrameSize \in Nat
      /\ p.n = IF q.n = Maxlen THEN Maxlen ELSE q.n + 1
  <2>1. p.n = IF q.n = Maxlen THEN Maxlen ELSE q.n + 1
    BY PushedIsGood
  <2>2. Maxlen \in Nat \ {0} /\ q.n \in 0 .. Maxlen /\ FrameSize \in Nat
    BY EndpointerAssumption DEF GoodQueue
  <2>3. QED
    BY <2>1, <2>2
<1>2. ASSUME NEW k \in 0 .. p.n - 1
      PROVE  At(p, k) = IF q.n = Maxlen
                        THEN IF k = Maxlen - 1 THEN frame ELSE At(q, k + 1)
                        ELSE IF k = q.n THEN frame ELSE At(q, k)
  BY AtPushed
<1>3. \A k \in 0 .. q.n - 1 : At(q, k) \in Nat
  BY AtType
<1> HIDE DEF p
<1>4. from <= frame + FrameSize
  BY <1>1 DEF Ordered
<1>5. ASSUME NEW k \in 0 .. p.n - 1
      PROVE  from <= At(p, k) /\ At(p, k) + FrameSize <= frame + FrameSize
  <2>1. CASE q.n = Maxlen
    <3>1. k = Maxlen - 1 \/ k + 1 \in 0 .. q.n - 1
      BY <1>1, <2>1
    <3>2. CASE k = Maxlen - 1
      BY <1>1, <1>2, <2>1, <3>2 DEF Ordered
    <3>3. CASE k # Maxlen - 1
      <4>1. At(p, k) = At(q, k + 1) /\ k + 1 \in 0 .. q.n - 1
        BY <1>2, <2>1, <3>1, <3>3
      <4>2. from <= At(q, k + 1) /\ At(q, k + 1) + FrameSize <= frame /\ At(q, k + 1) \in Nat
        BY <1>3, <4>1 DEF Ordered
      <4>3. QED
        BY <1>1, <4>1, <4>2
    <3>4. QED
      BY <3>2, <3>3
  <2>2. CASE q.n # Maxlen
    <3>1. k = q.n \/ k \in 0 .. q.n - 1
      BY <1>1, <2>2
    <3>2. CASE k = q.n
      BY <1>1, <1>2, <2>2, <3>2 DEF Ordered
    <3>3. CASE k # q.n
      <4>1. At(p, k) = At(q, k) /\ k \in 0 .. q.n - 1
        BY <1>2, <2>2, <3>1, <3>3
      <4>2. from <= At(q, k) /\ At(q, k) + FrameSize <= frame /\ At(q, k) \in Nat
        BY <1>3, <4>1 DEF Ordered
      <4>3. QED
        BY <1>1, <4>1, <4>2
    <3>4. QED
      BY <3>2, <3>3
  <2>3. QED
    BY <2>1, <2>2
<1>6. ASSUME NEW k \in 0 .. p.n - 1, NEW l \in 0 .. p.n - 1, k < l
      PROVE  At(p, k) + FrameSize <= At(p, l)
  <2>1. CASE q.n = Maxlen
    <3>1. k + 1 \in 0 .. q.n - 1 /\ At(p, k) = At(q, k + 1) /\ (l = Maxlen - 1 \/ l + 1 \in 0 .. q.n - 1)
      BY <1>1, <1>2, <1>6, <2>1
    <3>2. CASE l = Maxlen - 1
      BY <1>2, <2>1, <3>1, <3>2 DEF Ordered
    <3>3. CASE l # Maxlen - 1
      <4>1. At(p, l) = At(q, l + 1) /\ l + 1 \in 0 .. q.n - 1 /\ k + 1 < l + 1
        BY <1>2, <1>6, <2>1, <3>1, <3>3
      <4>2. At(q, k + 1) + FrameSize <= At(q, l + 1)
        BY <3>1, <4>1 DEF Ordered
      <4>3. QED
        BY <3>1, <4>1, <4>2
    <3>4. QED
      BY <3>2, <3>3
  <2>2. CASE q.n # Maxlen
    <3>1. k \in 0 .. q.n - 1 /\ At(p, k) = At(q, k) /\ (l = q.n \/ l \in 0 .. q.n - 1)
      BY <1>1, <1>2, <1>6, <2>2
    <3>2. CASE l = q.n
      BY <1>2, <2>2, <3>1, <3>2 DEF Ordered
    <3>3. CASE l # q.n
      BY <1>2, <1>6, <2>2, <3>1, <3>3 DEF Ordered
    <3>4. QED
      BY <3>2, <3>3
  <2>3. QED
    BY <2>1, <2>2
<1>7. QED
  BY <1>4, <1>5, <1>6 DEF Ordered, p

\* What a pop leaves in the ring comes after the frame popped.
LEMMA OrderedPopped ==
  ASSUME NEW q, GoodQueue(q), q.n > 0, NEW from \in Int, NEW upto \in Int,
         Ordered(q, from, upto)
  PROVE  Ordered(Popped(q), At(q, 0) + FrameSize, upto)
<1> DEFINE p == Popped(q)
<1>1. q.n \in Nat /\ p.n = q.n - 1
  BY EndpointerAssumption, PoppedIsGood DEF GoodQueue
<1>2. ASSUME NEW k \in 0 .. p.n - 1
      PROVE  At(p, k) = At(q, k + 1) /\ k + 1 \in 0 .. q.n - 1
  <2>1. k \in 0 .. q.n - 2
    BY <1>1
  <2>2. At(p, k) = At(q, k + 1)
    BY <2>1, AtPopped
  <2>3. QED
    BY <1>1, <2>2
<1> HIDE DEF p
<1>3. 0 \in 0 .. q.n - 1
  BY <1>1
<1>4. At(q, 0) + FrameSize <= upto
  BY <1>3 DEF Ordered
<1>5. ASSUME NEW k \in 0 .. p.n - 1
      PROVE  At(q, 0) + FrameSize <= At(p, k) /\ At(p, k) + FrameSize <= upto
  <2>1. At(p, k) = At(q, k + 1) /\ k + 1 \in 0 .. q.n - 1 /\ 0 < k + 1
    BY <1>1, <1>2
  <2>2. QED
    BY <1>3, <2>1 DEF Ordered
<1>6. ASSUME NEW k \in 0 .. p.n - 1, NEW l \in 0 .. p.n - 1, k < l
      PROVE  At(p, k) + FrameSize <= At(p, l)
  <2>1. /\ At(p, k) = At(q, k + 1) /\ k + 1 \in 0 .. q.n - 1
        /\ At(p, l) = At(q, l + 1) /\ l + 1 \in 0 .. q.n - 1 /\ k + 1 < l + 1
    BY <1>1, <1>2, <1>6
  <2>2. QED
    BY <2>1 DEF Ordered
<1>7. QED
  BY <1>4, <1>5, <1>6 DEF Ordered, p

\* The ring's time goes with its first frame when a frame is pushed...
LEMMA TimedPushed ==
  ASSUME NEW q, GoodQueue(q), NEW speech \in BOOLEAN, NEW frame \in Nat, Timed(q, frame)
  PROVE  Timed(Pushed(q, speech, frame), frame + FrameSize)
<1> DEFINE p == Pushed(q, speech, frame)
<1>1. /\ Maxlen \in Nat \ {0} /\ q.n \in 0 .. Maxlen /\ FrameSize \in Nat
      /\ q.qstart_time \in Nat
  BY EndpointerAssumption DEF GoodQueue
<1>2. /\ p.n = IF q.n = Maxlen THEN Maxlen ELSE q.n + 1
      /\ p.qstart_time = IF q.n = Maxlen THEN q.qstart_time + FrameSize ELSE q.qstart_time
  BY PushedIsGood DEF Pushed, Full
<1>3. ASSUME NEW k \in 0 .. p.n - 1
      PROVE  At(p, k) = IF q.n = Maxlen
                        THEN IF k = Maxlen - 1 THEN frame ELSE At(q, k + 1)
                        ELSE IF k = q.n THEN frame ELSE At(q, k)
  BY AtPushed
<1> HIDE DEF p
<1>4. q.n * FrameSize \in Int /\ (q.n + 1) * FrameSize = q.n * FrameSize + FrameSize
  BY <1>1, OneMore
<1>5. q.qstart_time + q.n * FrameSize = frame
  BY DEF Timed
<1>6. p.qstart_time + p.n * FrameSize = frame + FrameSize
  <2>1. PICK t \in Int : t = q.n * FrameSize
    BY <1>4
  <2>2. q.qstart_time + t = frame /\ (q.n + 1) * FrameSize = t + FrameSize
    BY <1>4, <1>5, <2>1
  <2>3. \/ p.n * FrameSize = t /\ p.qstart_time = q.qstart_time + FrameSize
        \/ p.n * FrameSize = t + FrameSize /\ p.qstart_time = q.qstart_time
    BY <1>2, <2>1, <2>2
  <2>4. PICK u \in Int : u = p.n * FrameSize
    BY <1>1, <2>3
  <2>5. p.qstart_time + u = frame + FrameSize
    BY <1>1, <2>2, <2>3, <2>4
  <2>6. QED
    BY <2>4, <2>5
<1>7. ASSUME NEW k \in 0 .. p.n - 1
      PROVE  At(p, k) = p.qstart_time + k * FrameSize
  <2>1. k * FrameSize \in Int /\ (k + 1) * FrameSize = k * FrameSize + FrameSize
    BY OneMore
  <2>2. CASE q.n = Maxlen
    <3>1. p.qstart_time = q.qstart_time + FrameSize
      BY <1>2, <2>2
    <3>2. CASE k = Maxlen - 1
      <4>1. k + 1 = q.n /\ At(p, k) = frame
        BY <1>1, <1>3, <2>2, <3>2
      <4>2. (k + 1) * FrameSize = q.n * FrameSize
        BY <4>1
      <4>3. QED
        BY <1>1, <1>4, <1>5, <2>1, <3>1, <4>1, <4>2
    <3>3. CASE k # Maxlen - 1
      <4>1. k + 1 \in 0 .. q.n - 1 /\ At(p, k) = At(q, k + 1)
        BY <1>1, <1>2, <1>3, <2>2, <3>3
      <4>2. At(q, k + 1) = q.qstart_time + (k + 1) * FrameSize
        BY <4>1 DEF Timed
      <4>3. QED
        BY <1>1, <2>1, <3>1, <4>1, <4>2
    <3>4. QED
      BY <3>2, <3>3
  <2>3. CASE q.n # Maxlen
    <3>1. p.qstart_time = q.qstart_time
      BY <1>2, <2>3
    <3>2. CASE k = q.n
      BY <1>3, <1>5, <2>3, <3>1, <3>2
    <3>3. CASE k # q.n
      <4>1. k \in 0 .. q.n - 1 /\ At(p, k) = At(q, k)
        BY <1>1, <1>2, <1>3, <2>3, <3>3
      <4>2. QED
        BY <3>1, <4>1 DEF Timed
    <3>4. QED
      BY <3>2, <3>3
  <2>4. QED
    BY <2>2, <2>3
<1>8. QED
  BY <1>6, <1>7 DEF Timed, p

\* ... and when one is popped.
LEMMA TimedPopped ==
  ASSUME NEW q, GoodQueue(q), q.n > 0, NEW upto \in Int, Timed(q, upto)
  PROVE  /\ Timed(Popped(q), upto) /\ At(q, 0) = q.qstart_time
         /\ Popped(q).qstart_time = At(q, 0) + FrameSize
<1> DEFINE p == Popped(q)
<1>1. /\ q.n \in Nat \ {0} /\ FrameSize \in Nat /\ q.qstart_time \in Nat
      /\ p.n = q.n - 1 /\ p.qstart_time = q.qstart_time + FrameSize
  BY EndpointerAssumption DEF GoodQueue, Popped
<1>2. ASSUME NEW k \in 0 .. p.n - 1
      PROVE  At(p, k) = At(q, k + 1) /\ k + 1 \in 0 .. q.n - 1
  <2>1. k \in 0 .. q.n - 2
    BY <1>1
  <2>2. At(p, k) = At(q, k + 1)
    BY <2>1, AtPopped
  <2>3. QED
    BY <1>1, <2>2
<1> HIDE DEF p
<1>3. At(q, 0) = q.qstart_time
  <2>1. 0 \in 0 .. q.n - 1 /\ 0 * FrameSize = 0
    BY <1>1, OneMore
  <2>2. At(q, 0) = q.qstart_time + 0 * FrameSize
    BY <2>1 DEF Timed
  <2>3. QED
    BY <1>1, <2>1, <2>2
<1>4. p.qstart_time + p.n * FrameSize = upto
  <2>1. p.n \in Int /\ p.n + 1 = q.n
    BY <1>1
  <2>2. q.n * FrameSize = p.n * FrameSize + FrameSize /\ p.n * FrameSize \in Int
    BY <2>1, OneMore
  <2>3. q.qstart_time + q.n * FrameSize = upto
    BY DEF Timed
  <2>4. QED
    BY <1>1, <2>2, <2>3
<1>5. ASSUME NEW k \in 0 .. p.n - 1
      PROVE  At(p, k) = p.qstart_time + k * FrameSize
  <2>1. k * FrameSize \in Int /\ (k + 1) * FrameSize = k * FrameSize + FrameSize
    BY OneMore
  <2>2. At(p, k) = q.qstart_time + (k + 1) * FrameSize
    BY <1>2 DEF Timed
  <2>3. QED
    BY <1>1, <2>1, <2>2
<1>6. QED
  BY <1>1, <1>3, <1>4, <1>5 DEF Timed, p

\* The time up to which the stream was returned with the last segment.
SegmentEnd == IF segment = <<>> THEN 0 ELSE segment[Len(segment)] + FrameSize

\* The frames of the ring are of the stream and come after those returned.
FramesOrdered == Ordered(queue, SegmentEnd, stream)

\* Until the stream ends the ring is its last samples, and the endpointer's clock shows
\* the samples handed over.
FramesTimed ==
  plain =>
    /\ ~timestamp_cb
    /\ ~ended => last_audio_timestamp = stream /\ Timed(queue, stream)

\* The frames returned of a segment follow one another; in the segment the ring goes on
\* where they stop, and behind it the times are those of the samples returned.
SegmentTimed ==
  plain =>
    /\ \A i \in 2 .. Len(segment) : segment[i] = segment[i - 1] + FrameSize
    /\ in_speech =>
         /\ ~ended /\ segment # <<>> /\ trail = 0
         /\ segment[Len(segment)] + FrameSize = queue.qstart_time
    /\ segment # <<>> =>
         /\ speech_start = segment[1]
         /\ ~in_speech => speech_end = segment[Len(segment)] + FrameSize + trail

\* ps_endpointer_process keeps a frame, or starts a segment with the first of the ring, or
\* goes on with one.
LEMMA ProcessCases ==
  ASSUME Inv, NEW speech \in BOOLEAN, Process(speech)
  PROVE  LET q == Pushed(queue, speech, stream)
         IN /\ GoodQueue(queue) /\ stream \in Nat /\ stream' = stream + FrameSize
            /\ FrameSize \in Nat \ {0} /\ Maxlen \in Nat \ {0}
            /\ in_speech => queue.n \in 1 .. Maxlen - 1
            /\ GoodQueue(q) /\ q.n \in 1 .. Maxlen /\ q.n > 0 /\ At(q, 0) \in Nat
            /\ \/ ~in_speech /\ ~in_speech' /\ queue' = q /\ segment' = segment
               \/ ~in_speech /\ in_speech' /\ queue' = Popped(q)
                  /\ segment' = <<At(q, 0)>>
               \/ in_speech /\ queue' = Popped(q) /\ segment' = Append(segment, At(q, 0))
<1> DEFINE q == Pushed(queue, speech, stream)
           starts == ~in_speech /\ q.speech_count > StartFrames
<1>1. /\ GoodQueue(queue) /\ stream \in Nat
      /\ in_speech => queue.n \in 1 .. Maxlen - 1
      /\ FrameSize \in Nat \ {0} /\ Maxlen \in Nat \ {0}
  BY InvOfQueue, EndpointerAssumption DEF Inv, TypeOK, NeverOverflows
<1>2. GoodQueue(q) /\ q.n = IF queue.n = Maxlen THEN Maxlen ELSE queue.n + 1
  BY <1>1, PushedIsGood
<1>3. q.n \in 1 .. Maxlen
  BY <1>1, <1>2 DEF GoodQueue
<1>4. At(q, 0) \in Nat
  <2>1. 0 \in 0 .. q.n - 1
    BY <1>3
  <2>2. QED
    BY <1>2, <2>1, AtType
<1>5. /\ queue' = IF in_speech \/ starts THEN Popped(q) ELSE q
      /\ segment' = IF starts THEN <<At(q, 0)>>
                    ELSE IF in_speech THEN Append(segment, At(q, 0)) ELSE segment
      /\ starts => in_speech'
      /\ ~starts /\ ~in_speech => ~in_speech'
      /\ stream' = stream + FrameSize
  BY DEF Process
<1>6. starts => ~in_speech
  OBVIOUS
<1> HIDE DEF q, starts
<1>7. \/ ~in_speech /\ ~in_speech' /\ queue' = q /\ segment' = segment
      \/ ~in_speech /\ in_speech' /\ queue' = Popped(q) /\ segment' = <<At(q, 0)>>
      \/ in_speech /\ queue' = Popped(q) /\ segment' = Append(segment, At(q, 0))
  BY <1>5, <1>6
<1>8. q.n > 0
  BY <1>3
<1>9. QED
  BY <1>1, <1>2, <1>3, <1>4, <1>5, <1>7, <1>8 DEF q

\* What was returned has an end in the stream.
LEMMA SegmentEndType == TypeOK => SegmentEnd \in Nat
BY EndpointerAssumption DEF TypeOK, SegmentEnd

\* A frame handed over comes after all there is, and a frame returned before all that stay:
\* a segment starts behind what was returned.
LEMMA ProcessOrdered ==
  ASSUME Inv, FramesOrdered, NEW speech \in BOOLEAN, Process(speech)
  PROVE  /\ FramesOrdered'
         /\ ~in_speech /\ in_speech' => segment'[1] >= SegmentEnd
<1> PICK q : q = Pushed(queue, speech, stream)
  OBVIOUS
<1>1. /\ GoodQueue(queue) /\ stream \in Nat /\ stream' = stream + FrameSize
      /\ FrameSize \in Nat \ {0}
      /\ GoodQueue(q) /\ q.n \in 1 .. Maxlen /\ q.n > 0 /\ At(q, 0) \in Nat
      /\ Maxlen \in Nat \ {0}
  BY ProcessCases
<1>2. \/ ~in_speech /\ ~in_speech' /\ queue' = q /\ segment' = segment
      \/ ~in_speech /\ in_speech' /\ queue' = Popped(q) /\ segment' = <<At(q, 0)>>
      \/ in_speech /\ queue' = Popped(q) /\ segment' = Append(segment, At(q, 0))
  BY ProcessCases
<1>3. SegmentEnd \in Int /\ segment \in Seq(Nat)
  BY SegmentEndType DEF Inv, TypeOK
<1>4. Ordered(q, SegmentEnd, stream + FrameSize)
  BY <1>1, <1>3, OrderedPushed DEF FramesOrdered
<1>5. Ordered(Popped(q), At(q, 0) + FrameSize, stream + FrameSize)
  <2>1. stream + FrameSize \in Int
    BY <1>1
  <2>2. QED
    BY <1>1, <1>3, <1>4, <2>1, OrderedPopped
<1>6. SegmentEnd <= At(q, 0)
  <2>1. 0 \in 0 .. q.n - 1
    BY <1>1
  <2>2. QED
    BY <1>4, <2>1 DEF Ordered
<1>7. CASE ~in_speech /\ ~in_speech' /\ queue' = q /\ segment' = segment
  BY <1>1, <1>4, <1>7 DEF FramesOrdered, SegmentEnd
<1>8. CASE ~in_speech /\ in_speech' /\ queue' = Popped(q) /\ segment' = <<At(q, 0)>>
  <2>1. SegmentEnd' = At(q, 0) + FrameSize /\ segment'[1] = At(q, 0)
    BY <1>1, <1>8 DEF SegmentEnd
  <2>2. QED
    BY <1>1, <1>3, <1>5, <1>6, <1>8, <2>1 DEF FramesOrdered
<1>9. CASE in_speech /\ queue' = Popped(q) /\ segment' = Append(segment, At(q, 0))
  <2>1. SegmentEnd' = At(q, 0) + FrameSize
    BY <1>1, <1>3, <1>9 DEF SegmentEnd
  <2>2. QED
    BY <1>1, <1>5, <1>9, <2>1 DEF FramesOrdered
<1>10. QED
  BY <1>2, <1>7, <1>8, <1>9

\* ps_endpointer_end_stream of a segment returns the leading speech frames of the ring, which
\* is empty then.
LEMMA EndStreamReturns ==
  ASSUME Inv, NEW nsamp \in 0 .. FrameSize, EndStream(nsamp), in_speech
  PROVE  LET m == LeadingSpeech(queue)
         IN /\ GoodQueue(queue) /\ m \in 0 .. queue.n /\ queue'.n = 0
            /\ segment' \in Seq(Nat) /\ Len(segment') = Len(segment) + m
            /\ \A i \in 1 .. Len(segment) : segment'[i] = segment[i]
            /\ \A i \in 1 .. m : segment'[Len(segment) + i] = At(queue, i - 1)
<1> PICK m : m = LeadingSpeech(queue)
  OBVIOUS
<1>1. GoodQueue(queue) /\ segment \in Seq(Nat)
  BY InvOfQueue DEF Inv, TypeOK
<1>2. queue.n \in Nat /\ m \in 0 .. queue.n
  BY <1>1, LeadingType, EndpointerAssumption DEF GoodQueue
<1>3. queue'.n = 0
  BY DEF EndStream, Emptied
<1>4. PICK tail : tail = [i \in 1 .. m |-> At(queue, i - 1)]
  OBVIOUS
<1>5. segment' = segment \o tail
  BY <1>4 DEF EndStream
<1>6. ASSUME NEW i \in 1 .. m PROVE At(queue, i - 1) \in Nat
  <2>1. i - 1 \in 0 .. queue.n - 1
    BY <1>2
  <2>2. QED
    BY <1>1, <2>1, AtType
<1>7. tail \in Seq(Nat) /\ Len(tail) = m /\ \A i \in 1 .. m : tail[i] = At(queue, i - 1)
  BY <1>2, <1>4, <1>6
<1>8. /\ segment' \in Seq(Nat) /\ Len(segment') = Len(segment) + m
      /\ \A i \in 1 .. Len(segment) : segment'[i] = segment[i]
  <2>1. segment' \in Seq(Nat) /\ Len(segment') = Len(segment) + m
    <3>1. segment \in Seq(Nat) /\ tail \in Seq(Nat)
      BY <1>1, <1>7
    <3>2. segment \o tail \in Seq(Nat) /\ Len(segment \o tail) = Len(segment) + Len(tail)
      BY <3>1
    <3>3. QED
      BY <1>5, <1>7, <3>2
  <2>2. ASSUME NEW i \in 1 .. Len(segment) PROVE segment'[i] = segment[i]
    BY <1>1, <1>5, <1>7
  <2>3. QED
    BY <2>1, <2>2
<1>9. ASSUME NEW i \in 1 .. m PROVE segment'[Len(segment) + i] = At(queue, i - 1)
  BY <1>1, <1>2, <1>5, <1>7
<1>10. QED
  BY <1>1, <1>2, <1>3, <1>8, <1>9

\* What is returned at the end is of the stream.
LEMMA EndStreamOrdered ==
  ASSUME Inv, FramesOrdered, NEW nsamp \in 0 .. FrameSize, EndStream(nsamp)
  PROVE  FramesOrdered'
<1>1. /\ stream \in Nat /\ stream' = stream + nsamp /\ nsamp \in Nat /\ ~in_speech'
      /\ SegmentEnd \in Nat /\ segment \in Seq(Nat) /\ FrameSize \in Nat
  BY SegmentEndType, EndpointerAssumption DEF EndStream, Inv, TypeOK
<1>2. CASE ~in_speech
  <2>1. queue' = queue /\ SegmentEnd' = SegmentEnd
    BY <1>2 DEF EndStream, SegmentEnd
  <2>2. GoodQueue(queue)
    BY InvOfQueue DEF Inv
  <2>3. \A k \in 0 .. queue.n - 1 : At(queue, k) \in Nat
    BY <2>2, AtType
  <2>4. ASSUME NEW k \in 0 .. queue.n - 1
        PROVE  SegmentEnd <= At(queue, k) /\ At(queue, k) + FrameSize <= stream'
    <3>1. At(queue, k) \in Nat /\ SegmentEnd <= At(queue, k) /\ At(queue, k) + FrameSize <= stream
      BY <2>3 DEF FramesOrdered, Ordered
    <3>2. QED
      BY <1>1, <3>1
  <2>5. SegmentEnd <= stream'
    BY <1>1 DEF FramesOrdered, Ordered
  <2>6. QED
    BY <2>1, <2>4, <2>5 DEF FramesOrdered, Ordered
<1>3. CASE in_speech
  <2> PICK m : m = LeadingSpeech(queue)
    OBVIOUS
  <2>1. /\ GoodQueue(queue) /\ m \in 0 .. queue.n /\ queue'.n = 0
        /\ segment' \in Seq(Nat) /\ Len(segment') = Len(segment) + m
        /\ \A i \in 1 .. Len(segment) : segment'[i] = segment[i]
        /\ \A i \in 1 .. m : segment'[Len(segment) + i] = At(queue, i - 1)
    BY <1>3, EndStreamReturns
  <2>2. queue.n \in Nat /\ Len(segment) \in Nat
    BY <1>1, <2>1, EndpointerAssumption DEF GoodQueue
  <2>3. SegmentEnd' <= stream
    <3>1. CASE m = 0
      <4>1. Len(segment') = Len(segment)
        BY <2>1, <2>2, <3>1
      <4>2. segment = <<>> <=> segment' = <<>>
        BY <1>1, <2>1, <4>1
      <4>3. segment # <<>> => segment'[Len(segment')] = segment[Len(segment)]
        BY <1>1, <2>1, <4>1
      <4>4. SegmentEnd' = SegmentEnd
        BY <4>2, <4>3 DEF SegmentEnd
      <4>5. QED
        BY <4>4 DEF FramesOrdered, Ordered
    <3>2. CASE m # 0
      <4>1. /\ m \in 1 .. m /\ m - 1 \in 0 .. queue.n - 1
            /\ segment'[Len(segment')] = At(queue, m - 1) /\ segment' # <<>>
        BY <2>1, <2>2, <3>2
      <4>2. SegmentEnd' = At(queue, m - 1) + FrameSize
        BY <4>1 DEF SegmentEnd
      <4>3. QED
        BY <4>1, <4>2 DEF FramesOrdered, Ordered
    <3>3. QED
      BY <3>1, <3>2
  <2>4. SegmentEnd' \in Nat
    BY <1>1, <2>1 DEF SegmentEnd
  <2>5. QED
    BY <1>1, <2>1, <2>3, <2>4 DEF FramesOrdered, Ordered
<1>4. QED
  BY <1>2, <1>3

\* Every step keeps the order.
LEMMA OrderedNext == Inv /\ FramesOrdered /\ [Next]_vars => FramesOrdered'
<1> SUFFICES ASSUME Inv, FramesOrdered, [Next]_vars PROVE FramesOrdered'
  OBVIOUS
<1>1. ASSUME NEW cb \in BOOLEAN, SetTimestampFunc(cb) PROVE FramesOrdered'
  BY <1>1 DEF SetTimestampFunc, times, FramesOrdered, SegmentEnd
<1>2. ASSUME NEW speech \in BOOLEAN, Process(speech) PROVE FramesOrdered'
  BY <1>2, ProcessOrdered
<1>3. ASSUME NEW nsamp \in 0 .. FrameSize, EndStream(nsamp) PROVE FramesOrdered'
  BY <1>3, EndStreamOrdered
<1>4. CASE UNCHANGED vars
  BY <1>4 DEF vars, times, FramesOrdered, SegmentEnd
<1>5. QED
  BY <1>1, <1>2, <1>3, <1>4 DEF Next

LEMMA OrderedInit == Init => FramesOrdered
<1> SUFFICES ASSUME Init PROVE FramesOrdered
  OBVIOUS
<1>1. queue.n = 0 /\ SegmentEnd = 0 /\ stream = 0
  BY DEF Init, EmptyQueue, SegmentEnd
<1>2. QED
  BY <1>1 DEF FramesOrdered, Ordered

\* No sample of the stream is returned twice: a segment starts behind all that was returned
\* before it, in one stream or several, with or without a timestamp function.
THEOREM SegmentsAreDisjoint == Spec => SegmentsDisjoint
<1>1. Inv /\ FramesOrdered /\ [Next]_vars
        => [~in_speech /\ in_speech' /\ segment # <<>> =>
              segment'[1] >= segment[Len(segment)] + FrameSize]_vars
  <2> SUFFICES ASSUME Inv, FramesOrdered, [Next]_vars,
                      ~in_speech, in_speech', segment # <<>>
               PROVE  segment'[1] >= segment[Len(segment)] + FrameSize
    OBVIOUS
  <2>1. PICK speech \in BOOLEAN : Process(speech)
    BY DEF Next, vars, SetTimestampFunc, EndStream
  <2>2. segment'[1] >= SegmentEnd
    BY <2>1, ProcessOrdered
  <2>3. QED
    BY <2>2 DEF SegmentEnd
<1>2. Spec => [](Inv /\ FramesOrdered)
  BY InitInv, NextInv, OrderedInit, OrderedNext, PTL DEF Spec
<1>3. QED
  BY <1>1, <1>2, PTL DEF Spec, SegmentsDisjoint

---------------------------------------------------------------------------
(* The times of a segment, without a timestamp function, in the first stream. *)

TimeInv == Inv /\ FramesTimed /\ SegmentTimed

\* The times ps_endpointer_process sets when it counts samples.
LEMMA ProcessTimes ==
  ASSUME NEW speech \in BOOLEAN, Process(speech), ~timestamp_cb,
         in_speech \in BOOLEAN
  PROVE  LET q      == Pushed(queue, speech, stream)
             starts == ~in_speech /\ in_speech'
         IN /\ speech_start' = IF starts THEN q.qstart_time ELSE speech_start
            /\ in_speech /\ ~in_speech' => speech_end' = Popped(q).qstart_time
            /\ ~in_speech /\ ~in_speech' => speech_end' = speech_end
            /\ trail' = IF starts THEN 0 ELSE trail
BY DEF Process

\* The frame returned goes on where the segment stops.
LEMMA ProcessTimed ==
  ASSUME TimeInv, NEW speech \in BOOLEAN, Process(speech)
  PROVE  FramesTimed' /\ SegmentTimed'
<1> SUFFICES ASSUME plain' PROVE FramesTimed' /\ SegmentTimed'
  BY DEF FramesTimed, SegmentTimed
<1> PICK q : q = Pushed(queue, speech, stream)
  OBVIOUS
<1>1. /\ GoodQueue(queue) /\ stream \in Nat /\ stream' = stream + FrameSize
      /\ FrameSize \in Nat \ {0}
      /\ in_speech => queue.n \in 1 .. Maxlen - 1
      /\ GoodQueue(q) /\ q.n \in 1 .. Maxlen /\ q.n > 0 /\ At(q, 0) \in Nat
      /\ Maxlen \in Nat \ {0}
  BY ProcessCases DEF TimeInv
<1>2. \/ ~in_speech /\ ~in_speech' /\ queue' = q /\ segment' = segment
      \/ ~in_speech /\ in_speech' /\ queue' = Popped(q) /\ segment' = <<At(q, 0)>>
      \/ in_speech /\ queue' = Popped(q) /\ segment' = Append(segment, At(q, 0))
  BY ProcessCases DEF TimeInv
<1>3. plain /\ ~ended /\ ~timestamp_cb /\ timestamp_cb' = timestamp_cb /\ ended' = ended
  BY DEF Process, TimeInv, FramesTimed
<1>4. /\ last_audio_timestamp = stream /\ Timed(queue, stream)
      /\ last_audio_timestamp' = last_audio_timestamp + FrameSize
  BY <1>3 DEF TimeInv, FramesTimed, Process
<1>5. Timed(q, stream + FrameSize)
  BY <1>1, <1>4, TimedPushed
<1>6. /\ Timed(Popped(q), stream + FrameSize) /\ At(q, 0) = q.qstart_time
      /\ Popped(q).qstart_time = At(q, 0) + FrameSize
  <2>1. stream + FrameSize \in Int
    BY <1>1
  <2>2. QED
    BY <1>1, <1>5, <2>1, TimedPopped
<1>7. FramesTimed'
  <2>1. queue' = q \/ queue' = Popped(q)
    BY <1>2
  <2>2. QED
    BY <1>1, <1>3, <1>4, <1>5, <1>6, <2>1 DEF FramesTimed
<1>8. /\ segment \in Seq(Nat) /\ in_speech \in BOOLEAN
      /\ \A i \in 2 .. Len(segment) : segment[i] = segment[i - 1] + FrameSize
  BY <1>3 DEF TimeInv, Inv, TypeOK, SegmentTimed
<1>9. /\ speech_start' = IF ~in_speech /\ in_speech' THEN q.qstart_time ELSE speech_start
      /\ in_speech /\ ~in_speech' => speech_end' = Popped(q).qstart_time
      /\ ~in_speech /\ ~in_speech' => speech_end' = speech_end
      /\ trail' = IF ~in_speech /\ in_speech' THEN 0 ELSE trail
  BY <1>3, <1>8, ProcessTimes
<1>10. ~ended'
  BY <1>3
<1>11. CASE ~in_speech /\ ~in_speech' /\ queue' = q /\ segment' = segment
  <2>1. speech_start' = speech_start /\ speech_end' = speech_end /\ trail' = trail
    BY <1>9, <1>11
  <2>2. segment # <<>> => /\ speech_start = segment[1]
                          /\ speech_end = segment[Len(segment)] + FrameSize + trail
    BY <1>3, <1>11 DEF SegmentTimed, TimeInv
  <2>3. segment' # <<>> => /\ speech_start' = segment'[1]
                           /\ speech_end' = segment'[Len(segment')] + FrameSize + trail'
    BY <1>11, <2>1, <2>2
  <2>4. \A i \in 2 .. Len(segment') : segment'[i] = segment'[i - 1] + FrameSize
    BY <1>8, <1>11
  <2>5. QED
    BY <1>7, <1>11, <2>3, <2>4 DEF SegmentTimed
<1>12. CASE ~in_speech /\ in_speech' /\ queue' = Popped(q) /\ segment' = <<At(q, 0)>>
  <2>1. /\ segment' # <<>> /\ Len(segment') = 1 /\ segment'[1] = At(q, 0)
        /\ \A i \in 2 .. Len(segment') : segment'[i] = segment'[i - 1] + FrameSize
    BY <1>12
  <2>2. segment'[Len(segment')] + FrameSize = queue'.qstart_time
    BY <1>6, <1>12, <2>1
  <2>3. trail' = 0 /\ speech_start' = segment'[1]
    BY <1>6, <1>9, <1>12, <2>1
  <2>4. QED
    BY <1>7, <1>10, <1>12, <2>1, <2>2, <2>3 DEF SegmentTimed
<1>13. CASE in_speech /\ queue' = Popped(q) /\ segment' = Append(segment, At(q, 0))
  <2>1. /\ segment # <<>> /\ trail = 0
        /\ segment[Len(segment)] + FrameSize = queue.qstart_time
        /\ speech_start = segment[1]
    BY <1>3, <1>13 DEF TimeInv, SegmentTimed
  <2>2. q.qstart_time = queue.qstart_time
    <3>1. queue.n # Maxlen
      BY <1>1, <1>13
    <3>2. QED
      BY <3>1 DEF Pushed, Full
  <2>3. At(q, 0) = segment[Len(segment)] + FrameSize
    BY <1>6, <2>1, <2>2
  <2>4. /\ Len(segment) \in Nat \ {0} /\ Len(segment') = Len(segment) + 1
        /\ segment'[Len(segment')] = At(q, 0)
        /\ \A i \in 1 .. Len(segment) : segment'[i] = segment[i]
        /\ segment' # <<>>
    BY <1>1, <1>8, <1>13, <2>1, SMTT(30)
  <2>5. ASSUME NEW i \in 2 .. Len(segment')
        PROVE  segment'[i] = segment'[i - 1] + FrameSize
    <3>1. CASE i = Len(segment')
      <4>1. i - 1 = Len(segment) /\ i - 1 \in 1 .. Len(segment)
        BY <2>4, <3>1
      <4>2. segment'[i - 1] = segment[Len(segment)]
        BY <2>4, <4>1
      <4>3. QED
        BY <2>3, <2>4, <3>1, <4>2
    <3>2. CASE i # Len(segment')
      <4>1. i \in 2 .. Len(segment) /\ i \in 1 .. Len(segment) /\ i - 1 \in 1 .. Len(segment)
        BY <2>4, <3>2
      <4>2. QED
        BY <1>8, <2>4, <4>1
    <3>3. QED
      BY <3>1, <3>2
  <2>6. speech_start' = segment'[1]
    <3>1. 1 \in 1 .. Len(segment)
      BY <2>4
    <3>2. QED
      BY <1>9, <1>13, <2>1, <2>4, <3>1
  <2>7. segment'[Len(segment')] + FrameSize = queue'.qstart_time /\ trail' = 0
    BY <1>6, <1>9, <1>13, <2>1, <2>4
  <2>8. ~in_speech' => speech_end' = segment'[Len(segment')] + FrameSize + trail'
    <3>1. ASSUME ~in_speech' PROVE speech_end' = queue'.qstart_time
      BY <1>9, <1>13, <3>1
    <3>2. segment'[Len(segment')] \in Nat
      BY <1>1, <2>4
    <3>3. QED
      BY <1>1, <2>7, <3>1, <3>2
  <2>9. QED
    BY <1>7, <1>10, <2>4, <2>5, <2>6, <2>7, <2>8 DEF SegmentTimed
<1>14. QED
  BY <1>2, <1>7, <1>11, <1>12, <1>13

\* The frames returned at the end of a stream go on where the segment stops; when they are
\* all the ring has, the last samples come after them, up to the end of the stream.
LEMMA EndStreamTimes ==
  ASSUME TimeInv, plain, ~ended, in_speech, NEW nsamp \in 0 .. FrameSize, EndStream(nsamp)
  PROVE  LET m == LeadingSpeech(queue)
         IN /\ segment' # <<>>
            /\ \A i \in 2 .. Len(segment') : segment'[i] = segment'[i - 1] + FrameSize
            /\ segment'[1] = segment[1]
            /\ speech_end' = segment'[Len(segment')] + FrameSize + trail'
            /\ m = queue.n => /\ segment'[Len(segment')] + FrameSize = stream
                              /\ trail' = nsamp
<1> PICK m : m = LeadingSpeech(queue)
  OBVIOUS
<1>1. /\ GoodQueue(queue) /\ m \in 0 .. queue.n
      /\ segment' \in Seq(Nat) /\ Len(segment') = Len(segment) + m
      /\ \A i \in 1 .. Len(segment) : segment'[i] = segment[i]
      /\ \A i \in 1 .. m : segment'[Len(segment) + i] = At(queue, i - 1)
  BY EndStreamReturns DEF TimeInv
<1>2. PICK t \in Nat, n \in Nat, F \in Nat \ {0} :
        t = queue.qstart_time /\ n = queue.n /\ F = FrameSize
  BY <1>1, EndpointerAssumption DEF GoodQueue
<1>3. /\ segment \in Seq(Nat) /\ Len(segment) \in Nat \ {0} /\ segment # <<>>
      /\ \A i \in 2 .. Len(segment) : segment[i] = segment[i - 1] + F
      /\ segment[Len(segment)] + F = t /\ segment[Len(segment)] \in Nat
      /\ stream \in Nat /\ ~timestamp_cb /\ last_audio_timestamp = stream
      /\ m \in 0 .. n /\ m \in Nat
  <2>1. segment \in Seq(Nat) /\ segment # <<>> /\ stream \in Nat
    BY DEF TimeInv, Inv, TypeOK, SegmentTimed
  <2>2. Len(segment) \in Nat \ {0} /\ segment[Len(segment)] \in Nat
    BY <2>1
  <2>3. /\ \A i \in 2 .. Len(segment) : segment[i] = segment[i - 1] + F
        /\ segment[Len(segment)] + F = t
    BY <1>2 DEF TimeInv, SegmentTimed
  <2>4. ~timestamp_cb /\ last_audio_timestamp = stream
    BY DEF TimeInv, FramesTimed
  <2>5. m \in 0 .. n /\ m \in Nat
    BY <1>1, <1>2
  <2>6. QED
    BY <2>1, <2>2, <2>3, <2>4, <2>5
<1>4. t + n * F = stream /\ \A i \in 0 .. n - 1 : At(queue, i) = t + i * F
  BY <1>2 DEF TimeInv, FramesTimed, Timed
<1>5. /\ \A i \in 1 .. Len(segment) : segment'[i] = segment[i]
      /\ \A i \in 1 .. m : segment'[Len(segment) + i] = t + (i - 1) * F
  <2>1. ASSUME NEW i \in 1 .. m PROVE segment'[Len(segment) + i] = t + (i - 1) * F
    <3>1. i - 1 \in 0 .. n - 1
      BY <1>3
    <3>2. QED
      BY <1>1, <1>4, <3>1
  <2>2. QED
    BY <1>1, <2>1
<1>6. ASSUME NEW i \in 2 .. Len(segment') PROVE segment'[i] = segment'[i - 1] + F
  <2> PICK len \in Nat \ {0} : len = Len(segment)
    BY <1>3
  <2>5. i \in 2 .. len + m /\ Len(segment) = len /\ m \in Nat /\ len \in 1 .. len
    BY <1>1, <1>3
  <2>1. CASE i <= Len(segment)
    <3>1. i \in 2 .. Len(segment) /\ i \in 1 .. Len(segment) /\ i - 1 \in 1 .. Len(segment)
      BY <1>3, <2>1
    <3>2. QED
      BY <1>3, <1>5, <3>1
  <2>2. CASE i = Len(segment) + 1
    <3>1. 1 \in 1 .. m /\ i - 1 = len /\ Len(segment) = len
      BY <2>2, <2>5
    <3>2. segment'[i] = t + (1 - 1) * F
      BY <1>5, <2>2, <3>1
    <3>3. segment'[i - 1] = segment[Len(segment)]
      BY <1>5, <2>5, <3>1
    <3>4. (1 - 1) * F = 0
      BY <1>2
    <3>5. QED
      BY <1>2, <1>3, <3>2, <3>3, <3>4
  <2>3. CASE i > Len(segment) + 1
    <3>1. PICK j \in Nat : j = i - len
      BY <2>3, <2>5
    <3>2. /\ j \in 1 .. m /\ j - 1 \in 1 .. m /\ i = Len(segment) + j
          /\ i - 1 = Len(segment) + (j - 1)
      BY <2>3, <2>5, <3>1
    <3>3. segment'[i] = t + (j - 1) * F
      BY <1>5, <3>2
    <3>4. segment'[i - 1] = t + (j - 1 - 1) * F
      BY <1>5, <3>2
    <3>5. (j - 1) * F = (j - 1 - 1) * F + F /\ (j - 1 - 1) * F \in Int
      BY <1>2
    <3>6. QED
      BY <1>2, <3>3, <3>4, <3>5
  <2>4. QED
    BY <1>1, <1>3, <2>1, <2>2, <2>3
<1>7. segment'[Len(segment')] + F = t + m * F /\ segment'[Len(segment')] \in Int
  <2>1. CASE m = 0
    <3>1. Len(segment') = Len(segment) /\ Len(segment) \in 1 .. Len(segment) /\ m * F = 0
      BY <1>1, <1>2, <1>3, <2>1
    <3>2. segment'[Len(segment')] = segment[Len(segment)]
      BY <1>5, <3>1
    <3>3. QED
      BY <1>2, <1>3, <3>1, <3>2
  <2>2. CASE m # 0
    <3>1. m \in 1 .. m
      BY <1>3, <2>2
    <3>2. segment'[Len(segment')] = t + (m - 1) * F
      BY <1>1, <1>5, <3>1
    <3>3. m * F = (m - 1) * F + F /\ (m - 1) * F \in Int
      BY <1>2, <1>3
    <3>4. QED
      BY <1>2, <3>2, <3>3
  <2>3. QED
    BY <2>1, <2>2
<1>8. PICK k \in Nat : k = IF m < n THEN m + 1 ELSE m
  BY <1>3
<1>9. PICK trails \in BOOLEAN : trails <=> k = n /\ t + m * F = t + k * F
  OBVIOUS
<1>10. /\ trail' = IF trails THEN nsamp ELSE 0
       /\ speech_end' = IF trails THEN stream + nsamp ELSE t + m * F
  BY <1>2, <1>3, <1>8, <1>9 DEF EndStream, Emptied
<1>11. trails <=> m = n
  <2>1. CASE m = n
    <3>1. k = m
      BY <1>2, <1>8, <2>1
    <3>2. QED
      BY <1>9, <2>1, <3>1
  <2>2. CASE m # n
    <3>1. k = m + 1
      BY <1>2, <1>3, <1>8, <2>2
    <3>2. k * F = m * F + F /\ m * F \in Int
      <4>1. m \in Int /\ m * FrameSize \in Int
            /\ (m + 1) * FrameSize = m * FrameSize + FrameSize
        BY <1>3, OneMore
      <4>2. QED
        BY <1>2, <3>1, <4>1
    <3>3. PICK a \in Int : a = m * F
      BY <3>2
    <3>4. t + a # t + (a + F)
      BY <1>2
    <3>5. QED
      BY <1>9, <2>2, <3>2, <3>3, <3>4
  <2>3. QED
    BY <2>1, <2>2
<1>12. m = n => segment'[Len(segment')] + F = stream /\ trail' = nsamp
  BY <1>4, <1>7, <1>10, <1>11
<1>13. speech_end' = segment'[Len(segment')] + F + trail'
  <2>1. CASE m = n
    BY <1>2, <1>3, <1>7, <1>10, <1>11, <1>12, <2>1
  <2>2. CASE m # n
    BY <1>2, <1>7, <1>10, <1>11, <2>2
  <2>3. QED
    BY <2>1, <2>2
<1>14. segment' # <<>> /\ segment'[1] = segment[1]
  <2>1. 1 \in 1 .. Len(segment) /\ Len(segment') # 0
    BY <1>1, <1>3, SMTT(30)
  <2>2. QED
    BY <1>1, <1>5, <2>1
<1>15. QED
  BY <1>2, <1>6, <1>12, <1>13, <1>14

\* The times stay right at the end of a stream.
LEMMA EndStreamTimed ==
  ASSUME TimeInv, NEW nsamp \in 0 .. FrameSize, EndStream(nsamp)
  PROVE  FramesTimed' /\ SegmentTimed'
<1> SUFFICES ASSUME plain' PROVE FramesTimed' /\ SegmentTimed'
  BY DEF FramesTimed, SegmentTimed
<1>1. plain /\ ~ended /\ ~timestamp_cb /\ ended' /\ ~in_speech'
  BY DEF EndStream, TimeInv, FramesTimed
<1>2. FramesTimed'
  BY <1>1 DEF FramesTimed, EndStream
<1>3. speech_start' = speech_start
  BY DEF EndStream
<1>4. CASE in_speech
  <2>1. /\ segment' # <<>>
        /\ \A i \in 2 .. Len(segment') : segment'[i] = segment'[i - 1] + FrameSize
        /\ segment'[1] = segment[1]
        /\ speech_end' = segment'[Len(segment')] + FrameSize + trail'
    BY <1>1, <1>4, EndStreamTimes
  <2>2. segment[1] = speech_start
    BY <1>1, <1>4 DEF TimeInv, SegmentTimed
  <2>3. QED
    BY <1>1, <1>2, <1>3, <2>1, <2>2 DEF SegmentTimed
<1>5. CASE ~in_speech
  <2>1. segment' = segment /\ speech_end' = speech_end /\ trail' = trail
    BY <1>5 DEF EndStream
  <2>2. /\ \A i \in 2 .. Len(segment) : segment[i] = segment[i - 1] + FrameSize
        /\ segment # <<>> => /\ speech_start = segment[1]
                             /\ speech_end = segment[Len(segment)] + FrameSize + trail
    BY <1>1, <1>5 DEF TimeInv, SegmentTimed
  <2>3. QED
    BY <1>1, <1>2, <1>3, <2>1, <2>2 DEF SegmentTimed
<1>6. QED
  BY <1>4, <1>5

\* A stretch of k frames takes k frames' samples: what the ring holds and the last frame
\* returned are at most the window.
LEMMA TimedIsStretch == TimeInv => SegmentIsStretch
<1> SUFFICES ASSUME TimeInv, plain PROVE SegmentIsStretch
  BY DEF SegmentIsStretch
<1>1. /\ \A i \in 2 .. Len(segment) : segment[i] = segment[i - 1] + FrameSize
      /\ segment # <<>> =>
           /\ speech_start = segment[1]
           /\ ~in_speech => speech_end = segment[Len(segment)] + FrameSize + trail
  BY DEF TimeInv, SegmentTimed
<1>2. ASSUME in_speech PROVE stream - segment[Len(segment)] <= Maxlen * FrameSize
  <2>1. /\ ~ended /\ segment # <<>> /\ segment \in Seq(Nat)
        /\ segment[Len(segment)] + FrameSize = queue.qstart_time
        /\ queue.qstart_time + queue.n * FrameSize = stream
    BY <1>2 DEF TimeInv, Inv, TypeOK, SegmentTimed, FramesTimed, Timed
  <2>2. queue.n \in Nat /\ Maxlen \in Nat /\ queue.n + 1 \in Nat /\ queue.n + 1 <= Maxlen
    BY <1>2, EndpointerAssumption DEF TimeInv, Inv, NeverOverflows
  <2>3. /\ (queue.n + 1) * FrameSize <= Maxlen * FrameSize
        /\ (queue.n + 1) * FrameSize = queue.n * FrameSize + FrameSize
        /\ queue.n * FrameSize \in Int
    BY <2>2, MoreFrames, OneMore
  <2>4. PICK a \in Int, b \in Int : a = queue.n * FrameSize /\ b = Maxlen * FrameSize
    BY <2>2, <2>3, EndpointerAssumption
  <2>5. PICK s \in Nat : s = segment[Len(segment)]
    BY <2>1
  <2>6. s + FrameSize + a = stream /\ a + FrameSize <= b /\ FrameSize \in Nat
    BY <2>1, <2>3, <2>4, <2>5, EndpointerAssumption
  <2>7. stream - s <= b
    BY <2>6
  <2>8. QED
    BY <2>4, <2>5, <2>7
<1>3. QED
  BY <1>1, <1>2 DEF SegmentIsStretch

\* The inductive invariant of the times.
LEMMA TimeInvNext == TimeInv /\ [Next]_vars => TimeInv'
<1> SUFFICES ASSUME TimeInv, [Next]_vars PROVE FramesTimed' /\ SegmentTimed'
  BY NextInv DEF TimeInv
<1>1. ASSUME NEW cb \in BOOLEAN, SetTimestampFunc(cb) PROVE FramesTimed' /\ SegmentTimed'
  BY <1>1 DEF SetTimestampFunc, times, TimeInv, FramesTimed, SegmentTimed
<1>2. ASSUME NEW speech \in BOOLEAN, Process(speech) PROVE FramesTimed' /\ SegmentTimed'
  BY <1>2, ProcessTimed
<1>3. ASSUME NEW nsamp \in 0 .. FrameSize, EndStream(nsamp)
      PROVE  FramesTimed' /\ SegmentTimed'
  BY <1>3, EndStreamTimed
<1>4. CASE UNCHANGED vars
  BY <1>4 DEF vars, times, TimeInv, FramesTimed, SegmentTimed
<1>5. QED
  BY <1>1, <1>2, <1>3, <1>4 DEF Next

LEMMA TimeInvInit == Init => TimeInv
<1> SUFFICES ASSUME Init PROVE FramesTimed /\ SegmentTimed
  BY InitInv DEF TimeInv
<1>1. FramesTimed
  <2>1. queue.n = 0 /\ queue.qstart_time = 0 /\ stream = 0 /\ 0 * FrameSize = 0
    BY OneMore DEF Init, EmptyQueue
  <2>2. Timed(queue, stream)
    BY <2>1 DEF Timed
  <2>3. QED
    BY <2>2 DEF Init, FramesTimed
<1>2. SegmentTimed
  BY DEF Init, SegmentTimed
<1>3. QED
  BY <1>1, <1>2

\* What the caller gets of a segment is a stretch of the stream with none left out, at most a
\* window late, and the start and end times reported are those of its samples.
THEOREM SegmentsAreStretches == Spec => []SegmentIsStretch
BY TimeInvInit, TimeInvNext, TimedIsStretch, PTL DEF Spec

\* When every frame of the ring is speech, LeadingSpeech counts them all.
LEMMA AllLead ==
  ASSUME NEW q, q.n \in Nat, \A i \in 0 .. q.n - 1 : SpeechAt(q, i)
  PROVE  LeadingSpeech(q) = q.n
<1>1. {i \in 0 .. q.n - 1 : \A j \in 0 .. i : SpeechAt(q, j)} = 0 .. q.n - 1
  OBVIOUS
<1>2. QED
  BY <1>1, PrefixSize DEF LeadingSpeech

\* A stream that ends in speech is returned to its last sample.
THEOREM SpeechReachesEnd == Spec => AllSpeechReachesEnd
<1> DEFINE Reaches ==
      \A nsamp \in 0 .. FrameSize :
        /\ EndStream(nsamp) /\ plain /\ in_speech
        /\ \A i \in 0 .. queue.n - 1 : SpeechAt(queue, i)
        => segment'[Len(segment')] + FrameSize + trail' = stream'
<1>1. TimeInv /\ [Next]_vars => [Reaches]_vars
  <2> SUFFICES ASSUME TimeInv, NEW nsamp \in 0 .. FrameSize, EndStream(nsamp), plain,
                      in_speech, \A i \in 0 .. queue.n - 1 : SpeechAt(queue, i)
               PROVE  segment'[Len(segment')] + FrameSize + trail' = stream'
    OBVIOUS
  <2>1. ~ended
    BY DEF TimeInv, SegmentTimed
  <2>2. queue.n \in Nat
    BY EndpointerAssumption DEF TimeInv, Inv, TypeOK, Queues
  <2>3. LeadingSpeech(queue) = queue.n
    BY <2>2, AllLead
  <2>4. segment'[Len(segment')] + FrameSize = stream /\ trail' = nsamp
    BY <2>1, <2>3, EndStreamTimes
  <2>5. stream' = stream + nsamp
    BY DEF EndStream
  <2>6. QED
    BY <2>4, <2>5
<1>2. QED
  BY <1>1, TimeInvInit, TimeInvNext, PTL DEF Spec, AllSpeechReachesEnd
============================================================================
