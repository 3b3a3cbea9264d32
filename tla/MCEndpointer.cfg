SPECIFICATION Spec
CONSTANTS
  Maxlen = 4
  StartFrames = 2
  EndFrames = 2
  FrameSize = 2
  MaxTime = 18
  Tolerated = {"callback", "reuse"}
INVARIANTS
  TypeOK
  RingIsSound
  SegmentIsStretch
PROPERTIES
  SegmentsDisjoint
  AllSpeechReachesEnd
