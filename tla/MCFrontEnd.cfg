SPECIFICATION Spec
CONSTANTS
  FrameSize = 5
  FrameShift = 2
  MaxSamples = 30
  MaxFrames = 4
INVARIANTS
  TypeOK
  FramesIgnoreBlocks
  NothingLost
  CallsAdvance
