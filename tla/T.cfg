SPECIFICATION Spec
CONSTANTS
  FrameSize = 5
  FrameShift = 2
  L = 7
  Win = 1
  PlWindow = 2
  FirstGrow = 8
  SampleBlocks = {1, 3, 5, 8}
  CepBlocks = {1, 5}
  MaxCeps = 9
  Tolerated = {"cep leadout","not started"}
INVARIANTS
  NeverAborts
  LookaheadKept
  NothingLeftBehind
PROPERTIES
  MainIsServed
  CallsReturn
CHECK_DEADLOCK FALSE
