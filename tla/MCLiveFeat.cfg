SPECIFICATION Spec
CONSTANTS
  L = 9
  Win = 2
  Blocks = {0, 1, 2, 3, 5, 7, 12}
  MaxFrames = 17
  Tolerated = {}
INVARIANTS
  LiveAgreesWithBatch
  BlockContract
