SPECIFICATION Spec
CONSTANTS
  Cases <- MCCases
  Sounds <- MCSounds
  WORST_SCORE <- MCWorst
  TMAT_WORST_SCORE <- MCTmatWorst
  Headroom = 24
  Tolerated = {}
INVARIANTS
  AlignmentTiles
  AlignmentIsBest
CHECK_DEADLOCK FALSE
