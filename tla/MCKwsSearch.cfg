SPECIFICATION Spec
CONSTANTS
  WORST_SCORE <- MCWorst
  TMAT_WORST_SCORE <- MCTmatWorst
  Cases <- MCCases
  Sounds <- MCSounds
  CiPhones = {"A", "B"}
  KWS_MAX = 1
  MaxFrames = 8
  MaxUtts = 2
  Tolerated = {}
INVARIANTS
  DetectionsAreDue
  DetectionsDisjoint
PROPERTIES
  HypothesisStays
