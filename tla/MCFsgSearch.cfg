SPECIFICATION Spec
CONSTANTS
  NStates = 4
  SilWord = "<sil>"
  Fillers <- MCFillers
  Alts <- MCAlts
  NPhones = 3
  Sil = 0
  Pron <- MCPron
  CiSsid <- MCCiSsid
  Ssid <- MCSsid
  WORST_SCORE <- MCWorst
  TMAT_WORST_SCORE <- MCTmatWorst
  Cases <- MCCases
  Sounds <- MCSounds
  MaxFrames = 5
  MaxUtts = 2
  Tolerated = {}
INVARIANTS
  BestArrivalKept
  PathsFollowGrammar
  ActiveAreListed
  SearchIsFlat
CHECK_DEADLOCK FALSE
