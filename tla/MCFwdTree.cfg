SPECIFICATION TreeSpec
CONSTANTS
  Words <- MCWords
  StartWord = "<s>"
  FinishWord = "</s>"
  Fillers = {"sil"}
  RcSize <- MCRcSize
  NPhones = 3
  MaxWpf <- MCMaxWpf
  LatSize = 8
  StackPerEntry = 2
  FrameAlloc = 4
  Scores <- MCScores
  MaxFrames = 5
  MaxEntries = 60
  Tolerated = {}
  TMAT_WORST_SCORE <- MCTmatWorst
  Dict <- MCDict
  Pron <- MCPron
  SilWord = "sil"
  Sil = "S"
  CiMap <- MCCiMap
  Ssid <- MCSsid
  LastSsid <- MCLastSsid
  Cases <- MCCases
  Sounds <- MCSounds
  CiPhones <- MCCiPhones
  NBins = 4
  MaxUtts = 2
  MaxFirst = 3
INVARIANTS
  ListsAreActive
  TreeSearchIsFlat
  PenaltiesLookAhead
PROPERTIES
  ExitsFollow
CHECK_DEADLOCK FALSE
