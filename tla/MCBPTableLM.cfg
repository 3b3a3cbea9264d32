SPECIFICATION Spec
CONSTANTS
  Words = {"start", "finish", "word", "sil", "noise"}
  StartWord = "start"
  FinishWord = "finish"
  Fillers = {"sil", "noise"}
  RcSize <- MCRcSize
  NPhones = 2
  MaxWpf = 2
  LatSize = 1
  StackPerEntry = 2
  FrameAlloc = 1
  Scores = {1, 2}
  MaxFrames = 3
  MaxEntries = 4
  Tolerated = {}
INVARIANT LMStateFollowsPath
