SPECIFICATION Spec
CONSTANTS
  NNodes = 5
  Word <- MCWord
  Fillers = {"sil"}
  Scores <- MCScores
  Weight <- MCWeight
  Bigram <- MCBigram
  Trigram <- MCTrigram
  Prob <- MCProb
  Beams = {20, 50}
  MaxPaths = 4
  Earlies <- MCEarlies
  MaxLinks = 6
  Tolerated = {}
INVARIANTS
  LinksAgree
  WalksComplete
  BestPathIsBest
  PosteriorsAreShares
  NBestInOrder
