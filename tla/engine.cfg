CONSTANTS
  MaxCalls = 4
  Loads <- AnyThreeOrFourOfResearch
  BackfillCap = 2
  BackfillAbandoned = TRUE
  Prewarm = TRUE
  Stream = TRUE
SPECIFICATION FairSpec
CHECK_DEADLOCK FALSE
INVARIANTS NoRevival NewestAskWins BackfillInOrder OneBackgroundAhead LanesHonest
PROPERTIES KeepsContract EverySettles WorkerExits
