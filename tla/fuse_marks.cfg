CONSTANTS
  one = one
  two = two
  big = big
  small = small
  None = None
  Sessions <- TwoSessions
  Models <- BothModels
  SlowModels <- JustBig
  MaxBoots = 3
  MaxGens = 2
  MaxChoices = 1
  MaxPending = 3
SPECIFICATION Spec
CHECK_DEADLOCK FALSE
INVARIANTS MarkFollowsWorker LastGoodSurvived
PROPERTY NextBootAvoids
