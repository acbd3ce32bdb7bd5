CONSTANTS
  one = one
  two = two
  big = big
  small = small
  None = None
  Sessions <- OneSession
  Models <- BothModels
  SlowModels <- JustBig
  MaxBoots = 2
  MaxGens = 1
  MaxChoices = 0
  MaxPending = 3
SPECIFICATION Spec
CHECK_DEADLOCK FALSE
INVARIANT DistrustMeansDeath
