CONSTANTS
  here = here
  there = there
  tome = tome
  note = note
  None = None
  Paths <- Both
  Contents <- TomeAndNote
  Chars <- MCChars
  Lengths <- TextLengths
  FilesMaxChars = 6
  DigestAttempts = 2
  CardAttempts = 1
  CacheKeep = 1
  MaxPins = 2
  MaxEdits = 1
  MaxVerbs = 3
  MaxSessions = 2
SPECIFICATION FairSpec
CHECK_DEADLOCK FALSE
INVARIANTS CookingIsComing ResultsFindTheirPin TextsAreOfTheirPin
PROPERTY MeterGoesOut
