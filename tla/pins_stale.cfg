CONSTANTS
  here = here
  there = there
  tome = tome
  note = note
  None = None
  Paths <- JustHere
  Contents <- TomeAndNote
  Chars <- MCChars
  Lengths <- TextLengths
  FilesMaxChars = 6
  DigestAttempts = 2
  CardAttempts = 1
  CacheKeep = 1
  MaxPins = 1
  MaxEdits = 1
  MaxVerbs = 2
  MaxSessions = 1
SPECIFICATION Spec
CHECK_DEADLOCK FALSE
INVARIANT KeyedOnWhatWasConsumed
