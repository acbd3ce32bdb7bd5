CONSTANTS
  MaxPending = 8
  Shells <- AllShells
  Cmds <- TwoCmds
  NoCmd = "none"
  Spanning <- OneSpan
  SugHistCap = 2
  MaxVends = 2
  MaxKeys = 3
SPECIFICATION Spec
CHECK_DEADLOCK FALSE
PROPERTY ClaimsACleanLine
