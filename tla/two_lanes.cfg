CONSTANTS
  ls = ls
  cp = cp
  NoCmd = NoCmd
  Cmds <- TwoCmds
  Commentary = TRUE
  SugHistCap = 2
  MaxActs = 3
  Plans <- AnyTwoOrChatAhead
SPECIFICATION Spec
CHECK_DEADLOCK FALSE
INVARIANTS ShotIsForTheLastAct SupersededIsDoomed FindingsComeHome WordsOfTheirTurn
PROPERTIES LineageStill CommentaryYields
SYMMETRY Symmetry
