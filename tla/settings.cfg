\* The settings tree, the pickers and the worker they rebind.
SPECIFICATION Spec
CONSTANTS
  Echo = "[1]"
  LimitCap = 2
  Groups = {"fast lane", "slow lane", "context", "memory", "nerd stuff", "working context", "logging"}
  Stored <- MCStored
  Chunks <- MCChunks
  Matching <- MCMatching
  TextCap = 2
  MaxChanges = 2
  MaxOpens = 1
  MaxPending = 0
  Inventory <- MCInventory
  Bytes <- MCBytes
  ClearsFloor = {"mid"}
  Favorites <- MCFavorites
  Named = "mid"
  SlowNamed = "none"
  Flaky = {"openai", "ollama"}
  MaxFlips = 2
  Names = {"tiny"}
  Kinds = {"Settings", "Debug", "Memory", "Pins", "SlowModel"}
  Commands <- MCCommands
  Answers <- MCAnswers
  Reachable <- MCReachable
INVARIANTS
  PersistsWhatItApplies
  WorkerHeardTheRow
  RowShowsBinding
  NothingOverrulesTheChoice
PROPERTIES
  ReturnsWhereItCameFrom
  LanesNotCrossed
  ForgetsWhatItShowed
CHECK_DEADLOCK FALSE
