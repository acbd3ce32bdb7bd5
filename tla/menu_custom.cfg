\* A number typed into a drop-down's custom field.
SPECIFICATION Spec
CONSTANTS
  Echo = "[1]"
  LimitCap = 2
  Groups = {"fast lane", "slow lane", "logging", "nerd stuff"}
  Stored <- MCStored
  Chunks <- MCChunks
  Matching = {}
  TextCap = 1
  MaxChanges = 2
  MaxOpens = 1
  MaxPending = 0
  Inventory <- MCInventory
  Bytes <- MCBytes
  ClearsFloor = {"mid"}
  Favorites <- MCFavorites
  Named = "mid"
  SlowNamed = "none"
  Flaky = {}
  MaxFlips = 0
  Names = {}
  Kinds = {"Settings"}
  Commands = {}
  Answers = {}
  Reachable <- MCReachable
PROPERTIES
  TypedLandsInItsRow
CHECK_DEADLOCK FALSE
