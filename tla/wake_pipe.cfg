CONSTANTS
  MaxEvents = 5
  PipeCap = 3
  Chunk = 2
  Works = {"Ask", "Watch", "Research", "Ruminate"}
  MaxToggles = 1
SPECIFICATION BarFairSpec
CHECK_DEADLOCK FALSE
INVARIANTS NoLostWakeup HangupLosesNothing WaveTellsTheTruth
PROPERTIES EveryEventHandled BarGoesOut
