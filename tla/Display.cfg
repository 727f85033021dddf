SPECIFICATION DisplaySpec
CONSTANTS
  QueueLength = 2
  LoopLength = 1
  Inputs <- SomeInputs
INVARIANTS
  DisplayTypeOK
  WaitWatched
  ScreenOfState
  ErrorDismissed
PROPERTY ResetReboots
