SPECIFICATION Spec
CONSTANTS
  Socket <- TwoSockets
  Limit = 3
  MaxClose = 1
  MaxEvents = 2
INVARIANTS
  UnauthenticatedWatched
  EntriesCurrent
PROPERTY UnauthenticatedClosed
