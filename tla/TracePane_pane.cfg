\* Both stacks. A pane may go silent, or use up its requests, for ever.
CONSTANTS
  Unknown = Unknown
  Hop <- Hops
  MaxRequests <- Requests  MaxRows <- Rows  MaxQueue = 1
CHECK_DEADLOCK FALSE
SPECIFICATION Spec
INVARIANTS TypeOK DoneShowsTrace ProbedStacksOffered
PROPERTIES OneAtATime SettledForGood ConnectingMovesOn
