\* The end of a trace is the end of its behaviour.
CONSTANTS
  a1 = a1  a2 = a2  None = None
  Pos <- Hops  Addr <- Addrs
  MaxProbes = 3
SPECIFICATION Spec
INVARIANTS TypeOK RowsCurrent AnsweredHopsExact EveryProbedHopListed
SYMMETRY SymAddr
CHECK_DEADLOCK FALSE
