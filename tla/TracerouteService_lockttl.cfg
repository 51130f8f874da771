\* Every fault and every delay, any arrivals: LockTtl is one more than Longest,
\* 2*Stall + Wait + SubTimeout + 2*Delay = 4, and CacheTtl than Stall + Delay.
CONSTANTS
  r1 = r1  r2 = r2  k1 = k1
  Task <- Tasks2  Key <- Keys1  Cap = 1
  CacheTtl = 2  LockTtl = 5  SubTimeout = 1  Wait = 1  Delay = 0  Stall = 1
  Prompt = FALSE  SlowDns = TRUE
  Modes <- BothModes
  Disconnects = TRUE  Recancel = TRUE  Faults = TRUE
SPECIFICATION Spec
INVARIANTS TypeOK SlotsHeldByTraces OneRunUntilSlip StoredBeforeUnlocked
PROPERTIES ExpiryNeedsDelay RunsUnlock
SYMMETRY Sym2
