\* Valkey stops after the first request has connected.
CONSTANTS
  r1 = r1  r2 = r2  k1 = k1
  Task <- Tasks2  Key <- Keys1  Cap = 2
  CacheTtl = 2  LockTtl = 4  SubTimeout = 2  Wait = 1  Delay = 0  Stall = 0
  Prompt = TRUE  SlowDns = FALSE
  Modes <- BothModes
  Disconnects = FALSE  Recancel = FALSE  Faults = TRUE
SPECIFICATION Spec
INVARIANTS FallsBack
