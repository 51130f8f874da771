\* Two requests look the same key up at the same time.
CONSTANTS
  r1 = r1  r2 = r2  k1 = k1
  Task <- Tasks2  Key <- Keys1  Cap = 2
  CacheTtl = 2  LockTtl = 4  SubTimeout = 2  Wait = 1  Delay = 0  Stall = 0
  Prompt = TRUE  SlowDns = FALSE
  Modes <- BlockingOnly
  Disconnects = FALSE  Recancel = FALSE  Faults = FALSE
SPECIFICATION Spec
INVARIANTS OneRunPerKey
