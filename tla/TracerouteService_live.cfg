\* Every fault and every delay; two requests for one key.
CONSTANTS
  r1 = r1  r2 = r2  k1 = k1
  Task <- Tasks2  Key <- Keys1  Cap = 1
  CacheTtl = 1  LockTtl = 1  SubTimeout = 1  Wait = 1  Delay = 1  Stall = 1
  Prompt = FALSE  SlowDns = TRUE
  Modes <- BothModes
  Disconnects = TRUE  Recancel = TRUE  Faults = TRUE
SPECIFICATION FairSpec
PROPERTIES EveryRequestEnds LocksClear
