\* A cancellation delivered once is enough to lose a slot.
CONSTANTS
  t1 = t1
  t2 = t2
  t3 = t3
  Task <- Tasks2
  Cap = 1
  Bounded = TRUE
  Recancel = FALSE
SPECIFICATION Spec
INVARIANTS NoSlotLeaks
