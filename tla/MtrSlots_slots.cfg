\* Three coroutines, two slots: a slot can be free while a woken waiter has not run.
CONSTANTS
  t1 = t1
  t2 = t2
  t3 = t3
  Task <- Tasks3
  Cap = 2
  Bounded = TRUE
  Recancel = TRUE
SPECIFICATION FairSpec
INVARIANTS TypeOK SlotAccounting NoLostWakeup StreamProcessHeld
PROPERTIES ImplementsSlotPool WaitersAnswered HoldersMoveOn
