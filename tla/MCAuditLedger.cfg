SPECIFICATION Spec
CONSTANTS
  event1 = event1
  event2 = event2
  event3 = event3
  event4 = event4
  event5 = event5
  event6 = event6
  Events = {event1, event2, event3, event4, event5, event6}
  Genesis = Genesis
  Garbage = Garbage
  RotateAt = 3
  MaxFailures = 2
INVARIANTS
  MemoryVerifies
  MemoryKnowsFile
  AcknowledgedIsDurable
PROPERTIES
  ImplementsAppendOnlyLog
SYMMETRY EventSymmetry
CHECK_DEADLOCK FALSE
