SPECIFICATION Spec
CONSTANTS
  event1 = event1
  event2 = event2
  event3 = event3
  event4 = event4
  event5 = event5
  event6 = event6
  Events = {event1, event2, event3}
  Genesis = Genesis
  Garbage = Garbage
  RotateAt = 2
  MaxFailures = 0
INVARIANT
  NoFalseAlarm
CHECK_DEADLOCK FALSE
