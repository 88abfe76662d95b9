SPECIFICATION Spec
CONSTANTS
  e1 = e1
  R = 1
  Events = {e1}
  EventOf <- OnFirst
  Capacity = 1
  MaxOps = 2
  MaxRounds = 2
  Disruptions = {"refused", "lost", "expire", "interrupt", "crash"}
  MaxDisruptions = 1
INVARIANTS LatestIsSent
CHECK_DEADLOCK FALSE
