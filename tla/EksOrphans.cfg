SPECIFICATION Spec
CONSTANTS
  b1 = b1  b2 = b2
  Steps = 2
  Builders = {b1, b2}
  Disruptions = {"delete"}
  MaxDisruptions = 1
INVARIANT NoOrphans
CHECK_DEADLOCK FALSE
