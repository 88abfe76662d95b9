SPECIFICATION FairSpec
CONSTANTS
  e1 = e1
  R = 1
  Events = {e1}
  EventOf <- OnFirst
  Capacity = 1
  MaxOps = 2
  MaxRounds = 2
  Disruptions = {"refused", "lost", "expire", "interrupt", "crash"}
  MaxDisruptions = 1
INVARIANTS TypeOK LatestUnlessRetried EventsConserved FlushedBeforeExit
PROPERTIES EventsArrive OperationsArrive InterruptEnds
CHECK_DEADLOCK FALSE
