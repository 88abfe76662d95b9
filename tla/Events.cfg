SPECIFICATION Spec
CONSTANTS
  e1 = e1  e2 = e2  e3 = e3  e4 = e4
  None = None
  Calls = {e1, e2, e3, e4}
  MaxDisruptions = 3
INVARIANTS TypeOK OneEventUnlessOverlapped CountsOccurrences CreatesAllOrNothing
PROPERTY ImplementsStacks
CHECK_DEADLOCK FALSE
