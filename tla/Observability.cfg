SPECIFICATION FairSpec
CONSTANTS
  N = 3
  Disruptions = {"create", "lost", "delete", "store", "crash", "toggle"}
  MaxDisruptions = 2
INVARIANTS TypeOK NoOrphanedChildren IdsAreWhole
PROPERTIES CreationCompletes WholeDeletionCompletes
CHECK_DEADLOCK FALSE
