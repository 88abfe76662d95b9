SPECIFICATION FairSpec
CONSTANTS
  b1 = b1  b2 = b2
  Steps = 2
  Builders = {b1, b2}
  Disruptions = {"api", "infra", "crash", "delete"}
  MaxDisruptions = 2
INVARIANTS TypeOK OneCreator ConfirmedIsBuilt
PROPERTY CreationResumed
CHECK_DEADLOCK FALSE
