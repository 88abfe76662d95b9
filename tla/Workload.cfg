SPECIFICATION FairSpec
CONSTANTS
  K = 1
  MaxRuns = 2
  Disruptions = {"kube", "api", "gateway", "crash"}
  MaxDisruptions = 1
INVARIANTS TypeOK CreatedIsComplete LeftoversBounded GatewayApplied
PROPERTIES RouteRemoved DeletionCompletes
CHECK_DEADLOCK FALSE
