SPECIFICATION Spec
CONSTANTS
  w1 = w1  w2 = w2  r1 = r1  r2 = r2  r3 = r3  r4 = r4
  None = None
  Workers = {w1, w2}
  Requests = {r1, r2, r3}
  Disruptions = {"publish", "api", "op", "crash", "nats"}
  MaxDisruptions = 1
INVARIANTS TypeOK NoLeftovers Converged
PROPERTY ImplementsContract
CHECK_DEADLOCK FALSE
