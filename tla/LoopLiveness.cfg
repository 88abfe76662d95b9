SPECIFICATION FairSpec
CONSTANTS
  c1 = c1  c2 = c2  o1 = o1  o2 = o2  m1 = m1  m2 = m2  m3 = m3
  None = None
  Controllers = {c1, c2}
  Objects = {o1}
  Msgs = {m1}
  ObjectOf <- OneObject
  Disruptions = {"crash", "kv", "op", "nats", "sigterm", "lapse", "shutdown"}
  MaxDisruptions = 2
PROPERTIES EveryNotificationSettled ShutdownCompletes
