SPECIFICATION Spec
CONSTANTS
  k1 = k1
  v1 = v1
  v2 = v2
  c1 = c1
  c2 = c2
  s1 = s1
  None = None
  Key = {k1}
  Value = {v1, v2}
  Equivalence <- NoEquivalence
  Scale = 1
  InitialQuad <- OneBelief
  Client = {c1, c2}
  Stream = {s1}
  StoreErrors = TRUE
  MaxRetries = 2
  TickLimit = 2
  MaxTasks = 2
  MaxUpdates = 2
  MaxNow = 1
  MaxRestarts = 2
  Capacity = 1
  Rate = 1
  Grain = 1
INVARIANTS
  TypeOK
  BudgetExact
PROPERTIES
  KeepsPromise
  StreamOrdered
  StreamsEnd
CHECK_DEADLOCK FALSE
