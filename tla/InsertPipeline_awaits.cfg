SPECIFICATION Spec
CONSTANTS
  k1 = k1
  k2 = k2
  v1 = v1
  v2 = v2
  x = x
  y = y
  None = None
  Key = {k1, k2}
  Value = {v1, v2}
  Equivalence <- NoEquivalence
  Scale = 2
  Divergence <- MCDivergence
  Surprise <- MCSurprise
  Refill = 3
  Budget = 1
  CapacityIn = 0
  CapacityMin = 1
  CapacityMax = 4
  Task = {t1, t2}
  Topic = {x, y}
  Similarity <- MCSimilarity
  Generated <- MCGenerated
  InitialQuads <- MCQuads
  Inserted <- MCInserted
  ConfIn = {2}
  Prospected = {k1}
  Query <- MCQuery
  Perishable = {k1}
  Budgets = {99, 250}
  Standings <- MCStandings
  MaxInserts = 2
  MaxChanges = 2
INVARIANTS
  RetrievalRanked
  SignalsAboutThePast
  CreditIsRecentExcess
PROPERTIES
  StaleOnlyByLateStore
CHECK_DEADLOCK FALSE
