SPECIFICATION Spec
CONSTANTS
  k1 = k1
  k2 = k2
  v1 = v1
  v2 = v2
  None = None
  Key = {k1, k2}
  Value = {v1, v2}
  Equivalence <- NoEquivalence
  Scale = 2
  Flusher = {w1, w2}
  InitialQuads <- MCQuads
  Inserted <- MCInserted
  Policies <- MCPolicies
  LoadPolicy <- MCLoadPolicy
  DecayIn = {1, 2}
  Schema = {k1, k2}
  Second = 2
  SessionTtl = 1
  MaxClock = 2
  MaxOps = 3
INVARIANTS
  PrefixWritten
  LoadedWithinRetention
PROPERTIES
  ErasedForGood
  LostSupportIsReported
SYMMETRY Flushers
CHECK_DEADLOCK FALSE
