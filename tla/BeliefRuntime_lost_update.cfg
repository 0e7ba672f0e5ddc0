SPECIFICATION Spec
CONSTANTS
  k1 = k1
  k2 = k2
  v1 = v1
  v2 = v2
  t1 = t1
  t2 = t2
  None = None
  Key = {k1, k2}
  Value = {v1}
  Equivalence <- NoEquivalence
  Scale = 2
  Task = {t1, t2}
  InitialQuads <- Single
  Attachable <- LastCheckpoint
  Sovereignties <- Open
  Baseline = 1
  Tau = 0
  LlmAttached = TRUE
  ConfIn = {0, 2}
  Decays = {2}
  MaxCalls = 2
  MaxSlots = 2
PROPERTIES
  NoLostUpdate
CHECK_DEADLOCK FALSE
