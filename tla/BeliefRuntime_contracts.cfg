SPECIFICATION Spec
CONSTANTS
  k1 = k1
  k2 = k2
  v1 = v1
  v2 = v2
  t1 = t1
  t2 = t2
  None = None
  Key = {k1, k2}
  Value = {v1, v2}
  Equivalence <- NoEquivalence
  Scale = 2
  Task = {t1, t2}
  InitialQuads <- Both
  Attachable <- Policies
  Sovereignties <- Governed
  Baseline = 1
  Tau = 0
  LlmAttached = TRUE
  ConfIn = {0, 3}
  Decays = {2}
  MaxCalls = 3
  MaxSlots = 2
INVARIANTS
  QuadStaysSound
  WithinTokenLimit
PROPERTIES
  UpdateEnforced
SYMMETRY TaskSymmetry
CHECK_DEADLOCK FALSE
