SPECIFICATION GatewaySpec
CONSTANTS
  k1 = k1
  k2 = k2
  k3 = k3
  v1 = v1
  v2 = v2
  t1 = t1
  t2 = t2
  client = client
  localhost = localhost
  None = None
  Key = {k1, k2, k3}
  Value = {v1, v2}
  Equivalence <- NoEquivalence
  Scale = 2
  Task = {t1, t2}
  InitialQuads <- Quads
  Attachable <- NoContracts
  Sovereignties <- NotGoverned
  Baseline = 1
  Tau = 0
  LlmAttached = FALSE
  ConfIn = {1}
  Decays = {2}
  MaxCalls = 4
  MaxSlots = 3
  Environments <- Started
  Requests <- Traffic
  Assignments <- Asked
  Localhost = localhost
  MaxTicks = 1
  MaxCheckpoints = 2
PROPERTIES
  LimitedBeforeAuth
SYMMETRY TaskSymmetry
CHECK_DEADLOCK FALSE
