SPECIFICATION Spec
CONSTANTS
  k1 = k1
  v1 = v1
  None = None
  Key = {k1}
  Value = {v1}
  Equivalence = {}
  Scale = 4
  MaxBeliefs = 3
  MaxEdges = 2
  MaxPremises = 2
  MaxVersion = 4
  ConfIn = {1, 3}
  Decays = {2}
INVARIANTS
  TypeOK
  SupportLossNeverStrengthens
  Converges
CHECK_DEADLOCK FALSE
