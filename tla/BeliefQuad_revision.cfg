SPECIFICATION Spec
CONSTANTS
  k1 = k1
  k2 = k2
  v1 = v1
  v2 = v2
  v3 = v3
  None = None
  Key = {k1}
  Value = {v1, v2}
  Equivalence <- TwoEquivalent
  Scale = 2
  ConfIn = {3}
  MaxSlots = 3
  MaxVersion = 4
  MaxEdges = 2
  MaxIndexed = 0
  MaxSlow = 1
  MaxPremises = 2
  MaxCheckpoints = 0
  Calls = {"insert", "remove", "revise", "add_causal_edge", "add_semantic_edge", "add_other_edge", "get_mut", "provider"}
INVARIANTS
  TypeOK
PROPERTIES
  CoreRetainment
  SupportBroken
VIEW Relevant
SYMMETRY ValueSymmetry
CHECK_DEADLOCK FALSE
