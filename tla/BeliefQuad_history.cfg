SPECIFICATION Spec
CONSTANTS
  k1 = k1
  k2 = k2
  v1 = v1
  v2 = v2
  v3 = v3
  None = None
  Key = {k1, k2}
  Value = {v1, v2}
  Equivalence <- NoEquivalence
  Scale = 2
  ConfIn = {1}
  MaxSlots = 2
  MaxVersion = 3
  MaxEdges = 1
  MaxIndexed = 1
  MaxSlow = 0
  MaxPremises = 1
  MaxCheckpoints = 2
  Calls = {"insert", "remove", "revise", "add_causal_edge", "index", "checkpoint", "rollback", "clear_checkpoints"}
INVARIANTS
  AllProjectionsAgree
  VersionNamesContent
  OnlyUndoneIdsAlias
PROPERTIES
  ScenariosGoWithTheValue
VIEW Relevant
SYMMETRY KeyValueSymmetry
CHECK_DEADLOCK FALSE
