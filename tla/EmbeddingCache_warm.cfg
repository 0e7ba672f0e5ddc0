SPECIFICATION Spec
CONSTANTS
  a = a
  b = b
  c = c
  c1 = c1
  c2 = c2
  None = None
  Text = {a, b, c}
  Literal <- MCLiteral
  Cosine <- MCCosine
  EquivalentAt = 192
  ContradictsAt = 70
  BatchSizeIn = 2
  MaxRetries = 2
  Caller = {c1, c2}
  Requests <- MCRequests
  Contents <- MCContents
  Disputed = {}
  MaxCalls = 3
  MaxRevisions = 1
PROPERTIES
  OkMeansCached
  OnlyTheWindowForgets
  VerdictsExtensional
  ExpansionNeverStale
SYMMETRY CallerSymmetry
CHECK_DEADLOCK FALSE
