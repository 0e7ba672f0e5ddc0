SPECIFICATION Spec
CONSTANTS
  p1 = p1
  p2 = p2
  e1 = e1
  e2 = e2
  None = None
  Emitter = {p1, p2}
  Entry = {e1, e2}
  MaxEntries = 5
  MaxSealed = 2
  MaxEdits = 2
SYMMETRY Symmetry
INVARIANTS
  ChainSound
  EntriesProvable
  DispatchedWasSealed
  ReceiptMeansUnchanged
  UneditedVerifies
CHECK_DEADLOCK FALSE
