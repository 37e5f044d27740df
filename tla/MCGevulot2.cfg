SPECIFICATION Spec
CONSTANTS
  BlockNumbers = {1, 2}
  Interval = 2
  MaxHeads = 2
  MaxRetries = 3
INVARIANTS
  TypeOK
  ProofIsOfItsBlock
PROPERTIES
  LoopReturns
  ReportSettles
