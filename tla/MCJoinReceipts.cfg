SPECIFICATION Spec
CONSTANT MaxSegments = 17
INVARIANTS
  TypeOK
  FinalCoversExecution
  JoinsFit
  EachReceiptOnce
