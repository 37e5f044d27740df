SPECIFICATION MainFairSpec
CONSTANTS
  BlockNumbers = {n1}
  Outcomes <- TwoOutcomes
  NoFile = NoFile
  Torn = Torn
  Stale = Stale
  Unread = Unread
  LeftFiles = {NoFile}
  MaxLeft = 0
  Capacity = 2
  SkipPending = FALSE
  MaxHeads = 4
  EarlyWebhooks = TRUE
  LossyWebhooks = FALSE
INVARIANTS
  TypeOK
  SendNeverBlocks
  ProvedInOrder
  EveryHeadAccounted
  DroppedForNewer
PROPERTIES
  ImplementsPipeline
  MainLoopReturns
  ShutdownCompletes
