SPECIFICATION Spec
CONSTANTS
  BlockNumbers = {n1}
  Outcomes <- ProofOutcomes
  NoFile = NoFile
  Torn = Torn
  Stale = Stale
  Unread = Unread
  LeftFiles = {Stale}
  MaxLeft = 1
  Capacity = 2
  SkipPending = TRUE
  MaxHeads = 3
  EarlyWebhooks = TRUE
  LossyWebhooks = TRUE
INVARIANTS
  OnlyLatestKept
  ProofIsOfItsBlock
  NoAbandonedSender
  InputStaysInPlace
PROPERTIES
  ImplementsPipeline
