SPECIFICATION FairSpec
CONSTANTS
  BlockNumbers = {n1}
  Outcomes <- TwoOutcomes
  NoFile = NoFile
  Torn = Torn
  Stale = Stale
  Unread = Unread
  LeftFiles = {NoFile}
  MaxLeft = 0
  Capacity = 1
  SkipPending = FALSE
  MaxHeads = 1
  EarlyWebhooks = TRUE
  LossyWebhooks = FALSE
PROPERTIES
  RegisteredResultArrives
