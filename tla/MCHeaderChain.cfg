SPECIFICATION Spec
CONSTANTS
  Headers <- MCHeaders
  Hashes <- MCHashes
  Number <- MCNumber
  ParentHash <- MCParent
  Hash <- MCHash
  NoHeader = NoHeader
  MaxNumber = 3
  MaxAncestors = 3
INVARIANTS
  TypeOK
  ParentIsFirstAncestor
  AnswersAreAncestors
  EveryAncestorAnswered
  AcceptedIffConnected
