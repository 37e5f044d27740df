SPECIFICATION Spec
CONSTANTS
  Short = Short
  Long = Long
  Values = {Short, Long}
  ValueSize <- MCValueSize
  DigestSize = 5
  Keys <- MCKeys
  KeyLength = 3
  Starts <- MCStarts
  PruneInlined = FALSE
INVARIANTS
  OkMeansResolved
