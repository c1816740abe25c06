SPECIFICATION Spec
CONSTANTS
  Characters <- MCCharacters
  Precision = 6
  Places = 2
  Depth = 3
  Documents <- LargeDocuments
  SizeLimit = 67108864
  NoNode = NoNode
INVARIANTS
  SameTextAgain
\* Load returns.
CHECK_DEADLOCK FALSE
