SPECIFICATION Spec
CONSTANTS
  Characters <- MCCharacters
  Precision = 6
  Places = 2
  Depth = 3
  Documents <- SmallDocuments
  SizeLimit = 67108864
  NoNode = NoNode
INVARIANTS
  ReaderTypeOK
  ReadsWhatIsWritten
  CutLosesOnlyTheEnd
PROPERTY
  Terminates
\* Load returns.
CHECK_DEADLOCK FALSE
