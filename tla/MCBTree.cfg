SPECIFICATION TreeSpec
CONSTANTS
  Words = {}
  Body <- NodeType
  Zeros = Zeros
  MaxBufferPages = 3
  PageLimit = 12
  Keys = {0, 1, 2, 3, 4, 5}
  Values = {"short"}
  KeyLen <- KeySizes
  ValueLen <- ValueSizes
  maxKeySize = 1
  maxValueSize = 1
  cellAreaSize = 14
  None = None
  MaxFaults = 0
INVARIANTS
  TreeTypeOK
  NoOrphanPages
  Balanced
  ChainMatchesTree
  FileHoldsAcknowledged
PROPERTIES
  KVMapSpec
