SPECIFICATION TreeFairSpec
CONSTANTS
  Words = {}
  Body <- NodeType
  Zeros = Zeros
  MaxBufferPages = 12
  PageLimit = 5
  Keys = {1, 2, 3}
  Values = {"short", "long"}
  KeyLen <- KeySizes
  ValueLen <- ValueSizes
  maxKeySize = 1
  maxValueSize = 5
  cellAreaSize = 14
  None = None
  MaxFaults = 1
PROPERTIES
  NoForeignValue
  
  KillDamageIsBounded
  OperationsReturn
VIEW WithoutResult
