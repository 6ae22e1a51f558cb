SPECIFICATION TreeSpecRestart
CONSTANTS
  Words = {}
  Body <- NodeType
  Zeros = Zeros
  MaxBufferPages = 1
  PageLimit = 8
  Keys = {1, 2, 3, 4}
  Values = {"long"}
  KeyLen <- KeySizes
  ValueLen <- ValueSizes
  maxKeySize = 1
  maxValueSize = 5
  cellAreaSize = 14
  None = None
  MaxFaults = 1
PROPERTIES
  KeysSurviveErrors
  RestartKeepsKeys
VIEW WithoutResult
