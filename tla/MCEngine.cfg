SPECIFICATION EngineSpecRestart
CONSTANTS
  Keys = {1, 2}
  Values = {"a", "b"}
  TTLs = {0, 1}
  Second = 2
  Half = 16
  Forever = Forever
  MaxTime = 4
  MaxFaults = 2
INVARIANTS
  EngineTypeOK
  TtlsHaveKeys
  NoResurrection
  ReadsRecentWrite
  ExpiresOnTime
PROPERTIES
  TTLMapSpec
VIEW WithoutResult
