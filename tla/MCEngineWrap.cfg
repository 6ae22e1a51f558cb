SPECIFICATION EngineSpec
CONSTANTS
  Keys = {1, 2}
  Values = {"a"}
  TTLs = {1, 8}
  Second = 2
  Half = 16
  Forever = Forever
  MaxTime = 4
  MaxFaults = 0
INVARIANTS
  ExpiresOnTime
