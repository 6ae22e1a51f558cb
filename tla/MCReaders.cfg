SPECIFICATION ReadersSpec
CONSTANTS
  Goroutines = {g1, g2}
  ScanPages = 3
  MaxBufferPages = 3
INVARIANTS
  NoConcurrentMapAccess
