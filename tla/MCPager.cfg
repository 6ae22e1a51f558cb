SPECIFICATION PagerSpec
CONSTANTS
  Words <- LeafWords
  Body = {"node"}
  Zeros = "zeros"
  MaxBufferPages = 2
  PageLimit = 4
INVARIANTS
  PagerTypeOK
  FreeListSound
  FileHeaderSound
  CacheCoherent
PROPERTIES
  NoPageLost
  PageStoreSpec
