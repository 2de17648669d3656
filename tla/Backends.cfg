SPECIFICATION Spec
CONSTANTS
  None = None
  HashLength <- MCHashLength
  Hexadecimal <- MCHexadecimal
  ParseInt <- MCParseInt
  DigestOrder <- MCDigestOrder
  Scramble <- MCScramble
  IsPrime <- MCIsPrime
  HashServer <- MCHashServer
  LogFixed <- MCLogFixed
  Configs <- MCConfigs
  Contents <- MCContents
  LeafNames = {"l1", "l2", "l3"}
  MaxNow = 4
  EvictionPolicy = "LRU"
  Requests = {p1, p2}
  InstanceNames = {i1, i2, i3}
  MaximumCacheSize = 1
  MaximumCacheDuration = 1
  MaxTime = 2
  Workers = {p1, p2, p3}
  Objects <- MCObjects
  Roots = {"action", "tree"}
  MaxFailures = 2
  Writers = {p1, p2, p3}
  Files <- MCFiles
  MaxWriteErrors = 1
  Users = {c1, c2}
  CASInstanceNames <- MCCASInstanceNames
  CASObjects = {"x"}
  CanonicalName = CanonicalName
  NoLocation = NoLocation
  OldBlocks = 1
  MaxBlocks = 2
  BlockWriters = {p1, p2, p3}
  ObjectSizes = {0, 1, 3, 5}
  SectorSize = 3
  BlockSectors = 3
  NoSector = NoSector
  MaxDeviceErrors = 1
  Tokens <- MCTokens
  HeaderLists <- MCHeaderLists
  KeySetFiles <- MCKeySetFiles
  TokenCallers = {c1, c2}
  MaximumTokenCacheSize = 1
  MaxTokenTime = 1
  Tabs = {c1, c2}
  Pages = {page1, page2}
  MaxOIDCTime = 1
  MaxLogins = 2
  MaxClaims = 2
  DefaultExpiration = 1
INVARIANTS
  FoundBlobsReadable
  DigestsIndependent
  
  ActionResultsComplete
  CanariesConclude
  NestedObjectsReplicated
  StoredFilesReadable
  
  WrittenObjectsOnDevice
  TokensCurrent
PROPERTY SessionsCurrent
CHECK_DEADLOCK FALSE
