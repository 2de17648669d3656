SPECIFICATION Spec
CONSTANTS
  EvictionPolicy = "RR"
  Calls = {c1, c2}
  Digests = {d1, d2}
  NoCaller = NoCaller
  Permits = 1
  ExistenceCacheSize = 2
  ExistenceCacheDuration = 1
  MaxNow = 1
  MaxFaults = 1
  MaxRoutines = 3
  MaxFailing = 1
  Streams = {s1, s2}
  MaximumCoders = 1
  NoCoder = 0
  AuthCalls = {a1, a2}
  AuthRequests = {k1, k2}
  MaximumAuthCacheSize = 1
  MaxAuthTime = 2
  MaxAuthFaults = 1
  MaxPolicyChanges = 1
  MaxConsumers = 3
  Chunks = 1
  ChunkSizes = {1, 2}
INVARIANTS
  CallsReplicate
  DependenciesOutliveSiblings
  CodersExclusive
  VerdictsSound
  ClonesInLockstep
PROPERTY ServicesProgress
CHECK_DEADLOCK FALSE
