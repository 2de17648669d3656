SPECIFICATION FairStorageSpec
CONSTANTS
    l1 = l1
    l2 = l2
    Location <- MCSingleLocation
    InitialOffsets <- MCSingleOffset
    InitialState <- MCInitialState
    Seed = {1, 2, 3}
    Putter = {p1}
    Reader = {}
    BlockSize = 2
    SectorSize = 1
    EpochIDs = 4
    MaxEpochs = 3
    MaxReleases = 1
    MaxPuts = 2
    MaxRestarts = 0
    MayShutDown = TRUE
    CrashKinds = {}
INVARIANTS
    ShutdownLosesNothing
PROPERTIES
    SyncerProgress
CHECK_DEADLOCK FALSE
