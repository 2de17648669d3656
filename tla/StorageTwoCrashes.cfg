SPECIFICATION StorageSpec
CONSTANTS
    l1 = l1
    l2 = l2
    Location <- MCLocation
    InitialOffsets <- MCInitialOffsets
    InitialState <- MCInitialState
    Seed = {1, 2, 3}
    Putter = {p1}
    Reader = {}
    BlockSize = 1
    SectorSize = 1
    EpochIDs = 4
    MaxEpochs = 3
    MaxReleases = 1
    MaxPuts = 2
    MaxRestarts = 2
    MayShutDown = FALSE
    CrashKinds = {"process", "system"}
INVARIANTS
    RecordsLeadToTheirData
CHECK_DEADLOCK FALSE
