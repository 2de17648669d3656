SPECIFICATION StorageSpec
CONSTANTS
    l1 = l1
    l2 = l2
    Location <- MCLocation
    InitialOffsets <- MCInitialOffsets
    InitialState <- MCInitialState
    Seed = {1, 2, 3}
    Putter = {p1, p2}
    Reader = {r1}
    BlockSize = 2
    SectorSize = 2
    EpochIDs = 4
    MaxEpochs = 3
    MaxReleases = 1
    MaxPuts = 2
    MaxRestarts = 1
    MayShutDown = FALSE
    CrashKinds = {"process", "system"}
INVARIANTS
    RecordsLeadToTheirData
    SpaceAccountedFor
    ReadersUndisturbed
CHECK_DEADLOCK FALSE
