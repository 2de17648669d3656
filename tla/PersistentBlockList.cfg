SPECIFICATION Spec
CONSTANTS
    Location = {l1, l2, l3}
    s = s
    Seed <- MCSeed
    InitialState <- MCInitialState
    BlockSize = 1
    EpochIDs = 4
    MaxEpochs = 3
    MaxReleases = 2
SYMMETRY LocationSymmetry
INVARIANTS
    BookkeepingConsistent
    StateRestoresEpochs
PROPERTIES
    ReferencesStable
    PutGetsUsableReference
