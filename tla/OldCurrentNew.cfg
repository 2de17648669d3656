CONSTANTS
    None = None
    Writer = {w1}
    Reader = {r1, r2}
    Policy = {"immutable", "mutable"}
    BlockSize = 2
    BlobSize = {1, 2, 3}
    DesiredOldBlocks = 1
    DesiredCurrentBlocks = 1
    DesiredNewBlocks = 2
    InitialBlocks = {0, 4}
    WordSize = 256
    MaxBlocks = 7
SPECIFICATION FairSpec
INVARIANTS
    AllocationSound
PROPERTIES
    PutTerminates
    ImplementsLocationBlobMap
