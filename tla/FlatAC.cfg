CONSTANTS
    None = None
    Client = {c1, c2}
    Key = {"action"}
    Contents <- MCActionContents
    Slices <- MCActionSlices
    Uploads = {"action"}
    Queries <- MCActionQueries
    UpdatesReplace = TRUE
    BlockSize = 2
    DesiredOldBlocks = 1
    DesiredOtherBlocks = 1
    MaxBlocks = 4
    MaxCorruptions = 0
SPECIFICATION FairSpec
INVARIANTS
    UpdatesPersist
