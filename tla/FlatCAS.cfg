CONSTANTS
    None = None
    Client = {c1, c2}
    Key = {"archive", "file"}
    Contents <- MCArchiveContents
    Slices <- MCArchiveSlices
    Uploads = {"archive"}
    Queries <- MCQueries
    UpdatesReplace = FALSE
    BlockSize = 2
    DesiredOldBlocks = 1
    DesiredOtherBlocks = 1
    MaxBlocks = 3
    MaxCorruptions = 1
SPECIFICATION FairSpec
INVARIANTS
    EntriesConsistent
    PresentBlobsRefreshed
PROPERTIES
    OperationsTerminate
