SPECIFICATION Spec
CONSTANTS
    Key = {k1, k2, k3}
    None = None
    Slot = {s1, s2}
    Offset = {0}
    MaximumGetAttempts = 3
    MaximumPutAttempts = 9
    MaxBlocks = 3
    MaxReleases = 2
SYMMETRY MCSymmetry
INVARIANTS
    TableConsistent
PROPERTIES
    ImplementsKeyLocationMap
