SPECIFICATION Spec
CONSTANTS
    Run = {r1}
    FastRotation = FALSE
    Undated = {2}
    Inode = {1, 2, 3}
    MaxBackups = 1
    SegMax = 2
    MaxRecords = 5
    MaxFiles = 5
    MaxFaults = 1
INVARIANTS
    ChainLinked
    InOrder
    NoSilentGap
    OffsiteAgrees
PROPERTIES
    ShipsAll
