SPECIFICATION Spec
CONSTANTS
    Run = {r1}
    FastRotation = FALSE
    Undated = {}
    Inode = {1}
    MaxBackups = 1
    SegMax = 2
    MaxRecords = 2
    MaxFiles = 1
    MaxFaults = 1
PROPERTIES
    OffsiteCatchesUp
