CONSTANTS
    Consumer = {"c1", "c2"}
    Group = {"g"}
    Dedup = {"d"}
    MaxReceive = 1
    BatchMax = 2
    LateExtend = TRUE
    MaxSend = 2
    MaxCount = 2
    MaxExtend = 1
SPECIFICATION Spec
INVARIANTS
    NoMessageLost
PROPERTIES
    GroupInOrder
    LatestHolderDeletes
    InFlightIsExclusive
    NothingStays
CHECK_DEADLOCK FALSE
