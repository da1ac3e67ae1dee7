CONSTANTS
    W = 65536
    Site = {"a", "b"}
    Key = {"k"}
    Edge <- PairEdges
    Engine <- AllMysql
    Rank <- PairRank
    SerialDeletes = TRUE
    MaxClock = 1
    MaxWrites = 1
    MaxDeletes = 1
    MaxRedeliver = 0
SPECIFICATION Spec
INVARIANTS
    ConvergedWhenQuiet
CHECK_DEADLOCK FALSE
