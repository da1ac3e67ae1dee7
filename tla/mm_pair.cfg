CONSTANTS
    W = 65536
    Site = {"a", "b"}
    Key = {"k"}
    Edge <- PairEdges
    Engine <- AllPostgres
    Rank <- PairRank
    SerialDeletes = TRUE
    MaxClock = 2
    MaxWrites = 3
    MaxDeletes = 1
    MaxRedeliver = 1
SPECIFICATION Spec
INVARIANTS
    TypeOK
    UniqueStamps
    ClockCondition
    ConvergedWhenQuiet
PROPERTIES
    ClockNeverFallsBack
    RowsOnlyAdvance
CHECK_DEADLOCK FALSE
