CONSTANTS
    W = 65536
    Site = {"a", "b", "c"}
    Key = {"k"}
    Edge <- MeshEdges
    Engine <- Mixed
    Rank <- TripleRank
    SerialDeletes = TRUE
    MaxClock = 2
    MaxWrites = 2
    MaxDeletes = 0
    MaxRedeliver = 1
SPECIFICATION FairSpec
PROPERTIES
    EchoesDie
CHECK_DEADLOCK FALSE
