CONSTANTS
    Sink = {s1, s2}
    KeyOf <- TwoAndOne
    Deletes = {}
    Poison = {2}
    Guarded = TRUE
    DlqReliable = TRUE
    BatchMax = 3
    StableUpTo = 12
    MaxDeliver = 2
    TransientMax = 4
    MaxFaults = 2
    MaxOutages = 1
SPECIFICATION Spec
INVARIANTS
    NoSilentLoss
    OnlyBadRowsParked
    LastImageWins
PROPERTIES
    EveryEventSettles
CHECK_DEADLOCK FALSE
