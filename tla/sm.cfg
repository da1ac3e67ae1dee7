CONSTANTS
    Steps = 3
    MaxRestarts = 2
    MaxFaults = 2
    MaxLate = 1
SPECIFICATION Spec
INVARIANTS
    SuccessIsComplete
    CheckpointIsTrue
    RepeatsHaveCauses
PROPERTIES
    TerminalIsFinal
    StopTakesEffect
    ShutdownIsNoFailure
CHECK_DEADLOCK FALSE
