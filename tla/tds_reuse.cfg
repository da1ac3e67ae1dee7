CONSTANTS
    Session = {s1, s2}
    Conn = {c1}
    NoConn = NoConn
    PoolMax = 1
    MaxTries = 4
    LoginCanFail = TRUE
    MaxDeaths = 1
    Kind = {"plain", "rpc", "set", "state"}
    Cancels = FALSE
    MaxReq = 2
SPECIFICATION FairSpec
INVARIANTS
    OwnAnswersOnly
    NoForeignState
PROPERTIES
    SlotsComeBack
CHECK_DEADLOCK FALSE
