CONSTANTS
    Session = {s1, s2, s3}
    Conn = {c1, c2}
    NoConn = NoConn
    PoolMax = 2
    MaxTries = 4
    LoginCanFail = FALSE
    MaxDeaths = 0
    Kind = {"set"}
    Cancels = TRUE
    MaxReq = 1
SPECIFICATION Spec
SYMMETRY Alike
INVARIANTS
    TypeOK
    SlotsConserved
    OneUserPerBackend
CHECK_DEADLOCK FALSE
