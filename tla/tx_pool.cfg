CONSTANTS
    Session = {s1, s2}
    Conn = {c1, c2}
    NoConn = NoConn
    PoolMax = 2
    MaxTries = 4
    LoginCanFail = FALSE
    MaxDeaths = 1
    TxKind = {"plain", "attention", "set", "object", "beginText", "tmBegin", "tmCommit", "tmRollback", "tmRollbackTo", "tmSave", "tmOdd"}
    MaxAsked = 4
    MaxDepth = 2
SPECIFICATION TxSpec
SYMMETRY Alike
INVARIANTS
    TxnStaysHome
    IdleWithoutTxn
    OwnStateAtHand
PROPERTIES
    ImplementsPool
CHECK_DEADLOCK FALSE
