SPECIFICATION KeeperSpec
CONSTANTS
    Seeds = {s1, s2}
    NoSeed = NoSeed
    Bytes <- MCBytes
    NumVaults = 2
    RoundSecs = 1
    RecoverAfterSecs = 1
    MaxTime = 4
    Keepers = {k1, k2}
    MaxSkew = 1
    MaxInFlight = 1
INVARIANTS
    KeeperTypeOK
PROPERTIES
    PendingEnds
    RoundsKeepComing
CHECK_DEADLOCK FALSE
