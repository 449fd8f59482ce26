SPECIFICATION Spec
CONSTANTS
    u1 = u1
    u2 = u2
    founder = founder
    Users <- MCUsers
    Founder = founder
    Funds <- MCFunds
    SeedSol = 3
    InitRTok = 4
    MinReserve = 1
    FeeBps = 1
    MaxFeeBps = 1
    BpsDenom = 3
    MinDeposit = 1
    MaxU64 = 8
    Seeds = {s1, s2}
    NoSeed = NoSeed
    Bytes <- MCBytes
    NumVaults = 2
    RoundSecs = 1
    RecoverAfterSecs = 1
    MaxTime = 2
INVARIANTS
    CreditRoundsDown
CHECK_DEADLOCK FALSE
