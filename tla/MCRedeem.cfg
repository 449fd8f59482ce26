SPECIFICATION SpecNoGift
CONSTANTS
    u1 = u1
    u2 = u2
    founder = founder
    Users <- MCOneUser
    Founder = founder
    Funds <- MCOneUserFunds
    SeedSol = 3
    InitRTok = 4
    MinReserve = 1
    FeeBps = 1
    MaxFeeBps = 1
    BpsDenom = 3
    MinDeposit = 1
    MaxU64 = 8
    Seeds = {s1, s2, s3}
    NoSeed = NoSeed
    Bytes <- MCBytes
    NumVaults = 2
    RoundSecs = 1
    RecoverAfterSecs = 1
    MaxTime = 3
INVARIANTS
    SharesRedeemable
CHECK_DEADLOCK FALSE
