SPECIFICATION FrontSpec
CONSTANTS
    u1 = u1
    founder = founder
    Users <- MCUsers
    Founder = founder
    Funds <- MCFunds
    SeedSol = 3
    InitRTok = 4
    MinReserve = 1
    FeeBps = 0
    MaxFeeBps = 1
    BpsDenom = 3
    MinDeposit = 1
    MaxU64 = 8
    Seeds = {s1, s2}
    NoSeed = NoSeed
    Bytes <- MCBytes
    NumVaults = 1
    RoundSecs = 1
    RecoverAfterSecs = 2
    MaxTime = 2
    Clicks = {c1}
    Typed = {0, 2}
INVARIANTS
    FrontTypeOK
    FreshPageServed
PROPERTIES
    WithdrawalPaysShown
    PageCatchesUp
CHECK_DEADLOCK FALSE
