SPECIFICATION RoundSpec
CONSTANTS
    Seeds = {s1, s2, s3}
    NoSeed = NoSeed
    Bytes <- MCBytes
    NumVaults = 2
    RoundSecs = 2
    RecoverAfterSecs = 1
    MaxTime = 7
INVARIANTS
    RoundTypeOK
    SeedUsedOnce
    SettledByItsOwnDraw
    RoundsSpaced
PROPERTIES
    PublicOutcomeNeverPlayed
CHECK_DEADLOCK FALSE
