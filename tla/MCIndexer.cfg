SPECIFICATION IndexerSpec
CONSTANTS
    Seeds = {s1, s2}
    NoSeed = NoSeed
    Bytes <- MCBytes
    NumVaults = 2
    RoundSecs = 1
    RecoverAfterSecs = 1
    MaxTime = 3
INVARIANTS
    IndexerTypeOK
    RowsAreSettledRounds
PROPERTIES
    RecordedUnlessOvertaken
    SnapshotsCatchUp
CHECK_DEADLOCK FALSE
