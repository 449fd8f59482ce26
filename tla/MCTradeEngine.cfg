SPECIFICATION EngineSafety
CONSTANTS
    FeeBps = 2500
    BpsDenominator = 10000
    Wallets = {w1, w2}
    Signatures = {d1, d2}
    DepositAmounts = {4}
    WithdrawalAmounts = {2}
    Genesis <- MCGenesis
    GraduationLamports = 6
    Requests = {r1, r2}
    Readers = {}
    Nobody = Nobody
SYMMETRY MCSymmetry
INVARIANTS
    EngineTypeOK
    SolAccounted
    TokensAccounted
    QuotesPayable
    SoldOutIsClosed
    WaitsAreShort
PROPERTIES
    ImplementsLedger
    ClosedOnceComplete
    CurveCachedInOrder
CHECK_DEADLOCK FALSE
