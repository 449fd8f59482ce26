SPECIFICATION EngineSafety
CONSTANTS
    FeeBps = 2500
    BpsDenominator = 10000
    Wallets = {w1}
    Signatures = {d1, d2}
    DepositAmounts = {4}
    WithdrawalAmounts = {2}
    Genesis <- MCGenesis
    GraduationLamports = 6
    Requests = {r1, r2}
    Readers = {}
    Nobody = Nobody
SYMMETRY MCSymmetry
INVARIANTS
    CurveCacheFollowsCommit
CHECK_DEADLOCK FALSE
