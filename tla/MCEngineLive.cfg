SPECIFICATION EngineSpec
CONSTANTS
    FeeBps = 2500
    BpsDenominator = 10000
    Wallets = {w1}
    Signatures = {d1}
    DepositAmounts = {4}
    WithdrawalAmounts = {4}
    Genesis <- MCGenesis
    GraduationLamports = 6
    Requests = {r1, r2}
    Readers = {v1}
    Nobody = Nobody
PROPERTIES
    RequestsEnd
CHECK_DEADLOCK FALSE
