SPECIFICATION FactorySpec
CONSTANTS
    o = o
    n = n
    k = k
    v = v
    None = None
    Accounts = {o, n, k, v}
    Tokens = {}
    TOTAL_BPS = 2
    MAX_BENEFICIARIES = 2
    MAX_TRACKED_TOKENS = 1
    MaxU64 = 3
    Configs <- MCConfigs
    Signatures <- MCSignatures
    MaxTime = 3
INVARIANTS
    RegistryExact
    CreatedAsSigned
