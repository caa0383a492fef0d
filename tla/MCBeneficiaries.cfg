SPECIFICATION Spec
CONSTANTS
    a = a
    b = b
    c = c
    d = d
    Accounts = {a, b, c, d}
    None = None
    Tokens = {}
    TOTAL_BPS = 4
    MAX_BENEFICIARIES = 3
    MAX_TRACKED_TOKENS = 0
    MaxU64 = 1
    ShareInputs <- MCShareInputs
    Lists <- MCLists
INVARIANTS
    TypeOK
    RegistryCoherent
PROPERTY
    ImplementsAllocation
