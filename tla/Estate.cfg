SPECIFICATION FairSpec
CONSTANTS
    o = o
    n = n
    a = a
    b = b
    k = k
    l = l
    v = v
    u = u
    t = t
    None = None
    MAX_BENEFICIARIES = 2
    MAX_TRACKED_TOKENS = 2
    Accounts = {o, a, b, k, v}
    Tokens = {}
    TOTAL_BPS = 3
    MaxU64 = 7
    Plans <- NativePlans
    DirectOwners = {}
    Deployer = None
    DefaultSettings <- Brief
    Signed <- NativeSigned
    Hostile = {a}
    OwnerInputs = {}
    VaultInputs = {}
    KeyInputs = {}
    WalletInputs = {a}
    ShareInputs = {1}
    SettingInputs = {}
    TokenListInputs = {}
    DepositInputs = {1, 4}
    TokenAmounts = {}
    MaxEther = 5
    MaxSupply = 0
    MaxTime = 4
INVARIANTS
    TypeOK
    Solvent
PROPERTIES
    SilentOwnerIsInherited
    ClaimsConserved
    EvacuationIsFinal
