SPECIFICATION Spec
CONSTANTS
    o = o
    n = n
    a = a
    b = b
    k = k
    l = l
    v = v
    u = u
    t = t
    None = None
    MAX_BENEFICIARIES = 2
    MAX_TRACKED_TOKENS = 2
    Accounts = {o, n, a, b, k, v}
    Tokens = {t}
    TOTAL_BPS = 3
    MaxU64 = 7
    Plans <- TokenPlans
    DirectOwners = {}
    Deployer = None
    DefaultSettings <- Brief
    Signed <- TokenSigned
    Hostile = {}
    OwnerInputs = {n}
    VaultInputs = {}
    KeyInputs = {}
    WalletInputs = {}
    ShareInputs = {}
    SettingInputs <- ClockSettings
    TokenListInputs <- MCTokenLists
    DepositInputs = {}
    TokenAmounts = {2, 4}
    MaxEther = 0
    MaxSupply = 4
    MaxTime = 4
PROPERTIES
    NeverBeforeDeadline
    TokenClaimsConserved
