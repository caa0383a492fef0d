SPECIFICATION Spec
CONSTANTS
    o = o
    n = n
    a = a
    b = b
    k = k
    l = l
    v = v
    u = u
    t = t
    None = None
    MAX_BENEFICIARIES = 2
    MAX_TRACKED_TOKENS = 2
    Accounts = {o, n, a, k, l, v, u}
    Tokens = {}
    TOTAL_BPS = 1
    MaxU64 = 20
    Plans <- AuthorityPlans
    DirectOwners = {o}
    Deployer = a
    DefaultSettings <- Brief
    Signed <- AuthoritySigned
    Hostile = {}
    OwnerInputs = {n, None}
    VaultInputs = {None, u, o}
    KeyInputs = {None, k, u, o}
    WalletInputs = {}
    ShareInputs = {}
    SettingInputs = {}
    TokenListInputs = {}
    DepositInputs = {}
    TokenAmounts = {}
    MaxEther = 0
    MaxSupply = 0
    MaxTime = 3
INVARIANT
    NoReplay
PROPERTIES
    RecoveryChangeSigned
    SharingAcknowledged
