SPECIFICATION DashboardSpec
CONSTANTS
    alice = alice
    bob = bob
    carol = carol
    t = t
    Accounts = {alice, bob, carol}
    Owners = {alice, bob}
    Tokens = {t}
    None = None
    NoPlan = NoPlan
    Loading = Loading
    NoDraft = NoDraft
    Nobody = Nobody
    TOTAL_BPS = 4
    MAX_BENEFICIARIES = 2
    MAX_TRACKED_TOKENS = 1
    MaxU64 = 15
    MaxSafe = 7
    DAY = 2
    DayInputs = {0, 1, 4}
    ShareInputs = {0, 3, 5, 8}
    TokenInputs <- MCTokenInputs
    StoredDrafts <- MCStoredDrafts
    InitialPlans <- MCInitialPlans
    RecoveryForms <- MCRecoveryForms
    MaxEdits = 1
    MaxCreations = 2
    MaxSettingsEdits = 1
    MaxSaves = 1
    MaxRequests = 2
    MaxRestores = 2
INVARIANTS
    FormsAgree
    RequestsAreSound
    RestoredLinkIsOwn
PROPERTY
    DuePlanIsTriggered
