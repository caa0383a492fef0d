SPECIFICATION FairSpec
CONSTANTS
    step = step
    scan = scan
    t = t
    Native = Native
    Workers = {step, scan}
    Role <- MCRole
    TrackedTokens = {t}
    MaxEvents = 1
INVARIANTS
    TypeOK
    ReportsAgree
PROPERTY
    FailureIsRetried
