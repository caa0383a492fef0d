SPECIFICATION FairSpec
CONSTANTS
    Ticks = {t1, t2}
    Calls = {p}
    MaxAttempts <- MCMaxAttempts
    MaxEvents = 1
INVARIANTS
    TypeOK
    SuccessIsReportedOnce
    RotationIsSafe
PROPERTIES
    DueEstateIsExecuted
