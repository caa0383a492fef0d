CONSTANTS
    Owners = {o1, o2}
    Notified = {o1}
    Users = {u1, u2}
    Sessions = {s1, s2}
    Requests = {r1, r2}
    NoUser = NoUser
    WalletLimit = 1
    MaxAttempts = 2
    NoOwner = NoOwner
    MaxCrashes = 1
CHECK_DEADLOCK FALSE
SPECIFICATION Spec
INVARIANTS TypeOK LinksAreBounded OneMessageUnlessFailed
PROPERTIES SessionsLinkOnce DeliverySettles
