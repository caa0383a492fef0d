SPECIFICATION FairSpec
CONSTANTS
    r1 = r1
    r2 = r2
    t = t
    NoRun = NoRun
    Native = Native
    Runs = {r1, r2}
    Tokens = {t}
    Periods = {1, 2}
    MaxAge = 2
    MaxEvents = 2
INVARIANTS
    TypeOK
    OneWatcher
PROPERTIES
    WatchedEstateIsInherited
    WatcherStops
