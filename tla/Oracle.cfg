\* Two requests, a crash or a shutdown, and two failing calls; a page holds one event.
SPECIFICATION FairSpec
CONSTANTS
    r1 = r1
    r2 = r2
    Requests = {r1, r2}
    MinDelay = 1
    MaxAttempts = 2
    PageLimit = 1
    MaxLedger = 4
    MaxFaults = 2
    MaxStops = 1
INVARIANTS
    TypeOK
    WorkedOnce
    OneInclusion
    FailuresProvoked
PROPERTIES
    Accounted
