\* Five tickets, windows and pages of two, a year: lifetimes in months.
SPECIFICATION Spec
CONSTANTS
    MaxTickets = 5
    MaxPerTx = 3
    Window = 2
    Threshold = 3
    BumpTo = 6
    MinTtl = 4
    PageSize = 2
    OtherPages <- SomePages
    MaxTime = 12
INVARIANTS
    NothingExpires
    WindowSkipsNothing
CHECK_DEADLOCK FALSE
