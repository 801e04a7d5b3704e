\* Three raffles of two creators, sales up to the limit of the volume counter, boards of two, two partners and a client with pages of one or two.
SPECIFICATION Spec
CONSTANTS
    c1 = c1
    c2 = c2
    b1 = b1
    b2 = b2
    t1 = t1
    p1 = p1
    p2 = p2
    Creators = {c1, c2}
    Buyers = {b1, b2}
    Assets = {t1}
    Amounts = {2}
    MaxAmount = 5
    Results <- TwoResults
    LeaderboardCap = 2
    Partners = {p1, p2}
    Limits = {0, 3}
    DefaultPageLimit = 1
    MaxPageLimit = 2
    MaxRaffles = 3
    MaxCalls = 3
SYMMETRY StatsSymmetry
INVARIANTS
    TotalsAgree
    BoardsHoldTheBest
    PagesComplete
CHECK_DEADLOCK FALSE
