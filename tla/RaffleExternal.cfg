\* An External raffle without fees: purchases, gifts, oracle rotation, both cancellations, refunds, claims, rescue, pauses.
SPECIFICATION Spec
CONSTANTS
    b1 = b1
    b2 = b2
    o1 = o1
    o2 = o2
    Buyers = {b1, b2}
    Oracles = {o1, o2}
    Source = "External"
    QuorumK = 1
    MaxTickets = 2
    MinTickets = 2
    MaxPerTx = 2
    MaxPerAddress = 2
    MaxU32 = 1000
    TicketPrice = 10000
    PrizeAmount = 20000
    Prizes <- TwoTiers
    InitialFeeBp = 0
    FeeSettings = {}
    MaxProtocolFeeBp = 2000
    HasTreasury = TRUE
    EarlyBirdPct = 0
    EarlyBirdBp = 0
    UniqueWinners = FALSE
    NoDeadline = FALSE
    EndTime = 2
    ClaimLockup = 1
    ClaimExpiry = 2
    MaxSweep = 50
    MinDelay = 1
    OracleTimeout = 2
    EmergencyDelay = 1
    TimelockDelay = 1
    StartLedger = 5
    PauseSwitches = {"contract", "sales", "global"}
    Amounts = {10000}
    MaxBalance = 30000
    MaxTime = 4
SYMMETRY BuyerSymmetry
INVARIANTS
    TypeOK
    DrawStateAgrees
    MarkersAgree
    PaidOnce
    OneSettlement
    RefundsCovered
    ClaimsCovered
