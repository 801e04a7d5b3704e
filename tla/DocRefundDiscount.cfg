\* Early-bird tickets are paid for at a discount and refunded at list price.
SPECIFICATION Spec
CONSTANTS
    b1 = b1
    b2 = b2
    o1 = o1
    Buyers = {b1, b2}
    Oracles = {o1}
    Source = "Internal"
    QuorumK = 1
    MaxTickets = 3
    MinTickets = 2
    MaxPerTx = 2
    MaxPerAddress = 2
    MaxU32 = 1000
    TicketPrice = 10000
    PrizeAmount = 20000
    Prizes <- TwoTiers
    InitialFeeBp = 0
    FeeSettings = {}
    MaxProtocolFeeBp = 2000
    HasTreasury = TRUE
    EarlyBirdPct = 50
    EarlyBirdBp = 2000
    UniqueWinners = FALSE
    NoDeadline = FALSE
    EndTime = 2
    ClaimLockup = 1
    ClaimExpiry = 2
    MaxSweep = 50
    MinDelay = 1
    OracleTimeout = 2
    EmergencyDelay = 1
    TimelockDelay = 1
    StartLedger = 5
    PauseSwitches = {}
    Amounts = {}
    MaxBalance = 0
    MaxTime = 4
INVARIANTS
    RefundsCovered
