\* A CommitReveal raffle with a treasury, fees, an early-bird discount and a cap per address.
SPECIFICATION Spec
CONSTANTS
    b1 = b1
    b2 = b2
    o1 = o1
    Buyers = {b1, b2}
    Oracles = {o1}
    Source = "CommitReveal"
    QuorumK = 1
    MaxTickets = 3
    MinTickets = 2
    MaxPerTx = 2
    MaxPerAddress = 2
    MaxU32 = 1000
    TicketPrice = 10000
    PrizeAmount = 20000
    Prizes <- TwoTiers
    InitialFeeBp = 500
    FeeSettings = {2000}
    MaxProtocolFeeBp = 2000
    HasTreasury = TRUE
    EarlyBirdPct = 50
    EarlyBirdBp = 2000
    UniqueWinners = FALSE
    NoDeadline = FALSE
    EndTime = 1
    ClaimLockup = 1
    ClaimExpiry = 2
    MaxSweep = 1
    MinDelay = 1
    OracleTimeout = 2
    EmergencyDelay = 1
    TimelockDelay = 1
    StartLedger = 5
    PauseSwitches = {}
    Amounts = {4000}
    MaxBalance = 30000
    MaxTime = 3
SYMMETRY BuyerSymmetry
INVARIANTS
    PrizeEscrowed
    AllowanceHonest
PROPERTIES
    OutcomeFixed
    NoLastLook
