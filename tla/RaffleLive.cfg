\* A 2-of-3 Quorum raffle with unique winners whose oracles answer and whose payers and winners collect.
SPECIFICATION FairSpec
CONSTANTS
    b1 = b1
    b2 = b2
    o1 = o1
    o2 = o2
    o3 = o3
    Buyers = {b1, b2}
    Oracles = {o1, o2, o3}
    Source = "Quorum"
    QuorumK = 2
    MaxTickets = 4
    MinTickets = 2
    MaxPerTx = 2
    MaxPerAddress = 2
    MaxU32 = 1000
    TicketPrice = 10000
    PrizeAmount = 20000
    Prizes <- TwoTiers
    InitialFeeBp = 0
    FeeSettings = {}
    MaxProtocolFeeBp = 2000
    HasTreasury = TRUE
    EarlyBirdPct = 0
    EarlyBirdBp = 0
    UniqueWinners = TRUE
    NoDeadline = FALSE
    EndTime = 1
    ClaimLockup = 1
    ClaimExpiry = 2
    MaxSweep = 50
    MinDelay = 1
    OracleTimeout = 1
    EmergencyDelay = 1
    TimelockDelay = 1
    StartLedger = 5
    PauseSwitches = {}
    Amounts = {}
    MaxBalance = 0
    MaxTime = 2
INVARIANTS
    OnlyOraclesFinish
    UniqueWhenPossible
PROPERTIES
    TerminalForever
    DrawAnswered
    SettlementCompletes
