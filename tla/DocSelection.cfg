\* Words of seven bits are enough for the 24 orders of four tickets.
SPECIFICATION Spec
CONSTANTS
    Words = 128
    Multiplier = 45
    Increment = 79
    MaxTickets = 4
    Oracles = {1, 2, 3}
    QuorumK = 3
    QuorumWords = {0, 29, 63}
    Digest <- SomeDigest
CHECK_DEADLOCK FALSE
INVARIANTS
    EveryOrderPossible
