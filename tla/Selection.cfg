\* Words of six bits, decks of up to six tickets, a quorum of all three oracles.
SPECIFICATION Spec
CONSTANTS
    Words = 64
    Multiplier = 45
    Increment = 15
    MaxTickets = 6
    Oracles = {1, 2, 3}
    QuorumK = 3
    QuorumWords = {0, 29, 63}
    Digest <- SomeDigest
CHECK_DEADLOCK FALSE
INVARIANTS
    TypeOK
    Unbiased
    OrderIndependent
    EveryPairPossible
PROPERTIES
    DrawsWithoutReplacement
