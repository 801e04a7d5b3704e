\* One creator, two descriptions, two open proposals, one recurring raffle.
SPECIFICATION Spec
CONSTANTS
    a1 = a1
    a2 = a2
    self = self
    c1 = c1
    c2 = c2
    d1 = d1
    d2 = d2
    h1 = h1
    h2 = h2
    Addresses = {a1, a2, self}
    Treasuries = {a2, self}
    Self = self
    InitialAdmin = a1
    Creators = {c1}
    Descriptions = {d1, d2}
    Categorised = {d2}
    WasmHashes = {h1}
    InitialConfig <- InitialSettings
    AddressKeys = {"treasury"}
    Fees = {200, 3000}
    MaxProtocolFeeBp = 2000
    BaseFees = {0}
    TimelockDelay = 1
    CreationDelays = {0, 1}
    DefaultDelay = 1
    CheckpointInterval = 2
    Interval = 1
    MaxRounds = 2
    StartTime = 5
    MaxTime = 6
    MaxOps = 2
    MaxSchedules = 1
    MaxRaffles = 2
INVARIANTS
    TypeOK
    RegistryAgrees
    FeesAnnounced
PROPERTIES
    RateLimited
    OfferAccepted
    TimelockKept
