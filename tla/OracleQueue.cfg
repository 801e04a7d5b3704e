\* Two jobs that arrive up to twice, two attempts each, a queue that may hold two, one crash or failing write.
SPECIFICATION Spec
CONSTANTS
    j1 = j1
    j2 = j2
    Jobs = {j1, j2}
    DepthLimit = 2
    AgeLimit = 1
    MaxAttempts = 2
    RateLimit = 1
    Threshold = 2
    Sources = {"submission_failure"}
    StartTime = 3
    MaxTime = 5
    MaxCopies = 2
    MaxFaults = 1
SYMMETRY JobSymmetry
INVARIANTS
    TypeOK
    JobsKept
PROPERTIES
    HealthRestored
