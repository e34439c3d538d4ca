SPECIFICATION Spec
CONSTANTS
    Tools = {"read", "approve", "flaky", "unlisted"}
    HostTools = {"read", "approve", "flaky"}
    DeferredNames = {"approve"}
    Gated = {"approve"}
    Failing = {"flaky"}
    Budget = 3
    HasStore = TRUE
    NoRecord = NoRecord
    FaultKinds = {"crash", "late_crash", "pool", "delete"}
    MaxFaults = 2
    MaxLength = 4
    MaxBatches = 0
    Programs <- MCPrograms
INVARIANTS
    AnswersReachTheirCalls
