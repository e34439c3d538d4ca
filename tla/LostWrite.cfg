SPECIFICATION Spec
CONSTANTS
    Tools = {"read", "approve", "flaky", "unlisted"}
    HostTools = {"read", "approve", "flaky"}
    DeferredNames = {"approve"}
    Gated = {"approve"}
    Failing = {"flaky"}
    Budget = 3
    HasStore = TRUE
    NoRecord = NoRecord
    FaultKinds = {"put"}
    MaxFaults = 1
    MaxLength = 3
    MaxBatches = 0
    Programs <- MCPrograms
INVARIANTS
    AnswersReachTheirCalls
