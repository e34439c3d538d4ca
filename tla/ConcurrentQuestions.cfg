SPECIFICATION AsyncSpec
CONSTANTS
    Tools = {"read", "approve", "flaky", "unlisted"}
    HostTools = {"read", "approve", "flaky"}
    DeferredNames = {"approve"}
    Gated = {"approve"}
    Failing = {"flaky"}
    Budget = 3
    HasStore = TRUE
    NoRecord = NoRecord
    FaultKinds = {}
    MaxFaults = 0
    MaxLength = 1
    MaxBatches = 3
    MaxQuestions = 2
    Programs <- MCPrograms
INVARIANTS
    AnswersReachTheirCalls
