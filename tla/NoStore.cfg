SPECIFICATION AsyncSpec
CONSTANTS
    Tools = {"read", "approve", "flaky", "unlisted"}
    HostTools = {"read", "approve", "flaky"}
    DeferredNames = {"approve"}
    Gated = {"approve"}
    Failing = {"flaky"}
    Budget = 3
    HasStore = FALSE
    NoRecord = NoRecord
    FaultKinds = {"crash", "late_crash", "pool", "checkout"}
    MaxFaults = 1
    MaxLength = 3
    MaxBatches = 3
    MaxQuestions = 2
    Programs <- MCPrograms
INVARIANTS
    AnswersInTurn
PROPERTIES
    ImplementsFutures
