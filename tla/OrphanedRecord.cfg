SPECIFICATION Spec
CONSTANTS
    Tools = {"read", "approve", "flaky", "unlisted"}
    HostTools = {"read", "approve", "flaky"}
    DeferredNames = {"approve"}
    Gated = {"approve"}
    Failing = {"flaky"}
    Budget = 3
    HasStore = TRUE
    NoRecord = NoRecord
    FaultKinds = {"pool"}
    MaxFaults = 1
    MaxLength = 2
    MaxBatches = 0
    Programs <- MCPrograms
INVARIANTS
    RecordGone
