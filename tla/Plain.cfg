SPECIFICATION Spec
CONSTANTS
    Tools = {"read", "approve", "flaky", "unlisted"}
    HostTools = {"read", "approve", "flaky"}
    DeferredNames = {"approve"}
    Gated = {"approve"}
    Failing = {"flaky"}
    Budget = 3
    HasStore = TRUE
    NoRecord = NoRecord
    FaultKinds = {}
    MaxFaults = 0
    MaxLength = 3
    MaxPauses = 5
    Programs <- MCPrograms
INVARIANTS
    TypeOK
    NoCallDropped
    RunsOnce
    BudgetSpansLegs
    StdoutOnce
PROPERTIES
    ImplementsContract
