SPECIFICATION FairSpec
CONSTANTS
    Tools = {"read", "approve", "flaky", "unlisted"}
    HostTools = {"read", "approve", "flaky"}
    DeferredNames = {"approve"}
    Gated = {"approve"}
    Failing = {"flaky"}
    Budget = 3
    HasStore = TRUE
    NoRecord = NoRecord
    FaultKinds = {"put", "get", "delete", "pool", "checkout", "load", "limit", "early", "unbind", "crash", "late_crash"}
    MaxFaults = 3
    MaxLength = 3
    MaxBatches = 3
    Programs <- MCPrograms
INVARIANTS
    StdoutOnce
PROPERTIES
    OncePerLeg
    LegsEnd
