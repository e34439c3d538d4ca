SPECIFICATION Spec
CONSTANTS
    Tools = {"read", "approve", "flaky", "unlisted"}
    HostTools = {"read", "approve", "flaky"}
    DeferredNames = {"approve"}
    Gated = {"approve"}
    Failing = {"flaky"}
    Budget = 4
    HasStore = TRUE
    NoRecord = NoRecord
    FaultKinds = {}
    MaxFaults = 0
    Programs <- MCPrograms
INVARIANTS
    DeferralIsTransparent
