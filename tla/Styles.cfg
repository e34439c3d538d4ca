SPECIFICATION FairAsyncSpec
CONSTANTS
    Tools = {"read", "approve", "flaky", "unlisted"}
    HostTools = {"read", "approve", "flaky"}
    DeferredNames = {"approve"}
    Gated = {"approve"}
    Failing = {"flaky"}
    Budget = 3
    HasStore = TRUE
    NoRecord = NoRecord
    FaultKinds = {}
    MaxFaults = 0
    MaxLength = 3
    MaxBatches = 4
    MaxQuestions = 2
    Programs <- MCPrograms
INVARIANTS
    NoCallDropped
    DeferredMirrorsFutures
    AnswersInTurn
    BatchAccounted
PROPERTIES
    OnlyQuestionsStray
    OncePerLeg
    OwnResults
    ImplementsFutures
    LegsEnd
