SPECIFICATION Spec
CONSTANTS
    c1 = c1
    c2 = c2
    NoThread = NoThread
    NoId = NoId
    NoRecord = NoRecord
    Calls <- MCCalls
    NonIdentifiers <- MCNonIdentifiers
    Keywords <- MCKeywords
    Setups <- MCSetups
    Bindings <- MCBindings
    Scenarios <- MCScenarios
    Values <- MCValues
    Height <- MCHeight
    Depth = 9
INVARIANTS
    
    ValidCallsPass
    InjectedAreLive
    OwnRecords
    StoreCleaned
    ToldTruthfully
    ReturnsArrive
    ResultsSurvive
