SPECIFICATION FairSpec
CONSTANTS
    Ids = {r1, r2}
    ColdKeys = {r1, r2}
    NoId = NoId
    NoRow = NoRow
    UnknownId = UnknownId
    Providers = {"a", "b"}
    Models = {"a", "b"}
    Label <- TwoLabels
    Upstream <- TwoLabels
    Inputs <- BigInputs
    Faults = {"cold", "crash", "disconnect", "db", "llm"}
    PurgeRuns = FALSE
    Backend = "inmem"
    TTL = 1
    MaxTime = 0
CHECK_DEADLOCK FALSE
PROPERTIES
    EveryRequestEnds
    AnnouncedGetsStored
    
