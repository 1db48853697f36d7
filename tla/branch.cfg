SPECIFICATION Spec
CONSTANTS
    Ids = {r1, r2, r3, r4}
    ColdKeys = {r1, r2, r3, r4}
    NoId = NoId
    NoRow = NoRow
    UnknownId = UnknownId
    Providers = {"a", "b"}
    Models = {"a", "b"}
    Label <- TwoLabels
    Upstream <- TwoLabels
    Inputs <- LargeInputs
    Faults = {"cold", "crash", "db", "disconnect"}
    PurgeRuns = FALSE
    Backend = "s3"
    TTL = 1
    MaxTime = 0
SYMMETRY Symmetry
CHECK_DEADLOCK FALSE
INVARIANTS
    LinearHistory
    WholeHistory
    SessionsAreTrees
    VisitedNeverCuts
    ChronologicalHistory
    
    IInv
