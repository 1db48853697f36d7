SPECIFICATION Spec
CONSTANTS
    Ids = {r1, r2, r3}
    ColdKeys = {r1, r2, r3}
    NoId = NoId
    NoRow = NoRow
    Unasked = Unasked
    UnknownId = UnknownId
    Providers = {"a", "b"}
    Models = {"a", "b"}
    Label <- TwoLabels
    Upstream <- TwoLabels
    Inputs <- WideInputs
    Faults = {"db", "crash"}
    PurgeRuns = TRUE
    Backend = "inmem"
    TTL = 0
    MaxTime = 1
SYMMETRY Symmetry
CHECK_DEADLOCK FALSE
INVARIANTS
    IInv
    PurgedFromTheRoot
    WholeHistory
    
PROPERTIES
    ImplementsConversations
