SPECIFICATION Spec
CONSTANTS
    Ids = {r1, r2, r3}
    ColdKeys = {r1, r2, r3}
    NoId = NoId
    NoRow = NoRow
    UnknownId = UnknownId
    Providers = {"a", "b"}
    Models = {"a", "b"}
    Label <- TwoLabels
    Upstream <- TwoLabels
    Inputs <- MixedInputs
    Faults = {"llm"}
    PurgeRuns = FALSE
    Backend = "none"
    TTL = 1
    MaxTime = 0
SYMMETRY Symmetry
CHECK_DEADLOCK FALSE
INVARIANTS
    TypeOK
    OneLabelPerHistory
    RefusedIsNotStored
    UnstoredIsNeverUsed
    IInv
