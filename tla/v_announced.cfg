SPECIFICATION Spec
CONSTANTS
    Ids = {r1, r2}
    ColdKeys = {r1, r2}
    NoId = NoId
    NoRow = NoRow
    UnknownId = UnknownId
    Providers = {"a", "b"}
    Models = {"a", "b"}
    Label <- TwoLabels
    Upstream <- TwoLabels
    Inputs <- StreamInputs
    Faults = {}
    PurgeRuns = FALSE
    Backend = "none"
    TTL = 1
    MaxTime = 0
SYMMETRY Symmetry
CHECK_DEADLOCK FALSE
INVARIANTS
    AnnouncedIsUsable
