SPECIFICATION Spec
CONSTANTS
    Messages = {m1, m2}
    Calls = {c1}
    Parts = {0, 1}
    NoItem = NoItem
    UpstreamId = UpstreamId
    RewriteId = RewriteId
    Liberties = {}
    MaxEvents = 5
SYMMETRY Symmetry
CHECK_DEADLOCK FALSE
INVARIANTS
    FinalHasStatus
