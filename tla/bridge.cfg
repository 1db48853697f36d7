SPECIFICATION Spec
CONSTANTS
    Messages = {m1, m2}
    Calls = {c1}
    Parts = {0, 1}
    NoItem = NoItem
    UpstreamId = UpstreamId
    RewriteId = RewriteId
    Liberties = {"silent", "hidden", "late", "parallel", "anonymous", "abrupt"}
    MaxEvents = 5
SYMMETRY Symmetry
CHECK_DEADLOCK FALSE
INVARIANTS
    TypeOK
    
    AnnouncedOnce
    
    FinalMirrorsStream
    ClosedIsExact
    
    OneResponseId
    BridgeInv
