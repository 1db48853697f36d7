SPECIFICATION Spec
CONSTANTS
    Scenes <- Deployments
    Load <- LoadConfig
    MaxTurns = 3
CHECK_DEADLOCK FALSE
INVARIANTS
    NothingRejectedIsSent
    StrippedAddsUp
    RequestInv
    DialogueInv
    AliasDecides
    OnlyTimeoutsCollide
    DialogueInOrder
    DialogueIsWhole
    CallsComeFirst
    
    EnvironmentOverYaml
