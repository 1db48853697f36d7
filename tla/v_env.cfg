SPECIFICATION Spec
CONSTANTS
    Scenes <- Deployments
    Load <- LoadConfig
    MaxTurns = 3
CHECK_DEADLOCK FALSE
INVARIANTS
    EnvironmentRejectsBooleans
