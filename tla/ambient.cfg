SPECIFICATION Spec
CONSTANTS
    Scopes <- AmbientScopes
    Records = {1, 2}
    Place <- Descending
    Backend <- OneBackend
    AnchorModel <- RotatedModel
    Rubric <- OneRubric
    Autonomy <- Full
    Daemon = "daemon"
    Scores = {0, 1}
    Threshold = 2
    None = None
INVARIANTS TrainerInv
PROPERTIES ServingHolds
