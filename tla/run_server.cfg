SPECIFICATION Spec
CONSTANTS
    Scopes <- MCScopes
    None = None
CHECK_DEADLOCK FALSE
INVARIANTS ServerInv SteeringInv
PROPERTIES EverythingIsReleased
