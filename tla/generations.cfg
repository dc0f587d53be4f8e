SPECIFICATION MCSpec
CONSTANTS
    Scopes <- MCScopes
    GateScopes <- MCGateScopes
    EpochScopes <- MCEpochScopes
    None = None
CHECK_DEADLOCK FALSE
INVARIANTS LoopInv GateInv EpochInv
PROPERTIES RunEnds DecisionsGoLive ActiveInTheEnd
