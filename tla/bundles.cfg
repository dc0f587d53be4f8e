SPECIFICATION Spec
CONSTANTS
    p1 = p1
    p2 = p2
    b0 = b0
    c1 = c1
    c2 = c2
    d1 = d1
    r0 = r0
    r1 = r1
    Base = b0
    Parent <- MCParent
    Epoch <- MCEpoch
    Content <- MCContent
    MinScreen = 1
    MinConfirmation = 1
    MinHeldout = 1
    MinBlocks = 2
    None = None
    Scopes <- SafetyScopes
SYMMETRY Interchangeable
CHECK_DEADLOCK FALSE
INVARIANTS BundleInv SpentOnce
PROPERTIES DecisionsStand
