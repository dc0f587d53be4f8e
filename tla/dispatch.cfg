SPECIFICATION MCSpec
CONSTANTS
    Jobs = {"j1", "j2"}
    Scopes <- DispatchScopes
    None = None
    Instances = {s1}
    Events = {a}
    MaxEvents = 1
    RuntimeScopes <- NoBuilders
INVARIANTS DispatchInv
PROPERTIES LoopsEnd
