SPECIFICATION MCSpec
CONSTANTS
    t1 = t1
    n1 = n1
    p = p
    n = n
    None = None
    Scopes <- MCScopes
    CampaignScopes <- MCCampaignScopes
    Tasks = {t1, n1}
    Native = {n1}
    Priority <- MCPriority
    MaxAttempts = 2
    Workers = {p, n}
    Python = {p}
    Concurrency = 2
    MaxEmpty <- MCMaxEmpty
    MaxCrashes = 1
    MaxFaults = 1
    MaxSlow = 1
INVARIANTS QueueInv
PROPERTIES EndedIsFinal TasksEnd
