SPECIFICATION MCSpec
CONSTANTS
    None = None
    Scopes <- MissionScopes
    CampaignScopes <- MCCampaignScopes
    Tasks = {}
    Native = {}
    Priority <- NoTasks
    MaxAttempts = 1
    Workers = {}
    Python = {}
    Concurrency = 1
    MaxEmpty <- NoTasks
    MaxCrashes = 0
    MaxFaults = 0
    MaxSlow = 0
INVARIANTS MissionInv CampaignInv
PROPERTIES MissionEnds CampaignFollows
