SPECIFICATION MCSpec
CONSTANTS
  None = None
  Instances = {s1, s2}
  Events = {a, b}
  MaxEvents = 3
  Jobs = {}
  Scopes <- NoLoop
  RuntimeScopes <- Campaigns
INVARIANTS StoreInv RuntimeInv
PROPERTIES ImplementsLog RetriesSucceed
