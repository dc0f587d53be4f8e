SPECIFICATION MCSpec
CONSTANTS
  None = None
  Instances = {"s1"}
  Workers = {"w1", "w2"}
  Descriptors <- AllDescriptors
  JobIds = {"j1", "j2"}
  Requests <- AllRequests
  Campaigns = {"c"}
  Branches = {"b1", "b2"}
  Cohorts = {"k"}
  Lanes = {"lane", "other"}
  Keys = {"j1", "j2"}
  Dims = {"jobs", "wall_seconds", "shared_evidence_tokens"}
  Configurations <- AttemptConfigurations
  Grants <- BudgetGrants
  Results <- AllResults
  LeaseWalls = {0, 3}
  MaxConcurrency = 2
  MaxAttempts = 2
INVARIANTS AccountsAddUp LimitsHold MatchedCohort
