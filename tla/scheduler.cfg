SPECIFICATION SharedSpec
CONSTANTS
  None = None
  Instances = {"s1", "s2"}
  Workers = {"w1"}
  Descriptors <- SharedDescriptors
  JobIds = {"j1"}
  Requests <- SharedRequests
  Campaigns = {"c"}
  Branches = {"b"}
  Cohorts = {}
  Lanes = {"lane"}
  Keys = {"j1"}
  Dims = {"jobs"}
  Configurations = {}
  Grants = {}
  Results <- SharedResults
  LeaseWalls = {0}
  MaxConcurrency = 2
  MaxAttempts = 2
INVARIANTS SchedulerInv InheritedLeaseNotReissued
PROPERTIES TerminalIsFinal FinalChargeIsFinal LeasesEnd
