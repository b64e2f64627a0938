SPECIFICATION Spec
CONSTANTS
  Runners = {"r1", "r2"}
  Callers <- AllCallers
  Campaigns = {"k1", "k2"}
  Candidates = {"d1", "d2"}
  Samples = {"s1", "s2", "s3"}
  Pools = {"slots", "rated"}
  CampaignOf <- Campaign
  PoolOf <- Pool
  RatePools = {"rated"}
  Allowed = {"s1", "s2", "s3", "d1", "d2"}
  AttemptCap <- CampaignCap
  PerCandidateCap <- CandidateCap
  Requests = {1, 2, 3, 4, 5}
  LeaseTTLs = {1, 2}
  LeaseTTL = 2
  StartCost = 2
  MaxRunAttempts = 2
  MaxDeferrals = 2
  FinalizeRetries = 1
  Environments <- AllEnvironments
  None = "none"
  MaxTime = 3
  MaxAttempts = 3
INVARIANTS
  RequestsGetOneAttempt
  OneLiveAttemptPerJob
  PoolsKeepTheirLimit
  RecordedIsHeld
  ReviewIsOwn
PROPERTIES
  KeepsTheLedger
  CampaignsEnd
CHECK_DEADLOCK FALSE
