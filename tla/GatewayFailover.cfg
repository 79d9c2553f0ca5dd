SPECIFICATION FairSpec
CONSTANTS
    r1 = r1
    r2 = r2
    Requests = {r1}
    Tenants = {"open", "closed"}
    OpenTenants = {"open"}
    MaxConcurrent <- OneSlot
    Models = {"m", "n"}
    IDs <- TwoIDs
    Weight <- TwoWeights
    Serves <- TwoServes
INVARIANTS FailoverSound
PROPERTIES NoRetryAfterAnswer EveryRequestReturns HealthFollows
CHECK_DEADLOCK FALSE
