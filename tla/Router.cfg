SPECIFICATION Spec
CONSTANTS
    Requests = {"r1", "r2"}
    Backends = {"a"}
    CanarySteps = 2
    Sample <- TwoSamples
    Configs <- AllConfigs
INVARIANTS ApprovalGates OnlyApprovedSteers
PROPERTY PromotionPath
CHECK_DEADLOCK FALSE
