SPECIFICATION Spec
CONSTANTS
    Requests = {"r1", "r2"}
    Backends = {"a"}
    CanarySteps = 2
    Sample <- TwoSamples
    Configs <- RolloutOnly
INVARIANT ShadowNeverSteers
CHECK_DEADLOCK FALSE
