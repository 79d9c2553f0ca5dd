SPECIFICATION Spec
CONSTANTS
    k1 = k1
    k2 = k2
    Blocks = {k1, k2}
    Backends = {"x"}
    Backend = "x"
    MaxEntries = {2}
    BufferSteps = 2
    MayLose = FALSE
    MaxEpochs = 3
    MaxEvents = 3
    MaxLate = 1
SYMMETRY Interchangeable
INVARIANT ResetOnRestart
CHECK_DEADLOCK FALSE
