SPECIFICATION Spec
CONSTANTS
    k1 = k1
    k2 = k2
    Blocks = {k1, k2}
    Backends = {"x"}
    Backend = "x"
    MaxEntries = {1, 2}
    BufferSteps = 2
    MayLose = TRUE
    MaxEpochs = 3
    MaxEvents = 3
    MaxLate = 1
SYMMETRY Interchangeable
INVARIANTS EvidenceIsReal IndexBounded
PROPERTY SequenceNeverBack
CHECK_DEADLOCK FALSE
