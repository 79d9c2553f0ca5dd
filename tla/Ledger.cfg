SPECIFICATION PredictorSpec
CONSTANTS
    r1 = r1
    r2 = r2
    r3 = r3
    Requests = {r1, r2, r3}
    Backends = {"a", "b"}
    MaxEntries = 2
    Mismatched = {}
    Unobserved = {r3}
    Invalid = {}
    MinSamples = 2
SYMMETRY Interchangeable
INVARIANTS JournalSound IndexIsReplay ReplayIsLoop SamplesRealized
CHECK_DEADLOCK FALSE
