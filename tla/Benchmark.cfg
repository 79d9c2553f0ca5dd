SPECIFICATION FairSpec
CONSTANTS
    Null = Null
    num_requests = 2
    warmup_requests = 1
    concurrency = 2
    repeats = 2
    LazyCounters = TRUE
    MaxCrashes = 1
    ExporterPages <- MCExporterPages
INVARIANTS RequestsAccounted WindowExact
PROPERTY SweepEnds
CHECK_DEADLOCK FALSE
