SPECIFICATION FairSpec
CONSTANTS
    TokensPerBlock = 16
    Null = Null
    Pages = {"full", "part", "tokens", "blocks"}
    Metrics <- MCMetrics
    StaleAfter = 1
    MaxStall = 1
    FailuresNotReady = 2
INVARIANTS OneScrape ReadyServes
PROPERTIES NeverBack Recovers
