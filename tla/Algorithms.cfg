SPECIFICATION AlgorithmsSpec
CONSTANTS
    Null = Null
    Entries <- MCEntries
    Sweeps <- MCSweeps
    e2e_p95_slo_ms = 1500
    min_success_rate = 99
    min_hit_ratio = 5
    safety_factor = 90
    Thresholds <- MCThresholds
    Budgets <- MCBudgets
    Tokens = {1, 2}
    MaxTokens = 4
    block_size = 2
    MaxStored = 2
    TextBytes = 3
    Lines = {"text", "done", "pii", "note", "lf", "crlf"}
    TokenBudgets = {0, 1, 2}
    MaxLines = 5
    PageLines <- MCPageLines
    Labels = {"x", "y"}
    NoLabel = Null
    MaxPage = 3
    IDs <- MCIDs
    Weight <- MCWeight
    Serves <- MCServes
    Models = {"m", "n"}
    None = None
    Requests = {q, r, s, t}
    Window = 4
    Warmup = 1
    Cooldown = 1
    StartAt = 1
    MaxDuration = 16
    Outcomes <- MCOutcomes
    Samples <- MCSamples
    Pools <- MCPools
    Times = {0, 1, 2, 4, 6, 10, 14, 17}
    ttft_slo = 2
    tpot_slo = 2
    min_requests = 2
    max_error_rate = 40
    max_fallback_rate = 100
    max_p95_ttft = 3
INVARIANTS
    LoopIsPointwise ChunkingIrrelevant LoopIsRanking FairShare TotalsRobust MatchIsPrefix
    RankingSound CalibrationBacked EnvelopeFront RowsComparable
PROPERTY VerdictUnswayed
SYMMETRY Perms
CHECK_DEADLOCK FALSE
