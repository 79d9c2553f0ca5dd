--------------------------- MODULE ExporterSignals ---------------------------
(***************************************************************************)
(* What the exporter makes of one metrics page of a backend: the adapters  *)
(* (exporter/adapters), the derived ratios (exporter/derive/compute.py),   *)
(* the snapshot's signals (exporter/backend_state.py) and the advice       *)
(* (exporter/advisor.py).  A page has the type of its backend and a        *)
(* partial function from metrics to values; the spellings of one metric    *)
(* (colon or underscore, with or without _total) are one name.             *)
(***************************************************************************)
EXTENDS Integers, FiniteSetsExt

CONSTANTS
    TokensPerBlock,    \* blocks are estimated from SGLang's token counts
    Null               \* no value, no page, no snapshot

ASSUME TokensAssumption == TokensPerBlock \in Nat \ {0}

\* Candidates are tried in order; the first one the page has is taken.
Chosen(m, names) ==
    LET present == {i \in DOMAIN names : names[i] \in DOMAIN m}
    IN  IF present = {} THEN Null ELSE names[Min(present)]

PickOptional(m, names) == LET n == Chosen(m, names) IN IF n = Null THEN Null ELSE m[n]

Pick(m, names) == LET n == Chosen(m, names) IN IF n = Null THEN 0 ELSE m[n]

prefix_metric_metadata(hits, queries) ==
    IF hits # Null /\ queries # Null
    THEN IF hits = "cached_tokens" /\ queries = "prompt_tokens"
         THEN [semantics |-> "token_counter_fallback", comparability |-> "directional",
               evidence |-> "fallback"]
         ELSE [semantics |-> "prefix_query_counters", comparability |-> "strict",
               evidence |-> "strict"]
    ELSE [semantics |-> IF hits = Null /\ queries = Null THEN "missing" ELSE "partial",
          comparability |-> "missing", evidence |-> "missing"]

BlockMetrics == {"total", "active", "reusable", "free"}

block_evidence(m, estimable) ==
    IF BlockMetrics \subseteq DOMAIN m THEN "strict"
    ELSE IF estimable THEN "estimated" ELSE "missing"

VllmCollect(m) ==
    [total |-> Pick(m, <<"total">>), active |-> Pick(m, <<"active">>),
     reusable |-> Pick(m, <<"reusable">>), free |-> Pick(m, <<"free">>),
     duplicate |-> Pick(m, <<"duplicate">>), usage |-> Pick(m, <<"usage">>),
     hits |-> Pick(m, <<"prefix_hits">>), queries |-> Pick(m, <<"prefix_queries">>),
     prefix |-> prefix_metric_metadata(Chosen(m, <<"prefix_hits">>),
                                       Chosen(m, <<"prefix_queries">>)),
     block |-> block_evidence(m, "usage" \in DOMAIN m),
     queue |-> PickOptional(m, <<"waiting">>), running |-> PickOptional(m, <<"running">>)]

\* What SGLang does not expose as blocks is estimated from its token counts.
SGLangCollect(m) ==
    LET hits    == <<"prefix_hits", "cached_tokens">>
        queries == <<"prefix_queries", "prompt_tokens">>
        OrTokens(blocks, tokens) == IF blocks = 0 THEN tokens \div TokensPerBlock ELSE blocks
        total   == OrTokens(Pick(m, <<"total">>), Pick(m, <<"max_tokens">>))
        active  == OrTokens(Pick(m, <<"active">>), Pick(m, <<"used_tokens">>))
        free    == Pick(m, <<"free">>)
        usage   == Pick(m, <<"usage">>)
    IN  [total |-> total, active |-> active, reusable |-> Pick(m, <<"reusable">>),
         free |-> IF free = 0 /\ total > 0 /\ active > 0
                  THEN Max({0, total - active}) ELSE free,
         duplicate |-> Pick(m, <<"duplicate">>), usage |-> usage,
         hits |-> Pick(m, hits), queries |-> Pick(m, queries),
         prefix |-> prefix_metric_metadata(Chosen(m, hits), Chosen(m, queries)),
         block |-> block_evidence(m, total > 0 \/ usage > 0),
         queue |-> PickOptional(m, <<"waiting">>), running |-> PickOptional(m, <<"running">>)]

collect(p) == IF p.type = "sglang" THEN SGLangCollect(p.metrics) ELSE VllmCollect(p.metrics)

\* Ratios are whole per cents; usage comes in hundredths of the exposed number, which is
\* read as a fraction up to 1 and as a percentage above.
clamp01(v) == Max({0, Min({100, v})})

usage_ratio(u) == IF u <= 100 THEN clamp01(u) ELSE clamp01(u \div 100)

\* The gauges of one scrape; an optional one without a value is Null.
compute_derived(n) ==
    LET known     == n.total > 0
        Share(x)  == clamp01((100 * x) \div n.total)
    IN  [total |-> n.total, active |-> n.active, reusable |-> n.reusable, free |-> n.free,
         duplicate |-> n.duplicate,
         hidden |-> IF known THEN Share(n.reusable) ELSE 0,
         effective |-> IF known THEN Share(n.active + n.reusable) ELSE usage_ratio(n.usage),
         cold |-> IF known THEN Share(n.free) ELSE 100 - usage_ratio(n.usage),
         hit_ratio |-> IF n.queries > 0 THEN clamp01((100 * n.hits) \div n.queries) ELSE Null,
         queue |-> n.queue, running |-> n.running]

Derived(p) == compute_derived(collect(p))

Evidence(n, s) ==
    CASE s = "hit_ratio" -> n.prefix.evidence
      [] s \in {"queue", "running"} -> IF n[s] = Null THEN "missing" ELSE "strict"
      [] OTHER -> n.block

\* _signal; nobody passes stale = True.
signal(p, s) ==
    LET v == Derived(p)[s]
    IN  [value |-> IF v = Null THEN 0 ELSE v, has_value |-> v # Null,
         quality |-> IF v = Null THEN "missing" ELSE "fresh",
         evidence |-> Evidence(collect(p), s)]

Signals == {"total", "active", "reusable", "free", "duplicate", "hidden", "effective", "cold",
            "hit_ratio", "queue", "running"}

OptionalGauges == {"hit_ratio", "queue", "running"}

snapshot_from_derived(p) == [s \in Signals |-> signal(p, s)]

\* The gateway's check of a snapshot (backendstate/client.go).
Validate(snapshot) ==
    \A s \in DOMAIN snapshot :
        /\ snapshot[s].quality \in {"fresh", "stale", "missing", "invalid"}
        /\ snapshot[s].evidence \in {"strict", "estimated", "fallback", "missing"}
        /\ snapshot[s].has_value <=> snapshot[s].quality # "missing"

build_advice(p) ==
    LET d == Derived(p)
        found ==
            {c \in {"cache_evidence_not_strict", "cache_hit_ratio_missing", "low_prefix_reuse",
                    "cold_capacity_available", "kv_pressure_high", "duplicate_cache_pressure"} :
                CASE c = "cache_evidence_not_strict" -> collect(p).prefix.evidence # "strict"
                  [] c = "cache_hit_ratio_missing"   -> d.hit_ratio = Null
                  [] c = "low_prefix_reuse"          -> d.hit_ratio # Null /\ d.hit_ratio < 20
                  [] c = "cold_capacity_available"   -> d.cold > 35
                  [] c = "kv_pressure_high"          -> d.effective > 90
                  [] c = "duplicate_cache_pressure"  -> 10 * d.duplicate > Max({d.total, 10})}
    IN  IF found = {} THEN {"healthy"} ELSE found

=============================================================================
