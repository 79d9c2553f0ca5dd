------------------------------- MODULE Planner -------------------------------
(***************************************************************************)
(* The capacity sweep (scripts/run_capacity_sweep.py) and what is          *)
(* recommended from it: the boundaries of a point (planner/policy.py), the *)
(* ranking of the points, the calibration (planner/auto_calibrator.py) and *)
(* the operating envelope (planner/operating_envelope.py).                 *)
(*                                                                         *)
(* Rates are in whole units, ratios, gates and factors in percent; a       *)
(* recommended rate is a rate times safety_factor, a score is in           *)
(* hundredths.                                                             *)
(***************************************************************************)
EXTENDS WindowMetrics, FiniteSetsExt, Functions

CONSTANTS
    Entries,           \* what one run may measure
    Sweeps,            \* the plans: [grid, repeats], grid a sequence of points
    e2e_p95_slo_ms, min_success_rate, min_hit_ratio, safety_factor,
    Thresholds,        \* DEFAULT_THRESHOLDS of the calibrator
    Budgets            \* resource_budget_gpu_seconds; Null for none

\* A run of the sweep, and a candidate of the calibrator.
Derived   == [ratio : Nat \cup {Null}, stale : BOOLEAN, evidence : {"missing", "fallback", "strict"}]
Exporter  == [flags : SUBSET {"comparable", "estimated", "token_fallback"},
              ratio : Nat \cup {Null}]
Run       == [total : Nat, ok : Nat, req_s : Nat, e2e : Nat, derived : Derived \cup {Null},
              exporter : Exporter \cup {Null}, goodput : Nat \cup {Null},
              gpu_seconds : Nat \cup {Null}]
Candidate == [point : Nat, threshold : Nat, concurrency : Nat, feasible : Nat,
              score : Int \cup {Null}, uncertainty : Nat, expected_rps : Nat]

\* Measurements, limits and factors are no negative numbers; a point is measured at least once.
ASSUME PlannerAssumption ==
    /\ Budgets \subseteq Nat \cup {Null} /\ Entries \subseteq Run
    /\ Sweeps \subseteq [grid : Seq([scenario : STRING, concurrency : Nat]), repeats : Nat \ {0}]
    /\ e2e_p95_slo_ms \in Nat /\ min_success_rate \in Nat /\ min_hit_ratio \in Nat
    /\ safety_factor \in Nat
    /\ Thresholds \subseteq Nat /\ Thresholds # {} /\ IsFiniteSet(Thresholds)
    /\ Null \notin Candidate
    /\ Null \notin {"slo", "success_rate", "metric_quality", "hit_ratio", "evidence_missing"}

VARIABLES plan, points, runs

sweepVars == <<plan, points, runs>>

\* Lexicographic order of sort keys, largest first.
Above(a, b) == \E k \in DOMAIN a : a[k] > b[k] /\ \A j \in 1 .. k - 1 : a[j] = b[j]

\* The first of a set of indices after a stable sort by Key in reverse; Null if there is none.
First(indices, Key(_)) ==
    IF indices = {} THEN Null
    ELSE CHOOSE i \in indices :
           \A j \in indices \ {i} : Above(Key(i), Key(j)) \/ (Key(i) = Key(j) /\ i < j)

Mean(entries, Of(_), among) ==
    SumFunction([i \in among |-> Of(entries[i])]) \div Cardinality(among)

ReqS(run) == run.req_s

-----------------------------------------------------------------------------
(* planner/policy.py.                                                      *)

Succeeds(run, least) ==
    IF run.total > 0 THEN 100 * run.ok >= least * run.total ELSE 0 >= least

\* Mutant: with a hit ratio asked for, only that is tested.
Passes_HitOnly(run, slo, success, hit) ==
    IF hit = Null THEN run.e2e <= slo /\ Succeeds(run, success)
    ELSE /\ Quality(run) = "ok"
         /\ get_entry_hit_ratio_quality_and_source(run).ratio >= hit

Passes(run, slo, success, hit) ==
    /\ run.e2e <= slo /\ Succeeds(run, success)
    /\ hit # Null => /\ Quality(run) = "ok"
                     /\ get_entry_hit_ratio_quality_and_source(run).ratio >= hit

recommend_runs(entries, slo, success, hit) ==
    LET n == Len(entries)
        passed == {entries[i].req_s : i \in {i \in DOMAIN entries :
                                               Passes(entries[i], slo, success, hit)}}
        ok       == Cardinality({i \in DOMAIN entries : Quality(entries[i]) \notin {"missing", "stale"}})
        windows  == Count(entries, Source, "window")
        fallback == Count(entries, Source, "snapshot_fallback")
        quality  == summarize_metric_quality_counts(n, ok, Count(entries, Quality, "stale"),
                                                    Count(entries, Quality, "missing"))
        source   == summarize_hit_ratio_source_counts(windows, fallback, n - windows - fallback)
        FirstAll(names, Of(_)) ==
            LET all == {k \in DOMAIN names : Count(entries, Of, names[k]) = n}
            IN  IF all = {} THEN "mixed" ELSE names[Min(all)]
    IN  [recommended_rps |-> IF passed = {} THEN 0 ELSE Max(passed) * safety_factor,
         quality_summary |->
             [total_runs           |-> n,
              ok_metrics           |-> ok,
              metric_quality       |-> quality,
              hit_ratio_source     |-> source,
              hit_ratio_comparable |-> quality = "ok" /\ source # "mixed",
              prefix_metric_check  |-> FirstAll(<<"missing", "strict", "token_fallback", "other">>,
                                                get_entry_prefix_metric_check),
              evidence_quality     |-> FirstAll(<<"missing", "strict", "estimated", "fallback">>,
                                                get_entry_evidence_quality)]]

-----------------------------------------------------------------------------
(* The points of a sweep.                                                  *)

aggregate_run_entries(entries) ==
    LET all   == DOMAIN entries
        good  == {i \in all : entries[i].goodput # Null}
        known == {i \in all : entries[i].gpu_seconds # Null}
    IN  [req_s_mean       |-> Mean(entries, ReqS, all),
         e2e_p95_ms_mean  |-> Mean(entries, LAMBDA r : r.e2e, all),
         goodput_mean     |-> IF good = {} THEN Null ELSE Mean(entries, LAMBDA r : r.goodput, good),
         gpu_seconds_mean |-> IF known = {} THEN Null
                              ELSE Mean(entries, LAMBDA r : r.gpu_seconds, known),
         quality_summary  |-> summarize_runs_quality(entries)]

\* The boundaries of a point, without and with the hit ratio (also planner/compare_baseline.py).
build_point_recommendation(entries) ==
    LET baseline == recommend_runs(entries, e2e_p95_slo_ms, min_success_rate, Null)
        dual     == recommend_runs(entries, e2e_p95_slo_ms, min_success_rate, min_hit_ratio)
    IN  [baseline |-> baseline.recommended_rps, dual |-> dual.recommended_rps,
         quality_summary |-> dual.quality_summary]

point_rank_record(p) ==
    LET r == p.recommendation
    IN  [key                    |-> <<p.aggregates.req_s_mean, -p.aggregates.e2e_p95_ms_mean,
                                      -p.concurrency>>,
         is_feasible            |-> r.baseline > 0,
         is_best_safe_candidate |-> r.dual > 0 /\ r.quality_summary.hit_ratio_comparable]

RankKey(i) == point_rank_record(points[i]).key

InScenario(s) == {i \in DOMAIN points : points[i].scenario = s}

highest_feasible_point(s) ==
    First({i \in InScenario(s) : point_rank_record(points[i]).is_feasible}, RankKey)

best_safe_point(s) ==
    First({i \in InScenario(s) : point_rank_record(points[i]).is_best_safe_candidate}, RankKey)

-----------------------------------------------------------------------------
(* planner/auto_calibrator.py.                                             *)

\* The gate a run fails first; Null for a feasible run.
Rejection(run, threshold) ==
    IF run.e2e > e2e_p95_slo_ms THEN "slo"
    ELSE IF ~Succeeds(run, min_success_rate) THEN "success_rate"
    ELSE IF Quality(run) # "ok" THEN "metric_quality"
    ELSE IF get_entry_hit_ratio_quality_and_source(run).ratio < threshold THEN "hit_ratio"
    ELSE IF get_entry_evidence_quality(run) = "missing" THEN "evidence_missing"
    ELSE Null

EVIDENCE_UNCERTAINTY(run) ==
    LET q == get_entry_evidence_quality(run)
    IN  IF q = "strict" THEN 0 ELSE IF q = "estimated" THEN 25
        ELSE IF q = "fallback" THEN 60 ELSE 100

Root(v) == CHOOSE r \in 0 .. v : r * r <= v /\ (r + 1) * (r + 1) > v

\* The mean times its instability is the standard deviation.
evaluate_candidate(i, threshold) ==
    LET p        == points[i]
        feasible == {k \in DOMAIN p.runs : Rejection(p.runs[k], threshold) = Null}
        n        == Cardinality(feasible)
        mean     == Mean(p.runs, ReqS, feasible)
        squares  == SumFunction([k \in feasible |-> (p.runs[k].req_s - mean)
                                                      * (p.runs[k].req_s - mean)])
        variance == IF n > 1 THEN squares \div (n - 1) ELSE 0
        lower    == Max({0, mean - (196 * Root(variance \div n)) \div 100})
        doubt    == Mean(p.runs, EVIDENCE_UNCERTAINTY, feasible)
    IN  [point |-> i, threshold |-> threshold, concurrency |-> p.concurrency, feasible |-> n,
         score |-> IF n = 0 THEN Null
                   ELSE 100 * lower - 75 * Root(variance) - (75 * mean * doubt) \div 100,
         uncertainty  |-> IF n = 0 THEN 100 ELSE doubt,
         expected_rps |-> IF n = 0 THEN 0 ELSE lower * safety_factor]

CandidateKey(c) == <<c.score, -c.uncertainty, c.threshold, -c.concurrency>>

\* They come point by point, thresholds ascending.
candidates == {evaluate_candidate(x[1], x[2]) : x \in (DOMAIN points) \X Thresholds}

\* Mutant: one feasible run is enough.
Selectable_Any == {c \in candidates : c.score # Null /\ c.feasible >= 1}

\* min_feasible_runs of the sweep's own call is the number of repeats.
Selectable == {c \in candidates : c.score # Null /\ c.feasible >= plan.repeats}

calibrate ==
    LET selectable == Selectable
    IN  IF selectable = {} THEN Null
        ELSE CHOOSE c \in selectable :
               \A d \in selectable \ {c} :
                  \/ Above(CandidateKey(c), CandidateKey(d))
                  \/ CandidateKey(c) = CandidateKey(d) /\ c.point < d.point

-----------------------------------------------------------------------------
(* planner/operating_envelope.py over the document of the sweep, which has *)
(* neither a lower bound of the goodput nor a success rate.                *)

\* A mean of 0.0 is taken for a missing one.
point_resource(p) == IF p.aggregates.gpu_seconds_mean = 0 THEN Null
                     ELSE p.aggregates.gpu_seconds_mean

Reasons(p, budget) ==
    {r \in {"goodput_missing", "e2e_p95_slo", "evidence_quality", "resource_missing",
            "resource_budget"} :
        \/ r = "goodput_missing"  /\ p.aggregates.goodput_mean = Null
        \/ r = "e2e_p95_slo"      /\ p.aggregates.e2e_p95_ms_mean > e2e_p95_slo_ms
        \/ r = "evidence_quality" /\ p.aggregates.quality_summary.metric_quality
                                        \in {"missing", "stale"}
        \/ r = "resource_missing" /\ budget # Null /\ point_resource(p) = Null
        \/ r = "resource_budget"  /\ budget # Null /\ point_resource(p) # Null
                                  /\ point_resource(p) > budget}

Goodput(i) == points[i].aggregates.goodput_mean

Feasible(budget) == {i \in DOMAIN points : Reasons(points[i], budget) = {}}

recommend_operating_point(budget) ==
    First(Feasible(budget), LAMBDA i : <<Goodput(i), Goodput(i), -points[i].concurrency>>)

\* Mutant: an equal point dominates.
Dominates_Equal(i, j) ==
    LET mine == point_resource(points[i])  other == point_resource(points[j])
    IN  /\ i # j /\ Goodput(i) >= Goodput(j)
        /\ mine # Null /\ other # Null => mine <= other

Dominates(i, j) ==
    LET mine == point_resource(points[i])  other == point_resource(points[j])
        both == mine # Null /\ other # Null
    IN  /\ i # j /\ Goodput(i) >= Goodput(j)
        /\ both => mine <= other
        /\ Goodput(i) > Goodput(j) \/ (both /\ mine < other)

pareto_points(budget) ==
    {i \in Feasible(budget) : \A j \in Feasible(budget) : ~Dominates(j, i)}

-----------------------------------------------------------------------------
(* The sweep: every point of the grid is measured repeats times.           *)

SweepInit == plan \in Sweeps /\ points = <<>> /\ runs = <<>>

Running == Len(points) < Len(plan.grid)

RunOnce(entry) == /\ Running /\ Len(runs) < plan.repeats
                  /\ runs' = Append(runs, entry)
                  /\ UNCHANGED <<plan, points>>

PointEnds == /\ Running /\ Len(runs) = plan.repeats
             /\ points' = Append(points, [scenario       |-> plan.grid[Len(points) + 1].scenario,
                                          concurrency    |-> plan.grid[Len(points) + 1].concurrency,
                                          runs           |-> runs,
                                          aggregates     |-> aggregate_run_entries(runs),
                                          recommendation |-> build_point_recommendation(runs)])
             /\ runs' = <<>>
             /\ UNCHANGED plan

SweepNext == (\E entry \in Entries : RunOnce(entry)) \/ PointEnds

SweepSpec == SweepInit /\ [][SweepNext]_sweepVars

-----------------------------------------------------------------------------
\* docs/metric_spec.md and policy.py: a stricter limit never raises a recommendation, and
\* every point's dual boundary stays below its baseline.
Stricter(p) ==
    /\ p.recommendation.dual <= p.recommendation.baseline
    /\ \A hit \in Thresholds, cut \in {0, 1} :
          recommend_runs(p.runs, e2e_p95_slo_ms - cut, min_success_rate + cut, hit).recommended_rps
          <= recommend_runs(p.runs, e2e_p95_slo_ms, min_success_rate,
                            Min(Thresholds)).recommended_rps

\* run_capacity_sweep.py: the two summaries of a point (policy.py and window_metrics.py) that
\* its rank record mixes agree, a stricter limit never raises a recommendation, and a best
\* safe point is feasible and never ranked above the highest feasible point.
RankingSound ==
    runs = <<>> =>
        /\ \A i \in DOMAIN points :
              /\ points[i].aggregates.quality_summary = points[i].recommendation.quality_summary
              /\ Stricter(points[i])
        /\ \A i \in DOMAIN points :
              LET best    == best_safe_point(points[i].scenario)
                  highest == highest_feasible_point(points[i].scenario)
              IN  best # Null =>
                    /\ highest # Null
                    /\ \/ best = highest \/ Above(RankKey(highest), RankKey(best))
                       \/ RankKey(highest) = RankKey(best) /\ highest < best

\* docs/stage5_self_tuning.md: what is calibrated is backed by the runs of its own point: as
\* many as the sweep repeats meet every gate at the threshold, no tighter threshold keeps as
\* many, the rate expected is not above the dual boundary there, and nothing is recommended
\* only when no threshold has that many.
CalibrationBacked ==
    runs = <<>> /\ points # <<>> =>
        LET c == calibrate
            Backed(p, t) ==
                Cardinality({k \in DOMAIN p.runs :
                    /\ Passes(p.runs[k], e2e_p95_slo_ms, min_success_rate, t)
                    /\ get_entry_evidence_quality(p.runs[k]) # "missing"})
        IN  IF c = Null
            THEN \A i \in DOMAIN points, t \in Thresholds : Backed(points[i], t) < plan.repeats
            ELSE LET p == points[c.point]
                 IN  /\ Backed(p, c.threshold) >= plan.repeats
                     /\ \A t \in Thresholds : t > c.threshold => Backed(p, t) < plan.repeats
                     /\ c.expected_rps <=
                          recommend_runs(p.runs, e2e_p95_slo_ms, min_success_rate,
                                         c.threshold).recommended_rps

\* docs/stage8_slo_efficient_operating_envelope.md:25: the Pareto points are empty only when
\* nothing is feasible and reach the recommended goodput, and a smaller GPU-second budget
\* never raises it.
EnvelopeFront ==
    runs = <<>> =>
        LET Value(b) == LET i == recommend_operating_point(b) IN IF i = Null THEN 0 ELSE Goodput(i)
        IN  \A b \in Budgets :
               /\ (Feasible(b) = {}) <=> (pareto_points(b) = {})
               /\ Feasible(b) # {} => \E i \in pareto_points(b) : Goodput(i) = Value(b)
               /\ \A c \in Budgets :
                     (c = Null \/ (b # Null /\ b <= c)) => Value(b) <= Value(c)
=============================================================================
