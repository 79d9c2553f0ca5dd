-------------------------- MODULE PolicyEvaluation --------------------------
(***************************************************************************)
(* A routing experiment and its verdict: the assignment of requests to     *)
(* arms by the gateway (internal/experiment/controller.go), the journals   *)
(* of decisions and outcomes it leaves, and the report planner/            *)
(* policy_evaluation.py makes of them.                                     *)
(*                                                                         *)
(* Time is discrete; decisions are journalled in any order.  An outcome    *)
(* may come long after its decision or, if the gateway went down in        *)
(* between, never.  The bootstrap is any interval its resamples can give;  *)
(* TTFTs are whole units, 0 when none was seen, rates are in percent.      *)
(***************************************************************************)
EXTENDS Integers, FiniteSets, FiniteSetsExt, Functions

CONSTANTS
    Requests,
    Window, Warmup, Cooldown, StartAt, MaxDuration,   \* Warmup + Cooldown < Window
    Outcomes,          \* what may be recorded of a request: [success, ttft, tpot, fallback]
    ttft_slo, tpot_slo, min_requests,
    max_error_rate, max_fallback_rate, max_p95_ttft,
    Samples,           \* sets of windows whose sample may fall to the treatment
    Pools,             \* sets of requests whose sample may
    Times,             \* when requests come
    None

\* What NewController accepts; clocks tell whole units, and so does the p95 guardrail.
ASSUME ExperimentAssumption ==
    /\ Window \in Nat \ {0} /\ Warmup \in Nat /\ Cooldown \in Nat /\ MaxDuration \in Nat
    /\ StartAt \in Int /\ Times \subseteq Int /\ None \notin Times
    /\ \A o \in Outcomes : o.ttft \in Nat
    /\ max_p95_ttft \in Nat

VARIABLES
    design,            \* "switchback" or "isolated-pool"
    treated,           \* the units whose sample falls below treatment_probability
    decisions,         \* the decision journal, by request
    outcomes           \* the outcome journal, by request

vars == <<design, treated, decisions, outcomes>>

-----------------------------------------------------------------------------
(* The assignment.                                                         *)

inactiveAssignment ==
    [policy |-> "control", window |-> <<"inactive">>, warmup |-> FALSE, guard |-> TRUE,
     probability |-> 100, at |-> None]

\* Mutant: the cool-down begins one step late.
Assign_LateCooldown(r, now) ==
    LET offset == (now - StartAt) % Window
        index  == (now - StartAt) \div Window
        unit   == IF design = "switchback" THEN index ELSE r
    IN  IF now < StartAt \/ now - StartAt >= MaxDuration THEN inactiveAssignment
        ELSE [policy |-> IF unit \in treated THEN "treatment" ELSE "control",
              window |-> IF design = "switchback" THEN <<"window", index>> ELSE <<"isolated-pool">>,
              warmup |-> design = "switchback" /\ offset < Warmup,
              guard  |-> design = "switchback"
                         /\ (offset < Warmup \/ Window - offset < Cooldown),
              probability |-> 50, at |-> now]

\* probability is that of the arm; treatment_probability is one half.
Assign(r, now) ==
    LET offset == (now - StartAt) % Window
        index  == (now - StartAt) \div Window
        unit   == IF design = "switchback" THEN index ELSE r
    IN  IF now < StartAt \/ now - StartAt >= MaxDuration THEN inactiveAssignment
        ELSE [policy |-> IF unit \in treated THEN "treatment" ELSE "control",
              window |-> IF design = "switchback" THEN <<"window", index>> ELSE <<"isolated-pool">>,
              warmup |-> design = "switchback" /\ offset < Warmup,
              guard  |-> design = "switchback"
                         /\ (offset < Warmup \/ Window - offset <= Cooldown),
              probability |-> 50, at |-> now]

-----------------------------------------------------------------------------
Init == /\ design \in {"switchback", "isolated-pool"}
        /\ treated \in IF design = "switchback" THEN Samples ELSE Pools
        /\ decisions = <<>> /\ outcomes = <<>>

\* Plan journals its decision: the assignment, or ControlAssignment while the lifecycle
\* does not let the experiment steer.
Decide(r, now) ==
    /\ r \notin DOMAIN decisions
    /\ \E assignment \in {Assign(r, now), inactiveAssignment} :
          decisions' = [q \in DOMAIN decisions \cup {r} |->
                          IF q = r THEN assignment ELSE decisions[q]]
    /\ UNCHANGED <<design, treated, outcomes>>

Complete(r, o) ==
    /\ r \in DOMAIN decisions \ DOMAIN outcomes
    /\ outcomes' = [q \in DOMAIN outcomes \cup {r} |-> IF q = r THEN o ELSE outcomes[q]]
    /\ UNCHANGED <<design, treated, decisions>>

Next == \E r \in Requests : \/ \E now \in Times : Decide(r, now)
                            \/ \E o \in Outcomes : Complete(r, o)

Spec == Init /\ [][Next]_vars

-----------------------------------------------------------------------------
(* The report.  Rows are the requests with a decision and an outcome.      *)

joined == DOMAIN decisions \cap DOMAIN outcomes

guarded == {r \in joined : decisions[r].warmup \/ decisions[r].guard}

eligible == joined \ guarded

\* Mutant: the arms are taken before the guarded rows are left out.
Arm_Guarded(policy) == {r \in joined : decisions[r].policy = policy}

Arm(policy) == {r \in eligible : decisions[r].policy = policy}

Sampled(rows) == {r \in rows : outcomes[r].ttft > 0}

ttfts(rows) == [r \in Sampled(rows) |-> outcomes[r].ttft]

mean(values) == SumFunction(values) \div Cardinality(DOMAIN values)

\* _percentile: the k-th smallest value, and between two of them in hundredths.
Kth(values, k) ==
    CHOOSE v \in Range(values) :
        /\ Cardinality({r \in DOMAIN values : values[r] < v}) < k
        /\ Cardinality({r \in DOMAIN values : values[r] <= v}) >= k

percentile95(values) ==
    LET position == 95 * (Cardinality(DOMAIN values) - 1)
        low      == Kth(values, position \div 100 + 1)
        high     == IF position % 100 = 0 THEN low ELSE Kth(values, position \div 100 + 2)
    IN  100 * low + (high - low) * (position % 100)

qualified_request(o) ==
    IF ~o.success THEN "request_failed"
    ELSE IF o.ttft = 0 \/ o.ttft > ttft_slo THEN "ttft_slo_violation"
    ELSE IF tpot_slo # None /\ o.tpot = None THEN "tpot_missing"
    ELSE IF tpot_slo # None /\ o.tpot > tpot_slo THEN "tpot_slo_violation"
    ELSE "qualified"

Rate(rows, Holds(_)) ==
    IF rows = {} THEN None
    ELSE (100 * Cardinality({r \in rows : Holds(outcomes[r])})) \div Cardinality(rows)

arm_metrics(rows) ==
    [requests           |-> Cardinality(rows),
     ttft_p95           |-> IF Sampled(rows) = {} THEN None ELSE percentile95(ttfts(rows)),
     slo_violation_rate |-> Rate(Sampled(rows), LAMBDA o : o.ttft > ttft_slo),
     qualified          |-> Cardinality({r \in rows : qualified_request(outcomes[r]) = "qualified"}),
     error_rate         |-> Rate(rows, LAMBDA o : ~o.success),
     fallback_rate      |-> Rate(rows, LAMBDA o : o.fallback)]

\* The mean of every window that has samples.
window_means(rows) ==
    LET Of(w) == {r \in Sampled(rows) : decisions[r].window = w}
    IN  {[window |-> w, mean |-> mean(Restrict(ttfts(rows), Of(w)))] :
            w \in {decisions[r].window : r \in Sampled(rows)}}

\* The values the bootstrap draws from: window means when both arms have several, else TTFTs.
clustered == /\ Cardinality(window_means(Arm("control"))) > 1
             /\ Cardinality(window_means(Arm("treatment"))) > 1

Values(policy) == IF clustered THEN {w.mean : w \in window_means(Arm(policy))}
                  ELSE Range(ttfts(Arm(policy)))

\* ci_high < 0 for some draw; the mean of a resample is within its values.
MayImprove == Min(Values("treatment")) < Max(Values("control"))

assignment_ok == \A r \in joined : /\ 0 < decisions[r].probability /\ decisions[r].probability <= 100
                                   /\ decisions[r].policy \in {"control", "treatment"}

contaminated_windows ==
    {w \in {decisions[r].window : r \in eligible} :
        /\ w # <<"isolated-pool">>
        /\ Cardinality({decisions[r].policy : r \in {r \in eligible : decisions[r].window = w}}) > 1}

\* evaluate_experiment raises without samples in both arms.
Evaluable == Sampled(Arm("control")) # {} /\ Sampled(Arm("treatment")) # {}

\* A decision is journalled before its outcome is known, so none holds a prediction error
\* and the guardrail on prediction drift compares 0 with its limit.
promotion_eligible ==
    LET c == arm_metrics(Arm("control"))  t == arm_metrics(Arm("treatment"))
    IN  /\ Evaluable
        /\ Cardinality(eligible) >= min_requests
        /\ Max({c.error_rate, t.error_rate}) <= max_error_rate
        /\ Max({c.fallback_rate, t.fallback_rate}) <= max_fallback_rate
        /\ Max({c.ttft_p95, t.ttft_p95}) <= 100 * max_p95_ttft
        /\ assignment_ok /\ contaminated_windows = {}
        /\ MayImprove

-----------------------------------------------------------------------------
\* docs/stage7_causal_policy_evaluation.md:20-21, 86-94: whatever the order of decisions and
\* outcomes and however the lifecycle changes, every row an evaluation compares was decided
\* by the running experiment outside the warm-up and cool-down of its window, no window of a
\* switchback serves both arms, and the journals of one experiment never fail the integrity
\* checks of its own evaluation (controller.go Assign, policy_evaluation.py).
RowsComparable ==
    /\ assignment_ok /\ contaminated_windows = {}
    /\ \A r \in eligible :
          LET elapsed == decisions[r].at - StartAt
          IN  /\ elapsed \in 0 .. MaxDuration - 1
              /\ design = "switchback" => elapsed % Window \in Warmup .. Window - Cooldown - 1
    /\ design = "switchback" =>
          \A r, q \in eligible : (decisions[r].at - StartAt) \div Window
                                   = (decisions[q].at - StartAt) \div Window
                                 => decisions[r].policy = decisions[q].policy

\* Decided by the running experiment, outside the guards of its window.
InMeasure(r) ==
    /\ decisions[r].at # None
    /\ LET elapsed == decisions[r].at - StartAt
       IN  /\ elapsed \in 0 .. MaxDuration - 1
           /\ design = "switchback" => elapsed % Window \in Warmup .. Window - Cooldown - 1

\* docs/stage7_causal_policy_evaluation.md:20-21: only the answer to a request decided by the
\* running experiment outside warm-up and cool-down sways the verdict.  New decisions, and
\* the late outcomes of requests that came before the start, after the end, at the edge of a
\* window or while the lifecycle kept the experiment from steering, neither make nor spoil a
\* promotion (controller.go Assign, ControlAssignment; policy_evaluation.py).
VerdictUnswayed ==
    [][\/ \E r \in DOMAIN outcomes' \ DOMAIN outcomes : InMeasure(r)
       \/ promotion_eligible' = promotion_eligible]_vars
=============================================================================
