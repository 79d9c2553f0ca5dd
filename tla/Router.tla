------------------------------- MODULE Router --------------------------------
(***************************************************************************)
(* The routing policy's lifecycle (gateway/internal/router/lifecycle.go),  *)
(* moved by the operator's calls, and the Plan calls of concurrent         *)
(* requests (router/controller.go) that read it, with the experiment's     *)
(* arms (gateway/internal/experiment) and the affinity map as evidence.    *)
(*                                                                         *)
(* A request's stable sample is a rank: request r is inside canary step k  *)
(* when Sample[r] <= k.  Scores are not modelled: any eligible backend may *)
(* have the highest one.                                                   *)
(***************************************************************************)
EXTENDS Integers, FiniteSets

CONSTANTS
    Requests,       \* bound: requests in flight at a time
    Backends,
    CanarySteps,    \* the number of canary fractions
    Sample,         \* rank of each request's stable sample
    Configs         \* configurations a gateway may be started with

NoBackend == "none"

Config == [lifecycle : BOOLEAN,            \* KAVORA_ROUTING_LIFECYCLE_CONFIG is set
           enabled : BOOLEAN,              \* LifecycleConfig.Enabled
           approval : BOOLEAN,             \* RequireHumanApproval
           mode : {"static", "load-aware", "shadow", "enforced"},
           experiment : BOOLEAN,           \* KAVORA_EXPERIMENT_CONFIG is set
           control : {"static", "load-aware", "kv"},
           treatment : {"static", "load-aware", "kv"}]

ASSUME RouterAssumption ==
    /\ CanarySteps \in Nat \ {0}
    /\ Sample \in [Requests -> Nat]
    /\ Configs \subseteq Config
    /\ NoBackend \notin Backends

VARIABLES
    config,
    \* Lifecycle
    stage, step, approved,
    granted,        \* history: an operator has approved since the last rollback
    \* Controller
    state,          \* age of each backend's snapshot: none, recent or old
    mapped,         \* Affinity: the backend of the requests' cache key
    \* one Plan per request
    pc,
    seen,           \* what Plan's first look at the lifecycle returned
    copied,         \* the snapshots' ages when Plan copied them
    enforced,       \* what its second look (Enforces) returned
    permitted,      \* history: granted when Enforces looked
    decision        \* the recorded Decision

lifecycle == <<stage, step, approved, granted>>
plans == <<pc, seen, copied, enforced, permitted, decision>>
vars == <<config, lifecycle, state, mapped, plans>>

Stages == {"static", "shadow", "canary", "enforced"}
Modes  == {"static", "load-aware", "shadow", "enforced"}

Decision == [stage : Stages \cup {"load-aware"}, mode : Modes, enforced : BOOLEAN,
             selected : Backends \cup {NoBackend}, fallback : BOOLEAN,
             actual : Backends \cup {NoBackend}]

Undecided == [stage |-> "static", mode |-> "static", enforced |-> FALSE,
              selected |-> NoBackend, fallback |-> FALSE, actual |-> NoBackend]

Init ==
    /\ config \in Configs
    /\ stage = IF config.enabled THEN "shadow" ELSE "static"
    /\ step = 1 /\ approved = FALSE /\ granted = FALSE
    /\ state = [b \in Backends |-> "none"]
    /\ mapped = NoBackend
    /\ pc = [r \in Requests |-> "idle"]
    /\ seen = [r \in Requests |-> "static"]
    /\ copied = [r \in Requests |-> [b \in Backends |-> "none"]]
    /\ enforced = [r \in Requests |-> FALSE]
    /\ permitted = [r \in Requests |-> FALSE]
    /\ decision = [r \in Requests |-> Undecided]

------------------------------------------------------------------------------
(* Lifecycle.                                                               *)

Approve ==
    /\ config.approval /\ stage = "shadow"
    /\ approved' = TRUE /\ granted' = TRUE
    /\ UNCHANGED <<config, stage, step, state, mapped, plans>>

\* Every failed gate but the request count resets stage, step and approval.
Rollback ==
    /\ stage' = "static" /\ step' = 1
    /\ approved' = FALSE /\ granted' = FALSE

\* Mutant: the first canary fraction is followed by enforcement.
Promote_SkipsSteps ==
    /\ CASE stage = "static" -> stage' = "shadow" /\ UNCHANGED step
         [] stage = "shadow" -> stage' = "canary" /\ step' = 1
         [] OTHER -> stage' = "enforced" /\ UNCHANGED step
    /\ UNCHANGED <<approved, granted>>

Promote ==
    /\ CASE stage = "static" -> stage' = "shadow" /\ UNCHANGED step
         [] stage = "shadow" -> stage' = "canary" /\ step' = 1
         [] stage = "canary" /\ step < CanarySteps -> step' = step + 1 /\ UNCHANGED stage
         [] stage = "canary" /\ step = CanarySteps -> stage' = "enforced" /\ UNCHANGED step
         [] stage = "enforced" -> UNCHANGED <<stage, step>>
    /\ UNCHANGED <<approved, granted>>

\* Mutant: approval is not asked for.
AwaitsApproval_Never == FALSE

AwaitsApproval == stage = "shadow" /\ config.approval /\ ~approved

Holds == UNCHANGED <<stage, step, approved, granted>>

\* An observation says whether state and policy are healthy, whether it covers
\* min_requests, and whether the configured quality gates pass.
Observe(healthy, enough, passes) ==
    /\ CASE ~config.enabled -> stage' = "static" /\ UNCHANGED <<step, approved, granted>>
         [] config.enabled /\ ~healthy -> Rollback
         [] config.enabled /\ healthy /\ ~enough -> Holds
         [] config.enabled /\ healthy /\ enough /\ ~passes -> Rollback
         [] config.enabled /\ healthy /\ enough /\ passes /\ AwaitsApproval -> Holds
         [] OTHER -> Promote
    /\ UNCHANGED <<config, state, mapped, plans>>

------------------------------------------------------------------------------
(* Backend state and affinity.                                              *)

SetState(b) ==
    /\ state[b] # "recent"
    /\ state' = [state EXCEPT ![b] = "recent"]
    /\ UNCHANGED <<config, lifecycle, mapped, plans>>

\* The last snapshot passes maxStateAge.
StateAges(b) ==
    /\ state[b] = "recent"
    /\ state' = [state EXCEPT ![b] = "old"]
    /\ UNCHANGED <<config, lifecycle, mapped, plans>>

AffinityExpires ==
    /\ mapped # NoBackend
    /\ mapped' = NoBackend
    /\ UNCHANGED <<config, lifecycle, state, plans>>

------------------------------------------------------------------------------
(* Plan.                                                                    *)

GoTo(r, s) == pc' = [pc EXCEPT ![r] = s]

\* Plan copies the controller's state and takes a first lifecycle snapshot.
PlanReads(r) ==
    /\ pc[r] = "idle"
    /\ GoTo(r, "read")
    /\ seen' = [seen EXCEPT ![r] = stage]
    /\ copied' = [copied EXCEPT ![r] = state]
    /\ UNCHANGED <<config, lifecycle, state, mapped, enforced, permitted, decision>>

\* Mutant: everything but a static lifecycle enforces.
Enforces_NotStatic(r) == stage # "static"

Enforces(r) == stage = "enforced" \/ (stage = "canary" /\ Sample[r] <= step)

\* Plan asks the lifecycle again whether this request is enforced.
PlanEnforces(r) ==
    /\ pc[r] = "read"
    /\ GoTo(r, "decide")
    /\ enforced' = [enforced EXCEPT ![r] =
                      IF config.lifecycle THEN Enforces(r)
                      ELSE config.mode \in {"enforced", "load-aware"}]
    /\ permitted' = [permitted EXCEPT ![r] = granted]
    /\ UNCHANGED <<config, lifecycle, state, mapped, seen, copied, decision>>

StageMode(s) == IF s \in {"static", "shadow"} THEN s ELSE "enforced"

ArmMode(policy) == IF policy = "kv" THEN "enforced" ELSE policy

\* The mode that scores and the enforcement flag, for the arm the experiment
\* assigned (its control arm while the lifecycle does not enforce).
PlanMode(r, arm) ==
    IF config.experiment THEN ArmMode(arm)
    ELSE IF config.lifecycle THEN StageMode(seen[r]) ELSE config.mode

PlanEnforced(r, mode) ==
    CASE ~config.experiment -> enforced[r]
      [] config.experiment /\ config.lifecycle ->
            enforced[r] /\ mode \in {"enforced", "load-aware"}
      [] OTHER -> mode \in {"enforced", "load-aware"}

Arms(r) == IF config.lifecycle /\ ~enforced[r] THEN {config.control}
           ELSE {config.control, config.treatment}

\* The best-scored eligible backend is selected when its evidence has confidence:
\* the age of its state in load-aware mode, the affinity map otherwise.
Selects(r, mode, top) ==
    CASE mode = "static" -> FALSE
      [] mode = "load-aware" -> copied[r][top] = "recent"
      [] OTHER -> top = mapped

\* top is the best-scored eligible backend, or none when no backend is eligible.
PlanDecides(r, arm, top) ==
    /\ pc[r] = "decide" /\ arm \in Arms(r)
    /\ GoTo(r, "decided")
    /\ LET mode   == PlanMode(r, arm)
           chosen == top # NoBackend /\ Selects(r, mode, top)
       IN  decision' = [decision EXCEPT ![r] =
             [stage    |-> IF config.lifecycle THEN seen[r] ELSE config.mode,
              mode     |-> mode,
              enforced |-> PlanEnforced(r, mode),
              selected |-> IF chosen THEN top ELSE NoBackend,
              fallback |-> ~chosen /\ (mode # "static" \/ top = NoBackend),
              actual   |-> NoBackend]]
    /\ seen' = [seen EXCEPT ![r] = "static"]           \* Plan returns: its
    /\ enforced' = [enforced EXCEPT ![r] = FALSE]      \* locals are gone
    /\ UNCHANGED <<config, lifecycle, state, mapped, copied, permitted>>

\* PreferredIDsForDecision: the selected backend goes in front of the candidates.
Steers(r) == decision[r].enforced /\ ~decision[r].fallback
                /\ decision[r].selected # NoBackend

Prefer(r) ==
    /\ pc[r] = "decided"
    /\ GoTo(r, "routed")
    /\ mapped' = IF Steers(r) THEN decision[r].selected ELSE mapped
    /\ copied' = [copied EXCEPT ![r] = [b \in Backends |-> "none"]]
    /\ UNCHANGED <<config, lifecycle, state, seen, enforced, permitted, decision>>

\* The backend that answered is remembered ...
RecordActual(r, b) ==
    /\ pc[r] = "routed"
    /\ GoTo(r, "served")
    /\ mapped' = b
    /\ decision' = [decision EXCEPT ![r].actual = b]
    /\ UNCHANGED <<config, lifecycle, state, seen, copied, enforced, permitted>>

\* ... and again when the request is over; when every candidate failed it is the
\* last one tried that is remembered.  The handler is free for another request.
RecordOutcome(r, b) ==
    /\ \/ pc[r] = "served" /\ b = decision[r].actual
       \/ pc[r] = "routed" /\ b \in Backends \cup {NoBackend}
    /\ GoTo(r, "idle")
    /\ mapped' = IF b = NoBackend THEN mapped ELSE b
    /\ decision' = [decision EXCEPT ![r] = Undecided]
    /\ permitted' = [permitted EXCEPT ![r] = FALSE]
    /\ UNCHANGED <<config, lifecycle, state, seen, copied, enforced>>

Plan(r) == \/ PlanReads(r) \/ PlanEnforces(r) \/ Prefer(r)
           \/ \E arm \in {"static", "load-aware", "kv"}, top \in Backends \cup {NoBackend} :
                 PlanDecides(r, arm, top)
           \/ \E b \in Backends : RecordActual(r, b)
           \/ \E b \in Backends \cup {NoBackend} : RecordOutcome(r, b)

Next == \/ Approve
        \/ \E h, e, p \in BOOLEAN : Observe(h, e, p)
        \/ \E b \in Backends : SetState(b) \/ StateAges(b)
        \/ AffinityExpires
        \/ \E r \in Requests : Plan(r)

Spec == Init /\ [][Next]_vars

------------------------------------------------------------------------------

\* Every variable of the lifecycle, the controller and the plans has its type; the
\* canary step indexes CanarySteps.
TypeOK ==
    /\ config \in Configs
    /\ stage \in Stages /\ step \in 1..CanarySteps
    /\ approved \in BOOLEAN /\ granted \in BOOLEAN
    /\ state \in [Backends -> {"none", "recent", "old"}]
    /\ mapped \in Backends \cup {NoBackend}
    /\ pc \in [Requests -> {"idle", "read", "decide", "decided", "routed", "served"}]
    /\ seen \in [Requests -> Stages]
    /\ copied \in [Requests -> [Backends -> {"none", "recent", "old"}]]
    /\ enforced \in [Requests -> BOOLEAN] /\ permitted \in [Requests -> BOOLEAN]
    /\ decision \in [Requests -> Decision]

Live == {"canary", "enforced"}

\* stage5_self_tuning.md:71 and :81: with require_human_approval a lifecycle is
\* live only with an approval given after its last rollback, whatever the order of
\* the operator's approve and observe calls (Approve, Observe).
ApprovalGates == (config.approval /\ stage \in Live) => approved /\ granted

\* No request is steered under a lifecycle that requires approval unless the
\* operator's approval stood when the request was planned, however Plan's two looks
\* interleave with promotions and rollbacks (Plan, PreferredIDsForDecision).
OnlyApprovedSteers ==
    \A r \in Requests :
        (config.lifecycle /\ config.approval /\ Steers(r)) => permitted[r]

\* The inductive form of the two: a plan that read "enforced" read it from a live,
\* approved lifecycle (Plan between its second look and its decision).
PlanInv ==
    /\ ApprovalGates
    /\ approved => granted
    /\ \A r \in Requests :
         /\ (config.lifecycle /\ config.approval /\ enforced[r]) => permitted[r]
         /\ (config.lifecycle /\ config.approval /\ decision[r].enforced) => permitted[r]
         /\ pc[r] \in {"idle", "read", "decide"} => ~decision[r].enforced
         /\ enforced[r] => pc[r] = "decide"

\* The rollout moves one step at a time towards enforcement and in one step back to
\* static; it never skips a canary fraction (Observe's switch).
PromotionPath ==
    [][ \/ stage' = "static"
        \/ stage' = stage /\ step' \in {step, step + 1}
        \/ stage = "static" /\ stage' = "shadow"
        \/ stage = "shadow" /\ stage' = "canary" /\ step' = 1
        \/ stage = "canary" /\ step = CanarySteps /\ stage' = "enforced" ]_vars

\* stage2_gate.md:3: shadow evaluation does not reorder traffic.
ShadowNeverSteers ==
    \A r \in Requests :
        decision[r].stage = "shadow" => ~Steers(r)
=============================================================================
