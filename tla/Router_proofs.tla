---------------------------- MODULE Router_proofs ----------------------------
(***************************************************************************)
(* Proofs about Router, for any requests, backends, canary steps, samples  *)
(* and configurations.                                                     *)
(***************************************************************************)
EXTENDS Router, TLAPS

Inv == TypeOK /\ PlanInv

\* The configuration's fields have their types.
LEMMA ConfigFields ==
    ASSUME NEW c \in Configs
    PROVE  /\ c.lifecycle \in BOOLEAN /\ c.enabled \in BOOLEAN
           /\ c.approval \in BOOLEAN /\ c.experiment \in BOOLEAN
           /\ c.mode \in Modes
           /\ c.control \in {"static", "load-aware", "kv"}
           /\ c.treatment \in {"static", "load-aware", "kv"}
  BY RouterAssumption DEF Config, Modes

LEMMA InitInv == Init => Inv
<1> SUFFICES ASSUME Init PROVE Inv
  OBVIOUS
<1>1. 1 \in 1..CanarySteps
  BY RouterAssumption
<1>2. Undecided \in Decision
  BY DEF Undecided, Decision, Stages, Modes
<1>3. stage \in {"static", "shadow"}
  BY DEF Init
<1>4. TypeOK
  BY <1>1, <1>2, <1>3 DEF Init, TypeOK, Stages
<1>5. PlanInv
  BY <1>3 DEF Init, PlanInv, ApprovalGates, Live, Undecided
<1> QED
  BY <1>4, <1>5 DEF Inv

------------------------------------------------------------------------------
(* Lifecycle steps leave the plans alone.                                   *)

\* What a lifecycle step must show.
LEMMA LifecycleStep ==
    ASSUME Inv, UNCHANGED <<config, state, mapped, plans>>,
           stage' \in Stages, step' \in 1..CanarySteps,
           approved' \in BOOLEAN, granted' \in BOOLEAN,
           (config.approval /\ stage' \in Live) => approved' /\ granted',
           approved' => granted'
    PROVE  Inv'
<1>1. TypeOK'
  BY DEF Inv, TypeOK, plans
<1>2. PlanInv'
  BY DEF Inv, PlanInv, ApprovalGates, plans
<1> QED
  BY <1>1, <1>2 DEF Inv

LEMMA ApproveInv == Inv /\ Approve => Inv'
<1> SUFFICES ASSUME Inv, Approve PROVE Inv'
  OBVIOUS
<1>1. stage' \in Stages /\ step' \in 1..CanarySteps
  BY DEF Inv, TypeOK, Approve
<1>2. approved' = TRUE /\ granted' = TRUE
  BY DEF Approve
<1>3. UNCHANGED <<config, state, mapped, plans>>
  BY DEF Approve
<1> QED
  BY <1>1, <1>2, <1>3, LifecycleStep

\* Promotion leaves shadow only with an approval and never passes the last step.
LEMMA PromoteKeeps ==
    ASSUME Inv, Promote, ~AwaitsApproval
    PROVE  /\ stage' \in Stages /\ step' \in 1..CanarySteps
           /\ (config.approval /\ stage' \in Live) => approved' /\ granted'
           /\ approved' = approved /\ granted' = granted
<1>1. stage \in Stages /\ step \in 1..CanarySteps /\ CanarySteps \in Nat \ {0}
  BY RouterAssumption DEF Inv, TypeOK
<1>2. approved' = approved /\ granted' = granted
  BY DEF Promote
<1>3. approved => granted
  BY DEF Inv, PlanInv
<1>4. (config.approval /\ stage \in Live) => approved /\ granted
  BY DEF Inv, PlanInv, ApprovalGates
<1>5. config.approval /\ stage = "shadow" => approved /\ granted
  BY <1>3 DEF AwaitsApproval
<1>6. CASE stage = "static"
  BY <1>1, <1>2, <1>6 DEF Promote, Stages, Live
<1>7. CASE stage = "shadow"
  BY <1>1, <1>2, <1>5, <1>7 DEF Promote, Stages, Live
<1>8. CASE stage = "canary" /\ step < CanarySteps
  <2>0. step # CanarySteps
    BY <1>1, <1>8
  <2>1. step' = step + 1 /\ stage' = stage
    BY <1>8, <2>0, Zenon DEF Promote
  <2>2. step + 1 \in 1..CanarySteps
    BY <1>1, <1>8
  <2> QED
    BY <2>1, <2>2, <1>1, <1>2, <1>4
<1>9. CASE stage = "canary" /\ step = CanarySteps
  BY <1>1, <1>2, <1>4, <1>9 DEF Promote, Stages, Live
<1>10. CASE stage = "enforced"
  BY <1>1, <1>2, <1>4, <1>10 DEF Promote, Stages, Live
<1> QED
  BY <1>1, <1>6, <1>7, <1>8, <1>9, <1>10 DEF Stages

LEMMA ObserveInv ==
    ASSUME NEW h \in BOOLEAN, NEW e \in BOOLEAN, NEW p \in BOOLEAN, Inv, Observe(h, e, p)
    PROVE  Inv'
<1>1. /\ stage \in Stages /\ step \in 1..CanarySteps
      /\ approved \in BOOLEAN /\ granted \in BOOLEAN /\ (approved => granted)
      /\ (config.approval /\ stage \in Live) => approved /\ granted
  BY DEF Inv, TypeOK, PlanInv, ApprovalGates
<1>2. UNCHANGED <<config, state, mapped, plans>>
  BY DEF Observe
<1>3. CASE ~config.enabled
  <2>1. stage' = "static" /\ UNCHANGED <<step, approved, granted>>
    BY <1>3 DEF Observe
  <2> QED
    BY <2>1, <1>1, <1>2, LifecycleStep DEF Stages, Live
<1>4. CASE Rollback
  <2>1. 1 \in 1..CanarySteps
    BY RouterAssumption
  <2> QED
    BY <2>1, <1>4, <1>2, LifecycleStep DEF Rollback, Stages, Live
<1>5. CASE Holds
  BY <1>5, <1>1, <1>2, LifecycleStep DEF Holds
<1>6. CASE Promote /\ ~AwaitsApproval
  <2>1. /\ stage' \in Stages /\ step' \in 1..CanarySteps
        /\ (config.approval /\ stage' \in Live) => approved' /\ granted'
        /\ approved' = approved /\ granted' = granted
    BY <1>6, PromoteKeeps
  <2> QED
    BY <2>1, <1>1, <1>2, LifecycleStep
<1>7. ~config.enabled \/ Rollback \/ Holds \/ (Promote /\ ~AwaitsApproval)
  BY Zenon DEF Observe
<1> QED
  BY <1>3, <1>4, <1>5, <1>6, <1>7

------------------------------------------------------------------------------
(* Plan.                                                                    *)

LEMMA EnvironmentInv ==
    ASSUME NEW b \in Backends, Inv, SetState(b) \/ StateAges(b) \/ AffinityExpires
    PROVE  Inv'
<1>1. UNCHANGED <<config, lifecycle, plans>>
  BY DEF SetState, StateAges, AffinityExpires
<1>2. state' \in [Backends -> {"none", "recent", "old"}] /\ mapped' \in Backends \cup {NoBackend}
  BY DEF Inv, TypeOK, SetState, StateAges, AffinityExpires
<1>3. TypeOK'
  BY <1>1, <1>2 DEF Inv, TypeOK, lifecycle, plans
<1>4. PlanInv'
  BY <1>1 DEF Inv, PlanInv, ApprovalGates, lifecycle, plans
<1> QED
  BY <1>3, <1>4 DEF Inv

Places == {"idle", "read", "decide", "decided", "routed", "served"}

\* What a step of request r's plan must show: the other plans stay as they are.
LEMMA PlanStep ==
    ASSUME Inv, NEW r \in Requests, NEW s, pc' = [pc EXCEPT ![r] = s],
           UNCHANGED <<config, lifecycle>>,
           \A q \in Requests \ {r} :
               enforced'[q] = enforced[q] /\ permitted'[q] = permitted[q]
                 /\ decision'[q] = decision[q],
           (config.lifecycle /\ config.approval /\ enforced'[r]) => permitted'[r],
           (config.lifecycle /\ config.approval /\ decision'[r].enforced) => permitted'[r],
           s \in {"idle", "read", "decide"} => ~decision'[r].enforced,
           enforced'[r] => s = "decide"
    PROVE  PlanInv'
<1>1. ApprovalGates' /\ (approved' => granted')
  BY DEF Inv, PlanInv, ApprovalGates, lifecycle
<1>2. pc \in [Requests -> Places]
  BY DEF Inv, TypeOK, Places
<1>3. ASSUME NEW q \in Requests
      PROVE  /\ (config.lifecycle /\ config.approval /\ enforced'[q]) => permitted'[q]
             /\ (config.lifecycle /\ config.approval /\ decision'[q].enforced) => permitted'[q]
             /\ pc'[q] \in {"idle", "read", "decide"} => ~decision'[q].enforced
             /\ enforced'[q] => pc'[q] = "decide"
  <2>1. CASE q = r
    BY <2>1, <1>2
  <2>2. CASE q # r
    <3>1. pc'[q] = pc[q]
      BY <2>2, <1>2
    <3> QED
      BY <3>1, <2>2 DEF Inv, PlanInv
  <2> QED
    BY <2>1, <2>2
<1> QED
  BY <1>1, <1>3 DEF PlanInv

LEMMA PlanReadsInv ==
    ASSUME NEW r \in Requests, Inv, PlanReads(r)
    PROVE  Inv'
<1>1. TypeOK'
  BY DEF Inv, TypeOK, PlanReads, GoTo, lifecycle
<1>2. PlanInv'
  <2>1. pc[r] = "idle" /\ pc' = [pc EXCEPT ![r] = "read"]
        /\ UNCHANGED <<config, lifecycle, enforced, permitted, decision>>
    BY DEF PlanReads, GoTo
  <2> QED
    BY <2>1, PlanStep DEF Inv, PlanInv
<1> QED
  BY <1>1, <1>2 DEF Inv

\* Only a live lifecycle enforces.
LEMMA EnforcesLive ==
    ASSUME NEW r \in Requests, Enforces(r)
    PROVE  stage \in Live
  BY DEF Enforces, Live

LEMMA PlanEnforcesInv ==
    ASSUME NEW r \in Requests, Inv, PlanEnforces(r)
    PROVE  Inv'
<1> DEFINE e == IF config.lifecycle THEN Enforces(r)
                ELSE config.mode \in {"enforced", "load-aware"}
<1>1. e \in BOOLEAN
  <2>1. Enforces(r) \in BOOLEAN
    BY DEF Enforces
  <2>2. (config.mode \in {"enforced", "load-aware"}) \in BOOLEAN
    OBVIOUS
  <2> QED
    BY <2>1, <2>2, Zenon
<1>2. enforced' = [enforced EXCEPT ![r] = e] /\ permitted' = [permitted EXCEPT ![r] = granted]
  BY DEF PlanEnforces
<1>3. UNCHANGED <<config, lifecycle, state, mapped, seen, copied, decision>>
  BY DEF PlanEnforces
<1>4. pc[r] = "read" /\ pc' = [pc EXCEPT ![r] = "decide"]
  BY DEF PlanEnforces, GoTo
<1>5. config.lifecycle /\ config.approval /\ e => granted
  BY EnforcesLive DEF Inv, PlanInv, ApprovalGates
<1> HIDE DEF e
<1>6. TypeOK'
  BY <1>1, <1>2, <1>3, <1>4 DEF Inv, TypeOK, lifecycle
<1>7. PlanInv'
  <2>1. enforced'[r] = e /\ permitted'[r] = granted
    BY <1>2 DEF Inv, TypeOK
  <2>2. \A q \in Requests \ {r} : enforced'[q] = enforced[q] /\ permitted'[q] = permitted[q]
    BY <1>2 DEF Inv, TypeOK
  <2>3. ~decision[r].enforced
    BY <1>4 DEF Inv, PlanInv
  <2> QED
    BY <1>3, <1>4, <1>5, <2>1, <2>2, <2>3, PlanStep
<1> QED
  BY <1>6, <1>7 DEF Inv

\* The mode that scores is one of the four modes.
LEMMA PlanModeType ==
    ASSUME NEW r \in Requests, Inv, NEW arm \in {"static", "load-aware", "kv"}
    PROVE  PlanMode(r, arm) \in Modes
<1>1. config \in Configs /\ seen[r] \in Stages
  BY DEF Inv, TypeOK
<1>2. config.mode \in Modes
  BY <1>1, ConfigFields
<1>3. StageMode(seen[r]) \in Modes
  BY <1>1 DEF StageMode, Stages, Modes
<1>4. ArmMode(arm) \in Modes
  BY DEF ArmMode, Modes
<1> QED
  BY <1>2, <1>3, <1>4, Zenon DEF PlanMode

\* Under a lifecycle the recorded enforcement never exceeds what Enforces said.
LEMMA PlanEnforcedSound ==
    ASSUME NEW r \in Requests, Inv, NEW mode
    PROVE  /\ PlanEnforced(r, mode) \in BOOLEAN
           /\ config.lifecycle /\ PlanEnforced(r, mode) => enforced[r]
<1>1. config \in Configs /\ enforced[r] \in BOOLEAN
  BY DEF Inv, TypeOK
<1>2. config.lifecycle \in BOOLEAN /\ config.experiment \in BOOLEAN
  BY <1>1, ConfigFields
<1>3. CASE ~config.experiment
  <2>1. PlanEnforced(r, mode) = enforced[r]
    BY <1>3 DEF PlanEnforced
  <2> QED
    BY <2>1, <1>1
<1>4. CASE config.experiment /\ config.lifecycle
  <2>1. PlanEnforced(r, mode) = (enforced[r] /\ mode \in {"enforced", "load-aware"})
    BY <1>4 DEF PlanEnforced
  <2> QED
    BY <2>1, <1>1
<1>5. CASE config.experiment /\ ~config.lifecycle
  <2>1. PlanEnforced(r, mode) = (mode \in {"enforced", "load-aware"})
    BY <1>5 DEF PlanEnforced
  <2> QED
    BY <2>1, <1>5
<1> QED
  BY <1>2, <1>3, <1>4, <1>5

LEMMA PlanDecidesInv ==
    ASSUME NEW r \in Requests, NEW arm \in {"static", "load-aware", "kv"},
           NEW top \in Backends \cup {NoBackend}, Inv, PlanDecides(r, arm, top)
    PROVE  Inv'
<1> DEFINE mode   == PlanMode(r, arm)
           chosen == top # NoBackend /\ Selects(r, mode, top)
           st  == IF config.lifecycle THEN seen[r] ELSE config.mode
           sel == IF chosen THEN top ELSE NoBackend
           fb  == ~chosen /\ (mode # "static" \/ top = NoBackend)
           d   == [stage |-> st, mode |-> mode, enforced |-> PlanEnforced(r, mode),
                   selected |-> sel, fallback |-> fb, actual |-> NoBackend]
<1>1. config \in Configs /\ seen[r] \in Stages
  BY DEF Inv, TypeOK
<1>2. mode \in Modes
  BY PlanModeType
<1>3. st \in Stages \cup {"load-aware"}
  <2>1. config.mode \in Modes
    BY <1>1, ConfigFields
  <2> QED
    BY <2>1, <1>1 DEF Modes, Stages
<1>4. sel \in Backends \cup {NoBackend}
  OBVIOUS
<1>5. fb \in BOOLEAN
  OBVIOUS
<1>6. /\ PlanEnforced(r, mode) \in BOOLEAN
      /\ config.lifecycle /\ PlanEnforced(r, mode) => enforced[r]
  BY PlanEnforcedSound
<1>7. decision' = [decision EXCEPT ![r] = d]
  BY DEF PlanDecides
<1>8. /\ pc' = [pc EXCEPT ![r] = "decided"]
      /\ seen' = [seen EXCEPT ![r] = "static"]
      /\ enforced' = [enforced EXCEPT ![r] = FALSE]
      /\ UNCHANGED <<config, lifecycle, state, mapped, copied, permitted>>
  BY DEF PlanDecides, GoTo
<1> HIDE DEF mode, st, sel, fb
<1>9. d \in Decision /\ d.enforced = PlanEnforced(r, mode)
  BY <1>2, <1>3, <1>4, <1>5, <1>6 DEF Decision
<1> HIDE DEF d
<1>10. TypeOK'
  BY <1>7, <1>8, <1>9 DEF Inv, TypeOK, lifecycle, Stages
<1>11. PlanInv'
  <2>1. decision'[r] = d /\ ~enforced'[r] /\ permitted'[r] = permitted[r]
    BY <1>7, <1>8 DEF Inv, TypeOK
  <2>2. \A q \in Requests \ {r} : enforced'[q] = enforced[q] /\ decision'[q] = decision[q]
    BY <1>7, <1>8 DEF Inv, TypeOK
  <2>3. (config.lifecycle /\ config.approval /\ d.enforced) => permitted[r]
    BY <1>6, <1>9 DEF Inv, PlanInv
  <2> QED
    BY <1>8, <2>1, <2>2, <2>3, PlanStep
<1> QED
  BY <1>10, <1>11 DEF Inv

LEMMA PreferInv ==
    ASSUME NEW r \in Requests, Inv, Prefer(r)
    PROVE  Inv'
<1>1. /\ pc' = [pc EXCEPT ![r] = "routed"]
      /\ copied' = [copied EXCEPT ![r] = [b \in Backends |-> "none"]]
      /\ UNCHANGED <<config, lifecycle, state, seen, enforced, permitted, decision>>
  BY DEF Prefer, GoTo
<1>2. mapped' \in Backends \cup {NoBackend}
  BY DEF Inv, TypeOK, Prefer, Decision
<1>3. TypeOK'
  BY <1>1, <1>2 DEF Inv, TypeOK, lifecycle
<1>4. PlanInv'
  <2>1. ~enforced[r]
    BY DEF Inv, PlanInv, Prefer
  <2> QED
    BY <1>1, <2>1, PlanStep DEF Inv, PlanInv
<1> QED
  BY <1>3, <1>4 DEF Inv

LEMMA RecordActualInv ==
    ASSUME NEW r \in Requests, NEW b \in Backends, Inv, RecordActual(r, b)
    PROVE  Inv'
<1> DEFINE d == [decision[r] EXCEPT !.actual = b]
<1>1. /\ pc' = [pc EXCEPT ![r] = "served"] /\ mapped' = b
      /\ decision' = [decision EXCEPT ![r] = d]
      /\ UNCHANGED <<config, lifecycle, state, seen, copied, enforced, permitted>>
  BY DEF RecordActual, GoTo
<1>2. decision[r] \in Decision
  BY DEF Inv, TypeOK
<1>3. d \in Decision /\ d.enforced = decision[r].enforced
  BY <1>2 DEF Decision
<1> HIDE DEF d
<1>4. TypeOK'
  BY <1>1, <1>3 DEF Inv, TypeOK, lifecycle
<1>5. PlanInv'
  <2>1. decision'[r] = d /\ (\A q \in Requests \ {r} : decision'[q] = decision[q])
    BY <1>1 DEF Inv, TypeOK
  <2>2. ~enforced[r]
    BY DEF Inv, PlanInv, RecordActual
  <2> QED
    BY <1>1, <1>3, <2>1, <2>2, PlanStep DEF Inv, PlanInv
<1> QED
  BY <1>4, <1>5 DEF Inv

LEMMA RecordOutcomeInv ==
    ASSUME NEW r \in Requests, NEW b \in Backends \cup {NoBackend}, Inv, RecordOutcome(r, b)
    PROVE  Inv'
<1>1. /\ pc' = [pc EXCEPT ![r] = "idle"]
      /\ decision' = [decision EXCEPT ![r] = Undecided]
      /\ permitted' = [permitted EXCEPT ![r] = FALSE]
      /\ UNCHANGED <<config, lifecycle, state, seen, copied, enforced>>
  BY DEF RecordOutcome, GoTo
<1>2. mapped' \in Backends \cup {NoBackend}
  BY DEF Inv, TypeOK, RecordOutcome
<1>3. Undecided \in Decision /\ ~Undecided.enforced
  BY DEF Undecided, Decision, Stages, Modes
<1>4. TypeOK'
  BY <1>1, <1>2, <1>3 DEF Inv, TypeOK, lifecycle
<1>5. PlanInv'
  <2>1. decision'[r] = Undecided
        /\ (\A q \in Requests \ {r} :
                decision'[q] = decision[q] /\ permitted'[q] = permitted[q])
    BY <1>1 DEF Inv, TypeOK
  <2>2. ~enforced[r]
    BY DEF Inv, PlanInv, RecordOutcome
  <2> QED
    BY <1>1, <1>3, <2>1, <2>2, PlanStep
<1> QED
  BY <1>4, <1>5 DEF Inv

------------------------------------------------------------------------------

LEMMA NextInv == Inv /\ [Next]_vars => Inv'
<1> SUFFICES ASSUME Inv, [Next]_vars PROVE Inv'
  OBVIOUS
<1>1. CASE Approve
  BY <1>1, ApproveInv
<1>2. CASE \E h, e, p \in BOOLEAN : Observe(h, e, p)
  BY <1>2, ObserveInv
<1>3. CASE \E b \in Backends : SetState(b) \/ StateAges(b)
  BY <1>3, EnvironmentInv
<1>4. CASE AffinityExpires
  BY <1>4, EnvironmentInv, RouterAssumption DEF Inv, TypeOK, AffinityExpires
<1>5. ASSUME NEW r \in Requests, Plan(r)
      PROVE  Inv'
  BY <1>5, PlanReadsInv, PlanEnforcesInv, PlanDecidesInv, PreferInv, RecordActualInv,
     RecordOutcomeInv DEF Plan
<1>6. CASE UNCHANGED vars
  <2>1. TypeOK'
    BY <1>6 DEF Inv, TypeOK, vars, lifecycle, plans
  <2>2. PlanInv'
    BY <1>6 DEF Inv, PlanInv, ApprovalGates, vars, lifecycle, plans
  <2> QED
    BY <2>1, <2>2 DEF Inv
<1> QED
  BY <1>1, <1>2, <1>3, <1>4, <1>5, <1>6 DEF Next

\* The lifecycle, the controller and the plans keep their types, and every
\* enforcement a plan has read came from a live, approved lifecycle.
THEOREM PlansSound == Spec => [](TypeOK /\ PlanInv)
<1>1. Inv => TypeOK /\ PlanInv
  BY DEF Inv
<1> QED
  BY InitInv, NextInv, <1>1, PTL DEF Spec

\* With require_human_approval the lifecycle is live only after an approval given
\* since the last rollback, in every order of approve and observe calls.
THEOREM ApprovalAlwaysGates == Spec => []ApprovalGates
<1>1. Inv => ApprovalGates
  BY DEF Inv, PlanInv
<1> QED
  BY InitInv, NextInv, <1>1, PTL DEF Spec

\* No plan steers a request that the operator's approval did not cover, however its
\* two looks at the lifecycle interleave with the operator's calls.
THEOREM OnlyApprovedEverSteers == Spec => []OnlyApprovedSteers
<1>1. Inv => OnlyApprovedSteers
  BY DEF Inv, PlanInv, OnlyApprovedSteers, Steers
<1> QED
  BY InitInv, NextInv, <1>1, PTL DEF Spec

\* The rollout never skips a canary fraction and falls back to static in one step.
THEOREM RolloutPath == Spec => PromotionPath
<1> DEFINE Path == \/ stage' = "static"
                   \/ stage' = stage /\ step' \in {step, step + 1}
                   \/ stage = "static" /\ stage' = "shadow"
                   \/ stage = "shadow" /\ stage' = "canary" /\ step' = 1
                   \/ stage = "canary" /\ step = CanarySteps /\ stage' = "enforced"
<1>1. ASSUME NEW h \in BOOLEAN, NEW e \in BOOLEAN, NEW p \in BOOLEAN, Inv, Observe(h, e, p)
      PROVE  Path
  <2>1. stage \in Stages /\ step \in 1..CanarySteps
    BY <1>1 DEF Inv, TypeOK
  <2>2. ~config.enabled \/ Rollback \/ Holds \/ Promote
    BY <1>1, Zenon DEF Observe
  <2>3. CASE ~config.enabled
    BY <2>3, <1>1 DEF Observe
  <2>4. CASE Rollback \/ Holds
    BY <2>4 DEF Rollback, Holds
  <2>5. CASE Promote
    <3>1. CASE stage = "canary"
      <4>1. step < CanarySteps \/ step = CanarySteps
        BY <2>1, RouterAssumption
      <4> QED
        BY <4>1, <3>1, <2>5 DEF Promote
    <3>2. CASE stage # "canary"
      BY <3>2, <2>1, <2>5 DEF Promote, Stages
    <3> QED
      BY <3>1, <3>2
  <2> QED
    BY <2>2, <2>3, <2>4, <2>5
<1>2. ASSUME Inv, [Next]_vars
      PROVE  Path \/ UNCHANGED vars
  <2>1. CASE \E h, e, p \in BOOLEAN : Observe(h, e, p)
    BY <2>1, <1>1, <1>2
  <2>2. CASE \E b \in Backends : SetState(b) \/ StateAges(b)
    BY <2>2 DEF SetState, StateAges, lifecycle
  <2>3. CASE Approve \/ AffinityExpires
    BY <2>3 DEF Approve, AffinityExpires, lifecycle
  <2>4. ASSUME NEW r \in Requests, Plan(r)
        PROVE  Path
    BY <2>4 DEF Plan, PlanReads, PlanEnforces, PlanDecides, Prefer, RecordActual,
                RecordOutcome, lifecycle
  <2> QED
    BY <1>2, <2>1, <2>2, <2>3, <2>4 DEF Next
<1>3. Inv /\ [Next]_vars => [Path]_vars
  BY <1>2
<1> QED
  BY InitInv, NextInv, <1>3, PTL DEF Spec, PromotionPath
=============================================================================
