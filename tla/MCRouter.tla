------------------------------ MODULE MCRouter -------------------------------
(***************************************************************************)
(* Two requests, one inside the first canary step and one only inside the  *)
(* second; one backend; the kinds of lifecycle and experiment that a       *)
(* gateway can be started with.                                            *)
(***************************************************************************)
EXTENDS Router

TwoSamples == [r \in Requests |-> IF r = "r1" THEN 1 ELSE 2]

Base == [lifecycle |-> TRUE, enabled |-> TRUE, approval |-> TRUE, mode |-> "enforced",
         experiment |-> FALSE, control |-> "static", treatment |-> "kv"]

Plain      == {[Base EXCEPT !.lifecycle = FALSE, !.enabled = FALSE, !.mode = m] : m \in Modes}
Rollout    == {Base, [Base EXCEPT !.enabled = FALSE]}
Experiment == {[Base EXCEPT !.experiment = TRUE, !.treatment = "load-aware"],
               [Base EXCEPT !.lifecycle = FALSE, !.enabled = FALSE, !.experiment = TRUE]}
AllConfigs == Plain \cup Rollout \cup Experiment
RolloutOnly == {Base}
=============================================================================
