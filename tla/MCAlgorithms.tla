---------------------------- MODULE MCAlgorithms ----------------------------
(***************************************************************************)
(* Computations of the code against what they promise, over every input of *)
(* a bounded size.  A behaviour builds the input of one part, and the      *)
(* variables of the other parts stay as they are:                          *)
(*   "inspector"   the loop of the inspector over every buffer of up to    *)
(*                 five lines;                                             *)
(*   "registry"    the weighted walk over every health and cursor, with    *)
(*                 backends of weights 3, 1, 2, 1, two of which serve one  *)
(*                 of two models;                                          *)
(*   "metrics"     pages of up to three lines, in every form;              *)
(*   "hash"        prompts of up to four tokens in blocks of two, with up  *)
(*                 to two prompts cached;                                  *)
(*   "sweep"       sweeps of two points with two repeats, and of three     *)
(*                 points of two scenarios, with every run of nine kinds;  *)
(*   "experiment"  four requests before, at the edges of, within and after *)
(*                 the windows of an experiment.                           *)
(***************************************************************************)
EXTENDS Planner, PolicyEvaluation, BlockHash, Registry, InspectorLoop, MetricsPage, TLC

VARIABLE part

-----------------------------------------------------------------------------
MCIDs    == <<"a", "b", "c", "d">>
MCWeight == [a |-> 3, b |-> 1, c |-> 2, d |-> 1]
MCServes == [a |-> {}, b |-> {"m"}, c |-> {"m", "n"}, d |-> {"n"}]

MaxCursor == 8      \* bounds the calls

-----------------------------------------------------------------------------
\* A counter of two models without and one with the suffix _total, a gauge without labels,
\* and a histogram's sum.
MCPageLines ==
    LET Sample(name, total, type, label, value, form) ==
            [name |-> name, total |-> total, type |-> type, label |-> label, value |-> value,
             form |-> form]
    IN  {Sample("c", FALSE, "counter", "x", 1, "plain"), Sample("c", FALSE, "counter", "y", 2, "plain"),
         Sample("c", FALSE, "counter", "x", 4, "loose"), Sample("c", FALSE, "counter", Null, 0, "broken"),
         Sample("d", TRUE, "counter", "y", 1, "plain"), Sample("g", FALSE, "gauge", Null, 1, "plain"),
         Sample("g", FALSE, "gauge", Null, 3, "strict"), Sample("h_sum", FALSE, "histogram", "x", 5, "plain")}

-----------------------------------------------------------------------------
\* Runs that meet every gate, miss one each, or lack a measurement.
MCEntries ==
    LET W(ratio, evidence) == [ratio |-> ratio, stale |-> FALSE, evidence |-> evidence]
        Missing == W(Null, "missing")
        Base == [total |-> 10, ok |-> 10, req_s |-> 60, e2e |-> 900, derived |-> W(50, "strict"),
                 exporter |-> [flags |-> {"comparable"}, ratio |-> 50], goodput |-> 50,
                 gpu_seconds |-> 8]
    IN  {Base,
         [Base EXCEPT !.req_s = 90, !.e2e = 2000],
         [Base EXCEPT !.req_s = 80, !.ok = 5, !.goodput = Null],
         [Base EXCEPT !.req_s = 70, !.derived = W(30, "fallback"), !.goodput = 40,
                      !.gpu_seconds = 0],
         [Base EXCEPT !.derived = Missing, !.goodput = 60, !.gpu_seconds = Null],
         [Base EXCEPT !.derived = Null, !.exporter = [flags |-> {}, ratio |-> 40]],
         [Base EXCEPT !.derived.stale = TRUE, !.goodput = Null, !.exporter = Null],
         [Base EXCEPT !.total = 0, !.ok = 0, !.req_s = 0, !.e2e = 0, !.derived = Missing,
                      !.exporter = Null, !.goodput = Null, !.gpu_seconds = Null],
         [Base EXCEPT !.req_s = 40, !.derived = W(80, "strict"), !.gpu_seconds = 4]}

MCSweeps ==
    LET P(s, c) == [scenario |-> s, concurrency |-> c]
    IN  {[grid |-> <<P("low", 1), P("low", 2)>>, repeats |-> 2],
         [grid |-> <<P("low", 1), P("high", 1), P("low", 2)>>, repeats |-> 1]}

MCThresholds == {0, 40, 80}

MCBudgets == {Null, 4, 8}

-----------------------------------------------------------------------------
MCOutcomes ==
    {[success |-> TRUE,  ttft |-> 1, tpot |-> None, fallback |-> FALSE],
     [success |-> TRUE,  ttft |-> 3, tpot |-> 2,    fallback |-> TRUE],
     [success |-> FALSE, ttft |-> 0, tpot |-> None, fallback |-> FALSE]}

MCSamples == {{0, 2}, {1, 2, 3}}
MCPools   == {s \in SUBSET Requests : Cardinality(s) = 2}

\* Isolated pools know no windows: the first instant and a later one stand for all.
PoolTimes == {1, 14}

\* Requests differ only in what happens to them.
Perms == Permutations(Requests)

-----------------------------------------------------------------------------
walk  == <<healthy, cursor>>
text  == <<page, filter>>
cache == <<prompts, asked>>

AlgorithmsInit ==
    /\ part \in {"inspector", "registry", "metrics", "hash", "sweep", "experiment"}
    /\ IF part = "inspector" THEN InspectInit
       ELSE buffer = <<>> /\ seen = FALSE /\ tokens = 0
    /\ IF part = "registry" THEN RegistryInit
       ELSE healthy = [b \in Backends |-> FALSE] /\ cursor = 0
    /\ IF part = "metrics" THEN PageInit ELSE page = <<>> /\ filter = Null
    /\ IF part = "hash" THEN HashInit
       ELSE prompts = {} /\ asked = [tokens |-> <<>>, supported |-> FALSE, tokenized |-> FALSE]
    /\ IF part = "sweep" THEN SweepInit ELSE plan = Null /\ points = <<>> /\ runs = <<>>
    /\ IF part = "experiment" THEN Init
       ELSE design = "switchback" /\ treated = {} /\ decisions = <<>> /\ outcomes = <<>>

AlgorithmsNext ==
    \/ part = "inspector" /\ Extend
          /\ UNCHANGED <<part, walk, text, cache, sweepVars, vars>>
    \/ part = "registry" /\ RegistryNext /\ cursor' <= MaxCursor
          /\ UNCHANGED <<part, inspectVars, text, cache, sweepVars, vars>>
    \/ part = "metrics" /\ PageNext
          /\ UNCHANGED <<part, inspectVars, walk, cache, sweepVars, vars>>
    \/ part = "hash" /\ HashNext
          /\ UNCHANGED <<part, inspectVars, walk, text, sweepVars, vars>>
    \/ part = "sweep" /\ SweepNext
          /\ UNCHANGED <<part, inspectVars, walk, text, cache, vars>>
    \/ part = "experiment" /\ Next
          /\ (design = "isolated-pool" =>
                \A r \in DOMAIN decisions' : decisions'[r].at \in PoolTimes \cup {None})
          /\ UNCHANGED <<part, inspectVars, walk, text, cache, sweepVars>>

AlgorithmsSpec ==
    AlgorithmsInit /\ [][AlgorithmsNext]_<<part, inspectVars, walk, text, cache, sweepVars, vars>>
=============================================================================
