---------------------------- MODULE WindowMetrics ----------------------------
(***************************************************************************)
(* What a benchmark run may say of the prefix cache                        *)
(* (benchmark/window_metrics.py): the hit ratio of the window between two  *)
(* pages of counters, its quality and its evidence, and what a list of     *)
(* runs is summarised to.                                                  *)
(*                                                                         *)
(* A counter is named by its family, "prefix" for the prefix-cache         *)
(* counters and "token" for the token counters that stand in for them, and *)
(* by its kind, "hits" or "queries".  Ratios are in percent.               *)
(***************************************************************************)
EXTENDS Integers, Sequences, FiniteSets

CONSTANT Null

\* Python's None is no number, no name and no dictionary of derived metrics.
ASSUME NullAssumption ==
    /\ Null \notin Int /\ Null \notin {"prefix", "token"}
    /\ Null \notin [hits_delta : Int \cup {Null}, queries_delta : Int \cup {Null},
                     ratio : Int \cup {Null}, stale : BOOLEAN,
                     evidence : {"missing", "fallback", "strict"}]

-----------------------------------------------------------------------------
(* One window.                                                             *)

\* pick_metric_with_name: the family of the first key the page has; Null for "".
PickedName(metrics, kind) ==
    IF <<"prefix", kind>> \in DOMAIN metrics THEN "prefix"
    ELSE IF <<"token", kind>> \in DOMAIN metrics THEN "token" ELSE Null

PickedValue(metrics, kind) ==
    LET name == PickedName(metrics, kind)
    IN  IF name = Null THEN Null ELSE metrics[<<name, kind>>]

\* Mutant: also one of a page that could not be read.
StartValue_Zero(before, after, kind) ==
    LET value == PickedValue(before.metrics, kind)
    IN  IF value = Null /\ PickedValue(after.metrics, kind) # Null THEN 0 ELSE value

\* A counter that an error-free page does not show yet counts from zero.
StartValue(before, after, kind) ==
    LET value == PickedValue(before.metrics, kind)
    IN  IF value = Null /\ PickedValue(after.metrics, kind) # Null /\ ~before.error
        THEN 0 ELSE value

compute_counter_delta(before, after) ==
    IF before = Null \/ after = Null THEN Null
    ELSE IF after < before THEN Null ELSE after - before

compute_hit_ratio_from_deltas(hits, queries) ==
    IF hits = Null \/ queries = Null THEN Null
    ELSE IF queries = 0 THEN Null
    ELSE IF hits > queries THEN 100 ELSE (100 * hits) \div queries

derive_window_metrics(before, after) ==
    LET delta(kind) == compute_counter_delta(StartValue(before, after, kind),
                                             PickedValue(after.metrics, kind))
        ratio == compute_hit_ratio_from_deltas(delta("hits"), delta("queries"))
        names == {PickedName(s.metrics, kind) : s \in {before, after}, kind \in {"hits", "queries"}}
                 \ {Null}
    IN  [hits_delta    |-> delta("hits"),
         queries_delta |-> delta("queries"),
         ratio         |-> ratio,
         stale         |-> FALSE,
         evidence      |-> IF ratio = Null THEN "missing"
                           ELSE IF names \subseteq {"token"} THEN "fallback" ELSE "strict"]

-----------------------------------------------------------------------------
(* One run.  Its derived field is Null in files of the schema that had no  *)
(* window; its exporter field is Null when the exporter could not be read, *)
(* and else holds the flags that are 1 and the ratio of that page.         *)

get_entry_hit_ratio_quality_and_source(entry) ==
    IF entry.derived # Null
    THEN [ratio   |-> entry.derived.ratio,
          quality |-> IF entry.derived.stale THEN "stale"
                      ELSE IF entry.derived.ratio = Null THEN "missing" ELSE "ok",
          source  |-> "window"]
    ELSE IF entry.exporter # Null /\ entry.exporter.ratio # Null
    THEN [ratio |-> entry.exporter.ratio, quality |-> "ok", source |-> "snapshot_fallback"]
    ELSE [ratio |-> Null, quality |-> "missing", source |-> "missing"]

get_entry_evidence_quality(entry) ==
    LET flags == IF entry.exporter = Null THEN {} ELSE entry.exporter.flags
    IN  IF entry.derived # Null /\ entry.derived.evidence # "missing"
        THEN entry.derived.evidence
        ELSE IF "comparable" \in flags THEN "strict"
        ELSE IF "estimated" \in flags THEN "estimated"
        ELSE IF "token_fallback" \in flags THEN "fallback" ELSE "missing"

\* Once the evidence is missing no flag is 1, and the page either has the flags or not.
get_entry_prefix_metric_check(entry) ==
    LET evidence == get_entry_evidence_quality(entry)
    IN  IF evidence = "strict" THEN "strict"
        ELSE IF evidence = "fallback" THEN "token_fallback"
        ELSE IF evidence = "estimated" \/ entry.exporter # Null THEN "other" ELSE "missing"

-----------------------------------------------------------------------------
(* A list of runs.                                                         *)

\* How many entries Of maps to value.
Count(entries, Of(_), value) == Cardinality({i \in DOMAIN entries : Of(entries[i]) = value})

Quality(entry) == get_entry_hit_ratio_quality_and_source(entry).quality

Source(entry) == get_entry_hit_ratio_quality_and_source(entry).source

summarize_metric_quality_counts(total, ok, stale, missing) ==
    IF total = 0 THEN "missing"
    ELSE IF ok = total THEN "ok"
    ELSE IF stale = total THEN "stale"
    ELSE IF missing = total THEN "missing" ELSE "mixed"

summarize_hit_ratio_source_counts(window, snapshot, missing) ==
    IF Cardinality({i \in 1 .. 3 : <<window, snapshot, missing>>[i] > 0}) > 1 THEN "mixed"
    ELSE IF window > 0 THEN "window"
    ELSE IF snapshot > 0 THEN "snapshot_fallback" ELSE "missing"

summarize_evidence_quality(entries) ==
    LET qualities == {get_entry_evidence_quality(entries[i]) : i \in DOMAIN entries}
    IN  IF qualities = {} THEN "missing"
        ELSE IF Cardinality(qualities) = 1 THEN CHOOSE q \in qualities : TRUE ELSE "mixed"

summarize_prefix_metric_checks(entries) ==
    LET All(check) == Count(entries, get_entry_prefix_metric_check, check) = Len(entries)
    IN  IF All("missing") THEN "missing"
        ELSE IF All("strict") THEN "strict"
        ELSE IF All("token_fallback") THEN "token_fallback"
        ELSE IF All("other") THEN "other" ELSE "mixed"

summarize_runs_quality(entries) ==
    LET quality == summarize_metric_quality_counts(
                       Len(entries), Count(entries, Quality, "ok"),
                       Count(entries, Quality, "stale"), Count(entries, Quality, "missing"))
        source == summarize_hit_ratio_source_counts(
                       Count(entries, Source, "window"),
                       Count(entries, Source, "snapshot_fallback"),
                       Count(entries, Source, "missing"))
    IN  [total_runs           |-> Len(entries),
         ok_metrics           |-> Count(entries, Quality, "ok"),
         metric_quality       |-> quality,
         hit_ratio_source     |-> source,
         hit_ratio_comparable |-> quality = "ok" /\ source # "mixed",
         prefix_metric_check  |-> summarize_prefix_metric_checks(entries),
         evidence_quality     |-> summarize_evidence_quality(entries)]
=============================================================================
