----------------------------- MODULE MetricsPage -----------------------------
(***************************************************************************)
(* From the text of a metrics page to one total per metric name            *)
(* (exporter/prometheus_parse.py): the samples of all label sets of a name *)
(* are summed, histograms and summaries are left out, and a page the       *)
(* official parser cannot read is read again line by line.                 *)
(*                                                                         *)
(* A line has the name of its metric, without the suffix _total; whether   *)
(* it is spelled with the suffix; the type of its family; the value of the *)
(* label that filters ask for (NoLabel without one); a finite value; and a *)
(* form: "plain", "strict" (only the official parser reads it: a timestamp *)
(* behind the value, +Inf, a brace in a label), "loose" (only the line     *)
(* parser does) or "broken" (neither does).                                *)
(***************************************************************************)
EXTENDS Integers, Sequences, FiniteSets, Functions

CONSTANTS
    PageLines,      \* what a line may be
    Labels,         \* values of the label
    NoLabel,
    MaxPage         \* bound on the page

VARIABLES page, filter      \* NoLabel: no filter

Aggregatable == {"counter", "gauge", "unknown"}

\* A name belongs to one family, of one type and one spelling, and no metric of the
\* backends is negative.
ASSUME PageAssumption ==
    /\ NoLabel \notin Labels /\ IsFiniteSet(Labels)
    /\ \A line \in PageLines :
          /\ line.form \in {"plain", "strict", "loose", "broken"} /\ line.total \in BOOLEAN
          /\ line.label \in Labels \cup {NoLabel} /\ line.value \in Nat
    /\ \A line, other \in PageLines : line.name = other.name =>
          line.type = other.type /\ line.total = other.total

labels_match(line, filt) == filt = NoLabel \/ line.label = filt

\* out[name] = out.get(name, 0.0) + value, for the lines at the places S, each under its key.
Totals(lines, S, key) ==
    [n \in {key[i] : i \in S} |->
        SumFunction([i \in {j \in S : key[j] = n} |-> lines[i].value])]

\* The names as they stand on the page.
Spelled(lines) == [i \in DOMAIN lines |-> <<lines[i].name, lines[i].total>>]

\* Official parser (external): the samples of a counter are renamed to end in _total.
Renamed(lines) ==
    [i \in DOMAIN lines |-> <<lines[i].name, lines[i].total \/ lines[i].type = "counter">>]

\* Official parser (external): the families before a line it cannot read are yielded.
Raises(lines) == \E i \in DOMAIN lines : lines[i].form \in {"loose", "broken"}

\* A line that does not fit _LINE_RE is skipped.
parse_prometheus_text_relaxed_lines(lines, filt) ==
    Totals(lines, {i \in DOMAIN lines : lines[i].form \in {"plain", "loose"}
                                          /\ labels_match(lines[i], filt)}, Spelled(lines))

Aggregated(lines, filt) ==
    Totals(lines, {i \in DOMAIN lines : lines[i].type \in Aggregatable
                                          /\ labels_match(lines[i], filt)}, Renamed(lines))

\* Mutant: the line parser forgets the filter.
aggregate_prometheus_text_Unfiltered(lines, filt) ==
    IF Raises(lines) THEN parse_prometheus_text_relaxed_lines(lines, NoLabel)
                     ELSE Aggregated(lines, filt)

\* What was summed before the exception is dropped.
aggregate_prometheus_text(lines, filt) ==
    IF Raises(lines) THEN parse_prometheus_text_relaxed_lines(lines, filt)
                     ELSE Aggregated(lines, filt)

\* What an adapter reads: it asks for a name with the suffix, without it, or for the one
\* and then the other, and takes the first that is there.
pick_metric_with_name(out, name, spellings) ==
    CASE TRUE \in spellings /\ <<name, TRUE>> \in DOMAIN out -> out[<<name, TRUE>>]
      [] ~(TRUE \in spellings /\ <<name, TRUE>> \in DOMAIN out)
           /\ FALSE \in spellings /\ <<name, FALSE>> \in DOMAIN out -> out[<<name, FALSE>>]
      [] OTHER -> 0

-----------------------------------------------------------------------------
PageInit == page = <<>> /\ filter \in Labels \cup {NoLabel}

PageNext == /\ Len(page) < MaxPage
            /\ \E line \in PageLines : page' = Append(page, line)
            /\ UNCHANGED filter

PageSpec == PageInit /\ [][PageNext]_<<page, filter>>

-----------------------------------------------------------------------------
MetricTotal(lines, filt, name, spellings) ==
    pick_metric_with_name(aggregate_prometheus_text(lines, filt), name, spellings)

Unread(name) == \E i \in DOMAIN page : page[i].name = name /\ page[i].form = "strict"

\* A counter that the page spells without the suffix has it in one parser's output only.
TwoNames(line) == line.type = "counter" /\ ~line.total

\* A page cut short by one bad line gives an adapter the same totals of counters and gauges
\* as the page without it, although another parser reads them, unless that parser cannot
\* read one of the metric's samples, or the metric is a counter that the page spells
\* without _total and the adapter asks for in one spelling only.  And the totals of the
\* single label values add up to the total without a filter
\* (exporter/prometheus_parse.py aggregate_prometheus_text, _pick_metric_with_name).
TotalsRobust ==
    \A line \in {l \in PageLines : l.type \in Aggregatable}, spellings \in SUBSET BOOLEAN :
        LET readable == Restrict(page, {i \in DOMAIN page : page[i].form # "broken"})
            Total(p, f) == MetricTotal(p, f, line.name, spellings)
            Single   == SumFunction([l \in Labels |-> Total(page, l)])
        IN  /\ (~Unread(line.name) /\ (TwoNames(line) => spellings = BOOLEAN)) =>
                  Total(page, filter) = Total(readable, filter)
            /\ Single <= Total(page, NoLabel)
            /\ (\A i \in DOMAIN page : page[i].label # NoLabel) =>
                  Single = Total(page, NoLabel)
=============================================================================
