------------------------------ MODULE Predictor ------------------------------
(***************************************************************************)
(* Fitting the TTFT predictor and validating it on the journals of the     *)
(* ledger (planner/ttft_predictor.py, planner/ttft_validation.py).  Both   *)
(* are processes of their own that read the decisions first and the        *)
(* outcomes later, while the gateway may be running, writing or crashing;  *)
(* each outcome is joined to the decision of its request.                  *)
(*                                                                         *)
(* The least squares are not modelled: what is kept of an artifact or a    *)
(* report is the outcomes it was computed from and those it skipped.       *)
(***************************************************************************)
EXTENDS Ledger, FiniteSets

CONSTANTS
    Mismatched,   \* requests whose outcome has another model, GPU, engine or version
    Unobserved,   \* requests whose outcome has no observed_matched_tokens
    Invalid,      \* requests whose token counts contradict each other
    MinSamples    \* the number of features, 5

ASSUME PredictorAssumption ==
    /\ Mismatched \subseteq Requests /\ Unobserved \subseteq Requests
    /\ Invalid \subseteq Requests /\ MinSamples \in Nat \ {0}

VARIABLES
    at,           \* "idle", "reading", "done" or "failed" (an exception)
    task,         \* "fit" or "validate"
    rows,         \* the request IDs of the decisions it has read
    lines         \* the outcomes it has read

reader == <<at, task, rows, lines>>
all    == <<vars, reader>>

ReaderInit == at = "idle" /\ task = "fit" /\ rows = <<>> /\ lines = <<>>

-----------------------------------------------------------------------------
(* The join.  The ledger's "measured" is an outcome that succeeded, with a *)
(* positive TTFT, on a backend among the candidates of the decision.       *)

Joined(o, ds) == o.id \in Ids(ds)

\* Mutant: an outcome is used whether or not the request succeeded.
Used_AlsoFailed(o, ds) == /\ Joined(o, ds)
                          /\ o.id \notin Mismatched \cup Unobserved \cup Invalid

\* The outcomes that pass every check of fit_from_journal's loop.
Used(o, ds) == /\ Joined(o, ds) /\ o.outcome = "measured"
               /\ o.id \notin Mismatched \cup Unobserved \cup Invalid

\* The outcomes that pass those of validate_predictor's loop.
Eligible(o, ds) == /\ Joined(o, ds) /\ o.outcome = "measured" /\ o.id \notin Mismatched
                   /\ o.id \notin Unobserved /\ o.id \notin Invalid

Samples(t, ds, os) ==
    {i \in DOMAIN os : IF t = "fit" THEN Used(os[i], ds) ELSE Eligible(os[i], ds)}

-----------------------------------------------------------------------------
\* _read_jsonl of the decisions; a line that is no document ends the process, in this
\* journal now and in the other one when it is read.
ReadDecisions(t) ==
    /\ at \in {"idle", "done", "failed"} /\ task' = t
    /\ at' = IF torn # "no" THEN "failed" ELSE "reading"
    /\ rows' = IF torn # "no" THEN <<>> ELSE decisions
    /\ lines' = <<>>
    /\ UNCHANGED vars

Enough(n, t) == n >= IF t = "fit" THEN MinSamples ELSE 1

\* _read_jsonl of the outcomes and the rest; an exception leaves nothing.  A line that
\* has become unreadable since the decisions were read may be one of either journal.
ReadOutcomes ==
    /\ at = "reading"
    /\ at' \in (IF Enough(Cardinality(Samples(task, rows, outcomes)), task) THEN {"done"} ELSE {"failed"})
                 \cup (IF torn # "no" THEN {"failed"} ELSE {})
    /\ lines' = IF at' = "done" THEN outcomes ELSE <<>>
    /\ rows' = IF at' = "done" THEN rows ELSE <<>>
    /\ UNCHANGED <<vars, task>>

ReaderNext == ReadOutcomes \/ \E t \in {"fit", "validate"} : ReadDecisions(t)

PredictorInit == Init /\ ReaderInit

PredictorNext == (Next /\ UNCHANGED reader) \/ ReaderNext

PredictorSpec == PredictorInit /\ [][PredictorNext]_all

-----------------------------------------------------------------------------
\* stage6_outcome_grounded_control.md:31, "outcome-grounded samples": every sample is the
\* outcome of a request that was answered, joined to the candidate that answered it; no
\* request counts twice; and an outcome whose decision is missed belongs to a request routed
\* after the decisions were read (fit_from_journal, validate_predictor, DecisionLedger).
SamplesRealized ==
    /\ \A i \in Samples(task, rows, lines) :
          /\ pc[lines[i].id] = "over" /\ served[lines[i].id] # NoBackend
          /\ lines[i].actual = served[lines[i].id]
    /\ \A i, j \in DOMAIN lines : lines[i].id = lines[j].id => i = j
    /\ \A i \in DOMAIN lines : ~Joined(lines[i], rows) =>
          lines[i].id \in Ids(SubSeq(decisions, Len(rows) + 1, Len(decisions)))
=============================================================================
