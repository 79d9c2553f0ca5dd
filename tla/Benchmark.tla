------------------------------ MODULE Benchmark ------------------------------
(***************************************************************************)
(* The windowed experiment (benchmark/experiment.py run_windowed_experiment*)
(* over runner.py and collect.py): scrape the backend and the exporter,    *)
(* send a warm-up batch and a measured batch through a semaphore, scrape   *)
(* both again and derive the entry of the run; the sweep repeats this      *)
(* against one backend.                                                    *)
(*                                                                         *)
(* The requests of a batch are alike and are only counted.  The backend is *)
(* external: it looks a request up in its prefix cache at some moment      *)
(* after it was sent, whether or not the client still waits, shows a       *)
(* counter from its first increment on, and may crash and start again with *)
(* its counters at zero and, as another version, in the other family.      *)
(***************************************************************************)
EXTENDS WindowMetrics

CONSTANTS
    num_requests, warmup_requests, concurrency, repeats,
    LazyCounters,    \* the backend shows no counter that is zero
    MaxCrashes,      \* bound: crashes of the backend
    ExporterPages    \* what the exporter may answer, Null for an error

ASSUME BenchmarkAssumption ==
    /\ num_requests \in Nat /\ warmup_requests \in Nat /\ concurrency \in Int
    /\ repeats \in Nat /\ LazyCounters \in BOOLEAN /\ MaxCrashes \in Nat

VARIABLES
    pc,              \* the statement run_windowed_experiment has reached
    repeat,
    waiting,         \* requests of the batch that wait for the semaphore
    sent,            \* posted, not looked up by the backend yet
    counted,         \* posted and looked up
    lost,            \* posted to a backend that has crashed since
    ok, failed,      \* of the batch
    warmup,          \* [ok, failed] of the batch before
    orphans,         \* given up by the client, not looked up by the backend yet
    backend,         \* [up, family, hits, queries]
    crashes,
    before, after,   \* the backend snapshots of the run
    entry,           \* of the run that has ended, until the next one starts
    window           \* what really happened between the two scrapes

client  == <<waiting, sent, counted, lost, ok, failed>>
results == <<warmup, before, after, entry>>
vars    == <<pc, repeat, client, results, orphans, backend, crashes, window>>

Limit == IF concurrency > 1 THEN concurrency ELSE 1

Steps == {"backend_before", "exporter_before", "warmup", "measured",
          "backend_after", "exporter_after", "done"}

\* The window is open from the first scrape of the backend to the second one.
WindowOpen == pc \in {"exporter_before", "warmup", "measured", "backend_after"}

NoBatch == [ok |-> 0, failed |-> 0]

NoRun == [hits |-> 0, queries |-> 0, restarted |-> FALSE]

Families == {"prefix", "token"}

Started(family) == [up |-> TRUE, family |-> family, hits |-> 0, queries |-> 0]

\* GET /metrics of a backend that is up.
Exposed ==
    LET value == [hits |-> backend.hits, queries |-> backend.queries]
        shown == {k \in {"hits", "queries"} : LazyCounters => value[k] > 0}
    IN  [key \in {backend.family} \X shown |-> value[key[2]]]

make_metric_snapshot(metrics, error) == [metrics |-> metrics, error |-> error]

\* fetch_metrics_snapshot and the except clause around it.
Snapshots == IF backend.up THEN {make_metric_snapshot(Exposed, FALSE), make_metric_snapshot(<<>>, TRUE)}
             ELSE {make_metric_snapshot(<<>>, TRUE)}

-----------------------------------------------------------------------------
Init == /\ pc = "backend_before" /\ repeat = 1
        /\ waiting = 0 /\ sent = 0 /\ counted = 0 /\ lost = 0 /\ ok = 0 /\ failed = 0
        /\ warmup = NoBatch /\ orphans = 0
        /\ backend \in {Started(family) : family \in Families}
        /\ crashes = 0
        /\ before = Null /\ after = Null /\ entry = Null /\ window = NoRun

ScrapeBackendBefore ==
    /\ pc = "backend_before" /\ pc' = "exporter_before"
    /\ before' \in Snapshots /\ window' = NoRun
    /\ after' = Null /\ entry' = Null /\ warmup' = NoBatch
    /\ UNCHANGED <<repeat, client, orphans, backend, crashes>>

\* The exporter's first page is kept in the entry and read by nothing; the batch that
\* follows starts with every request waiting.
ScrapeExporterBefore ==
    /\ pc = "exporter_before" /\ pc' = "warmup"
    /\ waiting' = warmup_requests /\ ok' = 0 /\ failed' = 0
    /\ UNCHANGED <<repeat, sent, counted, lost, results, orphans, backend, crashes, window>>

-----------------------------------------------------------------------------
(* _run_request_batch and the backend.                                     *)

InBatch == pc \in {"warmup", "measured"}

\* run_one takes the semaphore and posts.
Start == /\ InBatch /\ waiting > 0 /\ sent + counted + lost < Limit
         /\ waiting' = waiting - 1
         /\ IF backend.up THEN sent' = sent + 1 /\ UNCHANGED lost
                          ELSE lost' = lost + 1 /\ UNCHANGED sent
         /\ UNCHANGED <<pc, repeat, counted, ok, failed, results, orphans, backend, crashes, window>>

\* The prefix cache is asked for a request, with or without a hit.
LookUp(hit) ==
    /\ backend.up
    /\ \/ sent > 0 /\ sent' = sent - 1 /\ counted' = counted + 1 /\ UNCHANGED orphans
       \/ orphans > 0 /\ orphans' = orphans - 1 /\ UNCHANGED <<sent, counted>>
    /\ backend' = [backend EXCEPT !.hits = @ + hit, !.queries = @ + 1]
    /\ window' = IF WindowOpen
                 THEN [window EXCEPT !.hits = @ + hit, !.queries = @ + 1] ELSE window
    /\ UNCHANGED <<pc, repeat, waiting, lost, ok, failed, results, crashes>>

\* A status below 400.
Answer == /\ counted > 0 /\ counted' = counted - 1 /\ ok' = ok + 1
          /\ UNCHANGED <<pc, repeat, waiting, sent, lost, failed, results, orphans, backend,
                         crashes, window>>

\* Mutant: no timeout ends the wait for a backend that is gone.
Fail_NoTimeout == /\ counted > 0 /\ counted' = counted - 1 /\ failed' = failed + 1
                  /\ UNCHANGED <<pc, repeat, waiting, sent, lost, ok, results, orphans, backend,
                                 crashes, window>>

\* A status of 400 or more, a broken connection or timeout_s; a request that times out
\* before its turn may still be looked up later.
Fail == /\ \/ sent > 0 /\ sent' = sent - 1 /\ orphans' \in {orphans, orphans + 1}
              /\ UNCHANGED <<counted, lost>>
           \/ counted > 0 /\ counted' = counted - 1 /\ UNCHANGED <<sent, lost, orphans>>
           \/ lost > 0 /\ lost' = lost - 1 /\ UNCHANGED <<sent, counted, orphans>>
        /\ failed' = failed + 1
        /\ UNCHANGED <<pc, repeat, waiting, ok, results, backend, crashes, window>>

BackendStops == /\ backend.up /\ crashes < MaxCrashes /\ crashes' = crashes + 1
                /\ backend' = [backend EXCEPT !.up = FALSE]
                /\ lost' = lost + sent + counted /\ sent' = 0 /\ counted' = 0 /\ orphans' = 0
                /\ UNCHANGED <<pc, repeat, waiting, ok, failed, results, window>>

BackendStarts == /\ ~backend.up
                 /\ backend' \in {Started(family) : family \in Families}
                 /\ window' = [window EXCEPT !.restarted = @ \/ WindowOpen]
                 /\ UNCHANGED <<pc, repeat, client, results, orphans, crashes>>

\* Mutant: the batch is over once every request is posted.
Gathered_Posted == InBatch /\ waiting = 0

\* gather returns when every run_one has.
Gathered == InBatch /\ waiting = 0 /\ sent + counted + lost = 0

WarmupEnds ==
    /\ pc = "warmup" /\ Gathered /\ pc' = "measured"
    /\ warmup' = [ok |-> ok, failed |-> failed]
    /\ waiting' = num_requests /\ ok' = 0 /\ failed' = 0
    /\ UNCHANGED <<repeat, sent, counted, lost, before, after, entry, orphans, backend, crashes, window>>

MeasuredEnds ==
    /\ pc = "measured" /\ Gathered /\ pc' = "backend_after"
    /\ UNCHANGED <<repeat, client, results, orphans, backend, crashes, window>>

-----------------------------------------------------------------------------
ScrapeBackendAfter ==
    /\ pc = "backend_after" /\ pc' = "exporter_after"
    /\ after' \in Snapshots
    /\ UNCHANGED <<repeat, client, warmup, before, entry, orphans, backend, crashes, window>>

\* The rest of run_windowed_experiment, and the loop of the sweep.
make_run_entry(exporter) ==
    [requests |-> [total |-> ok + failed, ok |-> ok, failed |-> failed],
     derived  |-> derive_window_metrics(before, after),
     exporter |-> exporter]

ScrapeExporterAfter ==
    /\ pc = "exporter_after"
    /\ entry' \in {make_run_entry(exporter) : exporter \in ExporterPages}
    /\ IF repeat < repeats THEN pc' = "backend_before" /\ repeat' = repeat + 1
                           ELSE pc' = "done" /\ UNCHANGED repeat
    /\ UNCHANGED <<client, warmup, before, after, orphans, backend, crashes, window>>

Next == \/ ScrapeBackendBefore \/ ScrapeExporterBefore
        \/ Start \/ Answer \/ Fail \/ WarmupEnds \/ MeasuredEnds
        \/ ScrapeBackendAfter \/ ScrapeExporterAfter
        \/ \E hit \in {0, 1} : LookUp(hit)
        \/ BackendStops \/ BackendStarts

Spec == Init /\ [][Next]_vars

\* The event loop and the blocking scrapes go on; every post and every scrape has a timeout.
Fairness == /\ WF_vars(Start) /\ WF_vars(Answer \/ Fail)
            /\ WF_vars(WarmupEnds \/ MeasuredEnds)
            /\ WF_vars(ScrapeBackendBefore \/ ScrapeExporterBefore)
            /\ WF_vars(ScrapeBackendAfter \/ ScrapeExporterAfter)

FairSpec == Spec /\ Fairness

-----------------------------------------------------------------------------
TypeOK ==
    /\ pc \in Steps /\ repeat \in Nat
    /\ waiting \in Nat /\ sent \in Nat /\ counted \in Nat /\ lost \in Nat
    /\ ok \in Nat /\ failed \in Nat /\ orphans \in Nat /\ crashes \in 0 .. MaxCrashes
    /\ warmup \in [ok : Nat, failed : Nat]
    /\ backend \in [up : BOOLEAN, family : Families, hits : Nat, queries : Nat]
    /\ window \in [hits : Nat, queries : Nat, restarted : BOOLEAN]

\* runner.py: no request is lost or counted twice, whatever times out or crashes, the
\* semaphore keeps its limit, and no request of one batch is under way in the next one or
\* when the counters are read.
RequestsAccounted ==
    /\ sent + counted + lost <= Limit
    /\ pc = "warmup" => waiting + sent + counted + lost + ok + failed = warmup_requests
    /\ pc = "measured" =>
          /\ waiting + sent + counted + lost + ok + failed = num_requests
          /\ warmup.ok + warmup.failed = warmup_requests
    /\ ~InBatch => waiting + sent + counted + lost = 0
    /\ entry # Null => entry.requests.total = num_requests

\* docs/metric_spec.md:101-128: a run whose ratio is "ok" read both pages and, unless the
\* backend was started again in between, its deltas are what the backend looked up in the
\* window, every request of the two batches that succeeded included.
WindowExact ==
    entry # Null /\ Quality(entry) = "ok" =>
        /\ ~before.error /\ ~after.error
        /\ ~window.restarted =>
              /\ entry.derived.hits_delta = window.hits
              /\ entry.derived.queries_delta = window.queries
              /\ warmup.ok + entry.requests.ok <= entry.derived.queries_delta

\* A dead backend cannot hold the sweep: every run ends, each with an entry.
SweepEnds == <>(pc = "done" /\ entry # Null)
=============================================================================
