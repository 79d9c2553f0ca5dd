-------------------------- MODULE Benchmark_proofs --------------------------
(***************************************************************************)
(* For every size of the batches, every concurrency, number of repeats and *)
(* of crashes: no request of a benchmark is lost, counted twice or left    *)
(* under way, and a ratio that is called "ok" is that of the window.       *)
(***************************************************************************)
EXTENDS Benchmark, TLAPS

\* Once the measured batch is over its results stay until the entry is made.
ResultsKept == pc \in {"backend_after", "exporter_after"} => ok + failed = num_requests

BatchInv == TypeOK /\ RequestsAccounted /\ ResultsKept

-----------------------------------------------------------------------------
\* asyncio.Semaphore(max(1, concurrency)).
LEMMA LimitPositive == Limit \in Nat /\ Limit >= 1
  BY BenchmarkAssumption DEF Limit

\* A backend that has just started has counters of zero.
LEMMA StartedType ==
  ASSUME NEW b \in {Started(family) : family \in Families}
  PROVE  b \in [up : BOOLEAN, family : Families, hits : Nat, queries : Nat]
<1>1. PICK f \in Families : b = [up |-> TRUE, family |-> f, hits |-> 0, queries |-> 0]
  BY DEF Started
<1> QED
  BY <1>1

\* What the steps of a batch and of the backend have to show.
LEMMA StaysInBatch ==
  ASSUME BatchInv, TypeOK', UNCHANGED <<pc, warmup, entry>>,
         sent' + counted' + lost' <= Limit,
         waiting' + sent' + counted' + lost' + ok' + failed'
             = waiting + sent + counted + lost + ok + failed,
         InBatch \/ (UNCHANGED <<ok, failed>> /\ waiting' + sent' + counted' + lost' = 0)
  PROVE  BatchInv'
<1>1. RequestsAccounted'
  BY DEF BatchInv, RequestsAccounted, InBatch
<1>2. ResultsKept'
  BY DEF BatchInv, ResultsKept, InBatch
<1> QED
  BY <1>1, <1>2 DEF BatchInv

\* The sweep starts with no request.
LEMMA InitHolds == Init => BatchInv
<1> SUFFICES ASSUME Init PROVE BatchInv
  OBVIOUS
<1>1. /\ warmup \in [ok : Nat, failed : Nat] /\ window \in [hits : Nat, queries : Nat, restarted : BOOLEAN]
      /\ backend \in [up : BOOLEAN, family : Families, hits : Nat, queries : Nat]
  BY StartedType DEF Init, NoBatch, NoRun
<1>4. TypeOK
  BY <1>1, BenchmarkAssumption DEF Init, TypeOK, Steps
<1>2. RequestsAccounted
  BY LimitPositive DEF Init, RequestsAccounted, InBatch
<1>3. ResultsKept
  BY DEF Init, ResultsKept
<1> QED
  BY <1>4, <1>2, <1>3 DEF BatchInv

-----------------------------------------------------------------------------
(* The steps of run_windowed_experiment.                                   *)

\* The two scrapes before the batches.
LEMMA BeforeHolds == BatchInv /\ (ScrapeBackendBefore \/ ScrapeExporterBefore) => BatchInv'
<1>1. ASSUME BatchInv, ScrapeBackendBefore PROVE BatchInv'
  <2>1. TypeOK'
    BY <1>1 DEF BatchInv, TypeOK, ScrapeBackendBefore, client, NoBatch, NoRun, Steps
  <2>2. RequestsAccounted' /\ ResultsKept'
    BY <1>1 DEF BatchInv, RequestsAccounted, ResultsKept, InBatch, ScrapeBackendBefore, client
  <2> QED
    BY <2>1, <2>2 DEF BatchInv
<1>2. ASSUME BatchInv, ScrapeExporterBefore PROVE BatchInv'
  <2>1. TypeOK'
    BY <1>2, BenchmarkAssumption DEF BatchInv, TypeOK, ScrapeExporterBefore, results, Steps
  <2>2. sent + counted + lost = 0
    BY <1>2 DEF BatchInv, TypeOK, RequestsAccounted, InBatch, ScrapeExporterBefore
  <2>3. RequestsAccounted' /\ ResultsKept'
    BY <1>2, <2>2, BenchmarkAssumption
    DEF BatchInv, TypeOK, RequestsAccounted, ResultsKept, InBatch, ScrapeExporterBefore, results
  <2> QED
    BY <2>1, <2>3 DEF BatchInv
<1> QED
  BY <1>1, <1>2

\* A batch that is gathered leaves nothing under way.
LEMMA GatheredHolds == BatchInv /\ (WarmupEnds \/ MeasuredEnds) => BatchInv'
<1>1. ASSUME BatchInv, WarmupEnds PROVE BatchInv'
  <2>1. TypeOK'
    BY <1>1, BenchmarkAssumption DEF BatchInv, TypeOK, WarmupEnds, Steps
  <2>2. /\ waiting = 0 /\ sent + counted + lost = 0 /\ ok + failed = warmup_requests
    BY <1>1 DEF BatchInv, TypeOK, RequestsAccounted, WarmupEnds, Gathered
  <2>3. RequestsAccounted' /\ ResultsKept'
    BY <1>1, <2>2, BenchmarkAssumption
    DEF BatchInv, TypeOK, RequestsAccounted, ResultsKept, InBatch, WarmupEnds
  <2> QED
    BY <2>1, <2>3 DEF BatchInv
<1>2. ASSUME BatchInv, MeasuredEnds PROVE BatchInv'
  <2>1. TypeOK'
    BY <1>2 DEF BatchInv, TypeOK, MeasuredEnds, client, results, Steps
  <2>2. /\ waiting = 0 /\ sent + counted + lost = 0 /\ ok + failed = num_requests
    BY <1>2 DEF BatchInv, TypeOK, RequestsAccounted, MeasuredEnds, Gathered
  <2>3. RequestsAccounted' /\ ResultsKept'
    BY <1>2, <2>2
    DEF BatchInv, TypeOK, RequestsAccounted, ResultsKept, InBatch, MeasuredEnds, client, results
  <2> QED
    BY <2>1, <2>3 DEF BatchInv
<1> QED
  BY <1>1, <1>2

\* The two scrapes after the batches, and the entry made of what they saw.
LEMMA AfterHolds == BatchInv /\ (ScrapeBackendAfter \/ ScrapeExporterAfter) => BatchInv'
<1>1. ASSUME BatchInv, ScrapeBackendAfter PROVE BatchInv'
  <2>1. TypeOK'
    BY <1>1 DEF BatchInv, TypeOK, ScrapeBackendAfter, client, Steps
  <2>2. RequestsAccounted' /\ ResultsKept'
    BY <1>1 DEF BatchInv, RequestsAccounted, ResultsKept, InBatch, ScrapeBackendAfter, client
  <2> QED
    BY <2>1, <2>2 DEF BatchInv
<1>2. ASSUME BatchInv, ScrapeExporterAfter PROVE BatchInv'
  <2>1. TypeOK'
    BY <1>2 DEF BatchInv, TypeOK, ScrapeExporterAfter, client, Steps
  <2>2. ok + failed = num_requests
    BY <1>2 DEF BatchInv, ResultsKept, ScrapeExporterAfter
  <2>3. PICK exporter \in ExporterPages : entry' = make_run_entry(exporter)
    BY <1>2 DEF ScrapeExporterAfter
  <2>4. entry'.requests.total = num_requests
    BY <2>2, <2>3 DEF make_run_entry
  <2>5. RequestsAccounted' /\ ResultsKept'
    BY <1>2, <2>4
    DEF BatchInv, RequestsAccounted, ResultsKept, InBatch, ScrapeExporterAfter, client
  <2> QED
    BY <2>1, <2>5 DEF BatchInv
<1> QED
  BY <1>1, <1>2

-----------------------------------------------------------------------------
(* The steps of a batch and of the backend.                                *)

\* A request moves on, or ends once.
LEMMA ClientHolds == BatchInv /\ (Start \/ Answer \/ Fail) => BatchInv'
<1> SUFFICES ASSUME BatchInv, Start \/ Answer \/ Fail PROVE BatchInv'
  OBVIOUS
<1>1. UNCHANGED <<pc, repeat, warmup, before, after, entry, backend, crashes, window>>
  BY DEF Start, Answer, Fail, results
<1>2. InBatch
  BY DEF BatchInv, TypeOK, RequestsAccounted, InBatch, Start, Answer, Fail
<1>3. /\ waiting \in Nat /\ sent \in Nat /\ counted \in Nat /\ lost \in Nat
      /\ ok \in Nat /\ failed \in Nat /\ orphans \in Nat /\ sent + counted + lost <= Limit
  BY DEF BatchInv, TypeOK, RequestsAccounted
<1>4. /\ waiting' \in Nat /\ sent' \in Nat /\ counted' \in Nat /\ lost' \in Nat
      /\ ok' \in Nat /\ failed' \in Nat /\ orphans' \in Nat
      /\ sent' + counted' + lost' <= Limit
      /\ waiting' + sent' + counted' + lost' + ok' + failed'
           = waiting + sent + counted + lost + ok + failed
  <2>1. CASE Start
    BY <2>1, <1>3, LimitPositive DEF Start
  <2>2. CASE Answer
    BY <2>2, <1>3, LimitPositive DEF Answer
  <2>3. CASE Fail
    BY <2>3, <1>3, LimitPositive DEF Fail
  <2> QED
    BY <2>1, <2>2, <2>3
<1>5. TypeOK'
  BY <1>1, <1>4 DEF BatchInv, TypeOK
<1> QED
  BY <1>1, <1>2, <1>4, <1>5, StaysInBatch

\* Whatever the backend does, what is under way stays under way.
LEMMA BackendHolds ==
  BatchInv /\ ((\E hit \in {0, 1} : LookUp(hit)) \/ BackendStops \/ BackendStarts) => BatchInv'
<1> SUFFICES ASSUME BatchInv, (\E hit \in {0, 1} : LookUp(hit)) \/ BackendStops \/ BackendStarts
             PROVE  BatchInv'
  OBVIOUS
<1>1. UNCHANGED <<pc, repeat, waiting, ok, failed, warmup, before, after, entry>>
  BY DEF LookUp, BackendStops, BackendStarts, results, client
<1>9. waiting' = waiting /\ ok' = ok /\ failed' = failed
  BY <1>1
<1>2. /\ waiting \in Nat /\ sent \in Nat /\ counted \in Nat /\ lost \in Nat
      /\ ok \in Nat /\ failed \in Nat /\ orphans \in Nat /\ sent + counted + lost <= Limit
      /\ crashes \in 0 .. MaxCrashes
  BY DEF BatchInv, TypeOK, RequestsAccounted
<1>3. /\ sent' \in Nat /\ counted' \in Nat /\ lost' \in Nat /\ orphans' \in Nat
      /\ sent' + counted' + lost' = sent + counted + lost
      /\ waiting + sent' + counted' + lost' = waiting + sent + counted + lost
      /\ crashes' \in 0 .. MaxCrashes
  <2>1. CASE \E hit \in {0, 1} : LookUp(hit)
    <3>1. /\ lost' = lost /\ crashes' = crashes
          /\ \/ sent > 0 /\ sent' = sent - 1 /\ counted' = counted + 1 /\ orphans' = orphans
             \/ orphans > 0 /\ orphans' = orphans - 1 /\ sent' = sent /\ counted' = counted
      BY <2>1 DEF LookUp
    <3>2. CASE sent > 0 /\ sent' = sent - 1 /\ counted' = counted + 1 /\ orphans' = orphans
      BY <3>1, <3>2, <1>2
    <3>3. CASE orphans > 0 /\ orphans' = orphans - 1 /\ sent' = sent /\ counted' = counted
      BY <3>1, <3>3, <1>2
    <3> QED
      BY <3>1, <3>2, <3>3
  <2>2. CASE BackendStops
    BY <2>2, <1>2, BenchmarkAssumption DEF BackendStops
  <2>3. CASE BackendStarts
    BY <2>3, <1>2 DEF BackendStarts, client
  <2> QED
    BY <2>1, <2>2, <2>3
<1>4. /\ backend' \in [up : BOOLEAN, family : Families, hits : Nat, queries : Nat]
      /\ window' \in [hits : Nat, queries : Nat, restarted : BOOLEAN]
  <2>1. /\ backend \in [up : BOOLEAN, family : Families, hits : Nat, queries : Nat]
        /\ window \in [hits : Nat, queries : Nat, restarted : BOOLEAN]
    BY DEF BatchInv, TypeOK
  <2>2. ASSUME NEW hit \in {0, 1}, LookUp(hit)
        PROVE  /\ backend' \in [up : BOOLEAN, family : Families, hits : Nat, queries : Nat]
               /\ window' \in [hits : Nat, queries : Nat, restarted : BOOLEAN]
    <3>1. /\ backend' = [backend EXCEPT !.hits = backend.hits + hit,
                                         !.queries = backend.queries + 1]
          /\ window' \in {window, [window EXCEPT !.hits = window.hits + hit,
                                                 !.queries = window.queries + 1]}
      BY <2>2 DEF LookUp
    <3>2. /\ backend.hits + hit \in Nat /\ backend.queries + 1 \in Nat
          /\ window.hits + hit \in Nat /\ window.queries + 1 \in Nat
      BY <2>1
    <3> QED
      BY <2>1, <3>1, <3>2
  <2>3. CASE BackendStops
    BY <2>1, <2>3 DEF BackendStops
  <2>4. CASE BackendStarts
    <3>1. backend' \in [up : BOOLEAN, family : Families, hits : Nat, queries : Nat]
      BY <2>4, StartedType DEF BackendStarts
    <3>2. (window.restarted \/ WindowOpen) \in BOOLEAN
      BY <2>1 DEF WindowOpen
    <3>3. window' = [window EXCEPT !.restarted = window.restarted \/ WindowOpen]
      BY <2>4 DEF BackendStarts
    <3> QED
      BY <2>1, <3>1, <3>2, <3>3
  <2> QED
    BY <2>2, <2>3, <2>4
<1>5. TypeOK'
  BY <1>1, <1>3, <1>4 DEF BatchInv, TypeOK
<1>6. sent' + counted' + lost' <= Limit
  BY <1>2, <1>3
<1>7. waiting' + sent' + counted' + lost' + ok' + failed'
        = waiting + sent + counted + lost + ok + failed
  BY <1>9, <1>2, <1>3
<1>8. InBatch \/ waiting' + sent' + counted' + lost' = 0
  BY <1>9, <1>2, <1>3 DEF BatchInv, RequestsAccounted
<1> QED
  BY <1>1, <1>5, <1>6, <1>7, <1>8, StaysInBatch

-----------------------------------------------------------------------------
\* The inductive invariant of the batches: every request is in one place, and finished runs
\* keep their counts (runner.py _run_request_batch).
THEOREM BatchHolds == Spec => []BatchInv
<1>1. BatchInv /\ [Next]_vars => BatchInv'
  <2> SUFFICES ASSUME BatchInv, [Next]_vars PROVE BatchInv'
    OBVIOUS
  <2>1. CASE Next
    BY <2>1, BeforeHolds, GatheredHolds, AfterHolds, ClientHolds, BackendHolds DEF Next
  <2>2. CASE UNCHANGED vars
    BY <2>2 DEF vars, client, results, BatchInv, TypeOK, RequestsAccounted, ResultsKept, InBatch
  <2> QED
    BY <2>1, <2>2
<1> QED
  BY InitHolds, <1>1, PTL DEF Spec

\* No request of a batch is lost or counted twice, the semaphore keeps its limit, and no
\* request is under way in the next batch or at a scrape (runner.py _run_request_batch).
THEOREM RequestsAlwaysAccounted == Spec => []RequestsAccounted
<1>1. BatchInv => RequestsAccounted
  BY DEF BatchInv
<1> QED
  BY <1>1, BatchHolds, PTL

(***************************************************************************)
(* The window.                                                             *)
(***************************************************************************)

\* The page of a backend of this family with these counters.
Page(family, hits, queries) ==
    LET value == [hits |-> hits, queries |-> queries]
        shown == {k \in {"hits", "queries"} : LazyCounters => value[k] > 0}
    IN  [key \in {family} \X shown |-> value[key[2]]]

ErrorPage == make_metric_snapshot(<<>>, TRUE)

Shows(snapshot, family, hits, queries) ==
    snapshot = make_metric_snapshot(Page(family, hits, queries), FALSE)

\* A snapshot with an error has no counter, one without shows numbers.
Readable(snapshot) ==
    \/ snapshot = ErrorPage
    \/ /\ snapshot.error = FALSE
       /\ \A kind \in {"hits", "queries"} : PickedValue(snapshot.metrics, kind) \in Nat \cup {Null}

Running == WindowOpen \/ pc = "exporter_after"

\* While the window is open the backend's counters are those of the first page and what the
\* window has seen since, unless the backend was started again.
CountersFollow ==
    WindowOpen /\ ~before.error /\ ~window.restarted =>
        /\ window.hits <= backend.hits /\ window.queries <= backend.queries
        /\ Shows(before, backend.family, backend.hits - window.hits, backend.queries - window.queries)

\* What is derived of two pages is what the window saw.
DeltasExact ==
    LET derived == derive_window_metrics(before, after)
    IN  derived.ratio # Null =>
            /\ ~before.error /\ ~after.error
            /\ ~window.restarted => /\ derived.hits_delta = window.hits
                                    /\ derived.queries_delta = window.queries

\* Every request that succeeded was looked up in the window.
SuccessesSeen ==
    /\ pc \in {"exporter_before", "warmup"} => warmup.ok = 0
    /\ pc \in {"warmup", "measured", "backend_after", "exporter_after"} =>
          warmup.ok + ok + counted <= window.queries

WindowInv ==
    /\ entry # Null => pc \in {"backend_before", "done"}
    /\ Running => Readable(before)
    /\ CountersFollow /\ SuccessesSeen
    /\ pc = "exporter_after" => Readable(after) /\ DeltasExact
    /\ WindowExact

\* What a page shows of a counter.
Shown(value) == IF LazyCounters => value > 0 THEN value ELSE Null

LEMMA PageShows ==
    ASSUME NEW f \in Families, NEW h \in Nat, NEW q \in Nat
    PROVE  /\ PickedValue(Page(f, h, q), "hits") = Shown(h)
           /\ PickedValue(Page(f, h, q), "queries") = Shown(q)
<1> DEFINE value == [hits |-> h, queries |-> q]
           shown == {k \in {"hits", "queries"} : LazyCounters => value[k] > 0}
<1>1. ASSUME NEW k \in {"hits", "queries"}
      PROVE  PickedValue(Page(f, h, q), k) = Shown(value[k])
  <2>1. DOMAIN Page(f, h, q) = {f} \X shown
    BY DEF Page
  <2>2. \A g \in {"prefix", "token"} :
            <<g, k>> \in DOMAIN Page(f, h, q) <=> g = f /\ (LazyCounters => value[k] > 0)
    BY <2>1
  <2>3. PickedName(Page(f, h, q), k) = IF LazyCounters => value[k] > 0 THEN f ELSE Null
    BY <2>2 DEF PickedName, Families
  <2>4. (LazyCounters => value[k] > 0) => Page(f, h, q)[<<f, k>>] = value[k]
    BY <2>1 DEF Page
  <2>5. f # Null
    BY NullAssumption DEF Families
  <2> QED
    BY <2>3, <2>4, <2>5 DEF PickedValue, Shown
<1> QED
  BY <1>1

LEMMA ErrorShows ==
    ASSUME NEW k PROVE PickedValue(ErrorPage.metrics, k) = Null
<1>1. DOMAIN ErrorPage.metrics = {}
  BY DEF ErrorPage, make_metric_snapshot
<1> QED
  BY <1>1 DEF PickedValue, PickedName

\* A counter of two pages of one life of a backend.
LEMMA DeltaIs ==
    ASSUME NEW v \in Nat, NEW w \in Nat, v <= w,
           NEW start, start = IF Shown(v) = Null /\ Shown(w) # Null THEN 0 ELSE Shown(v),
           compute_counter_delta(start, Shown(w)) # Null
    PROVE  compute_counter_delta(start, Shown(w)) = w - v
<1>1. Shown(w) # Null
  BY DEF compute_counter_delta
<1>2. Shown(w) = w
  BY <1>1 DEF Shown
<1>3. start = v
  BY <1>1, NullAssumption DEF Shown
<1>4. v # Null /\ w # Null
  BY NullAssumption
<1>5. compute_counter_delta(v, w) = w - v
  BY <1>4 DEF compute_counter_delta
<1> QED
  BY <1>2, <1>3, <1>5

\* A ratio needs both deltas.
LEMMA RatioNeeds ==
    ASSUME NEW s, NEW t, derive_window_metrics(s, t).ratio # Null
    PROVE  /\ derive_window_metrics(s, t).hits_delta # Null
           /\ derive_window_metrics(s, t).queries_delta # Null
  BY DEF derive_window_metrics, compute_hit_ratio_from_deltas

LEMMA DeltasAre ==
    ASSUME NEW s, NEW t
    PROVE  /\ derive_window_metrics(s, t).hits_delta =
                 compute_counter_delta(StartValue(s, t, "hits"), PickedValue(t.metrics, "hits"))
           /\ derive_window_metrics(s, t).queries_delta =
                 compute_counter_delta(StartValue(s, t, "queries"), PickedValue(t.metrics, "queries"))
  BY DEF derive_window_metrics

LEMMA PagesDiffer ==
    ASSUME NEW f \in Families, NEW h1 \in Nat, NEW q1 \in Nat, NEW h2 \in Nat, NEW q2 \in Nat,
           h1 <= h2, q1 <= q2,
           NEW s, Shows(s, f, h1, q1), NEW t, Shows(t, f, h2, q2),
           derive_window_metrics(s, t).ratio # Null
    PROVE  /\ derive_window_metrics(s, t).hits_delta = h2 - h1
           /\ derive_window_metrics(s, t).queries_delta = q2 - q1
<1>1. s.error = FALSE /\ s.metrics = Page(f, h1, q1) /\ t.metrics = Page(f, h2, q2)
  BY DEF Shows, make_metric_snapshot
<1>9. /\ PickedValue(Page(f, h1, q1), "hits") = Shown(h1)
      /\ PickedValue(Page(f, h1, q1), "queries") = Shown(q1)
  BY ONLY f \in Families, h1 \in Nat, q1 \in Nat, PageShows
<1>10. /\ PickedValue(Page(f, h2, q2), "hits") = Shown(h2)
      /\ PickedValue(Page(f, h2, q2), "queries") = Shown(q2)
  BY ONLY f \in Families, h2 \in Nat, q2 \in Nat, PageShows
<1>2. /\ PickedValue(s.metrics, "hits") = Shown(h1)
      /\ PickedValue(s.metrics, "queries") = Shown(q1)
  BY <1>1, <1>9
<1>3. /\ PickedValue(t.metrics, "hits") = Shown(h2)
      /\ PickedValue(t.metrics, "queries") = Shown(q2)
  BY <1>1, <1>10
<1>4. /\ StartValue(s, t, "hits")
           = IF Shown(h1) = Null /\ Shown(h2) # Null THEN 0 ELSE Shown(h1)
      /\ StartValue(s, t, "queries")
           = IF Shown(q1) = Null /\ Shown(q2) # Null THEN 0 ELSE Shown(q1)
  BY <1>1, <1>2, <1>3 DEF StartValue
<1>5. /\ derive_window_metrics(s, t).hits_delta # Null
      /\ derive_window_metrics(s, t).queries_delta # Null
  BY RatioNeeds
<1>6. /\ derive_window_metrics(s, t).hits_delta
           = compute_counter_delta(StartValue(s, t, "hits"), Shown(h2))
      /\ derive_window_metrics(s, t).queries_delta
           = compute_counter_delta(StartValue(s, t, "queries"), Shown(q2))
  BY <1>3, DeltasAre
<1>7. derive_window_metrics(s, t).hits_delta = h2 - h1
  BY <1>4, <1>5, <1>6, DeltaIs
<1>8. derive_window_metrics(s, t).queries_delta = q2 - q1
  BY <1>4, <1>5, <1>6, DeltaIs
<1> QED
  BY <1>7, <1>8

\* Without one of the pages there is no ratio.
LEMMA ErrorsDeriveNothing ==
    ASSUME NEW s, NEW t, Readable(s), Readable(t), derive_window_metrics(s, t).ratio # Null
    PROVE  ~s.error /\ ~t.error
<1>1. compute_counter_delta(StartValue(s, t, "hits"), PickedValue(t.metrics, "hits")) # Null
  BY RatioNeeds, DeltasAre
<1>2. StartValue(s, t, "hits") # Null /\ PickedValue(t.metrics, "hits") # Null
  BY <1>1 DEF compute_counter_delta
<1>3. t # ErrorPage
  BY <1>2, ErrorShows
<1>4. s # ErrorPage
  BY <1>2, ErrorShows DEF StartValue, ErrorPage, make_metric_snapshot
<1> QED
  BY <1>3, <1>4 DEF Readable

LEMMA SnapshotIs ==
    ASSUME TypeOK, NEW s \in Snapshots
    PROVE  /\ Readable(s)
           /\ ~s.error => Shows(s, backend.family, backend.hits, backend.queries)
<1>1. Exposed = Page(backend.family, backend.hits, backend.queries)
  BY DEF Exposed, Page
<1>2. s = make_metric_snapshot(Exposed, FALSE) \/ s = ErrorPage
  BY DEF Snapshots, ErrorPage
<1>3. ErrorPage.error = TRUE
  BY DEF ErrorPage, make_metric_snapshot
<1>4. backend.family \in Families /\ backend.hits \in Nat /\ backend.queries \in Nat
  BY DEF TypeOK
<1>5. \A kind \in {"hits", "queries"} : PickedValue(Exposed, kind) \in Nat \cup {Null}
  <2>1. /\ PickedValue(Exposed, "hits") = Shown(backend.hits)
        /\ PickedValue(Exposed, "queries") = Shown(backend.queries)
    BY ONLY <1>1, <1>4, PageShows
  <2>2. Shown(backend.hits) \in Nat \cup {Null} /\ Shown(backend.queries) \in Nat \cup {Null}
    BY <1>4 DEF Shown
  <2> QED
    BY <2>1, <2>2
<1>6. CASE s = ErrorPage
  BY <1>3, <1>6 DEF Readable
<1>7. CASE s = make_metric_snapshot(Exposed, FALSE)
  <2>1. s.error = FALSE /\ s.metrics = Exposed
    BY <1>7 DEF make_metric_snapshot
  <2> QED
    BY <1>1, <1>5, <1>7, <2>1 DEF Readable, Shows
<1> QED
  BY <1>2, <1>6, <1>7

\* What is derived of two pages is a record, whatever they show.
LEMMA DerivedIsNoNull ==
    ASSUME NEW s, NEW t, Readable(s), Readable(t)
    PROVE  derive_window_metrics(s, t) # Null
<1> DEFINE Value == Nat \cup {Null}
           d == derive_window_metrics(s, t)
           delta(k) == compute_counter_delta(StartValue(s, t, k), PickedValue(t.metrics, k))
<1>1. ASSUME NEW k \in {"hits", "queries"} PROVE delta(k) \in Value
  <2>1. PickedValue(s.metrics, k) \in Value /\ PickedValue(t.metrics, k) \in Value
    BY ErrorShows DEF Readable
  <2>2. StartValue(s, t, k) \in Value
    BY <2>1 DEF StartValue
  <2> QED
    BY <2>1, <2>2 DEF compute_counter_delta
<1>2. d.hits_delta = delta("hits") /\ d.queries_delta = delta("queries")
  BY DeltasAre
<1>3. compute_hit_ratio_from_deltas(delta("hits"), delta("queries")) \in Int \cup {Null}
  <2>1. ASSUME NEW h \in Nat, NEW q \in Nat \ {0} PROVE (100 * h) \div q \in Int
    OBVIOUS
  <2>2. delta("hits") \in Value /\ delta("queries") \in Value
    BY <1>1
  <2> HIDE DEF delta
  <2> QED
    BY <2>1, <2>2 DEF compute_hit_ratio_from_deltas
<1> DEFINE ratio == compute_hit_ratio_from_deltas(delta("hits"), delta("queries"))
           names == {PickedName(p.metrics, kind) : p \in {s, t}, kind \in {"hits", "queries"}}
                    \ {Null}
           evidence == IF ratio = Null THEN "missing"
                       ELSE IF names \subseteq {"token"} THEN "fallback" ELSE "strict"
<1>4. d = [hits_delta |-> delta("hits"), queries_delta |-> delta("queries"),
           ratio |-> ratio, stale |-> FALSE, evidence |-> evidence]
  BY DEF derive_window_metrics
<1>8. evidence \in {"missing", "fallback", "strict"} /\ ratio \in Int \cup {Null}
  BY <1>3
<1>5. delta("hits") \in Int \cup {Null} /\ delta("queries") \in Int \cup {Null}
  BY <1>1
<1> HIDE DEF delta, d, ratio, names, evidence
<1>6. d \in [hits_delta : Int \cup {Null}, queries_delta : Int \cup {Null},
             ratio : Int \cup {Null}, stale : BOOLEAN,
             evidence : {"missing", "fallback", "strict"}]
  BY <1>4, <1>5, <1>8
<1>7. d # Null
  BY <1>6, NullAssumption
<1> QED
  BY <1>7 DEF d

\* The quality of a run is "ok" when there is a ratio.
LEMMA QualityNeedsRatio ==
    ASSUME NEW e, e.derived # Null, Quality(e) = "ok"
    PROVE  e.derived.ratio # Null
  BY DEF Quality, get_entry_hit_ratio_quality_and_source

-----------------------------------------------------------------------------
LEMMA WindowAtStart == Init => WindowInv
<1> SUFFICES ASSUME Init PROVE WindowInv
  OBVIOUS
<1> QED
  BY DEF Init, WindowInv, Running, WindowOpen, CountersFollow, SuccessesSeen, WindowExact

\* The first page opens the window.
LEMMA WindowOpens == BatchInv /\ WindowInv /\ ScrapeBackendBefore => WindowInv'
<1> SUFFICES ASSUME BatchInv, WindowInv, ScrapeBackendBefore PROVE WindowInv'
  OBVIOUS
<1>1. /\ pc' = "exporter_before" /\ entry' = Null /\ before' \in Snapshots /\ backend' = backend
      /\ warmup' = [ok |-> 0, failed |-> 0]
      /\ window' = [hits |-> 0, queries |-> 0, restarted |-> FALSE]
  BY DEF ScrapeBackendBefore, NoBatch, NoRun
<1>2. backend.hits \in Nat /\ backend.queries \in Nat
  BY DEF BatchInv, TypeOK
<1>3. /\ Readable(before')
      /\ ~before'.error => Shows(before', backend.family, backend.hits, backend.queries)
  BY <1>1, SnapshotIs DEF BatchInv
<1>4. /\ window'.hits = 0 /\ window'.queries = 0
      /\ backend.hits - window'.hits = backend.hits
      /\ backend.queries - window'.queries = backend.queries
      /\ window'.hits <= backend.hits /\ window'.queries <= backend.queries
  BY <1>1, <1>2
<1>5. CountersFollow'
  BY <1>1, <1>2, <1>3, <1>4 DEF CountersFollow
<1>6. SuccessesSeen'
  BY <1>1 DEF SuccessesSeen
<1> QED
  BY <1>1, <1>3, <1>5, <1>6 DEF WindowInv, WindowExact

\* The next batch starts with no success of its own.
LEMMA WindowBatches ==
    BatchInv /\ WindowInv /\ (ScrapeExporterBefore \/ WarmupEnds \/ MeasuredEnds) => WindowInv'
<1> SUFFICES ASSUME BatchInv, WindowInv, ScrapeExporterBefore \/ WarmupEnds \/ MeasuredEnds
             PROVE  WindowInv'
  OBVIOUS
<1>1. /\ before' = before /\ entry' = entry /\ backend' = backend /\ window' = window
      /\ counted' = counted
      /\ pc \in {"exporter_before", "warmup", "measured"}
      /\ pc' \in {"warmup", "measured", "backend_after"}
  BY DEF ScrapeExporterBefore, WarmupEnds, MeasuredEnds, results, client
<1>2. WindowOpen /\ WindowOpen' /\ Running /\ pc' # "exporter_after"
  BY <1>1 DEF WindowOpen, Running
<1>3. entry = Null
  BY <1>1 DEF WindowInv
<1>4. Readable(before)
  BY <1>2 DEF WindowInv
<1>5. CountersFollow'
  BY <1>1, <1>2 DEF WindowInv, CountersFollow
<1>6. /\ warmup \in [ok : Nat, failed : Nat] /\ ok \in Nat /\ counted \in Nat
      /\ window.queries \in Nat
  BY DEF BatchInv, TypeOK
<1>7. SuccessesSeen'
  <2>1. CASE ScrapeExporterBefore
    <3>1. counted = 0
      BY <2>1 DEF ScrapeExporterBefore, BatchInv, TypeOK, RequestsAccounted, InBatch
    <3>2. warmup.ok = 0
      BY <2>1 DEF ScrapeExporterBefore, WindowInv, SuccessesSeen
    <3>3. warmup' = warmup /\ ok' = 0 /\ pc' = "warmup"
      BY <2>1 DEF ScrapeExporterBefore, results
    <3> QED
      BY <1>1, <1>6, <3>1, <3>2, <3>3 DEF SuccessesSeen
  <2>2. CASE WarmupEnds
    <3>1. warmup.ok = 0 /\ warmup.ok + ok + counted <= window.queries
      BY <2>2 DEF WarmupEnds, WindowInv, SuccessesSeen
    <3>2. warmup'.ok = ok /\ ok' = 0 /\ pc' = "measured"
      BY <2>2 DEF WarmupEnds
    <3> QED
      BY <1>1, <1>6, <3>1, <3>2 DEF SuccessesSeen
  <2>3. CASE MeasuredEnds
    BY <1>1, <2>3 DEF MeasuredEnds, client, results, WindowInv, SuccessesSeen
  <2> QED
    BY <2>1, <2>2, <2>3
<1> QED
  BY <1>1, <1>2, <1>3, <1>4, <1>5, <1>7 DEF WindowInv, WindowExact

\* The second page closes it.
LEMMA WindowCloses == BatchInv /\ WindowInv /\ ScrapeBackendAfter => WindowInv'
<1> SUFFICES ASSUME BatchInv, WindowInv, ScrapeBackendAfter PROVE WindowInv'
  OBVIOUS
<1>1. /\ pc = "backend_after" /\ pc' = "exporter_after" /\ after' \in Snapshots
      /\ before' = before /\ entry' = entry /\ backend' = backend /\ window' = window
      /\ counted' = counted /\ ok' = ok /\ warmup' = warmup
  BY DEF ScrapeBackendAfter, client
<1>2. WindowOpen /\ Running /\ ~WindowOpen'
  BY <1>1 DEF WindowOpen, Running
<1>3. entry = Null /\ Readable(before)
  BY <1>1, <1>2 DEF WindowInv
<1>4. /\ Readable(after')
      /\ ~after'.error => Shows(after', backend.family, backend.hits, backend.queries)
  BY <1>1, SnapshotIs DEF BatchInv
<1>5. DeltasExact'
  <2> DEFINE d == derive_window_metrics(before, after')
  <2> SUFFICES ASSUME d.ratio # Null
               PROVE  /\ ~before.error /\ ~after'.error
                      /\ ~window.restarted => d.hits_delta = window.hits /\ d.queries_delta = window.queries
    BY <1>1 DEF DeltasExact
  <2>1. ~before.error /\ ~after'.error
    BY <1>3, <1>4, ErrorsDeriveNothing
  <2>2. ASSUME ~window.restarted
        PROVE  d.hits_delta = window.hits /\ d.queries_delta = window.queries
    <3> DEFINE f  == backend.family
               h1 == backend.hits - window.hits
               q1 == backend.queries - window.queries
               h2 == backend.hits
               q2 == backend.queries
    <3>1. /\ window.hits <= backend.hits /\ window.queries <= backend.queries
          /\ Shows(before, f, h1, q1) /\ Shows(after', f, h2, q2)
      BY <1>2, <1>4, <2>1, <2>2 DEF WindowInv, CountersFollow
    <3>2. /\ backend.family \in Families /\ backend.hits \in Nat /\ backend.queries \in Nat
          /\ window.hits \in Nat /\ window.queries \in Nat
      BY DEF BatchInv, TypeOK
    <3>3. /\ f \in Families /\ h1 \in Nat /\ q1 \in Nat /\ h2 \in Nat /\ q2 \in Nat
          /\ h1 <= h2 /\ q1 <= q2 /\ h2 - h1 = window.hits /\ q2 - q1 = window.queries
      BY <3>1, <3>2
    <3> HIDE DEF f, h1, q1, h2, q2
    <3>4. d.hits_delta = h2 - h1 /\ d.queries_delta = q2 - q1
      BY <3>1, <3>3, PagesDiffer
    <3> QED
      BY <3>3, <3>4
  <2> QED
    BY <2>1, <2>2
<1>6. SuccessesSeen'
  BY <1>1 DEF WindowInv, SuccessesSeen
<1> QED
  BY <1>1, <1>2, <1>3, <1>4, <1>5, <1>6 DEF WindowInv, Running, CountersFollow, WindowExact

\* The entry says what the two pages show.
LEMMA WindowReported == BatchInv /\ WindowInv /\ ScrapeExporterAfter => WindowInv'
<1> SUFFICES ASSUME BatchInv, WindowInv, ScrapeExporterAfter PROVE WindowInv'
  OBVIOUS
<1>1. /\ pc = "exporter_after" /\ pc' \in {"backend_before", "done"}
      /\ before' = before /\ after' = after /\ window' = window /\ warmup' = warmup
  BY DEF ScrapeExporterAfter
<1>2. ~Running' /\ ~WindowOpen' /\ pc' # "exporter_after" /\ Running
  BY <1>1 DEF Running, WindowOpen
<1>3. PICK exporter \in ExporterPages : entry' = make_run_entry(exporter)
  BY DEF ScrapeExporterAfter
<1>4. entry'.derived = derive_window_metrics(before, after) /\ entry'.requests.ok = ok
  BY <1>3 DEF make_run_entry
<1>5. DeltasExact /\ Readable(before) /\ Readable(after) /\ warmup.ok + ok + counted <= window.queries
  BY <1>1, <1>2 DEF WindowInv, SuccessesSeen
<1>6. WindowExact'
  <2> SUFFICES ASSUME Quality(entry') = "ok"
               PROVE  /\ ~before.error /\ ~after.error
                      /\ ~window.restarted =>
                            /\ entry'.derived.hits_delta = window.hits
                            /\ entry'.derived.queries_delta = window.queries
                            /\ warmup.ok + entry'.requests.ok <= entry'.derived.queries_delta
    BY <1>1 DEF WindowExact
  <2>1. derive_window_metrics(before, after).ratio # Null
    BY <1>4, <1>5, DerivedIsNoNull, QualityNeedsRatio
  <2>2. warmup.ok \in Nat /\ ok \in Nat /\ counted \in Nat /\ window.queries \in Nat
    BY DEF BatchInv, TypeOK
  <2>3. warmup.ok + ok <= window.queries
    BY <1>5, <2>2
  <2> QED
    BY <1>4, <1>5, <2>1, <2>3 DEF DeltasExact
<1> QED
  BY <1>1, <1>2, <1>6 DEF WindowInv, CountersFollow, SuccessesSeen

\* A request that succeeds was looked up.
LEMMA WindowRequests == BatchInv /\ WindowInv /\ (Start \/ Answer \/ Fail) => WindowInv'
<1> SUFFICES ASSUME BatchInv, WindowInv, Start \/ Answer \/ Fail PROVE WindowInv'
  OBVIOUS
<1>1. UNCHANGED <<pc, warmup, before, after, entry, backend, window>>
  BY DEF Start, Answer, Fail, results
<1>2. warmup.ok \in Nat /\ ok \in Nat /\ counted \in Nat /\ window.queries \in Nat
  BY DEF BatchInv, TypeOK
<1>3. ok' \in Nat /\ counted' \in Nat /\ ok' + counted' <= ok + counted
  BY <1>2 DEF Start, Answer, Fail
<1>4. warmup.ok + ok' + counted' <= warmup.ok + ok + counted
  <2>1. \A w, a, b, c, d \in Nat : a + b <= c + d => w + a + b <= w + c + d
    OBVIOUS
  <2> QED
    BY <1>2, <1>3, <2>1
<1>5. SuccessesSeen'
  BY <1>1, <1>2, <1>3, <1>4 DEF WindowInv, SuccessesSeen
<1> QED
  BY <1>1, <1>5 DEF WindowInv, Running, WindowOpen, CountersFollow, DeltasExact, WindowExact

\* What the backend looks up while the window is open is in both counts.
LEMMA WindowLookUps ==
    ASSUME BatchInv, WindowInv, NEW hit \in {0, 1}, LookUp(hit) PROVE WindowInv'
<1>1. UNCHANGED <<pc, ok, warmup, before, after, entry>>
  BY DEF LookUp, results
<1>2. /\ warmup.ok \in Nat /\ ok \in Nat /\ counted \in Nat /\ sent \in Nat
      /\ window \in [hits : Nat, queries : Nat, restarted : BOOLEAN]
      /\ backend \in [up : BOOLEAN, family : Families, hits : Nat, queries : Nat]
  BY DEF BatchInv, TypeOK
<1>3. /\ backend' = [backend EXCEPT !.hits = backend.hits + hit, !.queries = backend.queries + 1]
      /\ (counted' = counted + 1 /\ sent > 0) \/ counted' = counted
  BY DEF LookUp
<1>4. CASE WindowOpen
  <2>1. window' = [window EXCEPT !.hits = window.hits + hit, !.queries = window.queries + 1]
    BY <1>4 DEF LookUp
  <2>2. /\ window'.hits = window.hits + hit /\ window'.queries = window.queries + 1
        /\ window'.restarted = window.restarted
        /\ backend'.hits = backend.hits + hit /\ backend'.queries = backend.queries + 1
        /\ backend'.family = backend.family
    BY <1>2, <1>3, <2>1
  <2>3. /\ backend'.hits - window'.hits = backend.hits - window.hits
        /\ backend'.queries - window'.queries = backend.queries - window.queries
        /\ window.hits <= backend.hits => window'.hits <= backend'.hits
        /\ window.queries <= backend.queries => window'.queries <= backend'.queries
    BY <1>2, <2>2
  <2>4. WindowOpen' /\ Running /\ pc' # "exporter_after" /\ entry = Null
    BY <1>1, <1>4 DEF WindowOpen, Running, WindowInv
  <2>5. CountersFollow'
    BY <1>1, <1>4, <2>2, <2>3 DEF WindowInv, CountersFollow
  <2>6. SuccessesSeen'
    <3>1. warmup.ok + ok + counted' <= warmup.ok + ok + counted + 1
      BY <1>2, <1>3
    <3> QED
      BY <1>1, <1>2, <1>3, <2>2, <3>1 DEF WindowInv, SuccessesSeen
  <2> QED
    BY <1>1, <2>4, <2>5, <2>6 DEF WindowInv, WindowExact
<1>5. CASE ~WindowOpen
  <2>1. window' = window /\ ~WindowOpen'
    BY <1>1, <1>5 DEF LookUp, WindowOpen
  <2>2. pc = "exporter_after" => sent = 0
    <3>1. waiting \in Nat /\ lost \in Nat
      BY DEF BatchInv, TypeOK
    <3>2. pc = "exporter_after" => waiting + sent + counted + lost = 0
      BY DEF BatchInv, RequestsAccounted, InBatch
    <3> QED
      BY <1>2, <3>1, <3>2
  <2>3. SuccessesSeen'
    BY <1>1, <1>2, <1>3, <1>5, <2>1, <2>2 DEF WindowInv, SuccessesSeen, WindowOpen
  <2> QED
    BY <1>1, <1>5, <2>1, <2>3 DEF WindowInv, Running, CountersFollow, DeltasExact, WindowExact
<1> QED
  BY <1>4, <1>5

\* A backend that starts again in the window marks it.
LEMMA WindowCrashes == BatchInv /\ WindowInv /\ (BackendStops \/ BackendStarts) => WindowInv'
<1> SUFFICES ASSUME BatchInv, WindowInv, BackendStops \/ BackendStarts PROVE WindowInv'
  OBVIOUS
<1>1. UNCHANGED <<pc, ok, warmup, before, after, entry>>
  BY DEF BackendStops, BackendStarts, client, results
<1>2. /\ warmup.ok \in Nat /\ ok \in Nat /\ counted \in Nat
      /\ window \in [hits : Nat, queries : Nat, restarted : BOOLEAN]
      /\ backend \in [up : BOOLEAN, family : Families, hits : Nat, queries : Nat]
  BY DEF BatchInv, TypeOK
<1>3. (WindowOpen' <=> WindowOpen) /\ (Running' <=> Running)
  BY <1>1 DEF WindowOpen, Running
<1>4. CASE BackendStops
  <2>1. /\ window' = window /\ counted' = 0
        /\ backend'.hits = backend.hits /\ backend'.queries = backend.queries
        /\ backend'.family = backend.family
    BY <1>2, <1>4 DEF BackendStops
  <2>2. CountersFollow'
    BY <1>1, <1>3, <2>1 DEF WindowInv, CountersFollow
  <2>3. SuccessesSeen'
    BY <1>1, <1>2, <2>1 DEF WindowInv, SuccessesSeen
  <2> QED
    BY <1>1, <1>3, <2>1, <2>2, <2>3 DEF WindowInv, DeltasExact, WindowExact
<1>5. CASE BackendStarts
  <2>1. window' = [window EXCEPT !.restarted = window.restarted \/ WindowOpen]
    BY <1>5 DEF BackendStarts
  <2>2. window'.hits = window.hits /\ window'.queries = window.queries /\ counted' = counted
        /\ (WindowOpen => window'.restarted) /\ (~WindowOpen => window' = window)
    BY <1>2, <1>5, <2>1 DEF BackendStarts, client
  <2>3. CountersFollow'
    BY <1>3, <2>2 DEF CountersFollow
  <2>4. SuccessesSeen'
    BY <1>1, <2>2 DEF WindowInv, SuccessesSeen
  <2>5. CASE WindowOpen
    <3>1. pc # "exporter_after" /\ entry = Null
      BY <2>5 DEF WindowOpen, WindowInv
    <3> QED
      BY <1>1, <1>3, <2>3, <2>4, <3>1 DEF WindowInv, WindowExact
  <2>6. CASE ~WindowOpen
    BY <1>1, <1>3, <2>2, <2>3, <2>4, <2>6 DEF WindowInv, DeltasExact, WindowExact
  <2> QED
    BY <2>5, <2>6
<1> QED
  BY <1>4, <1>5

-----------------------------------------------------------------------------
\* The inductive invariant of the window: the counters follow the lookups, and every page and
\* every finished run has the deltas of its own window (runner.py run_windowed_experiment).
THEOREM WindowHolds == Spec => []WindowInv
<1>1. BatchInv /\ WindowInv /\ [Next]_vars => WindowInv'
  <2> SUFFICES ASSUME BatchInv, WindowInv, [Next]_vars PROVE WindowInv'
    OBVIOUS
  <2>1. CASE Next
    BY <2>1, WindowOpens, WindowBatches, WindowCloses, WindowReported, WindowRequests,
       WindowLookUps, WindowCrashes DEF Next
  <2>2. CASE UNCHANGED vars
    BY <2>2 DEF vars, client, results, WindowInv, Running, WindowOpen, CountersFollow,
       SuccessesSeen, DeltasExact, WindowExact
  <2> QED
    BY <2>1, <2>2
<1> QED
  BY <1>1, WindowAtStart, BatchHolds, PTL DEF Spec

\* A run whose ratio is "ok" read both pages and, unless the backend was started again in
\* between, its deltas are what the backend looked up in the window, every request that
\* succeeded included (window_metrics.py derive_window_metrics; docs/metric_spec.md:101-128).
THEOREM WindowAlwaysExact == Spec => []WindowExact
<1>1. WindowInv => WindowExact
  BY DEF WindowInv
<1> QED
  BY <1>1, WindowHolds, PTL
=============================================================================
