# Kavora in TLA+

Kavora is a policy-enforcing gateway in front of LLM inference backends. A Go
process (`gateway/`) authenticates tenants, limits their concurrency, asks a Rust
policy engine (`policy-engine/`) for a verdict on each request and on each chunk of
a streamed response, routes the request to one of several backends, and records
what it decided. Python processes around it measure the backends (`exporter/`),
translate the engines' cache events (`engine_events/`) and plan experiments
(`planner/`, `benchmark/`).

This directory holds TLA+ models of that system, TLC configurations that check them
on small instances, and TLAPS proofs for every value of the constants.
`PROJECT.json` lists components, runs, mutants, the lines each definition
translates, findings, hazards and theorems. All paths below are relative to `src/`.

    tlc -workers 2 -config StreamPolicy.cfg StreamPolicy     # one run
    tlapm StreamPolicy_proofs.tla                            # one module's proofs

## 1. Inventory

### Request path (Go gateway and Rust policy engine)

| Component | State | Operations | Interacts with |
|---|---|---|---|
| Request handler, `gateway/internal/gateway/server.go` (`ServeHTTP`, `parseRequest`, `forward`, `forwardBuffered`) | one goroutine per request: status, context, candidates, the response being written | admission, parsing, policy verdict, failover loop, deferred release and observation | limiter, policy client, registry, router, telemetry |
| Stream relay, `forwardStream` | `pending` buffer, `responseStarted` | read a chunk, ask the engine, write the released prefix, close | policy session, client connection, backend body |
| Policy session, `gateway/internal/policyclient/client.go` | `sequence` | `OpenStream`, `Check`, `Close` over one gRPC stream, each bounded by the request's context | engine task |
| Engine stream task, `policy-engine/src/service.rs` `check_stream` | `expected_sequence`, the inspector | one answer per message; stops after a rejection, on a gap, on a broken inbound stream | policy session |
| Stream inspector, `policy-engine/src/stream.rs` | pending bytes, inspected and semantic byte counts, `saw_done`, token budget | `inspect`, `finish` | called by the task |
| Request policy, `policy-engine/src/policy.rs`, `cache_key.rs` | none | `evaluate`: PII, content rules, token estimate, cache key | called by `evaluate` and by the opening of a stream |
| Tenant authentication, `gateway/internal/tenant` | table of key digests | `Authenticate` | handler |
| Concurrency limiter, `gateway/internal/limits/limiter.go` | free slots per tenant | `TryAcquire`, once-guarded release | every handler |
| Backend registry, `gateway/internal/backend/registry.go` | health flag per backend, round-robin cursor | `Candidates`, `MarkFailure`, `MarkSuccess`, `CheckHealth` | every handler, periodic health check |

### Routing decisions (Go, `gateway/internal/router`, `experiment`)

| Component | State | Operations | Interacts with |
|---|---|---|---|
| Lifecycle, `lifecycle.go` | stage, canary index, approval | `Approve`, `Observe` (promote, hold, roll back), `Snapshot`, `Enforces` | admin endpoints, `Plan` |
| Controller, `controller.go` | backend states, cache providers, ledger | `SetState`, `Plan`, `PreferredIDsForDecision`, `RecordActual`, `RecordOutcome` | handler, lifecycle, experiment, affinity, ledger |
| Affinity, `affinity.go` | bounded LRU map with expiry | `Put`, `Get` | controller |
| Cache providers, `cache_provider.go` | shadow index, KV event map with generations and sequences | `Observe`, `Match` | event bridge, controller |
| Decision ledger, `ledger.go` | bounded index, append-only journal files | `Record`, `UpdateActual`, `RecordOutcome`, replay at start-up | controller, disk |
| Experiment controller, `experiment/controller.go` | its configuration | `Assign` (window, arm, guards), `ControlAssignment` | `Plan` |
| Predictors and guardrails, `kvaware.go`, `predictor_artifact.go`, `guardrails.go` | trained coefficients | scoring, vetoes | `Plan` |
| Backend state client, `backendstate/client.go` | last snapshot per backend | poll, validate, age | controller |

### Measurement and planning (Python)

| Component | State | Operations | Interacts with |
|---|---|---|---|
| Event bridge, `engine_events/vllm.py` | checkpoint file, replayed and prepared batches | replay, prepare, post, commit | vLLM, the gateway's event endpoint |
| Exporter, `exporter/app.py` and the adapters, `derive/`, `backend_state.py`, `advisor.py`, `registry/` | gauges, snapshot, advice, times and failures of the scrapes, two files | one poll task; `/metrics`, `/backend-state`, `/advice`, `/readyz` | backend's metrics page, gateway, disk |
| Benchmark runner, `benchmark/runner.py`, `experiment.py`, `collect.py` | requests under way, the two pages of a window | batches through a semaphore, scrapes before and after, run entry | backend, exporter |
| Window metrics, `benchmark/window_metrics.py` | none | deltas, hit ratio, quality and evidence of a run and of a list of runs | runner, planner |
| Sweep and recommendations, `scripts/run_capacity_sweep.py`, `planner/policy.py`, `auto_calibrator.py`, `operating_envelope.py` | measured points | boundaries, ranking, calibration, Pareto points | runner, window metrics |
| Metrics parser, `exporter/prometheus_parse.py` | none | one total per metric name of a page, with a line parser for pages the official one refuses | exporter, runner |
| Request hash resolver, `engine_events/vllm_hash.py` | none | the chained block keys of a request | handler, vLLM's `/tokenize` |
| TTFT predictor, `planner/ttft_predictor.py`, `ttft_validation.py` | none | join of the journals, fit, validation | the ledger's journals |
| Policy evaluation, `planner/policy_evaluation.py` | none | join of the journals, arms, gates, verdict | decision ledger, experiment controller |

### Around these

Admin endpoints and web UI (`webui/`), telemetry, the `kavora` command line client
with its agent loop and tools (`cmd/kavora`, `agent/`, `client/`, `tools/`), the
tool worker (`policy-engine/src/bin/kavora-tool-worker.rs`), workload replay and
simulation (`replay/`, `workloadreplay/`), reports and plots, a fake backend for tests, and generated protocol code.

### What is hard here

* Two processes hold copies of one buffer: the engine's release count cuts the
  gateway's buffer. A lost, repeated or miscounted message would release
  uninspected bytes.
* The engine may crash, the deadline may pass and the client may leave at any
  point, with part of the stream already sent. What happens then depends on the
  tenant's fail mode.
* An event boundary may be split over any number of chunks.
* Every return path of a long handler must give back one slot, and concurrent
  handlers and a health checker write the same registry.
* `Plan` looks at the lifecycle twice, without a lock across both looks, while an
  operator promotes or rolls back.
* The lifecycle's gates are tested in a fixed order; approval, observation and
  rollback come in any order.
* The ledger's index is rebuilt from its journal after a crash; the event bridge
  delivers at least once across restarts.
* The exporter publishes a scrape on three surfaces and two files, any of which may
  fail after the others are done; two tasks in two processes hand its snapshot on.
* A benchmark reads counters it does not own: they appear late, fall when the backend
  restarts, and count requests the client has given up.
* Recommendations rest on summaries of the same runs computed in three places, with
  measurements missing in any of them.
* A predictor is fitted from two journals read one after the other while the gateway
  writes both.
* An experiment's outcomes arrive after their window, in any order or not at all.

The hazards are listed one by one, with lines and the properties that cover them, in
`PROJECT.json`.

## 2. Modules

| Module | Models | Kind |
|---|---|---|
| `StreamInspector` | event boundaries, per-event verdict, budget, in closed form | operators |
| `InspectorLoop` | the inspector's loop as written, event by event, compared with the closed form | operators over a growing buffer |
| `StreamPolicy` | relay, policy session, engine task of one stream | state machine |
| `StreamContract` | what the client of a stream is promised | abstract specification |
| `StreamPolicy_proofs` | of `StreamPolicy` and `InspectorLoop` | proofs |
| `Registry` | health, cursor, `Candidates` in closed form and as its loops are written, and the router's reordering | component of `Gateway`, with operators |
| `Gateway`, `MCGateway` | concurrent handlers, slots, registry, health checks | state machine |
| `Gateway_proofs` | of `Gateway` and `Registry` | proofs |
| `Router`, `MCRouter` | lifecycle, concurrent `Plan` calls, experiment arms, affinity | state machine |
| `Router_proofs` | | proofs |
| `Ledger`, `MCLedger` | decision ledger: index, journals, crash and replay; the MC module has the predictor too | state machine |
| `Predictor` | fitting and validation, reading the ledger's journals beside it | state machine, composed with `Ledger` |
| `Ledger_proofs` | of `Ledger` and `Predictor` | proofs |
| `KVEventProvider` | the gateway's index of engine events: LRU, generations, duplicate suppression | operators |
| `KVEvents`, `MCKVEvents` | engine, event bridge and provider, with losses, late posts and crashes of all three | state machine |
| `KVEvents_proofs` | | proofs |
| `MetricsPage` | from the lines of a metrics page to totals | operators over a growing page |
| `BlockHash` | the block keys of a request and what `Match` finds for them | operators over a growing cache |
| `ExporterSignals` | what the exporter makes of one metrics page | operators |
| `Exporter`, `MCExporter` | poll task, surfaces, files, readiness, and the gateway's copy | state machine |
| `Exporter_proofs` | | proofs |
| `WindowMetrics` | hit ratio of a window, its quality and evidence, summaries | operators |
| `Benchmark`, `MCBenchmark` | windowed experiments against a backend that crashes | state machine |
| `Benchmark_proofs` | | proofs |
| `Planner` | a sweep and everything recommended from it | state machine and operators |
| `PolicyEvaluation` | assignment, journals and verdict of an experiment | state machine and operators |
| `Evaluation_proofs` | of `PolicyEvaluation`, `Planner`, `BlockHash` and `MetricsPage` | proofs |
| `MCAlgorithms` | `InspectorLoop`, `Registry`, `MetricsPage`, `BlockHash`, `Planner` and `PolicyEvaluation` side by side | TLC only |

### StreamInspector and InspectorLoop

The data is abstracted to lines: a stream is a sequence of line kinds (`"text"` a
data line with an acceptable document of `TextBytes` bytes of text, `"done"` the
`[DONE]` line, `"pii"`, `"term"` and `"junk"` data lines with personal data, a blocked
term, or no valid JSON, `"note"` a line without data, `"lf"` and `"crlf"` the two blank
lines, `"ws"` white space that completes no event).
`ReleasesUpTo(p, n)` says that `n` is the last event end in a buffer, `LinePasses` the verdict on one
event, `FinishPasses` the check at the end. `find_event_end` looks for `\n\n` before
it looks for `\r\n\r\n`, so which blank line ends an event depends on what follows;
`EndsEvent` states that in closed form. `InspectorLoop` has the loop: `NextEvent` is one
round (`find_event_end`, `inspect_event`, the new release count), `inspect` as many rounds
as the buffer has lines, and its properties compare the loop with the closed form and a
stream in one chunk with the same stream in two.

Budgets keep the code's unit: `consumed_tokens` rounds bytes up to tokens, and the
response budget is the tenant's budget minus the prompt's estimate, saturating at
zero (`ResponseTokenBudget`), where the inspector reads zero as *no limit*.

### StreamPolicy

One request. The gateway's handler is `gw`: `open`, `opening`, `route`, `read`,
`check`, `close`, `copy` (inspection given up), `done`. The gRPC stream carries at
most one message each way, which is how `StreamSession` uses it. The engine task is
`eng`. The environment chooses the chunks the backend sends, when its body ends or
fails, whether a write to the client fails, when the deadline passes (`Timeout`),
when the client leaves (`ClientGone`), and when the engine dies (`EngineCrash`).
A send after the context is over reaches nobody; a round trip then fails, as in
`roundTrip`, even when an answer is on its way: `Broken` and an answer may both be
enabled, and either may be taken, because gRPC's `Recv` returns either when both are
there.

### Registry

Health and cursor. `Candidates` is a closed form: each usable backend has `Weight`
tickets in ID order, `Distance` is how far behind the cursor the walk first meets it, and
the list is sorted by distance. `Weighted`, `Round`, `Walk` and `Loop` are the loops as
written; `LoopIsRanking` says that both agree. `Gateway` uses `MarkFailure`,
`MarkSuccess` and `Advance`; the registry's own `RegistryNext` marks backends and asks
for candidates in any order. The cursor is a `uint64` in the code and unbounded here: the
wrap after 2^64 calls, which can interrupt one turn, is left out.

### Gateway

A set of requests, each a handler with its own program counter `pc` (`acquire`,
`parse`, `evaluate`, `open`, `route`, `try`, `waiting`, `body`, `returning`,
`closing`, `done`). Each step is one call that another handler can interleave with:
the limiter's and the registry's methods hold their mutex for their whole body, so
they are single steps; a call to another process is two. `Route` takes any decision
of the router (a set of eligible backends and a selected one), so what `Router`
computes is covered. `Forward` is the result of `StreamPolicy` or of
`forwardBuffered`: a status. The health checker (`probe`) asks backends one at a
time and applies each answer in a later step.

Left out: statuses of requests turned away before admission are merged, headers,
audit lines, histograms, tenants' configuration; a disabled backend is one that is
not configured.

### Router

The lifecycle, moved by `Approve` and `Observe`, and one `Plan` per request in three
steps (first snapshot with the copied backend state; `Enforces`, the second
snapshot; the decision), followed by `Prefer`, `RecordActual`, `RecordOutcome`. A
request's stable sample is a rank that a canary step reaches or not. Scores are not
modelled: `top`, the best-scored eligible backend, is a free choice, so every score
is covered. Two history variables say what the code's state no longer shows: `granted` (approved
since the last rollback) and `permitted` (`granted` when the plan asked `Enforces`).

Left out: `Decide` (no caller in the gateway), cache providers other than the
affinity map, reason strings, the experiment's windows (any arm it may assign is
covered).

### Ledger

The index (`order` and `entries`) and the two journals, one sequence of complete lines
each. Every method of `DecisionLedger` holds its mutex over the change of the index and
the write to the journal, so each is one step; a write succeeds, fails, fails after a
part of the line (`torn = "cut"`), or loses only its newline (`bare`). The first error is
kept and ends all writing, as in the code. `Crash` clears the memory; `Restart` refuses a
line that is no document, accepts a last line without its newline as `bufio.Scanner`
does, and the next write of that day is then joined to it (`torn = "glued"`); `NewDay` is
the change of the file's name at midnight. `Restart` replays the journals in closed form
(`Kept`, `Restored`), which `MCLedger!ReplayIsLoop` compares with the code's loop over
`recordLocked` and `recordOutcomeLocked`. A request ID never repeats (the gateway draws
it), and the clock does not step back over midnight, so files in the order of their
dates are lines in the order of their writes.

### Predictor

`fit_from_journal` and `validate_predictor` are processes of their own: `ReadDecisions`
is the first `_read_jsonl`, `ReadOutcomes` the second one with everything that follows,
and the steps of `Ledger` interleave with both. A line that is no document raises, and so
does a fit with fewer than `MinSamples` samples. Of an outcome the model keeps what the
loops ask: whether its request succeeded with a TTFT on a candidate of the decision
(`measured`), and whether its dimensions, its observed reuse and its token counts pass.
The least squares, the errors and the artifact's coefficients are left out.

### KVEventProvider and KVEvents

`KVEventProvider` is the provider as functions on a record; each of its methods holds
its mutex throughout, so each is one step of `KVEvents`. The map and the list of the
LRU are a set of (backend, block) pairs and the relation *used before*. IDs of seen
events are forgotten beyond four times the capacity, as in the code. Time is not
modelled: an entry may be past its TTL at any moment, so `Match` may find any prefix
that is indexed.

`KVEvents` composes it with the vLLM engine (external: batches of block events,
numbered from 0 in every boot, the last `BufferSteps` of them kept for replay) and with
the bridge of `engine_events/vllm.py`: `down`, `replay`, `work`, `post`. `file` is the
checkpoint and, as `commit` writes memory and file together, also what the adapter
knows; `job` holds replayed batches, `todo` and `upd` a prepared batch. A post is sent
and applied, or its sender gives up and it is applied later or never (`late`). An
exception ends the process, and `Start` brings it back with the same or the next
`--generation`. Posts of other backends appear as `Evict`.

Two parts of the state are read by properties only: `then`, the blocks resident after
an event of the engine, and `origin`, the boots whose batches went into a generation
(`Torn` marks a generation that began in the middle of a boot, or whose gateway
restarted in the middle of a batch). Timestamps of batches are ordered as their boots.

### MetricsPage and BlockHash

A line of a page is one of four forms: `plain`, `strict` (only the official parser reads
it: a timestamp behind the value, `+Inf`, a brace in a label), `loose` (only the line
parser does) and `broken`. The official parser is external: it raises at the first line
it cannot read, and what was summed until then is dropped, and it renames the samples of
a counter to end in `_total` (`Renamed`), where the line parser keeps the names of the
page (`Spelled`). A total is what an adapter reads: `pick_metric_with_name` asks for one
spelling or for both. The line parser knows no types, so it also sums the samples of
histograms and summaries, which the first parser leaves out. `PageAssumption`: all lines
of a name have the type of one family and one spelling, and no value is negative; values
are finite (a line with `+Inf` stands for one the line parser skips; NaN and infinite
sums are not represented). The page without its bad lines, with which `TotalsRobust`
compares, keeps the numbers of its lines.

A block's hash is the sequence of blocks it was computed from (vLLM's hash functions are
external and taken to be free of collisions). `resolve` refuses what the engine hashes
from more than the tokens; the gateway then goes on without exact keys.

### ExporterSignals and Exporter

A page is the type of its backend and a partial function from metrics to numbers; the
spellings of one metric are one name. `VllmCollect` and `SGLangCollect` are the
adapters (SGLang's blocks estimated from token counts where it has none),
`compute_derived` the ratios in whole per cents, `signal` and `Validate` the two ends of
the contract between exporter and gateway, `build_advice` the set of codes.

`Exporter` runs the poll task in steps that end at its awaits: `Ask` (the request is
sent), `Answered` or `CollectFails`, then `Publish` (gauges, snapshot with its stamp,
advice), and `Scraped` or `PersistFails` (the files, and behind them the stamp of the
success). The last two are one synchronous block: nothing else of the process runs
between them, so no reader sees the snapshot between `clear` and `update` and no answer
is given in `persist`; they are apart because the files take time, up to `MaxStall`
ticks. A file operation may fail with the file untouched, torn or complete; a crash may
leave it in the same states. A copy of a scrape carries its age, counted up to the first
value that no property tells apart. The gateway's `held` is
what `pollBackendStateOnce` last accepted, or what it read from the file when it started.
One backend is polled at one URL; failures are counted up to the threshold of `/readyz`.

### WindowMetrics and Benchmark

Counters belong to the family `prefix` or to the token counters that stand in for it.
Requests of a batch are alike and only counted: `waiting` for the semaphore, `sent`,
`counted` (looked up by the backend) and `lost` (the backend has crashed since). The
backend is external: it looks a request up at some moment after it was sent, also when
the client has given it up (`orphans`), may show no counter that is still zero, may
crash, and may come back with the other family. `window` is a history variable: what
was really looked up between the two scrapes. Every scrape may fail.

### Planner

`RunOnce` and `PointEnds` are the loops of the sweep; a run is any of the entries given
as a constant, which is what `Benchmark` produces plus latency, rate, goodput and
GPU-seconds. Ratios and gates are per cents, rates whole numbers, a score is in
hundredths with the integer square root for the deviation. `recommend_runs` and
`summarize_runs_quality` are translated separately, because a rank record takes its
fields from both. The envelope reads the sweep's own document, in which there is no
lower bound of the goodput and no success rate. Left out: `confidence`, `advantage`,
reasons of candidates that were not selected, `--restart-stack-before-each-point`.

### PolicyEvaluation

`Decide` journals the assignment of a request at any time, or the control assignment
while the lifecycle does not enforce; `Complete` journals its outcome, later or never.
Which units fall to the treatment is a free choice, as the hash is. The bootstrap's
interval is abstracted to what any draw allows: an upper end below zero needs one
resample in which the treatment's mean is below the control's (`MayImprove`). The gate
on stream gaps has the form of the one on TPOT and is left out with goodput rates and
strata, which are reported only. The guardrail on prediction drift always passes: see 6.

## 3. Runs

| Run | Instance | Shows |
|---|---|---|
| `algorithms` | every line sequence up to 5 of 6 kinds, budgets 0, 1, 2; 4 backends of weights 3, 1, 2, 1, two models, every health, cursor to 8; sweeps of 2 points with 2 repeats and of 3 points in 2 scenarios, 9 kinds of run, 3 thresholds, 3 budgets; experiments of 4 requests at 8 times (in isolated pools, which know no windows, at 2 times within the experiment), 3 outcomes, both designs, two of four requests treated in pools; pages of 3 lines of 8 kinds, with every filter; prompts of up to 4 tokens in blocks of 2, two of them cached | `LoopIsPointwise`: the inspector's loop computes the closed form; `ChunkingIrrelevant`: where the transport cuts a stream changes nothing; `LoopIsRanking`: the same for the weighted walk; `FairShare`; `RankingSound`, `CalibrationBacked`, `EnvelopeFront`: a recommendation is backed by the runs it names; `RowsComparable`, `VerdictUnswayed`: a verdict compares only what the design lets it compare, and no other answer sways it; `TotalsRobust`: one bad line neither loses nor doubles what an adapter reads of other metrics, but for two named exceptions; `MatchIsPrefix`: blocks found are a prefix of one cached prompt |
| `stream_policy` | bodies up to 4 lines of 5 kinds, chunks up to 2, buffer 2, both fail modes, a prompt below and one above the budget | the safety properties, `ImplementsContract`, and under fairness `StreamEnds` |
| `stream_budget_edge` | a prompt that uses exactly the budget | violation of `BudgetAlwaysKept` |
| `gateway_admission` | 2 requests, an open and a closed tenant, one slot each, 1 backend | admission, slots, rejection |
| `gateway_failover` | 1 request, 2 backends of different weight and models, health checker | failover, no retry after an answer, liveness, health |
| `router_lifecycle` | 2 plans at a time, each handler recycled for further requests, 2 canary steps, every kind of configuration | approval, steering, promotion path |
| `ledger_replay` | 3 requests, an index of 2, 2 backends, failing and torn writes, missing newlines, a new day, any number of crashes; a predictor of 2 features, one request without observed reuse | `IndexIsReplay`, `JournalSound`; `ReplayIsLoop`: the closed form is the loop; `SamplesRealized` |
| `shadow_steers` | the router with a lifecycle that needs approval | violation, see 6 |
| `kv_events` | 2 blocks, an index of 1 and of 2, 3 events, a replay buffer of 2, one restart of the engine or one new `--generation`, lost batches, one late post | `EvidenceIsReal`, `IndexBounded`, `SequenceNeverBack` |
| `kv_restart` | the same, nothing lost | violation, see 6 |
| `exporter` | a vLLM backend with a complete and a partial page, an SGLang backend with tokens and with blocks; stale after 1 tick, files that take up to 1, not ready after 2 failures | `OneScrape`, `ReadyServes`, `NeverBack`, and under fairness `Recovers` |
| `benchmark` | 2 runs of 1 warm-up and 2 measured requests, 2 at a time, counters shown late, 1 crash of the backend, either family | `RequestsAccounted`, `WindowExact`, and under fairness `SweepEnds` |

Why the bounds are enough. Four lines hold two complete events, an event behind
`[DONE]`, or an event with something behind it; with chunks of two lines and a buffer of two,
events are split over chunks, chunks hold parts of two events, and the buffer
overflows. `TextBytes` 4 against a budget of 2 tokens lets one text line pass and a
second one exceed it, in the same and in another chunk. One slot and two requests
make every admission conflict (a tenant's second request is refused, or follows the
first). Two backends make one failover and one exhaustion of the candidates. Two
canary steps are the least with a step inside canary. Two plans are enough for one
to be planned before and one after a change of the lifecycle; the recycled handlers
let a rollback and a second rollout happen between plans. An index of two for three
requests evicts decisions before and after their outcome. Three events are three
batches (a gap, and a replay that the buffer of two can and cannot serve) or a batch of
two and another one (a batch half posted, then repeated after a newer one). The
exporter's four pages lack each kind of signal, so that evidence is graded on complete
and on incomplete snapshots; ages up to three ticks and two failures leave room for a success between a
first and a last failure. One crash in two runs falls before, in and after each window,
and an orphan of the first run can be looked up in the second. The nine kinds of run
meet every gate, miss each gate alone, or lack each measurement; two repeats are the
least that can disagree. Four requests put two in each arm, in the same and in two
windows, and the eight times are both sides of every edge of a window. Three lines of a
page are a name of two label values and one line that changes the parser; the counters
are one with and one without `_total`. Four tokens are
two blocks, so that the second blocks of two prompts agree behind different first ones.
Three requests let two be journalled between the two reads of a fit that had seen one.

Deadlock is not checked where a behaviour ends by itself (all requests are done, the
bound on events is reached). `gateway_admission` and `algorithms` (for the
experiment) use the symmetry of requests, `ledger_replay` that of two of its three, and
`kv_events` that of blocks; their properties are invariants and, in `algorithms` and
`kv_events`, one box-action property each, which names no request and no block. So the reductions are sound.

## 4. Fairness

`StreamPolicy!FairSpec` and `Gateway!FairSpec` assume:

* the request's deadline passes: `context.WithTimeout` is set with a positive
  timeout on every admitted request (`server.go:232`);
* once its context is over, a handler that can take a step takes one: Go schedules
  every runnable goroutine, and the calls to the engine and to a backend take that
  context. Nothing is assumed of a live context: a backend or the engine may hang;
* nothing is assumed of the two places where a handler waits for its client: the read of
  the upload (`server.go:398`) and the writes of the response (`server.go:655-782`) take
  no context, and the server sets no `ReadTimeout` and no `WriteTimeout`
  (`main.go:116-127`). `StreamEnds` and `EveryRequestReturns` therefore say what holds of
  every client (the engine's task ends; a handler stays nowhere else), and that a handler
  returns if its client reads and sends or leaves (`ClientReads`, `ClientServes`);
* the engine task runs when it can, as long as the engine has not crashed;
* the health checker goes on: its HTTP client has a timeout of its own.

`Exporter!FairSpec` assumes that neither poll task ends (`poll_loop` catches every
exception, `runBackendStatePolling` stops only with the gateway), that a backend which
is up answers some of the scrapes, and that neither process is restarted at every
step: strong fairness of the answer, of publishing it, of the files and of the gateway's
poll.
Both of its liveness properties are conditional on a backend that stays up.
`Benchmark!FairSpec` assumes the event loop and the timeouts of posts (`timeout_s`) and
scrapes (5 s); nothing is assumed of the backend, which may stay down.

No fairness is assumed of the environment (chunks, crashes, client loss).

## 5. Proofs

Each proof module states an inductive invariant, shows that `Init` implies it and
that every action preserves it (one step per action), and derives the properties.
They hold for every value of the constants that satisfies the named assumptions. Most
say only that sizes are positive naturals, that there are finitely many requests, and what
the types of the parameters are (`StreamAssumption`, `TextBytesAssumption`,
`InspectAssumption`, `RegistryAssumption`, `GatewayAssumption`, `RouterAssumption`,
`LedgerAssumption`, `PredictorAssumption`, `TokensAssumption`, `KVAssumption`,
`BlockAssumption`, `ExporterAssumption`, `BenchmarkAssumption`). The others:
`NullAssumption`: Python's `None` is no number, no metric name and no dictionary of
metrics; `ExperimentAssumption`: what `NewController` accepts, and times that are whole
numbers; `ExporterAssumption` also names `MaxStall`, the longest time the files of one
poll take: the code has no bound on it, so the proofs leave it open; `PlannerAssumption`: measurements and gates are natural numbers,
every point is run at least once, there is a threshold to choose from, and `None` is
neither a candidate nor a reason (that `safety_factor` is not negative is what its users
pass; the code does not check it); `PageAssumption`: a metric's name belongs to one
family, of one type and one spelling, and its values are not negative.

Recursion. The provers have no induction scheme over data, so each loop that is a
recursive function gets three facts: the function exists (a table that satisfies its
equations is written down, in closed form or by iterating the step), its equations follow,
and what it computes is shown with a least counterexample: the set of places where the
claim fails is a set of naturals, its smallest member is not the first place, and the
equation carries the claim from the place before. Sums are treated in the same way: a
table of sums over the subsets of a finite set exists, any element may be taken out first,
and the sums of two parts add up to the sum of the whole.

* **StreamPolicy_proofs.** `TypeCorrect`; `SessionsInStep` (`IndInv`);
  `RelayIsFaithful` (`NothingLost`), `InspectionHolds`
  (`OnlyApprovedReachesClient`), `ProtocolNeverParts` (`BuffersAgree`, which includes
  `NothingLost`). None of the three is inductive: that a release count of the engine is right for the gateway's
  buffer needs `SessionInSync`, which says for every place of the handler which
  messages may be under way and that the engine holds what the gateway holds, up to
  the chunk on its way (`pending = ePending \o chunk`) or the answer on its way
  (`ePending` is `pending` behind the released prefix). `BufferAlwaysBounded`
  (`BufferBounded`): the relay holds at most the limit and one chunk; the strengthening
  says that nothing is held before the response is read. `ErrorAlwaysStandsAlone` and
  `CompleteIsWhole` (together `OutcomeAlwaysTold`, of `OutcomeTold`) and `BudgetHolds` rest on `IndInv` and each on a strengthening of its
  own: what status and body may be at each place of the handler; what the engine has seen
  of the body, its `[DONE]` included, whatever the chunks were; and the count the engine
  keeps against the text it has released. `StreamImplementsContract` is the refinement:
  every step of handler, session, engine and environment is a step of `StreamContract`
  under its mapping or leaves the mapped state unchanged; the safety part of the contract
  only, which has no fairness. `LoopAlwaysPointwise` (`LoopIsPointwise`): the inspector's
  loop over events, with its running counters, releases and rejects what the pointwise
  definition says, for every buffer, budget and `[DONE]` seen before; each round takes one
  event (`EventStep`) and keeps that what was found is what a look at the whole buffer
  finds up to there. `ChunkingAlwaysIrrelevant` (`ChunkingIrrelevant`): a buffer with one
  kind of blank line that arrives in two parts is judged as if it came whole, because the
  events of the parts end where those of the whole do.
* **Gateway_proofs.** `AdmissionHolds` (`Inv`), `SlotsAlwaysAccounted` and
  `ConcurrencyAlwaysBounded` (together `SlotsAlwaysSound`), `RejectionAlwaysHolds`, for any number of requests,
  tenants and slots. The strengthening is `SlotHolders` (exactly the handlers from
  admission to the deferred release hold a slot) and `PastPolicy`; the counting rests
  on the library's cardinality theorems. `FailoverHolds` (`FailoverInv`),
  `FailoverAlwaysSound` and the action property `AnswerIsFinal` (`NoRetryAfterAnswer`),
  for any backends, weights, models and health: the strengthening says that what is left
  to try has no repetition and nothing that was tried, and that a handler with an answer
  is past its loop. It rests on `EveryUsableOnce`: the closed form of the weighted walk
  lists every usable backend exactly once for any weights and cursor, because no two
  backends are met at the same distance. `ShareAlwaysFair` (`FairShare`): for any weights,
  health and cursor, a full turn gives each backend the first place as often as it has
  tickets; the places of a turn and the tickets are counted against each other.
  `LoopAlwaysRanking` (`LoopIsRanking`): the weighted list holds each backend at its own
  run of places, and the walk over it, which skips what it has seen, appends the backends
  in the order of their distances and has all of them within one turn.
* **Router_proofs.** `PlansSound` (`PlanInv`), `ApprovalAlwaysGates`,
  `OnlyApprovedEverSteers`, `RolloutPath`. The strengthening carries the operator's
  approval from the moment `Enforces` looked to the moment the decision is used, so
  that a rollback in between is harmless to the claim that only approved rollouts
  steer.
* **Ledger_proofs.** `LedgerHolds` (`LedgerInv`), `CrashLosesNothing` (`IndexIsReplay`),
  `JournalsStaySound`, for any number of requests and any capacity. The strengthening
  says that a request that is not over has left no line that its next call would write
  again (`NothingAhead`), and that the journals hold the documents of the index also when
  two of them share a line (`JournalsHoldIndex`). The core is `KeptAppend`: what replay keeps of a journal that
  is one line longer is what `recordLocked` makes of the index. `ReplayAlwaysLoop`
  (`ReplayIsLoop`): the closed form of replay is what the loop over the lines computes,
  evictions in between included. `SamplesAlwaysRealized`
  (`SamplesRealized`) is about the composition with `Predictor`: what the reader holds are
  prefixes of the journals, which only grow, and an outcome in the journal tells what
  really happened to its request (`OutcomesReal`).
* **KVEvents_proofs.** `EventsHold` (`KVInv`), `EventsTyped`, `IndexAlwaysBounded`
  (`IndexBounded`) and the action property `SequenceStaysForward` (`SequenceNeverBack`),
  for any blocks, capacities, replay buffers, losses and restarts of all three processes.
  That the index stays within its limit needs that its list and its map have the same
  entries and that the list is a strict order: then it has an oldest entry, eviction
  removes exactly one, and one step of the loop is enough.
* **Exporter_proofs.** `ExporterHolds` (`ExporterInv`), `SurfacesAgree` (`OneScrape`),
  `ReadyIsFresh` (`ReadyServes`) and the action property `SnapshotsNeverBack`
  (`NeverBack`), for any pages, metrics, thresholds and stalls of the disk. The strengthening is `Newest`
  (nobody holds a copy newer than the one served, without which a poll of the gateway
  could go back) and `Answer` (an answered task has a page).
* **Benchmark_proofs.** `BatchHolds` (`BatchInv`) and `RequestsAlwaysAccounted`
  (`RequestsAccounted`), for any batch sizes, concurrency, repeats and number of
  crashes. The strengthening is `ResultsKept`: the results of the measured batch stay
  until the entry is made. `WindowHolds` (`WindowInv`) and `WindowAlwaysExact`
  (`WindowExact`): the strengthening is `CountersFollow` (as long as the backend is in the
  life in which the first page was read, its counters are that page plus what it has
  looked up since) and `SuccessesSeen` (a request that succeeded was looked up in the
  window); the lemmas on `derive_window_metrics` say what a page with late counters, an
  unreadable page or a fallen counter can make of a delta.
* **Evaluation_proofs.** `RowsAlwaysComparable` (`RowsComparable`) for every
  configuration `NewController` accepts: the invariant `Decided` says that
  every decision is the assignment of its own request at one time.
  The action property `VerdictAlwaysUnswayed` (`VerdictUnswayed`): only the answer to a
  request decided by the running experiment outside the guards changes the verdict. A step
  that leaves the compared rows leaves each set and function the report is made of, and
  rows outside the comparison never fail the check of the assignments, which reads all of
  them. `RankingAlwaysSound` (`RankingSound`),
  `CalibrationAlwaysBacked` (`CalibrationBacked`) and `FrontAlwaysReached`
  (`EnvelopeFront`) hold of every sweep: the invariant `Measured` says that each point
  of the document has as many runs as the sweep repeats, and aggregates and a boundary
  that are those of its own runs. For the envelope: *dominates* is not transitive when
  GPU seconds are missing, but it is a strict order among the points of the highest
  goodput, and a finite strict order has a minimal element. `MatchAlwaysPrefix`
  (`MatchIsPrefix`): equal hashes mean equal prefixes, so the blocks found for a request are the whole
  blocks it has in common with one cached prompt. `TotalsAlwaysRobust` (`TotalsRobust`):
  whichever parser reads a page, what an adapter asks for is a sum over the same lines,
  unless the line parser cannot read one of them or the adapter does not ask for the
  spelling it keeps, and the totals per label value are the parts of one sum.

Only model-checked:

* liveness (`StreamEnds`, `EveryRequestReturns`, `HealthFollows`, `Recovers`,
  `SweepEnds`): TLAPS has no ENABLED here;
* `EvidenceIsReal`: it does not hold for every value of the constants. The provider
  keeps the IDs of four times its capacity of events. In a batch of more events than that,
  a late post of the first one is applied a second time after its ID was forgotten: its
  block comes back next to blocks it was never resident with. The run's batches are
  shorter; within its other bounds it also holds with two late posts at a time.

## 6. Findings

* `stream_budget_edge`: a prompt that uses its tenant's token budget exactly leaves a
  response budget of 0, which the inspector takes for *no budget*; the whole response
  is released (`service.rs:174`, `stream.rs:146`; `docs/development.md:237`).
* `shadow_steers`: a promotion between `Plan`'s two looks at the lifecycle makes a
  decision that is recorded as shadow reorder the candidates (`controller.go:205`;
  `docs/stage2_gate.md:3`).
* `kv_restart`: an engine that restarts while the bridge is down is recognised only by
  its batch 0, which the bridge never asks for; later batches are dropped as duplicates
  and blocks of the engine's previous life stay in the index (`vllm.py:81`;
  `docs/stage6_outcome_grounded_control.md:91`).

Observations read off the code, which no run states:

* Outside load-aware mode the age of the backend state is not consulted, so an enforced
  plan with affinity evidence selects a backend although all state is stale
  (`controller.go:297`; `docs/development.md:216` promises a static fallback).
* After a restart of the gateway in the middle of a batch, the repeated batch is applied
  in part: its first events are new, its last ones suppressed, and a block that was
  removed stays until its TTL passes (`cache_provider.go:222`).
* An observation below `min_requests` holds the stage before any quality gate is looked
  at (`lifecycle.go:151`); a journal's last line that was cut short makes the gateway exit
  at every start (`ledger.go:84`); a line that lacks only its newline is accepted, the next
  write of the day is joined to it, and then no start succeeds (`ledger.go:51-56`,
  `ledger.go:81-84`); a bridge without checkpoint does not check its first batch
  for a gap (`vllm.py:84`), which is why `EvidenceIsReal` says nothing of such a
  generation.
* A client that stalls its upload, or stops reading and stays connected, keeps its handler
  and its tenant's slot past the request's deadline (`server.go:398`, `server.go:655-782`,
  `main.go:116-127`); the engine's task ends with the deadline all the same.
* `/readyz` judges the stamp of the success, which is taken after the files were written;
  the snapshot it answers for was stamped before them, and is older by what the disk took
  (`app.py:69`, `app.py:78`).
* `sglang:cached_tokens` and `sglang:prompt_tokens` are asked for with `_total` only
  (`sglang.py:117-138`): a page that spells them without it is understood as long as the
  official parser reads it, and loses them when one bad line brings in the line parser.
* The evaluation's guardrail on prediction drift never has data: a decision is journalled
  before its outcome, its `prediction_error` is added to the index only (`ledger.go:146`,
  `ledger.go:221`), so `prediction_mae_ms` is absent and 0 is compared with the limit
  (`policy_evaluation.py:248`; `docs/stage7_causal_policy_evaluation.md:91` lists the check).
* A SGLang page that says 0 free blocks has them replaced by total minus active, reusable
  blocks included, and its evidence is still `strict` (`sglang.py:111`).
* The window of a run holds its warm-up and whatever the backend still did for requests
  given up before; a backend that restarts and overtakes its old counters is not noticed,
  which is why `WindowExact` is conditional; the two pages may show different families.
* A sweep produces neither `goodput_req_s` nor `success_rate_mean`, so over its document
  alone the operating envelope is always `blocked`; documents that add them are not.
  GPU-seconds of 0.0 count as missing (`operating_envelope.py:20`), and with missing
  ones *dominates* is not transitive.
* A validation claims not to reuse the fitting samples (`ttft_validation.py:64`), but
  nothing compares the two directories; the line parser of metrics pages also sums the
  samples of histograms and summaries (`prometheus_parse.py:136`).
* The best safe point is chosen by `req_s_mean`, not by its own boundary; the candidate
  that is selected loses its `evidence_uncertainty` reason (`auto_calibrator.py:148`).
* Failed requests without TTFT count towards `min_requests` of an evaluation, decisions
  without outcome are dropped, and the effect is request-weighted while its interval is
  window-weighted when there are several windows (`policy_evaluation.py:212-216`).

## 7. Not modelled

Floating-point scoring, prediction and the least squares of its fitting (TLC has no reals;
the control flow around it is covered by free choice); the request policy, a pure function whose verdict
is a free choice; the bounded map of the affinity, of which one entry is modelled; the gateway load generators, cache-fidelity and
second-stage evaluations, which compare recorded documents; the command line client, its
agent loop and the tool worker; workload replay and simulation; reports, plots and other
rendering; shell scripts; generated code.

## 8. What is left

1. Theorems: the router's affinity; what `EvidenceIsReal` needs of late posts.
2. `Affinity`: the bounded LRU map with expiry, per tenant and key.
3. `RequestPolicy`: `evaluate`'s order of checks as operators against a reference.
4. `AgentLoop` and `ToolWorker`: step bound, confirmation, deadlines, output limits.
5. Workload replay and simulation, as a pure algorithm over bounded traces.
