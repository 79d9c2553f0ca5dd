------------------------------ MODULE Exporter ------------------------------
(***************************************************************************)
(* The exporter (exporter/app.py): one task polls the metrics page of a    *)
(* backend and republishes it as gauges (/metrics), as a snapshot          *)
(* (/backend-state, and a file) and as advice (/advice).  The gateway      *)
(* polls the snapshot and keeps the last one it got; a gateway that starts *)
(* may read the file instead.                                              *)
(*                                                                         *)
(* Between two awaits of the poll task nothing else of the process runs:   *)
(* no request is served from the scrape's answer to the end of the files.  *)
(* But the files take time, between the stamp of the snapshot and that of  *)
(* the success, and may fail: publishing is one step, the files the next.  *)
(* Time is discrete, and every copy of a scrape carries the age of its     *)
(* stamp.                                                                  *)
(***************************************************************************)
EXTENDS ExporterSignals

CONSTANTS
    Pages,             \* pages the backend may expose
    Metrics,           \* what each of them holds, and the type of its backend
    StaleAfter,        \* scrape_stale_after_s
    MaxStall,          \* bound: how long the files of one poll take
    FailuresNotReady   \* scrape_failures_not_ready

ASSUME ExporterAssumption ==
    /\ StaleAfter \in Nat /\ MaxStall \in Nat /\ FailuresNotReady \in Nat \ {0}
    /\ Null \notin Pages /\ Null \notin Nat
    /\ \A p \in Pages, a \in 0 .. StaleAfter + MaxStall + 1 : [page |-> p, age |-> a] # Null

VARIABLES
    page,                  \* what the backend exposes; Null while it cannot be reached
    backend_type,          \* the adapter _build_adapter made
    disk,                  \* the state directory can be written
    pc,                    \* of the poll task: "sleep", "asked", "answered" or "persist"
    scrape,                \* the page on its way to the exporter
    backend_state, gauges,
    advice,                \* Null: none yet, or withdrawn with the status unavailable
    last_success, consecutive_failures,
    file,                  \* backend-state.json; Null while it is missing or torn
    held                   \* the gateway's copy

backend == <<page, backend_type>>

vars == <<backend, disk, pc, scrape, backend_state, gauges, advice, last_success,
          consecutive_failures, file, held>>

served == <<backend_state, gauges, advice, last_success, consecutive_failures>>

\* Ages are counted up to the first one that no ready exporter serves.
AgeCap == StaleAfter + MaxStall + 1

Copies == [page : Pages, age : 0 .. AgeCap]

PagesOf(type) == {p \in Pages : Metrics[p].type = type}

Stamped(p) == [page |-> p, age |-> 0]

Later(age) == IF age < AgeCap THEN age + 1 ELSE AgeCap

Older(c) == IF c = Null THEN Null ELSE [c EXCEPT !.age = Later(@)]

\* PromWriter.write: an optional gauge without a value is unregistered.
written == [p \in Pages |->
    LET d == Derived(Metrics[p])
    IN  [values |-> [s \in {s \in Signals : d[s] # Null} |-> d[s]],
         prefix |-> collect(Metrics[p]).prefix]]

advised == [p \in Pages |-> build_advice(Metrics[p])]

valid == {p \in Pages : Validate(snapshot_from_derived(Metrics[p]))}

Unwritten == [values |-> [s \in Signals \ OptionalGauges |-> 0], prefix |-> Null]

-----------------------------------------------------------------------------
Init == /\ backend_type \in {"vllm", "sglang"} /\ page \in PagesOf(backend_type)
        /\ disk = TRUE /\ file = Null /\ held = Null
        /\ pc = "sleep" /\ scrape = Null
        /\ backend_state = Null /\ gauges = Unwritten /\ advice = Null
        /\ last_success = Null /\ consecutive_failures = 0

\* The page changes, or the backend goes or comes back.
BackendChanges == /\ page' \in PagesOf(backend_type) \cup {Null} /\ page' # page
                  /\ UNCHANGED <<backend_type, disk, pc, scrape, served, file, held>>

DiskChanges == /\ disk' = ~disk
               /\ UNCHANGED <<backend, pc, scrape, served, file, held>>

Tick == /\ pc = "persist" => backend_state.age < MaxStall
        /\ backend_state' = Older(backend_state) /\ file' = Older(file) /\ held' = Older(held)
        /\ advice' = Older(advice)
        /\ last_success' = IF last_success = Null THEN Null ELSE Later(last_success)
        /\ UNCHANGED <<backend, disk, pc, scrape, gauges, consecutive_failures>>

-----------------------------------------------------------------------------
(* poll_loop.                                                              *)

\* Mutant: a new poll starts by dropping the snapshot.
Ask_Clears == /\ pc = "sleep" /\ pc' = "asked"
              /\ backend_state' = Null /\ advice' = Null
              /\ UNCHANGED <<backend, disk, scrape, gauges, last_success, consecutive_failures,
                             file, held>>

Ask == /\ pc = "sleep" /\ pc' = "asked"
       /\ UNCHANGED <<backend, disk, scrape, served, file, held>>

Answered == /\ pc = "asked" /\ page # Null
            /\ pc' = "answered" /\ scrape' = page
            /\ UNCHANGED <<backend, disk, served, file, held>>

\* Mutant: the advice of the last good poll stays.
Failed_KeepsAdvice == /\ pc' = "sleep" /\ scrape' = Null
                      /\ consecutive_failures' = IF consecutive_failures < FailuresNotReady
                                                 THEN consecutive_failures + 1 ELSE FailuresNotReady
                      /\ UNCHANGED <<advice, last_success>>

\* Mutant: the time of the attempt is taken for the time of a success.
Failed_Stamps == /\ pc' = "sleep" /\ scrape' = Null
                 /\ consecutive_failures' = IF consecutive_failures < FailuresNotReady
                                            THEN consecutive_failures + 1 ELSE FailuresNotReady
                 /\ advice' = Null /\ last_success' = 0

\* The except clause, whichever statement raised; failures are counted up to the threshold.
Failed == /\ pc' = "sleep" /\ scrape' = Null
          /\ consecutive_failures' = IF consecutive_failures < FailuresNotReady
                                     THEN consecutive_failures + 1 ELSE FailuresNotReady
          /\ advice' = Null
          /\ UNCHANGED last_success

\* A connection error, a timeout or an HTTP error.
CollectFails == /\ pc = "asked" /\ Failed
                /\ UNCHANGED <<backend, disk, backend_state, gauges, file, held>>

\* The part of the try block that precedes the files, with the stamp of the snapshot.
Publish == /\ pc = "answered" /\ pc' = "persist" /\ scrape' = Null
           /\ gauges' = written[scrape]
           /\ backend_state' = Stamped(scrape)
           /\ advice' = [codes |-> advised[scrape], age |-> 0]
           /\ UNCHANGED <<backend, disk, last_success, consecutive_failures, file, held>>

\* Mutant: failures that are over still count.
Scraped_NoReset == /\ pc = "persist" /\ pc' = "sleep" /\ disk
                   /\ file' = backend_state
                   /\ last_success' = 0
                   /\ UNCHANGED <<backend, disk, scrape, backend_state, gauges, advice,
                                  consecutive_failures, held>>

\* The files are written; the success is stamped behind them.
Scraped == /\ pc = "persist" /\ pc' = "sleep" /\ disk
           /\ file' = backend_state
           /\ last_success' = 0 /\ consecutive_failures' = 0
           /\ UNCHANGED <<backend, disk, scrape, backend_state, gauges, advice, held>>

\* mkdir or the first open fails, the write fails halfway, or the advice cannot be appended.
PersistFails == /\ pc = "persist" /\ ~disk /\ Failed
                /\ file' \in {file, Null, backend_state}
                /\ UNCHANGED <<backend, disk, backend_state, gauges, held>>

\* A stop or a crash, also between two of the file operations.
ExporterRestarts == /\ pc' = "sleep" /\ scrape' = Null
                    /\ backend_state' = Null /\ gauges' = Unwritten /\ advice' = Null
                    /\ last_success' = Null /\ consecutive_failures' = 0
                    /\ file' \in {file} \cup IF pc = "persist" THEN {Null, backend_state} ELSE {}
                    /\ UNCHANGED <<backend, disk, held>>

-----------------------------------------------------------------------------
(* The readers.                                                            *)

\* GET /readyz answers 200.
Ready == /\ last_success # Null /\ last_success <= StaleAfter
         /\ consecutive_failures < FailuresNotReady

\* pollBackendStateOnce: an answer of 503 or a snapshot that is not valid keeps the last one;
\* nothing is answered while the files hold the event loop.
GatewayPolls == /\ pc # "persist" /\ backend_state # Null /\ backend_state.page \in valid
                /\ held' = backend_state
                /\ UNCHANGED <<backend, disk, pc, scrape, served, file>>

\* The gateway starts again, without a state file or with this one; with one it cannot
\* decode it does not come up.
GatewayRestarts == /\ held' \in {Null, file} /\ (held' # Null => held'.page \in valid)
                   /\ UNCHANGED <<backend, disk, pc, scrape, served, file>>

Next == \/ BackendChanges \/ DiskChanges \/ Tick
        \/ Ask \/ Answered \/ CollectFails \/ Publish \/ Scraped \/ PersistFails \/ ExporterRestarts
        \/ GatewayPolls \/ GatewayRestarts

Spec == Init /\ [][Next]_vars

\* Neither poll task ever ends.  A backend that is up answers some of the scrapes, and the
\* exporter is not restarted at every one of them; the files of a poll end in MaxStall.
Fairness == /\ WF_vars(Ask) /\ SF_vars(Answered)
            /\ SF_vars(Publish) /\ SF_vars(Scraped \/ PersistFails) /\ SF_vars(GatewayPolls)

FairSpec == Spec /\ Fairness

-----------------------------------------------------------------------------
TypeOK ==
    /\ page \in Pages \cup {Null} /\ backend_type \in {"vllm", "sglang"} /\ disk \in BOOLEAN
    /\ pc \in {"sleep", "asked", "answered", "persist"} /\ scrape \in Pages \cup {Null}
    /\ backend_state \in Copies \cup {Null} /\ held \in Copies \cup {Null}
    /\ file \in Copies \cup {Null}
    /\ last_success \in (0 .. AgeCap) \cup {Null}
    /\ consecutive_failures \in 0 .. FailuresNotReady

\* The three surfaces tell of one scrape (app.py poll_loop): the gauges registered are those
\* of the snapshot served, an optional one only with a value, advice is computed from that
\* snapshot and carries its stamp, and none is served while polls fail.
OneScrape ==
    /\ backend_state # Null => gauges = written[backend_state.page]
    /\ advice # Null =>
          /\ backend_state # Null /\ (pc # "persist" => consecutive_failures = 0)
          /\ advice = [codes |-> advised[backend_state.page], age |-> backend_state.age]

\* docs/limitations.md:6 /readyz: whatever failed since, there is a snapshot to the last
\* success, older than it by no more than the files of one poll took, for the snapshot is
\* stamped before them and the success behind them (app.py:69, app.py:78); so what a ready
\* exporter serves is stale by that time at most.
ReadyServes ==
    /\ last_success # Null =>
          backend_state # Null /\ backend_state.age <= last_success + MaxStall
    /\ Ready => backend_state.age <= StaleAfter + MaxStall

NotOlder(c, d) == c # Null => d # Null /\ (d = Older(c) \/ d.age <= c.age)

\* Nothing but a restart takes a snapshot back: a failing poll, a slow page or a full disk
\* never leaves the endpoint or the gateway without one or with an older one (app.py:68-69,
\* cmd/gateway/main.go pollBackendStateOnce).
NeverBack == [][ /\ ExporterRestarts \/ NotOlder(backend_state, backend_state')
                 /\ GatewayRestarts \/ NotOlder(held, held') ]_vars

\* Failed polls do not end the task: while the backend and the disk stay up the exporter is
\* ready again and again (app.py poll_loop catches every exception).  And what the backend
\* keeps exposing reaches the gateway, even if no file can be written: the signals made of
\* it are ones the gateway accepts (client.go Validate), those it lacks too.
Recovers ==
    /\ <>[](page # Null /\ disk) => []<>Ready
    /\ \A p \in Pages : <>[](page = p) => []<>(held # Null /\ held.page = p)
=============================================================================
