------------------------------- MODULE Ledger --------------------------------
(***************************************************************************)
(* The decision ledger (gateway/internal/router/ledger.go): a bounded      *)
(* index in memory and two append-only journals on disk, one of decisions  *)
(* and one of outcomes, from which a restarted gateway rebuilds the index. *)
(*                                                                         *)
(* Every method holds the ledger's mutex from its first to its last line,  *)
(* the write to the journal included, so each is one step.  Request IDs    *)
(* are drawn at random by the gateway (newRequestID) and never repeat.     *)
(* Files are read in the order of their dates, which is the order of the   *)
(* writes: each journal is one sequence here, of the documents that are in *)
(* its files.  What its lines look like is kept apart (torn, bare), for a  *)
(* journal with one line that is no document is not read at all.           *)
(***************************************************************************)
EXTENDS Naturals, Sequences

CONSTANTS
    Requests,       \* bound: the routed requests of a behaviour
    Backends,
    MaxEntries      \* DecisionLedger.max

NoBackend == "none"

ASSUME LedgerAssumption == MaxEntries \in Nat \ {0} /\ NoBackend \notin Backends

VARIABLES
    durable,        \* KAVORA_DECISION_JOURNAL_DIR is not "off"
    up,             \* the gateway: running, down, or refused to start
    pc, served,     \* the routed requests and the backend that answered each
    index,          \* DecisionLedger.order and .entries
    err,            \* DecisionLedger.err is set
    decisions, outcomes,   \* the documents in the journals
    torn,           \* a line is no document: "cut" short, or two "glued" together
    bare            \* journals whose file of the day ends without its newline

requests == <<pc, served>>
disk     == <<decisions, outcomes, torn, bare>>
vars     == <<durable, up, requests, index, err, disk>>

Result == {"failed", "measured"}   \* an outcome without and with a prediction error

Entry   == [held : BOOLEAN, actual : Backends \cup {NoBackend}, outcome : Result \cup {"none"}]
Outcome == [id : Requests, actual : Backends \cup {NoBackend}, outcome : Result]

NotHeld == [held |-> FALSE, actual |-> NoBackend, outcome |-> "none"]
Fresh   == [NotHeld EXCEPT !.held = TRUE]

Empty == [order |-> <<>>, entries |-> [r \in Requests |-> NotHeld]]

Init ==
    /\ durable \in BOOLEAN
    /\ up = "running"
    /\ pc = [r \in Requests |-> "idle"]
    /\ served = [r \in Requests |-> NoBackend]
    /\ index = Empty /\ err = FALSE
    /\ decisions = <<>> /\ outcomes = <<>> /\ torn = "no" /\ bare = {}

------------------------------------------------------------------------------
(* The index.                                                               *)

\* The order grows by at most one, so that the loop evicts at most once.
recordLocked(ix, r) ==
    LET order == IF ix.entries[r].held THEN ix.order ELSE Append(ix.order, r)
        full  == Len(order) > MaxEntries
    IN  [order   |-> IF full THEN Tail(order) ELSE order,
         entries |-> [q \in Requests |-> IF full /\ q = Head(order) THEN NotHeld
                                         ELSE IF q = r THEN Fresh ELSE ix.entries[q]]]

\* An outcome is attached only to a decision that is still held.
recordOutcomeLocked(ix, o) ==
    IF ~ix.entries[o.id].held THEN ix
    ELSE [ix EXCEPT !.entries[o.id] =
            [held |-> TRUE, actual |-> o.actual, outcome |-> o.outcome]]

------------------------------------------------------------------------------
(* The journals.  The first write error is kept and ends all writing.       *)

\* Mutant: writing goes on after an error.
Journals_KeepsTrying == durable

Journals == durable /\ ~err

\* A write succeeds or fails: before its first byte, in the middle of the line
\* ("torn"), or with only the newline missing ("bare"; a full disk).  The file is
\* opened to append, so what is written behind a missing newline joins its line.
Write(journal, w) ==
    /\ w # "written" => Journals
    /\ err' = (err \/ w # "written")
    /\ torn' = CASE w = "torn" -> "cut"
                 [] w \in {"written", "bare"} /\ Journals /\ journal \in bare -> "glued"
                 [] OTHER -> torn
    /\ bare' = CASE w = "bare" -> bare \cup {journal}
                 [] w \in {"written", "torn"} /\ Journals -> bare \ {journal}
                 [] OTHER -> bare

\* The whole document is in the file.
Whole(w) == Journals /\ w \in {"written", "bare"}

Record(r, w) ==
    /\ up = "running" /\ pc[r] = "idle"
    /\ pc' = [pc EXCEPT ![r] = "planned"]
    /\ index' = recordLocked(index, r)
    /\ Write("decisions", w)
    /\ decisions' = IF Whole(w) THEN Append(decisions, r) ELSE decisions
    /\ UNCHANGED <<durable, up, served, outcomes>>

\* The backend that answered is noted in the index only.
UpdateActual(r, b) ==
    /\ up = "running" /\ pc[r] = "planned"
    /\ pc' = [pc EXCEPT ![r] = "served"]
    /\ served' = [served EXCEPT ![r] = b]
    /\ index' = IF index.entries[r].held
                THEN [index EXCEPT !.entries[r].actual = b] ELSE index
    /\ UNCHANGED <<durable, up, err, disk>>

\* Mutant: only outcomes that are measured are journalled.
Logs_OnlyMeasured(o, w) == index.entries[o.id].held /\ Whole(w) /\ o.outcome = "measured"

\* A decision that has left the index takes its outcome with it: nothing is
\* written, to the journal neither.
Logs(o, w) == index.entries[o.id].held /\ Whole(w)

\* The deferred call at the end of the handler.  Without an answer the backend is
\* the last one tried, if any, and the outcome a failure.
RecordOutcome(o, w) ==
    /\ up = "running"
    /\ \/ pc[o.id] = "planned" /\ o.outcome = "failed"
       \/ pc[o.id] = "served" /\ o.actual = served[o.id]
    /\ pc' = [pc EXCEPT ![o.id] = "over"]
    /\ index' = recordOutcomeLocked(index, o)
    /\ IF index.entries[o.id].held
       THEN Write("outcomes", w)
       ELSE w = "written" /\ UNCHANGED <<err, torn, bare>>
    /\ outcomes' = IF Logs(o, w) THEN Append(outcomes, o) ELSE outcomes
    /\ UNCHANGED <<durable, up, served, decisions>>

------------------------------------------------------------------------------
(* A new day, crash and restart.                                            *)

\* path names the files of another date: nothing is joined to yesterday's last line.
NewDay ==
    /\ bare # {} /\ bare' = {}
    /\ UNCHANGED <<durable, up, requests, index, err, decisions, outcomes, torn>>

\* The process dies, also in the middle of a write (a torn write and then this).
Crash ==
    /\ up = "running"
    /\ up' = "down"
    /\ pc' = [r \in Requests |-> IF pc[r] = "idle" THEN "idle" ELSE "over"]
    /\ index' = Empty /\ err' = FALSE
    /\ UNCHANGED <<durable, served, disk>>

\* Mutant: replay stops when the index is full.
Kept_First(js) == SubSeq(js, 1, IF Len(js) > MaxEntries THEN MaxEntries ELSE Len(js))

\* What recordLocked leaves of a journal of decisions.
Kept(js) == SubSeq(js, IF Len(js) > MaxEntries THEN Len(js) - MaxEntries + 1 ELSE 1, Len(js))

Ids(js) == {js[i] : i \in DOMAIN js}

\* The entry of a replayed decision: its outcome, if the journal has one.
Restored(os, r) ==
    IF \E i \in DOMAIN os : os[i].id = r
    THEN LET i == CHOOSE i \in DOMAIN os : os[i].id = r
         IN  [held |-> TRUE, actual |-> os[i].actual, outcome |-> os[i].outcome]
    ELSE Fresh

\* All decisions are replayed first, and then all outcomes.
Replay(ds, os) ==
    [order   |-> Kept(ds),
     entries |-> [r \in Requests |-> IF r \in Ids(Kept(ds)) THEN Restored(os, r) ELSE NotHeld]]

\* The same as the loops of NewDecisionLedgerWithJournal compute it: line after
\* line, the decisions and then the outcomes.
ReplayLoop(ds, os) ==
    LET ix[n \in 0..(Len(ds) + Len(os))] ==
          IF n = 0 THEN Empty
          ELSE IF n <= Len(ds) THEN recordLocked(ix[n - 1], ds[n])
          ELSE recordOutcomeLocked(ix[n - 1], os[n - Len(ds)])
    IN  ix[Len(ds) + Len(os)]

\* A line that is no JSON document ends the replay and the start of the gateway; a last
\* line without its newline is a line like any other to bufio.Scanner.
Restart ==
    /\ up = "down"
    /\ IF durable /\ torn # "no"
       THEN up' = "refused" /\ UNCHANGED index
       ELSE /\ up' = "running"
            /\ index' = IF durable THEN Replay(decisions, outcomes) ELSE Empty
    /\ UNCHANGED <<durable, requests, err, disk>>

Writes == {"written", "failed", "torn", "bare"}

Next == \/ \E r \in Requests, w \in Writes : Record(r, w)
        \/ \E r \in Requests, b \in Backends : UpdateActual(r, b)
        \/ \E o \in Outcome, w \in Writes : RecordOutcome(o, w)
        \/ NewDay \/ Crash \/ Restart

Spec == Init /\ [][Next]_vars

------------------------------------------------------------------------------

\* Every variable has its type, and the index never has more than max decisions.
TypeOK ==
    /\ durable \in BOOLEAN /\ err \in BOOLEAN
    /\ torn \in {"no", "cut", "glued"} /\ bare \subseteq {"decisions", "outcomes"}
    /\ up \in {"running", "down", "refused"}
    /\ pc \in [Requests -> {"idle", "planned", "served", "over"}]
    /\ served \in [Requests -> Backends \cup {NoBackend}]
    /\ index \in [order : Seq(Requests), entries : [Requests -> Entry]]
    /\ Len(index.order) <= MaxEntries
    /\ decisions \in Seq(Requests) /\ outcomes \in Seq(Outcome)

\* The map holds exactly the IDs of the order, each of which is there once: an
\* eviction removes both (recordLocked's loop), so that the map cannot leak.
IndexCoherent ==
    /\ \A r \in Requests : index.entries[r].held <=> r \in Ids(index.order)
    /\ \A i, j \in DOMAIN index.order : index.order[i] = index.order[j] => i = j

\* The journals stay consistent through write errors, crashes and restarts: no decision
\* and no outcome is there twice, no outcome without its decision, and nothing is
\* written behind a line that was cut short (the error that Record and RecordOutcome
\* keep, and the start that NewDecisionLedgerWithJournal refuses).  A line that lacks
\* its newline only is no such line: the next start accepts it and the next write
\* of the day joins it, after which no start succeeds.
JournalSound ==
    /\ \A i, j \in DOMAIN decisions : decisions[i] = decisions[j] => i = j
    /\ \A i, j \in DOMAIN outcomes : outcomes[i].id = outcomes[j].id => i = j
    /\ \A i \in DOMAIN outcomes : outcomes[i].id \in Ids(decisions)
    /\ (torn = "cut" /\ up = "running") => err

SameEntry(e, f) == /\ e.held = f.held /\ e.outcome = f.outcome
                   /\ e.outcome # "none" => e.actual = f.actual

\* As long as no write has failed since the start, the journals hold the documents that
\* the index is made of (recordLocked and recordOutcomeLocked step by step).
JournalsHoldIndex ==
    (up = "running" /\ Journals) =>
      LET restored == Replay(decisions, outcomes)
      IN  /\ index.order = restored.order
          /\ \A r \in Requests : SameEntry(index.entries[r], restored.entries[r])

\* stage6_outcome_grounded_control.md:27: as long as no write has failed since the start
\* and no two documents share a line, a crash at any moment loses nothing of the index
\* but the backends of unfinished requests: the next start succeeds and replays what the
\* index holds, also when an earlier life ended in a failed write (Record and
\* RecordOutcome against NewDecisionLedgerWithJournal).
IndexIsReplay == torn = "no" => JournalsHoldIndex

\* Restart's closed form is what replaying the journals line by line computes, with
\* the evictions and the outcomes of evicted decisions (NewDecisionLedgerWithJournal:
\* every decision, then every outcome).
ReplayIsLoop == Replay(decisions, outcomes) = ReplayLoop(decisions, outcomes)

\* A request that has not come to its end has left nothing in the journals that its
\* next call would write again.
NothingAhead ==
    \A r \in Requests :
        /\ pc[r] = "idle" => r \notin Ids(decisions) /\ ~index.entries[r].held
        /\ pc[r] # "over" => \A i \in DOMAIN outcomes : outcomes[i].id # r

\* The inductive invariant: index and journals are each consistent, agree, and are
\* not ahead of the requests (the methods of DecisionLedger in any order, with
\* failing writes and crashes between them).
LedgerInv == /\ IndexCoherent /\ JournalSound /\ JournalsHoldIndex
             /\ NothingAhead
             /\ torn # "no" => durable
=============================================================================
