---------------------------- MODULE InspectorLoop ----------------------------
(***************************************************************************)
(* The loop of StreamInspector::inspect as the code runs it, event by      *)
(* event, for comparison with the definitions of StreamInspector.tla over  *)
(* every buffer of up to MaxLines lines.                                   *)
(***************************************************************************)
EXTENDS StreamInspector

CONSTANT MaxLines   \* bound on the buffer

ASSUME InspectAssumption ==
    Lines \subseteq Line /\ TokenBudgets \subseteq Nat /\ MaxLines \in Nat

VARIABLES buffer,     \* pending after extend_from_slice
          seen,       \* saw_done left by earlier chunks
          tokens      \* token_budget

inspectVars == <<buffer, seen, tokens>>

\* The places behind `release' where an event ends with a line of kind u.
Ends(pending, release, u) == {i \in (release + 1)..Len(pending) : pending[i] = u}

Foremost(S) == CHOOSE i \in S : \A j \in S : i <= j

\* Mutant: what is left of the buffer counts as an event.
find_event_end_Eager(pending, release) ==
    IF Ends(pending, release, "lf") # {} THEN Foremost(Ends(pending, release, "lf"))
    ELSE IF release < Len(pending) THEN Len(pending) ELSE 0

\* The end of the first event behind `release', 0 for None.
find_event_end(pending, release) ==
    IF Ends(pending, release, "lf") # {} THEN Foremost(Ends(pending, release, "lf"))
    ELSE IF Ends(pending, release, "crlf") # {} THEN Foremost(Ends(pending, release, "crlf"))
    ELSE 0

\* The data lines of an event, which event_data joins.
event_data(pending, release, end) == {i \in (release + 1)..end : pending[i] \in DataLine}

\* The joined data are one line of kind u.
DataIs(pending, data, u) == \E i \in data : data = {i} /\ pending[i] = u

\* What an inspector remembers between two events.
Memory == [sawDone : BOOLEAN, semantic : Nat]

\* Mutant: data may follow [DONE].
inspect_event_AfterDone(pending, release, end, m, tokenBudget) ==
    LET data == event_data(pending, release, end)
        said == m.semantic + TextBytes
    IN  IF data = {} THEN [ok |-> TRUE, m |-> m]
        ELSE IF DataIs(pending, data, "done") THEN [ok |-> TRUE, m |-> [m EXCEPT !.sawDone = TRUE]]
        ELSE IF DataIs(pending, data, "text")
             THEN [ok |-> WithinBudget(tokenBudget, said), m |-> [m EXCEPT !.semantic = said]]
        ELSE [ok |-> FALSE, m |-> m]

\* inspect_event: the memory afterwards, and whether the event passed.
inspect_event(pending, release, end, m, tokenBudget) ==
    LET data == event_data(pending, release, end)
        said == m.semantic + TextBytes
    IN  IF data = {} THEN [ok |-> TRUE, m |-> m]
        ELSE IF DataIs(pending, data, "done") THEN [ok |-> TRUE, m |-> [m EXCEPT !.sawDone = TRUE]]
        ELSE IF ~m.sawDone /\ DataIs(pending, data, "text")
             THEN [ok |-> WithinBudget(tokenBudget, said), m |-> [m EXCEPT !.semantic = said]]
        ELSE [ok |-> FALSE, m |-> m]

\* One round of the loop, which is over at an event that fails or does not end.
NextEvent(pending, s, tokenBudget) ==
    LET end  == find_event_end(pending, s.release)
        step == inspect_event(pending, s.release, end, s.m, tokenBudget)
    IN  IF ~s.ok \/ end = 0 THEN s
        ELSE [ok |-> step.ok, release |-> IF step.ok THEN end ELSE 0, m |-> step.m]

\* inspect: every round takes a line at least.
inspect(pending, m, tokenBudget) ==
    LET at[n \in 0..Len(pending)] ==
          IF n = 0 THEN [ok |-> TRUE, release |-> 0, m |-> m]
          ELSE NextEvent(pending, at[n - 1], tokenBudget)
    IN  at[Len(pending)]

InspectInit == buffer = <<>> /\ seen \in BOOLEAN /\ tokens \in TokenBudgets

\* One more line arrives: every buffer is reached.
Extend == \E u \in Lines :
    /\ Len(buffer) < MaxLines
    /\ buffer' = Append(buffer, u)
    /\ UNCHANGED <<seen, tokens>>

InspectSpec == InspectInit /\ [][Extend]_inspectVars

Fresh == [sawDone |-> seen, semantic |-> 0]

(***************************************************************************)
(* The loop allows a buffer exactly when every data line of its complete   *)
(* events passes, and it then releases exactly the complete events and     *)
(* remembers [DONE] and the text seen (stream.rs inspect, inspect_event).  *)
(***************************************************************************)
LoopIsPointwise ==
    LET r == inspect(buffer, Fresh, tokens)
    IN  \E n \in 0..Len(buffer) :
          /\ ReleasesUpTo(buffer, n)
          /\ r.ok = EventsPass(buffer, n, seen, 0, tokens)
          /\ r.ok => /\ r.release = n
                     /\ r.m.semantic = TextBytes * Texts(buffer, n)
                     /\ r.m.sawDone = (seen \/ \E i \in 1..n : buffer[i] = "done")

(***************************************************************************)
(* Where the transport cuts the stream does not matter: a buffer inspected *)
(* in two chunks is judged as in one, as long as the backend ends all its  *)
(* events the same way (stream.rs inspect, find_event_end).                *)
(***************************************************************************)
ChunkingIrrelevant ==
    (\A i, j \in DOMAIN buffer : ~(buffer[i] = "lf" /\ buffer[j] = "crlf")) =>
      LET whole == inspect(buffer, Fresh, tokens)
      IN  \A k \in 0..Len(buffer) :
            LET first == inspect(SubSeq(buffer, 1, k), Fresh, tokens)
                rest  == SubSeq(buffer, first.release + 1, Len(buffer))
                second == inspect(rest, first.m, tokens)
            IN  /\ whole.ok = (first.ok /\ second.ok)
                /\ whole.ok => /\ whole.release = first.release + second.release
                               /\ whole.m = second.m
=============================================================================
