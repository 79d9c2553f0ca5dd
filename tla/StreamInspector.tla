--------------------------- MODULE StreamInspector ---------------------------
(***************************************************************************)
(* What the policy engine's StreamInspector (policy-engine/src/stream.rs)  *)
(* answers for the bytes it holds.                                         *)
(*                                                                         *)
(* A response body is a sequence of LINES of a server-sent event stream,   *)
(* the smallest pieces whose order and boundaries matter:                  *)
(*   "text"   a data line holding an acceptable JSON document              *)
(*   "done"   the data line [DONE]                                         *)
(*   "junk"   a data line that is not UTF-8, not JSON or too deep          *)
(*   "pii"    a data line holding an e-mail address                        *)
(*   "term"   a data line holding a blocked term                           *)
(*   "note"   a line without data (a comment, an event name)               *)
(*   "ws"     white space that completes no event                          *)
(*   "lf"     the blank line that ends an event, as \n\n                   *)
(*   "crlf"   the blank line that ends an event, as \r\n\r\n               *)
(* A byte count of the code is a line count here.                          *)
(*                                                                         *)
(* inspect() walks the events of its buffer in a loop.  The definitions    *)
(* here say what the loop computes without recursion: which positions end  *)
(* an event, and what each single line needs so that its event passes.     *)
(* InspectorLoop.tla transcribes the loop and compares the two.            *)
(***************************************************************************)
EXTENDS Integers, Sequences, FiniteSets

CONSTANTS
    Lines,          \* line kinds the backend may send
    TextBytes,      \* bytes of JSON strings in one "text" line
    TokenBudgets    \* tenants' token budgets (0: none)

ASSUME TextBytesAssumption == TextBytes \in Nat \ {0}

Violating == {"junk", "pii", "term"}
DataLine  == Violating \cup {"text", "done"}
Blank     == {"lf", "crlf"}
Line      == DataLine \cup Blank \cup {"note", "ws"}

(***************************************************************************)
(* find_event_end looks for \n\n in the whole buffer first and for         *)
(* \r\n\r\n only when there is none, so a \r\n\r\n in front of a \n\n ends *)
(* no event: its event is merged with the next one.                        *)
(***************************************************************************)
EndsEvent(p, e) ==
    \/ p[e] = "lf"
    \/ /\ p[e] = "crlf"
       /\ \A j \in DOMAIN p : p[j] = "lf" => j < e

\* Positions i and j of p belong to the same event.
SameEvent(p, i, j) ==
    \A e \in DOMAIN p : EndsEvent(p, e) => (e < i <=> e < j)

\* Mutant: once an event ends, the unfinished one behind it is released with it.
ReleasesUpTo_Partial(p, n) ==
    n = IF \E e \in DOMAIN p : EndsEvent(p, e) THEN Len(p) ELSE 0

\* The loop stops behind the last event end: release_bytes = n.
ReleasesUpTo(p, n) ==
    /\ n > 0 => EndsEvent(p, n)
    /\ \A e \in DOMAIN p : EndsEvent(p, e) => e <= n

Texts(p, n) == Cardinality({i \in 1..n : p[i] = "text"})

ConsumedTokens(semanticBytes) == (semanticBytes + 3) \div 4

WithinBudget(tokenBudget, semanticBytes) ==
    tokenBudget > 0 => ConsumedTokens(semanticBytes) <= tokenBudget

\* Mutant: the budget is compared with this buffer's text only.
LinePasses_ForgetsEarlierChunks(p, n, i, sawDone, semantic, tokenBudget) ==
    /\ p[i] \notin Violating
    /\ \A j \in 1..n : (j # i /\ p[j] \in DataLine) => ~SameEvent(p, i, j)
    /\ p[i] = "text" =>
         /\ ~sawDone
         /\ \A j \in 1..(i-1) : p[j] # "done"
         /\ WithinBudget(tokenBudget, TextBytes * Texts(p, i))

(***************************************************************************)
(* The event of data line i passes inspect_event: the data lines of one    *)
(* event are joined before they are compared with [DONE] or parsed, so two *)
(* documents in one event are no JSON document; data may not follow        *)
(* [DONE]; and what the stream has said so far stays within the budget.    *)
(***************************************************************************)
LinePasses(p, n, i, sawDone, semantic, tokenBudget) ==
    /\ p[i] \notin Violating
    /\ \A j \in 1..n : (j # i /\ p[j] \in DataLine) => ~SameEvent(p, i, j)
    /\ p[i] = "text" =>
         /\ ~sawDone
         /\ \A j \in 1..(i-1) : p[j] # "done"
         /\ WithinBudget(tokenBudget, semantic + TextBytes * Texts(p, i))

\* inspect() answers ALLOW for the first n lines of its buffer p.
EventsPass(p, n, sawDone, semantic, tokenBudget) ==
    \A i \in 1..n :
        p[i] \in DataLine => LinePasses(p, n, i, sawDone, semantic, tokenBudget)

\* Mutant: a stream may end without [DONE].
FinishPasses_WithoutDone(p, sawDone) == \A i \in DOMAIN p : p[i] = "ws"

\* finish() answers ALLOW.
FinishPasses(p, sawDone) == sawDone /\ \A i \in DOMAIN p : p[i] = "ws"

(***************************************************************************)
(* check_stream: what is left of the tenant's budget for the response.     *)
(***************************************************************************)
ResponseTokenBudget(tokenBudget, estimatedTokens) ==
    IF tokenBudget = 0 \/ tokenBudget < estimatedTokens
    THEN 0
    ELSE tokenBudget - estimatedTokens
=============================================================================
