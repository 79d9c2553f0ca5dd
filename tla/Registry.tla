------------------------------ MODULE Registry -------------------------------
(***************************************************************************)
(* The backend registry (gateway/internal/backend/registry.go): which      *)
(* backends are healthy, whose turn it is, the weighted round robin of     *)
(* Candidates and the reordering that the router's decision applies to it  *)
(* (server.go, backendCandidates).                                         *)
(***************************************************************************)
EXTENDS Integers, Sequences, FiniteSets

CONSTANTS
    IDs,        \* the configured backends, each once, in the order of their IDs
    Weight,     \* their weights; normalize turns 0 into 1
    Serves,     \* the models each one lists; none listed means all
    Models      \* the models that requests ask for

VARIABLES
    healthy,    \* entry.healthy of each backend
    cursor      \* Registry.cursor

Backends == DOMAIN Weight
NoBackend == "none"

ASSUME RegistryAssumption ==
    /\ IDs \in Seq(Backends) /\ NoBackend \notin Backends
    /\ \A b \in Backends : \E i \in DOMAIN IDs : IDs[i] = b
    /\ \A i, j \in DOMAIN IDs : IDs[i] = IDs[j] => i = j
    /\ \A b \in Backends : Weight[b] \in Nat \ {0}
    /\ DOMAIN Serves = Backends

Place(b) == CHOOSE i \in DOMAIN IDs : IDs[i] = b

Matches(b, model) == Serves[b] = {} \/ model \in Serves[b]

Usable(health, model) == {b \in Backends : health[b] /\ Matches(b, model)}

(***************************************************************************)
(* The weighted list holds each usable backend Weight times, in ID order.  *)
(* Its length, and the place of b's first copy, are counts of tickets.     *)
(***************************************************************************)
Tickets(S) == UNION {{<<b, k>> : k \in 1..Weight[b]} : b \in S}
Total(S)   == Cardinality(Tickets(S))
Offset(S, b) == Cardinality(Tickets({c \in S : Place(c) < Place(b)}))

\* Mutant: a walk that starts inside a backend's copies skips it.
Distance_NextCopy(S, b, start) == (Offset(S, b) - start) % Total(S)

\* How far behind start the walk meets b for the first time.
Distance(S, b, start) ==
    IF start \in Offset(S, b) .. (Offset(S, b) + Weight[b] - 1)
    THEN 0
    ELSE (Offset(S, b) - start) % Total(S)

\* The members of S, the one with the smallest key first.
InOrder(S, key) ==
    [i \in 1..Cardinality(S) |->
        CHOOSE b \in S : Cardinality({c \in S : key[c] < key[b]}) = i - 1]

\* Mutant: the cursor turns over the backends, not over their tickets.
Candidates_Unweighted(S, cur) ==
    InOrder(S, [b \in S |-> Distance(S, b, cur % Cardinality(S))])

\* Candidates: every usable backend once, in the order the walk meets them.
Candidates(S, cur) == InOrder(S, [b \in S |-> Distance(S, b, cur % Total(S))])

\* backendCandidates: drop what the router excludes, put its choice first.
Reorder(candidates, eligible, selected) ==
    LET kept == {candidates[i] : i \in DOMAIN candidates} \cap eligible
    IN  InOrder(kept, [b \in kept |-> IF b = selected THEN 0
                                      ELSE CHOOSE i \in DOMAIN candidates : candidates[i] = b])

------------------------------------------------------------------------------
(* The same as the loops of Candidates compute it.                          *)

\* The weighted list: the copies of one usable backend after those of another.
Weighted(S) ==
    LET list[i \in 0..Len(IDs)] ==
          IF i = 0 THEN <<>>
          ELSE IF IDs[i] \in S THEN list[i - 1] \o [k \in 1..Weight[IDs[i]] |-> IDs[i]]
          ELSE list[i - 1]
    IN  list[Len(IDs)]

\* One round of the walk: the loop is over at target, and skips what was seen.
Round(ordered, b, target) ==
    IF Len(ordered) = target \/ (\E i \in DOMAIN ordered : ordered[i] = b)
    THEN ordered ELSE Append(ordered, b)

\* The list after one turn of `for index := 0; len(ordered) < target; index++'.
Walk(weighted, start, target) ==
    LET ordered[n \in 0..Len(weighted)] ==
          IF n = 0 THEN <<>>
          ELSE Round(ordered[n - 1], weighted[((start + n - 1) % Len(weighted)) + 1], target)
    IN  ordered[Len(weighted)]

Loop(S, cur) == LET weighted == Weighted(S)
                IN  Walk(weighted, cur % Len(weighted), Cardinality(S))

------------------------------------------------------------------------------
(* The registry by itself: calls for any model between any marks.           *)

MarkFailure(b) == healthy' = [healthy EXCEPT ![b] = FALSE]
MarkSuccess(b) == healthy' = [healthy EXCEPT ![b] = TRUE]

\* Candidates moves the cursor only when it has one.
Advance(S) == cursor' = IF S = {} THEN cursor ELSE cursor + 1

RegistryInit == healthy = [b \in Backends |-> TRUE] /\ cursor = 0

RegistryNext ==
    \/ \E m \in Models : Advance(Usable(healthy, m)) /\ UNCHANGED healthy
    \/ \E b \in Backends : (MarkFailure(b) \/ MarkSuccess(b)) /\ UNCHANGED cursor

\* The loops of Candidates compute the ranking by distance, within one turn of the
\* weighted list: every usable backend exactly once, whatever the weights, the cursor
\* and the health (registry.go Candidates).
LoopIsRanking ==
    \A m \in Models : LET S == Usable(healthy, m) IN
        S # {} => Loop(S, cursor) = Candidates(S, cursor)

\* development.md:202 weighted round robin: while the usable set stays the same, a full
\* turn of the cursor puts each backend first as often as its weight says, also when the
\* cursor was left anywhere by calls on another usable set (registry.go Candidates).
FairShare ==
    \A m \in Models : LET S == Usable(healthy, m) IN
        \A b \in S :
            Cardinality({k \in 0..(Total(S) - 1) : Candidates(S, cursor + k)[1] = b})
                = Weight[b]
=============================================================================
