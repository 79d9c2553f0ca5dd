--------------------------- MODULE KVEventProvider ---------------------------
(***************************************************************************)
(* The exact-cache index of the gateway, KVEventProvider of                *)
(* gateway/internal/router/cache_provider.go, as functions on its state:   *)
(* a bounded LRU set of (backend, block) pairs, the generation and the     *)
(* last sequence number of each backend, and the IDs of the events seen.   *)
(* Its map and its list hold the same pairs and are one set here, with the *)
(* list's order as a relation.                                             *)
(***************************************************************************)
EXTENDS Integers, Sequences, FiniteSets

CONSTANTS Backends, Blocks

NoGeneration == <<"none", 0>>
NoID         == <<NoGeneration, 0, 0>>
NoSequence   == -1          \* an event without, a backend before its first

\* NewKVEventProvider(max).
New(max) ==
    [max   |-> max,
     gen   |-> [b \in Backends |-> NoGeneration],
     last  |-> [b \in Backends |-> NoSequence],
     keys  |-> {},           \* entries
     older |-> {},           \* order: <<x, y>> when y was used after x
     seen  |-> <<>>]         \* seenEvents and eventOrder, the oldest first

------------------------------------------------------------------------------
(* The LRU index.                                                           *)

Drop(p, S) == [p EXCEPT !.keys = @ \ S,
                        !.older = {e \in @ : e[1] \notin S /\ e[2] \notin S}]

clearBackend(p, b) == Drop(p, {x \in p.keys : x[1] = b})

\* PushFront and MoveToFront.
ToFront(p, x) ==
    [p EXCEPT !.keys = @ \cup {x},
              !.older = {e \in @ : x \notin {e[1], e[2]}} \cup ((p.keys \ {x}) \X {x})]

Oldest(p) == CHOOSE x \in p.keys : \A y \in p.keys \ {x} : <<x, y>> \in p.older

\* Mutant: the index grows without a limit.
Store_Unbounded(p, x) == ToFront(p, x)

\* One entry at most is new, so that the loop evicts at most one.
Store(p, x) ==
    LET q == ToFront(p, x)
    IN  IF Cardinality(q.keys) > q.max THEN Drop(q, {Oldest(q)}) ELSE q

\* The list holds what the map holds, each once.
Ordered(p) ==
    /\ p.older \subseteq p.keys \X p.keys
    /\ \A x, y \in p.keys : x = y \/ <<x, y>> \in p.older \/ <<y, x>> \in p.older
    /\ \A x, y \in p.keys : <<x, y>> \in p.older => <<y, x>> \notin p.older
    /\ \A x, y, z \in p.keys : <<x, y>> \in p.older /\ <<y, z>> \in p.older => <<x, z>> \in p.older

------------------------------------------------------------------------------
(* Observe.                                                                 *)

\* An event of another generation ends the backend's previous one.
Regenerate(p, ev) ==
    LET b == ev.backend
        new == p.gen[b] \notin {NoGeneration, ev.gen}
        q == IF new THEN [clearBackend(p, b) EXCEPT !.last[b] = NoSequence] ELSE p
    IN  IF ev.gen = NoGeneration THEN p ELSE [q EXCEPT !.gen[b] = ev.gen]

Seen(p) == {p.seen[i] : i \in DOMAIN p.seen}

\* Mutant: only the IDs are compared.
Suppressed_ByIDOnly(p, ev) ==
    IF ev.id # NoID THEN <<ev.backend, ev.id>> \in Seen(p)
    ELSE ev.seq # NoSequence /\ ev.seq <= p.last[ev.backend]

\* The two early returns.  Events of one batch have the same sequence number and
\* differ in their IDs; an event without ID must have a new number.
Suppressed(p, ev) ==
    IF ev.id # NoID
    THEN \/ <<ev.backend, ev.id>> \in Seen(p)
         \/ ev.seq # NoSequence /\ ev.seq < p.last[ev.backend]
    ELSE ev.seq # NoSequence /\ ev.seq <= p.last[ev.backend]

\* The event's ID and sequence number are noted; 4 * max IDs are kept.
Noted(p, ev) ==
    LET ids == IF ev.id = NoID THEN p.seen ELSE Append(p.seen, <<ev.backend, ev.id>>)
    IN  [p EXCEPT !.seen = IF Len(ids) > 4 * p.max THEN Tail(ids) ELSE ids,
                  !.last[ev.backend] = IF ev.seq = NoSequence THEN @ ELSE ev.seq]

Apply(p, ev) ==
    CASE ev.op = "clear"  -> clearBackend(p, ev.backend)
      [] ev.op = "remove" -> Drop(p, {<<ev.backend, ev.key>>})
      [] ev.op = "store"  -> Store(p, <<ev.backend, ev.key>>)

Observe(p, ev) ==
    LET q == Regenerate(p, ev)
    IN  IF Suppressed(q, ev) THEN q ELSE Apply(Noted(q, ev), ev)

------------------------------------------------------------------------------
(* Match walks the blocks of a request in order and stops at one that is    *)
(* not indexed or past its TTL, which an entry may be at any time; those    *)
(* before it are now the most recently used.                                *)

Matched(p, b, ks) == \A i \in DOMAIN ks : <<b, ks[i]>> \in p.keys

Used(p, b, ks) ==
    LET hit == {<<b, ks[i]>> : i \in DOMAIN ks}
        after == {ij \in (DOMAIN ks) \X (DOMAIN ks) : ij[1] < ij[2]}
    IN  [p EXCEPT !.older = {e \in @ : e[1] \notin hit /\ e[2] \notin hit}
                              \cup ((p.keys \ hit) \X hit)
                              \cup {<<<<b, ks[ij[1]]>>, <<b, ks[ij[2]]>>>> : ij \in after}]
=============================================================================
