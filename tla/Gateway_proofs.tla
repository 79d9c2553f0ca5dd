--------------------------- MODULE Gateway_proofs ----------------------------
(***************************************************************************)
(* Proofs about Gateway, for any finite number of requests, any tenants,   *)
(* slots, backends, weights and models.                                    *)
(***************************************************************************)
EXTENDS Gateway, FiniteSetTheorems, WellFoundedInduction, TLAPS

\* The part of the types that admission depends on.
Types ==
    /\ pc \in [Requests -> Steps]
    /\ tenant \in [Requests -> Tenants]
    /\ verdict \in [Requests -> {"none", "allow", "block", "failed"}]
    /\ attempts = [r \in Requests |-> attempts[r]]
    /\ slots \subseteq Requests
    /\ available \in [Tenants -> Nat]

Held(t) == {r \in slots : tenant[r] = t}

Inv == Types /\ AdmissionInv

\* Any part of the requests is finite.
LEMMA HeldFinite ==
    ASSUME NEW S \in SUBSET Requests
    PROVE  IsFiniteSet(S) /\ Cardinality(S) \in Nat
<1>1. IsFiniteSet(S)
  BY FS_Subset, GatewayAssumption
<1> QED
  BY <1>1, FS_CardinalityType

\* Taking one more slot counts one more holder.
LEMMA OneMore ==
    ASSUME NEW S \in SUBSET Requests, NEW r \in Requests, r \notin S
    PROVE  Cardinality(S \cup {r}) = Cardinality(S) + 1
  BY HeldFinite, FS_AddElement

\* Returning a slot counts one holder less.
LEMMA OneLess ==
    ASSUME NEW S \in SUBSET Requests, NEW r \in Requests, r \in S
    PROVE  Cardinality(S \ {r}) = Cardinality(S) - 1 /\ Cardinality(S) > 0
<1>1. IsFiniteSet(S) /\ Cardinality(S) \in Nat
  BY HeldFinite
<1>2. Cardinality(S \ {r}) = Cardinality(S) - 1
  BY <1>1, FS_RemoveElement
<1>3. Cardinality(S \ {r}) \in Nat
  BY HeldFinite
<1> QED
  BY <1>1, <1>2, <1>3

LEMMA InitInv == Init => Inv
<1> SUFFICES ASSUME Init PROVE Inv
  OBVIOUS
<1>1. Types
  <2>1. \A t \in Tenants : MaxConcurrent[t] \in Nat
    BY GatewayAssumption
  <2>2. available \in [Tenants -> Nat]
    BY <2>1, GatewayAssumption DEF Init
  <2> QED
    BY <2>2 DEF Init, Types, Steps
<1>2. SlotHolders /\ PastPolicy /\ RejectionHolds
  BY DEF Init, SlotHolders, PastPolicy, RejectionHolds, Working
<1>3. SlotsAccounted
  <2> SUFFICES ASSUME NEW t \in Tenants
               PROVE  available[t] + Cardinality({r \in slots : tenant[r] = t})
                        = MaxConcurrent[t]
    BY DEF SlotsAccounted
  <2>1. {r \in slots : tenant[r] = t} = {}
    BY DEF Init
  <2>2. Cardinality({}) = 0
    BY FS_EmptySet
  <2>3. available[t] = MaxConcurrent[t] /\ MaxConcurrent[t] \in Nat
    BY GatewayAssumption DEF Init
  <2> QED
    BY <2>1, <2>2, <2>3
<1> QED
  BY <1>1, <1>2, <1>3 DEF Inv, AdmissionInv

\* A step that neither takes nor returns a slot keeps the accounts.
LEMMA Moves ==
    ASSUME Inv, NEW r \in Requests, NEW s \in Steps, GoTo(r, s),
           UNCHANGED <<tenant, slots, available>>,
           s \in Working => r \in slots,
           r \in slots => s \in Working \cup {"returning"}
    PROVE  SlotHolders' /\ SlotsAccounted' /\ pc' \in [Requests -> Steps]
<1>1. pc \in [Requests -> Steps] /\ pc' = [pc EXCEPT ![r] = s]
  BY DEF Inv, Types, GoTo
<1>2. SlotHolders'
  BY <1>1 DEF Inv, AdmissionInv, SlotHolders
<1>3. SlotsAccounted'
  BY DEF Inv, AdmissionInv, SlotsAccounted
<1> QED
  BY <1>1, <1>2, <1>3

\* A step whose verdict and attempts stay, and which does not go past the policy.
LEMMA PolicyStays ==
    ASSUME Inv, NEW r \in Requests, NEW s \in Steps, GoTo(r, s),
           UNCHANGED <<tenant, verdict, attempts>>,
           s \in {"open", "route", "try", "waiting", "body"} =>
               pc[r] \in {"open", "route", "try", "waiting", "body"},
           s \in {"acquire", "parse", "evaluate", "open", "route"} =>
               pc[r] \in {"idle", "acquire", "parse", "evaluate", "open"},
           s # "idle"
    PROVE  PastPolicy' /\ RejectionHolds'
<1>1. pc \in [Requests -> Steps] /\ pc' = [pc EXCEPT ![r] = s]
  BY DEF Inv, Types, GoTo
<1>2. PastPolicy'
  BY <1>1 DEF Inv, AdmissionInv, PastPolicy, Closed
<1>3. RejectionHolds'
  BY DEF Inv, AdmissionInv, RejectionHolds, Closed
<1> QED
  BY <1>2, <1>3

\* A step of one handler that leaves limiter, verdict and attempts alone.
LEMMA PlainStep ==
    ASSUME Inv, NEW r \in Requests, NEW s \in Steps, GoTo(r, s),
           UNCHANGED <<tenant, slots, available, verdict, attempts>>,
           \/ pc[r] \in Working /\ s = "returning"
           \/ pc[r] = "idle" /\ s = "acquire"
           \/ pc[r] = "acquire" /\ s = "returning"
           \/ pc[r] = "parse" /\ s = "evaluate"
           \/ pc[r] = "route" /\ s = "try"
           \/ pc[r] = "waiting" /\ s \in {"try", "body"}
           \/ pc[r] = "closing" /\ s = "done"
    PROVE  Inv'
<1>1. SlotHolders' /\ SlotsAccounted' /\ pc' \in [Requests -> Steps]
  <2>1. s \in Working => r \in slots
    BY DEF Inv, AdmissionInv, SlotHolders, Working
  <2>2. r \in slots => s \in Working \cup {"returning"}
    BY DEF Inv, AdmissionInv, SlotHolders, Working
  <2> QED
    BY <2>1, <2>2, Moves
<1>2. PastPolicy' /\ RejectionHolds'
  BY PolicyStays DEF Working
<1>3. Types'
  BY <1>1 DEF Inv, Types
<1> QED
  BY <1>1, <1>2, <1>3 DEF Inv, AdmissionInv

\* TryAcquire with a free slot.
LEMMA TakesSlot ==
    ASSUME Inv, NEW r \in Requests, pc[r] = "acquire", available[tenant[r]] > 0,
           available' = [available EXCEPT ![tenant[r]] = @ - 1],
           slots' = slots \cup {r}, GoTo(r, "parse"),
           UNCHANGED <<tenant, verdict, attempts>>
    PROVE  Inv'
<1>1. /\ pc \in [Requests -> Steps] /\ pc' = [pc EXCEPT ![r] = "parse"]
      /\ tenant \in [Requests -> Tenants] /\ slots \subseteq Requests
      /\ available \in [Tenants -> Nat] /\ tenant[r] \in Tenants
  BY DEF Inv, Types, GoTo
<1>2. r \notin slots
  BY DEF Inv, AdmissionInv, SlotHolders, Working
<1>3. SlotHolders'
  BY <1>1, <1>2 DEF Inv, AdmissionInv, SlotHolders, Working
<1>4. SlotsAccounted'
  <2> SUFFICES ASSUME NEW t \in Tenants
               PROVE  available'[t] + Cardinality({q \in slots' : tenant'[q] = t})
                        = MaxConcurrent[t]
    BY DEF SlotsAccounted
  <2>1. available[t] + Cardinality(Held(t)) = MaxConcurrent[t]
    BY DEF Inv, AdmissionInv, SlotsAccounted, Held
  <2>2. Held(t) \in SUBSET Requests /\ Cardinality(Held(t)) \in Nat
    BY <1>1, HeldFinite DEF Held
  <2>3. CASE t = tenant[r]
    <3>1. {q \in slots' : tenant'[q] = t} = Held(t) \cup {r} /\ r \notin Held(t)
      BY <1>2, <2>3 DEF Held
    <3>2. Cardinality(Held(t) \cup {r}) = Cardinality(Held(t)) + 1
      BY <2>2, <3>1, OneMore
    <3>3. available'[t] = available[t] - 1 /\ available[t] \in Nat
      BY <1>1, <2>3
    <3>4. Cardinality({q \in slots' : tenant'[q] = t}) = Cardinality(Held(t)) + 1
      BY <3>1, <3>2
    <3> HIDE DEF Held
    <3> QED
      BY <2>1, <2>2, <3>3, <3>4
  <2>4. CASE t # tenant[r]
    <3>1. {q \in slots' : tenant'[q] = t} = Held(t)
      BY <2>4 DEF Held
    <3>2. available'[t] = available[t]
      BY <1>1, <2>4
    <3> QED
      BY <2>1, <3>1, <3>2
  <2> QED
    BY <2>3, <2>4
<1>5. PastPolicy' /\ RejectionHolds'
  BY PolicyStays DEF Steps
<1>6. Types'
  BY <1>1 DEF Inv, Types, Steps
<1> QED
  BY <1>3, <1>4, <1>5, <1>6 DEF Inv, AdmissionInv

\* The deferred release of a held slot.
LEMMA ReturnsSlot ==
    ASSUME Inv, NEW r \in Requests, pc[r] = "returning", r \in slots,
           slots' = slots \ {r}, GoTo(r, "closing"),
           available' = [available EXCEPT ![tenant[r]] =
                           IF @ < MaxConcurrent[tenant[r]] THEN @ + 1 ELSE @],
           UNCHANGED <<tenant, verdict, attempts>>
    PROVE  Inv'
<1>1. /\ pc \in [Requests -> Steps] /\ pc' = [pc EXCEPT ![r] = "closing"]
      /\ tenant \in [Requests -> Tenants] /\ slots \subseteq Requests
      /\ available \in [Tenants -> Nat] /\ tenant[r] \in Tenants
  BY DEF Inv, Types, GoTo
<1>2. SlotHolders'
  BY <1>1 DEF Inv, AdmissionInv, SlotHolders, Working
<1>3. SlotsAccounted'
  <2> SUFFICES ASSUME NEW t \in Tenants
               PROVE  available'[t] + Cardinality({q \in slots' : tenant'[q] = t})
                        = MaxConcurrent[t]
    BY DEF SlotsAccounted
  <2>1. available[t] + Cardinality(Held(t)) = MaxConcurrent[t]
    BY DEF Inv, AdmissionInv, SlotsAccounted, Held
  <2>2. Held(t) \in SUBSET Requests /\ Cardinality(Held(t)) \in Nat
    BY <1>1, HeldFinite DEF Held
  <2>3. CASE t = tenant[r]
    <3>1. {q \in slots' : tenant'[q] = t} = Held(t) \ {r} /\ r \in Held(t)
      BY <2>3 DEF Held
    <3>2. Cardinality(Held(t) \ {r}) = Cardinality(Held(t)) - 1 /\ Cardinality(Held(t)) > 0
      BY <2>2, <3>1, OneLess
    <3>3. available[t] \in Nat /\ MaxConcurrent[t] \in Nat
      BY <1>1, GatewayAssumption
    <3>4. available[t] < MaxConcurrent[t]
      BY <2>1, <2>2, <3>2, <3>3
    <3>5. available'[t] = available[t] + 1
      BY <1>1, <2>3, <3>4
    <3> QED
      BY <2>1, <2>2, <3>1, <3>2, <3>3, <3>5
  <2>4. CASE t # tenant[r]
    <3>1. {q \in slots' : tenant'[q] = t} = Held(t)
      BY <2>4 DEF Held
    <3>2. available'[t] = available[t]
      BY <1>1, <2>4
    <3> QED
      BY <2>1, <3>1, <3>2
  <2> QED
    BY <2>3, <2>4
<1>4. PastPolicy' /\ RejectionHolds'
  BY PolicyStays DEF Steps
<1>5. Types'
  BY <1>1 DEF Inv, Types, Steps
<1> QED
  BY <1>2, <1>3, <1>4, <1>5 DEF Inv, AdmissionInv

\* A step of the engine's answer: past the policy only as the fail mode allows.
LEMMA PolicyAnswers ==
    ASSUME Inv, NEW r \in Requests, NEW s \in {"returning", "open", "route"}, GoTo(r, s),
           NEW v \in {"allow", "block", "failed"},
           pc[r] \in {"evaluate", "open"},
           verdict' = [verdict EXCEPT ![r] = v],
           s # "returning" => v # "block" /\ (Closed(r) => v = "allow"),
           UNCHANGED <<tenant, slots, available, attempts>>
    PROVE  Inv'
<1>1. /\ pc \in [Requests -> Steps] /\ pc' = [pc EXCEPT ![r] = s]
      /\ verdict \in [Requests -> {"none", "allow", "block", "failed"}]
  BY DEF Inv, Types, GoTo
<1>2. SlotHolders' /\ SlotsAccounted' /\ pc' \in [Requests -> Steps]
  <2>1. s \in Steps
    BY DEF Steps
  <2>2. s \in Working => r \in slots
    BY DEF Inv, AdmissionInv, SlotHolders, Working
  <2>3. s \in Working \cup {"returning"}
    BY DEF Working
  <2> QED
    BY <2>1, <2>2, <2>3, Moves
<1>3. attempts[r] = <<>>
  BY DEF Inv, AdmissionInv, PastPolicy
<1>4. PastPolicy'
  BY <1>1, <1>3 DEF Inv, AdmissionInv, PastPolicy, Closed
<1>5. RejectionHolds'
  BY <1>1, <1>3 DEF Inv, AdmissionInv, RejectionHolds, Closed
<1>6. Types'
  BY <1>1, <1>2 DEF Inv, Types
<1> QED
  BY <1>2, <1>4, <1>5, <1>6 DEF Inv, AdmissionInv
\* Every step of a handler keeps the invariant.
LEMMA HandlerStep ==
    ASSUME Inv, NEW r \in Requests,
           Arrive(r) \/ TurnAway(r) \/ Handle(r) \/ Expire(r)
    PROVE  Inv'
<1> USE DEF Respond
<1>1. CASE Arrive(r)
  BY <1>1, PlainStep DEF Arrive, Steps
<1>2. CASE TurnAway(r)
  BY <1>2, PlainStep DEF TurnAway, Steps
<1>3. CASE TryAcquire(r)
  <2>1. CASE available[tenant[r]] > 0
    BY <1>3, <2>1, TakesSlot DEF TryAcquire
  <2>2. CASE ~(available[tenant[r]] > 0)
    BY <1>3, <2>2, PlainStep DEF TryAcquire, Steps
  <2> QED
    BY <2>1, <2>2
<1>4. CASE ParseRequest(r)
  BY <1>4, PlainStep DEF ParseRequest, Steps, Working
<1>5. ASSUME NEW a \in {"allow", "block", "failed"}, Evaluate(r, a)
      PROVE  Inv'
  <2>1. CASE a = "block" \/ (a = "failed" /\ Closed(r))
    <3>1. GoTo(r, "returning")
      BY <1>5, <2>1 DEF Evaluate
    <3> QED
      BY <1>5, <3>1, PolicyAnswers DEF Evaluate
  <2>2. CASE ~(a = "block" \/ (a = "failed" /\ Closed(r)))
    <3>1. PICK s \in {"open", "route"} : GoTo(r, s)
      BY <1>5, <2>2 DEF Evaluate
    <3> QED
      BY <1>5, <2>2, <3>1, PolicyAnswers DEF Evaluate
  <2> QED
    BY <2>1, <2>2
<1>6. ASSUME NEW a \in {"allow", "block", "failed"}, OpenStream(r, a)
      PROVE  Inv'
  <2>1. verdict \in [Requests -> {"none", "allow", "block", "failed"}] /\ pc[r] = "open"
    BY <1>6 DEF Inv, Types, OpenStream
  <2>2. verdict[r] # "block" /\ (Closed(r) => verdict[r] = "allow")
    BY <2>1 DEF Inv, AdmissionInv, PastPolicy
  <2>3. CASE a = "block"
    <3>1. GoTo(r, "returning") /\ verdict' = [verdict EXCEPT ![r] = "block"]
      BY <1>6, <2>3 DEF OpenStream
    <3> QED
      BY <1>6, <2>1, <3>1, PolicyAnswers DEF OpenStream
  <2>4. CASE a = "allow"
    <3>1. verdict' = verdict
      BY <1>6, <2>1, <2>4 DEF OpenStream
    <3>2. PICK s \in {"returning", "route"} : GoTo(r, s)
      BY <1>6, <2>4 DEF OpenStream
    <3>3. SlotHolders' /\ SlotsAccounted' /\ pc' \in [Requests -> Steps]
      <4>1. r \in slots /\ s \in Steps /\ s \in Working \cup {"returning"}
        BY <2>1 DEF Inv, AdmissionInv, SlotHolders, Working, Steps
      <4> QED
        BY <1>6, <3>2, <4>1, Moves DEF OpenStream
    <3>4. PastPolicy' /\ RejectionHolds'
      BY <1>6, <2>1, <3>1, <3>2, PolicyStays DEF OpenStream, Steps
    <3> QED
      BY <1>6, <3>1, <3>3, <3>4 DEF OpenStream, Inv, Types, AdmissionInv
  <2>5. CASE a = "failed"
    <3>1. verdict' = [verdict EXCEPT ![r] = "failed"]
      BY <1>6, <2>5 DEF OpenStream
    <3>2. CASE Closed(r)
      <4>1. GoTo(r, "returning")
        BY <1>6, <2>5, <3>2 DEF OpenStream, Respond
      <4> QED
        BY <1>6, <2>1, <3>1, <4>1, PolicyAnswers DEF OpenStream
    <3>3. CASE ~Closed(r)
      <4>1. GoTo(r, "route")
        BY <1>6, <2>5, <3>3 DEF OpenStream
      <4> QED
        BY <1>6, <2>1, <3>1, <3>3, <4>1, PolicyAnswers DEF OpenStream
    <3> QED
      BY <3>2, <3>3
  <2> QED
    BY <2>3, <2>4, <2>5
<1>7. ASSUME NEW e \in SUBSET Backends, NEW b \in Backends \cup {NoBackend}, Route(r, e, b)
      PROVE  Inv'
  <2>1. PICK s \in {"returning", "try"} : GoTo(r, s)
    BY <1>7 DEF Route
  <2> QED
    BY <1>7, <2>1, PlainStep DEF Route, Steps, Working
<1>8. CASE Attempt(r)
  <2>1. /\ pc[r] = "try" /\ GoTo(r, "waiting") /\ candidates[r] # <<>>
        /\ attempts' = [attempts EXCEPT ![r] = Append(@, Head(candidates[r]))]
        /\ UNCHANGED <<tenant, slots, available, verdict>>
    BY <1>8 DEF Attempt
  <2>2. SlotHolders' /\ SlotsAccounted' /\ pc' \in [Requests -> Steps]
    <3>1. r \in slots /\ "waiting" \in Steps /\ "waiting" \in Working
      BY <2>1 DEF Inv, AdmissionInv, SlotHolders, Working, Steps
    <3> QED
      BY <2>1, <3>1, Moves
  <2>3. /\ pc' = [pc EXCEPT ![r] = "waiting"] /\ pc \in [Requests -> Steps]
        /\ attempts = [q \in Requests |-> attempts[q]]
    BY <2>1 DEF GoTo, Inv, Types
  <2>4. verdict[r] # "block" /\ (Closed(r) => verdict[r] = "allow")
    BY <2>1 DEF Inv, AdmissionInv, PastPolicy
  <2>5. PastPolicy'
    BY <2>1, <2>3, <2>4 DEF Inv, AdmissionInv, PastPolicy, Closed
  <2>6. RejectionHolds'
    BY <2>1, <2>3, <2>4 DEF Inv, AdmissionInv, RejectionHolds, Closed
  <2>7. Types'
    BY <2>1, <2>2, <2>3 DEF Inv, Types
  <2> QED
    BY <2>2, <2>5, <2>6, <2>7 DEF Inv, AdmissionInv
<1>9. CASE AttemptFails(r) \/ AttemptAnswered(r)
  BY <1>9, PlainStep DEF AttemptFails, AttemptAnswered, Steps
<1>10. CASE AllFailed(r)
  BY <1>10, PlainStep DEF AllFailed, Steps, Working
<1>11. ASSUME NEW s \in {200, 403, 502, 503}, Forward(r, s)
       PROVE  Inv'
  BY <1>11, PlainStep DEF Forward, Steps, Working
<1>12. CASE Release(r)
  <2>1. CASE r \in slots
    BY <1>12, <2>1, ReturnsSlot DEF Release
  <2>2. CASE r \notin slots
    <3>1. /\ pc[r] = "returning" /\ GoTo(r, "closing")
          /\ UNCHANGED <<tenant, slots, available, verdict, attempts>>
      BY <1>12, <2>2 DEF Release
    <3>2. SlotHolders' /\ SlotsAccounted' /\ pc' \in [Requests -> Steps]
      BY <2>2, <3>1, Moves DEF Steps, Working
    <3>3. PastPolicy' /\ RejectionHolds'
      BY <3>1, PolicyStays DEF Steps
    <3> QED
      BY <3>1, <3>2, <3>3 DEF Inv, Types, AdmissionInv
  <2> QED
    BY <2>1, <2>2
<1>13. CASE Observe(r)
  BY <1>13, PlainStep DEF Observe, Steps
<1>14. CASE Expire(r)
  BY <1>14 DEF Expire, Inv, Types, AdmissionInv, SlotHolders, SlotsAccounted, PastPolicy,
               RejectionHolds, Closed
<1> QED
  BY <1>1, <1>2, <1>3, <1>4, <1>5, <1>6, <1>7, <1>8, <1>9, <1>10, <1>11, <1>12, <1>13,
     <1>14 DEF Handle

LEMMA NextInv == Inv /\ [Next]_vars => Inv'
<1> SUFFICES ASSUME Inv, [Next]_vars PROVE Inv'
  OBVIOUS
<1>1. ASSUME NEW r \in Requests, Arrive(r) \/ TurnAway(r) \/ Handle(r) \/ Expire(r)
      PROVE  Inv'
  BY <1>1, HandlerStep
<1>2. CASE UNCHANGED <<handler, available>>
  BY <1>2 DEF handler, Inv, Types, AdmissionInv, SlotHolders, SlotsAccounted, PastPolicy,
              RejectionHolds, Closed
<1>3. CASE Check
  BY <1>2, <1>3 DEF Check, StartCheck, Probe, ProbeApplied
<1>4. CASE UNCHANGED vars
  BY <1>2, <1>4 DEF vars
<1> QED
  BY <1>1, <1>3, <1>4 DEF Next

\* The invariant of admission holds for any number of concurrent requests
\* (ServeHTTP with the limiter, whatever backends, engine and clients do).
THEOREM AdmissionHolds == Spec => []Inv
<1> QED
  BY InitInv, NextInv, PTL DEF Spec

\* No interleaving of handlers leaks a slot or returns one twice (TryAcquire and
\* its release function).
THEOREM SlotsAlwaysAccounted == Spec => []SlotsAccounted
<1>1. Inv => SlotsAccounted
  BY DEF Inv, AdmissionInv
<1> QED
  BY <1>1, AdmissionHolds, PTL

\* A tenant never has more requests at work than max_concurrent.
THEOREM ConcurrencyAlwaysBounded == Spec => []ConcurrencyBounded
<1>1. Inv => ConcurrencyBounded
  <2> SUFFICES ASSUME Inv, NEW t \in Tenants
               PROVE  Cardinality({r \in Requests : tenant[r] = t /\ pc[r] \in Working})
                        <= MaxConcurrent[t]
    BY DEF ConcurrencyBounded
  <2> DEFINE W == {r \in Requests : tenant[r] = t /\ pc[r] \in Working}
  <2>1. W \subseteq Held(t) /\ Held(t) \in SUBSET Requests /\ W \in SUBSET Requests
    BY DEF Inv, Types, AdmissionInv, SlotHolders, Held
  <2>2. IsFiniteSet(Held(t)) /\ Cardinality(Held(t)) \in Nat /\ Cardinality(W) \in Nat
    BY <2>1, HeldFinite
  <2>3. Cardinality(W) <= Cardinality(Held(t))
    BY <2>1, <2>2, FS_Subset
  <2>4. available[t] + Cardinality(Held(t)) = MaxConcurrent[t] /\ available[t] \in Nat
    BY DEF Inv, Types, AdmissionInv, SlotsAccounted, Held
  <2>5. MaxConcurrent[t] \in Nat
    BY GatewayAssumption
  <2> HIDE DEF W
  <2>6. Cardinality(W) <= MaxConcurrent[t]
    BY <2>2, <2>3, <2>4, <2>5
  <2> QED
    BY <2>6 DEF W
<1> QED
  BY <1>1, AdmissionHolds, PTL

\* For any number of tenants, slots and requests: the limiter's count is right on every
\* path of ServeHTTP and bounds the requests at work.
THEOREM SlotsAlwaysSound == Spec => []SlotsSound
<1>1. SlotsAccounted /\ ConcurrencyBounded => SlotsSound
  BY DEF SlotsSound
<1> QED
  BY <1>1, SlotsAlwaysAccounted, ConcurrencyAlwaysBounded, PTL

\* An explicit rejection is never bypassed, and a closed tenant's request reaches
\* a backend only with the engine's permission (ServeHTTP and forward).
THEOREM RejectionAlwaysHolds == Spec => []RejectionHolds
<1>1. Inv => RejectionHolds
  BY DEF Inv, AdmissionInv
<1> QED
  BY <1>1, AdmissionHolds, PTL

(***************************************************************************)
(* The registry's lists.                                                   *)
(***************************************************************************)

\* list holds every member of S exactly once.
Lists(list, S) ==
    /\ list \in [1..Cardinality(S) -> S]
    /\ \A i, j \in 1..Cardinality(S) : list[i] = list[j] => i = j
    /\ \A b \in S : \E i \in 1..Cardinality(S) : list[i] = b

Injective(key, S) == \A a, b \in S : key[a] = key[b] => a = b

\* InOrder lists the whole of a finite set, each member once, when no two have one key.
LEMMA InOrderLists ==
    ASSUME NEW S, IsFiniteSet(S), NEW key \in [S -> Int], Injective(key, S)
    PROVE  Lists(InOrder(S, key), S)
<1> DEFINE n == Cardinality(S)
           before == [b \in S |-> {c \in S : key[c] < key[b]}]
           rank == [b \in S |-> Cardinality(before[b])]
           s == InOrder(S, key)
<1>1. n \in Nat
  BY FS_CardinalityType
<1>2. ASSUME NEW b \in S
      PROVE  /\ before[b] \in SUBSET S /\ IsFiniteSet(before[b])
             /\ rank[b] \in 0..(n - 1)
  <2>1. before[b] \in SUBSET (S \ {b}) /\ before[b] \in SUBSET S
    OBVIOUS
  <2>2. IsFiniteSet(S \ {b}) /\ Cardinality(S \ {b}) = n - 1
    BY FS_RemoveElement
  <2> HIDE DEF n, before
  <2>3. IsFiniteSet(before[b]) /\ Cardinality(before[b]) <= n - 1
    BY <2>1, <2>2, FS_Subset
  <2>4. Cardinality(before[b]) \in Nat
    BY <2>3, FS_CardinalityType
  <2> QED
    BY <1>1, <2>1, <2>3, <2>4
<1>3. ASSUME NEW a \in S, NEW b \in S, key[a] < key[b]
      PROVE  rank[a] # rank[b]
  <2>1. before[a] \in SUBSET before[b] /\ a \in before[b] /\ a \notin before[a]
    BY <1>3
  <2> HIDE DEF before
  <2>2. Cardinality(before[b]) = Cardinality(before[a]) => before[b] = before[a]
    BY <1>2, <2>1, FS_Subset
  <2> QED
    BY <2>1, <2>2
<1>4. \A a, b \in S : rank[a] = rank[b] => a = b
  <2> SUFFICES ASSUME NEW a \in S, NEW b \in S, a # b PROVE rank[a] # rank[b]
    OBVIOUS
  <2>1. key[a] # key[b] /\ key[a] \in Int /\ key[b] \in Int
    BY DEF Injective
  <2>2. key[a] < key[b] \/ key[b] < key[a]
    BY <2>1
  <2> HIDE DEF rank
  <2> QED
    BY <1>3, <2>2
<1>5. rank \in Injection(S, 0..(n - 1))
  <2>1. rank \in [S -> 0..(n - 1)]
    BY <1>2
  <2> HIDE DEF rank
  <2> QED
    BY <1>4, <2>1 DEF Injection, IsInjective
<1>6. rank \in Surjection(S, 0..(n - 1))
  <2>1. IsFiniteSet(0..(n - 1)) /\ Cardinality(0..(n - 1)) = n
    BY <1>1, FS_Interval
  <2> HIDE DEF rank
  <2> QED
    BY <1>5, <2>1, FS_Injection
<1>7. \A i \in 1..n : \E b \in S : rank[b] = i - 1
  <2> SUFFICES ASSUME NEW i \in 1..n PROVE \E b \in S : rank[b] = i - 1
    OBVIOUS
  <2>1. i - 1 \in 0..(n - 1)
    BY <1>1
  <2> HIDE DEF rank
  <2> QED
    BY <1>6, <2>1 DEF Surjection
<1>8. /\ s \in [1..n -> S]
      /\ \A i \in 1..n : rank[s[i]] = i - 1
  <2>1. \A b \in S : rank[b] = Cardinality({c \in S : key[c] < key[b]})
    OBVIOUS
  <2> DEFINE pick(i) == CHOOSE b \in S : Cardinality({c \in S : key[c] < key[b]}) = i - 1
  <2>2. ASSUME NEW i \in 1..n
        PROVE  pick(i) \in S /\ Cardinality({c \in S : key[c] < key[pick(i)]}) = i - 1
    <3>1. \E b \in S : Cardinality({c \in S : key[c] < key[b]}) = i - 1
      <4> HIDE DEF rank
      <4> QED
        BY <1>7, <2>1
    <3> QED
      BY <3>1
  <2>3. s = [i \in 1..n |-> pick(i)]
    BY DEF InOrder
  <2> HIDE DEF rank, s, pick
  <2> QED
    BY <2>1, <2>2, <2>3
<1>9. \A b \in S : rank[b] + 1 \in 1..n /\ s[rank[b] + 1] = b
  <2> SUFFICES ASSUME NEW b \in S PROVE rank[b] + 1 \in 1..n /\ s[rank[b] + 1] = b
    OBVIOUS
  <2>1. rank[b] \in 0..(n - 1)
    BY <1>2
  <2> HIDE DEF rank, s
  <2>2. rank[b] + 1 \in 1..n /\ (rank[b] + 1) - 1 = rank[b]
    BY <1>1, <2>1
  <2>3. s[rank[b] + 1] \in S /\ rank[s[rank[b] + 1]] = rank[b]
    BY <1>8, <2>2
  <2> QED
    BY <1>4, <2>2, <2>3
<1> HIDE DEF rank, s
<1>10. \A i, j \in 1..n : s[i] = s[j] => i = j
  <2> SUFFICES ASSUME NEW i \in 1..n, NEW j \in 1..n, s[i] = s[j] PROVE i = j
    OBVIOUS
  <2>1. i - 1 = j - 1
    BY <1>8
  <2> QED
    BY <2>1
<1> QED
  BY <1>8, <1>9, <1>10 DEF Lists, s

\* The backends are finitely many, and each has one place among the IDs.
LEMMA BackendsFinite ==
    IsFiniteSet(Backends) /\ \A S \in SUBSET Backends : IsFiniteSet(S)
<1>1. IDs \in [1..Len(IDs) -> Backends] /\ Len(IDs) \in Nat /\ DOMAIN IDs = 1..Len(IDs)
  BY RegistryAssumption
<1>2. IDs \in Surjection(1..Len(IDs), Backends)
  BY <1>1, RegistryAssumption DEF Surjection
<1>3. IsFiniteSet(1..Len(IDs))
  BY <1>1, FS_Interval
<1>4. IsFiniteSet(Backends)
  BY <1>2, <1>3, FS_Surjection
<1> QED
  BY <1>4, FS_Subset

LEMMA PlaceIs ==
    ASSUME NEW b \in Backends
    PROVE  Place(b) \in DOMAIN IDs /\ IDs[Place(b)] = b /\ Place(b) \in Nat
  BY RegistryAssumption DEF Place

\* What the router leaves of the candidates is listed once each.
LEMMA ReorderLists ==
    ASSUME NEW list, NEW eligible \in SUBSET Backends, NEW selected
    PROVE  LET kept == {list[i] : i \in DOMAIN list} \cap eligible
           IN  DOMAIN list \subseteq Nat \ {0} => Lists(Reorder(list, eligible, selected), kept)
<1> DEFINE kept == {list[i] : i \in DOMAIN list} \cap eligible
           key == [b \in kept |-> IF b = selected THEN 0
                                  ELSE CHOOSE i \in DOMAIN list : list[i] = b]
<1> SUFFICES ASSUME DOMAIN list \subseteq Nat \ {0}
             PROVE  Lists(Reorder(list, eligible, selected), kept)
  OBVIOUS
<1>1. IsFiniteSet(kept)
  <2>1. kept \in SUBSET Backends
    OBVIOUS
  <2> HIDE DEF kept
  <2> QED
    BY <2>1, BackendsFinite
<1>2. ASSUME NEW b \in kept
      PROVE  /\ b = selected => key[b] = 0
             /\ b # selected => key[b] \in DOMAIN list /\ list[key[b]] = b
  <2>1. \E i \in DOMAIN list : list[i] = b
    OBVIOUS
  <2> QED
    BY <2>1
<1>3. key \in [kept -> Int]
  <2>1. \A b \in kept : key[b] \in Int
    BY <1>2
  <2> QED
    BY <2>1
<1>4. Injective(key, kept)
  <2> SUFFICES ASSUME NEW a \in kept, NEW b \in kept, key[a] = key[b] PROVE a = b
    BY DEF Injective
  <2>0. 0 \notin DOMAIN list
    OBVIOUS
  <2> HIDE DEF key, kept
  <2> QED
    BY <1>2, <2>0
<1>5. Reorder(list, eligible, selected) = InOrder(kept, key)
  BY DEF Reorder
<1> HIDE DEF key, kept
<1> QED
  BY <1>1, <1>3, <1>4, <1>5, InOrderLists

(***************************************************************************)
(* Failover.                                                               *)
(***************************************************************************)

\* The part of the types that failover depends on.
FailoverTypes ==
    /\ pc \in [Requests -> Steps]
    /\ model = [r \in Requests |-> model[r]]
    /\ candidates \in [Requests -> Seq(Backends)]
    /\ attempts \in [Requests -> Seq(Backends)]
    /\ answered \in [Requests -> Backends \cup {NoBackend}]
    /\ status \in [Requests -> Int]

\* FailoverSound and CandidatesLeft of one handler: at p, for model m, with candidates c,
\* attempts a, answer w and status s.
SoundAt(p, m, c, a, w, s) ==
    /\ \A i, j \in DOMAIN a : a[i] = a[j] => i = j
    /\ \A i \in DOMAIN a : Matches(a[i], m)
    /\ w # NoBackend => w = a[Len(a)]
    /\ (s = 502 /\ w = NoBackend) => c = <<>> /\ a # <<>>
    /\ \A i, j \in DOMAIN c : c[i] = c[j] => i = j
    /\ \A i \in DOMAIN c : Matches(c[i], m)
    /\ p = "try" =>
         /\ c = <<>> => a # <<>>
         /\ \A i \in DOMAIN c, j \in DOMAIN a : c[i] # a[j]
    /\ p = "waiting" =>
         /\ c # <<>> /\ a # <<>> /\ c[1] = a[Len(a)]
         /\ \A i \in DOMAIN c, j \in DOMAIN a : i > 1 => c[i] # a[j]
    /\ p = "body" => w # NoBackend
    /\ w # NoBackend => p \in {"body", "returning", "closing", "done"} /\ a # <<>>
    /\ p \in Working \cup {"idle", "acquire"} => s = 0

HandlerSound(r) == SoundAt(pc[r], model[r], candidates[r], attempts[r], answered[r], status[r])

LEMMA SoundHandlers ==
    (CandidatesLeft /\ FailoverSound) <=> \A r \in Requests : HandlerSound(r)
<1>1. CandidatesLeft /\ FailoverSound => \A r \in Requests : HandlerSound(r)
  <2> SUFFICES ASSUME CandidatesLeft, FailoverSound, NEW r \in Requests PROVE HandlerSound(r)
    OBVIOUS
  <2> QED
    BY DEF CandidatesLeft, FailoverSound, HandlerSound, SoundAt
<1>2. (\A r \in Requests : HandlerSound(r)) => CandidatesLeft
  BY DEF CandidatesLeft, HandlerSound, SoundAt
<1>3. (\A r \in Requests : HandlerSound(r)) => FailoverSound
  BY DEF FailoverSound, HandlerSound, SoundAt
<1> QED
  BY <1>1, <1>2, <1>3

\* Asking the next candidate.
LEMMA AsksNext ==
    ASSUME NEW m, NEW c \in Seq(Backends), NEW a \in Seq(Backends), NEW w, NEW s,
           SoundAt("try", m, c, a, w, s), c # <<>>
    PROVE  /\ Append(a, Head(c)) \in Seq(Backends)
           /\ SoundAt("waiting", m, c, Append(a, Head(c)), w, s)
<1> DEFINE b == Append(a, Head(c))
<1>1. Len(c) \in Nat \ {0} /\ DOMAIN c = 1..Len(c) /\ Head(c) = c[1] /\ c[1] \in Backends
  OBVIOUS
<1>2. /\ Len(a) \in Nat /\ DOMAIN a = 1..Len(a) /\ b \in Seq(Backends)
      /\ Len(b) = Len(a) + 1 /\ DOMAIN b = 1..(Len(a) + 1)
      /\ \A i \in 1..Len(a) : b[i] = a[i]
      /\ b[Len(a) + 1] = c[1]
  BY <1>1
<1> HIDE DEF b
<1>3. 1 \in DOMAIN c /\ b # <<>>
  BY <1>1, <1>2
<1>4. \A j \in DOMAIN a : c[1] # a[j]
  BY <1>3 DEF SoundAt
<1>5. \A i, j \in DOMAIN b : b[i] = b[j] => i = j
  <2> SUFFICES ASSUME NEW i \in DOMAIN b, NEW j \in DOMAIN b, b[i] = b[j] PROVE i = j
    OBVIOUS
  <2>1. CASE i \in 1..Len(a) /\ j \in 1..Len(a)
    BY <1>2, <2>1 DEF SoundAt
  <2>2. CASE i = Len(a) + 1 /\ j \in 1..Len(a)
    BY <1>2, <1>4, <2>2
  <2>3. CASE j = Len(a) + 1 /\ i \in 1..Len(a)
    BY <1>2, <1>4, <2>3
  <2> QED
    BY <1>2, <2>1, <2>2, <2>3
<1>6. \A i \in DOMAIN b : Matches(b[i], m)
  <2> SUFFICES ASSUME NEW i \in DOMAIN b PROVE Matches(b[i], m)
    OBVIOUS
  <2>1. CASE i \in 1..Len(a)
    BY <1>2, <2>1 DEF SoundAt
  <2>2. CASE i = Len(a) + 1
    BY <1>2, <1>3, <2>2 DEF SoundAt
  <2> QED
    BY <1>2, <2>1, <2>2
<1>7. \A i \in DOMAIN c, j \in DOMAIN b : i > 1 => c[i] # b[j]
  <2> SUFFICES ASSUME NEW i \in DOMAIN c, NEW j \in DOMAIN b, i > 1 PROVE c[i] # b[j]
    OBVIOUS
  <2>1. CASE j \in 1..Len(a)
    BY <1>2, <2>1 DEF SoundAt
  <2>2. CASE j = Len(a) + 1
    BY <1>1, <1>2, <1>3, <2>2 DEF SoundAt
  <2> QED
    BY <1>2, <2>1, <2>2
<1>8. w = NoBackend /\ s = 0
  BY DEF SoundAt, Working
<1>9. \A i, j \in DOMAIN c : c[i] = c[j] => i = j
  BY DEF SoundAt
<1>10. \A i \in DOMAIN c : Matches(c[i], m)
  BY DEF SoundAt
<1> QED
  BY <1>2, <1>3, <1>5, <1>6, <1>7, <1>8, <1>9, <1>10 DEF SoundAt, b

\* Going on behind a candidate that failed.
LEMMA DropsFailed ==
    ASSUME NEW m, NEW c \in Seq(Backends), NEW a \in Seq(Backends), NEW w, NEW s,
           SoundAt("waiting", m, c, a, w, s)
    PROVE  Tail(c) \in Seq(Backends) /\ SoundAt("try", m, Tail(c), a, w, s)
<1> DEFINE t == Tail(c)
<1>0. c # <<>> /\ a # <<>>
  BY DEF SoundAt
<1>1. Len(c) \in Nat \ {0} /\ DOMAIN c = 1..Len(c)
  BY <1>0
<1>2. /\ t \in Seq(Backends) /\ DOMAIN t = 1..(Len(c) - 1)
      /\ \A i \in 1..(Len(c) - 1) : t[i] = c[i + 1]
  BY <1>0
<1> HIDE DEF t
<1>3. \A i \in DOMAIN t : i + 1 \in DOMAIN c /\ i + 1 > 1 /\ t[i] = c[i + 1]
  BY <1>1, <1>2
<1>4. \A i, j \in DOMAIN t : t[i] = t[j] => i = j
  <2> SUFFICES ASSUME NEW i \in DOMAIN t, NEW j \in DOMAIN t, t[i] = t[j] PROVE i = j
    OBVIOUS
  <2>1. i + 1 = j + 1
    BY <1>3 DEF SoundAt
  <2> QED
    BY <1>2, <2>1
<1>5. \A i \in DOMAIN t : Matches(t[i], m)
  BY <1>3 DEF SoundAt
<1>6. \A i \in DOMAIN t, j \in DOMAIN a : t[i] # a[j]
  BY <1>3 DEF SoundAt
<1>7. w = NoBackend /\ s = 0
  BY DEF SoundAt, Working
<1>8. (\A i, j \in DOMAIN a : a[i] = a[j] => i = j) /\ \A i \in DOMAIN a : Matches(a[i], m)
  BY DEF SoundAt
<1> QED
  BY <1>0, <1>2, <1>4, <1>5, <1>6, <1>7, <1>8 DEF SoundAt, t

\* A candidate that answers is the last one asked.
LEMMA TakesAnswer ==
    ASSUME NEW m, NEW c \in Seq(Backends), NEW a \in Seq(Backends), NEW w, NEW s,
           SoundAt("waiting", m, c, a, w, s)
    PROVE  Head(c) \in Backends /\ SoundAt("body", m, c, a, Head(c), s)
<1>1. c # <<>> /\ a # <<>> /\ c[1] = a[Len(a)]
  BY DEF SoundAt
<1>2. Head(c) = c[1] /\ c[1] \in Backends
  BY <1>1
<1>3. Head(c) # NoBackend
  BY <1>2, RegistryAssumption
<1>4. s = 0
  BY DEF SoundAt, Working
<1> QED
  BY <1>1, <1>2, <1>3, <1>4 DEF SoundAt

AllMatch(S, m) == \A b \in S : Matches(b, m)

\* The router's list is one that failover may start from.
LEMMA StartsSound ==
    ASSUME NEW m, NEW c \in Seq(Backends), NEW a, NEW w, NEW s, NEW S \in SUBSET Backends,
           SoundAt("route", m, c, a, w, s), a = <<>>,
           NEW list, Lists(list, S), AllMatch(S, m)
    PROVE  /\ list \in Seq(Backends)
           /\ list = <<>> => SoundAt("returning", m, list, a, w, 503)
           /\ list # <<>> => SoundAt("try", m, list, a, w, s)
<1>1. IsFiniteSet(S) /\ Cardinality(S) \in Nat
  BY BackendsFinite, FS_CardinalityType
<1>2. list \in [1..Cardinality(S) -> S] /\ DOMAIN list = 1..Cardinality(S)
  BY DEF Lists
<1>3. list \in Seq(Backends)
  BY <1>1, <1>2
<1>4. \A i, j \in DOMAIN list : list[i] = list[j] => i = j
  BY <1>2 DEF Lists
<1>5. \A i \in DOMAIN list : Matches(list[i], m)
  BY <1>2 DEF AllMatch
<1>6. w = NoBackend /\ s = 0 /\ DOMAIN a = {}
  BY DEF SoundAt, Working
<1> QED
  BY <1>3, <1>4, <1>5, <1>6 DEF SoundAt, Working

\* A handler that leaves failover alone and goes on, or responds, or returns.
LEMMA SoundElsewhere ==
    ASSUME NEW p, NEW m, NEW c, NEW a, NEW w, NEW s, NEW q, NEW t,
           SoundAt(p, m, c, a, w, s),
           \/ /\ q \in {"acquire", "parse", "evaluate", "open", "route"} /\ t = s
              /\ p \in {"idle", "acquire", "parse", "evaluate", "open"}
           \/ /\ q = "returning"
              /\ (t = 502 /\ w = NoBackend) => c = <<>> /\ a # <<>>
           \/ q \in {"closing", "done"} /\ t = s
    PROVE  SoundAt(q, m, c, a, w, t)
<1>1. /\ \A i, j \in DOMAIN a : a[i] = a[j] => i = j
      /\ \A i \in DOMAIN a : Matches(a[i], m)
      /\ \A i, j \in DOMAIN c : c[i] = c[j] => i = j
      /\ \A i \in DOMAIN c : Matches(c[i], m)
      /\ w # NoBackend => w = a[Len(a)] /\ a # <<>>
  BY DEF SoundAt
<1>2. CASE q \in {"acquire", "parse", "evaluate", "open", "route"} /\ t = s
           /\ p \in {"idle", "acquire", "parse", "evaluate", "open"}
  <2>1. s = 0 /\ w = NoBackend
    BY <1>2 DEF SoundAt, Working
  <2> QED
    BY <1>1, <1>2, <2>1 DEF SoundAt, Working
<1>3. CASE q = "returning" /\ ((t = 502 /\ w = NoBackend) => c = <<>> /\ a # <<>>)
  BY <1>1, <1>3 DEF SoundAt, Working
<1>4. CASE q \in {"closing", "done"} /\ t = s
  BY <1>1, <1>4 DEF SoundAt, Working
<1> QED
  BY <1>2, <1>3, <1>4

FailoverInv == FailoverTypes /\ \A r \in Requests : HandlerSound(r)

\* Handler r, and no other, is then at p with these candidates, attempts, answer and status.
Becomes(r, p, c, a, w, s) ==
    /\ pc' = [pc EXCEPT ![r] = p] /\ candidates' = [candidates EXCEPT ![r] = c]
    /\ attempts' = [attempts EXCEPT ![r] = a] /\ answered' = [answered EXCEPT ![r] = w]
    /\ status' = [status EXCEPT ![r] = s] /\ UNCHANGED model

\* A step of handler r that changes only r's own entries keeps the others sound.
LEMMA OneHandler ==
    ASSUME FailoverInv, NEW r \in Requests, NEW p \in Steps, NEW c \in Seq(Backends),
           NEW a \in Seq(Backends), NEW w \in Backends \cup {NoBackend}, NEW s \in Int,
           Becomes(r, p, c, a, w, s), SoundAt(p, model[r], c, a, w, s)
    PROVE  FailoverInv'
<1>1. FailoverTypes'
  BY DEF FailoverInv, FailoverTypes, Becomes
<1>2. ASSUME NEW q \in Requests PROVE HandlerSound(q)'
  <2>1. CASE q = r
    <3>1. /\ pc'[q] = p /\ candidates'[q] = c /\ attempts'[q] = a /\ answered'[q] = w
          /\ status'[q] = s /\ model'[q] = model[q]
      BY <2>1 DEF FailoverInv, FailoverTypes, Becomes
    <3> QED
      BY <2>1, <3>1 DEF HandlerSound
  <2>2. CASE q # r
    <3>1. /\ pc'[q] = pc[q] /\ candidates'[q] = candidates[q] /\ attempts'[q] = attempts[q]
          /\ answered'[q] = answered[q] /\ status'[q] = status[q] /\ model'[q] = model[q]
      BY <2>2 DEF FailoverInv, FailoverTypes, Becomes
    <3> QED
      BY <3>1 DEF HandlerSound, FailoverInv
  <2> QED
    BY <2>1, <2>2
<1> QED
  BY <1>1, <1>2 DEF FailoverInv

LEMMA FailoverStep ==
    ASSUME Inv, FailoverInv, NEW r \in Requests,
           Arrive(r) \/ TurnAway(r) \/ Handle(r) \/ Expire(r)
    PROVE  FailoverInv'
<1> DEFINE m == model[r]
           c == candidates[r]
           a == attempts[r]
           w == answered[r]
           s == status[r]
<1>0. /\ pc[r] \in Steps /\ c \in Seq(Backends) /\ a \in Seq(Backends)
      /\ w \in Backends \cup {NoBackend} /\ s \in Int
      /\ SoundAt(pc[r], m, c, a, w, s)
      /\ status = [status EXCEPT ![r] = s] /\ candidates = [candidates EXCEPT ![r] = c]
      /\ attempts = [attempts EXCEPT ![r] = a] /\ answered = [answered EXCEPT ![r] = w]
  BY DEF FailoverInv, FailoverTypes, HandlerSound
<1> HIDE DEF m, c, a, w, s
<1>1. ASSUME NEW q \in {"acquire", "parse", "evaluate", "open", "route"}, GoTo(r, q),
             UNCHANGED <<model, candidates, attempts, answered, status>>,
             pc[r] \in {"idle", "acquire", "parse", "evaluate", "open"}
      PROVE  FailoverInv'
  <2>1. SoundAt(q, m, c, a, w, s)
    BY <1>0, <1>1, SoundElsewhere
  <2>2. Becomes(r, q, c, a, w, s) /\ q \in Steps
    BY <1>0, <1>1 DEF Becomes, GoTo, Steps
  <2> QED
    BY <1>0, <2>1, <2>2, OneHandler DEF m
<1>2. ASSUME NEW t \in Int, Respond(r, t), UNCHANGED <<model, candidates, attempts, answered>>,
             (t = 502 /\ w = NoBackend) => c = <<>> /\ a # <<>>
      PROVE  FailoverInv'
  <2>1. SoundAt("returning", m, c, a, w, t)
    BY <1>0, <1>2, SoundElsewhere
  <2>2. Becomes(r, "returning", c, a, w, t) /\ "returning" \in Steps
    BY <1>0, <1>2 DEF Becomes, Respond, GoTo, Steps
  <2> QED
    BY <1>0, <2>1, <2>2, OneHandler DEF m
<1>3. ASSUME NEW q \in {"closing", "done"}, GoTo(r, q),
             UNCHANGED <<model, candidates, attempts, answered, status>>
      PROVE  FailoverInv'
  <2>1. SoundAt(q, m, c, a, w, s)
    BY <1>0, <1>3, SoundElsewhere
  <2>2. Becomes(r, q, c, a, w, s) /\ q \in Steps
    BY <1>0, <1>3 DEF Becomes, GoTo, Steps
  <2> QED
    BY <1>0, <2>1, <2>2, OneHandler DEF m
<1>4. CASE Arrive(r)
  BY <1>1, <1>4 DEF Arrive
<1>5. CASE TurnAway(r)
  BY <1>2, <1>5 DEF TurnAway
<1>6. CASE TryAcquire(r)
  BY <1>1, <1>2, <1>6 DEF TryAcquire
<1>7. CASE ParseRequest(r)
  BY <1>1, <1>2, <1>7 DEF ParseRequest
<1>8. ASSUME NEW x \in {"allow", "block", "failed"}, Evaluate(r, x) \/ OpenStream(r, x)
      PROVE  FailoverInv'
  <2>1. /\ pc[r] \in {"evaluate", "open"} /\ UNCHANGED <<model, candidates, attempts, answered>>
        /\ \/ Respond(r, 403)
           \/ Respond(r, 503)
           \/ GoTo(r, "open") /\ UNCHANGED status
           \/ GoTo(r, "route") /\ UNCHANGED status
    <3>1. CASE x = "block"
      BY <1>8, <3>1 DEF Evaluate, OpenStream
    <3>2. CASE x # "block" /\ x = "failed" /\ Closed(r)
      BY <1>8, <3>2 DEF Evaluate, OpenStream
    <3>3. CASE x # "block" /\ ~(x = "failed" /\ Closed(r))
      BY <1>8, <3>3 DEF Evaluate, OpenStream
    <3> QED
      BY <3>1, <3>2, <3>3
  <2> QED
    BY <1>1, <1>2, <2>1
<1>9. ASSUME NEW e \in SUBSET Backends, NEW sel \in Backends \cup {NoBackend}, Route(r, e, sel)
      PROVE  FailoverInv'
  <2> DEFINE S == Usable(healthy, m)
             all == Candidates(S, cursor)
             kept == {all[i] : i \in DOMAIN all} \cap e
             list == IF S = {} THEN <<>> ELSE Reorder(all, e, sel)
             set == IF S = {} THEN {} ELSE kept
  <2>1. /\ pc[r] = "route" /\ e \subseteq S /\ candidates' = [candidates EXCEPT ![r] = list]
        /\ list = <<>> => Respond(r, 503)
        /\ list # <<>> => GoTo(r, "try") /\ UNCHANGED status
        /\ UNCHANGED <<model, attempts, answered>>
    BY <1>9 DEF Route, m
  <2>2. a = <<>>
    BY <2>1 DEF Inv, AdmissionInv, PastPolicy, a
  <2>3. set \in SUBSET Backends /\ AllMatch(set, m) /\ SoundAt("route", m, c, a, w, s)
    BY <1>0, <2>1 DEF Usable, AllMatch
  <2>4. Lists(list, set)
    <3>1. CASE S = {}
      <4>1. Cardinality({}) = 0
        BY FS_EmptySet
      <4> QED
        BY <3>1, <4>1 DEF Lists
    <3>2. CASE S # {}
      <4>1. DOMAIN all \subseteq Nat \ {0}
        BY DEF Candidates, InOrder
      <4> HIDE DEF all
      <4> QED
        BY <3>2, <4>1, ReorderLists
    <3> QED
      BY <3>1, <3>2
  <2> HIDE DEF list, set
  <2>5. /\ list \in Seq(Backends)
        /\ list = <<>> => SoundAt("returning", m, list, a, w, 503)
        /\ list # <<>> => SoundAt("try", m, list, a, w, s)
    BY <1>0, <2>2, <2>3, <2>4, StartsSound
  <2>6. CASE list = <<>>
    <3>1. Becomes(r, "returning", list, a, w, 503)
      BY <1>0, <2>1, <2>6 DEF Becomes, Respond, GoTo
    <3>2. "returning" \in Steps /\ 503 \in Int
      BY DEF Steps
    <3> QED
      BY <1>0, <2>5, <2>6, <3>1, <3>2, OneHandler DEF m
  <2>7. CASE list # <<>>
    <3>1. Becomes(r, "try", list, a, w, s)
      BY <1>0, <2>1, <2>7 DEF Becomes, GoTo
    <3>2. "try" \in Steps
      BY DEF Steps
    <3> QED
      BY <1>0, <2>5, <2>7, <3>1, <3>2, OneHandler DEF m
  <2> QED
    BY <2>6, <2>7
<1>10. CASE Attempt(r)
  <2>1. /\ pc[r] = "try" /\ c # <<>> /\ GoTo(r, "waiting")
        /\ attempts' = [attempts EXCEPT ![r] = Append(a, Head(c))]
        /\ UNCHANGED <<model, candidates, answered, status>>
    BY <1>10 DEF Attempt, c, a
  <2>2. Append(a, Head(c)) \in Seq(Backends) /\ SoundAt("waiting", m, c, Append(a, Head(c)), w, s)
    BY <1>0, <2>1, AsksNext
  <2>3. Becomes(r, "waiting", c, Append(a, Head(c)), w, s)
    BY <1>0, <2>1 DEF Becomes, GoTo
  <2>4. "waiting" \in Steps
    BY DEF Steps
  <2> QED
    BY <1>0, <2>2, <2>3, <2>4, OneHandler DEF m
<1>11. CASE AttemptFails(r)
  <2>1. /\ pc[r] = "waiting" /\ GoTo(r, "try")
        /\ candidates' = [candidates EXCEPT ![r] = Tail(c)]
        /\ UNCHANGED <<model, attempts, answered, status>>
    BY <1>11 DEF AttemptFails, c
  <2>2. Tail(c) \in Seq(Backends) /\ SoundAt("try", m, Tail(c), a, w, s)
    BY <1>0, <2>1, DropsFailed
  <2>3. Becomes(r, "try", Tail(c), a, w, s)
    BY <1>0, <2>1 DEF Becomes, GoTo
  <2>4. "try" \in Steps
    BY DEF Steps
  <2> QED
    BY <1>0, <2>2, <2>3, <2>4, OneHandler DEF m
<1>12. CASE AllFailed(r)
  <2>1. pc[r] = "try" /\ c = <<>>
    BY <1>12 DEF AllFailed, c
  <2>2. a # <<>>
    BY <1>0, <2>1 DEF SoundAt
  <2> QED
    BY <1>2, <1>12, <2>1, <2>2 DEF AllFailed
<1>13. CASE AttemptAnswered(r)
  <2>1. /\ pc[r] = "waiting" /\ GoTo(r, "body")
        /\ answered' = [answered EXCEPT ![r] = Head(c)]
        /\ UNCHANGED <<model, candidates, attempts, status>>
    BY <1>13 DEF AttemptAnswered, c
  <2>2. Head(c) \in Backends /\ SoundAt("body", m, c, a, Head(c), s)
    BY <1>0, <2>1, TakesAnswer
  <2>3. Becomes(r, "body", c, a, Head(c), s)
    BY <1>0, <2>1 DEF Becomes, GoTo
  <2>4. "body" \in Steps
    BY DEF Steps
  <2> QED
    BY <1>0, <2>2, <2>3, <2>4, OneHandler DEF m
<1>14. ASSUME NEW t \in {200, 403, 502, 503}, Forward(r, t)
       PROVE  FailoverInv'
  <2>1. pc[r] = "body"
    BY <1>14 DEF Forward
  <2>2. w # NoBackend
    BY <1>0, <2>1 DEF SoundAt
  <2> QED
    BY <1>2, <1>14, <2>2 DEF Forward
<1>15. CASE Release(r)
  BY <1>3, <1>15 DEF Release
<1>16. CASE Observe(r)
  BY <1>3, <1>16 DEF Observe
<1>17. CASE Expire(r)
  <2>1. UNCHANGED <<pc, model, candidates, attempts, answered, status>>
    BY <1>17 DEF Expire
  <2> QED
    BY <2>1 DEF FailoverInv, FailoverTypes, HandlerSound
<1> QED
  BY <1>4, <1>5, <1>6, <1>7, <1>8, <1>9, <1>10, <1>11, <1>12, <1>13, <1>14, <1>15, <1>16, <1>17
     DEF Handle

LEMMA FailoverUntouched ==
    ASSUME FailoverInv, Check \/ UNCHANGED vars
    PROVE  FailoverInv'
<1>1. UNCHANGED <<pc, model, candidates, attempts, answered, status>>
  BY DEF Check, StartCheck, Probe, ProbeApplied, vars, handler
<1> QED
  BY <1>1 DEF FailoverInv, FailoverTypes, HandlerSound

\* What is left to try was not tried, an answer is that of the last backend asked, and no
\* status is written before the response (forward's loop).
THEOREM FailoverHolds == Spec => []FailoverInv
<1>1. Init => FailoverInv
  <2> SUFFICES ASSUME Init PROVE FailoverInv
    OBVIOUS
  <2>1. <<>> \in Seq(Backends) /\ DOMAIN <<>> = {}
    OBVIOUS
  <2>2. FailoverTypes
    BY <2>1 DEF Init, FailoverTypes, Steps
  <2>3. ASSUME NEW r \in Requests PROVE HandlerSound(r)
    <3>1. pc[r] = "idle" /\ candidates[r] = <<>> /\ attempts[r] = <<>>
          /\ answered[r] = NoBackend /\ status[r] = 0
      BY DEF Init
    <3> QED
      BY <2>1, <3>1 DEF HandlerSound, SoundAt
  <2> QED
    BY <2>2, <2>3 DEF FailoverInv
<1>2. Inv /\ FailoverInv /\ [Next]_vars => FailoverInv'
  BY FailoverStep, FailoverUntouched DEF Next
<1> QED
  BY <1>1, <1>2, AdmissionHolds, PTL DEF Spec

\* No backend is asked twice or for a model it does not serve, the response forwarded is
\* that of the last one asked, and 502 without a response means that all were asked, for
\* any number of backends, weights and concurrent health changes (forward).
THEOREM FailoverAlwaysSound == Spec => []FailoverSound
<1>1. FailoverInv => FailoverSound
  BY SoundHandlers DEF FailoverInv
<1> QED
  BY <1>1, FailoverHolds, PTL

\* Once a backend has answered no other one is asked (forward returns from its loop).
THEOREM AnswerIsFinal == Spec => NoRetryAfterAnswer
<1> DEFINE Kept(r) == answered[r] # NoBackend =>
                        attempts'[r] = attempts[r] /\ answered'[r] = answered[r]
<1>1. ASSUME FailoverInv, NEW q \in Requests,
             Arrive(q) \/ TurnAway(q) \/ Handle(q) \/ Expire(q), NEW r \in Requests
      PROVE  Kept(r)
  <2>1. /\ attempts \in [Requests -> Seq(Backends)]
        /\ answered \in [Requests -> Backends \cup {NoBackend}]
        /\ answered[r] # NoBackend => pc[r] \in {"body", "returning", "closing", "done"}
    BY <1>1 DEF FailoverInv, FailoverTypes, HandlerSound, SoundAt
  <2>2. CASE Attempt(q)
    <3>1. pc[q] = "try" /\ attempts' = [attempts EXCEPT ![q] = Append(@, Head(candidates[q]))]
          /\ answered' = answered
      BY <2>2 DEF Attempt
    <3> QED
      BY <2>1, <3>1
  <2>3. CASE AttemptAnswered(q)
    <3>1. pc[q] = "waiting" /\ answered' = [answered EXCEPT ![q] = Head(candidates[q])]
          /\ attempts' = attempts
      BY <2>3 DEF AttemptAnswered
    <3> QED
      BY <2>1, <3>1
  <2>4. CASE ~Attempt(q) /\ ~AttemptAnswered(q)
    <3>1. UNCHANGED <<attempts, answered>>
      BY <1>1, <2>4 DEF Arrive, TurnAway, Handle, Expire, TryAcquire, ParseRequest, Evaluate,
            OpenStream, Route, AttemptFails, AllFailed, Forward, Release, Observe
    <3> QED
      BY <3>1
  <2> QED
    BY <2>2, <2>3, <2>4
<1>2. ASSUME FailoverInv, Check \/ UNCHANGED vars, NEW r \in Requests
      PROVE  Kept(r)
  BY <1>2 DEF Check, StartCheck, Probe, ProbeApplied, vars, handler
<1>3. FailoverInv /\ [Next]_vars => [\A r \in Requests : Kept(r)]_vars
  BY <1>1, <1>2 DEF Next
<1> QED
  BY <1>3, FailoverHolds, PTL DEF Spec, NoRetryAfterAnswer

(***************************************************************************)
(* The weighted round robin.                                               *)
(***************************************************************************)

TicketsOf(b) == {<<b, k>> : k \in 1..Weight[b]}

\* A backend has as many tickets as its weight.
LEMMA OneBackend ==
    ASSUME NEW b \in Backends
    PROVE  IsFiniteSet(TicketsOf(b)) /\ Cardinality(TicketsOf(b)) = Weight[b]
<1> DEFINE f == [k \in 1..Weight[b] |-> <<b, k>>]
<1>1. Weight[b] \in Nat \ {0}
  BY RegistryAssumption
<1>2. f \in [1..Weight[b] -> TicketsOf(b)]
  BY DEF TicketsOf
<1>3. \A i, j \in 1..Weight[b] : f[i] = f[j] => i = j
  OBVIOUS
<1>4. \A t \in TicketsOf(b) : \E k \in 1..Weight[b] : f[k] = t
  BY DEF TicketsOf
<1> HIDE DEF f
<1>5. ExistsBijection(1..Weight[b], TicketsOf(b))
  BY <1>2, <1>3, <1>4 DEF ExistsBijection, Bijection, Injection, Surjection, IsInjective
<1>6. IsFiniteSet(1..Weight[b]) /\ Cardinality(1..Weight[b]) = Weight[b]
  BY <1>1, FS_Interval
<1> QED
  BY <1>5, <1>6, FS_Bijection

LEMMA TicketsFinite ==
    ASSUME NEW S \in SUBSET Backends
    PROVE  IsFiniteSet(Tickets(S)) /\ Cardinality(Tickets(S)) \in Nat
<1> DEFINE F == {TicketsOf(b) : b \in S}
           f == [b \in S |-> TicketsOf(b)]
<1>1. IsFiniteSet(S)
  BY BackendsFinite
<1>2. f \in Surjection(S, F)
  BY DEF Surjection
<1>3. IsFiniteSet(F)
  <2> HIDE DEF f, F
  <2> QED
    BY <1>1, <1>2, FS_Surjection
<1>4. \A T \in F : IsFiniteSet(T)
  BY OneBackend
<1>5. Tickets(S) = UNION F
  BY DEF Tickets, TicketsOf
<1>6. IsFiniteSet(UNION F)
  <2> HIDE DEF F
  <2> QED
    BY <1>3, <1>4, FS_UNION
<1> QED
  BY <1>5, <1>6, FS_CardinalityType

\* The tickets of b follow those of the backends in front of it and precede those of the
\* backends behind it.
LEMMA OffsetsApart ==
    ASSUME NEW S \in SUBSET Backends, NEW b \in S, NEW T \in SUBSET S, b \in T,
           \A c \in S : Place(c) < Place(b) => c \in T
    PROVE  Offset(S, b) + Weight[b] <= Cardinality(Tickets(T))
<1> DEFINE P == {c \in S : Place(c) < Place(b)}
<1>1. IsFiniteSet(Tickets(P)) /\ IsFiniteSet(Tickets(T)) /\ IsFiniteSet(TicketsOf(b))
      /\ Cardinality(TicketsOf(b)) = Weight[b] /\ Cardinality(Tickets(P)) \in Nat
      /\ Cardinality(Tickets(T)) \in Nat /\ Weight[b] \in Nat
  <2>1. P \in SUBSET Backends /\ T \in SUBSET Backends
    OBVIOUS
  <2> HIDE DEF P
  <2> QED
    BY <2>1, TicketsFinite, OneBackend, RegistryAssumption
<1>2. Tickets(P) \cap TicketsOf(b) = {}
  <2>1. b \notin P
    BY PlaceIs
  <2> HIDE DEF P
  <2> QED
    BY <2>1 DEF Tickets, TicketsOf
<1>3. (Tickets(P) \cup TicketsOf(b)) \in SUBSET Tickets(T)
  BY DEF Tickets, TicketsOf
<1>4. Offset(S, b) = Cardinality(Tickets(P))
  BY DEF Offset
<1> HIDE DEF P
<1>5. Cardinality(Tickets(P) \cup TicketsOf(b)) = Cardinality(Tickets(P)) + Weight[b]
  <2>1. Cardinality(Tickets(P) \cap TicketsOf(b)) = 0
    BY <1>2, FS_EmptySet
  <2>2. Cardinality(Tickets(P) \cup TicketsOf(b)) =
          Cardinality(Tickets(P)) + Cardinality(TicketsOf(b)) - Cardinality(Tickets(P) \cap TicketsOf(b))
    BY <1>1, FS_Union
  <2> QED
    BY <1>1, <2>1, <2>2
<1>6. Cardinality(Tickets(P) \cup TicketsOf(b)) <= Cardinality(Tickets(T))
  BY <1>1, <1>3, FS_Subset
<1> QED
  BY <1>4, <1>5, <1>6

LEMMA OffsetTyped ==
    ASSUME NEW S \in SUBSET Backends, NEW b \in S
    PROVE  /\ Offset(S, b) \in Nat /\ Weight[b] \in Nat \ {0} /\ Total(S) \in Nat
           /\ Offset(S, b) + Weight[b] <= Total(S)
<1>1. Offset(S, b) \in Nat /\ Total(S) \in Nat /\ Weight[b] \in Nat \ {0}
  BY TicketsFinite, RegistryAssumption DEF Offset, Total
<1>2. Offset(S, b) + Weight[b] <= Total(S)
  BY OffsetsApart DEF Total
<1> QED
  BY <1>1, <1>2

\* No two backends share a ticket's place.
LEMMA Apart ==
    ASSUME NEW S \in SUBSET Backends, NEW b \in S, NEW c \in S, b # c
    PROVE  \/ Offset(S, b) + Weight[b] <= Offset(S, c)
           \/ Offset(S, c) + Weight[c] <= Offset(S, b)
<1>1. Place(b) \in Nat /\ Place(c) \in Nat /\ Place(b) # Place(c)
  BY PlaceIs
<1>2. ASSUME NEW x \in S, NEW y \in S, Place(x) < Place(y)
      PROVE  Offset(S, x) + Weight[x] <= Offset(S, y)
  <2> DEFINE T == {d \in S : Place(d) < Place(y)}
  <2>1. Place(x) \in Nat /\ Place(y) \in Nat /\ \A d \in S : Place(d) \in Nat
    BY PlaceIs
  <2>2. T \in SUBSET S /\ x \in T /\ \A d \in S : Place(d) < Place(x) => d \in T
    BY <1>2, <2>1
  <2>3. Offset(S, y) = Cardinality(Tickets(T))
    BY DEF Offset
  <2> HIDE DEF T
  <2> QED
    BY <2>2, <2>3, OffsetsApart
<1> QED
  BY <1>1, <1>2

\* Differences of places within the list, modulo its length.
LEMMA Around ==
    ASSUME NEW T \in Nat \ {0}, NEW o \in 0..(T - 1), NEW s \in 0..(T - 1)
    PROVE  (o - s) % T = IF o >= s THEN o - s ELSE o - s + T
<1>1. CASE o >= s
  <2>1. o - s \in 0..(T - 1)
    BY <1>1
  <2> QED
    BY <1>1, <2>1, SMT
<1>2. CASE o < s
  <2>1. o - s + T \in 0..(T - 1)
    BY <1>2
  <2> QED
    BY <1>2, <2>1, SMT
<1> QED
  BY <1>1, <1>2

LEMMA DistanceInjective ==
    ASSUME NEW S \in SUBSET Backends, NEW start \in 0..(Total(S) - 1),
           NEW b \in S, NEW c \in S, Distance(S, b, start) = Distance(S, c, start)
    PROVE  b = c
<1> SUFFICES ASSUME b # c PROVE FALSE
  OBVIOUS
<1> DEFINE T == Total(S)
           ob == Offset(S, b)
           oc == Offset(S, c)
           wb == Weight[b]
           wc == Weight[c]
<1>1. /\ ob \in Nat /\ oc \in Nat /\ wb \in Nat \ {0} /\ wc \in Nat \ {0} /\ T \in Nat
      /\ ob + wb <= T /\ oc + wc <= T
  BY OffsetTyped
<1>2. ob + wb <= oc \/ oc + wc <= ob
  BY Apart
<1>3. T \in Nat \ {0} /\ ob \in 0..(T - 1) /\ oc \in 0..(T - 1) /\ start \in 0..(T - 1)
  BY <1>1
<1>4. (ob - start) % T = (IF ob >= start THEN ob - start ELSE ob - start + T)
      /\ (oc - start) % T = (IF oc >= start THEN oc - start ELSE oc - start + T)
  <2> HIDE DEF T, ob, oc
  <2> QED
    BY <1>3, Around
<1>5. /\ Distance(S, b, start) = IF start \in ob..(ob + wb - 1) THEN 0 ELSE (ob - start) % T
      /\ Distance(S, c, start) = IF start \in oc..(oc + wc - 1) THEN 0 ELSE (oc - start) % T
  BY DEF Distance
<1> HIDE DEF T, ob, oc, wb, wc
<1>6. start \in Int /\ 0 <= start /\ start < T
  BY <1>3
<1>7. start \in ob..(ob + wb - 1) <=> (ob <= start /\ start < ob + wb)
  BY <1>1, <1>6
<1>8. start \in oc..(oc + wc - 1) <=> (oc <= start /\ start < oc + wc)
  BY <1>1, <1>6
<1> DEFINE db == (ob - start) % T
           dc == (oc - start) % T
<1>9. /\ db = (IF ob >= start THEN ob - start ELSE ob - start + T)
      /\ dc = (IF oc >= start THEN oc - start ELSE oc - start + T)
  BY <1>4
<1>10. (IF ob <= start /\ start < ob + wb THEN 0 ELSE db)
       = (IF oc <= start /\ start < oc + wc THEN 0 ELSE dc)
  BY <1>5, <1>7, <1>8
<1> HIDE DEF db, dc
<1>11. db \in Int /\ dc \in Int
  BY <1>1, <1>6, <1>9
<1> QED
  BY <1>1, <1>2, <1>6, <1>9, <1>10, <1>11

LEMMA DistanceTyped ==
    ASSUME NEW S \in SUBSET Backends, NEW start \in 0..(Total(S) - 1), NEW b \in S
    PROVE  Distance(S, b, start) \in Int
<1>1. Offset(S, b) \in Nat /\ Total(S) \in Nat \ {0}
  BY OffsetTyped
<1>2. (Offset(S, b) - start) % Total(S) \in Int
  BY <1>1
<1> QED
  BY <1>2 DEF Distance

\* The weighted round robin offers every usable backend exactly once, whatever the weights,
\* the cursor and the health of the others: none is lost to failover, and none is asked
\* twice (Registry.Candidates).
THEOREM EveryUsableOnce ==
    ASSUME NEW S \in SUBSET Backends, S # {}, NEW cur \in Nat
    PROVE  Lists(Candidates(S, cur), S)
<1> DEFINE start == cur % Total(S)
           key == [b \in S |-> Distance(S, b, start)]
<1>1. Total(S) \in Nat \ {0}
  <2>1. PICK b \in S : TRUE
    OBVIOUS
  <2> QED
    BY <2>1, OffsetTyped
<1>2. start \in 0..(Total(S) - 1)
  BY <1>1
<1> HIDE DEF start
<1>3. key \in [S -> Int]
  BY <1>2, DistanceTyped
<1>4. Injective(key, S)
  BY <1>2, DistanceInjective DEF Injective
<1>5. IsFiniteSet(S)
  BY BackendsFinite
<1>6. Candidates(S, cur) = InOrder(S, key)
  BY DEF Candidates, start
<1> HIDE DEF key
<1> QED
  BY <1>3, <1>4, <1>5, <1>6, InOrderLists

------------------------------------------------------------------------------
(* The weighted round robin: whose turn a value of the cursor is.           *)

\* The first and the last of some backends in the order of their IDs.
LEMMA Outermost ==
    ASSUME NEW S \in SUBSET Backends, S # {}
    PROVE  /\ \E b \in S : \A c \in S : Place(b) <= Place(c)
           /\ \E b \in S : \A c \in S : Place(c) <= Place(b)
<1> DEFINE less == {ss \in Nat \X Nat : ss[1] < ss[2]}
<1>1. IsWellFoundedOn(less, Nat)
  BY NatLessThanWellFounded DEF OpToRel
<1>2. \A m, k \in Nat : ~(<<m, k>> \in less) => k <= m
  OBVIOUS
<1> HIDE DEF less
<1>3. ASSUME NEW N, N \subseteq Nat, N # {} PROVE \E n \in N : \A m \in N : n <= m
  BY <1>1, <1>2, <1>3, WFMin
<1> DEFINE n == Len(IDs)
           places == {Place(b) : b \in S}
           rests  == {n - Place(b) : b \in S}
<1>4. n \in Nat /\ \A b \in S : Place(b) \in 1..n
  BY RegistryAssumption, PlaceIs
<1> HIDE DEF n
<1>5. \A b \in S : Place(b) \in Nat /\ n - Place(b) \in Nat
  BY <1>4
<1>6. places \subseteq Nat /\ places # {} /\ rests \subseteq Nat /\ rests # {}
  BY <1>5
<1>7. PICK b \in S : \A m \in places : Place(b) <= m
  <2>1. PICK p \in places : \A m \in places : p <= m
    <3> HIDE DEF places
    <3> QED
      BY <1>3, <1>6
  <2> QED
    BY <2>1
<1>8. PICK d \in S : \A m \in rests : n - Place(d) <= m
  <2>1. PICK p \in rests : \A m \in rests : p <= m
    <3> HIDE DEF rests
    <3> QED
      BY <1>3, <1>6
  <2> QED
    BY <2>1
<1>9. \A c \in S : Place(b) <= Place(c)
  BY <1>7
<1>10. \A c \in S : n - Place(d) <= n - Place(c)
  BY <1>8
<1>11. \A c \in S : Place(c) <= Place(d)
  BY <1>4, <1>5, <1>10
<1> QED
  BY <1>9, <1>11

\* The list up to and with the copies of b.
LEMMA UpTo ==
    ASSUME NEW S \in SUBSET Backends, NEW b \in S
    PROVE  Cardinality(Tickets({c \in S : Place(c) <= Place(b)})) = Offset(S, b) + Weight[b]
<1> DEFINE P == {c \in S : Place(c) < Place(b)}
           T == {c \in S : Place(c) <= Place(b)}
<1>1. /\ IsFiniteSet(Tickets(P)) /\ Cardinality(Tickets(P)) \in Nat /\ IsFiniteSet(TicketsOf(b))
      /\ Cardinality(TicketsOf(b)) = Weight[b] /\ Weight[b] \in Nat
  <2>1. P \in SUBSET Backends
    OBVIOUS
  <2> HIDE DEF P
  <2> QED
    BY <2>1, TicketsFinite, OneBackend, RegistryAssumption
<1>2. Offset(S, b) = Cardinality(Tickets(P))
  BY DEF Offset
<1>3. T = P \cup {b} /\ b \notin P
  <2>1. \A c \in S : Place(c) \in Nat /\ (Place(c) = Place(b) => c = b)
    BY PlaceIs
  <2> QED
    BY <2>1
<1> HIDE DEF P, T
<1>4. Tickets(T) = Tickets(P) \cup TicketsOf(b)
  BY <1>3 DEF Tickets, TicketsOf
<1>5. Tickets(P) \cap TicketsOf(b) = {}
  BY <1>3 DEF Tickets, TicketsOf
<1>6. Cardinality(Tickets(P) \cup TicketsOf(b)) = Cardinality(Tickets(P)) + Weight[b]
  <2>1. Cardinality(Tickets(P) \cap TicketsOf(b)) = 0
    BY <1>5, FS_EmptySet
  <2>2. Cardinality(Tickets(P) \cup TicketsOf(b)) =
          Cardinality(Tickets(P)) + Cardinality(TicketsOf(b)) - Cardinality(Tickets(P) \cap TicketsOf(b))
    BY <1>1, FS_Union
  <2> QED
    BY <1>1, <2>1, <2>2
<1>7. Cardinality(Tickets(T)) = Offset(S, b) + Weight[b]
  BY <1>2, <1>4, <1>6
<1> QED
  BY <1>7 DEF T

\* The places of the list that b's copies have.
Copies(S, b) == Offset(S, b) .. (Offset(S, b) + Weight[b] - 1)

\* Every place of the list is that of a copy.
LEMMA Covered ==
    ASSUME NEW S \in SUBSET Backends, NEW start \in 0..(Total(S) - 1)
    PROVE  \E b \in S : start \in Copies(S, b)
<1> DEFINE End(b) == Offset(S, b) + Weight[b]
           Q == {b \in S : start < End(b)}
<1>1. Total(S) \in Nat /\ Cardinality(Tickets({})) = 0
  <2>1. {} \in SUBSET Backends /\ Tickets({}) = {}
    BY DEF Tickets
  <2> QED
    BY <2>1, TicketsFinite, FS_EmptySet DEF Total
<1>2. start \in Nat /\ start < Total(S)
  BY <1>1
<1>3. \A b \in S : Offset(S, b) \in Nat /\ Weight[b] \in Nat \ {0} /\ Place(b) \in Nat
  BY OffsetTyped, PlaceIs
<1>4. ASSUME NEW P \in SUBSET S, P # {}, \A c \in P, d \in S : Place(d) <= Place(c) => d \in P
      PROVE  \E b \in P : End(b) = Cardinality(Tickets(P))
  <2>1. PICK b \in P : \A c \in P : Place(c) <= Place(b)
    BY <1>4, Outermost
  <2>2. P = {c \in S : Place(c) <= Place(b)}
    BY <1>4, <2>1
  <2> QED
    BY <2>1, <2>2, UpTo
<1>5. S # {}
  <2>1. Total(S) # 0
    BY <1>1, <1>2
  <2> QED
    BY <1>1, <2>1 DEF Total
<1>6. Q # {}
  <2>1. PICK b \in S : End(b) = Cardinality(Tickets(S))
    BY <1>4, <1>5
  <2> QED
    BY <1>2, <2>1 DEF Total
<1>7. PICK b \in Q : \A c \in Q : Place(b) <= Place(c)
  <2>1. Q \in SUBSET Backends
    OBVIOUS
  <2> HIDE DEF Q
  <2> QED
    BY <1>6, <2>1, Outermost
<1>8. Offset(S, b) <= start
  <2> SUFFICES ASSUME ~(Offset(S, b) <= start) PROVE FALSE
    OBVIOUS
  <2> DEFINE P == {c \in S : Place(c) < Place(b)}
  <2>1. Offset(S, b) = Cardinality(Tickets(P))
    BY DEF Offset
  <2>2. P # {}
    BY <1>1, <1>2, <2>1
  <2>3. PICK c \in P : End(c) = Cardinality(Tickets(P))
    <3>1. P \in SUBSET S /\ \A c \in P, d \in S : Place(d) <= Place(c) => d \in P
      BY <1>3
    <3> HIDE DEF P
    <3> QED
      BY <1>4, <2>2, <3>1
  <2>4. c \in Q
    BY <1>2, <1>3, <2>1, <2>3
  <2>5. Place(c) < Place(b) /\ Place(b) <= Place(c)
    BY <1>7, <2>4
  <2> QED
    BY <1>3, <2>5
<1>9. start \in Copies(S, b)
  BY <1>2, <1>3, <1>7, <1>8 DEF Copies
<1> QED
  BY <1>7, <1>9

\* The one with the smallest key stands first.
LEMMA InOrderFirst ==
    ASSUME NEW S, IsFiniteSet(S), NEW key \in [S -> Int], NEW b \in S,
           \A c \in S \ {b} : key[b] < key[c]
    PROVE  InOrder(S, key)[1] = b
<1> DEFINE Before(d) == {c \in S : key[c] < key[d]}
<1>1. 1 \in 1..Cardinality(S)
  <2>1. Cardinality(S) \in Nat /\ Cardinality(S) # 0
    BY FS_CardinalityType, FS_EmptySet
  <2> QED
    BY <2>1
<1>2. InOrder(S, key)[1] = CHOOSE d \in S : Cardinality(Before(d)) = 1 - 1
  BY <1>1 DEF InOrder
<1>3. \A c \in S : key[c] \in Int
  OBVIOUS
<1>4. Before(b) = {}
  BY <1>3
<1>5. \A d \in S : d # b => b \in Before(d)
  OBVIOUS
<1>6. \A d \in S : IsFiniteSet(Before(d))
  BY FS_Subset
<1> HIDE DEF Before
<1>7. \A d \in S : Cardinality(Before(d)) = 0 <=> d = b
  BY <1>4, <1>5, <1>6, FS_EmptySet
<1> QED
  BY <1>2, <1>7

\* The backend first asked is the one whose copies the walk starts in.
LEMMA FirstAsked ==
    ASSUME NEW S \in SUBSET Backends, NEW cur \in Nat, NEW b \in S
    PROVE  Candidates(S, cur)[1] = b <=> (cur % Total(S)) \in Copies(S, b)
<1> DEFINE start == cur % Total(S)
           key == [c \in S |-> Distance(S, c, start)]
<1>1. Total(S) \in Nat \ {0}
  BY OffsetTyped
<1>2. start \in 0..(Total(S) - 1)
  BY <1>1
<1>3. Candidates(S, cur) = InOrder(S, key)
  BY DEF Candidates
<1> HIDE DEF start
<1>4. ASSUME NEW d \in S, start \in Copies(S, d) PROVE Candidates(S, cur)[1] = d
  <2>1. Distance(S, d, start) = 0
    BY <1>4 DEF Distance, Copies
  <2>2. ASSUME NEW c \in S \ {d} PROVE key[d] < key[c]
    <3>1. Distance(S, c, start) # 0
      BY <1>2, <2>1, DistanceInjective
    <3>2. (Offset(S, c) - start) % Total(S) \in Nat
      BY <1>1, <1>2, OffsetTyped
    <3>3. Distance(S, c, start) = (Offset(S, c) - start) % Total(S)
      BY <3>1 DEF Distance
    <3>4. Distance(S, c, start) > 0
      BY <3>1, <3>2, <3>3
    <3> QED
      BY <2>1, <3>4
  <2>3. key \in [S -> Int] /\ IsFiniteSet(S)
    BY <1>2, DistanceTyped, BackendsFinite
  <2> HIDE DEF key
  <2> QED
    BY <1>3, <2>2, <2>3, InOrderFirst
<1>5. PICK d \in S : start \in Copies(S, d)
  BY <1>2, Covered
<1> QED
  BY <1>4, <1>5 DEF start

\* A remainder is determined by any division with one.
LEMMA Remainder ==
    ASSUME NEW T \in Nat \ {0}, NEW a \in Nat, NEW q \in Int, NEW r \in 0..(T - 1), a = T * q + r
    PROVE  a % T = r
<1> DEFINE p == a \div T
           s == a % T
<1>1. p \in Int /\ s \in 0..(T - 1) /\ a = T * p + s
  OBVIOUS
<1> HIDE DEF p, s
<1>2. T * (p - q) = T * p - T * q
  BY <1>1
<1> DEFINE d == p - q
           u == T * d
<1>3. d \in Int /\ u \in Int /\ u = r - s
  BY <1>1, <1>2
<1>4. -T < u /\ u < T
  BY <1>1, <1>3
<1>5. d = 0
  <2>1. d >= 1 => u >= T
    BY <1>3
  <2>2. d <= -1 => u <= -T
    BY <1>3
  <2> HIDE DEF d, u
  <2> QED
    BY <1>3, <1>4, <2>1, <2>2
<1>6. s = r
  <2>1. u = 0
    BY <1>5
  <2> HIDE DEF d, u
  <2> QED
    BY <1>1, <1>3, <2>1
<1> QED
  BY <1>6 DEF s

\* Where the walk starts some calls later.
LEMMA Later ==
    ASSUME NEW T \in Nat \ {0}, NEW cur \in Nat, NEW k \in 0..(T - 1)
    PROVE  LET s == cur % T
           IN  /\ s \in 0..(T - 1)
               /\ (cur + k) % T = IF s + k < T THEN s + k ELSE s + k - T
<1> DEFINE q == cur \div T
           s == cur % T
<1>1. q \in Int /\ s \in 0..(T - 1) /\ cur = T * q + s
  OBVIOUS
<1> HIDE DEF q, s
<1>2. T * (q + 1) = T * q + T
  BY <1>1
<1>3. cur + k \in Nat
  OBVIOUS
<1>4. CASE s + k < T
  <2>1. cur + k = T * q + (s + k) /\ s + k \in 0..(T - 1)
    BY <1>1, <1>4
  <2> QED
    BY <1>1, <1>3, <1>4, <2>1, Remainder DEF s
<1>5. CASE ~(s + k < T)
  <2>1. cur + k = T * (q + 1) + (s + k - T) /\ s + k - T \in 0..(T - 1) /\ q + 1 \in Int
    BY <1>1, <1>2, <1>5
  <2>2. (cur + k) % T = s + k - T
    BY <1>3, <2>1, Remainder
  <2> QED
    BY <1>1, <1>5, <2>2 DEF s
<1> QED
  BY <1>4, <1>5

\* In a full turn from any cursor the walk starts at every place of the list once.
LEMMA FullTurn ==
    ASSUME NEW T \in Nat \ {0}, NEW cur \in Nat, NEW o \in Nat, NEW w \in Nat, o + w <= T
    PROVE  Cardinality({k \in 0..(T - 1) : (cur + k) % T \in o..(o + w - 1)}) = w
<1> DEFINE s == cur % T
           A == o..(o + w - 1)
           K == {k \in 0..(T - 1) : (cur + k) % T \in A}
           At(j) == IF j >= s THEN j - s ELSE j - s + T
           f == [j \in A |-> At(j)]
<1>1. s \in 0..(T - 1)
  OBVIOUS
<1>2. \A k \in 0..(T - 1) : (cur + k) % T = IF s + k < T THEN s + k ELSE s + k - T
  BY Later
<1> HIDE DEF s
<1>3. \A j \in A : j \in 0..(T - 1)
  OBVIOUS
<1>4. ASSUME NEW j \in A PROVE At(j) \in 0..(T - 1) /\ (cur + At(j)) % T = j
  <2>1. At(j) \in 0..(T - 1)
    BY <1>1, <1>3
  <2>2. (IF s + At(j) < T THEN s + At(j) ELSE s + At(j) - T) = j
    BY <1>1, <1>3
  <2> HIDE DEF At
  <2> QED
    BY <1>2, <2>1, <2>2
<1>5. f \in [A -> K]
  <2> HIDE DEF At
  <2>1. \A j \in A : At(j) \in K
    BY <1>4
  <2> QED
    BY <2>1
<1>6. \A i, j \in A : f[i] = f[j] => i = j
  <2>1. \A j \in A : (cur + f[j]) % T = j
    <3> HIDE DEF At
    <3> QED
      BY <1>4
  <2> HIDE DEF f
  <2> QED
    BY <2>1
<1>7. ASSUME NEW k \in K PROVE \E j \in A : f[j] = k
  <2> DEFINE j == (cur + k) % T
  <2>1. k \in 0..(T - 1) /\ j \in A /\ j = IF s + k < T THEN s + k ELSE s + k - T
    BY <1>2
  <2> HIDE DEF j
  <2>2. At(j) = k
    BY <1>1, <2>1
  <2> QED
    BY <2>1, <2>2
<1> HIDE DEF f, K
<1>8. ExistsBijection(A, K)
  BY <1>5, <1>6, <1>7 DEF ExistsBijection, Bijection, Injection, Surjection, IsInjective
<1>9. IsFiniteSet(A) /\ Cardinality(A) = w
  <2>1. o \in Int /\ o + w - 1 \in Int
    OBVIOUS
  <2>2. /\ IsFiniteSet(A)
        /\ Cardinality(A) = IF o > o + w - 1 THEN 0 ELSE (o + w - 1) - o + 1
    BY <2>1, FS_Interval
  <2> QED
    BY <2>2
<1>10. Cardinality(K) = w
  <2> HIDE DEF A
  <2> QED
    BY <1>8, <1>9, FS_Bijection
<1> QED
  BY <1>10 DEF K

LEMMA TurnIsFair ==
    ASSUME NEW S \in SUBSET Backends, NEW cur \in Nat, NEW b \in S
    PROVE  Cardinality({k \in 0..(Total(S) - 1) : Candidates(S, cur + k)[1] = b}) = Weight[b]
<1> DEFINE T == Total(S)
           o == Offset(S, b)
           w == Weight[b]
<1>1. T \in Nat \ {0} /\ o \in Nat /\ w \in Nat /\ o + w <= T
  BY OffsetTyped
<1>2. \A k \in 0..(T - 1) : Candidates(S, cur + k)[1] = b <=> (cur + k) % T \in o..(o + w - 1)
  <2>1. \A k \in 0..(T - 1) : cur + k \in Nat
    BY <1>1
  <2> QED
    BY <2>1, FirstAsked DEF Copies
<1>3. {k \in 0..(T - 1) : Candidates(S, cur + k)[1] = b}
        = {k \in 0..(T - 1) : (cur + k) % T \in o..(o + w - 1)}
  BY <1>2
<1> HIDE DEF T, o, w
<1>4. Cardinality({k \in 0..(T - 1) : (cur + k) % T \in o..(o + w - 1)}) = w
  BY <1>1, FullTurn
<1> QED
  BY <1>3, <1>4 DEF T, w

CursorTyped == cursor \in Nat

\* Only Route moves the cursor, and only on.
LEMMA CursorStep ==
    ASSUME CursorTyped, [Next]_vars
    PROVE  CursorTyped'
<1>1. ASSUME NEW r, NEW e, NEW s, Route(r, e, s) PROVE cursor' \in Nat
  <2>1. cursor' = cursor \/ cursor' = cursor + 1
    BY <1>1 DEF Route, Advance
  <2> QED
    BY <2>1 DEF CursorTyped
<1>2. ASSUME NEW r, Arrive(r) \/ TurnAway(r) \/ Expire(r) PROVE cursor' = cursor
  BY <1>2 DEF Arrive, TurnAway, Expire
<1>3. ASSUME NEW r, Handle(r) PROVE cursor' \in Nat
  <2>1. CASE TryAcquire(r) \/ ParseRequest(r)
    BY <2>1 DEF TryAcquire, ParseRequest, CursorTyped
  <2>2. ASSUME NEW a, Evaluate(r, a) \/ OpenStream(r, a) PROVE cursor' = cursor
    BY <2>2 DEF Evaluate, OpenStream
  <2>3. CASE Attempt(r) \/ AttemptFails(r) \/ AllFailed(r) \/ AttemptAnswered(r)
    BY <2>3 DEF Attempt, AttemptFails, AllFailed, AttemptAnswered, CursorTyped
  <2>4. ASSUME NEW s, Forward(r, s) PROVE cursor' = cursor
    BY <2>4 DEF Forward
  <2>5. CASE Release(r) \/ Observe(r)
    BY <2>5 DEF Release, Observe, CursorTyped
  <2> QED
    BY <1>1, <1>3, <2>1, <2>2, <2>3, <2>4, <2>5 DEF Handle, CursorTyped
<1>4. Check \/ UNCHANGED vars => cursor' = cursor
  BY DEF Check, StartCheck, Probe, ProbeApplied, vars
<1> QED
  BY <1>2, <1>3, <1>4 DEF Next, CursorTyped

LEMMA CursorAlwaysTyped == Spec => []CursorTyped
<1>1. Init => CursorTyped
  BY DEF Init, RegistryInit, CursorTyped
<1> QED
  BY <1>1, CursorStep, PTL DEF Spec

\* The round robin keeps the weights: for any backends, weights, health and models, and
\* wherever the other calls have left the cursor, a full turn of the cursor puts each usable
\* backend first as often as its weight says (registry.go Candidates).
THEOREM ShareAlwaysFair == Spec => []FairShare
<1>1. CursorTyped => FairShare
  <2>1. ASSUME NEW m \in Models PROVE Usable(healthy, m) \in SUBSET Backends
    BY DEF Usable
  <2> QED
    BY <2>1, TurnIsFair DEF FairShare, CursorTyped
<1> QED
  BY <1>1, CursorAlwaysTyped, PTL

------------------------------------------------------------------------------
(* The loops of Candidates, round by round.                                 *)

\* Two functions that agree at 0 and, wherever they agree, one further, agree.
LEMMA AgreeByStep ==
    ASSUME NEW N \in Nat, NEW f, NEW g, f[0] = g[0],
           \A n \in 1..N : f[n - 1] = g[n - 1] => f[n] = g[n]
    PROVE  \A n \in 0..N : f[n] = g[n]
<1> DEFINE bad == {n \in 0..N : f[n] # g[n]}
<1>1. SUFFICES ASSUME bad # {} PROVE FALSE
  OBVIOUS
<1>2. bad \subseteq Nat
  OBVIOUS
<1>3. PICK n \in bad : \A m \in bad : n <= m
  <2> DEFINE less == {ss \in Nat \X Nat : ss[1] < ss[2]}
  <2>1. IsWellFoundedOn(less, Nat)
    BY NatLessThanWellFounded DEF OpToRel
  <2>2. \A m, k \in Nat : ~(<<m, k>> \in less) => k <= m
    OBVIOUS
  <2> HIDE DEF less, bad
  <2>3. PICK n \in bad : \A m \in bad : ~(<<m, n>> \in less)
    BY <1>1, <1>2, <2>1, WFMin
  <2> QED
    BY <1>2, <2>2, <2>3
<1>4. n \in 1..N /\ n - 1 \in 0..N /\ ~(n <= n - 1)
  OBVIOUS
<1>5. f[n - 1] = g[n - 1]
  BY <1>3, <1>4
<1> QED
  BY <1>4, <1>5

\* The backend whose copy is at a place of the weighted list, places counted from 0.
Holder(S, q) == CHOOSE b \in S : q \in Copies(S, b)

LEMMA HolderIs ==
    ASSUME NEW S \in SUBSET Backends, NEW q, NEW b \in S, q \in Copies(S, b)
    PROVE  Holder(S, q) = b
<1>1. ASSUME NEW c \in S, q \in Copies(S, c), c # b PROVE FALSE
  <2>1. /\ Offset(S, b) \in Nat /\ Offset(S, c) \in Nat
        /\ Weight[b] \in Nat /\ Weight[c] \in Nat
    BY OffsetTyped
  <2>2. Offset(S, b) + Weight[b] <= Offset(S, c) \/ Offset(S, c) + Weight[c] <= Offset(S, b)
    BY <1>1, Apart
  <2> QED
    BY <1>1, <2>1, <2>2 DEF Copies
<1> QED
  BY <1>1 DEF Holder

\* The loop over the IDs puts copy after copy where the ranking counts it.
LEMMA WeightedIs ==
    ASSUME NEW S \in SUBSET Backends
    PROVE  Weighted(S) = [p \in 1..Total(S) |-> Holder(S, p - 1)]
<1> DEFINE N == Len(IDs)
           U(i) == {c \in S : Place(c) <= i}
           T(i) == Cardinality(Tickets(U(i)))
           Part(i) == [p \in 1..T(i) |-> Holder(S, p - 1)]
           Step(f, i) == IF i = 0 THEN <<>>
                         ELSE IF IDs[i] \in S
                              THEN f[i - 1] \o [k \in 1..Weight[IDs[i]] |-> IDs[i]]
                              ELSE f[i - 1]
           Run(f) == [i \in 0..N |-> Step(f, i)]
           g == [i \in 0..N |-> Part(i)]
           h == CHOOSE f : f = Run(f)
<1>1. N \in Nat /\ \A c \in S : Place(c) \in 1..N /\ IDs[Place(c)] = c
  BY RegistryAssumption, PlaceIs
<1>2. Weighted(S) = h[N]
  BY DEF Weighted
<1>3. \A i \in 0..N : g[i] = Part(i)
  OBVIOUS
<1>4. \A i \in 0..N : T(i) \in Nat
  BY TicketsFinite
<1>5. g[0] = <<>>
  <2>1. U(0) = {}
    BY <1>1
  <2>2. T(0) = 0
    BY <2>1, FS_EmptySet DEF Tickets
  <2> HIDE DEF T
  <2> QED
    BY <1>1, <1>3, <2>2
<1> HIDE DEF g, h
<1>6. ASSUME NEW i \in 1..N PROVE g[i] = Step(g, i)
  <2>1. i \in 0..N /\ i - 1 \in 0..N /\ i # 0 /\ i \in Nat
    BY <1>1
  <2>2. CASE IDs[i] \notin S
    <3>1. U(i) = U(i - 1)
      <4>1. \A c \in S : Place(c) # i /\ Place(c) \in Nat
        BY <1>1, <2>2
      <4> QED
        BY <2>1, <4>1
    <3> QED
      BY <1>3, <2>1, <2>2, <3>1
  <2>3. CASE IDs[i] \in S
    <3> DEFINE b == IDs[i]
               o == Offset(S, b)
               w == Weight[b]
    <3>1. Place(b) = i
      BY <1>1, <2>1, <2>3, RegistryAssumption, PlaceIs
    <3>2. T(i) = o + w
      BY <2>3, <3>1, UpTo
    <3>3. T(i - 1) = o
      <4>1. U(i - 1) = {c \in S : Place(c) < Place(b)}
        <5>1. \A c \in S : Place(c) \in Nat
          BY <1>1
        <5> QED
          BY <2>1, <3>1, <5>1
      <4> QED
        BY <4>1 DEF Offset
    <3>4. o \in Nat /\ w \in Nat \ {0}
      BY <2>3, OffsetTyped
    <3>5. ASSUME NEW p \in 1..(o + w), p > o PROVE Holder(S, p - 1) = b
      <4>1. p - 1 \in Copies(S, b)
        BY <3>4, <3>5 DEF Copies
      <4> QED
        BY <2>3, <4>1, HolderIs
    <3>6. g[i] = [p \in 1..(o + w) |-> Holder(S, p - 1)] /\ g[i - 1] = [p \in 1..o |-> Holder(S, p - 1)]
      BY <1>3, <2>1, <3>2, <3>3
    <3> DEFINE block == [k \in 1..w |-> b]
               joined == g[i - 1] \o block
    <3>7. Len(g[i - 1]) = o /\ Len(block) = w
      BY <3>4, <3>6
    <3>8. joined = [p \in 1..(o + w) |-> IF p <= o THEN g[i - 1][p] ELSE block[p - o]]
      <4> DEFINE V == {Holder(S, p - 1) : p \in 1..o} \cup {b}
      <4>1. g[i - 1] \in [1..o -> V] /\ block \in [1..w -> V]
        BY <3>6
      <4> HIDE DEF V, block, o, w, g
      <4>2. g[i - 1] \in Seq(V) /\ block \in Seq(V)
        BY <3>4, <4>1
      <4>3. joined \in Seq(V) /\ Len(joined) = o + w
        BY <3>7, <4>2
      <4>4. joined = [p \in 1..(o + w) |-> joined[p]]
        <5> HIDE DEF joined
        <5> QED
          BY <3>4, <4>3
      <4>5. ASSUME NEW p \in 1..(o + w)
            PROVE  joined[p] = IF p <= o THEN g[i - 1][p] ELSE block[p - o]
        BY <3>4, <3>7, <4>2
      <4> HIDE DEF joined
      <4> QED
        BY <4>4, <4>5
    <3> HIDE DEF o, w
    <3>9. \A p \in 1..(o + w) : g[i][p] = IF p <= o THEN g[i - 1][p] ELSE block[p - o]
      <4> SUFFICES ASSUME NEW p \in 1..(o + w)
                   PROVE  g[i][p] = IF p <= o THEN g[i - 1][p] ELSE block[p - o]
        OBVIOUS
      <4>1. g[i][p] = Holder(S, p - 1)
        BY <3>6
      <4>2. CASE p <= o
        BY <3>4, <3>6, <4>1, <4>2
      <4>3. CASE ~(p <= o)
        <5>1. p > o /\ p - o \in 1..w
          BY <3>4, <4>3
        <5> QED
          BY <3>5, <4>1, <4>3, <5>1
      <4> QED
        BY <4>2, <4>3
    <3>10. g[i] = joined
      <4>1. g[i] = [p \in 1..(o + w) |-> g[i][p]]
        BY <3>6
      <4> HIDE DEF joined
      <4> QED
        BY <3>8, <3>9, <4>1
    <3> QED
      BY <2>1, <2>3, <3>10 DEF w
  <2> QED
    BY <2>2, <2>3
<1>7. g = Run(g)
  <2>1. \A i \in 0..N : i = 0 \/ i \in 1..N
    BY <1>1
  <2>2. \A i \in 0..N : g[i] = Step(g, i)
    BY <2>1, <1>5, <1>6
  <2>3. g = [i \in 0..N |-> g[i]]
    BY DEF g
  <2> HIDE DEF Step
  <2> QED
    BY <2>2, <2>3
<1>8. h = Run(h)
  <2> HIDE DEF Run
  <2> QED
    BY <1>7, Zenon DEF h
<1>9. \A i \in 0..N : h[i] = g[i]
  <2>1. \A i \in 0..N : h[i] = Step(h, i) /\ g[i] = Step(g, i)
    <3> HIDE DEF Step
    <3> QED
      BY <1>7, <1>8
  <2>2. h[0] = g[0]
    <3>1. 0 \in 0..N
      BY <1>1
    <3>2. Step(h, 0) = Step(g, 0)
      OBVIOUS
    <3> HIDE DEF Step
    <3> QED
      BY <2>1, <3>1, <3>2
  <2>3. \A i \in 1..N : h[i - 1] = g[i - 1] => h[i] = g[i]
    <3>1. \A i \in 1..N : i \in 0..N
      BY <1>1
    <3>2. \A i \in 1..N : h[i - 1] = g[i - 1] => Step(h, i) = Step(g, i)
      BY <1>1
    <3> HIDE DEF Step
    <3> QED
      BY <2>1, <3>1, <3>2
  <2> HIDE DEF N
  <2>4. N \in Nat
    BY <1>1
  <2> QED
    BY ONLY <2>2, <2>3, <2>4, AgreeByStep, Zenon
<1>10. U(N) = S
  BY <1>1
<1>11. N \in 0..N
  BY <1>1
<1> QED
  BY <1>2, <1>3, <1>9, <1>10, <1>11 DEF Total

LEMMA DistanceBound ==
    ASSUME NEW S \in SUBSET Backends, NEW start \in 0..(Total(S) - 1), NEW b \in S
    PROVE  Distance(S, b, start) \in 0..(Total(S) - 1)
<1>1. Offset(S, b) \in Nat /\ Total(S) \in Nat \ {0}
  BY OffsetTyped
<1>2. (Offset(S, b) - start) % Total(S) \in 0..(Total(S) - 1)
  BY <1>1
<1> QED
  BY <1>1, <1>2 DEF Distance

\* The walk has come past b at the latest when it stands on a copy of b, and it has come
\* n places far only at the backend whose distance is n.
LEMMA Meets ==
    ASSUME NEW S \in SUBSET Backends, NEW start \in 0..(Total(S) - 1),
           NEW n \in 0..(Total(S) - 1), NEW b \in S, ((start + n) % Total(S)) \in Copies(S, b)
    PROVE  /\ Distance(S, b, start) <= n
           /\ \A c \in S : Distance(S, c, start) = n => c = b
<1> DEFINE T == Total(S)
           p == (start + n) % T
<1>1. T \in Nat \ {0}
  BY OffsetTyped
<1>2. p = IF start + n < T THEN start + n ELSE start + n - T
  <2>0. start \in 0..(T - 1) /\ n \in 0..(T - 1)
    OBVIOUS
  <2> HIDE DEF T
  <2>1. CASE start + n < T
    BY <1>1, <2>0, <2>1, Remainder, start + n = T * 0 + (start + n)
  <2>2. CASE ~(start + n < T)
    <3>1. /\ start + n \in Nat /\ 1 \in Int /\ start + n - T \in 0..(T - 1)
          /\ start + n = T * 1 + (start + n - T)
      BY <1>1, <2>0, <2>2
    <3>2. (start + n) % T = start + n - T
      BY <1>1, <3>1, Remainder
    <3> QED
      BY <2>2, <3>2
  <2> QED
    BY <2>1, <2>2
<1>3. ASSUME NEW c \in S
      PROVE  /\ Offset(S, c) \in Nat /\ Weight[c] \in Nat \ {0} /\ Offset(S, c) + Weight[c] <= T
             /\ (Offset(S, c) - start) % T =
                  IF Offset(S, c) >= start THEN Offset(S, c) - start ELSE Offset(S, c) - start + T
             /\ Distance(S, c, start) = IF start \in Copies(S, c) THEN 0 ELSE (Offset(S, c) - start) % T
  <2>1. Offset(S, c) \in Nat /\ Weight[c] \in Nat \ {0} /\ Offset(S, c) + Weight[c] <= T
    BY OffsetTyped
  <2>2. Offset(S, c) \in 0..(T - 1)
    BY <1>1, <2>1
  <2> HIDE DEF T
  <2>3. (Offset(S, c) - start) % T =
          IF Offset(S, c) >= start THEN Offset(S, c) - start ELSE Offset(S, c) - start + T
    BY <1>1, <2>2, Around DEF T
  <2> QED
    BY <2>1, <2>3 DEF T, Distance, Copies
<1> HIDE DEF T, p
<1>4. start \in Nat /\ n \in Nat /\ start < T /\ n < T
  BY <1>1 DEF T
<1>5. Distance(S, b, start) <= n
  <2> DEFINE o == Offset(S, b)
             w == Weight[b]
  <2>1. o <= p /\ p < o + w
    BY <1>1, <1>2, <1>3, <1>4 DEF Copies, p, T
  <2>2. start \in Copies(S, b) <=> (o <= start /\ start < o + w)
    BY <1>3, <1>4 DEF Copies
  <2> DEFINE d == (o - start) % T
  <2>3. /\ o \in Nat /\ w \in Nat \ {0} /\ o + w <= T
        /\ d = IF o >= start THEN o - start ELSE o - start + T
        /\ Distance(S, b, start) = IF o <= start /\ start < o + w THEN 0 ELSE d
    BY <1>3, <2>2
  <2> HIDE DEF o, w, d
  <2> QED
    BY <1>1, <1>2, <1>4, <2>1, <2>3
<1>6. ASSUME NEW c \in S, Distance(S, c, start) = n PROVE c = b
  <2> DEFINE o == Offset(S, c)
             w == Weight[c]
             d == (o - start) % T
  <2>1. start \in Copies(S, c) <=> (o <= start /\ start < o + w)
    BY <1>3, <1>4 DEF Copies
  <2>2. /\ o \in Nat /\ w \in Nat \ {0} /\ o + w <= T
        /\ d = IF o >= start THEN o - start ELSE o - start + T
        /\ n = IF o <= start /\ start < o + w THEN 0 ELSE d
    BY <1>3, <1>6, <2>1
  <2>3. o <= p /\ p < o + w
    <3> HIDE DEF o, w, d
    <3> QED
      BY <1>1, <1>2, <1>4, <2>2
  <2>4. p \in Copies(S, c)
    <3>1. p \in Int
      BY <1>2, <1>4, <1>1
    <3> QED
      BY <2>2, <2>3, <3>1 DEF Copies
  <2>5. Holder(S, p) = c /\ Holder(S, p) = b
    BY <2>4, HolderIs DEF p, T
  <2> QED
    BY <2>5
<1> QED
  BY <1>5, <1>6

Before(S, key, b) == {c \in S : key[c] < key[b]}
Below(S, key, n) == {c \in S : key[c] < n}

\* A member's place in the order is the number of those in front of it.
LEMMA RankOf ==
    ASSUME NEW S, IsFiniteSet(S), NEW key \in [S -> Int], Injective(key, S), NEW b \in S
    PROVE  /\ Cardinality(Before(S, key, b)) + 1 \in 1..Cardinality(S)
           /\ InOrder(S, key)[Cardinality(Before(S, key, b)) + 1] = b
<1> DEFINE B(d) == Before(S, key, d)
           i == Cardinality(B(b)) + 1
<1>1. \A d \in S : B(d) \in SUBSET S /\ IsFiniteSet(B(d)) /\ Cardinality(B(d)) \in Nat
  BY FS_Subset, FS_CardinalityType DEF Before
<1>2. \A d \in S : key[d] \in Int
  OBVIOUS
<1>3. ASSUME NEW c \in S, NEW d \in S, key[c] < key[d] PROVE Cardinality(B(c)) < Cardinality(B(d))
  <2>1. B(c) \in SUBSET B(d) /\ c \in B(d) /\ c \notin B(c)
    BY <1>2, <1>3 DEF Before
  <2> HIDE DEF B
  <2>2. Cardinality(B(c)) <= Cardinality(B(d))
        /\ (Cardinality(B(d)) = Cardinality(B(c)) => B(d) = B(c))
    BY <1>1, <2>1, FS_Subset
  <2> QED
    BY <1>1, <2>1, <2>2
<1>4. i \in 1..Cardinality(S)
  <2>1. b \in S /\ b \notin B(b)
    BY <1>2 DEF Before
  <2> HIDE DEF B
  <2>2. Cardinality(B(b)) <= Cardinality(S) /\ (Cardinality(S) = Cardinality(B(b)) => S = B(b))
        /\ Cardinality(S) \in Nat
    BY <1>1, FS_Subset, FS_CardinalityType
  <2> QED
    BY <1>1, <2>1, <2>2
<1>5. InOrder(S, key)[i] = CHOOSE d \in S : Cardinality(B(d)) = i - 1
  BY <1>4 DEF InOrder, Before
<1> HIDE DEF B
<1>6. \A d \in S : Cardinality(B(d)) = i - 1 <=> d = b
  <2>1. i - 1 = Cardinality(B(b))
    BY <1>1
  <2>2. \A d \in S : d # b => key[d] < key[b] \/ key[b] < key[d]
    BY <1>2 DEF Injective
  <2> HIDE DEF i
  <2> QED
    BY <1>1, <1>3, <2>1, <2>2
<1>7. InOrder(S, key)[i] = b
  <2> HIDE DEF i
  <2> QED
    BY <1>5, <1>6
<1> QED
  BY <1>4, <1>7 DEF B

\* The first places of the order are those of the members below a bound.
LEMMA Lowest ==
    ASSUME NEW S, IsFiniteSet(S), NEW key \in [S -> Int], Injective(key, S), NEW n \in Int
    PROVE  LET size == Cardinality(Below(S, key, n)) IN
           /\ IsFiniteSet(Below(S, key, n)) /\ size \in Nat /\ size <= Cardinality(S)
           /\ \A b \in S : b \in Below(S, key, n) <=> \E i \in 1..size : InOrder(S, key)[i] = b
           /\ \A b \in S : key[b] = n => InOrder(S, key)[size + 1] = b
<1> DEFINE M == Below(S, key, n)
           m == Cardinality(M)
           B(d) == Before(S, key, d)
           s == InOrder(S, key)
           N == Cardinality(S)
<1>1. M \in SUBSET S /\ \A d \in S : B(d) \in SUBSET S /\ key[d] \in Int
  BY DEF Below, Before
<1>2. N \in Nat /\ IsFiniteSet(M) /\ m \in Nat /\ m <= N
  BY <1>1, FS_Subset, FS_CardinalityType
<1>3. \A d \in S : IsFiniteSet(B(d)) /\ Cardinality(B(d)) \in Nat
  BY <1>1, FS_Subset, FS_CardinalityType
<1>4. \A d \in S : Cardinality(B(d)) + 1 \in 1..N /\ s[Cardinality(B(d)) + 1] = d
  BY RankOf
<1>5. \A i, j \in 1..N : s[i] = s[j] => i = j
  BY InOrderLists DEF Lists
<1> HIDE DEF s
<1>6. ASSUME NEW b \in S, b \in M PROVE \E i \in 1..m : s[i] = b
  <2>1. B(b) \in SUBSET M /\ b \notin B(b)
    BY <1>1, <1>6 DEF Below, Before
  <2> HIDE DEF B, M
  <2>2. Cardinality(B(b)) <= m /\ (m = Cardinality(B(b)) => M = B(b))
    BY <1>2, <2>1, FS_Subset
  <2>3. Cardinality(B(b)) + 1 \in 1..m
    BY <1>2, <1>3, <1>6, <2>1, <2>2
  <2> QED
    BY <1>4, <2>3
<1>7. ASSUME NEW b \in S, b \notin M PROVE ~\E i \in 1..m : s[i] = b
  <2>1. M \in SUBSET B(b)
    BY <1>1, <1>7 DEF Below, Before
  <2> HIDE DEF B, M
  <2>2. m <= Cardinality(B(b))
    BY <1>3, <2>1, FS_Subset
  <2> SUFFICES ASSUME NEW i \in 1..m, s[i] = b PROVE FALSE
    OBVIOUS
  <2>3. i \in 1..N /\ Cardinality(B(b)) + 1 \in 1..N /\ s[Cardinality(B(b)) + 1] = b
    BY <1>2, <1>4
  <2>4. i = Cardinality(B(b)) + 1
    BY <1>5, <2>3
  <2> QED
    BY <1>2, <1>3, <2>2, <2>4
<1>8. ASSUME NEW b \in S, key[b] = n PROVE s[m + 1] = b
  <2>1. B(b) = M
    BY <1>8 DEF Before, Below
  <2> QED
    BY <1>4, <2>1
<1> HIDE DEF M
<1>9. \A b \in S : b \in M <=> \E i \in 1..m : s[i] = b
  BY <1>6, <1>7
<1> QED
  BY <1>2, <1>8, <1>9 DEF s, M

\* After n rounds the walk has listed the backends whose distance is below n.
LEMMA LoopIs ==
    ASSUME NEW S \in SUBSET Backends, S # {}, NEW cur \in Nat
    PROVE  Loop(S, cur) = Candidates(S, cur)
<1> DEFINE T == Total(S)
           weighted == Weighted(S)
           start == cur % T
           target == Cardinality(S)
           key == [c \in S |-> Distance(S, c, start)]
           list == Candidates(S, cur)
           M(n) == Below(S, key, n)
           size(n) == Cardinality(M(n))
           Part(n) == [i \in 1..size(n) |-> list[i]]
           Step(f, n) ==
             IF n = 0 THEN <<>>
             ELSE Round(f[n - 1], weighted[((start + n - 1) % T) + 1], target)
           Run(f) == [n \in 0..T |-> Step(f, n)]
           g == [n \in 0..T |-> Part(n)]
           h == CHOOSE f : f = Run(f)
<1>1. T \in Nat \ {0}
  <2>1. PICK b \in S : TRUE
    OBVIOUS
  <2> QED
    BY <2>1, OffsetTyped
<1>2. weighted = [p \in 1..T |-> Holder(S, p - 1)] /\ Len(weighted) = T
  BY <1>1, WeightedIs
<1>3. Loop(S, cur) = h[T]
  BY <1>2 DEF Loop, Walk
<1>4. start \in 0..(T - 1)
  BY <1>1
<1> HIDE DEF start
<1>5. IsFiniteSet(S) /\ key \in [S -> Int] /\ Injective(key, S) /\ target \in Nat
  BY <1>4, BackendsFinite, DistanceTyped, DistanceInjective, FS_CardinalityType DEF Injective
<1>6. \A c \in S : key[c] = Distance(S, c, start) /\ key[c] \in 0..(T - 1)
  BY <1>4, DistanceBound
<1>7. list = InOrder(S, key)
  BY DEF Candidates, start
<1>8. list = [i \in 1..target |-> list[i]]
  BY EveryUsableOnce DEF Lists
<1> HIDE DEF T, weighted, target, key, list
<1>9. ASSUME NEW n \in Int
      PROVE  /\ IsFiniteSet(M(n)) /\ size(n) \in Nat /\ size(n) <= target
             /\ \A b \in S : b \in M(n) <=> \E i \in 1..size(n) : list[i] = b
             /\ \A b \in S : key[b] = n => list[size(n) + 1] = b
  BY <1>5, <1>7, Lowest DEF target
<1>10. \A n \in 0..T : g[n] = Part(n)
  OBVIOUS
<1> HIDE DEF g, h
<1>11. g[0] = <<>>
  <2>1. M(0) = {}
    BY <1>1, <1>6 DEF Below
  <2>2. size(0) = 0 /\ 0 \in 0..T
    BY <1>1, <2>1, FS_EmptySet
  <2> HIDE DEF size
  <2>3. g[0] = [i \in 1..0 |-> list[i]]
    BY <1>10, <2>2
  <2> QED
    BY <2>3
<1>12. ASSUME NEW n \in 1..T PROVE g[n] = Step(g, n)
  <2> DEFINE m == n - 1
             p == (start + m) % T
             prior == g[m]
  <2>1. n \in 0..T /\ m \in 0..T /\ m \in 0..(T - 1) /\ n # 0 /\ n \in Int /\ m \in Int
        /\ start + n - 1 = start + m
    BY <1>1, <1>4
  <2>2. p \in 0..(T - 1) /\ p + 1 \in 1..T
    BY <1>1, <1>4, <2>1
  <2>3. PICK b \in S : p \in Copies(S, b)
    BY <2>2, Covered DEF T
  <2>4. weighted[p + 1] = b
    <3>1. weighted[p + 1] = Holder(S, p)
      BY <1>2, <2>2
    <3> QED
      BY <2>3, <3>1, HolderIs
  <2>5. key[b] <= m /\ \A c \in S : key[c] = m => c = b
    <3>1. Distance(S, b, start) <= m /\ \A c \in S : Distance(S, c, start) = m => c = b
      BY <1>4, <2>1, <2>3, Meets DEF T
    <3> QED
      BY <1>6, <3>1
  <2>6. M(n) = M(m) \cup {b}
    BY <1>6, <2>1, <2>5 DEF Below
  <2>7. Step(g, n) = Round(prior, b, target)
    BY <2>1, <2>4
  <2>8. /\ IsFiniteSet(M(m)) /\ size(m) \in Nat /\ size(m) <= target
        /\ b \in M(m) <=> \E i \in 1..size(m) : list[i] = b
        /\ key[b] = m => list[size(m) + 1] = b
    BY <1>9, <2>1
  <2>9. prior = [i \in 1..size(m) |-> list[i]] /\ g[n] = [i \in 1..size(n) |-> list[i]]
    BY <1>10, <2>1
  <2>10. M(m) \in SUBSET S
    BY DEF Below
  <2>11. b \notin M(m) => key[b] = m
    BY <1>6, <2>1, <2>5 DEF Below
  <2> HIDE DEF m, p, M, Step
  <2>12. Len(prior) = size(m) /\ DOMAIN prior = 1..size(m)
    BY <2>8, <2>9
  <2>13. CASE b \in M(m)
    <3>1. M(n) = M(m)
      BY <2>6, <2>13
    <3>2. \E i \in DOMAIN prior : prior[i] = b
      BY <2>8, <2>9, <2>12, <2>13
    <3>3. Round(prior, b, target) = prior
      BY <3>2 DEF Round
    <3> QED
      BY <2>7, <2>9, <3>1, <3>3
  <2>14. CASE b \notin M(m)
    <3> DEFINE z == size(m)
    <3>1. size(n) = z + 1
      BY <2>6, <2>8, <2>14, FS_AddElement
    <3>2. size(m) # target
      BY <1>5, <2>10, <2>14, FS_Subset DEF target
    <3>3. ~\E i \in DOMAIN prior : prior[i] = b
      BY <2>8, <2>9, <2>12, <2>14
    <3>4. Round(prior, b, target) = Append(prior, b)
      BY <2>12, <3>2, <3>3 DEF Round
    <3>5. list[z + 1] = b
      BY <2>8, <2>11, <2>14
    <3> HIDE DEF prior
    <3>6. Append(prior, b) = [i \in 1..(z + 1) |-> list[i]]
      <4> DEFINE V == {list[i] : i \in 1..z} \cup {b}
                 both == Append(prior, b)
      <4> HIDE DEF size
      <4>1. prior \in Seq(V) /\ b \in V /\ Len(prior) = z
        BY <2>8, <2>9, <2>12
      <4> HIDE DEF V
      <4>2. both \in Seq(V) /\ Len(both) = z + 1
        BY <4>1
      <4>3. both = [i \in 1..(z + 1) |-> both[i]]
        <5> HIDE DEF both
        <5> QED
          BY <2>8, <4>2
      <4>4. ASSUME NEW i \in 1..(z + 1) PROVE both[i] = list[i]
        <5>1. CASE i = z + 1
          BY <2>8, <3>5, <4>1, <5>1
        <5>2. CASE i # z + 1
          <6>1. i \in 1..z
            BY <2>8, <5>2
          <6> QED
            BY <2>8, <2>9, <4>1, <5>2, <6>1
        <5> QED
          BY <5>1, <5>2
      <4> HIDE DEF both
      <4>5. both = [i \in 1..(z + 1) |-> list[i]]
        BY <4>3, <4>4
      <4> QED
        BY <4>5 DEF both
    <3> QED
      BY <2>7, <2>9, <3>1, <3>4, <3>6
  <2> QED
    BY <2>13, <2>14
<1>13. g = Run(g)
  <2>1. \A n \in 0..T : n = 0 \/ n \in 1..T
    BY <1>1
  <2>2. \A n \in 0..T : g[n] = Step(g, n)
    BY <2>1, <1>11, <1>12
  <2>3. g = [n \in 0..T |-> g[n]]
    BY DEF g
  <2> HIDE DEF Step
  <2> QED
    BY <2>2, <2>3
<1>14. h = Run(h)
  <2> HIDE DEF Run
  <2> QED
    BY <1>13, Zenon DEF h
<1>15. \A n \in 0..T : h[n] = g[n]
  <2>1. \A n \in 0..T : h[n] = Step(h, n) /\ g[n] = Step(g, n)
    <3> HIDE DEF Step
    <3> QED
      BY <1>13, <1>14
  <2>2. h[0] = g[0]
    <3>1. 0 \in 0..T
      BY <1>1
    <3>2. Step(h, 0) = Step(g, 0)
      OBVIOUS
    <3> HIDE DEF Step
    <3> QED
      BY <2>1, <3>1, <3>2
  <2>3. \A n \in 1..T : h[n - 1] = g[n - 1] => h[n] = g[n]
    <3>1. \A n \in 1..T : n \in 0..T
      BY <1>1
    <3>2. \A n \in 1..T : h[n - 1] = g[n - 1] => Step(h, n) = Step(g, n)
      BY <1>1
    <3> HIDE DEF Step
    <3> QED
      BY <2>1, <3>1, <3>2
  <2>4. T \in Nat
    BY <1>1
  <2> QED
    BY ONLY <2>2, <2>3, <2>4, AgreeByStep, SMT
<1>16. g[T] = list
  <2>1. M(T) = S
    BY <1>1, <1>6 DEF Below
  <2>2. T \in 0..T
    BY <1>1
  <2> QED
    BY <1>8, <1>10, <2>1, <2>2 DEF target
<1>17. T \in 0..T
  BY <1>1
<1> QED
  BY <1>3, <1>15, <1>16, <1>17 DEF list

\* In every reachable state the ranking by distance, which the other proofs reason about,
\* is what the loops of Candidates build, for any backends, weights, models, health and
\* cursor (registry.go Candidates: the weighted list, the walk with its seen map).
THEOREM LoopAlwaysRanking == Spec => []LoopIsRanking
<1>1. CursorTyped => LoopIsRanking
  <2>1. ASSUME NEW m \in Models PROVE Usable(healthy, m) \in SUBSET Backends
    BY DEF Usable
  <2> QED
    BY <2>1, LoopIs DEF LoopIsRanking, CursorTyped
<1> QED
  BY <1>1, CursorAlwaysTyped, PTL
=============================================================================
