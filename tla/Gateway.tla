------------------------------- MODULE Gateway -------------------------------
(***************************************************************************)
(* The gateway's request handlers (gateway/internal/gateway/server.go,     *)
(* ServeHTTP and forward), the tenants' concurrency slots                  *)
(* (gateway/internal/limits) and the backend registry                      *)
(* (gateway/internal/backend) that concurrent handlers and the periodic    *)
(* health check share.                                                     *)
(*                                                                         *)
(* What forward does with the body of the backend that answered is         *)
(* StreamPolicy.tla (streams) or forwardBuffered; here it is one step that *)
(* ends with a status.  What the router decides is any decision.           *)
(***************************************************************************)
EXTENDS Registry

CONSTANTS
    Requests,        \* bound: the requests of a behaviour
    Tenants,
    MaxConcurrent,   \* slots of each tenant
    OpenTenants      \* tenants whose policy_fail_mode is open

ASSUME GatewayAssumption ==
    /\ IsFiniteSet(Requests)
    /\ MaxConcurrent \in [Tenants -> Nat \ {0}]
    /\ OpenTenants \subseteq Tenants

VARIABLES
    \* one handler per request
    pc, tenant, model, stream,
    ctx,            \* "live" or "over" (deadline, or the client is gone)
    verdict,        \* what the policy engine said of it, explicitly
    candidates,     \* backends still to try
    attempts,       \* backends it was sent to, in order
    answered,       \* the backend whose response is forwarded
    status,         \* HTTP status, 0 while none is written
    slots,          \* requests whose deferred release has not run
    \* shared
    available,      \* Limiter.available
    inflight,       \* the in-flight gauge
    probe           \* the health checker: backends left, the one asked, its answer

handler == <<pc, tenant, model, stream, ctx, verdict, candidates, attempts,
             answered, status, slots>>
vars == <<handler, available, inflight, healthy, cursor, probe>>

Steps == {"idle", "acquire", "parse", "evaluate", "open", "route", "try",
          "waiting", "body", "returning", "closing", "done"}

\* Between admission and the last byte of the response.
Working == {"parse", "evaluate", "open", "route", "try", "waiting", "body"}

Idle == [left |-> {}, at |-> NoBackend, ok |-> "none"]

Init ==
    /\ pc = [r \in Requests |-> "idle"]
    /\ tenant \in [Requests -> Tenants]
    /\ model \in [Requests -> Models]
    /\ stream \in [Requests -> BOOLEAN]
    /\ ctx = [r \in Requests |-> "live"]
    /\ verdict = [r \in Requests |-> "none"]
    /\ candidates = [r \in Requests |-> <<>>]
    /\ attempts = [r \in Requests |-> <<>>]
    /\ answered = [r \in Requests |-> NoBackend]
    /\ status = [r \in Requests |-> 0]
    /\ slots = {}
    /\ available = MaxConcurrent
    /\ inflight = 0
    /\ RegistryInit
    /\ probe = Idle

Closed(r) == tenant[r] \notin OpenTenants

GoTo(r, step) == pc' = [pc EXCEPT ![r] = step]

\* The handler has written its response; its deferred calls remain.
Respond(r, s) ==
    /\ GoTo(r, "returning")
    /\ status' = [status EXCEPT ![r] = s]

------------------------------------------------------------------------------
(* ServeHTTP.                                                               *)

Arrive(r) ==
    /\ pc[r] = "idle"
    /\ inflight' = inflight + 1
    /\ GoTo(r, "acquire")
    /\ UNCHANGED <<tenant, model, stream, ctx, verdict, candidates, attempts, answered,
                   status, slots, available, healthy, cursor, probe>>

\* Wrong path or method, no request ID, no valid API key: no slot is taken (the
\* statuses 404, 500 and 401 are not told apart).
TurnAway(r) ==
    /\ pc[r] = "acquire"
    /\ Respond(r, 401)
    /\ UNCHANGED <<tenant, model, stream, ctx, verdict, candidates, attempts, answered,
                   slots, available, inflight, healthy, cursor, probe>>

TryAcquire(r) ==
    /\ pc[r] = "acquire"
    /\ IF available[tenant[r]] > 0
       THEN /\ available' = [available EXCEPT ![tenant[r]] = @ - 1]
            /\ slots' = slots \cup {r}
            /\ GoTo(r, "parse")
            /\ UNCHANGED status
       ELSE /\ Respond(r, 429)
            /\ UNCHANGED <<available, slots>>
    /\ UNCHANGED <<tenant, model, stream, ctx, verdict, candidates, attempts, answered,
                   inflight, healthy, cursor, probe>>

\* io.ReadAll takes no context: the body is read for as long as the client sends it.
ParseRequest(r) ==
    /\ pc[r] = "parse"
    /\ \/ GoTo(r, "evaluate") /\ UNCHANGED status
       \/ Respond(r, 400)
    /\ UNCHANGED <<tenant, model, stream, ctx, verdict, candidates, attempts, answered,
                   slots, available, inflight, healthy, cursor, probe>>

\* Mutant: a call to the engine outlives the request's deadline.
Answers_NoDeadline(r) == IF ctx[r] = "live" THEN {"allow", "block", "failed"} ELSE {}

\* The engine's answer; "failed" is an error, no result or a retryable failure,
\* which both fail modes treat alike.  An expired context always fails.
Answers(r) == IF ctx[r] = "live" THEN {"allow", "block", "failed"} ELSE {"failed"}

\* Mutant: an open tenant's rejection is treated as a failure.
Evaluate_OpenBypasses(r, answer) ==
    /\ pc[r] = "evaluate" /\ answer \in Answers(r)
    /\ verdict' = [verdict EXCEPT ![r] = answer]
    /\ IF answer # "allow" /\ Closed(r)
       THEN Respond(r, IF answer = "block" THEN 403 ELSE 503)
       ELSE GoTo(r, IF stream[r] THEN "open" ELSE "route") /\ UNCHANGED status
    /\ UNCHANGED <<tenant, model, stream, ctx, candidates, attempts, answered,
                   slots, available, inflight, healthy, cursor, probe>>

Evaluate(r, answer) ==
    /\ pc[r] = "evaluate" /\ answer \in Answers(r)
    /\ verdict' = [verdict EXCEPT ![r] = answer]
    /\ CASE answer = "block" -> Respond(r, 403)
         [] answer = "failed" /\ Closed(r) -> Respond(r, 503)
         [] OTHER -> /\ GoTo(r, IF stream[r] THEN "open" ELSE "route")
                     /\ UNCHANGED status
    /\ UNCHANGED <<tenant, model, stream, ctx, candidates, attempts, answered,
                   slots, available, inflight, healthy, cursor, probe>>

------------------------------------------------------------------------------
(* forward.                                                                 *)

OpenStream(r, answer) ==
    /\ pc[r] = "open" /\ answer \in Answers(r)
    /\ CASE answer = "block" -> Respond(r, 403)
         [] answer = "failed" /\ Closed(r) -> Respond(r, 503)
         [] OTHER -> GoTo(r, "route") /\ UNCHANGED status
    /\ verdict' = [verdict EXCEPT ![r] = IF answer = "allow" THEN @ ELSE answer]
    /\ UNCHANGED <<tenant, model, stream, ctx, candidates, attempts, answered,
                   slots, available, inflight, healthy, cursor, probe>>

Route(r, eligible, selected) ==
    /\ pc[r] = "route" /\ selected \in eligible \cup {NoBackend}
    /\ LET S == Usable(healthy, model[r])
           c == IF S = {} THEN <<>> ELSE Reorder(Candidates(S, cursor), eligible, selected)
       IN  /\ eligible \subseteq S
           /\ Advance(S)
           /\ candidates' = [candidates EXCEPT ![r] = c]
           /\ IF c = <<>> THEN Respond(r, 503)
                          ELSE GoTo(r, "try") /\ UNCHANGED status
    /\ UNCHANGED <<tenant, model, stream, ctx, verdict, attempts, answered,
                   slots, available, inflight, healthy, probe>>

Attempt(r) ==
    /\ pc[r] = "try" /\ candidates[r] # <<>>
    /\ attempts' = [attempts EXCEPT ![r] = Append(@, Head(candidates[r]))]
    /\ GoTo(r, "waiting")
    /\ UNCHANGED <<tenant, model, stream, ctx, verdict, candidates, answered, status,
                   slots, available, inflight, healthy, cursor, probe>>

\* Mutant: the backend that failed stays first in line.
AttemptFails_SameAgain(r) ==
    /\ pc[r] = "waiting"
    /\ MarkFailure(Head(candidates[r]))
    /\ GoTo(r, "try")
    /\ UNCHANGED <<tenant, model, stream, ctx, verdict, candidates, attempts, answered,
                   status, slots, available, inflight, cursor, probe>>

\* The call fails or answers with no 2xx.  The backend is blamed even when the
\* reason is the request's own context.
AttemptFails(r) ==
    /\ pc[r] = "waiting"
    /\ MarkFailure(Head(candidates[r]))
    /\ candidates' = [candidates EXCEPT ![r] = Tail(@)]
    /\ GoTo(r, "try")
    /\ UNCHANGED <<tenant, model, stream, ctx, verdict, attempts, answered, status,
                   slots, available, inflight, cursor, probe>>

AllFailed(r) ==
    /\ pc[r] = "try" /\ candidates[r] = <<>>
    /\ Respond(r, 502)
    /\ UNCHANGED <<tenant, model, stream, ctx, verdict, candidates, attempts, answered,
                   slots, available, inflight, healthy, cursor, probe>>

AttemptAnswered(r) ==
    /\ pc[r] = "waiting" /\ ctx[r] = "live"
    /\ MarkSuccess(Head(candidates[r]))
    /\ answered' = [answered EXCEPT ![r] = Head(candidates[r])]
    /\ GoTo(r, "body")
    /\ UNCHANGED <<tenant, model, stream, ctx, verdict, candidates, attempts, status,
                   slots, available, inflight, cursor, probe>>

\* Mutant: a body that fails is asked of the next backend.
Forward_Retries(r, s) ==
    /\ pc[r] = "body" /\ s \in {200, 502} \cup (IF stream[r] THEN {403, 503} ELSE {})
    /\ IF s = 502 /\ Len(candidates[r]) > 1
       THEN /\ candidates' = [candidates EXCEPT ![r] = Tail(@)]
            /\ GoTo(r, "try") /\ UNCHANGED status
       ELSE Respond(r, s) /\ UNCHANGED candidates
    /\ UNCHANGED <<tenant, model, stream, ctx, verdict, attempts, answered,
                   slots, available, inflight, healthy, cursor, probe>>

\* The body is forwarded, or fails on the way: no other backend is asked.  Reading it
\* ends with the context, writing it to a client that does not read does not.
Forward(r, s) ==
    /\ pc[r] = "body" /\ s \in {200, 502} \cup (IF stream[r] THEN {403, 503} ELSE {})
    /\ Respond(r, s)
    /\ UNCHANGED <<tenant, model, stream, ctx, verdict, candidates, attempts, answered,
                   slots, available, inflight, healthy, cursor, probe>>

------------------------------------------------------------------------------
(* Deferred calls, in their order: the slot first, the gauge last.          *)

\* Mutant: the slot is let go but not counted back.
Release_Leaks(r) ==
    /\ pc[r] = "returning"
    /\ slots' = slots \ {r}
    /\ GoTo(r, "closing")
    /\ UNCHANGED <<tenant, model, stream, ctx, verdict, candidates, attempts, answered,
                   status, available, inflight, healthy, cursor, probe>>

Release(r) ==
    /\ pc[r] = "returning"
    /\ IF r \in slots
       THEN /\ slots' = slots \ {r}
            /\ available' =
                 [available EXCEPT ![tenant[r]] =
                    IF @ < MaxConcurrent[tenant[r]] THEN @ + 1 ELSE @]
       ELSE UNCHANGED <<slots, available>>
    /\ GoTo(r, "closing")
    /\ UNCHANGED <<tenant, model, stream, ctx, verdict, candidates, attempts, answered,
                   status, inflight, healthy, cursor, probe>>

Observe(r) ==
    /\ pc[r] = "closing"
    /\ inflight' = inflight - 1
    /\ GoTo(r, "done")
    /\ UNCHANGED <<tenant, model, stream, ctx, verdict, candidates, attempts, answered,
                   status, slots, available, healthy, cursor, probe>>

\* The deadline of the request's context passes, or its client goes away; once the
\* response is written nothing reads the context any more.
Expire(r) ==
    /\ pc[r] \in Working /\ ctx[r] = "live"
    /\ ctx' = [ctx EXCEPT ![r] = "over"]
    /\ UNCHANGED <<pc, tenant, model, stream, verdict, candidates, attempts, answered,
                   status, slots, available, inflight, healthy, cursor, probe>>

------------------------------------------------------------------------------
(* runBackendHealthChecks: CheckHealth asks the backends one by one.        *)

StartCheck ==
    /\ probe = Idle
    /\ probe' = [Idle EXCEPT !.left = Backends]
    /\ UNCHANGED <<handler, available, inflight, healthy, cursor>>

\* A backend answers 2xx, or something else, or the probe's client gives up ...
Probe(b, ok) ==
    /\ b \in probe.left /\ probe.at = NoBackend
    /\ probe' = [left |-> probe.left \ {b}, at |-> b, ok |-> ok]
    /\ UNCHANGED <<handler, available, inflight, healthy, cursor>>

\* Mutant: a good answer does not bring a backend back.
ProbeApplied_OnlyFailures ==
    /\ probe.at # NoBackend
    /\ IF probe.ok = "yes" THEN UNCHANGED healthy ELSE MarkFailure(probe.at)
    /\ probe' = [probe EXCEPT !.at = NoBackend, !.ok = "none"]
    /\ UNCHANGED <<handler, available, inflight, cursor>>

\* ... and the answer is applied later, whatever happened in between.
ProbeApplied ==
    /\ probe.at # NoBackend
    /\ IF probe.ok = "yes" THEN MarkSuccess(probe.at) ELSE MarkFailure(probe.at)
    /\ probe' = [probe EXCEPT !.at = NoBackend, !.ok = "none"]
    /\ UNCHANGED <<handler, available, inflight, cursor>>

Handle(r) ==
    \/ TryAcquire(r) \/ ParseRequest(r)
    \/ \E a \in {"allow", "block", "failed"} : Evaluate(r, a) \/ OpenStream(r, a)
    \/ \E e \in SUBSET Backends, s \in Backends \cup {NoBackend} : Route(r, e, s)
    \/ Attempt(r) \/ AttemptFails(r) \/ AllFailed(r) \/ AttemptAnswered(r)
    \/ \E s \in {200, 403, 502, 503} : Forward(r, s)
    \/ Release(r) \/ Observe(r)

Check == StartCheck \/ (\E b \in Backends, ok \in {"yes", "no"} : Probe(b, ok)) \/ ProbeApplied

Next == \/ \E r \in Requests : Arrive(r) \/ TurnAway(r) \/ Handle(r) \/ Expire(r)
        \/ Check

Spec == Init /\ [][Next]_vars

(***************************************************************************)
(* Fairness.  A backend or the policy engine may hang, so a handler is     *)
(* only promised to go on once its deadline has passed, which it does      *)
(* (context.WithTimeout with a positive timeout); the health checker's     *)
(* client has a timeout of its own.  The two steps that wait for the       *)
(* client, the read of its upload and the writes of its response, take no  *)
(* context, and the server sets no ReadTimeout or WriteTimeout (main.go):  *)
(* no deadline ends them, so they are not fair.                            *)
(***************************************************************************)
WaitsForClient(r) == ParseRequest(r) \/ \E s \in {200, 403, 502, 503} : Forward(r, s)

GivesUp(r) ==
    /\ pc[r] \in Working => ctx[r] = "over"
    /\ pc[r] \notin {"parse", "body"}
    /\ Handle(r)

FairSpec == /\ Spec
            /\ \A r \in Requests : WF_vars(Expire(r)) /\ WF_vars(GivesUp(r))
            /\ WF_vars(Check)

------------------------------------------------------------------------------

\* Every variable of the handlers, the limiter, the registry and the checker has
\* its type.
TypeOK ==
    /\ pc \in [Requests -> Steps]
    /\ tenant \in [Requests -> Tenants]
    /\ model \in [Requests -> Models]
    /\ stream \in [Requests -> BOOLEAN]
    /\ ctx \in [Requests -> {"live", "over"}]
    /\ verdict \in [Requests -> {"none", "allow", "block", "failed"}]
    /\ candidates \in [Requests -> Seq(Backends)]
    /\ attempts \in [Requests -> Seq(Backends)]
    /\ answered \in [Requests -> Backends \cup {NoBackend}]
    /\ status \in [Requests -> {0, 200, 400, 401, 403, 429, 502, 503}]
    /\ slots \subseteq Requests
    /\ available \in [Tenants -> Nat] /\ inflight \in Nat /\ cursor \in Nat
    /\ healthy \in [Backends -> BOOLEAN]
    /\ probe \in [left : SUBSET Backends, at : Backends \cup {NoBackend},
                   ok : {"none", "yes", "no"}]

\* A tenant's free slots and the requests that hold one always add up to its
\* max_concurrent: no path through ServeHTTP leaks a slot or returns it twice
\* (TryAcquire's decrement, the once-guarded release, every early return).
SlotsAccounted ==
    \A t \in Tenants :
        available[t] + Cardinality({r \in slots : tenant[r] = t}) = MaxConcurrent[t]

\* development.md:181: the slot covers the whole life of a request, so a tenant
\* never has more than max_concurrent requests between its admission and the last
\* byte of its response (ServeHTTP's deferred release).
ConcurrencyBounded ==
    \A t \in Tenants :
        Cardinality({r \in Requests : tenant[r] = t /\ pc[r] \in Working})
            <= MaxConcurrent[t]

\* The limiter's books are right on every path, and they bound what they are kept for.
SlotsSound == SlotsAccounted /\ ConcurrencyBounded

\* development.md:183: an explicit rejection is never bypassed, and a closed
\* tenant's request reaches a backend only when the engine allowed it
\* (the fail-mode branches of ServeHTTP and forward).
RejectionHolds ==
    \A r \in Requests : attempts[r] # <<>> =>
        /\ verdict[r] # "block"
        /\ Closed(r) => verdict[r] = "allow"

\* A slot is held exactly from admission until the deferred release.
SlotHolders ==
    \A r \in Requests :
        /\ pc[r] \in Working => r \in slots
        /\ r \in slots => pc[r] \in Working \cup {"returning"}

\* A handler is past the policy only with a verdict its tenant accepts.
PastPolicy ==
    \A r \in Requests :
        /\ pc[r] \in {"open", "route", "try", "waiting", "body"} =>
              verdict[r] # "block" /\ (Closed(r) => verdict[r] = "allow")
        /\ pc[r] \in {"idle", "acquire", "parse", "evaluate", "open", "route"} =>
              attempts[r] = <<>>

\* The inductive invariant of admission: the slots are accounted for, held exactly
\* by the handlers at work, and only accepted requests are past the policy
\* (ServeHTTP's early returns and deferred calls).
AdmissionInv == SlotHolders /\ SlotsAccounted /\ PastPolicy /\ RejectionHolds

\* forward asks no backend twice and only ones that serve the model; the response
\* forwarded is that of the last one asked; and it reports 502 without a response
\* only when every candidate has been asked.
FailoverSound ==
    \A r \in Requests :
        /\ \A i, j \in DOMAIN attempts[r] : attempts[r][i] = attempts[r][j] => i = j
        /\ \A i \in DOMAIN attempts[r] : Matches(attempts[r][i], model[r])
        /\ answered[r] # NoBackend => answered[r] = attempts[r][Len(attempts[r])]
        /\ (status[r] = 502 /\ answered[r] = NoBackend) =>
              candidates[r] = <<>> /\ attempts[r] # <<>>

\* What is left to try was not tried, but for the backend that is being asked; only a
\* handler that waited for a backend has an answer, and none has a status before it
\* responds (forward's loop over the candidates).
CandidatesLeft ==
    \A r \in Requests :
        /\ \A i, j \in DOMAIN candidates[r] : candidates[r][i] = candidates[r][j] => i = j
        /\ \A i \in DOMAIN candidates[r] : Matches(candidates[r][i], model[r])
        /\ pc[r] = "try" =>
             /\ candidates[r] = <<>> => attempts[r] # <<>>
             /\ \A i \in DOMAIN candidates[r], j \in DOMAIN attempts[r] :
                  candidates[r][i] # attempts[r][j]
        /\ pc[r] = "waiting" =>
             /\ candidates[r] # <<>> /\ attempts[r] # <<>>
             /\ candidates[r][1] = attempts[r][Len(attempts[r])]
             /\ \A i \in DOMAIN candidates[r], j \in DOMAIN attempts[r] :
                  i > 1 => candidates[r][i] # attempts[r][j]
        /\ pc[r] = "body" => answered[r] # NoBackend
        /\ answered[r] # NoBackend =>
             pc[r] \in {"body", "returning", "closing", "done"} /\ attempts[r] # <<>>
        /\ pc[r] \in Working \cup {"idle", "acquire"} => status[r] = 0

\* development.md:202: once a backend has answered, a later failure ends the
\* response and never asks another backend (forward returns from its loop).
NoRetryAfterAnswer ==
    [][\A r \in Requests : answered[r] # NoBackend =>
          attempts'[r] = attempts[r] /\ answered'[r] = answered[r]]_vars

\* The client sends its body and reads its response, or leaves.
ClientServes(r) == WF_vars(ctx[r] = "over" /\ WaitsForClient(r))

\* Whatever the engine, the backends and the client do, a handler that does not return
\* stays in the two places where it waits for its client, the upload and the response,
\* and nowhere else: the deadline bounds every other call it makes.  A request whose
\* client sends and reads, or leaves, returns and gives its slot back.
EveryRequestReturns ==
    \A r \in Requests :
        /\ <>[](pc[r] \in {"idle", "parse", "body", "done"})
        /\ ClientServes(r) => (pc[r] = "acquire" ~> pc[r] = "done" /\ r \notin slots)

\* development.md:202: the periodic health check brings a recovered backend back,
\* also one that was blamed for a request that its own client had cancelled; and a
\* backend whose probes fail from some time on leaves the candidates, also when a
\* late probe answer had marked it healthy (CheckHealth racing MarkFailure).
HealthFollows ==
    \A b \in Backends :
        /\ <>[](probe.at = b => probe.ok = "yes") => <>[]healthy[b]
        /\ <>[](probe.at = b => probe.ok = "no") => <>[]~healthy[b]
=============================================================================
