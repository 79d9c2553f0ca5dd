---------------------------- MODULE StreamPolicy -----------------------------
(***************************************************************************)
(* One streaming chat completion: the gateway goroutine that relays the    *)
(* backend's body (gateway/internal/gateway/server.go, forward and         *)
(* forwardStream), its policy session (gateway/internal/policyclient), and *)
(* the policy engine's task on the other end of the gRPC stream            *)
(* (policy-engine/src/service.rs, check_stream).                           *)
(*                                                                         *)
(* The gateway buffers what it reads, sends a copy to the engine, and      *)
(* hands the client the prefix of its buffer that the engine releases.     *)
(* Gateway and engine keep separate buffers and separate sequence numbers: *)
(* the release count is meaningful only while they agree.                  *)
(***************************************************************************)
EXTENDS StreamInspector

CONSTANTS
    MaxBody,        \* bound: lines in a body
    ChunkLines,     \* streamChunkBytes
    BufferLines,    \* streamBufferBytes
    MaxResponse,    \* max_response_bytes of the request context
    Estimates,      \* estimated_tokens of requests
    FailModes       \* policy fail modes of the tenants

ASSUME StreamAssumption ==
    /\ Lines \subseteq Line
    /\ MaxBody \in Nat /\ MaxResponse \in Nat
    /\ ChunkLines \in Nat \ {0} /\ BufferLines \in Nat \ {0}
    /\ TokenBudgets \subseteq Nat /\ Estimates \subseteq Nat
    /\ FailModes \subseteq {"open", "closed"}

VARIABLES
    request,        \* what the tenant's context and the request's content say
    ctx,            \* the request context: live, timed out, or client gone
    \* gateway
    gw,             \* where the handler is
    body,           \* everything read from the backend so far
    pending,        \* forwardStream's pending buffer
    readDone,       \* the read that returned the last chunk also returned an error
    delivered,      \* what was handed to the client's connection
    started,        \* responseStarted
    status,         \* observedWriter.status
    errorBody,      \* writeGatewayError has written its JSON object
    bypass,         \* the handler gave up inspection (fail open)
    outcome,        \* why the handler returned
    sequence,       \* StreamSession.sequence
    \* the gRPC stream, at most one message each way
    toEngine, toGateway,
    \* engine task
    eng,            \* idle, live, ended or crashed
    ePending,       \* StreamInspector.pending
    inspected,      \* StreamInspector.inspected_bytes
    semantic,       \* StreamInspector.semantic_bytes
    sawDone,        \* StreamInspector.saw_done
    budget,         \* StreamInspector.token_budget
    expected        \* expected_sequence

gwVars  == <<gw, body, pending, readDone, delivered, started, status,
             errorBody, bypass, outcome, sequence>>
engVars == <<eng, ePending, inspected, semantic, sawDone, budget, expected>>
vars    == <<request, ctx, gwVars, toEngine, toGateway, engVars>>

Request == [failMode : FailModes, tokenBudget : TokenBudgets,
            estimate : Estimates, clean : BOOLEAN]

Outcome == {"none", "complete", "rejected", "policy_failed", "protocol_error",
            "buffer_full", "client_gone", "no_backend", "bypassed"}

OpenMsg       == [type |-> "open"]
ChunkMsg(s,c) == [type |-> "chunk", seq |-> s, data |-> c]
CloseMsg(s)   == [type |-> "close", seq |-> s]
Answer(s,d,n) == [seq |-> s, decision |-> d, release |-> n]

Init ==
    /\ request \in Request
    /\ ctx = "live"
    /\ gw = "open" /\ body = <<>> /\ pending = <<>> /\ readDone = FALSE
    /\ delivered = <<>> /\ started = FALSE /\ status = 0 /\ errorBody = FALSE
    /\ bypass = FALSE /\ outcome = "none" /\ sequence = 0
    /\ toEngine = <<>> /\ toGateway = <<>>
    /\ eng = "idle" /\ ePending = <<>> /\ inspected = 0 /\ semantic = 0
    /\ sawDone = FALSE /\ budget = 0 /\ expected = 0

------------------------------------------------------------------------------
(* Writing to the client.  observedWriter keeps the first status only.  A   *)
(* write and the flush behind it take no context: they last as long as a    *)
(* connected client does not read (see WritesToClient).                     *)

WriteHeader(s) == status' = IF status = 0 THEN s ELSE status

\* The handler returns; an error object is written only before the first byte
\* (started' is FALSE), and the first byte has answered 200.
Fail(s, why) ==
    /\ gw' = "done" /\ outcome' = why
    /\ errorBody' = (errorBody \/ ~started')
    /\ WriteHeader(IF started' THEN 200 ELSE s)

\* The handler returns without writing anything more.
Return(why) == gw' = "done" /\ outcome' = why

\* A send fails at once when the context is over (Check and Close test ctx.Err).
Send(m) == toEngine' = IF ctx = "live" THEN <<m>> ELSE <<>>

------------------------------------------------------------------------------
(* forward: opening the policy stream and choosing a backend.               *)

OpenStream ==
    /\ gw = "open"
    /\ gw' = "opening"
    /\ Send(OpenMsg)
    /\ UNCHANGED <<request, ctx, body, pending, readDone, delivered, started, status,
                   errorBody, bypass, outcome, sequence, toGateway, engVars>>

OpenAnswered ==
    /\ gw = "opening" /\ toGateway # <<>>
    /\ toGateway' = <<>> /\ UNCHANGED started
    /\ IF toGateway[1].decision = "allow"
       THEN /\ gw' = "route" /\ sequence' = 1
            /\ UNCHANGED <<status, errorBody, outcome>>
       ELSE Fail(403, "rejected") /\ UNCHANGED sequence
    /\ UNCHANGED <<request, ctx, body, pending, readDone, delivered,
                   bypass, toEngine, engVars>>

\* The policy stream is broken: the engine died or the context is over.
Broken == eng = "crashed" \/ ctx # "live"

OpenFails ==
    /\ gw = "opening" /\ Broken
    /\ UNCHANGED started
    /\ IF request.failMode = "open"
       THEN /\ gw' = "route" /\ bypass' = TRUE
            /\ UNCHANGED <<status, errorBody, outcome>>
       ELSE Fail(503, "policy_failed") /\ UNCHANGED bypass
    /\ UNCHANGED <<request, ctx, body, pending, readDone, delivered,
                   sequence, toEngine, toGateway, engVars>>

\* No candidate, or every candidate failed before its response.
NoBackend ==
    /\ gw = "route" /\ UNCHANGED started
    /\ \E s \in {502, 503} : Fail(s, "no_backend")
    /\ UNCHANGED <<request, ctx, body, pending, readDone, delivered,
                   bypass, sequence, toEngine, toGateway, engVars>>

\* A backend answered 2xx; forwardStream starts.
BackendAnswers ==
    /\ gw = "route" /\ ctx = "live"
    /\ IF bypass
       THEN gw' = "copy" /\ WriteHeader(200)
       ELSE gw' = "read" /\ UNCHANGED status
    /\ UNCHANGED <<request, ctx, body, pending, readDone, delivered, started,
                   errorBody, bypass, outcome, sequence, toEngine, toGateway, engVars>>

------------------------------------------------------------------------------
(* forwardStream.                                                           *)

Chunks == UNION {[1..n -> Lines] : n \in 1..ChunkLines}

\* Read returns data, possibly with EOF or an error, and Check sends it on.
ReadChunk(chunk, last) ==
    /\ gw = "read" /\ ~readDone
    /\ Len(body) + Len(chunk) <= MaxBody
    /\ gw' = "check"
    /\ body' = body \o chunk
    /\ pending' = pending \o chunk
    /\ readDone' = last
    /\ Send(ChunkMsg(sequence, chunk))
    /\ UNCHANGED <<request, ctx, delivered, started, status, errorBody, bypass,
                   outcome, sequence, toGateway, engVars>>

\* The body is over (EOF and an error are treated alike): Close.
ReadEnd ==
    /\ gw = "read"
    /\ gw' = "close"
    /\ readDone' = TRUE
    /\ Send(CloseMsg(sequence))
    /\ UNCHANGED <<request, ctx, body, pending, delivered, started, status, errorBody,
                   bypass, outcome, sequence, toGateway, engVars>>

\* Write the first n pending lines, answering 200 first if nothing was written.
Release(n) ==
    /\ delivered' = delivered \o SubSeq(pending, 1, n)
    /\ pending' = SubSeq(pending, n + 1, Len(pending))
    /\ started' = (started \/ n > 0)

\* The policy stream failed under an open tenant: give the client the rest.
FailOpen ==
    /\ bypass' = TRUE
    /\ WriteHeader(200)
    /\ delivered' = delivered \o pending
    /\ pending' = <<>>
    /\ UNCHANGED errorBody

\* Mutant: a failed check opens every tenant's stream.
CheckFails_OpensAll ==
    /\ gw = "check"
    /\ Broken \/ (toGateway # <<>> /\ toGateway[1].seq # sequence)
    /\ UNCHANGED started
    /\ FailOpen /\ gw' = "copy" /\ UNCHANGED outcome
    /\ UNCHANGED <<request, ctx, body, readDone, sequence, toEngine, toGateway, engVars>>

\* Check returned an error (a lost stream, or an answer with another sequence).
CheckFails ==
    /\ gw = "check"
    /\ Broken \/ (toGateway # <<>> /\ toGateway[1].seq # sequence)
    /\ UNCHANGED started
    /\ IF request.failMode = "open"
       THEN FailOpen /\ gw' = "copy" /\ UNCHANGED outcome
       ELSE Fail(503, "policy_failed") /\ UNCHANGED <<bypass, delivered, pending>>
    /\ UNCHANGED <<request, ctx, body, readDone, sequence, toEngine, toGateway, engVars>>

\* The engine rejects, or claims more than the gateway holds.
Rejected(r) == /\ r.decision # "allow"
               /\ UNCHANGED <<delivered, pending, started>>
               /\ Fail(403, "rejected")

Overrun(r) == /\ r.decision = "allow" /\ r.release > Len(pending)
              /\ UNCHANGED <<delivered, pending, started>>
              /\ Fail(502, "protocol_error")

\* The client's connection refuses the write.
WriteRefused(r) == /\ r.decision = "allow" /\ r.release \in 1..Len(pending)
                   /\ ctx = "gone"
                   /\ WriteHeader(200) /\ started' = TRUE
                   /\ Return("client_gone")
                   /\ UNCHANGED <<delivered, pending, errorBody>>

\* The released prefix is written; what remains must fit the buffer.
Written(r) == /\ r.decision = "allow" /\ r.release \in 0..Len(pending)
              /\ Release(r.release)
              /\ IF Len(pending') <= BufferLines
                 THEN /\ gw' = "read"
                      /\ IF started' THEN WriteHeader(200) ELSE UNCHANGED status
                      /\ UNCHANGED <<errorBody, outcome>>
                 ELSE Fail(502, "buffer_full")

\* Check returned a decision.
CheckAnswered ==
    /\ gw = "check" /\ toGateway # <<>>
    /\ LET r == toGateway[1] IN
       /\ r.seq = sequence
       /\ Rejected(r) \/ Overrun(r) \/ WriteRefused(r) \/ Written(r)
    /\ sequence' = sequence + 1
    /\ toGateway' = <<>>
    /\ UNCHANGED <<request, ctx, body, readDone, bypass, toEngine, engVars>>

\* Close returned an error.
CloseFails ==
    /\ gw = "close"
    /\ Broken \/ (toGateway # <<>> /\ toGateway[1].seq # sequence)
    /\ UNCHANGED started
    /\ IF request.failMode = "open"
       THEN FailOpen /\ Return("bypassed")
       ELSE Fail(502, "policy_failed") /\ UNCHANGED <<bypass, delivered, pending>>
    /\ UNCHANGED <<request, ctx, body, readDone, sequence, toEngine, toGateway, engVars>>

\* The last release must leave nothing behind.
Finished(r) == /\ r.decision = "allow" /\ r.release \in 0..Len(pending)
               /\ Release(r.release)
               /\ IF pending' = <<>>
                  THEN /\ Return("complete")
                       /\ WriteHeader(200)
                       /\ UNCHANGED errorBody
                  ELSE Fail(502, "protocol_error")

\* Close returned a decision.
CloseAnswered ==
    /\ gw = "close" /\ toGateway # <<>>
    /\ LET r == toGateway[1] IN
       /\ r.seq = sequence
       /\ Rejected(r) \/ Overrun(r) \/ Finished(r)
    /\ toGateway' = <<>>
    /\ UNCHANGED <<request, ctx, body, readDone, bypass, sequence, toEngine, engVars>>

\* io.Copy: what the backend sends goes to the client uninspected.  Its reads end with
\* the context, its writes do not.
Copy(chunk) ==
    /\ gw = "copy" /\ ~readDone
    /\ Len(body) + Len(chunk) <= MaxBody
    /\ body' = body \o chunk
    /\ delivered' = delivered \o chunk
    /\ UNCHANGED <<request, ctx, gw, pending, readDone, started, status, errorBody,
                   bypass, outcome, sequence, toEngine, toGateway, engVars>>

CopyEnd ==
    /\ gw = "copy"
    /\ Return("bypassed")
    /\ UNCHANGED <<request, ctx, body, pending, readDone, delivered, started, status,
                   errorBody, bypass, sequence, toEngine, toGateway, engVars>>

------------------------------------------------------------------------------
(* check_stream: the engine's task.                                         *)

\* The open message: evaluate the request, answer, and go on when it is allowed.
EngineOpen ==
    /\ eng = "idle" /\ toEngine # <<>> /\ toEngine[1].type = "open"
    /\ toEngine' = <<>>
    /\ LET over == request.tokenBudget > 0 /\ request.estimate > request.tokenBudget
           ok   == request.clean /\ ~over
       IN  /\ toGateway' = <<Answer(0, IF ok THEN "allow" ELSE "block", 0)>>
           /\ eng' = IF ok THEN "live" ELSE "ended"
    /\ budget' = ResponseTokenBudget(request.tokenBudget, request.estimate)
    /\ expected' = 1
    /\ UNCHANGED <<request, ctx, gwVars, ePending, inspected, semantic, sawDone>>

\* A protocol violation or a rejection is answered and ends the task.
EngineStops(s) ==
    /\ toGateway' = <<Answer(s, "terminate", 0)>>
    /\ eng' = "ended"
    /\ UNCHANGED <<ePending, semantic, sawDone, expected>>

\* What an allowed chunk leaves in the engine.
InspectAllows(p, n, kept, next) ==
    /\ toGateway' = <<Answer(expected, "allow", n)>>
    /\ ePending' = kept
    /\ semantic' = semantic + TextBytes * Texts(p, n)
    /\ sawDone' = (sawDone \/ \E i \in 1..n : p[i] = "done")
    /\ expected' = next
    /\ UNCHANGED eng

\* Mutant: the expected sequence number is not advanced.
Inspect_SameSequence(p) ==
    \E n \in 0..Len(p) :
        /\ ReleasesUpTo(p, n)
        /\ IF EventsPass(p, n, sawDone, semantic, budget)
           THEN InspectAllows(p, n, SubSeq(p, n + 1, Len(p)), expected)
           ELSE EngineStops(expected)

\* inspect() on the buffer extended by the chunk.
Inspect(p) ==
    \E n \in 0..Len(p) :
        /\ ReleasesUpTo(p, n)
        /\ IF EventsPass(p, n, sawDone, semantic, budget)
           THEN InspectAllows(p, n, SubSeq(p, n + 1, Len(p)), expected + 1)
           ELSE EngineStops(expected)

EngineChunk ==
    /\ eng = "live" /\ toEngine # <<>> /\ toEngine[1].type = "chunk"
    /\ toEngine' = <<>>
    /\ LET m == toEngine[1] IN
       IF m.seq # expected
       THEN EngineStops(expected) /\ UNCHANGED inspected
       ELSE /\ inspected' = inspected + Len(m.data)
            /\ IF inspected' > MaxResponse
               THEN EngineStops(expected)
               ELSE Inspect(ePending \o m.data)
    /\ UNCHANGED <<request, ctx, gwVars, budget>>

EngineClose ==
    /\ eng = "live" /\ toEngine # <<>> /\ toEngine[1].type = "close"
    /\ toEngine' = <<>>
    /\ IF toEngine[1].seq = expected /\ FinishPasses(ePending, sawDone)
       THEN /\ toGateway' = <<Answer(expected, "allow", Len(ePending))>>
            /\ ePending' = <<>>
            /\ eng' = "ended"
            /\ UNCHANGED <<semantic, sawDone, expected>>
       ELSE EngineStops(expected)
    /\ UNCHANGED <<request, ctx, gwVars, inspected, budget>>

\* Mutant: the task does not notice that the handler has returned.
EngineCancelled_DeadlineOnly ==
    /\ eng = "live" /\ ctx # "live"
    /\ eng' = "ended"
    /\ UNCHANGED <<request, ctx, gwVars, toEngine, toGateway, ePending, inspected,
                   semantic, sawDone, budget, expected>>

\* The gateway's handler has returned or its context is over: inbound fails.
EngineCancelled ==
    /\ eng = "live" /\ (gw = "done" \/ ctx # "live")
    /\ eng' = "ended"
    /\ UNCHANGED <<request, ctx, gwVars, toEngine, toGateway, ePending, inspected,
                   semantic, sawDone, budget, expected>>

\* The engine's process dies; its answers already sent may still arrive.
EngineCrash ==
    /\ eng \in {"idle", "live"}
    /\ eng' = "crashed"
    /\ UNCHANGED <<request, ctx, gwVars, toEngine, toGateway, ePending, inspected,
                   semantic, sawDone, budget, expected>>

------------------------------------------------------------------------------
(* The request context: context.WithTimeout, and the client's connection.   *)

Timeout ==
    /\ ctx = "live" /\ gw # "done"
    /\ ctx' = "timeout"
    /\ UNCHANGED <<request, gwVars, toEngine, toGateway, engVars>>

\* The client closes its connection, before or after the deadline.
ClientGone ==
    /\ ctx # "gone" /\ gw # "done"
    /\ ctx' = "gone"
    /\ UNCHANGED <<request, gwVars, toEngine, toGateway, engVars>>

Gateway == \/ OpenStream \/ OpenAnswered \/ OpenFails
           \/ CheckFails \/ CheckAnswered \/ CloseFails \/ CloseAnswered

Backend == \/ NoBackend \/ BackendAnswers
           \/ \E chunk \in Chunks, last \in BOOLEAN : ReadChunk(chunk, last)
           \/ ReadEnd
           \/ \E chunk \in Chunks : Copy(chunk)
           \/ CopyEnd

Engine == EngineOpen \/ EngineChunk \/ EngineClose \/ EngineCancelled

Next == Gateway \/ Backend \/ Engine \/ EngineCrash \/ Timeout \/ ClientGone

Spec == Init /\ [][Next]_vars

(***************************************************************************)
(* Fairness.  The goroutine and the engine's task keep running; the        *)
(* request's deadline fires (config.RequestTimeout is positive); and a     *)
(* call to a backend or to the engine returns once its context is over.  A *)
(* backend owes nothing, and the engine may crash.  The client owes        *)
(* nothing either: a write to its connection takes no context and the      *)
(* server sets no WriteTimeout (main.go), so while a connected client does *)
(* not read, the handler may stay in that write for ever.                  *)
(***************************************************************************)
BackendGivesUp == ctx # "live" /\ (NoBackend \/ ReadEnd \/ CopyEnd)

\* The handler writes to the client before its next step ends: it copies, or it has an
\* answer that releases bytes, or it opens a broken stream.  (An
\* error object fits net/http's buffer; the client gets it after the handler returned.)
WritesToClient ==
    \/ gw = "copy"
    \/ /\ gw \in {"check", "close"}
       /\ \/ /\ toGateway # <<>> /\ toGateway[1].decision = "allow"
             /\ toGateway[1].release > 0
          \/ Broken /\ request.failMode = "open"

\* A write ends by itself only on a connection that is gone: with an error.
Unhindered == ~WritesToClient \/ ctx = "gone"

FairSpec == /\ Spec
            /\ WF_vars(Unhindered /\ Gateway) /\ WF_vars(Unhindered /\ BackendGivesUp)
            /\ WF_vars(Engine) /\ WF_vars(Timeout)

------------------------------------------------------------------------------
(* Types.                                                                   *)

EngineMsg == {OpenMsg}
        \cup [type : {"chunk"}, seq : Nat, data : Seq(Lines)]
        \cup [type : {"close"}, seq : Nat]
GatewayMsg == [seq : Nat, decision : {"allow", "block", "terminate"}, release : Nat]

\* Every variable of the handler, the stream and the engine has its type.
TypeOK ==
    /\ request \in Request
    /\ ctx \in {"live", "timeout", "gone"}
    /\ gw \in {"open", "opening", "route", "read", "check", "close", "copy", "done"}
    /\ body \in Seq(Lines) /\ pending \in Seq(Lines) /\ delivered \in Seq(Lines)
    /\ readDone \in BOOLEAN /\ started \in BOOLEAN
    /\ errorBody \in BOOLEAN /\ bypass \in BOOLEAN
    /\ status \in {0, 200, 403, 502, 503}
    /\ outcome \in Outcome
    /\ sequence \in Nat
    /\ toEngine \in Seq(EngineMsg) /\ Len(toEngine) <= 1
    /\ toGateway \in Seq(GatewayMsg) /\ Len(toGateway) <= 1
    /\ eng \in {"idle", "live", "ended", "crashed"}
    /\ ePending \in Seq(Lines)
    /\ inspected \in Nat /\ semantic \in Nat /\ budget \in Nat /\ expected \in Nat
    /\ sawDone \in BOOLEAN

------------------------------------------------------------------------------
(* Safety.                                                                  *)

\* The relay loses, repeats and reorders nothing: what the client has, followed
\* by what the gateway still holds, is what the backend sent (forwardStream's
\* append, drain and fail-open writes).
NothingLost == body = delivered \o pending

\* Unless the handler gave up inspection, and it does so only for an open tenant,
\* the client has only lines of events the engine passed: none violates the
\* policy, and the last one ends an event, so no part of an unfinished event
\* leaves the gateway, but for the white space behind [DONE] of a complete stream
\* (development.md:238, Go releases only what Rust approved).
OnlyApprovedReachesClient ==
    (~bypass \/ request.failMode = "closed") =>
      /\ \A i \in 1..Len(delivered) : delivered[i] \notin Violating
      /\ (delivered # <<>> /\ outcome # "complete") =>
            delivered[Len(delivered)] \in Blank

\* The engine's release count never exceeds the gateway's buffer, a closed policy
\* leaves nothing behind, and the two sequence numbers never part: the gateway's
\* STREAM_POLICY_PROTOCOL_ERROR branches are dead against this engine, and no line is
\* lost or repeated by the cutting of its buffer.
BuffersAgree ==
    /\ NothingLost
    /\ outcome # "protocol_error"
    /\ (gw \in {"opening", "check", "close"} /\ toGateway # <<>>) =>
          toGateway[1].seq = sequence
    /\ (gw \in {"check", "close"} /\ eng = "live" /\ toEngine # <<>>) =>
          toEngine[1].seq = expected

\* A stream that ended as complete gave the client the whole body, with [DONE]
\* in it (development.md:240, a stream without [DONE] is terminated).
CompleteMeansWhole ==
    outcome = "complete" =>
      /\ delivered = body /\ status = 200
      /\ \E i \in DOMAIN delivered : delivered[i] = "done"

\* The gateway's JSON error object is never mixed into an event stream: it is
\* written only when the client has no byte, and then with an error status.
ErrorStandsAlone ==
    /\ errorBody => delivered = <<>> /\ status >= 400
    /\ delivered # <<>> => status = 200

\* A client can tell from what it got how its stream ended.
OutcomeTold == CompleteMeansWhole /\ ErrorStandsAlone

\* What the gateway holds back is bounded: one chunk above the configured buffer
\* while the engine is asked, the configured buffer when it reads again.
BufferBounded ==
    /\ Len(pending) <= BufferLines + ChunkLines
    /\ gw = "read" => Len(pending) <= BufferLines

Said(s) == ConsumedTokens(TextBytes * Texts(s, Len(s)))

\* Prompt and inspected response stay within the tenant's token budget, when the
\* prompt leaves anything of it (service.rs response_token_budget).
BudgetKept ==
    (~bypass /\ request.estimate < request.tokenBudget) =>
      request.estimate + Said(delivered) <= request.tokenBudget

\* development.md:237: bytes are released only after the remaining token budget
\* has passed, whatever remains of it.
BudgetAlwaysKept ==
    (~bypass /\ request.tokenBudget > 0 /\ delivered # <<>>) =>
      request.estimate + Said(delivered) <= request.tokenBudget

------------------------------------------------------------------------------
(***************************************************************************)
(* The inductive invariant behind the safety theorems.  Its heart is       *)
(* SessionInSync: what the engine holds is what the gateway holds, up to   *)
(* the one message that is under way.                                      *)
(***************************************************************************)

\* Before forwardStream starts nothing has been read or written.
NothingYet ==
    gw \in {"open", "opening", "route"} =>
      body = <<>> /\ pending = <<>> /\ delivered = <<>>

\* Inspection is given up only for an open tenant, who then has everything read.
BypassIsOpen ==
    /\ bypass => request.failMode = "open" /\ pending = <<>>
    /\ gw = "copy" => bypass
    /\ gw \in {"open", "opening", "read", "check", "close"} => ~bypass
    /\ gw # "done" => outcome = "none"

\* What an answer to Check promises about the gateway's buffer.
AnswerFits(r) ==
    /\ r.seq = sequence
    /\ r.decision = "allow" =>
         /\ r.release \in 0..Len(pending)
         /\ \A i \in 1..r.release : pending[i] \notin Violating
         /\ r.release > 0 => pending[r.release] \in Blank
         /\ eng = "live" =>
              /\ expected = sequence + 1
              /\ ePending = SubSeq(pending, r.release + 1, Len(pending))

\* What an answer to Close promises.
FinalAnswerFits(r) ==
    /\ r.seq = sequence
    /\ r.decision = "allow" =>
         r.release = Len(pending) /\ \A i \in 1..Len(pending) : pending[i] = "ws"

SessionInSync ==
    /\ eng = "idle" => ePending = <<>>
    /\ gw = "open" => toEngine = <<>> /\ toGateway = <<>> /\ eng \in {"idle", "crashed"}
    /\ gw \in {"open", "opening"} => sequence = 0
    /\ gw = "opening" =>
         /\ toEngine # <<>> => toEngine[1] = OpenMsg /\ toGateway = <<>>
                               /\ eng \in {"idle", "crashed"}
         /\ toGateway # <<>> => eng # "idle" /\ toGateway[1].seq = 0
         /\ eng = "live" => expected = 1 /\ ePending = <<>>
    /\ (gw \in {"route", "read"} /\ ~bypass) =>
         /\ toEngine = <<>> /\ toGateway = <<>> /\ eng # "idle"
         /\ eng = "live" => expected = sequence /\ ePending = pending
    /\ gw = "check" =>
         /\ eng # "idle"
         /\ toEngine # <<>> =>
              /\ toGateway = <<>>
              /\ toEngine[1].type = "chunk" /\ toEngine[1].seq = sequence
              /\ eng = "live" => /\ expected = sequence
                                 /\ pending = ePending \o toEngine[1].data
         /\ toGateway # <<>> => AnswerFits(toGateway[1])
    /\ gw = "close" =>
         /\ eng # "idle"
         /\ toEngine # <<>> =>
              /\ toGateway = <<>>
              /\ toEngine[1] = CloseMsg(sequence)
              /\ eng = "live" => expected = sequence /\ ePending = pending
         /\ toGateway # <<>> => FinalAnswerFits(toGateway[1])

\* What the safety properties rest on: nothing is lost, what was delivered was
\* approved, and gateway and engine stay in step (forwardStream, StreamSession,
\* check_stream together).
IndInv ==
    /\ NothingYet
    /\ BypassIsOpen
    /\ SessionInSync
    /\ NothingLost
    /\ OnlyApprovedReachesClient
    /\ outcome # "protocol_error"

\* The status line follows the bytes: 200 goes out with the first byte, or with the
\* copy of an uninspected body, and no error object is written before the handler
\* returns (observedWriter, started in forwardStream).
HeaderFollows ==
    /\ gw # "done" => ~errorBody
    /\ gw = "copy" => status = 200
    /\ gw \notin {"copy", "done"} =>
         /\ started <=> delivered # <<>>
         /\ status = IF started THEN 200 ELSE 0

\* The engine has seen [DONE] only where the client has it or the answer under way
\* releases it, and it lets a stream close only then.
DoneIsDelivered ==
    /\ (gw \in {"open", "opening", "route"} /\ ~bypass) => ~sawDone
    /\ (gw \in {"read", "check", "close"} /\ sawDone) =>
         \/ \E i \in DOMAIN delivered : delivered[i] = "done"
         \/ /\ gw = "check" /\ toGateway # <<>> /\ toGateway[1].decision = "allow"
            /\ \E i \in 1..toGateway[1].release : pending[i] = "done"
    /\ (gw = "close" /\ toGateway # <<>> /\ toGateway[1].decision = "allow") => sawDone

\* Prompt and n text lines stay within the tenant's budget.
Affordable(n) ==
    request.estimate + ConsumedTokens(TextBytes * n) <= request.tokenBudget

TextsDelivered == Texts(delivered, Len(delivered))

\* What the answer to Check says of the text lines it releases.
AnswerAffordable(r) ==
    r.decision = "allow" =>
      /\ Affordable(TextsDelivered + Texts(pending, r.release))
      /\ eng = "live" => semantic = TextBytes * (TextsDelivered + Texts(pending, r.release))

\* The engine's count of semantic bytes is that of what the client has, and of what the
\* answer under way releases; neither leaves the budget.
TextsCounted ==
    (~bypass /\ request.estimate < request.tokenBudget) =>
      /\ eng = "idle" => semantic = 0
      /\ eng = "live" =>
           /\ budget = request.tokenBudget - request.estimate
           /\ (gw \in {"open", "opening", "route", "read"} \/ (gw = "check" /\ toGateway = <<>>)) =>
                semantic = TextBytes * TextsDelivered
      /\ (gw = "check" /\ toGateway # <<>>) => AnswerAffordable(toGateway[1])

------------------------------------------------------------------------------
(* Liveness.                                                                *)

\* The client reads what it is sent, or leaves: a write to it ends.
ClientReads == WF_vars(WritesToClient /\ (Gateway \/ BackendGivesUp))

\* No engine task outlives its request, whatever the backend, the client and the handler
\* do: it stops after its last answer, or when the handler's return or the deadline fails
\* its inbound stream, also while the handler is held in a write to a client that does
\* not read.  And the handler of a client that reads, or leaves, returns, so that its
\* deferred slot release runs (development.md:239, the request deadline bounds policy
\* checks); of a client that stays and does not read it need not.
StreamEnds ==
    /\ <>[](eng # "live")
    /\ ClientReads => <>[](gw = "done")

------------------------------------------------------------------------------
(* Refinement.                                                              *)

Phase == CASE gw = "done" -> "over"
           [] gw # "done" /\ bypass -> "open"
           [] OTHER -> "inspecting"

Contract == INSTANCE StreamContract
              WITH Forbidden <- Violating, mode <- request.failMode, phase <- Phase

\* The gateway, its policy session and the engine together implement the contract
\* with the client: every step of theirs is a contract step or leaves it unchanged.
ImplementsContract == Contract!Spec
=============================================================================
