------------------------- MODULE StreamPolicy_proofs -------------------------
(***************************************************************************)
(* Proofs about StreamPolicy and InspectorLoop, for every set of line      *)
(* kinds, every bound, every budget and every fail mode.                   *)
(***************************************************************************)
EXTENDS StreamPolicy, InspectorLoop, SequenceTheorems, FiniteSetTheorems,
        WellFoundedInduction, TLAPS

(***************************************************************************)
(* Facts about buffers.                                                    *)
(***************************************************************************)

\* A buffer cut at n: both parts are buffers, and together they are the buffer
\* (pending[:n] and pending[n:] in forwardStream, pending.drain(..n) in stream.rs).
LEMMA CutBuffer ==
    ASSUME NEW p \in Seq(Lines), NEW n \in 0..Len(p)
    PROVE  /\ SubSeq(p, 1, n) \in Seq(Lines)
           /\ SubSeq(p, n + 1, Len(p)) \in Seq(Lines)
           /\ Len(SubSeq(p, 1, n)) = n
           /\ \A i \in 1..n : SubSeq(p, 1, n)[i] = p[i]
           /\ SubSeq(p, 1, n) \o SubSeq(p, n + 1, Len(p)) = p
<1>1. /\ Len(p) \in Nat
      /\ \A i \in 1..Len(p) : p[i] \in Lines
  BY LenProperties, ElementOfSeq
<1>2. /\ SubSeq(p, 1, n) \in Seq(Lines)
      /\ Len(SubSeq(p, 1, n)) = n
      /\ \A i \in 1..n : SubSeq(p, 1, n)[i] = p[i]
  <2>1. \A i \in 1..n : p[i] \in Lines
    BY <1>1
  <2>2. /\ SubSeq(p, 1, n) \in Seq(Lines)
        /\ Len(SubSeq(p, 1, n)) = IF 1 <= n THEN n - 1 + 1 ELSE 0
        /\ \A i \in 1..(n - 1 + 1) : SubSeq(p, 1, n)[i] = p[1 + i - 1]
    BY <1>1, <2>1, SubSeqProperties
  <2> QED
    BY <1>1, <2>2
<1>3. SubSeq(p, n + 1, Len(p)) \in Seq(Lines)
  <2>1. \A i \in (n + 1)..Len(p) : p[i] \in Lines
    BY <1>1
  <2>2. n + 1 \in Int /\ Len(p) \in Int
    BY <1>1
  <2> QED
    BY <2>1, <2>2, SubSeqProperties
<1>4. SubSeq(p, 1, n) \o SubSeq(p, n + 1, Len(p)) = SubSeq(p, 1, Len(p))
  <2>1. 1 \in 1..(Len(p) + 1) /\ n \in (1 - 1)..Len(p) /\ Len(p) \in n..Len(p)
    BY <1>1
  <2> QED
    BY <2>1, ConcatAdjacentSubSeq
<1>5. SubSeq(p, 1, Len(p)) = p
  BY SubSeqFull
<1> QED
  BY <1>2, <1>3, <1>4, <1>5

\* Appending in two steps is appending at once.
LEMMA JoinBuffers ==
    ASSUME NEW s \in Seq(Lines), NEW t \in Seq(Lines), NEW u \in Seq(Lines)
    PROVE  (s \o t) \o u = s \o (t \o u)
  BY ConcatAssociative

\* What Read returns is a buffer with at least one line.
LEMMA ChunkIsBuffer ==
    ASSUME NEW c \in Chunks
    PROVE  c \in Seq(Lines)
<1>1. PICK n \in 1..ChunkLines : c \in [1..n -> Lines]
  BY DEF Chunks
<1>2. n \in Nat
  BY <1>1, StreamAssumption
<1> QED
  BY <1>1, <1>2, SeqDef

\* The number of text lines is a natural number.
LEMMA TextsIsNat ==
    ASSUME NEW p, NEW n \in Nat
    PROVE  Texts(p, n) \in Nat
<1>1. IsFiniteSet(1..n)
  BY FS_Interval
<1>2. IsFiniteSet({i \in 1..n : p[i] = "text"})
  BY <1>1, FS_Subset
<1> QED
  BY <1>2, FS_CardinalityType DEF Texts

(***************************************************************************)
(* Type correctness.                                                       *)
(***************************************************************************)

LEMMA InitTypeOK == Init => TypeOK
<1> SUFFICES ASSUME Init PROVE TypeOK
  OBVIOUS
<1>1. \A S : <<>> \in Seq(S) /\ Len(<<>>) = 0
  BY EmptySeq
<1>2. /\ readDone \in BOOLEAN /\ started \in BOOLEAN /\ sawDone \in BOOLEAN
      /\ errorBody \in BOOLEAN /\ bypass \in BOOLEAN
  BY Zenon DEF Init
<1> QED
  BY <1>1, <1>2 DEF Init, TypeOK, Outcome

\* Messages the gateway and the engine send are messages.
LEMMA OneMessage ==
    ASSUME NEW S, NEW m \in S
    PROVE  <<m>> \in Seq(S) /\ Len(<<m>>) = 1 /\ <<m>>[1] = m
  OBVIOUS

LEMMA FirstMessage ==
    ASSUME NEW S, NEW s \in Seq(S), s # <<>>, Len(s) <= 1
    PROVE  s[1] \in S /\ Len(s) = 1
<1>1. Len(s) \in Nat \ {0}
  BY EmptySeq
<1>2. Len(s) = 1
  BY <1>1
<1>3. 1 \in 1..Len(s)
  BY <1>2
<1> QED
  BY <1>2, <1>3, ElementOfSeq

\* Sending keeps the wire typed.
LEMMA SendTyped ==
    ASSUME NEW m \in EngineMsg, Send(m)
    PROVE  toEngine' \in Seq(EngineMsg) /\ Len(toEngine') <= 1
<1>1. <<m>> \in Seq(EngineMsg) /\ Len(<<m>>) = 1
  BY OneMessage
<1>2. <<>> \in Seq(EngineMsg) /\ Len(<<>>) = 0
  BY EmptySeq
<1> QED
  BY <1>1, <1>2 DEF Send

\* What a returning handler writes has its type.
LEMMA FailTyped ==
    ASSUME TypeOK, NEW s \in {403, 502, 503}, NEW why \in Outcome, Fail(s, why),
           started' \in BOOLEAN
    PROVE  /\ status' \in {0, 200, 403, 502, 503} /\ errorBody' \in BOOLEAN
           /\ gw' = "done" /\ outcome' \in Outcome
<1>1. errorBody' \in BOOLEAN
  BY Zenon DEF Fail
<1>2. status' \in {0, 200, 403, 502, 503}
  BY SMT DEF Fail, WriteHeader, TypeOK
<1> QED
  BY <1>1, <1>2 DEF Fail

\* The variables of the handler that an answer of the engine may change.
AnswerTypeOK ==
    /\ gw \in {"read", "done"}
    /\ delivered \in Seq(Lines) /\ pending \in Seq(Lines)
    /\ started \in BOOLEAN /\ errorBody \in BOOLEAN
    /\ status \in {0, 200, 403, 502, 503} /\ outcome \in Outcome

LEMMA RejectedTyped ==
    ASSUME TypeOK, NEW r, Rejected(r)
    PROVE  AnswerTypeOK'
<1>1. Fail(403, "rejected") /\ UNCHANGED <<delivered, pending, started>>
  BY DEF Rejected
<1>2. "rejected" \in Outcome
  BY DEF Outcome
<1>3. started' \in BOOLEAN
  BY <1>1 DEF TypeOK
<1> QED
  BY <1>1, <1>2, <1>3, FailTyped DEF AnswerTypeOK, TypeOK

LEMMA OverrunTyped ==
    ASSUME TypeOK, NEW r, Overrun(r)
    PROVE  AnswerTypeOK'
<1>1. Fail(502, "protocol_error") /\ UNCHANGED <<delivered, pending, started>>
  BY DEF Overrun
<1>2. "protocol_error" \in Outcome
  BY DEF Outcome
<1>3. started' \in BOOLEAN
  BY <1>1 DEF TypeOK
<1> QED
  BY <1>1, <1>2, <1>3, FailTyped DEF AnswerTypeOK, TypeOK

LEMMA ReleaseTyped ==
    ASSUME TypeOK, NEW n \in 0..Len(pending), Release(n)
    PROVE  delivered' \in Seq(Lines) /\ pending' \in Seq(Lines) /\ started' \in BOOLEAN
<1>1. pending \in Seq(Lines) /\ delivered \in Seq(Lines)
  BY DEF TypeOK
<1>2. /\ SubSeq(pending, 1, n) \in Seq(Lines)
      /\ SubSeq(pending, n + 1, Len(pending)) \in Seq(Lines)
  BY <1>1, CutBuffer
<1>3. delivered \o SubSeq(pending, 1, n) \in Seq(Lines)
  BY <1>1, <1>2, ConcatProperties
<1>4. started' \in BOOLEAN
  BY Zenon DEF Release
<1> QED
  BY <1>2, <1>3, <1>4 DEF Release

LEMMA WrittenTyped ==
    ASSUME TypeOK, NEW r, Written(r)
    PROVE  AnswerTypeOK'
<1>1. delivered' \in Seq(Lines) /\ pending' \in Seq(Lines) /\ started' \in BOOLEAN
  BY ReleaseTyped DEF Written
<1>2. CASE Len(pending') <= BufferLines
  <2>1. gw' = "read" /\ UNCHANGED <<errorBody, outcome>>
    BY <1>2 DEF Written
  <2>2. status' \in {0, 200, 403, 502, 503}
    BY <1>2 DEF Written, WriteHeader, TypeOK
  <2> QED
    BY <1>1, <2>1, <2>2 DEF AnswerTypeOK, TypeOK
<1>3. CASE ~(Len(pending') <= BufferLines)
  <2>1. Fail(502, "buffer_full")
    BY <1>3 DEF Written
  <2>2. "buffer_full" \in Outcome
    BY DEF Outcome
  <2> QED
    BY <1>1, <2>1, <2>2, FailTyped DEF AnswerTypeOK
<1> QED
  BY <1>2, <1>3

LEMMA FinishedTyped ==
    ASSUME TypeOK, NEW r, Finished(r)
    PROVE  AnswerTypeOK'
<1>1. delivered' \in Seq(Lines) /\ pending' \in Seq(Lines) /\ started' \in BOOLEAN
  BY ReleaseTyped DEF Finished
<1>2. CASE pending' = <<>>
  <2>1. gw' = "done" /\ outcome' = "complete" /\ UNCHANGED errorBody
    BY <1>2 DEF Finished, Return
  <2>2. status' \in {0, 200, 403, 502, 503}
    BY <1>2 DEF Finished, WriteHeader, TypeOK
  <2> QED
    BY <1>1, <2>1, <2>2 DEF AnswerTypeOK, TypeOK, Outcome
<1>3. CASE pending' # <<>>
  <2>1. Fail(502, "protocol_error")
    BY <1>3 DEF Finished
  <2>2. "protocol_error" \in Outcome
    BY DEF Outcome
  <2> QED
    BY <1>1, <2>1, <2>2, FailTyped DEF AnswerTypeOK
<1> QED
  BY <1>2, <1>3

LEMMA FailOpenTyped ==
    ASSUME TypeOK, FailOpen
    PROVE  /\ delivered' \in Seq(Lines) /\ pending' \in Seq(Lines)
           /\ bypass' \in BOOLEAN /\ errorBody' \in BOOLEAN
           /\ status' \in {0, 200, 403, 502, 503}
<1>1. delivered \o pending \in Seq(Lines)
  BY ConcatProperties DEF TypeOK
<1>2. <<>> \in Seq(Lines)
  BY EmptySeq
<1>3. status' \in {0, 200, 403, 502, 503}
  BY DEF FailOpen, WriteHeader, TypeOK
<1>4. bypass' \in BOOLEAN
  BY Zenon DEF FailOpen
<1> QED
  BY <1>1, <1>2, <1>3, <1>4 DEF FailOpen, TypeOK

\* An answer of the engine is one message.
LEMMA AnswerTyped ==
    ASSUME NEW s \in Nat, NEW d \in {"allow", "block", "terminate"}, NEW n \in Nat
    PROVE  /\ <<Answer(s, d, n)>> \in Seq(GatewayMsg)
           /\ Len(<<Answer(s, d, n)>>) <= 1
<1>1. Answer(s, d, n) \in GatewayMsg
  BY DEF Answer, GatewayMsg
<1> QED
  BY <1>1, OneMessage

\* The variables of the engine's task and its answer.
EngineTypeOK ==
    /\ toGateway \in Seq(GatewayMsg) /\ Len(toGateway) <= 1
    /\ eng \in {"idle", "live", "ended", "crashed"}
    /\ ePending \in Seq(Lines)
    /\ semantic \in Nat /\ expected \in Nat /\ sawDone \in BOOLEAN

LEMMA StopsTyped ==
    ASSUME TypeOK, EngineStops(expected)
    PROVE  EngineTypeOK'
<1>1. /\ <<Answer(expected, "terminate", 0)>> \in Seq(GatewayMsg)
      /\ Len(<<Answer(expected, "terminate", 0)>>) <= 1
  BY AnswerTyped DEF TypeOK
<1> QED
  BY <1>1 DEF EngineStops, EngineTypeOK, TypeOK

LEMMA InspectTyped ==
    ASSUME TypeOK, NEW p \in Seq(Lines), Inspect(p)
    PROVE  EngineTypeOK'
<1>1. PICK n \in 0..Len(p) :
        IF EventsPass(p, n, sawDone, semantic, budget)
        THEN /\ toGateway' = <<Answer(expected, "allow", n)>>
             /\ ePending' = SubSeq(p, n + 1, Len(p))
             /\ semantic' = semantic + TextBytes * Texts(p, n)
             /\ sawDone' = (sawDone \/ \E i \in 1..n : p[i] = "done")
             /\ expected' = expected + 1
             /\ UNCHANGED eng
        ELSE EngineStops(expected)
  BY DEF Inspect, InspectAllows
<1>2. CASE EventsPass(p, n, sawDone, semantic, budget)
  <2>1. n \in Nat
    BY LenProperties
  <2>2. /\ <<Answer(expected, "allow", n)>> \in Seq(GatewayMsg)
        /\ Len(<<Answer(expected, "allow", n)>>) <= 1
    BY <2>1, AnswerTyped DEF TypeOK
  <2>3. SubSeq(p, n + 1, Len(p)) \in Seq(Lines)
    BY CutBuffer
  <2>4. sawDone' \in BOOLEAN
    BY <1>1, <1>2, Zenon
  <2>5. semantic' \in Nat
    <3>1. Texts(p, n) \in Nat
      BY <2>1, TextsIsNat
    <3>2. TextBytes * Texts(p, n) \in Nat
      BY <3>1, TextBytesAssumption
    <3> QED
      BY <1>1, <1>2, <3>2 DEF TypeOK
  <2>6. expected' \in Nat /\ eng' \in {"idle", "live", "ended", "crashed"}
    BY <1>1, <1>2 DEF TypeOK
  <2> QED
    BY <1>1, <1>2, <2>2, <2>3, <2>4, <2>5, <2>6 DEF EngineTypeOK
<1>3. CASE ~EventsPass(p, n, sawDone, semantic, budget)
  BY <1>1, <1>3, StopsTyped
<1> QED
  BY <1>2, <1>3

LEMMA NextTypeOK == TypeOK /\ [Next]_vars => TypeOK'
<1> SUFFICES ASSUME TypeOK, [Next]_vars PROVE TypeOK'
  OBVIOUS
<1> USE DEF TypeOK
<1>0. \A S : <<>> \in Seq(S) /\ Len(<<>>) = 0
  BY EmptySeq
<1>1. CASE OpenStream
  <2>1. OpenMsg \in EngineMsg
    BY DEF EngineMsg
  <2>2. toEngine' \in Seq(EngineMsg) /\ Len(toEngine') <= 1
    BY <1>1, <2>1, SendTyped DEF OpenStream
  <2> QED
    BY <1>1, <2>2 DEF OpenStream, engVars
<1>2. CASE OpenAnswered
  <2>1. CASE toGateway[1].decision = "allow"
    BY <1>0, <1>2, <2>1 DEF OpenAnswered, engVars
  <2>2. CASE toGateway[1].decision # "allow"
    <3>1. Fail(403, "rejected") /\ started' = started
      BY <1>2, <2>2 DEF OpenAnswered
    <3>2. "rejected" \in Outcome
      BY DEF Outcome
    <3> QED
      BY <1>0, <1>2, <2>2, <3>1, <3>2, FailTyped DEF OpenAnswered, engVars
  <2> QED
    BY <2>1, <2>2
<1>3. CASE OpenFails
  <2>1. CASE request.failMode = "open"
    BY <1>3, <2>1 DEF OpenFails, engVars
  <2>2. CASE request.failMode # "open"
    <3>1. Fail(503, "policy_failed") /\ started' = started
      BY <1>3, <2>2 DEF OpenFails
    <3>2. "policy_failed" \in Outcome
      BY DEF Outcome
    <3> QED
      BY <1>3, <2>2, <3>1, <3>2, FailTyped DEF OpenFails, engVars
  <2> QED
    BY <2>1, <2>2
<1>4. CASE NoBackend
  BY <1>4 DEF NoBackend, engVars, Fail, WriteHeader, Outcome
<1>5. CASE BackendAnswers
  BY <1>5 DEF BackendAnswers, engVars, WriteHeader
<1>6. ASSUME NEW chunk \in Chunks, NEW last \in BOOLEAN, ReadChunk(chunk, last)
      PROVE  TypeOK'
  <2>1. chunk \in Seq(Lines)
    BY ChunkIsBuffer
  <2>2. ChunkMsg(sequence, chunk) \in EngineMsg
    BY <2>1 DEF ChunkMsg, EngineMsg
  <2>3. toEngine' \in Seq(EngineMsg) /\ Len(toEngine') <= 1
    BY <1>6, <2>2, SendTyped DEF ReadChunk
  <2>4. body' \in Seq(Lines) /\ pending' \in Seq(Lines)
    BY <1>6, <2>1, ConcatProperties DEF ReadChunk
  <2> QED
    BY <1>6, <2>3, <2>4 DEF ReadChunk, engVars
<1>7. CASE ReadEnd
  <2>1. CloseMsg(sequence) \in EngineMsg
    BY DEF CloseMsg, EngineMsg
  <2>2. toEngine' \in Seq(EngineMsg) /\ Len(toEngine') <= 1
    BY <1>7, <2>1, SendTyped DEF ReadEnd
  <2> QED
    BY <1>7, <2>2 DEF ReadEnd, engVars
<1>8. CASE CheckFails
  <2>2. CASE request.failMode = "open"
    <3>1. FailOpen /\ UNCHANGED <<request, ctx, started, outcome>> /\ gw' = "copy"
      BY <1>8, <2>2 DEF CheckFails
    <3> QED
      BY <1>8, <3>1, FailOpenTyped DEF CheckFails, engVars
  <2>3. CASE request.failMode # "open"
    <3>1. Fail(503, "policy_failed") /\ started' = started
      BY <1>8, <2>3 DEF CheckFails
    <3>2. "policy_failed" \in Outcome
      BY DEF Outcome
    <3> QED
      BY <1>8, <2>3, <3>1, <3>2, FailTyped DEF CheckFails, engVars
  <2> QED
    BY <2>2, <2>3
<1>9. CASE CloseFails
  <2>2. CASE request.failMode = "open"
    <3>1. FailOpen /\ UNCHANGED <<request, ctx, started>> /\ Return("bypassed")
      BY <1>9, <2>2 DEF CloseFails
    <3> QED
      BY <1>9, <3>1, FailOpenTyped DEF CloseFails, engVars, Return, Outcome
  <2>3. CASE request.failMode # "open"
    <3>1. Fail(502, "policy_failed") /\ started' = started
      BY <1>9, <2>3 DEF CloseFails
    <3>2. "policy_failed" \in Outcome
      BY DEF Outcome
    <3> QED
      BY <1>9, <2>3, <3>1, <3>2, FailTyped DEF CloseFails, engVars
  <2> QED
    BY <2>2, <2>3
<1>10. CASE CheckAnswered
  <2> DEFINE r == toGateway[1]
  <2>1. /\ sequence' \in Nat /\ toGateway' = <<>>
        /\ UNCHANGED <<request, ctx, body, readDone, bypass, toEngine, engVars>>
    BY <1>10 DEF CheckAnswered
  <2>2. CASE Rejected(r)
    BY <1>0, <2>1, <2>2, RejectedTyped DEF AnswerTypeOK, engVars
  <2>3. CASE Overrun(r)
    BY <1>0, <2>1, <2>3, OverrunTyped DEF AnswerTypeOK, engVars
  <2>4. CASE WriteRefused(r)
    BY <1>0, <2>1, <2>4 DEF WriteRefused, WriteHeader, Return, Outcome, engVars
  <2>5. CASE Written(r)
    BY <1>0, <2>1, <2>5, WrittenTyped DEF AnswerTypeOK, engVars
  <2> QED
    BY <1>10, <2>2, <2>3, <2>4, <2>5 DEF CheckAnswered
<1>12. CASE CloseAnswered
  <2> DEFINE r == toGateway[1]
  <2>1. /\ toGateway' = <<>>
        /\ UNCHANGED <<request, ctx, body, readDone, bypass, sequence, toEngine, engVars>>
    BY <1>12 DEF CloseAnswered
  <2>2. CASE Rejected(r)
    BY <1>0, <2>1, <2>2, RejectedTyped DEF AnswerTypeOK, engVars
  <2>3. CASE Overrun(r)
    BY <1>0, <2>1, <2>3, OverrunTyped DEF AnswerTypeOK, engVars
  <2>4. CASE Finished(r)
    BY <1>0, <2>1, <2>4, FinishedTyped DEF AnswerTypeOK, engVars
  <2> QED
    BY <1>12, <2>2, <2>3, <2>4 DEF CloseAnswered
<1>13. ASSUME NEW chunk \in Chunks, Copy(chunk)
       PROVE  TypeOK'
  <2>1. body' \in Seq(Lines) /\ delivered' \in Seq(Lines)
    BY <1>13, ChunkIsBuffer, ConcatProperties DEF Copy
  <2> QED
    BY <1>13, <2>1 DEF Copy, engVars
<1>14. CASE CopyEnd
  BY <1>14 DEF CopyEnd, engVars, Return, Outcome
<1>15. CASE EngineOpen
  <2> DEFINE over == request.tokenBudget > 0 /\ request.estimate > request.tokenBudget
             ok   == request.clean /\ ~over
  <2>1. request.tokenBudget \in Nat /\ request.estimate \in Nat
    BY StreamAssumption DEF Request
  <2>2. budget' \in Nat
    BY <1>15, <2>1 DEF EngineOpen, ResponseTokenBudget
  <2>3. (IF ok THEN "allow" ELSE "block") \in {"allow", "block", "terminate"}
    OBVIOUS
  <2>4. toGateway' = <<Answer(0, IF ok THEN "allow" ELSE "block", 0)>>
    BY <1>15, Zenon DEF EngineOpen
  <2>5. toGateway' \in Seq(GatewayMsg) /\ Len(toGateway') <= 1
    <3> HIDE DEF ok
    <3>1. 0 \in Nat
      OBVIOUS
    <3> QED
      BY <2>3, <2>4, <3>1, AnswerTyped
  <2>6. eng' \in {"idle", "live", "ended", "crashed"}
    BY <1>15 DEF EngineOpen
  <2> QED
    BY <1>0, <1>15, <2>2, <2>5, <2>6 DEF EngineOpen, gwVars
<1>16. CASE EngineChunk
  <2> DEFINE m == toEngine[1]
  <2>1. m \in EngineMsg /\ m.type = "chunk"
    BY <1>16, FirstMessage DEF EngineChunk
  <2>2. m.data \in Seq(Lines)
    BY <2>1 DEF EngineMsg, OpenMsg
  <2>3. ePending \o m.data \in Seq(Lines) /\ Len(m.data) \in Nat
    BY <2>2, ConcatProperties, LenProperties
  <2>4. EngineTypeOK'
    <3>1. EngineStops(expected) \/ Inspect(ePending \o m.data)
      BY <1>16, Zenon DEF EngineChunk
    <3> QED
      BY <2>3, <3>1, StopsTyped, InspectTyped
  <2>5. inspected' \in Nat
    BY <1>16, <2>3 DEF EngineChunk
  <2> QED
    BY <1>0, <1>16, <2>4, <2>5 DEF EngineChunk, EngineTypeOK, gwVars
<1>17. CASE EngineClose
  <2>1. Len(ePending) \in Nat
    BY LenProperties
  <2>2. /\ <<Answer(expected, "allow", Len(ePending))>> \in Seq(GatewayMsg)
        /\ Len(<<Answer(expected, "allow", Len(ePending))>>) <= 1
    BY <2>1, AnswerTyped
  <2>3. EngineTypeOK'
    <3>1. CASE toEngine[1].seq = expected /\ FinishPasses(ePending, sawDone)
      BY <1>0, <1>17, <2>2, <3>1 DEF EngineClose, EngineTypeOK
    <3>2. CASE ~(toEngine[1].seq = expected /\ FinishPasses(ePending, sawDone))
      BY <1>17, <3>2, StopsTyped DEF EngineClose
    <3> QED
      BY <3>1, <3>2
  <2> QED
    BY <1>0, <1>17, <2>3 DEF EngineClose, EngineTypeOK, gwVars
<1>18. CASE EngineCancelled
  BY <1>18 DEF EngineCancelled, gwVars
<1>19. CASE EngineCrash
  BY <1>19 DEF EngineCrash, gwVars
<1>20. CASE Timeout
  BY <1>20 DEF Timeout, gwVars, engVars
<1>21. CASE ClientGone
  BY <1>21 DEF ClientGone, gwVars, engVars
<1>22. CASE UNCHANGED vars
  BY <1>22 DEF vars, gwVars, engVars
<1> QED
  BY <1>1, <1>2, <1>3, <1>4, <1>5, <1>6, <1>7, <1>8, <1>9, <1>10, <1>12, <1>13,
     <1>14, <1>15, <1>16, <1>17, <1>18, <1>19, <1>20, <1>21, <1>22
     DEF Next, Gateway, Backend, Engine

\* Every reachable state of handler, session and engine is well typed (TypeOK).
THEOREM TypeCorrect == Spec => []TypeOK
<1> QED
  BY InitTypeOK, NextTypeOK, PTL DEF Spec

(***************************************************************************)
(* Safety.                                                                 *)
(***************************************************************************)

\* Releasing a prefix moves lines from the buffer to the client, in order.
LEMMA ReleaseMoves ==
    ASSUME TypeOK, NEW n \in 0..Len(pending), Release(n)
    PROVE  /\ delivered' \o pending' = delivered \o pending
           /\ Len(delivered') = Len(delivered) + n
           /\ \A i \in 1..Len(delivered) : delivered'[i] = delivered[i]
           /\ \A i \in 1..n : delivered'[Len(delivered) + i] = pending[i]
<1> DEFINE front == SubSeq(pending, 1, n)
           back  == SubSeq(pending, n + 1, Len(pending))
<1>1. pending \in Seq(Lines) /\ delivered \in Seq(Lines)
  BY DEF TypeOK
<1>2. /\ front \in Seq(Lines) /\ back \in Seq(Lines)
      /\ Len(front) = n
      /\ \A i \in 1..n : front[i] = pending[i]
      /\ front \o back = pending
  BY <1>1, CutBuffer
<1>3. delivered' = delivered \o front /\ pending' = back
  BY DEF Release
<1> HIDE DEF front, back
<1>4. (delivered \o front) \o back = delivered \o (front \o back)
  BY <1>1, <1>2, JoinBuffers
<1>5. /\ Len(delivered \o front) = Len(delivered) + Len(front)
      /\ \A i \in 1..(Len(delivered) + Len(front)) : (delivered \o front)[i] =
            IF i <= Len(delivered) THEN delivered[i] ELSE front[i - Len(delivered)]
  BY <1>1, <1>2, ConcatProperties
<1>6. Len(delivered) \in Nat /\ n \in Nat
  BY <1>1, LenProperties
<1>7. \A i \in 1..Len(delivered) : delivered'[i] = delivered[i]
  BY <1>2, <1>3, <1>5, <1>6
<1>8. \A i \in 1..n : delivered'[Len(delivered) + i] = pending[i]
  <2> SUFFICES ASSUME NEW i \in 1..n
               PROVE  delivered'[Len(delivered) + i] = pending[i]
    OBVIOUS
  <2>1. /\ Len(delivered) + i \in 1..(Len(delivered) + Len(front))
        /\ ~(Len(delivered) + i <= Len(delivered))
        /\ Len(delivered) + i - Len(delivered) = i
    BY <1>2, <1>6
  <2> QED
    BY <1>2, <1>3, <1>5, <2>1
<1> QED
  BY <1>2, <1>3, <1>4, <1>5, <1>7, <1>8

\* Releasing approved lines keeps what the client has approved.
LEMMA ReleaseKeepsApproved ==
    ASSUME TypeOK, OnlyApprovedReachesClient, ~bypass, outcome = "none",
           NEW n \in 0..Len(pending), Release(n),
           \A i \in 1..n : pending[i] \notin Violating,
           n > 0 => pending[n] \in Blank
    PROVE  /\ \A i \in 1..Len(delivered') : delivered'[i] \notin Violating
           /\ delivered' # <<>> => delivered'[Len(delivered')] \in Blank
<1>1. /\ Len(delivered') = Len(delivered) + n
      /\ \A i \in 1..Len(delivered) : delivered'[i] = delivered[i]
      /\ \A i \in 1..n : delivered'[Len(delivered) + i] = pending[i]
  BY ReleaseMoves
<1>2. Len(delivered) \in Nat /\ n \in Nat
  BY LenProperties DEF TypeOK
<1>3. /\ \A i \in 1..Len(delivered) : delivered[i] \notin Violating
      /\ delivered # <<>> => delivered[Len(delivered)] \in Blank
  BY DEF OnlyApprovedReachesClient
<1>4. ASSUME NEW i \in 1..Len(delivered')
      PROVE  delivered'[i] \notin Violating
  <2>1. CASE i <= Len(delivered)
    BY <1>1, <1>2, <1>3, <2>1
  <2>2. CASE i > Len(delivered)
    <3> DEFINE j == i - Len(delivered)
    <3>1. j \in 1..n /\ Len(delivered) + j = i
      BY <1>1, <1>2, <2>2
    <3> QED
      BY <1>1, <3>1
  <2> QED
    BY <1>1, <1>2, <2>1, <2>2
<1>5. ASSUME delivered' # <<>>
      PROVE  delivered'[Len(delivered')] \in Blank
  <2>1. CASE n > 0
    <3>1. n \in 1..n
      BY <1>2, <2>1
    <3> QED
      BY <1>1, <2>1, <3>1
  <2>2. CASE n = 0
    <3>1. delivered' \in Seq(Lines) /\ delivered \in Seq(Lines)
      BY ReleaseTyped DEF TypeOK
    <3>2. Len(delivered') # 0
      BY <1>5, <3>1, EmptySeq
    <3>3. Len(delivered) # 0 /\ Len(delivered') = Len(delivered)
      BY <1>1, <1>2, <2>2, <3>2
    <3>4. delivered # <<>>
      BY <3>3, EmptySeq
    <3>5. Len(delivered) \in 1..Len(delivered)
      BY <1>2, <3>3
    <3> QED
      BY <1>1, <1>3, <3>3, <3>4, <3>5
  <2> QED
    BY <1>2, <2>1, <2>2
<1> QED
  BY <1>4, <1>5

LEMMA InitIndInv == Init => IndInv
<1> SUFFICES ASSUME Init PROVE IndInv
  OBVIOUS
<1>1. <<>> \o <<>> = <<>>
  BY EmptySeq, ConcatEmptySeq
<1>2. Len(<<>>) = 0
  BY EmptySeq
<1>3. NothingYet /\ BypassIsOpen /\ SessionInSync /\ outcome # "protocol_error"
  BY DEF Init, NothingYet, BypassIsOpen, SessionInSync
<1>4. NothingLost
  BY <1>1 DEF Init, NothingLost
<1>5. OnlyApprovedReachesClient
  BY <1>2 DEF Init, OnlyApprovedReachesClient
<1> QED
  BY <1>3, <1>4, <1>5 DEF IndInv

\* Messages are read as they were sent.
LEMMA SendSends ==
    ASSUME NEW m, Send(m)
    PROVE  toEngine' # <<>> => toEngine'[1] = m
  BY DEF Send

\* Giving up inspection for an open tenant hands over the whole buffer.
LEMMA FailOpenKeeps ==
    ASSUME TypeOK, IndInv, SessionInSync', FailOpen, request.failMode = "open",
           UNCHANGED <<request, body>>,
           \/ gw' = "copy" /\ outcome' = outcome /\ outcome = "none"
           \/ gw' = "done" /\ outcome' = "bypassed"
    PROVE  IndInv'
<1>1. /\ bypass' = TRUE /\ delivered' = delivered \o pending /\ pending' = <<>>
      /\ request' = request /\ body' = body
  BY DEF FailOpen
<1>2. delivered \o pending \in Seq(Lines)
  BY ConcatProperties DEF TypeOK
<1>3. (delivered \o pending) \o <<>> = delivered \o pending
  BY <1>2, ConcatEmptySeq
<1>4. NothingLost'
  BY <1>1, <1>3 DEF NothingLost, IndInv
<1>5. bypass'
  BY <1>1
<1> QED
  BY <1>1, <1>4, <1>5 DEF IndInv, NothingYet, BypassIsOpen, OnlyApprovedReachesClient

\* An engine step leaves the gateway's own state, so what remains to show is that
\* the session stays in step.
LEMMA GatewayUntouched ==
    ASSUME IndInv, UNCHANGED <<request, gwVars>>, SessionInSync'
    PROVE  IndInv'
  BY DEF IndInv, gwVars, NothingYet, BypassIsOpen, NothingLost, OnlyApprovedReachesClient

\* Only a handler that waits for an answer or has stopped asking has a message
\* under way.
LEMMA WhoHasSent ==
    ASSUME TypeOK, IndInv, toEngine # <<>>, gw \in {"opening", "check", "close"} => FALSE
    PROVE  gw \in {"copy", "done"} \/ (gw = "route" /\ bypass)
  BY DEF TypeOK, IndInv, SessionInSync, BypassIsOpen

\* What inspect() releases holds no violating line and ends an event.
LEMMA ReleaseIsClean ==
    ASSUME NEW p \in Seq(Lines), NEW n \in 0..Len(p), NEW sd, NEW sem, NEW bud,
           ReleasesUpTo(p, n), EventsPass(p, n, sd, sem, bud)
    PROVE  /\ \A i \in 1..n : p[i] \notin Violating
           /\ n > 0 => p[n] \in Blank
<1>1. \A i \in 1..n : p[i] \notin Violating
  BY DEF EventsPass, LinePasses, DataLine
<1>2. n > 0 => p[n] \in Blank
  BY DEF ReleasesUpTo, EndsEvent, Blank
<1> QED
  BY <1>1, <1>2

\* A task that stops has answered with a rejection that carries its number.
LEMMA StopsAnswers ==
    ASSUME EngineStops(expected)
    PROVE  /\ toGateway' # <<>> /\ eng' = "ended"
           /\ toGateway'[1].seq = expected /\ toGateway'[1].decision = "terminate"
<1>1. toGateway' = <<Answer(expected, "terminate", 0)>> /\ eng' = "ended"
  BY DEF EngineStops
<1>2. /\ <<Answer(expected, "terminate", 0)>> # <<>>
      /\ <<Answer(expected, "terminate", 0)>>[1] = Answer(expected, "terminate", 0)
  OBVIOUS
<1>3. /\ Answer(expected, "terminate", 0).seq = expected
      /\ Answer(expected, "terminate", 0).decision = "terminate"
  BY DEF Answer
<1> QED
  BY <1>1, <1>2, <1>3

LEMMA NextIndInv == TypeOK /\ TypeOK' /\ IndInv /\ [Next]_vars => IndInv'
<1> SUFFICES ASSUME TypeOK, TypeOK', IndInv, [Next]_vars PROVE IndInv'
  OBVIOUS
<1> USE DEF IndInv
<1>1. CASE OpenStream
  <2>1. toEngine' # <<>> => toEngine'[1] = OpenMsg
    BY <1>1, SendSends DEF OpenStream
  <2>2. SessionInSync'
    BY <1>1, <2>1 DEF OpenStream, engVars, SessionInSync, NothingYet, BypassIsOpen
  <2> QED
    BY <1>1, <2>2 DEF OpenStream, engVars, NothingYet, BypassIsOpen, NothingLost,
                      OnlyApprovedReachesClient
<1>2. CASE OpenAnswered
  <2>1. SessionInSync'
    BY <1>2 DEF OpenAnswered, Fail, engVars, SessionInSync, NothingYet, BypassIsOpen
  <2> QED
    BY <1>2, <2>1 DEF OpenAnswered, Fail, engVars, NothingYet, BypassIsOpen, NothingLost,
                      OnlyApprovedReachesClient
<1>3. CASE OpenFails
  <2>1. SessionInSync'
    BY <1>3 DEF OpenFails, Fail, engVars, SessionInSync, NothingYet, BypassIsOpen
  <2> QED
    BY <1>3, <2>1 DEF OpenFails, Fail, engVars, NothingYet, BypassIsOpen, NothingLost,
                      OnlyApprovedReachesClient
<1>4. CASE NoBackend
  <2>1. SessionInSync'
    BY <1>4 DEF NoBackend, Fail, engVars, SessionInSync, NothingYet, BypassIsOpen
  <2> QED
    BY <1>4, <2>1 DEF NoBackend, Fail, engVars, NothingYet, BypassIsOpen, NothingLost,
                      OnlyApprovedReachesClient
<1>5. CASE BackendAnswers
  <2>1. SessionInSync'
    BY <1>5 DEF BackendAnswers, engVars, SessionInSync, NothingYet, BypassIsOpen
  <2> QED
    BY <1>5, <2>1 DEF BackendAnswers, engVars, NothingYet, BypassIsOpen, NothingLost,
                      OnlyApprovedReachesClient
<1>6. ASSUME NEW chunk \in Chunks, NEW last \in BOOLEAN, ReadChunk(chunk, last)
      PROVE  IndInv'
  <2>1. chunk \in Seq(Lines)
    BY ChunkIsBuffer
  <2>2. toEngine' # <<>> => toEngine'[1] = ChunkMsg(sequence, chunk)
    BY <1>6, SendSends DEF ReadChunk
  <2>3. NothingLost'
    <3>0. delivered \in Seq(Lines) /\ pending \in Seq(Lines)
      BY DEF TypeOK
    <3>1. (delivered \o pending) \o chunk = delivered \o (pending \o chunk)
      BY <2>1, <3>0, JoinBuffers
    <3> QED
      BY <1>6, <3>1 DEF ReadChunk, NothingLost
  <2>4. SessionInSync'
    <3>1. /\ gw = "read" /\ ~bypass /\ gw' = "check"
          /\ sequence' = sequence /\ toGateway' = toGateway
          /\ pending' = pending \o chunk /\ UNCHANGED engVars
      BY <1>6 DEF ReadChunk, BypassIsOpen
    <3>2. /\ toEngine = <<>> /\ toGateway = <<>> /\ eng # "idle"
          /\ eng = "live" => expected = sequence /\ ePending = pending
      BY <3>1 DEF SessionInSync
    <3>3. /\ ChunkMsg(sequence, chunk).type = "chunk"
          /\ ChunkMsg(sequence, chunk).seq = sequence
          /\ ChunkMsg(sequence, chunk).data = chunk
      BY DEF ChunkMsg
    <3> QED
      BY <2>2, <3>1, <3>2, <3>3 DEF SessionInSync, engVars
  <2> QED
    BY <1>6, <2>3, <2>4 DEF ReadChunk, engVars, NothingYet, BypassIsOpen,
                      OnlyApprovedReachesClient
<1>7. CASE ReadEnd
  <2>1. toEngine' # <<>> => toEngine'[1] = CloseMsg(sequence)
    BY <1>7, SendSends DEF ReadEnd
  <2>2. SessionInSync'
    BY <1>7, <2>1 DEF ReadEnd, CloseMsg, engVars, SessionInSync, NothingYet, BypassIsOpen
  <2> QED
    BY <1>7, <2>2 DEF ReadEnd, engVars, NothingYet, BypassIsOpen, NothingLost,
                      OnlyApprovedReachesClient
<1>14. CASE CopyEnd
  <2>2. SessionInSync'
    BY <1>14 DEF CopyEnd, Return, engVars, SessionInSync, NothingYet, BypassIsOpen
  <2> QED
    BY <1>14, <2>2 DEF CopyEnd, Return, engVars, NothingYet, BypassIsOpen, NothingLost,
                      OnlyApprovedReachesClient
<1>18. CASE EngineCancelled
  <2>2. SessionInSync'
    BY <1>18 DEF EngineCancelled, gwVars, SessionInSync, AnswerFits, FinalAnswerFits
  <2> QED
    BY <1>18, <2>2 DEF EngineCancelled, gwVars, NothingYet, BypassIsOpen, NothingLost,
                      OnlyApprovedReachesClient
<1>19. CASE EngineCrash
  <2>2. SessionInSync'
    BY <1>19 DEF EngineCrash, gwVars, SessionInSync, AnswerFits, FinalAnswerFits
  <2> QED
    BY <1>19, <2>2 DEF EngineCrash, gwVars, NothingYet, BypassIsOpen, NothingLost,
                      OnlyApprovedReachesClient
<1>20. CASE Timeout \/ ClientGone \/ UNCHANGED vars
  <2>1. UNCHANGED <<request, gwVars, toEngine, toGateway, engVars>>
    BY <1>20 DEF Timeout, ClientGone, vars
  <2>2. SessionInSync'
    BY <2>1 DEF gwVars, engVars, SessionInSync, AnswerFits, FinalAnswerFits
  <2> QED
    BY <2>1, <2>2 DEF gwVars, engVars, NothingYet, BypassIsOpen, NothingLost,
                      OnlyApprovedReachesClient
<1>8. CASE CheckFails
  <2>1. SessionInSync'
    BY <1>8 DEF CheckFails, Fail, FailOpen, engVars, SessionInSync, BypassIsOpen
  <2>2. CASE request.failMode = "open"
    <3>1. /\ FailOpen /\ gw' = "copy" /\ outcome' = outcome
          /\ UNCHANGED <<request, body>>
      BY <1>8, <2>2 DEF CheckFails
    <3>2. outcome = "none"
      BY <1>8 DEF CheckFails, BypassIsOpen
    <3> QED
      BY <2>1, <2>2, <3>1, <3>2, FailOpenKeeps
  <2>3. CASE request.failMode # "open"
    BY <1>8, <2>1, <2>3 DEF CheckFails, Fail, NothingYet, BypassIsOpen, NothingLost,
                            OnlyApprovedReachesClient
  <2> QED
    BY <2>2, <2>3
<1>9. CASE CloseFails
  <2>1. SessionInSync'
    BY <1>9 DEF CloseFails, Fail, FailOpen, Return, engVars, SessionInSync, BypassIsOpen
  <2>2. CASE request.failMode = "open"
    <3>1. /\ FailOpen /\ gw' = "done" /\ outcome' = "bypassed"
          /\ UNCHANGED <<request, body>>
      BY <1>9, <2>2 DEF CloseFails, Return
    <3> QED
      BY <2>1, <2>2, <3>1, FailOpenKeeps
  <2>3. CASE request.failMode # "open"
    BY <1>9, <2>1, <2>3 DEF CloseFails, Fail, NothingYet, BypassIsOpen, NothingLost,
                            OnlyApprovedReachesClient
  <2> QED
    BY <2>2, <2>3
<1>10. CASE CheckAnswered
  <2> DEFINE r == toGateway[1]
  <2>1. /\ gw = "check" /\ ~bypass /\ outcome = "none"
        /\ toGateway # <<>> /\ toGateway' = <<>> /\ sequence' = sequence + 1
        /\ UNCHANGED <<request, body, bypass, toEngine, engVars>>
    BY <1>10 DEF CheckAnswered, BypassIsOpen
  <2>2. AnswerFits(r) /\ toEngine = <<>> /\ eng # "idle"
    BY <2>1 DEF SessionInSync
  <2>3. CASE Rejected(r)
    BY <2>1, <2>3 DEF Rejected, Fail, engVars, NothingYet, BypassIsOpen, SessionInSync,
                      NothingLost, OnlyApprovedReachesClient
  <2>4. CASE Overrun(r)
    BY <2>2, <2>4 DEF Overrun, AnswerFits
  <2>5. CASE WriteRefused(r)
    BY <2>1, <2>5 DEF WriteRefused, Return, engVars, NothingYet, BypassIsOpen, SessionInSync,
                      NothingLost, OnlyApprovedReachesClient
  <2>6. CASE Written(r)
    <3>1. r.release \in 0..Len(pending) /\ Release(r.release) /\ r.decision = "allow"
      BY <2>6 DEF Written
    <3>2. /\ gw' \in {"read", "done"} /\ outcome' \in {"none", "buffer_full"}
          /\ gw' = "read" => outcome' = "none"
      BY <2>1, <2>6 DEF Written, Fail
    <3>3. NothingLost'
      BY <2>1, <3>1, ReleaseMoves DEF NothingLost
    <3>4. OnlyApprovedReachesClient'
      <4>1. /\ \A i \in 1..Len(delivered') : delivered'[i] \notin Violating
            /\ delivered' # <<>> => delivered'[Len(delivered')] \in Blank
        BY <2>1, <2>2, <3>1, ReleaseKeepsApproved DEF AnswerFits
      <4> QED
        BY <4>1 DEF OnlyApprovedReachesClient
    <3>5. SessionInSync'
      <4>1. pending' = SubSeq(pending, r.release + 1, Len(pending))
        BY <3>1 DEF Release
      <4>2. eng = "live" => expected = sequence + 1 /\ ePending = pending'
        BY <2>2, <3>1, <4>1 DEF AnswerFits
      <4> QED
        BY <2>1, <2>2, <3>2, <4>2 DEF SessionInSync, engVars
    <3> QED
      BY <2>1, <3>2, <3>3, <3>4, <3>5 DEF NothingYet, BypassIsOpen
  <2> QED
    BY <1>10, <2>3, <2>4, <2>5, <2>6 DEF CheckAnswered
<1>11. CASE CloseAnswered
  <2> DEFINE r == toGateway[1]
  <2>1. /\ gw = "close" /\ ~bypass /\ outcome = "none"
        /\ toGateway # <<>> /\ toGateway' = <<>>
        /\ UNCHANGED <<request, body, bypass, sequence, toEngine, engVars>>
    BY <1>11 DEF CloseAnswered, BypassIsOpen
  <2>2. FinalAnswerFits(r) /\ Len(pending) \in Nat
    BY <2>1, LenProperties DEF SessionInSync, TypeOK
  <2>3. CASE Rejected(r)
    BY <2>1, <2>3 DEF Rejected, Fail, engVars, NothingYet, BypassIsOpen, SessionInSync,
                      NothingLost, OnlyApprovedReachesClient
  <2>4. CASE Overrun(r)
    BY <2>2, <2>4 DEF Overrun, FinalAnswerFits
  <2>5. CASE Finished(r)
    <3>1. r.release = Len(pending) /\ Release(r.release) /\ r.release \in 0..Len(pending)
      BY <2>2, <2>5 DEF Finished, FinalAnswerFits
    <3>2. pending' = <<>>
      <4>1. pending' = SubSeq(pending, Len(pending) + 1, Len(pending))
        BY <3>1 DEF Release
      <4>2. Len(pending) < Len(pending) + 1 /\ Len(pending) + 1 \in Int /\ Len(pending) \in Int
        BY <2>2
      <4> QED
        BY <4>1, <4>2, SubSeqEmpty
    <3>3. gw' = "done" /\ outcome' = "complete"
      BY <2>5, <3>2 DEF Finished, Return
    <3>4. NothingLost'
      BY <2>1, <3>1, ReleaseMoves DEF NothingLost
    <3>5. \A i \in 1..Len(delivered') : delivered'[i] \notin Violating
      <4>1. /\ Len(delivered') = Len(delivered) + Len(pending)
            /\ \A i \in 1..Len(delivered) : delivered'[i] = delivered[i]
            /\ \A i \in 1..Len(pending) : delivered'[Len(delivered) + i] = pending[i]
        BY <3>1, ReleaseMoves
      <4>2. Len(delivered) \in Nat
        BY LenProperties DEF TypeOK
      <4>3. \A i \in 1..Len(delivered) : delivered[i] \notin Violating
        BY <2>1 DEF OnlyApprovedReachesClient
      <4>4. \A i \in 1..Len(pending) : pending[i] \notin Violating
        BY <2>2, <2>5 DEF Finished, FinalAnswerFits, Violating
      <4> SUFFICES ASSUME NEW i \in 1..Len(delivered')
                   PROVE  delivered'[i] \notin Violating
        OBVIOUS
      <4>5. CASE i <= Len(delivered)
        BY <4>1, <4>2, <4>3, <4>5
      <4>6. CASE i > Len(delivered)
        <5> DEFINE j == i - Len(delivered)
        <5>1. j \in 1..Len(pending) /\ Len(delivered) + j = i
          BY <2>2, <4>1, <4>2, <4>6
        <5> QED
          BY <4>1, <4>4, <5>1
      <4> QED
        BY <2>2, <4>1, <4>2, <4>5, <4>6
    <3> QED
      BY <2>1, <3>2, <3>3, <3>4, <3>5 DEF NothingYet, BypassIsOpen, SessionInSync,
                                        OnlyApprovedReachesClient, engVars
  <2> QED
    BY <1>11, <2>3, <2>4, <2>5 DEF CloseAnswered
<1>13. ASSUME NEW chunk \in Chunks, Copy(chunk)
       PROVE  IndInv'
  <2>1. gw = "copy" /\ bypass /\ request.failMode = "open" /\ pending = <<>>
    BY <1>13 DEF Copy, BypassIsOpen
  <2>2. NothingLost'
    <3>1. chunk \in Seq(Lines)
      BY ChunkIsBuffer
    <3>2. delivered \o <<>> = delivered /\ (delivered \o chunk) \o <<>> = delivered \o chunk
      BY <3>1, ConcatEmptySeq, ConcatProperties DEF TypeOK
    <3> QED
      BY <1>13, <2>1, <3>2 DEF Copy, NothingLost
  <2>3. SessionInSync'
    BY <1>13, <2>1 DEF Copy, SessionInSync, engVars
  <2> QED
    BY <1>13, <2>1, <2>2, <2>3 DEF Copy, NothingYet, BypassIsOpen, OnlyApprovedReachesClient
<1>15. CASE EngineOpen
  <2>1. /\ toEngine # <<>> /\ toEngine' = <<>> /\ toGateway' # <<>> /\ eng = "idle"
        /\ toGateway'[1].seq = 0 /\ eng' \in {"live", "ended"} /\ expected' = 1
        /\ ePending' = ePending /\ ePending = <<>>
        /\ UNCHANGED <<request, gwVars>>
    BY <1>15 DEF EngineOpen, Answer, SessionInSync
  <2>2. SessionInSync'
    <3>1. CASE gw = "opening"
      BY <2>1, <3>1 DEF SessionInSync, gwVars
    <3>2. CASE gw # "opening"
      <4>1. gw \in {"copy", "done"} \/ (gw = "route" /\ bypass)
        BY <2>1, <3>2, WhoHasSent DEF SessionInSync
      <4> QED
        BY <2>1, <4>1 DEF SessionInSync, gwVars
    <3> QED
      BY <3>1, <3>2
  <2> QED
    BY <2>1, <2>2, GatewayUntouched
<1>16. CASE EngineChunk
  <2> DEFINE m == toEngine[1]
  <2>1. /\ eng = "live" /\ toEngine # <<>> /\ m.type = "chunk" /\ toEngine' = <<>>
        /\ UNCHANGED <<request, gwVars>>
        /\ \/ EngineStops(expected)
           \/ m.seq = expected /\ Inspect(ePending \o m.data)
    BY <1>16 DEF EngineChunk
  <2>2. CASE gw # "check"
    <3>1. gw # "close"
      BY <2>1, <2>2 DEF SessionInSync, CloseMsg
    <3>2. gw # "opening"
      BY <2>1, <2>2 DEF SessionInSync, OpenMsg
    <3>3. gw \in {"copy", "done"} \/ (gw = "route" /\ bypass)
      BY <2>1, <2>2, <3>1, <3>2, WhoHasSent
    <3>4. eng' # "idle"
      BY <2>1 DEF EngineStops, Inspect, InspectAllows
    <3>5. SessionInSync'
      BY <2>1, <3>3, <3>4 DEF SessionInSync, gwVars
    <3> QED
      BY <2>1, <3>5, GatewayUntouched
  <2>3. CASE gw = "check"
    <3>1. expected = sequence /\ pending = ePending \o m.data /\ m.seq = sequence
      BY <2>1, <2>3 DEF SessionInSync
    <3>2. CASE EngineStops(expected)
      <4>1. /\ toGateway' # <<>> /\ eng' = "ended"
            /\ toGateway'[1].seq = expected /\ toGateway'[1].decision = "terminate"
        BY <3>2, StopsAnswers
      <4>2. SessionInSync'
        BY <2>1, <2>3, <3>1, <4>1 DEF SessionInSync, AnswerFits, gwVars
      <4> QED
        BY <2>1, <4>2, GatewayUntouched
    <3>3. CASE Inspect(pending)
      <4>1. PICK n \in 0..Len(pending) :
              /\ ReleasesUpTo(pending, n)
              /\ IF EventsPass(pending, n, sawDone, semantic, budget)
                 THEN /\ toGateway' = <<Answer(expected, "allow", n)>>
                      /\ ePending' = SubSeq(pending, n + 1, Len(pending))
                      /\ expected' = expected + 1
                      /\ UNCHANGED eng
                 ELSE EngineStops(expected)
        BY <3>3 DEF Inspect, InspectAllows
      <4>2. CASE ~EventsPass(pending, n, sawDone, semantic, budget)
        BY <3>2, <4>1, <4>2
      <4>3. CASE EventsPass(pending, n, sawDone, semantic, budget)
        <5>1. /\ \A i \in 1..n : pending[i] \notin Violating
              /\ n > 0 => pending[n] \in Blank
          <6>1. pending \in Seq(Lines)
            BY DEF TypeOK
          <6> QED
            BY <4>1, <4>3, <6>1, ReleaseIsClean
        <5>2. /\ toGateway' = <<Answer(expected, "allow", n)>>
              /\ ePending' = SubSeq(pending, n + 1, Len(pending))
              /\ expected' = sequence + 1 /\ eng' = "live"
          BY <2>1, <3>1, <4>1, <4>3
        <5>3. /\ toGateway' # <<>> /\ toGateway'[1].seq = sequence
              /\ toGateway'[1].decision = "allow" /\ toGateway'[1].release = n
          BY <3>1, <5>2 DEF Answer
        <5>4. pending' = pending /\ sequence' = sequence /\ gw' = "check"
          BY <2>1, <2>3 DEF gwVars
        <5>5. AnswerFits(toGateway[1])'
          BY <5>1, <5>2, <5>3, <5>4 DEF AnswerFits
        <5>6. SessionInSync'
          BY <2>1, <5>2, <5>4, <5>5 DEF SessionInSync
        <5> QED
          BY <2>1, <5>6, GatewayUntouched
      <4> QED
        BY <4>2, <4>3
    <3> QED
      BY <2>1, <3>1, <3>2, <3>3
  <2> QED
    BY <2>2, <2>3
<1>17. CASE EngineClose
  <2> DEFINE m == toEngine[1]
  <2>1. /\ eng = "live" /\ toEngine # <<>> /\ m.type = "close" /\ toEngine' = <<>>
        /\ UNCHANGED <<request, gwVars>>
        /\ \/ EngineStops(expected)
           \/ /\ FinishPasses(ePending, sawDone)
              /\ toGateway' = <<Answer(expected, "allow", Len(ePending))>>
              /\ ePending' = <<>> /\ eng' = "ended"
    BY <1>17 DEF EngineClose
  <2>2. eng' = "ended"
    BY <2>1 DEF EngineStops
  <2>3. CASE gw # "close"
    <3>1. gw # "check" /\ gw # "opening"
      BY <2>1 DEF SessionInSync, OpenMsg
    <3>2. gw \in {"copy", "done"} \/ (gw = "route" /\ bypass)
      BY <2>1, <2>3, <3>1, WhoHasSent
    <3>3. SessionInSync'
      BY <2>1, <2>2, <3>2 DEF SessionInSync, gwVars
    <3> QED
      BY <2>1, <3>3, GatewayUntouched
  <2>4. CASE gw = "close"
    <3>1. expected = sequence /\ ePending = pending
      BY <2>1, <2>4 DEF SessionInSync
    <3>2. pending' = pending /\ sequence' = sequence /\ gw' = "close"
      BY <2>1, <2>4 DEF gwVars
    <3>3. FinalAnswerFits(toGateway[1])'
      <4>1. CASE EngineStops(expected)
        <5>1. toGateway'[1].seq = expected /\ toGateway'[1].decision = "terminate"
          BY <4>1, StopsAnswers
        <5> QED
          BY <3>1, <3>2, <5>1 DEF FinalAnswerFits
      <4>2. CASE /\ FinishPasses(ePending, sawDone)
                 /\ toGateway' = <<Answer(expected, "allow", Len(ePending))>>
        <5>1. toGateway'[1].seq = sequence /\ toGateway'[1].release = Len(pending)
          BY <3>1, <4>2 DEF Answer
        <5>2. \A i \in 1..Len(pending) : pending[i] = "ws"
          <6>1. DOMAIN pending = 1..Len(pending)
            BY LenProperties DEF TypeOK
          <6> QED
            BY <3>1, <4>2, <6>1 DEF FinishPasses
        <5> QED
          BY <3>2, <5>1, <5>2 DEF FinalAnswerFits
      <4> QED
        BY <2>1, <4>1, <4>2
    <3>4. SessionInSync'
      BY <2>1, <2>2, <3>2, <3>3 DEF SessionInSync
    <3> QED
      BY <2>1, <3>4, GatewayUntouched
  <2> QED
    BY <2>3, <2>4
<1> QED
  BY <1>1, <1>2, <1>3, <1>4, <1>5, <1>6, <1>7, <1>8, <1>9, <1>10, <1>11, <1>13, <1>14,
     <1>15, <1>16, <1>17, <1>18, <1>19, <1>20 DEF Next, Gateway, Backend, Engine

\* Gateway and engine stay in step for every body, chunking, budget and fail mode,
\* through crashes, deadlines and clients that go away (forwardStream,
\* StreamSession and check_stream together).
THEOREM SessionsInStep == Spec => []IndInv
<1>1. Init => IndInv
  BY InitIndInv
<1>2. TypeOK /\ TypeOK' /\ IndInv /\ [Next]_vars => IndInv'
  BY NextIndInv
<1> QED
  BY <1>1, <1>2, TypeCorrect, PTL DEF Spec

\* The relay loses, repeats and reorders nothing of a body of any length
\* (forwardStream's append, drain and fail-open writes).
THEOREM RelayIsFaithful == Spec => []NothingLost
<1>1. IndInv => NothingLost
  BY DEF IndInv
<1> QED
  BY <1>1, SessionsInStep, PTL

\* A client of an inspected stream never has a violating line or a part of an
\* unfinished event (forwardStream writes only what inspect() released).
THEOREM InspectionHolds == Spec => []OnlyApprovedReachesClient
<1>1. IndInv => OnlyApprovedReachesClient
  BY DEF IndInv
<1> QED
  BY <1>1, SessionsInStep, PTL

\* The release count always fits the gateway's buffer and the sequence numbers
\* never part, so the gateway's STREAM_POLICY_PROTOCOL_ERROR branches are dead
\* against this engine.
THEOREM ProtocolNeverParts == Spec => []BuffersAgree
<1>1. TypeOK /\ IndInv => BuffersAgree
  BY DEF TypeOK, IndInv, BuffersAgree, SessionInSync, AnswerFits, FinalAnswerFits, CloseMsg
<1> QED
  BY <1>1, SessionsInStep, TypeCorrect, PTL

\* The gateway holds nothing before it reads the response.
BufferInv ==
    /\ BufferBounded
    /\ gw \in {"open", "opening", "route"} => pending = <<>>

\* A chunk is no longer than one read.
LEMMA ChunkLength ==
    ASSUME NEW c \in Chunks
    PROVE  Len(c) \in 0..ChunkLines
<1>1. PICK n \in 1..ChunkLines : c \in [1..n -> Lines]
  BY DEF Chunks
<1>2. n \in Nat /\ DOMAIN c = 1..n
  BY <1>1, StreamAssumption
<1>3. Len(c) = n
  BY <1>2, ChunkIsBuffer, LenProperties
<1> QED
  BY <1>1, <1>3, StreamAssumption

\* Only a chunk makes the buffer grow, and only where it was within its limit.
LEMMA StepBounded ==
    ASSUME TypeOK, BufferInv, Next
    PROVE  BufferInv'
<1>1. pending \in Seq(Lines) /\ Len(pending) \in Nat /\ BufferLines \in Nat /\ ChunkLines \in Nat
  BY LenProperties, StreamAssumption DEF TypeOK
<1>2. ASSUME NEW c \in Chunks, NEW last \in BOOLEAN, ReadChunk(c, last) PROVE BufferInv'
  <2>1. gw = "read" /\ gw' = "check" /\ pending' = pending \o c
    BY <1>2 DEF ReadChunk
  <2>2. Len(pending') = Len(pending) + Len(c) /\ Len(c) \in 0..ChunkLines
    BY <1>1, <2>1, ChunkIsBuffer, ChunkLength, ConcatProperties
  <2> QED
    BY <1>1, <2>1, <2>2 DEF BufferInv, BufferBounded
<1>3. ASSUME pending' = <<>> PROVE BufferInv'
  <2>1. Len(pending') = 0
    BY <1>3, EmptySeq
  <2> QED
    BY <1>1, <1>3, <2>1 DEF BufferInv, BufferBounded
<1>4. ASSUME pending' = pending,
             gw' \in {"open", "opening", "route", "read"} =>
                 gw' = gw \/ gw \in {"open", "opening", "route"}
      PROVE  BufferInv'
  <2>1. gw \in {"open", "opening", "route"} => Len(pending) = 0
    BY EmptySeq DEF BufferInv
  <2> QED
    BY <1>1, <1>4, <2>1 DEF BufferInv, BufferBounded
<1>5. ASSUME NEW n \in 0..Len(pending), Release(n), gw' \notin {"open", "opening", "route"},
             gw' = "read" => Len(pending') <= BufferLines
      PROVE  BufferInv'
  <2>1. pending' = SubSeq(pending, n + 1, Len(pending))
    BY <1>5 DEF Release
  <2>2. Len(pending') <= Len(pending) /\ Len(pending') \in Nat
    BY <1>1, <2>1, SubSeqProperties
  <2> QED
    BY <1>1, <1>5, <2>2 DEF BufferInv, BufferBounded
<1>6. CASE CheckFails \/ CloseFails
  <2>1. pending' = <<>> \/ (pending' = pending /\ gw' = "done")
    BY <1>6 DEF CheckFails, CloseFails, FailOpen, Fail
  <2> QED
    BY <2>1, <1>3, <1>4
<1>7. CASE CheckAnswered
  <2>1. PICK r : Rejected(r) \/ Overrun(r) \/ WriteRefused(r) \/ Written(r)
    BY <1>7 DEF CheckAnswered
  <2>2. CASE Written(r)
    BY <2>2, <1>5 DEF Written, Fail
  <2>3. CASE ~Written(r)
    <3>1. pending' = pending /\ gw' = "done"
      BY <2>1, <2>3 DEF Rejected, Overrun, WriteRefused, Fail, Return
    <3> QED
      BY <3>1, <1>4
  <2> QED
    BY <2>2, <2>3
<1>8. CASE CloseAnswered
  <2>1. PICK r : Rejected(r) \/ Overrun(r) \/ Finished(r)
    BY <1>8 DEF CloseAnswered
  <2>2. CASE Finished(r)
    <3>1. gw' = "done"
      BY <2>2 DEF Finished, Fail, Return
    <3> QED
      BY <2>2, <3>1, <1>5 DEF Finished
  <2>3. CASE ~Finished(r)
    <3>1. pending' = pending /\ gw' = "done"
      BY <2>1, <2>3 DEF Rejected, Overrun, Fail
    <3> QED
      BY <3>1, <1>4
  <2> QED
    BY <2>2, <2>3
<1>9. CASE OpenStream \/ OpenAnswered \/ OpenFails \/ NoBackend \/ BackendAnswers
  <2>1. pending' = pending /\ gw \in {"open", "opening", "route"}
    BY <1>9 DEF OpenStream, OpenAnswered, OpenFails, NoBackend, BackendAnswers
  <2> QED
    BY <2>1, <1>4
<1>10. CASE ReadEnd \/ CopyEnd \/ \E chunk \in Chunks : Copy(chunk)
  <2>1. pending' = pending /\ (gw' = gw \/ gw' \in {"close", "done"})
    BY <1>10 DEF ReadEnd, CopyEnd, Copy, Return
  <2> QED
    BY <2>1, <1>4
<1>11. CASE Engine \/ EngineCrash \/ Timeout \/ ClientGone
  <2>1. pending' = pending /\ gw' = gw
    BY <1>11 DEF Engine, EngineOpen, EngineChunk, EngineClose, EngineCancelled, EngineCrash,
                Timeout, ClientGone, gwVars
  <2> QED
    BY <2>1, <1>4
<1> QED
  BY <1>2, <1>6, <1>7, <1>8, <1>9, <1>10, <1>11 DEF Next, Gateway, Backend

\* The gateway never holds more than its buffer and one chunk, and goes on reading only
\* within its buffer (streamBufferBytes in forwardStream).
THEOREM BufferAlwaysBounded == Spec => []BufferBounded
<1>1. Init => BufferInv
  BY EmptySeq, StreamAssumption DEF Init, BufferInv, BufferBounded
<1>2. TypeOK /\ BufferInv /\ [Next]_vars => BufferInv'
  <2>1. BufferInv /\ UNCHANGED vars => BufferInv'
    BY DEF vars, gwVars, BufferInv, BufferBounded
  <2> QED
    BY <2>1, StepBounded
<1>3. BufferInv => BufferBounded
  BY DEF BufferInv
<1> QED
  BY <1>1, <1>2, <1>3, TypeCorrect, PTL DEF Spec

(***************************************************************************)
(* The status line and the error object.                                   *)
(***************************************************************************)

\* What the status line and the error object depend on.
HeaderInv == HeaderFollows /\ ErrorStandsAlone

\* A step that writes nothing and neither starts nor leaves the copy keeps both.
LEMMA NothingWritten ==
    ASSUME HeaderInv, UNCHANGED <<delivered, started, status, errorBody>>,
           \/ gw' = gw
           \/ gw' = "done"
           \/ gw \notin {"copy", "done"} /\ gw' # "copy"
    PROVE  HeaderInv'
  BY DEF HeaderInv, HeaderFollows, ErrorStandsAlone

\* A handler that fails before its first byte writes its status and the error object;
\* one that fails later writes neither.
LEMMA FailStandsAlone ==
    ASSUME HeaderInv, TypeOK, gw \notin {"copy", "done"}, NEW s \in {403, 502, 503}, NEW why,
           started' <=> delivered' # <<>>, started => started', started' \in BOOLEAN,
           Fail(s, why)
    PROVE  HeaderInv'
<1>1. /\ gw' = "done" /\ errorBody' = (errorBody \/ ~started') /\ ~errorBody
      /\ status = IF started THEN 200 ELSE 0
      /\ status' = IF status = 0 THEN (IF started' THEN 200 ELSE s) ELSE status
  BY DEF Fail, WriteHeader, HeaderInv, HeaderFollows
<1>2. CASE started'
  <2>1. status' = 200 /\ ~errorBody'
    BY <1>1, <1>2
  <2> QED
    BY <1>1, <2>1 DEF HeaderInv, HeaderFollows, ErrorStandsAlone
<1>3. CASE ~started'
  <2>1. status' = s /\ delivered' = <<>>
    BY <1>1, <1>3
  <2> QED
    BY <1>1, <2>1 DEF HeaderInv, HeaderFollows, ErrorStandsAlone
<1> QED
  BY <1>2, <1>3

\* Releasing lines starts the response exactly when the client then has one.
LEMMA ReleaseStarts ==
    ASSUME TypeOK, HeaderInv, gw \notin {"copy", "done"}, NEW n \in 0..Len(pending), Release(n)
    PROVE  (started' <=> delivered' # <<>>) /\ (started => started') /\ started' \in BOOLEAN
<1>1. /\ Len(delivered') = Len(delivered) + n /\ Len(delivered) \in Nat /\ n \in Nat
      /\ delivered' \in Seq(Lines) /\ delivered \in Seq(Lines) /\ started' \in BOOLEAN
  BY ReleaseMoves, ReleaseTyped, LenProperties DEF TypeOK
<1>2. delivered' # <<>> <=> delivered # <<>> \/ n > 0
  <2>1. delivered' = <<>> <=> Len(delivered') = 0
    BY <1>1, EmptySeq
  <2>2. delivered = <<>> <=> Len(delivered) = 0
    BY <1>1, EmptySeq
  <2> QED
    BY <1>1, <2>1, <2>2
<1>3. started' = (started \/ n > 0)
  BY DEF Release
<1>4. started <=> delivered # <<>>
  BY DEF HeaderInv, HeaderFollows
<1> QED
  BY <1>1, <1>2, <1>3, <1>4

LEMMA HeaderStep ==
    ASSUME TypeOK, IndInv, HeaderInv, Next
    PROVE  HeaderInv'
<1>1. ASSUME gw \notin {"copy", "done"},
             UNCHANGED <<started, delivered>>, NEW s \in {403, 502, 503}, NEW why, Fail(s, why)
      PROVE  HeaderInv'
  BY <1>1, FailStandsAlone DEF HeaderInv, HeaderFollows, TypeOK
<1>2. ASSUME FailOpen, gw \in {"check", "close"}, gw' \in {"copy", "done"}
      PROVE  HeaderInv'
  <2>1. status' = 200 /\ ~errorBody'
    BY <1>2 DEF FailOpen, WriteHeader, HeaderInv, HeaderFollows
  <2> QED
    BY <1>2, <2>1 DEF HeaderInv, HeaderFollows, ErrorStandsAlone
<1>3. CASE OpenStream \/ ReadEnd \/ CopyEnd \/ (\E c \in Chunks, l \in BOOLEAN : ReadChunk(c, l))
  BY <1>3, NothingWritten DEF OpenStream, ReadEnd, CopyEnd, ReadChunk, Return
<1>4. CASE OpenAnswered
  <2>1. CASE toGateway[1].decision = "allow"
    BY <1>4, <2>1, NothingWritten DEF OpenAnswered
  <2>2. CASE toGateway[1].decision # "allow"
    BY <1>4, <2>2, <1>1 DEF OpenAnswered
  <2> QED
    BY <2>1, <2>2
<1>5. CASE OpenFails
  <2>1. CASE request.failMode = "open"
    BY <1>5, <2>1, NothingWritten DEF OpenFails
  <2>2. CASE request.failMode # "open"
    BY <1>5, <2>2, <1>1 DEF OpenFails
  <2> QED
    BY <2>1, <2>2
<1>6. CASE NoBackend
  BY <1>6, <1>1 DEF NoBackend
<1>7. CASE BackendAnswers
  <2>1. CASE bypass
    <3>1. gw' = "copy" /\ gw = "route" /\ delivered' = delivered /\ errorBody' = errorBody
          /\ WriteHeader(200)
      BY <1>7, <2>1 DEF BackendAnswers
    <3>2. status' = 200 /\ ~errorBody'
      BY <3>1 DEF WriteHeader, HeaderInv, HeaderFollows
    <3> QED
      BY <3>1, <3>2 DEF HeaderInv, HeaderFollows, ErrorStandsAlone
  <2>2. CASE ~bypass
    BY <1>7, <2>2, NothingWritten DEF BackendAnswers
  <2> QED
    BY <2>1, <2>2
<1>8. CASE CheckFails
  <2>1. CASE request.failMode = "open"
    BY <1>8, <2>1, <1>2 DEF CheckFails
  <2>2. CASE request.failMode # "open"
    BY <1>8, <2>2, <1>1 DEF CheckFails
  <2> QED
    BY <2>1, <2>2
<1>9. CASE CloseFails
  <2>1. CASE request.failMode = "open"
    BY <1>9, <2>1, <1>2 DEF CloseFails, Return
  <2>2. CASE request.failMode # "open"
    BY <1>9, <2>2, <1>1 DEF CloseFails
  <2> QED
    BY <2>1, <2>2
<1>10. ASSUME NEW r, gw \in {"check", "close"}, Rejected(r) \/ Overrun(r)
       PROVE  HeaderInv'
  BY <1>10, <1>1 DEF Rejected, Overrun
<1>11. CASE CheckAnswered
  <2>1. PICK r : Rejected(r) \/ Overrun(r) \/ WriteRefused(r) \/ Written(r)
    BY <1>11 DEF CheckAnswered
  <2>2. gw = "check"
    BY <1>11 DEF CheckAnswered
  <2>3. CASE WriteRefused(r)
    <3>1. gw' = "done" /\ delivered' = delivered /\ errorBody' = errorBody /\ WriteHeader(200)
      BY <2>3 DEF WriteRefused, Return
    <3>2. status' = 200 /\ ~errorBody'
      BY <2>2, <3>1 DEF WriteHeader, HeaderInv, HeaderFollows
    <3> QED
      BY <3>1, <3>2 DEF HeaderInv, HeaderFollows, ErrorStandsAlone
  <2>4. CASE Written(r)
    <3>1. (started' <=> delivered' # <<>>) /\ (started => started') /\ started' \in BOOLEAN
      BY <2>2, <2>4, ReleaseStarts DEF Written
    <3>2. CASE Len(pending') <= BufferLines
      <4>1. gw' = "read" /\ errorBody' = errorBody
            /\ status' = IF started' THEN (IF status = 0 THEN 200 ELSE status) ELSE status
        BY <2>4, <3>2 DEF Written, WriteHeader
      <4>2. ~errorBody /\ status = IF started THEN 200 ELSE 0
        BY <2>2 DEF HeaderInv, HeaderFollows
      <4> QED
        BY <3>1, <4>1, <4>2 DEF HeaderInv, HeaderFollows, ErrorStandsAlone
    <3>3. CASE ~(Len(pending') <= BufferLines)
      <4>1. Fail(502, "buffer_full")
        BY <2>4, <3>3 DEF Written
      <4> QED
        BY <2>2, <3>1, <4>1, FailStandsAlone
    <3> QED
      BY <3>2, <3>3
  <2> QED
    BY <2>1, <2>2, <2>3, <2>4, <1>10
<1>12. CASE CloseAnswered
  <2>1. PICK r : Rejected(r) \/ Overrun(r) \/ Finished(r)
    BY <1>12 DEF CloseAnswered
  <2>2. gw = "close"
    BY <1>12 DEF CloseAnswered
  <2>3. CASE Finished(r)
    <3>1. (started' <=> delivered' # <<>>) /\ (started => started') /\ started' \in BOOLEAN
      BY <2>2, <2>3, ReleaseStarts DEF Finished
    <3>2. CASE pending' = <<>>
      <4>1. gw' = "done" /\ errorBody' = errorBody /\ WriteHeader(200)
        BY <2>3, <3>2 DEF Finished, Return
      <4>2. status' = 200 /\ ~errorBody'
        BY <2>2, <4>1 DEF WriteHeader, HeaderInv, HeaderFollows
      <4> QED
        BY <4>1, <4>2 DEF HeaderInv, HeaderFollows, ErrorStandsAlone
    <3>3. CASE pending' # <<>>
      <4>1. Fail(502, "protocol_error")
        BY <2>3, <3>3 DEF Finished
      <4> QED
        BY <2>2, <3>1, <4>1, FailStandsAlone
    <3> QED
      BY <3>2, <3>3
  <2> QED
    BY <2>1, <2>2, <2>3, <1>10
<1>13. ASSUME NEW chunk \in Chunks, Copy(chunk)
       PROVE  HeaderInv'
  <2>1. gw = "copy" /\ gw' = gw /\ status' = status /\ errorBody' = errorBody
    BY <1>13 DEF Copy
  <2> QED
    BY <2>1 DEF HeaderInv, HeaderFollows, ErrorStandsAlone
<1>14. CASE Engine \/ EngineCrash \/ Timeout \/ ClientGone
  <2>1. UNCHANGED <<gw, delivered, started, status, errorBody>>
    BY <1>14 DEF Engine, EngineOpen, EngineChunk, EngineClose, EngineCancelled, EngineCrash,
                Timeout, ClientGone, gwVars
  <2> QED
    BY <2>1, NothingWritten
<1> QED
  BY <1>3, <1>4, <1>5, <1>6, <1>7, <1>8, <1>9, <1>11, <1>12, <1>13, <1>14
     DEF Next, Gateway, Backend

\* The gateway's error object is never mixed into an event stream, whatever the body, the
\* chunking and the failures (writeGatewayError behind started in forwardStream).
THEOREM ErrorAlwaysStandsAlone == Spec => []ErrorStandsAlone
<1>1. Init => HeaderInv
  BY DEF Init, HeaderInv, HeaderFollows, ErrorStandsAlone
<1>2. TypeOK /\ IndInv /\ HeaderInv /\ [Next]_vars => HeaderInv'
  <2>1. HeaderInv /\ UNCHANGED vars => HeaderInv'
    BY DEF vars, gwVars, HeaderInv, HeaderFollows, ErrorStandsAlone
  <2> QED
    BY <2>1, HeaderStep
<1>3. HeaderInv => ErrorStandsAlone
  BY DEF HeaderInv
<1> QED
  BY <1>1, <1>2, <1>3, SessionsInStep, TypeCorrect, PTL DEF Spec

(***************************************************************************)
(* A complete stream is whole.                                             *)
(***************************************************************************)

HasDone(s) == \E i \in DOMAIN s : s[i] = "done"

\* What a complete stream rests on.
DoneInv ==
    /\ DoneIsDelivered
    /\ outcome = "complete" => pending = <<>> /\ status = 200 /\ HasDone(delivered)

\* Lines once delivered stay delivered, and those released follow them.
LEMMA ReleaseKeepsDone ==
    ASSUME TypeOK, NEW n \in 0..Len(pending), Release(n),
           HasDone(delivered) \/ \E i \in 1..n : pending[i] = "done"
    PROVE  HasDone(delivered')
<1>1. /\ Len(delivered') = Len(delivered) + n
      /\ \A i \in 1..Len(delivered) : delivered'[i] = delivered[i]
      /\ \A i \in 1..n : delivered'[Len(delivered) + i] = pending[i]
      /\ delivered' \in Seq(Lines) /\ delivered \in Seq(Lines)
  BY ReleaseMoves, ReleaseTyped DEF TypeOK
<1>2. /\ DOMAIN delivered = 1..Len(delivered) /\ DOMAIN delivered' = 1..Len(delivered')
      /\ Len(delivered) \in Nat /\ n \in Nat
  BY <1>1, LenProperties
<1>3. CASE HasDone(delivered)
  <2>1. PICK i \in DOMAIN delivered : delivered[i] = "done"
    BY <1>3 DEF HasDone
  <2>2. i \in DOMAIN delivered' /\ delivered'[i] = "done"
    BY <1>1, <1>2, <2>1
  <2> QED
    BY <2>2 DEF HasDone
<1>4. CASE \E i \in 1..n : pending[i] = "done"
  <2>1. PICK i \in 1..n : pending[i] = "done"
    BY <1>4
  <2>2. Len(delivered) + i \in DOMAIN delivered' /\ delivered'[Len(delivered) + i] = "done"
    BY <1>1, <1>2, <2>1
  <2> QED
    BY <2>2 DEF HasDone
<1> QED
  BY <1>3, <1>4

\* A step that leaves the engine and the buffers alone, or ends the handler with another
\* outcome, keeps it.
LEMMA DoneUntouched ==
    ASSUME TypeOK, IndInv, DoneInv, outcome' # "complete",
           \/ gw' \in {"copy", "done"}
           \/ gw' = "route" /\ bypass'
           \/ /\ UNCHANGED <<sawDone, delivered>>
              /\ gw' = "check" => gw = "read"
              /\ gw' = "close" => gw = "read" /\ toGateway' = toGateway
              /\ gw' = "read" => gw = "route" /\ ~bypass
              /\ gw' \in {"open", "opening", "route"} => gw \in {"open", "opening", "route"} /\ ~bypass
    PROVE  DoneInv'
<1>1. gw = "read" => toGateway = <<>>
  BY DEF IndInv, SessionInSync, BypassIsOpen
<1> QED
  BY <1>1 DEF DoneInv, DoneIsDelivered, TypeOK

LEMMA DoneStep ==
    ASSUME TypeOK, IndInv, HeaderInv, DoneInv, Next
    PROVE  DoneInv'
<1>0. gw # "done" => outcome = "none"
  BY DEF IndInv, BypassIsOpen
<1>1. CASE OpenStream \/ ReadEnd \/ CopyEnd \/ (\E c \in Chunks, l \in BOOLEAN : ReadChunk(c, l))
  <2>1. gw # "done" /\ (gw = "open" => ~bypass)
    BY <1>1 DEF OpenStream, ReadEnd, CopyEnd, ReadChunk, IndInv, BypassIsOpen
  <2> QED
    BY <1>0, <1>1, <2>1, DoneUntouched DEF OpenStream, ReadEnd, CopyEnd, ReadChunk, Return, engVars
<1>2. CASE OpenAnswered
  <2>1. gw = "opening" /\ ~bypass /\ outcome = "none"
    BY <1>0, <1>2 DEF OpenAnswered, IndInv, BypassIsOpen
  <2> QED
    BY <1>2, <2>1, DoneUntouched DEF OpenAnswered, Fail, engVars
<1>3. CASE OpenFails
  <2>1. gw = "opening" /\ ~bypass /\ outcome = "none"
    BY <1>0, <1>3 DEF OpenFails, IndInv, BypassIsOpen
  <2> QED
    BY <1>3, <2>1, DoneUntouched DEF OpenFails, Fail, engVars
<1>4. CASE NoBackend
  BY <1>4, DoneUntouched DEF NoBackend, Fail
<1>5. CASE BackendAnswers
  BY <1>0, <1>5, DoneUntouched DEF BackendAnswers, engVars
<1>6. CASE CheckFails \/ CloseFails
  <2>1. gw' \in {"copy", "done"} /\ outcome' # "complete"
    BY <1>0, <1>6 DEF CheckFails, CloseFails, Fail, Return
  <2> QED
    BY <2>1, DoneUntouched
<1>7. CASE CheckAnswered
  <2> DEFINE r == toGateway[1]
  <2>1. /\ gw = "check" /\ toGateway # <<>> /\ outcome = "none" /\ toGateway' = <<>>
        /\ UNCHANGED sawDone
        /\ Rejected(r) \/ Overrun(r) \/ WriteRefused(r) \/ Written(r)
    BY <1>0, <1>7 DEF CheckAnswered, engVars
  <2>2. CASE gw' = "done"
    BY <2>1, <2>2, DoneUntouched DEF Rejected, Overrun, WriteRefused, Written, Fail, Return
  <2>3. CASE gw' # "done"
    <3>1. /\ Written(r) /\ gw' = "read" /\ outcome' = "none"
          /\ r.decision = "allow" /\ r.release \in 0..Len(pending) /\ Release(r.release)
      BY <2>1, <2>3 DEF Rejected, Overrun, WriteRefused, Written, Fail, Return
    <3>2. sawDone => HasDone(delivered) \/ \E i \in 1..r.release : pending[i] = "done"
      BY <2>1 DEF DoneInv, DoneIsDelivered, HasDone
    <3>3. sawDone' => HasDone(delivered')
      BY <2>1, <3>1, <3>2, ReleaseKeepsDone
    <3> QED
      BY <3>1, <3>3 DEF DoneInv, DoneIsDelivered, HasDone
  <2> QED
    BY <2>2, <2>3
<1>8. CASE CloseAnswered
  <2> DEFINE r == toGateway[1]
  <2>1. /\ gw = "close" /\ toGateway # <<>> /\ outcome = "none"
        /\ Rejected(r) \/ Overrun(r) \/ Finished(r)
    BY <1>0, <1>8 DEF CloseAnswered
  <2>2. CASE outcome' # "complete"
    BY <2>1, <2>2, DoneUntouched DEF Rejected, Overrun, Finished, Fail, Return
  <2>3. CASE outcome' = "complete"
    <3>1. /\ Finished(r) /\ pending' = <<>> /\ WriteHeader(200) /\ gw' = "done"
          /\ r.decision = "allow" /\ r.release \in 0..Len(pending) /\ Release(r.release)
      BY <2>1, <2>3 DEF Rejected, Overrun, Finished, Fail, Return
    <3>2. HasDone(delivered)
      BY <2>1, <3>1 DEF DoneInv, DoneIsDelivered, HasDone
    <3>3. HasDone(delivered')
      BY <3>1, <3>2, ReleaseKeepsDone
    <3>4. status' = 200
      BY <2>1, <3>1 DEF WriteHeader, HeaderInv, HeaderFollows
    <3> QED
      BY <3>1, <3>3, <3>4 DEF DoneInv, DoneIsDelivered
  <2> QED
    BY <2>2, <2>3
<1>9. ASSUME NEW chunk \in Chunks, Copy(chunk)
      PROVE  DoneInv'
  BY <1>0, <1>9, DoneUntouched DEF Copy
<1>10. ASSUME UNCHANGED gwVars,
              \/ UNCHANGED <<sawDone, toGateway>>
              \/ sawDone' = sawDone /\ toGateway'[1].decision # "allow" /\ (gw = "check" => toGateway = <<>>)
       PROVE  DoneInv'
  BY <1>10 DEF gwVars, DoneInv, DoneIsDelivered
<1>11. CASE EngineOpen
  <2>1. /\ eng = "idle" /\ sawDone' = sawDone /\ UNCHANGED gwVars
    BY <1>11 DEF EngineOpen
  <2>2. gw \notin {"read", "check", "close"}
    BY <2>1 DEF IndInv, SessionInSync, BypassIsOpen
  <2> QED
    BY <2>1, <2>2 DEF DoneInv, DoneIsDelivered, gwVars
<1>12. CASE EngineChunk
  <2> DEFINE m == toEngine[1]
  <2>1. /\ eng = "live" /\ toEngine # <<>> /\ m.type = "chunk" /\ UNCHANGED gwVars
        /\ EngineStops(expected) \/ Inspect(ePending \o m.data)
    BY <1>12 DEF EngineChunk
  <2>2. CASE EngineStops(expected)
    <3>1. toGateway'[1].decision # "allow" /\ sawDone' = sawDone
      BY <2>2, StopsAnswers DEF EngineStops
    <3>2. gw = "check" => toGateway = <<>>
      BY <2>1 DEF IndInv, SessionInSync
    <3> QED
      BY <2>1, <3>1, <3>2, <1>10
  <2>3. CASE Inspect(ePending \o m.data) /\ ~EngineStops(expected)
    <3>1. CASE gw = "check"
      <4>1. pending = ePending \o m.data /\ toGateway = <<>>
        BY <2>1, <3>1 DEF IndInv, SessionInSync
      <4>2. PICK n \in 0..Len(pending) :
              /\ toGateway' = <<Answer(expected, "allow", n)>>
              /\ sawDone' = (sawDone \/ \E i \in 1..n : pending[i] = "done")
        BY <2>3, <4>1 DEF Inspect, InspectAllows
      <4>3. toGateway' # <<>> /\ toGateway'[1].decision = "allow" /\ toGateway'[1].release = n
        BY <4>2 DEF Answer
      <4>4. sawDone => HasDone(delivered)
        BY <3>1, <4>1 DEF DoneInv, DoneIsDelivered, HasDone
      <4> QED
        BY <2>1, <3>1, <4>2, <4>3, <4>4 DEF DoneInv, DoneIsDelivered, gwVars, HasDone
    <3>2. CASE gw # "check"
      <4>1. gw \notin {"opening", "close"}
        BY <2>1 DEF IndInv, SessionInSync, OpenMsg, CloseMsg
      <4>2. gw \in {"copy", "done"} \/ (gw = "route" /\ bypass)
        BY <2>1, <3>2, <4>1, WhoHasSent
      <4> QED
        BY <2>1, <4>2 DEF DoneInv, DoneIsDelivered, gwVars
    <3> QED
      BY <3>1, <3>2
  <2> QED
    BY <2>1, <2>2, <2>3
<1>13. CASE EngineClose
  <2> DEFINE m == toEngine[1]
  <2>1. /\ eng = "live" /\ toEngine # <<>> /\ m.type = "close" /\ UNCHANGED gwVars
        /\ sawDone' = sawDone
        /\ \/ EngineStops(expected)
           \/ sawDone
    BY <1>13 DEF EngineClose, FinishPasses, EngineStops
  <2>2. gw # "check"
    BY <2>1 DEF IndInv, SessionInSync
  <2>3. EngineStops(expected) => toGateway'[1].decision # "allow"
    BY StopsAnswers
  <2> QED
    BY <2>1, <2>2, <2>3 DEF DoneInv, DoneIsDelivered, gwVars
<1>14. CASE EngineCancelled \/ EngineCrash \/ Timeout \/ ClientGone
  <2>1. UNCHANGED <<gwVars, sawDone, toGateway>>
    BY <1>14 DEF EngineCancelled, EngineCrash, Timeout, ClientGone, engVars
  <2> QED
    BY <2>1, <1>10
<1> QED
  BY <1>1, <1>2, <1>3, <1>4, <1>5, <1>6, <1>7, <1>8, <1>9, <1>11, <1>12, <1>13, <1>14
     DEF Next, Gateway, Backend, Engine

\* A stream that ends as complete gave the client the whole body and [DONE], with status 200
\* (forwardStream's Close branch and finish() of the engine).
THEOREM CompleteIsWhole == Spec => []CompleteMeansWhole
<1>1. Init => HeaderInv /\ DoneInv
  BY DEF Init, HeaderInv, HeaderFollows, ErrorStandsAlone, DoneInv, DoneIsDelivered
<1>2. TypeOK /\ IndInv /\ HeaderInv /\ DoneInv /\ [Next]_vars => HeaderInv' /\ DoneInv'
  <2>1. HeaderInv /\ DoneInv /\ UNCHANGED vars => HeaderInv' /\ DoneInv'
    BY DEF vars, gwVars, engVars, HeaderInv, HeaderFollows, ErrorStandsAlone, DoneInv,
           DoneIsDelivered, HasDone
  <2> QED
    BY <2>1, HeaderStep, DoneStep
<1>3. TypeOK /\ IndInv /\ DoneInv => CompleteMeansWhole
  <2> SUFFICES ASSUME TypeOK, IndInv, DoneInv, outcome = "complete"
               PROVE  delivered = body /\ status = 200 /\ HasDone(delivered)
    BY DEF CompleteMeansWhole, HasDone
  <2>1. body = delivered \o pending /\ pending = <<>> /\ status = 200 /\ HasDone(delivered)
    BY DEF IndInv, NothingLost, DoneInv
  <2>2. delivered \o <<>> = delivered
    BY ConcatEmptySeq DEF TypeOK
  <2> QED
    BY <2>1, <2>2
<1> QED
  BY <1>1, <1>2, <1>3, SessionsInStep, TypeCorrect, PTL DEF Spec

\* Complete or failed, the client can tell from what it got.
THEOREM OutcomeAlwaysTold == Spec => []OutcomeTold
<1>1. CompleteMeansWhole /\ ErrorStandsAlone => OutcomeTold
  BY DEF OutcomeTold
<1> QED
  BY <1>1, CompleteIsWhole, ErrorAlwaysStandsAlone, PTL

(***************************************************************************)
(* The token budget.                                                       *)
(***************************************************************************)

\* The first m lines of c are those of a, the next n those of b.
Follows(c, a, m, b, n) == /\ \A i \in 1..m : c[i] = a[i]
                          /\ \A i \in 1..n : c[m + i] = b[i]

\* Text lines are counted part by part.
LEMMA TextsAdd ==
    ASSUME NEW a, NEW b, NEW c, NEW m \in Nat, NEW n \in Nat,
           Follows(c, a, m, b, n)
    PROVE  Texts(c, m + n) = Texts(a, m) + Texts(b, n)
<1> DEFINE A == {i \in 1..m : a[i] = "text"}
           B == {i \in 1..n : b[i] = "text"}
           C == {i \in 1..(m + n) : c[i] = "text"}
           D == {i \in (m + 1)..(m + n) : c[i] = "text"}
           f == [i \in B |-> m + i]
<1>1. IsFiniteSet(A) /\ IsFiniteSet(B) /\ IsFiniteSet(D)
  <2>1. IsFiniteSet(1..m) /\ IsFiniteSet(1..n) /\ IsFiniteSet((m + 1)..(m + n))
    BY FS_Interval
  <2>2. A \in SUBSET (1..m) /\ B \in SUBSET (1..n) /\ D \in SUBSET ((m + 1)..(m + n))
    OBVIOUS
  <2> HIDE DEF A, B, D
  <2> QED
    BY <2>1, <2>2, FS_Subset
<1>2. C = A \cup D /\ A \cap D = {}
  BY DEF Follows
<1>3. f \in Bijection(B, D)
  <2>1. f \in [B -> D]
    BY DEF Follows
  <2>2. \A i, j \in B : f[i] = f[j] => i = j
    OBVIOUS
  <2>3. \A d \in D : \E i \in B : f[i] = d
    <3> SUFFICES ASSUME NEW d \in D PROVE \E i \in B : f[i] = d
      OBVIOUS
    <3>1. d - m \in B /\ f[d - m] = d
      <4>1. d - m \in 1..n /\ m + (d - m) = d
        OBVIOUS
      <4> QED
        BY <4>1 DEF Follows
    <3> QED
      BY <3>1
  <2> HIDE DEF f, B, D
  <2> QED
    BY <2>1, <2>2, <2>3 DEF Bijection, Injection, Surjection, IsInjective
<1>4. Cardinality(D) = Cardinality(B)
  <2>1. ExistsBijection(B, D)
    BY <1>3 DEF ExistsBijection
  <2> HIDE DEF B, D
  <2> QED
    BY <1>1, <2>1, FS_Bijection
<1>5. Cardinality(C) = Cardinality(A) + Cardinality(D)
  <2> HIDE DEF A, C, D
  <2>1. Cardinality(A \cup D) = Cardinality(A) + Cardinality(D) - Cardinality(A \cap D)
    BY <1>1, FS_Union
  <2>2. Cardinality(A \cap D) = 0
    BY <1>2, FS_EmptySet
  <2>3. Cardinality(A) \in Nat /\ Cardinality(D) \in Nat
    BY <1>1, FS_CardinalityType
  <2> QED
    BY <1>2, <2>1, <2>2, <2>3
<1> QED
  BY <1>4, <1>5 DEF Texts

\* Where nothing is a text line the count is zero.
LEMMA NoTexts ==
    ASSUME NEW p, NEW n \in Nat, \A i \in 1..n : p[i] # "text"
    PROVE  Texts(p, n) = 0
<1>1. {i \in 1..n : p[i] = "text"} = {}
  OBVIOUS
<1> QED
  BY <1>1, FS_EmptySet DEF Texts

\* A buffer with a text line has a last one.
LEMMA LastText ==
    ASSUME NEW p, NEW n \in Nat, NEW k \in 1..n, p[k] = "text"
    PROVE  \E i \in 1..n : p[i] = "text" /\ Texts(p, i) = Texts(p, n)
<1> DEFINE T == {n - i : i \in {j \in 1..n : p[j] = "text"}}
           R == OpToRel(<, Nat)
<1>1. T \subseteq Nat /\ T # {}
  BY n - k \in T
<1>2. PICK x \in T : \A y \in T : ~(<<y, x>> \in R)
  <2> HIDE DEF T
  <2> QED
    BY <1>1, NatLessThanWellFounded, WFMin
<1>3. PICK i \in 1..n : p[i] = "text" /\ x = n - i
  OBVIOUS
<1>4. ASSUME NEW j \in 1..n, p[j] = "text" PROVE j <= i
  <2>1. n - j \in T /\ n - j \in Nat /\ x \in Nat
    BY <1>4, <1>1
  <2>2. ~(n - j < x)
    BY <1>2, <2>1 DEF OpToRel
  <2> QED
    BY <1>3, <2>2
<1>5. {j \in 1..i : p[j] = "text"} = {j \in 1..n : p[j] = "text"}
  BY <1>4
<1> QED
  BY <1>3, <1>5 DEF Texts

\* What inspect() lets pass leaves something of a positive budget or says nothing new.
LEMMA PassedIsAffordable ==
    ASSUME NEW p, NEW n \in Nat, NEW sd, NEW sem, NEW bud \in Nat \ {0},
           EventsPass(p, n, sd, sem, bud)
    PROVE  \/ Texts(p, n) = 0
           \/ ConsumedTokens(sem + TextBytes * Texts(p, n)) <= bud
<1>1. CASE \A i \in 1..n : p[i] # "text"
  BY <1>1, NoTexts
<1>2. ASSUME NEW k \in 1..n, p[k] = "text"
      PROVE  ConsumedTokens(sem + TextBytes * Texts(p, n)) <= bud
  <2>1. PICK i \in 1..n : p[i] = "text" /\ Texts(p, i) = Texts(p, n)
    BY <1>2, LastText
  <2>2. WithinBudget(bud, sem + TextBytes * Texts(p, i))
    BY <2>1 DEF EventsPass, LinePasses, DataLine
  <2> QED
    BY <2>1, <2>2 DEF WithinBudget
<1> QED
  BY <1>1, <1>2

\* What the budget of an inspected stream rests on.
BudgetInv == TextsCounted /\ BudgetKept

Bounded == ~bypass /\ request.estimate < request.tokenBudget

LEMMA RequestTyped ==
    ASSUME TypeOK
    PROVE  request.tokenBudget \in Nat /\ request.estimate \in Nat
  BY StreamAssumption DEF TypeOK, Request

\* What the client of an inspected stream has been told so far is affordable.
LEMMA KeptIsAffordable == BudgetKept <=> (Bounded => Affordable(TextsDelivered))
  BY DEF BudgetKept, Bounded, Affordable, TextsDelivered, Said

\* A step that delivers nothing and leaves the engine's counts alone.
LEMMA BudgetUntouched ==
    ASSUME BudgetInv, UNCHANGED <<request, delivered, budget, semantic>>, bypass => bypass',
           eng' = eng \/ eng' \in {"ended", "crashed"},
           (gw' = "check" /\ toGateway' # <<>>) => UNCHANGED <<gw, pending, toGateway>>,
           gw' \in {"open", "opening", "route", "read"} => gw \in {"open", "opening", "route", "read"},
           (gw' = "check" /\ toGateway' = <<>>) => gw = "read" \/ (gw = "check" /\ toGateway = <<>>)
    PROVE  BudgetInv'
<1>1. BudgetKept'
  BY DEF BudgetInv, BudgetKept, Said
<1>2. Bounded' => Bounded
  BY DEF Bounded
<1>3. ASSUME Bounded' PROVE TextsCounted'
  <2>1. TextsDelivered' = TextsDelivered
    BY DEF TextsDelivered
  <2>2. eng' = "live" => eng = "live"
    OBVIOUS
  <2>3. eng' = "idle" => eng = "idle"
    OBVIOUS
  <2>4. (gw' = "check" /\ toGateway' # <<>>) => AnswerAffordable(toGateway[1])'
    BY <1>2, <1>3, <2>1, <2>2 DEF BudgetInv, TextsCounted, AnswerAffordable, Bounded, Affordable
  <2> QED
    BY <1>2, <1>3, <2>1, <2>2, <2>3, <2>4 DEF BudgetInv, TextsCounted, Bounded
<1> QED
  BY <1>1, <1>3 DEF BudgetInv, TextsCounted, Bounded

\* Given up inspection, or at its end, a handler owes only what it delivered.
LEMMA BudgetOver ==
    ASSUME BudgetInv, bypass' \/ (gw' = "done" /\ UNCHANGED <<request, delivered, bypass, eng, budget, semantic>>)
    PROVE  BudgetInv'
<1>1. CASE bypass'
  BY <1>1 DEF BudgetInv, TextsCounted, BudgetKept
<1>2. CASE gw' = "done" /\ UNCHANGED <<request, delivered, bypass, eng, budget, semantic>>
  BY <1>2, BudgetUntouched
<1> QED
  BY <1>1, <1>2

\* Releasing lines adds their text lines to what the client has.
LEMMA ReleaseCounts ==
    ASSUME TypeOK, NEW n \in 0..Len(pending), Release(n)
    PROVE  TextsDelivered' = TextsDelivered + Texts(pending, n)
<1>1. /\ Len(delivered') = Len(delivered) + n
      /\ \A i \in 1..Len(delivered) : delivered'[i] = delivered[i]
      /\ \A i \in 1..n : delivered'[Len(delivered) + i] = pending[i]
  BY ReleaseMoves
<1>2. Len(delivered) \in Nat /\ n \in Nat
  BY LenProperties DEF TypeOK
<1>3. Follows(delivered', delivered, Len(delivered), pending, n)
  BY <1>1 DEF Follows
<1>4. Texts(delivered', Len(delivered) + n) = Texts(delivered, Len(delivered)) + Texts(pending, n)
  BY <1>2, <1>3, TextsAdd
<1> QED
  BY <1>1, <1>4 DEF TextsDelivered

LEMMA BudgetStep ==
    ASSUME TypeOK, IndInv, BudgetInv, Next
    PROVE  BudgetInv'
<1>0. /\ Len(delivered) \in Nat /\ Len(pending) \in Nat /\ TextsDelivered \in Nat
      /\ request.tokenBudget \in Nat /\ request.estimate \in Nat
      /\ semantic \in Nat /\ TextBytes \in Nat \ {0}
  BY LenProperties, TextsIsNat, RequestTyped, TextBytesAssumption DEF TypeOK, TextsDelivered
<1>1. CASE OpenStream \/ ReadEnd \/ CopyEnd \/ (\E c \in Chunks, l \in BOOLEAN : ReadChunk(c, l))
  <2>1. gw = "read" => toGateway = <<>>
    BY DEF IndInv, SessionInSync, BypassIsOpen
  <2> QED
    BY <1>1, <2>1, BudgetUntouched DEF OpenStream, ReadEnd, CopyEnd, ReadChunk, Return, engVars
<1>2. CASE OpenAnswered \/ OpenFails
  BY <1>2, BudgetUntouched DEF OpenAnswered, OpenFails, Fail, engVars
<1>3. CASE NoBackend \/ BackendAnswers
  BY <1>3, BudgetUntouched DEF NoBackend, BackendAnswers, Fail, engVars
<1>4. CASE CheckFails \/ CloseFails
  BY <1>4, BudgetOver DEF CheckFails, CloseFails, FailOpen, Fail, engVars
<1>5. CASE CheckAnswered
  <2> DEFINE r == toGateway[1]
  <2>1. /\ gw = "check" /\ toGateway # <<>> /\ toGateway' = <<>>
        /\ UNCHANGED <<request, bypass, eng, budget, semantic>>
        /\ Rejected(r) \/ Overrun(r) \/ WriteRefused(r) \/ Written(r)
    BY <1>5 DEF CheckAnswered, engVars
  <2>2. CASE ~Written(r)
    BY <2>1, <2>2, BudgetOver DEF Rejected, Overrun, WriteRefused, Fail, Return
  <2>3. CASE Written(r)
    <3>1. /\ gw' \in {"read", "done"}
          /\ r.decision = "allow" /\ r.release \in 0..Len(pending) /\ Release(r.release)
      BY <2>3 DEF Written, Fail
    <3>2. TextsDelivered' = TextsDelivered + Texts(pending, r.release)
      BY <3>1, ReleaseCounts
    <3>3. Bounded => AnswerAffordable(r)
      BY <2>1 DEF Bounded, BudgetInv, TextsCounted
    <3>4. Bounded' <=> Bounded
      BY <2>1 DEF Bounded
    <3>5. ASSUME Bounded
          PROVE  Affordable(TextsDelivered)' /\ (eng = "live" => semantic = TextBytes * TextsDelivered')
      BY <2>1, <3>1, <3>2, <3>3, <3>5 DEF AnswerAffordable, Affordable
    <3>6. BudgetKept'
      BY <3>4, <3>5 DEF BudgetKept, Bounded, Affordable, TextsDelivered, Said
    <3>7. TextsCounted'
      BY <2>1, <3>1, <3>4, <3>5 DEF BudgetInv, TextsCounted, Bounded
    <3> QED
      BY <3>6, <3>7 DEF BudgetInv
  <2> QED
    BY <2>2, <2>3
<1>6. CASE CloseAnswered
  <2> DEFINE r == toGateway[1]
  <2>1. /\ gw = "close" /\ toGateway # <<>>
        /\ UNCHANGED <<request, bypass, eng, budget, semantic>>
        /\ Rejected(r) \/ Overrun(r) \/ Finished(r)
    BY <1>6 DEF CloseAnswered, engVars
  <2>2. CASE ~Finished(r)
    BY <2>1, <2>2, BudgetOver DEF Rejected, Overrun, Fail
  <2>3. CASE Finished(r)
    <3>1. /\ gw' = "done" /\ r.decision = "allow"
          /\ r.release \in 0..Len(pending) /\ Release(r.release)
      BY <2>3 DEF Finished, Fail, Return
    <3>2. \A i \in 1..r.release : pending[i] # "text"
      BY <1>0, <2>1, <3>1 DEF IndInv, SessionInSync, FinalAnswerFits
    <3>3. TextsDelivered' = TextsDelivered
      <4>1. r.release \in Nat
        BY <1>0, <3>1
      <4>2. Texts(pending, r.release) = 0
        BY <3>2, <4>1, NoTexts
      <4> QED
        BY <1>0, <3>1, <4>2, ReleaseCounts
    <3>4. BudgetKept'
      BY <2>1, <3>3 DEF BudgetInv, BudgetKept, TextsDelivered, Said
    <3>5. TextsCounted'
      BY <2>1, <3>1 DEF BudgetInv, TextsCounted
    <3> QED
      BY <3>4, <3>5 DEF BudgetInv
  <2> QED
    BY <2>2, <2>3
<1>7. ASSUME NEW chunk \in Chunks, Copy(chunk)
      PROVE  BudgetInv'
  <2>1. bypass'
    BY <1>7 DEF Copy, IndInv, BypassIsOpen
  <2> QED
    BY <2>1, BudgetOver
<1>8. CASE EngineOpen
  <2>1. /\ eng = "idle" /\ toGateway' # <<>> /\ UNCHANGED <<request, gwVars, semantic>>
        /\ eng' \in {"live", "ended"}
        /\ budget' = ResponseTokenBudget(request.tokenBudget, request.estimate)
    BY <1>8 DEF EngineOpen
  <2>2. CASE bypass
    BY <2>1, <2>2, BudgetOver DEF gwVars
  <2>3. CASE ~bypass
    <3>1. gw \in {"open", "opening", "done"}
      BY <2>1, <2>3 DEF IndInv, SessionInSync, BypassIsOpen, TypeOK
    <3>2. gw # "done" => delivered = <<>>
      BY <3>1 DEF IndInv, NothingYet
    <3>3. gw # "done" => TextsDelivered = 0
      BY <3>2, EmptySeq, NoTexts DEF TextsDelivered
    <3>4. Bounded => budget' = request.tokenBudget - request.estimate /\ semantic = 0
      BY <1>0, <2>1 DEF Bounded, ResponseTokenBudget, BudgetInv, TextsCounted
    <3>5. BudgetKept'
      BY <2>1 DEF BudgetInv, BudgetKept, Said, gwVars
    <3>6. TextsDelivered' = TextsDelivered
      BY <2>1 DEF TextsDelivered, gwVars
    <3>7. TextBytes * 0 = 0
      BY <1>0
    <3>8. TextsCounted'
      BY <2>1, <3>1, <3>3, <3>4, <3>6, <3>7 DEF TextsCounted, Bounded, gwVars
    <3> QED
      BY <3>5, <3>8 DEF BudgetInv
  <2> QED
    BY <2>2, <2>3
<1>9. ASSUME UNCHANGED <<request, gwVars, budget, semantic>>, eng' \in {"ended", "crashed"},
             gw = "check" => toGateway' = toGateway \/ toGateway'[1].decision # "allow"
      PROVE  BudgetInv'
  <2>1. TextsDelivered' = TextsDelivered /\ (Bounded' <=> Bounded) /\ gw' = gw
        /\ delivered' = delivered /\ bypass' = bypass /\ pending' = pending
    BY <1>9 DEF TextsDelivered, Bounded, gwVars
  <2>2. BudgetKept'
    BY <1>9, <2>1 DEF BudgetInv, BudgetKept, Said
  <2>3. ASSUME Bounded, gw = "check", toGateway' # <<>>
        PROVE  AnswerAffordable(toGateway[1])'
    BY <1>9, <2>1, <2>3 DEF AnswerAffordable, BudgetInv, TextsCounted, Bounded, Affordable
  <2>4. TextsCounted'
    BY <1>9, <2>1, <2>3 DEF TextsCounted, Bounded
  <2> QED
    BY <2>2, <2>4 DEF BudgetInv
<1>10. CASE EngineChunk
  <2> DEFINE m == toEngine[1]
  <2>1. /\ eng = "live" /\ toEngine # <<>> /\ m.type = "chunk"
        /\ UNCHANGED <<request, gwVars, budget>>
        /\ EngineStops(expected) \/ Inspect(ePending \o m.data)
    BY <1>10 DEF EngineChunk
  <2>2. CASE EngineStops(expected)
    <3>1. toGateway'[1].decision # "allow" /\ eng' = "ended" /\ semantic' = semantic
      BY <2>2, StopsAnswers DEF EngineStops
    <3> QED
      BY <2>1, <3>1, <1>9
  <2>3. CASE Inspect(ePending \o m.data) /\ ~EngineStops(expected)
    <3>1. CASE gw = "check" /\ ~bypass
      <4>1. pending = ePending \o m.data /\ toGateway = <<>>
        BY <2>1, <3>1 DEF IndInv, SessionInSync
      <4>2. PICK n \in 0..Len(pending) :
              /\ EventsPass(pending, n, sawDone, semantic, budget)
              /\ toGateway' = <<Answer(expected, "allow", n)>>
              /\ semantic' = semantic + TextBytes * Texts(pending, n)
              /\ eng' = eng
        BY <2>3, <4>1 DEF Inspect, InspectAllows
      <4>3. toGateway' # <<>> /\ toGateway'[1].decision = "allow" /\ toGateway'[1].release = n
        BY <4>2 DEF Answer
      <4>4. /\ TextsDelivered' = TextsDelivered /\ (Bounded' <=> Bounded) /\ gw' = gw
            /\ bypass' = bypass /\ pending' = pending /\ delivered' = delivered
        BY <2>1 DEF TextsDelivered, Bounded, gwVars
      <4>5. BudgetKept'
        BY <2>1, <4>4 DEF BudgetInv, BudgetKept, Said
      <4>6. ASSUME Bounded PROVE AnswerAffordable(toGateway[1])'
        <5>1. budget = request.tokenBudget - request.estimate /\ semantic = TextBytes * TextsDelivered
          BY <2>1, <3>1, <4>1, <4>6 DEF BudgetInv, TextsCounted, Bounded
        <5>2. n \in Nat /\ Texts(pending, n) \in Nat
          BY <1>0, <4>2, TextsIsNat
        <5>3. semantic' = TextBytes * (TextsDelivered + Texts(pending, n))
          BY <1>0, <4>2, <5>1, <5>2
        <5>4. Affordable(TextsDelivered + Texts(pending, n))
          <6>1. budget \in Nat \ {0}
            BY <1>0, <4>6, <5>1 DEF Bounded
          <6>2. CASE Texts(pending, n) = 0
            BY <1>0, <4>6, <6>2, KeptIsAffordable DEF BudgetInv
          <6>3. CASE ConsumedTokens(semantic + TextBytes * Texts(pending, n)) <= budget
            <7>1. ConsumedTokens(semantic') \in Int
              BY <1>0, <5>2, <5>3 DEF ConsumedTokens
            <7> QED
              BY <1>0, <4>2, <5>1, <5>3, <6>3, <7>1 DEF Affordable
          <6> QED
            BY <4>2, <5>2, <6>1, <6>2, <6>3, PassedIsAffordable
        <5> QED
          BY <2>1, <4>3, <4>4, <5>3, <5>4 DEF AnswerAffordable, Affordable
      <4>7. TextsCounted'
        BY <2>1, <3>1, <4>2, <4>3, <4>4, <4>6 DEF TextsCounted, BudgetInv, Bounded
      <4> QED
        BY <4>5, <4>7 DEF BudgetInv
    <3>2. CASE gw # "check" \/ bypass
      <4>1. gw \notin {"opening", "close"}
        BY <2>1 DEF IndInv, SessionInSync, OpenMsg, CloseMsg
      <4>2. gw \in {"copy", "done"} \/ bypass
        BY <2>1, <3>2, <4>1, WhoHasSent
      <4>3. gw = "done" \/ bypass
        BY <4>2 DEF IndInv, BypassIsOpen
      <4>4. CASE bypass
        BY <2>1, <4>4, BudgetOver DEF gwVars
      <4>5. CASE gw = "done"
        <5>1. eng' = eng
          BY <2>3 DEF Inspect, InspectAllows
        <5>2. BudgetKept'
          BY <2>1 DEF BudgetInv, BudgetKept, Said, gwVars
        <5>3. TextsCounted'
          BY <2>1, <4>5, <5>1 DEF BudgetInv, TextsCounted, gwVars
        <5> QED
          BY <5>2, <5>3 DEF BudgetInv
      <4> QED
        BY <4>3, <4>4, <4>5
    <3> QED
      BY <3>1, <3>2
  <2> QED
    BY <2>1, <2>2, <2>3
<1>11. CASE EngineClose
  <2>1. /\ eng = "live" /\ toEngine # <<>> /\ toEngine[1].type = "close"
        /\ UNCHANGED <<request, gwVars, budget, semantic>> /\ eng' = "ended"
    BY <1>11 DEF EngineClose, EngineStops
  <2>2. gw # "check"
    BY <2>1 DEF IndInv, SessionInSync
  <2> QED
    BY <2>1, <2>2, <1>9
<1>12. CASE EngineCancelled \/ EngineCrash
  <2>1. UNCHANGED <<request, gwVars, budget, semantic, toGateway>> /\ eng' \in {"ended", "crashed"}
    BY <1>12 DEF EngineCancelled, EngineCrash
  <2> QED
    BY <2>1, <1>9
<1>13. CASE Timeout \/ ClientGone
  BY <1>13, BudgetUntouched DEF Timeout, ClientGone, gwVars, engVars
<1> QED
  BY <1>1, <1>2, <1>3, <1>4, <1>5, <1>6, <1>7, <1>8, <1>10, <1>11, <1>12, <1>13
     DEF Next, Gateway, Backend, Engine

\* Prompt and inspected response stay within the tenant's token budget, for every chunking
\* of every body (inspect_event's count, response_token_budget).
THEOREM BudgetHolds == Spec => []BudgetKept
<1>1. Init => BudgetInv
  <2> SUFFICES ASSUME Init PROVE BudgetInv
    OBVIOUS
  <2>1. request.tokenBudget \in Nat /\ request.estimate \in Nat
    BY InitTypeOK, RequestTyped
  <2>2. TextsDelivered = 0
    BY EmptySeq, NoTexts DEF Init, TextsDelivered
  <2>3. TextBytes * 0 = 0 /\ ConsumedTokens(0) = 0
    BY TextBytesAssumption DEF ConsumedTokens
  <2>4. Bounded => Affordable(TextsDelivered)
    BY <2>1, <2>2, <2>3 DEF Bounded, Affordable
  <2> QED
    BY <2>4, KeptIsAffordable DEF Init, BudgetInv, TextsCounted
<1>2. TypeOK /\ IndInv /\ BudgetInv /\ [Next]_vars => BudgetInv'
  <2>1. BudgetInv /\ UNCHANGED vars => BudgetInv'
    BY BudgetUntouched DEF vars, gwVars, engVars
  <2> QED
    BY <2>1, BudgetStep
<1>3. BudgetInv => BudgetKept
  BY DEF BudgetInv
<1> QED
  BY <1>1, <1>2, <1>3, SessionsInStep, TypeCorrect, PTL DEF Spec

(***************************************************************************)
(* The refinement.                                                         *)
(***************************************************************************)

\* What the client has is the beginning of the body.
LEMMA DeliveredIsPrefix ==
    ASSUME TypeOK, NothingLost
    PROVE  /\ Len(delivered) \in Nat /\ Len(body) = Len(delivered) + Len(pending)
           /\ SubSeq(body, 1, Len(delivered)) = delivered
           /\ \A i \in 1..Len(pending) : body[Len(delivered) + i] = pending[i]
<1>1. delivered \in Seq(Lines) /\ pending \in Seq(Lines) /\ body = delivered \o pending
  BY DEF TypeOK, NothingLost
<1>2. /\ Len(body) = Len(delivered) + Len(pending)
      /\ \A i \in 1..(Len(delivered) + Len(pending)) : body[i] =
            IF i <= Len(delivered) THEN delivered[i] ELSE pending[i - Len(delivered)]
  BY <1>1, ConcatProperties
<1>3. Len(delivered) \in Nat /\ Len(pending) \in Nat
  BY <1>1, LenProperties
<1>4. \A i \in 1..Len(pending) : body[Len(delivered) + i] = pending[i]
  <2> SUFFICES ASSUME NEW i \in 1..Len(pending)
               PROVE  body[Len(delivered) + i] = pending[i]
    OBVIOUS
  <2>1. /\ Len(delivered) + i \in 1..(Len(delivered) + Len(pending))
        /\ ~(Len(delivered) + i <= Len(delivered)) /\ Len(delivered) + i - Len(delivered) = i
    BY <1>3
  <2> QED
    BY <1>2, <2>1
<1>5. SubSeq(body, 1, Len(delivered)) = delivered
  BY <1>1, SubSeqOfConcat1
<1> QED
  BY <1>2, <1>3, <1>4, <1>5

\* A body followed by a chunk is a longer body.
LEMMA ChunkExtends ==
    ASSUME TypeOK, NEW chunk \in Chunks, body' = body \o chunk
    PROVE  Contract!Extends(body', body)
<1>1. body \in Seq(Lines) /\ chunk \in Seq(Lines) /\ Len(body) \in Nat
  BY ChunkIsBuffer, LenProperties DEF TypeOK
<1>2. Len(chunk) \in Nat \ {0}
  <2>1. PICK n \in 1..ChunkLines : chunk \in [1..n -> Lines]
    BY DEF Chunks
  <2>2. n \in Nat \ {0} /\ DOMAIN chunk = 1..n
    BY <2>1, StreamAssumption
  <2> QED
    BY <1>1, <2>2, LenProperties
<1>3. body' \in Seq(Lines) /\ Len(body') = Len(body) + Len(chunk)
  BY <1>1, ConcatProperties
<1>4. SubSeq(body', 1, Len(body)) = body
  BY <1>1, SubSeqOfConcat1
<1> QED
  BY <1>1, <1>2, <1>3, <1>4 DEF Contract!Extends

\* Where the handler is tells the phase of the contract.
LEMMA PhaseIs ==
    ASSUME TypeOK
    PROVE  /\ gw = "done" => Phase = "over"
           /\ gw # "done" /\ bypass => Phase = "open"
           /\ gw # "done" /\ ~bypass => Phase = "inspecting"
  BY DEF Phase

\* An inspecting handler that stops without a byte more.
LEMMA StopsInspecting ==
    ASSUME TypeOK, TypeOK', IndInv, gw # "done", ~bypass, gw' = "done",
           UNCHANGED <<request, body, delivered>>
    PROVE  Contract!Next
<1>1. /\ Len(delivered) \in Nat /\ Len(body) = Len(delivered) + Len(pending)
      /\ SubSeq(body, 1, Len(delivered)) = delivered /\ Len(pending) \in Nat
  BY DeliveredIsPrefix, LenProperties DEF IndInv, TypeOK
<1>2. Phase = "inspecting" /\ Phase' = "over"
  BY PhaseIs DEF Phase
<1>3. Len(delivered) \in Len(delivered)..Len(body)
  BY <1>1
<1>4. \A i \in (Len(delivered) + 1)..Len(delivered) : body[i] \notin Violating
  BY <1>1
<1>5. Contract!Approve
  BY <1>1, <1>2, <1>3, <1>4 DEF Contract!Approve
<1> QED
  BY <1>5 DEF Contract!Next

\* An inspecting handler that releases what the engine approved.
LEMMA ReleaseApproved ==
    ASSUME TypeOK, TypeOK', IndInv, gw # "done", ~bypass, ~bypass', UNCHANGED <<request, body>>,
           NEW n \in 0..Len(pending), Release(n), \A i \in 1..n : pending[i] \notin Violating
    PROVE  Contract!Next
<1>1. /\ Len(delivered) \in Nat /\ Len(body) = Len(delivered) + Len(pending)
      /\ Len(pending) \in Nat /\ n \in Nat
      /\ \A i \in 1..Len(pending) : body[Len(delivered) + i] = pending[i]
  BY DeliveredIsPrefix, LenProperties DEF IndInv, TypeOK
<1>2. Phase = "inspecting" /\ Phase' \in {"inspecting", "over"}
  BY DEF Phase
<1>3. delivered' = SubSeq(body, 1, Len(delivered) + n)
  <2>1. /\ Len(delivered') = Len(delivered) + n /\ delivered' \o pending' = delivered \o pending
        /\ delivered' \in Seq(Lines) /\ pending' \in Seq(Lines)
    BY ReleaseMoves, ReleaseTyped
  <2>2. body = delivered' \o pending'
    BY <2>1 DEF IndInv, NothingLost
  <2>3. SubSeq(delivered' \o pending', 1, Len(delivered')) = delivered'
    BY <2>1, SubSeqOfConcat1
  <2> QED
    BY <2>1, <2>2, <2>3
<1>4. Len(delivered) + n \in Len(delivered)..Len(body)
  BY <1>1
<1>5. ASSUME NEW i \in (Len(delivered) + 1)..(Len(delivered) + n) PROVE body[i] \notin Violating
  <2>1. i - Len(delivered) \in 1..n /\ i - Len(delivered) \in 1..Len(pending)
        /\ Len(delivered) + (i - Len(delivered)) = i
    BY <1>1
  <2> QED
    BY <1>1, <2>1
<1>6. Contract!Approve
  BY <1>2, <1>3, <1>4, <1>5 DEF Contract!Approve
<1> QED
  BY <1>6 DEF Contract!Next

\* An open tenant's stream leaves inspection with everything read so far.
LEMMA GivesUp ==
    ASSUME TypeOK, TypeOK', IndInv, gw # "done", ~bypass, bypass', request.failMode = "open",
           UNCHANGED <<request, body>>, delivered' = delivered \o pending
    PROVE  Contract!Next
<1>1. Phase = "inspecting" /\ Phase' \in {"open", "over"}
  BY DEF Phase
<1>2. delivered' = body
  BY DEF IndInv, NothingLost
<1>3. Contract!GiveUp
  BY <1>1, <1>2 DEF Contract!GiveUp
<1> QED
  BY <1>3 DEF Contract!Next

\* A step the client cannot see.
LEMMA Invisible ==
    ASSUME TypeOK, UNCHANGED <<request, body, delivered, bypass>>, gw' = "done" <=> gw = "done"
    PROVE  UNCHANGED Contract!vars
  BY DEF Contract!vars, Phase

\* Every step of handler, session and engine is a step of the contract or invisible in it.
LEMMA StepRefines ==
    ASSUME TypeOK, TypeOK', IndInv, Next
    PROVE  Contract!Next \/ UNCHANGED Contract!vars
<1>0. gw \in {"open", "opening", "read", "check", "close"} => ~bypass
  BY DEF IndInv, BypassIsOpen
<1>1. ASSUME NEW s, NEW why, Fail(s, why), gw # "done", ~bypass, UNCHANGED <<request, body, delivered>>
      PROVE  Contract!Next
  BY <1>1, StopsInspecting DEF Fail
<1>2. CASE OpenStream \/ ReadEnd \/ BackendAnswers
  BY <1>2, Invisible DEF OpenStream, ReadEnd, BackendAnswers
<1>3. CASE OpenAnswered
  <2>1. CASE toGateway[1].decision = "allow"
    BY <1>3, <2>1, Invisible DEF OpenAnswered
  <2>2. CASE toGateway[1].decision # "allow"
    BY <1>0, <1>1, <1>3, <2>2 DEF OpenAnswered
  <2> QED
    BY <2>1, <2>2
<1>4. CASE OpenFails
  <2>1. CASE request.failMode = "open"
    <3>1. gw = "opening" /\ ~bypass /\ bypass' /\ UNCHANGED <<request, body, delivered>>
      BY <1>0, <1>4, <2>1 DEF OpenFails
    <3>2. delivered = delivered \o pending
      BY <3>1, EmptySeq, ConcatEmptySeq DEF IndInv, NothingYet, NothingLost
    <3> QED
      BY <2>1, <3>1, <3>2, GivesUp
  <2>2. CASE request.failMode # "open"
    BY <1>0, <1>1, <1>4, <2>2 DEF OpenFails
  <2> QED
    BY <2>1, <2>2
<1>5. ASSUME gw # "done", bypass, bypass', gw' = "done", UNCHANGED <<request, body, delivered>>
      PROVE  Contract!Next
  <2>1. Phase = "open" /\ Phase' = "over"
    BY <1>5 DEF Phase
  <2>2. Contract!Stop
    BY <1>5, <2>1 DEF Contract!Stop
  <2> QED
    BY <2>2 DEF Contract!Next
<1>6. CASE NoBackend
  <2>1. gw = "route" /\ gw' = "done" /\ UNCHANGED <<request, body, delivered, bypass>>
    BY <1>6 DEF NoBackend, Fail
  <2>2. CASE bypass
    BY <1>5, <2>1, <2>2
  <2>3. CASE ~bypass
    BY <2>1, <2>3, StopsInspecting
  <2> QED
    BY <2>2, <2>3
<1>7. ASSUME NEW chunk \in Chunks, NEW last \in BOOLEAN, ReadChunk(chunk, last)
      PROVE  Contract!Next
  <2>1. /\ gw = "read" /\ gw' = "check" /\ ~bypass /\ ~bypass' /\ body' = body \o chunk
        /\ UNCHANGED <<request, delivered>>
    BY <1>0, <1>7 DEF ReadChunk
  <2>2. Contract!Extends(body', body)
    BY <2>1, ChunkExtends
  <2>3. Phase = "inspecting" /\ Phase' = "inspecting"
    BY <2>1 DEF Phase
  <2>4. Contract!Arrive
    BY <2>1, <2>2, <2>3 DEF Contract!Arrive
  <2> QED
    BY <2>4 DEF Contract!Next
<1>8. CASE CheckFails
  <2>1. CASE request.failMode = "open"
    BY <1>0, <1>8, <2>1, GivesUp DEF CheckFails, FailOpen
  <2>2. CASE request.failMode # "open"
    BY <1>0, <1>1, <1>8, <2>2 DEF CheckFails
  <2> QED
    BY <2>1, <2>2
<1>9. CASE CloseFails
  <2>1. CASE request.failMode = "open"
    BY <1>0, <1>9, <2>1, GivesUp DEF CloseFails, FailOpen
  <2>2. CASE request.failMode # "open"
    BY <1>0, <1>1, <1>9, <2>2 DEF CloseFails
  <2> QED
    BY <2>1, <2>2
<1>10. CASE CheckAnswered
  <2> DEFINE r == toGateway[1]
  <2>1. /\ gw = "check" /\ toGateway # <<>> /\ ~bypass /\ UNCHANGED <<request, body, bypass>>
        /\ Rejected(r) \/ Overrun(r) \/ WriteRefused(r) \/ Written(r)
    BY <1>0, <1>10 DEF CheckAnswered
  <2>2. CASE ~Written(r)
    BY <2>1, <2>2, StopsInspecting DEF Rejected, Overrun, WriteRefused, Fail, Return
  <2>3. CASE Written(r)
    <3>1. r.decision = "allow" /\ r.release \in 0..Len(pending) /\ Release(r.release)
      BY <2>3 DEF Written
    <3>2. \A i \in 1..r.release : pending[i] \notin Violating
      BY <2>1, <3>1 DEF IndInv, SessionInSync, AnswerFits
    <3> QED
      BY <2>1, <3>1, <3>2, ReleaseApproved
  <2> QED
    BY <2>2, <2>3
<1>11. CASE CloseAnswered
  <2> DEFINE r == toGateway[1]
  <2>1. /\ gw = "close" /\ toGateway # <<>> /\ ~bypass /\ UNCHANGED <<request, body, bypass>>
        /\ Rejected(r) \/ Overrun(r) \/ Finished(r)
    BY <1>0, <1>11 DEF CloseAnswered
  <2>2. CASE ~Finished(r)
    BY <2>1, <2>2, StopsInspecting DEF Rejected, Overrun, Fail
  <2>3. CASE Finished(r)
    <3>1. r.decision = "allow" /\ r.release \in 0..Len(pending) /\ Release(r.release)
      BY <2>3 DEF Finished
    <3>2. \A i \in 1..r.release : pending[i] \notin Violating
      BY <2>1, <3>1 DEF IndInv, SessionInSync, FinalAnswerFits, Violating
    <3> QED
      BY <2>1, <3>1, <3>2, ReleaseApproved
  <2> QED
    BY <2>2, <2>3
<1>12. ASSUME NEW chunk \in Chunks, Copy(chunk)
       PROVE  Contract!Next
  <2>1. /\ gw = "copy" /\ gw' = "copy" /\ bypass /\ bypass' /\ body' = body \o chunk
        /\ delivered' = delivered \o chunk /\ request' = request
    BY <1>12 DEF Copy, IndInv, BypassIsOpen
  <2>2. delivered' = body'
    <3>1. body = delivered \o pending /\ pending = <<>> /\ delivered \in Seq(Lines)
      BY <2>1 DEF IndInv, NothingLost, BypassIsOpen, TypeOK
    <3>2. delivered = body
      BY <3>1, ConcatEmptySeq
    <3> QED
      BY <2>1, <3>2
  <2>3. Contract!Extends(body', body)
    BY <2>1, ChunkExtends
  <2>4. Phase = "open" /\ Phase' = "open"
    BY <2>1 DEF Phase
  <2>5. Contract!PassThrough
    BY <2>1, <2>2, <2>3, <2>4 DEF Contract!PassThrough
  <2> QED
    BY <2>5 DEF Contract!Next
<1>13. CASE CopyEnd
  BY <1>5, <1>13 DEF CopyEnd, Return, IndInv, BypassIsOpen
<1>14. CASE Engine \/ EngineCrash \/ Timeout \/ ClientGone
  <2>1. UNCHANGED <<request, gwVars>>
    BY <1>14 DEF Engine, EngineOpen, EngineChunk, EngineClose, EngineCancelled, EngineCrash,
                 Timeout, ClientGone
  <2> QED
    BY <2>1, Invisible DEF gwVars
<1> QED
  BY <1>2, <1>3, <1>4, <1>6, <1>7, <1>8, <1>9, <1>10, <1>11, <1>12, <1>13, <1>14
     DEF Next, Gateway, Backend

\* Handler, policy session and engine implement the client's contract for every body,
\* chunking, budget and failure: each of their steps is a contract step or invisible
\* (forwardStream and check_stream against StreamContract).
THEOREM StreamImplementsContract == Spec => ImplementsContract
<1>1. Init => Contract!Init
  <2> SUFFICES ASSUME Init PROVE Contract!Init
    OBVIOUS
  <2>1. request.failMode \in {"open", "closed"}
    BY StreamAssumption DEF Init, Request
  <2>2. Phase = "inspecting"
    BY DEF Init, Phase
  <2> QED
    BY <2>1, <2>2 DEF Init, Contract!Init
<1>2. TypeOK /\ TypeOK' /\ IndInv /\ [Next]_vars => [Contract!Next]_(Contract!vars)
  <2>1. TypeOK /\ UNCHANGED vars => UNCHANGED Contract!vars
    BY Invisible DEF vars, gwVars
  <2> QED
    BY <2>1, StepRefines
<1> QED
  BY <1>1, <1>2, SessionsInStep, TypeCorrect, PTL DEF Spec, ImplementsContract, Contract!Spec

(***************************************************************************)
(* The inspector's loop: inspect() of InspectorLoop.tla, round by round,   *)
(* judges a buffer as the pointwise definitions of StreamInspector.tla do, *)
(* and judges it the same however it was cut into chunks.                  *)
(***************************************************************************)

\* A non-empty set of naturals has a least element.
LEMMA LeastIs ==
    ASSUME NEW S, S \subseteq Nat, S # {}
    PROVE  \E n \in S : \A m \in S : n <= m
<1> DEFINE less == {ss \in Nat \X Nat : ss[1] < ss[2]}
<1>1. IsWellFoundedOn(less, Nat)
  BY NatLessThanWellFounded DEF OpToRel
<1>2. \A m, k \in Nat : ~(<<m, k>> \in less) => k <= m
  OBVIOUS
<1> HIDE DEF less
<1>3. PICK n \in S : \A m \in S : ~(<<m, n>> \in less)
  BY <1>1, WFMin
<1> QED
  BY <1>2, <1>3

\* f starts at x and goes on by F.
Repeats(f, N, St, x, F) == /\ f \in [0..N -> St] /\ f[0] = x
                           /\ \A n \in 1..N : f[n] = F[f[n - 1]]

\* A step that stays among St can be repeated any number of times.
LEMMA Iterates ==
    ASSUME NEW N \in Nat, NEW St, NEW x \in St, NEW F \in [St -> St]
    PROVE  \E f : Repeats(f, N, St, x, F)
<1> DEFINE bad == {k \in 0..N : ~\E f : Repeats(f, k, St, x, F)}
<1> SUFFICES ASSUME bad # {} PROVE FALSE
  OBVIOUS
<1>1. bad \subseteq Nat
  OBVIOUS
<1>2. PICK k \in bad : \A m \in bad : k <= m
  <2> HIDE DEF bad
  <2> QED
    BY <1>1, LeastIs
<1>3. k \in 0..N /\ ~\E f : Repeats(f, k, St, x, F)
  OBVIOUS
<1>4. CASE k = 0
  <2> DEFINE f == [n \in 0..0 |-> x]
  <2>1. f \in [0..0 -> St] /\ f[0] = x /\ 1..0 = {}
    OBVIOUS
  <2>2. Repeats(f, 0, St, x, F)
    BY <2>1 DEF Repeats
  <2> QED
    BY <1>3, <1>4, <2>2
<1>5. CASE k # 0
  <2>1. k - 1 \in 0..N /\ k - 1 \notin bad /\ k \in 1..N
    BY <1>2, <1>3, <1>5
  <2>2. PICK f : Repeats(f, k - 1, St, x, F)
    BY <2>1
  <2>3. /\ f \in [0..(k - 1) -> St] /\ f[0] = x
        /\ \A n \in 1..(k - 1) : f[n] = F[f[n - 1]]
    BY <2>2 DEF Repeats
  <2> DEFINE g == [n \in 0..k |-> IF n = k THEN F[f[k - 1]] ELSE f[n]]
  <2>4. /\ 0 \in 0..k /\ 0 # k /\ k \in 0..k /\ k - 1 \in 0..(k - 1)
        /\ \A n \in 0..k : n # k => n \in 0..(k - 1)
    BY <2>1
  <2>5. f[k - 1] \in St
    BY <2>3, <2>4
  <2>6. g \in [0..k -> St] /\ g[0] = x
    BY <2>3, <2>4, <2>5
  <2>7. ASSUME NEW n \in 1..k PROVE g[n] = F[g[n - 1]]
    <3>1. n \in 0..k /\ n - 1 \in 0..k /\ n - 1 # k
      BY <2>1
    <3>2. g[n - 1] = f[n - 1]
      BY <3>1
    <3>3. CASE n = k
      BY <3>1, <3>2, <3>3
    <3>4. CASE n # k
      <4>1. n \in 1..(k - 1)
        BY <2>1, <3>4
      <4> QED
        BY <2>3, <3>1, <3>2, <3>4, <4>1
    <3> QED
      BY <3>3, <3>4
  <2>8. Repeats(g, k, St, x, F)
    <3> HIDE DEF g
    <3> QED
      BY <2>6, <2>7 DEF Repeats
  <2> QED
    BY <1>3, <2>8
<1> QED
  BY <1>4, <1>5

\* What holds at the start and is kept by every step holds all along.
LEMMA KeptAlong ==
    ASSUME NEW N \in Nat, NEW good, 0 \in good,
           \A n \in 1..N : n - 1 \in good => n \in good
    PROVE  \A n \in 0..N : n \in good
<1> DEFINE bad == {n \in 0..N : n \notin good}
<1> SUFFICES ASSUME bad # {} PROVE FALSE
  OBVIOUS
<1>1. bad \subseteq Nat
  OBVIOUS
<1>2. PICK k \in bad : \A m \in bad : k <= m
  <2> HIDE DEF bad
  <2> QED
    BY <1>1, LeastIs
<1>3. k # 0 /\ k \in 1..N /\ k - 1 \in 0..N
  OBVIOUS
<1>4. k - 1 \notin bad
  BY <1>2, <1>3
<1> QED
  BY <1>3, <1>4

------------------------------------------------------------------------------
\* The inspector stands at the end of an event of p, or at its start.
Reached(p, r) == r \in 0..Len(p) /\ (r # 0 => EndsEvent(p, r))

\* e ends the event that starts behind r.
NextEnd(p, r, e) == /\ e \in (r + 1)..Len(p) /\ EndsEvent(p, e)
                    /\ \A x \in DOMAIN p : EndsEvent(p, x) /\ x > r => e <= x

LEMMA BufferIs ==
    ASSUME NEW p \in Seq(Lines)
    PROVE  Len(p) \in Nat /\ DOMAIN p = 1..Len(p) /\ \A i \in 1..Len(p) : p[i] \in Line
  BY InspectAssumption

LEMMA ForemostIs ==
    ASSUME NEW p \in Seq(Lines), NEW r \in 0..Len(p), NEW u, Ends(p, r, u) # {}
    PROVE  LET e == Foremost(Ends(p, r, u)) IN
           /\ e \in (r + 1)..Len(p) /\ p[e] = u
           /\ \A x \in (r + 1)..Len(p) : p[x] = u => e <= x
<1> DEFINE E == Ends(p, r, u)
<1>1. E \subseteq Nat
  BY BufferIs DEF Ends
<1> HIDE DEF E
<1>2. \E e \in E : \A x \in E : e <= x
  BY <1>1, LeastIs DEF E
<1>3. Foremost(E) \in E /\ \A x \in E : Foremost(E) <= x
  BY <1>2 DEF Foremost
<1> QED
  BY <1>3 DEF E, Ends

\* find_event_end finds the next event end of the pointwise definition.
LEMMA EventEndIs ==
    ASSUME NEW p \in Seq(Lines), NEW r \in 0..Len(p)
    PROVE  LET e == find_event_end(p, r) IN
           /\ e = 0 => \A x \in DOMAIN p : EndsEvent(p, x) => x <= r
           /\ e # 0 => NextEnd(p, r, e)
<1> DEFINE N == Len(p)
<1>0. N \in Nat /\ DOMAIN p = 1..N /\ r \in Nat
  BY BufferIs
<1>1. CASE Ends(p, r, "lf") # {}
  <2> DEFINE e == Foremost(Ends(p, r, "lf"))
  <2>1. /\ e \in (r + 1)..N /\ p[e] = "lf"
        /\ \A x \in (r + 1)..N : p[x] = "lf" => e <= x
    BY <1>1, ForemostIs
  <2> HIDE DEF e
  <2>2. find_event_end(p, r) = e /\ e # 0
    BY <1>0, <1>1, <2>1 DEF find_event_end, e
  <2>3. ASSUME NEW x \in DOMAIN p, EndsEvent(p, x), x > r PROVE e <= x
    <3>1. x \in (r + 1)..N /\ e \in DOMAIN p
      BY <1>0, <2>1, <2>3
    <3>2. CASE p[x] = "lf"
      BY <2>1, <3>1, <3>2
    <3>3. CASE p[x] = "crlf"
      <4>1. e < x
        BY <2>1, <2>3, <3>1, <3>3 DEF EndsEvent
      <4> QED
        BY <1>0, <2>1, <3>1, <4>1
    <3> QED
      BY <2>3, <3>2, <3>3 DEF EndsEvent
  <2>4. NextEnd(p, r, e)
    BY <2>1, <2>3 DEF NextEnd, EndsEvent
  <2> QED
    BY <2>2, <2>4
<1>2. CASE Ends(p, r, "lf") = {} /\ Ends(p, r, "crlf") # {}
  <2> DEFINE e == Foremost(Ends(p, r, "crlf"))
  <2>1. /\ e \in (r + 1)..N /\ p[e] = "crlf"
        /\ \A x \in (r + 1)..N : p[x] = "crlf" => e <= x
    BY <1>2, ForemostIs
  <2> HIDE DEF e
  <2>2. find_event_end(p, r) = e /\ e # 0
    BY <1>0, <1>2, <2>1 DEF find_event_end, e
  <2>3. \A x \in (r + 1)..N : p[x] # "lf"
    BY <1>2 DEF Ends
  <2>4. \A x \in DOMAIN p : p[x] = "lf" => x < e
    <3> SUFFICES ASSUME NEW x \in DOMAIN p, p[x] = "lf" PROVE x < e
      OBVIOUS
    <3>1. x \notin (r + 1)..N
      BY <2>3
    <3> QED
      BY <1>0, <2>1, <3>1
  <2>5. ASSUME NEW x \in DOMAIN p, EndsEvent(p, x), x > r PROVE e <= x
    <3>1. x \in (r + 1)..N
      BY <1>0, <2>5
    <3> QED
      BY <2>1, <2>3, <2>5, <3>1 DEF EndsEvent
  <2>6. NextEnd(p, r, e)
    BY <2>1, <2>4, <2>5 DEF NextEnd, EndsEvent
  <2> QED
    BY <2>2, <2>6
<1>3. CASE Ends(p, r, "lf") = {} /\ Ends(p, r, "crlf") = {}
  <2>1. find_event_end(p, r) = 0
    BY <1>3 DEF find_event_end
  <2>2. \A x \in (r + 1)..N : p[x] # "lf" /\ p[x] # "crlf"
    BY <1>3 DEF Ends
  <2>3. ASSUME NEW x \in DOMAIN p, EndsEvent(p, x) PROVE x <= r
    <3>1. x \notin (r + 1)..N
      BY <2>2, <2>3 DEF EndsEvent
    <3> QED
      BY <1>0, <3>1
  <2> QED
    BY <2>1, <2>3
<1> QED
  BY <1>1, <1>2, <1>3

\* The lines behind r up to e are one event, and no other line belongs to it.
LEMMA OneEvent ==
    ASSUME NEW p \in Seq(Lines), NEW r, NEW e, Reached(p, r), NextEnd(p, r, e),
           NEW i \in (r + 1)..e, NEW j \in 1..Len(p)
    PROVE  SameEvent(p, i, j) <=> j \in (r + 1)..e
<1>0. Len(p) \in Nat /\ DOMAIN p = 1..Len(p) /\ r \in 0..Len(p)
  BY BufferIs DEF Reached
<1>1. e \in (r + 1)..Len(p)
  BY DEF NextEnd
<1>2. CASE j <= r
  <2>1. r \in DOMAIN p /\ EndsEvent(p, r) /\ r < i /\ ~(r < j)
    BY <1>0, <1>1, <1>2 DEF Reached
  <2> QED
    BY <1>0, <1>1, <1>2, <2>1 DEF SameEvent
<1>3. CASE j > e
  <2>1. e \in DOMAIN p /\ EndsEvent(p, e) /\ ~(e < i) /\ e < j
    BY <1>0, <1>1, <1>3 DEF NextEnd
  <2> QED
    BY <1>0, <1>1, <1>3, <2>1 DEF SameEvent
<1>4. CASE j \in (r + 1)..e
  <2>1. ASSUME NEW x \in DOMAIN p, EndsEvent(p, x) PROVE x < i <=> x < j
    <3>1. x > r => e <= x
      BY <1>1, <2>1 DEF NextEnd
    <3> QED
      BY <1>0, <1>1, <1>4, <3>1
  <2> QED
    BY <1>4, <2>1 DEF SameEvent
<1> QED
  BY <1>0, <1>1, <1>2, <1>3, <1>4

\* A stretch without text lines adds none ...
LEMMA NoText ==
    ASSUME NEW p, NEW r \in Nat, NEW e \in Nat, r <= e, \A j \in (r + 1)..e : p[j] # "text"
    PROVE  Texts(p, e) = Texts(p, r)
<1>1. {j \in 1..r : p[j] = "text"} = {j \in 1..e : p[j] = "text"}
  OBVIOUS
<1> QED
  BY <1>1 DEF Texts

\* ... and one with a single text line adds one.
LEMMA OneText ==
    ASSUME NEW p, NEW r \in Nat, NEW e \in Nat, NEW i \in (r + 1)..e,
           \A j \in (r + 1)..e : p[j] = "text" <=> j = i
    PROVE  Texts(p, e) = Texts(p, r) + 1
<1> DEFINE A == {j \in 1..r : p[j] = "text"}
           B == {j \in 1..e : p[j] = "text"}
<1>1. IsFiniteSet(A)
  <2>1. IsFiniteSet(1..r) /\ A \in SUBSET (1..r)
    BY FS_Interval
  <2> HIDE DEF A
  <2> QED
    BY <2>1, FS_Subset
<1>2. B = A \cup {i} /\ i \notin A
  OBVIOUS
<1>3. Texts(p, r) = Cardinality(A) /\ Texts(p, e) = Cardinality(B)
  BY DEF Texts
<1> HIDE DEF A, B
<1> QED
  BY <1>1, <1>2, <1>3, FS_AddElement

\* m is what an inspector remembers that had sd and sem before and has passed n lines of p.
Remembers(p, n, sd, sem, m) ==
    /\ m.semantic = sem + TextBytes * Texts(p, n)
    /\ m.sawDone = (sd \/ \E i \in 1..n : p[i] = "done")

\* A line that failed within its event fails for good, and a line that passed passes
\* whatever later events hold.
LEMMA OtherEvents ==
    ASSUME NEW p \in Seq(Lines), NEW r, NEW e, Reached(p, r), NextEnd(p, r, e),
           NEW sd, NEW sem, NEW bud, NEW i \in 1..r
    PROVE  LinePasses(p, r, i, sd, sem, bud) => LinePasses(p, e, i, sd, sem, bud)
<1>0. Len(p) \in Nat /\ r \in 0..Len(p) /\ e \in (r + 1)..Len(p)
  BY BufferIs DEF Reached, NextEnd
<1>1. ASSUME NEW j \in (r + 1)..e PROVE ~SameEvent(p, i, j)
  <2>1. i \in 1..Len(p) /\ i \notin (r + 1)..e
    BY <1>0
  <2>2. ~SameEvent(p, j, i)
    BY <1>0, <2>1, OneEvent
  <2> QED
    BY <2>2 DEF SameEvent
<1>2. \A j \in 1..e : j \in 1..r \/ j \in (r + 1)..e
  BY <1>0
<1> QED
  BY <1>1, <1>2 DEF LinePasses

\* The verdict s on the events of p up to e is that on their lines.
Judged(p, e, sd, sem, bud, s) ==
    /\ s.ok \in BOOLEAN /\ s.m \in Memory
    /\ s.ok => EventsPass(p, e, sd, sem, bud) /\ Remembers(p, e, sd, sem, s.m)
    /\ ~s.ok => \E i \in 1..e : p[i] \in DataLine /\ ~LinePasses(p, e, i, sd, sem, bud)

\* One event: inspect_event lets it pass exactly when its data line passes, and remembers it.
LEMMA EventStep ==
    ASSUME NEW p \in Seq(Lines), NEW r, NEW e, Reached(p, r), NextEnd(p, r, e),
           NEW m \in Memory, NEW sd \in BOOLEAN, NEW sem \in Nat, NEW bud \in Nat,
           Remembers(p, r, sd, sem, m), EventsPass(p, r, sd, sem, bud)
    PROVE  Judged(p, e, sd, sem, bud, inspect_event(p, r, e, m, bud))
<1> DEFINE D == event_data(p, r, e)
           said == m.semantic + TextBytes
           s == inspect_event(p, r, e, m, bud)
<1>0. /\ Len(p) \in Nat /\ r \in Nat /\ e \in Nat /\ r < e /\ e <= Len(p)
      /\ r \in 0..Len(p) /\ e \in (r + 1)..Len(p)
  BY BufferIs DEF Reached, NextEnd
<1>1. /\ m.semantic \in Nat /\ m.sawDone \in BOOLEAN /\ TextBytes \in Nat /\ said \in Nat
      /\ Texts(p, r) \in Nat
  BY <1>0, TextBytesAssumption, TextsIsNat DEF Memory
<1>2. /\ m.semantic = sem + TextBytes * Texts(p, r)
      /\ m.sawDone = (sd \/ \E i \in 1..r : p[i] = "done")
  BY DEF Remembers
<1>3. \A i \in D : i \in (r + 1)..e /\ p[i] \in DataLine /\ i \in 1..e /\ i \in 1..Len(p)
  BY <1>0 DEF event_data
<1>4. \A i \in (r + 1)..e : p[i] \in DataLine => i \in D
  BY DEF event_data
<1>5. ASSUME NEW i \in 1..r, p[i] \in DataLine PROVE LinePasses(p, e, i, sd, sem, bud)
  BY <1>5, OtherEvents DEF EventsPass
<1>6. \A i \in 1..e : i \in 1..r \/ i \in (r + 1)..e
  BY <1>0
<1>7. \A i \in D, j \in 1..e : SameEvent(p, i, j) <=> j \in (r + 1)..e
  <2>1. \A j \in 1..e : j \in 1..Len(p)
    BY <1>0
  <2> QED
    BY <1>3, <2>1, OneEvent
<1>8. (\E i \in 1..e : p[i] = "done") <=>
        ((\E i \in 1..r : p[i] = "done") \/ \E i \in D : p[i] = "done")
  <2>1. \A i \in 1..r : i \in 1..e
    BY <1>0
  <2> QED
    BY <1>3, <1>4, <1>6, <2>1 DEF DataLine
<1> HIDE DEF D, said
<1>9. CASE D = {}
  <2>1. s = [ok |-> TRUE, m |-> m]
    BY <1>9 DEF inspect_event, D
  <2>2. EventsPass(p, e, sd, sem, bud)
    BY <1>4, <1>5, <1>6, <1>9 DEF EventsPass
  <2>3. \A j \in (r + 1)..e : p[j] # "text"
    BY <1>4, <1>9 DEF DataLine
  <2>4. Texts(p, e) = Texts(p, r)
    BY <1>0, <2>3, NoText
  <2>5. Remembers(p, e, sd, sem, m)
    BY <1>2, <1>8, <1>9, <2>4 DEF Remembers
  <2> QED
    BY <2>1, <2>2, <2>5 DEF Judged, s
<1>10. CASE D # {} /\ DataIs(p, D, "done")
  <2>1. PICK i \in D : D = {i} /\ p[i] = "done"
    BY <1>10 DEF DataIs
  <2> DEFINE w == [m EXCEPT !.sawDone = TRUE]
  <2>2. s = [ok |-> TRUE, m |-> w]
    BY <1>10 DEF inspect_event, D
  <2>3. w \in Memory /\ w.semantic = m.semantic /\ w.sawDone = TRUE
    BY DEF Memory
  <2>4. LinePasses(p, e, i, sd, sem, bud)
    BY <1>3, <1>4, <1>7, <2>1 DEF LinePasses, Violating
  <2>5. EventsPass(p, e, sd, sem, bud)
    BY <1>4, <1>5, <1>6, <2>1, <2>4 DEF EventsPass
  <2>6. \A j \in (r + 1)..e : p[j] # "text"
    BY <1>4, <2>1 DEF DataLine
  <2>7. Texts(p, e) = Texts(p, r)
    BY <1>0, <2>6, NoText
  <2> HIDE DEF w
  <2>8. Remembers(p, e, sd, sem, w)
    BY <1>2, <1>8, <2>1, <2>3, <2>7 DEF Remembers
  <2> QED
    BY <2>2, <2>3, <2>5, <2>8 DEF Judged, s
<1>11. CASE D # {} /\ ~DataIs(p, D, "done") /\ ~m.sawDone /\ DataIs(p, D, "text")
  <2>1. PICK i \in D : D = {i} /\ p[i] = "text"
    BY <1>11 DEF DataIs
  <2> DEFINE w == [m EXCEPT !.semantic = said]
  <2>2. s = [ok |-> WithinBudget(bud, said), m |-> w]
    BY <1>11 DEF inspect_event, D, said
  <2>3. w \in Memory /\ w.semantic = said /\ w.sawDone = m.sawDone
    BY <1>1 DEF Memory
  <2>4. i \in (r + 1)..e /\ i \in Nat /\ r <= i /\ i <= e /\ i \in (r + 1)..i
    BY <1>0, <1>3
  <2>5. \A j \in (r + 1)..e : p[j] = "text" <=> j = i
    BY <1>4, <2>1 DEF DataLine
  <2>6. Texts(p, e) = Texts(p, r) + 1
    BY <1>0, <2>4, <2>5, OneText
  <2>7. Texts(p, i) = Texts(p, r) + 1
    <3>1. \A j \in (r + 1)..i : j \in (r + 1)..e
      BY <1>0, <2>4
    <3>2. \A j \in (r + 1)..i : p[j] = "text" <=> j = i
      BY <2>5, <3>1
    <3> QED
      BY <1>0, <2>4, <3>2, OneText
  <2>8. sem + TextBytes * Texts(p, i) = said /\ sem + TextBytes * Texts(p, e) = said
    <3>1. TextBytes * (Texts(p, r) + 1) = TextBytes * Texts(p, r) + TextBytes
      BY <1>1
    <3>2. TextBytes * Texts(p, r) \in Nat
      BY <1>1
    <3> QED
      BY <1>1, <1>2, <2>6, <2>7, <3>1, <3>2 DEF said
  <2>9. ~sd /\ \A j \in 1..(i - 1) : p[j] # "done"
    <3>1. ~sd /\ \A j \in 1..r : p[j] # "done"
      BY <1>2, <1>11
    <3>2. ASSUME NEW j \in (r + 1)..(i - 1) PROVE p[j] # "done"
      <4>1. j \in (r + 1)..e /\ j # i
        BY <1>0, <2>4
      <4> QED
        BY <1>4, <2>1, <4>1 DEF DataLine
    <3>3. \A j \in 1..(i - 1) : j \in 1..r \/ j \in (r + 1)..(i - 1)
      BY <1>0, <2>4
    <3> QED
      BY <3>1, <3>2, <3>3
  <2>10. LinePasses(p, e, i, sd, sem, bud) <=> WithinBudget(bud, said)
    BY <1>4, <1>7, <2>1, <2>8, <2>9 DEF LinePasses, Violating
  <2>11. WithinBudget(bud, said) => EventsPass(p, e, sd, sem, bud)
    BY <1>4, <1>5, <1>6, <2>1, <2>10 DEF EventsPass
  <2> HIDE DEF w
  <2>12. Remembers(p, e, sd, sem, w)
    BY <1>2, <1>8, <2>1, <2>3, <2>8 DEF Remembers
  <2>13. WithinBudget(bud, said) \in BOOLEAN
    BY DEF WithinBudget
  <2>14. i \in 1..e /\ p[i] \in DataLine
    BY <1>3
  <2> QED
    BY <2>2, <2>3, <2>10, <2>11, <2>12, <2>13, <2>14 DEF Judged, s
<1>12. CASE D # {} /\ ~DataIs(p, D, "done") /\ ~(~m.sawDone /\ DataIs(p, D, "text"))
  <2>1. s = [ok |-> FALSE, m |-> m]
    BY <1>12 DEF inspect_event, D
  <2>2. PICK i \in D : TRUE
    BY <1>12
  <2>3. ~LinePasses(p, e, i, sd, sem, bud)
    <3> SUFFICES ASSUME LinePasses(p, e, i, sd, sem, bud) PROVE FALSE
      OBVIOUS
    <3>1. D = {i}
      <4> SUFFICES ASSUME NEW j \in D, j # i PROVE FALSE
        BY <2>2
      <4>1. SameEvent(p, i, j) /\ j \in 1..e /\ p[j] \in DataLine
        BY <1>3, <1>7
      <4> QED
        BY <4>1 DEF LinePasses
    <3>2. p[i] # "done"
      BY <1>12, <3>1 DEF DataIs
    <3>3. p[i] = "text"
      BY <1>3, <3>2 DEF LinePasses, DataLine
    <3>4. m.sawDone
      BY <1>12, <3>1, <3>3 DEF DataIs
    <3>5. ~sd /\ \A j \in 1..(i - 1) : p[j] # "done"
      BY <3>3 DEF LinePasses
    <3>6. \A j \in 1..r : j \in 1..(i - 1)
      BY <1>0, <1>3
    <3> QED
      BY <1>2, <3>4, <3>5, <3>6
  <2>4. i \in 1..e /\ p[i] \in DataLine
    BY <1>3
  <2> QED
    BY <2>1, <2>3, <2>4 DEF Judged, s
<1> HIDE DEF s
<1> QED
  BY <1>9, <1>10, <1>11, <1>12 DEF s

LEMMA EventTyped ==
    ASSUME NEW p, NEW r, NEW e, NEW m \in Memory, NEW bud
    PROVE  LET s == inspect_event(p, r, e, m, bud) IN s.ok \in BOOLEAN /\ s.m \in Memory
<1>1. m.semantic + TextBytes \in Nat
  BY TextBytesAssumption DEF Memory
<1>2. [m EXCEPT !.semantic = m.semantic + TextBytes] \in Memory
      /\ [m EXCEPT !.sawDone = TRUE] \in Memory
  BY <1>1 DEF Memory
<1>3. WithinBudget(bud, m.semantic + TextBytes) \in BOOLEAN
  BY DEF WithinBudget
<1> QED
  BY <1>2, <1>3 DEF inspect_event

\* There is a last event end.
LEMMA LastEnd ==
    ASSUME NEW p \in Seq(Lines)
    PROVE  \E n \in 0..Len(p) : ReleasesUpTo(p, n)
<1> DEFINE N == Len(p)
           T == {N - e : e \in {x \in 1..N : EndsEvent(p, x)}}
<1>0. N \in Nat /\ DOMAIN p = 1..N
  BY BufferIs
<1>1. CASE \A x \in 1..N : ~EndsEvent(p, x)
  <2>1. ReleasesUpTo(p, 0) /\ 0 \in 0..N
    BY <1>0, <1>1 DEF ReleasesUpTo
  <2> QED
    BY <2>1
<1>2. CASE \E x \in 1..N : EndsEvent(p, x)
  <2>1. T \subseteq Nat /\ T # {}
    BY <1>0, <1>2
  <2>2. PICK k \in T : \A y \in T : k <= y
    <3> HIDE DEF T
    <3> QED
      BY <2>1, LeastIs
  <2>3. PICK n \in 1..N : EndsEvent(p, n) /\ k = N - n
    OBVIOUS
  <2>4. ASSUME NEW x \in 1..N, EndsEvent(p, x) PROVE x <= n
    <3>1. N - x \in T
      BY <2>4
    <3>2. N - n <= N - x
      BY <2>2, <2>3, <3>1
    <3> QED
      BY <1>0, <3>2
  <2>5. ReleasesUpTo(p, n) /\ n \in 0..N
    BY <1>0, <2>3, <2>4 DEF ReleasesUpTo
  <2> QED
    BY <2>5
<1> QED
  BY <1>1, <1>2

\* What the loop has found out when it has come to s in n rounds.
FoundOut(p, n, sd, sem, bud, s) ==
    /\ s \in [ok : BOOLEAN, release : 0..Len(p), m : Memory]
    /\ s.ok => /\ Reached(p, s.release) /\ Remembers(p, s.release, sd, sem, s.m)
               /\ EventsPass(p, s.release, sd, sem, bud)
               /\ s.release >= n \/ find_event_end(p, s.release) = 0
    /\ ~s.ok => \E e \in 1..Len(p) :
                  /\ EndsEvent(p, e)
                  /\ \E i \in 1..e : p[i] \in DataLine /\ ~LinePasses(p, e, i, sd, sem, bud)

LEMMA RoundIs ==
    ASSUME NEW p \in Seq(Lines), NEW n \in Nat \ {0}, NEW sd \in BOOLEAN, NEW sem \in Nat,
           NEW bud \in Nat, NEW s, FoundOut(p, n - 1, sd, sem, bud, s)
    PROVE  FoundOut(p, n, sd, sem, bud, NextEvent(p, s, bud))
<1> DEFINE N == Len(p)
           r == s.release
           e == find_event_end(p, r)
           v == inspect_event(p, r, e, s.m, bud)
           t == NextEvent(p, s, bud)
<1>0. /\ N \in Nat /\ s \in [ok : BOOLEAN, release : 0..N, m : Memory]
      /\ s.ok \in BOOLEAN /\ r \in 0..N /\ s.m \in Memory
  BY BufferIs DEF FoundOut
<1>1. t = IF ~s.ok \/ e = 0 THEN s
          ELSE [ok |-> v.ok, release |-> IF v.ok THEN e ELSE 0, m |-> v.m]
  BY DEF NextEvent
<1>2. e # 0 => NextEnd(p, r, e)
  BY <1>0, EventEndIs
<1>3. CASE ~s.ok \/ e = 0
  BY <1>0, <1>1, <1>3 DEF FoundOut
<1>4. CASE s.ok /\ e # 0
  <2>1. /\ Reached(p, r) /\ Remembers(p, r, sd, sem, s.m) /\ EventsPass(p, r, sd, sem, bud)
        /\ r >= n - 1
    BY <1>4 DEF FoundOut
  <2>2. e \in (r + 1)..N /\ EndsEvent(p, e)
    BY <1>2, <1>4 DEF NextEnd
  <2> HIDE DEF e, v, r
  <2>3. Judged(p, e, sd, sem, bud, v)
    BY <1>0, <1>2, <1>4, <2>1, EventStep DEF v
  <2>4. t = [ok |-> v.ok, release |-> IF v.ok THEN e ELSE 0, m |-> v.m]
    BY <1>1, <1>4
  <2> HIDE DEF t
  <2>5. e \in 1..N /\ e \in 0..N /\ 0 \in 0..N /\ e >= n
    BY <1>0, <2>1, <2>2
  <2>6. CASE v.ok
    <3>1. t = [ok |-> TRUE, release |-> e, m |-> v.m] /\ v.m \in Memory
      BY <2>3, <2>4, <2>6 DEF Judged
    <3>2. /\ EventsPass(p, e, sd, sem, bud) /\ Remembers(p, e, sd, sem, v.m)
          /\ Reached(p, e)
      BY <2>2, <2>3, <2>5, <2>6 DEF Judged, Reached
    <3> QED
      BY <2>5, <3>1, <3>2 DEF FoundOut, t
  <2>7. CASE ~v.ok
    <3>1. t = [ok |-> FALSE, release |-> 0, m |-> v.m] /\ v.m \in Memory
      BY <2>3, <2>4, <2>7 DEF Judged
    <3>2. \E i \in 1..e : p[i] \in DataLine /\ ~LinePasses(p, e, i, sd, sem, bud)
      BY <2>3, <2>7 DEF Judged
    <3> QED
      BY <2>2, <2>5, <3>1, <3>2 DEF FoundOut, t
  <2> QED
    BY <2>3, <2>6, <2>7 DEF Judged
<1> QED
  BY <1>0, <1>3, <1>4

\* The verdict r on a buffer whose last event ends at n is that on its lines.
Verdict(p, n, m, bud, r) ==
    /\ r.ok \in BOOLEAN /\ (r.ok <=> EventsPass(p, n, m.sawDone, m.semantic, bud))
    /\ r.m \in Memory /\ r.release \in 0..Len(p)
    /\ r.ok => r.release = n /\ Remembers(p, n, m.sawDone, m.semantic, r.m)

LEMMA LoopEnds ==
    ASSUME NEW p \in Seq(Lines), NEW m \in Memory, NEW bud \in Nat, NEW r,
           FoundOut(p, Len(p), m.sawDone, m.semantic, bud, r)
    PROVE  \E n \in 0..Len(p) : ReleasesUpTo(p, n) /\ Verdict(p, n, m, bud, r)
<1> DEFINE N == Len(p)
           sd == m.sawDone
           sem == m.semantic
<1>0. N \in Nat /\ DOMAIN p = 1..N /\ r.ok \in BOOLEAN /\ r.release \in 0..N /\ r.m \in Memory
  BY BufferIs DEF FoundOut
<1>1. CASE r.ok
  <2> DEFINE n == r.release
  <2>1. /\ Reached(p, n) /\ Remembers(p, n, sd, sem, r.m) /\ EventsPass(p, n, sd, sem, bud)
        /\ n >= N \/ find_event_end(p, n) = 0
    BY <1>1 DEF FoundOut
  <2>2. \A x \in DOMAIN p : EndsEvent(p, x) => x <= n
    <3>1. CASE n >= N
      BY <1>0, <3>1
    <3>2. CASE find_event_end(p, n) = 0
      BY <1>0, <3>2, EventEndIs
    <3> QED
      BY <2>1, <3>1, <3>2
  <2>3. ReleasesUpTo(p, n)
    BY <1>0, <2>1, <2>2 DEF ReleasesUpTo, Reached
  <2>4. Verdict(p, n, m, bud, r)
    BY <1>0, <1>1, <2>1 DEF Verdict
  <2> QED
    BY <1>0, <2>3, <2>4
<1>2. CASE ~r.ok
  <2>1. PICK n \in 0..N : ReleasesUpTo(p, n)
    BY LastEnd
  <2>2. PICK e \in 1..N : /\ EndsEvent(p, e)
                          /\ \E i \in 1..e : p[i] \in DataLine
                                               /\ ~LinePasses(p, e, i, sd, sem, bud)
    BY <1>2 DEF FoundOut
  <2>3. PICK i \in 1..e : p[i] \in DataLine /\ ~LinePasses(p, e, i, sd, sem, bud)
    BY <2>2
  <2>4. e <= n
    BY <1>0, <2>1, <2>2 DEF ReleasesUpTo
  <2>5. i \in 1..n /\ \A j \in 1..e : j \in 1..n
    BY <1>0, <2>4
  <2>6. ~LinePasses(p, n, i, sd, sem, bud)
    BY <2>3, <2>5 DEF LinePasses
  <2>7. ~EventsPass(p, n, sd, sem, bud)
    BY <2>3, <2>5, <2>6 DEF EventsPass
  <2>8. Verdict(p, n, m, bud, r)
    BY <1>0, <1>2, <2>7 DEF Verdict
  <2> QED
    BY <2>1, <2>8
<1> QED
  BY <1>0, <1>1, <1>2

\* The loop of inspect computes the verdict on the lines, from any memory of earlier chunks.
LEMMA InspectIs ==
    ASSUME NEW p \in Seq(Lines), NEW m \in Memory, NEW bud \in Nat
    PROVE  \E n \in 0..Len(p) : ReleasesUpTo(p, n) /\ Verdict(p, n, m, bud, inspect(p, m, bud))
<1> DEFINE N == Len(p)
           St == [ok : BOOLEAN, release : 0..N, m : Memory]
           x == [ok |-> TRUE, release |-> 0, m |-> m]
           Step(f, n) == IF n = 0 THEN x ELSE NextEvent(p, f[n - 1], bud)
           Run(f) == [n \in 0..N |-> Step(f, n)]
           h == CHOOSE f : f = Run(f)
           F == [s \in St |-> NextEvent(p, s, bud)]
<1>0. N \in Nat
  BY BufferIs
<1>1. inspect(p, m, bud) = h[N]
  BY DEF inspect
<1>2. x \in St
  BY <1>0
<1>3. ASSUME NEW s \in St PROVE NextEvent(p, s, bud) \in St
  <2> DEFINE e == find_event_end(p, s.release)
             v == inspect_event(p, s.release, e, s.m, bud)
  <2>1. s.release \in 0..N /\ s.m \in Memory
    OBVIOUS
  <2>2. e # 0 => e \in 0..N
    <3>1. e # 0 => e \in (s.release + 1)..N
      BY <2>1, EventEndIs DEF NextEnd
    <3> HIDE DEF e
    <3> QED
      BY <1>0, <2>1, <3>1
  <2>3. v.ok \in BOOLEAN /\ v.m \in Memory
    <3> HIDE DEF e
    <3> QED
      BY <2>1, EventTyped
  <2>4. NextEvent(p, s, bud) =
          IF ~s.ok \/ e = 0 THEN s
          ELSE [ok |-> v.ok, release |-> IF v.ok THEN e ELSE 0, m |-> v.m]
    BY DEF NextEvent
  <2> HIDE DEF e, v
  <2> QED
    BY <1>0, <2>2, <2>3, <2>4
<1> HIDE DEF St, x
<1>4. F \in [St -> St]
  BY <1>3
<1>5. \E f : f = Run(f)
  <2>1. PICK f : Repeats(f, N, St, x, F)
    <3> HIDE DEF F
    <3> QED
      BY <1>0, <1>2, <1>4, Iterates
  <2>2. /\ f \in [0..N -> St] /\ f[0] = x
        /\ \A n \in 1..N : f[n] = F[f[n - 1]]
    BY <2>1 DEF Repeats
  <2>3. ASSUME NEW n \in 0..N PROVE f[n] = Step(f, n)
    <3>1. CASE n = 0
      BY <2>2, <3>1
    <3>2. CASE n # 0
      <4>1. n \in 1..N /\ n - 1 \in 0..N
        BY <1>0, <3>2
      <4>2. f[n - 1] \in St
        BY <2>2, <4>1
      <4> QED
        BY <2>2, <3>2, <4>1, <4>2
    <3> QED
      BY <3>1, <3>2
  <2>4. f = [n \in 0..N |-> f[n]]
    BY <2>2
  <2> HIDE DEF Step
  <2>5. f = Run(f)
    BY <2>3, <2>4
  <2> QED
    BY <2>5
<1>6. h = Run(h)
  <2> HIDE DEF Run
  <2> QED
    BY <1>5, Zenon DEF h
<1> HIDE DEF h
<1>7. \A n \in 0..N : h[n] = Step(h, n)
  <2> HIDE DEF Step
  <2> QED
    BY <1>6
<1> DEFINE Good(n) == FoundOut(p, n, m.sawDone, m.semantic, bud, h[n])
           good == {n \in 0..N : Good(n)}
<1>8. 0 \in good
  <2>1. h[0] = x /\ 0 \in 0..N
    BY <1>0, <1>7
  <2>2. Texts(p, 0) = 0
    BY NoTexts
  <2>3. m.semantic = m.semantic + TextBytes * 0 /\ m.sawDone \in BOOLEAN
    BY TextBytesAssumption DEF Memory
  <2>4. Remembers(p, 0, m.sawDone, m.semantic, m) /\ EventsPass(p, 0, m.sawDone, m.semantic, bud)
    BY <2>2, <2>3 DEF Remembers, EventsPass
  <2>5. Reached(p, 0)
    BY <1>0 DEF Reached
  <2>6. FoundOut(p, 0, m.sawDone, m.semantic, bud, x)
    BY <1>0, <1>2, <2>4, <2>5 DEF FoundOut, x, St
  <2> QED
    BY <2>1, <2>6
<1>9. ASSUME NEW n \in 1..N, n - 1 \in good PROVE n \in good
  <2>1. n \in Nat \ {0} /\ n \in 0..N
    BY <1>0
  <2>2. h[n] = NextEvent(p, h[n - 1], bud)
    BY <1>7, <2>1
  <2>3. m.sawDone \in BOOLEAN /\ m.semantic \in Nat
    BY DEF Memory
  <2>4. FoundOut(p, n - 1, m.sawDone, m.semantic, bud, h[n - 1])
    BY <1>9
  <2>5. FoundOut(p, n, m.sawDone, m.semantic, bud, NextEvent(p, h[n - 1], bud))
    BY <2>1, <2>3, <2>4, RoundIs
  <2> QED
    BY <2>1, <2>2, <2>5
<1>10. \A n \in 0..N : n \in good
  <2> HIDE DEF good, N
  <2> QED
    BY <1>0, <1>8, <1>9, KeptAlong
<1>11. FoundOut(p, N, m.sawDone, m.semantic, bud, h[N])
  BY <1>0, <1>10
<1> QED
  BY <1>1, <1>11, LoopEnds

InspectTypes == buffer \in Seq(Lines) /\ seen \in BOOLEAN /\ tokens \in Nat

LEMMA InspectAlwaysTyped == InspectSpec => []InspectTypes
<1>1. InspectInit => InspectTypes
  BY InspectAssumption DEF InspectInit, InspectTypes
<1>2. InspectTypes /\ [Extend]_inspectVars => InspectTypes'
  BY DEF InspectTypes, Extend, inspectVars
<1> QED
  BY <1>1, <1>2, PTL DEF InspectSpec

\* For every buffer, whatever its length, its line kinds and the budget: the engine's loop
\* lets it pass exactly when each data line passes by the pointwise definitions that the
\* proofs of the relay rest on, and it releases exactly the complete events
\* (stream.rs inspect, inspect_event, find_event_end).
THEOREM LoopAlwaysPointwise == InspectSpec => []LoopIsPointwise
<1>1. InspectTypes => LoopIsPointwise
  <2> SUFFICES ASSUME InspectTypes PROVE LoopIsPointwise
    OBVIOUS
  <2> DEFINE r == inspect(buffer, Fresh, tokens)
  <2>1. Fresh \in Memory /\ Fresh.sawDone = seen /\ Fresh.semantic = 0
    BY DEF Fresh, Memory, InspectTypes
  <2>2. PICK n \in 0..Len(buffer) : ReleasesUpTo(buffer, n) /\ Verdict(buffer, n, Fresh, tokens, r)
    BY <2>1, InspectIs DEF InspectTypes
  <2> HIDE DEF r
  <2>3. /\ r.ok \in BOOLEAN /\ (r.ok <=> EventsPass(buffer, n, seen, 0, tokens))
        /\ r.ok => r.release = n /\ Remembers(buffer, n, seen, 0, r.m)
    BY <2>1, <2>2 DEF Verdict
  <2>4. r.ok = EventsPass(buffer, n, seen, 0, tokens)
    BY <2>3 DEF EventsPass
  <2>5. TextBytes * Texts(buffer, n) \in Nat
    <3>1. Texts(buffer, n) \in Nat
      BY TextsIsNat
    <3> QED
      BY <3>1, TextBytesAssumption
  <2>6. r.ok => /\ r.m.semantic = TextBytes * Texts(buffer, n)
                /\ r.m.sawDone = (seen \/ \E i \in 1..n : buffer[i] = "done")
    BY <2>3, <2>5 DEF Remembers
  <2> QED
    BY <2>2, <2>3, <2>4, <2>6 DEF LoopIsPointwise, r
<1> QED
  BY <1>1, InspectAlwaysTyped, PTL

\* The backend ends all its events the same way.
Uniform(p) == \A i, j \in DOMAIN p : ~(p[i] = "lf" /\ p[j] = "crlf")

\* Then every blank line ends an event.
LEMMA UniformEnds ==
    ASSUME NEW p, Uniform(p), NEW e \in DOMAIN p
    PROVE  EndsEvent(p, e) <=> p[e] \in Blank
  BY DEF Uniform, EndsEvent, Blank

\* q holds the first lines of p, which is released up to n; q is released up to n1.
HeadOf(p, q, n, n1) ==
    /\ Len(q) <= Len(p) /\ \A i \in 1..Len(q) : q[i] = p[i]
    /\ n1 \in 0..Len(q) /\ n \in 0..Len(p)
    /\ ReleasesUpTo(q, n1) /\ ReleasesUpTo(p, n)

\* A shorter buffer ends no event that a longer one does not end.
LEMMA HeadEnds ==
    ASSUME NEW p \in Seq(Lines), NEW q \in Seq(Lines), NEW n, NEW n1,
           Uniform(p), HeadOf(p, q, n, n1)
    PROVE  /\ Uniform(q) /\ n1 <= n /\ (n1 # 0 => p[n1] \in Blank)
           /\ \A e \in 1..Len(p) : EndsEvent(p, e) <=> p[e] \in Blank
           /\ \A e \in 1..Len(q) : EndsEvent(q, e) <=> p[e] \in Blank
           /\ \A e \in 1..Len(q) : p[e] \in Blank => e <= n1
           /\ \A e \in 1..Len(p) : p[e] \in Blank => e <= n
<1>0. /\ Len(p) \in Nat /\ DOMAIN p = 1..Len(p)
      /\ Len(q) \in Nat /\ DOMAIN q = 1..Len(q)
  BY BufferIs
<1>1. /\ Len(q) <= Len(p) /\ \A i \in 1..Len(q) : q[i] = p[i] /\ i \in 1..Len(p)
      /\ n1 \in 0..Len(q) /\ n \in 0..Len(p)
  BY <1>0 DEF HeadOf
<1>2. Uniform(q)
  BY <1>0, <1>1 DEF Uniform
<1>3. \A e \in 1..Len(p) : EndsEvent(p, e) <=> p[e] \in Blank
  BY <1>0, UniformEnds
<1>4. \A e \in 1..Len(q) : EndsEvent(q, e) <=> p[e] \in Blank
  BY <1>0, <1>1, <1>2, UniformEnds
<1>5. \A e \in 1..Len(q) : p[e] \in Blank => e <= n1
  BY <1>0, <1>4 DEF HeadOf, ReleasesUpTo
<1>6. \A e \in 1..Len(p) : p[e] \in Blank => e <= n
  BY <1>0, <1>3 DEF HeadOf, ReleasesUpTo
<1>7. n1 # 0 => p[n1] \in Blank
  <2>1. n1 # 0 => n1 \in 1..Len(q) /\ n1 > 0
    BY <1>0, <1>1
  <2> QED
    BY <1>4, <2>1 DEF HeadOf, ReleasesUpTo
<1>8. n1 <= n
  <2>1. n1 # 0 => n1 \in 1..Len(p)
    BY <1>0, <1>1
  <2> QED
    BY <1>0, <1>1, <1>6, <1>7, <2>1
<1> QED
  BY <1>2, <1>3, <1>4, <1>5, <1>6, <1>7, <1>8

\* A line that an earlier chunk completed is judged as in the whole stream.
LEMMA HeadJudged ==
    ASSUME NEW p \in Seq(Lines), NEW q \in Seq(Lines), NEW n, NEW n1,
           Uniform(p), HeadOf(p, q, n, n1),
           NEW i \in 1..n1, NEW sd, NEW sem, NEW bud
    PROVE  /\ p[i] = q[i]
           /\ LinePasses(p, n, i, sd, sem, bud) <=> LinePasses(q, n1, i, sd, sem, bud)
<1>0. /\ Len(p) \in Nat /\ DOMAIN p = 1..Len(p)
      /\ Len(q) \in Nat /\ DOMAIN q = 1..Len(q)
  BY BufferIs
<1>1. /\ Len(q) <= Len(p) /\ \A j \in 1..Len(q) : q[j] = p[j]
      /\ n1 \in 0..Len(q) /\ n \in 0..Len(p)
  BY DEF HeadOf
<1>2. /\ n1 <= n /\ (n1 # 0 => p[n1] \in Blank)
      /\ \A e \in 1..Len(p) : EndsEvent(p, e) <=> p[e] \in Blank
      /\ \A e \in 1..Len(q) : EndsEvent(q, e) <=> p[e] \in Blank
      /\ \A e \in 1..Len(q) : p[e] \in Blank => e <= n1
  BY HeadEnds
<1>3. ASSUME NEW j \in 1..n1 PROVE SameEvent(p, i, j) <=> SameEvent(q, i, j)
  <2>1. ASSUME SameEvent(p, i, j) PROVE SameEvent(q, i, j)
    BY <1>0, <1>1, <1>2, <2>1 DEF SameEvent
  <2>2. ASSUME SameEvent(q, i, j), NEW e \in 1..Len(p), p[e] \in Blank PROVE e < i <=> e < j
    <3>1. CASE e \in 1..Len(q)
      BY <1>0, <1>2, <2>2, <3>1 DEF SameEvent
    <3>2. CASE e > n1
      BY <1>0, <1>1, <3>2
    <3> QED
      BY <1>0, <1>1, <3>1, <3>2
  <2> QED
    BY <1>0, <1>2, <2>1, <2>2 DEF SameEvent
<1>4. ASSUME NEW j \in 1..n, j > n1 PROVE ~SameEvent(p, i, j)
  <2>1. n1 \in DOMAIN p /\ EndsEvent(p, n1) /\ ~(n1 < i) /\ n1 < j
    BY <1>0, <1>1, <1>2, <1>4
  <2> QED
    BY <2>1 DEF SameEvent
<1>5. Texts(p, i) = Texts(q, i)
  <2>1. {j \in 1..i : p[j] = "text"} = {j \in 1..i : q[j] = "text"}
    BY <1>0, <1>1
  <2> QED
    BY <2>1 DEF Texts
<1>6. \A j \in 1..n1 : p[j] = q[j] /\ j \in 1..n
  BY <1>0, <1>1, <1>2
<1>7. (\A j \in 1..n : (j # i /\ p[j] \in DataLine) => ~SameEvent(p, i, j))
        <=> (\A j \in 1..n1 : (j # i /\ q[j] \in DataLine) => ~SameEvent(q, i, j))
  <2>1. \A j \in 1..n : j \in 1..n1 \/ j > n1
    BY <1>0, <1>1
  <2> QED
    BY <1>3, <1>4, <1>6, <2>1
<1>8. (\A j \in 1..(i - 1) : p[j] # "done") <=> (\A j \in 1..(i - 1) : q[j] # "done")
  BY <1>0, <1>1
<1> QED
  BY <1>5, <1>6, <1>7, <1>8 DEF LinePasses


\* t holds the lines of p behind a, where an event of p ends, and is released up to n2.
TailOf(p, t, a, n2) ==
    /\ a \in 0..Len(p) /\ (a # 0 => p[a] \in Blank)
    /\ Len(t) = Len(p) - a /\ \A i \in 1..Len(t) : t[i] = p[a + i]
    /\ n2 \in 0..Len(t) /\ ReleasesUpTo(t, n2)

\* The rest of a buffer ends the events that the whole ends there.
LEMMA TailEnds ==
    ASSUME NEW p \in Seq(Lines), NEW t \in Seq(Lines), NEW a, NEW n2,
           Uniform(p), TailOf(p, t, a, n2)
    PROVE  /\ \A e \in 1..Len(p) : EndsEvent(p, e) <=> p[e] \in Blank
           /\ \A e \in 1..Len(t) : EndsEvent(t, e) <=> p[a + e] \in Blank
           /\ \A e \in 1..Len(p) : p[e] \in Blank => e <= a + n2
           /\ a + n2 # 0 => p[a + n2] \in Blank
           /\ a + n2 \in 0..Len(p)
<1>0. /\ Len(p) \in Nat /\ DOMAIN p = 1..Len(p)
      /\ Len(t) \in Nat /\ DOMAIN t = 1..Len(t)
  BY BufferIs
<1>1. /\ a \in 0..Len(p) /\ (a # 0 => p[a] \in Blank) /\ Len(t) = Len(p) - a
      /\ \A i \in 1..Len(t) : t[i] = p[a + i] /\ a + i \in 1..Len(p)
      /\ n2 \in 0..Len(t)
  BY <1>0 DEF TailOf
<1>2. Uniform(t)
  BY <1>0, <1>1 DEF Uniform
<1>3. \A e \in 1..Len(p) : EndsEvent(p, e) <=> p[e] \in Blank
  BY <1>0, UniformEnds
<1>4. \A e \in 1..Len(t) : EndsEvent(t, e) <=> p[a + e] \in Blank
  BY <1>0, <1>1, <1>2, UniformEnds
<1>5. ASSUME NEW e \in 1..Len(p), p[e] \in Blank, e > a PROVE e <= a + n2
  <2>1. e - a \in 1..Len(t) /\ a + (e - a) = e
    BY <1>0, <1>1, <1>5
  <2>2. e - a \in DOMAIN t /\ EndsEvent(t, e - a)
    BY <1>0, <1>4, <1>5, <2>1
  <2>3. e - a <= n2
    BY <2>2 DEF TailOf, ReleasesUpTo
  <2> QED
    BY <1>0, <1>1, <2>3
<1>6. n2 # 0 => p[a + n2] \in Blank
  <2>1. n2 # 0 => n2 > 0 /\ n2 \in 1..Len(t)
    BY <1>0, <1>1
  <2> QED
    BY <1>4, <2>1 DEF TailOf, ReleasesUpTo
<1>7. \A e \in 1..Len(p) : p[e] \in Blank => e <= a + n2
  BY <1>0, <1>1, <1>5
<1>8. a + n2 # 0 => p[a + n2] \in Blank
  <2>1. CASE n2 = 0
    <3>1. a + n2 = a
      BY <1>0, <1>1, <2>1
    <3> QED
      BY <1>1, <3>1
  <2> QED
    BY <1>6, <2>1
<1>9. a + n2 \in 0..Len(p)
  BY <1>0, <1>1
<1> QED
  BY <1>3, <1>4, <1>7, <1>8, <1>9

\* A line of the rest is judged with what the inspector remembers as in the whole stream.
LEMMA TailJudged ==
    ASSUME NEW p \in Seq(Lines), NEW t \in Seq(Lines), NEW a, NEW n2,
           Uniform(p), TailOf(p, t, a, n2),
           NEW sd \in BOOLEAN, NEW sem \in Nat, NEW bud, NEW m \in Memory,
           Remembers(p, a, sd, sem, m), NEW i \in 1..n2
    PROVE  /\ p[a + i] = t[i]
           /\ LinePasses(p, a + n2, a + i, sd, sem, bud)
                <=> LinePasses(t, n2, i, m.sawDone, m.semantic, bud)
<1>0. /\ Len(p) \in Nat /\ DOMAIN p = 1..Len(p)
      /\ Len(t) \in Nat /\ DOMAIN t = 1..Len(t)
  BY BufferIs
<1>1. /\ a \in 0..Len(p) /\ (a # 0 => p[a] \in Blank) /\ Len(t) = Len(p) - a
      /\ n2 \in 0..Len(t)
  BY DEF TailOf
<1>2. \A j \in 1..Len(t) : t[j] = p[a + j] /\ a + j \in 1..Len(p)
  BY <1>0, <1>1 DEF TailOf
<1>3. /\ \A e \in 1..Len(p) : EndsEvent(p, e) <=> p[e] \in Blank
      /\ \A e \in 1..Len(t) : EndsEvent(t, e) <=> p[a + e] \in Blank
  BY TailEnds
<1>4. ASSUME NEW j \in 1..n2 PROVE SameEvent(p, a + i, a + j) <=> SameEvent(t, i, j)
  <2>1. ASSUME SameEvent(p, a + i, a + j), NEW e \in 1..Len(t), EndsEvent(t, e)
        PROVE  e < i <=> e < j
    <3>1. a + e \in DOMAIN p /\ EndsEvent(p, a + e)
      BY <1>0, <1>2, <1>3, <2>1
    <3>2. a + e < a + i <=> a + e < a + j
      BY <2>1, <3>1 DEF SameEvent
    <3> QED
      BY <1>0, <1>1, <3>2
  <2>2. ASSUME SameEvent(t, i, j), NEW e \in 1..Len(p), EndsEvent(p, e)
        PROVE  e < a + i <=> e < a + j
    <3>1. CASE e <= a
      BY <1>0, <1>1, <3>1
    <3>2. CASE e > a
      <4>1. e - a \in 1..Len(t) /\ a + (e - a) = e
        BY <1>0, <1>1, <3>2
      <4>2. EndsEvent(t, e - a)
        BY <1>3, <2>2, <4>1
      <4>3. e - a < i <=> e - a < j
        BY <1>0, <2>2, <4>1, <4>2 DEF SameEvent
      <4> QED
        BY <1>0, <1>1, <4>3
    <3> QED
      BY <1>0, <1>1, <3>1, <3>2
  <2> QED
    BY <1>0, <2>1, <2>2 DEF SameEvent
<1>5. ASSUME NEW j \in 1..a PROVE ~SameEvent(p, a + i, j)
  <2>1. a \in DOMAIN p /\ EndsEvent(p, a) /\ a < a + i /\ ~(a < j)
    BY <1>0, <1>1, <1>3
  <2> QED
    BY <2>1 DEF SameEvent
<1>6. \A j \in 1..n2 : j \in 1..Len(t) /\ a + j \in 1..(a + n2)
  BY <1>0, <1>1
<1>7. (\A j \in 1..(a + n2) : (j # a + i /\ p[j] \in DataLine) => ~SameEvent(p, a + i, j))
        <=> (\A j \in 1..n2 : (j # i /\ t[j] \in DataLine) => ~SameEvent(t, i, j))
  <2>1. ASSUME \A j \in 1..(a + n2) : (j # a + i /\ p[j] \in DataLine) => ~SameEvent(p, a + i, j),
               NEW j \in 1..n2, j # i, t[j] \in DataLine
        PROVE  ~SameEvent(t, i, j)
    <3>1. a + j # a + i /\ p[a + j] \in DataLine /\ a + j \in 1..(a + n2)
      BY <1>0, <1>1, <1>2, <1>6, <2>1
    <3> QED
      BY <1>4, <2>1, <3>1
  <2>2. ASSUME \A j \in 1..n2 : (j # i /\ t[j] \in DataLine) => ~SameEvent(t, i, j),
               NEW j \in 1..(a + n2), j # a + i, p[j] \in DataLine
        PROVE  ~SameEvent(p, a + i, j)
    <3>1. CASE j <= a
      BY <1>0, <1>1, <1>5, <3>1
    <3>2. CASE j > a
      <4>1. j - a \in 1..n2 /\ a + (j - a) = j /\ j - a # i
        BY <1>0, <1>1, <2>2, <3>2
      <4>2. t[j - a] \in DataLine
        BY <1>2, <1>6, <2>2, <4>1
      <4>3. ~SameEvent(t, i, j - a)
        BY <2>2, <4>1, <4>2
      <4>4. SameEvent(p, a + i, a + (j - a)) <=> SameEvent(t, i, j - a)
        BY <1>4, <4>1
      <4> QED
        BY <4>1, <4>3, <4>4
    <3> QED
      BY <1>0, <1>1, <3>1, <3>2
  <2> QED
    BY <2>1, <2>2
<1>8. (~sd /\ \A j \in 1..((a + i) - 1) : p[j] # "done")
        <=> (~m.sawDone /\ \A j \in 1..(i - 1) : t[j] # "done")
  <2>1. m.sawDone = (sd \/ \E j \in 1..a : p[j] = "done")
    BY DEF Remembers
  <2>2. \A j \in 1..((a + i) - 1) : j \in 1..a \/ (j - a \in 1..(i - 1) /\ a + (j - a) = j)
    BY <1>0, <1>1
  <2>3. \A j \in 1..(i - 1) : j \in 1..Len(t) /\ a + j \in 1..((a + i) - 1)
    BY <1>0, <1>1
  <2>4. \A j \in 1..a : j \in 1..((a + i) - 1)
    BY <1>0, <1>1
  <2>5. ASSUME ~m.sawDone, \A j \in 1..(i - 1) : t[j] # "done", NEW j \in 1..((a + i) - 1)
        PROVE  p[j] # "done"
    <3>1. CASE j - a \in 1..(i - 1) /\ a + (j - a) = j
      <4>1. t[j - a] = p[a + (j - a)] /\ t[j - a] # "done"
        BY <1>2, <2>3, <2>5, <3>1
      <4> QED
        BY <3>1, <4>1
    <3> QED
      BY <2>1, <2>2, <2>5, <3>1
  <2> QED
    BY <1>2, <2>1, <2>3, <2>4, <2>5
<1>9. sem + TextBytes * Texts(p, a + i) = m.semantic + TextBytes * Texts(t, i)
  <2>1. a \in Nat /\ i \in Nat /\ Follows(p, p, a, t, i)
    BY <1>0, <1>1, <1>2 DEF Follows
  <2>2. Texts(p, a + i) = Texts(p, a) + Texts(t, i)
    BY <2>1, TextsAdd
  <2>3. Texts(p, a) \in Nat /\ Texts(t, i) \in Nat /\ TextBytes \in Nat
    BY <1>1, <2>1, TextsIsNat, TextBytesAssumption
  <2>4. m.semantic = sem + TextBytes * Texts(p, a)
    BY DEF Remembers
  <2>5. \A x, y \in Nat : TextBytes * (x + y) = TextBytes * x + TextBytes * y
    BY <2>3
  <2>6. TextBytes * Texts(p, a + i) = TextBytes * Texts(p, a) + TextBytes * Texts(t, i)
    BY <2>2, <2>3, <2>5
  <2>7. TextBytes * Texts(p, a) \in Nat /\ TextBytes * Texts(t, i) \in Nat
    BY <2>3
  <2> QED
    BY <2>4, <2>6, <2>7
<1>10. p[a + i] = t[i]
  BY <1>2, <1>6
<1>11. WithinBudget(bud, sem + TextBytes * Texts(p, a + i))
         <=> WithinBudget(bud, m.semantic + TextBytes * Texts(t, i))
  BY <1>9
<1> QED
  BY <1>7, <1>8, <1>10, <1>11 DEF LinePasses


\* What becomes of a stream p inspected at once (w) and in two chunks, the first q (r1) and
\* what is left together with the rest, t (r2).
SameVerdict(w, r1, r2) ==
    /\ w.ok = (r1.ok /\ r2.ok)
    /\ w.ok => w.release = r1.release + r2.release /\ w.m = r2.m

\* The events of p up to n are those of q up to n1 and those of t up to n2.
SplitsUp(p, n, q, n1, t, n2, sd, sem, bud, m) ==
    /\ n = n1 + n2
    /\ EventsPass(p, n, sd, sem, bud)
         <=> /\ EventsPass(q, n1, sd, sem, bud)
             /\ EventsPass(t, n2, m.sawDone, m.semantic, bud)
    /\ \A x \in Memory : Remembers(t, n2, m.sawDone, m.semantic, x)
                           => Remembers(p, n, sd, sem, x)

\* The whole passes exactly when its parts do.
LEMMA PartsPass ==
    ASSUME NEW p \in Seq(Lines), NEW q \in Seq(Lines), NEW t \in Seq(Lines),
           NEW n, NEW n1, NEW n2, Uniform(p), HeadOf(p, q, n, n1), TailOf(p, t, n1, n2),
           NEW sd \in BOOLEAN, NEW sem \in Nat, NEW bud, NEW m \in Memory,
           Remembers(q, n1, sd, sem, m)
    PROVE  SplitsUp(p, n, q, n1, t, n2, sd, sem, bud, m)
<1>0. /\ Len(p) \in Nat /\ Len(q) \in Nat /\ Len(t) \in Nat
      /\ n1 \in Nat /\ n \in 0..Len(p) /\ n1 <= Len(q) /\ n2 \in 0..Len(t)
      /\ \A i \in 1..Len(q) : q[i] = p[i]
      /\ \A i \in 1..Len(t) : t[i] = p[n1 + i]
  BY BufferIs DEF HeadOf, TailOf
<1>1. n = n1 + n2
  <2>1. /\ n1 + n2 \in 0..Len(p) /\ (n1 + n2 # 0 => p[n1 + n2] \in Blank)
        /\ \A e \in 1..Len(p) : p[e] \in Blank => e <= n1 + n2
        /\ \A e \in 1..Len(p) : EndsEvent(p, e) <=> p[e] \in Blank
    BY TailEnds
  <2>2. \A e \in 1..Len(p) : p[e] \in Blank => e <= n
    BY HeadEnds
  <2>3. n # 0 => p[n] \in Blank
    <3>1. n # 0 => n > 0 /\ n \in 1..Len(p)
      BY <1>0
    <3> QED
      BY <2>1, <3>1 DEF HeadOf, ReleasesUpTo
  <2>4. n # 0 => n <= n1 + n2
    BY <1>0, <2>1, <2>3
  <2>5. n1 + n2 # 0 => n1 + n2 <= n
    BY <1>0, <2>1, <2>2
  <2> QED
    BY <1>0, <2>1, <2>4, <2>5
<1>2. Remembers(p, n1, sd, sem, m)
  <2>1. {i \in 1..n1 : p[i] = "text"} = {i \in 1..n1 : q[i] = "text"}
    BY <1>0
  <2>2. Texts(p, n1) = Texts(q, n1)
    BY <2>1 DEF Texts
  <2>3. (\E i \in 1..n1 : p[i] = "done") <=> \E i \in 1..n1 : q[i] = "done"
    <3>1. \A i \in 1..n1 : p[i] = q[i]
      BY <1>0
    <3> QED
      BY <3>1
  <2> QED
    BY <2>2, <2>3 DEF Remembers
<1>3. ASSUME NEW i \in 1..n1
      PROVE  (p[i] \in DataLine => LinePasses(p, n, i, sd, sem, bud))
               <=> (q[i] \in DataLine => LinePasses(q, n1, i, sd, sem, bud))
  BY HeadJudged
<1>4. ASSUME NEW i \in 1..n2
      PROVE  (p[n1 + i] \in DataLine => LinePasses(p, n, n1 + i, sd, sem, bud))
               <=> (t[i] \in DataLine => LinePasses(t, n2, i, m.sawDone, m.semantic, bud))
  <2>1. /\ p[n1 + i] = t[i]
        /\ LinePasses(p, n1 + n2, n1 + i, sd, sem, bud)
             <=> LinePasses(t, n2, i, m.sawDone, m.semantic, bud)
    BY <1>2, TailJudged
  <2> QED
    BY <1>1, <2>1
<1>5. /\ \A i \in 1..n : i \in 1..n1 \/ (i - n1 \in 1..n2 /\ n1 + (i - n1) = i)
      /\ \A i \in 1..n1 : i \in 1..n
      /\ \A i \in 1..n2 : n1 + i \in 1..n
  BY <1>0, <1>1
<1>6. EventsPass(p, n, sd, sem, bud)
        <=> /\ EventsPass(q, n1, sd, sem, bud)
            /\ EventsPass(t, n2, m.sawDone, m.semantic, bud)
  <2>1. ASSUME EventsPass(p, n, sd, sem, bud)
        PROVE  /\ EventsPass(q, n1, sd, sem, bud)
               /\ EventsPass(t, n2, m.sawDone, m.semantic, bud)
    BY <1>3, <1>4, <1>5, <2>1 DEF EventsPass
  <2>2. ASSUME EventsPass(q, n1, sd, sem, bud), EventsPass(t, n2, m.sawDone, m.semantic, bud),
               NEW i \in 1..n
        PROVE  p[i] \in DataLine => LinePasses(p, n, i, sd, sem, bud)
    <3>1. CASE i \in 1..n1
      BY <1>3, <2>2, <3>1 DEF EventsPass
    <3>2. CASE i - n1 \in 1..n2 /\ n1 + (i - n1) = i
      <4>1. t[i - n1] \in DataLine
              => LinePasses(t, n2, i - n1, m.sawDone, m.semantic, bud)
        BY <2>2, <3>2 DEF EventsPass
      <4>2. p[n1 + (i - n1)] \in DataLine => LinePasses(p, n, n1 + (i - n1), sd, sem, bud)
        BY <1>4, <3>2, <4>1
      <4> QED
        BY <3>2, <4>2
    <3> QED
      BY <1>5, <3>1, <3>2
  <2> QED
    BY <2>1, <2>2 DEF EventsPass
<1>7. ASSUME NEW x \in Memory, Remembers(t, n2, m.sawDone, m.semantic, x)
      PROVE  Remembers(p, n, sd, sem, x)
  <2>1. x.semantic = sem + TextBytes * Texts(p, n)
    <3>1. n1 \in Nat /\ n2 \in Nat /\ Follows(p, p, n1, t, n2)
      BY <1>0 DEF Follows
    <3>2. Texts(p, n) = Texts(p, n1) + Texts(t, n2)
      BY <1>1, <3>1, TextsAdd
    <3>3. Texts(p, n1) \in Nat /\ Texts(t, n2) \in Nat /\ TextBytes \in Nat
      BY <3>1, TextsIsNat, TextBytesAssumption
    <3>4. m.semantic = sem + TextBytes * Texts(p, n1)
      BY <1>2 DEF Remembers
    <3>5. x.semantic = m.semantic + TextBytes * Texts(t, n2)
      BY <1>7 DEF Remembers
    <3>6. \A a, b \in Nat : TextBytes * (a + b) = TextBytes * a + TextBytes * b
      BY <3>3
    <3>7. TextBytes * Texts(p, n) = TextBytes * Texts(p, n1) + TextBytes * Texts(t, n2)
      BY <3>2, <3>3, <3>6
    <3>8. TextBytes * Texts(p, n1) \in Nat /\ TextBytes * Texts(t, n2) \in Nat
      BY <3>3
    <3> QED
      BY <3>4, <3>5, <3>7, <3>8
  <2>2. x.sawDone = (sd \/ \E i \in 1..n : p[i] = "done")
    <3>1. /\ m.sawDone = (sd \/ \E i \in 1..n1 : p[i] = "done")
          /\ x.sawDone = (m.sawDone \/ \E i \in 1..n2 : t[i] = "done")
      BY <1>2, <1>7 DEF Remembers
    <3>2. (\E i \in 1..n : p[i] = "done")
            <=> (\E i \in 1..n1 : p[i] = "done") \/ \E i \in 1..n2 : t[i] = "done"
      <4>1. \A i \in 1..n2 : t[i] = p[n1 + i]
        BY <1>0
      <4>2. ASSUME NEW i \in 1..n, p[i] = "done"
            PROVE  (\E j \in 1..n1 : p[j] = "done") \/ \E j \in 1..n2 : t[j] = "done"
        <5>1. CASE i - n1 \in 1..n2 /\ n1 + (i - n1) = i
          <6>1. t[i - n1] = p[n1 + (i - n1)]
            BY <4>1, <5>1
          <6> QED
            BY <4>2, <5>1, <6>1
        <5> QED
          BY <1>5, <4>2, <5>1
      <4> QED
        BY <1>5, <4>1, <4>2
    <3> QED
      BY <3>1, <3>2
  <2> QED
    BY <2>1, <2>2 DEF Remembers
<1> QED
  BY <1>1, <1>6, <1>7 DEF SplitsUp


LEMMA RestOf ==
    ASSUME NEW p \in Seq(Lines), NEW a \in 0..Len(p)
    PROVE  LET t == SubSeq(p, a + 1, Len(p)) IN
           t \in Seq(Lines) /\ Len(t) = Len(p) - a /\ \A i \in 1..Len(t) : t[i] = p[a + i]
<1> DEFINE t == SubSeq(p, a + 1, Len(p))
<1>1. Len(p) \in Nat /\ \A i \in (a + 1)..Len(p) : p[i] \in Lines
  OBVIOUS
<1>2. a + 1 \in Int /\ Len(p) \in Int
  BY <1>1
<1>3. /\ t \in Seq(Lines)
      /\ Len(t) = IF a + 1 <= Len(p) THEN Len(p) - (a + 1) + 1 ELSE 0
      /\ \A i \in 1..(Len(p) - (a + 1) + 1) : t[i] = p[(a + 1) + i - 1]
  BY <1>1, <1>2, SubSeqProperties
<1> HIDE DEF t
<1>4. Len(t) = Len(p) - a
  BY <1>1, <1>3
<1>5. ASSUME NEW i \in 1..Len(t) PROVE t[i] = p[a + i]
  <2>1. i \in 1..(Len(p) - (a + 1) + 1) /\ (a + 1) + i - 1 = a + i
    BY <1>1, <1>4
  <2> QED
    BY <1>3, <2>1
<1> QED
  BY <1>3, <1>4, <1>5 DEF t

\* A stream inspected in two chunks, cut at k, is judged as in one.
LEMMA CutIrrelevant ==
    ASSUME NEW p \in Seq(Lines), Uniform(p), NEW m \in Memory, NEW bud \in Nat, NEW k \in 0..Len(p)
    PROVE  LET r1 == inspect(SubSeq(p, 1, k), m, bud)
               r2 == inspect(SubSeq(p, r1.release + 1, Len(p)), r1.m, bud)
           IN  SameVerdict(inspect(p, m, bud), r1, r2)
<1> DEFINE N == Len(p)
           q == SubSeq(p, 1, k)
           w == inspect(p, m, bud)
           r1 == inspect(q, m, bud)
           t == SubSeq(p, r1.release + 1, N)
           r2 == inspect(t, r1.m, bud)
           sd == m.sawDone
           sem == m.semantic
<1>0. N \in Nat /\ sd \in BOOLEAN /\ sem \in Nat
  BY BufferIs DEF Memory
<1>1. q \in Seq(Lines) /\ Len(q) = k /\ \A i \in 1..k : q[i] = p[i]
  BY CutBuffer
<1> HIDE DEF q
<1>2. PICK n \in 0..N : ReleasesUpTo(p, n) /\ Verdict(p, n, m, bud, w)
  BY InspectIs
<1>3. PICK n1 \in 0..k : ReleasesUpTo(q, n1) /\ Verdict(q, n1, m, bud, r1)
  BY <1>1, InspectIs
<1> HIDE DEF w, r1
<1>4. HeadOf(p, q, n, n1)
  BY <1>0, <1>1, <1>2, <1>3 DEF HeadOf
<1>5. r1.m \in Memory /\ r1.release \in 0..N
  <2>1. r1.m \in Memory /\ r1.release \in 0..k
    BY <1>1, <1>3 DEF Verdict
  <2> QED
    BY <1>0, <2>1
<1>6. t \in Seq(Lines) /\ Len(t) = N - r1.release /\ \A i \in 1..Len(t) : t[i] = p[r1.release + i]
  BY <1>5, RestOf
<1> HIDE DEF t
<1>7. PICK n2 \in 0..Len(t) : ReleasesUpTo(t, n2) /\ Verdict(t, n2, r1.m, bud, r2)
  BY <1>5, <1>6, InspectIs
<1> HIDE DEF r2
<1>8. /\ w.ok \in BOOLEAN /\ (w.ok <=> EventsPass(p, n, sd, sem, bud))
      /\ w.ok => w.release = n /\ Remembers(p, n, sd, sem, w.m)
      /\ w.m \in Memory
  BY <1>2 DEF Verdict
<1>9. /\ r1.ok \in BOOLEAN /\ (r1.ok <=> EventsPass(q, n1, sd, sem, bud))
      /\ r1.ok => r1.release = n1 /\ Remembers(q, n1, sd, sem, r1.m)
  BY <1>3 DEF Verdict
<1>10. /\ r2.ok \in BOOLEAN /\ (r2.ok <=> EventsPass(t, n2, r1.m.sawDone, r1.m.semantic, bud))
       /\ r2.ok => r2.release = n2 /\ Remembers(t, n2, r1.m.sawDone, r1.m.semantic, r2.m)
       /\ r2.m \in Memory
  BY <1>7 DEF Verdict
<1> HIDE DEF N, sd, sem
<1>11. CASE ~r1.ok
  <2>1. PICK i \in 1..n1 : q[i] \in DataLine /\ ~LinePasses(q, n1, i, sd, sem, bud)
    BY <1>9, <1>11 DEF EventsPass
  <2>2. p[i] \in DataLine /\ ~LinePasses(p, n, i, sd, sem, bud)
    BY <1>1, <1>4, <2>1, HeadJudged
  <2>3. i \in 1..n
    <3>1. n1 <= n
      BY <1>1, <1>4, HeadEnds
    <3> QED
      BY <1>0, <1>2, <3>1
  <2>4. ~w.ok
    BY <1>8, <2>2, <2>3 DEF EventsPass
  <2> QED
    BY <1>8, <1>9, <1>10, <1>11, <2>4 DEF SameVerdict, w, r1, r2, t, q, N
<1>12. CASE r1.ok
  <2>1. r1.release = n1 /\ Remembers(q, n1, sd, sem, r1.m)
    BY <1>9, <1>12
  <2>2. n1 # 0 => p[n1] \in Blank
    BY <1>1, <1>4, HeadEnds
  <2>3. TailOf(p, t, n1, n2)
    BY <1>5, <1>6, <1>7, <2>1, <2>2 DEF TailOf, N
  <2>4. /\ n = n1 + n2
        /\ EventsPass(p, n, sd, sem, bud)
             <=> /\ EventsPass(q, n1, sd, sem, bud)
                 /\ EventsPass(t, n2, r1.m.sawDone, r1.m.semantic, bud)
        /\ \A x \in Memory : Remembers(t, n2, r1.m.sawDone, r1.m.semantic, x)
                               => Remembers(p, n, sd, sem, x)
    <3>1. SplitsUp(p, n, q, n1, t, n2, sd, sem, bud, r1.m)
      BY <1>0, <1>1, <1>4, <1>5, <1>6, <2>1, <2>3, PartsPass
    <3> QED
      BY <3>1 DEF SplitsUp
  <2>5. w.ok = (r1.ok /\ r2.ok)
    BY <1>8, <1>9, <1>10, <2>4
  <2>6. ASSUME w.ok PROVE w.release = r1.release + r2.release /\ w.m = r2.m
    <3>1. w.release = r1.release + r2.release
      BY <1>8, <1>10, <2>1, <2>4, <2>5, <2>6
    <3>2. Remembers(p, n, sd, sem, w.m) /\ Remembers(p, n, sd, sem, r2.m)
      BY <1>8, <1>10, <2>4, <2>5, <2>6
    <3>3. w.m.semantic = r2.m.semantic /\ w.m.sawDone = r2.m.sawDone
      BY <3>2 DEF Remembers
    <3>4. w.m = r2.m
      BY <1>8, <1>10, <3>3 DEF Memory
    <3> QED
      BY <3>1, <3>4
  <2> QED
    BY <2>5, <2>6 DEF SameVerdict, w, r1, r2, t, q, N
<1> QED
  BY <1>9, <1>11, <1>12

\* Wherever the transport cuts a stream of any length, and whatever lines it consists of: as
\* long as the backend ends its events the same way, the two chunks are judged, released and
\* remembered as the whole is (stream.rs inspect, find_event_end, pending.drain).
THEOREM ChunkingAlwaysIrrelevant == InspectSpec => []ChunkingIrrelevant
<1>1. InspectTypes => ChunkingIrrelevant
  <2> SUFFICES ASSUME InspectTypes, Uniform(buffer), NEW k \in 0..Len(buffer)
               PROVE  LET r1 == inspect(SubSeq(buffer, 1, k), Fresh, tokens)
                          r2 == inspect(SubSeq(buffer, r1.release + 1, Len(buffer)), r1.m, tokens)
                      IN  SameVerdict(inspect(buffer, Fresh, tokens), r1, r2)
    BY DEF ChunkingIrrelevant, Uniform, SameVerdict
  <2>1. Fresh \in Memory
    BY DEF Fresh, Memory, InspectTypes
  <2> QED
    BY <2>1, CutIrrelevant DEF InspectTypes
<1> QED
  BY <1>1, InspectAlwaysTyped, PTL
=============================================================================
