--------------------------- MODULE StreamContract ----------------------------
(***************************************************************************)
(* What the gateway promises a client of an inspected stream, without      *)
(* buffers, sessions and sequence numbers: the client gets the body in     *)
(* order; while the stream is inspected it gets no forbidden line; only an *)
(* open tenant's stream may leave inspection, and never returns to it; and *)
(* nothing follows once the response is over.                              *)
(***************************************************************************)
EXTENDS Naturals, Sequences

CONSTANTS Lines, Forbidden

VARIABLES mode,        \* the tenant's policy_fail_mode
          body,        \* what the backend has sent
          delivered,   \* what the client has been given
          phase        \* "inspecting", "open" (inspection given up) or "over"

vars == <<mode, body, delivered, phase>>

Init == /\ mode \in {"open", "closed"}
        /\ body = <<>> /\ delivered = <<>>
        /\ phase = "inspecting"

\* s is a body continued by at least one line.
Extends(t, s) == /\ t \in Seq(Lines)
                 /\ Len(s) < Len(t)
                 /\ SubSeq(t, 1, Len(s)) = s

Arrive == /\ phase = "inspecting"
          /\ Extends(body', body)
          /\ UNCHANGED <<mode, delivered, phase>>

\* Approved lines follow what the client has; the response may end with them.
Approve == /\ phase = "inspecting"
           /\ \E n \in Len(delivered)..Len(body) :
                /\ \A i \in (Len(delivered) + 1)..n : body[i] \notin Forbidden
                /\ delivered' = SubSeq(body, 1, n)
           /\ phase' \in {"inspecting", "over"}
           /\ UNCHANGED <<mode, body>>

GiveUp == /\ phase = "inspecting" /\ mode = "open"
          /\ delivered' = body
          /\ phase' \in {"open", "over"}
          /\ UNCHANGED <<mode, body>>

PassThrough == /\ phase = "open"
               /\ Extends(body', body)
               /\ delivered' = body'
               /\ UNCHANGED <<mode, phase>>

Stop == /\ phase = "open"
        /\ phase' = "over"
        /\ UNCHANGED <<mode, body, delivered>>

Next == Arrive \/ Approve \/ GiveUp \/ PassThrough \/ Stop

Spec == Init /\ [][Next]_vars
=============================================================================
