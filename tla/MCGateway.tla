------------------------------ MODULE MCGateway ------------------------------
(***************************************************************************)
(* Small instances of Gateway: one backend and several requests for the    *)
(* slots; two backends of different weight, one of which serves a single   *)
(* model, and one request for failover and health.                         *)
(***************************************************************************)
EXTENDS Gateway, TLC

CONSTANTS r1, r2

OneID      == <<"a">>
OneWeight  == [a |-> 1]
OneServes  == [a |-> {}]

TwoIDs     == <<"a", "b">>
TwoWeights == [a |-> 2, b |-> 1]
TwoServes  == [a |-> {"m"}, b |-> {}]

OneSlot    == [t \in Tenants |-> 1]

Interchangeable == Permutations(Requests)
=============================================================================
