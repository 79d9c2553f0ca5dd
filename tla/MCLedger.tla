------------------------------ MODULE MCLedger -------------------------------
(***************************************************************************)
(* Three requests for an index of two, so that decisions are evicted       *)
(* before and after their outcomes arrive; and a predictor with two        *)
(* features that reads the journals, in which one request shows no cache   *)
(* reuse.                                                                  *)
(***************************************************************************)
EXTENDS Predictor, TLC

CONSTANTS r1, r2, r3

Interchangeable == Permutations({r1, r2})
=============================================================================
