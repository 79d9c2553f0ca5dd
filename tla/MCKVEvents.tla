----------------------------- MODULE MCKVEvents ------------------------------
(* Two interchangeable blocks of one engine.                                 *)
EXTENDS KVEvents, TLC

CONSTANTS k1, k2

Interchangeable == Permutations(Blocks)
=============================================================================
