-------------------------- MODULE MCKVBlockManager --------------------------
(* The block manager with interchangeable callers: the properties checked   *)
(* name no particular request and none of them is a liveness property.      *)
EXTENDS KVBlockManager, TLC

Symmetry == Permutations(Requests)

=============================================================================
