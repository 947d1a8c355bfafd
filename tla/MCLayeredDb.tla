----------------------------- MODULE MCLayeredDb -----------------------------
(***************************************************************************)
(* LayeredDb with two keys and two values besides what is stored at first:  *)
(* a queue of MaxLog messages holds a transaction with two writes, or a    *)
(* removal, a write that follows it, and a barrier.                        *)
(***************************************************************************)
EXTENDS LayeredDb, TLC

Symmetry == Permutations(Key) \cup Permutations(Value)
=============================================================================
