----------------------------- MODULE MCTwoTrees -----------------------------
(* TwoTrees with the free hash of MCMerkleTree. *)
EXTENDS TwoTrees

PairHash(a, b) == <<a, b>>
=============================================================================
