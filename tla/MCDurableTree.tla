---------------------------- MODULE MCDurableTree ----------------------------
(* DurableTree with the free hash of MCMerkleTree. *)
EXTENDS DurableTree, TLC

PairHash(a, b) == <<a, b>>

LeafSymmetry == Permutations(Leaf)
=============================================================================
