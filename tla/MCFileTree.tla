----------------------------- MODULE MCFileTree -----------------------------
(* FileTree with the free hash of MCMerkleTree. *)
EXTENDS FileTree, TLC

PairHash(a, b) == <<a, b>>

LeafSymmetry == Permutations(Leaf)
=============================================================================
