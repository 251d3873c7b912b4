---------------------------- MODULE MCMerkleTree ----------------------------
(***************************************************************************)
(* MerkleTree with a hash that TLC can compute: the pair of its arguments, *)
(* a free constructor, so two nodes are equal only if they were built from *)
(* the same leaves in the same positions.                                  *)
(***************************************************************************)
EXTENDS MerkleTree

PairHash(a, b) == <<a, b>>
=============================================================================
