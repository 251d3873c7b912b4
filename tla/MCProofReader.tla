---------------------------- MODULE MCProofReader ----------------------------
(* ProofReader with the free hash of MCMerkleTree. *)
EXTENDS ProofReader

PairHash(a, b) == <<a, b>>
=============================================================================
