----------------------------- MODULE MCFileStore -----------------------------
(* FileStore, whose nodes are all alike. *)
EXTENDS FileStore, TLC

NodeSymmetry == Permutations(Node)
=============================================================================
