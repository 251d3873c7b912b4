------------------------------ MODULE MCParHash ------------------------------
(***************************************************************************)
(* ParHash with a free hash.  A hash is tagged, so that TLC can compare it *)
(* with the nodes of the run, which have another length.                   *)
(***************************************************************************)
EXTENDS ParHash

TaggedHash(a, b) == <<"hash", a, b>>
=============================================================================
