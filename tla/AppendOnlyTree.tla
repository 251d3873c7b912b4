---------------------------- MODULE AppendOnlyTree ----------------------------
(***************************************************************************)
(* What the crate promises a caller, with no store and no levels: an       *)
(* append-only log of leaves of bounded length and, at every moment, the   *)
(* root of exactly the leaves in the log.  A batch enters the log and      *)
(* reaches the root in one step, or not at all.                            *)
(***************************************************************************)
EXTENDS Integers, Sequences, SequencesExt

CONSTANTS
  Leaf,        \* the leaf values a caller may append
  MaxLeaves,   \* 2^DEPTH
  RootOf(_)    \* the root of a sequence of leaves

VARIABLES
  log,         \* the leaves appended so far, in order
  root         \* what root() returns

Init ==
  /\ log = <<>>
  /\ root = RootOf(<<>>)

\* add_leaves with a batch that fits: every leaf of it, after those before.
AppendBatch ==
  /\ log' \in Seq(Leaf)
  /\ Len(log') \in (Len(log) + 1)..MaxLeaves
  /\ IsPrefix(log, log')
  /\ root' = RootOf(log')

Spec == Init /\ [][AppendBatch]_<<log, root>>
=============================================================================
