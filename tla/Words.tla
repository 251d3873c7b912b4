-------------------------------- MODULE Words --------------------------------
(***************************************************************************)
(* The leaf count, the capacity and the indices as the u64 they are, here  *)
(* of W bits, in trees of any depth: a shift by W or more is a panic in a  *)
(* debug build and a shift by the remainder in a release build, and so is, *)
(* or wraps, a sum that does not fit.  The other modules take numbers for  *)
(* numbers; this one says up to which depth that is right, and what a      *)
(* deeper tree does.                                                       *)
(***************************************************************************)
EXTENDS Integers

CONSTANTS
  W,          \* the width of a word
  MaxDepth,   \* bound: the deepest tree
  MaxLen      \* the longest slice of nodes there can be

\* 2^n, as far as it is needed.
Pow2[n \in 0..(W + MaxDepth)] == IF n = 0 THEN 1 ELSE 2 * Pow2[n - 1]

\* A slice has at most isize::MAX bytes.
ASSUME WordsAssumption ==
  /\ W \in Nat \ {0}
  /\ MaxDepth \in Nat \ {0}
  /\ MaxLen \in Nat
  /\ MaxLen < Pow2[W - 1]

VARIABLES
  depth,      \* DEPTH
  debug,      \* TRUE in a debug build, which checks for overflow
  numLeaves,  \* get_num_leaves()
  ended       \* how the last add_leaves ended: "Ok", "TreeFull" or "Panic"

wordVars == <<depth, debug, numLeaves, ended>>

Word(n) == n % Pow2[W]

\* 1 << n and x >> n, where they do not panic.
OneShl(n) == Word(Pow2[n % W])
WordShr(x, n) == x \div Pow2[n % W]

-----------------------------------------------------------------------------
\* What a debug build refuses to compute: num_leaves + leaves.len(), 1 << DEPTH,
\* and num_leaves >> level for the last level.
Overflows(len) ==
  \/ numLeaves + len >= Pow2[W]
  \/ depth >= W
  \/ depth - 1 >= W

\* Wrong: as if one leaf more were left.
FitsOneMore(len) == Word(numLeaves + len) <= OneShl(depth) + 1

Fits(len) == Word(numLeaves + len) <= OneShl(depth)

\* Wrong: the last leaf, whatever the level.
FromLeafLevel(l) == numLeaves - 1

\* The levels whose left partner is fetched, and where it is.
Fetched == {l \in 0..(depth - 1) : WordShr(numLeaves, l) % 2 = 1}
FetchedFrom(l) == WordShr(numLeaves, l) - 1

\* The run at level l starts at numLeaves halved l times, one shift at a time.
Start(l) == numLeaves \div Pow2[l]

WordsInit ==
  /\ depth \in 1..MaxDepth
  /\ debug \in BOOLEAN
  /\ numLeaves = 0
  /\ ended = "Ok"

Add(len) ==
  /\ ended # "Panic"
  /\ IF debug /\ Overflows(len) THEN ended' = "Panic" /\ UNCHANGED numLeaves
     ELSE IF Fits(len) THEN ended' = "Ok" /\ numLeaves' = Word(numLeaves + len)
     ELSE ended' = "TreeFull" /\ UNCHANGED numLeaves
  /\ UNCHANGED <<depth, debug>>

WordsNext == \E len \in 1..MaxLen : Add(len)

WordsSpec == WordsInit /\ [][WordsNext]_wordVars

-----------------------------------------------------------------------------
(* proof() and verify_proof(). *)

ProofAccepted(i) == i <= OneShl(depth)

\* proof.index & (1 << j) is zero.
GoesLeft(i, j) == (i \div OneShl(j)) % 2 = 0

-----------------------------------------------------------------------------
\* A call that returns Ok has moved the count up, in a tree of any depth: no
\* sum wraps around and starts the tree again from its first leaf.  Below the
\* width of a word no call panics: the count is at most half the range, and no
\* slice is longer than the other half.
CountNeverWraps ==
  [][ /\ ended' = "Ok" => numLeaves < numLeaves' /\ numLeaves' <= Pow2[depth]
      /\ depth < W => ended' # "Panic" ]_wordVars

\* Where the run of a level starts on a right child, the partner fetched for
\* that level is the node left of it, also in a release build in which the
\* shift that finds it wraps.
PartnersRight ==
  \A l \in 0..(depth - 1) :
    Start(l) % 2 = 1 => l \in Fetched /\ FetchedFrom(l) = Start(l) - 1

\* verify_proof follows the bits of the index.
ClimbFollowsIndex ==
  \A i \in {n \in 0..Pow2[W] : ProofAccepted(n)}, j \in 0..(depth - 1) :
    GoesLeft(i, j) <=> (i \div Pow2[j]) % 2 = 0

\* The partners are right in a tree of any depth.  verify_proof is right up to
\* the width of a word; from there on, the bits 1 << j of a release build come
\* around again, and in a tree of W + 1 levels leaf 1 has no proof.
ShiftsFindTheirBit ==
  ended # "Panic" => PartnersRight /\ (depth <= W => ClimbFollowsIndex)
=============================================================================
