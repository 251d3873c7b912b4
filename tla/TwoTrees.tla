------------------------------ MODULE TwoTrees ------------------------------
(***************************************************************************)
(* Two trees over one SQLite file, each through a connection of its own.   *)
(* SQLite serialises their transactions and shows each what the other has  *)
(* committed, nodes and all; but each store keeps its own copy of the leaf *)
(* count, loaded when it was opened.                                       *)
(***************************************************************************)
EXTENDS MerkleNodes, FiniteSets

CONSTANTS
  Leaf,      \* the leaf values a caller of tree A may append
  LeafB,     \* and a caller of tree B
  MaxBatch   \* bound: the longest batch of one call

ASSUME TwoTreesAssumption == MaxBatch \in Nat

VARIABLES
  nodes,     \* the rows of the table nodes
  count,     \* the row NUM_LEAVES, zero if there is none
  turns,     \* whether the callers take turns; never changes
  opening,   \* for each tree, what its store has yet to clear before it is open
  \* the store's copy of the count and the locals of A, as in MerkleTree, and of B
  numLeaves, scratch, status, leaves, base, partners, level, start, runLen, hashes,
  numLeavesB, scratchB, statusB, leavesB, baseB, partnersB, levelB, startB, runLenB, hashesB

A == INSTANCE MerkleTree WITH RejectGaps <- FALSE, StoreMayFail <- FALSE
B == INSTANCE MerkleTree WITH RejectGaps <- FALSE, StoreMayFail <- FALSE,
  Leaf <- LeafB, numLeaves <- numLeavesB, scratch <- scratchB, status <- statusB,
  leaves <- leavesB, base <- baseB, partners <- partnersB, level <- levelB,
  start <- startB, runLen <- runLenB, hashes <- hashesB

Trees == {"A", "B"}

handleA == <<numLeaves, scratch, status, leaves, base, partners, level, start, runLen, hashes>>
handleB == <<numLeavesB, scratchB, statusB, leavesB, baseB, partnersB, levelB, startB, runLenB,
             hashesB>>
vars == <<nodes, count, turns, opening, handleA, handleB>>

-----------------------------------------------------------------------------
Init ==
  /\ A!Init
  /\ B!Init
  /\ count = 0
  /\ turns \in BOOLEAN
  /\ opening = [tree \in Trees |-> "Nothing"]

\* Wrong: the count is kept in memory only.
CountNotStored(known, now) == count

\* A put of leaves writes its store's count, whatever the row says.
CountStored(known, now) == IF now > known THEN now ELSE count

\* A caller that takes turns makes a call while no other tree is in one or being
\* opened, through a tree opened since the last call of another one.
InTurn(idle, otherIdle, known) ==
  idle => otherIdle /\ known = count /\ \A tree \in Trees : opening[tree] = "Nothing"

StepA ==
  /\ opening["A"] = "Nothing"
  /\ turns => InTurn(A!Idle, B!Idle, numLeaves)
  /\ A!Next
  /\ count' = CountStored(numLeaves, numLeaves')
  /\ UNCHANGED <<turns, opening, handleB>>

StepB ==
  /\ opening["B"] = "Nothing"
  /\ turns => InTurn(B!Idle, A!Idle, numLeavesB)
  /\ B!Next
  /\ count' = CountStored(numLeavesB, numLeavesB')
  /\ UNCHANGED <<turns, opening, handleA>>

\* Wrong: every database is cleared.
AlwaysClear(found) == TRUE

\* A database in which no count, or a count of zero, was found is cleared.
MustClear(found) == found = 0

\* SqliteStore::new loads the count, and MerkleTree::new starts over.
OpenA ==
  /\ A!Idle
  /\ opening["A"] = "Nothing"
  /\ numLeaves' = count
  /\ A!NewTree
  /\ opening' = IF MustClear(count) THEN [opening EXCEPT !["A"] = "Nodes"] ELSE opening
  /\ UNCHANGED <<nodes, count, turns, handleB>>

OpenB ==
  /\ B!Idle
  /\ opening["B"] = "Nothing"
  /\ numLeavesB' = count
  /\ B!NewTree
  /\ opening' = IF MustClear(count) THEN [opening EXCEPT !["B"] = "Nodes"] ELSE opening
  /\ UNCHANGED <<nodes, count, turns, handleA>>

\* A count of zero was loaded: the two tables are cleared, each in a statement
\* and a transaction of its own.
ClearNodes(tree) ==
  /\ opening[tree] = "Nodes"
  /\ opening' = [opening EXCEPT ![tree] = "Count"]
  /\ nodes' = [l \in Levels |-> [i \in {} |-> ZERO]]
  /\ UNCHANGED <<count, turns, handleA, handleB>>

ClearCount(tree) ==
  /\ opening[tree] = "Count"
  /\ opening' = [opening EXCEPT ![tree] = "Nothing"]
  /\ count' = 0
  /\ UNCHANGED <<nodes, turns, handleA, handleB>>

Clear == \E tree \in Trees : ClearNodes(tree) \/ ClearCount(tree)

Next == StepA \/ StepB \/ OpenA \/ OpenB \/ Clear

Spec == Init /\ [][Next]_vars

-----------------------------------------------------------------------------
(* Properties of every interleaving of the two trees. *)

\* A node complete in the eyes of both trees is final: however their puts are
\* interleaved, neither can take from the other what both know of.
AgreedNodesFinal ==
  [][ \A l \in Levels : \A i \in 0..(Shr(A!Smaller(A!Frontier, B!Frontier), l) - 1) :
        A!NodeAt(l, i)' = A!NodeAt(l, i) ]_vars

-----------------------------------------------------------------------------
(* Properties of trees that take turns. *)

Leaves == IF status = "Hashing" THEN base ELSE IF statusB = "Hashing" THEN baseB ELSE count

Log == [k \in 1..Leaves |-> nodes[0][k - 1]]

Abstract == INSTANCE AppendOnlyTree WITH
  log <- Log, root <- A!Root, Leaf <- Leaf \cup LeafB,
  MaxLeaves <- Capacity, RootOf <- ReferenceRoot

\* Together they implement one append-only log with a root, also when a tree is
\* opened in the middle of a call of the other one.
TurnsImplementLog ==
  /\ Abstract!Init
  /\ [][ turns => Abstract!AppendBatch \/ UNCHANGED <<Log, A!Root>> ]_vars
=============================================================================
