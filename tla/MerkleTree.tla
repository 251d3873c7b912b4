------------------------------ MODULE MerkleTree ------------------------------
(***************************************************************************)
(* MerkleTree<H, S, DEPTH> over any Store, at the granularity at which a   *)
(* store can fail: one step per store.put.  add_leaves writes the leaves,  *)
(* then each level of parents in turn; any put may return an error, and    *)
(* then `?` leaves the levels below written and those above not.           *)
(*                                                                         *)
(* The store is the one of module Store, which the tree reads and writes   *)
(* only through NodeAt, numLeaves and Put.                                 *)
(***************************************************************************)
EXTENDS MerkleNodes, Store

CONSTANTS
  Leaf,          \* the leaf values a caller may append; ZERO may be one
  MaxBatch,      \* bound: the longest batch of one add_leaves call
  StoreMayFail   \* TRUE if a store call may return an I/O error

ASSUME TreeAssumption ==
  /\ MaxBatch \in Nat
  /\ StoreMayFail \in BOOLEAN

VARIABLES
  scratch,    \* the two buffers that hold intermediate levels
  status,     \* "Hashing" inside add_leaves, else how the last call returned
  leaves,     \* add_leaves: the argument, of the last call that wrote it
  base,       \* add_leaves: num_leaves, read once on entry
  partners,   \* add_leaves: left_partners, read once on entry
  level,      \* add_leaves: the loop variable
  start,      \* add_leaves: where the run at this level starts
  runLen,     \* add_leaves: how long the run at this level is
  hashes      \* instrumentation: hasher invocations of this call

store == <<nodes, numLeaves>>
locals == <<leaves, base, partners, level, start, runLen, hashes>>
vars == <<store, scratch, status, locals>>

Batches == UNION {[1..k -> Leaf] : k \in 0..MaxBatch}
Idle == status # "Hashing"

-----------------------------------------------------------------------------
(* Reads: root() and proof(). *)

\* Store::get of one position, an absent node read as its level's zero.
NodeAt(l, i) == IF i \in DOMAIN nodes[l] THEN nodes[l][i] ELSE Zeros[l]

\* Wrong: off by one level.
RootOneBelow == NodeAt(DEPTH - 1, 0)

Root == NodeAt(DEPTH, 0)

ProofRejected(i) == i > Capacity

Proof(i) ==
  [proof |-> [l \in 0..(DEPTH - 1) |-> NodeAt(l, Sibling(Shr(i, l)))],
   leaf  |-> NodeAt(0, i),
   index |-> i,
   root  |-> Root]

-----------------------------------------------------------------------------
(* add_leaves. *)

\* Wrong: off by one at the capacity.
FitsOneMore(batch) == numLeaves + Len(batch) <= Capacity + 1

\* num_leaves + leaves.len() is within the capacity.
Fits(batch) == numLeaves + Len(batch) <= Capacity

\* Wrong: the node at the start of the run instead of the one left of it.
PartnersAtStart ==
  [l \in 0..(DEPTH - 1) |->
     IF IsOdd(Shr(numLeaves, l)) THEN NodeAt(l, Shr(numLeaves, l)) ELSE ZERO]

\* For every level at which the run starts on a right child, the left child
\* that is in the store already; an absent one is read as the level's zero.
LeftPartners ==
  [l \in 0..(DEPTH - 1) |->
     IF IsOdd(Shr(numLeaves, l)) THEN NodeAt(l, Shr(numLeaves, l) - 1) ELSE ZERO]

\* Wrong: no room for the edge node.
HalfBufferSize(batch) == Len(batch) \div 2

\* The length both scratch buffers have at least during a call.
BufferSize(batch) == Len(batch) \div 2 + 1

\* The run this level reads: the argument itself, or a slice of a buffer.
Run == IF level = 0 THEN leaves ELSE SubSeq(scratch[1], 1, runLen)

\* Wrong: the run is always taken to start on a left child, or on a right one.
NoHead == 0
AlwaysHead == 1

\* 1 when the run starts on a right child, which the stored partner joins.
HeadLen == start % 2

\* Wrong: every level is padded with the leaf zero.
LeafPadding == ZERO

\* What the last node of an odd run is paired with.
Padding == Zeros[level]

\* head + pairs.len() + tail.len()
NumParents == HeadLen + (runLen - HeadLen + 1) \div 2

Parents ==
  [j \in 1..NumParents |->
     LET left == 2 * j - 1 - HeadLen IN
     IF left = 0 THEN Hash(partners[level], Run[1])
     ELSE IF left = runLen THEN Hash(Run[left], Padding)
     ELSE Hash(Run[left], Run[left + 1])]

Grow(buf, size) ==
  [j \in 1..Larger(Len(buf), size) |-> IF j <= Len(buf) THEN buf[j] ELSE ZERO]

\* The parents overwrite the front of the second buffer.
Written == Parents \o SubSeq(scratch[2], NumParents + 1, Len(scratch[2]))

Init ==
  /\ nodes = [l \in Levels |-> [i \in {} |-> ZERO]]
  /\ numLeaves = 0
  /\ scratch = << <<>>, <<>> >>
  /\ status = "Ok"
  /\ leaves = <<>>
  /\ base = 0
  /\ partners = [l \in 0..(DEPTH - 1) |-> ZERO]
  /\ level = 0
  /\ start = 0
  /\ runLen = 0
  /\ hashes = 0

\* An empty batch returns before the store is touched.
AddNothing ==
  /\ Idle
  /\ leaves' = <<>>
  /\ hashes' = 0
  /\ status' = "Ok"
  /\ UNCHANGED <<store, scratch, base, partners, level, start, runLen>>

\* A batch that does not fit is refused whole.
AddTreeFull(batch) ==
  /\ Idle
  /\ batch # <<>>
  /\ ~Fits(batch)
  /\ status' = "TreeFull"
  /\ UNCHANGED <<store, scratch, locals>>

\* Entry: read the left partners, write the leaves, size the buffers.
AddStart(batch) ==
  /\ Idle
  /\ batch # <<>>
  /\ Fits(batch)
  /\ ~Rejects(0, numLeaves)
  /\ Put(0, numLeaves, batch)
  /\ leaves' = batch
  /\ base' = numLeaves
  /\ partners' = LeftPartners
  /\ scratch' = [b \in 1..2 |-> Grow(scratch[b], BufferSize(batch))]
  /\ level' = 0
  /\ start' = numLeaves
  /\ runLen' = Len(batch)
  /\ hashes' = 0
  /\ status' = "Hashing"

\* The read of the partners, or the write of the leaves, returns an error.
EntryFails(batch) ==
  /\ Idle
  /\ batch # <<>>
  /\ Fits(batch)
  /\ StoreMayFail \/ Rejects(0, numLeaves)
  /\ base' = numLeaves
  /\ level' = 0
  /\ status' = "StoreError"
  /\ UNCHANGED <<scratch, leaves, partners, start, runLen, hashes>>

AddStartFails(batch) == EntryFails(batch) /\ UNCHANGED store

\* One iteration of the loop: hash the run, store the parents, swap buffers.
HashLevel ==
  /\ status = "Hashing"
  /\ ~Rejects(level + 1, start \div 2)
  /\ Put(level + 1, start \div 2, Parents)
  /\ scratch' = <<Written, scratch[1]>>
  /\ hashes' = hashes + NumParents
  /\ level' = level + 1
  /\ start' = start \div 2
  /\ runLen' = NumParents
  /\ status' = IF level + 1 = DEPTH THEN "Ok" ELSE "Hashing"
  /\ UNCHANGED <<leaves, base, partners>>

\* The put of the parents returns an error, before the buffers are swapped.
LevelFails ==
  /\ status = "Hashing"
  /\ StoreMayFail \/ Rejects(level + 1, start \div 2)
  /\ scratch' = <<scratch[1], Written>>
  /\ hashes' = hashes + NumParents
  /\ start' = start \div 2
  /\ status' = "StoreError"
  /\ UNCHANGED <<leaves, base, partners, level, runLen>>

HashLevelFails == LevelFails /\ UNCHANGED store

AddLeaves(batch) == AddTreeFull(batch) \/ AddStart(batch) \/ AddStartFails(batch)

Next ==
  \/ AddNothing
  \/ \E batch \in Batches : AddLeaves(batch)
  \/ HashLevel
  \/ HashLevelFails

\* MerkleTree::new over a store as it is: new buffers, and no call made yet.
NewTree ==
  /\ scratch' = << <<>>, <<>> >>
  /\ status' = "Ok"
  /\ leaves' = <<>>
  /\ base' = 0
  /\ partners' = [l \in 0..(DEPTH - 1) |-> ZERO]
  /\ level' = 0
  /\ start' = 0
  /\ runLen' = 0
  /\ hashes' = 0

Spec == Init /\ [][Next]_vars

\* The executing thread finishes its loop: nothing in add_leaves waits for
\* anything but the store, and a store call returns.
FairSpec == Spec /\ WF_vars(HashLevel \/ HashLevelFails)

-----------------------------------------------------------------------------
(* Vocabulary of the properties. *)

InnerLevels == 0..(DEPTH - 1)

\* The indices of a level of the fixed-depth tree.
Indices(l) == 0..(Pow2[DEPTH - l] - 1)

\* Node i of level l + 1, as read, is the hash of its two children, as read.
ParentAgrees(l, i) ==
  NodeAt(l + 1, i) = Hash(NodeAt(l, 2 * i), NodeAt(l, 2 * i + 1))

\* Leaves that are not part of a call in progress.
Frontier == IF Idle THEN numLeaves ELSE base

\* Everything left of the path from leaf n to the root is a Merkle tree: the
\* only part of the store an append at n relies on and does not rewrite.
SoundLeftOf(n) ==
  \A l \in InnerLevels : \A i \in 0..(Shr(n, l + 1) - 1) : ParentAgrees(l, i)

Consistent == \A l \in InnerLevels : \A i \in Indices(l + 1) : ParentAgrees(l, i)

\* A level is not stored as far as the frontier needs it for the next run.
Behind == \E l \in Levels : Gap(l, Shr(Frontier, l))

\* The leaves in the store, and those of them whose calls have returned.
StoredLeaves == [k \in 1..numLeaves |-> nodes[0][k - 1]]
CommittedLeaves == [k \in 1..Frontier |-> nodes[0][k - 1]]

Abstract == INSTANCE AppendOnlyTree WITH
  log <- CommittedLeaves, root <- Root,
  MaxLeaves <- Capacity, RootOf <- ReferenceRoot

-----------------------------------------------------------------------------
(* Properties of every execution, store errors included. *)

\* Types and ranges of the store, the buffers and the locals of add_leaves.
TypeOK ==
  /\ numLeaves \in 0..Capacity
  /\ DOMAIN nodes = Levels
  /\ \A l \in Levels : DOMAIN nodes[l] \subseteq 0..(Capacity - 1)
  /\ DOMAIN scratch = 1..2
  /\ \A b \in 1..2 : DOMAIN scratch[b] = 1..Len(scratch[b])
  /\ status \in {"Ok", "Hashing", "TreeFull", "StoreError"}
  /\ leaves \in Batches
  /\ base \in 0..Capacity
  /\ DOMAIN partners = InnerLevels
  /\ level \in Levels
  /\ start \in 0..(Capacity - 1)
  /\ runLen \in 0..Capacity
  /\ hashes \in Nat

\* No slice of a scratch buffer is out of bounds: the buffers, sized once per
\* call for half the batch plus one, hold every level's run and its parents
\* whatever the position of the run.
SlicesInBounds ==
  status = "Hashing" =>
    /\ NumParents <= Len(scratch[2])
    /\ level > 0 => runLen <= Len(scratch[1])

\* The left partners are read before anything is written and used after
\* several levels have been rewritten; each is still what the store holds, or
\* the level's zero if a failed call has left it absent.
PartnersFresh ==
  status = "Hashing" /\ IsOdd(start) => partners[level] = NodeAt(level, start - 1)

\* The store never holds a node over padding only, so whatever proof() and
\* root() read beyond the leaves is the zero of its level.
NoPhantomNodes ==
  \A l \in Levels : \A i \in DOMAIN nodes[l] : i * Pow2[l] < numLeaves

\* A node all of whose leaves were appended by calls that have returned is
\* never written again, and such leaves never change: append-only at every
\* level, also when a later call fails midway.
CompleteNodesFinal ==
  [][ /\ Frontier' >= Frontier
      /\ \A l \in Levels : \A i \in 0..(Shr(Frontier, l) - 1) :
           NodeAt(l, i)' = NodeAt(l, i) ]_vars

\* The root changes only in the step that completes a call: a caller never
\* sees the root of part of a batch, and a failed call leaves the old root.
RootPublishedLast ==
  [][ Root' # Root => status = "Hashing" /\ status' = "Ok" ]_vars

\* A call that returns Ok leaves a Merkle tree behind whatever failed before
\* it, provided only that what lies left of its insertion path is sound.
HealedByNextAdd ==
  status = "Ok" /\ leaves # <<>> /\ SoundLeftOf(base) => Consistent

\* A call that failed while storing level + 1 does no lasting damage if its
\* leaves completed no node of that level: the next append rewrites them all.
HealableUnlessCrossed ==
  /\ status = "StoreError"
  /\ SoundLeftOf(base)
  /\ Shr(base, level + 1) = Shr(numLeaves, level + 1)
  => SoundLeftOf(numLeaves)

\* There is no other repair: a tree that is unsound left of its frontier
\* stays so through every later call, successful or not.
TornForever == [][ ~SoundLeftOf(Frontier) => ~SoundLeftOf(Frontier)' ]_vars

\* The number of hashes of one call.  A run of the batch touches at most one
\* node more, at either edge, than half the run below it; the bound is the
\* best possible, reached by two leaves on either side of the middle.  (The
\* documentation of add_leaves says leaves + DEPTH.)
HashBound == DEPTH > 1 => hashes <= Len(leaves) + 2 * DEPTH - 3

-----------------------------------------------------------------------------
(* Properties of executions over a store that refuses gaps. *)

\* Each level is a run of nodes from index 0, which a Vec or a file can hold
\* without a presence flag, although a call may stop between two levels.
LevelsContiguous ==
  RejectGaps =>
    \A l \in Levels : \A i \in DOMAIN nodes[l] : 0..i \subseteq DOMAIN nodes[l]

\* Once a failed call has left a level behind the leaves, no later call ever
\* completes: each appends its leaves and is refused at that level.
BehindForever ==
  [][ RejectGaps /\ Behind => Behind' /\ ~(status = "Hashing" /\ status' = "Ok") ]_vars

-----------------------------------------------------------------------------
(* Properties of executions in which the store reports no I/O error. *)

\* Between calls the store, absent nodes read as zeros, is a Merkle tree.
TreeConsistent == Idle => Consistent

\* The runs add_leaves emits never leave a hole, so a store that insists on
\* contiguous runs refuses none of them.
NeverRejected == status # "StoreError"

\* Between calls every position of the tree, leaf or padding, has a proof
\* that verifies against the current root and carries the leaf appended there.
ProofsVerify ==
  Idle => \A i \in 0..(Capacity - 1) :
            /\ VerifyProof(Proof(i))
            /\ Proof(i).leaf = IF i < numLeaves THEN nodes[0][i] ELSE ZERO

\* A proof can be changed, in its leaf or by moving it to another index, but
\* it verifies only with the leaf that is stored where its index says.  The
\* index counts modulo the capacity: verify_proof looks at DEPTH bits of it.
ProofPinsLeaf ==
  Idle => \A i \in 0..(Capacity - 1), j \in 0..(Capacity + 1), v \in Leaf \cup {ZERO} :
            VerifyProof([Proof(i) EXCEPT !.leaf = v, !.index = j])
              => v = NodeAt(0, j % Capacity)

\* The tree implements the append-only log with a root.
ImplementsAppendOnlyTree == Abstract!Spec

\* A leaf once stored reaches the root: the root catches up with the store
\* again and again.
RootCatchesUp == []<>(Root = ReferenceRoot(StoredLeaves))

-----------------------------------------------------------------------------
(* Statements of the source that the code does not meet. *)

\* tree.rs, on proof(): proofs beyond the leaves are "technically correct" and
\* an index out of bounds is an error, so an accepted index has a valid proof.
AcceptedProofsVerify ==
  Idle => \A i \in 0..(Capacity + 1) : ProofRejected(i) \/ VerifyProof(Proof(i))
=============================================================================
