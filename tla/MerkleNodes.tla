----------------------------- MODULE MerkleNodes -----------------------------
(***************************************************************************)
(* The values a fixed-depth Merkle tree is made of: levels and indices,    *)
(* the shifts and parities the code computes on them, the precomputed      *)
(* subtree hashes of an empty tree, and the two pure walks over a tree --  *)
(* the full recomputation of the root and the climb of an inclusion proof. *)
(*                                                                         *)
(* A node is an uninterpreted value and Hash(_, _) an uninterpreted        *)
(* function of two of them, so nothing here depends on a hash algorithm.   *)
(***************************************************************************)
EXTENDS Integers, Sequences

CONSTANTS
  DEPTH,       \* const generic of MerkleTree: number of levels above the leaves
  ZERO,        \* Node::ZERO, the padding leaf
  Hash(_, _)   \* Hasher::hash

\* `new` indexes zero[DEPTH - 1], so a tree of depth 0 cannot be built.  The
\* shifts `1 << DEPTH` are exact below the width of u64, which is assumed here.
ASSUME DepthAssumption == DEPTH \in Nat \ {0}

Levels == 0..DEPTH

\* 1 << l
Pow2[l \in Levels] == IF l = 0 THEN 1 ELSE 2 * Pow2[l - 1]

Capacity == Pow2[DEPTH]

\* n >> l
Shr(n, l) == n \div Pow2[l]

\* i & 1 == 1
IsOdd(i) == i % 2 = 1

\* Wrong for a right child: a bug in Sibling the runs are validated with.
RightNeighbour(i) == i + 1

\* i ^ 1
Sibling(i) == IF IsOdd(i) THEN i - 1 ELSE i + 1

\* The root of an empty subtree of each height, as MerkleTree::new fills it.
Zeros[l \in Levels] ==
  IF l = 0 THEN ZERO ELSE Hash(Zeros[l - 1], Zeros[l - 1])

-----------------------------------------------------------------------------
\* The tree over `leaves` recomputed bottom up from the padded leaf level,
\* with no stored state: level l of the result maps an index to its node.
FullTree(leaves) ==
  LET tree[l \in Levels] ==
        [i \in Nat |->
           IF l = 0
           THEN IF i < Len(leaves) THEN leaves[i + 1] ELSE ZERO
           ELSE Hash(tree[l - 1][2 * i], tree[l - 1][2 * i + 1])]
  IN  tree

ReferenceRoot(leaves) == FullTree(leaves)[DEPTH][0]

-----------------------------------------------------------------------------
\* Wrong: the running hash is always taken for the left one.
ClimbOnTheLeft(leaf, index, siblings) ==
  LET computed[j \in Levels] ==
        IF j = 0 THEN leaf ELSE Hash(computed[j - 1], siblings[j - 1])
  IN  computed

\* The loop of verify_proof: computed_hash after consuming j siblings.  Bit
\* j - 1 of the index says on which side the running hash goes.
Climb(leaf, index, siblings) ==
  LET computed[j \in Levels] ==
        IF j = 0 THEN leaf
        ELSE IF IsOdd(Shr(index, j - 1))
             THEN Hash(siblings[j - 1], computed[j - 1])
             ELSE Hash(computed[j - 1], siblings[j - 1])
  IN  computed

VerifyProof(p) == Climb(p.leaf, p.index, p.proof)[DEPTH] = p.root
=============================================================================
