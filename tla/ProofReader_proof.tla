--------------------------- MODULE ProofReader_proof ---------------------------
(***************************************************************************)
(* Proofs about proof() on one handle while another handle appends, for    *)
(* every depth, hash, batch size and set of leaves, over SQLite and over   *)
(* files.                                                                  *)
(*                                                                         *)
(* What a reader makes of single reads rests on what a level shows at any  *)
(* moment: inside a call the levels written so far are those of the tree   *)
(* with the batch, the others those of the tree without it (Showing).  So  *)
(* every read is a node of one of the trees there were, or torn; a proof   *)
(* made of reads of several trees may fail, but if it verifies its climb   *)
(* pins its leaf to the tree of its root.                                  *)
(***************************************************************************)
EXTENDS ProofReader, MerkleTree_proof, FiniteSetTheorems

-----------------------------------------------------------------------------
(* The invariant. *)

\* The tree over the first m leaves.
Prefix(m) == [k \in 1..m |-> nodes[0][k - 1]]
Tree(m) == FullTree(Prefix(m))

\* The sizes at which calls returned, the one before this call among them.
EndsShape ==
  /\ ends \subseteq 0..numLeaves
  /\ 0 \in ends
  /\ Frontier \in ends

\* The size of the tree that level l shows.
SizeAt(l) == IF status = "Hashing" /\ l > level THEN base ELSE numLeaves

Showing == \A l \in Levels : \A i \in Nat : NodeAt(l, i) = Tree(SizeAt(l))[l][i]

TreeInv == Shape /\ Content /\ Intact /\ EndsShape /\ Showing

\* Where proof() is.  Past the last leaf there is padding, at index Capacity too.
ReaderShape ==
  /\ backend \in {"sqlite", "file"}
  /\ index \in 0..Capacity \cup {None}
  /\ Len(fetched) \in 0..(DEPTH + 1)
  /\ fetched = [k \in 1..Len(fetched) |-> fetched[k]]
  /\ index = None => fetched = <<>>
  /\ index # None => proof = None
  /\ backend = "sqlite" => Len(fetched) \in {0, DEPTH + 1}
  /\ index = Capacity /\ Len(fetched) = DEPTH + 1 => fetched[DEPTH + 1] = ZERO

\* The reads of proof() so far are those of the tree over m leaves.
FetchedOf(m) ==
  /\ Root = Tree(m)[DEPTH][0]
  /\ \A k \in Keys : fetched[k] = Tree(m)[KeyLevel(k)][KeyIndex(k)]

\* As long as nothing was mixed, what was read is what is there, and when all is
\* read it is the path of one tree, whose root is still the root.
Quiet ==
  index # None /\ ~mixed =>
    /\ Len(fetched) <= DEPTH =>
         /\ backend = "file" => counts = Lengths
         /\ \A k \in 1..Len(fetched) : fetched[k] = NodeAt(KeyLevel(k), KeyIndex(k))
    /\ Len(fetched) = DEPTH + 1 =>
         /\ \E m \in Sizes : FetchedOf(m)
         /\ backend = "file" /\ 0 >= counts[DEPTH] => Root = Zeros[DEPTH]

\* What is known of the proof that was made last.
Made ==
  proof # None =>
    /\ proof.root = Torn \/ \E m \in Sizes : proof.root = Tree(m)[DEPTH][0]
    /\ proof.index \in 0..Capacity
    /\ proof.index = Capacity => proof.leaf = ZERO
    /\ ~mixed /\ proof.index < Capacity => VerifyProof(proof)

ReaderInv == TreeInv /\ ReaderShape /\ Quiet /\ Made

-----------------------------------------------------------------------------
(* Trees. *)

\* The tree over no leaves has the zero of its level everywhere.
LEMMA EmptyTree == \A l \in Levels : \A i \in Nat : Tree(0)[l][i] = Zeros[l]
<1> DEFINE log == Prefix(0)
           at == [l \in Levels |-> [i \in Nat |-> Zeros[l]]]
<1>1. Len(log) = 0
  BY DEF Prefix
<1>2. \A l \in Levels : \A i \in Nat : at[l][i] = Zeros[l]
  OBVIOUS
<1>3. \A i \in Nat : at[0][i] = IF i < Len(log) THEN log[i + 1] ELSE ZERO
  <2>1. 0 \in Levels
    BY DepthAssumption DEF Levels
  <2> HIDE DEF at, log
  <2> QED
    BY <1>1, <1>2, <2>1, ZerosRec
<1>4. ASSUME NEW l \in 0..(DEPTH - 1), NEW i \in Nat
      PROVE  at[l + 1][i] = Hash(at[l][2 * i], at[l][2 * i + 1])
  <2>1. l \in Levels /\ l + 1 \in Levels /\ 2 * i \in Nat /\ 2 * i + 1 \in Nat
    BY DepthAssumption DEF Levels
  <2> HIDE DEF at
  <2> QED
    BY <1>2, <2>1, ZerosRec
<1> HIDE DEF at, log
<1>5. TreeOver(at, log)
  BY <1>3, <1>4 DEF TreeOver, Hashed
<1> QED
  BY <1>2, <1>5, TreeRecomputed DEF Tree, log

\* The leaves and the parents of the tree over m leaves.
LEMMA TreeParts ==
  ASSUME NEW m \in Nat
  PROVE  /\ Hashed(Tree(m))
         /\ \A i \in Nat : Tree(m)[0][i] = LeafOf(m, i)
<1> DEFINE log == Prefix(m)
<1>1. Len(log) = m /\ \A i \in Nat : i < m => log[i + 1] = nodes[0][i]
  BY DEF Prefix
<1> HIDE DEF log
<1>2. TreeOver(FullTree(log), log)
  BY FullTreeOver
<1>3. Hashed(FullTree(log))
  BY <1>2 DEF TreeOver
<1>4. ASSUME NEW i \in Nat PROVE FullTree(log)[0][i] = LeafOf(m, i)
  BY <1>1, <1>2 DEF TreeOver, LeafOf
<1> QED
  BY <1>3, <1>4 DEF Tree, log

\* A root of the properties is the root of such a tree.
LEMMA RootOfTree ==
  ASSUME NEW m \in Nat, m <= numLeaves, numLeaves \in Nat
  PROVE  RootOf(m) = Tree(m)[DEPTH][0]
<1>1. SubSeq(StoredLeaves, 1, m) = Prefix(m)
  <2> DEFINE s == StoredLeaves
  <2>1. Len(s) = numLeaves /\ \A k \in 1..numLeaves : s[k] = nodes[0][k - 1]
    BY DEF StoredLeaves
  <2> HIDE DEF s
  <2>2. SubSeq(s, 1, m) = [k \in 1..m |-> s[k]]
    OBVIOUS
  <2> QED
    BY <2>1, <2>2 DEF Prefix, s
<1> QED
  BY <1>1 DEF RootOf, ReferenceRoot, Tree

\* A tree stays what it is as long as its leaves do.
LEMMA TreeKept ==
  ASSUME NEW m, \A k \in 1..m : nodes'[0][k - 1] = nodes[0][k - 1]
  PROVE  Tree(m)' = Tree(m)
<1>1. Prefix(m)' = Prefix(m)
  BY DEF Prefix
<1> QED
  BY <1>1 DEF Tree

\* The leaf level shows the leaves that are counted.
LeafShowing == \A i \in Nat : NodeAt(0, i) = Tree(numLeaves)[0][i]

\* It does when no leaf is missing.
LEMMA LeavesShown == Shape /\ Intact => LeafShowing
<1> SUFFICES ASSUME Shape, Intact, NEW i \in Nat
             PROVE  NodeAt(0, i) = Tree(numLeaves)[0][i]
  BY DEF LeafShowing
<1>1. numLeaves \in Nat /\ 0 \in Levels
  BY CapacityType, DepthAssumption DEF Shape, Framed, TypeOK, Levels
<1>2. StoredUpTo(numLeaves, 0)
  <2>1. status = "Hashing" => 0 <= level
    BY DepthAssumption DEF Shape, Framed, TypeOK, Levels
  <2> QED
    BY <1>1, <2>1 DEF Intact, NoHoles
<1>3. \A k \in Nat : k < numLeaves => k \in DOMAIN nodes[0]
  BY <1>1, <1>2, ShrRec DEF StoredUpTo
<1>4. NodeAt(0, i) = IF i < numLeaves THEN StoredLeaves[i + 1] ELSE ZERO
  BY <1>1, <1>3, LeafRead DEF Shape
<1>5. i < numLeaves => StoredLeaves[i + 1] = nodes[0][i]
  BY <1>1 DEF StoredLeaves
<1> QED
  BY <1>1, <1>4, <1>5, TreeParts DEF LeafOf

-----------------------------------------------------------------------------
(* A step of the writer. *)

\* An append that has stored its leaves, in the sizes at which calls returned.
Ended == ends' = IF status = "Hashing" /\ status' = "Ok" THEN ends \cup {numLeaves} ELSE ends

\* Nothing the reader could see has changed.
Unseen == UNCHANGED <<store, base, level>> /\ (Idle' <=> Idle)

\* Without an error a step of the tree is the beginning of a call, a level of
\* it, or unseen.
LEMMA WriterSteps ==
  ASSUME Intact, Intact', [Next]_vars
  PROVE  Unseen \/ HashLevel \/ \E batch \in Batches : AddStart(batch)
<1>1. status' # "StoreError"
  BY DEF Intact
<1> QED
  BY <1>1
     DEF Next, AddNothing, AddLeaves, AddTreeFull, AddStartFails, EntryFails,
         HashLevelFails, LevelFails, Unseen, Idle, vars, store, locals

\* A step of the loop writes one level and leaves the rest of the store alone.
\* (Inside a prime, `level' would be the next level: k is this one.)
LEMMA LevelPut ==
  ASSUME Shape, HashLevel, NEW k, k = level
  PROVE  /\ status = "Hashing"
         /\ k \in InnerLevels /\ k \in Levels /\ k + 1 \in Levels /\ k + 1 # 0
         /\ base' = base /\ numLeaves' = numLeaves /\ level' = k + 1
         /\ status' = IF k + 1 = DEPTH THEN "Ok" ELSE "Hashing"
         /\ nodes'[0] = nodes[0]
         /\ \A j \in Levels \ {k + 1} : \A n : NodeAt(j, n)' = NodeAt(j, n)
<1>1. status = "Hashing"
  BY DEF HashLevel
<1>2. /\ k \in InnerLevels /\ k + 1 \in Levels
      /\ start \div 2 \in Nat /\ NumParents \in Nat
  BY <1>1, NextRun DEF Shape
<1>3. DOMAIN Parents = 1..NumParents /\ Put(k + 1, start \div 2, Parents)
  BY <1>1, WrittenType DEF HashLevel, Shape
<1>4. k \in Levels /\ k + 1 # 0 /\ 0 \in Levels
  BY <1>2, DepthAssumption DEF InnerLevels, Levels
<1>5. DOMAIN nodes = Levels
  BY DEF Shape, Framed, TypeOK
<1>6. numLeaves' = numLeaves /\ nodes'[0] = nodes[0]
  BY <1>2, <1>3, <1>4, <1>5, PutEffect
<1>7. \A j \in Levels \ {k + 1} : \A n : NodeAt(j, n)' = NodeAt(j, n)
  <2> DEFINE m == k + 1
  <2>1. m = level + 1
    OBVIOUS
  <2> HIDE DEF m
  <2>2. \A j \in Levels \ {m} : \A n : NodeAt(j, n)' = NodeAt(j, n)
    BY <2>1, HashLevelReads DEF Shape
  <2> QED
    BY <2>2 DEF m
<1> QED
  BY <1>1, <1>2, <1>4, <1>6, <1>7 DEF HashLevel

\* The tree leaves its leaves as they are.
LEMMA LeavesKept ==
  ASSUME Shape, Intact, Intact', [Next]_vars
  PROVE  /\ numLeaves \in Nat /\ numLeaves' \in Nat /\ numLeaves <= numLeaves'
         /\ \A k \in 1..numLeaves : nodes'[0][k - 1] = nodes[0][k - 1]
<1>1. numLeaves \in Nat /\ 0 \in Levels /\ DOMAIN nodes = Levels
  BY CapacityType, DepthAssumption DEF Shape, Framed, TypeOK, Levels
<1>2. CASE Unseen
  BY <1>1, <1>2 DEF Unseen, store
<1>3. CASE HashLevel
  BY <1>1, <1>3, LevelPut
<1>4. ASSUME NEW batch \in Batches, AddStart(batch)
      PROVE  /\ numLeaves' \in Nat /\ numLeaves <= numLeaves'
             /\ \A k \in 1..numLeaves : nodes'[0][k - 1] = nodes[0][k - 1]
  <2>1. Len(batch) \in Nat /\ numLeaves' = Counted(0, numLeaves + Len(batch)) /\ Idle
    BY <1>4, BatchType DEF AddStart, Put
  <2>2. numLeaves' \in Nat /\ numLeaves <= numLeaves'
    BY <1>1, <2>1 DEF Counted, Larger
  <2>3. Frontier = numLeaves /\ Shr(numLeaves, 0) = numLeaves
    BY <1>1, <2>1, ShrRec DEF Frontier
  <2>4. ASSUME NEW k \in 1..numLeaves PROVE nodes'[0][k - 1] = nodes[0][k - 1]
    <3>1. k - 1 \in Nat /\ k - 1 < Shr(Frontier, 0)
      BY <1>1, <2>3
    <3>2. k - 1 \in DOMAIN nodes[0]
      <4>1. StoredUpTo(numLeaves, 0) /\ Shr(numLeaves - 1, 0) = numLeaves - 1
        BY <1>1, <2>1, ShrRec DEF Intact, NoHoles, Idle
      <4> QED
        BY <1>1, <3>1, <4>1 DEF StoredUpTo
    <3> QED
      BY <1>1, <3>1, <3>2, FrontierKept DEF Shape
  <2> QED
    BY <2>2, <2>4
<1> QED
  BY <1>1, <1>2, <1>3, <1>4, WriterSteps

\* The levels go on showing what they should: a batch appears at one level after
\* the other.
LEMMA ShowingStep ==
  ASSUME TreeInv, Shape', Intact', [Next]_vars
  PROVE  Showing'
<1> SUFFICES ASSUME NEW l \in Levels, NEW i \in Nat
             PROVE  NodeAt(l, i)' = Tree(SizeAt(l))[l][i]'
  BY DEF Showing
<1> USE DEF TreeInv
<1>1. /\ numLeaves \in Nat /\ numLeaves' \in Nat /\ base \in Nat /\ base <= numLeaves
      /\ 0 \in Levels /\ DOMAIN nodes = Levels
      /\ \A k \in 1..numLeaves : nodes'[0][k - 1] = nodes[0][k - 1]
  <2>1. numLeaves \in 0..Capacity /\ base \in 0..Capacity /\ base <= numLeaves
    BY DEF Shape, Framed, TypeOK
  <2>2. 0 \in Levels /\ DOMAIN nodes = Levels
    BY DepthAssumption DEF Shape, Framed, TypeOK, Levels
  <2>3. /\ numLeaves' \in Nat
        /\ \A k \in 1..numLeaves : nodes'[0][k - 1] = nodes[0][k - 1]
    BY LeavesKept
  <2> QED
    BY <2>1, <2>2, <2>3, CapacityType
<1>2. \A m \in Nat : m <= numLeaves => Tree(m)' = Tree(m)
  BY <1>1, TreeKept
<1>3. \A k \in Levels : SizeAt(k) \in Nat /\ SizeAt(k) <= numLeaves
  BY <1>1 DEF SizeAt
<1>4. \A k \in Levels : Tree(SizeAt(k))[k][i] = NodeAt(k, i)
  BY DEF Showing
<1>5. CASE Unseen
  <2>1. NodeAt(l, i)' = NodeAt(l, i) /\ SizeAt(l)' = SizeAt(l)
    BY <1>5 DEF Unseen, store, NodeAt, SizeAt, Idle
  <2> QED
    BY <1>2, <1>3, <1>4, <2>1
<1>6. ASSUME HashLevel, NEW k, k = level
      PROVE  NodeAt(l, i)' = Tree(SizeAt(l))[l][i]'
  <2>1. /\ status = "Hashing" /\ k \in InnerLevels /\ k \in Levels
        /\ k + 1 \in Levels /\ k + 1 # 0
        /\ base' = base /\ numLeaves' = numLeaves /\ level' = k + 1
        /\ status' = IF k + 1 = DEPTH THEN "Ok" ELSE "Hashing"
    BY <1>6, LevelPut
  <2>2. \A j \in Levels \ {k + 1} : \A n : NodeAt(j, n)' = NodeAt(j, n)
    BY <1>6, LevelPut
  <2>3. CASE l # k + 1
    <3>1. NodeAt(l, i)' = NodeAt(l, i)
      BY <2>2, <2>3
    <3>2. SizeAt(l)' = SizeAt(l)
      <4> SUFFICES (status' = "Hashing" /\ l > k + 1) <=> l > k
        BY <1>6, <2>1 DEF SizeAt
      <4> QED
        BY <2>1, <2>3, DepthAssumption DEF Levels, InnerLevels
    <3> QED
      BY <1>2, <1>3, <1>4, <3>1, <3>2
  <2>4. CASE l = k + 1
    <3>1. k # k + 1
      BY <2>1 DEF InnerLevels
    <3>2. \A j \in 0..(Shr(base, k + 1) - 1) : ParentAgrees(k, j)
      BY <2>1 DEF Intact, SoundLeftOf
    <3>3. ParentAgrees(k, i)'
      <4>1. \A j \in Nat : ParentAgrees(k, j)'
        BY <1>6, <3>2, NewLevelAgrees DEF Content
      <4> QED
        BY <4>1
    <3>4. NodeAt(k, 2 * i)' = NodeAt(k, 2 * i) /\ NodeAt(k, 2 * i + 1)' = NodeAt(k, 2 * i + 1)
      BY <2>1, <2>2, <3>1
    <3>5. SizeAt(k) = numLeaves /\ SizeAt(l)' = numLeaves
      BY <1>6, <2>1, <2>4 DEF SizeAt, Levels, InnerLevels
    <3>6. /\ NodeAt(k, 2 * i) = Tree(numLeaves)[k][2 * i]
          /\ NodeAt(k, 2 * i + 1) = Tree(numLeaves)[k][2 * i + 1]
      BY <2>1, <3>5 DEF Showing
    <3>7. Tree(numLeaves)[k + 1][i] = Hash(Tree(numLeaves)[k][2 * i], Tree(numLeaves)[k][2 * i + 1])
      BY <1>1, <2>1, TreeParts DEF Hashed, InnerLevels
    <3>8. NodeAt(k + 1, i)' = Hash(NodeAt(k, 2 * i), NodeAt(k, 2 * i + 1))
      BY <3>3, <3>4 DEF ParentAgrees
    <3>9. Tree(numLeaves)' = Tree(numLeaves) /\ numLeaves' = numLeaves
      BY <1>1, <1>2, <2>1
    <3>10. Tree(SizeAt(l))' = Tree(numLeaves)
      BY <3>5, <3>9
    <3>11. NodeAt(l, i)' = Tree(numLeaves)[l][i]
      BY <2>4, <3>6, <3>7, <3>8
    <3> QED
      BY <3>10, <3>11
  <2> QED
    BY <2>3, <2>4
<1>7. ASSUME NEW batch \in Batches, AddStart(batch)
      PROVE  NodeAt(l, i)' = Tree(SizeAt(l))[l][i]'
  <2>1. Idle /\ status' = "Hashing" /\ base' = numLeaves /\ level' = 0
    BY <1>7 DEF AddStart
  <2>2. CASE l = 0
    <3>1. LeafShowing'
      BY LeavesShown, PTL
    <3>2. SizeAt(l)' = numLeaves'
      BY <2>1, <2>2 DEF SizeAt
    <3> QED
      BY <2>2, <3>1, <3>2 DEF LeafShowing
  <2>3. CASE l # 0
    <3>1. NodeAt(l, i)' = NodeAt(l, i)
      <4>1. Put(0, numLeaves, batch) /\ Len(batch) \in Nat /\ DOMAIN batch = 1..Len(batch)
        BY <1>7, BatchType DEF AddStart
      <4>2. l \in Levels \ {0}
        BY <2>3
      <4> QED
        BY <1>1, <4>1, <4>2, PutReads
    <3>2. SizeAt(l)' = numLeaves /\ SizeAt(l) = numLeaves
      BY <2>1, <2>3 DEF SizeAt, Idle, Levels
    <3> QED
      BY <1>1, <1>2, <1>4, <3>1, <3>2
  <2> QED
    BY <2>2, <2>3
<1> QED
  BY <1>5, <1>6, <1>7, WriterSteps

\* The sizes the tree had are kept, and its trees of those sizes.
LEMMA EndsStep ==
  ASSUME TreeInv, Intact', [Next]_vars, Ended
  PROVE  /\ EndsShape'
         /\ Sizes \subseteq Sizes'
         /\ \A m \in Sizes : m \in Nat /\ m <= numLeaves /\ Tree(m)' = Tree(m)
<1> USE DEF TreeInv
<1>1. /\ numLeaves \in Nat /\ numLeaves' \in Nat /\ numLeaves <= numLeaves'
      /\ \A k \in 1..numLeaves : nodes'[0][k - 1] = nodes[0][k - 1]
  BY LeavesKept
<1>2. \A m \in Sizes : m \in Nat /\ m <= numLeaves /\ Tree(m)' = Tree(m)
  <2>1. \A m \in Sizes : m \in Nat /\ m <= numLeaves
    BY <1>1 DEF Sizes, EndsShape
  <2> QED
    BY <1>1, <2>1, TreeKept
<1>3. 0..numLeaves \subseteq 0..numLeaves' /\ numLeaves \in 0..numLeaves'
  BY <1>1
<1>4. EndsShape' /\ Sizes \subseteq Sizes'
  <2>1. CASE Unseen
    <3>1. ends' = ends /\ numLeaves' = numLeaves /\ Frontier' = Frontier
      BY <2>1 DEF Unseen, Ended, Idle, Frontier, store
    <3> QED
      BY <3>1 DEF EndsShape, Sizes
  <2>2. CASE HashLevel
    <3>1. /\ status = "Hashing" /\ base' = base /\ numLeaves' = numLeaves
          /\ status' \in {"Ok", "Hashing"}
      BY <2>2, LevelPut
    <3>2. CASE status' = "Ok"
      <4>1. ends' = ends \cup {numLeaves} /\ Frontier' = numLeaves'
        BY <3>1, <3>2 DEF Ended, Frontier, Idle
      <4> QED
        BY <1>3, <3>1, <4>1 DEF EndsShape, Sizes
    <3>3. CASE status' = "Hashing"
      <4>1. ends' = ends /\ Frontier' = Frontier
        BY <3>1, <3>3 DEF Ended, Frontier, Idle
      <4> QED
        BY <3>1, <4>1 DEF EndsShape, Sizes
    <3> QED
      BY <3>1, <3>2, <3>3
  <2>3. ASSUME NEW batch \in Batches, AddStart(batch)
        PROVE  EndsShape' /\ Sizes \subseteq Sizes'
    <3>1. ends' = ends /\ Frontier' = numLeaves /\ Frontier = numLeaves
      BY <2>3 DEF AddStart, Ended, Frontier, Idle
    <3> QED
      BY <1>3, <3>1 DEF EndsShape, Sizes
  <2> QED
    BY <2>1, <2>2, <2>3, WriterSteps
<1> QED
  BY <1>2, <1>4

\* The part of the invariant that is about the tree, through the writer's steps.
LEMMA TreeStep == TreeInv /\ [Next]_vars /\ Ended => TreeInv'
<1> SUFFICES ASSUME TreeInv, [Next]_vars, Ended PROVE TreeInv'
  OBVIOUS
<1>1. Shape' /\ Content' /\ Intact'
  BY ShapeStep, ContentStep, IntactStep, ProofReaderAssumption DEF TreeInv
<1>2. EndsShape'
  BY <1>1, EndsStep
<1>3. Showing'
  BY <1>1, ShowingStep
<1> QED
  BY <1>1, <1>2, <1>3 DEF TreeInv

\* It holds of an empty tree.
LEMMA TreeInit == ReaderInit => TreeInv
<1> SUFFICES ASSUME ReaderInit PROVE TreeInv
  OBVIOUS
<1>1. Init /\ ends = {0}
  BY DEF ReaderInit
<1>2. Shape /\ Content /\ Intact
  BY <1>1, ShapeInit, ContentInit, IntactInit
<1>3. numLeaves = 0 /\ Frontier = 0 /\ \A l \in Levels : SizeAt(l) = 0
  BY <1>1 DEF Init, Frontier, Idle, SizeAt
<1>4. EndsShape
  BY <1>1, <1>3 DEF EndsShape
<1>5. \A l \in Levels : \A i : NodeAt(l, i) = Zeros[l]
  BY <1>1 DEF Init, NodeAt
<1>6. Showing
  BY <1>3, <1>5, EmptyTree DEF Showing
<1> QED
  BY <1>2, <1>4, <1>6 DEF TreeInv

-----------------------------------------------------------------------------
(* What the reader gets. *)

\* The only way to put n things in increasing order into n places is in place.
LEMMA InPlace ==
  ASSUME NEW n \in Nat, NEW ord, \A k \in 1..n : ord[k] \in 1..n,
         \A j, k \in 1..n : j < k => ord[j] < ord[k]
  PROVE  \A k \in 1..n : ord[k] = k
<1>1. ASSUME NEW q \in 1..n, ord[q] < q PROVE FALSE
  <2> DEFINE T == {k \in 1..n : ord[k] < k}
  <2>1. PICK m \in T : \A k \in T : m <= k
    <3>1. T \subseteq Nat /\ T # {}
      BY <1>1
    <3> HIDE DEF T
    <3> QED
      BY <3>1, NatMinimum
  <2>2. m - 1 \in 1..n /\ m - 1 < m /\ m - 1 \notin T
    BY <2>1
  <2>3. ord[m - 1] < ord[m] /\ ord[m] < m /\ ord[m] \in Nat
        /\ ord[m - 1] \in Nat /\ ~(ord[m - 1] < m - 1)
    BY <2>1, <2>2
  <2> QED
    BY <2>2, <2>3
<1>2. ASSUME NEW q \in 1..n, ord[q] > q PROVE FALSE
  <2> DEFINE T == {k \in 1..n : ord[n + 1 - k] > n + 1 - k}
  <2>1. PICK m \in T : \A k \in T : m <= k
    <3>1. PICK w \in 1..n : n + 1 - w = q
      <4>1. n + 1 - q \in 1..n /\ n + 1 - (n + 1 - q) = q
        OBVIOUS
      <4> QED
        BY <4>1
    <3>2. w \in T
      BY <1>2, <3>1
    <3>3. T \subseteq Nat
      OBVIOUS
    <3> HIDE DEF T
    <3> QED
      BY <3>2, <3>3, NatMinimum
  <2>2. PICK p \in 1..n : p = n + 1 - m
    BY <2>1
  <2>3. ord[p] > p /\ ord[p] \in 1..n
    BY <2>1, <2>2
  <2>4. p + 1 \in 1..n /\ m - 1 \in 1..n /\ n + 1 - (m - 1) = p + 1
    BY <2>1, <2>2, <2>3
  <2>5. m - 1 \notin T
    BY <2>1, <2>4
  <2>6. ~(ord[p + 1] > p + 1)
    BY <2>4, <2>5
  <2>7. ord[p] < ord[p + 1] /\ ord[p + 1] \in Nat
    BY <2>4
  <2> QED
    BY <2>3, <2>6, <2>7
<1> QED
  BY <1>1, <1>2

\* The sorted rows are the rows of the keys in the order of the request.
LEMMA RowsInOrder ==
  \A k \in Keys : SortedRows[k].node = NodeAt(KeyLevel(k), KeyIndex(k))
<1> DEFINE row == [k \in Keys |->
                     [level |-> KeyLevel(k), index |-> KeyIndex(k), ord |-> k,
                      node |-> NodeAt(KeyLevel(k), KeyIndex(k))]]
           Increasing(rows) == \A j, k \in Keys : j < k => Before(rows[j], rows[k])
<1>1. row \in [Keys -> Rows] /\ Increasing(row)
  <2>1. \A k \in Keys : row[k] \in Rows /\ row[k].ord = k
    BY DEF Rows
  <2>2. row \in [Keys -> Rows]
    BY DEF Rows
  <2> HIDE DEF row
  <2> QED
    BY <2>1, <2>2 DEF Before
<1>2. SortedRows \in [Keys -> Rows] /\ Increasing(SortedRows)
  <2> HIDE DEF row
  <2> QED
    BY <1>1 DEF SortedRows
<1>3. \A k \in Keys : SortedRows[k] \in Rows
  BY <1>2
<1>4. \A k \in Keys :
        /\ SortedRows[k].ord \in Keys
        /\ SortedRows[k].node =
             NodeAt(KeyLevel(SortedRows[k].ord), KeyIndex(SortedRows[k].ord))
  <2> TAKE k \in Keys
  <2>1. PICK q \in Keys :
          SortedRows[k] = [level |-> KeyLevel(q), index |-> KeyIndex(q), ord |-> q,
                           node |-> NodeAt(KeyLevel(q), KeyIndex(q))]
    BY <1>3 DEF Rows
  <2> QED
    BY <2>1
<1> DEFINE ord == [k \in Keys |-> SortedRows[k].ord]
<1>5. \A k \in Keys : ord[k] \in Keys
  BY <1>4
<1>6. \A j, k \in Keys : j < k => ord[j] < ord[k]
  BY <1>2 DEF Before
<1>7. DEPTH + 1 \in Nat /\ Keys = 1..(DEPTH + 1)
  BY DepthAssumption DEF Keys
<1>8. \A k \in Keys : ord[k] = k
  <2> HIDE DEF ord
  <2> QED
    BY <1>5, <1>6, <1>7, InPlace
<1> QED
  BY <1>4, <1>8

\* The keys are keys: their levels are levels, their indices natural numbers.
LEMMA KeyTypes ==
  ASSUME index \in Nat, NEW k \in Keys
  PROVE  /\ KeyLevel(k) \in Levels /\ KeyIndex(k) \in Nat
         /\ k = DEPTH + 1 => KeyLevel(k) = 0 /\ KeyIndex(k) = index
         /\ k # DEPTH + 1 => k - 1 \in 0..(DEPTH - 1) /\ KeyLevel(k) = k - 1
                              /\ KeyIndex(k) = Sibling(Shr(index, k - 1))
<1>1. k \in 1..(DEPTH + 1) /\ DEPTH \in Nat /\ DEPTH > 0
  BY DepthAssumption DEF Keys
<1>2. KeyLevel(k) \in Levels
  BY <1>1 DEF KeyLevel, Levels
<1>3. CASE k = DEPTH + 1
  BY <1>1, <1>2, <1>3 DEF KeyLevel, KeyIndex
<1>4. CASE k # DEPTH + 1
  <2>1. k - 1 \in 0..(DEPTH - 1) /\ k - 1 \in Levels /\ ~(k > DEPTH)
    BY <1>1, <1>4 DEF Levels
  <2>2. Shr(index, k - 1) \in Nat
    BY <2>1, ShrType
  <2> QED
    BY <1>2, <1>4, <2>1, <2>2, SiblingPair DEF KeyLevel, KeyIndex
<1> QED
  BY <1>3, <1>4

\* What a level shows is a node of one of the trees there were.
LEMMA SizeInSizes ==
  ASSUME TreeInv, NEW l \in Levels
  PROVE  /\ SizeAt(l) \in Sizes /\ SizeAt(l) \in 0..Capacity
         /\ Idle => SizeAt(l) = numLeaves
<1> QED
  BY DEF TreeInv, Shape, Framed, TypeOK, EndsShape, SizeAt, Sizes, Frontier, Idle

\* Past the capacity there is padding.
LEMMA ReadPast ==
  ASSUME TreeInv
  PROVE  NodeAt(0, Capacity) = ZERO
<1>1. 0 \in Levels /\ Capacity \in Nat
  BY DepthAssumption, CapacityType DEF Levels
<1>2. SizeAt(0) \in Nat /\ ~(Capacity < SizeAt(0))
  BY <1>1, SizeInSizes
<1>3. NodeAt(0, Capacity) = Tree(SizeAt(0))[0][Capacity]
  BY <1>1 DEF TreeInv, Showing
<1> QED
  BY <1>1, <1>2, <1>3, TreeParts DEF LeafOf

\* Between calls a level is a run of nodes from index 0, so what the length of
\* its file does not reach is not there.
LEMMA ReadBeyond ==
  ASSUME TreeInv, Idle, NEW l \in Levels, NEW i \in Nat, i >= Lengths[l]
  PROVE  NodeAt(l, i) = Zeros[l]
<1> SUFFICES ASSUME i \in DOMAIN nodes[l] PROVE FALSE
  BY DEF NodeAt
<1> DEFINE last == Shr(numLeaves - 1, l)
<1>1. numLeaves \in Nat /\ 0 < numLeaves /\ i <= last
  BY CapacityType DEF TreeInv, Shape, Framed, TypeOK, StoreShape
<1>2. last \in Nat
  <2>1. numLeaves - 1 \in Nat
    BY <1>1
  <2> QED
    BY <2>1, ShrType
<1>3. DOMAIN nodes[l] = 0..last
  <2>1. \A j \in DOMAIN nodes[l] : j \in Nat /\ j <= last
    BY DEF TreeInv, Shape, StoreShape
  <2>2. \A j \in Nat : j <= last => j \in DOMAIN nodes[l]
    BY <1>1 DEF TreeInv, Intact, NoHoles, Idle, StoredUpTo
  <2> HIDE DEF last
  <2>3. \A j : j \in 0..last <=> j \in Nat /\ j <= last
    BY <1>2
  <2>4. \A j : j \in DOMAIN nodes[l] <=> j \in 0..last
    BY <2>1, <2>2, <2>3
  <2> QED
    BY <2>4
<1> HIDE DEF last
<1>4. Cardinality(0..last) = last + 1
  BY <1>2, FS_Interval
<1>5. Lengths[l] = last + 1
  BY <1>3, <1>4 DEF Lengths
<1> QED
  BY <1>1, <1>2, <1>5

\* A root that is read is the root of one of the trees there were, or torn.
LEMMA RootReads ==
  ASSUME TreeInv, backend \in {"sqlite", "file"}, NEW r \in Reads(DEPTH, 0)
  PROVE  r = Torn \/ \E m \in Sizes : r = Tree(m)[DEPTH][0]
<1> USE DEF TreeInv
<1>1. DEPTH \in Levels /\ 0 \in Nat
  BY DepthAssumption DEF Levels
<1>2. CASE r = NodeAt(DEPTH, 0)
  <2>1. NodeAt(DEPTH, 0) = Tree(SizeAt(DEPTH))[DEPTH][0]
    BY <1>1 DEF Showing
  <2> QED
    BY <1>1, <1>2, <2>1, SizeInSizes
<1>3. CASE r = Zeros[DEPTH]
  <2>1. 0 \in Sizes
    BY DEF EndsShape, Sizes
  <2>2. Tree(0)[DEPTH][0] = Zeros[DEPTH]
    BY <1>1, EmptyTree
  <2> QED
    BY <1>3, <2>1, <2>2
<1>4. CASE Overwriting(DEPTH, 0) /\ r = Parents[0 - start \div 2 + 1]
  <2> DEFINE k == DEPTH - 1
             q == start \div 2
  <2>1. status = "Hashing" /\ level = k /\ 0 - q \in 0..(NumParents - 1)
    <3>1. level \in Int
      BY DEF Shape, Framed, TypeOK, Levels
    <3> QED
      BY <1>4, <3>1, DepthAssumption DEF Overwriting
  <2>2. q \in Nat /\ NumParents \in Nat
    BY <2>1, NextRun DEF Shape
  <2>3. 0 \in q..(q + NumParents - 1)
    <3> HIDE DEF q
    <3> QED
      BY <2>1, <2>2
  <2>4. Parents[0 - q + 1] = Hash(NodeAt(k, 2 * 0), NodeAt(k, 2 * 0 + 1))
    BY <2>1, <2>3, ParentValue DEF Content
  <2>5. k \in Levels /\ k \in 0..(DEPTH - 1) /\ k + 1 = DEPTH /\ 2 * 0 = 0 /\ 2 * 0 + 1 = 1
    BY DepthAssumption DEF Levels
  <2>6. SizeAt(k) = numLeaves
    BY <2>1, <2>5 DEF SizeAt
  <2>7. numLeaves \in Nat
    BY CapacityType DEF Shape, Framed, TypeOK
  <2> HIDE DEF k, q
  <2>8. NodeAt(k, 0) = Tree(numLeaves)[k][0] /\ NodeAt(k, 1) = Tree(numLeaves)[k][1]
    BY <2>5, <2>6 DEF Showing
  <2>9. Hashed(Tree(numLeaves))
    BY <2>7, TreeParts
  <2>10. Tree(numLeaves)[k + 1][0]
           = Hash(Tree(numLeaves)[k][2 * 0], Tree(numLeaves)[k][2 * 0 + 1])
    BY <2>5, <2>9 DEF Hashed
  <2>11. r = Tree(numLeaves)[DEPTH][0]
    BY <1>4, <2>4, <2>5, <2>8, <2>10 DEF q
  <2> QED
    BY <2>11 DEF Sizes
<1> QED
  BY <1>2, <1>3, <1>4 DEF Reads, FileReads

-----------------------------------------------------------------------------
(* The steps of the two handles. *)

\* A step of the reader leaves the tree alone.
LEMMA ReadStep ==
  ASSUME TreeInv, UNCHANGED <<vars, ends>>
  PROVE  /\ TreeInv' /\ Sizes' = Sizes /\ Root' = Root /\ Lengths' = Lengths
         /\ \A m \in Sizes : Tree(m)' = Tree(m)
         /\ \A l, i : NodeAt(l, i)' = NodeAt(l, i)
<1>1. [Next]_vars /\ Ended
  BY DEF Ended, vars
<1>2. TreeInv' /\ Intact'
  BY <1>1, TreeStep DEF TreeInv
<1>3. \A m \in Sizes : Tree(m)' = Tree(m)
  BY <1>1, <1>2, EndsStep
<1>4. /\ Sizes' = Sizes /\ Root' = Root /\ Lengths' = Lengths
      /\ \A l, i : NodeAt(l, i)' = NodeAt(l, i)
  BY DEF vars, store, Sizes, Root, Lengths, NodeAt
<1> QED
  BY <1>2, <1>3, <1>4

\* The other handle appends: what is read without a mix is still there.
LEMMA WriteKeeps == ReaderInv /\ Write => ReaderInv'
<1> SUFFICES ASSUME ReaderInv, Write PROVE ReaderInv'
  OBVIOUS
<1> USE DEF ReaderInv
<1>1. Next /\ Ended /\ UNCHANGED <<backend, counts, index, fetched, proof>>
  BY DEF Write, Ended
<1>2. TreeInv' /\ Intact'
  BY <1>1, TreeStep DEF TreeInv
<1>3. Sizes \subseteq Sizes' /\ \A m \in Sizes : Tree(m)' = Tree(m)
  BY <1>1, <1>2, EndsStep
<1>4. ReaderShape'
  BY <1>1 DEF ReaderShape
<1>5. ASSUME ~mixed'
      PROVE  /\ ~mixed
             /\ index # None /\ Len(fetched) > DEPTH => Root' = Root
             /\ index # None /\ ~(Len(fetched) > DEPTH) => backend # "file" \/ nodes' = nodes
  BY <1>5, Zenon DEF Write
<1>6. Quiet'
  <2> SUFFICES ASSUME index # None, ~mixed'
               PROVE  /\ Len(fetched) <= DEPTH =>
                           /\ backend = "file" => counts = Lengths'
                           /\ \A k \in 1..Len(fetched) :
                                fetched[k] = (NodeAt(KeyLevel(k), KeyIndex(k)))'
                      /\ Len(fetched) = DEPTH + 1 =>
                           /\ \E m \in Sizes' : (FetchedOf(m))'
                           /\ backend = "file" /\ 0 >= counts[DEPTH] => Root' = Zeros[DEPTH]
    BY <1>1 DEF Quiet
  <2>1. Len(fetched) \in 0..(DEPTH + 1)
    BY DEF ReaderShape
  <2>2. CASE Len(fetched) <= DEPTH
    <3>1. ~(Len(fetched) > DEPTH)
      BY <2>1, <2>2, DepthAssumption
    <3>2. CASE backend = "file"
      <4>1. counts = Lengths
        BY <1>5, <2>2, <3>2 DEF Quiet
      <4>2. \A k \in 1..Len(fetched) : fetched[k] = NodeAt(KeyLevel(k), KeyIndex(k))
        BY <1>5, <2>2 DEF Quiet
      <4>3. nodes' = nodes
        BY <1>5, <3>1, <3>2
      <4>4. Lengths' = Lengths
        BY <4>3 DEF Lengths
      <4>5. \A k : (NodeAt(KeyLevel(k), KeyIndex(k)))' = NodeAt(KeyLevel(k), KeyIndex(k))
        BY <1>1, <4>3 DEF NodeAt, KeyLevel, KeyIndex
      <4>6. Len(fetched) # DEPTH + 1
        BY <2>1, <2>2, DepthAssumption
      <4> QED
        BY <4>1, <4>2, <4>4, <4>5, <4>6
    <3>3. CASE backend # "file"
      <4>1. Len(fetched) \in {0, DEPTH + 1}
        BY <3>3 DEF ReaderShape
      <4>2. Len(fetched) # DEPTH + 1 /\ Len(fetched) = 0
        BY <2>1, <2>2, <4>1, DepthAssumption
      <4> QED
        BY <3>3, <4>2
    <3> QED
      BY <3>2, <3>3
  <2>3. CASE Len(fetched) = DEPTH + 1
    <3>1. Root' = Root
      <4>1. Len(fetched) > DEPTH
        BY <2>3, DepthAssumption
      <4> QED
        BY <1>5, <4>1
    <3>2. PICK m \in Sizes : FetchedOf(m)
      BY <1>5, <2>3 DEF Quiet
    <3>3. backend = "file" /\ 0 >= counts[DEPTH] => Root = Zeros[DEPTH]
      BY <1>5, <2>3 DEF Quiet
    <3>4. Tree(m)' = Tree(m) /\ m \in Sizes'
      BY <1>3
    <3>5. \A k : (KeyIndex(k))' = KeyIndex(k)
      BY <1>1 DEF KeyIndex
    <3>6. (FetchedOf(m))'
      BY <1>1, <3>1, <3>2, <3>4, <3>5 DEF FetchedOf, KeyLevel
    <3>7. ~(Len(fetched) <= DEPTH)
      BY <2>3, DepthAssumption
    <3> QED
      BY <3>1, <3>3, <3>4, <3>6, <3>7
  <2> QED
    BY <2>1, <2>2, <2>3, DepthAssumption
<1>7. Made'
  BY <1>1, <1>3, <1>5 DEF Made
<1> QED
  BY <1>2, <1>4, <1>6, <1>7

\* The reader opens the directory.
LEMMA OpenKeeps == ReaderInv /\ Open => ReaderInv'
<1> SUFFICES ASSUME ReaderInv, Open PROVE ReaderInv'
  OBVIOUS
<1>1. UNCHANGED <<vars, backend, index, fetched, proof, mixed, ends>> /\ index = None
  BY DEF Open
<1>2. TreeInv' /\ Sizes' = Sizes /\ \A m \in Sizes : Tree(m)' = Tree(m)
  BY <1>1, ReadStep DEF ReaderInv
<1>3. ReaderShape' /\ Quiet'
  BY <1>1 DEF ReaderInv, ReaderShape, Quiet
<1>4. Made'
  BY <1>1, <1>2 DEF ReaderInv, Made
<1> QED
  BY <1>2, <1>3, <1>4 DEF ReaderInv

\* proof() begins.
LEMMA AskKeeps == \A i \in 0..(Capacity + 1) : ReaderInv /\ Ask(i) => ReaderInv'
<1> SUFFICES ASSUME NEW i \in 0..(Capacity + 1), ReaderInv, Ask(i) PROVE ReaderInv'
  OBVIOUS
<1>1. /\ UNCHANGED <<vars, backend, counts, fetched, ends>>
      /\ index = None /\ index' = i /\ proof' = None
      /\ mixed' = (backend = "file" /\ counts # Lengths)
      /\ i \in 0..Capacity
  BY CapacityType DEF Ask, ProofRejected
<1>2. TreeInv' /\ Lengths' = Lengths
  BY <1>1, ReadStep DEF ReaderInv
<1>3. fetched = <<>> /\ Len(fetched) = 0 /\ DEPTH + 1 # 0
  BY <1>1, DepthAssumption DEF ReaderInv, ReaderShape
<1>4. ReaderShape'
  BY <1>1, <1>3, DepthAssumption DEF ReaderInv, ReaderShape
<1>5. Quiet'
  <2>1. ~mixed' => (backend = "file" => counts = Lengths)
    BY <1>1, Zenon
  <2>2. Len(fetched') = 0 /\ backend' = backend /\ counts' = counts
    BY <1>1, <1>3
  <2>3. 1..Len(fetched') = {}
    BY <2>2
  <2> QED
    BY <1>2, <1>3, <2>1, <2>2, <2>3, Zenon DEF Quiet
<1>6. Made'
  BY <1>1 DEF Made
<1> QED
  BY <1>2, <1>4, <1>5, <1>6 DEF ReaderInv

\* When everything has been read and is what is there, between calls, it is what
\* the tree over all leaves has.
LEMMA ReadAll ==
  ASSUME TreeInv, Idle, index \in Nat,
         NEW got, \A k \in Keys : got[k] = NodeAt(KeyLevel(k), KeyIndex(k))
  PROVE  /\ numLeaves \in Sizes
         /\ Root = Tree(numLeaves)[DEPTH][0]
         /\ \A k \in Keys : got[k] = Tree(numLeaves)[KeyLevel(k)][KeyIndex(k)]
<1>1. DEPTH \in Levels /\ 0 \in Nat
  BY DepthAssumption DEF Levels
<1>2. \A l \in Levels : \A i \in Nat : NodeAt(l, i) = Tree(numLeaves)[l][i]
  BY SizeInSizes DEF TreeInv, Showing
<1> QED
  BY <1>1, <1>2, KeyTypes DEF Root, Sizes

\* One query returns the proof's nodes: it sees one moment of the store.
LEMMA FetchAllKeeps == ReaderInv /\ FetchAll => ReaderInv'
<1> SUFFICES ASSUME ReaderInv, FetchAll PROVE ReaderInv'
  OBVIOUS
<1>1. /\ UNCHANGED <<vars, backend, counts, index, proof, ends>>
      /\ backend = "sqlite" /\ index # None
      /\ fetched' = [k \in Keys |-> SortedRows[k].node]
      /\ mixed' = ~Idle
  BY DEF FetchAll
<1>2. /\ TreeInv /\ TreeInv' /\ Sizes' = Sizes /\ Root' = Root
      /\ \A m \in Sizes : Tree(m)' = Tree(m)
  BY <1>1, ReadStep DEF ReaderInv
<1>3. index \in Nat /\ index \in 0..Capacity
  BY <1>1, CapacityType DEF ReaderInv, ReaderShape
<1>4. DEPTH + 1 \in Nat /\ Keys = 1..(DEPTH + 1) /\ DEPTH + 1 \in Keys
  BY DepthAssumption DEF Keys
<1>5. Len(fetched') = DEPTH + 1 /\ fetched' = [k \in 1..(DEPTH + 1) |-> fetched'[k]]
  BY <1>1, <1>4
<1>6. \A k \in Keys : fetched'[k] = NodeAt(KeyLevel(k), KeyIndex(k))
  BY <1>1, RowsInOrder
<1>7. fetched'[DEPTH + 1] = NodeAt(0, index)
  BY <1>3, <1>4, <1>6, KeyTypes
<1>8. ReaderShape'
  <2>1. index' = Capacity => fetched'[DEPTH + 1] = ZERO
    BY <1>1, <1>2, <1>7, ReadPast
  <2>2. proof = None
    BY <1>1 DEF ReaderInv, ReaderShape
  <2> QED
    BY <1>1, <1>3, <1>4, <1>5, <2>1, <2>2 DEF ReaderShape
<1>9. ASSUME ~mixed' PROVE \E m \in Sizes' : (FetchedOf(m))'
  <2>1. Idle
    BY <1>1, <1>9, Zenon
  <2>2. /\ numLeaves \in Sizes /\ Root = Tree(numLeaves)[DEPTH][0]
        /\ \A k \in Keys : fetched'[k] = Tree(numLeaves)[KeyLevel(k)][KeyIndex(k)]
    BY <1>2, <1>3, <1>6, <2>1, ReadAll
  <2>3. PICK m \in Sizes : m = numLeaves
    BY <2>2
  <2>4. Tree(m)' = Tree(m) /\ m \in Sizes'
    BY <1>2
  <2>5. \A k : (KeyIndex(k))' = KeyIndex(k)
    BY <1>1 DEF KeyIndex
  <2>6. (FetchedOf(m))'
    BY <1>2, <2>2, <2>3, <2>4, <2>5 DEF FetchedOf, KeyLevel
  <2> QED
    BY <2>4, <2>6
<1>10. Quiet'
  <2>1. ~(Len(fetched') <= DEPTH)
    BY <1>5, DepthAssumption
  <2>2. backend' # "file"
    BY <1>1
  <2> QED
    BY <1>9, <2>1, <2>2, Zenon DEF Quiet
<1>11. Made'
  BY <1>1 DEF ReaderInv, ReaderShape, Made
<1> QED
  BY <1>2, <1>8, <1>10, <1>11 DEF ReaderInv

\* One more key is read from the files.
LEMMA FetchOneKeeps == ReaderInv /\ FetchOne => ReaderInv'
<1> SUFFICES ASSUME ReaderInv, FetchOne PROVE ReaderInv'
  OBVIOUS
<1> DEFINE q == Len(fetched) + 1
<1>1. /\ UNCHANGED <<vars, backend, counts, index, proof, ends>>
      /\ backend = "file" /\ index # None /\ Len(fetched) <= DEPTH
      /\ mixed' = (mixed \/ ~Idle)
  BY DEF FetchOne
<1>2. PICK n \in FileReads(KeyLevel(q), KeyIndex(q)) : fetched' = Append(fetched, n)
  BY <1>1 DEF FetchOne, Reads
<1>3. /\ TreeInv /\ TreeInv' /\ Sizes' = Sizes /\ Root' = Root /\ Lengths' = Lengths
      /\ \A m \in Sizes : Tree(m)' = Tree(m)
      /\ \A l, i : NodeAt(l, i)' = NodeAt(l, i)
  BY <1>1, ReadStep DEF ReaderInv
<1>4. index \in Nat /\ index \in 0..Capacity /\ proof = None
  BY <1>1, CapacityType DEF ReaderInv, ReaderShape
<1>5. Len(fetched) \in 0..(DEPTH + 1) /\ fetched = [k \in 1..Len(fetched) |-> fetched[k]]
  BY DEF ReaderInv, ReaderShape
<1>6. /\ q \in 1..(DEPTH + 1) /\ q \in Keys /\ q \notin 1..Len(fetched)
      /\ 1..q = 1..Len(fetched) \cup {q} /\ Len(fetched) \in Nat
  BY <1>1, <1>5, DepthAssumption DEF Keys
<1>7. /\ Len(fetched') = q /\ fetched'[q] = n /\ fetched' = [k \in 1..q |-> fetched'[k]]
      /\ \A k \in 1..Len(fetched) : fetched'[k] = fetched[k]
  <2> DEFINE S == {fetched[k] : k \in 1..Len(fetched)} \cup {n}
  <2>1. fetched \in Seq(S) /\ n \in S
    BY <1>5, <1>6
  <2> HIDE DEF S
  <2>2. /\ fetched' \in Seq(S) /\ Len(fetched') = q /\ fetched'[q] = n
        /\ \A k \in 1..Len(fetched) : fetched'[k] = fetched[k]
    BY <1>2, <2>1
  <2>3. fetched' = [k \in 1..q |-> fetched'[k]]
    BY <2>2
  <2> QED
    BY <2>2, <2>3
<1>8. KeyLevel(q) \in Levels /\ KeyIndex(q) \in Nat
  BY <1>4, <1>6, KeyTypes
<1> HIDE DEF q
<1>9. ReaderShape'
  <2>1. ASSUME index = Capacity, q = DEPTH + 1 PROVE n = ZERO
    <3>1. KeyLevel(q) = 0 /\ KeyIndex(q) = Capacity
      BY <1>4, <1>6, <2>1, KeyTypes
    <3>2. ~Overwriting(0, Capacity)
      <4>1. level \in Nat /\ 0 # level + 1
        BY DEF ReaderInv, TreeInv, Shape, Framed, TypeOK, Levels
      <4> QED
        BY <4>1 DEF Overwriting
    <3>3. n \in {Zeros[0], NodeAt(0, Capacity)}
      BY <1>2, <3>1, <3>2 DEF FileReads
    <3> QED
      BY <1>3, <3>3, ReadPast, ZerosRec
  <2> QED
    BY <1>1, <1>3, <1>4, <1>6, <1>7, <2>1 DEF ReaderInv, ReaderShape
<1>10. ASSUME ~mixed'
       PROVE  /\ Idle /\ counts = Lengths
              /\ \A k \in 1..q : fetched'[k] = NodeAt(KeyLevel(k), KeyIndex(k))
  <2>1. Idle /\ ~mixed
    BY <1>1, <1>10, Zenon
  <2>2. counts = Lengths
        /\ \A k \in 1..Len(fetched) : fetched[k] = NodeAt(KeyLevel(k), KeyIndex(k))
    BY <1>1, <2>1 DEF ReaderInv, Quiet
  <2>3. ~Overwriting(KeyLevel(q), KeyIndex(q))
    BY <2>1 DEF Overwriting, Idle
  <2>4. n = NodeAt(KeyLevel(q), KeyIndex(q))
    <3>1. CASE KeyIndex(q) >= counts[KeyLevel(q)]
      <4>1. n = Zeros[KeyLevel(q)]
        BY <1>2, <3>1 DEF FileReads
      <4> QED
        BY <1>3, <1>8, <2>1, <2>2, <3>1, <4>1, ReadBeyond
    <3>2. CASE ~(KeyIndex(q) >= counts[KeyLevel(q)])
      BY <1>2, <2>3, <3>2 DEF FileReads
    <3> QED
      BY <3>1, <3>2
  <2> QED
    BY <1>6, <1>7, <2>1, <2>2, <2>4
<1>11. ASSUME ~mixed', q = DEPTH + 1
       PROVE  /\ \E m \in Sizes' : (FetchedOf(m))'
              /\ 0 >= counts[DEPTH] => Root = Zeros[DEPTH]
  <2>1. Idle /\ counts = Lengths
        /\ \A k \in Keys : fetched'[k] = NodeAt(KeyLevel(k), KeyIndex(k))
    BY <1>10, <1>11 DEF Keys
  <2>2. /\ numLeaves \in Sizes /\ Root = Tree(numLeaves)[DEPTH][0]
        /\ \A k \in Keys : fetched'[k] = Tree(numLeaves)[KeyLevel(k)][KeyIndex(k)]
    BY <1>3, <1>4, <2>1, ReadAll
  <2>3. PICK m \in Sizes : m = numLeaves
    BY <2>2
  <2>4. Tree(m)' = Tree(m) /\ m \in Sizes'
    BY <1>3
  <2>5. \A k : (KeyIndex(k))' = KeyIndex(k)
    BY <1>1 DEF KeyIndex
  <2>6. (FetchedOf(m))'
    BY <1>3, <2>2, <2>3, <2>4, <2>5 DEF FetchedOf, KeyLevel
  <2>7. DEPTH \in Levels /\ 0 \in Nat
    BY DepthAssumption DEF Levels
  <2>8. 0 >= counts[DEPTH] => Root = Zeros[DEPTH]
    BY <1>3, <2>1, <2>7, ReadBeyond DEF Root
  <2> QED
    BY <2>4, <2>6, <2>8
<1>12. Quiet'
  <2>1. ASSUME ~mixed', Len(fetched') <= DEPTH
        PROVE  /\ counts' = Lengths'
               /\ \A k \in 1..Len(fetched') : fetched'[k] = (NodeAt(KeyLevel(k), KeyIndex(k)))'
    <3>1. \A k : (NodeAt(KeyLevel(k), KeyIndex(k)))' = NodeAt(KeyLevel(k), KeyIndex(k))
      BY <1>1 DEF NodeAt, KeyLevel, KeyIndex, vars, store
    <3> QED
      BY <1>1, <1>3, <1>7, <1>10, <2>1, <3>1
  <2>2. ASSUME ~mixed', Len(fetched') = DEPTH + 1
        PROVE  /\ \E m \in Sizes' : (FetchedOf(m))'
               /\ 0 >= counts'[DEPTH] => Root' = Zeros[DEPTH]
    BY <1>1, <1>3, <1>7, <1>11, <2>2
  <2> QED
    BY <2>1, <2>2, Zenon DEF Quiet
<1>13. Made'
  BY <1>1, <1>4 DEF Made
<1> QED
  BY <1>3, <1>9, <1>12, <1>13 DEF ReaderInv

\* Nodes of one tree on the path of an index verify against its root.
LEMMA PathVerifies ==
  ASSUME index \in Nat, index < Capacity, NEW m \in Nat, FetchedOf(m)
  PROVE  VerifyProof([proof |-> [l \in 0..(DEPTH - 1) |-> fetched[l + 1]],
                      leaf |-> fetched[DEPTH + 1], index |-> index, root |-> Root])
<1> DEFINE siblings == [l \in 0..(DEPTH - 1) |-> fetched[l + 1]]
           at == Tree(m)
<1>1. Hashed(at)
  BY TreeParts
<1>2. DEPTH + 1 \in Keys /\ \A l \in 0..(DEPTH - 1) : l + 1 \in Keys /\ l + 1 # DEPTH + 1
  BY DepthAssumption DEF Keys
<1>3. fetched[DEPTH + 1] = at[0][index]
  BY <1>2, KeyTypes DEF FetchedOf
<1>4. SiblingsOf(at, index, siblings)
  <2> SUFFICES ASSUME NEW l \in 0..(DEPTH - 1)
               PROVE  siblings[l] = at[l][Sibling(Shr(index, l))]
    BY DEF SiblingsOf
  <2>1. KeyLevel(l + 1) = l + 1 - 1 /\ KeyIndex(l + 1) = Sibling(Shr(index, l + 1 - 1))
    BY <1>2, KeyTypes
  <2>2. l + 1 - 1 = l
    OBVIOUS
  <2>3. fetched[l + 1] = at[l][Sibling(Shr(index, l))]
    BY <1>2, <2>1, <2>2 DEF FetchedOf
  <2> QED
    BY <2>3
<1> HIDE DEF siblings, at
<1>5. Climb(at[0][index], index, siblings)[DEPTH] = at[DEPTH][Shr(index, DEPTH)]
  <2>1. DEPTH \in Levels
    BY DepthAssumption DEF Levels
  <2> QED
    BY <1>1, <1>4, <2>1, ClimbReads
<1>6. Shr(index, DEPTH) = 0
  <2>1. index \div Capacity = 0
    <3> HIDE DEF Capacity
    <3> QED
      BY CapacityType
  <2> QED
    BY <2>1 DEF Shr, Capacity
<1>7. Root = at[DEPTH][0]
  BY DEF FetchedOf, at
<1>8. Climb(fetched[DEPTH + 1], index, siblings)[DEPTH] = Root
  BY <1>3, <1>5, <1>6, <1>7
<1> QED
  BY <1>8 DEF VerifyProof, siblings

\* The root is read and the proof is made.
LEMMA FetchRootKeeps == ReaderInv /\ FetchRoot => ReaderInv'
<1> SUFFICES ASSUME ReaderInv, FetchRoot PROVE ReaderInv'
  OBVIOUS
<1>1. /\ UNCHANGED <<vars, backend, counts, ends>>
      /\ index # None /\ Len(fetched) = DEPTH + 1
      /\ index' = None /\ fetched' = <<>>
      /\ mixed' = (mixed \/ (backend = "file" /\ Overwriting(DEPTH, 0)))
  BY DEF FetchRoot
<1>2. PICK r \in Reads(DEPTH, 0) :
        proof' = [proof |-> [l \in 0..(DEPTH - 1) |-> fetched[l + 1]],
                  leaf |-> fetched[DEPTH + 1], index |-> index, root |-> r]
  BY DEF FetchRoot
<1>3. /\ TreeInv /\ TreeInv' /\ Sizes' = Sizes
      /\ \A m \in Sizes : m \in Nat /\ Tree(m)' = Tree(m)
  <2>1. TreeInv /\ TreeInv' /\ Sizes' = Sizes /\ \A m \in Sizes : Tree(m)' = Tree(m)
    BY <1>1, ReadStep DEF ReaderInv
  <2>2. \A m \in Sizes : m \in Nat
    BY CapacityType DEF ReaderInv, TreeInv, EndsShape, Shape, Framed, TypeOK, Sizes
  <2> QED
    BY <2>1, <2>2
<1>4. index \in 0..Capacity /\ index \in Nat /\ backend \in {"sqlite", "file"}
  BY <1>1, CapacityType DEF ReaderInv, ReaderShape
<1>5. ReaderShape'
  <2>1. <<>> = [k \in 1..0 |-> <<>>[k]] /\ Len(<<>>) = 0 /\ DEPTH + 1 # 0 /\ DEPTH + 1 \in Nat
    BY DepthAssumption
  <2> QED
    BY <1>1, <1>4, <2>1 DEF ReaderShape
<1>6. Quiet'
  BY <1>1 DEF Quiet
<1>7. r = Torn \/ \E m \in Sizes : r = Tree(m)[DEPTH][0]
  BY <1>3, <1>4, RootReads
<1>8. index = Capacity => fetched[DEPTH + 1] = ZERO
  BY <1>1 DEF ReaderInv, ReaderShape
<1>9. ASSUME ~mixed', index < Capacity PROVE VerifyProof(proof')
  <2>1. ~mixed /\ ~(backend = "file" /\ Overwriting(DEPTH, 0))
    BY <1>1, <1>9, Zenon
  <2>2. /\ \E m \in Sizes : FetchedOf(m)
        /\ backend = "file" /\ 0 >= counts[DEPTH] => Root = Zeros[DEPTH]
    BY <1>1, <2>1 DEF ReaderInv, Quiet
  <2>3. r = Root
    BY <2>1, <2>2 DEF Reads, FileReads, Root
  <2>4. PICK m \in Sizes : FetchedOf(m)
    BY <2>2
  <2> QED
    BY <1>2, <1>3, <1>4, <1>9, <2>3, <2>4, PathVerifies
<1>10. Made'
  <2>1. /\ proof'.root = r /\ proof'.index = index /\ proof'.leaf = fetched[DEPTH + 1]
    BY <1>2
  <2>2. \A m \in Sizes : Tree(m)' = Tree(m)
    BY <1>3
  <2>3. proof'.root = Torn \/ \E m \in Sizes' : proof'.root = Tree(m)'[DEPTH][0]
    BY <1>3, <1>7, <2>1, <2>2
  <2> QED
    BY <1>4, <1>8, <1>9, <2>1, <2>3 DEF Made
<1> QED
  BY <1>3, <1>5, <1>6, <1>10 DEF ReaderInv

\* A step of neither handle.
LEMMA StutterKeeps == ReaderInv /\ UNCHANGED sharedVars => ReaderInv'
<1> SUFFICES ASSUME ReaderInv, UNCHANGED sharedVars PROVE ReaderInv'
  OBVIOUS
<1>1. UNCHANGED <<vars, readerVars, ends>>
  BY DEF sharedVars
<1>2. /\ TreeInv' /\ Sizes' = Sizes /\ Root' = Root /\ Lengths' = Lengths
      /\ \A m \in Sizes : Tree(m)' = Tree(m)
      /\ \A l, i : NodeAt(l, i)' = NodeAt(l, i)
  BY <1>1, ReadStep DEF ReaderInv
<1>3. ReaderShape' /\ Made'
  BY <1>1, <1>2 DEF ReaderInv, ReaderShape, Made, readerVars
<1>4. Quiet'
  <2>1. \A k : (NodeAt(KeyLevel(k), KeyIndex(k)))' = NodeAt(KeyLevel(k), KeyIndex(k))
    BY <1>1 DEF NodeAt, KeyLevel, KeyIndex, vars, store, readerVars
  <2>2. \A m \in Sizes : (FetchedOf(m))' <=> FetchedOf(m)
    BY <1>1, <1>2 DEF FetchedOf, KeyLevel, KeyIndex, readerVars
  <2> QED
    BY <1>1, <1>2, <2>1, <2>2 DEF ReaderInv, Quiet, readerVars
<1> QED
  BY <1>2, <1>3, <1>4 DEF ReaderInv

-----------------------------------------------------------------------------
(* The theorems. *)

\* The invariant holds in every interleaving of the two handles.
THEOREM ReaderInvariant == ReaderSpec => []ReaderInv
<1>1. ReaderInit => ReaderInv
  <2> SUFFICES ASSUME ReaderInit PROVE ReaderInv
    OBVIOUS
  <2>1. <<>> = [k \in 1..0 |-> <<>>[k]] /\ Len(<<>>) = 0 /\ DEPTH + 1 # 0 /\ DEPTH + 1 \in Nat
    BY DepthAssumption
  <2>2. ReaderShape
    BY <2>1 DEF ReaderInit, ReaderShape
  <2>3. Quiet /\ Made
    BY DEF ReaderInit, Quiet, Made
  <2> QED
    BY <2>2, <2>3, TreeInit DEF ReaderInv
<1>2. ReaderInv /\ [ReaderNext]_sharedVars => ReaderInv'
  BY WriteKeeps, OpenKeeps, AskKeeps, FetchAllKeeps, FetchOneKeeps, FetchRootKeeps, StutterKeeps
     DEF ReaderNext, Read
<1> QED
  BY <1>1, <1>2, PTL DEF ReaderSpec

\* A proof made while no call changed what it is made of verifies, although its
\* root is read after its siblings.
THEOREM QuietProofsVerify == ReaderSpec => []QuietProofVerifies
<1>1. ReaderInv => QuietProofVerifies
  BY DEF ReaderInv, Made, QuietProofVerifies
<1> QED
  BY <1>1, ReaderInvariant, PTL

\* The sizes are sizes of stored leaves, and their trees those of the properties.
LEMMA SizesTyped ==
  ASSUME TreeInv, NEW m \in Sizes
  PROVE  m \in 0..Capacity /\ RootOf(m) = Tree(m)[DEPTH][0]
<1>1. numLeaves \in 0..Capacity /\ numLeaves \in Nat /\ Capacity \in Nat
  BY CapacityType DEF TreeInv, Shape, Framed, TypeOK
<1>2. m \in Nat /\ m <= numLeaves
  BY <1>1 DEF TreeInv, EndsShape, Sizes
<1> QED
  BY <1>1, <1>2, RootOfTree

\* A root handed out is that of a whole number of calls, or torn, whatever the
\* reads were interleaved with.
THEOREM RootsAlwaysOfWholeCalls == ReaderSpec => []RootsOfWholeCalls
<1>1. ReaderInv => RootsOfWholeCalls
  BY SizesTyped DEF ReaderInv, Made, RootsOfWholeCalls
<1> QED
  BY <1>1, ReaderInvariant, PTL

\* What a read finds of a half-written node is not the hash of anything.
TornIsNoHash == \A a, b : Torn # Hash(a, b)

\* A proof that verifies is right, whatever its reads were interleaved with,
\* unless the hash has collisions.
THEOREM AcceptedProofsAlwaysOfThePast ==
  ASSUME CollisionFree, TornIsNoHash
  PROVE  ReaderSpec => []AcceptedProofsAreOfThePast
<1>1. ReaderInv => AcceptedProofsAreOfThePast
  <2> SUFFICES ASSUME ReaderInv, proof # None, VerifyProof(proof)
               PROVE  \E m \in Sizes : /\ proof.root = RootOf(m)
                                       /\ proof.leaf = LeafOf(m, proof.index)
    BY DEF AcceptedProofsAreOfThePast
  <2> DEFINE top == Climb(proof.leaf, proof.index, proof.proof)[DEPTH]
  <2>1. proof.index \in 0..Capacity /\ proof.index \in Nat
    BY CapacityType DEF ReaderInv, Made
  <2>2. proof.root # Torn
    <3>1. DEPTH \in Levels /\ DEPTH # 0
      BY DepthAssumption DEF Levels
    <3>2. top = ClimbStep(proof.leaf, proof.index, proof.proof, DEPTH,
                          Climb(proof.leaf, proof.index, proof.proof)[DEPTH - 1])
      BY <3>1, ClimbRec
    <3>3. \E a, b : top = Hash(a, b)
      BY <3>1, <3>2 DEF ClimbStep
    <3> QED
      BY <3>3 DEF VerifyProof, TornIsNoHash
  <2>3. PICK m \in Sizes : proof.root = Tree(m)[DEPTH][0]
    BY <2>2 DEF ReaderInv, Made
  <2>4. m \in 0..Capacity /\ m \in Nat /\ proof.root = RootOf(m)
    BY <2>3, CapacityType, SizesTyped DEF ReaderInv
  <2>5. proof.leaf = Tree(m)[0][proof.index % Capacity]
    <3> DEFINE at == Tree(m)
               leaf == proof.leaf
               i == proof.index
               siblings == proof.proof
    <3>1. Hashed(at) /\ i \in Nat /\ Climb(leaf, i, siblings)[DEPTH] = at[DEPTH][0]
      BY <2>1, <2>3, <2>4, TreeParts DEF VerifyProof
    <3> HIDE DEF at, leaf, i, siblings
    <3>2. leaf = at[0][i % Capacity]
      BY <3>1, ClimbPinned
    <3> QED
      BY <3>2 DEF at, leaf, i
  <2>6. CASE proof.index = Capacity
    <3>1. proof.leaf = ZERO
      BY <2>6 DEF ReaderInv, Made
    <3>2. LeafOf(m, Capacity) = ZERO
      BY <2>4, CapacityType DEF LeafOf
    <3> QED
      BY <2>4, <2>6, <3>1, <3>2
  <2>7. CASE proof.index # Capacity
    <3>1. proof.index % Capacity = proof.index
      BY <2>1, <2>7, CapacityType
    <3> QED
      BY <2>1, <2>4, <2>5, <3>1, TreeParts
  <2> QED
    BY <2>6, <2>7
<1> QED
  BY <1>1, ReaderInvariant, PTL
=============================================================================
