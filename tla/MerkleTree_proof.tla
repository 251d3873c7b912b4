--------------------------- MODULE MerkleTree_proof ---------------------------
(***************************************************************************)
(* Proofs about MerkleTree for every depth, hash, batch size and set of    *)
(* leaves.                                                                 *)
(*                                                                         *)
(* The inductive invariant has layers.  Framed says where the run of a     *)
(* level starts and ends, from which every index and length follows, and   *)
(* Shape adds where the store ends.  Content says that the run and the     *)
(* partners are what the store holds and that the levels already rewritten *)
(* agree with the levels below them.  GapInv is about a store that refuses *)
(* gaps.  All survive store errors.  Intact, at the end, is what only a    *)
(* store that reports no I/O error preserves.                              *)
(*                                                                         *)
(* First comes what the recursive functions of MerkleNodes satisfy.  Such  *)
(* a function f[x \in S] == e abbreviates a CHOOSE, and says nothing until *)
(* some function is shown to satisfy its equation.  Each gets that fact by *)
(* induction over the levels, carried out on a minimal counterexample.     *)
(***************************************************************************)
EXTENDS MerkleTree, TLAPS, WellFoundedInduction

-----------------------------------------------------------------------------
(* The functions of MerkleNodes. *)

\* Every nonempty set of naturals has a least element.
LEMMA NatMinimum ==
  ASSUME NEW T, T \subseteq Nat, T # {}
  PROVE  \E m \in T : \A k \in T : m <= k
<1>1. PICK x \in T : \A y \in T : ~ (<<y, x>> \in OpToRel(<, Nat))
  BY NatLessThanWellFounded, WFMin
<1>2. \A y \in T : ~ (y < x)
  BY <1>1 DEF OpToRel
<1> QED
  BY <1>2

-----------------------------------------------------------------------------
(* Pow2 and Shr. *)

Pow2Upto(n, f) == f = [l \in 0..n |-> IF l = 0 THEN 1 ELSE 2 * f[l - 1]]

\* A function that satisfies the recursion of Pow2 up to n, for every n.
LEMMA Pow2Exists == \A n \in Nat : \E f : Pow2Upto(n, f)
<1> DEFINE T == {n \in Nat : ~ \E f : Pow2Upto(n, f)}
<1> SUFFICES ASSUME T # {} PROVE FALSE
  OBVIOUS
<1>1. PICK m \in T : \A k \in T : m <= k
  BY NatMinimum
<1>2. Pow2Upto(0, [l \in 0..0 |-> 1])
  BY DEF Pow2Upto
<1>3. m # 0
  BY <1>2
<1>4. PICK f : Pow2Upto(m - 1, f)
  BY <1>1, <1>3
<1>5. Pow2Upto(m, [l \in 0..m |-> IF l = m THEN 2 * f[m - 1] ELSE f[l]])
  BY <1>3, <1>4 DEF Pow2Upto
<1> QED
  BY <1>5

\* Pow2 satisfies its defining equation.
LEMMA Pow2Def == Pow2 = [l \in Levels |-> IF l = 0 THEN 1 ELSE 2 * Pow2[l - 1]]
<1>1. PICK f : Pow2Upto(DEPTH, f)
  BY Pow2Exists, DepthAssumption
<1> QED
  BY <1>1, Zenon DEF Pow2Upto, Pow2, Levels

\* 1 << 0 is 1.
LEMMA Pow2Zero == Pow2[0] = 1
BY Pow2Def, DepthAssumption DEF Levels

\* 1 << (l + 1) is twice 1 << l.
LEMMA Pow2Rec == \A l \in 0..(DEPTH - 1) : Pow2[l + 1] = 2 * Pow2[l]
BY Pow2Def, DepthAssumption DEF Levels

\* A power of two is a positive natural.
LEMMA Pow2Type == \A l \in Levels : Pow2[l] \in Nat /\ Pow2[l] > 0
<1> DEFINE T == {l \in Levels : ~ (Pow2[l] \in Nat /\ Pow2[l] > 0)}
<1> SUFFICES ASSUME T # {} PROVE FALSE
  OBVIOUS
<1>1. T \subseteq Nat
  BY DepthAssumption DEF Levels
<1> HIDE DEF T
<1>2. PICK m \in T : \A k \in T : m <= k
  BY <1>1, NatMinimum
<1> USE DEF T
<1>3. m # 0
  BY Pow2Zero
<1>4. m - 1 \in Levels /\ m - 1 \notin T
  BY <1>2, <1>3, DepthAssumption DEF Levels
<1>5. Pow2[m] = 2 * Pow2[m - 1]
  BY <1>3, Pow2Def
<1> QED
  BY <1>4, <1>5

\* The capacity 1 << DEPTH of add_leaves is a positive natural number.
LEMMA CapacityType == Capacity \in Nat /\ Capacity > 0
BY Pow2Type, DepthAssumption DEF Capacity, Levels

\* Dividing by p and then by 2 is dividing by 2p.
LEMMA HalfOfQuotient ==
  ASSUME NEW n \in Nat, NEW p \in Nat, p > 0
  PROVE  (n \div p) \div 2 = n \div (2 * p)
BY Z3

\* A shift by 0 is the identity, and a shift by l + 1 halves a shift by l.
LEMMA ShrRec ==
  ASSUME NEW n \in Nat
  PROVE  /\ Shr(n, 0) = n
         /\ \A l \in 0..(DEPTH - 1) : Shr(n, l + 1) = Shr(n, l) \div 2
<1>1. ASSUME NEW l \in 0..(DEPTH - 1)
      PROVE  Shr(n, l + 1) = Shr(n, l) \div 2
  <2>1. Pow2[l + 1] = 2 * Pow2[l] /\ Pow2[l] \in Nat /\ Pow2[l] > 0
    BY Pow2Rec, Pow2Type, DepthAssumption DEF Levels
  <2> QED
    BY <2>1, HalfOfQuotient DEF Shr
<1> QED
  BY <1>1, Pow2Zero DEF Shr

\* A shift of a natural is a natural no larger than it.
LEMMA ShrType ==
  ASSUME NEW n \in Nat, NEW l \in Levels
  PROVE  Shr(n, l) \in Nat /\ Shr(n, l) <= n
<1>1. ASSUME NEW p \in Nat, p > 0 PROVE n \div p \in Nat /\ n \div p <= n
  BY <1>1, Z3
<1> QED
  BY <1>1, Pow2Type DEF Shr

\* Shifting is monotone, and shifting a predecessor loses at most one.
LEMMA ShrMonotone ==
  ASSUME NEW m \in Nat, NEW n \in Nat, NEW l \in Levels
  PROVE  /\ m <= n => Shr(m, l) <= Shr(n, l)
         /\ n > 0 => Shr(n, l) - 1 <= Shr(n - 1, l)
<1>1. ASSUME NEW p \in Nat, p > 0
      PROVE  m <= n => m \div p <= n \div p
  BY <1>1, Z3
<1>2. ASSUME NEW p \in Nat, p > 0
      PROVE  n > 0 => (n \div p) - 1 <= (n - 1) \div p
  BY <1>2, Z3
<1> QED
  BY <1>1, <1>2, Pow2Type DEF Shr

-----------------------------------------------------------------------------
(* Zeros. *)

ZerosUpto(n, f) ==
  f = [l \in 0..n |-> IF l = 0 THEN ZERO ELSE Hash(f[l - 1], f[l - 1])]

\* A function that satisfies the recursion of Zeros up to n, for every n.
LEMMA ZerosExists == \A n \in Nat : \E f : ZerosUpto(n, f)
<1> DEFINE T == {n \in Nat : ~ \E f : ZerosUpto(n, f)}
<1> SUFFICES ASSUME T # {} PROVE FALSE
  OBVIOUS
<1>1. PICK m \in T : \A k \in T : m <= k
  BY NatMinimum
<1>2. ZerosUpto(0, [l \in 0..0 |-> ZERO])
  BY DEF ZerosUpto
<1>3. m # 0
  BY <1>2
<1>4. PICK f : ZerosUpto(m - 1, f)
  BY <1>1, <1>3
<1>5. ZerosUpto(m, [l \in 0..m |->
                      IF l = m THEN Hash(f[m - 1], f[m - 1]) ELSE f[l]])
  BY <1>3, <1>4 DEF ZerosUpto
<1> QED
  BY <1>5

\* The zero of a level is the hash of two zeros of the level below.
LEMMA ZerosRec ==
  /\ Zeros[0] = ZERO
  /\ \A l \in 0..(DEPTH - 1) : Zeros[l + 1] = Hash(Zeros[l], Zeros[l])
<1>1. PICK f : ZerosUpto(DEPTH, f)
  BY ZerosExists, DepthAssumption
<1>2. Zeros = [l \in Levels |->
                 IF l = 0 THEN ZERO ELSE Hash(Zeros[l - 1], Zeros[l - 1])]
  BY <1>1, Zenon DEF ZerosUpto, Zeros, Levels
<1>3. Zeros[0] = ZERO
  <2>1. 0 \in Levels
    BY DepthAssumption DEF Levels
  <2> QED
    BY <1>2, <2>1, Zenon
<1>4. ASSUME NEW l \in 0..(DEPTH - 1)
      PROVE  Zeros[l + 1] = Hash(Zeros[l], Zeros[l])
  <2>1. l + 1 \in Levels /\ l + 1 # 0 /\ (l + 1) - 1 = l
    BY DepthAssumption DEF Levels
  <2>2. Zeros[l + 1] = Hash(Zeros[(l + 1) - 1], Zeros[(l + 1) - 1])
    BY <1>2, <2>1, Zenon
  <2> QED
    BY <2>1, <2>2
<1> QED
  BY <1>3, <1>4

-----------------------------------------------------------------------------
(* FullTree and Climb. *)

\* One level of FullTree, from the level below.
TreeLevel(log, l, below) ==
  [i \in Nat |->
     IF l = 0
     THEN IF i < Len(log) THEN log[i + 1] ELSE ZERO
     ELSE Hash(below[2 * i], below[2 * i + 1])]

TreeUpto(log, n, f) ==
  f = [l \in 0..n |-> TreeLevel(log, l, f[l - 1])]

\* A function that satisfies the recursion of FullTree up to n, for every n.
LEMMA TreeExists ==
  ASSUME NEW log
  PROVE  \A n \in Nat : \E f : TreeUpto(log, n, f)
<1> DEFINE T == {n \in Nat : ~ \E f : TreeUpto(log, n, f)}
<1> SUFFICES ASSUME T # {} PROVE FALSE
  OBVIOUS
<1>1. PICK m \in T : \A k \in T : m <= k
  BY NatMinimum
<1>2. m # 0
  <2>1. ASSUME NEW x, NEW y PROVE TreeLevel(log, 0, x) = TreeLevel(log, 0, y)
    BY DEF TreeLevel
  <2> DEFINE f == [l \in 0..0 |-> TreeLevel(log, 0, ZERO)]
  <2>2. \A l \in 0..0 : l = 0
    OBVIOUS
  <2> HIDE DEF f
  <2>3. f = [l \in 0..0 |-> TreeLevel(log, 0, ZERO)]
    BY DEF f
  <2>4. f = [l \in 0..0 |-> TreeLevel(log, l, f[l - 1])]
    BY <2>1, <2>2, <2>3, SMT
  <2> QED
    BY <2>4 DEF TreeUpto
<1>3. PICK f : TreeUpto(log, m - 1, f)
  BY <1>1, <1>2
<1> DEFINE g == [l \in 0..m |->
                   IF l = m THEN TreeLevel(log, m, f[m - 1]) ELSE f[l]]
<1>4. g = [l \in 0..m |-> TreeLevel(log, l, g[l - 1])]
  <2> SUFFICES ASSUME NEW l \in 0..m PROVE g[l] = TreeLevel(log, l, g[l - 1])
    OBVIOUS
  <2>1. CASE l = m
    <3>1. m - 1 \in 0..m /\ m - 1 # m
      BY <1>2
    <3>2. g[m - 1] = f[m - 1]
      BY <3>1
    <3> QED
      BY <2>1, <3>2
  <2>2. CASE l # m
    <3>1. l \in 0..(m - 1) /\ g[l] = f[l]
      BY <2>2
    <3>2. f[l] = TreeLevel(log, l, f[l - 1])
      BY <1>3, <3>1, Zenon DEF TreeUpto
    <3>3. CASE l = 0
      BY <3>1, <3>2, <3>3 DEF TreeLevel
    <3>4. CASE l # 0
      <4>1. l - 1 \in 0..m /\ l - 1 # m
        BY <2>2, <3>4
      <4>2. g[l - 1] = f[l - 1]
        BY <4>1
      <4> QED
        BY <3>1, <3>2, <4>2
    <3> QED
      BY <3>3, <3>4
  <2> QED
    BY <2>1, <2>2
<1> HIDE DEF g
<1>5. TreeUpto(log, m, g)
  BY <1>4 DEF TreeUpto
<1> QED
  BY <1>5

\* FullTree satisfies its equation at every level.
LEMMA FullTreeRec ==
  ASSUME NEW log
  PROVE  \A l \in Levels :
           FullTree(log)[l] = TreeLevel(log, l, FullTree(log)[l - 1])
<1>1. PICK f : TreeUpto(log, DEPTH, f)
  BY TreeExists, DepthAssumption
<1>2. FullTree(log) =
        [l \in Levels |-> TreeLevel(log, l, FullTree(log)[l - 1])]
  BY <1>1, Zenon DEF TreeUpto, TreeLevel, FullTree, Levels
<1> QED
  BY <1>2, Zenon

\* Every parent of a tree is the hash of its children.
Hashed(at) ==
  \A l \in 0..(DEPTH - 1) : \A i \in Nat :
    at[l + 1][i] = Hash(at[l][2 * i], at[l][2 * i + 1])

\* A tree over a padded leaf level.
TreeOver(at, log) ==
  /\ \A i \in Nat : at[0][i] = IF i < Len(log) THEN log[i + 1] ELSE ZERO
  /\ Hashed(at)

\* There is only one, the tree recomputed from the leaves.
LEMMA TreeRecomputed ==
  ASSUME NEW log, NEW at, TreeOver(at, log)
  PROVE  \A l \in Levels : \A i \in Nat : at[l][i] = FullTree(log)[l][i]
<1> DEFINE Agrees(l) == \A i \in Nat : at[l][i] = FullTree(log)[l][i]
           T == {l \in Levels : ~Agrees(l)}
<1> SUFFICES ASSUME T # {} PROVE FALSE
  OBVIOUS
<1>1. T \subseteq Nat /\ 0 \in Levels
  BY DepthAssumption DEF Levels
<1>2. \A l \in Levels : FullTree(log)[l] = TreeLevel(log, l, FullTree(log)[l - 1])
  BY FullTreeRec
<1> HIDE DEF T, Agrees
<1>3. PICK m \in T : \A k \in T : m <= k
  BY <1>1, NatMinimum
<1>4. Agrees(0)
  BY <1>1, <1>2 DEF Agrees, TreeLevel, TreeOver
<1>5. m \in Levels /\ ~Agrees(m) /\ m # 0
  BY <1>4 DEF T
<1>6. /\ m - 1 \in 0..(DEPTH - 1) /\ m - 1 \in Levels /\ m - 1 \notin T
      /\ (m - 1) + 1 = m
  BY <1>3, <1>5, DepthAssumption DEF Levels
<1>7. Agrees(m - 1)
  BY <1>6 DEF T
<1>8. ASSUME NEW i \in Nat PROVE at[m][i] = FullTree(log)[m][i]
  <2>1. at[m][i] = Hash(at[m - 1][2 * i], at[m - 1][2 * i + 1])
    BY <1>6 DEF TreeOver, Hashed
  <2>2. FullTree(log)[m][i] =
          Hash(FullTree(log)[m - 1][2 * i], FullTree(log)[m - 1][2 * i + 1])
    <3>1. FullTree(log)[m] = TreeLevel(log, m, FullTree(log)[m - 1])
      BY <1>2, <1>5
    <3> QED
      BY <1>5, <3>1 DEF TreeLevel
  <2>3. 2 * i \in Nat /\ 2 * i + 1 \in Nat
    OBVIOUS
  <2> QED
    BY <1>7, <2>1, <2>2, <2>3 DEF Agrees
<1> QED
  BY <1>5, <1>8 DEF Agrees

\* The recomputed tree is one.
LEMMA FullTreeOver == ASSUME NEW log PROVE TreeOver(FullTree(log), log)
<1>1. \A l \in Levels : FullTree(log)[l] = TreeLevel(log, l, FullTree(log)[l - 1])
  BY FullTreeRec
<1>2. \A i \in Nat : FullTree(log)[0][i] = IF i < Len(log) THEN log[i + 1] ELSE ZERO
  <2>1. 0 \in Levels
    BY DepthAssumption DEF Levels
  <2> QED
    BY <1>1, <2>1 DEF TreeLevel
<1>3. ASSUME NEW l \in 0..(DEPTH - 1), NEW i \in Nat
      PROVE  FullTree(log)[l + 1][i] =
               Hash(FullTree(log)[l][2 * i], FullTree(log)[l][2 * i + 1])
  <2>1. l + 1 \in Levels /\ l + 1 # 0 /\ (l + 1) - 1 = l
    BY DepthAssumption DEF Levels
  <2>2. FullTree(log)[l + 1] = TreeLevel(log, l + 1, FullTree(log)[l])
    BY <1>1, <2>1
  <2> QED
    BY <2>1, <2>2 DEF TreeLevel
<1> QED
  BY <1>2, <1>3 DEF TreeOver, Hashed

\* One step of Climb, from the hash computed so far.
ClimbStep(leaf, index, siblings, j, below) ==
  IF j = 0 THEN leaf
  ELSE IF IsOdd(Shr(index, j - 1))
       THEN Hash(siblings[j - 1], below)
       ELSE Hash(below, siblings[j - 1])

ClimbUpto(leaf, index, siblings, n, f) ==
  f = [j \in 0..n |-> ClimbStep(leaf, index, siblings, j, f[j - 1])]

\* A function that satisfies the recursion of Climb up to n, for every n.
LEMMA ClimbExists ==
  ASSUME NEW leaf, NEW index, NEW siblings
  PROVE  \A n \in Nat : \E f : ClimbUpto(leaf, index, siblings, n, f)
<1> DEFINE T == {n \in Nat : ~ \E f : ClimbUpto(leaf, index, siblings, n, f)}
           step(j, below) == ClimbStep(leaf, index, siblings, j, below)
<1> SUFFICES ASSUME T # {} PROVE FALSE
  OBVIOUS
<1>1. PICK m \in T : \A k \in T : m <= k
  BY NatMinimum
<1>2. m # 0
  <2> DEFINE f == [j \in 0..0 |-> leaf]
  <2>1. f = [j \in 0..0 |-> step(j, f[j - 1])]
    BY DEF ClimbStep
  <2> QED
    BY <2>1 DEF ClimbUpto
<1>3. PICK f : ClimbUpto(leaf, index, siblings, m - 1, f)
  BY <1>1, <1>2
<1> DEFINE g == [j \in 0..m |-> IF j = m THEN step(m, f[m - 1]) ELSE f[j]]
<1>4. g = [j \in 0..m |-> step(j, g[j - 1])]
  <2> SUFFICES ASSUME NEW j \in 0..m PROVE g[j] = step(j, g[j - 1])
    OBVIOUS
  <2>1. CASE j = m
    <3>1. m - 1 \in 0..m /\ m - 1 # m
      BY <1>2
    <3>2. g[m - 1] = f[m - 1]
      BY <3>1
    <3> QED
      BY <2>1, <3>2
  <2>2. CASE j # m
    <3>1. j \in 0..(m - 1) /\ g[j] = f[j]
      BY <2>2
    <3>2. f[j] = step(j, f[j - 1])
      BY <1>3, <3>1, Zenon DEF ClimbUpto
    <3>3. CASE j = 0
      BY <3>1, <3>2, <3>3 DEF ClimbStep
    <3>4. CASE j # 0
      <4>1. j - 1 \in 0..m /\ j - 1 # m
        BY <2>2, <3>4
      <4>2. g[j - 1] = f[j - 1]
        BY <4>1
      <4> QED
        BY <3>1, <3>2, <4>2
    <3> QED
      BY <3>3, <3>4
  <2> QED
    BY <2>1, <2>2
<1> HIDE DEF g
<1>5. ClimbUpto(leaf, index, siblings, m, g)
  BY <1>4 DEF ClimbUpto
<1> QED
  BY <1>5

\* Climb satisfies its equation at every level.
LEMMA ClimbRec ==
  ASSUME NEW leaf, NEW index, NEW siblings
  PROVE  \A j \in Levels :
           Climb(leaf, index, siblings)[j] =
             ClimbStep(leaf, index, siblings, j, Climb(leaf, index, siblings)[j - 1])
<1>1. PICK f : ClimbUpto(leaf, index, siblings, DEPTH, f)
  BY ClimbExists, DepthAssumption
<1>2. Climb(leaf, index, siblings) =
        [j \in Levels |->
           ClimbStep(leaf, index, siblings, j, Climb(leaf, index, siblings)[j - 1])]
  BY <1>1, Zenon DEF ClimbUpto, ClimbStep, Climb, Levels
<1> QED
  BY <1>2, Zenon

\* The two children of the parent of i are i and its sibling, i on the right
\* when it is odd.
LEMMA SiblingPair ==
  ASSUME NEW i \in Nat
  PROVE  /\ Sibling(i) \in Nat
         /\ IsOdd(i) => Sibling(i) = 2 * (i \div 2) /\ i = 2 * (i \div 2) + 1
         /\ ~IsOdd(i) => i = 2 * (i \div 2) /\ Sibling(i) = 2 * (i \div 2) + 1
BY DEF Sibling, IsOdd

\* The siblings of the path from position i of a tree.
SiblingsOf(at, i, siblings) ==
  \A l \in 0..(DEPTH - 1) : siblings[l] = at[l][Sibling(Shr(i, l))]

\* In a tree, the climb from position i with the siblings of its path passes
\* through the ancestors of i.
LEMMA ClimbReads ==
  ASSUME NEW at, Hashed(at), NEW i \in Nat, NEW siblings, SiblingsOf(at, i, siblings)
  PROVE  \A j \in Levels : Climb(at[0][i], i, siblings)[j] = at[j][Shr(i, j)]
<1> DEFINE c == Climb(at[0][i], i, siblings)
           T == {j \in Levels : c[j] # at[j][Shr(i, j)]}
<1> SUFFICES ASSUME T # {} PROVE FALSE
  OBVIOUS
<1>1. T \subseteq Nat
  BY DepthAssumption DEF Levels
<1>2. \A j \in Levels :
        c[j] = ClimbStep(at[0][i], i, siblings, j, c[j - 1])
  BY ClimbRec
<1> HIDE DEF c, T
<1>3. PICK j \in T : \A k \in T : j <= k
  BY <1>1, NatMinimum
<1>4. j \in Levels /\ c[j] # at[j][Shr(i, j)]
  BY DEF T
<1>5. j # 0
  BY <1>2, <1>4, ShrRec DEF ClimbStep
<1> DEFINE l == j - 1
<1>6. l \in 0..(DEPTH - 1) /\ l \in Levels /\ j = l + 1 /\ l \notin T
  BY <1>3, <1>4, <1>5, DepthAssumption DEF Levels
<1> HIDE DEF l
<1>7. c[l] = at[l][Shr(i, l)] /\ Shr(i, l) \in Nat /\ Shr(i, j) = Shr(i, l) \div 2
  BY <1>6, ShrRec, ShrType DEF T
<1>8. siblings[l] = at[l][Sibling(Shr(i, l))]
  BY <1>6 DEF SiblingsOf
<1>9. c[j] = IF IsOdd(Shr(i, l))
             THEN Hash(siblings[l], c[l]) ELSE Hash(c[l], siblings[l])
  BY <1>2, <1>4, <1>5 DEF ClimbStep, l
<1>10. at[j][Shr(i, j)] =
         Hash(at[l][2 * Shr(i, j)], at[l][2 * Shr(i, j) + 1])
  <2>1. Shr(i, j) \in Nat
    BY <1>4, ShrType
  <2> QED
    BY <1>6, <2>1 DEF Hashed
<1>11. c[j] = at[j][Shr(i, j)]
  <2>1. CASE IsOdd(Shr(i, l))
    BY <1>7, <1>8, <1>9, <1>10, <2>1, SiblingPair
  <2>2. CASE ~IsOdd(Shr(i, l))
    BY <1>7, <1>8, <1>9, <1>10, <2>2, SiblingPair
  <2> QED
    BY <2>1, <2>2
<1> QED
  BY <1>4, <1>11

-----------------------------------------------------------------------------
(* A climb to the root starts at the leaf, if no two pairs of nodes collide. *)

CollisionFree == \A a, b, c, d : Hash(a, b) = Hash(c, d) => a = c /\ b = d

\* The position at level k on the path that the bits of i describe.
PathAt(i, k) == Shr(i, k) - Pow2[DEPTH - k] * Shr(i, DEPTH)

\* The path ends at the root, begins at the leaf, and turns at each level to the
\* side of the bit that the climb looks at.
LEMMA PathSteps ==
  ASSUME NEW i \in Nat
  PROVE  /\ PathAt(i, DEPTH) = 0
         /\ PathAt(i, 0) = i % Capacity
         /\ \A k \in 0..(DEPTH - 1) :
              PathAt(i, k) = 2 * PathAt(i, k + 1) + (IF IsOdd(Shr(i, k)) THEN 1 ELSE 0)
<1>1. DEPTH \in Levels /\ 0 \in Levels /\ DEPTH - DEPTH = 0 /\ DEPTH - 0 = DEPTH
  BY DepthAssumption DEF Levels
<1>2. Shr(i, DEPTH) \in Nat
  BY <1>1, ShrType
<1>3. PathAt(i, DEPTH) = 0
  BY <1>1, <1>2, Pow2Zero DEF PathAt
<1>4. PathAt(i, 0) = i % Capacity
  <2>1. ASSUME NEW p \in Nat, p > 0 PROVE i - p * (i \div p) = i % p
    BY <2>1, Z3
  <2>2. PathAt(i, 0) = i - Capacity * (i \div Capacity)
    BY <1>1, ShrRec DEF PathAt, Shr, Capacity
  <2> QED
    BY <2>1, <2>2, CapacityType
<1>5. ASSUME NEW k \in 0..(DEPTH - 1)
      PROVE  PathAt(i, k) = 2 * PathAt(i, k + 1) + (IF IsOdd(Shr(i, k)) THEN 1 ELSE 0)
  <2>1. /\ k \in Levels
        /\ k + 1 \in Levels
        /\ DEPTH - (k + 1) \in 0..(DEPTH - 1)
        /\ DEPTH - k = (DEPTH - (k + 1)) + 1
    BY DepthAssumption DEF Levels
  <2> DEFINE x == Shr(i, k)
             p == Pow2[DEPTH - (k + 1)]
             top == Shr(i, DEPTH)
  <2>2. x \in Nat /\ Shr(i, k + 1) = x \div 2
    BY <2>1, ShrType, ShrRec
  <2>3. Pow2[DEPTH - k] = 2 * p /\ p \in Nat
    <3> DEFINE l == DEPTH - (k + 1)
    <3>1. l \in 0..(DEPTH - 1) /\ l \in Levels /\ DEPTH - k = l + 1
      BY <2>1, DepthAssumption DEF Levels
    <3> HIDE DEF l
    <3>2. Pow2[l + 1] = 2 * Pow2[l] /\ Pow2[l] \in Nat
      BY <3>1, Pow2Rec, Pow2Type
    <3> QED
      BY <3>1, <3>2 DEF l
  <2>4. PathAt(i, k) = x - (2 * p) * top /\ PathAt(i, k + 1) = (x \div 2) - p * top
    BY <2>2, <2>3 DEF PathAt
  <2>5. top \in Nat
    BY <1>2
  <2> HIDE DEF x, p, top
  <2>6. (2 * p) * top = 2 * (p * top) /\ p * top \in Nat
    BY <2>3, <2>5, Z3
  <2>7. x = 2 * (x \div 2) + (IF IsOdd(x) THEN 1 ELSE 0)
    BY <2>2 DEF IsOdd
  <2>8. PathAt(i, k) = 2 * PathAt(i, k + 1) + (IF IsOdd(x) THEN 1 ELSE 0)
    <3> DEFINE q == p * top
               h == x \div 2
               b == IF IsOdd(x) THEN 1 ELSE 0
    <3>1. q \in Nat /\ h \in Nat /\ b \in Nat
      BY <2>2, <2>6
    <3>2. PathAt(i, k) = (2 * h + b) - 2 * q /\ PathAt(i, k + 1) = h - q
      BY <2>4, <2>6, <2>7
    <3> HIDE DEF q, h, b
    <3>3. (2 * h + b) - 2 * q = 2 * (h - q) + b
      BY <3>1
    <3> QED
      BY <3>2, <3>3 DEF b
  <2> QED
    BY <2>8 DEF x
<1> QED
  BY <1>3, <1>4, <1>5

\* A climb that ends at the root of a tree passed through the nodes on
\* the path of its index, whatever siblings it was given.
LEMMA ClimbPinned ==
  ASSUME CollisionFree,
         NEW at, Hashed(at), NEW i \in Nat, NEW leaf, NEW siblings,
         Climb(leaf, i, siblings)[DEPTH] = at[DEPTH][0]
  PROVE  leaf = at[0][i % Capacity]
<1> DEFINE c == Climb(leaf, i, siblings)
           OnPath(k) == PathAt(i, k) \in Nat /\ c[k] = at[k][PathAt(i, k)]
           T == {n \in Levels : ~OnPath(DEPTH - n)}
<1>1. \A j \in Levels : c[j] = ClimbStep(leaf, i, siblings, j, c[j - 1])
  BY ClimbRec
<1>2. c[DEPTH] = at[DEPTH][0]
  OBVIOUS
<1> HIDE DEF c
<1>3. T = {}
  <2> SUFFICES ASSUME T # {} PROVE FALSE
    OBVIOUS
  <2>1. T \subseteq Nat
    BY DepthAssumption DEF Levels
  <2> HIDE DEF T
  <2>2. PICK n \in T : \A m \in T : n <= m
    BY <2>1, NatMinimum
  <2>3. n \in Levels /\ ~OnPath(DEPTH - n)
    BY DEF T
  <2>4. n # 0
    <3>1. OnPath(DEPTH)
      BY <1>2, PathSteps
    <3> QED
      BY <2>3, <3>1, DepthAssumption DEF Levels
  <2> DEFINE k == DEPTH - n
             p == PathAt(i, k + 1)
             b == IF IsOdd(Shr(i, k)) THEN 1 ELSE 0
  <2>5. /\ k \in 0..(DEPTH - 1)
        /\ k + 1 \in Levels
        /\ k + 1 # 0
        /\ (k + 1) - 1 = k
        /\ n - 1 \in Levels
        /\ DEPTH - (n - 1) = k + 1
    BY <2>3, <2>4, DepthAssumption DEF Levels
  <2>6. p \in Nat /\ c[k + 1] = at[k + 1][p]
    <3>1. n - 1 \notin T
      BY <2>1, <2>2
    <3> QED
      BY <2>5, <3>1 DEF T
  <2> HIDE DEF k, p
  <2>7. c[k + 1] = Hash(at[k][2 * p], at[k][2 * p + 1])
    BY <2>5, <2>6 DEF Hashed
  <2>8. c[k + 1] = IF IsOdd(Shr(i, k)) THEN Hash(siblings[k], c[k])
                   ELSE Hash(c[k], siblings[k])
    BY <1>1, <2>5 DEF ClimbStep
  <2>9. PathAt(i, k) = 2 * p + b
    BY <2>5, PathSteps DEF p
  <2>10. PathAt(i, k) \in Nat /\ c[k] = at[k][PathAt(i, k)]
    <3>1. CASE IsOdd(Shr(i, k))
      <4>1. Hash(siblings[k], c[k]) = Hash(at[k][2 * p], at[k][2 * p + 1])
        BY <2>7, <2>8, <3>1, Zenon
      <4>2. c[k] = at[k][2 * p + 1]
        BY <4>1 DEF CollisionFree
      <4> QED
        BY <2>6, <2>9, <3>1, <4>2
    <3>2. CASE ~IsOdd(Shr(i, k))
      <4>1. Hash(c[k], siblings[k]) = Hash(at[k][2 * p], at[k][2 * p + 1])
        BY <2>7, <2>8, <3>2, Zenon
      <4>2. c[k] = at[k][2 * p]
        BY <4>1 DEF CollisionFree
      <4> QED
        BY <2>6, <2>9, <3>2, <4>2
    <3> QED
      BY <3>1, <3>2
  <2> QED
    BY <2>3, <2>10 DEF k
<1>4. OnPath(0)
  <2>1. DEPTH \in Levels /\ DEPTH - DEPTH = 0
    BY DepthAssumption DEF Levels
  <2> QED
    BY <1>3, <2>1
<1>5. c[0] = leaf
  BY <1>1, DepthAssumption DEF ClimbStep, Levels
<1> QED
  BY <1>4, <1>5, PathSteps

-----------------------------------------------------------------------------
(* Facts about the operators of the model. *)

\* A batch is a sequence, and only the empty one has length 0.
LEMMA BatchType ==
  ASSUME NEW batch \in Batches
  PROVE  /\ Len(batch) \in Nat
         /\ DOMAIN batch = 1..Len(batch)
         /\ batch # <<>> => Len(batch) > 0
<1>1. PICK k \in 0..MaxBatch : batch \in [1..k -> Leaf]
  BY DEF Batches
<1> QED
  BY <1>1, TreeAssumption

\* What a put changes: the nodes of its run, the count at level 0, no more.
LEMMA PutEffect ==
  ASSUME NEW l \in Levels, NEW s \in Nat, NEW n \in Nat, NEW run,
         DOMAIN run = 1..n, DOMAIN nodes = Levels, Put(l, s, run)
  PROVE  /\ DOMAIN nodes' = Levels
         /\ \A k \in Levels \ {l} : nodes'[k] = nodes[k]
         /\ DOMAIN nodes'[l] = DOMAIN nodes[l] \cup s..(s + n - 1)
         /\ \A i \in s..(s + n - 1) : nodes'[l][i] = run[i - s + 1]
         /\ \A i \in DOMAIN nodes[l] :
              i \notin s..(s + n - 1) => nodes'[l][i] = nodes[l][i]
         /\ l # 0 => numLeaves' = numLeaves
         /\ l = 0 => numLeaves' = Larger(numLeaves, s + n)
<1>1. Len(run) = n
  OBVIOUS
<1> QED
  BY <1>1 DEF Put, Counted

\* The same for reads.
LEMMA PutReads ==
  ASSUME NEW l \in Levels, NEW s \in Nat, NEW n \in Nat, NEW run,
         DOMAIN run = 1..n, DOMAIN nodes = Levels, Put(l, s, run)
  PROVE  /\ \A k \in Levels \ {l} : \A i : NodeAt(k, i)' = NodeAt(k, i)
         /\ \A i : i \notin s..(s + n - 1) => NodeAt(l, i)' = NodeAt(l, i)
         /\ \A i \in s..(s + n - 1) : NodeAt(l, i)' = run[i - s + 1]
<1>1. \A k \in Levels \ {l} : nodes'[k] = nodes[k]
  BY PutEffect
<1>2. \A i : i \in DOMAIN nodes'[l] <=> i \in DOMAIN nodes[l] \/ i \in s..(s + n - 1)
  BY PutEffect
<1>3. \A i \in s..(s + n - 1) : nodes'[l][i] = run[i - s + 1]
  BY PutEffect
<1>4. \A i \in DOMAIN nodes[l] :
        i \notin s..(s + n - 1) => nodes'[l][i] = nodes[l][i]
  BY PutEffect
<1> QED
  BY <1>1, <1>2, <1>3, <1>4, Zenon DEF NodeAt

\* The parents of the run from s to e are the run from s \div 2 to e \div 2.
LEMMA ParentRun ==
  ASSUME NEW s \in Nat, NEW r \in Nat, r > 0,
         NEW p, p = (s % 2) + (r - (s % 2) + 1) \div 2
  PROVE  /\ p \in Nat
         /\ 0 < p /\ p <= r /\ p <= r \div 2 + 1
         /\ (s \div 2) + p - 1 = (s + r - 1) \div 2
OBVIOUS

-----------------------------------------------------------------------------
(* Shape. *)

\* The run of the current level starts where the batch does and ends where it
\* ends, both shifted to the level; it fits the buffers.
RunShape ==
  status = "Hashing" =>
    /\ level \in InnerLevels
    /\ Len(leaves) > 0
    /\ base + Len(leaves) = numLeaves
    /\ start = Shr(base, level)
    /\ runLen > 0
    /\ start + runLen - 1 = Shr(numLeaves - 1, level)
    /\ level = 0 => runLen = Len(leaves)
    /\ level > 0 => runLen <= Len(leaves) \div 2 + 1
    /\ \A b \in 1..2 : Len(leaves) \div 2 + 1 <= Len(scratch[b])

\* No level reaches past the last leaf.
StoreShape ==
  \A l \in Levels : \A i \in DOMAIN nodes[l] :
    i \in Nat /\ 0 < numLeaves /\ i <= Shr(numLeaves - 1, l)

\* The part that does not depend on where the store ends.
Framed == TypeOK /\ RunShape /\ base <= numLeaves

Shape == Framed /\ StoreShape

\* Inside a call the next level is a level, and its run is shaped alike.
LEMMA NextRun ==
  ASSUME Framed, status = "Hashing"
  PROVE  /\ level \in InnerLevels /\ level + 1 \in Levels
         /\ start \in Nat /\ runLen \in Nat /\ start \div 2 \in Nat
         /\ NumParents \in Nat
         /\ 0 < NumParents /\ NumParents <= runLen
         /\ NumParents <= Len(leaves) \div 2 + 1
         /\ start \div 2 = Shr(base, level + 1)
         /\ (start \div 2) + NumParents - 1 = Shr(numLeaves - 1, level + 1)
         /\ Len(leaves) \in Nat /\ Len(leaves) > 0
         /\ base \in Nat /\ numLeaves \in Nat /\ 0 < numLeaves
<1>1. /\ level \in InnerLevels /\ level + 1 \in Levels
      /\ start \in Nat /\ runLen \in Nat
      /\ base \in Nat /\ numLeaves \in Nat
      /\ Len(leaves) \in Nat /\ Len(leaves) > 0
      /\ 0 < numLeaves
  BY BatchType, CapacityType, DepthAssumption
     DEF Framed, TypeOK, RunShape, InnerLevels, Levels
<1>2. NumParents = (start % 2) + (runLen - (start % 2) + 1) \div 2
  BY DEF NumParents, HeadLen
<1>3. /\ NumParents \in Nat
      /\ 0 < NumParents /\ NumParents <= runLen /\ NumParents <= runLen \div 2 + 1
      /\ (start \div 2) + NumParents - 1 = (start + runLen - 1) \div 2
  BY <1>1, <1>2, ParentRun DEF Framed, RunShape
<1>4. start \div 2 = Shr(base, level + 1)
  BY <1>1, ShrRec DEF Framed, RunShape, InnerLevels
<1>5. (start + runLen - 1) \div 2 = Shr(numLeaves - 1, level + 1)
  BY <1>1, ShrRec DEF Framed, RunShape, InnerLevels
<1>6. NumParents <= Len(leaves) \div 2 + 1
  <2>1. /\ level = 0 => runLen = Len(leaves)
        /\ level > 0 => runLen <= Len(leaves) \div 2 + 1
    BY DEF Framed, RunShape
  <2>2. level \in Nat
    BY <1>1, DepthAssumption DEF InnerLevels
  <2>3. CASE level = 0
    BY <1>3, <2>1, <2>3
  <2>4. CASE level > 0
    <3>1. Len(leaves) \div 2 + 1 \in Nat
      BY <1>1
    <3> QED
      BY <1>1, <1>3, <2>1, <2>4, <3>1
  <2> QED
    BY <2>2, <2>3, <2>4
<1> QED
  BY <1>1, <1>3, <1>4, <1>5, <1>6

\* The buffers after growing are sequences of at least the requested size.
LEMMA GrowType ==
  ASSUME NEW buf, NEW m \in Nat, DOMAIN buf = 1..m, NEW size \in Nat
  PROVE  /\ Len(Grow(buf, size)) \in Nat
         /\ DOMAIN Grow(buf, size) = 1..Len(Grow(buf, size))
         /\ size <= Len(Grow(buf, size))
<1>1. Len(buf) = m
  OBVIOUS
<1>2. Larger(Len(buf), size) \in Nat /\ size <= Larger(Len(buf), size)
  BY <1>1 DEF Larger
<1>3. Len(Grow(buf, size)) = Larger(Len(buf), size)
  BY <1>2 DEF Grow
<1> QED
  BY <1>2, <1>3 DEF Grow

\* The parents replace the front of the second buffer, which keeps its length.
LEMMA WrittenType ==
  ASSUME Framed, status = "Hashing"
  PROVE  /\ DOMAIN Written = 1..Len(scratch[2])
         /\ Len(Written) = Len(scratch[2])
         /\ \A j \in 1..NumParents : Written[j] = Parents[j]
         /\ DOMAIN Parents = 1..NumParents
<1>1. /\ Len(scratch[2]) \in Nat
      /\ DOMAIN scratch[2] = 1..Len(scratch[2])
      /\ NumParents \in Nat /\ NumParents <= Len(scratch[2])
  <2>1. DOMAIN scratch[2] = 1..Len(scratch[2]) /\ Len(scratch[2]) \in Nat
    BY DEF Framed, TypeOK
  <2>2. Len(leaves) \div 2 + 1 <= Len(scratch[2])
    BY DEF Framed, RunShape
  <2> QED
    BY <2>1, <2>2, NextRun
<1>2. DOMAIN Parents = 1..NumParents
  BY DEF Parents
<1> DEFINE rest == SubSeq(scratch[2], NumParents + 1, Len(scratch[2]))
<1>3. DOMAIN rest = 1..(Len(scratch[2]) - NumParents)
  BY <1>1
<1> HIDE DEF rest
<1>4. /\ DOMAIN (Parents \o rest) = 1..Len(scratch[2])
      /\ \A j \in 1..NumParents : (Parents \o rest)[j] = Parents[j]
  BY <1>1, <1>2, <1>3
<1> QED
  BY <1>1, <1>2, <1>4 DEF Written, rest

\* A tree as `new` returns it over an empty store has the shape.
THEOREM ShapeInit == Init => Shape
<1> SUFFICES ASSUME Init PROVE Shape
  OBVIOUS
<1>1. TypeOK
  <2>1. leaves \in Batches
    <3>1. leaves \in [1..0 -> Leaf] /\ 0 \in 0..MaxBatch
      BY TreeAssumption DEF Init
    <3> QED
      BY <3>1 DEF Batches
  <2>2. \A b \in 1..2 : DOMAIN scratch[b] = 1..Len(scratch[b])
    BY DEF Init
  <2>3. level \in Levels
    BY DepthAssumption DEF Init, Levels
  <2> QED
    BY <2>1, <2>2, <2>3, CapacityType DEF Init, TypeOK, InnerLevels
<1>2. RunShape /\ StoreShape /\ base <= numLeaves
  BY DEF Init, RunShape, StoreShape
<1> QED
  BY <1>1, <1>2 DEF Shape, Framed

\* Steps that end outside a call and leave the leaves and, at most writing
\* over some of them, the positions of the nodes as they are.
LEMMA FramedIdle ==
  ASSUME Framed, UNCHANGED <<numLeaves, partners, runLen>>,
         DOMAIN nodes' = Levels, \A l \in Levels : DOMAIN nodes'[l] = DOMAIN nodes[l],
         DOMAIN scratch' = 1..2,
         \A b \in 1..2 : DOMAIN scratch'[b] = 1..Len(scratch'[b]),
         level' \in Levels, start' \in 0..(Capacity - 1), hashes' \in Nat,
         leaves' \in Batches, base' \in 0..numLeaves,
         status' \in {"Ok", "TreeFull", "StoreError"}
  PROVE  Framed'
<1>1. base' \in 0..Capacity /\ base' <= numLeaves'
  BY CapacityType DEF Framed, TypeOK
<1>2. \A l \in Levels : DOMAIN nodes'[l] \subseteq 0..(Capacity - 1)
  BY DEF Framed, TypeOK
<1>3. TypeOK'
  BY <1>1, <1>2 DEF Framed, TypeOK
<1>4. RunShape'
  BY DEF RunShape
<1> QED
  BY <1>1, <1>3, <1>4 DEF Framed

\* Entering add_leaves and writing the leaves frames a run of the batch.
LEMMA FramedAddStart ==
  ASSUME Framed, NEW batch \in Batches, AddStart(batch)
  PROVE  Framed'
<1> DEFINE n == Len(batch)
<1>1. /\ n \in Nat /\ n > 0 /\ DOMAIN batch = 1..n
      /\ numLeaves \in Nat /\ numLeaves + n <= Capacity
      /\ Capacity \in Nat /\ 0 \in Levels /\ DOMAIN nodes = Levels
  BY BatchType, CapacityType, DepthAssumption
     DEF AddStart, Fits, Framed, TypeOK, Levels
<1>2. /\ DOMAIN nodes' = Levels
      /\ \A k \in Levels \ {0} : nodes'[k] = nodes[k]
      /\ DOMAIN nodes'[0] = DOMAIN nodes[0] \cup numLeaves..(numLeaves + n - 1)
      /\ numLeaves' = Larger(numLeaves, numLeaves + n)
  <2>1. Put(0, numLeaves, batch)
    BY DEF AddStart
  <2> HIDE DEF n
  <2> QED
    BY <1>1, <2>1, PutEffect
<1>3. numLeaves' = numLeaves + n
  BY <1>1, <1>2 DEF Larger
<1>4. \A b \in 1..2 :
        /\ DOMAIN scratch'[b] = 1..Len(scratch'[b])
        /\ n \div 2 + 1 <= Len(scratch'[b])
  <2> SUFFICES ASSUME NEW b \in 1..2
               PROVE  /\ DOMAIN scratch'[b] = 1..Len(scratch'[b])
                      /\ n \div 2 + 1 <= Len(scratch'[b])
    OBVIOUS
  <2>1. scratch'[b] = Grow(scratch[b], n \div 2 + 1)
    BY DEF AddStart, BufferSize
  <2>2. Len(scratch[b]) \in Nat /\ DOMAIN scratch[b] = 1..Len(scratch[b])
    BY DEF Framed, TypeOK
  <2>3. n \div 2 + 1 \in Nat
    BY <1>1
  <2> HIDE DEF n
  <2> QED
    BY <2>1, <2>2, <2>3, GrowType
<1>5. RunShape'
  <2>1. Shr(base', 0) = base' /\ Shr(numLeaves' - 1, 0) = numLeaves' - 1
    BY <1>1, <1>3, ShrRec DEF AddStart
  <2> QED
    BY <1>1, <1>3, <1>4, <2>1, DepthAssumption
       DEF AddStart, RunShape, InnerLevels
<1>6. TypeOK'
  <2>1. \A l \in Levels : DOMAIN nodes'[l] \subseteq 0..(Capacity - 1)
    BY <1>1, <1>2 DEF Framed, TypeOK
  <2>2. DOMAIN scratch' = 1..2 /\ DOMAIN partners' = InnerLevels
    BY DEF AddStart, LeftPartners, InnerLevels
  <2> QED
    BY <1>1, <1>2, <1>3, <1>4, <2>1, <2>2 DEF AddStart, TypeOK
<1> QED
  BY <1>1, <1>3, <1>5, <1>6 DEF Framed, AddStart

\* An iteration of the loop frames the run of the next level.
LEMMA FramedHashLevel ==
  ASSUME Framed, HashLevel
  PROVE  Framed'
<1>1. /\ level \in InnerLevels /\ level + 1 \in Levels /\ level + 1 # 0
      /\ start \in Nat /\ start \div 2 \in Nat /\ NumParents \in Nat
      /\ 0 < NumParents /\ NumParents <= runLen
      /\ NumParents <= Len(leaves) \div 2 + 1
      /\ start \div 2 = Shr(base, level + 1)
      /\ (start \div 2) + NumParents - 1 = Shr(numLeaves - 1, level + 1)
      /\ numLeaves \in Nat /\ 0 < numLeaves /\ base \in Nat
  <2>1. status = "Hashing"
    BY DEF HashLevel
  <2> QED
    BY <2>1, NextRun, DepthAssumption DEF InnerLevels
<1>2. /\ DOMAIN Written = 1..Len(scratch[2])
      /\ Len(Written) = Len(scratch[2])
      /\ DOMAIN Parents = 1..NumParents
  BY WrittenType DEF HashLevel
<1>3. /\ DOMAIN nodes' = Levels
      /\ \A k \in Levels \ {level + 1} : nodes'[k] = nodes[k]
      /\ DOMAIN nodes'[level + 1] = DOMAIN nodes[level + 1] \cup
                       (start \div 2)..((start \div 2) + NumParents - 1)
      /\ numLeaves' = numLeaves
  <2>1. Put(level + 1, start \div 2, Parents) /\ DOMAIN nodes = Levels
    BY DEF HashLevel, Framed, TypeOK
  <2> QED
    BY <1>1, <1>2, <2>1, PutEffect
<1>4. /\ leaves' = leaves /\ base' = base /\ partners' = partners
      /\ level' = level + 1 /\ start' = start \div 2 /\ runLen' = NumParents
      /\ hashes' = hashes + NumParents
      /\ scratch' = <<Written, scratch[1]>>
      /\ status' = IF level + 1 = DEPTH THEN "Ok" ELSE "Hashing"
  BY DEF HashLevel
<1>5. \A b \in 1..2 :
        /\ DOMAIN scratch'[b] = 1..Len(scratch'[b])
        /\ Len(leaves) \div 2 + 1 <= Len(scratch'[b])
  <2>1. /\ Len(leaves) \div 2 + 1 <= Len(scratch[1])
        /\ Len(leaves) \div 2 + 1 <= Len(scratch[2])
        /\ DOMAIN scratch[1] = 1..Len(scratch[1])
    BY DEF Framed, TypeOK, RunShape, HashLevel
  <2>2. scratch'[1] = Written /\ scratch'[2] = scratch[1]
    BY <1>4
  <2>3. \A b \in 1..2 : b = 1 \/ b = 2
    OBVIOUS
  <2> QED
    BY <1>2, <2>1, <2>2, <2>3
<1>6. RunShape'
  <2>1. level + 1 # DEPTH => level + 1 \in InnerLevels
    BY <1>1, DepthAssumption DEF InnerLevels
  <2>2. Len(leaves) > 0 /\ base + Len(leaves) = numLeaves
    BY DEF Framed, RunShape, HashLevel
  <2> QED
    BY <1>1, <1>3, <1>4, <1>5, <2>1, <2>2 DEF RunShape
<1>7. TypeOK'
  <2>1. \A l \in Levels : DOMAIN nodes'[l] \subseteq 0..(Capacity - 1)
    <3> SUFFICES ASSUME NEW l \in Levels, NEW i \in DOMAIN nodes'[l]
                 PROVE  i \in 0..(Capacity - 1)
      OBVIOUS
    <3>1. CASE i \in DOMAIN nodes[l]
      BY <3>1 DEF Framed, TypeOK
    <3>2. CASE i \notin DOMAIN nodes[l]
      <4>1. i \in (start \div 2)..((start \div 2) + NumParents - 1)
        BY <1>3, <3>2
      <4>2. numLeaves \in Nat /\ numLeaves - 1 \in Nat /\ numLeaves <= Capacity
        BY <1>1 DEF Framed, TypeOK
      <4>3. /\ Shr(numLeaves - 1, level + 1) \in Nat
            /\ Shr(numLeaves - 1, level + 1) <= numLeaves - 1
        BY <1>1, <4>2, ShrType
      <4> QED
        BY <1>1, <4>1, <4>2, <4>3, CapacityType
    <3> QED
      BY <3>1, <3>2
  <2>2. DOMAIN scratch' = 1..2
    BY <1>4
  <2>3. /\ start \div 2 \in 0..(Capacity - 1) /\ NumParents \in 0..Capacity
        /\ hashes + NumParents \in Nat
    BY <1>1, CapacityType DEF Framed, TypeOK
  <2>4. /\ numLeaves \in 0..Capacity /\ leaves \in Batches
        /\ base \in 0..Capacity /\ DOMAIN partners = InnerLevels
    BY DEF Framed, TypeOK
  <2> QED
    BY <1>1, <1>3, <1>4, <1>5, <2>1, <2>2, <2>3, <2>4 DEF TypeOK
<1> QED
  BY <1>3, <1>4, <1>6, <1>7 DEF Framed

\* An iteration whose put fails, in part at most, frames no run.
LEMMA FramedLevelFails ==
  ASSUME Framed, LevelFails, numLeaves' = numLeaves,
         DOMAIN nodes' = Levels, \A l \in Levels : DOMAIN nodes'[l] = DOMAIN nodes[l]
  PROVE  Framed'
<1>1. /\ start \in Nat /\ NumParents \in Nat
      /\ DOMAIN Written = 1..Len(Written)
      /\ DOMAIN scratch[1] = 1..Len(scratch[1])
  BY NextRun, WrittenType DEF LevelFails, Framed, TypeOK
<1>2. /\ scratch' = <<scratch[1], Written>> /\ start' = start \div 2
      /\ hashes' = hashes + NumParents /\ status' = "StoreError"
      /\ UNCHANGED <<leaves, base, partners, level, runLen>>
  BY DEF LevelFails
<1>3. /\ DOMAIN scratch' = 1..2
      /\ \A b \in 1..2 : DOMAIN scratch'[b] = 1..Len(scratch'[b])
  <2>1. scratch'[1] = scratch[1] /\ scratch'[2] = Written /\ DOMAIN scratch' = 1..2
    BY <1>2
  <2>2. \A b \in 1..2 : b = 1 \/ b = 2
    OBVIOUS
  <2> QED
    BY <1>1, <2>1, <2>2
<1>4. /\ start' \in 0..(Capacity - 1) /\ hashes' \in Nat /\ base' \in 0..numLeaves
      /\ level' \in Levels /\ leaves' \in Batches
  <2>1. /\ start \in 0..(Capacity - 1) /\ hashes \in Nat /\ base \in 0..Capacity
        /\ base <= numLeaves /\ numLeaves \in 0..Capacity
        /\ level \in Levels /\ leaves \in Batches
    BY DEF Framed, TypeOK
  <2>2. start \div 2 \in 0..(Capacity - 1)
    BY <2>1, CapacityType
  <2> QED
    BY <1>1, <1>2, <2>1, <2>2, CapacityType
<1> QED
  BY <1>2, <1>3, <1>4, FramedIdle

\* The call that returns an error on entry frames no run either.
LEMMA FramedEntryFails ==
  ASSUME Framed, NEW batch \in Batches, EntryFails(batch), numLeaves' = numLeaves,
         DOMAIN nodes' = Levels, \A l \in Levels : DOMAIN nodes'[l] = DOMAIN nodes[l]
  PROVE  Framed'
<1>1. /\ start \in 0..(Capacity - 1) /\ hashes \in Nat /\ leaves \in Batches
      /\ 0 \in Levels /\ numLeaves \in 0..numLeaves /\ DOMAIN scratch = 1..2
      /\ \A b \in 1..2 : DOMAIN scratch[b] = 1..Len(scratch[b])
  BY CapacityType, DepthAssumption DEF Framed, TypeOK, Levels
<1> QED
  BY <1>1, FramedIdle DEF EntryFails

\* Every step of the tree, failed store calls included, keeps it framed.
LEMMA FramedStep == Framed /\ [Next]_vars => Framed'
<1> SUFFICES ASSUME Framed, [Next]_vars PROVE Framed'
  OBVIOUS
<1>1. /\ level \in Levels /\ start \in 0..(Capacity - 1) /\ hashes \in Nat
      /\ leaves \in Batches /\ base \in 0..numLeaves /\ 0 \in Levels
      /\ numLeaves \in 0..numLeaves /\ DOMAIN scratch = 1..2
      /\ \A b \in 1..2 : DOMAIN scratch[b] = 1..Len(scratch[b])
      /\ DOMAIN nodes = Levels
  BY CapacityType, DepthAssumption DEF Framed, TypeOK, Levels
<1>2. CASE AddNothing
  <2>1. <<>> \in [1..0 -> Leaf] /\ 0 \in 0..MaxBatch
    BY TreeAssumption
  <2>2. <<>> \in Batches
    BY <2>1 DEF Batches
  <2> QED
    BY <1>1, <1>2, <2>2, FramedIdle DEF AddNothing, store
<1>3. ASSUME NEW batch \in Batches, AddTreeFull(batch) PROVE Framed'
  BY <1>1, <1>3, FramedIdle DEF AddTreeFull, locals, store
<1>4. ASSUME NEW batch \in Batches, AddStart(batch) PROVE Framed'
  BY <1>4, FramedAddStart
<1>5. ASSUME NEW batch \in Batches, AddStartFails(batch) PROVE Framed'
  BY <1>1, <1>5, FramedEntryFails DEF AddStartFails, store
<1>6. CASE HashLevel
  BY <1>6, FramedHashLevel
<1>7. CASE HashLevelFails
  BY <1>1, <1>7, FramedLevelFails DEF HashLevelFails, store
<1>8. CASE UNCHANGED vars
  BY <1>8 DEF vars, store, locals, Framed, TypeOK, RunShape
<1> QED
  BY <1>2, <1>3, <1>4, <1>5, <1>6, <1>7, <1>8 DEF Next, AddLeaves

\* A tree opened on a store whose nodes and count are in range is framed.
LEMMA FramedNew ==
  ASSUME NewTree, numLeaves' \in 0..Capacity, DOMAIN nodes' = Levels,
         \A l \in Levels : DOMAIN nodes'[l] \subseteq 0..(Capacity - 1)
  PROVE  Framed'
<1>1. leaves' \in Batches
  <2>1. leaves' \in [1..0 -> Leaf] /\ 0 \in 0..MaxBatch
    BY TreeAssumption DEF NewTree
  <2> QED
    BY <2>1 DEF Batches
<1>2. /\ level' \in Levels /\ start' \in 0..(Capacity - 1) /\ base' \in 0..numLeaves'
      /\ base' \in 0..Capacity /\ runLen' \in 0..Capacity
  BY CapacityType, DepthAssumption DEF NewTree, Levels
<1>3. \A b \in 1..2 : DOMAIN scratch'[b] = 1..Len(scratch'[b])
  BY DEF NewTree
<1>4. TypeOK'
  BY <1>1, <1>2, <1>3 DEF TypeOK, NewTree, InnerLevels
<1> QED
  BY <1>2, <1>4 DEF Framed, RunShape, NewTree

\* Nor does any step store a node past the last leaf.
LEMMA StoreShapeStep == Shape /\ [Next]_vars => StoreShape'
<1> SUFFICES ASSUME Shape, [Next]_vars PROVE StoreShape'
  OBVIOUS
<1>1. ASSUME NEW batch \in Batches, AddStart(batch) PROVE StoreShape'
  <2> DEFINE n == Len(batch)
  <2>1. /\ n \in Nat /\ n > 0 /\ DOMAIN batch = 1..n
        /\ numLeaves \in Nat /\ 0 \in Levels /\ DOMAIN nodes = Levels
    BY <1>1, BatchType, DepthAssumption DEF AddStart, Shape, Framed, TypeOK, Levels
  <2>2. /\ DOMAIN nodes' = Levels
        /\ \A k \in Levels \ {0} : nodes'[k] = nodes[k]
        /\ DOMAIN nodes'[0] = DOMAIN nodes[0] \cup numLeaves..(numLeaves + n - 1)
        /\ numLeaves' = Larger(numLeaves, numLeaves + n)
    <3>1. Put(0, numLeaves, batch)
      BY <1>1 DEF AddStart
    <3> HIDE DEF n
    <3> QED
      BY <2>1, <3>1, PutEffect
  <2>3. numLeaves' = numLeaves + n
    BY <2>1, <2>2 DEF Larger
  <2> SUFFICES ASSUME NEW l \in Levels, NEW i \in DOMAIN nodes'[l]
               PROVE  /\ i \in Nat /\ 0 < numLeaves'
                      /\ i <= Shr(numLeaves' - 1, l)
    BY DEF StoreShape
  <2>4. CASE i \in DOMAIN nodes[l]
    <3>1. i \in Nat /\ 0 < numLeaves /\ i <= Shr(numLeaves - 1, l)
      BY <2>4 DEF Shape, StoreShape
    <3>2. /\ Shr(numLeaves - 1, l) <= Shr(numLeaves' - 1, l)
          /\ Shr(numLeaves - 1, l) \in Nat
          /\ Shr(numLeaves' - 1, l) \in Nat
      <4>1. numLeaves - 1 \in Nat /\ numLeaves' - 1 \in Nat
            /\ numLeaves - 1 <= numLeaves' - 1
        BY <2>1, <2>3, <3>1
      <4> QED
        BY <4>1, ShrMonotone, ShrType
    <3> QED
      BY <2>1, <2>3, <3>1, <3>2
  <2>5. CASE i \notin DOMAIN nodes[l]
    <3>1. l = 0 /\ i \in numLeaves..(numLeaves + n - 1)
      BY <2>2, <2>5
    <3>2. Shr(numLeaves' - 1, 0) = numLeaves' - 1
      BY <2>1, <2>3, ShrRec
    <3> QED
      BY <2>1, <2>3, <3>1, <3>2
  <2> QED
    BY <2>4, <2>5
<1>2. ASSUME HashLevel PROVE StoreShape'
  <2>1. /\ level + 1 \in Levels /\ start \div 2 \in Nat /\ NumParents \in Nat
        /\ (start \div 2) + NumParents - 1 = Shr(numLeaves - 1, level + 1)
        /\ numLeaves \in Nat /\ 0 < numLeaves /\ DOMAIN Parents = 1..NumParents
        /\ level + 1 # 0
    BY <1>2, NextRun, WrittenType, DepthAssumption DEF HashLevel, Shape, InnerLevels
  <2>2. /\ \A k \in Levels \ {level + 1} : nodes'[k] = nodes[k]
        /\ DOMAIN nodes'[level + 1] = DOMAIN nodes[level + 1] \cup
                         (start \div 2)..((start \div 2) + NumParents - 1)
        /\ numLeaves' = numLeaves
    <3>1. Put(level + 1, start \div 2, Parents) /\ DOMAIN nodes = Levels
      BY <1>2 DEF HashLevel, Shape, Framed, TypeOK
    <3> QED
      BY <2>1, <3>1, PutEffect
  <2> SUFFICES ASSUME NEW l \in Levels, NEW i \in DOMAIN nodes'[l]
               PROVE  i \in Nat /\ i <= Shr(numLeaves - 1, l)
    BY <2>1, <2>2 DEF StoreShape
  <2>3. CASE i \in DOMAIN nodes[l]
    BY <2>3 DEF Shape, StoreShape
  <2>4. CASE i \notin DOMAIN nodes[l]
    <3>1. /\ l = level + 1
          /\ i \in (start \div 2)..((start \div 2) + NumParents - 1)
      BY <2>2, <2>4
    <3> QED
      BY <2>1, <3>1
  <2> QED
    BY <2>3, <2>4
<1>3. CASE UNCHANGED store
  BY <1>3 DEF store, Shape, StoreShape
<1> QED
  BY <1>1, <1>2, <1>3
     DEF Next, AddNothing, AddLeaves, AddTreeFull, AddStartFails, HashLevelFails, vars

\* Every step of the tree, failed store calls included, preserves the shape.
THEOREM ShapeStep == Shape /\ [Next]_vars => Shape'
BY FramedStep, StoreShapeStep DEF Shape

\* The shape -- where the run is, which indices each level holds and how far
\* the counts reach -- is an invariant of every execution.
THEOREM ShapeInvariant == Spec => []Shape
BY ShapeInit, ShapeStep, PTL DEF Spec

\* Types and ranges hold in every execution, store errors included.
THEOREM TypeCorrect == Spec => []TypeOK
<1>1. Shape => TypeOK
  BY DEF Shape, Framed
<1> QED
  BY <1>1, ShapeInvariant, PTL

\* add_leaves never slices a scratch buffer past its end, whatever the depth,
\* the batch and the position it is appended at.
THEOREM SlicesAlwaysInBounds == Spec => []SlicesInBounds
<1>1. Shape => SlicesInBounds
  <2> SUFFICES ASSUME Shape, status = "Hashing"
               PROVE  /\ NumParents <= Len(scratch[2])
                      /\ level > 0 => runLen <= Len(scratch[1])
    BY DEF SlicesInBounds
  <2>1. /\ Len(leaves) \div 2 + 1 <= Len(scratch[1])
        /\ Len(leaves) \div 2 + 1 <= Len(scratch[2])
        /\ level > 0 => runLen <= Len(leaves) \div 2 + 1
        /\ runLen \in Nat /\ Len(scratch[1]) \in Nat /\ Len(scratch[2]) \in Nat
    BY DEF Shape, Framed, TypeOK, RunShape
  <2>2. /\ NumParents \in Nat /\ NumParents <= Len(leaves) \div 2 + 1
        /\ Len(leaves) \div 2 + 1 \in Nat
    BY NextRun DEF Shape
  <2> QED
    BY <2>1, <2>2
<1> QED
  BY <1>1, ShapeInvariant, PTL

\* No node is ever stored over padding only.
THEOREM NeverPhantomNodes == Spec => []NoPhantomNodes
<1>1. Shape => NoPhantomNodes
  <2> SUFFICES ASSUME Shape, NEW l \in Levels, NEW i \in DOMAIN nodes[l]
               PROVE  i * Pow2[l] < numLeaves
    BY DEF NoPhantomNodes
  <2>1. /\ i \in Nat /\ 0 < numLeaves /\ i <= (numLeaves - 1) \div Pow2[l]
        /\ numLeaves - 1 \in Nat
    BY CapacityType DEF Shape, Framed, TypeOK, StoreShape, Shr
  <2>2. ASSUME NEW n \in Nat, NEW p \in Nat, p > 0, i <= n \div p
        PROVE  i * p <= n
    BY <2>1, <2>2, Z3
  <2>3. Pow2[l] \in Nat /\ Pow2[l] > 0
    BY Pow2Type
  <2>4. i * Pow2[l] <= numLeaves - 1
    BY <2>1, <2>2, <2>3
  <2>5. i * Pow2[l] \in Nat /\ numLeaves \in Nat
    BY <2>1, <2>3, CapacityType, Z3 DEF Shape, Framed, TypeOK
  <2> QED
    BY <2>4, <2>5
<1> QED
  BY <1>1, ShapeInvariant, PTL

-----------------------------------------------------------------------------
(* Content. *)

\* The run in memory is the run in the store.
RunStored ==
  status = "Hashing" =>
    \A i \in start..(start + runLen - 1) : NodeAt(level, i) = Run[i - start + 1]

\* The partners the call has not used yet are what the store holds.
PartnersRead ==
  status = "Hashing" =>
    \A l \in level..(DEPTH - 1) :
      IsOdd(Shr(base, l)) => partners[l] = NodeAt(l, Shr(base, l) - 1)

\* The levels this call has rewritten agree with those below them, provided
\* that the part it does not rewrite did.
LevelsAgree ==
  SoundLeftOf(base) =>
    \A l \in 0..(level - 1) : \A i \in Nat : ParentAgrees(l, i)

\* A call returns Ok at the top of the tree and fails below it.
Finished ==
  /\ status = "Ok" /\ leaves # <<>> => level = DEPTH
  /\ status = "StoreError" => level \in InnerLevels

Content == RunStored /\ PartnersRead /\ LevelsAgree /\ Finished

\* The run, its partner and its padding are entries of `at`.
RunOf(at) ==
  /\ \A k \in 1..runLen : Run[k] = at[start + k - 1]
  /\ IsOdd(start) => partners[level] = at[start - 1]
  /\ at[start + runLen] = Zeros[level]

\* Then what add_leaves hashes is, for every parent of the run, the two
\* entries below it.
LEMMA ParentsHash ==
  ASSUME Framed, status = "Hashing", NEW at, RunOf(at),
         NEW i \in (start \div 2)..((start \div 2) + NumParents - 1)
  PROVE  Parents[i - (start \div 2) + 1] = Hash(at[2 * i], at[2 * i + 1])
<1> DEFINE j == i - (start \div 2) + 1
           left == 2 * j - 1 - HeadLen
<1>1. /\ start \in Nat /\ runLen \in Nat /\ NumParents \in Nat /\ level \in InnerLevels
      /\ start \div 2 \in Nat /\ i \in Nat /\ runLen > 0 /\ NumParents > 0
      /\ HeadLen \in 0..1 /\ start = 2 * (start \div 2) + HeadLen
      /\ NumParents = HeadLen + (runLen - HeadLen + 1) \div 2
  <2>1. NumParents = HeadLen + (runLen - HeadLen + 1) \div 2
    BY DEF NumParents
  <2>2. start \in Nat => HeadLen \in 0..1 /\ start = 2 * (start \div 2) + HeadLen
    BY DEF HeadLen
  <2>3. runLen > 0
    BY DEF Framed, RunShape
  <2> QED
    BY <2>1, <2>2, <2>3, NextRun
<1>2. /\ j \in 1..NumParents
      /\ left \in 0..runLen
      /\ 2 * i = start + left - 1
      /\ left = 0 => HeadLen = 1
  BY <1>1
<1> HIDE DEF j, left
<1>3. Parents[j] = IF left = 0 THEN Hash(partners[level], Run[1])
                   ELSE IF left = runLen THEN Hash(Run[left], Zeros[level])
                   ELSE Hash(Run[left], Run[left + 1])
  BY <1>2 DEF Parents, Padding, left
<1>4. \A k \in 1..runLen : Run[k] = at[start + k - 1]
  BY DEF RunOf
<1>5. CASE left = 0
  <2>1. partners[level] = at[start - 1]
    BY <1>1, <1>2, <1>5 DEF RunOf, IsOdd, HeadLen
  <2>2. Run[1] = at[start]
    <3>1. 1 \in 1..runLen /\ start + 1 - 1 = start
      BY <1>1
    <3> QED
      BY <1>4, <3>1
  <2>3. 2 * i = start - 1 /\ 2 * i + 1 = start
    BY <1>1, <1>2, <1>5
  <2> QED
    BY <1>3, <1>5, <2>1, <2>2, <2>3 DEF j
<1>6. CASE left # 0 /\ left = runLen
  <2>1. Run[left] = at[2 * i]
    BY <1>1, <1>2, <1>4, <1>6
  <2>2. 2 * i + 1 = start + runLen
    BY <1>1, <1>2, <1>6
  <2>3. at[2 * i + 1] = Zeros[level]
    BY <2>2 DEF RunOf
  <2> QED
    BY <1>3, <1>6, <2>1, <2>3 DEF j
<1>7. CASE left # 0 /\ left # runLen
  <2>1. left \in 1..runLen /\ left + 1 \in 1..runLen
    BY <1>1, <1>2, <1>7
  <2>2. Run[left] = at[2 * i] /\ Run[left + 1] = at[2 * i + 1]
    <3>1. start + left - 1 = 2 * i /\ start + (left + 1) - 1 = 2 * i + 1
      BY <1>1, <1>2, <2>1
    <3> QED
      BY <1>4, <2>1, <3>1
  <2> QED
    BY <1>3, <1>7, <2>2 DEF j
<1> QED
  BY <1>5, <1>6, <1>7

\* The run and its partner are what the store holds.
LEMMA RunRead ==
  ASSUME Framed, RunStored, PartnersRead, status = "Hashing"
  PROVE  /\ \A k \in 1..runLen : Run[k] = NodeAt(level, start + k - 1)
         /\ IsOdd(start) => partners[level] = NodeAt(level, start - 1)
<1>1. ASSUME NEW k \in 1..runLen PROVE Run[k] = NodeAt(level, start + k - 1)
  <2>1. start \in Nat /\ runLen \in Nat
    BY NextRun
  <2>2. /\ start + k - 1 \in start..(start + runLen - 1)
        /\ (start + k - 1) - start + 1 = k
    BY <2>1
  <2> QED
    BY <2>2 DEF RunStored
<1>2. ASSUME IsOdd(start) PROVE partners[level] = NodeAt(level, start - 1)
  <2>1. start = Shr(base, level) /\ level \in level..(DEPTH - 1)
    BY NextRun, DepthAssumption DEF Framed, RunShape, InnerLevels
  <2> QED
    BY <1>2, <2>1 DEF PartnersRead
<1> QED
  BY <1>1, <1>2

\* So every parent is the hash of its two children as the store holds them:
\* the partner, the run, or the zero past the last leaf.
LEMMA ParentValue ==
  ASSUME Shape, RunStored, PartnersRead, status = "Hashing",
         NEW i \in (start \div 2)..((start \div 2) + NumParents - 1)
  PROVE  Parents[i - (start \div 2) + 1] =
           Hash(NodeAt(level, 2 * i), NodeAt(level, 2 * i + 1))
<1>1. /\ start \in Nat /\ runLen \in Nat /\ level \in Levels /\ start \div 2 \in Nat
      /\ NumParents \in Nat /\ numLeaves - 1 \in Nat
      /\ start + runLen - 1 = Shr(numLeaves - 1, level)
  <2>1. /\ start \in Nat /\ runLen \in Nat /\ level \in InnerLevels
        /\ start \div 2 \in Nat /\ NumParents \in Nat
        /\ numLeaves \in Nat /\ 0 < numLeaves
    BY NextRun DEF Shape
  <2>2. start + runLen - 1 = Shr(numLeaves - 1, level)
    BY DEF Shape, Framed, RunShape
  <2> QED
    BY <2>1, <2>2, DepthAssumption DEF InnerLevels, Levels
<1> DEFINE at == [k \in Nat |-> NodeAt(level, k)]
<1>2. NodeAt(level, start + runLen) = Zeros[level]
  <2>1. Shr(numLeaves - 1, level) \in Nat
    BY <1>1, ShrType
  <2>2. ~(start + runLen <= Shr(numLeaves - 1, level))
    BY <1>1, <2>1
  <2>3. start + runLen \notin DOMAIN nodes[level]
    BY <1>1, <2>2 DEF Shape, StoreShape
  <2> QED
    BY <2>3 DEF NodeAt
<1>3. \A k \in Nat : at[k] = NodeAt(level, k)
  OBVIOUS
<1> HIDE DEF at
<1>4. RunOf(at)
  <2>1. /\ \A k \in 1..runLen : Run[k] = NodeAt(level, start + k - 1)
        /\ IsOdd(start) => partners[level] = NodeAt(level, start - 1)
    BY RunRead DEF Shape
  <2>2. /\ \A k \in 1..runLen : start + k - 1 \in Nat
        /\ IsOdd(start) => start - 1 \in Nat
        /\ start + runLen \in Nat
    BY <1>1 DEF IsOdd
  <2> QED
    BY <1>2, <1>3, <2>1, <2>2 DEF RunOf
<1>5. Parents[i - (start \div 2) + 1] = Hash(at[2 * i], at[2 * i + 1])
  BY <1>4, ParentsHash DEF Shape
<1>6. 2 * i \in Nat /\ 2 * i + 1 \in Nat
  BY <1>1
<1> QED
  BY <1>3, <1>5, <1>6

\* A step of the loop writes one run of one level, nothing left of where the
\* batch starts.  (Inside a prime, `level' would be the next level: m is it.)
LEMMA HashLevelReads ==
  ASSUME Framed, HashLevel, NEW m, m = level + 1
  PROVE  /\ \A l \in Levels : \A i \in Nat :
              i < Shr(base, l) => NodeAt(l, i)' = NodeAt(l, i)
         /\ \A l \in Levels \ {m} : \A i : NodeAt(l, i)' = NodeAt(l, i)
         /\ \A i : i \notin (start \div 2)..((start \div 2) + NumParents - 1)
                    => NodeAt(m, i)' = NodeAt(m, i)
         /\ \A i \in (start \div 2)..((start \div 2) + NumParents - 1) :
              NodeAt(m, i)' = Parents[i - (start \div 2) + 1]
<1>1. /\ m \in Levels /\ start \div 2 \in Nat /\ NumParents \in Nat
      /\ start \div 2 = Shr(base, m)
      /\ DOMAIN Parents = 1..NumParents /\ DOMAIN nodes = Levels
      /\ Put(m, start \div 2, Parents)
  BY NextRun, WrittenType DEF HashLevel, Framed, TypeOK
<1>2. /\ \A l \in Levels \ {m} : \A i : NodeAt(l, i)' = NodeAt(l, i)
      /\ \A i : i \notin (start \div 2)..((start \div 2) + NumParents - 1)
                => NodeAt(m, i)' = NodeAt(m, i)
      /\ \A i \in (start \div 2)..((start \div 2) + NumParents - 1) :
           NodeAt(m, i)' = Parents[i - (start \div 2) + 1]
  BY <1>1, PutReads
<1>3. ASSUME NEW l \in Levels, NEW i \in Nat, i < Shr(base, l)
      PROVE  NodeAt(l, i)' = NodeAt(l, i)
  <2>1. CASE l = m
    <3>1. i \notin (start \div 2)..((start \div 2) + NumParents - 1)
      BY <1>1, <1>3, <2>1
    <3> QED
      BY <1>2, <2>1, <3>1
  <2>2. CASE l # m
    BY <1>2, <2>2
  <2> QED
    BY <2>1, <2>2
<1> QED
  BY <1>2, <1>3

\* Soundness left of n depends only on the nodes left of n's path.
LEMMA SoundKept ==
  ASSUME NEW n \in Nat,
         \A l \in Levels : \A i \in Nat :
           i < Shr(n, l) => NodeAt(l, i)' = NodeAt(l, i)
  PROVE  \A l \in InnerLevels : \A i \in 0..(Shr(n, l + 1) - 1) :
           ParentAgrees(l, i)' <=> ParentAgrees(l, i)
<1> SUFFICES ASSUME NEW l \in InnerLevels, NEW i \in 0..(Shr(n, l + 1) - 1)
             PROVE  ParentAgrees(l, i)' <=> ParentAgrees(l, i)
  OBVIOUS
<1>1. l \in Levels /\ l + 1 \in Levels
  BY DepthAssumption DEF InnerLevels, Levels
<1>2. Shr(n, l + 1) = Shr(n, l) \div 2 /\ Shr(n, l) \in Nat
  BY <1>1, ShrRec, ShrType DEF InnerLevels
<1>3. /\ i \in Nat /\ 2 * i \in Nat /\ 2 * i + 1 \in Nat
      /\ i < Shr(n, l + 1) /\ 2 * i < Shr(n, l) /\ 2 * i + 1 < Shr(n, l)
  BY <1>2
<1>4. /\ NodeAt(l + 1, i)' = NodeAt(l + 1, i)
      /\ NodeAt(l, 2 * i)' = NodeAt(l, 2 * i)
      /\ NodeAt(l, 2 * i + 1)' = NodeAt(l, 2 * i + 1)
  BY <1>1, <1>3
<1> QED
  BY <1>4, Zenon DEF ParentAgrees

\* The level a step of the loop has just written agrees with the one below.
LEMMA NewLevelAgrees ==
  ASSUME Shape, RunStored, PartnersRead, HashLevel, NEW l, l = level,
         \A i \in 0..(Shr(base, l + 1) - 1) : ParentAgrees(l, i)
  PROVE  \A i \in Nat : ParentAgrees(l, i)'
<1> DEFINE first == start \div 2
           last  == first + NumParents - 1
<1>1. /\ status = "Hashing" /\ l \in InnerLevels /\ l \in Levels /\ l + 1 \in Levels
      /\ l # l + 1 /\ first \in Nat /\ NumParents \in Nat
      /\ first = Shr(base, l + 1) /\ last = Shr(numLeaves - 1, l + 1)
      /\ numLeaves - 1 \in Nat
  <2>1. status = "Hashing"
    BY DEF HashLevel
  <2>2. /\ l \in InnerLevels /\ l + 1 \in Levels /\ first \in Nat
        /\ NumParents \in Nat /\ first = Shr(base, l + 1)
        /\ last = Shr(numLeaves - 1, l + 1)
        /\ numLeaves \in Nat /\ 0 < numLeaves
    BY <2>1, NextRun DEF Shape
  <2>3. l \in Levels /\ l # l + 1
    BY <2>2, DepthAssumption DEF InnerLevels, Levels
  <2> QED
    BY <2>1, <2>2, <2>3
<1>2. /\ \A i : NodeAt(l, i)' = NodeAt(l, i)
      /\ \A i : i \notin first..last => NodeAt(l + 1, i)' = NodeAt(l + 1, i)
      /\ \A i \in first..last : NodeAt(l + 1, i)' = Parents[i - first + 1]
  BY <1>1, HashLevelReads DEF Shape
<1>3. \A i \in first..last :
        Parents[i - first + 1] = Hash(NodeAt(l, 2 * i), NodeAt(l, 2 * i + 1))
  BY <1>1, ParentValue
<1> HIDE DEF first, last
<1>4. ASSUME NEW i \in Nat
      PROVE  NodeAt(l + 1, i)' = Hash(NodeAt(l, 2 * i), NodeAt(l, 2 * i + 1))
  <2>1. CASE i \in first..last
    BY <1>2, <1>3, <2>1
  <2>2. CASE i < first
    <3>1. NodeAt(l + 1, i)' = NodeAt(l + 1, i)
      BY <1>1, <1>2, <2>2
    <3>2. ParentAgrees(l, i)
      BY <1>1, <2>2
    <3> QED
      BY <3>1, <3>2 DEF ParentAgrees
  <2>3. CASE i > last
    <3>1. Shr(numLeaves - 1, l + 1) = Shr(numLeaves - 1, l) \div 2
          /\ Shr(numLeaves - 1, l) \in Nat
      BY <1>1, ShrRec, ShrType DEF InnerLevels
    <3>2. i > Shr(numLeaves - 1, l + 1) /\ 2 * i > Shr(numLeaves - 1, l)
      BY <1>1, <2>3, <3>1
    <3>3. /\ i \notin DOMAIN nodes[l + 1]
          /\ 2 * i \notin DOMAIN nodes[l] /\ 2 * i + 1 \notin DOMAIN nodes[l]
      BY <1>1, <3>1, <3>2 DEF Shape, StoreShape
    <3>4. NodeAt(l + 1, i)' = NodeAt(l + 1, i)
      BY <1>1, <1>2, <2>3
    <3>5. Zeros[l + 1] = Hash(Zeros[l], Zeros[l])
      BY <1>1, ZerosRec DEF InnerLevels
    <3> QED
      BY <3>3, <3>4, <3>5 DEF NodeAt
  <2> QED
    BY <1>1, <2>1, <2>2, <2>3 DEF last
<1> QED
  BY <1>2, <1>4, Zenon DEF ParentAgrees

\* Level 0, as read, is the stored leaves padded with zeros, if none is missing.
LEMMA LeafRead ==
  ASSUME StoreShape, numLeaves \in Nat,
         \A i \in Nat : i < numLeaves => i \in DOMAIN nodes[0]
  PROVE  \A i \in Nat :
           NodeAt(0, i) = IF i < numLeaves THEN StoredLeaves[i + 1] ELSE ZERO
<1> SUFFICES ASSUME NEW i \in Nat
             PROVE  NodeAt(0, i) = IF i < numLeaves THEN StoredLeaves[i + 1] ELSE ZERO
  OBVIOUS
<1>1. CASE i < numLeaves
  BY <1>1 DEF NodeAt, StoredLeaves
<1>2. CASE i >= numLeaves
  <2>1. i \notin DOMAIN nodes[0]
    <3> SUFFICES ASSUME i \in DOMAIN nodes[0] PROVE FALSE
      OBVIOUS
    <3>1. 0 < numLeaves /\ i <= Shr(numLeaves - 1, 0)
      BY DepthAssumption DEF StoreShape, Levels
    <3>2. Shr(numLeaves - 1, 0) = numLeaves - 1
      BY <3>1, ShrRec
    <3> QED
      BY <1>2, <3>1, <3>2
  <2> QED
    BY <1>2, <2>1, ZerosRec DEF NodeAt
<1> QED
  BY <1>1, <1>2

\* An empty tree has the content.
THEOREM ContentInit == Init => Content
BY DepthAssumption
   DEF Init, Content, RunStored, PartnersRead, LevelsAgree, Finished, InnerLevels

\* Steps that leave the store alone and end outside a call.
LEMMA ContentIdle ==
  ASSUME Shape, Content, UNCHANGED store, status' # "Hashing",
         (base' = base /\ level' = level) \/ level' = 0,
         status' = "Ok" => leaves' = <<>>,
         status' = "StoreError" => level' \in InnerLevels
  PROVE  Content'
<1>1. nodes' = nodes
  BY DEF store
<1>2. LevelsAgree'
  <2>1. CASE base' = base /\ level' = level
    <3>1. \A l, i : ParentAgrees(l, i)' <=> ParentAgrees(l, i)
      BY <1>1 DEF ParentAgrees, NodeAt
    <3> QED
      BY <2>1, <3>1 DEF Content, LevelsAgree, SoundLeftOf
  <2>2. CASE level' = 0
    BY <2>2 DEF LevelsAgree
  <2> QED
    BY <2>1, <2>2
<1> QED
  BY <1>2 DEF Content, RunStored, PartnersRead, Finished

\* Entering add_leaves and writing the leaves preserves the content.
LEMMA ContentAddStart ==
  ASSUME Framed, NEW batch \in Batches, AddStart(batch)
  PROVE  Content'
<1> DEFINE n == Len(batch)
<1>1. /\ n \in Nat /\ n > 0 /\ DOMAIN batch = 1..n /\ numLeaves \in Nat
      /\ 0 \in Levels /\ DOMAIN nodes = Levels /\ Put(0, numLeaves, batch)
      /\ leaves' = batch /\ base' = numLeaves /\ level' = 0 /\ start' = numLeaves
      /\ runLen' = n /\ status' = "Hashing"
  BY BatchType, CapacityType, DepthAssumption
     DEF AddStart, Framed, TypeOK, Levels
<1>2. /\ \A l \in Levels \ {0} : \A i : NodeAt(l, i)' = NodeAt(l, i)
      /\ \A i : i \notin numLeaves..(numLeaves + n - 1)
                => NodeAt(0, i)' = NodeAt(0, i)
      /\ \A i \in numLeaves..(numLeaves + n - 1) :
           NodeAt(0, i)' = batch[i - numLeaves + 1]
  <2> HIDE DEF n
  <2> QED
    BY <1>1, PutReads
<1>3. RunStored'
  <2> SUFFICES ASSUME NEW i \in numLeaves..(numLeaves + n - 1), NEW l, l = level'
               PROVE  NodeAt(l, i)' = Run'[i - numLeaves + 1]
    BY <1>1 DEF RunStored
  <2>1. Run' = batch
    BY <1>1 DEF Run
  <2> QED
    BY <1>1, <1>2, <2>1
<1>4. PartnersRead'
  <2> SUFFICES ASSUME NEW l \in 0..(DEPTH - 1), IsOdd(Shr(numLeaves, l)),
                      NEW i, i = Shr(numLeaves, l) - 1
               PROVE  partners'[l] = NodeAt(l, i)'
    BY <1>1 DEF PartnersRead
  <2>1. partners'[l] = NodeAt(l, i)
    BY DEF AddStart, LeftPartners
  <2>2. l \in Levels
    BY DepthAssumption DEF Levels
  <2>3. CASE l = 0
    <3>1. Shr(numLeaves, 0) = numLeaves
      BY <1>1, ShrRec
    <3> QED
      BY <1>1, <1>2, <2>1, <2>3, <3>1
  <2>4. CASE l # 0
    BY <1>2, <2>1, <2>2, <2>4
  <2> QED
    BY <2>3, <2>4
<1>5. LevelsAgree' /\ Finished'
  BY <1>1 DEF LevelsAgree, Finished
<1> QED
  BY <1>3, <1>4, <1>5 DEF Content

\* After an iteration of the loop the run in memory is the run just stored, and
\* the partners still to be used are untouched.
LEMMA ReadHashLevel ==
  ASSUME Framed, PartnersRead, HashLevel
  PROVE  RunStored' /\ PartnersRead'
<1> DEFINE first == start \div 2
<1>1. /\ status = "Hashing" /\ level \in InnerLevels /\ level + 1 \in Levels
      /\ first \in Nat /\ NumParents \in Nat
      /\ base \in Nat /\ level' = level + 1 /\ start' = first
      /\ runLen' = NumParents /\ base' = base /\ partners' = partners
      /\ leaves' = leaves /\ status' \in {"Ok", "Hashing"}
      /\ status' = "Ok" => level + 1 = DEPTH
      /\ scratch' = <<Written, scratch[1]>>
  <2>1. status = "Hashing"
    BY DEF HashLevel
  <2> QED
    BY <2>1, NextRun DEF HashLevel
<1> HIDE DEF first
<1>2. RunStored'
  <2> SUFFICES ASSUME NEW i \in first..(first + NumParents - 1), NEW l, l = level + 1
               PROVE  NodeAt(l, i)' = Run'[i - first + 1]
    BY <1>1 DEF RunStored
  <2>1. NodeAt(l, i)' = Parents[i - first + 1]
    BY HashLevelReads DEF first
  <2>2. /\ DOMAIN Written = 1..Len(scratch[2])
        /\ \A j \in 1..NumParents : Written[j] = Parents[j]
        /\ NumParents <= Len(scratch[2]) /\ Len(scratch[2]) \in Nat
    <3>1. Len(leaves) \div 2 + 1 <= Len(scratch[2]) /\ Len(scratch[2]) \in Nat
      BY <1>1 DEF Framed, TypeOK, RunShape
    <3> QED
      BY <1>1, <3>1, WrittenType, NextRun
  <2>3. level + 1 # 0 /\ Run' = SubSeq(Written, 1, NumParents)
    BY <1>1, DepthAssumption DEF Run, InnerLevels
  <2>4. i - first + 1 \in 1..NumParents
    BY <1>1
  <2>5. Run'[i - first + 1] = Parents[i - first + 1]
    BY <1>1, <2>2, <2>3, <2>4
  <2> QED
    BY <2>1, <2>5
<1>3. PartnersRead'
  <2> SUFFICES ASSUME NEW l \in (level + 1)..(DEPTH - 1), IsOdd(Shr(base, l)),
                      NEW i, i = Shr(base, l) - 1
               PROVE  partners[l] = NodeAt(l, i)'
    BY <1>1 DEF PartnersRead
  <2>1. l \in level..(DEPTH - 1) /\ l \in Levels
    BY <1>1, DepthAssumption DEF InnerLevels, Levels
  <2>2. partners[l] = NodeAt(l, i)
    BY <1>1, <2>1 DEF PartnersRead
  <2>3. Shr(base, l) \in Nat /\ i \in Nat /\ i < Shr(base, l)
    BY <1>1, <2>1, ShrType DEF IsOdd
  <2> QED
    BY <2>1, <2>2, <2>3, HashLevelReads
<1> QED
  BY <1>2, <1>3

\* An iteration of the loop of add_leaves preserves the content.
LEMMA ContentHashLevel ==
  ASSUME Shape, Content, HashLevel
  PROVE  Content'
<1>1. /\ status = "Hashing" /\ level \in InnerLevels /\ level + 1 \in Levels
      /\ base \in Nat /\ level' = level + 1 /\ base' = base /\ leaves' = leaves
      /\ status' \in {"Ok", "Hashing"}
      /\ status' = "Ok" => level + 1 = DEPTH
  <2>1. status = "Hashing"
    BY DEF HashLevel
  <2> QED
    BY <2>1, NextRun DEF HashLevel, Shape
<1>2. LevelsAgree'
  <2> SUFFICES ASSUME SoundLeftOf(base)',
                      NEW l \in 0..level, NEW i \in Nat
               PROVE  ParentAgrees(l, i)'
    BY <1>1 DEF LevelsAgree, InnerLevels
  <2>1. SoundLeftOf(base)
    <3>1. \A k \in Levels : \A x \in Nat :
            x < Shr(base, k) => NodeAt(k, x)' = NodeAt(k, x)
      BY HashLevelReads DEF Shape
    <3>2. \A k \in InnerLevels : \A x \in 0..(Shr(base, k + 1) - 1) :
            ParentAgrees(k, x)' <=> ParentAgrees(k, x)
      BY <1>1, <3>1, SoundKept
    <3> QED
      BY <1>1, <3>2 DEF SoundLeftOf
  <2>2. CASE l = level
    BY <1>1, <2>1, <2>2, NewLevelAgrees DEF Content, SoundLeftOf
  <2>3. CASE l # level
    <3>1. /\ l \in 0..(level - 1) /\ l \in Levels /\ l + 1 \in Levels
          /\ l # level + 1 /\ l + 1 # level + 1
      BY <1>1, <2>3, DepthAssumption DEF InnerLevels, Levels
    <3>2. ParentAgrees(l, i)
      BY <2>1, <3>1 DEF Content, LevelsAgree
    <3>3. \A x : NodeAt(l, x)' = NodeAt(l, x) /\ NodeAt(l + 1, x)' = NodeAt(l + 1, x)
      BY <3>1, HashLevelReads DEF Shape
    <3> QED
      BY <3>2, <3>3, Zenon DEF ParentAgrees
  <2> QED
    BY <2>2, <2>3
<1>3. Finished'
  BY <1>1 DEF Finished
<1> QED
  BY <1>2, <1>3, ReadHashLevel DEF Content, Shape

\* Every step keeps what the call has read in line with the store.
LEMMA ReadsKept ==
  ASSUME Framed, RunStored, PartnersRead, [Next]_vars
  PROVE  RunStored' /\ PartnersRead'
<1>1. ASSUME NEW batch \in Batches, AddStart(batch) PROVE RunStored' /\ PartnersRead'
  BY <1>1, ContentAddStart DEF Content
<1>2. CASE HashLevel
  BY <1>2, ReadHashLevel
<1>3. CASE status' # "Hashing"
  BY <1>3 DEF RunStored, PartnersRead
<1>4. CASE UNCHANGED vars
  <2>1. \A l, i : NodeAt(l, i)' = NodeAt(l, i)
    BY <1>4 DEF vars, store, NodeAt
  <2> QED
    BY <1>4, <2>1 DEF vars, locals, RunStored, PartnersRead, Run
<1> QED
  BY <1>1, <1>2, <1>3, <1>4
     DEF Next, AddLeaves, AddNothing, AddTreeFull, AddStartFails, EntryFails,
         HashLevelFails, LevelFails

\* Every step of the tree, failed store calls included, preserves the content.
THEOREM ContentStep == Shape /\ Content /\ [Next]_vars => Content'
<1> SUFFICES ASSUME Shape, Content, [Next]_vars PROVE Content'
  OBVIOUS
<1>1. 0 \in InnerLevels
  BY DepthAssumption DEF InnerLevels
<1>2. CASE AddNothing
  BY <1>2, ContentIdle DEF AddNothing
<1>3. ASSUME NEW batch \in Batches, AddTreeFull(batch) PROVE Content'
  BY <1>3, ContentIdle DEF AddTreeFull, locals
<1>4. ASSUME NEW batch \in Batches, AddStart(batch) PROVE Content'
  BY <1>4, ContentAddStart DEF Shape
<1>5. ASSUME NEW batch \in Batches, AddStartFails(batch) PROVE Content'
  BY <1>1, <1>5, ContentIdle DEF AddStartFails, EntryFails
<1>6. CASE HashLevel
  BY <1>6, ContentHashLevel
<1>7. CASE HashLevelFails
  BY <1>7, ContentIdle, NextRun DEF HashLevelFails, LevelFails, Shape
<1>8. CASE UNCHANGED vars
  <2>1. \A l, i : NodeAt(l, i)' = NodeAt(l, i)
    BY <1>8 DEF vars, store, NodeAt
  <2> QED
    BY <1>8, <2>1
       DEF vars, locals, Content, RunStored, PartnersRead, LevelsAgree, Finished,
           SoundLeftOf, ParentAgrees, Run
<1> QED
  BY <1>2, <1>3, <1>4, <1>5, <1>6, <1>7, <1>8 DEF Next, AddLeaves

\* What the run, the partners and the levels already hashed hold, and what a
\* finished call leaves behind, is an invariant of every execution.
THEOREM ContentInvariant == Spec => [](Shape /\ Content)
BY ShapeInit, ShapeStep, ContentInit, ContentStep, PTL DEF Spec

-----------------------------------------------------------------------------
(* What holds whatever the store does. *)

\* A left partner read on entry is never out of date when it is hashed.
THEOREM PartnersAlwaysFresh == Spec => []PartnersFresh
<1>1. Shape /\ Content => PartnersFresh
  <2> SUFFICES ASSUME Shape, Content, status = "Hashing", IsOdd(start)
               PROVE  partners[level] = NodeAt(level, start - 1)
    BY DEF PartnersFresh
  <2>1. level \in level..(DEPTH - 1) /\ start = Shr(base, level)
    BY DepthAssumption DEF Shape, Framed, RunShape, InnerLevels
  <2> QED
    BY <2>1 DEF Content, PartnersRead
<1> QED
  BY <1>1, ContentInvariant, PTL

\* A call that returns Ok leaves a Merkle tree, whatever calls failed before,
\* if what lies left of its insertion path was sound.
THEOREM NextAddHeals == Spec => []HealedByNextAdd
<1>1. Content => HealedByNextAdd
  <2> SUFFICES ASSUME Content, status = "Ok", leaves # <<>>, SoundLeftOf(base),
                      NEW l \in InnerLevels, NEW i \in Indices(l + 1)
               PROVE  ParentAgrees(l, i)
    BY DEF HealedByNextAdd, Consistent
  <2>1. l \in 0..(level - 1)
    BY DEF Content, Finished, InnerLevels
  <2>2. i \in Nat
    <3>1. DEPTH - (l + 1) \in Levels
      BY DepthAssumption DEF InnerLevels, Levels
    <3> QED
      BY <3>1, Pow2Type DEF Indices
  <2> QED
    BY <2>1, <2>2 DEF Content, LevelsAgree
<1> QED
  BY <1>1, ContentInvariant, PTL

\* Two indices that meet at a level have met at every level above it.
LEMMA MeetAbove ==
  ASSUME NEW m \in Nat, NEW n \in Nat, NEW k \in Levels,
         Shr(m, k) = Shr(n, k)
  PROVE  \A l \in k..DEPTH : Shr(m, l) = Shr(n, l)
<1> DEFINE T == {l \in k..DEPTH : Shr(m, l) # Shr(n, l)}
<1> SUFFICES ASSUME T # {} PROVE FALSE
  OBVIOUS
<1>1. T \subseteq Nat
  BY DepthAssumption DEF Levels
<1> HIDE DEF T
<1>2. PICK l \in T : \A x \in T : l <= x
  BY <1>1, NatMinimum
<1> USE DEF T
<1>3. l # k
  OBVIOUS
<1>4. l - 1 \in k..DEPTH /\ l - 1 \notin T /\ l - 1 \in 0..(DEPTH - 1)
  BY <1>2, <1>3, DepthAssumption DEF Levels
<1>5. Shr(m, l - 1) = Shr(n, l - 1)
  BY <1>4
<1>6. /\ Shr(m, (l - 1) + 1) = Shr(m, l - 1) \div 2
      /\ Shr(n, (l - 1) + 1) = Shr(n, l - 1) \div 2
  BY <1>4, ShrRec
<1>7. (l - 1) + 1 = l
  BY <1>1
<1> QED
  BY <1>5, <1>6, <1>7

\* A call that failed before storing a level does no lasting damage if its
\* leaves completed no node of that level.
THEOREM FailureHealable == Spec => []HealableUnlessCrossed
<1>1. Shape /\ Content => HealableUnlessCrossed
  <2> SUFFICES ASSUME Shape, Content, status = "StoreError", SoundLeftOf(base),
                      Shr(base, level + 1) = Shr(numLeaves, level + 1),
                      NEW l \in InnerLevels,
                      NEW i \in 0..(Shr(numLeaves, l + 1) - 1)
               PROVE  ParentAgrees(l, i)
    BY DEF HealableUnlessCrossed, SoundLeftOf
  <2>1. /\ level \in InnerLevels /\ level + 1 \in Levels /\ l + 1 \in Levels
        /\ base \in Nat /\ numLeaves \in Nat
    BY CapacityType, DepthAssumption
       DEF Content, Finished, Shape, Framed, TypeOK, InnerLevels, Levels
  <2>2. CASE l < level
    <3>1. l \in 0..(level - 1)
      BY <2>1, <2>2, DepthAssumption DEF InnerLevels
    <3>2. Shr(numLeaves, l + 1) \in Nat
      BY <2>1, ShrType
    <3> QED
      BY <3>1, <3>2 DEF Content, LevelsAgree
  <2>3. CASE ~ (l < level)
    <3>1. l + 1 \in (level + 1)..DEPTH
      BY <2>1, <2>3, DepthAssumption DEF InnerLevels
    <3>2. Shr(base, l + 1) = Shr(numLeaves, l + 1)
      BY <2>1, <3>1, MeetAbove
    <3> QED
      BY <3>2 DEF SoundLeftOf
  <2> QED
    BY <2>2, <2>3
<1> QED
  BY <1>1, ContentInvariant, PTL

\* No step moves the frontier back or writes a node that lies left of it.
LEMMA FrontierStep ==
  ASSUME Framed, [Next]_vars
  PROVE  /\ Frontier \in Nat /\ Frontier' \in Nat /\ Frontier <= Frontier'
         /\ \A l \in Levels : \A i \in Nat :
              i < Shr(Frontier, l) => NodeAt(l, i)' = NodeAt(l, i)
<1>1. /\ numLeaves \in Nat /\ base \in Nat /\ base <= numLeaves
      /\ Frontier = IF status = "Hashing" THEN base ELSE numLeaves
      /\ Frontier' = IF status' = "Hashing" THEN base' ELSE numLeaves'
  BY CapacityType DEF Framed, TypeOK, Frontier, Idle
<1>2. CASE UNCHANGED store
  <2>1. \A l, i : NodeAt(l, i)' = NodeAt(l, i)
    BY <1>2 DEF store, NodeAt
  <2>2. Frontier' \in {Frontier, numLeaves}
    BY <1>1, <1>2
       DEF store, Next, AddNothing, AddLeaves, AddTreeFull, AddStart,
           AddStartFails, EntryFails, HashLevel, HashLevelFails, LevelFails, vars, locals, Idle
  <2>3. Frontier \in Nat /\ Frontier' \in Nat /\ Frontier <= Frontier'
    <3>1. Frontier \in Nat /\ Frontier <= numLeaves
      BY <1>1
    <3>2. CASE Frontier' = Frontier
      BY <3>1, <3>2
    <3>3. CASE Frontier' = numLeaves
      BY <1>1, <3>1, <3>3
    <3> QED
      BY <2>2, <3>2, <3>3
  <2> QED
    BY <2>1, <2>3
<1>3. ASSUME NEW batch \in Batches, AddStart(batch)
      PROVE  /\ Frontier = numLeaves /\ Frontier' = numLeaves
             /\ \A l \in Levels : \A i \in Nat :
                  i < Shr(numLeaves, l) => NodeAt(l, i)' = NodeAt(l, i)
  <2> DEFINE n == Len(batch)
  <2>1. /\ n \in Nat /\ DOMAIN batch = 1..n
        /\ 0 \in Levels /\ DOMAIN nodes = Levels /\ Put(0, numLeaves, batch)
        /\ base' = numLeaves /\ status' = "Hashing" /\ status # "Hashing"
    BY <1>3, BatchType, DepthAssumption DEF AddStart, Framed, TypeOK, Levels, Idle
  <2> HIDE DEF n
  <2>2. /\ \A l \in Levels \ {0} : \A i : NodeAt(l, i)' = NodeAt(l, i)
        /\ \A i : i \notin numLeaves..(numLeaves + n - 1)
                  => NodeAt(0, i)' = NodeAt(0, i)
    BY <1>1, <2>1, PutReads
  <2>3. Shr(numLeaves, 0) = numLeaves
    BY <1>1, ShrRec
  <2>4. \A i \in Nat : i < numLeaves => NodeAt(0, i)' = NodeAt(0, i)
    BY <1>1, <2>1, <2>2
  <2> QED
    BY <1>1, <2>1, <2>2, <2>3, <2>4
<1>4. CASE HashLevel
  <2>1. /\ status = "Hashing" /\ base' = base /\ numLeaves' = numLeaves
    BY <1>4, NextRun, DepthAssumption DEF HashLevel, Put, Counted, InnerLevels
  <2>2. \A l \in Levels : \A i \in Nat :
          i < Shr(base, l) => NodeAt(l, i)' = NodeAt(l, i)
    BY <1>4, HashLevelReads
  <2> QED
    BY <1>1, <2>1, <2>2
<1>5. (\E batch \in Batches : AddStart(batch)) \/ HashLevel \/ UNCHANGED store
  BY DEF Next, AddNothing, AddLeaves, AddTreeFull, AddStartFails, EntryFails,
         HashLevelFails, LevelFails, vars, store
<1> QED
  BY <1>1, <1>2, <1>3, <1>4, <1>5

\* Nor does any step store or drop a node there.
LEMMA FrontierKept ==
  ASSUME Framed, [Next]_vars, NEW l \in Levels, NEW i \in Nat, i < Shr(Frontier, l)
  PROVE  /\ i \in DOMAIN nodes'[l] <=> i \in DOMAIN nodes[l]
         /\ i \in DOMAIN nodes[l] => nodes'[l][i] = nodes[l][i]
<1>1. DOMAIN nodes = Levels /\ numLeaves \in Nat /\ base \in Nat /\ 0 \in Levels
  BY CapacityType, DepthAssumption DEF Framed, TypeOK, Levels
<1>2. ASSUME NEW batch \in Batches, AddStart(batch)
      PROVE  /\ i \in DOMAIN nodes'[l] <=> i \in DOMAIN nodes[l]
             /\ i \in DOMAIN nodes[l] => nodes'[l][i] = nodes[l][i]
  <2> DEFINE n == Len(batch)
  <2>1. n \in Nat /\ DOMAIN batch = 1..n /\ Put(0, numLeaves, batch)
    BY <1>2, BatchType DEF AddStart
  <2>2. l = 0 => i < numLeaves
    BY <1>1, <1>2, ShrRec DEF AddStart, Frontier
  <2> HIDE DEF n
  <2>3. l = 0 => i \notin numLeaves..(numLeaves + n - 1)
    BY <1>1, <2>1, <2>2
  <2> QED
    BY <1>1, <2>1, <2>3, PutEffect
<1>3. CASE HashLevel
  <2> DEFINE m == level + 1
             first == start \div 2
  <2>1. /\ m \in Levels /\ first \in Nat /\ NumParents \in Nat
        /\ DOMAIN Parents = 1..NumParents /\ Put(m, first, Parents)
        /\ first = Shr(base, m) /\ Frontier = base
    BY <1>3, NextRun, WrittenType DEF HashLevel, Frontier, Idle
  <2> HIDE DEF m, first
  <2>2. l = m => i \notin first..(first + NumParents - 1)
    BY <2>1
  <2> QED
    BY <1>1, <2>1, <2>2, PutEffect
<1>4. CASE UNCHANGED store
  BY <1>4 DEF store
<1> QED
  BY <1>2, <1>3, <1>4
     DEF Next, AddNothing, AddLeaves, AddTreeFull, AddStartFails, EntryFails,
         HashLevelFails, LevelFails, vars, store

\* Leaves and complete nodes are final: append-only at every level.
THEOREM AppendOnly == Spec => CompleteNodesFinal
<1>1. Shape /\ [Next]_vars =>
        [ /\ Frontier' >= Frontier
          /\ \A l \in Levels : \A i \in 0..(Shr(Frontier, l) - 1) :
               NodeAt(l, i)' = NodeAt(l, i) ]_vars
  <2> SUFFICES ASSUME Shape, [Next]_vars
               PROVE  /\ Frontier' >= Frontier
                      /\ \A l \in Levels : \A i \in 0..(Shr(Frontier, l) - 1) :
                           NodeAt(l, i)' = NodeAt(l, i)
    OBVIOUS
  <2>1. \A l \in Levels : Shr(Frontier, l) \in Nat
    BY FrontierStep, ShrType DEF Shape
  <2> QED
    BY <2>1, FrontierStep DEF Shape
<1> QED
  BY <1>1, ShapeInvariant, PTL DEF Spec, CompleteNodesFinal

\* A step that does not complete a call leaves the root as it is.
LEMMA RootStep ==
  ASSUME Framed, [Next]_vars, ~(status = "Hashing" /\ status' = "Ok")
  PROVE  nodes'[DEPTH] = nodes[DEPTH]
<1>1. DEPTH \in Levels /\ DEPTH # 0
  BY DepthAssumption DEF Levels
<1>2. ASSUME NEW batch \in Batches, AddStart(batch) PROVE nodes'[DEPTH] = nodes[DEPTH]
  BY <1>1, <1>2 DEF AddStart, Put, Framed, TypeOK
<1>3. CASE HashLevel
  BY <1>1, <1>3 DEF HashLevel, Put, Framed, TypeOK
<1>4. CASE UNCHANGED store
  BY <1>4 DEF store
<1> QED
  BY <1>2, <1>3, <1>4
     DEF Next, AddNothing, AddLeaves, AddTreeFull, AddStartFails, EntryFails,
         HashLevelFails, LevelFails, vars, store

\* The root changes only in the step that completes a call.
THEOREM RootLast == Spec => RootPublishedLast
<1>1. Shape /\ [Next]_vars =>
        [Root' # Root => status = "Hashing" /\ status' = "Ok"]_vars
  BY RootStep DEF Root, NodeAt, Shape
<1> QED
  BY <1>1, ShapeInvariant, PTL DEF Spec, RootPublishedLast

\* What is sound after a step was sound before it.
LEMMA SoundBefore ==
  ASSUME Framed, [Next]_vars, SoundLeftOf(Frontier)'
  PROVE  SoundLeftOf(Frontier)
<1> SUFFICES ASSUME NEW l \in InnerLevels, NEW i \in 0..(Shr(Frontier, l + 1) - 1)
             PROVE  ParentAgrees(l, i)
  BY DEF SoundLeftOf
<1>1. l + 1 \in Levels
  BY DepthAssumption DEF InnerLevels, Levels
<1>2. /\ Shr(Frontier, l + 1) <= Shr(Frontier', l + 1)
      /\ Shr(Frontier, l + 1) \in Nat /\ Shr(Frontier', l + 1) \in Nat
  BY <1>1, FrontierStep, ShrMonotone, ShrType
<1>3. ParentAgrees(l, i)'
  BY <1>2 DEF SoundLeftOf
<1>4. ParentAgrees(l, i)' <=> ParentAgrees(l, i)
  BY FrontierStep, SoundKept
<1> QED
  BY <1>3, <1>4

\* Damage left of the frontier is permanent.
THEOREM NoLateRepair == Spec => TornForever
<1>1. Shape /\ [Next]_vars =>
        [~SoundLeftOf(Frontier) => ~SoundLeftOf(Frontier)']_vars
  BY SoundBefore DEF Shape
<1> QED
  BY <1>1, ShapeInvariant, PTL DEF Spec, TornForever

-----------------------------------------------------------------------------
(* The cost of a call. *)

\* Each level adds at most two hashes to half of what is left, and one less
\* once the run has shrunk to a single node.
Budget ==
  /\ HashBound
  /\ status = "Hashing" =>
       /\ hashes + runLen <= Len(leaves) + 2 * level
       /\ level > 0 /\ runLen = 1 => hashes + runLen < Len(leaves) + 2 * level

\* An iteration of the loop keeps the hashes spent within the budget.
LEMMA BudgetHashLevel ==
  ASSUME Framed, Budget, status = "Hashing"
  PROVE  /\ hashes + NumParents + NumParents <= Len(leaves) + 2 * (level + 1)
         /\ NumParents = 1 =>
              hashes + NumParents + NumParents < Len(leaves) + 2 * (level + 1)
         /\ DEPTH > 1 => hashes + NumParents <= Len(leaves) + 2 * DEPTH - 3
<1> DEFINE head == start % 2
<1>1. /\ start \in Nat /\ runLen \in Nat /\ runLen > 0 /\ hashes \in Nat
      /\ level \in 0..(DEPTH - 1) /\ DEPTH \in Nat /\ DEPTH > 0
      /\ Len(leaves) \in Nat /\ NumParents \in Nat /\ 0 < NumParents
      /\ numLeaves - 1 \in Nat /\ numLeaves <= Capacity /\ Capacity \in Nat
      /\ start + runLen - 1 = Shr(numLeaves - 1, level)
  <2>1. /\ start \in Nat /\ runLen \in Nat /\ level \in InnerLevels
        /\ Len(leaves) \in Nat /\ NumParents \in Nat /\ 0 < NumParents
        /\ numLeaves \in Nat /\ 0 < numLeaves
    BY NextRun
  <2>2. /\ runLen > 0 /\ hashes \in Nat /\ numLeaves <= Capacity
        /\ start + runLen - 1 = Shr(numLeaves - 1, level)
    BY CapacityType DEF Framed, TypeOK, RunShape
  <2> QED
    BY <2>1, <2>2, CapacityType, DepthAssumption DEF InnerLevels
<1>2. NumParents = head + (runLen - head + 1) \div 2 /\ head \in 0..1
  BY <1>1 DEF NumParents, HeadLen
<1>3. /\ hashes + runLen <= Len(leaves) + 2 * level
      /\ level > 0 /\ runLen = 1 => hashes + runLen < Len(leaves) + 2 * level
  BY DEF Budget
<1>4. hashes + NumParents + NumParents <= Len(leaves) + 2 * (level + 1)
  BY <1>1, <1>2, <1>3
<1>5. NumParents = 1 => hashes + NumParents + NumParents < Len(leaves) + 2 * (level + 1)
  BY <1>1, <1>2, <1>3
<1>6. ASSUME DEPTH > 1 PROVE hashes + NumParents <= Len(leaves) + 2 * DEPTH - 3
  <2>1. CASE level < DEPTH - 1
    BY <1>1, <1>4, <2>1
  <2>2. CASE level = DEPTH - 1
    <3>1. start + runLen - 1 < 2
      <4>1. Capacity = 2 * Pow2[level] /\ Pow2[level] \in Nat /\ Pow2[level] > 0
        <5>1. level + 1 = DEPTH /\ level \in Levels
          BY <1>1, <2>2 DEF Levels
        <5> QED
          BY <1>1, <5>1, Pow2Rec, Pow2Type DEF Capacity
      <4>2. ASSUME NEW p \in Nat, p > 0, NEW n \in Nat, n < 2 * p PROVE n \div p < 2
        BY <4>2, Z3
      <4>3. numLeaves - 1 < 2 * Pow2[level]
        <5>1. numLeaves \in Nat
          BY NextRun
        <5> QED
          BY <1>1, <4>1, <5>1
      <4> QED
        BY <1>1, <4>1, <4>2, <4>3 DEF Shr
    <3>2. NumParents = 1 /\ (runLen = 1 \/ runLen = 2)
      BY <1>1, <1>2, <3>1
    <3> QED
      BY <1>1, <1>3, <1>6, <2>2, <3>2
  <2> QED
    BY <1>1, <2>1, <2>2
<1> QED
  BY <1>4, <1>5, <1>6

\* One call costs at most two hashes per level, less three, beyond its leaves.
THEOREM CallCost == Spec => []HashBound
<1>1. Init => Budget
  BY DepthAssumption DEF Init, Budget, HashBound
<1>2. Shape /\ Budget /\ [Next]_vars => Budget'
  <2> SUFFICES ASSUME Shape, Budget, [Next]_vars PROVE Budget'
    OBVIOUS
  <2>1. CASE AddNothing
    BY <2>1, DepthAssumption DEF AddNothing, Budget, HashBound
  <2>2. ASSUME NEW batch \in Batches, AddStart(batch) PROVE Budget'
    BY <2>2, BatchType, DepthAssumption DEF AddStart, Budget, HashBound
  <2>3. CASE HashLevel
    <3>1. level \in Nat
      BY <2>3, NextRun DEF HashLevel, InnerLevels, Shape
    <3> QED
      BY <2>3, <3>1, BudgetHashLevel DEF HashLevel, Budget, HashBound, Shape
  <2>4. CASE HashLevelFails
    BY <2>4, BudgetHashLevel DEF HashLevelFails, LevelFails, Budget, HashBound, Shape
  <2>5. CASE UNCHANGED <<leaves, hashes>> /\ status' # "Hashing"
    BY <2>5 DEF Budget, HashBound
  <2>6. CASE UNCHANGED vars
    BY <2>6 DEF vars, locals, Budget, HashBound
  <2> QED
    BY <2>1, <2>2, <2>3, <2>4, <2>5, <2>6
       DEF Next, AddLeaves, AddTreeFull, AddStartFails, EntryFails, locals
<1>3. Budget => HashBound
  BY DEF Budget
<1> QED
  BY <1>1, <1>2, <1>3, ShapeInit, ShapeStep, PTL DEF Spec

-----------------------------------------------------------------------------
(* A store that refuses gaps: the levels stay contiguous, and a level that a  *)
(* failed call has left behind the leaves stops every later call.            *)

\* Indices that start at 0 and leave no hole.
Solid(held) == \A i \in held : 0..i \subseteq held

\* The nodes of a level are stored without a hole.
Contiguous(l) == Solid(DOMAIN nodes[l])

\* Inside a call, every level written so far was not behind its run.
CaughtUp ==
  RejectGaps /\ status = "Hashing" =>
    \A l \in Levels : l <= level => ~Gap(l, Shr(base, l))

GapInv == LevelsContiguous /\ CaughtUp

\* A run that starts no later than where they end leaves no hole either.
LEMMA SolidExtended ==
  ASSUME NEW held, held \subseteq Nat, Solid(held), NEW s \in Nat, NEW n \in Nat,
         s > 0 => s - 1 \in held
  PROVE  Solid(held \cup s..(s + n - 1))
<1> DEFINE all == held \cup s..(s + n - 1)
<1> SUFFICES ASSUME NEW i \in all, NEW j \in 0..i PROVE j \in all
  BY DEF Solid
<1>1. CASE i \in held
  BY <1>1 DEF Solid
<1>2. CASE i \in s..(s + n - 1) /\ j >= s
  BY <1>2
<1>3. CASE i \in s..(s + n - 1) /\ j < s
  <2>1. s - 1 \in held /\ j \in 0..(s - 1)
    BY <1>3
  <2> QED
    BY <2>1 DEF Solid
<1> QED
  BY <1>1, <1>2, <1>3

\* A put that leaves no gap keeps its level contiguous and touches no other.
LEMMA PutContiguous ==
  ASSUME NEW l \in Levels, NEW s \in Nat, NEW n \in Nat, NEW run,
         DOMAIN run = 1..n, DOMAIN nodes = Levels, DOMAIN nodes[l] \subseteq Nat,
         Put(l, s, run), ~Gap(l, s), \A k \in Levels : Contiguous(k)
  PROVE  \A k \in Levels : Contiguous(k)'
<1>1. /\ \A k \in Levels \ {l} : nodes'[k] = nodes[k]
      /\ DOMAIN nodes'[l] = DOMAIN nodes[l] \cup s..(s + n - 1)
  <2>1. \A k \in Levels \ {l} : nodes'[k] = nodes[k]
    BY DEF Put
  <2>2. Len(run) = n
    OBVIOUS
  <2>3. DOMAIN nodes'[l] = DOMAIN nodes[l] \cup s..(s + n - 1)
    BY <2>2 DEF Put
  <2> QED
    BY <2>1, <2>3
<1>2. ASSUME NEW k \in Levels, k # l PROVE Contiguous(k)'
  BY <1>1, <1>2 DEF Contiguous, Solid
<1>3. Solid(DOMAIN nodes'[l])
  <2>1. Solid(DOMAIN nodes[l])
    BY DEF Contiguous
  <2>2. s > 0 => s - 1 \in DOMAIN nodes[l]
    BY DEF Gap
  <2>3. Solid(DOMAIN nodes[l] \cup s..(s + n - 1))
    BY <2>1, <2>2, SolidExtended
  <2> QED
    BY <1>1, <2>3
<1> QED
  BY <1>2, <1>3 DEF Contiguous

\* A put removes no gap but those it fills, and makes none.
LEMMA PutKeepsCaughtUp ==
  ASSUME NEW l \in Levels, NEW s \in Nat, NEW n \in Nat, NEW run,
         DOMAIN run = 1..n, DOMAIN nodes = Levels, Put(l, s, run),
         NEW k \in Levels, NEW t, ~Gap(k, t)
  PROVE  t > 0 => t - 1 \in DOMAIN nodes'[k]
<1>1. DOMAIN nodes[k] \subseteq DOMAIN nodes'[k]
  BY DEF Put
<1> QED
  BY <1>1 DEF Gap

\* What the two steps that write the store put where.
LEMMA StepPuts ==
  ASSUME Framed
  PROVE  /\ \A batch \in Batches : AddStart(batch) =>
              /\ numLeaves \in Nat /\ 0 \in Levels /\ Shr(numLeaves, 0) = numLeaves
              /\ Len(batch) \in Nat /\ DOMAIN batch = 1..Len(batch)
              /\ Put(0, numLeaves, batch)
              /\ RejectGaps => ~Gap(0, numLeaves)
         /\ HashLevel =>
              /\ start \div 2 \in Nat /\ level + 1 \in Levels /\ level \in InnerLevels
              /\ start \div 2 = Shr(base, level + 1)
              /\ NumParents \in Nat /\ DOMAIN Parents = 1..NumParents
              /\ Put(level + 1, start \div 2, Parents)
              /\ RejectGaps => ~Gap(level + 1, start \div 2)
<1>1. ASSUME NEW batch \in Batches, AddStart(batch)
      PROVE  /\ numLeaves \in Nat /\ 0 \in Levels /\ Shr(numLeaves, 0) = numLeaves
             /\ Len(batch) \in Nat /\ DOMAIN batch = 1..Len(batch)
             /\ Put(0, numLeaves, batch)
             /\ RejectGaps => ~Gap(0, numLeaves)
  <2>1. numLeaves \in Nat /\ 0 \in Levels
    BY CapacityType, DepthAssumption DEF Framed, TypeOK, Levels
  <2>2. Shr(numLeaves, 0) = numLeaves
    BY <2>1, ShrRec
  <2>3. Len(batch) \in Nat /\ DOMAIN batch = 1..Len(batch)
    BY BatchType
  <2> QED
    BY <1>1, <2>1, <2>2, <2>3 DEF AddStart, Rejects
<1>2. ASSUME HashLevel
      PROVE  /\ start \div 2 \in Nat /\ level + 1 \in Levels /\ level \in InnerLevels
             /\ start \div 2 = Shr(base, level + 1)
             /\ NumParents \in Nat /\ DOMAIN Parents = 1..NumParents
             /\ Put(level + 1, start \div 2, Parents)
             /\ RejectGaps => ~Gap(level + 1, start \div 2)
  <2>1. status = "Hashing"
    BY <1>2 DEF HashLevel
  <2>2. DOMAIN Parents = 1..NumParents
    BY DEF Parents
  <2> QED
    BY <1>2, <2>1, <2>2, NextRun DEF HashLevel, Rejects
<1> QED
  BY <1>1, <1>2

-----------------------------------------------------------------------------
(* The invariant. *)

\* An empty store is contiguous and no call is in progress.
LEMMA GapInit == Init => GapInv
BY DEF Init, GapInv, LevelsContiguous, CaughtUp

\* Every step of the tree keeps the levels contiguous and caught up.
LEMMA GapStep == Framed /\ GapInv /\ [Next]_vars => GapInv'
<1> SUFFICES ASSUME Framed, GapInv, [Next]_vars PROVE GapInv'
  OBVIOUS
<1>1. CASE ~RejectGaps
  BY <1>1 DEF GapInv, LevelsContiguous, CaughtUp
<1>2. CASE RejectGaps
  <2>1. /\ DOMAIN nodes = Levels /\ \A k \in Levels : Contiguous(k)
        /\ \A k \in Levels : DOMAIN nodes[k] \subseteq Nat
    BY <1>2 DEF Framed, TypeOK, GapInv, LevelsContiguous, Contiguous, Solid
  <2>2. ASSUME \A k \in Levels : Contiguous(k)' PROVE LevelsContiguous'
    BY <2>2 DEF LevelsContiguous, Contiguous, Solid
  <2>3. ASSUME NEW batch \in Batches, AddStart(batch) PROVE GapInv'
    <3>1. /\ numLeaves \in Nat /\ 0 \in Levels /\ Shr(numLeaves, 0) = numLeaves
          /\ Len(batch) \in Nat /\ DOMAIN batch = 1..Len(batch)
          /\ Put(0, numLeaves, batch) /\ ~Gap(0, numLeaves)
      BY <1>2, <2>3, StepPuts
    <3>2. \A k \in Levels : Contiguous(k)'
      BY <2>1, <3>1, PutContiguous
    <3>3. numLeaves > 0 => numLeaves - 1 \in DOMAIN nodes'[0]
      BY <2>1, <3>1, PutKeepsCaughtUp
    <3>4. \A l \in Levels : l <= 0 => l = 0
      BY DepthAssumption DEF Levels
    <3>5. level' = 0 /\ base' = numLeaves
      BY <2>3 DEF AddStart
    <3>6. CaughtUp'
      <4> SUFFICES ASSUME NEW l \in Levels, l <= level'
                   PROVE  Shr(base', l) > 0 => Shr(base', l) - 1 \in DOMAIN nodes'[l]
        BY DEF CaughtUp, Gap
      <4>1. l = 0
        BY <3>4, <3>5
      <4> QED
        BY <3>1, <3>3, <3>5, <4>1
    <3> QED
      BY <2>2, <3>2, <3>6 DEF GapInv
  <2>4. CASE HashLevel
    <3>1. /\ start \div 2 \in Nat /\ level + 1 \in Levels /\ level \in InnerLevels
          /\ start \div 2 = Shr(base, level + 1)
          /\ NumParents \in Nat /\ DOMAIN Parents = 1..NumParents
          /\ Put(level + 1, start \div 2, Parents) /\ ~Gap(level + 1, start \div 2)
      BY <1>2, <2>4, StepPuts
    <3>2. \A k \in Levels : Contiguous(k)'
      BY <2>1, <3>1, PutContiguous
    <3>3. \A k \in Levels : \A t :
            ~Gap(k, t) => (t > 0 => t - 1 \in DOMAIN nodes'[k])
      BY <2>1, <3>1, PutKeepsCaughtUp
    <3>4. \A l \in Levels : l <= level + 1 => l <= level \/ l = level + 1
      BY <3>1, DepthAssumption DEF Levels, InnerLevels
    <3>5. level' = level + 1 /\ base' = base /\ status = "Hashing"
      BY <2>4 DEF HashLevel
    <3>6. CaughtUp'
      <4> SUFFICES ASSUME NEW l \in Levels, l <= level'
                   PROVE  Shr(base', l) > 0 => Shr(base', l) - 1 \in DOMAIN nodes'[l]
        BY DEF CaughtUp, Gap
      <4>1. CASE l <= level
        <5>1. ~Gap(l, Shr(base, l))
          BY <1>2, <3>5, <4>1 DEF GapInv, CaughtUp
        <5> QED
          BY <3>3, <3>5, <5>1
      <4>2. CASE l = level + 1
        <5>1. ~Gap(l, Shr(base, l))
          BY <3>1, <4>2
        <5> QED
          BY <3>3, <3>5, <5>1
      <4> QED
        BY <3>4, <3>5, <4>1, <4>2
    <3> QED
      BY <2>2, <3>2, <3>6 DEF GapInv
  <2>5. CASE UNCHANGED nodes /\ status' # "Hashing"
    BY <2>5 DEF GapInv, LevelsContiguous, CaughtUp
  <2>6. CASE UNCHANGED vars
    BY <2>6 DEF vars, store, locals, GapInv, LevelsContiguous, CaughtUp, Gap
  <2> QED
    BY <2>3, <2>4, <2>5, <2>6
       DEF Next, AddLeaves, AddNothing, AddTreeFull, AddStartFails, EntryFails,
           HashLevelFails, LevelFails, store
<1> QED
  BY <1>1, <1>2

\* An execution keeps the tree framed, and the levels contiguous and caught up.
LEMMA GapInvariant == Spec => [](Framed /\ GapInv)
<1>1. Init => Framed /\ GapInv
  BY ShapeInit, GapInit DEF Shape
<1> QED
  BY <1>1, FramedStep, GapStep, PTL DEF Spec

\* The levels of a store that refuses gaps stay contiguous in every execution,
\* calls that failed between two levels included.
THEOREM LevelsStayContiguous == Spec => []LevelsContiguous
<1>1. GapInv => LevelsContiguous
  BY DEF GapInv
<1> QED
  BY <1>1, GapInvariant, PTL

-----------------------------------------------------------------------------
(* A level left behind. *)

\* A gap below a position is a gap below every later position.
LEMMA GapGrows ==
  ASSUME NEW l \in Levels, NEW m \in Nat, NEW n \in Nat, m <= n,
         Contiguous(l), Gap(l, Shr(m, l))
  PROVE  Gap(l, Shr(n, l))
<1>1. Shr(m, l) \in Nat /\ Shr(n, l) \in Nat /\ Shr(m, l) <= Shr(n, l)
  BY ShrType, ShrMonotone
<1>2. Shr(m, l) > 0 /\ Shr(m, l) - 1 \notin DOMAIN nodes[l]
  BY DEF Gap
<1>3. ASSUME Shr(n, l) - 1 \in DOMAIN nodes[l] PROVE FALSE
  <2>1. 0..(Shr(n, l) - 1) \subseteq DOMAIN nodes[l]
    BY <1>3 DEF Contiguous, Solid
  <2>2. Shr(m, l) - 1 \in 0..(Shr(n, l) - 1)
    BY <1>1, <1>2
  <2> QED
    BY <1>2, <2>1, <2>2
<1> QED
  BY <1>1, <1>2, <1>3 DEF Gap

\* A level behind the leaves stays behind, and the step does not complete a call.
LEMMA BehindStep ==
  ASSUME Framed, GapInv, [Next]_vars, RejectGaps, Behind
  PROVE  Behind' /\ ~(status = "Hashing" /\ status' = "Ok")
<1>1. PICK l \in Levels : Gap(l, Shr(Frontier, l))
  BY DEF Behind
<1>2. DOMAIN nodes = Levels /\ Contiguous(l)
  BY DEF Framed, TypeOK, GapInv, LevelsContiguous, Contiguous, Solid
<1>3. /\ Frontier = (IF status = "Hashing" THEN base ELSE numLeaves)
      /\ Frontier' = (IF status' = "Hashing" THEN base' ELSE numLeaves')
  BY DEF Frontier, Idle
<1>4. base \in Nat /\ numLeaves \in Nat /\ base <= numLeaves
  BY CapacityType DEF Framed, TypeOK
<1>5. ASSUME NEW batch \in Batches, AddStart(batch)
      PROVE  Behind' /\ status # "Hashing"
  <2>1. /\ status # "Hashing" /\ status' = "Hashing" /\ base' = numLeaves
    BY <1>5 DEF AddStart, Idle
  <2>2. /\ numLeaves \in Nat /\ 0 \in Levels /\ Shr(numLeaves, 0) = numLeaves
        /\ Len(batch) \in Nat /\ DOMAIN batch = 1..Len(batch)
        /\ Put(0, numLeaves, batch) /\ ~Gap(0, numLeaves)
    BY <1>5, StepPuts
  <2>3. l # 0
    BY <1>1, <1>3, <2>1, <2>2
  <2>4. nodes'[l] = nodes[l]
    <3>1. \A k \in Levels \ {0} : nodes'[k] = nodes[k]
      BY <1>2, <2>2, PutEffect
    <3> QED
      BY <2>3, <3>1
  <2>5. Frontier' = Frontier
    BY <1>3, <2>1
  <2> QED
    BY <1>1, <2>1, <2>4, <2>5 DEF Behind, Gap
<1>6. CASE HashLevel
  <2>1. /\ start \div 2 \in Nat /\ level + 1 \in Levels /\ level \in InnerLevels
        /\ start \div 2 = Shr(base, level + 1)
        /\ NumParents \in Nat /\ DOMAIN Parents = 1..NumParents
        /\ Put(level + 1, start \div 2, Parents) /\ ~Gap(level + 1, start \div 2)
    BY <1>6, StepPuts
  <2>2. /\ status = "Hashing" /\ base' = base
        /\ status' = IF level + 1 = DEPTH THEN "Ok" ELSE "Hashing"
    BY <1>6 DEF HashLevel
  <2>3. Gap(l, Shr(base, l))
    BY <1>1, <1>3, <2>2
  <2>4. l # level + 1
    BY <2>1, <2>3
  <2>5. ~(l <= level)
    BY <2>2, <2>3 DEF GapInv, CaughtUp
  <2>6. level + 1 # DEPTH
    BY <2>1, <2>4, <2>5, DepthAssumption DEF Levels, InnerLevels
  <2>7. nodes'[l] = nodes[l]
    <3>1. \A k \in Levels \ {level + 1} : nodes'[k] = nodes[k]
      BY <1>2, <2>1, PutEffect
    <3> QED
      BY <2>4, <3>1
  <2>8. Frontier' = Frontier
    BY <1>3, <2>2, <2>6
  <2> QED
    BY <1>1, <2>2, <2>6, <2>7, <2>8 DEF Behind, Gap
<1>7. CASE HashLevelFails
  <2>1. /\ status = "Hashing" /\ status' = "StoreError"
        /\ nodes' = nodes /\ numLeaves' = numLeaves
    BY <1>7 DEF HashLevelFails, LevelFails, store
  <2>2. Gap(l, Shr(numLeaves, l))
    BY <1>1, <1>2, <1>3, <1>4, <2>1, GapGrows
  <2>3. Frontier' = numLeaves
    BY <1>3, <2>1
  <2> QED
    BY <2>1, <2>2, <2>3 DEF Behind, Gap
<1>8. CASE UNCHANGED store /\ status # "Hashing" /\ status' # "Hashing"
  <2>1. Frontier' = Frontier /\ nodes' = nodes
    BY <1>3, <1>8 DEF store
  <2> QED
    BY <1>1, <1>8, <2>1 DEF Behind, Gap
<1>9. CASE UNCHANGED vars
  <2>1. Frontier' = Frontier /\ nodes' = nodes /\ status' = status
    BY <1>9 DEF vars, store, locals, Frontier, Idle
  <2> QED
    BY <1>1, <2>1 DEF Behind, Gap
<1> QED
  BY <1>5, <1>6, <1>7, <1>8, <1>9
     DEF Next, AddLeaves, AddNothing, AddTreeFull, AddStartFails, EntryFails, Idle

\* Once a level is behind the leaves it stays behind, and no call returns Ok.
THEOREM NoCallCompletesBehind == Spec => BehindForever
<1>1. Framed /\ GapInv /\ [Next]_vars =>
        [ RejectGaps /\ Behind => Behind' /\ ~(status = "Hashing" /\ status' = "Ok") ]_vars
  BY BehindStep
<1> QED
  BY <1>1, GapInvariant, PTL DEF Spec, BehindForever

-----------------------------------------------------------------------------
(* From here on the store reports no I/O error, and so can fail only by       *)
(* refusing a run that would leave a hole: no run is refused, the store is a  *)
(* Merkle tree between calls, its root is the one recomputed from the leaves, *)
(* and every position has a valid proof.                                      *)

-----------------------------------------------------------------------------
(* The store has no holes. *)

\* Level l is stored as far as n leaves reach.
StoredUpTo(n, l) ==
  \A i \in Nat : 0 < n /\ i <= Shr(n - 1, l) => i \in DOMAIN nodes[l]

\* Inside a call the levels above the current one lack the batch.
NoHoles ==
  /\ status # "Hashing" => \A l \in Levels : StoredUpTo(numLeaves, l)
  /\ status = "Hashing" =>
       \A l \in Levels : /\ l <= level => StoredUpTo(numLeaves, l)
                         /\ l > level => StoredUpTo(base, l)

Intact ==
  /\ status # "StoreError"
  /\ NoHoles
  /\ status = "Hashing" => SoundLeftOf(base)
  /\ status # "Hashing" => \A l \in InnerLevels : \A i \in Nat : ParentAgrees(l, i)

\* A run that starts where n leaves end is not refused.
LEMMA NotRejected ==
  ASSUME NEW n \in Nat, NEW l \in Levels, StoredUpTo(n, l)
  PROVE  ~Rejects(l, Shr(n, l))
<1> SUFFICES ASSUME Shr(n, l) > 0 PROVE Shr(n, l) - 1 \in DOMAIN nodes[l]
  BY DEF Rejects, Gap
<1>1. Shr(n, l) \in Nat /\ Shr(n, l) <= n
  BY ShrType
<1>2. n > 0
  BY <1>1
<1>3. Shr(n, l) - 1 <= Shr(n - 1, l)
  BY <1>2, ShrMonotone
<1>4. Shr(n, l) - 1 \in Nat
  BY <1>1
<1> QED
  BY <1>2, <1>3, <1>4 DEF StoredUpTo

\* An empty tree is intact.
LEMMA IntactInit == Init => Intact
<1> SUFFICES ASSUME Init PROVE Intact
  OBVIOUS
<1>1. NoHoles
  BY DEF Init, NoHoles, StoredUpTo
<1>2. ASSUME NEW l \in InnerLevels, NEW i \in Nat PROVE ParentAgrees(l, i)
  <2>1. l \in Levels /\ l + 1 \in Levels
    BY DepthAssumption DEF InnerLevels, Levels
  <2>2. DOMAIN nodes[l] = {} /\ DOMAIN nodes[l + 1] = {}
    BY <2>1 DEF Init
  <2>3. Zeros[l + 1] = Hash(Zeros[l], Zeros[l])
    BY ZerosRec DEF InnerLevels
  <2> QED
    BY <2>2, <2>3 DEF ParentAgrees, NodeAt
<1> QED
  BY <1>1, <1>2 DEF Init, Intact

\* Entering add_leaves keeps the tree intact.
LEMMA IntactAddStart ==
  ASSUME Shape, Intact, NEW batch \in Batches, AddStart(batch)
  PROVE  Intact'
<1> DEFINE n == Len(batch)
<1>1. /\ n \in Nat /\ n > 0 /\ DOMAIN batch = 1..n /\ numLeaves \in Nat
      /\ 0 \in Levels /\ DOMAIN nodes = Levels /\ Put(0, numLeaves, batch)
      /\ base' = numLeaves /\ level' = 0 /\ status' = "Hashing"
      /\ status # "Hashing"
  BY BatchType, CapacityType, DepthAssumption
     DEF AddStart, Shape, Framed, TypeOK, Levels, Idle
<1> HIDE DEF n
<1>2. /\ \A k \in Levels \ {0} : nodes'[k] = nodes[k]
      /\ DOMAIN nodes'[0] = DOMAIN nodes[0] \cup numLeaves..(numLeaves + n - 1)
      /\ numLeaves' = Larger(numLeaves, numLeaves + n)
  <2>2. \A k \in Levels \ {0} : nodes'[k] = nodes[k]
    BY <1>1, PutEffect
  <2>3. DOMAIN nodes'[0] = DOMAIN nodes[0] \cup numLeaves..(numLeaves + n - 1)
    BY <1>1, PutEffect
  <2>4. numLeaves' = Larger(numLeaves, numLeaves + n)
    BY <1>1, PutEffect
  <2> QED
    BY <2>2, <2>3, <2>4
<1>3. numLeaves' = numLeaves + n
  BY <1>1, <1>2 DEF Larger
<1>4. \A l \in Levels : StoredUpTo(numLeaves, l)
  BY <1>1 DEF Intact, NoHoles
<1>5. NoHoles'
  <2>1. ASSUME NEW m, m = numLeaves + n PROVE StoredUpTo(m, 0)'
    <3> SUFFICES ASSUME NEW i \in Nat, 0 < m, i <= Shr(m - 1, 0)
                 PROVE  i \in DOMAIN nodes'[0]
      BY DEF StoredUpTo
    <3>1. Shr(m - 1, 0) = m - 1
      BY <1>1, <2>1, ShrRec
    <3>2. CASE i < numLeaves
      <4>1. Shr(numLeaves - 1, 0) = numLeaves - 1
        BY <1>1, <3>2, ShrRec
      <4> QED
        BY <1>1, <1>2, <1>4, <3>2, <4>1 DEF StoredUpTo
    <3>3. CASE i >= numLeaves
      BY <1>1, <1>2, <2>1, <3>1, <3>3
    <3> QED
      BY <1>1, <3>2, <3>3
  <2>2. ASSUME NEW l \in Levels, l # 0, NEW m, m = numLeaves PROVE StoredUpTo(m, l)'
    BY <1>2, <1>4, <2>2 DEF StoredUpTo
  <2>3. \A l \in Levels : l <= 0 => l = 0
    BY DepthAssumption DEF Levels
  <2> QED
    BY <1>1, <1>3, <2>1, <2>2, <2>3 DEF NoHoles, StoredUpTo
<1>6. SoundLeftOf(base)'
  <2>1. Frontier = numLeaves
    BY <1>1 DEF Frontier, Idle
  <2>2. \A l \in Levels : \A i \in Nat :
          i < Shr(numLeaves, l) => NodeAt(l, i)' = NodeAt(l, i)
    <3>1. [Next]_vars
      BY DEF Next, AddLeaves
    <3> QED
      BY <2>1, <3>1, FrontierStep DEF Shape
  <2>3. \A l \in InnerLevels : \A i \in 0..(Shr(numLeaves, l + 1) - 1) :
          ParentAgrees(l, i)' <=> ParentAgrees(l, i)
    BY <1>1, <2>2, SoundKept
  <2>4. \A l \in InnerLevels : Shr(numLeaves, l + 1) \in Nat
    <3>1. \A l \in InnerLevels : l + 1 \in Levels
      BY DepthAssumption DEF InnerLevels, Levels
    <3> QED
      BY <1>1, <3>1, ShrType
  <2> QED
    BY <1>1, <2>3, <2>4 DEF SoundLeftOf, Intact
<1> QED
  BY <1>1, <1>5, <1>6 DEF Intact

\* An iteration of the loop of add_leaves keeps the tree intact.
LEMMA IntactHashLevel ==
  ASSUME Shape, Content, Intact, HashLevel
  PROVE  Intact'
<1> DEFINE first == start \div 2
<1>1. /\ status = "Hashing" /\ level \in InnerLevels /\ level + 1 \in Levels
      /\ first \in Nat /\ NumParents \in Nat /\ first = Shr(base, level + 1)
      /\ first + NumParents - 1 = Shr(numLeaves - 1, level + 1)
      /\ base \in Nat /\ numLeaves \in Nat /\ level' = level + 1 /\ base' = base
      /\ status' \in {"Ok", "Hashing"}
      /\ status' = "Ok" => level + 1 = DEPTH
      /\ DOMAIN nodes = Levels /\ DOMAIN Parents = 1..NumParents
      /\ Put(level + 1, first, Parents)
  <2>1. status = "Hashing"
    BY DEF HashLevel
  <2> QED
    BY <2>1, NextRun, WrittenType DEF HashLevel, Shape, Framed, TypeOK
<1> HIDE DEF first
<1>2. /\ \A k \in Levels \ {level + 1} : nodes'[k] = nodes[k]
      /\ DOMAIN nodes'[level + 1] =
           DOMAIN nodes[level + 1] \cup first..(first + NumParents - 1)
      /\ numLeaves' = numLeaves
  <2>1. level + 1 # 0
    BY <1>1, DepthAssumption DEF InnerLevels
  <2> QED
    BY <1>1, <2>1, PutEffect
<1>3. NoHoles'
  <2>1. ASSUME NEW l, l = level + 1, NEW m, m = numLeaves PROVE StoredUpTo(m, l)'
    <3> SUFFICES ASSUME NEW i \in Nat, i <= Shr(m - 1, l)
                 PROVE  i \in DOMAIN nodes'[l]
      BY DEF StoredUpTo
    <3>1. i <= first + NumParents - 1
      BY <1>1, <2>1
    <3>2. CASE i >= first
      BY <1>1, <1>2, <2>1, <3>1, <3>2
    <3>3. CASE i < first
      <4>1. Shr(base, l) > 0 /\ Shr(base, l) \in Nat /\ l \in Levels
        BY <1>1, <2>1, <3>3
      <4>2. base > 0
        BY <1>1, <4>1, ShrType
      <4>3. Shr(base, l) - 1 <= Shr(base - 1, l)
        BY <1>1, <4>1, <4>2, ShrMonotone
      <4>4. Shr(base - 1, l) \in Nat
        <5>1. base - 1 \in Nat
          BY <1>1, <4>2
        <5> QED
          BY <4>1, <5>1, ShrType
      <4>5. StoredUpTo(base, l)
        BY <1>1, <2>1, <4>1, DepthAssumption DEF Intact, NoHoles, InnerLevels
      <4>6. i \in DOMAIN nodes[l]
        BY <1>1, <2>1, <3>3, <4>1, <4>2, <4>3, <4>4, <4>5 DEF StoredUpTo
      <4> QED
        BY <1>2, <2>1, <4>6
    <3> QED
      BY <1>1, <3>2, <3>3
  <2>2. ASSUME NEW l \in Levels, l <= level, NEW m, m = numLeaves
        PROVE  StoredUpTo(m, l)'
    <3>1. l # level + 1 /\ StoredUpTo(m, l)
      BY <1>1, <2>2, DepthAssumption DEF Intact, NoHoles, Levels, InnerLevels
    <3> QED
      BY <1>2, <3>1 DEF StoredUpTo
  <2>3. ASSUME NEW l \in Levels, l > level + 1, NEW m, m = base
        PROVE  StoredUpTo(m, l)'
    <3>1. l # level + 1 /\ StoredUpTo(m, l)
      BY <1>1, <2>3, DepthAssumption DEF Intact, NoHoles, Levels, InnerLevels
    <3> QED
      BY <1>2, <3>1 DEF StoredUpTo
  <2>4. /\ \A l \in Levels : l <= level + 1 => l <= level \/ l = level + 1
        /\ level + 1 = DEPTH => \A l \in Levels : l <= level + 1
    BY <1>1, DepthAssumption DEF Levels, InnerLevels
  <2>5. \A l \in Levels : \A m : m = numLeaves /\ l <= level + 1 => StoredUpTo(m, l)'
    BY <2>1, <2>2, <2>4
  <2>6. \A l \in Levels : \A m : m = base /\ l > level + 1 => StoredUpTo(m, l)'
    BY <2>3
  <2> QED
    BY <1>1, <1>2, <2>4, <2>5, <2>6 DEF NoHoles, StoredUpTo
<1>4. SoundLeftOf(base)'
  <2>1. \A l \in Levels : \A i \in Nat :
          i < Shr(base, l) => NodeAt(l, i)' = NodeAt(l, i)
    BY HashLevelReads DEF Shape
  <2>2. \A l \in InnerLevels : \A i \in 0..(Shr(base, l + 1) - 1) :
          ParentAgrees(l, i)' <=> ParentAgrees(l, i)
    BY <1>1, <2>1, SoundKept
  <2> QED
    BY <1>1, <2>2 DEF SoundLeftOf, Intact
<1>5. status' # "Hashing" => \A l \in InnerLevels : \A i \in Nat : ParentAgrees(l, i)'
  <2> SUFFICES ASSUME status' # "Hashing", NEW l \in InnerLevels, NEW i \in Nat
               PROVE  ParentAgrees(l, i)'
    OBVIOUS
  <2>1. LevelsAgree'
    BY ContentHashLevel DEF Content
  <2>2. l \in 0..(level' - 1)
    BY <1>1 DEF InnerLevels
  <2> QED
    BY <1>4, <2>1, <2>2 DEF LevelsAgree
<1> QED
  BY <1>1, <1>3, <1>4, <1>5 DEF Intact

\* Over a store that reports no error every step keeps the tree intact.
THEOREM IntactStep ==
  ASSUME ~StoreMayFail
  PROVE  Shape /\ Content /\ Intact /\ [Next]_vars => Intact'
<1> SUFFICES ASSUME Shape, Content, Intact, [Next]_vars PROVE Intact'
  OBVIOUS
<1>1. CASE UNCHANGED store /\ status # "Hashing" /\ status' \in {"Ok", "TreeFull"}
  <2>1. \A l, i : ParentAgrees(l, i)' <=> ParentAgrees(l, i)
    BY <1>1 DEF store, ParentAgrees, NodeAt
  <2>2. NoHoles'
    BY <1>1 DEF store, Intact, NoHoles, StoredUpTo
  <2> QED
    BY <1>1, <2>1, <2>2 DEF Intact
<1>2. ASSUME NEW batch \in Batches, AddStart(batch) PROVE Intact'
  BY <1>2, IntactAddStart
<1>3. ASSUME NEW batch \in Batches, AddStartFails(batch) PROVE FALSE
  <2>1. status # "Hashing" /\ Rejects(0, numLeaves)
    BY <1>3 DEF AddStartFails, EntryFails, Idle
  <2>2. numLeaves \in Nat /\ 0 \in Levels
    BY CapacityType, DepthAssumption DEF Shape, Framed, TypeOK, Levels
  <2>3. Shr(numLeaves, 0) = numLeaves /\ StoredUpTo(numLeaves, 0)
    BY <2>1, <2>2, ShrRec DEF Intact, NoHoles
  <2> QED
    BY <2>1, <2>2, <2>3, NotRejected
<1>4. CASE HashLevel
  BY <1>4, IntactHashLevel
<1>5. CASE HashLevelFails
  <2>1. status = "Hashing" /\ Rejects(level + 1, start \div 2)
    BY <1>5 DEF HashLevelFails, LevelFails
  <2>2. /\ base \in Nat /\ level + 1 \in Levels /\ level \in InnerLevels
        /\ start \div 2 = Shr(base, level + 1)
    BY <2>1, NextRun DEF Shape
  <2>3. StoredUpTo(base, level + 1)
    BY <2>1, <2>2, DepthAssumption DEF Intact, NoHoles, InnerLevels
  <2> QED
    BY <2>1, <2>2, <2>3, NotRejected
<1>6. CASE UNCHANGED vars
  <2>1. \A l, i : ParentAgrees(l, i)' <=> ParentAgrees(l, i)
    BY <1>6 DEF vars, store, ParentAgrees, NodeAt
  <2> QED
    BY <1>6, <2>1
       DEF vars, store, locals, Intact, NoHoles, StoredUpTo, SoundLeftOf
<1> QED
  BY <1>1, <1>2, <1>3, <1>4, <1>5, <1>6
     DEF Next, AddLeaves, AddNothing, AddTreeFull, Idle, store

\* Over a store that reports no error the tree is intact in every execution:
\* no run is refused and what lies left of the run is a Merkle tree.
THEOREM IntactInvariant ==
  ASSUME ~StoreMayFail
  PROVE  Spec => [](Shape /\ Content /\ Intact)
BY ShapeInit, ShapeStep, ContentInit, ContentStep, IntactInit, IntactStep, PTL
   DEF Spec

\* The runs add_leaves emits are contiguous at every level: a store that
\* insists on that refuses none.
THEOREM NeverRefused ==
  ASSUME ~StoreMayFail PROVE Spec => []NeverRejected
<1>1. Intact => NeverRejected
  BY DEF Intact, NeverRejected
<1> QED
  BY <1>1, IntactInvariant, PTL

\* Between calls the store is a Merkle tree.
THEOREM AlwaysConsistent ==
  ASSUME ~StoreMayFail PROVE Spec => []TreeConsistent
<1>1. Intact => TreeConsistent
  <2> SUFFICES ASSUME Intact, status # "Hashing",
                      NEW l \in InnerLevels, NEW i \in Indices(l + 1)
               PROVE  ParentAgrees(l, i)
    BY DEF TreeConsistent, Consistent, Idle
  <2>1. DEPTH - (l + 1) \in Levels
    BY DepthAssumption DEF InnerLevels, Levels
  <2>2. i \in Nat
    BY <2>1, Pow2Type DEF Indices
  <2> QED
    BY <2>2 DEF Intact
<1> QED
  BY <1>1, IntactInvariant, PTL

-----------------------------------------------------------------------------
(* Proofs verify, and with the right leaf only. *)

\* The nodes of the store, as read.
Reading == [l \in Levels |-> [i \in Nat |-> NodeAt(l, i)]]

\* When every parent agrees with its children, what is read is a tree.
LEMMA ReadingHashed ==
  ASSUME \A l \in InnerLevels : \A i \in Nat : ParentAgrees(l, i)
  PROVE  /\ Hashed(Reading)
         /\ \A l \in Levels : \A i \in Nat : Reading[l][i] = NodeAt(l, i)
<1>1. ASSUME NEW l \in Levels, NEW i \in Nat PROVE Reading[l][i] = NodeAt(l, i)
  BY DEF Reading
<1>2. ASSUME NEW l \in InnerLevels, NEW i \in Nat
      PROVE  Reading[l + 1][i] = Hash(Reading[l][2 * i], Reading[l][2 * i + 1])
  <2>1. l \in Levels /\ l + 1 \in Levels /\ 2 * i \in Nat /\ 2 * i + 1 \in Nat
    BY DepthAssumption DEF InnerLevels, Levels
  <2> QED
    BY <1>1, <2>1 DEF ParentAgrees
<1> QED
  BY <1>1, <1>2 DEF Hashed, InnerLevels

\* Every position of the tree has a proof that verifies and carries its leaf.
THEOREM EveryProofVerifies ==
  ASSUME ~StoreMayFail PROVE Spec => []ProofsVerify
<1>1. Shape /\ Intact => ProofsVerify
  <2> SUFFICES ASSUME Shape, Intact, status # "Hashing",
                      NEW i \in 0..(Capacity - 1)
               PROVE  /\ VerifyProof(Proof(i))
                      /\ Proof(i).leaf = IF i < numLeaves THEN nodes[0][i] ELSE ZERO
    BY DEF ProofsVerify, Idle
  <2>1. i \in Nat /\ numLeaves \in Nat /\ 0 \in Levels /\ DEPTH \in Levels
    BY CapacityType, DepthAssumption DEF Shape, Framed, TypeOK, Levels
  <2>2. Shr(i, DEPTH) = 0
    <3>1. ASSUME NEW n \in Nat, NEW p \in Nat, p > 0, n < p PROVE n \div p = 0
      BY <3>1, Z3
    <3>2. i < Capacity
      BY CapacityType
    <3> QED
      BY <2>1, <3>1, <3>2, CapacityType DEF Shr, Capacity
  <2>3. VerifyProof(Proof(i))
    <3>1. /\ Hashed(Reading)
          /\ \A l \in Levels : \A k \in Nat : Reading[l][k] = NodeAt(l, k)
      BY ReadingHashed DEF Intact
    <3>2. SiblingsOf(Reading, i, Proof(i).proof)
      <4> SUFFICES ASSUME NEW l \in 0..(DEPTH - 1)
                   PROVE  Proof(i).proof[l] = Reading[l][Sibling(Shr(i, l))]
        BY DEF SiblingsOf
      <4>1. Shr(i, l) \in Nat /\ l \in Levels
        BY <2>1, ShrType, DepthAssumption DEF Levels
      <4>2. Sibling(Shr(i, l)) \in Nat
        BY <4>1, SiblingPair
      <4>3. Proof(i).proof[l] = NodeAt(l, Sibling(Shr(i, l)))
        BY DEF Proof
      <4> QED
        BY <3>1, <4>1, <4>2, <4>3
    <3>3. Climb(Reading[0][i], i, Proof(i).proof)[DEPTH] = Reading[DEPTH][Shr(i, DEPTH)]
      BY <2>1, <3>1, <3>2, ClimbReads
    <3> QED
      BY <2>1, <2>2, <3>1, <3>3 DEF VerifyProof, Proof, Root
  <2>4. NodeAt(0, i) = IF i < numLeaves THEN nodes[0][i] ELSE ZERO
    <3>1. CASE i < numLeaves
      <4>1. Shr(numLeaves - 1, 0) = numLeaves - 1
        BY <2>1, <3>1, ShrRec
      <4>2. i \in DOMAIN nodes[0]
        BY <2>1, <3>1, <4>1 DEF Intact, NoHoles, StoredUpTo
      <4> QED
        BY <3>1, <4>2 DEF NodeAt
    <3>2. CASE i >= numLeaves
      <4>1. i \notin DOMAIN nodes[0]
        <5> SUFFICES ASSUME i \in DOMAIN nodes[0] PROVE FALSE
          OBVIOUS
        <5>1. 0 < numLeaves /\ i <= Shr(numLeaves - 1, 0)
          BY <2>1 DEF Shape, StoreShape
        <5>2. Shr(numLeaves - 1, 0) = numLeaves - 1
          BY <2>1, <5>1, ShrRec
        <5> QED
          BY <2>1, <3>2, <5>1, <5>2
      <4> QED
        BY <2>1, <3>2, <4>1, ZerosRec DEF NodeAt
    <3> QED
      BY <2>1, <3>1, <3>2
  <2> QED
    BY <2>3, <2>4 DEF Proof
<1> QED
  BY <1>1, IntactInvariant, PTL

-----------------------------------------------------------------------------
(* A verified proof has the right leaf, if no two pairs of nodes collide. *)

\* A proof that verifies against the current root carries the leaf stored at its
\* index, also when its leaf or its index is not the one proof() gave it.
THEOREM ProofsPinLeaves ==
  ASSUME ~StoreMayFail, CollisionFree PROVE Spec => []ProofPinsLeaf
<1>1. Intact => ProofPinsLeaf
  <2> SUFFICES ASSUME Intact, status # "Hashing",
                      NEW i \in 0..(Capacity - 1), NEW j \in 0..(Capacity + 1),
                      NEW v \in Leaf \cup {ZERO},
                      VerifyProof([Proof(i) EXCEPT !.leaf = v, !.index = j])
               PROVE  v = NodeAt(0, j % Capacity)
    BY Zenon DEF ProofPinsLeaf, Idle
  <2>1. j \in Nat
    BY CapacityType
  <2>2. Climb(v, j, Proof(i).proof)[DEPTH] = NodeAt(DEPTH, 0)
    BY DEF VerifyProof, Proof, Root
  <2>3. /\ Hashed(Reading) /\ Reading[DEPTH][0] = NodeAt(DEPTH, 0)
        /\ Reading[0][j % Capacity] = NodeAt(0, j % Capacity)
    <3>1. 0 \in Levels /\ DEPTH \in Levels /\ j % Capacity \in Nat
      BY <2>1, CapacityType, DepthAssumption DEF Levels
    <3> QED
      BY <3>1, ReadingHashed DEF Intact
  <2>4. v = Reading[0][j % Capacity]
    BY <2>1, <2>2, <2>3, ClimbPinned
  <2> QED
    BY <2>3, <2>4
<1> QED
  BY <1>1, IntactInvariant, PTL

-----------------------------------------------------------------------------
(* The tree implements the append-only log. *)

\* The stored leaves are leaves the callers appended.
LeavesStored == \A i \in DOMAIN nodes[0] : nodes[0][i] \in Leaf

\* Level 0 holds exactly the leaves counted, through every step.
LEMMA LeavesStoredStep == Shape /\ LeavesStored /\ [Next]_vars => LeavesStored'
<1> SUFFICES ASSUME Shape, LeavesStored, [Next]_vars PROVE LeavesStored'
  OBVIOUS
<1>1. ASSUME NEW batch \in Batches, AddStart(batch) PROVE LeavesStored'
  <2>1. PICK k \in 0..MaxBatch : batch \in [1..k -> Leaf]
    BY DEF Batches
  <2>2. /\ k \in Nat /\ DOMAIN batch = 1..k /\ 0 \in Levels /\ numLeaves \in Nat
        /\ DOMAIN nodes = Levels /\ Put(0, numLeaves, batch)
    BY <1>1, <2>1, TreeAssumption, DepthAssumption, CapacityType
       DEF AddStart, Shape, Framed, TypeOK, Levels
  <2>3. nodes'[0] =
          [i \in DOMAIN nodes[0] \cup numLeaves..(numLeaves + k - 1) |->
             IF i \in numLeaves..(numLeaves + k - 1)
             THEN batch[i - numLeaves + 1] ELSE nodes[0][i]]
    BY <2>2 DEF Put
  <2>4. \A i \in numLeaves..(numLeaves + k - 1) : i - numLeaves + 1 \in 1..k
    BY <2>2
  <2> QED
    BY <2>1, <2>3, <2>4 DEF LeavesStored
<1>2. CASE HashLevel
  <2>1. level + 1 # 0 /\ DOMAIN nodes = Levels
    <3>1. status = "Hashing" /\ DOMAIN nodes = Levels
      BY <1>2 DEF HashLevel, Shape, Framed, TypeOK
    <3>2. level \in InnerLevels
      BY <3>1, NextRun DEF Shape
    <3> QED
      BY <3>1, <3>2, DepthAssumption DEF InnerLevels
  <2>2. nodes'[0] = nodes[0]
    BY <1>2, <2>1 DEF HashLevel, Put
  <2> QED
    BY <2>2 DEF LeavesStored
<1>3. CASE UNCHANGED store
  BY <1>3 DEF store, LeavesStored
<1> QED
  BY <1>1, <1>2, <1>3
     DEF Next, AddLeaves, AddNothing, AddTreeFull, AddStartFails, EntryFails,
         HashLevelFails, LevelFails, vars, store

\* Between calls every node, as read, is the one recomputed from the leaves.
LEMMA NodesRecomputed ==
  ASSUME Shape, Intact, status # "Hashing"
  PROVE  \A l \in Levels : \A i \in Nat :
           NodeAt(l, i) = FullTree(CommittedLeaves)[l][i]
<1> DEFINE log == CommittedLeaves
<1>1. numLeaves \in Nat /\ log = StoredLeaves
  BY CapacityType DEF Shape, Framed, TypeOK, CommittedLeaves, StoredLeaves, Frontier, Idle
<1>2. StoredUpTo(numLeaves, 0)
  BY DepthAssumption DEF Intact, NoHoles, Levels
<1>3. \A i \in Nat : i < numLeaves => i \in DOMAIN nodes[0]
  BY <1>1, <1>2, ShrRec DEF StoredUpTo
<1>4. Len(log) = numLeaves
  BY <1>1 DEF StoredLeaves
<1>5. /\ Hashed(Reading)
      /\ \A l \in Levels : \A i \in Nat : Reading[l][i] = NodeAt(l, i)
  BY ReadingHashed DEF Intact
<1>6. TreeOver(Reading, log)
  <2>1. \A i \in Nat : Reading[0][i] = NodeAt(0, i)
    BY <1>5, DepthAssumption DEF Levels
  <2>2. \A i \in Nat : NodeAt(0, i) = IF i < numLeaves THEN log[i + 1] ELSE ZERO
    BY <1>1, <1>3, LeafRead DEF Shape
  <2> HIDE DEF log
  <2> QED
    BY <1>4, <1>5, <2>1, <2>2 DEF TreeOver
<1> HIDE DEF log
<1>7. \A l \in Levels : \A i \in Nat : Reading[l][i] = FullTree(log)[l][i]
  BY <1>6, TreeRecomputed
<1> QED
  BY <1>5, <1>7 DEF log

RootCommitted == Root = ReferenceRoot(CommittedLeaves)
RootRight == status # "Hashing" => RootCommitted

\* In a consistent tree the stored root is the root recomputed from the leaves.
LEMMA RootRecomputed ==
  ASSUME Shape, Intact, status # "Hashing"
  PROVE  RootCommitted
<1>1. DEPTH \in Levels /\ 0 \in Nat
  BY DepthAssumption DEF Levels
<1> QED
  BY <1>1, NodesRecomputed DEF RootCommitted, Root, ReferenceRoot

\* A step that does not complete a call leaves the committed leaves and the
\* root as they are.
LEMMA SilentStep ==
  ASSUME Shape, Content, Intact, [Next]_vars, ~(status = "Hashing" /\ status' = "Ok"),
         ~StoreMayFail
  PROVE  CommittedLeaves' = CommittedLeaves /\ Root' = Root
<1>1. 0 \in Levels
  BY DepthAssumption DEF Levels
<1>2. Root' = Root
  BY RootStep DEF Root, NodeAt, Shape
<1>3. Frontier' = Frontier
  <2>1. status' # "StoreError"
    BY IntactStep DEF Intact
  <2> QED
    BY <2>1 DEF Frontier, Idle, Next, AddNothing, AddLeaves, AddTreeFull, AddStart,
                AddStartFails, EntryFails, HashLevel, HashLevelFails, LevelFails, vars,
                store, locals
<1>4. Frontier \in Nat
  BY FrontierStep DEF Shape
<1>5. \A k \in 1..Frontier : nodes'[0][k - 1] = nodes[0][k - 1]
  <2>1. ASSUME NEW batch \in Batches, AddStart(batch), NEW k \in 1..Frontier
        PROVE  nodes'[0][k - 1] = nodes[0][k - 1]
    <3> DEFINE n == Len(batch)
    <3>1. /\ Frontier = numLeaves /\ numLeaves \in Nat /\ n \in Nat
          /\ status # "Hashing" /\ DOMAIN nodes = Levels /\ Put(0, numLeaves, batch)
      BY <2>1, BatchType, CapacityType DEF AddStart, Shape, Framed, TypeOK, Frontier, Idle
    <3>2. DOMAIN batch = 1..n /\ 0 \in Levels
      BY BatchType, DepthAssumption DEF Levels
    <3> HIDE DEF n
    <3>3. k - 1 \in Nat /\ k - 1 <= numLeaves - 1 /\ 0 < numLeaves
      BY <1>4, <2>1, <3>1
    <3>4. k - 1 \in DOMAIN nodes[0]
      BY <1>1, <3>1, <3>3, ShrRec DEF Intact, NoHoles, StoredUpTo
    <3>5. k - 1 \notin numLeaves..(numLeaves + n - 1)
      BY <3>1, <3>3
    <3>6. \A i \in DOMAIN nodes[0] :
            i \notin numLeaves..(numLeaves + n - 1) => nodes'[0][i] = nodes[0][i]
      BY <3>1, <3>2, PutEffect
    <3> QED
      BY <3>4, <3>5, <3>6
  <2>2. ASSUME HashLevel PROVE nodes'[0] = nodes[0]
    <3>1. status = "Hashing" /\ DOMAIN nodes = Levels
      BY <2>2 DEF HashLevel, Shape, Framed, TypeOK
    <3>2. level \in InnerLevels
      BY <3>1, NextRun DEF Shape
    <3>3. level + 1 # 0
      BY <3>2, DepthAssumption DEF InnerLevels
    <3> QED
      BY <1>1, <2>2, <3>1, <3>3 DEF HashLevel, Put
  <2>3. ASSUME UNCHANGED store PROVE nodes'[0] = nodes[0]
    BY <2>3 DEF store
  <2> QED
    BY <2>1, <2>2, <2>3
       DEF Next, AddLeaves, AddNothing, AddTreeFull, AddStartFails, EntryFails,
           HashLevelFails, LevelFails, vars, store
<1>6. CommittedLeaves' = CommittedLeaves
  BY <1>3, <1>5 DEF CommittedLeaves
<1> QED
  BY <1>2, <1>6

\* The step that completes a call appends its batch to the log.
LEMMA CommitStep ==
  ASSUME Shape, Content, Intact, LeavesStored, [Next]_vars,
         status = "Hashing", status' = "Ok", RootRight'
  PROVE  Abstract!AppendBatch
<1>1. HashLevel
  BY DEF Next, AddNothing, AddLeaves, AddTreeFull, AddStart, AddStartFails, EntryFails,
         HashLevelFails, LevelFails, Idle, vars
<1>2. /\ base \in Nat /\ numLeaves \in Nat /\ base < numLeaves /\ numLeaves <= Capacity
      /\ numLeaves' = numLeaves /\ nodes'[0] = nodes[0]
      /\ Capacity \in Nat /\ 0 \in Levels
  <2>1. /\ level + 1 \in Levels /\ level + 1 # 0 /\ start \div 2 \in Nat
        /\ NumParents \in Nat /\ DOMAIN Parents = 1..NumParents
        /\ Put(level + 1, start \div 2, Parents) /\ DOMAIN nodes = Levels
        /\ 0 \in Levels
    <3>1. level \in InnerLevels /\ level + 1 \in Levels /\ start \div 2 \in Nat
      BY NextRun DEF Shape
    <3>2. NumParents \in Nat /\ DOMAIN Parents = 1..NumParents
      BY NextRun, WrittenType DEF Shape
    <3>3. level + 1 # 0 /\ 0 \in Levels
      BY <3>1, DepthAssumption DEF InnerLevels, Levels
    <3>4. DOMAIN nodes = Levels
      BY DEF Shape, Framed, TypeOK
    <3> QED
      BY <1>1, <3>1, <3>2, <3>3, <3>4 DEF HashLevel
  <2>2. numLeaves' = numLeaves /\ nodes'[0] = nodes[0]
    BY <2>1, PutEffect
  <2>3. Len(leaves) > 0 /\ base + Len(leaves) = numLeaves /\ Len(leaves) \in Nat
    BY NextRun DEF Shape, Framed, RunShape
  <2> QED
    BY <2>1, <2>2, <2>3, CapacityType DEF Shape, Framed, TypeOK
<1>3. /\ CommittedLeaves = [k \in 1..base |-> nodes[0][k - 1]]
      /\ CommittedLeaves' = [k \in 1..numLeaves |-> nodes[0][k - 1]]
  BY <1>2 DEF CommittedLeaves, Frontier, Idle
<1>4. /\ Len(CommittedLeaves) = base
      /\ Len(CommittedLeaves') = numLeaves
  BY <1>2, <1>3
<1>5. CommittedLeaves' \in Seq(Leaf)
  <2>1. ASSUME NEW k \in 1..numLeaves PROVE nodes[0][k - 1] \in Leaf
    <3>1. k - 1 \in Nat /\ k - 1 <= numLeaves - 1 /\ 0 < numLeaves
      BY <1>2
    <3>2. Shr(numLeaves - 1, 0) = numLeaves - 1
      BY <1>2, <3>1, ShrRec
    <3>3. StoredUpTo(numLeaves, 0)
      BY <1>1, <1>2, NextRun DEF Intact, NoHoles, InnerLevels, Shape
    <3> QED
      BY <3>1, <3>2, <3>3 DEF StoredUpTo, LeavesStored
  <2> QED
    BY <1>2, <1>3, <2>1
<1>6. Abstract!IsPrefix(CommittedLeaves, CommittedLeaves')
  BY <1>2, <1>3, <1>4 DEF Abstract!IsPrefix
<1>7. Root' = ReferenceRoot(CommittedLeaves')
  BY DEF RootRight, RootCommitted
<1> QED
  BY <1>2, <1>4, <1>5, <1>6, <1>7 DEF Abstract!AppendBatch

\* The tree, seen through its returned calls and its root, is an append-only
\* log that always shows the root of exactly the leaves in it.
THEOREM TreeImplementsLog ==
  ASSUME ~StoreMayFail PROVE Spec => ImplementsAppendOnlyTree
<1>1. Init => LeavesStored
  BY DepthAssumption DEF Init, LeavesStored, Levels
<1>2. Shape /\ Intact => RootRight
  BY RootRecomputed DEF RootRight
<1>3. Init => Abstract!Init
  <2> SUFFICES ASSUME Init PROVE Abstract!Init
    OBVIOUS
  <2>1. CommittedLeaves = <<>>
    BY DEF Init, CommittedLeaves, Frontier, Idle
  <2>2. RootRight /\ status # "Hashing"
    BY <1>2, ShapeInit, IntactInit DEF Init
  <2> QED
    BY <2>1, <2>2 DEF Abstract!Init, RootRight, RootCommitted
<1>4. Shape /\ Content /\ Intact /\ LeavesStored /\ RootRight' /\ [Next]_vars
        => [Abstract!AppendBatch]_<<CommittedLeaves, Root>>
  BY SilentStep, CommitStep
<1> QED
  BY <1>1, <1>2, <1>3, <1>4, IntactInvariant, LeavesStoredStep, PTL
     DEF Spec, ImplementsAppendOnlyTree, Abstract!Spec
=============================================================================
