--------------------------- MODULE TwoTrees_proof ---------------------------
(***************************************************************************)
(* Proofs about TwoTrees for every depth, hash, batch size and sets of     *)
(* leaves of the two callers.                                              *)
(*                                                                         *)
(* Each tree is an instance of MerkleTree, so what is proved of a step of  *)
(* one tree is available here, under PA! for tree A and PB! for tree B.    *)
(* Both instances allow the leaves of both callers, since a tree has those *)
(* of the other one in its store.                                          *)
(*                                                                         *)
(* Of MerkleTree's layers only Framed survives a neighbour that does not   *)
(* take turns: it speaks of a handle's own locals, and of where nodes may  *)
(* be.  It is enough for AgreedNodesFinal.  In turns, the store between    *)
(* calls is a whole tree, to which any handle that knows the count may be  *)
(* put: that is InTurns, and with it TurnsImplementLog follows from what   *)
(* MerkleTree_proof shows of the steps of a single tree.                   *)
(***************************************************************************)
EXTENDS TwoTrees, TLAPS

\* Tree A.
PA == INSTANCE MerkleTree_proof WITH RejectGaps <- FALSE, StoreMayFail <- FALSE,
  Leaf <- Leaf \cup LeafB

\* Tree B.
PB == INSTANCE MerkleTree_proof WITH RejectGaps <- FALSE, StoreMayFail <- FALSE,
  Leaf <- Leaf \cup LeafB, numLeaves <- numLeavesB, scratch <- scratchB,
  status <- statusB, leaves <- leavesB, base <- baseB, partners <- partnersB,
  level <- levelB, start <- startB, runLen <- runLenB, hashes <- hashesB

-----------------------------------------------------------------------------
(* A step of a tree is a step of the instance the proofs are about: they have *)
(* the same definitions, and the latter allows more leaves.                   *)

\* Both instances compute with the numbers and zeros of this module.
LEMMA ConstantsA ==
  /\ A!Levels = Levels /\ PA!Levels = Levels
  /\ A!Pow2 = Pow2 /\ PA!Pow2 = Pow2
  /\ A!Capacity = Capacity /\ PA!Capacity = Capacity
  /\ A!Zeros = Zeros /\ PA!Zeros = Zeros
<1>1. A!Levels = Levels /\ PA!Levels = Levels
  BY DEF A!Levels, PA!Levels, Levels
<1>2. A!Pow2 = Pow2 /\ PA!Pow2 = Pow2
  BY DEF A!Pow2, PA!Pow2, Pow2, A!Levels, PA!Levels, Levels
<1>3. A!Zeros = Zeros /\ PA!Zeros = Zeros
  BY DEF A!Zeros, PA!Zeros, Zeros, A!Levels, PA!Levels, Levels
<1> QED
  BY <1>1, <1>2, <1>3 DEF A!Capacity, PA!Capacity, Capacity

\* And with its shifts.
LEMMA ShiftsA ==
  /\ \A n, l : A!Shr(n, l) = Shr(n, l) /\ PA!Shr(n, l) = Shr(n, l)
  /\ \A n : (A!IsOdd(n) <=> IsOdd(n)) /\ (PA!IsOdd(n) <=> IsOdd(n))
BY ConstantsA DEF A!Shr, PA!Shr, Shr, A!IsOdd, PA!IsOdd, IsOdd

\* They read the same nodes.
LEMMA ReadsA ==
  /\ \A l, i : A!NodeAt(l, i) = PA!NodeAt(l, i)
  /\ \A l, i : A!NodeAt(l, i)' = PA!NodeAt(l, i)'
BY ConstantsA DEF A!NodeAt, PA!NodeAt

\* They put the same runs.
LEMMA PutsA ==
  \A l, s, run : /\ A!Put(l, s, run) <=> PA!Put(l, s, run)
                 /\ A!Rejects(l, s) <=> PA!Rejects(l, s)
BY DEF A!Put, PA!Put, A!Counted, PA!Counted, A!Larger, PA!Larger, A!Rejects, PA!Rejects

\* They hash the same run to the same parents.
LEMMA ParentsA ==
  /\ A!NumParents = PA!NumParents /\ A!Parents = PA!Parents /\ A!Written = PA!Written
<1>1. A!Run = PA!Run /\ A!HeadLen = PA!HeadLen
  BY DEF A!Run, PA!Run, A!HeadLen, PA!HeadLen
<1>2. A!NumParents = PA!NumParents
  BY <1>1 DEF A!NumParents, PA!NumParents
<1>3. A!Padding = PA!Padding
  BY ConstantsA DEF A!Padding, PA!Padding
<1>4. A!Parents = PA!Parents
  BY <1>1, <1>2, <1>3, Zenon DEF A!Parents, PA!Parents
<1> QED
  BY <1>2, <1>4 DEF A!Written, PA!Written

\* They fetch the same partners.
LEMMA PartnersA == A!LeftPartners = PA!LeftPartners
<1>1. \A n, l : A!Shr(n, l) = PA!Shr(n, l)
  BY ShiftsA
<1>2. \A n : A!IsOdd(n) <=> PA!IsOdd(n)
  BY ShiftsA
<1> QED
  BY <1>1, <1>2, ReadsA DEF A!LeftPartners, PA!LeftPartners

\* So every step of the one is a step of the other.
LEMMA NextA == A!Next => PA!Next
<1>1. /\ A!Idle <=> PA!Idle
      /\ \A batch : A!Fits(batch) <=> PA!Fits(batch)
      /\ A!Batches \subseteq PA!Batches
  BY ConstantsA DEF A!Idle, PA!Idle, A!Fits, PA!Fits, A!Batches, PA!Batches
<1>2. A!AddNothing => PA!AddNothing
  BY <1>1 DEF A!AddNothing, PA!AddNothing, A!store, PA!store
<1>3. A!HashLevel => PA!HashLevel
  BY ParentsA, PutsA DEF A!HashLevel, PA!HashLevel
<1>4. A!HashLevelFails => PA!HashLevelFails
  BY ParentsA, PutsA
     DEF A!HashLevelFails, PA!HashLevelFails, A!LevelFails, PA!LevelFails, A!store, PA!store
<1>5. ASSUME NEW batch \in A!Batches, A!AddLeaves(batch) PROVE PA!AddLeaves(batch)
  <2>1. A!AddTreeFull(batch) => PA!AddTreeFull(batch)
    BY <1>1 DEF A!AddTreeFull, PA!AddTreeFull, A!store, PA!store, A!locals, PA!locals
  <2>2. A!AddStart(batch) => PA!AddStart(batch)
    BY <1>1, PutsA, PartnersA
       DEF A!AddStart, PA!AddStart, A!BufferSize, PA!BufferSize, A!Grow, PA!Grow,
           A!Larger, PA!Larger
  <2>3. A!AddStartFails(batch) => PA!AddStartFails(batch)
    BY <1>1, PutsA
       DEF A!AddStartFails, PA!AddStartFails, A!EntryFails, PA!EntryFails, A!store, PA!store
  <2> QED
    BY <1>5, <2>1, <2>2, <2>3 DEF A!AddLeaves, PA!AddLeaves
<1> QED
  BY <1>1, <1>2, <1>3, <1>4, <1>5 DEF A!Next, PA!Next

\* The same of tree B.
LEMMA ConstantsB ==
  /\ B!Levels = Levels /\ PB!Levels = Levels
  /\ B!Pow2 = Pow2 /\ PB!Pow2 = Pow2
  /\ B!Capacity = Capacity /\ PB!Capacity = Capacity
  /\ B!Zeros = Zeros /\ PB!Zeros = Zeros
<1>1. B!Levels = Levels /\ PB!Levels = Levels
  BY DEF B!Levels, PB!Levels, Levels
<1>2. B!Pow2 = Pow2 /\ PB!Pow2 = Pow2
  BY DEF B!Pow2, PB!Pow2, Pow2, B!Levels, PB!Levels, Levels
<1>3. B!Zeros = Zeros /\ PB!Zeros = Zeros
  BY DEF B!Zeros, PB!Zeros, Zeros, B!Levels, PB!Levels, Levels
<1> QED
  BY <1>1, <1>2, <1>3 DEF B!Capacity, PB!Capacity, Capacity

\* The same of tree B.
LEMMA ShiftsB ==
  /\ \A n, l : B!Shr(n, l) = Shr(n, l) /\ PB!Shr(n, l) = Shr(n, l)
  /\ \A n : (B!IsOdd(n) <=> IsOdd(n)) /\ (PB!IsOdd(n) <=> IsOdd(n))
BY ConstantsB DEF B!Shr, PB!Shr, Shr, B!IsOdd, PB!IsOdd, IsOdd

\* The same of tree B.
LEMMA ReadsB ==
  /\ \A l, i : B!NodeAt(l, i) = PB!NodeAt(l, i)
  /\ \A l, i : B!NodeAt(l, i)' = PB!NodeAt(l, i)'
BY ConstantsB DEF B!NodeAt, PB!NodeAt

\* The same of tree B.
LEMMA PutsB ==
  \A l, s, run : /\ B!Put(l, s, run) <=> PB!Put(l, s, run)
                 /\ B!Rejects(l, s) <=> PB!Rejects(l, s)
BY DEF B!Put, PB!Put, B!Counted, PB!Counted, B!Larger, PB!Larger, B!Rejects, PB!Rejects

\* The same of tree B.
LEMMA ParentsB ==
  /\ B!NumParents = PB!NumParents /\ B!Parents = PB!Parents /\ B!Written = PB!Written
<1>1. B!Run = PB!Run /\ B!HeadLen = PB!HeadLen
  BY DEF B!Run, PB!Run, B!HeadLen, PB!HeadLen
<1>2. B!NumParents = PB!NumParents
  BY <1>1 DEF B!NumParents, PB!NumParents
<1>3. B!Padding = PB!Padding
  BY ConstantsB DEF B!Padding, PB!Padding
<1>4. B!Parents = PB!Parents
  BY <1>1, <1>2, <1>3, Zenon DEF B!Parents, PB!Parents
<1> QED
  BY <1>2, <1>4 DEF B!Written, PB!Written

\* The same of tree B.
LEMMA PartnersB == B!LeftPartners = PB!LeftPartners
<1>1. \A n, l : B!Shr(n, l) = PB!Shr(n, l)
  BY ShiftsB
<1>2. \A n : B!IsOdd(n) <=> PB!IsOdd(n)
  BY ShiftsB
<1> QED
  BY <1>1, <1>2, ReadsB DEF B!LeftPartners, PB!LeftPartners

\* The same of tree B.
LEMMA NextB == B!Next => PB!Next
<1>1. /\ B!Idle <=> PB!Idle
      /\ \A batch : B!Fits(batch) <=> PB!Fits(batch)
      /\ B!Batches \subseteq PB!Batches
  BY ConstantsB DEF B!Idle, PB!Idle, B!Fits, PB!Fits, B!Batches, PB!Batches
<1>2. B!AddNothing => PB!AddNothing
  BY <1>1 DEF B!AddNothing, PB!AddNothing, B!store, PB!store
<1>3. B!HashLevel => PB!HashLevel
  BY ParentsB, PutsB DEF B!HashLevel, PB!HashLevel
<1>4. B!HashLevelFails => PB!HashLevelFails
  BY ParentsB, PutsB
     DEF B!HashLevelFails, PB!HashLevelFails, B!LevelFails, PB!LevelFails, B!store, PB!store
<1>5. ASSUME NEW batch \in B!Batches, B!AddLeaves(batch) PROVE PB!AddLeaves(batch)
  <2>1. B!AddTreeFull(batch) => PB!AddTreeFull(batch)
    BY <1>1 DEF B!AddTreeFull, PB!AddTreeFull, B!store, PB!store, B!locals, PB!locals
  <2>2. B!AddStart(batch) => PB!AddStart(batch)
    BY <1>1, PutsB, PartnersB
       DEF B!AddStart, PB!AddStart, B!BufferSize, PB!BufferSize, B!Grow, PB!Grow,
           B!Larger, PB!Larger
  <2>3. B!AddStartFails(batch) => PB!AddStartFails(batch)
    BY <1>1, PutsB
       DEF B!AddStartFails, PB!AddStartFails, B!EntryFails, PB!EntryFails, B!store, PB!store
  <2> QED
    BY <1>5, <2>1, <2>2, <2>3 DEF B!AddLeaves, PB!AddLeaves
<1> QED
  BY <1>1, <1>2, <1>3, <1>4, <1>5 DEF B!Next, PB!Next

\* A read does not depend on the handle.
LEMMA SameReads ==
  \A l, i : A!NodeAt(l, i) = B!NodeAt(l, i) /\ A!NodeAt(l, i)' = B!NodeAt(l, i)'
BY ConstantsA, ConstantsB DEF A!NodeAt, B!NodeAt

-----------------------------------------------------------------------------
(* Trees that do not take turns. *)

\* Where nodes may be.
Placed ==
  /\ DOMAIN nodes = Levels
  /\ \A l \in Levels : DOMAIN nodes[l] \subseteq 0..(Capacity - 1)

\* What a tree has yet to clear it clears before its first call: until then it
\* takes the store to be empty.
Clearing ==
  /\ opening \in [Trees -> {"Nothing", "Nodes", "Count"}]
  /\ opening["A"] # "Nothing" => A!Idle /\ numLeaves = 0
  /\ opening["B"] # "Nothing" => B!Idle /\ numLeavesB = 0

\* Each handle is framed, whatever the other one does.
Apart ==
  /\ PA!Framed /\ PB!Framed
  /\ count \in 0..Capacity
  /\ Clearing

\* A framed handle knows where nodes are, and stays framed when others move them.
LEMMA FramedA ==
  /\ PA!Framed => Placed /\ numLeaves \in 0..Capacity
  /\ PA!Framed' => Placed' /\ numLeaves' \in 0..Capacity
  /\ PA!Framed /\ Placed' /\ UNCHANGED handleA => PA!Framed'
<1>1. PA!Framed => Placed /\ numLeaves \in 0..Capacity
  BY ConstantsA DEF PA!Framed, PA!TypeOK, Placed
<1>2. PA!Framed' => Placed' /\ numLeaves' \in 0..Capacity
  BY ConstantsA DEF PA!Framed, PA!TypeOK, Placed
<1>3. PA!Framed /\ Placed' /\ UNCHANGED handleA => PA!Framed'
  BY ConstantsA DEF PA!Framed, PA!TypeOK, PA!RunShape, Placed, handleA
<1> QED
  BY <1>1, <1>2, <1>3

\* A step of a framed tree leaves it framed, and what is left of its frontier
\* as it is.
LEMMA FinalA ==
  ASSUME PA!Framed, A!Next
  PROVE  /\ PA!Framed'
         /\ A!Frontier \in Nat
         /\ \A l \in Levels : \A i \in Nat :
              i < Shr(A!Frontier, l) => A!NodeAt(l, i)' = A!NodeAt(l, i)
<1>1. PA!Next
  BY NextA
<1>2. PA!Framed'
  BY <1>1, PA!FramedStep, DepthAssumption, TwoTreesAssumption
<1>3. /\ PA!Frontier \in Nat
      /\ \A l \in PA!Levels : \A i \in Nat :
           i < PA!Shr(PA!Frontier, l) => PA!NodeAt(l, i)' = PA!NodeAt(l, i)
  BY <1>1, PA!FrontierStep, DepthAssumption, TwoTreesAssumption
<1>4. A!Frontier = PA!Frontier
  BY DEF A!Frontier, PA!Frontier, A!Idle, PA!Idle
<1> QED
  BY <1>2, <1>3, <1>4, ConstantsA, ShiftsA, ReadsA

\* A tree opened on a count in range is framed.
LEMMA OpenedA ==
  ASSUME A!NewTree, numLeaves' \in 0..Capacity, Placed'
  PROVE  PA!Framed' /\ A!Idle'
<1>1. PA!NewTree
  BY DEF A!NewTree, PA!NewTree
<1>2. /\ numLeaves' \in 0..PA!Capacity /\ DOMAIN nodes' = PA!Levels
      /\ \A l \in PA!Levels : DOMAIN nodes'[l] \subseteq 0..(PA!Capacity - 1)
  BY ConstantsA DEF Placed
<1>3. PA!Framed'
  BY <1>1, <1>2, PA!FramedNew, DepthAssumption, TwoTreesAssumption
<1> QED
  BY <1>3 DEF A!NewTree, A!Idle

\* The same of tree B.
LEMMA FramedB ==
  /\ PB!Framed => Placed /\ numLeavesB \in 0..Capacity
  /\ PB!Framed' => Placed' /\ numLeavesB' \in 0..Capacity
  /\ PB!Framed /\ Placed' /\ UNCHANGED handleB => PB!Framed'
<1>1. PB!Framed => Placed /\ numLeavesB \in 0..Capacity
  BY ConstantsB DEF PB!Framed, PB!TypeOK, Placed
<1>2. PB!Framed' => Placed' /\ numLeavesB' \in 0..Capacity
  BY ConstantsB DEF PB!Framed, PB!TypeOK, Placed
<1>3. PB!Framed /\ Placed' /\ UNCHANGED handleB => PB!Framed'
  BY ConstantsB DEF PB!Framed, PB!TypeOK, PB!RunShape, Placed, handleB
<1> QED
  BY <1>1, <1>2, <1>3

\* The same of tree B.
LEMMA FinalB ==
  ASSUME PB!Framed, B!Next
  PROVE  /\ PB!Framed'
         /\ B!Frontier \in Nat
         /\ \A l \in Levels : \A i \in Nat :
              i < Shr(B!Frontier, l) => B!NodeAt(l, i)' = B!NodeAt(l, i)
<1>1. PB!Next
  BY NextB
<1>2. PB!Framed'
  BY <1>1, PB!FramedStep, DepthAssumption, TwoTreesAssumption
<1>3. /\ PB!Frontier \in Nat
      /\ \A l \in PB!Levels : \A i \in Nat :
           i < PB!Shr(PB!Frontier, l) => PB!NodeAt(l, i)' = PB!NodeAt(l, i)
  BY <1>1, PB!FrontierStep, DepthAssumption, TwoTreesAssumption
<1>4. B!Frontier = PB!Frontier
  BY DEF B!Frontier, PB!Frontier, B!Idle, PB!Idle
<1> QED
  BY <1>2, <1>3, <1>4, ConstantsB, ShiftsB, ReadsB

\* The same of tree B.
LEMMA OpenedB ==
  ASSUME B!NewTree, numLeavesB' \in 0..Capacity, Placed'
  PROVE  PB!Framed' /\ B!Idle'
<1>1. PB!NewTree
  BY DEF B!NewTree, PB!NewTree
<1>2. /\ numLeavesB' \in 0..PB!Capacity /\ DOMAIN nodes' = PB!Levels
      /\ \A l \in PB!Levels : DOMAIN nodes'[l] \subseteq 0..(PB!Capacity - 1)
  BY ConstantsB DEF Placed
<1>3. PB!Framed'
  BY <1>1, <1>2, PB!FramedNew, DepthAssumption, TwoTreesAssumption
<1> QED
  BY <1>3 DEF B!NewTree, B!Idle

\* An empty store that a tree is opened on is that of its initial state.
LEMMA BeginsA == A!Init => PA!Init /\ PA!Framed /\ A!Idle /\ numLeaves = 0
<1>1. A!Init => PA!Init
  BY ConstantsA DEF A!Init, PA!Init
<1>2. PA!Init => PA!Framed
  BY PA!ShapeInit, DepthAssumption, TwoTreesAssumption DEF PA!Shape
<1> QED
  BY <1>1, <1>2 DEF A!Init, A!Idle

\* The same of tree B.
LEMMA BeginsB == B!Init => PB!Init /\ PB!Framed /\ B!Idle /\ numLeavesB = 0
<1>1. B!Init => PB!Init
  BY ConstantsB DEF B!Init, PB!Init
<1>2. PB!Init => PB!Framed
  BY PB!ShapeInit, DepthAssumption, TwoTreesAssumption DEF PB!Shape
<1> QED
  BY <1>1, <1>2 DEF B!Init, B!Idle

\* The facts about numbers the argument uses.
LEMMA CapacityNat == Capacity \in Nat /\ 0 \in 0..Capacity
<1>1. PA!Capacity \in Nat
  BY PA!CapacityType, DepthAssumption, TwoTreesAssumption
<1> QED
  BY <1>1, ConstantsA

\* Halving is monotone, and keeps zero.
LEMMA ShiftsOrdered ==
  ASSUME NEW m \in Nat, NEW n \in Nat, NEW l \in Levels, m <= n
  PROVE  /\ Shr(m, l) \in Nat /\ Shr(n, l) \in Nat /\ Shr(m, l) <= Shr(n, l)
         /\ m = 0 => Shr(m, l) = 0
<1>1. l \in PA!Levels
  BY ConstantsA
<1>2. PA!Shr(m, l) \in Nat /\ PA!Shr(n, l) \in Nat /\ PA!Shr(m, l) <= m
  BY <1>1, PA!ShrType, DepthAssumption, TwoTreesAssumption
<1>3. PA!Shr(m, l) <= PA!Shr(n, l)
  BY <1>1, PA!ShrMonotone, DepthAssumption, TwoTreesAssumption
<1>4. PA!Shr(m, l) = Shr(m, l) /\ PA!Shr(n, l) = Shr(n, l)
  BY ShiftsA
<1> QED
  BY <1>2, <1>3, <1>4

\* The two trees begin apart.
LEMMA ApartInit == Init => Apart
<1> SUFFICES ASSUME Init PROVE Apart
  OBVIOUS
<1>1. PA!Framed /\ PB!Framed
  BY BeginsA, BeginsB DEF Init
<1>2. Clearing
  BY DEF Init, Clearing, Trees
<1> QED
  BY <1>1, <1>2, CapacityNat DEF Init, Apart

\* A step of tree A does not disturb tree B.
LEMMA ApartStepA == Apart /\ StepA => Apart'
<1> SUFFICES ASSUME Apart, StepA PROVE Apart'
  OBVIOUS
<1>1. PA!Framed /\ PB!Framed /\ A!Next /\ UNCHANGED handleB
  BY DEF Apart, StepA
<1>2. PA!Framed'
  BY <1>1, FinalA
<1>3. PB!Framed'
  BY <1>1, <1>2, FramedA, FramedB
<1>4. count' \in 0..Capacity
  BY <1>2, FramedA DEF Apart, StepA, CountStored
<1>5. Clearing'
  <2>1. opening' = opening /\ opening["A"] = "Nothing" /\ Clearing
    BY DEF Apart, StepA
  <2>2. numLeavesB' = numLeavesB /\ statusB' = statusB
    BY <1>1 DEF handleB
  <2>3. B!Idle' <=> B!Idle
    BY <2>2 DEF B!Idle
  <2> QED
    BY <2>1, <2>2, <2>3 DEF Clearing
<1> QED
  BY <1>2, <1>3, <1>4, <1>5 DEF Apart

\* Nor does a step of tree B disturb tree A.
LEMMA ApartStepB == Apart /\ StepB => Apart'
<1> SUFFICES ASSUME Apart, StepB PROVE Apart'
  OBVIOUS
<1>1. PA!Framed /\ PB!Framed /\ B!Next /\ UNCHANGED handleA
  BY DEF Apart, StepB
<1>2. PB!Framed'
  BY <1>1, FinalB
<1>3. PA!Framed'
  BY <1>1, <1>2, FramedA, FramedB
<1>4. count' \in 0..Capacity
  BY <1>2, FramedB DEF Apart, StepB, CountStored
<1>5. Clearing'
  <2>1. opening' = opening /\ opening["B"] = "Nothing" /\ Clearing
    BY DEF Apart, StepB
  <2>2. numLeaves' = numLeaves /\ status' = status
    BY <1>1 DEF handleA
  <2>3. A!Idle' <=> A!Idle
    BY <2>2 DEF A!Idle
  <2> QED
    BY <2>1, <2>2, <2>3 DEF Clearing
<1> QED
  BY <1>2, <1>3, <1>4, <1>5 DEF Apart

\* Opening tree A leaves it with the stored count, and with a store to clear only
\* if that is zero.
LEMMA ApartOpenA == Apart /\ OpenA => Apart'
<1> SUFFICES ASSUME Apart, OpenA PROVE Apart'
  OBVIOUS
<1>1. /\ PA!Framed /\ PB!Framed /\ count \in 0..Capacity /\ count' = count
      /\ nodes' = nodes /\ numLeaves' = count /\ A!NewTree /\ UNCHANGED handleB
  BY DEF Apart, OpenA
<1>2. Placed'
  BY <1>1, FramedA DEF Placed
<1>3. PA!Framed' /\ A!Idle'
  BY <1>1, <1>2, OpenedA
<1>4. PB!Framed'
  BY <1>1, <1>2, FramedB
<1>5. Clearing'
  <2>1. numLeavesB' = numLeavesB /\ (B!Idle' <=> B!Idle)
    BY <1>1 DEF handleB, B!Idle
  <2>2. /\ opening \in [Trees -> {"Nothing", "Nodes", "Count"}] /\ "A" \in Trees
        /\ "B" \in Trees
        /\ opening["B"] # "Nothing" => B!Idle /\ numLeavesB = 0
    BY DEF Apart, Clearing, Trees
  <2>3. /\ opening' \in [Trees -> {"Nothing", "Nodes", "Count"}]
        /\ opening'["B"] = opening["B"]
        /\ opening'["A"] # "Nothing" => count = 0
    BY <2>2 DEF OpenA, MustClear
  <2> QED
    BY <1>1, <1>3, <2>1, <2>2, <2>3 DEF Clearing
<1> QED
  BY <1>1, <1>3, <1>4, <1>5 DEF Apart

\* And so does opening tree B.
LEMMA ApartOpenB == Apart /\ OpenB => Apart'
<1> SUFFICES ASSUME Apart, OpenB PROVE Apart'
  OBVIOUS
<1>1. /\ PA!Framed /\ PB!Framed /\ count \in 0..Capacity /\ count' = count
      /\ nodes' = nodes /\ numLeavesB' = count /\ B!NewTree /\ UNCHANGED handleA
  BY DEF Apart, OpenB
<1>2. Placed'
  BY <1>1, FramedA DEF Placed
<1>3. PB!Framed' /\ B!Idle'
  BY <1>1, <1>2, OpenedB
<1>4. PA!Framed'
  BY <1>1, <1>2, FramedA
<1>5. Clearing'
  <2>1. numLeaves' = numLeaves /\ (A!Idle' <=> A!Idle)
    BY <1>1 DEF handleA, A!Idle
  <2>2. /\ opening \in [Trees -> {"Nothing", "Nodes", "Count"}] /\ "A" \in Trees
        /\ "B" \in Trees
        /\ opening["A"] # "Nothing" => A!Idle /\ numLeaves = 0
    BY DEF Apart, Clearing, Trees
  <2>3. /\ opening' \in [Trees -> {"Nothing", "Nodes", "Count"}]
        /\ opening'["A"] = opening["A"]
        /\ opening'["B"] # "Nothing" => count = 0
    BY <2>2 DEF OpenB, MustClear
  <2> QED
    BY <1>1, <1>3, <2>1, <2>2, <2>3 DEF Clearing
<1> QED
  BY <1>1, <1>3, <1>4, <1>5 DEF Apart

\* Clearing moves no handle, and no node to where none may be.
LEMMA ApartClear == Apart /\ Clear => Apart'
<1> SUFFICES ASSUME Apart, NEW tree \in Trees, ClearNodes(tree) \/ ClearCount(tree)
             PROVE  Apart'
  BY DEF Clear
<1>1. PA!Framed /\ PB!Framed /\ UNCHANGED handleA /\ UNCHANGED handleB
  BY DEF Apart, ClearNodes, ClearCount
<1>2. Placed'
  <2>1. CASE ClearNodes(tree)
    BY <2>1 DEF ClearNodes, Placed
  <2>2. CASE ClearCount(tree)
    BY <1>1, <2>2, FramedA DEF ClearCount, Placed
  <2> QED
    BY <2>1, <2>2
<1>3. PA!Framed' /\ PB!Framed'
  BY <1>1, <1>2, FramedA, FramedB
<1>4. count' \in 0..Capacity
  BY CapacityNat DEF Apart, ClearNodes, ClearCount
<1>5. Clearing'
  <2>1. /\ numLeaves' = numLeaves /\ numLeavesB' = numLeavesB
        /\ (A!Idle' <=> A!Idle) /\ (B!Idle' <=> B!Idle) /\ Clearing
    BY <1>1 DEF handleA, handleB, A!Idle, B!Idle, Apart
  <2>2. /\ opening' \in [Trees -> {"Nothing", "Nodes", "Count"}]
        /\ \A t \in Trees : opening'[t] # "Nothing" => opening[t] # "Nothing"
    BY <2>1 DEF ClearNodes, ClearCount, Clearing
  <2> QED
    BY <2>1, <2>2 DEF Clearing, Trees
<1> QED
  BY <1>3, <1>4, <1>5 DEF Apart

\* So the trees stay apart.
THEOREM ApartInvariant == Spec => []Apart
<1>1. Apart /\ UNCHANGED vars => Apart'
  <2> SUFFICES ASSUME Apart, UNCHANGED vars PROVE Apart'
    OBVIOUS
  <2>1. /\ PA!Framed /\ PB!Framed /\ UNCHANGED handleA /\ UNCHANGED handleB
        /\ nodes' = nodes /\ count' = count /\ opening' = opening
    BY DEF Apart, vars
  <2>2. PA!Framed' /\ PB!Framed'
    BY <2>1, FramedA, FramedB DEF Placed
  <2>3. Clearing'
    BY <2>1 DEF Apart, Clearing, handleA, handleB, A!Idle, B!Idle
  <2> QED
    BY <2>1, <2>2, <2>3 DEF Apart
<1>2. Apart /\ [Next]_vars => Apart'
  BY <1>1, ApartStepA, ApartStepB, ApartOpenA, ApartOpenB, ApartClear DEF Next
<1> QED
  BY <1>2, ApartInit, PTL DEF Spec

\* What both trees know to be complete stays as it is: a put of a tree starts at
\* its own frontier, and a tree that clears takes the store to be empty.
THEOREM AgreedAlwaysFinal == Spec => AgreedNodesFinal
<1> DEFINE m == A!Smaller(A!Frontier, B!Frontier)
<1>1. ASSUME Apart, Next, NEW l \in Levels, NEW i \in 0..(Shr(m, l) - 1)
      PROVE  A!NodeAt(l, i)' = A!NodeAt(l, i)
  <2>1. PA!Framed /\ PB!Framed /\ Clearing
    BY <1>1 DEF Apart
  <2>2. A!Frontier \in Nat /\ B!Frontier \in Nat
    BY <2>1, CapacityNat
       DEF PA!Framed, PA!TypeOK, PB!Framed, PB!TypeOK, A!Frontier, B!Frontier
  <2>3. m \in Nat /\ m <= A!Frontier /\ m <= B!Frontier
    BY <2>2 DEF A!Smaller
  <2> HIDE DEF m
  <2>4. /\ i \in Nat /\ i < Shr(A!Frontier, l) /\ i < Shr(B!Frontier, l)
        /\ m # 0
    BY <1>1, <2>2, <2>3, ShiftsOrdered
  <2>5. CASE StepA
    BY <1>1, <2>1, <2>4, <2>5, FinalA DEF StepA
  <2>6. CASE StepB
    BY <1>1, <2>1, <2>4, <2>6, FinalB, SameReads DEF StepB
  <2>7. CASE OpenA \/ OpenB
    BY <2>7 DEF OpenA, OpenB, A!NodeAt
  <2>8. ASSUME NEW tree \in Trees, ClearNodes(tree) PROVE FALSE
    <3>1. \/ A!Frontier = 0
          \/ B!Frontier = 0
      BY <2>1, <2>8 DEF ClearNodes, Clearing, Trees, A!Frontier, B!Frontier
    <3> QED
      BY <2>2, <2>3, <2>4, <3>1
  <2>9. ASSUME NEW tree \in Trees, ClearCount(tree)
        PROVE  A!NodeAt(l, i)' = A!NodeAt(l, i)
    BY <2>9 DEF ClearCount, A!NodeAt
  <2> QED
    BY <1>1, <2>5, <2>6, <2>7, <2>8, <2>9 DEF Next, Clear
<1>2. Apart /\ [Next]_vars =>
        [ \A l \in Levels : \A i \in 0..(Shr(m, l) - 1) :
            A!NodeAt(l, i)' = A!NodeAt(l, i) ]_vars
  BY <1>1
<1> QED
  BY <1>2, ApartInvariant, PTL DEF Spec, AgreedNodesFinal

-----------------------------------------------------------------------------
(* Trees that take turns. *)

\* The store is the whole tree of n leaves, and holds no node besides.
Whole(n) ==
  /\ \A l \in Levels : \A i \in DOMAIN nodes[l] :
       i \in Nat /\ 0 < n /\ i <= Shr(n - 1, l)
  /\ \A l \in Levels : PA!StoredUpTo(n, l)
  /\ \A l \in PA!InnerLevels : \A i \in Nat : PA!ParentAgrees(l, i)

\* One tree at a time is in a call, through a handle that knows the count, and
\* what MerkleTree's proofs say of a tree on its own is true of that one.
\* Between calls the store is the whole tree of the leaves counted, and only an
\* empty one is ever cleared.
OneAtATime ==
  /\ PA!LeavesStored
  /\ PA!Finished /\ PB!Finished
  /\ status # "StoreError" /\ statusB # "StoreError"
  /\ A!Idle /\ B!Idle => Whole(count)
  /\ ~A!Idle => B!Idle /\ count = numLeaves /\ PA!Shape /\ PA!Content /\ PA!Intact
  /\ ~B!Idle => A!Idle /\ count = numLeavesB /\ PB!Shape /\ PB!Content /\ PB!Intact
  /\ \A tree \in Trees : opening[tree] # "Nothing" => A!Idle /\ B!Idle /\ count = 0

\* It is what callers that take turns get.
InTurns == turns => OneAtATime

\* What the proofs say of the store alone does not depend on the handle.
LEMMA SameStore ==
  /\ PA!InnerLevels = PB!InnerLevels
  /\ \A n, l : PA!StoredUpTo(n, l) <=> PB!StoredUpTo(n, l)
  /\ \A n, l : PA!StoredUpTo(n, l)' <=> PB!StoredUpTo(n, l)'
  /\ \A l, i : PA!ParentAgrees(l, i) <=> PB!ParentAgrees(l, i)
  /\ \A l, i : PA!ParentAgrees(l, i)' <=> PB!ParentAgrees(l, i)'
  /\ PA!LeavesStored <=> PB!LeavesStored
  /\ PA!LeavesStored' <=> PB!LeavesStored'
<1>1. PA!InnerLevels = PB!InnerLevels
  BY DEF PA!InnerLevels, PB!InnerLevels
<1>2. \A n, l : PA!Shr(n, l) = PB!Shr(n, l)
  BY ShiftsA, ShiftsB
<1>3. /\ \A l, i : PA!NodeAt(l, i) = PB!NodeAt(l, i)
      /\ \A l, i : PA!NodeAt(l, i)' = PB!NodeAt(l, i)'
  BY ConstantsA, ConstantsB DEF PA!NodeAt, PB!NodeAt
<1>4. /\ \A n, l : PA!StoredUpTo(n, l) <=> PB!StoredUpTo(n, l)
      /\ \A n, l : PA!StoredUpTo(n, l)' <=> PB!StoredUpTo(n, l)'
  BY <1>2 DEF PA!StoredUpTo, PB!StoredUpTo
<1>5. /\ \A l, i : PA!ParentAgrees(l, i) <=> PB!ParentAgrees(l, i)
      /\ \A l, i : PA!ParentAgrees(l, i)' <=> PB!ParentAgrees(l, i)'
  BY <1>3 DEF PA!ParentAgrees, PB!ParentAgrees
<1>6. /\ PA!LeavesStored <=> PB!LeavesStored
      /\ PA!LeavesStored' <=> PB!LeavesStored'
  BY DEF PA!LeavesStored, PB!LeavesStored
<1> QED
  BY <1>1, <1>4, <1>5, <1>6

\* A tree that knows the count of a whole store is one on its own.
LEMMA ReadyA ==
  ASSUME A!Idle, PA!Framed, numLeaves = count, Whole(count), PA!Finished,
         status # "StoreError"
  PROVE  PA!Shape /\ PA!Content /\ PA!Intact
<1>1. /\ \A l \in PA!Levels : \A i \in DOMAIN nodes[l] :
           i \in Nat /\ 0 < numLeaves /\ i <= PA!Shr(numLeaves - 1, l)
      /\ \A l \in PA!Levels : PA!StoredUpTo(numLeaves, l)
      /\ \A l \in PA!InnerLevels : \A i \in Nat : PA!ParentAgrees(l, i)
  BY ConstantsA, ShiftsA, SameStore DEF Whole
<1>2. status # "Hashing"
  BY DEF A!Idle
<1>3. PA!Shape
  BY <1>1 DEF PA!Shape, PA!StoreShape
<1>4. PA!LevelsAgree
  <2>1. \A l \in 0..(level - 1) : l \in PA!InnerLevels
    BY DepthAssumption DEF PA!Framed, PA!TypeOK, PA!Levels, PA!InnerLevels
  <2> QED
    BY <1>1, <2>1 DEF PA!LevelsAgree
<1>5. PA!Content
  BY <1>2, <1>4 DEF PA!Content, PA!RunStored, PA!PartnersRead
<1>6. PA!Intact
  BY <1>1, <1>2 DEF PA!Intact, PA!NoHoles
<1> QED
  BY <1>3, <1>5, <1>6

\* And the store it leaves between calls is whole.
LEMMA RestA ==
  /\ A!Idle /\ PA!Shape /\ PA!Intact /\ numLeaves = count => Whole(count)
  /\ A!Idle' /\ PA!Shape' /\ PA!Intact' /\ numLeaves' = count' => Whole(count)'
<1>1. ASSUME A!Idle, PA!Shape, PA!Intact, numLeaves = count PROVE Whole(count)
  <2>1. status # "Hashing"
    BY <1>1 DEF A!Idle
  <2>2. /\ \A l \in PA!Levels : \A i \in DOMAIN nodes[l] :
             i \in Nat /\ 0 < numLeaves /\ i <= PA!Shr(numLeaves - 1, l)
        /\ \A l \in PA!Levels : PA!StoredUpTo(numLeaves, l)
        /\ \A l \in PA!InnerLevels : \A i \in Nat : PA!ParentAgrees(l, i)
    BY <1>1, <2>1 DEF PA!Shape, PA!StoreShape, PA!Intact, PA!NoHoles
  <2> QED
    BY <1>1, <2>2, ConstantsA, ShiftsA, SameStore DEF Whole
<1>2. ASSUME A!Idle', PA!Shape', PA!Intact', numLeaves' = count' PROVE Whole(count)'
  <2>1. status' # "Hashing"
    BY <1>2 DEF A!Idle
  <2>2. /\ \A l \in PA!Levels : \A i \in DOMAIN nodes'[l] :
             i \in Nat /\ 0 < numLeaves' /\ i <= PA!Shr(numLeaves' - 1, l)
        /\ \A l \in PA!Levels : PA!StoredUpTo(numLeaves, l)'
        /\ \A l \in PA!InnerLevels : \A i \in Nat : PA!ParentAgrees(l, i)'
    BY <1>2, <2>1 DEF PA!Shape, PA!StoreShape, PA!Intact, PA!NoHoles
  <2>3. \A l \in PA!Levels : PA!StoredUpTo(count, l)'
    BY <1>2, <2>2 DEF PA!StoredUpTo
  <2> QED
    BY <1>2, <2>2, <2>3, ConstantsA, ShiftsA, SameStore DEF Whole
<1> QED
  BY <1>1, <1>2

\* A tree in a call has a leaf in its store.
LEMMA InCallA ==
  ASSUME PA!Framed, ~A!Idle PROVE 0 < numLeaves
<1>1. status = "Hashing"
  BY DEF A!Idle
<1> QED
  BY <1>1, PA!NextRun, DepthAssumption, TwoTreesAssumption

\* A step of a tree moves its count only up.
LEMMA CountA ==
  ASSUME PA!Framed, A!Next, numLeaves = count, count' = CountStored(numLeaves, numLeaves')
  PROVE  count' = numLeaves'
<1>1. numLeaves \in Nat /\ numLeaves' \in Nat
  <2>1. PA!Framed'
    BY FinalA
  <2> QED
    BY <2>1, FramedA, CapacityNat
<1>2. \/ numLeaves' = numLeaves
      \/ \E l, s, run : A!Put(l, s, run)
  BY DEF A!Next, A!AddNothing, A!AddLeaves, A!AddTreeFull, A!AddStart, A!AddStartFails,
         A!EntryFails, A!HashLevel, A!HashLevelFails, A!LevelFails, A!store
<1>3. numLeaves' = numLeaves \/ \E e : numLeaves' = A!Larger(numLeaves, e)
  BY <1>2, Zenon DEF A!Put, A!Counted
<1>4. numLeaves <= numLeaves'
  BY <1>1, <1>3 DEF A!Larger
<1> QED
  BY <1>1, <1>4 DEF CountStored

\* In turns, a tree takes a step as one on its own, while nothing else happens.
LEMMA TurnA ==
  ASSUME Apart, InTurns, turns, StepA
  PROVE  /\ PA!Shape /\ PA!Content /\ PA!Intact /\ PA!LeavesStored
         /\ PA!Next /\ B!Idle /\ numLeaves = count
         /\ \A tree \in Trees : opening[tree] = "Nothing"
<1>1. PA!Framed /\ PA!Next
  BY NextA DEF Apart, StepA
<1>2. CASE A!Idle
  <2>1. B!Idle /\ numLeaves = count /\ \A tree \in Trees : opening[tree] = "Nothing"
    BY <1>2 DEF StepA, InTurn
  <2>2. PA!LeavesStored /\ Whole(count) /\ PA!Finished /\ status # "StoreError"
    BY <1>2, <2>1, SameStore DEF InTurns, OneAtATime
  <2> QED
    BY <1>1, <1>2, <2>1, <2>2, ReadyA
<1>3. CASE ~A!Idle
  BY <1>1, <1>3, SameStore DEF InTurns, OneAtATime, StepA
<1> QED
  BY <1>2, <1>3

\* The next tree to take its turn finds what this one left: a step keeps the
\* trees in turns.
LEMMA TurnsStepA == Apart /\ InTurns /\ StepA => InTurns'
<1> SUFFICES ASSUME Apart, InTurns, StepA, turns PROVE OneAtATime'
  BY DEF InTurns, StepA
<1>1. /\ PA!Shape /\ PA!Content /\ PA!Intact /\ PA!LeavesStored
      /\ PA!Next /\ B!Idle /\ numLeaves = count
      /\ \A tree \in Trees : opening[tree] = "Nothing"
  BY TurnA
<1>2. /\ A!Next /\ count' = CountStored(numLeaves, numLeaves')
      /\ opening' = opening /\ UNCHANGED handleB
  BY DEF StepA
<1>3. PA!Shape' /\ PA!Content' /\ PA!Intact' /\ PA!LeavesStored'
  BY <1>1, PA!ShapeStep, PA!ContentStep, PA!IntactStep, PA!LeavesStoredStep,
     DepthAssumption, TwoTreesAssumption
<1>4. count' = numLeaves'
  BY <1>1, <1>2, CountA DEF Apart
<1>5. statusB' = statusB /\ (B!Idle' <=> B!Idle) /\ (PB!Finished' <=> PB!Finished)
  BY <1>2 DEF handleB, B!Idle, PB!Finished
<1>6. PB!Finished /\ statusB # "StoreError"
  BY DEF InTurns, OneAtATime
<1>7. PA!Finished' /\ status' # "StoreError"
  BY <1>3 DEF PA!Content, PA!Intact
<1>8. A!Idle' => Whole(count)'
  BY <1>3, <1>4, RestA
<1>9. PA!LeavesStored' /\ PB!LeavesStored'
  BY <1>3, SameStore
<1>10. B!Idle'
  BY <1>1, <1>5
<1> QED
  BY <1>1, <1>2, <1>3, <1>4, <1>5, <1>6, <1>7, <1>8, <1>9, <1>10 DEF OneAtATime

\* A step that nobody takes changes nothing of a tree in a call.
LEMMA StillA ==
  ASSUME UNCHANGED <<nodes, handleA>>
  PROVE  /\ PA!Shape => PA!Shape'
         /\ PA!Shape /\ PA!Content => PA!Content'
         /\ PA!Shape /\ PA!Content /\ PA!Intact => PA!Intact'
         /\ PA!LeavesStored' <=> PA!LeavesStored
         /\ PA!Finished' <=> PA!Finished
         /\ A!Idle' <=> A!Idle
         /\ status' = status /\ numLeaves' = numLeaves
<1>1. UNCHANGED PA!vars
  BY DEF handleA, PA!vars, PA!store, PA!locals
<1>2. /\ PA!Shape => PA!Shape'
      /\ PA!Shape /\ PA!Content => PA!Content'
      /\ PA!Shape /\ PA!Content /\ PA!Intact => PA!Intact'
  BY <1>1, PA!ShapeStep, PA!ContentStep, PA!IntactStep, DepthAssumption,
     TwoTreesAssumption
<1>3. /\ PA!LeavesStored' <=> PA!LeavesStored
      /\ PA!Finished' <=> PA!Finished
      /\ A!Idle' <=> A!Idle
      /\ status' = status /\ numLeaves' = numLeaves
  BY DEF handleA, PA!LeavesStored, PA!Finished, A!Idle
<1> QED
  BY <1>2, <1>3

\* The same of tree B.
LEMMA ReadyB ==
  ASSUME B!Idle, PB!Framed, numLeavesB = count, Whole(count), PB!Finished,
         statusB # "StoreError"
  PROVE  PB!Shape /\ PB!Content /\ PB!Intact
<1>1. /\ \A l \in PB!Levels : \A i \in DOMAIN nodes[l] :
           i \in Nat /\ 0 < numLeavesB /\ i <= PB!Shr(numLeavesB - 1, l)
      /\ \A l \in PB!Levels : PB!StoredUpTo(numLeavesB, l)
      /\ \A l \in PB!InnerLevels : \A i \in Nat : PB!ParentAgrees(l, i)
  BY ConstantsB, ShiftsB, SameStore DEF Whole
<1>2. statusB # "Hashing"
  BY DEF B!Idle
<1>3. PB!Shape
  BY <1>1 DEF PB!Shape, PB!StoreShape
<1>4. PB!LevelsAgree
  <2>1. \A l \in 0..(levelB - 1) : l \in PB!InnerLevels
    BY DepthAssumption DEF PB!Framed, PB!TypeOK, PB!Levels, PB!InnerLevels
  <2> QED
    BY <1>1, <2>1 DEF PB!LevelsAgree
<1>5. PB!Content
  BY <1>2, <1>4 DEF PB!Content, PB!RunStored, PB!PartnersRead
<1>6. PB!Intact
  BY <1>1, <1>2 DEF PB!Intact, PB!NoHoles
<1> QED
  BY <1>3, <1>5, <1>6

\* The same of tree B.
LEMMA RestB ==
  /\ B!Idle /\ PB!Shape /\ PB!Intact /\ numLeavesB = count => Whole(count)
  /\ B!Idle' /\ PB!Shape' /\ PB!Intact' /\ numLeavesB' = count' => Whole(count)'
<1>1. ASSUME B!Idle, PB!Shape, PB!Intact, numLeavesB = count PROVE Whole(count)
  <2>1. statusB # "Hashing"
    BY <1>1 DEF B!Idle
  <2>2. /\ \A l \in PB!Levels : \A i \in DOMAIN nodes[l] :
             i \in Nat /\ 0 < numLeavesB /\ i <= PB!Shr(numLeavesB - 1, l)
        /\ \A l \in PB!Levels : PB!StoredUpTo(numLeavesB, l)
        /\ \A l \in PB!InnerLevels : \A i \in Nat : PB!ParentAgrees(l, i)
    BY <1>1, <2>1 DEF PB!Shape, PB!StoreShape, PB!Intact, PB!NoHoles
  <2> QED
    BY <1>1, <2>2, ConstantsB, ShiftsB, SameStore DEF Whole
<1>2. ASSUME B!Idle', PB!Shape', PB!Intact', numLeavesB' = count' PROVE Whole(count)'
  <2>1. statusB' # "Hashing"
    BY <1>2 DEF B!Idle
  <2>2. /\ \A l \in PB!Levels : \A i \in DOMAIN nodes'[l] :
             i \in Nat /\ 0 < numLeavesB' /\ i <= PB!Shr(numLeavesB' - 1, l)
        /\ \A l \in PB!Levels : PB!StoredUpTo(numLeavesB, l)'
        /\ \A l \in PB!InnerLevels : \A i \in Nat : PB!ParentAgrees(l, i)'
    BY <1>2, <2>1 DEF PB!Shape, PB!StoreShape, PB!Intact, PB!NoHoles
  <2>3. \A l \in PB!Levels : PB!StoredUpTo(count, l)'
    BY <1>2, <2>2 DEF PB!StoredUpTo
  <2> QED
    BY <1>2, <2>2, <2>3, ConstantsB, ShiftsB, SameStore DEF Whole
<1> QED
  BY <1>1, <1>2

\* The same of tree B.
LEMMA InCallB ==
  ASSUME PB!Framed, ~B!Idle PROVE 0 < numLeavesB
<1>1. statusB = "Hashing"
  BY DEF B!Idle
<1> QED
  BY <1>1, PB!NextRun, DepthAssumption, TwoTreesAssumption

\* The same of tree B.
LEMMA CountB ==
  ASSUME PB!Framed, B!Next, numLeavesB = count, count' = CountStored(numLeavesB, numLeavesB')
  PROVE  count' = numLeavesB'
<1>1. numLeavesB \in Nat /\ numLeavesB' \in Nat
  <2>1. PB!Framed'
    BY FinalB
  <2> QED
    BY <2>1, FramedB, CapacityNat
<1>2. \/ numLeavesB' = numLeavesB
      \/ \E l, s, run : B!Put(l, s, run)
  BY DEF B!Next, B!AddNothing, B!AddLeaves, B!AddTreeFull, B!AddStart, B!AddStartFails,
         B!EntryFails, B!HashLevel, B!HashLevelFails, B!LevelFails, B!store
<1>3. numLeavesB' = numLeavesB \/ \E e : numLeavesB' = B!Larger(numLeavesB, e)
  BY <1>2, Zenon DEF B!Put, B!Counted
<1>4. numLeavesB <= numLeavesB'
  BY <1>1, <1>3 DEF B!Larger
<1> QED
  BY <1>1, <1>4 DEF CountStored

\* The same of tree B.
LEMMA TurnB ==
  ASSUME Apart, InTurns, turns, StepB
  PROVE  /\ PB!Shape /\ PB!Content /\ PB!Intact /\ PB!LeavesStored
         /\ PB!Next /\ A!Idle /\ numLeavesB = count
         /\ \A tree \in Trees : opening[tree] = "Nothing"
<1>1. PB!Framed /\ PB!Next
  BY NextB DEF Apart, StepB
<1>2. CASE B!Idle
  <2>1. A!Idle /\ numLeavesB = count /\ \A tree \in Trees : opening[tree] = "Nothing"
    BY <1>2 DEF StepB, InTurn
  <2>2. PB!LeavesStored /\ Whole(count) /\ PB!Finished /\ statusB # "StoreError"
    BY <1>2, <2>1, SameStore DEF InTurns, OneAtATime
  <2> QED
    BY <1>1, <1>2, <2>1, <2>2, ReadyB
<1>3. CASE ~B!Idle
  BY <1>1, <1>3, SameStore DEF InTurns, OneAtATime, StepB
<1> QED
  BY <1>2, <1>3

\* The same of tree B.
LEMMA TurnsStepB == Apart /\ InTurns /\ StepB => InTurns'
<1> SUFFICES ASSUME Apart, InTurns, StepB, turns PROVE OneAtATime'
  BY DEF InTurns, StepB
<1>1. /\ PB!Shape /\ PB!Content /\ PB!Intact /\ PB!LeavesStored
      /\ PB!Next /\ A!Idle /\ numLeavesB = count
      /\ \A tree \in Trees : opening[tree] = "Nothing"
  BY TurnB
<1>2. /\ B!Next /\ count' = CountStored(numLeavesB, numLeavesB')
      /\ opening' = opening /\ UNCHANGED handleA
  BY DEF StepB
<1>3. PB!Shape' /\ PB!Content' /\ PB!Intact' /\ PB!LeavesStored'
  BY <1>1, PB!ShapeStep, PB!ContentStep, PB!IntactStep, PB!LeavesStoredStep,
     DepthAssumption, TwoTreesAssumption
<1>4. count' = numLeavesB'
  BY <1>1, <1>2, CountB DEF Apart
<1>5. status' = status /\ (A!Idle' <=> A!Idle) /\ (PA!Finished' <=> PA!Finished)
  BY <1>2 DEF handleA, A!Idle, PA!Finished
<1>6. PA!Finished /\ status # "StoreError"
  BY DEF InTurns, OneAtATime
<1>7. PB!Finished' /\ statusB' # "StoreError"
  BY <1>3 DEF PB!Content, PB!Intact
<1>8. B!Idle' => Whole(count)'
  BY <1>3, <1>4, RestB
<1>9. PB!LeavesStored' /\ PA!LeavesStored'
  BY <1>3, SameStore
<1>10. A!Idle'
  BY <1>1, <1>5
<1> QED
  BY <1>1, <1>2, <1>3, <1>4, <1>5, <1>6, <1>7, <1>8, <1>9, <1>10 DEF OneAtATime

\* The same of tree B.
LEMMA StillB ==
  ASSUME UNCHANGED <<nodes, handleB>>
  PROVE  /\ PB!Shape => PB!Shape'
         /\ PB!Shape /\ PB!Content => PB!Content'
         /\ PB!Shape /\ PB!Content /\ PB!Intact => PB!Intact'
         /\ PB!LeavesStored' <=> PB!LeavesStored
         /\ PB!Finished' <=> PB!Finished
         /\ B!Idle' <=> B!Idle
         /\ statusB' = statusB /\ numLeavesB' = numLeavesB
<1>1. UNCHANGED PB!vars
  BY DEF handleB, PB!vars, PB!store, PB!locals
<1>2. /\ PB!Shape => PB!Shape'
      /\ PB!Shape /\ PB!Content => PB!Content'
      /\ PB!Shape /\ PB!Content /\ PB!Intact => PB!Intact'
  BY <1>1, PB!ShapeStep, PB!ContentStep, PB!IntactStep, DepthAssumption,
     TwoTreesAssumption
<1>3. /\ PB!LeavesStored' <=> PB!LeavesStored
      /\ PB!Finished' <=> PB!Finished
      /\ B!Idle' <=> B!Idle
      /\ statusB' = statusB /\ numLeavesB' = numLeavesB
  BY DEF handleB, PB!LeavesStored, PB!Finished, B!Idle
<1> QED
  BY <1>2, <1>3

\* A whole store stays so if nobody writes to it.
LEMMA StillWhole ==
  ASSUME UNCHANGED <<nodes, count>>, Whole(count) PROVE Whole(count)'
<1>1. \A l, i : PA!ParentAgrees(l, i)' <=> PA!ParentAgrees(l, i)
  BY DEF PA!ParentAgrees, PA!NodeAt
<1>2. \A l : PA!StoredUpTo(count, l)' <=> PA!StoredUpTo(count, l)
  BY DEF PA!StoredUpTo
<1> QED
  BY <1>1, <1>2 DEF Whole

\* A tree opened in turns has no leaf of an unfinished call to lose: if the
\* count it finds is zero, no other tree is in a call.
LEMMA TurnsOpenA == Apart /\ InTurns /\ OpenA => InTurns'
<1> SUFFICES ASSUME Apart, OneAtATime, OpenA PROVE OneAtATime'
  BY DEF InTurns, OpenA
<1>1. /\ A!Idle /\ A!NewTree /\ UNCHANGED handleB
      /\ nodes' = nodes /\ count' = count
      /\ \A tree \in Trees :
           opening'[tree] # "Nothing" => opening[tree] # "Nothing" \/ count = 0
  BY DEF OpenA, MustClear, Apart, Clearing
<1>2. A!Idle' /\ status' = "Ok" /\ PA!Finished'
  BY <1>1 DEF A!NewTree, A!Idle, PA!Finished
<1>3. /\ PB!Shape => PB!Shape'
      /\ PB!Shape /\ PB!Content => PB!Content'
      /\ PB!Shape /\ PB!Content /\ PB!Intact => PB!Intact'
      /\ PB!LeavesStored' <=> PB!LeavesStored
      /\ PB!Finished' <=> PB!Finished
      /\ B!Idle' <=> B!Idle
      /\ statusB' = statusB /\ numLeavesB' = numLeavesB
  BY <1>1, StillB
<1>4. B!Idle => Whole(count)'
  BY <1>1, StillWhole DEF OneAtATime
<1>5. count = 0 => B!Idle
  BY InCallB DEF OneAtATime, Apart
<1>6. \A tree \in Trees : opening'[tree] # "Nothing" => B!Idle /\ count = 0
  BY <1>1, <1>5 DEF OneAtATime
<1>7. PA!LeavesStored' /\ PB!LeavesStored'
  BY <1>3, SameStore DEF OneAtATime
<1>8. /\ PB!Finished' /\ statusB' # "StoreError"
      /\ ~B!Idle' =>
           count' = numLeavesB' /\ PB!Shape' /\ PB!Content' /\ PB!Intact'
  BY <1>1, <1>3 DEF OneAtATime
<1> QED
  BY <1>1, <1>2, <1>3, <1>4, <1>6, <1>7, <1>8 DEF OneAtATime

\* The same of tree B.
LEMMA TurnsOpenB == Apart /\ InTurns /\ OpenB => InTurns'
<1> SUFFICES ASSUME Apart, OneAtATime, OpenB PROVE OneAtATime'
  BY DEF InTurns, OpenB
<1>1. /\ B!Idle /\ B!NewTree /\ UNCHANGED handleA
      /\ nodes' = nodes /\ count' = count
      /\ \A tree \in Trees :
           opening'[tree] # "Nothing" => opening[tree] # "Nothing" \/ count = 0
  BY DEF OpenB, MustClear, Apart, Clearing
<1>2. B!Idle' /\ statusB' = "Ok" /\ PB!Finished'
  BY <1>1 DEF B!NewTree, B!Idle, PB!Finished
<1>3. /\ PA!Shape => PA!Shape'
      /\ PA!Shape /\ PA!Content => PA!Content'
      /\ PA!Shape /\ PA!Content /\ PA!Intact => PA!Intact'
      /\ PA!LeavesStored' <=> PA!LeavesStored
      /\ PA!Finished' <=> PA!Finished
      /\ A!Idle' <=> A!Idle
      /\ status' = status /\ numLeaves' = numLeaves
  BY <1>1, StillA
<1>4. A!Idle => Whole(count)'
  BY <1>1, StillWhole DEF OneAtATime
<1>5. count = 0 => A!Idle
  BY InCallA DEF OneAtATime, Apart
<1>6. \A tree \in Trees : opening'[tree] # "Nothing" => A!Idle /\ count = 0
  BY <1>1, <1>5 DEF OneAtATime
<1>7. PB!LeavesStored' /\ PA!LeavesStored'
  BY <1>3, SameStore DEF OneAtATime
<1>8. /\ PA!Finished' /\ status' # "StoreError"
      /\ ~A!Idle' =>
           count' = numLeaves' /\ PA!Shape' /\ PA!Content' /\ PA!Intact'
  BY <1>1, <1>3 DEF OneAtATime
<1> QED
  BY <1>1, <1>2, <1>3, <1>4, <1>6, <1>7, <1>8 DEF OneAtATime

\* An empty store is the whole tree of no leaves.
LEMMA WholeEmpty ==
  ASSUME nodes' = [l \in Levels |-> [i \in {} |-> ZERO]], count' = 0
  PROVE  Whole(count)'
<1>1. \A l \in Levels : DOMAIN nodes'[l] = {}
  OBVIOUS
<1>2. \A l \in Levels : PA!StoredUpTo(count, l)'
  BY DEF PA!StoredUpTo
<1>3. ASSUME NEW l \in PA!InnerLevels, NEW i \in Nat PROVE PA!ParentAgrees(l, i)'
  <2>1. l \in Levels /\ l + 1 \in Levels
    BY DepthAssumption DEF PA!InnerLevels, Levels
  <2>2. PA!Zeros[l + 1] = Hash(PA!Zeros[l], PA!Zeros[l])
    BY PA!ZerosRec, DepthAssumption, TwoTreesAssumption DEF PA!InnerLevels
  <2> QED
    BY <1>1, <2>1, <2>2 DEF PA!ParentAgrees, PA!NodeAt
<1> QED
  BY <1>1, <1>2, <1>3 DEF Whole

\* In turns a tree clears an empty store only.
LEMMA TurnsClear == Apart /\ InTurns /\ Clear => InTurns'
<1> SUFFICES ASSUME Apart, OneAtATime, NEW tree \in Trees,
                    ClearNodes(tree) \/ ClearCount(tree)
             PROVE  OneAtATime'
  BY DEF InTurns, Clear, ClearNodes, ClearCount
<1>1. opening[tree] # "Nothing" /\ UNCHANGED handleA /\ UNCHANGED handleB
  BY DEF ClearNodes, ClearCount
<1>2. A!Idle /\ B!Idle /\ count = 0 /\ count' = 0 /\ Whole(count)
  BY <1>1 DEF OneAtATime, ClearNodes, ClearCount
<1>3. Whole(count)' /\ PA!LeavesStored'
  <2>1. CASE ClearNodes(tree)
    <3>1. nodes' = [l \in Levels |-> [i \in {} |-> ZERO]]
      BY <2>1 DEF ClearNodes
    <3>2. DOMAIN nodes'[0] = {}
      BY <3>1, DepthAssumption DEF Levels
    <3> QED
      BY <1>2, <3>1, <3>2, WholeEmpty DEF PA!LeavesStored
  <2>2. CASE ClearCount(tree)
    <3>1. nodes' = nodes /\ count' = count
      BY <1>2, <2>2 DEF ClearCount
    <3> QED
      BY <1>2, <3>1, StillWhole DEF PA!LeavesStored, OneAtATime
  <2> QED
    BY <2>1, <2>2
<1>4. /\ PA!Finished' /\ PB!Finished'
      /\ status' # "StoreError" /\ statusB' # "StoreError"
      /\ A!Idle' /\ B!Idle'
  BY <1>1, <1>2
     DEF handleA, handleB, OneAtATime, PA!Finished, PB!Finished, A!Idle, B!Idle
<1> QED
  BY <1>2, <1>3, <1>4 DEF OneAtATime

\* The two trees begin in turns.
LEMMA TurnsInit == Init => InTurns
<1> SUFFICES ASSUME Init PROVE OneAtATime
  BY DEF InTurns
<1>1. /\ PA!Init /\ PA!Framed /\ A!Idle /\ numLeaves = 0
      /\ PB!Init /\ PB!Framed /\ B!Idle /\ numLeavesB = 0
  BY BeginsA, BeginsB DEF Init
<1>2. /\ PA!Shape /\ PA!Content /\ PA!Intact /\ PB!Content /\ PB!Intact
  BY <1>1, PA!ShapeInit, PA!ContentInit, PA!IntactInit, PB!ContentInit, PB!IntactInit,
     DepthAssumption, TwoTreesAssumption
<1>3. Whole(count)
  BY <1>1, <1>2, RestA DEF Init
<1>4. PA!LeavesStored
  BY <1>1, DepthAssumption, ConstantsA DEF PA!Init, PA!LeavesStored, PA!Levels
<1>5. \A tree \in Trees : opening[tree] = "Nothing"
  BY DEF Init
<1> QED
  BY <1>1, <1>2, <1>3, <1>4, <1>5 DEF OneAtATime, PA!Content, PB!Content, PA!Intact,
                                      PB!Intact

\* So they stay in turns: whoever is in a call is as good as alone with the store.
THEOREM TurnsInvariant == Spec => [](Apart /\ InTurns)
<1>1. Apart /\ InTurns /\ UNCHANGED vars => InTurns'
  <2> SUFFICES ASSUME Apart, OneAtATime, UNCHANGED vars PROVE OneAtATime'
    BY DEF InTurns, vars
  <2>1. UNCHANGED <<nodes, handleA>> /\ UNCHANGED <<nodes, handleB>>
        /\ UNCHANGED <<nodes, count>> /\ opening' = opening /\ count' = count
    BY DEF vars
  <2>2. A!Idle /\ B!Idle => Whole(count)'
    BY <2>1, StillWhole DEF OneAtATime
  <2> QED
    BY <2>1, <2>2, StillA, StillB DEF OneAtATime
<1>2. Apart /\ InTurns /\ [Next]_vars => InTurns'
  BY <1>1, TurnsStepA, TurnsStepB, TurnsOpenA, TurnsOpenB, TurnsClear DEF Next
<1> QED
  BY <1>2, TurnsInit, ApartInvariant, PTL DEF Spec

-----------------------------------------------------------------------------
(* Trees that take turns implement one log. *)

\* Both instances recompute the root from the leaves as this module does.
LEMMA SameReference ==
  /\ \A log : PA!ReferenceRoot(log) = ReferenceRoot(log)
  /\ \A log : PB!ReferenceRoot(log) = ReferenceRoot(log)
BY DEF PA!ReferenceRoot, PB!ReferenceRoot, ReferenceRoot, PA!FullTree, PB!FullTree, FullTree,
       PA!Levels, PB!Levels, Levels

\* They read the same root.
LEMMA SameRoots ==
  /\ PA!Root = A!Root /\ PB!Root = A!Root
  /\ PA!Root' = A!Root' /\ PB!Root' = A!Root'
<1>1. /\ PA!Root = A!NodeAt(DEPTH, 0) /\ PA!Root' = A!NodeAt(DEPTH, 0)'
      /\ PB!Root = B!NodeAt(DEPTH, 0) /\ PB!Root' = B!NodeAt(DEPTH, 0)'
  BY ReadsA, ReadsB DEF PA!Root, PB!Root
<1> QED
  BY <1>1, SameReads DEF A!Root

\* Between calls the root is the one of the leaves of the tree on its own.
RightA == PA!Shape /\ PA!Intact => PA!RootRight

\* The proofs of MerkleTree say so.
LEMMA RightAlwaysA == RightA
BY PA!RootRecomputed, DepthAssumption, TwoTreesAssumption DEF RightA, PA!RootRight

\* A batch appended to the log of a tree on its own is one appended to the log
\* that the two share.
LEMMA AppendsA ==
  ASSUME PA!Abstract!AppendBatch, Log = PA!CommittedLeaves, Log' = PA!CommittedLeaves'
  PROVE  Abstract!AppendBatch
BY ConstantsA, SameReference, SameRoots
   DEF PA!Abstract!AppendBatch, Abstract!AppendBatch, PA!Abstract!IsPrefix, Abstract!IsPrefix

\* The same of tree B.
RightB == PB!Shape /\ PB!Intact => PB!RootRight

\* The same of tree B.
LEMMA RightAlwaysB == RightB
BY PB!RootRecomputed, DepthAssumption, TwoTreesAssumption DEF RightB, PB!RootRight

\* The same of tree B.
LEMMA AppendsB ==
  ASSUME PB!Abstract!AppendBatch, Log = PB!CommittedLeaves, Log' = PB!CommittedLeaves'
  PROVE  Abstract!AppendBatch
BY ConstantsB, SameReference, SameRoots
   DEF PB!Abstract!AppendBatch, Abstract!AppendBatch, PB!Abstract!IsPrefix, Abstract!IsPrefix

\* A step of a tree in its turn appends its batch to the log, or leaves log and
\* root alone.
LEMMA LogStepA ==
  ASSUME Apart, InTurns, turns, StepA, RightA'
  PROVE  Abstract!AppendBatch \/ (Log' = Log /\ A!Root' = A!Root)
<1>1. /\ PA!Shape /\ PA!Content /\ PA!Intact /\ PA!LeavesStored
      /\ PA!Next /\ B!Idle /\ numLeaves = count
  BY TurnA
<1>2. /\ A!Next /\ count' = CountStored(numLeaves, numLeaves') /\ UNCHANGED handleB
  BY DEF StepA
<1>3. count' = numLeaves'
  BY <1>1, <1>2, CountA DEF Apart
<1>4. statusB # "Hashing" /\ statusB' # "Hashing"
  BY <1>1, <1>2 DEF handleB, B!Idle
<1>5. Log = PA!CommittedLeaves
  BY <1>1, <1>4 DEF Log, Leaves, PA!CommittedLeaves, PA!Frontier, PA!Idle
<1>6. Log' = PA!CommittedLeaves'
  BY <1>3, <1>4 DEF Log, Leaves, PA!CommittedLeaves, PA!Frontier, PA!Idle
<1>7. CASE status = "Hashing" /\ status' = "Ok"
  <2>1. PA!RootRight'
    <3>1. PA!Shape' /\ PA!Intact'
      BY <1>1, PA!ShapeStep, PA!IntactStep, DepthAssumption, TwoTreesAssumption
    <3> QED
      BY <3>1 DEF RightA
  <2>2. PA!Abstract!AppendBatch
    BY <1>1, <1>7, <2>1, PA!CommitStep, DepthAssumption, TwoTreesAssumption
  <2> QED
    BY <1>5, <1>6, <2>2, AppendsA
<1>8. CASE ~(status = "Hashing" /\ status' = "Ok")
  <2>1. PA!CommittedLeaves' = PA!CommittedLeaves /\ PA!Root' = PA!Root
    BY <1>1, <1>8, PA!SilentStep, DepthAssumption, TwoTreesAssumption
  <2> QED
    BY <1>5, <1>6, <2>1, SameRoots
<1> QED
  BY <1>7, <1>8

\* Opening a tree leaves log and root alone.
LEMMA LogOpenA == OpenA => Log' = Log /\ A!Root' = A!Root
<1> SUFFICES ASSUME OpenA PROVE Log' = Log /\ A!Root' = A!Root
  OBVIOUS
<1>1. /\ status # "Hashing" /\ status' # "Hashing" /\ statusB' = statusB
      /\ baseB' = baseB /\ nodes' = nodes /\ count' = count
  BY DEF OpenA, A!Idle, A!NewTree, handleB
<1>2. Leaves' = Leaves
  BY <1>1 DEF Leaves
<1>3. Log' = Log
  BY <1>1, <1>2 DEF Log
<1> QED
  BY <1>1, <1>3, SameRoots DEF PA!Root, PA!NodeAt

\* The same of tree B.
LEMMA LogStepB ==
  ASSUME Apart, InTurns, turns, StepB, RightB'
  PROVE  Abstract!AppendBatch \/ (Log' = Log /\ A!Root' = A!Root)
<1>1. /\ PB!Shape /\ PB!Content /\ PB!Intact /\ PB!LeavesStored
      /\ PB!Next /\ A!Idle /\ numLeavesB = count
  BY TurnB
<1>2. /\ B!Next /\ count' = CountStored(numLeavesB, numLeavesB') /\ UNCHANGED handleA
  BY DEF StepB
<1>3. count' = numLeavesB'
  BY <1>1, <1>2, CountB DEF Apart
<1>4. status # "Hashing" /\ status' # "Hashing"
  BY <1>1, <1>2 DEF handleA, A!Idle
<1>5. Log = PB!CommittedLeaves
  BY <1>1, <1>4 DEF Log, Leaves, PB!CommittedLeaves, PB!Frontier, PB!Idle
<1>6. Log' = PB!CommittedLeaves'
  BY <1>3, <1>4 DEF Log, Leaves, PB!CommittedLeaves, PB!Frontier, PB!Idle
<1>7. CASE statusB = "Hashing" /\ statusB' = "Ok"
  <2>1. PB!RootRight'
    <3>1. PB!Shape' /\ PB!Intact'
      BY <1>1, PB!ShapeStep, PB!IntactStep, DepthAssumption, TwoTreesAssumption
    <3> QED
      BY <3>1 DEF RightB
  <2>2. PB!Abstract!AppendBatch
    BY <1>1, <1>7, <2>1, PB!CommitStep, DepthAssumption, TwoTreesAssumption
  <2> QED
    BY <1>5, <1>6, <2>2, AppendsB
<1>8. CASE ~(statusB = "Hashing" /\ statusB' = "Ok")
  <2>1. PB!CommittedLeaves' = PB!CommittedLeaves /\ PB!Root' = PB!Root
    BY <1>1, <1>8, PB!SilentStep, DepthAssumption, TwoTreesAssumption
  <2> QED
    BY <1>5, <1>6, <2>1, SameRoots
<1> QED
  BY <1>7, <1>8

\* The same of tree B.
LEMMA LogOpenB == OpenB => Log' = Log /\ A!Root' = A!Root
<1> SUFFICES ASSUME OpenB PROVE Log' = Log /\ A!Root' = A!Root
  OBVIOUS
<1>1. /\ statusB # "Hashing" /\ statusB' # "Hashing" /\ status' = status
      /\ base' = base /\ nodes' = nodes /\ count' = count
  BY DEF OpenB, B!Idle, B!NewTree, handleA
<1>2. Leaves' = Leaves
  BY <1>1 DEF Leaves
<1>3. Log' = Log
  BY <1>1, <1>2 DEF Log
<1> QED
  BY <1>1, <1>3, SameRoots DEF PB!Root, PB!NodeAt

\* So does clearing, of a store that is empty.
LEMMA LogClear ==
  ASSUME Apart, InTurns, turns, Clear
  PROVE  Log' = Log /\ A!Root' = A!Root
<1> PICK tree \in Trees : ClearNodes(tree) \/ ClearCount(tree)
  BY DEF Clear
<1>1. /\ opening[tree] # "Nothing" /\ UNCHANGED handleA /\ UNCHANGED handleB
      /\ count' = count \/ count' = 0
  BY DEF ClearNodes, ClearCount
<1>2. A!Idle /\ B!Idle /\ count = 0 /\ count' = 0 /\ Whole(count)
  BY <1>1 DEF InTurns, OneAtATime
<1>3. Leaves = 0 /\ Leaves' = 0
  BY <1>1, <1>2 DEF Leaves, A!Idle, B!Idle, handleA, handleB
<1>4. Log' = Log
  <2>1. Log = [k \in 1..0 |-> nodes[0][k - 1]] /\ Log' = [k \in 1..0 |-> nodes'[0][k - 1]]
    BY <1>3 DEF Log
  <2>2. \A k \in 1..0 : nodes'[0][k - 1] = nodes[0][k - 1]
    OBVIOUS
  <2> QED
    BY <2>1, <2>2
<1>5. A!Root' = A!Root
  <2>1. CASE ClearNodes(tree)
    <3>1. DEPTH \in Levels
      BY DepthAssumption DEF Levels
    <3>2. DOMAIN nodes[DEPTH] = {}
      BY <1>2, <3>1 DEF Whole
    <3>3. DOMAIN nodes'[DEPTH] = {}
      BY <2>1, <3>1 DEF ClearNodes
    <3> QED
      BY <3>2, <3>3 DEF A!Root, A!NodeAt
  <2>2. CASE ClearCount(tree)
    BY <2>2 DEF ClearCount, A!Root, A!NodeAt
  <2> QED
    BY <2>1, <2>2
<1> QED
  BY <1>4, <1>5

\* The two trees begin as an empty log.
LEMMA LogInit == Init => Abstract!Init
<1> SUFFICES ASSUME Init PROVE Abstract!Init
  OBVIOUS
<1>1. PA!Init /\ A!Idle /\ B!Idle /\ count = 0 /\ numLeaves = 0
  BY BeginsA, BeginsB DEF Init
<1>2. PA!Shape /\ PA!Intact /\ status # "Hashing" /\ statusB # "Hashing"
  BY <1>1, PA!ShapeInit, PA!IntactInit, DepthAssumption, TwoTreesAssumption
     DEF A!Idle, B!Idle
<1>3. PA!Root = PA!ReferenceRoot(PA!CommittedLeaves)
  BY <1>2, PA!RootRecomputed, DepthAssumption, TwoTreesAssumption DEF PA!RootCommitted
<1>4. Log = PA!CommittedLeaves /\ Log = <<>>
  BY <1>1, <1>2 DEF Log, Leaves, PA!CommittedLeaves, PA!Frontier, PA!Idle
<1> QED
  BY <1>3, <1>4, SameRoots, SameReference DEF Abstract!Init

\* Two trees that take turns over one store are one append-only log, with the
\* root of exactly its leaves, however the second one is opened.
THEOREM TurnsAlwaysImplementLog == Spec => TurnsImplementLog
<1>1. Apart /\ InTurns /\ RightA' /\ RightB' /\ [Next]_vars =>
        [ turns => Abstract!AppendBatch \/ UNCHANGED <<Log, A!Root>> ]_vars
  <2> SUFFICES ASSUME Apart, InTurns, turns, RightA', RightB', Next
               PROVE  Abstract!AppendBatch \/ (Log' = Log /\ A!Root' = A!Root)
    OBVIOUS
  <2> QED
    BY LogStepA, LogStepB, LogOpenA, LogOpenB, LogClear DEF Next
<1> QED
  BY <1>1, LogInit, TurnsInvariant, RightAlwaysA, RightAlwaysB, PTL
     DEF Spec, TurnsImplementLog
=============================================================================
