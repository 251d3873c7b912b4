--------------------------- MODULE FileTree_proof ---------------------------
(***************************************************************************)
(* Proofs about a tree over a FileStore, whose writes may be taken in      *)
(* part, whose process may be killed and whose machine may lose the last   *)
(* writes.                                                                 *)
(*                                                                         *)
(* Nothing is assumed of where the files end, so the invariant is built    *)
(* from the parts of the tree's own that do not need it: Framed, and that  *)
(* the run and the partners are what the store holds.  Three things are    *)
(* added.  Every file that can be read or can come back is solid: it holds *)
(* a node at each index below any it holds.  What a failed write has left  *)
(* behind the count of a level above the leaves lies left of the frontier  *)
(* and is the hash of its children.  And inside a call each level hashed   *)
(* so far is, up to the last leaf, that of the tree over the leaves.       *)
(***************************************************************************)
EXTENDS FileTree, MerkleTree_proof, FiniteSetTheorems

\* A file for each level, all of them solid.
SolidFiles(files) ==
  /\ DOMAIN files = Levels
  /\ \A l \in Levels : DOMAIN files[l] \subseteq 0..(Capacity - 1) /\ Solid(DOMAIN files[l])

\* The files remembered are a sequence of solid files.
SolidPast ==
  /\ Len(recent) \in Nat
  /\ recent = [k \in 1..Len(recent) |-> recent[k]]
  /\ \A k \in DOMAIN recent : SolidFiles(recent[k])

\* What the handle reads, what the files hold and what may come back is solid,
\* and the leaves are counted from the length of their file.
FilesShape ==
  /\ Framed
  /\ GapInv
  /\ DOMAIN unseen = Levels
  /\ SolidFiles(Files)
  /\ SolidPast
  /\ DOMAIN nodes[0] = 0..(numLeaves - 1)

\* A node above the leaves that the handle does not see has all its leaves left
\* of the frontier, and is what the handle would compute from its children.
UnseenSound ==
  \A l \in InnerLevels : \A i \in DOMAIN unseen[l + 1] \ DOMAIN nodes[l + 1] :
    /\ i \in Nat /\ i < Shr(Frontier, l + 1)
    /\ unseen[l + 1][i] = Hash(NodeAt(l, 2 * i), NodeAt(l, 2 * i + 1))

\* Inside a call, and after one that returned Ok, what the call has hashed is the
\* tree over the stored leaves, from the left edge to the last leaf.
Recomputed ==
  (status = "Hashing" \/ (status = "Ok" /\ leaves # <<>>)) /\ SoundLeftOf(base) =>
    /\ 0 < numLeaves
    /\ \A l \in 0..level : \A i \in 0..Shr(numLeaves - 1, l) :
         NodeAt(l, i) = FullTree(StoredLeaves)[l][i]

FileInv ==
  FilesShape /\ RunStored /\ PartnersRead /\ Finished /\ UnseenSound /\ Recomputed

-----------------------------------------------------------------------------
(* Files. *)

\* Two solid sets make a solid one.
LEMMA SolidUnion == ASSUME NEW A, NEW B, Solid(A), Solid(B) PROVE Solid(A \cup B)
BY DEF Solid

\* A solid set of indices below a bound is an interval from 0, and as long as
\* it has elements: the length of a file says which nodes it holds.
LEMMA SolidInterval ==
  ASSUME NEW S, NEW c \in Nat, S \subseteq 0..(c - 1), Solid(S)
  PROVE  Cardinality(S) \in 0..c /\ S = 0..(Cardinality(S) - 1)
<1> DEFINE T == {n \in 0..c : n \notin S}
<1>1. T \subseteq Nat /\ c \in T
  OBVIOUS
<1> HIDE DEF T
<1>2. PICK m \in T : \A k \in T : m <= k
  BY <1>1, NatMinimum
<1>3. m \in 0..c /\ m \notin S
  BY DEF T
<1>4. \A k \in 0..(m - 1) : k \in S
  <2> SUFFICES ASSUME NEW k \in 0..(m - 1), k \notin S PROVE FALSE
    OBVIOUS
  <2>1. k \in T
    BY <1>3 DEF T
  <2> QED
    BY <1>2, <1>3, <2>1
<1>5. \A k \in S : k \in 0..(m - 1)
  <2> SUFFICES ASSUME NEW k \in S, k \notin 0..(m - 1) PROVE FALSE
    OBVIOUS
  <2>1. m \in 0..k
    BY <1>3
  <2> QED
    BY <1>3, <2>1 DEF Solid
<1>6. S = 0..(m - 1)
  BY <1>4, <1>5
<1>7. Cardinality(0..(m - 1)) = m
  BY <1>3, FS_Interval
<1> QED
  BY <1>3, <1>6, <1>7

\* What a file holds: what the handle reads, and what it does not see.
LEMMA FilesHold ==
  /\ DOMAIN Files = Levels
  /\ \A l \in Levels :
       /\ Files[l] = Joined(l)
       /\ DOMAIN Files[l] = DOMAIN nodes[l] \cup DOMAIN unseen[l]
       /\ \A i \in DOMAIN nodes[l] : Files[l][i] = nodes[l][i]
       /\ \A i \in DOMAIN unseen[l] \ DOMAIN nodes[l] : Files[l][i] = unseen[l][i]
BY DEF Files, Joined

\* The levels a handle reads are solid.
LEMMA NodesSolid == Framed /\ GapInv => SolidFiles(nodes)
BY FileTreeAssumption DEF Framed, TypeOK, GapInv, LevelsContiguous, SolidFiles, Solid

\* Outside a call, solid levels are all that the invariant of the gaps asks.
LEMMA SolidGapInv ==
  ASSUME SolidFiles(nodes'), status' # "Hashing"
  PROVE  GapInv'
BY DEF SolidFiles, Solid, GapInv, LevelsContiguous, CaughtUp

\* Remembering one more state of the files, or forgetting old ones, keeps the
\* past solid.
LEMMA RememberedSolid ==
  ASSUME SolidPast, SolidFiles(Files), recent' = Remembered
  PROVE  SolidPast'
<1> DEFINE past == {recent[k] : k \in 1..Len(recent)} \cup {Files}
           longer == Append(recent, Files)
           from == Larger(1, Len(longer) - MaxLost + 1)
<1>1. \A files \in past : SolidFiles(files)
  BY DEF SolidPast
<1>2. recent \in Seq(past) /\ Files \in past
  <2>1. recent \in [1..Len(recent) -> past] /\ Len(recent) \in Nat
    BY DEF SolidPast
  <2> QED
    BY <2>1
<1> HIDE DEF past
<1>3. longer \in Seq(past) /\ Len(longer) \in Nat
  BY <1>2
<1>4. from \in Nat /\ from >= 1 /\ from \in 1..(Len(longer) + 1)
  <2>1. MaxLost \in Nat
    BY FileTreeAssumption
  <2> HIDE DEF longer
  <2> QED
    BY <1>3, <2>1 DEF Larger
<1> HIDE DEF longer, from
<1>5. SubSeq(longer, from, Len(longer)) \in Seq(past)
  BY <1>3, <1>4
<1>6. recent' \in Seq(past)
  BY <1>2, <1>5 DEF Remembered, longer, from
<1> QED
  BY <1>1, <1>6 DEF SolidPast

\* A write taken in part: nothing changes left of the run or on another level,
\* the handle sees the same indices, the file stays solid, and what comes to lie
\* behind the handle's count are nodes of the run, never its last.
LEMMA PartEffect ==
  ASSUME FilesShape, NEW l \in Levels, NEW s \in Nat, NEW n \in Nat, NEW run,
         DOMAIN run = 1..n, s + n <= Capacity, ~Gap(l, s), PartWritten(l, s, run)
  PROVE  /\ numLeaves' = numLeaves /\ DOMAIN nodes' = Levels /\ DOMAIN unseen' = Levels
         /\ \A k \in Levels : DOMAIN nodes'[k] = DOMAIN nodes[k]
         /\ \A k \in Levels \ {l} : nodes'[k] = nodes[k] /\ unseen'[k] = unseen[k]
         /\ \A i \in DOMAIN nodes[l] : i < s => nodes'[l][i] = nodes[l][i]
         /\ \A i \in DOMAIN unseen'[l] \ DOMAIN nodes[l] :
              i \notin DOMAIN unseen[l] =>
                i \in s..(s + n - 2) /\ unseen'[l][i] = run[i - s + 1]
         /\ SolidFiles(Files')
<1>1. Len(run) = n
  OBVIOUS
<1>2. PICK k \in 0..(n - 1), half \in BOOLEAN :
        /\ nodes' = [nodes EXCEPT ![l] =
             [i \in DOMAIN @ |-> Overwritten(Files[l], s, run, k, half)[i]]]
        /\ unseen' = [unseen EXCEPT ![l] =
             [i \in DOMAIN Overwritten(Files[l], s, run, k, half) \ DOMAIN nodes[l] |->
                Overwritten(Files[l], s, run, k, half)[i]]]
        /\ numLeaves' = numLeaves
  BY <1>1, Zenon DEF PartWritten
<1> DEFINE file == Overwritten(Files[l], s, run, k, half)
<1>3. /\ DOMAIN file = DOMAIN Files[l] \cup s..(s + k - 1)
      /\ \A i \in DOMAIN file : i \in s..(s + k - 1) => file[i] = run[i - s + 1]
      /\ \A i \in DOMAIN file : i < s => file[i] = Files[l][i]
  BY DEF Overwritten
<1> HIDE DEF file
<1>4. /\ DOMAIN nodes = Levels /\ DOMAIN unseen = Levels /\ Capacity \in Nat
      /\ DOMAIN nodes[l] \subseteq Nat
      /\ DOMAIN Files = Levels /\ Solid(DOMAIN Files[l])
      /\ DOMAIN Files[l] \subseteq 0..(Capacity - 1)
  BY CapacityType DEF FilesShape, Framed, TypeOK, SolidFiles
<1>5. /\ DOMAIN Files[l] = DOMAIN nodes[l] \cup DOMAIN unseen[l]
      /\ \A i \in DOMAIN nodes[l] : Files[l][i] = nodes[l][i]
  BY FilesHold
<1>6. /\ nodes' = [nodes EXCEPT ![l] = [i \in DOMAIN @ |-> file[i]]]
      /\ unseen' = [unseen EXCEPT ![l] =
           [i \in DOMAIN file \ DOMAIN nodes[l] |-> file[i]]]
  BY <1>2 DEF file
<1>7. /\ DOMAIN nodes' = Levels /\ DOMAIN unseen' = Levels
      /\ nodes'[l] = [i \in DOMAIN nodes[l] |-> file[i]]
      /\ unseen'[l] = [i \in DOMAIN file \ DOMAIN nodes[l] |-> file[i]]
      /\ \A m \in Levels \ {l} : nodes'[m] = nodes[m] /\ unseen'[m] = unseen[m]
  BY <1>4, <1>6
<1>8. \A m \in Levels : DOMAIN nodes'[m] = DOMAIN nodes[m]
  BY <1>7
<1>9. \A i \in DOMAIN nodes[l] : i < s => nodes'[l][i] = nodes[l][i]
  BY <1>3, <1>5, <1>7
<1>10. ASSUME NEW i \in DOMAIN unseen'[l] \ DOMAIN nodes[l], i \notin DOMAIN unseen[l]
       PROVE  i \in s..(s + n - 2) /\ unseen'[l][i] = run[i - s + 1]
  <2>1. i \in DOMAIN file /\ unseen'[l][i] = file[i]
    BY <1>7, <1>10
  <2>2. i \in s..(s + k - 1)
    BY <1>3, <1>5, <1>10, <2>1
  <2>3. file[i] = run[i - s + 1]
    BY <1>3, <2>1, <2>2
  <2>4. i \in s..(s + n - 2)
    BY <2>2
  <2> QED
    BY <2>1, <2>3, <2>4
<1>11. SolidFiles(Files')
  <2>1. /\ DOMAIN Files' = Levels
        /\ \A m \in Levels : DOMAIN Files'[m] = DOMAIN nodes'[m] \cup DOMAIN unseen'[m]
    BY DEF Files, Joined
  <2>2. ASSUME NEW m \in Levels, m # l
        PROVE  DOMAIN Files'[m] \subseteq 0..(Capacity - 1) /\ Solid(DOMAIN Files'[m])
    <3>1. DOMAIN Files'[m] = DOMAIN Files[m]
      <4>1. nodes'[m] = nodes[m] /\ unseen'[m] = unseen[m]
        BY <1>7, <2>2
      <4>2. DOMAIN Files[m] = DOMAIN nodes[m] \cup DOMAIN unseen[m]
        BY FilesHold
      <4> QED
        BY <2>1, <4>1, <4>2
    <3> QED
      BY <3>1 DEF FilesShape, SolidFiles
  <2>3. DOMAIN Files'[l] = DOMAIN file
    BY <1>3, <1>5, <1>7, <2>1
  <2>4. Solid(DOMAIN file)
    <3>1. DOMAIN Files[l] \subseteq Nat
      BY <1>4
    <3>2. s > 0 => s - 1 \in DOMAIN Files[l]
      BY <1>5 DEF Gap
    <3>3. Solid(DOMAIN Files[l]) /\ k \in Nat
      BY <1>4
    <3>4. Solid(DOMAIN Files[l] \cup s..(s + k - 1))
      BY <3>1, <3>2, <3>3, SolidExtended
    <3> QED
      BY <1>3, <3>4
  <2>5. DOMAIN file \subseteq 0..(Capacity - 1)
    BY <1>3, <1>4
  <2> QED
    BY <2>1, <2>2, <2>3, <2>4, <2>5 DEF SolidFiles
<1> QED
  BY <1>2, <1>7, <1>8, <1>9, <1>10, <1>11

\* A step of the tree drops no node and counts the leaves it stores.
LEMMA NextGrows ==
  ASSUME Framed, [Next]_vars
  PROVE  /\ \A l \in Levels : DOMAIN nodes[l] \subseteq DOMAIN nodes'[l]
         /\ DOMAIN nodes[0] = 0..(numLeaves - 1) => DOMAIN nodes'[0] = 0..(numLeaves' - 1)
<1>1. DOMAIN nodes = Levels /\ numLeaves \in Nat /\ 0 \in Levels
  BY CapacityType, DepthAssumption DEF Framed, TypeOK, Levels
<1>2. ASSUME NEW batch \in Batches, AddStart(batch)
      PROVE  /\ \A l \in Levels : DOMAIN nodes[l] \subseteq DOMAIN nodes'[l]
             /\ DOMAIN nodes[0] = 0..(numLeaves - 1) =>
                  DOMAIN nodes'[0] = 0..(numLeaves' - 1)
  <2> DEFINE n == Len(batch)
  <2>1. n \in Nat /\ DOMAIN batch = 1..n /\ Put(0, numLeaves, batch)
    BY <1>2, BatchType DEF AddStart
  <2> HIDE DEF n
  <2>2. /\ \A l \in Levels \ {0} : nodes'[l] = nodes[l]
        /\ DOMAIN nodes'[0] = DOMAIN nodes[0] \cup numLeaves..(numLeaves + n - 1)
        /\ numLeaves' = Larger(numLeaves, numLeaves + n)
    BY <1>1, <2>1, PutEffect
  <2>3. numLeaves' = numLeaves + n
    BY <1>1, <2>1, <2>2 DEF Larger
  <2>4. 0..(numLeaves - 1) \cup numLeaves..(numLeaves + n - 1) = 0..(numLeaves + n - 1)
    BY <1>1, <2>1
  <2>5. \A l \in Levels : DOMAIN nodes[l] \subseteq DOMAIN nodes'[l]
    BY <2>2
  <2>6. ASSUME DOMAIN nodes[0] = 0..(numLeaves - 1)
        PROVE  DOMAIN nodes'[0] = 0..(numLeaves' - 1)
    <3>1. DOMAIN nodes'[0] = 0..(numLeaves + n - 1)
      BY <2>2, <2>4, <2>6, Zenon
    <3> QED
      BY <1>1, <2>1, <2>3, <3>1
  <2> QED
    BY <2>5, <2>6
<1>3. CASE HashLevel
  <2>1. /\ level + 1 \in Levels /\ level + 1 # 0 /\ start \div 2 \in Nat
        /\ NumParents \in Nat /\ DOMAIN Parents = 1..NumParents
        /\ Put(level + 1, start \div 2, Parents)
    BY <1>3, NextRun, WrittenType, DepthAssumption DEF HashLevel, InnerLevels
  <2>2. /\ \A l \in Levels \ {level + 1} : nodes'[l] = nodes[l]
        /\ DOMAIN nodes[level + 1] \subseteq DOMAIN nodes'[level + 1]
        /\ numLeaves' = numLeaves
    BY <1>1, <2>1, PutEffect
  <2> QED
    BY <1>1, <2>1, <2>2
<1>4. CASE UNCHANGED store
  BY <1>4 DEF store
<1> QED
  BY <1>2, <1>3, <1>4
     DEF Next, AddNothing, AddLeaves, AddTreeFull, AddStartFails, EntryFails,
         HashLevelFails, LevelFails, vars, store

-----------------------------------------------------------------------------
(* The shape of the files, action by action. *)

\* An empty directory has the shape.
LEMMA FilesShapeInit == FileInit => FilesShape
<1> SUFFICES ASSUME FileInit PROVE FilesShape
  OBVIOUS
<1>1. Framed /\ GapInv
  BY ShapeInit, GapInit DEF FileInit, Shape
<1>2. /\ DOMAIN unseen = Levels
      /\ \A l \in Levels : DOMAIN nodes[l] = {} /\ DOMAIN unseen[l] = {}
  BY DEF FileInit, Init, NothingUnseen
<1>3. SolidFiles(Files)
  BY <1>2, FilesHold DEF SolidFiles, Solid
<1>4. SolidPast
  BY DEF FileInit, SolidPast
<1>5. DOMAIN nodes[0] = 0..(numLeaves - 1)
  BY <1>2, DepthAssumption DEF FileInit, Init, Levels
<1> QED
  BY <1>1, <1>2, <1>3, <1>4, <1>5 DEF FilesShape

\* What a call, or a level of one, written whole leaves behind.
LEMMA FilesShapeProceed ==
  ASSUME FilesShape, Proceed
  PROVE  FilesShape'
<1>1. Next /\ Framed /\ GapInv
  BY DEF Proceed, Next, AddLeaves, FilesShape
<1>2. Framed' /\ GapInv'
  BY <1>1, FramedStep, GapStep
<1>3. SolidFiles(nodes')
  BY <1>2, FileTreeAssumption
     DEF Framed, TypeOK, GapInv, LevelsContiguous, SolidFiles, Solid
<1>4. /\ DOMAIN unseen' = Levels
      /\ \A l \in Levels : DOMAIN unseen'[l] = DOMAIN Files[l] \ DOMAIN nodes'[l]
  BY DEF Proceed, Beyond
<1>5. SolidFiles(Files')
  <2>1. \A l \in Levels : DOMAIN Files'[l] = DOMAIN nodes'[l] \cup DOMAIN Files[l]
    BY <1>4 DEF Files, Joined
  <2>2. DOMAIN Files' = Levels
    BY DEF Files
  <2>3. ASSUME NEW l \in Levels
        PROVE  DOMAIN Files'[l] \subseteq 0..(Capacity - 1) /\ Solid(DOMAIN Files'[l])
    <3>1. /\ Solid(DOMAIN nodes'[l]) /\ Solid(DOMAIN Files[l])
          /\ DOMAIN nodes'[l] \subseteq 0..(Capacity - 1)
          /\ DOMAIN Files[l] \subseteq 0..(Capacity - 1)
      BY <1>3 DEF SolidFiles, FilesShape
    <3> QED
      BY <2>1, <3>1, SolidUnion
  <2> QED
    BY <2>2, <2>3 DEF SolidFiles
<1>6. SolidPast'
  BY RememberedSolid DEF FilesShape, Proceed
<1>7. DOMAIN nodes'[0] = 0..(numLeaves' - 1)
  BY <1>1, NextGrows DEF FilesShape
<1> QED
  BY <1>2, <1>4, <1>5, <1>6, <1>7 DEF FilesShape

\* An error that leaves the files alone.
LEMMA FilesShapeFail ==
  ASSUME FilesShape, Fail
  PROVE  FilesShape'
<1>1. /\ Next /\ Framed /\ GapInv
      /\ nodes' = nodes /\ numLeaves' = numLeaves /\ unseen' = unseen /\ recent' = recent
  BY DEF Fail, Next, AddLeaves, FilesShape, AddStartFails, HashLevelFails, store
<1>2. Framed' /\ GapInv'
  BY <1>1, FramedStep, GapStep
<1>3. Files' = Files
  BY <1>1 DEF Files, Joined
<1> QED
  BY <1>1, <1>2, <1>3 DEF FilesShape, SolidPast

\* A failing call whose write is taken in part.
LEMMA FilesShapePart ==
  ASSUME FilesShape, Framed', status' # "Hashing", recent' = recent,
         numLeaves' = numLeaves, DOMAIN nodes' = Levels, DOMAIN unseen' = Levels,
         \A k \in Levels : DOMAIN nodes'[k] = DOMAIN nodes[k],
         SolidFiles(Files')
  PROVE  FilesShape'
<1>1. SolidFiles(nodes')
  BY NodesSolid DEF FilesShape, SolidFiles
<1>2. GapInv'
  BY <1>1, SolidGapInv
<1>3. DOMAIN nodes'[0] = 0..(numLeaves' - 1)
  BY DepthAssumption DEF FilesShape, Levels
<1> QED
  BY <1>2, <1>3 DEF FilesShape, SolidPast

\* What the two failing writes write, and where.
LEMMA FailingWrites ==
  ASSUME FilesShape
  PROVE  /\ \A b \in Batches : LeavesPartWritten(b) =>
              /\ 0 \in Levels /\ numLeaves \in Nat /\ Len(b) \in Nat
              /\ DOMAIN b = 1..Len(b) /\ numLeaves + Len(b) <= Capacity
              /\ ~Gap(0, numLeaves) /\ PartWritten(0, numLeaves, b)
         /\ ParentsPartWritten =>
              /\ level \in InnerLevels /\ level + 1 \in Levels
              /\ start \div 2 \in Nat /\ NumParents \in Nat
              /\ DOMAIN Parents = 1..NumParents
              /\ start \div 2 = Shr(base, level + 1)
              /\ (start \div 2) + NumParents - 1 = Shr(numLeaves - 1, level + 1)
              /\ (start \div 2) + NumParents <= Capacity
              /\ ~Gap(level + 1, start \div 2)
              /\ PartWritten(level + 1, start \div 2, Parents)
<1>1. ASSUME NEW b \in Batches, LeavesPartWritten(b)
      PROVE  /\ 0 \in Levels /\ numLeaves \in Nat /\ Len(b) \in Nat
             /\ DOMAIN b = 1..Len(b) /\ numLeaves + Len(b) <= Capacity
             /\ ~Gap(0, numLeaves) /\ PartWritten(0, numLeaves, b)
  <2>1. 0 \in Levels /\ numLeaves \in Nat /\ Len(b) \in Nat /\ DOMAIN b = 1..Len(b)
    BY BatchType, CapacityType, DepthAssumption DEF FilesShape, Framed, TypeOK, Levels
  <2> QED
    BY <1>1, <2>1, FileTreeAssumption DEF LeavesPartWritten, EntryFails, Fits, Rejects
<1>2. ASSUME ParentsPartWritten
      PROVE  /\ level \in InnerLevels /\ level + 1 \in Levels
             /\ start \div 2 \in Nat /\ NumParents \in Nat
             /\ DOMAIN Parents = 1..NumParents
             /\ start \div 2 = Shr(base, level + 1)
             /\ (start \div 2) + NumParents - 1 = Shr(numLeaves - 1, level + 1)
             /\ (start \div 2) + NumParents <= Capacity
             /\ ~Gap(level + 1, start \div 2)
             /\ PartWritten(level + 1, start \div 2, Parents)
  <2>1. /\ level \in InnerLevels /\ level + 1 \in Levels
        /\ start \div 2 \in Nat /\ NumParents \in Nat
        /\ start \div 2 = Shr(base, level + 1)
        /\ (start \div 2) + NumParents - 1 = Shr(numLeaves - 1, level + 1)
        /\ numLeaves \in Nat /\ 0 < numLeaves
    BY <1>2, NextRun DEF ParentsPartWritten, LevelFails, FilesShape
  <2>2. (start \div 2) + NumParents <= Capacity
    <3>1. numLeaves - 1 \in Nat /\ numLeaves <= Capacity
      BY <2>1 DEF FilesShape, Framed, TypeOK
    <3>2. Shr(numLeaves - 1, level + 1) <= numLeaves - 1
      BY <2>1, <3>1, ShrType
    <3>3. Shr(numLeaves - 1, level + 1) \in Nat
      BY <2>1, <3>1, ShrType
    <3> QED
      BY <2>1, <3>1, <3>2, <3>3, CapacityType
  <2>3. DOMAIN Parents = 1..NumParents
    BY DEF Parents
  <2> QED
    BY <1>2, <2>1, <2>2, <2>3, FileTreeAssumption
       DEF ParentsPartWritten, Rejects
<1> QED
  BY <1>1, <1>2

\* The leaves of a call taken in part.
LEMMA FilesShapeLeaves ==
  ASSUME FilesShape, NEW b \in Batches, LeavesPartWritten(b)
  PROVE  FilesShape'
<1>1. /\ numLeaves' = numLeaves /\ DOMAIN nodes' = Levels /\ DOMAIN unseen' = Levels
      /\ \A k \in Levels : DOMAIN nodes'[k] = DOMAIN nodes[k]
      /\ SolidFiles(Files')
  <2>1. /\ 0 \in Levels /\ numLeaves \in Nat /\ Len(b) \in Nat
        /\ DOMAIN b = 1..Len(b) /\ numLeaves + Len(b) <= Capacity
        /\ ~Gap(0, numLeaves) /\ PartWritten(0, numLeaves, b)
    BY FailingWrites
  <2> QED
    BY <2>1, PartEffect
<1>2. EntryFails(b) /\ status' # "Hashing" /\ recent' = recent /\ Framed
  BY DEF LeavesPartWritten, EntryFails, FilesShape
<1>3. Framed'
  BY <1>1, <1>2, FramedEntryFails
<1> QED
  BY <1>1, <1>2, <1>3, FilesShapePart

\* The parents of a level taken in part.
LEMMA FilesShapeParents ==
  ASSUME FilesShape, ParentsPartWritten
  PROVE  FilesShape'
<1>1. /\ numLeaves' = numLeaves /\ DOMAIN nodes' = Levels /\ DOMAIN unseen' = Levels
      /\ \A k \in Levels : DOMAIN nodes'[k] = DOMAIN nodes[k]
      /\ SolidFiles(Files')
  <2>1. /\ level + 1 \in Levels /\ start \div 2 \in Nat /\ NumParents \in Nat
        /\ DOMAIN Parents = 1..NumParents /\ (start \div 2) + NumParents <= Capacity
        /\ ~Gap(level + 1, start \div 2)
        /\ PartWritten(level + 1, start \div 2, Parents)
    BY FailingWrites
  <2> QED
    BY <2>1, PartEffect
<1>2. LevelFails /\ status' # "Hashing" /\ recent' = recent /\ Framed
  BY DEF ParentsPartWritten, LevelFails, FilesShape
<1>3. Framed'
  BY <1>1, <1>2, FramedLevelFails
<1> QED
  BY <1>1, <1>2, <1>3, FilesShapePart

\* A new handle over solid files, none of which holds more than it shows.
LEMMA FilesShapeOpened ==
  ASSUME SolidFiles(nodes'), numLeaves' = Cardinality(DOMAIN nodes'[0]), NewTree,
         DOMAIN unseen' = Levels,
         \A l \in Levels : DOMAIN unseen'[l] \subseteq DOMAIN nodes'[l],
         SolidPast'
  PROVE  FilesShape'
<1>1. 0 \in Levels /\ Capacity \in Nat
  BY CapacityType, DepthAssumption DEF Levels
<1>2. numLeaves' \in 0..Capacity /\ DOMAIN nodes'[0] = 0..(numLeaves' - 1)
  BY <1>1, SolidInterval DEF SolidFiles
<1>3. Framed'
  BY <1>2, FramedNew DEF SolidFiles
<1>4. GapInv'
  BY SolidGapInv DEF NewTree
<1>5. SolidFiles(Files')
  <2>1. /\ DOMAIN Files' = Levels
        /\ \A l \in Levels : DOMAIN Files'[l] = DOMAIN nodes'[l] \cup DOMAIN unseen'[l]
    BY DEF Files, Joined
  <2>2. \A l \in Levels : DOMAIN Files'[l] = DOMAIN nodes'[l]
    BY <2>1
  <2> QED
    BY <2>1, <2>2 DEF SolidFiles
<1> QED
  BY <1>2, <1>3, <1>4, <1>5 DEF FilesShape

\* The process ends, and its directory is opened again.
LEMMA FilesShapeReopen ==
  ASSUME FilesShape, Reopen
  PROVE  FilesShape'
<1>1. SolidFiles(nodes')
  BY DEF Reopen, Shown, FilesShape
<1>2. /\ DOMAIN unseen' = Levels
      /\ \A l \in Levels : DOMAIN unseen'[l] \subseteq DOMAIN nodes'[l]
  BY DEF Reopen, Shown, Beyond
<1>3. SolidPast'
  BY DEF FilesShape, SolidPast, Reopen
<1> QED
  BY <1>1, <1>2, <1>3, FilesShapeOpened DEF Reopen

\* The machine stops, and every file comes back as it was at some time.
LEMMA FilesShapePowerLoss ==
  ASSUME FilesShape, PowerLoss
  PROVE  FilesShape'
<1> DEFINE found == Append(recent, Files)
<1>1. \A k \in DOMAIN found : SolidFiles(found[k])
  <2>1. /\ DOMAIN found = 1..(Len(recent) + 1)
        /\ \A k \in 1..Len(recent) : found[k] = recent[k]
        /\ found[Len(recent) + 1] = Files
    <3> DEFINE past == {recent[k] : k \in 1..Len(recent)} \cup {Files}
    <3>1. recent \in [1..Len(recent) -> past] /\ Len(recent) \in Nat /\ Files \in past
      BY DEF FilesShape, SolidPast
    <3> HIDE DEF past
    <3> QED
      BY <3>1
  <2>2. \A k \in 1..Len(recent) : SolidFiles(recent[k])
    BY DEF FilesShape, SolidPast
  <2>3. \A k \in 1..(Len(recent) + 1) : k \in 1..Len(recent) \/ k = Len(recent) + 1
    BY DEF FilesShape, SolidPast
  <2> HIDE DEF found
  <2> QED
    BY <2>1, <2>2, <2>3 DEF FilesShape
<1>2. PICK back \in [Levels -> DOMAIN found] :
        /\ nodes' = [l \in Levels |-> found[back[l]][l]]
        /\ numLeaves' = Cardinality(DOMAIN nodes'[0])
  BY DEF PowerLoss
<1> HIDE DEF found
<1>3. SolidFiles(nodes')
  BY <1>1, <1>2 DEF SolidFiles
<1>4. /\ DOMAIN unseen' = Levels
      /\ \A l \in Levels : DOMAIN unseen'[l] \subseteq DOMAIN nodes'[l]
  BY DEF PowerLoss, NothingUnseen
<1>5. SolidPast'
  BY DEF SolidPast, PowerLoss
<1> QED
  BY <1>2, <1>3, <1>4, <1>5, FilesShapeOpened DEF PowerLoss

\* Every step keeps the shape of the files.
LEMMA FilesShapeStep == FilesShape /\ [FileNext]_fileVars => FilesShape'
<1> SUFFICES ASSUME FilesShape, [FileNext]_fileVars PROVE FilesShape'
  OBVIOUS
<1>1. CASE UNCHANGED fileVars
  BY <1>1
     DEF fileVars, vars, store, locals, FilesShape, Framed, TypeOK, RunShape, GapInv,
         LevelsContiguous, CaughtUp, Gap, SolidPast, Files, Joined
<1> QED
  BY <1>1, FilesShapeProceed, FilesShapeFail, FilesShapeLeaves, FilesShapeParents,
     FilesShapeReopen, FilesShapePowerLoss
     DEF FileNext

\* The shape of the files is an invariant of every execution.
LEMMA FilesShapeInvariant == FileSpec => []FilesShape
BY FilesShapeInit, FilesShapeStep, PTL DEF FileSpec

\* Whatever was written in part, killed or lost, no file has a hole that a count
\* taken from its length would bridge.
THEOREM FilesStayContiguous == FileSpec => []FilesContiguous
<1>1. FilesShape => FilesContiguous
  BY FilesHold DEF FilesShape, SolidFiles, Solid, FilesContiguous
<1> QED
  BY <1>1, FilesShapeInvariant, PTL

-----------------------------------------------------------------------------
(* What lies left of the frontier. *)

\* The steps of a call, those that fail and those whose write is taken in part
\* included: all but a new handle and a power loss.
CallStep ==
  Proceed \/ Fail \/ (\E b \in Batches : LeavesPartWritten(b)) \/ ParentsPartWritten

\* A write taken in part does not reach left of the frontier either.
LEMMA PartKeeps ==
  ASSUME FilesShape, (\E b \in Batches : LeavesPartWritten(b)) \/ ParentsPartWritten
  PROVE  /\ Frontier \in Nat /\ Frontier' = numLeaves /\ Frontier <= numLeaves
         /\ \A l \in Levels : DOMAIN nodes'[l] = DOMAIN nodes[l]
         /\ \A l \in Levels : \A i \in DOMAIN nodes[l] :
              i < Shr(Frontier, l) => nodes'[l][i] = nodes[l][i]
<1>1. numLeaves \in Nat /\ base \in Nat /\ base <= numLeaves
  BY CapacityType DEF FilesShape, Framed, TypeOK
<1>2. ASSUME NEW b \in Batches, LeavesPartWritten(b)
      PROVE  /\ Frontier \in Nat /\ Frontier' = numLeaves /\ Frontier <= numLeaves
             /\ \A l \in Levels : DOMAIN nodes'[l] = DOMAIN nodes[l]
             /\ \A l \in Levels : \A i \in DOMAIN nodes[l] :
                  i < Shr(Frontier, l) => nodes'[l][i] = nodes[l][i]
  <2>1. /\ 0 \in Levels /\ numLeaves \in Nat /\ Len(b) \in Nat
        /\ DOMAIN b = 1..Len(b) /\ numLeaves + Len(b) <= Capacity
        /\ ~Gap(0, numLeaves) /\ PartWritten(0, numLeaves, b)
    BY <1>2, FailingWrites
  <2>2. /\ numLeaves' = numLeaves
        /\ \A l \in Levels : DOMAIN nodes'[l] = DOMAIN nodes[l]
        /\ \A l \in Levels \ {0} : nodes'[l] = nodes[l]
        /\ \A i \in DOMAIN nodes[0] : i < numLeaves => nodes'[0][i] = nodes[0][i]
    BY <2>1, PartEffect
  <2>3. Frontier = numLeaves /\ Frontier' = numLeaves
    BY <1>2, <2>2 DEF LeavesPartWritten, EntryFails, Frontier, Idle
  <2>4. Shr(numLeaves, 0) = numLeaves
    BY <1>1, ShrRec
  <2> QED
    BY <1>1, <2>2, <2>3, <2>4
<1>3. ASSUME ParentsPartWritten
      PROVE  /\ Frontier \in Nat /\ Frontier' = numLeaves /\ Frontier <= numLeaves
             /\ \A l \in Levels : DOMAIN nodes'[l] = DOMAIN nodes[l]
             /\ \A l \in Levels : \A i \in DOMAIN nodes[l] :
                  i < Shr(Frontier, l) => nodes'[l][i] = nodes[l][i]
  <2> DEFINE m == level + 1
             s == start \div 2
  <2>1. /\ m \in Levels /\ s \in Nat /\ NumParents \in Nat
        /\ DOMAIN Parents = 1..NumParents /\ s + NumParents <= Capacity
        /\ s = Shr(base, m) /\ ~Gap(m, s) /\ PartWritten(m, s, Parents)
    BY <1>3, FailingWrites
  <2> HIDE DEF m, s
  <2>2. /\ numLeaves' = numLeaves
        /\ \A l \in Levels : DOMAIN nodes'[l] = DOMAIN nodes[l]
        /\ \A l \in Levels \ {m} : nodes'[l] = nodes[l]
        /\ \A i \in DOMAIN nodes[m] : i < s => nodes'[m][i] = nodes[m][i]
    BY <2>1, PartEffect
  <2>3. Frontier = base /\ Frontier' = numLeaves
    BY <1>3, <2>2 DEF ParentsPartWritten, LevelFails, Frontier, Idle
  <2> QED
    BY <1>1, <2>1, <2>2, <2>3
<1> QED
  BY <1>2, <1>3

\* So no step of a call changes what the handle reads there.
LEMMA CallKeeps ==
  ASSUME FilesShape, CallStep
  PROVE  /\ Frontier \in Nat /\ Frontier' \in Nat /\ Frontier <= Frontier'
         /\ \A l \in Levels : \A i \in Nat : i < Shr(Frontier, l) =>
              /\ NodeAt(l, i)' = NodeAt(l, i)
              /\ i \in DOMAIN nodes[l] => i \in DOMAIN nodes'[l]
              /\ i \in DOMAIN nodes[l] => nodes'[l][i] = nodes[l][i]
         /\ \A l \in Levels : DOMAIN nodes[l] \subseteq DOMAIN nodes'[l]
<1>1. Framed
  BY DEF FilesShape
<1>2. CASE Proceed \/ Fail
  <2>1. Next
    BY <1>2 DEF Proceed, Fail, Next, AddLeaves
  <2> QED
    BY <1>1, <2>1, FrontierStep, FrontierKept, NextGrows
<1>3. CASE (\E b \in Batches : LeavesPartWritten(b)) \/ ParentsPartWritten
  <2>1. /\ Frontier \in Nat /\ Frontier' = numLeaves /\ Frontier <= numLeaves
        /\ \A l \in Levels : DOMAIN nodes'[l] = DOMAIN nodes[l]
        /\ \A l \in Levels : \A i \in DOMAIN nodes[l] :
             i < Shr(Frontier, l) => nodes'[l][i] = nodes[l][i]
    BY <1>3, PartKeeps
  <2>2. numLeaves \in Nat
    BY CapacityType DEF FilesShape, Framed, TypeOK
  <2>3. \A l \in Levels : \A i \in Nat :
          i < Shr(Frontier, l) => NodeAt(l, i)' = NodeAt(l, i)
    BY <2>1, Zenon DEF NodeAt
  <2> QED
    BY <2>1, <2>2, <2>3
<1> QED
  BY <1>2, <1>3 DEF CallStep

\* A new handle shows at least what the last one did.
LEMMA ReopenShows ==
  ASSUME FilesShape, Reopen, NEW l \in Levels
  PROVE  /\ nodes' = Files
         /\ DOMAIN nodes'[l] = DOMAIN nodes[l] \cup DOMAIN unseen[l]
         /\ \A i \in DOMAIN nodes[l] : nodes'[l][i] = nodes[l][i]
         /\ \A i \in DOMAIN unseen[l] \ DOMAIN nodes[l] : nodes'[l][i] = unseen[l][i]
BY FilesHold DEF Reopen, Shown

\* Failed writes, kills and new handles leave the nodes over acknowledged leaves
\* in place; only a power loss takes one away.
THEOREM AcknowledgedNodesStay == FileSpec => StoredNodesFinal
<1>1. FilesShape /\ [FileNext]_fileVars =>
        [ \/ PowerLost
          \/ \A l \in Levels : \A i \in 0..(Shr(Frontier, l) - 1) \cap DOMAIN nodes[l] :
               i \in DOMAIN nodes'[l] /\ nodes'[l][i] = nodes[l][i] ]_fileVars
  <2> SUFFICES ASSUME FilesShape, FileNext, ~PowerLost,
                      NEW l \in Levels,
                      NEW i \in 0..(Shr(Frontier, l) - 1) \cap DOMAIN nodes[l]
               PROVE  i \in DOMAIN nodes'[l] /\ nodes'[l][i] = nodes[l][i]
    OBVIOUS
  <2>1. CASE CallStep
    <3>1. Frontier \in Nat
      BY <2>1, CallKeeps
    <3>2. i \in Nat /\ i < Shr(Frontier, l)
      BY <3>1, ShrType
    <3> QED
      BY <2>1, <3>2, CallKeeps
  <2>2. CASE Reopen
    BY <2>2, ReopenShows
  <2>3. CASE PowerLoss
    BY <2>3 DEF PowerLoss, PowerLost
  <2> QED
    BY <2>1, <2>2, <2>3 DEF FileNext, CallStep
<1> QED
  BY <1>1, FilesShapeInvariant, PTL DEF FileSpec, StoredNodesFinal

\* A handle with a level left behind completes no call until it is replaced.
THEOREM HandleStaysStuck == FileSpec => StuckUntilReopened
<1>1. FilesShape /\ [FileNext]_fileVars =>
        [ Behind => \/ PowerLost
                    \/ Reopen
                    \/ Behind' /\ ~(status = "Hashing" /\ status' = "Ok") ]_fileVars
  <2> SUFFICES ASSUME FilesShape, FileNext, Behind, ~PowerLost, ~Reopen
               PROVE  Behind' /\ ~(status = "Hashing" /\ status' = "Ok")
    OBVIOUS
  <2>1. CASE Proceed \/ Fail
    <3>1. Next /\ Framed /\ GapInv /\ RejectGaps
      BY <2>1, FileTreeAssumption DEF Proceed, Fail, Next, AddLeaves, FilesShape
    <3> QED
      BY <3>1, BehindStep
  <2>2. CASE (\E b \in Batches : LeavesPartWritten(b)) \/ ParentsPartWritten
    <3>1. /\ Frontier \in Nat /\ Frontier' = numLeaves /\ Frontier <= numLeaves
          /\ \A l \in Levels : DOMAIN nodes'[l] = DOMAIN nodes[l]
      BY <2>2, PartKeeps
    <3>2. PICK l \in Levels : Gap(l, Shr(Frontier, l))
      BY DEF Behind
    <3>3. Contiguous(l) /\ numLeaves \in Nat
      BY FileTreeAssumption, CapacityType
         DEF FilesShape, Framed, TypeOK, GapInv, LevelsContiguous, Contiguous, Solid
    <3>4. Gap(l, Shr(numLeaves, l))
      BY <3>1, <3>2, <3>3, GapGrows
    <3>5. Behind'
      BY <3>1, <3>4 DEF Behind, Gap
    <3>6. status' = "StoreError"
      BY <2>2 DEF LeavesPartWritten, ParentsPartWritten, EntryFails, LevelFails
    <3> QED
      BY <3>5, <3>6
  <2>3. CASE PowerLoss
    BY <2>3 DEF PowerLoss, PowerLost
  <2> QED
    BY <2>1, <2>2, <2>3 DEF FileNext
<1> QED
  BY <1>1, FilesShapeInvariant, PTL DEF FileSpec, StuckUntilReopened

-----------------------------------------------------------------------------
(* The tree over the stored leaves. *)

\* The children of a node left of a leaf's path are left of it, and those of a
\* node not past the path are not past it.
LEMMA Children ==
  ASSUME NEW n \in Nat, NEW l \in InnerLevels, NEW i \in Nat
  PROVE  /\ 2 * i \in Nat /\ 2 * i + 1 \in Nat
         /\ i < Shr(n, l + 1) => 2 * i < Shr(n, l) /\ 2 * i + 1 < Shr(n, l)
         /\ i > Shr(n, l + 1) => 2 * i > Shr(n, l) /\ 2 * i + 1 > Shr(n, l)
<1>1. Shr(n, l + 1) = Shr(n, l) \div 2 /\ Shr(n, l) \in Nat
  BY ShrRec, ShrType, DepthAssumption DEF InnerLevels, Levels
<1> QED
  BY <1>1

\* Level 0 of the tree over the first n nodes of a file is the file.
LEMMA TreeLeaves ==
  ASSUME NEW file, NEW n \in Nat, NEW i \in 0..(n - 1)
  PROVE  FullTree([k \in 1..n |-> file[k - 1]])[0][i] = file[i]
<1> DEFINE log == [k \in 1..n |-> file[k - 1]]
<1>1. Len(log) = n /\ i \in Nat /\ i < n /\ log[i + 1] = file[i]
  OBVIOUS
<1> HIDE DEF log
<1>2. FullTree(log)[0][i] = log[i + 1]
  BY <1>1, FullTreeOver DEF TreeOver
<1> QED
  BY <1>1, <1>2 DEF log

\* Past its last leaf the tree holds the zero of each level.
LEMMA TreePadding ==
  ASSUME NEW log, NEW n \in Nat, Len(log) = n, n > 0
  PROVE  \A l \in Levels : \A i \in Nat :
           i > Shr(n - 1, l) => FullTree(log)[l][i] = Zeros[l]
<1> DEFINE Padded(l) == \A i \in Nat : i > Shr(n - 1, l) => FullTree(log)[l][i] = Zeros[l]
           T == {l \in Levels : ~Padded(l)}
<1> SUFFICES ASSUME T # {} PROVE FALSE
  OBVIOUS
<1>1. T \subseteq Nat
  BY DepthAssumption DEF Levels
<1>2. TreeOver(FullTree(log), log) /\ n - 1 \in Nat
  BY FullTreeOver
<1> HIDE DEF T, Padded
<1>3. PICK m \in T : \A k \in T : m <= k
  BY <1>1, NatMinimum
<1>4. Padded(0)
  <2> SUFFICES ASSUME NEW i \in Nat, i > Shr(n - 1, 0)
               PROVE  FullTree(log)[0][i] = Zeros[0]
    BY DEF Padded
  <2>1. ~(i < Len(log))
    BY <1>2, ShrRec
  <2> QED
    BY <1>2, <2>1, ZerosRec DEF TreeOver
<1>5. m \in Levels /\ ~Padded(m) /\ m # 0
  BY <1>4 DEF T
<1>6. /\ m - 1 \in InnerLevels /\ m - 1 \in Levels /\ m - 1 \notin T
      /\ (m - 1) + 1 = m
  BY <1>3, <1>5, DepthAssumption DEF Levels, InnerLevels
<1>7. Padded(m - 1)
  BY <1>6 DEF T
<1>8. ASSUME NEW i \in Nat, i > Shr(n - 1, m) PROVE FullTree(log)[m][i] = Zeros[m]
  <2>1. /\ 2 * i \in Nat /\ 2 * i + 1 \in Nat
        /\ 2 * i > Shr(n - 1, m - 1) /\ 2 * i + 1 > Shr(n - 1, m - 1)
    BY <1>2, <1>6, <1>8, Children
  <2>2. /\ FullTree(log)[m - 1][2 * i] = Zeros[m - 1]
        /\ FullTree(log)[m - 1][2 * i + 1] = Zeros[m - 1]
    BY <1>7, <2>1 DEF Padded
  <2>3. FullTree(log)[m][i] =
          Hash(FullTree(log)[m - 1][2 * i], FullTree(log)[m - 1][2 * i + 1])
    BY <1>2, <1>6 DEF TreeOver, Hashed, InnerLevels
  <2>4. Zeros[m] = Hash(Zeros[m - 1], Zeros[m - 1])
    BY <1>6, ZerosRec DEF InnerLevels
  <2> QED
    BY <2>2, <2>3, <2>4
<1> QED
  BY <1>5, <1>8 DEF Padded

\* The leaves of a call just begun are level 0 of the tree over all leaves.
LEMMA RecomputedStart ==
  ASSUME FilesShape, FilesShape', NEW batch \in Batches, AddStart(batch)
  PROVE  Recomputed'
<1>1. numLeaves' \in Nat /\ DOMAIN nodes'[0] = 0..(numLeaves' - 1) /\ level' = 0
  BY CapacityType DEF FilesShape, Framed, TypeOK, AddStart
<1>2. 0 < numLeaves' /\ numLeaves' - 1 \in Nat
  <2>1. status' = "Hashing"
    BY DEF AddStart
  <2>2. Len(leaves') > 0 /\ base' + Len(leaves') = numLeaves' /\ base' \in Nat
    BY <2>1, CapacityType DEF FilesShape, Framed, TypeOK, RunShape
  <2>3. Len(leaves') \in Nat
    BY BatchType DEF AddStart
  <2>4. \A b, k \in Nat : k > 0 => 0 < b + k /\ b + k - 1 \in Nat
    OBVIOUS
  <2>5. 0 < base' + Len(leaves') /\ base' + Len(leaves') - 1 \in Nat
    BY <2>2, <2>3, <2>4
  <2> QED
    BY <2>2, <2>5
<1>3. StoredLeaves' = [k \in 1..numLeaves' |-> nodes'[0][k - 1]]
  BY DEF StoredLeaves
<1>4. Shr(numLeaves' - 1, 0) = numLeaves' - 1
  BY <1>2, ShrRec
<1>5. ASSUME NEW i \in 0..(numLeaves' - 1)
      PROVE  NodeAt(0, i)' = FullTree(StoredLeaves')[0][i]
  <2>1. NodeAt(0, i)' = nodes'[0][i]
    BY <1>1 DEF NodeAt
  <2> QED
    BY <1>1, <1>3, <2>1, TreeLeaves
<1>6. ASSUME NEW l \in 0..level', NEW i \in 0..Shr(numLeaves' - 1, l)
      PROVE  NodeAt(l, i)' = FullTree(StoredLeaves')[l][i]
  <2>1. l = 0
    BY <1>1
  <2>2. i \in 0..(numLeaves' - 1)
    BY <1>4, <2>1
  <2> QED
    BY <1>5, <2>1, <2>2
<1> QED
  BY <1>2, <1>6 DEF Recomputed

\* An iteration of the loop hashes one level more of that tree.
LEMMA RecomputedHashLevel ==
  ASSUME FilesShape, RunStored, PartnersRead, Recomputed, HashLevel
  PROVE  Recomputed'
<1> DEFINE log == StoredLeaves
           at(l) == FullTree(log)[l]
<1>1. /\ status = "Hashing" /\ level \in InnerLevels /\ level \in Levels
      /\ level + 1 \in Levels /\ level + 1 # 0
      /\ start \in Nat /\ runLen \in Nat /\ start \div 2 \in Nat /\ NumParents \in Nat
      /\ start \div 2 = Shr(base, level + 1)
      /\ (start \div 2) + NumParents - 1 = Shr(numLeaves - 1, level + 1)
      /\ base \in Nat /\ numLeaves \in Nat /\ 0 < numLeaves /\ numLeaves - 1 \in Nat
      /\ Framed
  <2>1. status = "Hashing" /\ Framed
    BY DEF HashLevel, FilesShape
  <2>2. /\ level \in InnerLevels /\ level + 1 \in Levels
        /\ start \in Nat /\ runLen \in Nat /\ start \div 2 \in Nat
        /\ NumParents \in Nat
        /\ start \div 2 = Shr(base, level + 1)
        /\ (start \div 2) + NumParents - 1 = Shr(numLeaves - 1, level + 1)
        /\ base \in Nat /\ numLeaves \in Nat /\ 0 < numLeaves
    BY <2>1, NextRun
  <2> QED
    BY <2>1, <2>2, DepthAssumption DEF InnerLevels, Levels
<1>2. /\ start = Shr(base, level) /\ start + runLen - 1 = Shr(numLeaves - 1, level)
      /\ runLen > 0 /\ base <= numLeaves - 1
  <2>1. /\ start = Shr(base, level) /\ start + runLen - 1 = Shr(numLeaves - 1, level)
        /\ runLen > 0 /\ base + Len(leaves) = numLeaves /\ Len(leaves) > 0
    BY <1>1 DEF Framed, RunShape
  <2>2. Len(leaves) \in Nat
    BY <1>1, NextRun
  <2> QED
    BY <1>1, <2>1, <2>2
<1>3. /\ level' = level + 1 /\ base' = base /\ numLeaves' = numLeaves
      /\ StoredLeaves' = log
  <2>1. nodes'[0] = nodes[0] /\ numLeaves' = numLeaves
    BY <1>1 DEF HashLevel, Put, Counted, Framed, TypeOK
  <2> QED
    BY <2>1 DEF HashLevel, StoredLeaves
<1>4. /\ \A l \in Levels : \A i \in Nat :
            i < Shr(base, l) => NodeAt(l, i)' = NodeAt(l, i)
      /\ \A l \in Levels \ {level + 1} : \A i : NodeAt(l, i)' = NodeAt(l, i)
  BY <1>1, HashLevelReads
<1>5. Len(log) = numLeaves
  BY <1>1 DEF StoredLeaves
<1> HIDE DEF log
<1> SUFFICES ASSUME SoundLeftOf(base)',
                    NEW l \in 0..(level + 1), NEW i \in 0..Shr(numLeaves - 1, l)
             PROVE  NodeAt(l, i)' = at(l)[i]
  BY <1>1, <1>3 DEF Recomputed
<1>6. SoundLeftOf(base)
  <2>1. \A k \in InnerLevels : \A x \in 0..(Shr(base, k + 1) - 1) :
          ParentAgrees(k, x)' <=> ParentAgrees(k, x)
    BY <1>1, <1>4, SoundKept
  <2> QED
    BY <1>3, <2>1 DEF SoundLeftOf
<1>7. \A k \in 0..level : \A x \in 0..Shr(numLeaves - 1, k) : NodeAt(k, x) = at(k)[x]
  BY <1>1, <1>6 DEF Recomputed, log
<1>8. l \in Levels /\ Shr(numLeaves - 1, l) \in Nat /\ i \in Nat
  BY <1>1, ShrType, DepthAssumption DEF InnerLevels, Levels
<1>9. CASE l # level + 1
  <2>1. l \in 0..level
    BY <1>1, <1>9, DepthAssumption DEF InnerLevels
  <2> QED
    BY <1>4, <1>7, <1>8, <1>9, <2>1
<1>10. CASE l = level + 1
  <2>1. at(l)[i] = Hash(at(level)[2 * i], at(level)[2 * i + 1])
    <3>1. Hashed(FullTree(log))
      BY FullTreeOver DEF TreeOver
    <3> QED
      BY <1>1, <1>8, <1>10, <3>1 DEF Hashed, InnerLevels
  <2>2. 2 * i \in Nat /\ 2 * i + 1 \in Nat
    BY <1>8
  <2>3. CASE i < Shr(base, level + 1)
    <3>1. 2 * i < Shr(base, level) /\ 2 * i + 1 < Shr(base, level)
      BY <1>1, <1>8, <2>3, Children
    <3>2. Shr(base, level) <= Shr(numLeaves - 1, level)
      BY <1>1, <1>2, ShrMonotone
    <3>3. Shr(base, level) \in Nat /\ Shr(numLeaves - 1, level) \in Nat
      BY <1>1, ShrType
    <3>4. /\ 2 * i \in 0..Shr(numLeaves - 1, level)
          /\ 2 * i + 1 \in 0..Shr(numLeaves - 1, level)
      BY <2>2, <3>1, <3>2, <3>3
    <3>5. level \in 0..level
      BY <1>1, DepthAssumption DEF InnerLevels
    <3>6. ParentAgrees(level, i)
      BY <1>1, <1>6, <1>8, <2>3 DEF SoundLeftOf
    <3>7. NodeAt(level + 1, i) = Hash(at(level)[2 * i], at(level)[2 * i + 1])
      BY <1>7, <3>4, <3>5, <3>6 DEF ParentAgrees
    <3> QED
      BY <1>4, <1>8, <1>10, <2>1, <2>3, <3>7
  <2>4. CASE ~(i < Shr(base, level + 1))
    <3>1. i \in (start \div 2)..((start \div 2) + NumParents - 1)
      BY <1>1, <1>8, <1>10, <2>4
    <3>2. NodeAt(l, i)' = Parents[i - (start \div 2) + 1]
      BY <1>1, <1>10, <3>1, HashLevelReads
    <3>3. RunOf(at(level))
      <4>1. /\ \A k \in 1..runLen : Run[k] = NodeAt(level, start + k - 1)
            /\ IsOdd(start) => partners[level] = NodeAt(level, start - 1)
        BY <1>1, RunRead
      <4>2. /\ \A k \in 1..runLen : start + k - 1 \in 0..Shr(numLeaves - 1, level)
            /\ IsOdd(start) => start - 1 \in 0..Shr(numLeaves - 1, level)
            /\ start + runLen \in Nat /\ start + runLen > Shr(numLeaves - 1, level)
        BY <1>1, <1>2 DEF IsOdd
      <4>3. level \in 0..level
        BY <1>1, DepthAssumption DEF InnerLevels
      <4>4. at(level)[start + runLen] = Zeros[level]
        BY <1>1, <1>5, <4>2, TreePadding
      <4> QED
        BY <1>7, <4>1, <4>2, <4>3, <4>4 DEF RunOf
    <3>4. Parents[i - (start \div 2) + 1] = Hash(at(level)[2 * i], at(level)[2 * i + 1])
      BY <1>1, <3>1, <3>3, ParentsHash
    <3> QED
      BY <2>1, <3>2, <3>4
  <2> QED
    BY <2>3, <2>4
<1> QED
  BY <1>9, <1>10

\* Every other step leaves nothing to say, or changes neither nodes nor call.
LEMMA RecomputedStep ==
  ASSUME FilesShape, FilesShape', RunStored, PartnersRead, Recomputed,
         [FileNext]_fileVars
  PROVE  Recomputed'
<1>1. ASSUME NEW batch \in Batches, AddStart(batch) PROVE Recomputed'
  BY <1>1, RecomputedStart
<1>2. CASE HashLevel
  BY <1>2, RecomputedHashLevel
<1>3. CASE status' \notin {"Hashing", "Ok"} \/ (status' = "Ok" /\ leaves' = <<>>)
  BY <1>3 DEF Recomputed
<1>4. CASE UNCHANGED fileVars
  <2>1. \A l, i : NodeAt(l, i)' = NodeAt(l, i)
    BY <1>4 DEF fileVars, vars, store, NodeAt
  <2>2. SoundLeftOf(base)' => SoundLeftOf(base)
    BY <1>4, <2>1 DEF fileVars, vars, locals, SoundLeftOf, ParentAgrees
  <2>3. StoredLeaves' = StoredLeaves
    BY <1>4 DEF fileVars, vars, store, StoredLeaves
  <2> QED
    BY <1>4, <2>1, <2>2, <2>3 DEF fileVars, vars, store, locals, Recomputed
<1> QED
  BY <1>1, <1>2, <1>3, <1>4
     DEF FileNext, Proceed, Fail, LeavesPartWritten, ParentsPartWritten, Reopen,
         PowerLoss, NewTree, AddNothing, AddTreeFull, AddStartFails, EntryFails,
         HashLevelFails, LevelFails

-----------------------------------------------------------------------------
(* Behind the handle's count. *)

\* The children of an unseen node lie left of the frontier too, so no step of a
\* call changes what it is the hash of.
LEMMA UnseenKept ==
  ASSUME FilesShape, UnseenSound, CallStep,
         NEW l \in InnerLevels, NEW i \in DOMAIN unseen[l + 1] \ DOMAIN nodes[l + 1]
  PROVE  /\ i \in Nat /\ i < Shr(Frontier', l + 1)
         /\ unseen[l + 1][i] = Hash(NodeAt(l, 2 * i)', NodeAt(l, 2 * i + 1)')
<1>1. /\ i \in Nat /\ i < Shr(Frontier, l + 1)
      /\ unseen[l + 1][i] = Hash(NodeAt(l, 2 * i), NodeAt(l, 2 * i + 1))
  BY DEF UnseenSound
<1>2. l \in Levels /\ l + 1 \in Levels
  BY DepthAssumption DEF InnerLevels, Levels
<1>3. /\ Frontier \in Nat /\ Frontier' \in Nat /\ Frontier <= Frontier'
      /\ \A k \in Nat : k < Shr(Frontier, l) => NodeAt(l, k)' = NodeAt(l, k)
  BY <1>2, CallKeeps
<1>4. /\ 2 * i \in Nat /\ 2 * i + 1 \in Nat
      /\ 2 * i < Shr(Frontier, l) /\ 2 * i + 1 < Shr(Frontier, l)
  BY <1>1, <1>3, Children
<1>5. i < Shr(Frontier', l + 1)
  <2>1. /\ Shr(Frontier, l + 1) <= Shr(Frontier', l + 1)
        /\ Shr(Frontier, l + 1) \in Nat /\ Shr(Frontier', l + 1) \in Nat
    BY <1>2, <1>3, ShrMonotone, ShrType
  <2> QED
    BY <1>1, <2>1
<1> QED
  BY <1>1, <1>3, <1>4, <1>5

\* Once the handle has what the run at a level needs, it sees all of that level.
LEMMA AllSeen ==
  ASSUME FilesShape, UnseenSound, status = "Hashing",
         NEW l \in InnerLevels, ~Gap(l + 1, Shr(base, l + 1))
  PROVE  DOMAIN unseen[l + 1] \subseteq DOMAIN nodes[l + 1]
<1> SUFFICES ASSUME NEW i \in DOMAIN unseen[l + 1] \ DOMAIN nodes[l + 1] PROVE FALSE
  OBVIOUS
<1>1. l + 1 \in Levels
  BY DepthAssumption DEF InnerLevels, Levels
<1>2. base \in Nat /\ Shr(base, l + 1) \in Nat
  BY <1>1, ShrType, CapacityType DEF FilesShape, Framed, TypeOK
<1>3. i \in Nat /\ i < Shr(base, l + 1)
  BY DEF UnseenSound, Frontier, Idle
<1>4. i \in 0..(Shr(base, l + 1) - 1) /\ Shr(base, l + 1) > 0
  BY <1>2, <1>3
<1>5. Shr(base, l + 1) - 1 \in DOMAIN nodes[l + 1]
  BY <1>4 DEF Gap
<1>6. Solid(DOMAIN nodes[l + 1])
  BY <1>1, NodesSolid DEF FilesShape, SolidFiles
<1> QED
  BY <1>4, <1>5, <1>6 DEF Solid

\* What a failing write of parents leaves behind the count is the hash of nodes
\* the handle reads: it is never the last of the run, which alone is padded.
LEMMA UnseenParents ==
  ASSUME FilesShape, RunStored, PartnersRead, UnseenSound, ParentsPartWritten,
         NEW i \in DOMAIN unseen'[level + 1] \ DOMAIN nodes'[level + 1]
  PROVE  /\ i \in Nat /\ i < Shr(Frontier', level + 1)
         /\ unseen'[level + 1][i] =
              Hash(NodeAt(level, 2 * i)', NodeAt(level, 2 * i + 1)')
<1> DEFINE m == level + 1
           s == start \div 2
           at == [x \in Nat |->
                    IF x = start + runLen THEN Zeros[level] ELSE NodeAt(level, x)]
<1>1. /\ m \in Levels /\ s \in Nat /\ NumParents \in Nat
      /\ DOMAIN Parents = 1..NumParents /\ s + NumParents <= Capacity
      /\ s = Shr(base, m) /\ ~Gap(m, s) /\ PartWritten(m, s, Parents)
      /\ s + NumParents - 1 = Shr(numLeaves - 1, m)
      /\ level \in InnerLevels
  BY FailingWrites
<1>2. status = "Hashing" /\ Framed
  BY DEF ParentsPartWritten, LevelFails, FilesShape
<1>3. /\ level \in Nat /\ level \in Levels /\ level # m
      /\ start \in Nat /\ runLen \in Nat /\ numLeaves \in Nat /\ 0 < numLeaves
      /\ start = Shr(base, level) /\ start + runLen - 1 = Shr(numLeaves - 1, level)
      /\ Shr(numLeaves - 1, m) = Shr(numLeaves - 1, level) \div 2
  <2>1. /\ start \in Nat /\ runLen \in Nat /\ numLeaves \in Nat /\ 0 < numLeaves
        /\ numLeaves - 1 \in Nat
    BY <1>2, NextRun
  <2>2. start = Shr(base, level) /\ start + runLen - 1 = Shr(numLeaves - 1, level)
    BY <1>2 DEF Framed, RunShape
  <2>3. level \in Nat /\ level \in Levels /\ level # m
    BY <1>1, DepthAssumption DEF InnerLevels, Levels
  <2>4. Shr(numLeaves - 1, m) = Shr(numLeaves - 1, level) \div 2
    BY <1>1, <2>1, ShrRec DEF InnerLevels
  <2> QED
    BY <2>1, <2>2, <2>3, <2>4
<1>4. /\ numLeaves' = numLeaves /\ nodes'[level] = nodes[level]
      /\ DOMAIN nodes'[m] = DOMAIN nodes[m]
      /\ \A x \in DOMAIN unseen'[m] \ DOMAIN nodes[m] : x \notin DOMAIN unseen[m] =>
           x \in s..(s + NumParents - 2) /\ unseen'[m][x] = Parents[x - s + 1]
  <2> HIDE DEF m, s
  <2>1. /\ numLeaves' = numLeaves
        /\ \A k \in Levels : DOMAIN nodes'[k] = DOMAIN nodes[k]
        /\ \A k \in Levels \ {m} : nodes'[k] = nodes[k]
    BY <1>1, PartEffect
  <2>2. \A x \in DOMAIN unseen'[m] \ DOMAIN nodes[m] : x \notin DOMAIN unseen[m] =>
          x \in s..(s + NumParents - 2) /\ unseen'[m][x] = Parents[x - s + 1]
    BY <1>1, PartEffect
  <2>3. nodes'[level] = nodes[level]
    BY <1>3, <2>1
  <2>4. DOMAIN nodes'[m] = DOMAIN nodes[m]
    BY <1>1, <2>1
  <2> QED
    BY ONLY <2>1, <2>2, <2>3, <2>4
<1>5. DOMAIN unseen[m] \subseteq DOMAIN nodes[m]
  BY <1>1, <1>2, AllSeen
<1>6. i \in s..(s + NumParents - 2) /\ unseen'[m][i] = Parents[i - s + 1]
  BY <1>4, <1>5
<1>7. RunOf(at)
  <2>1. /\ \A k \in 1..runLen : Run[k] = NodeAt(level, start + k - 1)
        /\ IsOdd(start) => partners[level] = NodeAt(level, start - 1)
    BY <1>2, RunRead
  <2>2. \A k \in 1..runLen : at[start + k - 1] = NodeAt(level, start + k - 1)
    BY <1>3
  <2>3. IsOdd(start) => at[start - 1] = NodeAt(level, start - 1)
    BY <1>3 DEF IsOdd
  <2>4. at[start + runLen] = Zeros[level]
    BY <1>3
  <2> HIDE DEF at
  <2> QED
    BY <2>1, <2>2, <2>3, <2>4 DEF RunOf
<1>8. Parents[i - s + 1] = Hash(at[2 * i], at[2 * i + 1])
  <2>1. i \in s..(s + NumParents - 1)
    BY <1>1, <1>6
  <2> HIDE DEF at
  <2> QED
    BY <1>2, <1>7, <2>1, ParentsHash
<1>9. at[2 * i] = NodeAt(level, 2 * i) /\ at[2 * i + 1] = NodeAt(level, 2 * i + 1)
  <2>1. i \in Nat /\ 2 * i + 2 <= start + runLen - 1
    <3>1. s + NumParents - 1 = (start + runLen - 1) \div 2
      BY <1>1, <1>3
    <3>2. i \in Nat /\ i + 1 <= s + NumParents - 1
      BY <1>1, <1>6
    <3>3. start + runLen - 1 \in Int
      BY <1>3
    <3> HIDE DEF s
    <3> QED
      BY <1>1, <3>1, <3>2, <3>3
  <2> QED
    BY <1>3, <2>1
<1>10. \A x : NodeAt(level, x)' = NodeAt(level, x)
  <2>1. \A x : (IF x \in DOMAIN nodes'[level] THEN nodes'[level][x] ELSE Zeros[level]) =
               (IF x \in DOMAIN nodes[level] THEN nodes[level][x] ELSE Zeros[level])
    BY <1>4
  <2>2. UNCHANGED level
    BY DEF ParentsPartWritten, LevelFails
  <2> QED
    BY <2>1, <2>2 DEF NodeAt
<1>11. i \in Nat /\ i < Shr(Frontier', m)
  <2>1. Frontier' = numLeaves
    BY <1>4 DEF ParentsPartWritten, LevelFails, Frontier, Idle
  <2>2. /\ Shr(numLeaves - 1, m) <= Shr(numLeaves, m)
        /\ Shr(numLeaves - 1, m) \in Nat /\ Shr(numLeaves, m) \in Nat
    <3>1. numLeaves - 1 \in Nat /\ numLeaves - 1 <= numLeaves
      BY <1>3
    <3> QED
      BY <1>1, <1>3, <3>1, ShrMonotone, ShrType
  <2>3. i \in Nat /\ i < s + NumParents - 1
    BY <1>1, <1>6
  <2> QED
    BY <1>1, <2>1, <2>2, <2>3
<1> QED
  BY <1>6, <1>8, <1>9, <1>10, <1>11

\* Whatever a step leaves behind the count is the hash of what the handle reads.
LEMMA UnseenSoundStep ==
  ASSUME FilesShape, RunStored, PartnersRead, UnseenSound, [FileNext]_fileVars
  PROVE  UnseenSound'
<1>1. ASSUME CallStep, NEW l \in InnerLevels,
             NEW i \in DOMAIN unseen[l + 1] \ DOMAIN nodes[l + 1],
             unseen'[l + 1][i] = unseen[l + 1][i]
      PROVE  /\ i \in Nat /\ i < Shr(Frontier', l + 1)
             /\ unseen'[l + 1][i] = Hash(NodeAt(l, 2 * i)', NodeAt(l, 2 * i + 1)')
  BY <1>1, UnseenKept
<1>2. ASSUME CallStep, NEW l \in InnerLevels,
             NEW i \in DOMAIN unseen'[l + 1] \ DOMAIN nodes'[l + 1]
      PROVE  /\ i \in Nat /\ i < Shr(Frontier', l + 1)
             /\ unseen'[l + 1][i] = Hash(NodeAt(l, 2 * i)', NodeAt(l, 2 * i + 1)')
  <2>1. l + 1 \in Levels /\ l + 1 # 0 /\ l \in Nat
    BY DepthAssumption DEF InnerLevels, Levels
  <2>2. CASE Proceed
    <3>1. DOMAIN nodes[l + 1] \subseteq DOMAIN nodes'[l + 1]
      BY <1>2, <2>1, CallKeeps
    <3>2. i \in DOMAIN Files[l + 1] /\ unseen'[l + 1][i] = Files[l + 1][i]
      BY <2>1, <2>2 DEF Proceed, Beyond
    <3>3. i \in DOMAIN unseen[l + 1] \ DOMAIN nodes[l + 1]
      BY <1>2, <2>1, <3>1, <3>2, FilesHold
    <3>4. unseen'[l + 1][i] = unseen[l + 1][i]
      BY <2>1, <3>2, <3>3, FilesHold
    <3> QED
      BY <1>1, <1>2, <3>3, <3>4
  <2>3. CASE Fail
    <3>1. unseen' = unseen /\ nodes' = nodes
      BY <2>3 DEF Fail, AddStartFails, HashLevelFails, store
    <3> QED
      BY <1>1, <1>2, <3>1
  <2>4. ASSUME NEW b \in Batches, LeavesPartWritten(b)
        PROVE  /\ i \in Nat /\ i < Shr(Frontier', l + 1)
               /\ unseen'[l + 1][i] = Hash(NodeAt(l, 2 * i)', NodeAt(l, 2 * i + 1)')
    <3>1. /\ 0 \in Levels /\ numLeaves \in Nat /\ Len(b) \in Nat
          /\ DOMAIN b = 1..Len(b) /\ numLeaves + Len(b) <= Capacity
          /\ ~Gap(0, numLeaves) /\ PartWritten(0, numLeaves, b)
      BY <2>4, FailingWrites
    <3>2. \A k \in Levels \ {0} : nodes'[k] = nodes[k] /\ unseen'[k] = unseen[k]
      BY <3>1, PartEffect
    <3>3. nodes'[l + 1] = nodes[l + 1] /\ unseen'[l + 1] = unseen[l + 1]
      BY <2>1, <3>2
    <3> QED
      BY <1>1, <1>2, <3>3
  <2>5. CASE ParentsPartWritten /\ l # level
    <3>1. /\ level + 1 \in Levels /\ start \div 2 \in Nat /\ NumParents \in Nat
          /\ DOMAIN Parents = 1..NumParents /\ (start \div 2) + NumParents <= Capacity
          /\ ~Gap(level + 1, start \div 2)
          /\ PartWritten(level + 1, start \div 2, Parents)
          /\ level \in InnerLevels
      BY <2>5, FailingWrites
    <3>2. \A k \in Levels \ {level + 1} : nodes'[k] = nodes[k] /\ unseen'[k] = unseen[k]
      BY <3>1, PartEffect
    <3>3. l + 1 # level + 1
      BY <2>1, <2>5, <3>1 DEF InnerLevels
    <3>4. nodes'[l + 1] = nodes[l + 1] /\ unseen'[l + 1] = unseen[l + 1]
      BY <2>1, <3>2, <3>3
    <3> QED
      BY <1>1, <1>2, <3>4
  <2>6. CASE ParentsPartWritten /\ l = level
    <3>1. level' = level
      BY <2>6 DEF ParentsPartWritten, LevelFails
    <3> QED
      BY <1>2, <2>6, <3>1, UnseenParents
  <2> QED
    BY <1>2, <2>2, <2>3, <2>4, <2>5, <2>6 DEF CallStep
<1>3. CASE CallStep
  BY <1>2, <1>3 DEF UnseenSound
<1>4. CASE Reopen \/ PowerLoss
  <2>1. \A l \in Levels : DOMAIN unseen'[l] \subseteq DOMAIN nodes'[l]
    <3>1. CASE Reopen
      BY <3>1 DEF Reopen, Shown, Beyond
    <3>2. CASE PowerLoss
      BY <3>2 DEF PowerLoss, NothingUnseen
    <3> QED
      BY <1>4, <3>1, <3>2
  <2>2. \A l \in InnerLevels : l + 1 \in Levels
    BY DepthAssumption DEF InnerLevels, Levels
  <2> QED
    BY <2>1, <2>2 DEF UnseenSound
<1>5. CASE UNCHANGED fileVars
  <2>1. \A l, i : NodeAt(l, i)' = NodeAt(l, i)
    BY <1>5 DEF fileVars, vars, store, NodeAt
  <2>2. Frontier' = Frontier
    BY <1>5 DEF fileVars, vars, store, locals, Frontier, Idle
  <2> QED
    BY <1>5, <2>1, <2>2 DEF fileVars, vars, store, UnseenSound
<1> QED
  BY <1>3, <1>4, <1>5 DEF FileNext, CallStep

\* Where a call stands when it returns.
LEMMA FinishedStep ==
  ASSUME FilesShape, Finished, [FileNext]_fileVars
  PROVE  Finished'
<1>1. CASE Proceed
  <2>1. CASE HashLevel
    <3>1. status' = IF level + 1 = DEPTH THEN "Ok" ELSE "Hashing"
      BY <2>1 DEF HashLevel
    <3>2. level' = level + 1
      BY <2>1 DEF HashLevel
    <3> QED
      BY <3>1, <3>2 DEF Finished
  <2>2. CASE ~HashLevel
    BY <1>1, <2>2 DEF Proceed, AddNothing, AddTreeFull, AddStart, Finished
  <2> QED
    BY <2>1, <2>2
<1>2. CASE Fail \/ (\E b \in Batches : LeavesPartWritten(b)) \/ ParentsPartWritten
  <2>1. status' = "StoreError"
    BY <1>2
       DEF Fail, LeavesPartWritten, ParentsPartWritten, AddStartFails, EntryFails,
           HashLevelFails, LevelFails
  <2>2. level' = 0 \/ (status = "Hashing" /\ level' = level)
    BY <1>2
       DEF Fail, LeavesPartWritten, ParentsPartWritten, AddStartFails, EntryFails,
           HashLevelFails, LevelFails
  <2>3. status = "Hashing" => level \in InnerLevels
    BY DEF FilesShape, Framed, RunShape
  <2>4. 0 \in InnerLevels
    BY DepthAssumption DEF InnerLevels
  <2> QED
    BY <2>1, <2>2, <2>3, <2>4 DEF Finished
<1>3. CASE Reopen \/ PowerLoss
  BY <1>3 DEF Reopen, PowerLoss, NewTree, Finished
<1>4. CASE UNCHANGED fileVars
  BY <1>4 DEF fileVars, vars, locals, Finished
<1> QED
  BY <1>1, <1>2, <1>3, <1>4 DEF FileNext

\* The run and the partners are read from the handle, whose files no other
\* process writes.
LEMMA FileReadsStep ==
  ASSUME FilesShape, RunStored, PartnersRead, [FileNext]_fileVars
  PROVE  RunStored' /\ PartnersRead'
<1>1. CASE Proceed \/ Fail \/ UNCHANGED fileVars
  <2>1. [Next]_vars /\ Framed
    BY <1>1 DEF Proceed, Fail, Next, AddLeaves, fileVars, FilesShape
  <2> QED
    BY <2>1, ReadsKept
<1>2. CASE status' # "Hashing"
  BY <1>2 DEF RunStored, PartnersRead
<1> QED
  BY <1>1, <1>2
     DEF FileNext, LeavesPartWritten, ParentsPartWritten, EntryFails, LevelFails,
         Reopen, PowerLoss, NewTree

\* The invariant holds of every execution.
LEMMA FileInvariant == FileSpec => []FileInv
<1>1. FileInit => FileInv
  <2> SUFFICES ASSUME FileInit PROVE FileInv
    OBVIOUS
  <2>1. status = "Ok" /\ leaves = <<>> /\ unseen = NothingUnseen
    BY DEF FileInit, Init
  <2>2. UnseenSound
    <3>1. \A l \in InnerLevels : l + 1 \in Levels
      BY DepthAssumption DEF InnerLevels, Levels
    <3> QED
      BY <2>1, <3>1 DEF UnseenSound, NothingUnseen
  <2> QED
    BY <2>1, <2>2, FilesShapeInit
       DEF FileInv, RunStored, PartnersRead, Finished, Recomputed
<1>2. FileInv /\ [FileNext]_fileVars => FileInv'
  BY FilesShapeStep, FileReadsStep, FinishedStep, UnseenSoundStep, RecomputedStep
     DEF FileInv
<1> QED
  BY <1>1, <1>2, PTL DEF FileSpec

\* Whatever a power loss left, a call that returns Ok over a tree sound left of
\* its path publishes the root of the leaves that are stored.
THEOREM RootHealsAfterLoss == FileSpec => []RootHealed
<1>1. FileInv => RootHealed
  <2> SUFFICES ASSUME FileInv, status = "Ok", leaves # <<>>, SoundLeftOf(base)
               PROVE  Root = ReferenceRoot(StoredLeaves)
    BY DEF RootHealed
  <2>1. /\ level = DEPTH /\ 0 < numLeaves
        /\ \A l \in 0..level : \A i \in 0..Shr(numLeaves - 1, l) :
             NodeAt(l, i) = FullTree(StoredLeaves)[l][i]
    BY DEF FileInv, Finished, Recomputed
  <2>2. DEPTH \in Levels /\ DEPTH \in 0..DEPTH
    BY DepthAssumption DEF Levels
  <2>3. Shr(numLeaves - 1, DEPTH) \in Nat
    <3>1. numLeaves - 1 \in Nat
      BY <2>1, CapacityType DEF FileInv, FilesShape, Framed, TypeOK
    <3> QED
      BY <2>2, <3>1, ShrType
  <2>4. 0 \in 0..Shr(numLeaves - 1, DEPTH)
    BY <2>3
  <2> QED
    BY <2>1, <2>2, <2>4 DEF Root, ReferenceRoot
<1> QED
  BY <1>1, FileInvariant, PTL

\* A new handle, over a file whose leaves the last one saw all, reads what that
\* one read left of the path of the call it was in.
LEMMA ReopenKeepsLeft ==
  ASSUME FilesShape, UnseenSound, Reopen, status = "Hashing", SoundLeftOf(base),
         DOMAIN unseen[0] = {},
         NEW m \in Levels, NEW j \in Nat, j < Shr(base, m)
  PROVE  NodeAt(m, j)' = NodeAt(m, j)
<1>1. /\ DOMAIN nodes'[m] = DOMAIN nodes[m] \cup DOMAIN unseen[m]
      /\ \A i \in DOMAIN nodes[m] : nodes'[m][i] = nodes[m][i]
      /\ \A i \in DOMAIN unseen[m] \ DOMAIN nodes[m] : nodes'[m][i] = unseen[m][i]
  BY ReopenShows
<1>2. CASE j \notin DOMAIN unseen[m] \ DOMAIN nodes[m]
  BY <1>1, <1>2, Zenon DEF NodeAt
<1>3. CASE j \in DOMAIN unseen[m] \ DOMAIN nodes[m]
  <2>1. m - 1 \in InnerLevels /\ (m - 1) + 1 = m
    BY <1>3, DepthAssumption DEF InnerLevels, Levels
  <2>2. unseen[m][j] = Hash(NodeAt(m - 1, 2 * j), NodeAt(m - 1, 2 * j + 1))
    BY <1>3, <2>1 DEF UnseenSound
  <2>3. Shr(base, m) \in Nat
    <3>1. base \in Nat
      BY CapacityType DEF FilesShape, Framed, TypeOK
    <3> QED
      BY <3>1, ShrType
  <2>4. j \in 0..(Shr(base, m) - 1)
    BY <2>3
  <2>5. NodeAt(m, j) = Hash(NodeAt(m - 1, 2 * j), NodeAt(m - 1, 2 * j + 1))
    BY <2>1, <2>4 DEF SoundLeftOf, ParentAgrees
  <2>6. NodeAt(m, j)' = unseen[m][j]
    BY <1>1, <1>3 DEF NodeAt
  <2> QED
    BY <2>2, <2>5, <2>6
<1> QED
  BY <1>2, <1>3

\* On the levels that call has stored, it reads all of what that one read.
LEMMA ReopenKeepsStored ==
  ASSUME FilesShape, UnseenSound, Reopen, status = "Hashing",
         DOMAIN unseen[0] = {},
         NEW m \in Levels, m <= level
  PROVE  \A j : NodeAt(m, j)' = NodeAt(m, j)
<1>1. DOMAIN unseen[m] \subseteq DOMAIN nodes[m]
  <2>1. CASE m = 0
    BY <2>1
  <2>2. CASE m # 0
    <3>1. m - 1 \in InnerLevels /\ (m - 1) + 1 = m
      BY <2>2, DepthAssumption DEF InnerLevels, Levels
    <3>2. ~Gap((m - 1) + 1, Shr(base, (m - 1) + 1))
      BY <3>1, FileTreeAssumption DEF FilesShape, GapInv, CaughtUp
    <3> QED
      BY <3>1, <3>2, AllSeen
  <2> QED
    BY <2>1, <2>2
<1>2. DOMAIN nodes'[m] = DOMAIN nodes[m]
  BY <1>1, ReopenShows
<1>3. \A j \in DOMAIN nodes[m] : nodes'[m][j] = nodes[m][j]
  BY ReopenShows
<1> QED
  BY <1>2, <1>3, Zenon DEF NodeAt

\* What a killed call has hashed agrees with the level below.
LEMMA HashedSoFar ==
  ASSUME FileInv, status = "Hashing", SoundLeftOf(base),
         NEW l \in InnerLevels, l < level,
         NEW i \in 0..(Shr(numLeaves, l + 1) - 1)
  PROVE  ParentAgrees(l, i)
<1>1. /\ level \in Levels /\ l \in Levels /\ l + 1 \in Levels /\ l \in Nat
      /\ l \in 0..level /\ l + 1 \in 0..level
      /\ numLeaves \in Nat /\ 0 < numLeaves /\ numLeaves - 1 \in Nat
  <2>1. level \in Levels /\ numLeaves \in Nat /\ 0 < numLeaves
    BY CapacityType DEF FileInv, FilesShape, Framed, TypeOK, Recomputed
  <2> QED
    BY <2>1, DepthAssumption DEF InnerLevels, Levels
<1>2. \A k \in 0..level : \A x \in 0..Shr(numLeaves - 1, k) :
        NodeAt(k, x) = FullTree(StoredLeaves)[k][x]
  BY DEF FileInv, Recomputed
<1>3. /\ Shr(numLeaves, l) \in Nat /\ Shr(numLeaves - 1, l) \in Nat
      /\ Shr(numLeaves, l + 1) \in Nat /\ Shr(numLeaves - 1, l + 1) \in Nat
      /\ Shr(numLeaves, l) - 1 <= Shr(numLeaves - 1, l)
      /\ Shr(numLeaves, l + 1) - 1 <= Shr(numLeaves - 1, l + 1)
  BY <1>1, ShrType, ShrMonotone
<1>4. i \in Nat /\ i < Shr(numLeaves, l + 1)
  BY <1>3
<1>5. /\ 2 * i \in Nat /\ 2 * i + 1 \in Nat
      /\ 2 * i < Shr(numLeaves, l) /\ 2 * i + 1 < Shr(numLeaves, l)
  BY <1>1, <1>4, Children
<1>6. /\ i \in 0..Shr(numLeaves - 1, l + 1)
      /\ 2 * i \in 0..Shr(numLeaves - 1, l) /\ 2 * i + 1 \in 0..Shr(numLeaves - 1, l)
  BY <1>3, <1>4, <1>5
<1>7. FullTree(StoredLeaves)[l + 1][i] =
        Hash(FullTree(StoredLeaves)[l][2 * i], FullTree(StoredLeaves)[l][2 * i + 1])
  <2>1. Hashed(FullTree(StoredLeaves))
    BY FullTreeOver DEF TreeOver
  <2> QED
    BY <1>4, <2>1 DEF Hashed, InnerLevels
<1> QED
  BY <1>1, <1>2, <1>6, <1>7 DEF ParentAgrees

\* A kill between two levels does no lasting damage if the call's leaves
\* completed no node of a level it had not reached, and the leaf file holds no
\* leaves of an earlier failed call behind the count.
THEOREM KillHeals == FileSpec => KillHealable
<1>1. FileInv /\ [FileNext]_fileVars =>
        [ /\ status = "Hashing"
          /\ Reopen
          /\ unseen[0] = [i \in {} |-> ZERO]
          /\ SoundLeftOf(base)
          /\ Shr(base, level + 1) = Shr(numLeaves, level + 1)
          => SoundLeftOf(numLeaves)' ]_fileVars
  <2> SUFFICES ASSUME FileInv, status = "Hashing", Reopen,
                      unseen[0] = [i \in {} |-> ZERO], SoundLeftOf(base),
                      Shr(base, level + 1) = Shr(numLeaves, level + 1)
               PROVE  SoundLeftOf(numLeaves)'
    OBVIOUS
  <2>1. FilesShape /\ UnseenSound /\ DOMAIN unseen[0] = {}
    BY DEF FileInv
  <2>2. /\ level \in InnerLevels /\ level + 1 \in Levels /\ level \in Nat
        /\ base \in Nat /\ numLeaves \in Nat /\ 0 \in Levels
    <3>1. level \in InnerLevels /\ base \in Nat /\ numLeaves \in Nat
      BY <2>1, CapacityType DEF FilesShape, Framed, TypeOK, RunShape
    <3> QED
      BY <3>1, DepthAssumption DEF InnerLevels, Levels
  <2>3. numLeaves' = numLeaves
    <3>1. DOMAIN nodes'[0] = DOMAIN nodes[0] \cup DOMAIN unseen[0]
      BY <2>1, <2>2, ReopenShows
    <3>2. DOMAIN nodes'[0] = 0..(numLeaves - 1)
      BY <2>1, <3>1 DEF FilesShape
    <3>3. Cardinality(0..(numLeaves - 1)) = numLeaves
      BY <2>2, FS_Interval
    <3> QED
      BY <3>2, <3>3 DEF Reopen
  <2>4. ASSUME NEW l \in InnerLevels, NEW i \in 0..(Shr(numLeaves, l + 1) - 1)
        PROVE  NodeAt(l + 1, i)' = Hash(NodeAt(l, 2 * i)', NodeAt(l, 2 * i + 1)')
    <3>1. l \in Levels /\ l + 1 \in Levels /\ l \in Nat
      BY DepthAssumption DEF InnerLevels, Levels
    <3>2. CASE l < level
      <4>1. ParentAgrees(l, i)
        BY <2>1, <3>2, HashedSoFar
      <4>2. l <= level /\ l + 1 <= level
        BY <2>2, <3>1, <3>2
      <4>3. \A j : NodeAt(l, j)' = NodeAt(l, j)
        BY <2>1, <3>1, <4>2, ReopenKeepsStored
      <4>4. \A j : NodeAt(l + 1, j)' = NodeAt(l + 1, j)
        BY <2>1, <3>1, <4>2, ReopenKeepsStored
      <4> QED
        BY <4>1, <4>3, <4>4 DEF ParentAgrees
    <3>3. CASE ~(l < level)
      <4>1. l + 1 \in (level + 1)..DEPTH
        BY <2>2, <3>1, <3>3, DepthAssumption DEF Levels
      <4>2. Shr(numLeaves, l + 1) = Shr(base, l + 1)
        BY <2>2, <4>1, MeetAbove
      <4>3. Shr(base, l + 1) \in Nat
        BY <2>2, <3>1, ShrType
      <4>4. i \in Nat /\ i < Shr(base, l + 1) /\ i \in 0..(Shr(base, l + 1) - 1)
        BY <4>2, <4>3
      <4>5. ParentAgrees(l, i)
        BY <4>4 DEF SoundLeftOf
      <4>6. /\ 2 * i \in Nat /\ 2 * i + 1 \in Nat
            /\ 2 * i < Shr(base, l) /\ 2 * i + 1 < Shr(base, l)
        BY <2>2, <4>4, Children
      <4>7. /\ NodeAt(l + 1, i)' = NodeAt(l + 1, i)
            /\ NodeAt(l, 2 * i)' = NodeAt(l, 2 * i)
            /\ NodeAt(l, 2 * i + 1)' = NodeAt(l, 2 * i + 1)
        BY <2>1, <3>1, <4>4, <4>6, ReopenKeepsLeft
      <4> QED
        BY <4>5, <4>7 DEF ParentAgrees
    <3> QED
      BY <3>2, <3>3
  <2> QED
    BY <2>3, <2>4 DEF SoundLeftOf, ParentAgrees
<1> QED
  BY <1>1, FileInvariant, PTL DEF FileSpec, KillHealable
=============================================================================
