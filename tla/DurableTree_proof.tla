--------------------------- MODULE DurableTree_proof ---------------------------
(***************************************************************************)
(* Proofs about the tree over sled, RocksDB or SQLite, for every depth,    *)
(* hash, batch size, set of leaves and number of puts a crash may lose.    *)
(*                                                                         *)
(* Inside a life of the process the tree takes the steps of MerkleTree, so *)
(* Shape and Content of MerkleTree_proof are kept.  A crash puts an older  *)
(* state of the database in the place of the newest: the invariant asks of *)
(* every state a crash can go back to what a tree opened over it relies on *)
(* (Entry), and that each later state only adds to what the earlier ones   *)
(* hold of whole calls (Kept).                                             *)
(***************************************************************************)
EXTENDS DurableTree, MerkleTree_proof

-----------------------------------------------------------------------------
(* The invariant. *)

\* Node i of level l in a database with nodes ns, as the tree reads it.
At(ns, l, i) == IF i \in DOMAIN ns[l] THEN ns[l][i] ELSE Zeros[l]

\* SoundLeftOf and its consequence for the root, of any database.
SoundUpTo(ns, n) ==
  \A l \in InnerLevels : \A i \in 0..(Shr(n, l + 1) - 1) :
    At(ns, l + 1, i) = Hash(At(ns, l, 2 * i), At(ns, l, 2 * i + 1))

RootOver(ns, n, whole) ==
  SoundUpTo(ns, n) =>
    At(ns, DEPTH, 0) = ReferenceRoot([k \in 1..whole |-> ns[0][k - 1]])

\* Nodes ns of n leaves, all of which are there.
Fitting(ns, n) ==
  /\ n \in 0..Capacity
  /\ DOMAIN ns = Levels
  /\ \A l \in Levels : \A i \in DOMAIN ns[l] :
       i \in Nat /\ 0 < n /\ i <= Shr(n - 1, l)
  /\ \A i \in Nat : i < n => i \in DOMAIN ns[0]

\* A database that holds the first `whole` leaves as leaves of whole calls.
Entry(db, whole) ==
  /\ DOMAIN db = {"nodes", "count"}
  /\ db.count \in Int \cup {None}
  /\ Fitting(db.nodes, Kv!CountOf(db))
  /\ whole \in Nat /\ whole <= Kv!CountOf(db)
  /\ RootOver(db.nodes, Kv!CountOf(db), whole)

\* Over the first `whole` leaves nothing differs between ms and ns.
Kept(ms, ns, whole) ==
  \A l \in Levels : \A i \in Nat : i < Shr(whole, l) =>
    /\ i \in DOMAIN ns[l] <=> i \in DOMAIN ms[l]
    /\ i \in DOMAIN ns[l] => ns[l][i] = ms[l][i]

\* A history of states of the database, oldest first.
Recoverable(dbs, wholes) ==
  /\ Len(dbs) \in Nat /\ Len(dbs) > 0
  /\ DOMAIN dbs = 1..Len(dbs)
  /\ Len(wholes) = Len(dbs)
  /\ DOMAIN wholes = 1..Len(dbs)
  /\ \A k \in 1..Len(dbs) : Entry(dbs[k], wholes[k])
  /\ \A j, k \in 1..Len(dbs) : j <= k =>
       wholes[j] <= wholes[k] /\ Kept(dbs[j].nodes, dbs[k].nodes, wholes[j])

\* The tree is over the newest state.
Linked ==
  /\ nodes = Last(history).nodes
  /\ numLeaves = Kv!CountOf(Last(history))
  /\ cached \in {None, numLeaves}
  /\ Last(ends) <= Frontier
  /\ RootOver(nodes, Frontier, Last(ends))

Durable == Shape /\ Content /\ Recoverable(history, ends) /\ Linked

-----------------------------------------------------------------------------
(* Facts about single states. *)

\* What is sound up to n is sound up to any earlier leaf.
LEMMA RootOverMore ==
  ASSUME NEW ns, NEW m \in Nat, NEW n \in Nat, m <= n, NEW whole,
         RootOver(ns, m, whole)
  PROVE  RootOver(ns, n, whole)
<1> SUFFICES ASSUME SoundUpTo(ns, n) PROVE SoundUpTo(ns, m)
  BY DEF RootOver
<1>1. ASSUME NEW l \in InnerLevels, NEW i \in 0..(Shr(m, l + 1) - 1)
      PROVE  i \in 0..(Shr(n, l + 1) - 1)
  <2>1. l + 1 \in Levels
    BY DepthAssumption DEF InnerLevels, Levels
  <2>2. Shr(m, l + 1) \in Nat /\ Shr(n, l + 1) \in Nat /\ Shr(m, l + 1) <= Shr(n, l + 1)
    BY <2>1, ShrType, ShrMonotone
  <2> QED
    BY <2>2
<1> QED
  BY <1>1 DEF SoundUpTo

\* A database in which every parent is the hash of its children has the root of
\* its leaves.
LEMMA RootOverAll ==
  ASSUME NEW ns, NEW n, Fitting(ns, n),
         \A l \in InnerLevels : \A i \in Nat :
           At(ns, l + 1, i) = Hash(At(ns, l, 2 * i), At(ns, l, 2 * i + 1))
  PROVE  At(ns, DEPTH, 0) = ReferenceRoot([k \in 1..n |-> ns[0][k - 1]])
<1> DEFINE log == [k \in 1..n |-> ns[0][k - 1]]
           at == [l \in Levels |-> [i \in Nat |-> At(ns, l, i)]]
<1>1. n \in Nat /\ 0 \in Levels /\ DEPTH \in Levels
  BY CapacityType, DepthAssumption DEF Fitting, Levels
<1>2. Len(log) = n
  BY <1>1
<1>3. ASSUME NEW i \in Nat PROVE At(ns, 0, i) = IF i < n THEN log[i + 1] ELSE ZERO
  <2>1. CASE i < n
    BY <1>1, <2>1 DEF Fitting, At
  <2>2. CASE i >= n
    <3>1. 0 < n => Shr(n - 1, 0) = n - 1
      BY <1>1, ShrRec
    <3>2. i \notin DOMAIN ns[0]
      BY <1>1, <2>2, <3>1 DEF Fitting
    <3> QED
      BY <1>1, <2>2, <3>2, ZerosRec DEF At
  <2> QED
    BY <1>1, <2>1, <2>2
<1>4. TreeOver(at, log)
  <2>1. \A i \in Nat : at[0][i] = IF i < Len(log) THEN log[i + 1] ELSE ZERO
    <3>1. \A i \in Nat : at[0][i] = At(ns, 0, i)
      BY <1>1
    <3> HIDE DEF at, log
    <3> QED
      BY <1>2, <1>3, <3>1
  <2>2. ASSUME NEW l \in InnerLevels, NEW i \in Nat
        PROVE  at[l + 1][i] = Hash(at[l][2 * i], at[l][2 * i + 1])
    <3>1. l \in Levels /\ l + 1 \in Levels /\ 2 * i \in Nat /\ 2 * i + 1 \in Nat
      BY DepthAssumption DEF InnerLevels, Levels
    <3> QED
      BY <3>1
  <2> HIDE DEF at, log
  <2> QED
    BY <2>1, <2>2 DEF TreeOver, Hashed, InnerLevels
<1> HIDE DEF log
<1>5. at[DEPTH][0] = FullTree(log)[DEPTH][0]
  <2> HIDE DEF at
  <2> QED
    BY <1>1, <1>4, TreeRecomputed
<1> QED
  BY <1>1, <1>5 DEF log, ReferenceRoot

\* A new tree over a database in a recoverable state has shape and content.
LEMMA NewTreeFits ==
  ASSUME NewTree, Fitting(nodes', numLeaves')
  PROVE  Shape' /\ Content' /\ Frontier' = numLeaves'
<1>1. /\ numLeaves' \in 0..Capacity /\ DOMAIN nodes' = Levels
      /\ Capacity \in Nat /\ Capacity > 0
  BY CapacityType DEF Fitting
<1>2. Framed'
  <2>1. ASSUME NEW l \in Levels, NEW i \in DOMAIN nodes'[l] PROVE i \in 0..(Capacity - 1)
    <3>1. i \in Nat /\ 0 < numLeaves' /\ i <= Shr(numLeaves' - 1, l)
      BY DEF Fitting
    <3>2. numLeaves' - 1 \in Nat
      BY <1>1, <3>1
    <3>3. Shr(numLeaves' - 1, l) \in Nat /\ Shr(numLeaves' - 1, l) <= numLeaves' - 1
      BY <3>2, ShrType
    <3>4. numLeaves' \in Nat /\ numLeaves' <= Capacity
      BY <1>1
    <3>5. i <= Capacity - 1
      BY <1>1, <3>1, <3>3, <3>4
    <3> QED
      BY <1>1, <3>1, <3>5
  <2> QED
    BY <1>1, <2>1, FramedNew
<1>3. StoreShape'
  BY <1>1 DEF StoreShape, Fitting
<1>4. Content'
  BY DEF NewTree, Content, RunStored, PartnersRead, LevelsAgree, Finished
<1> QED
  BY <1>2, <1>3, <1>4 DEF Shape, NewTree, Frontier, Idle

-----------------------------------------------------------------------------
(* Facts about histories. *)

\* Agreement over fewer leaves, then over more, is agreement over the fewer.
LEMMA KeptTrans ==
  ASSUME NEW ms, NEW ns, NEW os, NEW m \in Nat, NEW n \in Nat, m <= n,
         Kept(ms, ns, m), Kept(ns, os, n)
  PROVE  Kept(ms, os, m)
<1> SUFFICES ASSUME NEW l \in Levels, NEW i \in Nat, i < Shr(m, l)
             PROVE  /\ i \in DOMAIN os[l] <=> i \in DOMAIN ms[l]
                    /\ i \in DOMAIN os[l] => os[l][i] = ms[l][i]
  BY DEF Kept
<1>1. i < Shr(n, l)
  <2>1. Shr(m, l) <= Shr(n, l) /\ Shr(m, l) \in Nat /\ Shr(n, l) \in Nat
    BY ShrMonotone, ShrType
  <2> QED
    BY <2>1
<1> QED
  BY <1>1 DEF Kept

\* Nothing lies over no leaves.
LEMMA KeptNone == \A ms, ns : Kept(ms, ns, 0)
<1>1. \A l \in Levels : ~ (Shr(0, l) > 0)
  BY ShrType
<1> QED
  BY <1>1, ShrType DEF Kept

\* n states of a history, without the o oldest.
Selected(some, whose, dbs, wholes, o, n) ==
  /\ o \in Nat /\ n \in Nat /\ n > 0 /\ o + n <= Len(dbs)
  /\ DOMAIN some = 1..n /\ DOMAIN whose = 1..n
  /\ \A k \in 1..n : some[k] = dbs[o + k] /\ whose[k] = wholes[o + k]

\* A history may lose states at either end.
LEMMA SelectHistory ==
  ASSUME NEW dbs, NEW wholes, Recoverable(dbs, wholes),
         NEW o, NEW n, NEW some, NEW whose, Selected(some, whose, dbs, wholes, o, n)
  PROVE  Recoverable(some, whose)
<1> USE DEF Selected
<1>1. Len(some) = n /\ Len(whose) = n
  OBVIOUS
<1>2. \A k \in 1..n : o + k \in 1..Len(dbs)
  BY DEF Recoverable
<1>3. \A k \in 1..n : Entry(some[k], whose[k])
  BY <1>2 DEF Recoverable
<1>4. ASSUME NEW j \in 1..n, NEW k \in 1..n, j <= k
      PROVE  whose[j] <= whose[k] /\ Kept(some[j].nodes, some[k].nodes, whose[j])
  <2>1. o + j \in 1..Len(dbs) /\ o + k \in 1..Len(dbs) /\ o + j <= o + k
    BY <1>2, <1>4
  <2> QED
    BY <2>1 DEF Recoverable
<1> QED
  BY <1>1, <1>3, <1>4 DEF Recoverable

\* A state that keeps what the last one holds of whole calls may follow it.
LEMMA ExtendHistory ==
  ASSUME NEW dbs, NEW wholes, Recoverable(dbs, wholes),
         NEW db, NEW whole, Entry(db, whole), wholes[Len(dbs)] <= whole,
         Kept(dbs[Len(dbs)].nodes, db.nodes, wholes[Len(dbs)]),
         NEW more, NEW whose,
         DOMAIN more = 1..(Len(dbs) + 1), DOMAIN whose = 1..(Len(dbs) + 1),
         \A k \in 1..Len(dbs) : more[k] = dbs[k] /\ whose[k] = wholes[k],
         more[Len(dbs) + 1] = db, whose[Len(dbs) + 1] = whole
  PROVE  Recoverable(more, whose)
<1> DEFINE n == Len(dbs)
<1>1. n \in Nat /\ n > 0 /\ n \in 1..n
  BY DEF Recoverable
<1>2. Len(more) = n + 1 /\ Len(whose) = n + 1
  BY <1>1
<1>3. ASSUME NEW k \in 1..(n + 1) PROVE Entry(more[k], whose[k])
  <2>1. k = n + 1 \/ k \in 1..n
    BY <1>1
  <2> QED
    BY <2>1 DEF Recoverable
<1>4. ASSUME NEW j \in 1..(n + 1), NEW k \in 1..(n + 1), j <= k
      PROVE  whose[j] <= whose[k] /\ Kept(more[j].nodes, more[k].nodes, whose[j])
  <2>1. CASE k \in 1..n
    <3>1. j \in 1..n
      BY <1>1, <1>4, <2>1
    <3> QED
      BY <1>4, <2>1, <3>1 DEF Recoverable
  <2>2. CASE k = n + 1 /\ j \in 1..n
    <3>1. /\ wholes[j] <= wholes[n] /\ Kept(dbs[j].nodes, dbs[n].nodes, wholes[j])
          /\ wholes[j] \in Nat /\ wholes[n] \in Nat /\ whole \in Nat
      BY <1>1, <2>2 DEF Recoverable, Entry
    <3>2. Kept(dbs[j].nodes, db.nodes, wholes[j])
      BY <3>1, KeptTrans
    <3> QED
      BY <2>2, <3>1, <3>2
  <2>3. CASE k = n + 1 /\ j = n + 1
    <3>1. whole \in Nat
      BY DEF Entry
    <3> QED
      BY <2>3, <3>1 DEF Kept
  <2> QED
    BY <1>1, <2>1, <2>2, <2>3
<1> QED
  BY <1>1, <1>2, <1>3, <1>4 DEF Recoverable

-----------------------------------------------------------------------------
(* The steps of the tree, one put at a time. *)

\* The state of the database a put adds is the store as the tree has it then.
LEMMA PutAdds ==
  ASSUME Durable, NEW l \in Levels, NEW s \in Nat, NEW n \in Nat, NEW run,
         DOMAIN run = 1..n, Put(l, s, run),
         NEW c, c = [level |-> l, start |-> s, run |-> run], Kv!Put(c)
  PROVE  \E db : /\ history' = history \o <<db>>
                 /\ DOMAIN db = {"nodes", "count"}
                 /\ db.count \in Int \cup {None}
                 /\ db.nodes = nodes'
                 /\ Kv!CountOf(db) = numLeaves'
                 /\ cached' = numLeaves'
<1> DEFINE old == Last(history)
           runs == [i \in DOMAIN old.nodes[l] \cup s..(s + n - 1) |->
                      IF i \in s..(s + n - 1) THEN run[i - s + 1] ELSE old.nodes[l][i]]
           db == [ [old EXCEPT !.nodes[l] = runs] EXCEPT
                     !.count = IF Kv!StoresCount(c) THEN Kv!CountAfter(c) ELSE @ ]
<1>1. /\ DOMAIN old = {"nodes", "count"} /\ old.count \in Int \cup {None}
      /\ old.nodes = nodes /\ Kv!CountOf(old) = numLeaves /\ numLeaves \in Nat
      /\ cached \in {None, numLeaves}
  <2>1. Entry(old, ends[Len(history)])
    BY DEF Durable, Recoverable, Last
  <2> QED
    BY <2>1, CapacityType DEF Entry, Fitting, Durable, Linked
<1>2. cached = numLeaves
  BY <1>1 DEF Kv!Put, Kv!Enabled
<1>3. Len(run) = n /\ c.level = l /\ c.start = s /\ c.run = run
  OBVIOUS
<1>4. nodes' = [nodes EXCEPT ![l] = runs]
  BY <1>1, <1>3 DEF Put
<1>5. Kv!CountAfter(c) = numLeaves' /\ numLeaves' \in Nat
  BY <1>1, <1>2, <1>3 DEF Kv!CountAfter, Put, Counted, Larger
<1>6. Kv!WithRun(Kv!Db, c) = [old EXCEPT !.nodes[l] = runs]
  BY <1>3 DEF Kv!WithRun, Kv!Db, Kv!Last, Last
<1>7. history' = history \o <<db>> /\ cached' = numLeaves'
  BY <1>5, <1>6 DEF Kv!Put, Kv!Committed
<1> HIDE DEF old, runs
<1>8. DOMAIN db = {"nodes", "count"} /\ db.nodes = nodes'
  BY <1>1, <1>4
<1>9. db.count = IF Kv!StoresCount(c) THEN numLeaves' ELSE old.count
  BY <1>1, <1>5
<1> HIDE DEF db
<1>10. db.count \in Int \cup {None} /\ Kv!CountOf(db) = numLeaves'
  <2>1. CASE Kv!StoresCount(c)
    BY <1>5, <1>9, <2>1, DurableTreeAssumption DEF Kv!CountOf
  <2>2. CASE ~Kv!StoresCount(c)
    <3>1. numLeaves' = numLeaves
      BY <1>3, <2>2 DEF Kv!StoresCount, Put, Counted
    <3> QED
      BY <1>1, <1>9, <2>2, <3>1 DEF Kv!CountOf
  <2> QED
    BY <2>1, <2>2
<1> QED
  BY <1>7, <1>8, <1>10

\* The leaves of the newest state are all there.
LEMMA LeavesThere ==
  ASSUME Durable
  PROVE  /\ \A i \in Nat : i < numLeaves => i \in DOMAIN nodes[0]
         /\ numLeaves \in Nat /\ Last(ends) \in Nat /\ Last(ends) <= numLeaves
         /\ Last(ends) = ends[Len(history)]
<1>1. Last(ends) = ends[Len(history)] /\ Entry(Last(history), ends[Len(history)])
  BY DEF Durable, Recoverable, Last
<1> QED
  BY <1>1, CapacityType DEF Entry, Fitting, Durable, Linked

\* A step that does not complete a call leaves the root that of the same leaves.
LEMMA RootStays ==
  ASSUME Durable, [Next]_vars, ~(status = "Hashing" /\ status' = "Ok")
  PROVE  RootOver(nodes', Frontier', Last(ends))
<1> DEFINE whole == Last(ends)
<1>1. whole \in Nat /\ whole <= Frontier /\ Frontier \in Nat
  BY LeavesThere, FrontierStep DEF Durable, Linked, Shape
<1>2. \A k \in 1..whole : nodes'[0][k - 1] = nodes[0][k - 1]
  <2> SUFFICES ASSUME NEW k \in 1..whole PROVE nodes'[0][k - 1] = nodes[0][k - 1]
    OBVIOUS
  <2>1. k - 1 \in Nat /\ k - 1 < Frontier /\ 0 \in Levels /\ k - 1 < numLeaves
    BY <1>1, LeavesThere, DepthAssumption DEF Levels
  <2>2. k - 1 < Shr(Frontier, 0) /\ k - 1 \in DOMAIN nodes[0]
    BY <1>1, <2>1, ShrRec, LeavesThere
  <2> QED
    BY <2>1, <2>2, FrontierKept DEF Durable, Shape
<1>3. [k \in 1..whole |-> nodes'[0][k - 1]] = [k \in 1..whole |-> nodes[0][k - 1]]
  BY <1>2
<1>4. nodes'[DEPTH] = nodes[DEPTH]
  BY RootStep DEF Durable, Shape
<1>5. ASSUME SoundUpTo(nodes', Frontier') PROVE SoundUpTo(nodes, Frontier)
  <2>1. SoundLeftOf(Frontier)'
    BY <1>5 DEF SoundUpTo, SoundLeftOf, ParentAgrees, NodeAt, At
  <2>2. SoundLeftOf(Frontier)
    BY <2>1, SoundBefore DEF Durable, Shape
  <2> QED
    BY <2>2 DEF SoundUpTo, SoundLeftOf, ParentAgrees, NodeAt, At
<1> HIDE DEF whole
<1> SUFFICES ASSUME SoundUpTo(nodes', Frontier')
             PROVE  At(nodes', DEPTH, 0) =
                      ReferenceRoot([k \in 1..whole |-> nodes'[0][k - 1]])
  BY DEF RootOver, whole
<1>6. At(nodes, DEPTH, 0) = ReferenceRoot([k \in 1..whole |-> nodes[0][k - 1]])
  BY <1>5 DEF Durable, Linked, RootOver, whole
<1> QED
  BY <1>3, <1>4, <1>6 DEF At

\* The store a step of the tree leaves behind fits its count.
LEMMA FittingStep ==
  ASSUME Durable, [Next]_vars
  PROVE  Fitting(nodes', numLeaves')
<1>1. Shape'
  BY ShapeStep DEF Durable
<1>2. ASSUME NEW i \in Nat, i < numLeaves' PROVE i \in DOMAIN nodes'[0]
  <2>1. DOMAIN nodes = Levels /\ numLeaves \in Nat /\ 0 \in Levels
    BY LeavesThere, DepthAssumption DEF Durable, Shape, Framed, TypeOK, Levels
  <2>2. ASSUME NEW batch \in Batches, AddStart(batch) PROVE i \in DOMAIN nodes'[0]
    <3> DEFINE n == Len(batch)
    <3>1. n \in Nat /\ DOMAIN batch = 1..n /\ Put(0, numLeaves, batch)
      BY <2>2, BatchType DEF AddStart
    <3> HIDE DEF n
    <3>2. /\ DOMAIN nodes'[0] = DOMAIN nodes[0] \cup numLeaves..(numLeaves + n - 1)
          /\ numLeaves' = Larger(numLeaves, numLeaves + n)
      BY <2>1, <3>1, PutEffect
    <3> QED
      BY <1>2, <2>1, <3>1, <3>2, LeavesThere DEF Larger
  <2>3. CASE HashLevel
    <3>1. /\ level + 1 \in Levels /\ level + 1 # 0 /\ start \div 2 \in Nat
          /\ NumParents \in Nat /\ DOMAIN Parents = 1..NumParents
          /\ Put(level + 1, start \div 2, Parents)
      BY <2>3, NextRun, WrittenType, DepthAssumption DEF HashLevel, Durable, InnerLevels, Shape
    <3>2. nodes'[0] = nodes[0] /\ numLeaves' = numLeaves
      BY <2>1, <3>1, PutEffect
    <3> QED
      BY <1>2, <3>2, LeavesThere
  <2>4. CASE UNCHANGED store
    BY <1>2, <2>4, LeavesThere DEF store
  <2> QED
    BY <2>2, <2>3, <2>4
       DEF Next, AddNothing, AddLeaves, AddTreeFull, AddStartFails, EntryFails,
           HashLevelFails, LevelFails, vars, store
<1> QED
  BY <1>1, <1>2 DEF Fitting, Shape, Framed, TypeOK, StoreShape

\* The put of the last level makes the root that of all leaves.
LEMMA RootCompletes ==
  ASSUME Durable, HashLevel, status' = "Ok"
  PROVE  /\ numLeaves' = numLeaves /\ Frontier' = numLeaves
         /\ RootOver(nodes', numLeaves, numLeaves)
<1>1. /\ level + 1 = DEPTH /\ level' = DEPTH /\ base' = base /\ base \in Nat
      /\ base <= numLeaves /\ numLeaves' = numLeaves /\ Frontier' = numLeaves
  <2>1. status = "Hashing" /\ level \in InnerLevels /\ base \in Nat
    BY NextRun DEF HashLevel, Durable, Shape
  <2>2. level + 1 # 0
    BY <2>1, DepthAssumption DEF InnerLevels
  <2> QED
    BY <2>1, <2>2 DEF HashLevel, Put, Counted, Durable, Shape, Framed, Frontier, Idle
<1>2. Fitting(nodes', numLeaves)
  BY <1>1, FittingStep DEF Next
<1>3. ASSUME SoundUpTo(nodes', numLeaves)
      PROVE  \A l \in InnerLevels : \A i \in Nat :
               At(nodes', l + 1, i) = Hash(At(nodes', l, 2 * i), At(nodes', l, 2 * i + 1))
  <2>1. SoundLeftOf(base)'
    <3>1. ASSUME NEW l \in InnerLevels, NEW i \in 0..(Shr(base, l + 1) - 1)
          PROVE  i \in 0..(Shr(numLeaves, l + 1) - 1)
      <4>1. l + 1 \in Levels /\ numLeaves \in Nat
        BY DepthAssumption, LeavesThere DEF InnerLevels, Levels
      <4>2. /\ Shr(base, l + 1) <= Shr(numLeaves, l + 1)
            /\ Shr(base, l + 1) \in Nat /\ Shr(numLeaves, l + 1) \in Nat
        BY <1>1, <4>1, ShrMonotone, ShrType
      <4> QED
        BY <4>2
    <3> QED
      BY <1>1, <1>3, <3>1 DEF SoundUpTo, SoundLeftOf, ParentAgrees, NodeAt, At
  <2>2. LevelsAgree'
    BY ContentHashLevel DEF Durable, Content
  <2>3. \A l \in 0..(DEPTH - 1) : \A i \in Nat : ParentAgrees(l, i)'
    BY <1>1, <2>1, <2>2 DEF LevelsAgree
  <2> QED
    BY <2>3 DEF ParentAgrees, NodeAt, At, InnerLevels
<1>4. RootOver(nodes', numLeaves, numLeaves)
  BY <1>2, <1>3, RootOverAll DEF RootOver
<1> QED
  BY <1>1, <1>4

-----------------------------------------------------------------------------
(* Every step keeps the invariant. *)

\* An empty database is one a tree can be opened over.
LEMMA EntryEmpty == Entry(Kv!Empty, 0) /\ Kv!CountOf(Kv!Empty) = 0
<1> DEFINE ns == Kv!Empty.nodes
<1>1. /\ DOMAIN Kv!Empty = {"nodes", "count"} /\ Kv!Empty.count = None
      /\ ns = [l \in Levels |-> [i \in {} |-> None]]
  BY DEF Kv!Empty, Kv!Levels, Levels
<1>2. Kv!CountOf(Kv!Empty) = 0
  BY <1>1 DEF Kv!CountOf
<1> HIDE DEF ns
<1>3. Fitting(ns, 0)
  BY <1>1, CapacityType DEF Fitting
<1>4. ASSUME NEW l \in InnerLevels, NEW i \in Nat
      PROVE  At(ns, l + 1, i) = Hash(At(ns, l, 2 * i), At(ns, l, 2 * i + 1))
  <2>1. l \in Levels /\ l + 1 \in Levels
    BY DepthAssumption DEF InnerLevels, Levels
  <2>2. DOMAIN ns[l] = {} /\ DOMAIN ns[l + 1] = {}
    BY <1>1, <2>1
  <2>3. Zeros[l + 1] = Hash(Zeros[l], Zeros[l])
    BY ZerosRec DEF InnerLevels
  <2> QED
    BY <2>2, <2>3 DEF At
<1>5. RootOver(ns, 0, 0)
  BY <1>3, <1>4, RootOverAll DEF RootOver
<1> QED
  BY <1>1, <1>2, <1>3, <1>5 DEF Entry, ns

\* A new tree over the newest of a history of recoverable states.
LEMMA Reopened ==
  ASSUME Recoverable(history', ends'), NewTree,
         nodes' = Last(history').nodes,
         numLeaves' = Kv!CountOf(Last(history')),
         cached' \in {None, numLeaves'}
  PROVE  Durable'
<1>1. Entry(Last(history'), Last(ends'))
  BY DEF Recoverable, Last
<1>2. Shape' /\ Content' /\ Frontier' = numLeaves'
  BY <1>1, NewTreeFits DEF Entry
<1>3. Linked'
  BY <1>1, <1>2 DEF Linked, Entry
<1> QED
  BY <1>2, <1>3 DEF Durable

\* A tree over an empty database satisfies the invariant.
THEOREM DurableInitially == DurableInit => Durable
<1> SUFFICES ASSUME DurableInit PROVE Durable
  OBVIOUS
<1>1. history = <<Kv!Empty>> /\ ends = <<0>> /\ cached = None /\ Init
  BY DEF DurableInit, Kv!Init
<1>2. Shape /\ Content
  BY <1>1, ShapeInit, ContentInit
<1>3. Recoverable(history, ends)
  <2>1. \A k \in 1..1 : k = 1
    OBVIOUS
  <2>2. \A ns : Kept(ns, ns, 0)
    BY KeptNone
  <2>3. Entry(history[1], ends[1])
    BY <1>1, EntryEmpty
  <2>4. Len(history) = 1 /\ Len(ends) = 1 /\ DOMAIN history = 1..1 /\ DOMAIN ends = 1..1
    BY <1>1
  <2> QED
    BY <1>1, <2>1, <2>2, <2>3, <2>4 DEF Recoverable
<1>4. Linked
  <2>1. Last(history) = Kv!Empty /\ Last(ends) = 0 /\ Frontier = 0
    BY <1>1 DEF Last, Init, Frontier
  <2>2. nodes = Kv!Empty.nodes
    BY <1>1 DEF Init, Kv!Empty, Kv!Levels, Levels
  <2> QED
    BY <1>1, <2>1, <2>2, EntryEmpty DEF Linked, Entry, Init
<1> QED
  BY <1>2, <1>3, <1>4 DEF Durable

\* Steps of the tree that put nothing.
LEMMA NothingPut ==
  ASSUME Durable, [Next]_vars, UNCHANGED <<store, history, cached, ends>>,
         ~(status = "Hashing" /\ status' = "Ok")
  PROVE  Durable'
<1>1. Shape' /\ Content'
  BY ShapeStep, ContentStep DEF Durable
<1>2. Recoverable(history, ends)'
  BY DEF Durable
<1>3. Last(ends)' <= Frontier'
  <2>1. Last(ends) \in Nat /\ Last(ends) <= Frontier
    BY LeavesThere DEF Durable, Linked
  <2>2. Frontier \in Nat /\ Frontier' \in Nat /\ Frontier <= Frontier'
    BY FrontierStep DEF Durable, Shape
  <2> QED
    BY <2>1, <2>2
<1>4. Linked'
  BY <1>3, RootStays DEF Durable, Linked, store
<1> QED
  BY <1>1, <1>2, <1>4 DEF Durable

\* Steps of the tree that put a run, and end with `whole` leaves of whole calls.
LEMMA SomethingPut ==
  ASSUME Durable, [Next]_vars,
         NEW db, history' = history \o <<db>>,
         DOMAIN db = {"nodes", "count"}, db.count \in Int \cup {None},
         db.nodes = nodes', Kv!CountOf(db) = numLeaves', cached' = numLeaves',
         NEW whole, whole \in Nat, Last(ends) <= whole, whole <= Frontier',
         RootOver(nodes', Frontier', whole), Extend(whole)
  PROVE  Durable'
<1>1. Shape' /\ Content'
  BY ShapeStep, ContentStep DEF Durable
<1>2. /\ Frontier \in Nat /\ Frontier' \in Nat /\ numLeaves' \in Nat
      /\ Frontier' <= numLeaves'
  BY <1>1, FrontierStep, CapacityType DEF Durable, Shape, Framed, TypeOK, Frontier
<1>3. Entry(db, whole)
  <2>1. Fitting(db.nodes, Kv!CountOf(db))
    BY FittingStep
  <2>2. RootOver(db.nodes, Kv!CountOf(db), whole)
    BY <1>2, RootOverMore
  <2> QED
    BY <1>2, <2>1, <2>2 DEF Entry
<1> DEFINE n == Len(history)
<1>4. /\ n \in Nat /\ n > 0 /\ DOMAIN history = 1..n /\ Len(ends) = n /\ DOMAIN ends = 1..n
      /\ Last(ends) = ends[n] /\ history[n].nodes = nodes
      /\ ends[n] \in Nat /\ ends[n] <= Frontier
  BY LeavesThere DEF Durable, Recoverable, Linked, Last
<1>5. Kept(history[n].nodes, db.nodes, ends[n])
  <2> SUFFICES ASSUME NEW l \in Levels, NEW i \in Nat, i < Shr(ends[n], l)
               PROVE  /\ i \in DOMAIN nodes'[l] <=> i \in DOMAIN nodes[l]
                      /\ i \in DOMAIN nodes'[l] => nodes'[l][i] = nodes[l][i]
    BY <1>4 DEF Kept
  <2>1. i < Shr(Frontier, l)
    <3>1. /\ Shr(ends[n], l) <= Shr(Frontier, l)
          /\ Shr(ends[n], l) \in Nat /\ Shr(Frontier, l) \in Nat
      BY <1>2, <1>4, ShrMonotone, ShrType
    <3> QED
      BY <3>1
  <2> QED
    BY <2>1, FrontierKept DEF Durable, Shape
<1>6. /\ Len(history') = n + 1 /\ DOMAIN history' = 1..(n + 1)
      /\ \A k \in 1..n : history'[k] = history[k]
      /\ history'[n + 1] = db
  <2>1. /\ Len(history') = n + 1 /\ DOMAIN history' = 1..(n + 1)
    BY <1>4
  <2>2. \A k \in 1..n : history'[k] = history[k]
    BY <1>4
  <2>3. history'[n + 1] = db
    BY <1>4
  <2> QED
    BY <2>1, <2>2, <2>3
<1>7. /\ Len(ends') = n + 1 /\ DOMAIN ends' = 1..(n + 1)
      /\ \A k \in 1..n : ends'[k] = ends[k]
      /\ ends'[n + 1] = whole
  <2>1. ends' = [k \in 1..(n + 1) |-> IF k <= n THEN ends[k] ELSE whole]
    BY <1>4, <1>6 DEF Extend
  <2> HIDE DEF n
  <2> QED
    BY <1>4, <2>1
<1> HIDE DEF n
<1>8. Recoverable(history', ends')
  <2> DEFINE more == history'
             whose == ends'
  <2>1. /\ Recoverable(history, ends) /\ Entry(db, whole)
        /\ ends[Len(history)] <= whole
        /\ Kept(history[Len(history)].nodes, db.nodes, ends[Len(history)])
    BY <1>3, <1>4, <1>5 DEF Durable, n
  <2>2. /\ DOMAIN more = 1..(Len(history) + 1)
        /\ DOMAIN whose = 1..(Len(history) + 1)
        /\ \A k \in 1..Len(history) : more[k] = history[k] /\ whose[k] = ends[k]
        /\ more[Len(history) + 1] = db /\ whose[Len(history) + 1] = whole
    BY <1>6, <1>7 DEF n
  <2> HIDE DEF more, whose
  <2>3. Recoverable(more, whose)
    BY ONLY <2>1, <2>2, ExtendHistory
  <2> QED
    BY <2>3 DEF more, whose
<1>9. Linked'
  BY <1>4, <1>6, <1>7 DEF Linked, Last
<1> QED
  BY <1>1, <1>8, <1>9 DEF Durable

\* A call puts its leaves: the call is not whole before its last put.
LEMMA DurablePutLeaves ==
  ASSUME Durable, NEW batch \in Batches, PutLeaves(batch)
  PROVE  Durable'
<1> DEFINE n == Len(batch)
<1>1. /\ n \in Nat /\ DOMAIN batch = 1..n /\ 0 \in Levels /\ numLeaves \in Nat
      /\ Put(0, numLeaves, batch) /\ Kv!Put(LeavesPut(batch))
      /\ LeavesPut(batch) = [level |-> 0, start |-> numLeaves, run |-> batch]
  BY BatchType, LeavesThere, DepthAssumption DEF PutLeaves, AddStart, LeavesPut, Levels
<1> HIDE DEF n
<1>2. PICK db : /\ history' = history \o <<db>>
                /\ DOMAIN db = {"nodes", "count"} /\ db.count \in Int \cup {None}
                /\ db.nodes = nodes' /\ Kv!CountOf(db) = numLeaves'
                /\ cached' = numLeaves'
  BY <1>1, PutAdds
<1>3. [Next]_vars /\ status' # "Ok" /\ Extend(Last(ends))
  BY DEF PutLeaves, AddStart, Next, AddLeaves
<1>4. Last(ends) \in Nat /\ Last(ends) <= Frontier'
  <2>1. Last(ends) \in Nat /\ Last(ends) <= Frontier
    BY LeavesThere DEF Durable, Linked
  <2>2. Frontier \in Nat /\ Frontier' \in Nat /\ Frontier <= Frontier'
    BY <1>3, FrontierStep DEF Durable, Shape
  <2> QED
    BY <2>1, <2>2
<1>5. RootOver(nodes', Frontier', Last(ends))
  BY <1>3, RootStays
<1> QED
  BY <1>2, <1>3, <1>4, <1>5, SomethingPut

\* A call puts a level of parents; the last level completes it.
LEMMA DurablePutParents ==
  ASSUME Durable, PutParents
  PROVE  Durable'
<1> DEFINE l == level + 1
           s == start \div 2
           whole == IF status' = "Ok" THEN numLeaves ELSE Last(ends)
<1>1. /\ NumParents \in Nat /\ DOMAIN Parents = 1..NumParents
      /\ l \in Levels /\ s \in Nat /\ Put(l, s, Parents) /\ Kv!Put(ParentsPut)
      /\ ParentsPut = [level |-> l, start |-> s, run |-> Parents]
  BY NextRun, WrittenType DEF PutParents, HashLevel, Durable, ParentsPut, Shape
<1> HIDE DEF l, s
<1>2. PICK db : /\ history' = history \o <<db>>
                /\ DOMAIN db = {"nodes", "count"} /\ db.count \in Int \cup {None}
                /\ db.nodes = nodes' /\ Kv!CountOf(db) = numLeaves'
                /\ cached' = numLeaves'
  BY <1>1, PutAdds
<1>3. [Next]_vars /\ HashLevel /\ Extend(whole)
  BY DEF PutParents, Next
<1>4. /\ Last(ends) \in Nat /\ Last(ends) <= numLeaves /\ numLeaves \in Nat
      /\ Last(ends) <= Frontier'
  <2>1. Last(ends) \in Nat /\ Last(ends) <= Frontier
    BY LeavesThere DEF Durable, Linked
  <2>2. Frontier \in Nat /\ Frontier' \in Nat /\ Frontier <= Frontier'
    BY <1>3, FrontierStep DEF Durable, Shape
  <2> QED
    BY <2>1, <2>2, LeavesThere
<1>5. /\ whole \in Nat /\ Last(ends) <= whole /\ whole <= Frontier'
      /\ RootOver(nodes', Frontier', whole)
  <2>1. CASE status' = "Ok"
    BY <1>3, <1>4, <2>1, RootCompletes
  <2>2. CASE status' # "Ok"
    BY <1>3, <1>4, <2>2, RootStays
  <2> QED
    BY <2>1, <2>2
<1> HIDE DEF whole
<1> QED
  BY <1>2, <1>3, <1>5, SomethingPut

\* A sync forgets the oldest states.
LEMMA DurableSync ==
  ASSUME Durable, Sync
  PROVE  Durable'
<1> DEFINE n == Len(history)
<1>1. PICK k \in 2..n : history' = SubSeq(history, k, n)
  BY DEF Sync, Kv!Sync
<1>2. /\ n \in Nat /\ n > 0 /\ DOMAIN history = 1..n
      /\ Len(ends) = n /\ DOMAIN ends = 1..n
  BY DEF Durable, Recoverable
<1> DEFINE m == n - k + 1
<1>3. /\ k - 1 \in Nat /\ m \in Nat /\ m > 0 /\ (k - 1) + m = n
  BY <1>2
<1>4. /\ DOMAIN history' = 1..m /\ Len(history') = m
      /\ \A j \in 1..m : history'[j] = history[(k - 1) + j]
  <2>1. DOMAIN history' = 1..m /\ Len(history') = m
    BY <1>1, <1>2
  <2>2. \A j \in 1..m : history'[j] = history[(k - 1) + j]
    BY <1>1, <1>2
  <2> QED
    BY <2>1, <2>2
<1>5. /\ DOMAIN ends' = 1..m /\ Len(ends') = m
      /\ \A j \in 1..m : ends'[j] = ends[(k - 1) + j]
  <2>1. ends' = SubSeq(ends, k, n)
    BY <1>2, <1>4 DEF Sync
  <2>2. DOMAIN ends' = 1..m /\ Len(ends') = m
    BY <1>2, <2>1
  <2>3. \A j \in 1..m : ends'[j] = ends[(k - 1) + j]
    BY <1>2, <2>1
  <2> QED
    BY <2>2, <2>3
<1>6. Recoverable(history', ends')
  <2>1. Selected(history', ends', history, ends, k - 1, m)
    <3> HIDE DEF m
    <3> QED
      BY <1>3, <1>4, <1>5 DEF Selected
  <2> QED
    BY <2>1, SelectHistory DEF Durable
<1>7. Last(history') = Last(history) /\ Last(ends') = Last(ends)
  <2>1. m \in 1..m
    BY <1>3
  <2>2. history'[m] = history[n] /\ ends'[m] = ends[n]
    BY <1>3, <1>4, <1>5, <2>1
  <2> QED
    BY <1>2, <1>4, <1>5, <2>2 DEF Last
<1>8. UNCHANGED <<vars, cached>>
  BY DEF Sync, Kv!Sync
<1>9. Shape' /\ Content'
  BY <1>8, ShapeStep, ContentStep DEF Durable
<1>10. Frontier' = Frontier
  BY <1>8 DEF vars, store, locals, Frontier, Idle
<1>11. Linked'
  BY <1>7, <1>8, <1>10 DEF Durable, Linked, vars, store
<1> QED
  BY <1>6, <1>9, <1>11 DEF Durable

\* A crash leaves one state of the database and no tree.
LEMMA DurableCrash ==
  ASSUME Durable, Crash
  PROVE  Durable'
<1>1. PICK k \in DOMAIN history : history' = <<history[k]>> /\ ends' = <<ends[k]>>
  BY DEF Crash, Kv!Survivor
<1>2. k \in 1..Len(history) /\ Len(history) \in Nat
  BY DEF Durable, Recoverable
<1>3. Recoverable(history', ends')
  <2>1. Selected(history', ends', history, ends, k - 1, 1)
    BY <1>1, <1>2 DEF Selected
  <2> QED
    BY <2>1, SelectHistory DEF Durable
<1> QED
  BY <1>3, Reopened DEF Crash, Found, Kv!Crash

\* Opening a database whose count is zero adds an empty one, or keeps the last.
LEMMA DurableOpen ==
  ASSUME Durable, Open
  PROVE  Durable'
<1> DEFINE n == Len(history)
           db == Last(history)
<1>1. /\ n \in Nat /\ n > 0 /\ DOMAIN history = 1..n /\ DOMAIN ends = 1..n
      /\ Len(ends) = n /\ db = history[n] /\ Recoverable(history, ends)
  BY DEF Durable, Recoverable, Last
<1>2. cached' = Kv!CountOf(db)
  BY DEF Open, Kv!OpenAndClear, Kv!OpenAndFlush, Kv!Db, Kv!Last, Last
<1>3. CASE Kv!CountOf(db) # 0
  <2>1. history' = history
    BY <1>3 DEF Open, Kv!OpenAndClear, Kv!OpenAndFlush, Kv!Db, Kv!Last, Last
  <2>2. ends' = [k \in 1..n |-> ends[k]]
    BY <1>2, <1>3, <2>1 DEF Open
  <2>3. Recoverable(history', ends')
    <3>1. Selected(history', ends', history, ends, 0, n)
      BY <1>1, <2>1, <2>2 DEF Selected
    <3> QED
      BY <1>1, <3>1, SelectHistory
  <2> QED
    BY <1>2, <2>1, <2>3, Reopened DEF Open
<1>4. CASE Kv!CountOf(db) = 0
  <2>1. \A k \in 1..n : ends[k] = 0
    <3> SUFFICES ASSUME NEW k \in 1..n PROVE ends[k] = 0
      OBVIOUS
    <3>1. ends[k] \in Nat /\ ends[k] <= ends[n] /\ ends[n] \in Nat /\ ends[n] <= 0
      BY <1>1, <1>4 DEF Recoverable, Entry
    <3> QED
      BY <3>1
  <2>2. ends' = [k \in 1..Len(history') |-> 0]
    BY <1>2, <1>4 DEF Open
  <2>3. CASE history' = Append(history, Kv!Empty)
    <3>1. /\ Len(history') = n + 1 /\ DOMAIN history' = 1..(n + 1)
          /\ \A k \in 1..n : history'[k] = history[k]
          /\ history'[n + 1] = Kv!Empty
      <4>1. Len(history') = n + 1 /\ DOMAIN history' = 1..(n + 1)
        BY <1>1, <2>3
      <4>2. \A k \in 1..n : history'[k] = history[k]
        BY <1>1, <2>3
      <4>3. history'[n + 1] = Kv!Empty
        BY <1>1, <2>3
      <4> QED
        BY <4>1, <4>2, <4>3
    <3>2. /\ DOMAIN ends' = 1..(n + 1) /\ ends'[n + 1] = 0
          /\ \A k \in 1..n : ends'[k] = ends[k]
      BY <1>1, <2>1, <2>2, <3>1
    <3>3. Recoverable(history', ends')
      <4> DEFINE more == history'
                 whose == ends'
                 new == Kv!Empty
                 whole == 0
      <4>1. /\ Recoverable(history, ends) /\ Entry(new, whole)
            /\ ends[Len(history)] <= whole
            /\ Kept(history[Len(history)].nodes, new.nodes, ends[Len(history)])
        BY <1>1, <2>1, EntryEmpty, KeptNone
      <4>2. /\ DOMAIN more = 1..(Len(history) + 1)
            /\ DOMAIN whose = 1..(Len(history) + 1)
            /\ \A k \in 1..Len(history) : more[k] = history[k] /\ whose[k] = ends[k]
            /\ more[Len(history) + 1] = new /\ whose[Len(history) + 1] = whole
        BY <3>1, <3>2
      <4> HIDE DEF more, whose, new, whole
      <4>3. Recoverable(more, whose)
        BY ONLY <4>1, <4>2, ExtendHistory
      <4> QED
        BY <4>3 DEF more, whose
    <3>4. numLeaves' = Kv!CountOf(Last(history'))
      BY <1>2, <1>4, <3>1, EntryEmpty DEF Open, Last
    <3> QED
      BY <3>3, <3>4, Reopened DEF Open
  <2>4. CASE history' = <<db>>
    <3>1. Recoverable(history', ends')
      <4>1. Len(history') = 1 /\ DOMAIN history' = 1..1 /\ history'[1] = history[n]
        BY <1>1, <2>4
      <4>2. Selected(history', ends', history, ends, n - 1, 1)
        BY <1>1, <2>1, <2>2, <4>1 DEF Selected
      <4> QED
        BY <1>1, <4>2, SelectHistory
    <3>2. Last(history') = db
      BY <2>4 DEF Last
    <3> QED
      BY <1>2, <3>1, <3>2, Reopened DEF Open
  <2> QED
    BY <1>4, <2>3, <2>4
       DEF Open, Kv!OpenAndClear, Kv!OpenAndFlush, Kv!Db, Kv!Last, Last
<1> QED
  BY <1>3, <1>4

\* Every step keeps the invariant: of the tree, of the database and crashes.
THEOREM DurableStep == Durable /\ [DurableNext]_durableVars => Durable'
<1> SUFFICES ASSUME Durable, [DurableNext]_durableVars PROVE Durable'
  OBVIOUS
<1>1. CASE Refuse
  <2>1. [Next]_vars /\ UNCHANGED store /\ status # "Hashing"
    BY <1>1 DEF Refuse, AddNothing, AddTreeFull, Next, AddLeaves, Idle
  <2>2. UNCHANGED <<history, cached, ends>>
    BY <1>1 DEF Refuse, kvVars
  <2> QED
    BY <2>1, <2>2, NothingPut
<1>2. ASSUME NEW batch \in Batches, PutLeaves(batch) PROVE Durable'
  BY <1>2, DurablePutLeaves
<1>3. ASSUME NEW batch \in Batches, PutLeavesFails(batch) PROVE Durable'
  <2>1. [Next]_vars /\ UNCHANGED store /\ status # "Hashing"
    BY <1>3 DEF PutLeavesFails, AddStartFails, EntryFails, Next, AddLeaves, Idle
  <2>2. UNCHANGED <<history, cached, ends>>
    BY <1>3 DEF PutLeavesFails, kvVars, Kv!PutFails, Kv!CountOnError
  <2> QED
    BY <2>1, <2>2, NothingPut
<1>4. CASE PutParents
  BY <1>4, DurablePutParents
<1>5. CASE PutParentsFails
  <2>1. [Next]_vars /\ UNCHANGED store /\ status' # "Ok"
    BY <1>5 DEF PutParentsFails, HashLevelFails, LevelFails, Next
  <2>2. UNCHANGED <<history, cached, ends>>
    BY <1>5 DEF PutParentsFails, Kv!PutFails, Kv!CountOnError
  <2> QED
    BY <2>1, <2>2, NothingPut
<1>6. CASE Sync
  BY <1>6, DurableSync
<1>7. CASE Close
  <2>1. Recoverable(history', ends') /\ cached' = None /\ Found
    BY <1>7 DEF Close, Kv!Close, Durable
  <2> QED
    BY <2>1, Reopened DEF Found
<1>8. CASE Crash
  BY <1>8, DurableCrash
<1>9. CASE Open
  BY <1>9, DurableOpen
<1>10. CASE UNCHANGED durableVars
  <2>1. [Next]_vars /\ UNCHANGED <<store, status>> /\ UNCHANGED <<history, cached, ends>>
    BY <1>10 DEF durableVars, kvVars, vars
  <2> QED
    BY <2>1, NothingPut DEF store
<1> QED
  BY <1>1, <1>2, <1>3, <1>4, <1>5, <1>6, <1>7, <1>8, <1>9, <1>10 DEF DurableNext

\* Whatever puts fail and whatever a crash loses, the invariant holds: the tree
\* has its shape over what the database holds, and so has a tree opened after a
\* crash at any time.
THEOREM DurableInvariant == DurableSpec => []Durable
BY DurableInitially, DurableStep, PTL DEF DurableSpec

-----------------------------------------------------------------------------
(* The properties. *)

\* The database is always the store the tree takes it for, and the cached count
\* the stored one.
THEOREM StoreAlwaysSeen == DurableSpec => []StoreSeen
<1>1. Durable => StoreSeen
  <2> SUFFICES ASSUME Durable PROVE StoreSeen
    OBVIOUS
  <2>1. Kv!Db = Last(history)
    BY DEF Kv!Db, Kv!Last, Last
  <2>2. \A l, i : Kv!Get(l, i) = IF i \in DOMAIN nodes[l] THEN nodes[l][i] ELSE None
    BY <2>1 DEF Kv!Get, Durable, Linked
  <2>3. Kv!CacheCoherent /\ cached \in {None, numLeaves}
    BY <2>1 DEF Kv!CacheCoherent, Durable, Linked
  <2> QED
    BY <2>2, <2>3 DEF StoreSeen
<1> QED
  BY <1>1, DurableInvariant, PTL

\* Whatever a crash loses, the count found covers the leaves found, and a
\* database without leaves is empty.
THEOREM CountAlwaysFits == DurableSpec => []CountFitsNodes
<1>1. Durable => CountFitsNodes
  <2> SUFFICES ASSUME Durable, NEW k \in DOMAIN history, NEW db, db = history[k],
                      NEW n, n = Kv!CountOf(db)
               PROVE  /\ \A i \in DOMAIN db.nodes[0] : i < n
                      /\ n > 0 => n - 1 \in DOMAIN db.nodes[0]
                      /\ n = 0 => \A l \in Levels : DOMAIN db.nodes[l] = {}
    BY DEF CountFitsNodes, Kv!LeavesCounted, Kv!NothingToClear, Kv!Levels, Levels
  <2>1. Fitting(db.nodes, n) /\ n \in Nat /\ 0 \in Levels
    <3>1. k \in 1..Len(history)
      BY DEF Durable, Recoverable
    <3>2. Entry(db, ends[k])
      BY <3>1 DEF Durable, Recoverable
    <3> QED
      BY <3>2, CapacityType, DepthAssumption DEF Entry, Fitting, Levels
  <2>2. ASSUME NEW i \in DOMAIN db.nodes[0] PROVE i < n
    <3>1. i \in Nat /\ 0 < n /\ i <= Shr(n - 1, 0)
      BY <2>1 DEF Fitting
    <3>2. Shr(n - 1, 0) = n - 1
      BY <2>1, <3>1, ShrRec
    <3> QED
      BY <2>1, <3>1, <3>2
  <2>3. n > 0 => n - 1 \in DOMAIN db.nodes[0]
    BY <2>1 DEF Fitting
  <2>4. n = 0 => \A l \in Levels : DOMAIN db.nodes[l] = {}
    BY <2>1 DEF Fitting
  <2> QED
    BY <2>2, <2>3, <2>4
<1> QED
  BY <1>1, DurableInvariant, PTL

\* However many puts are lost and whatever is appended afterwards, the root of a
\* tree that is sound left of its frontier is that of the leaves of whole calls.
THEOREM RootAlwaysOfWholeCalls == DurableSpec => []RootOfWholeCalls
<1>1. Durable => RootOfWholeCalls
  <2> SUFFICES ASSUME Durable, SoundLeftOf(Frontier)
               PROVE  Root = ReferenceRoot(SubSeq(StoredLeaves, 1, Last(ends)))
    BY DEF RootOfWholeCalls
  <2> DEFINE whole == Last(ends)
  <2>1. SoundUpTo(nodes, Frontier)
    BY DEF SoundUpTo, SoundLeftOf, ParentAgrees, NodeAt, At
  <2>2. Root = ReferenceRoot([k \in 1..whole |-> nodes[0][k - 1]])
    BY <2>1 DEF Durable, Linked, RootOver, Root, NodeAt, At
  <2>3. SubSeq(StoredLeaves, 1, whole) = [k \in 1..whole |-> nodes[0][k - 1]]
    <3>1. whole \in Nat /\ numLeaves \in Nat /\ whole <= numLeaves
      BY LeavesThere
    <3> HIDE DEF whole
    <3> QED
      BY <3>1 DEF StoredLeaves
  <2> QED
    BY <2>2, <2>3
<1> QED
  BY <1>1, DurableInvariant, PTL

\* What is synced is final, over the leaves of whole calls, through every
\* append, failure, crash and reopening.
THEOREM SyncedAlwaysFinal == DurableSpec => SyncedNodesFinal
<1>1. Durable /\ [DurableNext]_durableVars => Kept(history[1].nodes, nodes', ends[1])
  <2> SUFFICES ASSUME Durable, [DurableNext]_durableVars
               PROVE  Kept(history[1].nodes, nodes', ends[1])
    OBVIOUS
  <2> DEFINE n == Len(history)
  <2>1. /\ n \in Nat /\ n > 0 /\ 1 \in 1..n /\ n \in 1..n /\ DOMAIN history = 1..n
        /\ ends[1] \in Nat /\ ends[n] \in Nat /\ ends[1] <= ends[n]
        /\ ends[n] <= Frontier /\ Frontier \in Nat
        /\ history[n].nodes = nodes /\ Last(history) = history[n]
        /\ \A k \in 1..n : Kept(history[1].nodes, history[k].nodes, ends[1])
        /\ ends[n] <= Kv!CountOf(history[n])
    <3>1. n \in Nat /\ n > 0 /\ DOMAIN history = 1..n
      BY DEF Durable, Recoverable
    <3>2. 1 \in 1..n /\ n \in 1..n
      BY <3>1
    <3>3. Entry(history[1], ends[1]) /\ Entry(history[n], ends[n])
      BY <3>2 DEF Durable, Recoverable
    <3>4. /\ \A k \in 1..n : Kept(history[1].nodes, history[k].nodes, ends[1])
          /\ ends[1] <= ends[n]
      BY <3>2 DEF Durable, Recoverable
    <3>5. Last(ends) = ends[n] /\ Last(history) = history[n]
      BY LeavesThere DEF Last
    <3>6. Frontier \in Nat
      BY CapacityType DEF Durable, Shape, Framed, TypeOK, Frontier
    <3> QED
      BY <3>1, <3>2, <3>3, <3>4, <3>5, <3>6 DEF Entry, Durable, Linked
  <2> HIDE DEF n
  <2>2. CASE [Next]_vars
    <3>1. Kept(nodes, nodes', Frontier)
      BY <2>2, FrontierKept DEF Kept, Durable, Shape
    <3>2. Kept(history[1].nodes, nodes, ends[1]) /\ ends[1] <= Frontier
      BY <2>1
    <3> QED
      BY <2>1, <3>1, <3>2, KeptTrans
  <2>3. ASSUME NEW k \in 1..n, nodes' = history[k].nodes
        PROVE  Kept(history[1].nodes, nodes', ends[1])
    BY <2>1, <2>3
  <2>4. CASE Close
    <3>1. nodes' = Last(history).nodes
      BY <2>4 DEF Close, Kv!Close, Found
    <3> QED
      BY <2>1, <2>3, <3>1
  <2>5. CASE Crash
    <3>1. PICK k \in DOMAIN history : history' = <<history[k]>>
      BY <2>5 DEF Crash, Kv!Survivor
    <3>2. Last(history') = history[k]
      BY <3>1 DEF Last
    <3> QED
      BY <2>1, <2>3, <2>5, <3>2 DEF Crash, Found
  <2>6. CASE Open
    <3>1. CASE Kv!CountOf(history[n]) = 0
      <4>1. ends[1] = 0
        BY <2>1, <3>1
      <4> QED
        BY <4>1, KeptNone
    <3>2. CASE Kv!CountOf(history[n]) # 0
      <4>1. history' = history
        BY <2>1, <2>6, <3>2 DEF Open, Kv!OpenAndClear, Kv!OpenAndFlush, Kv!Db, Kv!Last, Last
      <4>2. nodes' = history[n].nodes
        BY <2>1, <2>6, <4>1 DEF Open
      <4> QED
        BY <2>1, <2>3, <4>2
    <3> QED
      BY <3>1, <3>2
  <2>7. [Next]_vars \/ Close \/ Crash \/ Open
    BY DEF DurableNext, Refuse, PutLeaves, PutLeavesFails, PutParents, PutParentsFails,
           Sync, Next, AddLeaves, durableVars
  <2> QED
    BY <2>2, <2>4, <2>5, <2>6, <2>7
<1>2. Durable => ends[1] \in Nat
  BY DEF Durable, Recoverable, Entry
<1>3. Durable /\ [DurableNext]_durableVars =>
        [ \A l \in Levels : \A i \in 0..(Shr(ends[1], l) - 1) :
            LET synced == history[1].nodes[l] IN
            /\ (i \in DOMAIN nodes[l])' <=> i \in DOMAIN synced
            /\ i \in DOMAIN nodes'[l] => nodes'[l][i] = synced[i] ]_durableVars
  <2> SUFFICES ASSUME Durable, [DurableNext]_durableVars,
                      NEW l \in Levels, NEW i \in 0..(Shr(ends[1], l) - 1)
               PROVE  /\ i \in DOMAIN nodes'[l] <=> i \in DOMAIN history[1].nodes[l]
                      /\ i \in DOMAIN nodes'[l] => nodes'[l][i] = history[1].nodes[l][i]
    OBVIOUS
  <2>1. Shr(ends[1], l) \in Nat
    BY <1>2, ShrType
  <2>2. i \in Nat /\ i < Shr(ends[1], l)
    BY <2>1
  <2> QED
    BY <1>1, <2>2 DEF Kept
<1> QED
  BY <1>3, DurableInvariant, PTL DEF DurableSpec, SyncedNodesFinal
=============================================================================
