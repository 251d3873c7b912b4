-------------------------- MODULE MemoryStore_proof --------------------------
(***************************************************************************)
(* Proofs about MemoryStore for every set of nodes, number of levels and   *)
(* length of a level: it implements the trait, and refuses exactly the     *)
(* runs the trait refuses.                                                 *)
(*                                                                         *)
(* A put goes to the vector of levels and to the vector of one level; what *)
(* a caller sees are positions.  The argument is about `levels` as a value *)
(* and about the value it becomes: growing the vector of levels shows      *)
(* nothing new, and overlaying a run shows the run and what was around it. *)
(*                                                                         *)
(* And, at its end, proofs about what a tree over this store, or any       *)
(* other, takes for granted: the words that leaves are counted in (Words), *)
(* for every width and depth, and the text of a node (NodeText), for every *)
(* length of a node and every string.  Their specification is ValuesSpec;  *)
(* it shares no name with that of the store.                               *)
(***************************************************************************)
EXTENDS MemoryStore, MCValues, TLAPS, WellFoundedInduction, FiniteSetTheorems, SequenceTheorems

\* The vectors: at most one for each level, none longer than a level can be.
VectorsFit(lv) ==
  /\ lv \in Seq(Seq(Node))
  /\ Len(lv) <= TopLevel + 1
  /\ \A k \in 1..Len(lv) : Len(lv[k]) <= MaxNodes

LevelsFit == VectorsFit(levels)

\* How many nodes a level holds, and which: none if its vector does not exist.
Height(lv, l) == IF l < Len(lv) THEN Len(lv[l + 1]) ELSE 0
Row(lv, l) == [i \in 0..(Height(lv, l) - 1) |-> lv[l + 1][i + 1]]

\* What the refinement mapping maps level l to.
Seen(l) == [i \in Stored(l) |-> Get(l, i)]

-----------------------------------------------------------------------------
(* What is seen of the vectors. *)

\* The height of a level is within its bound.
LEMMA HeightType ==
  ASSUME NEW lv, VectorsFit(lv), NEW l \in 0..TopLevel
  PROVE  Height(lv, l) \in Nat /\ Height(lv, l) <= MaxNodes
<1>1. TopLevel \in Nat /\ MaxNodes \in Nat
  BY MemoryStoreAssumption
<1>2. CASE l < Len(lv)
  <2>1. l + 1 \in 1..Len(lv) /\ lv[l + 1] \in Seq(Node)
    BY <1>1, <1>2 DEF VectorsFit
  <2>2. Len(lv[l + 1]) \in Nat /\ Len(lv[l + 1]) <= MaxNodes
    BY <2>1 DEF VectorsFit
  <2> QED
    BY <1>2, <2>2 DEF Height
<1>3. CASE ~ (l < Len(lv))
  BY <1>1, <1>3 DEF Height
<1> QED
  BY <1>2, <1>3

\* The positions get finds a node at are those below the height of the level.
LEMMA RowSeen ==
  ASSUME NEW lv, VectorsFit(lv), NEW l \in 0..TopLevel
  PROVE  [i \in {j \in 0..MaxNodes :
                   (IF l < Len(lv) /\ j < Len(lv[l + 1])
                    THEN lv[l + 1][j + 1] ELSE None) # None} |->
            IF l < Len(lv) /\ i < Len(lv[l + 1]) THEN lv[l + 1][i + 1] ELSE None]
         = Row(lv, l)
<1> DEFINE get(i) == IF l < Len(lv) /\ i < Len(lv[l + 1]) THEN lv[l + 1][i + 1] ELSE None
           h == Height(lv, l)
<1>1. /\ TopLevel \in Nat /\ MaxNodes \in Nat /\ None \notin Node
      /\ h \in Nat /\ h <= MaxNodes
  BY HeightType, MemoryStoreAssumption
<1>2. ASSUME NEW i \in 0..MaxNodes, i < h PROVE get(i) = lv[l + 1][i + 1] /\ get(i) # None
  <2>1. l < Len(lv) /\ h = Len(lv[l + 1])
    BY <1>1, <1>2 DEF Height
  <2>2. lv[l + 1] \in Seq(Node)
    BY <1>1, <2>1 DEF VectorsFit
  <2>3. i + 1 \in 1..Len(lv[l + 1])
    BY <1>1, <1>2, <2>1
  <2>4. lv[l + 1][i + 1] \in Node
    BY <2>2, <2>3
  <2> QED
    BY <1>1, <1>2, <2>1, <2>4
<1>3. ASSUME NEW i \in 0..MaxNodes, ~(i < h) PROVE get(i) = None
  BY <1>3 DEF Height
<1> HIDE DEF get, h
<1>4. {j \in 0..MaxNodes : get(j) # None} = 0..(h - 1)
  BY <1>1, <1>2, <1>3
<1>5. \A i \in 0..(h - 1) : get(i) = lv[l + 1][i + 1]
  BY <1>1, <1>2
<1>6. [i \in {j \in 0..MaxNodes : get(j) # None} |-> get(i)] =
        [i \in 0..(h - 1) |-> lv[l + 1][i + 1]]
  BY <1>4, <1>5
<1> QED
  BY <1>6 DEF get, h, Row

\* So that is what the mapping shows, before a step and after it.
LEMMA SeenRow ==
  ASSUME LevelsFit, LevelsFit', NEW l \in 0..TopLevel
  PROVE  Seen(l) = Row(levels, l) /\ Seen(l)' = Row(levels', l)
<1>1. VectorsFit(levels) /\ VectorsFit(levels')
  BY DEF LevelsFit
<1> QED
  BY <1>1, RowSeen DEF Seen, Stored, Get

\* The count of leaves is the height of level 0.
LEMMA LeavesCounted ==
  ASSUME LevelsFit, LevelsFit'
  PROVE  NumLeaves = Height(levels, 0) /\ NumLeaves' = Height(levels', 0)
<1>1. ASSUME NEW lv, VectorsFit(lv)
      PROVE  (IF lv = <<>> THEN 0 ELSE Len(lv[1])) = Height(lv, 0)
  <2>1. lv \in Seq(Seq(Node))
    BY <1>1 DEF VectorsFit
  <2>2. lv = <<>> <=> ~(0 < Len(lv))
    BY <2>1
  <2> QED
    BY <2>2 DEF Height
<1> QED
  BY <1>1 DEF LevelsFit, NumLeaves

-----------------------------------------------------------------------------
(* What a put makes of the vectors. *)

\* Growing the vector of levels keeps it in bounds and shows nothing new.
LEMMA ResizedShows ==
  ASSUME LevelsFit, NEW l \in 0..TopLevel
  PROVE  /\ VectorsFit(Resized(l))
         /\ l < Len(Resized(l)) /\ l + 1 \in 1..Len(Resized(l))
         /\ \A k \in 0..TopLevel : /\ Height(Resized(l), k) = Height(levels, k)
                                   /\ Row(Resized(l), k) = Row(levels, k)
<1> DEFINE n == IF l < Len(levels) THEN Len(levels) ELSE l + 1
           lv == Resized(l)
<1>1. /\ levels \in Seq(Seq(Node)) /\ Len(levels) \in Nat /\ Len(levels) <= TopLevel + 1
      /\ TopLevel \in Nat /\ MaxNodes \in Nat
      /\ \A k \in 1..Len(levels) : levels[k] \in Seq(Node) /\ Len(levels[k]) <= MaxNodes
  BY MemoryStoreAssumption DEF LevelsFit, VectorsFit
<1>2. n \in Nat /\ Len(levels) <= n /\ l < n /\ n <= TopLevel + 1
  BY <1>1
<1>3. lv = [k \in 1..n |-> IF k <= Len(levels) THEN levels[k] ELSE <<>>]
  BY DEF Resized
<1> HIDE DEF n, lv
<1>4. <<>> \in Seq(Node) /\ Len(<<>>) = 0
  OBVIOUS
<1>5. \A k \in 1..n : lv[k] \in Seq(Node) /\ Len(lv[k]) <= MaxNodes
  BY <1>1, <1>2, <1>3, <1>4
<1>6. lv \in Seq(Seq(Node)) /\ Len(lv) = n
  <2>1. lv \in [1..n -> Seq(Node)]
    BY <1>3, <1>5
  <2> QED
    BY <1>2, <2>1
<1>7. VectorsFit(lv)
  BY <1>2, <1>5, <1>6 DEF VectorsFit
<1>8. ASSUME NEW k \in 0..TopLevel
      PROVE  Height(lv, k) = Height(levels, k) /\ Row(lv, k) = Row(levels, k)
  <2>1. CASE k < Len(levels)
    <3>1. k < Len(lv) /\ k + 1 \in 1..n /\ k + 1 <= Len(levels)
      BY <1>1, <1>2, <1>6, <2>1
    <3>2. lv[k + 1] = levels[k + 1]
      BY <1>3, <3>1
    <3> QED
      BY <2>1, <3>1, <3>2 DEF Height, Row
  <2>2. CASE ~(k < Len(levels))
    <3>1. Height(levels, k) = 0
      BY <2>2 DEF Height
    <3>2. Height(lv, k) = 0
      <4>1. CASE k < Len(lv)
        <5>1. k + 1 \in 1..n /\ ~(k + 1 <= Len(levels))
          BY <1>1, <1>2, <1>6, <2>2, <4>1
        <5>2. lv[k + 1] = <<>>
          BY <1>3, <5>1
        <5> QED
          BY <1>4, <4>1, <5>2 DEF Height
      <4>2. CASE ~(k < Len(lv))
        BY <4>2 DEF Height
      <4> QED
        BY <4>1, <4>2
    <3>3. 0..(0 - 1) = {}
      OBVIOUS
    <3> QED
      BY <3>1, <3>2, <3>3 DEF Row
  <2> QED
    BY <2>1, <2>2
<1> QED
  BY <1>2, <1>6, <1>7, <1>8 DEF lv

\* What is in two sequences put one after the other.
LEMMA Concatenated ==
  ASSUME NEW a \in Seq(Node), NEW b \in Seq(Node)
  PROVE  /\ a \o b \in Seq(Node) /\ Len(a \o b) = Len(a) + Len(b)
         /\ \A i \in 1..(Len(a) + Len(b)) :
              (a \o b)[i] = IF i <= Len(a) THEN a[i] ELSE b[i - Len(a)]
OBVIOUS

\* A run that does not start past the end replaces what it covers, extends the
\* level to its own end, and leaves the rest.
LEMMA OverlaidRun ==
  ASSUME NEW stored \in Seq(Node), NEW s \in Nat, NEW run \in Seq(Node),
         s <= Len(stored)
  PROVE  LET over == Overlaid(stored, s, run) IN
         /\ over \in Seq(Node)
         /\ Len(over) = IF Len(stored) > s + Len(run) THEN Len(stored) ELSE s + Len(run)
         /\ \A i \in 1..Len(over) :
              over[i] = IF i \in (s + 1)..(s + Len(run)) THEN run[i - s] ELSE stored[i]
<1> DEFINE r == Len(run)
           n == Len(stored)
           head == SubSeq(stored, 1, s)
           tail == SubSeq(stored, s + r + 1, n)
<1>1. r \in Nat /\ n \in Nat /\ s <= n
  OBVIOUS
<1>2. head \in Seq(Node) /\ Len(head) = s /\ \A i \in 1..s : head[i] = stored[i]
  OBVIOUS
<1>3. /\ tail \in Seq(Node) /\ Len(tail) = IF n > s + r THEN n - (s + r) ELSE 0
      /\ \A i \in 1..Len(tail) : tail[i] = stored[s + r + i]
  OBVIOUS
<1> DEFINE front == head \o run
           over == front \o tail
<1> HIDE DEF head, tail
<1>4. /\ front \in Seq(Node) /\ Len(front) = s + r
      /\ \A i \in 1..(s + r) : front[i] = IF i <= s THEN head[i] ELSE run[i - s]
  BY <1>1, <1>2, Concatenated
<1> HIDE DEF front
<1>5. /\ over \in Seq(Node) /\ Len(over) = s + r + Len(tail)
      /\ \A i \in 1..(s + r + Len(tail)) :
           over[i] = IF i <= s + r THEN front[i] ELSE tail[i - (s + r)]
  <2>1. /\ over \in Seq(Node) /\ Len(over) = Len(front) + Len(tail)
        /\ \A i \in 1..(Len(front) + Len(tail)) :
             over[i] = IF i <= Len(front) THEN front[i] ELSE tail[i - Len(front)]
    BY <1>3, <1>4, Concatenated
  <2>2. Len(front) = s + r
    BY <1>4
  <2> HIDE DEF over
  <2> QED
    BY <2>1, <2>2
<1> HIDE DEF over
<1>6. Len(over) = IF n > s + r THEN n ELSE s + r
  <2>1. r \in Nat /\ n \in Nat
    BY <1>1
  <2>2. Len(tail) = (IF n > s + r THEN n - (s + r) ELSE 0) /\ Len(over) = s + r + Len(tail)
    BY <1>3, <1>5
  <2> HIDE DEF r, n
  <2> QED
    BY <2>1, <2>2
<1>7. ASSUME NEW i \in 1..(s + r + Len(tail))
      PROVE  over[i] = IF i \in (s + 1)..(s + r) THEN run[i - s] ELSE stored[i]
  <2>1. Len(tail) \in Nat /\ over[i] = IF i <= s + r THEN front[i] ELSE tail[i - (s + r)]
    BY <1>3, <1>5
  <2>2. CASE i <= s
    <3>1. i \in 1..s /\ i \in 1..(s + r) /\ i <= s + r /\ i \notin (s + 1)..(s + r)
      BY <1>1, <2>2
    <3> QED
      BY <1>2, <1>4, <2>1, <2>2, <3>1
  <2>3. CASE ~(i <= s) /\ i <= s + r
    <3>1. i \in 1..(s + r) /\ i \in (s + 1)..(s + r)
      BY <1>1, <2>3
    <3> QED
      BY <1>4, <2>1, <2>3, <3>1
  <2>4. CASE ~(i <= s + r)
    <3>1. i - (s + r) \in 1..Len(tail) /\ s + r + (i - (s + r)) = i
      BY <1>1, <2>1, <2>4
    <3>2. i \notin (s + 1)..(s + r)
      BY <2>4
    <3> QED
      BY <1>3, <2>1, <2>4, <3>1, <3>2
  <2> QED
    BY <2>2, <2>3, <2>4
<1> QED
  BY <1>5, <1>6, <1>7 DEF Overlaid, head, tail, front, over

\* `over` is `stored` with the positions from s on replaced by `run`, up to e.
\* Positions count from 0.
RunOver(over, stored, s, e, run) ==
  /\ over \in Seq(Node)
  /\ Len(over) = IF Len(stored) > e THEN Len(stored) ELSE e
  /\ \A i \in 0..(Len(over) - 1) :
       /\ over[i + 1] = IF i \in s..(e - 1) THEN run[i - s + 1] ELSE stored[i + 1]
       /\ i \notin s..(e - 1) => i \in 0..(Len(stored) - 1)

\* What is copied is such a level.
LEMMA OverlaidShows ==
  ASSUME NEW stored \in Seq(Node), NEW s \in Nat, NEW run \in Seq(Node),
         s <= Len(stored), NEW e, e = s + Len(run),
         NEW over, over = Overlaid(stored, s, run)
  PROVE  RunOver(over, stored, s, e, run)
<1>1. /\ over \in Seq(Node)
      /\ Len(over) = IF Len(stored) > e THEN Len(stored) ELSE e
      /\ \A i \in 1..Len(over) :
           over[i] = IF i \in (s + 1)..e THEN run[i - s] ELSE stored[i]
  BY OverlaidRun
<1>2. e \in Nat /\ Len(stored) \in Nat /\ Len(over) \in Nat
  BY <1>1
<1>3. ASSUME NEW i \in 0..(Len(over) - 1)
      PROVE  /\ over[i + 1] = IF i \in s..(e - 1) THEN run[i - s + 1] ELSE stored[i + 1]
             /\ i \notin s..(e - 1) => i \in 0..(Len(stored) - 1)
  <2>1. /\ i \in Nat /\ i + 1 \in 1..Len(over)
        /\ i + 1 \in (s + 1)..e <=> i \in s..(e - 1)
        /\ (i + 1) - s = i - s + 1
    BY <1>2
  <2>2. i \notin s..(e - 1) => i \in 0..(Len(stored) - 1)
    BY <1>1, <1>2, <2>1
  <2>3. over[i + 1] = IF i + 1 \in (s + 1)..e THEN run[(i + 1) - s] ELSE stored[i + 1]
    BY <1>1, <2>1
  <2> QED
    BY <2>1, <2>2, <2>3
<1> QED
  BY <1>1, <1>3 DEF RunOver

\* The arguments of a call.
LEMMA CallType ==
  ASSUME NEW c \in Calls
  PROVE  /\ c.level \in 0..TopLevel /\ c.level \in Nat /\ c.start \in Nat
         /\ c.run \in Seq(Node) /\ Len(c.run) \in Nat
         /\ c.start + Len(c.run) <= MaxNodes
         /\ c.run # <<>> => Len(c.run) > 0
<1>1. /\ c.level \in 0..TopLevel /\ c.start \in 0..MaxNodes
      /\ c.run \in BoundedSeq(Node, MaxNodes) /\ c.start + Len(c.run) <= MaxNodes
  BY DEF Calls
<1>2. c.run \in Seq(Node)
  <2>1. PICK n \in 0..MaxNodes : c.run \in [1..n -> Node]
    BY <1>1 DEF BoundedSeq, SeqOf
  <2>2. n \in Nat
    BY <2>1, MemoryStoreAssumption
  <2> QED
    BY <2>1, <2>2
<1>3. Len(c.run) \in Nat /\ (c.run # <<>> => Len(c.run) > 0)
  BY <1>2
<1> QED
  BY <1>1, <1>2, <1>3, MemoryStoreAssumption

\* An accepted run: its level shows it, and what was around it, and no other
\* level shows anything new.
LEMMA PutRunShows ==
  ASSUME LevelsFit, NEW c \in Calls, PutRun(c), NEW l, l = c.level,
         NEW s, s = c.start, NEW e, e = c.start + Len(c.run),
         NEW run, run = c.run
  PROVE  /\ LevelsFit'
         /\ s <= Height(levels, l)
         /\ Height(levels', l) = IF Height(levels, l) > e THEN Height(levels, l) ELSE e
         /\ \A i \in 0..(Height(levels', l) - 1) :
              Row(levels', l)[i] = IF i \in s..(e - 1) THEN run[i - s + 1]
                                   ELSE Row(levels, l)[i]
         /\ \A k \in 0..TopLevel : k # l =>
              Height(levels', k) = Height(levels, k) /\ Row(levels', k) = Row(levels, k)
<1> DEFINE grown == Resized(c.level)
           stored == grown[c.level + 1]
           over == Overlaid(stored, c.start, c.run)
           n == Len(stored)
<1>1. /\ c.level \in 0..TopLevel /\ l \in Nat /\ s \in Nat /\ run \in Seq(Node)
      /\ e = s + Len(run) /\ Len(run) \in Nat /\ e \in Nat /\ e <= MaxNodes
      /\ MaxNodes \in Nat /\ TopLevel \in Nat /\ l \in 0..TopLevel
  BY CallType, MemoryStoreAssumption
<1>2. /\ VectorsFit(grown) /\ l < Len(grown) /\ l + 1 \in 1..Len(grown)
      /\ \A k \in 0..TopLevel : /\ Height(grown, k) = Height(levels, k)
                                /\ Row(grown, k) = Row(levels, k)
  BY <1>1, ResizedShows
<1>3. levels' = [grown EXCEPT ![l + 1] = over] /\ ~(s > n)
  BY DEF PutRun, PastPrefix
<1>4. /\ grown \in Seq(Seq(Node)) /\ Len(grown) \in Nat /\ Len(grown) <= TopLevel + 1
      /\ \A k \in 1..Len(grown) : grown[k] \in Seq(Node) /\ Len(grown[k]) <= MaxNodes
  BY <1>2 DEF VectorsFit
<1>5. stored \in Seq(Node) /\ n \in Nat /\ n <= MaxNodes /\ s <= n
  <2>1. stored = grown[l + 1] /\ n = Len(stored)
    OBVIOUS
  <2> HIDE DEF grown, stored, n
  <2>2. stored \in Seq(Node) /\ Len(stored) <= MaxNodes
    BY <1>2, <1>4, <2>1
  <2>3. n \in Nat /\ n <= MaxNodes
    BY <2>1, <2>2
  <2>4. s <= n
    BY <1>1, <1>3, <2>3
  <2> QED
    BY <2>2, <2>3, <2>4
<1>6. n = Height(levels, l) /\ Row(levels, l) = [i \in 0..(n - 1) |-> stored[i + 1]]
  <2>1. Height(grown, l) = n /\ Row(grown, l) = [i \in 0..(n - 1) |-> stored[i + 1]]
    BY <1>2 DEF Height, Row
  <2> QED
    BY <1>1, <1>2, <2>1
<1> HIDE DEF stored, n
<1>7. /\ over \in Seq(Node)
      /\ Len(over) = IF n > e THEN n ELSE e
      /\ \A i \in 0..(Len(over) - 1) :
           /\ over[i + 1] = IF i \in s..(e - 1) THEN run[i - s + 1] ELSE stored[i + 1]
           /\ i \notin s..(e - 1) => i \in 0..(n - 1)
  <2>1. over = Overlaid(stored, s, run) /\ n = Len(stored)
    BY DEF n
  <2>2. s \in Nat /\ run \in Seq(Node) /\ s <= Len(stored) /\ e = s + Len(run)
    BY <1>1, <1>5, <2>1
  <2> HIDE DEF over
  <2>3. stored \in Seq(Node)
    BY <1>5
  <2>4. RunOver(over, stored, s, e, run)
    BY <2>1, <2>2, <2>3, OverlaidShows
  <2> QED
    BY <2>1, <2>4 DEF RunOver
<1> HIDE DEF over, grown
<1>8. /\ levels' \in Seq(Seq(Node)) /\ Len(levels') = Len(grown)
      /\ levels'[l + 1] = over
      /\ \A k \in 1..Len(grown) : k # l + 1 => levels'[k] = grown[k]
  BY <1>2, <1>3, <1>4, <1>7
<1>9. Len(over) \in Nat /\ Len(over) <= MaxNodes
  BY <1>1, <1>5, <1>7
<1>10. LevelsFit'
  <2>1. \A k \in 1..Len(grown) : Len(levels'[k]) <= MaxNodes
    BY <1>4, <1>8, <1>9
  <2> QED
    BY <1>4, <1>8, <2>1 DEF LevelsFit, VectorsFit
<1>11. /\ Height(levels', l) = Len(over)
       /\ Row(levels', l) = [i \in 0..(Len(over) - 1) |-> over[i + 1]]
  BY <1>2, <1>8 DEF Height, Row
<1>12. ASSUME NEW i \in 0..(Len(over) - 1)
       PROVE  Row(levels', l)[i] = IF i \in s..(e - 1) THEN run[i - s + 1]
                                   ELSE Row(levels, l)[i]
  <2>1. Row(levels', l)[i] = over[i + 1]
    BY <1>11
  <2>2. CASE i \in s..(e - 1)
    BY <1>7, <2>1, <2>2
  <2>3. CASE i \notin s..(e - 1)
    <3>1. i \in 0..(n - 1) /\ over[i + 1] = stored[i + 1]
      BY <1>7, <2>3
    <3>2. Row(levels, l)[i] = stored[i + 1]
      BY <1>6, <3>1
    <3> QED
      BY <2>1, <2>3, <3>1, <3>2
  <2> QED
    BY <2>2, <2>3
<1>13. ASSUME NEW k \in 0..TopLevel, k # l
       PROVE  Height(levels', k) = Height(levels, k) /\ Row(levels', k) = Row(levels, k)
  <2>1. Height(levels', k) = Height(grown, k) /\ Row(levels', k) = Row(grown, k)
    <3>1. CASE k < Len(grown)
      <4>1. k + 1 \in 1..Len(grown) /\ k + 1 # l + 1
        <5>1. k \in Nat /\ l \in Nat /\ Len(grown) \in Nat
          BY <1>1, <1>4
        <5> QED
          BY <1>13, <3>1, <5>1
      <4>2. levels'[k + 1] = grown[k + 1]
        BY <1>8, <4>1
      <4> QED
        BY <1>8, <4>2 DEF Height, Row
    <3>2. CASE ~(k < Len(grown))
      <4>1. Height(levels', k) = 0 /\ Height(grown, k) = 0
        BY <1>8, <3>2 DEF Height
      <4>2. 0..(0 - 1) = {}
        OBVIOUS
      <4> QED
        BY <4>1, <4>2 DEF Row
    <3> QED
      BY <3>1, <3>2
  <2> QED
    BY <1>2, <2>1
<1> QED
  BY <1>5, <1>6, <1>7, <1>10, <1>11, <1>12, <1>13

\* The vectors stay within their bounds.
LEMMA LevelsFitStep == LevelsFit /\ [Next]_vars => LevelsFit'
<1> SUFFICES ASSUME LevelsFit, [Next]_vars PROVE LevelsFit'
  OBVIOUS
<1>1. ASSUME NEW c \in Calls, PutRun(c) PROVE LevelsFit'
  BY <1>1, PutRunShows
<1>2. ASSUME NEW c \in Calls, PutRefused(c) PROVE LevelsFit'
  BY <1>2, CallType, ResizedShows DEF PutRefused, LevelsFit
<1>3. CASE UNCHANGED levels
  BY <1>3 DEF LevelsFit
<1> QED
  BY <1>1, <1>2, <1>3 DEF Next, Put, PutNothing, vars

\* So they always are.
THEOREM LevelsAlwaysFit == Spec => []LevelsFit
<1>1. Init => LevelsFit
  BY MemoryStoreAssumption DEF Init, LevelsFit, VectorsFit
<1> QED
  BY <1>1, LevelsFitStep, PTL DEF Spec

-----------------------------------------------------------------------------
(* The trait. *)

\* A run is past the prefix exactly if it starts above the height of its level,
\* and exactly if the trait refuses it.
LEMMA PastIsGap ==
  ASSUME LevelsFit, NEW c \in Calls
  PROVE  PastPrefix(Resized(c.level)[c.level + 1], c.start)
           <=> Promise!Rejects(c.level, c.start)
<1> DEFINE l == c.level
           s == c.start
           h == Height(levels, l)
           N == [k \in 0..TopLevel |-> Seen(k)]
<1>1. l \in 0..TopLevel /\ s \in Nat /\ h \in Nat
  <2>1. l \in 0..TopLevel /\ s \in Nat
    BY CallType
  <2> QED
    BY <2>1, HeightType DEF LevelsFit
<1>2. Len(Resized(l)[l + 1]) = h
  <2>1. l < Len(Resized(l)) /\ Height(Resized(l), l) = h
    BY <1>1, ResizedShows
  <2> QED
    BY <2>1 DEF Height
<1>3. DOMAIN N[l] = 0..(h - 1)
  <2>1. Seen(l) = Row(levels, l)
    BY <1>1, RowSeen DEF Seen, Stored, Get, LevelsFit
  <2> QED
    BY <1>1, <2>1 DEF Row
<1> HIDE DEF l, s, h, N
<1>4. PastPrefix(Resized(l)[l + 1], s) <=> s > h
  BY <1>2 DEF PastPrefix
<1>5. (s > 0 /\ s - 1 \notin DOMAIN N[l]) <=> s > h
  BY <1>1, <1>3
<1>6. Promise!Rejects(l, s) <=> s > 0 /\ s - 1 \notin DOMAIN N[l]
  BY DEF Promise!Rejects, Promise!Gap, N, Seen
<1> QED
  BY <1>4, <1>5, <1>6 DEF l, s

\* An accepted run is a put of the trait.
LEMMA PutRunPuts ==
  ASSUME LevelsFit, NEW c \in Calls, PutRun(c)
  PROVE  Promise!StorePut
<1> DEFINE L == c.level
           s == c.start
           r == Len(c.run)
           e == s + r - 1
           h == Height(levels, L)
           d == Height(levels', L)
           old == Row(levels, L)
           new == Row(levels', L)
           N == [k \in 0..TopLevel |-> Seen(k)]
<1>1. /\ L \in 0..TopLevel /\ L \in Nat /\ s \in Nat /\ r \in Nat /\ r > 0
      /\ c.run \in Seq(Node) /\ TopLevel \in Nat /\ 0 \in 0..TopLevel
  BY CallType, MemoryStoreAssumption DEF PutRun
<1>2. /\ LevelsFit' /\ s <= h /\ d = IF h > s + r THEN h ELSE s + r
      /\ \A k \in 0..TopLevel : k # L =>
           Height(levels', k) = Height(levels, k) /\ Row(levels', k) = Row(levels, k)
  BY PutRunShows
<1>3. \A i \in 0..(d - 1) :
        new[i] = IF i \in s..e THEN c.run[i - s + 1] ELSE old[i]
  <2>1. \A i \in 0..(Height(levels', c.level) - 1) :
          Row(levels', c.level)[i] = IF i \in c.start..((c.start + Len(c.run)) - 1)
                                     THEN c.run[i - c.start + 1]
                                     ELSE Row(levels, c.level)[i]
    BY PutRunShows
  <2>2. \A i \in 0..(d - 1) :
          new[i] = IF i \in s..((s + r) - 1) THEN c.run[i - s + 1] ELSE old[i]
    BY <2>1
  <2>3. e = (s + r) - 1
    BY <1>1
  <2> HIDE DEF s, r, e, L, d, new, old
  <2> QED
    BY <2>2, <2>3
<1>4. h \in Nat /\ d \in Nat /\ h <= d /\ s + r <= d
  <2>1. h \in Nat
    BY <1>1, HeightType DEF LevelsFit
  <2> QED
    BY <1>1, <1>2, <2>1
<1>5. \A k \in 0..TopLevel : Seen(k) = Row(levels, k) /\ Seen(k)' = Row(levels', k)
  BY <1>2, SeenRow
<1>6. /\ DOMAIN old = 0..(h - 1) /\ DOMAIN new = 0..(d - 1)
      /\ new = [i \in 0..(d - 1) |-> new[i]]
  BY DEF Row
<1>7. /\ 0..(d - 1) = 0..(h - 1) \cup s..e
      /\ s..e \subseteq 0..(d - 1) /\ s \in 0..(d - 1) /\ e \in 0..(d - 1)
      /\ e - s + 1 = r
  <2>1. /\ s \in Nat /\ r \in Nat /\ r > 0 /\ e = s + r - 1 /\ h \in Nat /\ d \in Nat
        /\ s <= h /\ h <= d /\ s + r <= d /\ (d = h \/ d = s + r)
    BY <1>1, <1>2, <1>4
  <2> HIDE DEF s, r, e, h, d
  <2> QED
    BY <2>1
<1> DEFINE run == [k \in 1..(e - s + 1) |-> new[s + k - 1]]
<1> HIDE DEF s, r, L, h, d, old, new
<1>8. /\ Len(run) = r /\ s + Len(run) - 1 = e /\ s + Len(run) = s + r
      /\ \A i \in s..e : run[i - s + 1] = new[i]
  <2>1. run = [k \in 1..r |-> new[s + k - 1]]
    BY <1>7
  <2> HIDE DEF run
  <2>2. Len(run) = r
    BY <1>1, <2>1
  <2>3. \A i \in s..e : i - s + 1 \in 1..r /\ s + (i - s + 1) - 1 = i
    BY <1>1
  <2>4. \A i \in s..e : run[i - s + 1] = new[i]
    BY <2>1, <2>3
  <2> QED
    BY <1>1, <2>2, <2>4
<1> HIDE DEF run, e
<1>9. new = [i \in DOMAIN old \cup s..e |-> IF i \in s..e THEN run[i - s + 1] ELSE old[i]]
  <2>1. \A i \in 0..(d - 1) :
          new[i] = IF i \in s..e THEN run[i - s + 1] ELSE old[i]
    BY <1>3, <1>8
  <2> QED
    BY <1>6, <1>7, <2>1
<1>10. /\ N = [k \in 0..TopLevel |-> Row(levels, k)]
       /\ N' = [k \in 0..TopLevel |-> Row(levels', k)]
  <2>1. N' = [k \in 0..TopLevel |-> Seen(k)']
    OBVIOUS
  <2> QED
    BY <1>5, <2>1
<1> HIDE DEF N
<1>11. N[L] = old /\ N'[L] = new /\ DOMAIN N = 0..TopLevel
  BY <1>1, <1>10 DEF old, new
<1>12. N' = [N EXCEPT ![L] =
              [i \in DOMAIN N[L] \cup s..(s + Len(run) - 1) |->
                 IF i \in s..(s + Len(run) - 1) THEN run[i - s + 1] ELSE N[L][i]]]
  <2>1. \A k \in 0..TopLevel : k # L => N'[k] = N[k]
    BY <1>2, <1>10 DEF L
  <2>2. N' = [k \in 0..TopLevel |-> N'[k]]
    BY <1>10
  <2> QED
    BY <1>1, <1>8, <1>9, <1>11, <2>1, <2>2
<1>13. NumLeaves' = IF L = 0
                    THEN IF NumLeaves > s + Len(run) THEN NumLeaves ELSE s + Len(run)
                    ELSE NumLeaves
  <2>1. NumLeaves = Height(levels, 0) /\ NumLeaves' = Height(levels', 0)
    BY <1>2, LeavesCounted
  <2> QED
    BY <1>1, <1>2, <1>8, <2>1 DEF L, h, d
<1>14. ~Promise!Rejects(L, s)
  BY PastIsGap DEF PutRun, L, s
<1>15. Promise!Put(L, s, run)
  BY <1>12, <1>13 DEF Promise!Put, Promise!Counted, Promise!Larger, N, Seen
<1>16. /\ L \in DOMAIN N /\ s \in DOMAIN N'[L] /\ e \in DOMAIN N'[L]
       /\ s..e \subseteq DOMAIN N'[L]
       /\ run = [k \in 1..(e - s + 1) |-> N'[L][s + k - 1]]
  BY <1>1, <1>6, <1>7, <1>11 DEF run
<1> QED
  BY <1>14, <1>15, <1>16 DEF Promise!StorePut, N, Seen

\* A call that is refused, or asks for nothing, leaves what is seen as it is.
LEMMA RefusedShowsNothing ==
  ASSUME LevelsFit, NEW c \in Calls, PutNothing(c) \/ PutRefused(c)
  PROVE  UNCHANGED <<[l \in 0..TopLevel |-> [i \in Stored(l) |-> Get(l, i)]], NumLeaves>>
<1>1. CASE PutNothing(c)
  BY <1>1 DEF PutNothing, Stored, Get, NumLeaves
<1>2. CASE PutRefused(c)
  <2>1. /\ levels' = Resized(c.level) /\ c.level \in 0..TopLevel /\ 0 \in 0..TopLevel
    BY <1>2, CallType, MemoryStoreAssumption DEF PutRefused
  <2>2. LevelsFit'
    BY <2>1, ResizedShows DEF LevelsFit
  <2>3. \A k \in 0..TopLevel : /\ Height(levels', k) = Height(levels, k)
                               /\ Row(levels', k) = Row(levels, k)
    BY <2>1, ResizedShows
  <2>4. \A k \in 0..TopLevel : Seen(k)' = Seen(k)
    BY <2>2, <2>3, SeenRow
  <2>5. NumLeaves' = NumLeaves
    BY <2>1, <2>2, <2>3, LeavesCounted
  <2> QED
    BY <2>4, <2>5 DEF Seen
<1> QED
  BY <1>1, <1>2

\* What get and get_num_leaves report changes by whole accepted runs only.
THEOREM MemoryStoreImplements == Spec => ImplementsStore
<1>1. Init => Promise!StoreInit
  <2> SUFFICES ASSUME Init PROVE Promise!StoreInit
    OBVIOUS
  <2>1. NumLeaves = 0
    BY DEF Init, NumLeaves
  <2>2. \A l \in 0..TopLevel : Stored(l) = {}
    BY DEF Init, Stored, Get
  <2> QED
    BY <2>1, <2>2 DEF Promise!StoreInit
<1>2. LevelsFit /\ [Next]_vars =>
        [Promise!StorePut]_<<[l \in 0..TopLevel |-> [i \in Stored(l) |-> Get(l, i)]],
                             NumLeaves>>
  <2> SUFFICES ASSUME LevelsFit, [Next]_vars
               PROVE  \/ Promise!StorePut
                      \/ UNCHANGED <<[l \in 0..TopLevel |-> [i \in Stored(l) |-> Get(l, i)]],
                                     NumLeaves>>
    OBVIOUS
  <2>1. CASE UNCHANGED vars
    BY <2>1 DEF vars, Stored, Get, NumLeaves
  <2>2. CASE Next
    BY <2>2, PutRunPuts, RefusedShowsNothing DEF Next, Put
  <2> QED
    BY <2>1, <2>2
<1> QED
  BY <1>1, <1>2, LevelsAlwaysFit, PTL DEF Spec, ImplementsStore, Promise!StoreSpec

\* A run is refused exactly if it would leave a hole.
THEOREM RefusesOnlyGaps == Spec => RefusesExactlyGaps
<1>1. LevelsFit /\ [Next]_vars =>
        [ outcome' = "StoreError" <=>
            call'.run # <<>> /\ Promise!Rejects(call'.level, call'.start) ]_vars
  <2> SUFFICES ASSUME LevelsFit, NEW c \in Calls, Put(c)
               PROVE  outcome' = "StoreError" <=>
                        call'.run # <<>> /\ Promise!Rejects(call'.level, call'.start)
    BY DEF Next
  <2>1. call' = c
    BY DEF Put
  <2>2. outcome' = "StoreError" <=> c.run # <<>> /\ Promise!Rejects(c.level, c.start)
    BY PastIsGap DEF Put, PutNothing, PutRefused, PutRun
  <2> QED
    BY <2>1, <2>2
<1> QED
  BY <1>1, LevelsAlwaysFit, PTL DEF Spec, RefusesExactlyGaps

-----------------------------------------------------------------------------
(* The words that leaves are counted in. *)

\* The exponents of the powers that are used.
Exponents == 0..(W + MaxDepth)

\* Every nonempty set of naturals has a least element.
LEMMA LeastNat ==
  ASSUME NEW T, T \subseteq Nat, T # {}
  PROVE  \E m \in T : \A k \in T : m <= k
<1>1. PICK x \in T : \A y \in T : ~ (<<y, x>> \in OpToRel(<, Nat))
  BY NatLessThanWellFounded, WFMin
<1>2. \A y \in T : ~ (y < x)
  BY <1>1 DEF OpToRel
<1> QED
  BY <1>2

\* f is the table of the powers of two up to 2^n.
PowersUpto(n, f) == f = [k \in 0..n |-> IF k = 0 THEN 1 ELSE 2 * f[k - 1]]

\* A function that satisfies the recursion of Pow2 up to n, for every n.
LEMMA PowersExist == \A n \in Nat : \E f : PowersUpto(n, f)
<1> DEFINE T == {n \in Nat : ~ \E f : PowersUpto(n, f)}
<1> SUFFICES ASSUME T # {} PROVE FALSE
  OBVIOUS
<1>1. PICK m \in T : \A k \in T : m <= k
  BY LeastNat
<1>2. PowersUpto(0, [k \in 0..0 |-> 1])
  BY DEF PowersUpto
<1>3. m # 0
  BY <1>2
<1>4. PICK f : PowersUpto(m - 1, f)
  BY <1>1, <1>3
<1>5. PowersUpto(m, [k \in 0..m |-> IF k = m THEN 2 * f[m - 1] ELSE f[k]])
  BY <1>3, <1>4 DEF PowersUpto
<1> QED
  BY <1>5

\* A power of two is twice the one before.
LEMMA PowersDouble ==
  /\ Pow2[0] = 1
  /\ \A k \in Exponents : k # 0 => Pow2[k] = 2 * Pow2[k - 1]
<1>1. W + MaxDepth \in Nat
  BY WordsAssumption
<1>2. PICK f : PowersUpto(W + MaxDepth, f)
  BY <1>1, PowersExist
<1>3. Pow2 = [k \in Exponents |-> IF k = 0 THEN 1 ELSE 2 * Pow2[k - 1]]
  BY <1>2, Zenon DEF PowersUpto, Pow2, Exponents
<1>4. 0 \in Exponents
  BY <1>1 DEF Exponents
<1> QED
  BY <1>3, <1>4

\* Powers of two are positive and grow with the exponent.
LEMMA PowersGrow ==
  /\ \A k \in Exponents : Pow2[k] \in Nat /\ Pow2[k] > 0
  /\ \A j, k \in Exponents : j <= k => Pow2[j] <= Pow2[k]
<1>1. W + MaxDepth \in Nat /\ Exponents \subseteq Nat
  BY WordsAssumption DEF Exponents
<1> DEFINE Grown(k) == /\ Pow2[k] \in Nat /\ Pow2[k] > 0
                       /\ \A j \in 0..k : Pow2[j] <= Pow2[k]
           T == {k \in Exponents : ~ Grown(k)}
<1>2. T = {}
  <2> SUFFICES ASSUME T # {} PROVE FALSE
    OBVIOUS
  <2> HIDE DEF Grown
  <2>1. PICK m \in T : \A k \in T : m <= k
    BY <1>1, LeastNat
  <2>2. Grown(0)
    BY PowersDouble DEF Grown
  <2>3. m # 0 /\ m \in Exponents /\ m \in Nat
    BY <1>1, <2>1, <2>2
  <2>4. m - 1 \in Exponents /\ Grown(m - 1)
    BY <1>1, <2>1, <2>3 DEF Exponents
  <2>5. Pow2[m] = 2 * Pow2[m - 1]
    BY <2>3, PowersDouble
  <2>6. Grown(m)
    <3>1. Pow2[m] \in Nat /\ Pow2[m] > 0 /\ Pow2[m - 1] <= Pow2[m]
      BY <2>4, <2>5 DEF Grown
    <3>2. ASSUME NEW j \in 0..m, j # m PROVE Pow2[j] <= Pow2[m]
      <4>1. j \in 0..(m - 1) /\ j \in Exponents
        BY <1>1, <2>3, <3>2 DEF Exponents
      <4>2. Pow2[j] <= Pow2[m - 1] /\ Pow2[j] \in Nat /\ Pow2[m - 1] \in Nat
        <5>1. j \notin T
          BY <2>1, <2>3, <4>1
        <5> QED
          BY <2>4, <4>1, <5>1 DEF Grown
      <4> QED
        BY <3>1, <4>2
    <3> QED
      BY <3>1, <3>2 DEF Grown
  <2> QED
    BY <2>1, <2>6
<1>3. \A k \in Exponents : Grown(k)
  BY <1>2
<1> QED
  BY <1>1, <1>3

\* The arithmetic of remainders and quotients that the shifts need.
LEMMA SmallNumbers ==
  ASSUME NEW n \in Nat, NEW p \in Nat, p > 0
  PROVE  /\ n % p \in Nat /\ n % p < p /\ n % p <= n
         /\ n < p => n % p = n /\ n \div p = 0
BY Z3

\* 1 << n is the power of two of the exponent taken modulo the width, half the
\* range at most.
LEMMA ShiftedOne ==
  ASSUME NEW n \in 0..MaxDepth
  PROVE  /\ OneShl(n) = Pow2[n % W]
         /\ n % W \in Exponents /\ n % W <= W - 1
         /\ OneShl(n) <= Pow2[W - 1] /\ OneShl(n) <= Pow2[n]
         /\ n < W => n % W = n
<1>1. /\ W \in Nat /\ W > 0 /\ MaxDepth \in Nat /\ n \in Nat
      /\ n \in Exponents /\ W - 1 \in Exponents /\ W \in Exponents
  BY WordsAssumption DEF Exponents
<1>2. /\ n % W \in Nat /\ n % W <= W - 1 /\ n % W <= n /\ n % W \in Exponents
      /\ n < W => n % W = n
  BY <1>1, SmallNumbers DEF Exponents
<1>3. Pow2[W] = 2 * Pow2[W - 1]
  BY <1>1, PowersDouble
<1>4. /\ Pow2[n % W] \in Nat /\ Pow2[W] \in Nat /\ Pow2[W] > 0
      /\ Pow2[n % W] <= Pow2[W - 1] /\ Pow2[n % W] <= Pow2[n]
      /\ Pow2[W - 1] < Pow2[W]
  BY <1>1, <1>2, <1>3, PowersGrow
<1>5. OneShl(n) = Pow2[n % W]
  <2>1. Pow2[n % W] < Pow2[W]
    BY <1>1, <1>4, PowersGrow
  <2> QED
    BY <1>4, <2>1, SmallNumbers DEF OneShl, Word
<1> QED
  BY <1>1, <1>2, <1>4, <1>5

\* The count is within the capacity the code computes.
Counted ==
  /\ depth \in 1..MaxDepth
  /\ numLeaves \in Nat
  /\ numLeaves <= OneShl(depth)

\* A call adds to the count without a wrap, and within the capacity.
LEMMA CountedStep ==
  ASSUME Counted, NEW len \in 1..MaxLen, Add(len)
  PROVE  /\ Counted'
         /\ ended' = "Ok" => numLeaves < numLeaves' /\ numLeaves' <= Pow2[depth]
         /\ depth < W => ended' # "Panic"
<1>1. /\ W \in Nat /\ W > 0 /\ MaxDepth \in Nat /\ MaxLen \in Nat /\ len \in Nat
      /\ len > 0 /\ len <= MaxLen /\ MaxLen < Pow2[W - 1]
      /\ depth \in 0..MaxDepth /\ depth \in Exponents
      /\ W - 1 \in Exponents /\ W \in Exponents
  BY WordsAssumption DEF Counted, Exponents
<1>2. /\ OneShl(depth) <= Pow2[W - 1] /\ OneShl(depth) <= Pow2[depth]
      /\ OneShl(depth) \in Nat
  BY <1>1, ShiftedOne, PowersGrow
<1>3. Pow2[W] = 2 * Pow2[W - 1] /\ Pow2[W - 1] \in Nat /\ Pow2[W] \in Nat
  BY <1>1, PowersDouble, PowersGrow
<1>4. Pow2[depth] \in Nat
  BY <1>1, PowersGrow
<1>5. numLeaves + len \in Nat /\ numLeaves + len < Pow2[W]
  BY <1>1, <1>2, <1>3 DEF Counted
<1>6. Word(numLeaves + len) = numLeaves + len
  BY <1>3, <1>5, SmallNumbers DEF Word
<1>7. depth' = depth /\ OneShl(depth)' = OneShl(depth)
  BY DEF Add, OneShl, Word
<1>8. CASE debug /\ Overflows(len)
  <2>1. ended' = "Panic" /\ numLeaves' = numLeaves
    BY <1>8 DEF Add
  <2>2. ~(depth < W)
    BY <1>1, <1>5, <1>3, <1>8 DEF Overflows
  <2> QED
    BY <1>7, <2>1, <2>2 DEF Counted
<1>9. CASE ~(debug /\ Overflows(len)) /\ Fits(len)
  <2>1. ended' = "Ok" /\ numLeaves' = numLeaves + len
    BY <1>6, <1>9 DEF Add
  <2>2. numLeaves + len <= OneShl(depth)
    BY <1>6, <1>9 DEF Fits
  <2> QED
    BY <1>1, <1>2, <1>4, <1>5, <1>7, <2>1, <2>2 DEF Counted
<1>10. CASE ~(debug /\ Overflows(len)) /\ ~Fits(len)
  <2>1. ended' = "TreeFull" /\ numLeaves' = numLeaves
    BY <1>10 DEF Add
  <2> QED
    BY <1>7, <2>1 DEF Counted
<1> QED
  BY <1>8, <1>9, <1>10

\* So the count stays within the capacity, in a tree of any depth.
LEMMA CountedInvariant == ValuesSpec => []Counted
<1>1. WordsInit => Counted
  <2> SUFFICES ASSUME WordsInit PROVE Counted
    OBVIOUS
  <2>1. depth \in 0..MaxDepth /\ depth \in 1..MaxDepth /\ numLeaves = 0
    BY WordsAssumption DEF WordsInit
  <2>2. OneShl(depth) \in Nat
    BY <2>1, ShiftedOne, PowersGrow
  <2> QED
    BY <2>1, <2>2 DEF Counted
<1>2. Counted /\ [WordsNext]_wordVars => Counted'
  <2>1. Counted /\ WordsNext => Counted'
    BY CountedStep DEF WordsNext
  <2>2. Counted /\ UNCHANGED wordVars => Counted'
    BY DEF Counted, wordVars, OneShl, Word
  <2> QED
    BY <2>1, <2>2
<1>3. [Numbers \/ Texts]_valueVars => [WordsNext]_wordVars
  BY DEF Numbers, Texts, valueVars, wordVars
<1>4. ValuesInit => WordsInit
  BY DEF ValuesInit
<1> QED
  BY <1>1, <1>2, <1>3, <1>4, PTL DEF ValuesSpec

\* No sum of the count and the length of a batch ever wraps around, and below
\* the width of a word no call panics.
THEOREM CountsNeverWrap == ValuesSpec => CountNeverWraps
<1>1. Counted /\ [WordsNext]_wordVars =>
        [ /\ ended' = "Ok" => numLeaves < numLeaves' /\ numLeaves' <= Pow2[depth]
          /\ depth < W => ended' # "Panic" ]_wordVars
  BY CountedStep DEF WordsNext
<1>2. [Numbers \/ Texts]_valueVars => [WordsNext]_wordVars
  BY DEF Numbers, Texts, valueVars, wordVars
<1> QED
  BY <1>1, <1>2, CountedInvariant, PTL DEF ValuesSpec, CountNeverWraps

\* Shifts that wrap still find the left partners, for the count is below every
\* power of two they are confused with; those of verify_proof find the bits of
\* the index in trees of at most W levels.
THEOREM ShiftsAlwaysFindTheirBit == ValuesSpec => []ShiftsFindTheirBit
<1>1. Counted => ShiftsFindTheirBit
  <2> SUFFICES ASSUME Counted PROVE PartnersRight /\ (depth <= W => ClimbFollowsIndex)
    BY DEF ShiftsFindTheirBit
  <2>1. /\ W \in Nat /\ W > 0 /\ MaxDepth \in Nat /\ numLeaves \in Nat
        /\ depth \in 0..MaxDepth /\ depth \in Nat
        /\ W - 1 \in Exponents /\ W \in Exponents
    BY WordsAssumption DEF Counted, Exponents
  <2>2. numLeaves < Pow2[W] /\ Pow2[W] \in Nat
    <3>1. OneShl(depth) <= Pow2[W - 1]
      BY <2>1, ShiftedOne
    <3>2. Pow2[W] = 2 * Pow2[W - 1] /\ Pow2[W - 1] \in Nat
          /\ Pow2[W - 1] > 0 /\ OneShl(depth) \in Nat
      BY <2>1, PowersDouble, PowersGrow, ShiftedOne
    <3> QED
      BY <3>1, <3>2 DEF Counted
  <2>3. ASSUME NEW l \in 0..(depth - 1)
        PROVE  l \in 0..MaxDepth /\ l \in Nat /\ l \in Exponents
    BY <2>1 DEF Exponents
  <2>4. ASSUME NEW l \in 0..(depth - 1), Start(l) % 2 = 1
        PROVE  l \in Fetched /\ FetchedFrom(l) = Start(l) - 1
    <3>1. l < W
      <4> SUFFICES ASSUME W <= l PROVE FALSE
        BY <2>1, <2>3
      <4>1. Pow2[W] <= Pow2[l] /\ Pow2[l] \in Nat /\ Pow2[l] > 0
        BY <2>1, <2>3, PowersGrow
      <4>2. numLeaves \div Pow2[l] = 0
        BY <2>1, <2>2, <4>1, SmallNumbers
      <4> QED
        BY <2>4, <4>2 DEF Start
    <3>2. WordShr(numLeaves, l) = Start(l)
      BY <2>3, <3>1, ShiftedOne DEF WordShr, Start
    <3> QED
      BY <2>4, <3>2 DEF Fetched, FetchedFrom
  <2>5. ASSUME depth <= W, NEW i, NEW j \in 0..(depth - 1)
        PROVE  GoesLeft(i, j) <=> (i \div Pow2[j]) % 2 = 0
    <3>1. j < W
      BY <2>1, <2>3, <2>5
    <3>2. OneShl(j) = Pow2[j]
      BY <2>3, <3>1, ShiftedOne
    <3> QED
      BY <3>2 DEF GoesLeft
  <2> QED
    BY <2>4, <2>5 DEF PartnersRight, ClimbFollowsIndex
<1> QED
  BY <1>1, CountedInvariant, PTL

-----------------------------------------------------------------------------
(* The bytes of a node as text. *)

\* The bytes that have two of the digits.
ByteValues == {0, 15, 240, 255}

\* The part of a string from one place to another.
LEMMA Part ==
  ASSUME NEW S, NEW s \in Seq(S), NEW m \in Int, NEW n \in Int, NEW l \in Int,
         1 <= m, m <= n, n <= Len(s), l = n - m + 1
  PROVE  /\ SubSeq(s, m, n) \in Seq(S)
         /\ Len(SubSeq(s, m, n)) = l
         /\ \A i \in 1..l : SubSeq(s, m, n)[i] = s[m + i - 1]
<1>1. \A i \in m..n : s[i] \in S
  OBVIOUS
<1> QED
  BY <1>1, SubSeqProperties

\* Two places of a string that follow each other.
LEMMA PartOfTwo ==
  ASSUME NEW S, NEW s \in Seq(S), NEW m \in Int, NEW n \in Int,
         1 <= m, n = m + 1, n <= Len(s)
  PROVE  /\ SubSeq(s, m, n) \in Seq(S) /\ Len(SubSeq(s, m, n)) = 2
         /\ SubSeq(s, m, n)[1] = s[m] /\ SubSeq(s, m, n)[2] = s[n]
<1>1. /\ SubSeq(s, m, n) \in Seq(S) /\ Len(SubSeq(s, m, n)) = 2
      /\ \A i \in 1..2 : SubSeq(s, m, n)[i] = s[m + i - 1]
  <2>1. m <= n /\ 2 \in Int /\ 2 = n - m + 1
    OBVIOUS
  <2> QED
    BY <2>1, Part
<1>2. 1 \in 1..2 /\ 2 \in 1..2 /\ m + 1 - 1 = m /\ m + 2 - 1 = n
  OBVIOUS
<1> QED
  BY <1>1, <1>2, Zenon

\* One place.
LEMMA PartOfOne ==
  ASSUME NEW S, NEW s \in Seq(S), NEW m \in Int, 1 <= m, m <= Len(s)
  PROVE  /\ SubSeq(s, m, m) \in Seq(S) /\ Len(SubSeq(s, m, m)) = 1
         /\ SubSeq(s, m, m)[1] = s[m]
<1>1. /\ SubSeq(s, m, m) \in Seq(S) /\ Len(SubSeq(s, m, m)) = 1
      /\ \A i \in 1..1 : SubSeq(s, m, m)[i] = s[m + i - 1]
  <2>1. m <= m /\ 1 \in Int /\ 1 = m - m + 1
    OBVIOUS
  <2> QED
    BY <2>1, Part
<1>2. 1 \in 1..1 /\ m + 1 - 1 = m
  OBVIOUS
<1> QED
  BY <1>1, <1>2, Zenon

\* What is left of two places without the first.
LEMMA TailOfTwo ==
  ASSUME NEW S, NEW s \in Seq(S), Len(s) = 2
  PROVE  Tail(s) \in Seq(S) /\ Len(Tail(s)) = 1 /\ Tail(s)[1] = s[2]
<1>1. s # <<>>
  OBVIOUS
<1>2. /\ Tail(s) \in Seq(S) /\ Len(Tail(s)) = Len(s) - 1
      /\ \A i \in 1..Len(Tail(s)) : Tail(s)[i] = s[i + 1]
  BY <1>1, HeadTailProperties, Zenon
<1>3. 2 - 1 = 1 /\ 1 + 1 = 2 /\ 1 \in 1..1
  OBVIOUS
<1> QED
  BY <1>2, <1>3, Zenon

\* The characters are counted as sets are.
LEMMA SameCount == ASSUME NEW S PROVE Text!Cardinality(S) = Cardinality(S)
BY DEF Text!Cardinality, Cardinality

\* No character of a kind.
LEMMA CountNone == Cardinality({}) = 0
BY FS_EmptySet

\* A single character is read if it is a digit.
LEMMA ReadOne ==
  ASSUME NEW s, s \in Seq(Text!Char), Len(s) = 1, Text!FromRadix(s) # Text!Invalid
  PROVE  s[1] \in Text!HexDigits
BY DEF Text!FromRadix

\* A pair is read if it is two digits, or a sign and one.
LEMMA ReadTwo ==
  ASSUME NEW s, s \in Seq(Text!Char), Len(s) = 2
  PROVE  /\ s[1] \in Text!HexDigits /\ s[2] \in Text!HexDigits =>
              Text!FromRadix(s) = 16 * Text!Value(s[1]) + Text!Value(s[2])
         /\ s[1] = "+" /\ s[2] \in Text!HexDigits =>
              Text!FromRadix(s) = Text!Value(s[2])
         /\ Text!FromRadix(s) # Text!Invalid =>
              s[1] \in Text!HexDigits \cup {"+"} /\ s[2] \in Text!HexDigits
<1>1. DOMAIN s = {1, 2}
  <2>1. DOMAIN s = 1..2
    OBVIOUS
  <2>2. 1..2 = {1, 2}
    OBVIOUS
  <2> QED
    BY <2>1, <2>2
<1>2. CASE s[1] = "+"
  <2>1. Tail(s) \in Seq(Text!Char) /\ Len(Tail(s)) = 1 /\ Tail(s)[1] = s[2]
    BY TailOfTwo
  <2>2. Text!FromRadix(s) =
          IF s[2] \notin Text!HexDigits THEN Text!Invalid ELSE Text!Value(s[2])
    <3>1. Text!FromRadix(s) =
            IF \E k \in DOMAIN Tail(s) : Tail(s)[k] \notin Text!HexDigits THEN Text!Invalid
            ELSE Text!Number(Tail(s))
      BY <1>2 DEF Text!FromRadix
    <3> DEFINE t == Tail(s)
    <3>2. t \in Seq(Text!Char) /\ Len(t) = 1 /\ t[1] = s[2]
      BY <2>1
    <3>3. Text!FromRadix(s) =
            IF \E k \in DOMAIN t : t[k] \notin Text!HexDigits THEN Text!Invalid
            ELSE Text!Number(t)
      BY <3>1
    <3> HIDE DEF t
    <3>4. DOMAIN t = {1}
      BY <3>2
    <3> QED
      BY <3>2, <3>3, <3>4 DEF Text!Number
  <2> QED
    BY <1>2, <2>2 DEF Text!HexDigits
<1>3. CASE s[1] # "+"
  <2>1. Text!FromRadix(s) =
          IF s[1] \notin Text!HexDigits \/ s[2] \notin Text!HexDigits THEN Text!Invalid
          ELSE 16 * Text!Value(s[1]) + Text!Value(s[2])
    BY <1>1, <1>3 DEF Text!FromRadix, Text!Number
  <2> QED
    BY <1>3, <2>1
<1> QED
  BY <1>2, <1>3

\* The prefix is stripped from a string of characters.
LEMMA HexType ==
  ASSUME NEW s \in Seq(Text!Char)
  PROVE  /\ Text!Hex(s) \in Seq(Text!Char)
         /\ \A k \in 1..Len(Text!Hex(s)) : \E j \in 1..Len(s) : Text!Hex(s)[k] = s[j]
<1>1. CASE Text!Prefixed(s)
  <2>1. Text!Hex(s) = SubSeq(s, 3, Len(s)) /\ Len(s) >= 2
    BY <1>1 DEF Text!Hex, Text!Prefixed
  <2>2. /\ SubSeq(s, 3, Len(s)) \in Seq(Text!Char)
        /\ Len(SubSeq(s, 3, Len(s))) = Len(s) - 2
        /\ \A k \in 1..(Len(s) - 2) : SubSeq(s, 3, Len(s))[k] = s[k + 2]
    <3>1. CASE Len(s) = 2
      <4> DEFINE rest == SubSeq(s, 3, Len(s))
      <4>1. rest = <<>>
        BY <3>1, SubSeqEmpty
      <4>2. Len(s) - 2 = 0 /\ \A k \in 1..(Len(s) - 2) : FALSE
        BY <3>1
      <4> HIDE DEF rest
      <4>3. rest \in Seq(Text!Char) /\ Len(rest) = 0
        BY <4>1
      <4> QED
        BY <4>2, <4>3, Zenon DEF rest
    <3>2. CASE Len(s) > 2
      <4>1. /\ SubSeq(s, 3, Len(s)) \in Seq(Text!Char)
            /\ Len(SubSeq(s, 3, Len(s))) = Len(s) - 2
            /\ \A k \in 1..(Len(s) - 2) : SubSeq(s, 3, Len(s))[k] = s[3 + k - 1]
        <5>1. /\ 3 \in Int /\ Len(s) \in Int /\ Len(s) - 2 \in Int /\ 3 <= Len(s)
              /\ Len(s) - 2 = Len(s) - 3 + 1
          BY <3>2
        <5> QED
          BY <5>1, Part
      <4>2. \A k \in 1..(Len(s) - 2) : 3 + k - 1 = k + 2
        OBVIOUS
      <4> QED
        BY <4>1, <4>2
    <3>3. Len(s) = 2 \/ Len(s) > 2
      <4>1. Len(s) >= 2 /\ Len(s) \in Nat
        BY <1>1 DEF Text!Prefixed
      <4>2. \A n \in Nat : n >= 2 => n = 2 \/ n > 2
        OBVIOUS
      <4> QED
        BY <4>1, <4>2, Zenon
    <3> QED
      BY <3>1, <3>2, <3>3, Zenon
  <2>3. \A k \in 1..(Len(s) - 2) : k + 2 \in 1..Len(s)
    BY <2>1
  <2> QED
    BY <2>1, <2>2, <2>3
<1>2. CASE ~Text!Prefixed(s)
  BY <1>2 DEF Text!Hex
<1> QED
  BY <1>1, <1>2

\* A string that is read has a digit, or a sign before one, at every place, so
\* as many characters as bytes, and is read pair by pair.
LEMMA ReadPairs ==
  ASSUME NEW h \in Seq(Text!Char), Text!HexLen(h) = 2 * LEN,
         Text!Invalid \notin Text!Range(Text!Bytes(h))
  PROVE  /\ Len(h) = 2 * LEN
         /\ \A i \in 1..LEN :
              /\ 2 * i - 1 \in 1..Len(h) /\ 2 * i \in 1..Len(h)
              /\ h[2 * i - 1] \in Text!HexDigits \cup {"+"}
              /\ h[2 * i] \in Text!HexDigits
              /\ Text!Bytes(h)[i] =
                   IF h[2 * i - 1] = "+" THEN Text!Value(h[2 * i])
                   ELSE 16 * Text!Value(h[2 * i - 1]) + Text!Value(h[2 * i])
<1> DEFINE wide == {k \in DOMAIN h : h[k] = Wide}
<1>1. LEN \in Nat /\ Len(h) \in Nat /\ DOMAIN h = 1..Len(h)
  BY TextAssumption
<1>2. Cardinality(wide) \in Nat
  <2>1. IsFiniteSet(1..Len(h))
    BY <1>1, FS_Interval
  <2>2. IsFiniteSet(wide)
    BY <1>1, <2>1, FS_Subset
  <2> QED
    BY <2>2, FS_CardinalityType
<1>3. Len(h) + Cardinality(wide) = 2 * LEN
  BY SameCount DEF Text!HexLen, Text!Utf8Len
<1> HIDE DEF wide
<1>4. Len(h) <= 2 * LEN
  BY <1>1, <1>2, <1>3
<1>5. ASSUME NEW i \in 1..LEN, i <= Text!NumChunks(h)
      PROVE  /\ Text!Bytes(h)[i] = Text!FromRadix(Text!Chunk(h, i))
             /\ Text!FromRadix(Text!Chunk(h, i)) # Text!Invalid
             /\ 2 * i <= Len(h) =>
                  /\ Text!Chunk(h, i) \in Seq(Text!Char)
                  /\ Len(Text!Chunk(h, i)) = 2
                  /\ Text!Chunk(h, i)[1] = h[2 * i - 1]
                  /\ Text!Chunk(h, i)[2] = h[2 * i]
             /\ 2 * i > Len(h) =>
                  /\ Text!Chunk(h, i) \in Seq(Text!Char)
                  /\ Len(Text!Chunk(h, i)) = 1
                  /\ 2 * i - 1 = Len(h)
                  /\ Text!Chunk(h, i)[1] = h[2 * i - 1]
  <2>1. Text!Bytes(h)[i] = Text!FromRadix(Text!Chunk(h, i))
    BY <1>5 DEF Text!Bytes, Text!ByteOf
  <2>2. Text!Bytes(h)[i] # Text!Invalid
    BY <1>5 DEF Text!Range, Text!Bytes
  <2>3. i \in Nat /\ i >= 1 /\ 2 * i - 1 <= Len(h)
    BY <1>1, <1>5 DEF Text!NumChunks
  <2>4. CASE 2 * i <= Len(h)
    <3>1. Text!Chunk(h, i) = SubSeq(h, 2 * i - 1, 2 * i)
      <4>1. ~(2 * i > Len(h))
        BY <1>1, <2>3, <2>4
      <4> QED
        BY <4>1 DEF Text!Chunk
    <3>2. /\ SubSeq(h, 2 * i - 1, 2 * i) \in Seq(Text!Char)
          /\ Len(SubSeq(h, 2 * i - 1, 2 * i)) = 2
          /\ SubSeq(h, 2 * i - 1, 2 * i)[1] = h[2 * i - 1]
          /\ SubSeq(h, 2 * i - 1, 2 * i)[2] = h[2 * i]
      <4> DEFINE m == 2 * i - 1
                 n == 2 * i
      <4>1. m \in Int /\ n \in Int /\ 1 <= m /\ n = m + 1 /\ n <= Len(h)
        BY <2>3, <2>4
      <4> HIDE DEF m, n
      <4>2. /\ SubSeq(h, m, n) \in Seq(Text!Char) /\ Len(SubSeq(h, m, n)) = 2
            /\ SubSeq(h, m, n)[1] = h[m] /\ SubSeq(h, m, n)[2] = h[n]
        BY <4>1, PartOfTwo
      <4> QED
        BY <4>2, Zenon DEF m, n
    <3> QED
      <4>1. ~(2 * i > Len(h))
        BY <1>1, <2>3, <2>4
      <4> QED
        BY <2>1, <2>2, <3>1, <3>2, <4>1, Zenon
  <2>5. CASE 2 * i > Len(h)
    <3>1. 2 * i - 1 = Len(h)
      BY <1>1, <2>3, <2>5
    <3>2. Text!Chunk(h, i) = SubSeq(h, 2 * i - 1, 2 * i - 1)
      BY <2>5, <3>1 DEF Text!Chunk
    <3>3. /\ SubSeq(h, 2 * i - 1, 2 * i - 1) \in Seq(Text!Char)
          /\ Len(SubSeq(h, 2 * i - 1, 2 * i - 1)) = 1
          /\ SubSeq(h, 2 * i - 1, 2 * i - 1)[1] = h[2 * i - 1]
      <4> DEFINE m == 2 * i - 1
      <4>1. m \in Int /\ 1 <= m /\ m <= Len(h)
        BY <1>1, <2>3, <3>1
      <4> HIDE DEF m
      <4>2. /\ SubSeq(h, m, m) \in Seq(Text!Char) /\ Len(SubSeq(h, m, m)) = 1
            /\ SubSeq(h, m, m)[1] = h[m]
        BY <4>1, PartOfOne
      <4> QED
        BY <4>2, Zenon DEF m
    <3> QED
      BY <2>1, <2>2, <2>3, <2>5, <3>1, <3>2, <3>3
  <2> QED
    BY <1>1, <2>3, <2>4, <2>5
<1>6. ASSUME NEW k \in 1..Len(h) PROVE h[k] # Wide
  <2> DEFINE i == (k + 1) \div 2
  <2>1. i \in 1..LEN /\ i <= Text!NumChunks(h) /\ (k = 2 * i - 1 \/ k = 2 * i)
    BY <1>1, <1>4 DEF Text!NumChunks
  <2> HIDE DEF i
  <2>2. CASE 2 * i <= Len(h)
    <3>1. /\ h[2 * i - 1] \in Text!HexDigits \cup {"+"}
          /\ h[2 * i] \in Text!HexDigits
      BY <1>5, <2>1, <2>2, ReadTwo
    <3> QED
      BY <2>1, <3>1, TextAssumption DEF Text!HexDigits
  <2>3. CASE 2 * i > Len(h)
    <3>1. h[2 * i - 1] \in Text!HexDigits /\ 2 * i - 1 = Len(h)
      BY <1>5, <2>1, <2>3, ReadOne
    <3>2. k = 2 * i - 1
      BY <1>1, <2>1, <2>3
    <3> QED
      BY <3>1, <3>2, TextAssumption DEF Text!HexDigits
  <2> QED
    BY <1>1, <2>1, <2>2, <2>3
<1>7. Len(h) = 2 * LEN
  <2>1. wide = {}
    BY <1>1, <1>6 DEF wide
  <2>2. Cardinality(wide) = 0
    BY <2>1, CountNone, Zenon
  <2>3. Len(h) + 0 = 2 * LEN
    BY <1>3, <2>2, Zenon
  <2>4. \A n, m \in Nat : n + 0 = 2 * m => n = 2 * m
    OBVIOUS
  <2> QED
    BY <1>1, <2>3, <2>4, Zenon
<1>8. ASSUME NEW i \in 1..LEN
      PROVE  /\ 2 * i - 1 \in 1..Len(h) /\ 2 * i \in 1..Len(h)
             /\ i <= Text!NumChunks(h) /\ 2 * i <= Len(h)
  BY <1>1, <1>7 DEF Text!NumChunks
<1>9. ASSUME NEW i \in 1..LEN
      PROVE  /\ h[2 * i - 1] \in Text!HexDigits \cup {"+"}
             /\ h[2 * i] \in Text!HexDigits
             /\ Text!Bytes(h)[i] =
                  IF h[2 * i - 1] = "+" THEN Text!Value(h[2 * i])
                  ELSE 16 * Text!Value(h[2 * i - 1]) + Text!Value(h[2 * i])
  BY <1>5, <1>8, ReadTwo
<1> QED
  BY <1>7, <1>8, <1>9

\* A byte is written as two digits that are read as the byte.
LEMMA WriteTwo ==
  ASSUME NEW b \in ByteValues
  PROVE  /\ Text!TwoDigits(b) \in Seq(Text!Char) /\ Len(Text!TwoDigits(b)) = 2
         /\ Text!TwoDigits(b)[1] \in {"0", "f"} /\ Text!TwoDigits(b)[2] \in {"0", "f"}
         /\ Text!FromRadix(Text!TwoDigits(b)) = b
<1>1. /\ Text!TwoDigits(b) \in Seq(Text!Char) /\ Len(Text!TwoDigits(b)) = 2
      /\ Text!TwoDigits(b)[1] = (IF b < 16 THEN "0" ELSE "f")
      /\ Text!TwoDigits(b)[2] = (IF b % 16 = 0 THEN "0" ELSE "f")
  BY DEF Text!TwoDigits, Text!Char, Text!HexDigits
<1>2. /\ Text!TwoDigits(b)[1] \in Text!HexDigits /\ Text!TwoDigits(b)[2] \in Text!HexDigits
  BY <1>1 DEF Text!HexDigits
<1>3. Text!FromRadix(Text!TwoDigits(b)) =
        16 * Text!Value(Text!TwoDigits(b)[1]) + Text!Value(Text!TwoDigits(b)[2])
  BY <1>1, <1>2, ReadTwo
<1>4. b = 16 * Text!Value(Text!TwoDigits(b)[1]) + Text!Value(Text!TwoDigits(b)[2])
  BY <1>1 DEF ByteValues, Text!Value
<1> QED
  BY <1>1, <1>3, <1>4

\* A node that is written is read as the node it was.
LEMMA WriteRead ==
  ASSUME NEW node, node \in [1..LEN -> ByteValues], LEN > 0
  PROVE  /\ Text!TryFrom(Text!Display(node)) = node
         /\ Text!Display(node) = <<"0", "x">> \o Text!Digits(node)
         /\ \A i \in 1..LEN :
              /\ Text!Digits(node)[2 * i - 1] = Text!TwoDigits(node[i])[1]
              /\ Text!Digits(node)[2 * i] = Text!TwoDigits(node[i])[2]
<1> DEFINE d == Text!Digits(node)
<1>1. LEN \in Nat /\ Len(node) = LEN
  BY TextAssumption
<1>2. d = [k \in 1..(2 * LEN) |-> Text!TwoDigits(node[(k + 1) \div 2])[2 - (k % 2)]]
  BY <1>1 DEF Text!Digits
<1>3. ASSUME NEW k \in 1..(2 * LEN) PROVE d[k] \in {"0", "f"}
  <2>1. (k + 1) \div 2 \in 1..LEN /\ (2 - (k % 2) = 1 \/ 2 - (k % 2) = 2)
    BY <1>1
  <2>2. node[(k + 1) \div 2] \in ByteValues
    BY <2>1
  <2>3. d[k] = Text!TwoDigits(node[(k + 1) \div 2])[2 - (k % 2)]
    BY <1>2
  <2> QED
    BY <2>1, <2>2, <2>3, WriteTwo
<1>4. ASSUME NEW i \in 1..LEN
      PROVE  /\ d[2 * i - 1] = Text!TwoDigits(node[i])[1]
             /\ d[2 * i] = Text!TwoDigits(node[i])[2]
  <2>1. /\ 2 * i - 1 \in 1..(2 * LEN) /\ 2 * i \in 1..(2 * LEN)
        /\ (2 * i - 1 + 1) \div 2 = i /\ (2 * i + 1) \div 2 = i
        /\ 2 - ((2 * i - 1) % 2) = 1 /\ 2 - ((2 * i) % 2) = 2
    BY <1>1
  <2> QED
    BY <1>2, <2>1
<1> HIDE DEF d
<1>5. d \in Seq(Text!Char) /\ Len(d) = 2 * LEN /\ DOMAIN d = 1..(2 * LEN)
  <2>1. d \in [1..(2 * LEN) -> Text!Char]
    BY <1>2, <1>3 DEF Text!Char, Text!HexDigits
  <2> QED
    BY <1>1, <2>1
<1>6. Text!Display(node) = <<"0", "x">> \o d
  BY DEF Text!Display, d
<1>7. Text!Hex(Text!Display(node)) = d
  <2>1. /\ Len(<<"0", "x">> \o d) = 2 + 2 * LEN
        /\ (<<"0", "x">> \o d)[1] = "0" /\ (<<"0", "x">> \o d)[2] = "x"
    BY <1>1, <1>5
  <2>2. SubSeq(<<"0", "x">> \o d, 3, 2 + 2 * LEN) = d
    <3>1. <<"0", "x">> \in Seq(Text!Char)
      BY DEF Text!Char, Text!HexDigits
    <3>2. /\ <<"0", "x">> \o d \in Seq(Text!Char)
          /\ \A k \in 1..(2 * LEN) : (<<"0", "x">> \o d)[3 + k - 1] = d[k]
      BY <1>1, <1>5, <3>1, ConcatProperties
    <3>3. /\ SubSeq(<<"0", "x">> \o d, 3, 2 + 2 * LEN) \in Seq(Text!Char)
          /\ Len(SubSeq(<<"0", "x">> \o d, 3, 2 + 2 * LEN)) = 2 * LEN
          /\ \A k \in 1..(2 * LEN) :
               SubSeq(<<"0", "x">> \o d, 3, 2 + 2 * LEN)[k] = (<<"0", "x">> \o d)[3 + k - 1]
      <4> DEFINE w == <<"0", "x">> \o d
                 m == 3
                 n == 2 + 2 * LEN
                 l == 2 * LEN
      <4>1. /\ m \in Int /\ n \in Int /\ l \in Int
            /\ 1 <= m /\ m <= n /\ l = n - m + 1
        BY <1>1
      <4>2. w \in Seq(Text!Char) /\ n <= Len(w)
        BY <1>1, <2>1, <3>2
      <4> HIDE DEF w, m, n, l
      <4>3. /\ SubSeq(w, m, n) \in Seq(Text!Char)
            /\ Len(SubSeq(w, m, n)) = l
            /\ \A k \in 1..l : SubSeq(w, m, n)[k] = w[m + k - 1]
        BY <4>1, <4>2, Part
      <4> QED
        BY <4>3 DEF w, m, n, l
    <3> QED
      BY <1>5, <3>2, <3>3, SeqEqual
  <2> QED
    BY <1>1, <1>6, <2>1, <2>2 DEF Text!Hex, Text!Prefixed
<1>8. Text!HexLen(d) = 2 * LEN
  <2>1. {k \in DOMAIN d : d[k] = Wide} = {}
    BY <1>3, <1>5, TextAssumption
  <2>2. Text!HexLen(d) = Len(d) + Cardinality({})
    BY <2>1, SameCount, Zenon DEF Text!HexLen, Text!Utf8Len
  <2>3. Text!HexLen(d) = Len(d) + 0
    BY <2>2, CountNone, Zenon
  <2> QED
    BY <1>1, <1>5, <2>3
<1>9. ASSUME NEW i \in 1..LEN PROVE Text!Bytes(d)[i] = node[i]
  <2>1. i <= Text!NumChunks(d) /\ 2 * i <= Len(d) /\ 2 * i - 1 \in 1..Len(d)
    BY <1>1, <1>5 DEF Text!NumChunks
  <2>2. Text!Chunk(d, i) = SubSeq(d, 2 * i - 1, 2 * i)
    BY <1>1, <1>5, <2>1 DEF Text!Chunk
  <2>3. SubSeq(d, 2 * i - 1, 2 * i) = Text!TwoDigits(node[i])
    <3>1. /\ SubSeq(d, 2 * i - 1, 2 * i) \in Seq(Text!Char)
          /\ Len(SubSeq(d, 2 * i - 1, 2 * i)) = 2
          /\ SubSeq(d, 2 * i - 1, 2 * i)[1] = d[2 * i - 1]
          /\ SubSeq(d, 2 * i - 1, 2 * i)[2] = d[2 * i]
      <4> DEFINE m == 2 * i - 1
                 n == 2 * i
      <4>1. m \in Int /\ n \in Int /\ 1 <= m /\ n = m + 1
        BY <1>1
      <4>2. d \in Seq(Text!Char) /\ n <= Len(d)
        BY <1>5, <2>1
      <4> HIDE DEF m, n
      <4>3. /\ SubSeq(d, m, n) \in Seq(Text!Char) /\ Len(SubSeq(d, m, n)) = 2
            /\ SubSeq(d, m, n)[1] = d[m] /\ SubSeq(d, m, n)[2] = d[n]
        BY <4>1, <4>2, PartOfTwo
      <4> QED
        BY <4>3, Zenon DEF m, n
    <3>2. node[i] \in ByteValues
      OBVIOUS
    <3>3. /\ Text!TwoDigits(node[i]) \in Seq(Text!Char)
          /\ Len(Text!TwoDigits(node[i])) = 2
      BY <3>2, WriteTwo
    <3> DEFINE p == SubSeq(d, 2 * i - 1, 2 * i)
               q == Text!TwoDigits(node[i])
    <3>4. /\ p \in Seq(Text!Char) /\ Len(p) = 2 /\ q \in Seq(Text!Char) /\ Len(q) = 2
          /\ p[1] = q[1] /\ p[2] = q[2]
      BY <1>4, <3>1, <3>3, Zenon
    <3> HIDE DEF p, q
    <3>5. p = q
      <4>1. \A k \in 1..Len(p) : p[k] = q[k]
        BY <3>4
      <4> QED
        BY <3>4, <4>1, SeqEqual
    <3> QED
      BY <3>5 DEF p, q
  <2>4. Text!FromRadix(Text!TwoDigits(node[i])) = node[i]
    BY WriteTwo
  <2> QED
    BY <2>1, <2>2, <2>3, <2>4 DEF Text!Bytes, Text!ByteOf
<1>10. Text!Bytes(d) = node
  <2>1. Text!Bytes(d) =
          [i \in 1..LEN |->
             IF i <= Text!NumChunks(d) THEN Text!ByteOf(Text!Chunk(d, i)) ELSE 0]
    BY DEF Text!Bytes
  <2> QED
    BY <1>9, <2>1
<1>11. Text!Invalid \notin Text!Range(Text!Bytes(d))
  BY <1>10 DEF Text!Range, Text!Invalid, ByteValues
<1> QED
  BY <1>4, <1>6, <1>7, <1>8, <1>10, <1>11 DEF Text!TryFrom, d

\* The string is one of characters.
IsText == text \in Seq(Text!Char)

\* It stays one.
LEMMA TextType == ValuesSpec => []IsText
<1>1. Text!Init => IsText
  BY DEF Text!Init, IsText
<1>2. IsText /\ [Text!Next]_text => IsText'
  BY DEF Text!Next, Text!Push, Text!Char, Text!HexDigits, IsText
<1>3. [Numbers \/ Texts]_valueVars => [Text!Next]_text
  BY DEF Numbers, Texts, valueVars
<1>4. ValuesInit => Text!Init
  BY DEF ValuesInit
<1> QED
  BY <1>1, <1>2, <1>3, <1>4, PTL DEF ValuesSpec

\* Whatever string is read as a node, the node is written back as the string,
\* prefix, case and sign apart, and read again as the same node: no byte of it is
\* one that the string does not have.
THEOREM TextAlwaysRoundTrips == ValuesSpec => []RoundTrip
<1>1. IsText => RoundTrip
  <2> SUFFICES ASSUME text \in Seq(Text!Char), Text!Accepted
               PROVE  /\ Text!TryFrom(Text!Display(Text!TryFrom(text))) = Text!TryFrom(text)
                      /\ "+" \notin Text!Range(text) =>
                           Text!Display(Text!TryFrom(text)) =
                             <<"0", "x">> \o [k \in DOMAIN Text!Hex(text) |->
                                                Text!Lower(Text!Hex(text)[k])]
    BY DEF RoundTrip, Text!RoundTrip, IsText
  <2> DEFINE h == Text!Hex(text)
             node == Text!Bytes(h)
  <2>1. /\ Text!TryFrom(text) = node /\ node # <<>>
        /\ Text!HexLen(h) = 2 * LEN /\ Text!Invalid \notin Text!Range(Text!Bytes(h))
    BY DEF Text!Accepted, Text!TryFrom
  <2>2. h \in Seq(Text!Char)
    BY HexType
  <2>3. "+" \notin Text!Range(text) => \A k \in 1..Len(h) : h[k] # "+"
    BY HexType DEF Text!Range
  <2> HIDE DEF h
  <2>4. /\ Len(h) = 2 * LEN /\ LEN \in Nat
        /\ \A i \in 1..LEN :
             /\ 2 * i - 1 \in 1..Len(h) /\ 2 * i \in 1..Len(h)
             /\ h[2 * i - 1] \in Text!HexDigits \cup {"+"}
             /\ h[2 * i] \in Text!HexDigits
             /\ node[i] =
                  IF h[2 * i - 1] = "+" THEN Text!Value(h[2 * i])
                  ELSE 16 * Text!Value(h[2 * i - 1]) + Text!Value(h[2 * i])
    BY <2>1, <2>2, ReadPairs, TextAssumption
  <2>5. node \in [1..LEN -> ByteValues]
    <3>1. DOMAIN node = 1..LEN /\ node = [i \in 1..LEN |-> node[i]]
      BY DEF Text!Bytes
    <3>2. \A c \in Text!HexDigits : Text!Value(c) \in {0, 15}
      BY DEF Text!Value
    <3> HIDE DEF node
    <3>3. ASSUME NEW i \in 1..LEN PROVE node[i] \in ByteValues
      <4>1. CASE h[2 * i - 1] = "+"
        <5>1. node[i] = Text!Value(h[2 * i]) /\ h[2 * i] \in Text!HexDigits
          BY <2>4, <4>1
        <5> QED
          BY <3>2, <5>1 DEF ByteValues
      <4>2. CASE h[2 * i - 1] # "+"
        <5>1. /\ node[i] = 16 * Text!Value(h[2 * i - 1]) + Text!Value(h[2 * i])
              /\ h[2 * i - 1] \in Text!HexDigits /\ h[2 * i] \in Text!HexDigits
          BY <2>4, <4>2
        <5>2. Text!Value(h[2 * i - 1]) \in {0, 15} /\ Text!Value(h[2 * i]) \in {0, 15}
          BY <3>2, <5>1
        <5> QED
          BY <5>1, <5>2 DEF ByteValues
      <4> QED
        BY <4>1, <4>2
    <3> QED
      BY <3>1, <3>3
  <2>6. LEN > 0
    <3> SUFFICES ASSUME LEN = 0 PROVE FALSE
      BY <2>4
    <3>1. node = [i \in 1..0 |->
                    IF i <= Text!NumChunks(h) THEN Text!ByteOf(Text!Chunk(h, i)) ELSE 0]
      BY DEF Text!Bytes
    <3> QED
      BY <2>1, <3>1
  <2> HIDE DEF node
  <2>7. /\ Text!TryFrom(Text!Display(node)) = node
        /\ Text!Display(node) = <<"0", "x">> \o Text!Digits(node)
        /\ \A i \in 1..LEN :
             /\ Text!Digits(node)[2 * i - 1] = Text!TwoDigits(node[i])[1]
             /\ Text!Digits(node)[2 * i] = Text!TwoDigits(node[i])[2]
    BY <2>5, <2>6, WriteRead
  <2>8. ASSUME "+" \notin Text!Range(text)
        PROVE  Text!Digits(node) = [k \in DOMAIN h |-> Text!Lower(h[k])]
    <3>1. DOMAIN h = 1..(2 * LEN)
      BY <2>2, <2>4
    <3>2. \A c, e \in Text!HexDigits :
            Text!TwoDigits(16 * Text!Value(c) + Text!Value(e)) =
              <<Text!Lower(c), Text!Lower(e)>>
      BY DEF Text!TwoDigits, Text!Value, Text!Lower, Text!HexDigits
    <3>3. ASSUME NEW i \in 1..LEN
          PROVE  /\ Text!Digits(node)[2 * i - 1] = Text!Lower(h[2 * i - 1])
                 /\ Text!Digits(node)[2 * i] = Text!Lower(h[2 * i])
      <4>1. h[2 * i - 1] \in Text!HexDigits /\ h[2 * i] \in Text!HexDigits
        BY <2>3, <2>4, <2>8
      <4>2. node[i] = 16 * Text!Value(h[2 * i - 1]) + Text!Value(h[2 * i])
        BY <2>3, <2>4, <2>8
      <4> QED
        BY <2>7, <3>2, <4>1, <4>2
    <3>4. ASSUME NEW k \in 1..(2 * LEN) PROVE Text!Digits(node)[k] = Text!Lower(h[k])
      <4>1. PICK i \in 1..LEN : k = 2 * i - 1 \/ k = 2 * i
        <5>1. (k + 1) \div 2 \in 1..LEN
          BY <2>4
        <5>2. k = 2 * ((k + 1) \div 2) - 1 \/ k = 2 * ((k + 1) \div 2)
          BY <2>4
        <5> QED
          BY <5>1, <5>2
      <4> QED
        BY <3>3, <4>1
    <3>5. Text!Digits(node) = [k \in 1..(2 * LEN) |-> Text!Digits(node)[k]]
      <4>1. Len(node) = LEN
        BY <2>4, <2>5
      <4> QED
        BY <4>1 DEF Text!Digits
    <3> QED
      BY <3>1, <3>4, <3>5
  <2> QED
    BY <2>1, <2>7, <2>8 DEF h
<1> QED
  BY <1>1, TextType, PTL
==============================================================================
