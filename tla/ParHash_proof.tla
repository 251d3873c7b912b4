--------------------------- MODULE ParHash_proof ---------------------------
(***************************************************************************)
(* Hashing a level in parallel is hashing it in one step: for every number *)
(* of workers, length of run, size of chunk and of stage, and whether or   *)
(* not a hasher panics.                                                    *)
(*                                                                         *)
(* The argument: the chunks partition the pairs (ChunksCover, ChunksApart), *)
(* so the slots of a chunk belong to whoever has the chunk.  The invariant *)
(* says of every chunk how far it is, by who has it.                       *)
(***************************************************************************)
EXTENDS ParHash, TLAPS

-----------------------------------------------------------------------------
(* The chunks. *)

\* x lies in the (x \div m)-th interval of length m.
LEMMA Quotient ==
  ASSUME NEW x \in Nat, NEW m \in Nat, m > 0
  PROVE  /\ x \div m \in Nat
         /\ (x \div m) * m <= x
         /\ x < (x \div m) * m + m
BY Z3

\* Multiples of m are ordered as their factors, m apart.
LEMMA Multiples ==
  ASSUME NEW c \in Nat, NEW d \in Nat, NEW m \in Nat, c < d
  PROVE  c * m + m <= d * m
BY Z3

\* A product of naturals is a natural.
LEMMA ProductType ==
  ASSUME NEW c \in Nat, NEW m \in Nat
  PROVE  c * m \in Nat
BY Z3

\* What never changes: a level of at least one node, on either side.
RunOk == run \in Seq({run[k] : k \in DOMAIN run}) /\ Len(run) \in Nat \ {0} /\ start \in 0..1

\* The counts of a level fit together.
LEMMA Counts ==
  ASSUME RunOk
  PROVE  /\ HeadLen \in 0..1
         /\ Pairs \in Nat
         /\ TailLen \in 0..1
         /\ HeadLen + 2 * Pairs + TailLen = Len(run)
         /\ HeadLen + Pairs + TailLen <= Len(run) \div 2 + 1
BY DEF RunOk, HeadLen, Pairs, TailLen

\* The chunks are intervals of pairs.
LEMMA ChunkType ==
  ASSUME RunOk, NEW c \in Chunks
  PROVE  /\ c \in Nat
         /\ First(c) \in Nat
         /\ ChunkLen(c) \in Nat
         /\ First(c) + ChunkLen(c) <= Pairs
<1>1. Pairs \in Nat /\ MIN_PARALLEL_HASHES \in Nat /\ MIN_PARALLEL_HASHES > 0
  BY Counts, ParHashAssumption
<1>2. CASE Parallel
  <2>1. NumChunks \in Nat /\ NumChunks * MIN_PARALLEL_HASHES <= Pairs + MIN_PARALLEL_HASHES - 1
    BY <1>1, Quotient DEF NumChunks
  <2>2. c \in Nat /\ c < NumChunks
    BY <1>2, <2>1 DEF Chunks
  <2>3. First(c) \in Nat /\ First(c) + MIN_PARALLEL_HASHES <= NumChunks * MIN_PARALLEL_HASHES
    BY <1>1, <2>1, <2>2, Multiples, ProductType DEF First
  <2>4. NumChunks * MIN_PARALLEL_HASHES \in Nat
    BY <1>1, <2>1, ProductType
  <2>5. First(c) <= Pairs
    BY <1>1, <2>1, <2>3, <2>4
  <2> QED
    BY <1>1, <1>2, <2>2, <2>3, <2>5 DEF ChunkLen, Least
<1>3. CASE ~Parallel
  <2>1. c = 0 /\ First(c) = 0 /\ ChunkLen(c) = Pairs
    BY <1>1, <1>3 DEF Chunks, First, ChunkLen
  <2> QED
    BY <1>1, <2>1
<1> QED
  BY <1>2, <1>3

\* Every pair is in some chunk.
LEMMA ChunksCover ==
  ASSUME RunOk, NEW p \in Nat, p < Pairs
  PROVE  \E c \in Chunks : First(c) <= p /\ p < First(c) + ChunkLen(c)
<1>1. Pairs \in Nat /\ MIN_PARALLEL_HASHES \in Nat /\ MIN_PARALLEL_HASHES > 0
  BY Counts, ParHashAssumption
<1>2. CASE Parallel
  <2> DEFINE c == p \div MIN_PARALLEL_HASHES
  <2>1. /\ c \in Nat /\ c * MIN_PARALLEL_HASHES <= p
        /\ p < c * MIN_PARALLEL_HASHES + MIN_PARALLEL_HASHES
    BY <1>1, Quotient
  <2>2. /\ NumChunks \in Nat
        /\ Pairs + MIN_PARALLEL_HASHES - 1 < NumChunks * MIN_PARALLEL_HASHES + MIN_PARALLEL_HASHES
    BY <1>1, Quotient DEF NumChunks
  <2> HIDE DEF c
  <2>3. c < NumChunks
    <3> SUFFICES ASSUME NumChunks <= c PROVE FALSE
      BY <2>1, <2>2
    <3>1. NumChunks * MIN_PARALLEL_HASHES <= c * MIN_PARALLEL_HASHES
      <4>1. CASE NumChunks = c
        BY <4>1, <1>1, <2>1, ProductType
      <4>2. CASE NumChunks < c
        <5>1. NumChunks * MIN_PARALLEL_HASHES + MIN_PARALLEL_HASHES <= c * MIN_PARALLEL_HASHES
          BY <4>2, <1>1, <2>1, <2>2, Multiples
        <5>2. NumChunks * MIN_PARALLEL_HASHES \in Nat /\ c * MIN_PARALLEL_HASHES \in Nat
          BY <1>1, <2>1, <2>2, ProductType
        <5> QED
          BY <5>1, <5>2, <1>1
      <4> QED
        BY <4>1, <4>2, <2>1, <2>2
    <3>2. NumChunks * MIN_PARALLEL_HASHES \in Nat /\ c * MIN_PARALLEL_HASHES \in Nat
      BY <1>1, <2>1, <2>2, ProductType
    <3> QED
      BY <1>1, <2>1, <2>2, <3>1, <3>2
  <2>4. c \in Chunks
    BY <1>2, <2>1, <2>2, <2>3 DEF Chunks
  <2>5. First(c) <= p /\ p < First(c) + MIN_PARALLEL_HASHES /\ First(c) \in Nat
    BY <1>1, <2>1, ProductType DEF First
  <2>6. p < First(c) + ChunkLen(c)
    BY <1>1, <1>2, <2>5 DEF ChunkLen, Least
  <2> QED
    BY <2>4, <2>5, <2>6
<1>3. CASE ~Parallel
  <2>1. 0 \in Chunks /\ First(0) = 0 /\ ChunkLen(0) = Pairs
    BY <1>1, <1>3 DEF Chunks, First, ChunkLen
  <2> QED
    BY <1>1, <2>1
<1> QED
  BY <1>2, <1>3

\* No pair is in two chunks.
LEMMA ChunksApart ==
  ASSUME RunOk, NEW c \in Chunks, NEW d \in Chunks, c # d, NEW p \in Nat,
         First(c) <= p, p < First(c) + ChunkLen(c)
  PROVE  ~ (First(d) <= p /\ p < First(d) + ChunkLen(d))
<1>1. Pairs \in Nat /\ MIN_PARALLEL_HASHES \in Nat /\ MIN_PARALLEL_HASHES > 0
  BY Counts, ParHashAssumption
<1>2. Parallel
  BY DEF Chunks
<1>3. /\ c \in Nat /\ First(c) \in Nat /\ ChunkLen(c) \in Nat
      /\ d \in Nat /\ First(d) \in Nat /\ ChunkLen(d) \in Nat
  BY ChunkType
<1>4. ChunkLen(c) <= MIN_PARALLEL_HASHES /\ ChunkLen(d) <= MIN_PARALLEL_HASHES
  BY <1>1, <1>2, <1>3 DEF ChunkLen, Least
<1>5. CASE c < d
  <2>1. First(c) + MIN_PARALLEL_HASHES <= First(d)
    BY <1>1, <1>3, <1>5, Multiples DEF First
  <2> QED
    BY <1>1, <1>3, <1>4, <2>1
<1>6. CASE d < c
  <2>1. First(d) + MIN_PARALLEL_HASHES <= First(c)
    BY <1>1, <1>3, <1>6, Multiples DEF First
  <2> QED
    BY <1>1, <1>3, <1>4, <2>1
<1> QED
  BY <1>3, <1>5, <1>6

-----------------------------------------------------------------------------
(* What the buffer holds in the end. *)

\* How many parents the level has, and how long the buffer is.
NumSlots == HeadLen + Pairs + TailLen
Size == Len(run) \div 2 + 1 + Spare

\* Slot k before the call, and after it.
Stale(k) == <<"stale", k>>
Final(k) ==
  IF HeadLen = 1 /\ k = 1 THEN Hash(partner, run[1])
  ELSE IF TailLen = 1 /\ k = HeadLen + Pairs + 1 THEN Hash(run[Len(run)], Zeros[0])
  ELSE IF k <= NumSlots THEN HashOfPair(k - 1 - HeadLen)
  ELSE Stale(k)

\* A buffer g with its front overwritten.
Overlaid(f, g) == f \o SubSeq(g, Len(f) + 1, Len(g))

\* Overwriting the front of a buffer, as a sequence and slot by slot.
LEMMA Overwrite ==
  ASSUME NEW S, NEW f \in Seq(S), NEW g \in Seq(S), Len(f) <= Len(g)
  PROVE  /\ Overlaid(f, g) \in Seq(S)
         /\ Len(Overlaid(f, g)) = Len(g)
         /\ \A k \in 1..Len(g) : Overlaid(f, g)[k] = IF k <= Len(f) THEN f[k] ELSE g[k]
<1> DEFINE rest == SubSeq(g, Len(f) + 1, Len(g))
<1>1. Len(f) \in Nat /\ Len(g) \in Nat
  OBVIOUS
<1>2. /\ rest \in Seq(S) /\ Len(rest) = Len(g) - Len(f)
      /\ \A i \in 1..(Len(g) - Len(f)) : rest[i] = g[Len(f) + i]
  BY <1>1
<1> HIDE DEF rest
<1>3. f \o rest \in Seq(S) /\ Len(f \o rest) = Len(g)
  BY <1>1, <1>2
<1>4. \A k \in 1..Len(g) : (f \o rest)[k] = IF k <= Len(f) THEN f[k] ELSE g[k]
  BY <1>1, <1>2
<1> QED
  BY <1>1, <1>3, <1>4 DEF rest, Overlaid

\* The buffer has a slot for every parent.
LEMMA Slots ==
  ASSUME RunOk
  PROVE  /\ HeadLen \in 0..1 /\ Pairs \in Nat /\ TailLen \in 0..1
         /\ HeadLen + 2 * Pairs + TailLen = Len(run)
         /\ NumSlots \in Nat /\ NumSlots <= Size /\ Size \in Nat
<1>1. /\ HeadLen \in 0..1 /\ Pairs \in Nat /\ TailLen \in 0..1
      /\ HeadLen + 2 * Pairs + TailLen = Len(run)
      /\ NumSlots \in Nat /\ NumSlots <= Len(run) \div 2 + 1
  BY Counts DEF NumSlots
<1>2. Len(run) \div 2 + 1 \in Nat /\ Spare \in Nat
  BY ParHashAssumption DEF RunOk
<1> QED
  BY <1>1, <1>2 DEF Size

\* The zero a level of leaves is padded with.
LEMMA LevelPadding == Level!Padding = Zeros[0]
<1>1. Level!Zeros = Zeros
  BY DEF Level!Zeros, Zeros, Level!Levels, Levels
<1> QED
  BY <1>1 DEF Level!Padding

\* The parents module MerkleTree computes, and the stale rest of the buffer.
LEMMA LevelWritten ==
  ASSUME RunOk, DOMAIN parents = 1..Size
  PROVE  Level!Written = [k \in 1..Size |-> Final(k)]
<1> DEFINE stale == [k \in DOMAIN parents |-> <<"stale", k>>]
<1>1. /\ HeadLen \in 0..1 /\ Pairs \in Nat /\ TailLen \in 0..1
      /\ HeadLen + 2 * Pairs + TailLen = Len(run)
      /\ NumSlots \in Nat /\ NumSlots <= Size /\ Size \in Nat
  BY Slots
<1>2. Level!HeadLen = HeadLen
  BY DEF Level!HeadLen, HeadLen
<1>3. Level!NumParents = NumSlots
  BY <1>1, <1>2 DEF Level!NumParents, NumSlots, RunOk
<1>4. Level!Run = run
  BY DEF Level!Run
<1>5. Level!Parents = [k \in 1..NumSlots |-> Final(k)]
  <2>1. ASSUME NEW k \in 1..NumSlots
        PROVE  (LET left == 2 * k - 1 - Level!HeadLen IN
                IF left = 0 THEN Hash(partner, run[1])
                ELSE IF left = Len(run) THEN Hash(run[left], Zeros[0])
                ELSE Hash(run[left], run[left + 1])) = Final(k)
    <3>1. CASE HeadLen = 1 /\ k = 1
      BY <1>1, <1>2, <3>1 DEF Final
    <3>2. CASE ~(HeadLen = 1 /\ k = 1) /\ TailLen = 1 /\ k = HeadLen + Pairs + 1
      <4>1. 2 * k - 1 - HeadLen = Len(run) /\ Len(run) # 0
        BY <1>1, <3>2 DEF RunOk
      <4> QED
        BY <1>2, <3>2, <4>1 DEF Final
    <3>3. CASE ~(HeadLen = 1 /\ k = 1) /\ ~(TailLen = 1 /\ k = HeadLen + Pairs + 1)
      <4>1. 2 * k - 1 - HeadLen # Len(run) /\ 2 * k - 1 - HeadLen # 0 /\ k <= NumSlots
        BY <1>1, <3>3 DEF NumSlots
      <4>2. /\ HeadLen + 2 * (k - 1 - HeadLen) + 1 = 2 * k - 1 - HeadLen
            /\ HeadLen + 2 * (k - 1 - HeadLen) + 2 = 2 * k - 1 - HeadLen + 1
        BY <1>1
      <4> QED
        BY <1>2, <3>3, <4>1, <4>2 DEF Final, HashOfPair
    <3> QED
      BY <3>1, <3>2, <3>3
  <2> QED
    BY <1>3, <1>4, <2>1, LevelPadding DEF Level!Parents
<1>6. Level!Written = Level!Parents \o SubSeq(stale, NumSlots + 1, Len(stale))
  BY <1>3 DEF Level!Written
<1> DEFINE S == {Stale(k) : k \in 1..Size} \cup {Final(k) : k \in 1..NumSlots}
<1>7. stale \in Seq(S) /\ Len(stale) = Size
  BY <1>1 DEF Stale
<1>8. Level!Parents \in Seq(S) /\ Len(Level!Parents) = NumSlots
  BY <1>1, <1>5
<1>9. Level!Written =
        [k \in 1..Size |-> IF k <= NumSlots THEN Level!Parents[k] ELSE stale[k]]
  <2> HIDE DEF S, stale
  <2> DEFINE front == Level!Parents
  <2>1. front \in Seq(S) /\ stale \in Seq(S) /\ Len(front) = NumSlots /\ Len(stale) = Size
        /\ Len(front) <= Len(stale)
    BY <1>1, <1>7, <1>8
  <2>2. Level!Written = Overlaid(front, stale)
    BY <1>6, <2>1 DEF Overlaid
  <2> HIDE DEF front
  <2> DEFINE w == Overlaid(front, stale)
  <2>3. /\ w \in Seq(S) /\ Len(w) = Len(stale)
        /\ \A k \in 1..Len(stale) : w[k] = IF k <= Len(front) THEN front[k] ELSE stale[k]
    BY ONLY <2>1, Overwrite
  <2> HIDE DEF w
  <2>6. w = [k \in 1..Size |-> IF k <= NumSlots THEN front[k] ELSE stale[k]]
    BY <1>1, <2>1, <2>3
  <2> USE DEF front
  <2> QED
    BY <2>2, <2>6 DEF w
<1>10. \A k \in 1..Size : (IF k <= NumSlots THEN Level!Parents[k] ELSE stale[k]) = Final(k)
  BY <1>1, <1>5 DEF Final, Stale, NumSlots
<1> QED
  BY <1>9, <1>10, Zenon

-----------------------------------------------------------------------------
(* The invariant: who has which chunk, and what is in its slots. *)

IsEdge(k) == (HeadLen = 1 /\ k = 1) \/ (TailLen = 1 /\ k = HeadLen + Pairs + 1)

\* The pairs of chunk c from its i-th up to, and without, its j-th.
PairsOf(c, i, j) == (First(c) + i)..(First(c) + j - 1)

IsStale(p) == parents[Slot(p)] = Stale(Slot(p))
IsFinal(p) == parents[Slot(p)] = Final(Slot(p))

Has(w, c) == work[w] # None /\ work[w].chunk = c

TypeInv ==
  /\ RunOk
  /\ DOMAIN parents = 1..Size
  /\ phase \in {"Edges", "Pairs", "Panicking", "Joined", "Unwound"}
  /\ waiting \subseteq Chunks
  /\ work \in [Worker -> {None} \cup [chunk : Chunks, done : Nat]]
  /\ \A w \in Worker : work[w] # None => work[w].done <= ChunkLen(work[w].chunk)

\* A slot holds what it held before the call, or its parent.
SlotInv == \A k \in 1..Size : parents[k] = Stale(k) \/ parents[k] = Final(k)

EdgeInv ==
  IF phase = "Edges"
  THEN waiting = {} /\ NoneWorking /\ \A k \in 1..Size : parents[k] = Stale(k)
  ELSE phase # "Unwound" => \A k \in 1..Size : IsEdge(k) => parents[k] = Final(k)

\* Nobody has touched a chunk that waits, and nobody has lost one that does not.
ChunkInv ==
  \A c \in Chunks :
    /\ c \in waiting => \A p \in PairsOf(c, 0, ChunkLen(c)) : IsStale(p)
    /\ phase \in {"Pairs", "Joined"} =>
         \/ c \in waiting
         \/ \E w \in Worker : Has(w, c)
         \/ \A p \in PairsOf(c, 0, ChunkLen(c)) : IsFinal(p)

\* A worker has a chunk to itself, and has hashed as much of it as it says.
WorkInv ==
  \A w \in Worker : \A c \in Chunks : Has(w, c) =>
    /\ c \notin waiting
    /\ \A v \in Worker : Has(v, c) => v = w
    /\ \A p \in PairsOf(c, 0, work[w].done) : IsFinal(p)
    /\ \A p \in PairsOf(c, work[w].done, ChunkLen(c)) : IsStale(p)

\* What Rayon's for_each promises its caller: no chunk is left to hash, nor being
\* hashed, when it returns or unwinds.
Quiet == phase \in {"Joined", "Unwound"} => NoneWorking /\ waiting = {}

Inv == TypeInv /\ SlotInv /\ EdgeInv /\ ChunkInv /\ WorkInv /\ Quiet

-----------------------------------------------------------------------------
(* Lemmas about one step. *)

\* The slot of a pair is in the buffer, is not an edge, and is for its hash.
LEMMA PairSlot ==
  ASSUME RunOk, NEW p \in Nat, p < Pairs
  PROVE  /\ Slot(p) \in 1..Size
         /\ ~ IsEdge(Slot(p))
         /\ Final(Slot(p)) = HashOfPair(p)
         /\ p = Slot(p) - 1 - HeadLen
<1>1. /\ HeadLen \in 0..1 /\ Pairs \in Nat /\ TailLen \in 0..1
      /\ HeadLen + 2 * Pairs + TailLen = Len(run)
      /\ NumSlots \in Nat /\ NumSlots <= Size /\ Size \in Nat
  BY Slots
<1>2. Slot(p) \in Nat /\ Slot(p) = HeadLen + p + 1
  BY <1>1 DEF Slot
<1>3. ~ IsEdge(Slot(p))
  BY <1>1, <1>2 DEF IsEdge
<1>4. Slot(p) <= NumSlots
  BY <1>1, <1>2 DEF NumSlots
<1>5. p = Slot(p) - 1 - HeadLen
  BY <1>1, <1>2
<1>6. Final(Slot(p)) = HashOfPair(p)
  BY <1>3, <1>4, <1>5 DEF Final, IsEdge
<1> QED
  BY <1>1, <1>2, <1>3, <1>4, <1>5, <1>6

\* A slot is an edge, or the slot of a pair, or beyond the parents.
LEMMA SlotKinds ==
  ASSUME RunOk, NEW k \in 1..Size
  PROVE  \/ IsEdge(k)
         \/ \E p \in Nat : p < Pairs /\ k = Slot(p)
         \/ Final(k) = Stale(k)
<1>1. /\ HeadLen \in 0..1 /\ Pairs \in Nat /\ TailLen \in 0..1
      /\ NumSlots \in Nat /\ NumSlots <= Size /\ Size \in Nat
  BY Slots
<1>2. CASE ~ IsEdge(k) /\ k <= NumSlots
  <2>1. k - 1 - HeadLen \in Nat /\ k - 1 - HeadLen < Pairs /\ k = Slot(k - 1 - HeadLen)
    BY <1>1, <1>2 DEF IsEdge, NumSlots, Slot
  <2> QED
    BY <2>1
<1>3. CASE ~ IsEdge(k) /\ ~ (k <= NumSlots)
  BY <1>3 DEF IsEdge, Final
<1> QED
  BY <1>2, <1>3

\* A pair of a chunk is a pair, and a natural number.
LEMMA PairInChunk ==
  ASSUME RunOk, NEW c \in Chunks, NEW p \in PairsOf(c, 0, ChunkLen(c))
  PROVE  p \in Nat /\ p < Pairs /\ First(c) <= p /\ p < First(c) + ChunkLen(c)
<1>1. Pairs \in Nat /\ First(c) \in Nat /\ ChunkLen(c) \in Nat /\ First(c) + ChunkLen(c) <= Pairs
  BY Counts, ChunkType
<1> QED
  BY <1>1 DEF PairsOf

\* Nothing the chunks are made of changes.
LEMMA Frame ==
  ASSUME UNCHANGED <<run, start, partner>>
  PROVE  /\ RunOk' = RunOk
         /\ HeadLen' = HeadLen /\ Pairs' = Pairs /\ TailLen' = TailLen
         /\ Chunks' = Chunks
         /\ Size' = Size /\ NumSlots' = NumSlots
         /\ \A c : First(c)' = First(c) /\ ChunkLen(c)' = ChunkLen(c)
         /\ \A p : Slot(p)' = Slot(p)
         /\ \A k : Final(k)' = Final(k) /\ IsEdge(k)' = IsEdge(k)
<1>1. HeadLen' = HeadLen /\ Pairs' = Pairs /\ TailLen' = TailLen
  BY DEF HeadLen, Pairs, TailLen
<1>2. Chunks' = Chunks
  BY <1>1 DEF Chunks, Parallel, NumChunks
<1>3. Size' = Size /\ NumSlots' = NumSlots /\ RunOk' = RunOk
  BY <1>1 DEF Size, NumSlots, RunOk
<1>4. ASSUME NEW c
      PROVE  ChunkLen(c)' = ChunkLen(c) /\ First(c)' = First(c)
  BY <1>1 DEF ChunkLen, Parallel, First
<1>5. ASSUME NEW p
      PROVE  Slot(p)' = Slot(p)
  BY <1>1 DEF Slot
<1>6. ASSUME NEW k
      PROVE  Final(k)' = Final(k) /\ IsEdge(k)' = IsEdge(k)
  BY <1>1, <1>3 DEF Final, IsEdge, HashOfPair, Stale
<1> QED
  BY <1>1, <1>2, <1>3, <1>4, <1>5, <1>6

\* What HashEdges writes.
LEMMA EdgesWritten ==
  ASSUME Inv, HashEdges
  PROVE  /\ DOMAIN parents' = 1..Size
         /\ \A k \in 1..Size : parents[k] = Stale(k)
         /\ \A k \in 1..Size : parents'[k] = IF IsEdge(k) THEN Final(k) ELSE Stale(k)
<1>1. DOMAIN parents = 1..Size /\ \A k \in 1..Size : parents[k] = Stale(k)
  BY DEF Inv, TypeInv, EdgeInv, HashEdges
<1>2. DOMAIN parents' = 1..Size
  BY <1>1 DEF HashEdges
<1>3. ASSUME NEW k \in 1..Size
      PROVE  parents'[k] = IF IsEdge(k) THEN Final(k) ELSE Stale(k)
  BY <1>1 DEF HashEdges, IsEdge, Final
<1> QED
  BY <1>1, <1>2, <1>3

\* What one stage writes: the next pairs of the worker's chunk, which are still
\* untouched, and nothing else.
LEMMA StageWritten ==
  ASSUME Inv, NEW w \in Worker, HashStage(w)
  PROVE  LET c == work[w].chunk
             d == work[w].done
             n == StageLen(c, d) IN
         /\ c \in Chunks /\ d \in Nat /\ n \in Nat /\ d + n <= ChunkLen(c)
         /\ Has(w, c)
         /\ work' = [work EXCEPT ![w] = [chunk |-> c, done |-> d + n]]
         /\ DOMAIN parents' = 1..Size
         /\ \A p \in PairsOf(c, d, d + n) :
              p \in PairsOf(c, 0, ChunkLen(c)) /\ IsStale(p) /\ parents'[Slot(p)] = Final(Slot(p))
         /\ \A k \in 1..Size :
              (\A p \in PairsOf(c, d, d + n) : k # Slot(p)) => parents'[k] = parents[k]
<1> DEFINE c == work[w].chunk
           d == work[w].done
           n == StageLen(c, d)
<1>1. /\ RunOk /\ DOMAIN parents = 1..Size /\ Has(w, c)
      /\ work[w] \in [chunk : Chunks, done : Nat] /\ c \in Chunks /\ d \in Nat
  BY DEF Inv, TypeInv, HashStage, Has
<1>2. First(c) \in Nat /\ ChunkLen(c) \in Nat /\ d < ChunkLen(c)
  BY <1>1, ChunkType DEF HashStage
<1>3. n \in Nat /\ d + n <= ChunkLen(c)
  BY <1>1, <1>2, ParHashAssumption DEF StageLen, Least
<1>4. work' = [work EXCEPT ![w] = [chunk |-> c, done |-> d + n]]
  <2>1. work' = [work EXCEPT ![w] = [work[w] EXCEPT !.done = d + n]]
    BY DEF HashStage
  <2>2. [work[w] EXCEPT !.done = d + n] = [chunk |-> c, done |-> d + n]
    BY <1>1
  <2> QED
    BY <2>1, <2>2
<1> DEFINE next == (First(c) + d)..(First(c) + d + n - 1)
<1>5. PairsOf(c, d, d + n) = next
  BY <1>1, <1>2, <1>3 DEF PairsOf
<1>6. parents' = [k \in 1..Size |->
        IF \E p \in next : k = Slot(p)
        THEN HashOfPair(CHOOSE p \in next : k = Slot(p)) ELSE parents[k]]
  BY <1>1 DEF HashStage
<1>7. next \subseteq PairsOf(c, 0, ChunkLen(c)) /\ next \subseteq PairsOf(c, d, ChunkLen(c))
  <2> DEFINE f == First(c)
             m == ChunkLen(c)
  <2>1. f \in Nat /\ m \in Nat /\ d \in Nat /\ n \in Nat /\ d + n <= m
    BY <1>1, <1>2, <1>3
  <2> HIDE DEF f, m, d, n
  <2>2. \A p \in (f + d)..(f + d + n - 1) : p \in f..(f + m - 1) /\ p \in (f + d)..(f + m - 1)
    BY <2>1
  <2>3. f + 0 = f
    BY <2>1
  <2> QED
    BY <2>2, <2>3 DEF PairsOf, f, m
<1> HIDE DEF next, n
<1>8. ASSUME NEW p \in next
      PROVE  /\ p \in PairsOf(c, 0, ChunkLen(c)) /\ IsStale(p)
             /\ parents'[Slot(p)] = Final(Slot(p))
  <2>1. p \in PairsOf(c, 0, ChunkLen(c)) /\ IsStale(p)
    BY <1>1, <1>7 DEF Inv, WorkInv
  <2>2. p \in Nat /\ p < Pairs
    BY <1>1, <2>1, PairInChunk
  <2>3. Slot(p) \in 1..Size /\ Final(Slot(p)) = HashOfPair(p)
    BY <1>1, <2>2, PairSlot
  <2>4. (CHOOSE q \in next : Slot(p) = Slot(q)) = p
    <3>1. ASSUME NEW q \in next, Slot(p) = Slot(q) PROVE q = p
      <4>1. q \in Nat /\ q < Pairs
        BY <1>1, <1>7, PairInChunk
      <4>2. p = Slot(p) - 1 - HeadLen /\ q = Slot(q) - 1 - HeadLen
        BY <1>1, <2>2, <4>1, PairSlot
      <4> QED
        BY <3>1, <4>2
    <3> QED
      BY <3>1
  <2> QED
    BY <1>6, <2>1, <2>3, <2>4
<1>9. ASSUME NEW k \in 1..Size, \A p \in next : k # Slot(p)
      PROVE  parents'[k] = parents[k]
  BY <1>6, <1>9
<1> QED
  BY <1>1, <1>3, <1>4, <1>5, <1>6, <1>8, <1>9 DEF n

-----------------------------------------------------------------------------
(* The invariant is inductive. *)

\* At the start every slot is stale and no chunk is handed out.
LEMMA InitInv == Init => Inv
<1> SUFFICES ASSUME Init PROVE Inv
  OBVIOUS
<1>1. RunOk
  <2>1. PICK n \in 1..MaxRun : run = [k \in 1..n |-> <<"node", k>>]
    BY DEF Init
  <2>2. n \in Nat \ {0} /\ DOMAIN run = 1..n
    BY <2>1, ParHashAssumption
  <2> DEFINE S == {run[k] : k \in DOMAIN run}
  <2>3. run = [k \in 1..n |-> run[k]] /\ \A k \in 1..n : run[k] \in S
    BY <2>1, <2>2
  <2> HIDE DEF S
  <2>4. run \in Seq(S) /\ Len(run) = n
    BY <2>2, <2>3
  <2> QED
    BY <2>2, <2>4 DEF RunOk, Init, S
<1>2. DOMAIN parents = 1..Size /\ \A k \in 1..Size : parents[k] = Stale(k)
  BY DEF Init, Size, Stale
<1>3. NoneWorking /\ work \in [Worker -> {None}]
  BY DEF Init, NoneWorking
<1>4. TypeInv
  BY <1>1, <1>2, <1>3 DEF Init, TypeInv, NoneWorking
<1>5. SlotInv /\ EdgeInv
  BY <1>2, <1>3 DEF Init, SlotInv, EdgeInv
<1>6. ChunkInv /\ WorkInv /\ Quiet
  BY <1>3 DEF Init, ChunkInv, WorkInv, Quiet, Has, NoneWorking
<1> QED
  BY <1>4, <1>5, <1>6 DEF Inv

\* The edges are written while every slot is stale; the chunks wait.
LEMMA HashEdgesKeepsInv ==
  ASSUME Inv, HashEdges
  PROVE  Inv'
<1>1. UNCHANGED <<run, start, partner>>
  BY DEF HashEdges
<1>2. /\ RunOk /\ phase = "Edges" /\ phase' = "Pairs" /\ waiting' = Chunks /\ work' = work
      /\ \A w \in Worker : work[w] = None
  BY DEF Inv, TypeInv, EdgeInv, HashEdges, NoneWorking
<1>3. TypeInv'
  BY <1>1, <1>2, Frame, EdgesWritten DEF Inv, TypeInv
<1>4. SlotInv' /\ EdgeInv'
  <2>1. ASSUME NEW k \in 1..Size
        PROVE  /\ parents'[k] = Stale(k) \/ parents'[k] = Final(k)
               /\ IsEdge(k) => parents'[k] = Final(k)
    BY EdgesWritten
  <2> QED
    BY <1>1, <1>2, <2>1, Frame DEF SlotInv, EdgeInv, Stale
<1>5. ChunkInv'
  <2>1. ASSUME NEW c \in Chunks, NEW p \in PairsOf(c, 0, ChunkLen(c))
        PROVE  parents'[Slot(p)] = Stale(Slot(p))
    <3>1. p \in Nat /\ p < Pairs
      BY <1>2, PairInChunk
    <3>2. Slot(p) \in 1..Size /\ ~ IsEdge(Slot(p))
      BY <1>2, <3>1, PairSlot
    <3> QED
      BY <3>2, EdgesWritten
  <2> QED
    BY <1>1, <1>2, <2>1, Frame DEF ChunkInv, PairsOf, IsStale, Stale
<1>6. WorkInv' /\ Quiet'
  BY <1>2 DEF WorkInv, Quiet, Has
<1> QED
  BY <1>3, <1>4, <1>5, <1>6 DEF Inv

\* A worker takes a chunk that nobody has touched.
LEMMA TakeKeepsInv ==
  ASSUME Inv, NEW w \in Worker, Take(w)
  PROVE  Inv'
<1>1. /\ UNCHANGED <<run, start, partner, parents, phase>>
      /\ RunOk /\ work[w] = None /\ phase \in {"Pairs", "Panicking"}
  BY DEF Inv, TypeInv, Take
<1>2. PICK c \in waiting : /\ work' = [work EXCEPT ![w] = [chunk |-> c, done |-> 0]]
                           /\ waiting' = waiting \ {c}
  BY DEF Take
<1>3. c \in Chunks /\ ChunkLen(c) \in Nat /\ First(c) \in Nat /\ c \in Nat
  BY <1>1, ChunkType DEF Inv, TypeInv
<1>4. [chunk |-> c, done |-> 0] # None
  BY <1>3, ParHashAssumption
<1>5. /\ work'[w] = [chunk |-> c, done |-> 0]
      /\ \A v \in Worker : v # w => work'[v] = work[v]
      /\ work' \in [Worker -> {None} \cup [chunk : Chunks, done : Nat]]
  BY <1>2, <1>3 DEF Inv, TypeInv
<1>6. TypeInv'
  <2>1. ASSUME NEW v \in Worker, work'[v] # None
        PROVE  work'[v].done <= ChunkLen(work'[v].chunk)
    BY <1>3, <1>5, <2>1 DEF Inv, TypeInv
  <2> QED
    BY <1>1, <1>2, <1>5, <2>1, Frame DEF Inv, TypeInv
<1>7. SlotInv' /\ EdgeInv' /\ Quiet'
  BY <1>1, Frame DEF Inv, SlotInv, EdgeInv, Quiet, Stale
<1>8. \A v \in Worker, d \in Chunks : Has(v, d)' <=> Has(v, d) \/ (v = w /\ d = c)
  BY <1>1, <1>4, <1>5 DEF Has
<1>9. ChunkInv'
  <2>1. ASSUME NEW d \in Chunks
        PROVE  /\ d \in waiting' => \A p \in PairsOf(d, 0, ChunkLen(d)) : IsStale(p)
               /\ phase \in {"Pairs", "Joined"} =>
                    \/ d \in waiting'
                    \/ \E v \in Worker : Has(v, d)'
                    \/ \A p \in PairsOf(d, 0, ChunkLen(d)) : IsFinal(p)
    BY <1>2, <1>8 DEF Inv, ChunkInv
  <2> QED
    BY <1>1, <2>1, Frame DEF ChunkInv, PairsOf, IsStale, IsFinal, Stale
<1>10. WorkInv'
  <2>1. ASSUME NEW v \in Worker, NEW d \in Chunks, Has(v, d)'
        PROVE  /\ d \notin waiting'
               /\ \A u \in Worker : Has(u, d)' => u = v
               /\ \A p \in PairsOf(d, 0, work'[v].done) : IsFinal(p)
               /\ \A p \in PairsOf(d, work'[v].done, ChunkLen(d)) : IsStale(p)
    <3>1. CASE Has(v, d)
      <4>1. v # w /\ d # c /\ work'[v] = work[v]
        BY <1>1, <1>2, <1>5, <3>1 DEF Has, Inv, WorkInv
      <4> QED
        BY <1>2, <1>8, <3>1, <4>1 DEF Inv, WorkInv
    <3>2. CASE v = w /\ d = c
      <4>1. \A u \in Worker : ~ Has(u, c)
        BY <1>2, <1>3 DEF Inv, WorkInv
      <4>2. work'[v].done = 0 /\ PairsOf(d, 0, 0) = {}
        BY <1>3, <1>5, <3>2 DEF PairsOf
      <4>3. \A p \in PairsOf(c, 0, ChunkLen(c)) : IsStale(p)
        BY <1>2, <1>3 DEF Inv, ChunkInv
      <4> QED
        BY <1>2, <1>8, <3>2, <4>1, <4>2, <4>3
    <3> QED
      BY <1>8, <2>1, <3>1, <3>2
  <2> QED
    BY <1>1, <2>1, Frame DEF WorkInv, PairsOf, IsStale, IsFinal, Stale
<1> QED
  BY <1>6, <1>7, <1>9, <1>10 DEF Inv

\* A stage writes into slots of the worker's own chunk that are still stale.
LEMMA HashStageKeepsInv ==
  ASSUME Inv, NEW w \in Worker, HashStage(w)
  PROVE  Inv'
<1> DEFINE c == work[w].chunk
           d == work[w].done
           n == StageLen(c, d)
<1>1. /\ UNCHANGED <<run, start, partner, phase, waiting>>
      /\ RunOk /\ DOMAIN parents = 1..Size
  BY DEF Inv, TypeInv, HashStage
<1>2. /\ c \in Chunks /\ d \in Nat /\ n \in Nat /\ d + n <= ChunkLen(c)
      /\ Has(w, c)
      /\ work' = [work EXCEPT ![w] = [chunk |-> c, done |-> d + n]]
      /\ DOMAIN parents' = 1..Size
      /\ \A p \in PairsOf(c, d, d + n) :
           p \in PairsOf(c, 0, ChunkLen(c)) /\ IsStale(p) /\ parents'[Slot(p)] = Final(Slot(p))
      /\ \A k \in 1..Size :
           (\A p \in PairsOf(c, d, d + n) : k # Slot(p)) => parents'[k] = parents[k]
  BY StageWritten
<1> HIDE DEF c, d, n
<1>3. c \in Nat /\ First(c) \in Nat /\ ChunkLen(c) \in Nat /\ work[w].chunk = c /\ work[w].done = d
  BY <1>1, <1>2, ChunkType DEF c, d
<1>4. [chunk |-> c, done |-> d + n] # None
  BY <1>2, <1>3, ParHashAssumption
<1>5. /\ work'[w] = [chunk |-> c, done |-> d + n]
      /\ \A v \in Worker : v # w => work'[v] = work[v]
      /\ work' \in [Worker -> {None} \cup [chunk : Chunks, done : Nat]]
  BY <1>2, <1>3 DEF Inv, TypeInv
<1>6. \A v \in Worker, e \in Chunks : Has(v, e)' <=> Has(v, e)
  BY <1>2, <1>3, <1>4, <1>5 DEF Has
<1>7. \A k \in 1..Size : \/ parents'[k] = parents[k]
                         \/ parents[k] = Stale(k) /\ parents'[k] = Final(k)
  BY <1>2 DEF IsStale
<1>8. ASSUME NEW p \in Nat, p < Pairs, p \notin PairsOf(c, d, d + n)
      PROVE  parents'[Slot(p)] = parents[Slot(p)]
  <2>1. Slot(p) \in 1..Size
    BY <1>1, <1>8, PairSlot
  <2>2. ASSUME NEW q \in PairsOf(c, d, d + n) PROVE Slot(p) # Slot(q)
    <3>1. q \in Nat /\ q < Pairs /\ q # p
      BY <1>1, <1>2, <1>8, PairInChunk
    <3>2. p = Slot(p) - 1 - HeadLen /\ q = Slot(q) - 1 - HeadLen
      BY <1>1, <1>8, <3>1, PairSlot
    <3> QED
      BY <3>1, <3>2
  <2> QED
    BY <1>2, <2>1, <2>2
<1>9. ASSUME NEW p \in Nat, p < Pairs, IsFinal(p)
      PROVE  parents'[Slot(p)] = Final(Slot(p))
  BY <1>1, <1>2, <1>8, <1>9 DEF IsFinal
<1>10. ASSUME NEW e \in Chunks, e # c, NEW p \in PairsOf(e, 0, ChunkLen(e))
       PROVE  parents'[Slot(p)] = parents[Slot(p)]
  <2>1. p \in Nat /\ p < Pairs /\ First(e) <= p /\ p < First(e) + ChunkLen(e)
    BY <1>1, PairInChunk
  <2>2. ~ (First(c) <= p /\ p < First(c) + ChunkLen(c))
    BY <1>1, <1>2, <1>10, <2>1, ChunksApart
  <2>3. p \notin PairsOf(c, d, d + n)
    BY <1>1, <1>2, <2>2, PairInChunk
  <2> QED
    BY <1>8, <2>1, <2>3
<1>11. TypeInv'
  <2>1. ASSUME NEW v \in Worker, work'[v] # None
        PROVE  work'[v].done <= ChunkLen(work'[v].chunk)
    BY <1>2, <1>3, <1>5, <2>1 DEF Inv, TypeInv
  <2> QED
    BY <1>1, <1>2, <1>5, <2>1, Frame DEF Inv, TypeInv
<1>12. SlotInv'
  BY <1>1, <1>7, Frame DEF Inv, SlotInv, Stale
<1>13. phase # "Edges" /\ EdgeInv'
  <2>1. phase # "Edges"
    BY <1>2 DEF Inv, EdgeInv, NoneWorking, Has
  <2>2. ASSUME NEW k \in 1..Size, parents[k] = Final(k)
        PROVE  parents'[k] = Final(k)
    BY <1>7, <2>2
  <2> QED
    BY <1>1, <2>1, <2>2, Frame DEF Inv, EdgeInv
<1>14. ChunkInv'
  <2>1. ASSUME NEW e \in Chunks
        PROVE  /\ e \in waiting =>
                    \A p \in PairsOf(e, 0, ChunkLen(e)) : parents'[Slot(p)] = Stale(Slot(p))
               /\ phase \in {"Pairs", "Joined"} =>
                    \/ e \in waiting
                    \/ \E v \in Worker : Has(v, e)'
                    \/ \A p \in PairsOf(e, 0, ChunkLen(e)) : parents'[Slot(p)] = Final(Slot(p))
    <3>1. e \in waiting => e # c
      BY <1>2 DEF Inv, WorkInv
    <3>2. e \in waiting =>
            \A p \in PairsOf(e, 0, ChunkLen(e)) : parents'[Slot(p)] = Stale(Slot(p))
      BY <1>10, <3>1 DEF Inv, ChunkInv, IsStale
    <3>3. ASSUME \A p \in PairsOf(e, 0, ChunkLen(e)) : IsFinal(p)
          PROVE  \A p \in PairsOf(e, 0, ChunkLen(e)) : parents'[Slot(p)] = Final(Slot(p))
      BY <1>1, <1>9, <3>3, PairInChunk
    <3> QED
      BY <1>6, <3>2, <3>3 DEF Inv, ChunkInv
  <2> QED
    BY <1>1, <2>1, Frame DEF ChunkInv, PairsOf, IsStale, IsFinal, Stale
<1>15. WorkInv'
  <2>1. ASSUME NEW v \in Worker, NEW e \in Chunks, Has(v, e)'
        PROVE  /\ e \notin waiting
               /\ \A u \in Worker : Has(u, e)' => u = v
               /\ \A p \in PairsOf(e, 0, work'[v].done) : parents'[Slot(p)] = Final(Slot(p))
               /\ \A p \in PairsOf(e, work'[v].done, ChunkLen(e)) :
                    parents'[Slot(p)] = Stale(Slot(p))
    <3>1. Has(v, e) /\ e \notin waiting /\ \A u \in Worker : Has(u, e)' => u = v
      BY <1>6, <2>1 DEF Inv, WorkInv
    <3>2. CASE v = w
      <4>1. e = c /\ work'[v].done = d + n
        BY <1>3, <1>5, <3>1, <3>2 DEF Has
      <4>2. ASSUME NEW p \in PairsOf(c, 0, d + n) PROVE parents'[Slot(p)] = Final(Slot(p))
        <5>1. p \in PairsOf(c, 0, d) \/ p \in PairsOf(c, d, d + n)
          BY <1>2, <1>3 DEF PairsOf
        <5>2. p \in PairsOf(c, 0, ChunkLen(c))
          BY <1>2, <1>3 DEF PairsOf
        <5>3. p \in PairsOf(c, 0, d) => IsFinal(p)
          BY <1>2, <1>3 DEF Inv, WorkInv
        <5> QED
          BY <1>1, <1>2, <1>9, <5>1, <5>2, <5>3, PairInChunk
      <4>3. ASSUME NEW p \in PairsOf(c, d + n, ChunkLen(c)) PROVE parents'[Slot(p)] = Stale(Slot(p))
        <5>1. /\ p \in PairsOf(c, d, ChunkLen(c)) /\ p \in PairsOf(c, 0, ChunkLen(c))
              /\ p \notin PairsOf(c, d, d + n)
          BY <1>2, <1>3 DEF PairsOf
        <5>2. IsStale(p)
          BY <1>2, <1>3, <5>1 DEF Inv, WorkInv
        <5> QED
          BY <1>1, <1>2, <1>8, <5>1, <5>2, PairInChunk DEF IsStale
      <4> QED
        BY <3>1, <4>1, <4>2, <4>3
    <3>3. CASE v # w
      <4>1. e # c /\ work'[v] = work[v]
        BY <1>2, <1>5, <3>1, <3>3 DEF Inv, WorkInv
      <4>2. /\ work[v].done \in Nat /\ work[v].done <= ChunkLen(e)
              /\ ChunkLen(e) \in Nat /\ First(e) \in Nat
        BY <1>1, <3>1, ChunkType DEF Inv, TypeInv, Has
      <4>3. /\ PairsOf(e, 0, work[v].done) \subseteq PairsOf(e, 0, ChunkLen(e))
            /\ PairsOf(e, work[v].done, ChunkLen(e)) \subseteq PairsOf(e, 0, ChunkLen(e))
        BY <4>2 DEF PairsOf
      <4>4. /\ \A p \in PairsOf(e, 0, work[v].done) : IsFinal(p)
            /\ \A p \in PairsOf(e, work[v].done, ChunkLen(e)) : IsStale(p)
        BY <3>1 DEF Inv, WorkInv
      <4> QED
        BY <1>10, <3>1, <4>1, <4>3, <4>4 DEF IsFinal, IsStale
    <3> QED
      BY <3>2, <3>3
  <2> QED
    BY <1>1, <2>1, Frame DEF WorkInv, PairsOf, IsStale, IsFinal, Stale
<1>16. Quiet'
  <2>1. phase \notin {"Joined", "Unwound"}
    BY <1>2 DEF Inv, Quiet, NoneWorking, Has
  <2> QED
    BY <1>1, <2>1 DEF Quiet
<1> QED
  BY <1>11, <1>12, <1>13, <1>14, <1>15, <1>16 DEF Inv

\* A worker puts its chunk down, when it is done or when its hasher panics.
LEMMA PutDownKeepsInv ==
  ASSUME Inv, NEW w \in Worker, ChunkDone(w) \/ StagePanics(w)
  PROVE  Inv'
<1>1. /\ UNCHANGED <<run, start, partner, parents, waiting>>
      /\ RunOk /\ work[w] # None
      /\ work' = [work EXCEPT ![w] = None]
  BY DEF Inv, TypeInv, ChunkDone, StagePanics
<1>2. phase \notin {"Edges", "Joined", "Unwound"} /\ phase' \in {phase, "Panicking"}
  BY <1>1 DEF Inv, TypeInv, EdgeInv, Quiet, NoneWorking, ChunkDone, StagePanics
<1>3. /\ work'[w] = None
      /\ \A v \in Worker : v # w => work'[v] = work[v]
      /\ work' \in [Worker -> {None} \cup [chunk : Chunks, done : Nat]]
  BY <1>1 DEF Inv, TypeInv
<1>4. \A v \in Worker, e \in Chunks : Has(v, e)' <=> Has(v, e) /\ v # w
  BY <1>3 DEF Has
<1>5. TypeInv'
  <2>1. ASSUME NEW v \in Worker, work'[v] # None
        PROVE  work'[v].done <= ChunkLen(work'[v].chunk)
    BY <1>3, <2>1 DEF Inv, TypeInv
  <2>2. phase' \in {"Edges", "Pairs", "Panicking", "Joined", "Unwound"}
    BY <1>2 DEF Inv, TypeInv
  <2> QED
    BY <1>1, <1>3, <2>1, <2>2, Frame DEF Inv, TypeInv
<1>6. SlotInv' /\ EdgeInv' /\ Quiet'
  <2>1. phase' \notin {"Edges", "Joined", "Unwound"}
    BY <1>2
  <2> QED
    BY <1>1, <1>2, <2>1, Frame DEF Inv, SlotInv, EdgeInv, Quiet, Stale
<1>7. phase' = "Pairs" => \A p \in PairsOf(work[w].chunk, 0, ChunkLen(work[w].chunk)) : IsFinal(p)
  <2>1. work[w].chunk \in Chunks /\ work[w].done \in Nat /\ work[w].done <= ChunkLen(work[w].chunk)
    BY <1>1 DEF Inv, TypeInv
  <2>2. phase' = "Pairs" => work[w].done >= ChunkLen(work[w].chunk)
    BY <1>2 DEF ChunkDone, StagePanics
  <2>3. ChunkLen(work[w].chunk) \in Nat
    BY <1>1, <2>1, ChunkType
  <2>4. \A p \in PairsOf(work[w].chunk, 0, work[w].done) : IsFinal(p)
    BY <1>1, <2>1 DEF Inv, WorkInv, Has
  <2>5. phase' = "Pairs" => work[w].done = ChunkLen(work[w].chunk)
    BY <2>1, <2>2, <2>3
  <2> QED
    BY <2>4, <2>5
<1>8. ChunkInv'
  <2>1. ASSUME NEW e \in Chunks
        PROVE  /\ e \in waiting => \A p \in PairsOf(e, 0, ChunkLen(e)) : IsStale(p)
               /\ phase' \in {"Pairs", "Joined"} =>
                    \/ e \in waiting
                    \/ \E v \in Worker : Has(v, e)'
                    \/ \A p \in PairsOf(e, 0, ChunkLen(e)) : IsFinal(p)
    <3>1. phase' \in {"Pairs", "Joined"} => phase' = "Pairs" /\ phase = "Pairs"
      BY <1>2
    <3>2. Has(w, e) => work[w].chunk = e
      BY DEF Has
    <3> QED
      BY <1>4, <1>7, <3>1, <3>2 DEF Inv, ChunkInv
  <2> QED
    BY <1>1, <2>1, Frame DEF ChunkInv, PairsOf, IsStale, IsFinal, Stale
<1>9. WorkInv'
  <2>1. ASSUME NEW v \in Worker, NEW e \in Chunks, Has(v, e)'
        PROVE  /\ e \notin waiting
               /\ \A u \in Worker : Has(u, e)' => u = v
               /\ \A p \in PairsOf(e, 0, work'[v].done) : IsFinal(p)
               /\ \A p \in PairsOf(e, work'[v].done, ChunkLen(e)) : IsStale(p)
    BY <1>3, <1>4, <2>1 DEF Inv, WorkInv
  <2> QED
    BY <1>1, <2>1, Frame DEF WorkInv, PairsOf, IsStale, IsFinal, Stale
<1> QED
  BY <1>5, <1>6, <1>8, <1>9 DEF Inv

\* The caller goes on, or unwinds, when no worker has a chunk.
LEMMA ReturnKeepsInv ==
  ASSUME Inv, EdgePanics \/ Join \/ Unwind
  PROVE  Inv'
<1>1. UNCHANGED <<run, start, partner, parents, work>>
  BY DEF EdgePanics, Join, Unwind
<1>2. /\ NoneWorking /\ waiting' = {} /\ phase' \in {"Joined", "Unwound"}
      /\ phase' = "Joined" => phase = "Pairs" /\ waiting = {}
  BY DEF Inv, EdgeInv, EdgePanics, Join, Unwind, AllDone
<1>3. TypeInv'
  BY <1>1, <1>2, Frame DEF Inv, TypeInv
<1>4. SlotInv' /\ EdgeInv'
  BY <1>1, <1>2, Frame DEF Inv, SlotInv, EdgeInv, Stale
<1>5. ChunkInv'
  BY <1>1, <1>2, Frame DEF Inv, ChunkInv, PairsOf, IsStale, IsFinal, Stale, Has
<1>6. WorkInv' /\ Quiet'
  BY <1>1, <1>2 DEF WorkInv, Quiet, NoneWorking, Has
<1> QED
  BY <1>3, <1>4, <1>5, <1>6 DEF Inv

\* A step that changes nothing keeps the invariant.
LEMMA StutterKeepsInv ==
  ASSUME Inv, UNCHANGED vars
  PROVE  Inv'
<1>1. UNCHANGED <<run, start, partner, parents, phase, waiting, work>>
  BY DEF vars
<1>2. TypeInv' /\ SlotInv' /\ EdgeInv'
  BY <1>1, Frame DEF Inv, TypeInv, SlotInv, EdgeInv, Stale, NoneWorking
<1>3. ChunkInv'
  BY <1>1, Frame DEF Inv, ChunkInv, PairsOf, IsStale, IsFinal, Stale, Has
<1>4. WorkInv' /\ Quiet'
  BY <1>1, Frame DEF Inv, WorkInv, Quiet, NoneWorking, PairsOf, IsStale,
     IsFinal, Stale, Has
<1> QED
  BY <1>2, <1>3, <1>4 DEF Inv

\* Every step keeps the invariant.
LEMMA StepInv == Inv /\ [Next]_vars => Inv'
BY HashEdgesKeepsInv, TakeKeepsInv, HashStageKeepsInv, PutDownKeepsInv, ReturnKeepsInv,
   StutterKeepsInv DEF Next, CallerStep, WorkerStep, Panic

\* The invariant holds in every reachable state.
LEMMA Invariant == Spec => []Inv
BY InitInv, StepInv, PTL DEF Spec

\* The buffer is a function of its slots in every state.
BufferIsFunction == parents = [k \in DOMAIN parents |-> parents[k]]

\* No step makes anything else of the buffer.
LEMMA BufferInvariant == Spec => []BufferIsFunction
<1>1. Init => BufferIsFunction
  BY DEF Init, BufferIsFunction
<1>2. BufferIsFunction /\ [Next]_vars => BufferIsFunction'
  <2> SUFFICES ASSUME BufferIsFunction, [Next]_vars PROVE BufferIsFunction'
    OBVIOUS
  <2>1. CASE HashEdges
    BY <2>1 DEF HashEdges, BufferIsFunction
  <2>2. ASSUME NEW w \in Worker, HashStage(w)
        PROVE  BufferIsFunction'
    <3>1. PICK e : parents' = [k \in DOMAIN parents |-> e[k]]
      BY <2>2 DEF HashStage
    <3> QED
      BY <3>1 DEF BufferIsFunction
  <2>3. CASE UNCHANGED parents
    BY <2>3 DEF BufferIsFunction
  <2> QED
    BY <2>1, <2>2, <2>3 DEF Next, CallerStep, WorkerStep, Panic, vars,
       Join, Unwind, Take, ChunkDone, StagePanics, EdgePanics
<1> QED
  BY <1>1, <1>2, PTL DEF Spec

-----------------------------------------------------------------------------
(* The theorems. *)

\* However the workers share out the chunks, and whatever the lengths of chunk
\* and stage, the buffer is in the end what module MerkleTree writes in one step.
THEOREM ParallelIsSequential == Spec => []JoinedIsWritten
<1>1. ASSUME Inv, BufferIsFunction, phase = "Joined"
      PROVE  parents = Level!Written
  <2>1. RunOk /\ DOMAIN parents = 1..Size
    BY <1>1 DEF Inv, TypeInv
  <2>2. ASSUME NEW k \in 1..Size PROVE parents[k] = Final(k)
    <3>1. CASE IsEdge(k)
      BY <1>1, <3>1 DEF Inv, EdgeInv
    <3>2. CASE Final(k) = Stale(k)
      BY <1>1, <3>2 DEF Inv, SlotInv
    <3>3. CASE \E p \in Nat : p < Pairs /\ k = Slot(p)
      <4>1. PICK p \in Nat : p < Pairs /\ k = Slot(p)
        BY <3>3
      <4>2. PICK c \in Chunks : First(c) <= p /\ p < First(c) + ChunkLen(c)
        BY <2>1, <4>1, ChunksCover
      <4>3. p \in PairsOf(c, 0, ChunkLen(c))
        BY <2>1, <4>2, ChunkType DEF PairsOf
      <4>4. c \notin waiting /\ \A w \in Worker : ~ Has(w, c)
        BY <1>1 DEF Inv, Quiet, NoneWorking, Has
      <4>5. IsFinal(p)
        BY <1>1, <4>3, <4>4 DEF Inv, ChunkInv
      <4> QED
        BY <4>1, <4>5 DEF IsFinal
    <3> QED
      BY <2>1, <3>1, <3>2, <3>3, SlotKinds
  <2>3. Level!Written = [k \in 1..Size |-> Final(k)]
    BY <2>1, LevelWritten
  <2>4. parents = [k \in DOMAIN parents |-> parents[k]]
    BY <1>1 DEF BufferIsFunction
  <2> QED
    BY <2>1, <2>2, <2>3, <2>4
<1>2. Inv /\ BufferIsFunction => JoinedIsWritten
  BY <1>1 DEF JoinedIsWritten
<1> QED
  BY <1>2, Invariant, BufferInvariant, PTL

\* A slot changes at most once, from what the buffer held before to its parent,
\* whoever writes it: no worker leaves its chunk.
THEOREM NoSlotWrittenTwice == Spec => SlotsWrittenOnce
<1> DEFINE Once == \A k \in DOMAIN parents :
                     parents'[k] # parents[k] =>
                       parents[k] = <<"stale", k>> /\ parents'[k] = Level!Written[k]
<1>1. ASSUME Inv, [Next]_vars
      PROVE  Once
  <2>1. RunOk /\ DOMAIN parents = 1..Size
    BY <1>1 DEF Inv, TypeInv
  <2>2. \A k \in 1..Size : Level!Written[k] = Final(k)
    BY <2>1, LevelWritten
  <2>3. SUFFICES ASSUME NEW k \in 1..Size, parents'[k] # parents[k]
                 PROVE  parents[k] = Stale(k) /\ parents'[k] = Final(k)
    BY <2>1, <2>2 DEF Stale
  <2>4. CASE HashEdges
    BY <1>1, <2>3, <2>4, EdgesWritten
  <2>5. ASSUME NEW w \in Worker, HashStage(w)
        PROVE  parents[k] = Stale(k) /\ parents'[k] = Final(k)
    BY <1>1, <2>3, <2>5, StageWritten DEF IsStale
  <2>6. CASE UNCHANGED parents
    BY <2>3, <2>6
  <2> QED
    BY <1>1, <2>4, <2>5, <2>6 DEF Next, CallerStep, WorkerStep, Panic, vars,
       Join, Unwind, Take, ChunkDone, StagePanics, EdgePanics
<1>2. Inv /\ [Next]_vars => [Once]_vars
  BY <1>1
<1> QED
  BY <1>2, Invariant, PTL DEF Spec, SlotsWrittenOnce
=============================================================================
