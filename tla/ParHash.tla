------------------------------- MODULE ParHash -------------------------------
(***************************************************************************)
(* Hashing one level inside add_leaves, below the granularity of module    *)
(* MerkleTree: the two edges by the calling thread, and the whole pairs    *)
(* between them by hash_pairs -- in one piece, or, from MIN_PARALLEL_HASHES *)
(* pairs on, in chunks that Rayon's workers take up in any order.  Within  *)
(* a chunk hash_pairs stores STAGE parents at a time (Keccak; one at a     *)
(* time by default).  A hasher may panic on a node it does not accept      *)
(* (Poseidon), in any worker.                                              *)
(***************************************************************************)
EXTENDS MerkleNodes

CONSTANTS
  MIN_PARALLEL_HASHES,
  STAGE,       \* how many parents hash_pairs stores at once
  Worker,      \* the threads of Rayon's pool
  None,        \* a worker without a chunk
  MaxRun,      \* bound: the longest run of nodes of a level
  Spare,       \* how much longer than its parents the buffer is
  MayPanic     \* TRUE if the hasher may panic

ASSUME ParHashAssumption ==
  /\ MIN_PARALLEL_HASHES \in Nat \ {0}
  /\ STAGE \in Nat \ {0}
  /\ MaxRun \in Nat
  /\ Spare \in Nat
  /\ MayPanic \in BOOLEAN
  /\ None \notin [chunk : Nat, done : Nat]

VARIABLES
  run,       \* the nodes of the level
  start,     \* where they start
  partner,   \* the stored node left of them
  parents,   \* the buffer the parents go to
  phase,     \* "Edges", "Pairs", "Panicking", and in the end "Joined" or "Unwound"
  waiting,   \* the chunks no worker has taken up
  work       \* for each worker, its chunk and how many parents of it are stored

vars == <<run, start, partner, parents, phase, waiting, work>>

-----------------------------------------------------------------------------
HeadLen == start % 2
Pairs == (Len(run) - HeadLen) \div 2
TailLen == (Len(run) - HeadLen) % 2

\* Pair p, from 0, is the p-th of as_chunks::<2> behind the head.
HashOfPair(p) == Hash(run[HeadLen + 2 * p + 1], run[HeadLen + 2 * p + 2])

\* Wrong: the chunks are parallel even where the last one is not full.
WholeChunks == Pairs \div MIN_PARALLEL_HASHES

\* par_chunks: as many as it takes, the last one may be short.
NumChunks == (Pairs + MIN_PARALLEL_HASHES - 1) \div MIN_PARALLEL_HASHES

Parallel == Pairs >= MIN_PARALLEL_HASHES

Chunks == IF Parallel THEN 0..(NumChunks - 1) ELSE {0}

First(c) == c * MIN_PARALLEL_HASHES
Least(a, b) == IF a < b THEN a ELSE b
ChunkLen(c) == IF Parallel THEN Least(MIN_PARALLEL_HASHES, Pairs - First(c)) ELSE Pairs

\* Wrong: a stage may run on into the next chunk; every stage is one short.
StagePastChunk(c, done) == Least(STAGE, Pairs - First(c) - done)
StageButOne(c, done) == Least(STAGE, ChunkLen(c) - done) - 1

\* The parents stored next, fewer than STAGE at the end of a chunk.
StageLen(c, done) == Least(STAGE, ChunkLen(c) - done)

\* Wrong: the body is not shifted by the head.
SlotFromZero(p) == p + 1

\* Where the parent of pair p goes: body_out starts behind the head's parent.
Slot(p) == HeadLen + p + 1

Init ==
  /\ run \in {[k \in 1..n |-> <<"node", k>>] : n \in 1..MaxRun}
  /\ start \in 0..1
  /\ partner = <<"partner">>
  /\ parents = [k \in 1..(Len(run) \div 2 + 1 + Spare) |-> <<"stale", k>>]
  /\ phase = "Edges"
  /\ waiting = {}
  /\ work = [w \in Worker |-> None]

\* parents[0] from the stored partner, the last one from the level's zero.
HashEdges ==
  /\ phase = "Edges"
  /\ parents' = [k \in DOMAIN parents |->
       IF HeadLen = 1 /\ k = 1 THEN Hash(partner, run[1])
       ELSE IF TailLen = 1 /\ k = HeadLen + Pairs + 1 THEN Hash(run[Len(run)], Zeros[0])
       ELSE parents[k]]
  /\ waiting' = Chunks
  /\ phase' = "Pairs"
  /\ UNCHANGED <<run, start, partner, work>>

\* A worker takes up a chunk.  After a panic elsewhere it may or may not.
Take(w) ==
  /\ phase \in {"Pairs", "Panicking"}
  /\ work[w] = None
  /\ \E c \in waiting :
       /\ work' = [work EXCEPT ![w] = [chunk |-> c, done |-> 0]]
       /\ waiting' = waiting \ {c}
  /\ UNCHANGED <<run, start, partner, parents, phase>>

\* One round of hash_pairs.
HashStage(w) ==
  /\ work[w] # None
  /\ LET c == work[w].chunk
         from == First(c) + work[w].done
         n == StageLen(c, work[w].done) IN
     /\ work[w].done < ChunkLen(c)
     /\ parents' = [k \in DOMAIN parents |->
          IF \E p \in from..(from + n - 1) : k = Slot(p)
          THEN HashOfPair(CHOOSE p \in from..(from + n - 1) : k = Slot(p)) ELSE parents[k]]
     /\ work' = [work EXCEPT ![w].done = @ + n]
  /\ UNCHANGED <<run, start, partner, phase, waiting>>

ChunkDone(w) ==
  /\ work[w] # None
  /\ work[w].done >= ChunkLen(work[w].chunk)
  /\ work' = [work EXCEPT ![w] = None]
  /\ UNCHANGED <<run, start, partner, parents, phase, waiting>>

\* The hasher does not accept a node of the next pairs.
StagePanics(w) ==
  /\ MayPanic
  /\ work[w] # None
  /\ work[w].done < ChunkLen(work[w].chunk)
  /\ work' = [work EXCEPT ![w] = None]
  /\ phase' = "Panicking"
  /\ UNCHANGED <<run, start, partner, parents, waiting>>

EdgePanics ==
  /\ MayPanic
  /\ phase = "Edges"
  /\ HeadLen + TailLen > 0
  /\ phase' = "Unwound"
  /\ UNCHANGED <<run, start, partner, parents, waiting, work>>

NoneWorking == \A w \in Worker : work[w] = None

\* for_each returns when every chunk is done.
AllDone == waiting = {} /\ NoneWorking

Join ==
  /\ phase = "Pairs"
  /\ AllDone
  /\ phase' = "Joined"
  /\ UNCHANGED <<run, start, partner, parents, waiting, work>>

\* A panic reaches the caller of for_each once no worker is in the buffer.
Unwind ==
  /\ phase = "Panicking"
  /\ NoneWorking
  /\ phase' = "Unwound"
  /\ waiting' = {}
  /\ UNCHANGED <<run, start, partner, parents, work>>

WorkerStep(w) == Take(w) \/ HashStage(w) \/ ChunkDone(w)
CallerStep == HashEdges \/ Join \/ Unwind
Panic == EdgePanics \/ \E w \in Worker : StagePanics(w)

Next == CallerStep \/ (\E w \in Worker : WorkerStep(w)) \/ Panic

Spec == Init /\ [][Next]_vars

\* The calling thread and every thread of the pool keep running; none has to panic.
FairSpec == Spec /\ WF_vars(CallerStep) /\ \A w \in Worker : WF_vars(WorkerStep(w))

-----------------------------------------------------------------------------
(* Properties of every interleaving of the workers. *)

\* The level as module MerkleTree hashes it, in one step.
Level == INSTANCE MerkleTree WITH
  RejectGaps <- FALSE, Leaf <- {}, MaxBatch <- 0, StoreMayFail <- FALSE,
  nodes <- <<>>, numLeaves <- 0, status <- "Hashing", base <- start, hashes <- 0,
  level <- 0, leaves <- run, runLen <- Len(run), partners <- [l \in {0} |-> partner],
  scratch <- << <<>>, [k \in DOMAIN parents |-> <<"stale", k>>] >>

\* When the call goes on, the buffer is what module MerkleTree says, however the
\* workers shared the chunks out: no parent is lost at the end of a chunk or of
\* a stage, none is at the place of another.
JoinedIsWritten == phase = "Joined" => parents = Level!Written

\* No thread overwrites what another has hashed, and none leaves its chunk:
\* a slot holds what it held before, or its parent, for good.
SlotsWrittenOnce ==
  [][ \A k \in DOMAIN parents :
        parents'[k] # parents[k] =>
          parents[k] = <<"stale", k>> /\ parents'[k] = Level!Written[k] ]_vars

\* The call returns, or passes a panic on.
Returns == <>(phase \in {"Joined", "Unwound"})
=============================================================================
