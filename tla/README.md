# rs-merkle-tree in TLA+

A verification development kept beside `rs-merkle-tree`, a fixed-depth,
append-only Merkle tree over pluggable stores. It consists of TLA+ modules
translated from the source, TLC configurations that check them on small
instances, and TLAPS proofs that hold for every depth, hash function, leaf set
and batch size. Paths below are relative to the repository (`src/tree.rs` is
the crate's `src/tree.rs`).

## 1. The system

| component | state | operations | interacts with |
|---|---|---|---|
| `MerkleTree<H, S, DEPTH>` (`src/tree.rs`) | `zeros` (roots of empty subtrees), two scratch buffers; everything else is in the store | `new`, `add_leaves`, `root`, `proof`, `verify_proof`, `num_leaves` | calls `Store::get/put/get_num_leaves` and `Hasher::hash/hash_pairs`; `&mut self` excludes other callers of the same value |
| `Store` (`src/stores/store.rs`) | nodes by (level, index), the number of leaves | `get` (several positions), `put` (one contiguous run), `get_num_leaves` | implemented five times |
| `MemoryStore` | one vector per level | refuses a run that would leave a gap | -- |
| `FileStore` | one file per level; cached node counts, open handles | as above; opens and creates level files, reads its counts from file lengths | file system, no sync, no log |
| `SledStore`, `RocksDbStore`, `SqliteStore` | a map of keys to nodes, a stored and a cached leaf count | a put is one atomic batch; reopening with count 0 clears (sled, SQLite) or not (RocksDB) | the database |
| `Hasher`, `Keccak256Hasher`, `PoseidonHasher` (`src/hasher.rs`) | none | `hash`, `hash_pairs` | called from Rayon workers on large levels |
| `Node` (`src/node.rs`), `MerkleError` (`src/errors.rs`), `src/lib.rs` | none | conversions, error values, re-exports | -- |

`add_leaves` is the one operation that changes anything. It reads the leaf
count and, in a single `get`, the *left partner* of every level at which the
new run starts on a right child; writes the leaves; then, level by level, pairs
the run up (an odd start with the stored partner, an odd end with the zero of
the level), stores the parents and swaps the scratch buffers. The root is the
last node written. Nothing spans the `DEPTH + 1` puts: if one fails, `?`
returns with the levels below written and those above not.

What is hard to test here, and what correctness means for each part:

* **Runs and edges.** Whatever sequence of batches led here, each level's run
  must be paired with the right edge nodes: the stored nodes must be the Merkle
  tree of the leaves, the root its root, and each position's proof must verify.
* **Failures between puts.** Leaves can be counted whose ancestors are missing.
  What is guaranteed then, which of these states the next append repairs, which
  are permanent, and how the two kinds of store differ.
* **Snapshots and buffers.** Partners are read before the writes and used after;
  buffers are sized once and keep data of earlier calls.
* **Limits.** Capacity, index `2^DEPTH`, the number of hashes of a call, widths.
* **Persistence.** Partial writes, lost tails, reopening, two handles on one
  store. Concurrency exists only inside one level (Rayon) and between handles.

`PROJECT.json` lists these hazards at their lines with the properties that
cover them, or with the reason why none does.

## 2. Modules

| module | what it is | source |
|---|---|---|
| `MerkleNodes` | constants `DEPTH`, `ZERO`, `Hash`; shifts, siblings, `Zeros`, the full recomputation of a root (`ReferenceRoot`, the oracle of the repository's own tests), the climb of `verify_proof` | `tree.rs` |
| `AppendOnlyTree` | the abstract specification: a log of leaves, and the root of exactly that log, changed together in one step | doc of `add_leaves` |
| `Store` | what a store is to its callers: `nodes`, `numLeaves`, `Put`, the gaps it refuses; `StorePut` is the step the stores implement | `stores/store.rs` |
| `MerkleTree` | the tree over any store (it extends `Store`), one action per store call | `tree.rs` |
| `MemoryStore`, `FileStore` | the two stores that refuse gaps, each with its refinement mapping to `Store` | `stores/*.rs` |
| `KvStore` | sled, RocksDB and SQLite: the database, its handle, what a crash loses | `stores/*.rs` |
| `DurableTree` | `MerkleTree` and `KvStore` in lockstep: every store call of the tree is a call of the database | both |
| `FileTree` | `MerkleTree` over level files: writes taken in part, kills, new handles, power losses | `tree.rs`, `file_store.rs` |
| `ProofReader` | `proof()` on a second handle next to a tree that appends, for SQLite and for `FileStore` | `tree.rs`, `sqlite_store.rs`, `file_store.rs` |
| `TwoTrees` | two instances of `MerkleTree`, each on a connection of its own to one SQLite file | `tree.rs`, `sqlite_store.rs` |
| `ParHash` | one level hashed by Rayon workers in chunks and stages, with a hasher that may panic | `tree.rs`, `hasher.rs` |
| `Words` | the leaf count, `1 << DEPTH` and the indices as machine words, in trees of any depth | `tree.rs` |
| `NodeText` | `Node::try_from` and `Display` on strings of characters | `node.rs` |
| `MC*` | computable hashes for TLC (the pair of the arguments, so different trees have different roots) and symmetry; `MCValues` runs `Words` and `NodeText` side by side | -- |
| `MerkleTree_proof` | lemmas about shifts, zeros, the recomputed tree and the climb; what holds whatever the store does, if it refuses gaps, and when it reports no I/O error | -- |
| `ParHash_proof` | the workers' chunks hash a level as one step does | -- |
| `DurableTree_proof` | what a tree on a database keeps through crashes | -- |
| `MemoryStore_proof` | `MemoryStore` implements the trait; and, for every width and length, the words and the texts of `Words` and `NodeText` | -- |
| `FileStore_proof` | `FileStore` implements the trait, byte by byte | -- |
| `FileTree_proof` | what a tree on level files keeps through partial writes, kills and power losses | -- |
| `ProofReader_proof` | what a reader gets next to a writer | -- |
| `TwoTrees_proof` | what two trees on one database do and do not do to each other | -- |

### `MerkleTree`: state and actions

`nodes` and `numLeaves` are the store as seen through the trait: a partial map
per level and the leaf count. `scratch` is the pair of buffers with their real
lengths and stale contents. `leaves`, `base` (`num_leaves`), `partners`, `level`,
`start`, `runLen` are the locals of `add_leaves`, and keep their last values
after it returns. `status` is `"Hashing"` during a call and otherwise its
outcome. `hashes` counts hasher calls and is not in the code.

| action | code |
|---|---|
| `AddNothing` | empty batch, early return |
| `AddTreeFull(batch)` | capacity check fails, nothing changed |
| `AddStart(batch)` | count, partners, `put(0, ..)`, buffer sizing |
| `AddStartFails(batch)` | the `get` of the partners or `put(0, ..)` returns an error |
| `HashLevel` | one iteration: hash the run, `put(level + 1, ..)`, swap |
| `HashLevelFails` | the same iteration up to a `put` that returns an error: the parents are in the second buffer, nothing is swapped |

`Root`, `Proof(i)`, `ProofRejected(i)` and `VerifyProof(p)` are the read
operations, state functions here. The two kinds of store differ in `Rejects`:
`RejectGaps` is TRUE for `MemoryStore` and `FileStore`, FALSE for the key-value
stores. `StoreMayFail` says whether a call may return an I/O error; a failed
`put` then changes nothing, which is exact for the key-value stores (atomic
batch) and refined in `FileTree` for `FileStore`.  The other modules reuse these
actions: `DurableTree`, `FileTree` and `ProofReader` extend `MerkleTree`, and
`TwoTrees` instantiates it twice.

### The stores

`MemoryStore` is sequential: one action per path through `put` (`PutNothing`,
`PutRefused`, `PutRun`), with the growth of the vector of levels before the
check.

`FileStore` keeps the level files as sequences of pieces (`NodeLen` of them per
node) and the handle's `counts`. `New` probes the directory; a put is `Put`, then
one `OpenLevel` per missing file, then `Refuse` or `Accept`, then `Write` steps
that take any number of the remaining bytes, then `PutDone`, which advances the
count. `OpenLevelFails` and `WriteFails` return an error from the middle,
`Crash` drops the handle anywhere and keeps the files (the process dies, the
operating system does not). `acked` records what was acknowledged.

`KvStore` keeps the database as the `history` of its states since the last sync.
A put appends one state (batch or transaction), `Sync` forgets a prefix, `Crash`
falls back to any state of the history. The variable `backend` says which of the
three it is; they differ in whether opening an empty database clears it
(`OpenAndClear`, `OpenAndFlush`) and in which puts store the count
(`StoresCount`).

### The compositions

`DurableTree` joins each action of `MerkleTree` with the call of `KvStore` it
makes: `PutLeaves` is `AddStart` and `Kv!Put` of the leaves, `PutParents` is
`HashLevel` and `Kv!Put` of the parents, and so on; `Close`, `Crash` and `Open`
end a handle and start a new one with a new tree. `nodes` and `numLeaves` are
still changed by module `Store`, independently of the database, and that the two
agree is the property `StoreSeen`. `ends` remembers for every state of the
history how many leaves the calls it holds in full had stored.

`FileTree` splits each level file in what the handle counts (`nodes`) and what
lies behind (`unseen`). `Proceed` are the actions of `MerkleTree` whose writes are
taken whole, `LeavesPartWritten` and `ParentsPartWritten` those of which only
some nodes, and perhaps half of one more, reach the file; `Reopen` counts from
the files' lengths; `PowerLoss` takes each file back, on its own, to before one of
the last writes. An execution meets either failing writes or power losses
(`faults`); kills and new handles occur in both. That level files are opened one by
one, and that this may stop among them, is in `FileStore` only.

`ProofReader` adds a reader with a handle of its own: `FetchAll` is SQLite's one
query, whose rows are a set until `ORDER BY ord`; `FetchOne` is one read of a
level file, cut off at the count the handle took when it was opened, and torn if
the writer is just there; `FetchRoot` is the second store call of `proof()`.

`TwoTrees` shares `nodes` and the row of the count between two trees and keeps
everything else twice. Opening is what `SqliteStore::new` does, in its three
transactions (`OpenA`, `ClearNodes`, `ClearCount`). `turns` says whether the
callers wait for one another and reopen before they call.

`ParHash` refines one `HashLevel`: `HashEdges`, then workers that `Take` a chunk
and go through it in stages (`HashStage`, `ChunkDone`), then `Join`; `StagePanics`
and `EdgePanics` are a hasher that unwraps an error, `Unwind` is Rayon passing a
panic on.

Definitions marked "Wrong" are plausible bugs, unused, with which the runs were
validated: swapping one in must break the property it is meant for.

Abstractions: a node is a value, `Hash` an uninterpreted function; integers are
mathematical except in `Words`, which shows up to which depth that is right;
`HashLevel` computes the parents of a level in one step, which `ParHash` justifies;
error texts are left out.

## 3. Runs

Every run enumerates all interleavings of calls and failures. Deadlock checking
is on, for a tree or a store can always be called again, except in `par_hash` and
`values`, whose behaviours end.

| run | question | instance |
|---|---|---|
| `tree_memory` | Is the tree right over a store that only refuses gaps (`MemoryStore`)? | depth 3, leaves `{zero, a}`, batches up to 5 |
| `faults_kv` | What survives store errors over a key-value store? | depth 3, leaf `a`, batches up to 4 |
| `memory_store` | Does `MemoryStore` implement the trait? | 2 levels of 3 positions, nodes `{a, b}` |
| `file_store` | Does `FileStore`, through errors, partial writes and kills? | 2 levels of 2 positions, nodes of 2 pieces |
| `file_tree` | What becomes of a tree on files that are part-written, reopened, or older than they were? | depth 2, leaves `{a, b}`, batches up to 3, 2 writes lost |
| `durable_tree` | What becomes of a tree on a database that loses its last batches? | depth 2, leaves `{a, b}`, batches up to 3, 5 batches lost, all three databases |
| `proof_reader` | What does a reader on another handle get? | depth 2, leaves `{zero, a}`, batches up to 3 |
| `two_trees` | What do two writers on one SQLite file do to each other? | depth 2, leaves `a` and `b`, batches up to 2 |
| `par_hash` | Is a level hashed in parallel the level hashed in one step? | runs of 1 to 26 nodes from either side, chunks of 4 pairs, stages of 3, 3 workers |
| `values` | Are numbers numbers and nodes nodes? | words of 4 bits, depths 1 to 9; strings of up to 6 characters |
| `proof_at_capacity`, `reopen_after_error` | Statements of the source that do not hold (section 4) | depth 2 |

`tree_memory`: the buffers fit (`SlicesInBounds`), no run is refused
(`NeverRejected`), every position has a verifying proof with the right leaf
(`ProofsVerify`), a proof that was changed in its leaf or its index verifies only
if it is right (`ProofPinsLeaf`), the tree implements `AppendOnlyTree` -- a refused
batch is invisible, an accepted one appears at once with its root
(`ImplementsAppendOnlyTree`; no store call fails here, failures are those of
`faults_kv`) -- and the root always catches up with the stored
leaves (`RootCatchesUp`).

`faults_kv`: the partners read on entry are still right when used
(`PartnersFresh`); no node over padding only is ever stored (`NoPhantomNodes`);
complete nodes are final (`CompleteNodesFinal`), failures included. A call that
returns Ok repairs everything provided the tree left of its insertion path was
sound (`HealedByNextAdd`); a failed call leaves it so if its batch completed no
node of the level it failed at (`HealableUnlessCrossed`); otherwise nothing ever
repairs it (`TornForever`), although later calls return Ok. `HashBound` is the
exact cost of a call.

`memory_store`: the refinement `ImplementsStore`, and that exactly the runs that
leave a gap are refused (`RefusesExactlyGaps`), which a refinement cannot say.

`file_store`: a cached count never exceeds what its file holds (`ReadsBacked`);
acknowledged nodes are read back by this and every later handle until a put
covers them (`AckedSurvives`), also where `ensure_level` opened the level files one
by one and stopped among them; and each handle implements the trait, but for the
run of a write that failed, outside of which nothing changes (`ImplementsStore`).

`file_tree`: level files hold no hole (`FilesContiguous`, on which counting from
their lengths relies); complete nodes survive failed writes, kills and new
handles (`StoredNodesFinal`); a handle whose levels have fallen behind the leaves
never completes a call again, only a new one may (`StuckUntilReopened`); a kill
inside a call is repaired by the next append under the condition of
`HealableUnlessCrossed`, if no leaves of an earlier failed call lie behind the
count (`KillHealable`); and after any mix of old and new files a call that
returns Ok over a prefix that is sound publishes the right root (`RootHealed`).
Proofs are another matter: after a power loss, nodes right of the leaves may be
stale, and a proof whose sibling is one of them does not verify.

`durable_tree`: the database holds what the tree takes it to hold, and the cached
count is the stored one (`StoreSeen`); every state a crash can fall back to has a
count that fits its leaves, and no nodes without leaves, so that the clearing on
open deletes nothing and its absence in RocksDB is harmless (`CountFitsNodes`);
as long as the tree is sound, its root is the root of the calls the database
holds in full, whatever was lost in between (`RootOfWholeCalls`); what is synced
is final (`SyncedNodesFinal`).

`proof_reader`: a proof verifies if no call was in progress while its siblings
were read and none completed before its root was (`QuietProofVerifies`); a root
handed out is always that of whole calls, except that a file may show it torn
(`RootsOfWholeCalls`); and a proof that verifies, however its reads were
interleaved, has the leaf of its index in the tree of its root
(`AcceptedProofsAreOfThePast`).

`two_trees`: nodes complete in the eyes of both trees are final
(`AgreedNodesFinal`); trees that take turns, and reopen before they do, implement
one append-only log (`TurnsImplementLog`). Without turns they do not (section 4).

`par_hash`: when the call goes on the buffer is what `MerkleTree` says
(`JoinedIsWritten`); no slot is written twice or with another's parent
(`SlotsWrittenOnce`); it returns or unwinds (`Returns`). That nobody is in the buffer
any more when it does is what Rayon's `for_each` promises: the guards of `Join` and
`Unwind` take it from there.

`values`: no sum wraps and nothing panics below the width of a word, a shorter
word for `u64` (`CountNeverWraps`); the shifts find the right partners at any
depth, and `verify_proof` the right side up to the width (`ShiftsFindTheirBit`);
from one level more on, a release build has no proof for leaf 1. Text that is read
as a node is written back as it was, and no byte of it is made up (`RoundTrip`).

Bounds. Depth 3 gives eight positions and three inner levels: a run can start
and end on either kind of child at each level independently, partners exist at
zero to three levels, and a batch of up to 5 (4 with faults) crosses the middle
from every start, wraps several subtree boundaries and fills the tree; a second
and a third call then start from every such position, also after each possible
failure. The compositions multiply these states and have depth 2: a call has
three puts, failures hit each of them, and two to four calls fill the tree. Two
leaf values tell a rewritten leaf from the old one where values may be lost; where
nothing is lost one suffices, because the free hash separates positions;
`tree_memory` and `proof_reader` add the leaf that equals the padding. Five lost
batches reach back over a whole call into the one before; two lost writes are
enough for a level file to be newer or older than its neighbour. For the stores
alone, two levels show that a put leaves the other levels alone and that files
are opened in order, and two or three positions let a run rewrite the tail of the
prefix, extend it, do both, or leave a gap; a node of two pieces can be torn. In
`par_hash`, 26 nodes are three full chunks and the beginning of a fourth, with a
head or a tail or both, each chunk of one full and one short stage. Leaf and node
values are interchangeable in `file_tree`, `durable_tree` and `file_store`, which
use that symmetry.

Fairness. `FairSpec` of `MerkleTree` (`tree_memory`) has weak fairness of the loop
`HashLevel \/ HashLevelFails`: the loop waits for nothing but its store calls, and
those return. Callers are not assumed to call. `FairSpec` of `ParHash` has weak
fairness of the calling thread and of each worker's steps, which wait for nothing
but one another; that a hasher panics is never required.

## 4. Where the source says otherwise

Checked as violations:

* `proof_at_capacity`: `tree.rs:239` rejects `leaf_idx > 1 << DEPTH`; index
  `2^DEPTH` is out of bounds but accepted, and its proof does not verify.
* `reopen_after_error`: the test `reopen_keeps_everything` (`file_store.rs:244`)
  holds as long as no write fails. After a call whose leaves were part-written and
  a shorter one that returned Ok, a new handle counts leaves no successful call
  added. The same write shows that a count is not always `file_len / Node::LEN`
  (`file_store.rs:22`).

Seen while modelling, the passing property showing what does hold:

* `tree.rs:140-142`: an absent left partner "cannot happen". After a failed call
  over a key-value store it can, and the level's zero is hashed in its place
  (`PartnersFresh` reads "absent" as zero for that reason; `TornForever`).
* `tree.rs:99-100`: "at most `leaves + DEPTH`" hashes; the reachable maximum is
  `leaves + 2 * DEPTH - 3` for `DEPTH > 1` (`HashBound`).
* `file_store.rs:5-6`: level files "can be append only"; the ancestors of the last
  leaves are rewritten by every later call, so a torn write may damage a node an
  earlier call stored. `StoredNodesFinal` is what is append-only: complete nodes.
* Repository `README.md:9`: "Once added, a leaf cannot be modified." A `SqliteStore`
  opened before another connection appended starts at its own count and replaces
  the other's leaves (`sqlite_store.rs:13,169,185`); only what both knew of is safe
  (`AgreedNodesFinal`).
* `sqlite_store.rs:100`: "If the count is 0, clear the db". Count and clearing are
  separate transactions, and what is committed in between is deleted. No property
  rules that out; trees that take turns never are in between, for no call begins
  while one is being opened (`TurnsImplementLog`).
* `sqlite_store.rs:127`: "levels length must be less than 256"; exactly 256 keys
  are answered (`TooMany`).
* `node.rs:52`: "Invalid hex character" is not reported for a sign before one digit,
  which `from_str_radix` accepts (`RoundTrip` makes that exception).

## 5. Proofs

The theorems about trees hold for every `DEPTH >= 1`, every `Hash`, `ZERO`, set
`Leaf` and `MaxBatch`; those of `FileStore_proof` for every set `Node`, every number
of levels and of nodes per level, and every length of a node. The assumptions on
constants (`DepthAssumption`, `StoreAssumption`, `TreeAssumption`,
`ParHashAssumption`, `FileStoreAssumption`, `DurableTreeAssumption` and those of
`KvStore` and `ProofReader`) give their types and say which of the modelled stores
is meant. Beyond them there are hypotheses of single theorems: `~StoreMayFail` where
it is stated, `CollisionFree` (different pairs of nodes have different hashes) in
`ProofsPinLeaves` and `AcceptedProofsAlwaysOfThePast`, and `TornIsNoHash` (what is
read of a half-written node is not a hash) in the latter. `WordsAssumption` says that
a slice is shorter than half the words, as `isize::MAX` makes it, `TextAssumption`
that the wide character is none of the others.

*Induction over levels.* `Pow2`, `Zeros`, `FullTree` and `Climb` are recursive
functions over `0..DEPTH`. That they satisfy their equations is proved once each
in `MerkleTree_proof` through a minimal counterexample (well-foundedness of the
naturals), and from then on only the equations are used. The arithmetic of
shifts is in a few lemmas there: halving a shift, the parity of a run's end.

*`Shape`* = `Framed`, that is `TypeOK`, where the run is (`start = base >> level`,
its end, `RunShape`) and `base <= numLeaves`, with which indices each level holds
(`StoreShape`). `TypeOK` alone is not inductive: that `start` and the buffers'
slices stay in range depends on where the run ends. `Framed` is, without a word on
where the store ends, which is all that is left of `Shape` after a power loss.
Gives `TypeCorrect`, `SlicesAlwaysInBounds`, `NeverPhantomNodes`, `AppendOnly`,
`RootLast`, `NoLateRepair`.

*`Content`* = what the run read at the current level is what the store holds
(`RunStored`), the unread partners are what the store holds (`PartnersRead`),
the levels below the current one agree right of the run's start (`LevelsAgree`),
and what a finished call left (`Finished`). It needs `Shape`: that a write at level + 1
does not touch a partner is a fact about where runs start. Gives
`PartnersAlwaysFresh`, `NextAddHeals`, `FailureHealable`. `Budget` bounds the
hashes spent per level by the width of the run and gives `CallCost`.

*`Intact`* (the end of `MerkleTree_proof`, `~StoreMayFail`) = no call ever failed,
no level is behind the run, everything left of the run is a Merkle tree. Gives
`NeverRefused`, `AlwaysConsistent`, `EveryProofVerifies`, and with
`RootRecomputed` (in a consistent tree the stored root is the recomputed one)
the refinement `TreeImplementsLog`: every step maps to `AppendBatch` or to a
stutter.

*`GapInv`* = every level is contiguous, and inside a call no level written so far
was behind its run (`CaughtUp`). Without `CaughtUp` one could not exclude that the
level that is behind is one the call has passed already. It needs only `Framed`.
Gives `LevelsStayContiguous` and `NoCallCompletesBehind`.

*Proofs of leaves.* `ProofsPinLeaves` adds to `Intact` the hypothesis
`CollisionFree`: different pairs of nodes have different hashes. Then a climb that
ends in the stored root has passed, level by level from the top down, the stored
nodes of the path of its index, so the leaf it started from is the stored one.
Without the hypothesis the statement is false, which is the point of a hash.

*Parallel hashing* (`ParHash_proof`, every number of workers, chunk and stage
length; assumption `ParHashAssumption`). The chunks are intervals of pairs that
cover all of them (`ChunksCover`) and do not meet (`ChunksApart`); this is where
the rounded-up division matters. The invariant `Inv` then says of every chunk who
has it and how far it is: a chunk that waits is untouched, one that a worker has is
hashed up to `done` and untouched behind, and while nobody has panicked one that
is neither is finished. `JoinedIsWritten` alone is not inductive, for it says
nothing before the join. Gives `NoSlotWrittenTwice` and `ParallelIsSequential`, that `HashLevel` of `MerkleTree` may be one step.

*Databases* (`DurableTree_proof`). What a crash falls back to is some state of the
history, so the invariant is about all of them at once. `Durable` = `Shape /\
Content` of the tree that is open, `Recoverable(history, ends)` and `Linked`. An
`Entry` of the history has a count that fits its leaves, no nodes without leaves,
and, if it is sound up to the whole calls it holds, the root of just these;
`Recoverable` says that every entry is one, and that each keeps the nodes that were
complete in those before it (`Kept`). `Linked` says that the newest entry is what
the tree takes the store to hold. `RootOfWholeCalls` alone is not inductive: a crash
makes an old state the present one, about which it said nothing. Gives
`StoreAlwaysSeen`, `CountAlwaysFits`, `RootAlwaysOfWholeCalls`, `SyncedAlwaysFinal`.

*Memory* (`MemoryStore_proof`). The invariant, `LevelsFit`, only bounds the vectors;
the argument is about values. `Height` and `Row` are what a vector of levels shows of
a level, and two lemmas say what `put` does to them: growing the vector of levels
shows nothing new (`ResizedShows`), overlaying a run shows the run and what was around
it (`PutRunShows`, on any level, existing or not). Gives `MemoryStoreImplements` and
`RefusesOnlyGaps`, where a run is past the end of its vector exactly if the trait
calls it a gap (`PastIsGap`).

*Words* (end of `MemoryStore_proof`, which extends `MCValues`). `Pow2` is a table that
defines itself, so first it must exist: there is no least length for which it does
not (`PowersExist`), which takes the place of an induction. Powers double, grow
(`PowersGrow`), and `1 << n` is `2^n` or, past the width, the power of the remainder,
never above half the words (`ShiftedOne`). The invariant, `Counted`, says that the
count is at most `1 << depth`; from it, and from slices being shorter than half the
words, no sum reaches the end of the word (`CountsNeverWrap`), and a shift past the
width, which would go wrong if the bit it finds mattered, is of a count below that
power, whose bit is 0 (`ShiftsAlwaysFindTheirBit`).

*Text* (end of `MemoryStore_proof`). `ReadPairs` is the
argument: the length is measured in bytes and the string cut by characters, so a
string with wide characters has too few pairs, but then one of the pairs there are
has a wide character and is no number. So an accepted string has two characters for
each byte, each pair two digits or a sign and one. `WriteRead` says that what
`Display` writes is read as the node it is of. Gives `TextAlwaysRoundTrips`. The
digits are 0, f and F, as in the run.

*Files* (`FileStore_proof`). `Consistent` = what a level file is (`DiskShape`), what
the handle takes it to be (`HandleShape`), where in a put the handle is
(`CallShape`) and where the acknowledged nodes are (`AckedShape`). A write goes to
byte offsets, so the argument is that the bytes of a node outside the run are
outside the bytes of the run, whatever the length of a node, and that writing the
first bytes and then the next is writing both. Gives `ReadsAlwaysBacked`,
`AckedAlwaysSurvives`, and the refinement `StoreImplemented`: the step that
acknowledges a put is `StorePut`, the steps of a write that failed are those
`ImplementsStore` allows, all others stutter.

*Trees on files* (`FileTree_proof`). A power loss takes each level file back on its
own, so levels above the leaves may reach past the last of them: `Shape` and
`Content` do not hold, and `NextAddHeals` with them. `FileInv` keeps `Framed`,
`GapInv`, `RunStored` and `PartnersRead` and adds three things. Every file that is
read, or that may come back, holds a node at each index below any it holds
(`FilesShape`); it is what makes the length of a file a count. What a failed write
left behind the count of a level above the leaves lies left of the frontier and is
the hash of its children (`UnseenSound`): the write was not taken whole, so the
last node of the run, the only one that is padded and would change later, is not
among it. And inside a call the levels hashed so far are, up to the last leaf, the
tree over the stored leaves (`Recomputed`), because the run includes the last leaf
and the padding is a zero whatever the file holds there; stale nodes behind it are
never read. Gives `FilesStayContiguous`, `AcknowledgedNodesStay`,
`HandleStaysStuck`, from `Recomputed` at the top `RootHealsAfterLoss`, and `KillHeals`:
a new handle counts what the old one did not see, by `UnseenSound` this changes
nothing it reads left of the call's path, and by `CaughtUp` nothing on the levels
the call had stored. Before it was proved, `FileInv` was checked with TLC on the
instance of `file_tree`, with two leaves and with one leaf and `ZERO`.

*Readers* (`ProofReader_proof`). `Showing` says what every level shows at any moment:
inside a call the levels written so far are those of the tree with the batch, the
others those of the tree without it. It follows that single reads are nodes of trees
there were, which gives `RootsAlwaysOfWholeCalls`, and that what was read while
nothing changed is of one tree (`Quiet`), which gives `QuietProofsVerify`. Reads of
several trees may be mixed in one proof; `ClimbPinned` shows that if it verifies
nevertheless, its leaf is the one of the tree whose root it names
(`AcceptedProofsAlwaysOfThePast`). A node that is just being overwritten is torn, the
old or the new one; that the new root is the right one although it is not counted
yet is `ParentValue`. The rows of SQLite's query come in the order of the request
because there is only one increasing map of `1..n` into itself (`InPlace`).

*Two trees* (`TwoTrees_proof`, both callers' leaves arbitrary). `MerkleTree_proof` is
instantiated once per tree, and the steps of `TwoTrees` are shown to be steps of the
instances, so that all that is proved about a step is available for either. What
differs is what a neighbour leaves of the invariants. Without turns only `Framed`
does, which is about a handle's own locals and where nodes may be at all: `Apart` is
`Framed` of both handles and, of a tree that is still clearing, that it takes the
store to be empty. A put of either tree starts at its own frontier, so what both know
of stays (`AgreedAlwaysFinal`). `Shape` and `Content` break as soon as the other tree
writes, also between calls, and a caller in turns may meet a store that the other
tree has changed altogether. `InTurns` therefore keeps them for the tree in a call
only, and says of the store between calls that it is `Whole`: all nodes of the
counted leaves, no others, each parent the hash of its children. A handle that knows
the count of a whole store has `Shape`, `Content` and `Intact` (`ReadyA`), a call ends
in a whole store (`RestA`), and a tree that is opened in the middle of a call finds a
count above zero and clears nothing (`TurnsOpenA`). With `SilentStep` and
`CommitStep` of each tree this gives `TurnsAlwaysImplementLog`. The facts that come in
a version for each tree end in `A` and `B`. `Apart` and `InTurns` were checked with
TLC on the instance of `two_trees` before they were proved.

## 6. What only TLC checks

Liveness (`RootCatchesUp`, `Returns`), which the prover cannot reach. The violations
are TLC counterexamples. Of the values, that three of the hexadecimal digits stand for
all is an abstraction of the model that neither tool looks behind.

## 7. Not modelled

* What Keccak256 and Poseidon compute: arithmetic outside the reach of both tools.
  The hash is uninterpreted, free in the runs, collision-free where a theorem says so.
* Two writing `FileStore` handles on one directory: nothing in the code arbitrates
  between them. What two writers with counts of their own do to each other is shown
  for SQLite.
* The encoding of keys in the databases (injective by its fixed width), error
  texts, `Node::random`, feature gates, re-exports, benchmarks and their plots.
* The length check of `get`, which the tree cannot fail.

## 8. What is left

Every safety property that a passing run checks is proved as well. What would extend
this is larger instances of `two_trees` and `file_tree`, whose states grow fastest,
and all sixteen digits in `NodeText`.
