----------------------------- MODULE DurableTree -----------------------------
(***************************************************************************)
(* The tree over sled, RocksDB or SQLite: every store call of add_leaves   *)
(* is a call of module KvStore, whose database may be brought back to what *)
(* it was before some of the last puts, between two calls or inside one;   *)
(* then a new handle is opened and a new tree made over it.                *)
(*                                                                         *)
(* `nodes` and `numLeaves` are what the tree takes the store to hold, as   *)
(* module Store has it change; that the database agrees is a property.     *)
(***************************************************************************)
EXTENDS MerkleTree, SequencesExt

CONSTANTS
  None,      \* no count is stored, or no handle open
  MaxLost,   \* bound: how many puts a crash may lose
  Backends   \* the databases considered

ASSUME DurableTreeAssumption ==
  /\ ~RejectGaps
  /\ None \notin Int
  /\ MaxLost \in Nat
  /\ Backends \subseteq {"sled", "rocksdb", "sqlite"}

VARIABLES
  backend, history, cached, outcome,   \* of KvStore; its numLeaves is `cached`
  ends    \* instrumentation: for each state in history, num_leaves when the
          \* last call that it holds in full returned

kvVars == <<backend, history, cached, outcome>>
durableVars == <<vars, kvVars, ends>>

Kv == INSTANCE KvStore WITH TopLevel <- DEPTH, numLeaves <- cached

-----------------------------------------------------------------------------
DurableInit ==
  /\ Init
  /\ Kv!Init
  /\ ends = <<0>>

\* The states of the database a put has added hold `whole` leaves of whole calls.
Extend(whole) ==
  ends' = [k \in 1..Len(history') |-> IF k <= Len(ends) THEN ends[k] ELSE whole]

\* The put of the leaves, and the put of a level of parents.
LeavesPut(batch) == [level |-> 0, start |-> numLeaves, run |-> batch]
ParentsPut == [level |-> level + 1, start |-> start \div 2, run |-> Parents]

\* A call that does not reach the store.
Refuse ==
  /\ cached # None
  /\ AddNothing \/ \E batch \in Batches : AddTreeFull(batch)
  /\ UNCHANGED <<kvVars, ends>>

PutLeaves(batch) ==
  /\ Kv!Enabled
  /\ AddStart(batch)
  /\ Kv!Put(LeavesPut(batch))
  /\ Extend(Last(ends))

\* The get of the partners returns an error, or the put of the leaves does.
PutLeavesFails(batch) ==
  /\ Kv!Enabled
  /\ AddStartFails(batch)
  /\ UNCHANGED kvVars \/ Kv!PutFails(LeavesPut(batch))
  /\ UNCHANGED ends

PutParents ==
  /\ Kv!Enabled
  /\ HashLevel
  /\ Kv!Put(ParentsPut)
  /\ Extend(IF status' = "Ok" THEN numLeaves ELSE Last(ends))

PutParentsFails ==
  /\ Kv!Enabled
  /\ HashLevelFails
  /\ Kv!PutFails(ParentsPut)
  /\ UNCHANGED ends

Sync ==
  /\ Kv!Sync
  /\ ends' = SubSeq(ends, Len(ends) - Len(history') + 1, Len(ends))
  /\ UNCHANGED vars

\* What the store holds once no handle caches anything, and a tree not made yet.
Found ==
  /\ nodes' = Last(history').nodes
  /\ numLeaves' = Kv!CountOf(Last(history'))
  /\ NewTree

\* The handle is dropped, or the process killed, between two calls or inside one.
Close ==
  /\ Kv!Close
  /\ Found
  /\ UNCHANGED ends

Crash ==
  /\ Kv!Crash
  /\ \E k \in DOMAIN history : history' = <<Kv!Survivor(k)>> /\ ends' = <<ends[k]>>
  /\ Found

\* The store's new and MerkleTree::new.
Open ==
  /\ Kv!OpenAndClear \/ Kv!OpenAndFlush
  /\ nodes' = Last(history').nodes
  /\ numLeaves' = cached'
  /\ NewTree
  /\ ends' = [k \in 1..Len(history') |-> IF cached' = 0 THEN 0 ELSE ends[k]]

DurableNext ==
  \/ Refuse
  \/ \E batch \in Batches : PutLeaves(batch) \/ PutLeavesFails(batch)
  \/ PutParents
  \/ PutParentsFails
  \/ Sync
  \/ Close
  \/ Crash
  \/ Open

DurableSpec == DurableInit /\ [][DurableNext]_durableVars

-----------------------------------------------------------------------------
(* Properties of every execution, store errors and lost puts included. *)

\* The database is the store the tree takes it for: after every put, failure,
\* crash and reopening it holds the nodes module Store says, the cached count
\* is the tree's, and it is the stored one although SQLite writes it with
\* leaves only.
StoreSeen ==
  /\ \A l \in Levels : \A i \in 0..(Capacity - 1) :
       Kv!Get(l, i) = IF i \in DOMAIN nodes[l] THEN nodes[l][i] ELSE None
  /\ cached \in {None, numLeaves}
  /\ Kv!CacheCoherent

\* Whatever a crash loses, the count found covers every leaf found, and a
\* database without leaves has no nodes: clearing it, or not, is all the same.
CountFitsNodes == Kv!LeavesCounted /\ Kv!NothingToClear

\* However many puts are lost, between two calls or inside one, and whatever is
\* appended afterwards: as long as the tree is sound left of its frontier, its
\* root is that of the leaves of the calls the database holds in full.
RootOfWholeCalls ==
  SoundLeftOf(Frontier) => Root = ReferenceRoot(SubSeq(StoredLeaves, 1, Last(ends)))

\* What is synced is final: a node over leaves of calls the oldest recoverable
\* database holds in full is the same after every append, failure and crash.
SyncedNodesFinal ==
  [][ \A l \in Levels : \A i \in 0..(Shr(ends[1], l) - 1) :
        LET synced == history[1].nodes[l] IN
        /\ (i \in DOMAIN nodes[l])' <=> i \in DOMAIN synced
        /\ i \in DOMAIN nodes'[l] => nodes'[l][i] = synced[i] ]_durableVars
=============================================================================
