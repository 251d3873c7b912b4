------------------------------- MODULE KvStore -------------------------------
(***************************************************************************)
(* The three stores over a database: sled, RocksDB and SQLite.  A put is   *)
(* one atomic batch or transaction that holds the nodes and the number of  *)
(* leaves, of which the handle keeps a copy in memory.  The database       *)
(* syncs in the background; a crash may lose any number of the batches     *)
(* committed last, also ones whose put has returned.  Opening a database   *)
(* whose leaf count is zero clears it, except for RocksDB.                 *)
(*                                                                         *)
(* There is one handle at a time.  Its caller is the tree of module        *)
(* DurableTree.                                                            *)
(***************************************************************************)
EXTENDS Integers, Sequences, SequencesExt

CONSTANTS
  None,       \* no count stored, no node stored, or no handle open
  TopLevel,   \* the highest level
  MaxLost,    \* bound: how many batches a crash may lose
  Backends    \* the databases considered, of "sled", "rocksdb", "sqlite"

VARIABLES
  backend,    \* which store this is; never changes
  history,    \* the database after each batch not known to be synced; the
              \* first is what is synced, the last what is read
  numLeaves,  \* handle: the cached leaf count, None while there is no handle
  outcome     \* what the last put returned

vars == <<backend, history, numLeaves, outcome>>

Levels == 0..TopLevel

-----------------------------------------------------------------------------
(* The database: nodes by level and index, and the value of NUM_LEAVES. *)

Empty == [nodes |-> [l \in Levels |-> [i \in {} |-> None]], count |-> None]
Db == Last(history)

\* A key that is not there is a node that is not there.
Get(l, i) == IF i \in DOMAIN Db.nodes[l] THEN Db.nodes[l][i] ELSE None

\* A missing count is read as zero.
CountOf(db) == IF db.count = None THEN 0 ELSE db.count

\* Wrong: keys by the position in the run, without its start.
WithRunAtZero(db, c) ==
  [db EXCEPT !.nodes[c.level] =
     [i \in DOMAIN @ \cup 0..(Len(c.run) - 1) |->
        IF i < Len(c.run) THEN c.run[i + 1] ELSE @[i]]]

\* The nodes of the run under the keys of its positions.
WithRun(db, c) ==
  LET run == c.start..(c.start + Len(c.run) - 1) IN
  [db EXCEPT !.nodes[c.level] =
     [i \in DOMAIN @ \cup run |-> IF i \in run THEN c.run[i - c.start + 1] ELSE @[i]]]

\* The cached count once the put of c has been committed.
CountAfter(c) ==
  LET end == c.start + Len(c.run) IN
  IF c.level = 0 /\ end > numLeaves THEN end ELSE numLeaves

\* sled and RocksDB store the count with every run, SQLite with leaves only.
StoresCount(c) == backend # "sqlite" \/ c.level = 0

\* Wrong: the nodes are one batch and the count another.
CountOnItsOwn(c) ==
  << WithRun(Db, c),
     [WithRun(Db, c) EXCEPT !.count = IF StoresCount(c) THEN CountAfter(c) ELSE @] >>

\* The states of the database that committing a put goes through.
Committed(c) ==
  << [WithRun(Db, c) EXCEPT !.count = IF StoresCount(c) THEN CountAfter(c) ELSE @] >>

\* Wrong: the cache is updated before the batch is committed.
CountedAnyway(c) == CountAfter(c)

\* The cached count when the commit fails.
CountOnError(c) == numLeaves

-----------------------------------------------------------------------------
Init ==
  /\ backend \in Backends
  /\ history = <<Empty>>
  /\ numLeaves = None
  /\ outcome = "Ok"

\* sled and SQLite: a database without leaves is cleared.
OpenAndClear ==
  /\ backend \in {"sled", "sqlite"}
  /\ numLeaves = None
  /\ Len(history) <= MaxLost
  /\ numLeaves' = CountOf(Db)
  /\ history' = IF CountOf(Db) = 0 THEN Append(history, Empty) ELSE history
  /\ UNCHANGED <<backend, outcome>>

\* RocksDB: a database without leaves is flushed instead.
OpenAndFlush ==
  /\ backend = "rocksdb"
  /\ numLeaves = None
  /\ numLeaves' = CountOf(Db)
  /\ history' = IF CountOf(Db) = 0 THEN <<Db>> ELSE history
  /\ UNCHANGED <<backend, outcome>>

\* A handle is open, and one batch more stays within the bound.
Enabled == numLeaves # None /\ Len(history) <= MaxLost

Put(c) ==
  /\ Enabled
  /\ history' = history \o Committed(c)
  /\ numLeaves' = CountAfter(c)
  /\ outcome' = "Ok"
  /\ UNCHANGED backend

\* apply_batch, write or commit returns an error: nothing is committed.
PutFails(c) ==
  /\ Enabled
  /\ numLeaves' = CountOnError(c)
  /\ outcome' = "StoreError"
  /\ UNCHANGED <<backend, history>>

\* The database syncs some of the batches, in the order they were committed.
Sync ==
  /\ \E k \in 2..Len(history) : history' = SubSeq(history, k, Len(history))
  /\ UNCHANGED <<backend, numLeaves, outcome>>

\* The handle is dropped, or the process dies: what it committed stays.
Close ==
  /\ numLeaves # None
  /\ numLeaves' = None
  /\ UNCHANGED <<backend, history, outcome>>

\* Wrong: the batches of the highest level are kept although others are lost.
TopKept(k) == [history[k] EXCEPT !.nodes[TopLevel] = Db.nodes[TopLevel]]

\* The database after its first batches: none survives one before it that is lost.
Survivor(k) == history[k]

\* The machine dies: a suffix of the batches is lost.
Crash ==
  /\ \E k \in 1..Len(history) : history' = <<Survivor(k)>>
  /\ numLeaves' = None
  /\ UNCHANGED <<backend, outcome>>

-----------------------------------------------------------------------------
(* Properties of every execution, lost batches included. *)

\* The cached count is the stored one whenever there is a handle, after failed
\* puts, puts of inner nodes and reopening alike.
CacheCoherent == numLeaves # None => numLeaves = CountOf(Db)

\* Whatever a crash loses, the count found afterwards covers every leaf found,
\* and the last leaf it counts is there.
LeavesCounted ==
  \A k \in DOMAIN history :
    LET db == history[k] IN
    /\ \A i \in DOMAIN db.nodes[0] : i < CountOf(db)
    /\ CountOf(db) > 0 => CountOf(db) - 1 \in DOMAIN db.nodes[0]

\* Whatever a crash loses, a database without leaves has no inner nodes either:
\* clearing it "just in case" deletes nothing, and RocksDB may skip it.
NothingToClear ==
  \A k \in DOMAIN history :
    CountOf(history[k]) = 0 => \A l \in Levels : DOMAIN history[k].nodes[l] = {}
=============================================================================
